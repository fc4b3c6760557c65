---------------------------- MODULE JobLifecycle ----------------------------
(***************************************************************************)
(* What the job queue promises the owner of a job, without leases, tokens, *)
(* workers, provider calls or crashes: a job waits, is attempted a bounded *)
(* number of times, and ends exactly once, published, failed or cancelled; *)
(* it is refunded at most once, by a cancellation, and never when it has   *)
(* been published.  docs/DECISIONS.md D38 and D46 state these promises.    *)
(*                                                                         *)
(* One step may move several jobs, because the sweep that opens every      *)
(* claim fails all exhausted jobs in one transaction.                      *)
(***************************************************************************)
EXTENDS Naturals

CONSTANTS Jobs, MaxAttempts

VARIABLES phase, tries, refunded

vars == <<phase, tries, refunded>>

Phases == {"waiting", "attempting", "published", "failed", "cancelled"}

Init ==
    /\ phase = [j \in Jobs |-> "waiting"]
    /\ tries = [j \in Jobs |-> 0]
    /\ refunded = [j \in Jobs |-> FALSE]

\* A new attempt begins; an attempt whose worker was lost is simply superseded.
Begin(j) ==
    /\ phase[j] \in {"waiting", "attempting"}
    /\ tries[j] < MaxAttempts
    /\ phase'[j] = "attempting"
    /\ tries'[j] = tries[j] + 1
    /\ refunded'[j] = refunded[j]

\* The running attempt publishes, fails the job, or leaves it to another attempt.
Finish(j) ==
    /\ phase[j] = "attempting"
    /\ \/ phase'[j] \in {"published", "failed"}
       \/ phase'[j] = "waiting" /\ tries[j] < MaxAttempts
    /\ tries'[j] = tries[j]
    /\ refunded'[j] = refunded[j]

\* The owner, or the subject of the data, cancels; the debit may be given back.
Cancel(j) ==
    /\ phase[j] \in {"waiting", "attempting"}
    /\ phase'[j] = "cancelled"
    /\ tries'[j] = tries[j]
    /\ refunded'[j] \in BOOLEAN

Same(j) == /\ phase'[j] = phase[j] /\ tries'[j] = tries[j]
           /\ refunded'[j] = refunded[j]

Next ==
    /\ phase' \in [Jobs -> Phases]
    /\ tries' \in [Jobs -> Nat]
    /\ refunded' \in [Jobs -> BOOLEAN]
    /\ \A j \in Jobs : Begin(j) \/ Finish(j) \/ Cancel(j) \/ Same(j)

Spec == Init /\ [][Next]_vars
=============================================================================
