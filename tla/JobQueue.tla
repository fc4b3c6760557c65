------------------------------ MODULE JobQueue ------------------------------
(***************************************************************************)
(* The durable job queue: the jobs table with its attempt rows             *)
(* (job_observability_attempts), provider-call rows (job_provider_calls)   *)
(* and job_events, the Python workers that claim and settle jobs           *)
(* (workers/forge_workers/queue.py), the Modal training adapter they call  *)
(* (modal_adapter.py), and the two gateway transactions that cancel jobs   *)
(* (cancelOwnedJob, applyWithdrawal).                                      *)
(*                                                                         *)
(* Each database transaction is one action.  What a worker does between    *)
(* two transactions is visible as the value of pc, so other workers, the   *)
(* gateway, the provider, the clock and a crash may come in between.       *)
(*                                                                         *)
(* Time is abstracted to two predicates on a job: `live' is                *)
(* lease_expires_at > now() and `due' is available_at <= now().  A lease   *)
(* token is fresh and random for every claim, and so is a provider call    *)
(* for every attempt that spawns one; both are named by the number of the  *)
(* attempt that made them, 0 standing for NULL.                            *)
(***************************************************************************)
EXTENDS Naturals, FiniteSets

CONSTANTS
    Jobs,         \* job ids
    Modal,        \* jobs with provider 'modal': train.policy on the Modal backend
    Consented,    \* jobs whose input names a subject whose consent can be withdrawn
    Workers,      \* worker processes
    MaxAttempts,  \* jobs.max_attempts
    NoJob         \* an idle worker's job

ASSUME ModalAssumption == Modal \subseteq Jobs
ASSUME ConsentedAssumption == Consented \subseteq Jobs
ASSUME AttemptsAssumption == MaxAttempts \in Nat \ {0}
ASSUME NoJobAssumption == NoJob \notin Jobs

VARIABLES
    \* the jobs row
    status, attempts, lease, live, due, callId, refunded,
    \* rows keyed by (job, attempt), the event log, the published artifacts
    row, callRow, events, artifacts,
    \* outside Postgres: provider calls and the policy object of a job
    remote, stored,
    \* each worker: where it is in run_once, and the Job value it holds
    pc, job, att, call, code

jobVars == <<status, attempts, lease, live, due, callId, refunded>>
sideVars == <<row, callRow, events, artifacts>>
outsideVars == <<remote, stored>>
workerVars == <<pc, job, att, call, code>>
vars == <<jobVars, sideVars, outsideVars, workerVars>>

Attempts == 1..MaxAttempts
Tokens == 0..MaxAttempts

Statuses == {"queued", "running", "succeeded", "failed", "cancelled"}
Terminal == {"succeeded", "failed", "cancelled"}
RowOutcomes == {"none", "running", "succeeded", "failed", "retry-scheduled",
                "expired", "cancelled"}
CallStatuses == {"none", "submitted", "succeeded", "failed", "cancelled",
                 "cancellation-requested"}
RemoteStates == {"none", "active", "done", "terminated"}
EventNames == {"started", "retry-scheduled", "succeeded", "failed",
               "cancelled", "discarded"}
\* What a worker carries to its next transaction: the kind of retryable error
\* it caught, or the event it has still to record.
Codes == {"none", "provider-recovery-pending", "retryable"} \cup EventNames

PCs == {"idle", "claimed", "dispatched", "spawned", "unpersisted", "polling",
        "waiting", "cancelling", "callCancelled", "returned", "authorized",
        "uploaded", "failing", "retrying", "reporting"}

\* A busy worker holds a job and a token; one that waits for a provider call, or is
\* about to report, knows which call and which event.
WorkersWellFormed ==
    \A w \in Workers :
        /\ pc[w] # "idle" => job[w] \in Jobs /\ att[w] \in Attempts
        /\ pc[w] \in {"polling", "waiting", "cancelling", "callCancelled"} =>
              call[w] \in Attempts
        /\ pc[w] = "reporting" => code[w] \in EventNames

JobTypes ==
    /\ status \in [Jobs -> Statuses]
    /\ attempts \in [Jobs -> Tokens]
    /\ lease \in [Jobs -> Tokens]
    /\ live \in [Jobs -> BOOLEAN]
    /\ due \in [Jobs -> BOOLEAN]
    /\ callId \in [Jobs -> Tokens]
    /\ refunded \in [Jobs -> BOOLEAN]

SideTypes ==
    /\ row \in [Jobs -> [Attempts -> RowOutcomes]]
    /\ callRow \in [Jobs -> [Attempts -> CallStatuses]]
    /\ events \in [Jobs -> [EventNames -> Nat]]
    /\ artifacts \in [Jobs -> Nat]

OutsideTypes ==
    /\ remote \in [Jobs -> [Attempts -> RemoteStates]]
    /\ stored \in [Jobs -> BOOLEAN]

WorkerTypes ==
    /\ pc \in [Workers -> PCs]
    /\ job \in [Workers -> Jobs \cup {NoJob}]
    /\ att \in [Workers -> Tokens]
    /\ call \in [Workers -> Tokens]
    /\ code \in [Workers -> Codes]
    /\ WorkersWellFormed

TypeOK == JobTypes /\ SideTypes /\ OutsideTypes /\ WorkerTypes

\* createJob inserts a job queued and available now; its Modal debit is taken.
Init ==
    /\ status = [j \in Jobs |-> "queued"]
    /\ attempts = [j \in Jobs |-> 0]
    /\ lease = [j \in Jobs |-> 0]
    /\ live = [j \in Jobs |-> FALSE]
    /\ due = [j \in Jobs |-> TRUE]
    /\ callId = [j \in Jobs |-> 0]
    /\ refunded = [j \in Jobs |-> FALSE]
    /\ row = [j \in Jobs |-> [a \in Attempts |-> "none"]]
    /\ callRow = [j \in Jobs |-> [a \in Attempts |-> "none"]]
    /\ events = [j \in Jobs |-> [e \in EventNames |-> 0]]
    /\ artifacts = [j \in Jobs |-> 0]
    /\ remote = [j \in Jobs |-> [a \in Attempts |-> "none"]]
    /\ stored = [j \in Jobs |-> FALSE]
    /\ pc = [w \in Workers |-> "idle"]
    /\ job = [w \in Workers |-> NoJob]
    /\ att = [w \in Workers |-> 0]
    /\ call = [w \in Workers |-> 0]
    /\ code = [w \in Workers |-> "none"]

-----------------------------------------------------------------------------
(* Helpers *)

\* Mutant of Authority: only `if not job.lease_token' is checked.
AuthorityUnchecked(j, token) == token # 0

\* Mutant of Authority: compares the attempt number instead of the live lease.
AuthorityByAttempt(j, token) == attempts[j] = token

\* The fence of every settling transaction: status = 'running' AND
\* lease_token = the worker's token AND lease_expires_at > now().
Authority(j, token) == status[j] = "running" /\ lease[j] = token /\ live[j]

Holds(w) == Authority(job[w], att[w])

Goto(w, label) ==
    /\ pc' = [pc EXCEPT ![w] = label]
    /\ UNCHANGED <<job, att, call, code>>

\* An exception of kind c leaves the handler, or an event c is due.
GotoWith(w, label, c) ==
    /\ pc' = [pc EXCEPT ![w] = label]
    /\ code' = [code EXCEPT ![w] = c]
    /\ UNCHANGED <<job, att, call>>

Release(w) ==
    /\ pc' = [pc EXCEPT ![w] = "idle"]
    /\ job' = [job EXCEPT ![w] = NoJob]
    /\ att' = [att EXCEPT ![w] = 0]
    /\ call' = [call EXCEPT ![w] = 0]
    /\ code' = [code EXCEPT ![w] = "none"]

\* jobs after a transaction that ends job j's lease with status s.
Settle(j, s) ==
    /\ status' = [status EXCEPT ![j] = s]
    /\ lease' = [lease EXCEPT ![j] = 0]
    /\ live' = [live EXCEPT ![j] = FALSE]

\* Mutant of CloseRow: the attempt row is forgotten.
CloseRowForgotten(j, a, outcome) == UNCHANGED row

\* Close the attempt row of attempt a if it is still running.
CloseRow(j, a, outcome) ==
    row' = [row EXCEPT ![j] = [b \in Attempts |->
                IF b = a /\ row[j][b] = "running" THEN outcome ELSE row[j][b]]]

\* Give the call rows of job j's attempts in A the status s.
SetCalls(j, A, s) ==
    callRow' = [callRow EXCEPT ![j] = [a \in Attempts |->
                    IF a \in A THEN s ELSE callRow[j][a]]]

\* The attempts of job j, among those in A, whose call is still open.
SubmittedIn(j, A) == {a \in Attempts : a \in A /\ callRow[j][a] = "submitted"}

LogEvent(j, e) == events' = [events EXCEPT ![j][e] = @ + 1]

-----------------------------------------------------------------------------
(* claim_one *)

\* Mutant of Exhausted: the first statement of claim_one is dropped.
ExhaustedNever == {}

\* Crashed on the last attempt: failed by whichever worker claims next.
Exhausted == {j \in Jobs : /\ status[j] = "running" /\ ~live[j]
                           /\ attempts[j] >= MaxAttempts}

\* Mutant of Eligible: the attempt ceiling is not part of the claim.
EligibleBeyondCeiling == {j \in Jobs : \/ status[j] = "queued" /\ due[j]
                                       \/ status[j] = "running" /\ ~live[j]}

\* SKIP LOCKED passes over a row another transaction holds, so whatever the
\* ORDER BY prefers, any eligible job may be the one a worker gets.
Eligible == {j \in Jobs : /\ attempts[j] < MaxAttempts
                          /\ \/ status[j] = "queued" /\ due[j]
                             \/ status[j] = "running" /\ ~live[j]}

\* C is {} or the singleton of the job claimed.
ClaimTransaction(C) ==
    /\ status' = [j \in Jobs |-> IF j \in Exhausted THEN "failed"
                                 ELSE IF j \in C THEN "running" ELSE status[j]]
    /\ attempts' = [j \in Jobs |-> IF j \in C THEN attempts[j] + 1 ELSE attempts[j]]
    /\ lease' = [j \in Jobs |-> IF j \in Exhausted THEN 0
                                ELSE IF j \in C THEN attempts[j] + 1 ELSE lease[j]]
    /\ live' = [j \in Jobs |-> j \in C \/ live[j]]
    /\ row' = [j \in Jobs |-> [a \in Attempts |->
                 IF a = attempts[j] /\ row[j][a] = "running" /\ j \in Exhausted
                 THEN "failed"
                 ELSE IF a = attempts[j] /\ row[j][a] = "running" /\ j \in C
                      THEN "expired"
                 ELSE IF a = attempts[j] + 1 /\ j \in C THEN "running"
                 ELSE row[j][a]]]
    /\ events' = [j \in Jobs |-> [e \in EventNames |->
                    IF j \in Exhausted /\ e = "failed"
                    THEN events[j][e] + 1 ELSE events[j][e]]]
    /\ UNCHANGED <<due, callId, refunded, callRow, artifacts, outsideVars>>

ClaimOne(w, j) ==
    /\ pc[w] = "idle"
    /\ j \in Eligible
    /\ ClaimTransaction({j})
    /\ pc' = [pc EXCEPT ![w] = "claimed"]
    /\ job' = [job EXCEPT ![w] = j]
    /\ att' = [att EXCEPT ![w] = attempts[j] + 1]
    /\ call' = [call EXCEPT ![w] = callId[j]]
    /\ UNCHANGED code

\* claim_one finds nothing to claim, but its first statement has taken effect.
SweepOnly(w) ==
    /\ pc[w] = "idle"
    /\ Eligible = {}
    /\ Exhausted # {}
    /\ ClaimTransaction({})
    /\ UNCHANGED workerVars

RecordStarted(w) ==
    /\ pc[w] = "claimed"
    /\ LogEvent(job[w], "started")
    /\ Goto(w, "dispatched")
    /\ UNCHANGED <<jobVars, row, callRow, artifacts, outsideVars>>

-----------------------------------------------------------------------------
(* dispatch: the handler *)

\* A handler that makes no provider call returns its output ...
HandlerReturns(w) ==
    /\ pc[w] = "dispatched"
    /\ job[w] \notin Modal
    /\ Goto(w, "returned")
    /\ UNCHANGED <<jobVars, sideVars, outsideVars>>

\* ... or raises a retryable error (timeout, rate limit, provider unavailable).
HandlerRaisesRetryable(w) ==
    /\ pc[w] = "dispatched"
    /\ job[w] \notin Modal
    /\ GotoWith(w, "retrying", "retryable")
    /\ UNCHANGED <<jobVars, sideVars, outsideVars>>

\* Any other exception: no handler, a bundle that does not compile, a
\* deployment identity that does not match the persisted call.
HandlerRaises(w) ==
    /\ pc[w] = "dispatched"
    /\ Goto(w, "failing")
    /\ UNCHANGED <<jobVars, sideVars, outsideVars>>

SpawnCall(w) ==
    /\ pc[w] = "dispatched"
    /\ job[w] \in Modal
    /\ call[w] = 0
    /\ remote' = [remote EXCEPT ![job[w]][att[w]] = "active"]
    /\ Goto(w, "spawned")
    /\ UNCHANGED <<jobVars, sideVars, stored>>

\* call_sink: persist the call under the current lease, or learn that it is lost.
RecordProviderCall(w) ==
    /\ pc[w] = "spawned"
    /\ LET j == job[w] IN
       \/ /\ Holds(w) /\ callId[j] = 0
          /\ callId' = [callId EXCEPT ![j] = att[w]]
          /\ callRow' = [callRow EXCEPT ![j][att[w]] = "submitted"]
          /\ pc' = [pc EXCEPT ![w] = "polling"]
          /\ call' = [call EXCEPT ![w] = att[w]]
          /\ UNCHANGED <<job, att, code>>
       \/ /\ ~(Holds(w) /\ callId[j] = 0)
          /\ Goto(w, "unpersisted")
          /\ UNCHANGED <<callId, callRow>>
    /\ UNCHANGED <<status, attempts, lease, live, due, refunded, row, events,
                   artifacts, outsideVars>>

\* The call whose id could not be persisted is cancelled (cancelled_sink finds no
\* row to change) and the error goes on to mark_failed; so does an error
\* of call.cancel itself, which leaves the provider call running.
CancelUnpersisted(w) ==
    /\ pc[w] = "unpersisted"
    /\ \/ remote' = [remote EXCEPT ![job[w]][att[w]] =
                        IF @ = "active" THEN "terminated" ELSE @]
       \/ UNCHANGED remote
    /\ Goto(w, "failing")
    /\ UNCHANGED <<jobVars, sideVars, stored>>

\* A claim that found a persisted call id resumes that call, or cannot reach it.
ReattachCall(w) ==
    /\ pc[w] = "dispatched"
    /\ job[w] \in Modal
    /\ call[w] # 0
    /\ \/ Goto(w, "polling")
       \/ GotoWith(w, "retrying", "provider-recovery-pending")
    /\ UNCHANGED <<jobVars, sideVars, outsideVars>>

\* cancellation_requested(): the top of the polling loop.  The adapter's own
\* deadline lies past the lease's expiry, and is met with the same steps.
PollAuthority(w) ==
    /\ pc[w] = "polling"
    /\ Goto(w, IF Holds(w) THEN "waiting" ELSE "cancelling")
    /\ UNCHANGED <<jobVars, sideVars, outsideVars>>

\* call.get(timeout): not yet; a result; a result that fails its evidence
\* check; or an error, which is ambiguous whatever the call's real state.
GetCall(w) ==
    /\ pc[w] = "waiting"
    /\ \/ /\ remote[job[w]][call[w]] = "active"
          /\ Goto(w, "polling")
       \/ /\ remote[job[w]][call[w]] = "done"
          /\ \/ Goto(w, "returned")
             \/ Goto(w, "failing")
       \/ GotoWith(w, "retrying", "provider-recovery-pending")
    /\ UNCHANGED <<jobVars, sideVars, outsideVars>>

\* call.cancel(terminate_containers=True); it may itself raise.
CancelCall(w) ==
    /\ pc[w] = "cancelling"
    /\ \/ /\ remote' = [remote EXCEPT ![job[w]][call[w]] =
                          IF @ = "active" THEN "terminated" ELSE @]
          /\ Goto(w, "callCancelled")
       \/ /\ Goto(w, "failing")
          /\ UNCHANGED remote
    /\ UNCHANGED <<jobVars, sideVars, stored>>

\* cancelled_sink: not fenced by the lease.
RecordProviderCancelled(w) ==
    /\ pc[w] = "callCancelled"
    /\ callRow' = [callRow EXCEPT ![job[w]][call[w]] =
                      IF @ = "none" THEN @ ELSE "cancelled"]
    /\ GotoWith(w, "retrying", "retryable")
    /\ UNCHANGED <<jobVars, row, events, artifacts, outsideVars>>

-----------------------------------------------------------------------------
(* mark_succeeded, mark_failed, mark_retryable, record_event *)

CheckAuthority(w) ==
    /\ pc[w] = "returned"
    /\ \/ Holds(w) /\ Goto(w, "authorized")
       \/ ~Holds(w) /\ GotoWith(w, "reporting", "discarded")
    /\ UNCHANGED <<jobVars, sideVars, outsideVars>>

\* Mutant of StorePolicy: an upload that failed part-way counts as stored.
StorePolicyUnverified(w) ==
    /\ pc[w] = "authorized"
    /\ job[w] \in Modal
    /\ stored' \in {stored, [stored EXCEPT ![job[w]] = TRUE]}
    /\ Goto(w, "uploaded")
    /\ UNCHANGED <<jobVars, sideVars, remote>>

\* A policy output is put in object storage before the transaction: stored and
\* read back, an upload that fails part-way, or an output that is refused.
StorePolicy(w) ==
    /\ pc[w] = "authorized"
    /\ job[w] \in Modal
    /\ \/ /\ stored' = [stored EXCEPT ![job[w]] = TRUE]
          /\ Goto(w, "uploaded")
       \/ /\ stored' \in {stored, [stored EXCEPT ![job[w]] = TRUE]}
          /\ GotoWith(w, "retrying", "retryable")
       \/ /\ Goto(w, "failing")
          /\ UNCHANGED stored
    /\ UNCHANGED <<jobVars, sideVars, remote>>

\* The success transaction: fence, attempt row, call row, materialisation.
CommitSuccess(w) ==
    /\ pc[w] = (IF job[w] \in Modal THEN "uploaded" ELSE "authorized")
    /\ LET j == job[w] IN
       \/ /\ Holds(w)
          /\ Settle(j, "succeeded")
          /\ CloseRow(j, att[w], "succeeded")
          /\ SetCalls(j, {a \in {call[w]} : a # 0 /\ callRow[j][a] # "none"}, "succeeded")
          /\ artifacts' = [artifacts EXCEPT ![j] = @ + 1]
          /\ GotoWith(w, "reporting", "succeeded")
       \/ /\ Holds(w)       \* materialisation raises: rolled back, then mark_failed
          /\ Goto(w, "failing")
          /\ UNCHANGED <<status, lease, live, row, callRow, artifacts>>
       \/ /\ ~Holds(w)
          /\ GotoWith(w, "reporting", "discarded")
          /\ UNCHANGED <<status, lease, live, row, callRow, artifacts>>
    /\ UNCHANGED <<attempts, due, callId, refunded, events, outsideVars>>

MarkFailed(w) ==
    /\ pc[w] = "failing"
    /\ LET j == job[w] IN
       \/ /\ Holds(w)
          /\ Settle(j, "failed")
          /\ CloseRow(j, att[w], "failed")
          /\ SetCalls(j, SubmittedIn(j, Attempts), "failed")
          /\ GotoWith(w, "reporting", "failed")
       \/ /\ ~Holds(w)
          /\ GotoWith(w, "reporting", "discarded")
          /\ UNCHANGED <<status, lease, live, row, callRow>>
    /\ UNCHANGED <<attempts, due, callId, refunded, events, artifacts, outsideVars>>

\* Mutant of PreservesCall: every retry discards the persisted call.
PreservesCallNever(w) == FALSE

PreservesCall(w) == code[w] = "provider-recovery-pending"

\* preserve_provider_call keeps the call id and its 'submitted' row for recovery.
MarkRetryable(w) ==
    /\ pc[w] = "retrying"
    /\ LET j == job[w]
           preserve == PreservesCall(w)
           again == attempts[j] < MaxAttempts
       IN
       \/ /\ Holds(w)
          /\ Settle(j, IF again THEN "queued" ELSE "failed")
          /\ due' = [due EXCEPT ![j] = IF again THEN FALSE ELSE @]
          /\ callId' = [callId EXCEPT ![j] = IF again /\ ~preserve THEN 0 ELSE @]
          /\ CloseRow(j, att[w], IF again THEN "retry-scheduled" ELSE "failed")
          /\ SetCalls(j, IF preserve THEN {} ELSE SubmittedIn(j, {att[w], call[w]}),
                      "failed")
          /\ GotoWith(w, "reporting", IF again THEN "retry-scheduled" ELSE "failed")
       \/ /\ ~Holds(w)
          /\ GotoWith(w, "reporting", "discarded")
          /\ UNCHANGED <<status, lease, live, due, callId, row, callRow>>
    /\ UNCHANGED <<attempts, refunded, events, artifacts, outsideVars>>

RecordOutcome(w) ==
    /\ pc[w] = "reporting"
    /\ LogEvent(job[w], code[w])
    /\ Release(w)
    /\ UNCHANGED <<jobVars, row, callRow, artifacts, outsideVars>>

\* A worker process dies (or run_forever is ended by a database error) between
\* two of its steps, and is restarted.
Crash(w) ==
    /\ pc[w] # "idle"
    /\ Release(w)
    /\ UNCHANGED <<jobVars, sideVars, outsideVars>>

-----------------------------------------------------------------------------
(* The gateway, the clock and the provider *)

\* Mutant of Cancellable: only the idempotence check is left.
CancellableUnlessCancelled(j) == status[j] # "cancelled"

Cancellable(j) == status[j] \in {"queued", "running"}

\* cancelOwnedJob: one serializable transaction on the locked row.
CancelOwnedJob(j) ==
    /\ Cancellable(j)
    /\ refunded' = [refunded EXCEPT ![j] = @ \/ (j \in Modal /\ artifacts[j] = 0)]
    /\ Settle(j, "cancelled")
    /\ IF status[j] = "running" THEN CloseRow(j, attempts[j], "cancelled")
                                ELSE UNCHANGED row
    /\ SetCalls(j, SubmittedIn(j, {callId[j]}), "cancellation-requested")
    /\ LogEvent(j, "cancelled")
    /\ UNCHANGED <<attempts, due, callId, artifacts, outsideVars, workerVars>>

\* applyWithdrawal: the jobs row only; no attempt row, no call row, no event.
WithdrawConsent(j) ==
    /\ j \in Consented
    /\ status[j] \in {"queued", "running"}
    /\ Settle(j, "cancelled")
    /\ UNCHANGED <<attempts, due, callId, refunded, sideVars, outsideVars, workerVars>>

LeaseExpires(j) ==
    /\ live[j]
    /\ live' = [live EXCEPT ![j] = FALSE]
    /\ UNCHANGED <<status, attempts, lease, due, callId, refunded, sideVars,
                   outsideVars, workerVars>>

BackoffElapses(j) ==
    /\ ~due[j]
    /\ due' = [due EXCEPT ![j] = TRUE]
    /\ UNCHANGED <<status, attempts, lease, live, callId, refunded, sideVars,
                   outsideVars, workerVars>>

ProviderFinishes(j, a) ==
    /\ remote[j][a] = "active"
    /\ remote' = [remote EXCEPT ![j][a] = "done"]
    /\ UNCHANGED <<jobVars, sideVars, stored, workerVars>>

-----------------------------------------------------------------------------
Claims(w) == SweepOnly(w) \/ \E j \in Jobs : ClaimOne(w, j)

Runs(w) ==
    \/ RecordStarted(w) \/ HandlerReturns(w) \/ HandlerRaisesRetryable(w)
    \/ HandlerRaises(w) \/ SpawnCall(w) \/ RecordProviderCall(w)
    \/ CancelUnpersisted(w) \/ ReattachCall(w) \/ PollAuthority(w) \/ GetCall(w)
    \/ CancelCall(w) \/ RecordProviderCancelled(w) \/ CheckAuthority(w)
    \/ StorePolicy(w) \/ CommitSuccess(w) \/ MarkFailed(w) \/ MarkRetryable(w)
    \/ RecordOutcome(w)

Next ==
    \/ \E w \in Workers : Claims(w) \/ Runs(w) \/ Crash(w)
    \/ \E j \in Jobs : \/ CancelOwnedJob(j) \/ WithdrawConsent(j)
                       \/ LeaseExpires(j) \/ BackoffElapses(j)
                       \/ \E a \in Attempts : ProviderFinishes(j, a)

Spec == Init /\ [][Next]_vars

\* Workers keep polling and keep running (run_forever), leases and backoffs
\* elapse with the clock.  Nothing obliges an owner to cancel, a worker to
\* crash or the provider ever to finish a call.
Fairness ==
    /\ \A w \in Workers : WF_vars(Claims(w)) /\ WF_vars(Runs(w))
    /\ \A j \in Jobs : WF_vars(LeaseExpires(j)) /\ WF_vars(BackoffElapses(j))

FairSpec == Spec /\ Fairness
-----------------------------------------------------------------------------
(* Properties *)

\* D38, "only that current unexpired lease may succeed, retry, fail": two workers
\* never both pass the fence of one job, whatever crashes, expiries and
\* reclaims have left several of them working on it.
OneAuthority ==
    \A v, w \in Workers :
        (v # w /\ pc[v] # "idle" /\ pc[w] # "idle" /\ job[v] = job[w])
            => ~(Holds(v) /\ Holds(w))

\* An attempt row is open exactly while its attempt is the running one.  The one
\* exception is a job cancelled by a consent withdrawal, which closes no row.
AttemptRowsFollowJob ==
    \A j \in Jobs, a \in Attempts :
        /\ (status[j] = "running" /\ a = attempts[j]) => row[j][a] = "running"
        /\ row[j][a] = "running" =>
              /\ a = attempts[j]
              /\ status[j] = "running" \/ (j \in Consented /\ status[j] = "cancelled")

\* D72, "the additive attempt row closes as succeeded, retry-scheduled, failed,
\* cancelled, or expired": no row stays open once its job has ended.
AttemptRowsClose ==
    \A j \in Jobs, a \in Attempts : status[j] \in Terminal => row[j][a] # "running"

\* Output is materialised at most once, exactly for succeeded jobs, and a policy's
\* row is never published before its bytes are in object storage.
PublishedOnce ==
    \A j \in Jobs :
        /\ artifacts[j] = (IF status[j] = "succeeded" THEN 1 ELSE 0)
        /\ (artifacts[j] > 0 /\ j \in Modal) => stored[j]

\* A refunded job never publishes: a worker that was uploading when the owner
\* cancelled cannot commit afterwards.
RefundedNeverPublishes == \A j \in Jobs : refunded[j] => artifacts[j] = 0

\* job_events holds at most one terminal event per job, and it names the job's
\* real end, although workers record it in a transaction after the
\* one that ended the job.
TerminalEventTruthful ==
    \A j \in Jobs :
        /\ \A e \in Terminal : events[j][e] <= 1 /\ (events[j][e] = 1 => status[j] = e)
        /\ events[j]["started"] <= attempts[j]

\* D46, "every ambiguous persisted result is recovery-only, never replacement
\* authority": of the calls persisted for a job at most one still runs.
NoReplacementCall ==
    \A j \in Jobs, a, b \in Attempts :
        (/\ a # b /\ callRow[j][a] # "none" /\ callRow[j][b] # "none"
         /\ remote[j][a] = "active")
            => remote[j][b] # "active"

\* A call row never claims more than the provider did: 'cancelled' is recorded after
\* the call was stopped, 'succeeded' only for a call that finished, and a
\* running call of a job that may still go on stays open in the table.
CallRowsTruthful ==
    \A j \in Jobs, a \in Attempts :
        /\ callRow[j][a] = "cancelled" => remote[j][a] \in {"done", "terminated"}
        /\ callRow[j][a] = "succeeded" => remote[j][a] = "done"
        /\ (remote[j][a] = "active" /\ callRow[j][a] # "none" /\ status[j] # "failed")
              => callRow[j][a] \in {"submitted", "cancellation-requested"}

\* What the database says of a job's provider calls is true, and nothing is paid for
\* twice: at most one persisted call runs and no row claims more than the provider did,
\* whatever lease loss, cancellation or retry came between spawn, persistence and result.
ProviderCallsTruthful == NoReplacementCall /\ CallRowsTruthful

\* D38, "terminal/exhausted work never silently requeues": nothing moves a job that
\* has ended, neither a late worker nor a cancel; nor do attempts go back.
TerminalIsFinal ==
    [][\A j \in Jobs :
         /\ status[j] \in Terminal =>
               /\ status'[j] = status[j] /\ artifacts'[j] = artifacts[j]
               /\ refunded'[j] = refunded[j] /\ attempts'[j] = attempts[j]
         /\ attempts'[j] \in {attempts[j], attempts[j] + 1}]_vars

(***************************************************************************)
(* Jobs that share their workers do not disturb each other: while one is   *)
(* swept, cancelled or retried in the transaction that claims another,     *)
(* each keeps one lease holder, one open attempt row, one artifact and the *)
(* terminal event of the status it ended with (claim_one, mark_succeeded,  *)
(* mark_retryable and mark_failed of queue.py).                            *)
(***************************************************************************)
JobsApart ==
    /\ OneAuthority
    /\ AttemptRowsFollowJob
    /\ PublishedOnce
    /\ RefundedNeverPublishes
    /\ TerminalEventTruthful

\* What is to happen in the end: a job has ended, and a worker no longer polls a
\* call of a job that was cancelled under it.
HasEnded(j) == status[j] \in Terminal
Polls(w) == pc[w] \in {"polling", "waiting"}
PollsCancelled(w) == Polls(w) /\ status[job[w]] = "cancelled"

\* A job seen by its owner: an output that is there counts as published, whatever
\* the status says, and a success without output as no phase at all.
Phase(j) ==
    CASE artifacts[j] > 0 -> "published"
      [] artifacts[j] = 0 /\ status[j] = "queued" -> "waiting"
      [] artifacts[j] = 0 /\ status[j] = "running" -> "attempting"
      [] OTHER -> status[j]

Lifecycle == INSTANCE JobLifecycle
    WITH phase <- [j \in Jobs |-> Phase(j)], tries <- attempts

\* The queue with its leases, crashes, recoveries and races implements the job
\* lifecycle: bounded attempts, one end, a refund only with a cancellation.
ImplementsLifecycle == Lifecycle!Spec
=============================================================================
