--------------------------- MODULE CostReconcile ---------------------------
(***************************************************************************)
(* The operator command that binds a provider's billing row to a Modal     *)
(* call and its job (scripts/modal-reconcile-cost.mjs), beside the worker  *)
(* transactions that write the same job columns: recording a new call and  *)
(* scheduling a retry both clear the job's cost.  Each transaction is      *)
(* serializable and touches the job row, so each is one step.              *)
(***************************************************************************)
EXTENDS Naturals

CONSTANTS Calls,        \* provider call ids the job may be given
          Authorities,  \* billing report and amount, as one value
          MaxAttempts,  \* max_attempts of the job
          Null          \* SQL's NULL

VARIABLES job,     \* status, attempts, current call, cost columns
          calls,   \* job_provider_calls: call -> recorded cost, or "unknown"
          events,  \* call -> provider-cost-reconciled events that name it
          reply    \* what the last run of the command answered

costVars == <<job, calls, events, reply>>

CostTypeOK ==
  /\ job \in [status : {"queued", "running", "failed", "succeeded"}, attempts : 0..MaxAttempts,
              call : Calls \cup {Null}, cost : Authorities \cup {Null}]
  /\ calls \in [Calls -> {"unknown", Null} \cup Authorities]
  /\ events \in [Calls -> Nat]
  /\ reply = Null \/ reply \in Calls \X Authorities \X {"applied", "replayed", "refused"}

CostInit ==
  /\ job = [status |-> "queued", attempts |-> 0, call |-> Null, cost |-> Null]
  /\ calls = [c \in Calls |-> "unknown"]
  /\ events = [c \in Calls |-> 0]
  /\ reply = Null

ClaimOne ==
  /\ job.status = "queued" /\ job.attempts < MaxAttempts
  /\ job' = [job EXCEPT !.status = "running", !.attempts = @ + 1]
  /\ UNCHANGED <<calls, events, reply>>

_record_provider_call(c) ==
  /\ job.status = "running" /\ job.call = Null
  /\ calls[c] = "unknown"
  /\ job' = [job EXCEPT !.call = c, !.cost = Null]
  /\ calls' = [calls EXCEPT ![c] = Null]
  /\ UNCHANGED <<events, reply>>

(* mark_failed: below the ceiling the job is queued again, without its     *)
(* call and cost unless the call may still be running (preserve).          *)
mark_failed(preserve) ==
  /\ job.status = "running"
  /\ job' = IF job.attempts = MaxAttempts THEN [job EXCEPT !.status = "failed"]
            ELSE IF preserve THEN [job EXCEPT !.status = "queued"]
            ELSE [job EXCEPT !.status = "queued", !.call = Null, !.cost = Null]
  /\ UNCHANGED <<calls, events, reply>>

mark_succeeded ==
  /\ job.status = "running"
  /\ job' = [job EXCEPT !.status = "succeeded"]
  /\ UNCHANGED <<calls, events, reply>>

hasExisting(c) == job.cost # Null \/ calls[c] # Null

(* The event counts whichever call it was written for.                     *)
Same(c, a) == job.cost = a /\ calls[c] = a /\ \E d \in Calls : events[d] > 0

reconcile(c, a) ==
  /\ calls[c] # "unknown"
  /\ IF hasExisting(c)
     THEN /\ reply' = <<c, a, IF Same(c, a) THEN "replayed" ELSE "refused">>
          /\ UNCHANGED <<job, calls, events>>
     ELSE /\ job' = [job EXCEPT !.cost = a]
          /\ calls' = [calls EXCEPT ![c] = a]
          /\ events' = [events EXCEPT ![c] = @ + 1]
          /\ reply' = <<c, a, "applied">>

CostNext ==
  \/ ClaimOne
  \/ mark_succeeded
  \/ \E preserve \in BOOLEAN : mark_failed(preserve)
  \/ \E c \in Calls : \/ _record_provider_call(c)
                      \/ \E a \in Authorities : reconcile(c, a)

CostSpec == CostInit /\ [][CostNext]_costVars

-----------------------------------------------------------------------------
(***************************************************************************)
(* One authority per call: the cost recorded for a call is never replaced, *)
(* by another report or by a retry of the job, and exactly one event was   *)
(* written for it (the guard of modal-reconcile-cost.mjs).                 *)
(***************************************************************************)
CallCostFinal ==
  \A c \in Calls : calls[c] \in Authorities => calls'[c] = calls[c]

EventPerReconciledCall ==
  \A c \in Calls : events[c] = IF calls[c] \in Authorities THEN 1 ELSE 0
=============================================================================
