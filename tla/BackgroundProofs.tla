-------------------------- MODULE BackgroundProofs --------------------------
(***************************************************************************)
(* Machine-checked safety of what runs in the background of the durable    *)
(* tables: the job queue with its workers, for any number of jobs, workers *)
(* and attempts; and the data lifecycle, for any numbers of accounts,      *)
(* objects, backups and runners, any hold keys, and any retention windows  *)
(* that satisfy the schema's CHECK (tombstone_days > backup_max_days).     *)
(***************************************************************************)
EXTENDS JobQueue, DataLifecycle, FiniteSetTheorems, TLAPS

-----------------------------------------------------------------------------
(* How the helpers of the actions move a worker *)

LEMMA GotoTypes ==
    ASSUME WorkerTypes, NEW w \in Workers, pc[w] # "idle", NEW label \in PCs,
           label # "reporting",
           label \in {"polling", "waiting", "cancelling", "callCancelled"}
               => call[w] \in Attempts,
           Goto(w, label)
    PROVE  WorkerTypes'
  BY DEF WorkerTypes, WorkersWellFormed, Goto

LEMMA GotoWithTypes ==
    ASSUME WorkerTypes, NEW w \in Workers, pc[w] # "idle",
           NEW label \in {"retrying", "reporting"}, NEW c \in Codes,
           label = "reporting" => c \in EventNames,
           GotoWith(w, label, c)
    PROVE  WorkerTypes'
  BY DEF WorkerTypes, WorkersWellFormed, GotoWith, PCs

LEMMA ReleaseTypes ==
    ASSUME WorkerTypes, NEW w \in Workers, Release(w)
    PROVE  WorkerTypes'
  BY AttemptsAssumption DEF WorkerTypes, WorkersWellFormed, Release, PCs, Tokens, Codes

\* The codes a worker step hands over have the right type.
LEMMA CodeTypes ==
    /\ {"provider-recovery-pending", "retryable", "succeeded", "failed", "discarded",
        "retry-scheduled"} \subseteq Codes
    /\ {"succeeded", "failed", "discarded", "retry-scheduled"} \subseteq EventNames
  BY DEF Codes, EventNames

LEMMA WorkerTypesStep == TypeOK /\ [Next]_vars => WorkerTypes'
<1> SUFFICES ASSUME TypeOK, [Next]_vars PROVE WorkerTypes'
  OBVIOUS
<1> USE DEF TypeOK
<1>1. ASSUME NEW w \in Workers, NEW j \in Jobs, ClaimOne(w, j) PROVE WorkerTypes'
  <2>1. attempts[j] + 1 \in Attempts /\ callId[j] \in Tokens
    BY <1>1, AttemptsAssumption DEF ClaimOne, Eligible, JobTypes, Attempts, Tokens
  <2>2. attempts[j] + 1 \in Tokens
    BY <2>1, AttemptsAssumption DEF Attempts, Tokens
  <2> QED
    BY <1>1, <2>1, <2>2 DEF ClaimOne, WorkerTypes, WorkersWellFormed, PCs
<1>2. ASSUME NEW w \in Workers, SweepOnly(w) PROVE WorkerTypes'
  BY <1>2 DEF SweepOnly, workerVars, WorkerTypes, WorkersWellFormed
<1>3. ASSUME NEW w \in Workers, RecordStarted(w) PROVE WorkerTypes'
  BY <1>3, GotoTypes DEF RecordStarted, PCs
<1>4. ASSUME NEW w \in Workers, HandlerReturns(w) PROVE WorkerTypes'
  BY <1>4, GotoTypes DEF HandlerReturns, PCs
<1>5. ASSUME NEW w \in Workers, HandlerRaisesRetryable(w) PROVE WorkerTypes'
  BY <1>5, GotoWithTypes, CodeTypes DEF HandlerRaisesRetryable
<1>6. ASSUME NEW w \in Workers, HandlerRaises(w) PROVE WorkerTypes'
  BY <1>6, GotoTypes DEF HandlerRaises, PCs
<1>7. ASSUME NEW w \in Workers, SpawnCall(w) PROVE WorkerTypes'
  BY <1>7, GotoTypes DEF SpawnCall, PCs
<1>8. ASSUME NEW w \in Workers, RecordProviderCall(w) PROVE WorkerTypes'
  <2>1. CASE Goto(w, "unpersisted")
    BY <1>8, <2>1, GotoTypes DEF RecordProviderCall, PCs
  <2>2. CASE ~Goto(w, "unpersisted")
    <3>1. /\ pc' = [pc EXCEPT ![w] = "polling"]
          /\ call' = [call EXCEPT ![w] = att[w]]
          /\ UNCHANGED <<job, att, code>>
      BY <1>8, <2>2 DEF RecordProviderCall
    <3>2. job[w] \in Jobs /\ att[w] \in Attempts
      BY <1>8 DEF RecordProviderCall, WorkerTypes, WorkersWellFormed
    <3> QED
      BY <3>1, <3>2 DEF WorkerTypes, WorkersWellFormed, PCs
  <2> QED
    BY <2>1, <2>2
<1>9. ASSUME NEW w \in Workers, CancelUnpersisted(w) PROVE WorkerTypes'
  BY <1>9, GotoTypes DEF CancelUnpersisted, PCs
<1>10. ASSUME NEW w \in Workers, ReattachCall(w) PROVE WorkerTypes'
  <2>1. call[w] \in Attempts
    BY <1>10 DEF ReattachCall, WorkerTypes, Tokens, Attempts
  <2>2. CASE Goto(w, "polling")
    BY <1>10, <2>1, <2>2, GotoTypes DEF ReattachCall, PCs
  <2>3. CASE GotoWith(w, "retrying", "provider-recovery-pending")
    BY <1>10, <2>3, GotoWithTypes, CodeTypes DEF ReattachCall
  <2> QED
    BY <1>10, <2>2, <2>3 DEF ReattachCall
<1>11. ASSUME NEW w \in Workers, PollAuthority(w) PROVE WorkerTypes'
  <2>1. call[w] \in Attempts
    BY <1>11 DEF PollAuthority, WorkerTypes, WorkersWellFormed
  <2> QED
    BY <1>11, <2>1, GotoTypes DEF PollAuthority, PCs
<1>12. ASSUME NEW w \in Workers, GetCall(w) PROVE WorkerTypes'
  <2>1. call[w] \in Attempts
    BY <1>12 DEF GetCall, WorkerTypes, WorkersWellFormed
  <2>2. CASE GotoWith(w, "retrying", "provider-recovery-pending")
    BY <1>12, <2>2, GotoWithTypes, CodeTypes DEF GetCall
  <2>3. CASE \E label \in {"polling", "returned", "failing"} : Goto(w, label)
    BY <1>12, <2>1, <2>3, GotoTypes DEF GetCall, PCs
  <2> QED
    BY <1>12, <2>2, <2>3 DEF GetCall
<1>13. ASSUME NEW w \in Workers, CancelCall(w) PROVE WorkerTypes'
  <2>1. call[w] \in Attempts
    BY <1>13 DEF CancelCall, WorkerTypes, WorkersWellFormed
  <2>2. \E label \in {"callCancelled", "failing"} : Goto(w, label)
    BY <1>13 DEF CancelCall
  <2> QED
    BY <1>13, <2>1, <2>2, GotoTypes DEF CancelCall, PCs
<1>14. ASSUME NEW w \in Workers, RecordProviderCancelled(w) PROVE WorkerTypes'
  BY <1>14, GotoWithTypes, CodeTypes DEF RecordProviderCancelled
<1>15. ASSUME NEW w \in Workers, CheckAuthority(w) PROVE WorkerTypes'
  <2>1. CASE Goto(w, "authorized")
    BY <1>15, <2>1, GotoTypes DEF CheckAuthority, PCs
  <2>2. CASE GotoWith(w, "reporting", "discarded")
    BY <1>15, <2>2, GotoWithTypes, CodeTypes DEF CheckAuthority
  <2> QED
    BY <1>15, <2>1, <2>2 DEF CheckAuthority
<1>16. ASSUME NEW w \in Workers, StorePolicy(w) PROVE WorkerTypes'
  <2>1. CASE \E label \in {"uploaded", "failing"} : Goto(w, label)
    BY <1>16, <2>1, GotoTypes DEF StorePolicy, PCs
  <2>2. CASE GotoWith(w, "retrying", "retryable")
    BY <1>16, <2>2, GotoWithTypes, CodeTypes DEF StorePolicy
  <2> QED
    BY <1>16, <2>1, <2>2 DEF StorePolicy
<1>17. ASSUME NEW w \in Workers, CommitSuccess(w) PROVE WorkerTypes'
  <2>1. pc[w] # "idle"
    BY <1>17 DEF CommitSuccess
  <2>2. CASE Goto(w, "failing")
    BY <2>1, <2>2, GotoTypes DEF PCs
  <2>3. CASE \E c \in {"succeeded", "discarded"} : GotoWith(w, "reporting", c)
    BY <2>1, <2>3, GotoWithTypes, CodeTypes
  <2> QED
    BY <1>17, <2>2, <2>3 DEF CommitSuccess
<1>18. ASSUME NEW w \in Workers, MarkFailed(w) PROVE WorkerTypes'
  <2>1. \E c \in {"failed", "discarded"} : GotoWith(w, "reporting", c)
    BY <1>18 DEF MarkFailed
  <2> QED
    BY <1>18, <2>1, GotoWithTypes, CodeTypes DEF MarkFailed
<1>19. ASSUME NEW w \in Workers, MarkRetryable(w) PROVE WorkerTypes'
  <2>1. \E c \in {"retry-scheduled", "failed", "discarded"} : GotoWith(w, "reporting", c)
    BY <1>19 DEF MarkRetryable
  <2> QED
    BY <1>19, <2>1, GotoWithTypes, CodeTypes DEF MarkRetryable
<1>20. ASSUME NEW w \in Workers, RecordOutcome(w) PROVE WorkerTypes'
  BY <1>20, ReleaseTypes DEF RecordOutcome
<1>21. ASSUME NEW w \in Workers, Crash(w) PROVE WorkerTypes'
  BY <1>21, ReleaseTypes DEF Crash
<1>22. CASE UNCHANGED workerVars
  BY <1>22 DEF workerVars, WorkerTypes, WorkersWellFormed
<1>23. ASSUME NEW j \in Jobs,
              \/ CancelOwnedJob(j) \/ WithdrawConsent(j)
              \/ LeaseExpires(j) \/ BackoffElapses(j)
              \/ \E a \in Attempts : ProviderFinishes(j, a)
       PROVE  UNCHANGED workerVars
  BY <1>23 DEF CancelOwnedJob, WithdrawConsent, LeaseExpires, BackoffElapses,
               ProviderFinishes
<1> QED
  BY <1>1, <1>2, <1>3, <1>4, <1>5, <1>6, <1>7, <1>8, <1>9, <1>10, <1>11, <1>12,
     <1>13, <1>14, <1>15, <1>16, <1>17, <1>18, <1>19, <1>20, <1>21, <1>22, <1>23
     DEF Next, Claims, Runs, vars

-----------------------------------------------------------------------------
(* The tables *)

LEMMA SettleTypes ==
    ASSUME JobTypes, NEW j, NEW s \in Statuses, Settle(j, s)
    PROVE  /\ status' \in [Jobs -> Statuses]
           /\ lease' \in [Jobs -> Tokens]
           /\ live' \in [Jobs -> BOOLEAN]
<1>1. 0 \in Tokens
  BY AttemptsAssumption DEF Tokens
<1> QED
  BY <1>1 DEF JobTypes, Settle

\* Only these steps change the jobs row; every other step leaves jobVars alone.
LEMMA JobTypesStep == TypeOK /\ [Next]_vars => JobTypes'
<1> SUFFICES ASSUME TypeOK, [Next]_vars PROVE JobTypes'
  OBVIOUS
<1> USE DEF TypeOK, JobTypes
<1>0. 0 \in Tokens
  BY AttemptsAssumption DEF Tokens
<1>1. ASSUME NEW w \in Workers, NEW j \in Jobs, ClaimOne(w, j) PROVE JobTypes'
  <2>1. attempts[j] + 1 \in Tokens
    BY <1>1, AttemptsAssumption DEF ClaimOne, Eligible, Tokens
  <2> QED
    BY <1>0, <1>1, <2>1 DEF ClaimOne, ClaimTransaction, Statuses
<1>2. ASSUME NEW w \in Workers, SweepOnly(w) PROVE JobTypes'
  BY <1>0, <1>2 DEF SweepOnly, ClaimTransaction, Statuses
<1>3. ASSUME NEW w \in Workers, RecordProviderCall(w) PROVE JobTypes'
  BY <1>3 DEF RecordProviderCall, WorkerTypes
<1>4. ASSUME NEW w \in Workers, CommitSuccess(w) PROVE JobTypes'
  BY <1>4, SettleTypes DEF CommitSuccess, Statuses
<1>5. ASSUME NEW w \in Workers, MarkFailed(w) PROVE JobTypes'
  BY <1>5, SettleTypes DEF MarkFailed, Statuses
<1>6. ASSUME NEW w \in Workers, MarkRetryable(w) PROVE JobTypes'
  <2>1. CASE UNCHANGED <<status, lease, live, due, callId>>
    BY <1>6, <2>1 DEF MarkRetryable
  <2>2. CASE ~UNCHANGED <<status, lease, live, due, callId>>
    <3>1. \E s \in {"queued", "failed"} : Settle(job[w], s)
      BY <1>6, <2>2 DEF MarkRetryable
    <3>2. /\ \E b : due' = [due EXCEPT ![job[w]] = IF b THEN FALSE ELSE @]
          /\ \E b : callId' = [callId EXCEPT ![job[w]] = IF b THEN 0 ELSE @]
      BY <1>6, <2>2, Zenon DEF MarkRetryable
    <3>3. due' \in [Jobs -> BOOLEAN]
      BY <3>2
    <3>4. callId' \in [Jobs -> Tokens]
      BY <1>0, <3>2
    <3> QED
      BY <1>6, <3>1, <3>3, <3>4, SettleTypes DEF MarkRetryable, Statuses
  <2> QED
    BY <2>1, <2>2
<1>7. ASSUME NEW j \in Jobs, CancelOwnedJob(j) PROVE JobTypes'
  <2>1. refunded' \in [Jobs -> BOOLEAN]
    BY <1>7 DEF CancelOwnedJob
  <2> QED
    BY <1>7, <2>1, SettleTypes DEF CancelOwnedJob, Statuses
<1>8. ASSUME NEW j \in Jobs, WithdrawConsent(j) PROVE JobTypes'
  BY <1>8, SettleTypes DEF WithdrawConsent, Statuses
<1>9. ASSUME NEW j \in Jobs, LeaseExpires(j) \/ BackoffElapses(j) PROVE JobTypes'
  BY <1>9 DEF LeaseExpires, BackoffElapses
<1>10. CASE UNCHANGED jobVars
  BY <1>10 DEF jobVars
<1>11. ASSUME NEW w \in Workers,
              \/ RecordStarted(w) \/ HandlerReturns(w) \/ HandlerRaisesRetryable(w)
              \/ HandlerRaises(w) \/ SpawnCall(w) \/ CancelUnpersisted(w)
              \/ ReattachCall(w) \/ PollAuthority(w) \/ GetCall(w) \/ CancelCall(w)
              \/ RecordProviderCancelled(w) \/ CheckAuthority(w) \/ StorePolicy(w)
              \/ RecordOutcome(w) \/ Crash(w)
       PROVE  UNCHANGED jobVars
  BY <1>11 DEF RecordStarted, HandlerReturns, HandlerRaisesRetryable, HandlerRaises,
               SpawnCall, CancelUnpersisted, ReattachCall, PollAuthority, GetCall,
               CancelCall, RecordProviderCancelled, CheckAuthority, StorePolicy,
               RecordOutcome, Crash
<1>12. ASSUME NEW j \in Jobs, NEW a \in Attempts, ProviderFinishes(j, a)
       PROVE  UNCHANGED jobVars
  BY <1>12 DEF ProviderFinishes
<1> QED
  BY <1>1, <1>2, <1>3, <1>4, <1>5, <1>6, <1>7, <1>8, <1>9, <1>10, <1>11, <1>12
     DEF Next, Claims, Runs, vars

\* The rows keyed by attempt keep their shape when one job's rows are rewritten.
LEMMA RowUpdate ==
    ASSUME NEW V, NEW f \in [Jobs -> [Attempts -> V]], NEW j, j \in Jobs,
           NEW g \in [Attempts -> V]
    PROVE  [f EXCEPT ![j] = g] \in [Jobs -> [Attempts -> V]]
  OBVIOUS

LEMMA CellUpdate ==
    ASSUME NEW D, NEW V, NEW f \in [Jobs -> [D -> V]], NEW j \in Jobs, NEW d \in D,
           NEW v \in V
    PROVE  [f EXCEPT ![j][d] = v] \in [Jobs -> [D -> V]]
  OBVIOUS

LEMMA CountUpdate ==
    ASSUME NEW f \in [Jobs -> Nat], NEW j \in Jobs
    PROVE  [f EXCEPT ![j] = f[j] + 1] \in [Jobs -> Nat]
  OBVIOUS

LEMMA CloseRowTypes ==
    ASSUME row \in [Jobs -> [Attempts -> RowOutcomes]], NEW j \in Jobs, NEW a,
           NEW outcome \in RowOutcomes, CloseRow(j, a, outcome)
    PROVE  row' \in [Jobs -> [Attempts -> RowOutcomes]]
<1> DEFINE g == [b \in Attempts |->
                   IF b = a /\ row[j][b] = "running" THEN outcome ELSE row[j][b]]
<1>1. g \in [Attempts -> RowOutcomes]
  OBVIOUS
<1>2. row' = [row EXCEPT ![j] = g]
  BY DEF CloseRow
<1> QED
  BY <1>1, <1>2, RowUpdate

LEMMA SetCallsTypes ==
    ASSUME callRow \in [Jobs -> [Attempts -> CallStatuses]], NEW j \in Jobs, NEW A,
           NEW s \in CallStatuses, SetCalls(j, A, s)
    PROVE  callRow' \in [Jobs -> [Attempts -> CallStatuses]]
<1> DEFINE g == [a \in Attempts |-> IF a \in A THEN s ELSE callRow[j][a]]
<1>1. g \in [Attempts -> CallStatuses]
  OBVIOUS
<1>2. callRow' = [callRow EXCEPT ![j] = g]
  BY DEF SetCalls
<1> QED
  BY <1>1, <1>2, RowUpdate

LEMMA LogEventTypes ==
    ASSUME events \in [Jobs -> [EventNames -> Nat]], NEW j \in Jobs,
           NEW e \in EventNames, LogEvent(j, e)
    PROVE  events' \in [Jobs -> [EventNames -> Nat]]
<1>1. events[j][e] + 1 \in Nat
  OBVIOUS
<1> QED
  BY <1>1 DEF LogEvent

LEMMA ClaimSideTypes ==
    ASSUME TypeOK, NEW C, ClaimTransaction(C)
    PROVE  SideTypes'
<1>1. row' \in [Jobs -> [Attempts -> RowOutcomes]]
  BY DEF ClaimTransaction, TypeOK, SideTypes, RowOutcomes
<1>2. events' \in [Jobs -> [EventNames -> Nat]]
  BY DEF ClaimTransaction, TypeOK, SideTypes
<1> QED
  BY <1>1, <1>2 DEF ClaimTransaction, TypeOK, SideTypes

LEMMA SideTypesStep == TypeOK /\ [Next]_vars => SideTypes'
<1> SUFFICES ASSUME TypeOK, [Next]_vars PROVE SideTypes'
  OBVIOUS
<1> USE DEF TypeOK, SideTypes
<1>1. ASSUME NEW w \in Workers, pc[w] # "idle"
      PROVE  job[w] \in Jobs /\ att[w] \in Attempts
  BY <1>1 DEF WorkerTypes, WorkersWellFormed
<1>2. ASSUME NEW w \in Workers, Claims(w) PROVE SideTypes'
  BY <1>2, ClaimSideTypes DEF Claims, ClaimOne, SweepOnly
<1>3. ASSUME NEW w \in Workers, RecordStarted(w) PROVE SideTypes'
  BY <1>1, <1>3, LogEventTypes DEF RecordStarted, EventNames
<1>4. ASSUME NEW w \in Workers, RecordProviderCall(w) PROVE SideTypes'
  <2>1. job[w] \in Jobs /\ att[w] \in Attempts
    BY <1>1, <1>4 DEF RecordProviderCall
  <2>2. \/ callRow' = [callRow EXCEPT ![job[w]][att[w]] = "submitted"]
        \/ callRow' = callRow
    BY <1>4 DEF RecordProviderCall
  <2>3. callRow' \in [Jobs -> [Attempts -> CallStatuses]]
    <3>1. "submitted" \in CallStatuses /\ callRow \in [Jobs -> [Attempts -> CallStatuses]]
      BY DEF CallStatuses
    <3>2. [callRow EXCEPT ![job[w]][att[w]] = "submitted"]
            \in [Jobs -> [Attempts -> CallStatuses]]
      BY <2>1, <3>1, CellUpdate
    <3> QED
      BY <2>2, <3>1, <3>2
  <2> QED
    BY <1>4, <2>3 DEF RecordProviderCall
<1>5. ASSUME NEW w \in Workers, RecordProviderCancelled(w) PROVE SideTypes'
  <2>1. call[w] \in Attempts /\ job[w] \in Jobs
    BY <1>1, <1>5 DEF RecordProviderCancelled, WorkerTypes, WorkersWellFormed
  <2>2. callRow' \in [Jobs -> [Attempts -> CallStatuses]]
    BY <1>5, <2>1, CellUpdate DEF RecordProviderCancelled, CallStatuses
  <2> QED
    BY <1>5, <2>2 DEF RecordProviderCancelled
<1>6. ASSUME NEW w \in Workers, CommitSuccess(w) PROVE SideTypes'
  <2>1. job[w] \in Jobs
    BY <1>1, <1>6 DEF CommitSuccess
  <2>2. row' \in [Jobs -> [Attempts -> RowOutcomes]]
    BY <1>6, <2>1, CloseRowTypes DEF CommitSuccess, RowOutcomes
  <2>3. callRow' \in [Jobs -> [Attempts -> CallStatuses]]
    BY <1>6, <2>1, SetCallsTypes DEF CommitSuccess, CallStatuses
  <2>4. artifacts' \in [Jobs -> Nat]
    <3>1. \/ artifacts' = [artifacts EXCEPT ![job[w]] = artifacts[job[w]] + 1]
          \/ artifacts' = artifacts
      BY <1>6 DEF CommitSuccess
    <3>2. artifacts \in [Jobs -> Nat]
      OBVIOUS
    <3> QED
      BY <2>1, <3>1, <3>2, CountUpdate
  <2> QED
    BY <1>6, <2>2, <2>3, <2>4 DEF CommitSuccess
<1>7. ASSUME NEW w \in Workers, MarkFailed(w) PROVE SideTypes'
  <2>1. job[w] \in Jobs
    BY <1>1, <1>7 DEF MarkFailed
  <2>2. row' \in [Jobs -> [Attempts -> RowOutcomes]]
    BY <1>7, <2>1, CloseRowTypes DEF MarkFailed, RowOutcomes
  <2>3. callRow' \in [Jobs -> [Attempts -> CallStatuses]]
    BY <1>7, <2>1, SetCallsTypes DEF MarkFailed, CallStatuses
  <2> QED
    BY <1>7, <2>2, <2>3 DEF MarkFailed
<1>8. ASSUME NEW w \in Workers, MarkRetryable(w) PROVE SideTypes'
  <2>1. job[w] \in Jobs
    BY <1>1, <1>8 DEF MarkRetryable
  <2>2. row' \in [Jobs -> [Attempts -> RowOutcomes]]
    BY <1>8, <2>1, CloseRowTypes DEF MarkRetryable, RowOutcomes
  <2>3. callRow' \in [Jobs -> [Attempts -> CallStatuses]]
    BY <1>8, <2>1, SetCallsTypes DEF MarkRetryable, CallStatuses
  <2> QED
    BY <1>8, <2>2, <2>3 DEF MarkRetryable
<1>9. ASSUME NEW w \in Workers, RecordOutcome(w) PROVE SideTypes'
  <2>1. code[w] \in EventNames
    BY <1>9 DEF RecordOutcome, WorkerTypes, WorkersWellFormed
  <2> QED
    BY <1>1, <1>9, <2>1, LogEventTypes DEF RecordOutcome
<1>10. ASSUME NEW j \in Jobs, CancelOwnedJob(j) PROVE SideTypes'
  <2>1. row' \in [Jobs -> [Attempts -> RowOutcomes]]
    BY <1>10, CloseRowTypes DEF CancelOwnedJob, RowOutcomes
  <2>2. callRow' \in [Jobs -> [Attempts -> CallStatuses]]
    BY <1>10, SetCallsTypes DEF CancelOwnedJob, CallStatuses
  <2>3. events' \in [Jobs -> [EventNames -> Nat]]
    BY <1>10, LogEventTypes DEF CancelOwnedJob, EventNames
  <2> QED
    BY <1>10, <2>1, <2>2, <2>3 DEF CancelOwnedJob
<1>11. CASE UNCHANGED sideVars
  BY <1>11 DEF sideVars
<1>12. ASSUME NEW w \in Workers,
              \/ HandlerReturns(w) \/ HandlerRaisesRetryable(w) \/ HandlerRaises(w)
              \/ SpawnCall(w) \/ CancelUnpersisted(w) \/ ReattachCall(w)
              \/ PollAuthority(w) \/ GetCall(w) \/ CancelCall(w)
              \/ CheckAuthority(w) \/ StorePolicy(w) \/ Crash(w)
       PROVE  UNCHANGED sideVars
  BY <1>12 DEF HandlerReturns, HandlerRaisesRetryable, HandlerRaises, SpawnCall,
               CancelUnpersisted, ReattachCall, PollAuthority, GetCall, CancelCall,
               CheckAuthority, StorePolicy, Crash
<1>13. ASSUME NEW j \in Jobs,
              \/ WithdrawConsent(j) \/ LeaseExpires(j) \/ BackoffElapses(j)
              \/ \E a \in Attempts : ProviderFinishes(j, a)
       PROVE  UNCHANGED sideVars
  BY <1>13 DEF WithdrawConsent, LeaseExpires, BackoffElapses, ProviderFinishes
<1> QED
  BY <1>2, <1>3, <1>4, <1>5, <1>6, <1>7, <1>8, <1>9, <1>10, <1>11, <1>12, <1>13
     DEF Next, Runs, vars

LEMMA OutsideTypesStep == TypeOK /\ [Next]_vars => OutsideTypes'
<1> SUFFICES ASSUME TypeOK, [Next]_vars PROVE OutsideTypes'
  OBVIOUS
<1> USE DEF TypeOK, OutsideTypes
<1>1. ASSUME NEW w \in Workers, SpawnCall(w) \/ CancelUnpersisted(w) PROVE OutsideTypes'
  <2>1. job[w] \in Jobs /\ att[w] \in Attempts
    BY <1>1 DEF SpawnCall, CancelUnpersisted, WorkerTypes, WorkersWellFormed
  <2> QED
    BY <1>1, <2>1, CellUpdate DEF SpawnCall, CancelUnpersisted, RemoteStates
<1>2. ASSUME NEW w \in Workers, CancelCall(w) PROVE OutsideTypes'
  <2>1. job[w] \in Jobs /\ call[w] \in Attempts
    BY <1>2 DEF CancelCall, WorkerTypes, WorkersWellFormed
  <2> QED
    BY <1>2, <2>1, CellUpdate DEF CancelCall, RemoteStates
<1>3. ASSUME NEW w \in Workers, StorePolicy(w) PROVE OutsideTypes'
  BY <1>3 DEF StorePolicy
<1>4. ASSUME NEW j \in Jobs, NEW a \in Attempts, ProviderFinishes(j, a)
      PROVE  OutsideTypes'
  BY <1>4, CellUpdate DEF ProviderFinishes, RemoteStates
<1>5. CASE UNCHANGED outsideVars
  BY <1>5 DEF outsideVars
<1>6. ASSUME NEW w \in Workers,
             \/ Claims(w) \/ RecordStarted(w) \/ HandlerReturns(w)
             \/ HandlerRaisesRetryable(w) \/ HandlerRaises(w) \/ RecordProviderCall(w)
             \/ ReattachCall(w) \/ PollAuthority(w) \/ GetCall(w)
             \/ RecordProviderCancelled(w) \/ CheckAuthority(w) \/ CommitSuccess(w)
             \/ MarkFailed(w) \/ MarkRetryable(w) \/ RecordOutcome(w) \/ Crash(w)
      PROVE  UNCHANGED outsideVars
  BY <1>6 DEF Claims, ClaimOne, SweepOnly, ClaimTransaction, RecordStarted,
              HandlerReturns, HandlerRaisesRetryable, HandlerRaises,
              RecordProviderCall, ReattachCall, PollAuthority, GetCall,
              RecordProviderCancelled, CheckAuthority, CommitSuccess, MarkFailed,
              MarkRetryable, RecordOutcome, Crash
<1>7. ASSUME NEW j \in Jobs,
             CancelOwnedJob(j) \/ WithdrawConsent(j) \/ LeaseExpires(j) \/ BackoffElapses(j)
      PROVE  UNCHANGED outsideVars
  BY <1>7 DEF CancelOwnedJob, WithdrawConsent, LeaseExpires, BackoffElapses
<1> QED
  BY <1>1, <1>2, <1>3, <1>4, <1>5, <1>6, <1>7 DEF Next, Runs, vars

\* Every variable of the queue keeps its type under every step of the workers, the
\* gateway, the clock and the provider, and a busy worker always knows the
\* job, token, call and event its next transaction is about.
THEOREM TypeCorrect == Spec => []TypeOK
<1>1. Init => TypeOK
  BY AttemptsAssumption
     DEF Init, TypeOK, JobTypes, SideTypes, OutsideTypes, WorkerTypes,
         WorkersWellFormed, Tokens, Statuses, RowOutcomes, CallStatuses,
         RemoteStates, EventNames, Codes, PCs
<1>2. TypeOK /\ [Next]_vars => TypeOK'
  BY JobTypesStep, SideTypesStep, OutsideTypesStep, WorkerTypesStep DEF TypeOK
<1> QED
  BY <1>1, <1>2, PTL DEF Spec

-----------------------------------------------------------------------------
(* What one step can do to one job.  Everything the theorems below say of a  *)
(* job follows from these five cases.                                        *)

Untouched(j) ==
    /\ status'[j] = status[j] /\ attempts'[j] = attempts[j] /\ lease'[j] = lease[j]
    /\ artifacts'[j] = artifacts[j] /\ refunded'[j] = refunded[j]
    /\ live'[j] => live[j]

Claimed(j) ==
    /\ status[j] \in {"queued", "running"} /\ attempts[j] < MaxAttempts
    /\ status'[j] = "running"
    /\ attempts'[j] = attempts[j] + 1 /\ lease'[j] = attempts[j] + 1
    /\ artifacts'[j] = artifacts[j] /\ refunded'[j] = refunded[j]

Ended(j) ==
    /\ lease'[j] = 0 /\ ~live'[j] /\ attempts'[j] = attempts[j]

Swept(j) ==
    /\ status[j] = "running" /\ status'[j] = "failed"
    /\ Ended(j)
    /\ artifacts'[j] = artifacts[j] /\ refunded'[j] = refunded[j]

SettledBy(j, w) ==
    /\ pc[w] # "idle" /\ job[w] = j /\ Holds(w)
    /\ Ended(j) /\ refunded'[j] = refunded[j]
    /\ \/ /\ status'[j] = "succeeded" /\ artifacts'[j] = artifacts[j] + 1
          /\ j \in Modal => pc[w] = "uploaded"
       \/ status'[j] = "failed" /\ artifacts'[j] = artifacts[j]
       \/ /\ status'[j] = "queued" /\ artifacts'[j] = artifacts[j]
          /\ attempts[j] < MaxAttempts

Cancelled(j) ==
    /\ status[j] \in {"queued", "running"} /\ status'[j] = "cancelled"
    /\ Ended(j)
    /\ artifacts'[j] = artifacts[j]

JobStep(j) ==
    \/ Untouched(j) \/ Claimed(j) \/ Swept(j) \/ Cancelled(j)
    \/ \E w \in Workers : SettledBy(j, w)

LEMMA ClaimEffect ==
    ASSUME TypeOK, NEW C, C \subseteq Eligible, ClaimTransaction(C), NEW j \in Jobs
    PROVE  JobStep(j)
<1> USE DEF TypeOK, JobTypes, SideTypes
<1>1. CASE j \in C
  BY <1>1, AttemptsAssumption
     DEF ClaimTransaction, Eligible, Exhausted, Tokens, JobStep, Claimed
<1>2. CASE j \notin C /\ j \in Exhausted
  BY <1>2 DEF ClaimTransaction, Exhausted, JobStep, Swept, Ended
<1>3. CASE j \notin C /\ j \notin Exhausted
  BY <1>3 DEF ClaimTransaction, JobStep, Untouched
<1> QED
  BY <1>1, <1>2, <1>3

\* A settling transaction of worker w touches w's job and no other.
LEMMA SettleEffect ==
    ASSUME TypeOK, NEW w \in Workers,
           CommitSuccess(w) \/ MarkFailed(w) \/ MarkRetryable(w),
           NEW j \in Jobs
    PROVE  JobStep(j)
<1> USE DEF TypeOK, JobTypes, SideTypes
<1>1. job[w] \in Jobs /\ pc[w] # "idle"
  BY DEF CommitSuccess, MarkFailed, MarkRetryable, WorkerTypes, WorkersWellFormed
<1>2. UNCHANGED <<attempts, refunded>>
  BY DEF CommitSuccess, MarkFailed, MarkRetryable
<1>3. CASE UNCHANGED <<status, lease, live, artifacts>>
  BY <1>2, <1>3 DEF JobStep, Untouched
<1>4. CASE /\ CommitSuccess(w) /\ Holds(w)
           /\ Settle(job[w], "succeeded")
           /\ artifacts' = [artifacts EXCEPT ![job[w]] = @ + 1]
  <2>1. CASE j = job[w]
    BY <1>1, <1>2, <1>4, <2>1 DEF CommitSuccess, Settle, JobStep, SettledBy, Ended
  <2>2. CASE j # job[w]
    BY <1>1, <1>2, <1>4, <2>2 DEF Settle, JobStep, Untouched
  <2> QED
    BY <2>1, <2>2
<1>5. CASE /\ Holds(w) /\ UNCHANGED artifacts
           /\ \E s \in {"failed", "queued"} :
                 Settle(job[w], s) /\ (s = "queued" => attempts[job[w]] < MaxAttempts)
  <2>1. CASE j = job[w]
    BY <1>1, <1>2, <1>5, <2>1 DEF Settle, JobStep, SettledBy, Ended
  <2>2. CASE j # job[w]
    BY <1>1, <1>2, <1>5, <2>2 DEF Settle, JobStep, Untouched
  <2> QED
    BY <2>1, <2>2
<1> QED
  <2>1. CASE CommitSuccess(w)
    BY <1>3, <1>4, <2>1 DEF CommitSuccess
  <2>2. CASE MarkFailed(w)
    BY <1>3, <1>5, <2>2 DEF MarkFailed
  <2>3. CASE MarkRetryable(w)
    BY <1>3, <1>5, <2>3 DEF MarkRetryable
  <2> QED
    BY <2>1, <2>2, <2>3

LEMMA StepEffect ==
    ASSUME TypeOK, [Next]_vars, NEW j \in Jobs
    PROVE  JobStep(j)
<1>1. ASSUME NEW w \in Workers, Claims(w) PROVE JobStep(j)
  BY <1>1, ClaimEffect DEF Claims, ClaimOne, SweepOnly
<1>2. ASSUME NEW w \in Workers,
             CommitSuccess(w) \/ MarkFailed(w) \/ MarkRetryable(w)
      PROVE  JobStep(j)
  BY <1>2, SettleEffect
<1>3. ASSUME NEW w \in Workers,
             \/ RecordStarted(w) \/ HandlerReturns(w) \/ HandlerRaisesRetryable(w)
             \/ HandlerRaises(w) \/ SpawnCall(w) \/ RecordProviderCall(w)
             \/ CancelUnpersisted(w) \/ ReattachCall(w) \/ PollAuthority(w) \/ GetCall(w)
             \/ CancelCall(w) \/ RecordProviderCancelled(w) \/ CheckAuthority(w)
             \/ StorePolicy(w) \/ RecordOutcome(w) \/ Crash(w)
      PROVE  UNCHANGED <<status, attempts, lease, live, refunded, artifacts>>
  BY <1>3 DEF RecordStarted, HandlerReturns, HandlerRaisesRetryable, HandlerRaises,
              SpawnCall, RecordProviderCall, CancelUnpersisted, ReattachCall,
              PollAuthority, GetCall, CancelCall, RecordProviderCancelled,
              CheckAuthority, StorePolicy, RecordOutcome, Crash, jobVars, sideVars
<1>4. ASSUME NEW k \in Jobs, CancelOwnedJob(k) \/ WithdrawConsent(k) PROVE JobStep(j)
  BY <1>4 DEF CancelOwnedJob, Cancellable, WithdrawConsent, Settle, JobStep, Untouched,
              Cancelled, Ended, TypeOK, JobTypes, sideVars
<1>5. ASSUME NEW k \in Jobs, LeaseExpires(k) PROVE JobStep(j)
  BY <1>5 DEF LeaseExpires, JobStep, Untouched, TypeOK, JobTypes, sideVars
<1>6. ASSUME NEW k \in Jobs,
             BackoffElapses(k) \/ \E a \in Attempts : ProviderFinishes(k, a)
      PROVE  UNCHANGED <<status, attempts, lease, live, refunded, artifacts>>
  BY <1>6 DEF BackoffElapses, ProviderFinishes, jobVars, sideVars
<1>7. CASE UNCHANGED <<status, attempts, lease, live, refunded, artifacts>>
  BY <1>7 DEF JobStep, Untouched
<1> QED
  BY <1>1, <1>2, <1>3, <1>4, <1>5, <1>6, <1>7
     DEF Next, Runs, vars, jobVars, sideVars

-----------------------------------------------------------------------------
(* Fencing and publication *)

\* The lease of a running job is the token of its latest attempt; no other job has
\* a lease.
LeaseInv ==
    \A j \in Jobs :
        /\ status[j] = "running" => lease[j] = attempts[j] /\ attempts[j] # 0
        /\ status[j] # "running" => lease[j] = 0 /\ ~live[j]

\* A busy worker's token was issued by an attempt of its job, and no other busy
\* worker has it.
TokenInv ==
    /\ \A w \in Workers : pc[w] # "idle" => att[w] <= attempts[job[w]]
    /\ \A v, w \in Workers :
          (v # w /\ pc[v] # "idle" /\ pc[w] # "idle" /\ job[v] = job[w])
              => att[v] # att[w]

PublishInv ==
    /\ \A j \in Jobs : artifacts[j] = (IF status[j] = "succeeded" THEN 1 ELSE 0)
    /\ \A j \in Jobs : refunded[j] => status[j] = "cancelled"
    /\ \A w \in Workers : (pc[w] = "uploaded" /\ job[w] \in Modal) => stored[job[w]]
    /\ \A j \in Modal : artifacts[j] > 0 => stored[j]

QueueInv == TypeOK /\ LeaseInv /\ TokenInv /\ PublishInv

LEMMA LeaseInvStep ==
    ASSUME TypeOK, LeaseInv, [Next]_vars
    PROVE  LeaseInv'
<1> SUFFICES ASSUME NEW j \in Jobs
             PROVE  /\ status'[j] = "running" => lease'[j] = attempts'[j] /\ attempts'[j] # 0
                    /\ status'[j] # "running" => lease'[j] = 0 /\ ~live'[j]
  BY DEF LeaseInv
<1>1. JobStep(j)
  BY StepEffect
<1>2. attempts[j] \in Nat
  BY AttemptsAssumption DEF TypeOK, JobTypes, Tokens
<1> QED
  BY <1>1, <1>2 DEF JobStep, Untouched, Claimed, Swept, SettledBy, Cancelled, Ended,
                    LeaseInv

\* A worker that is busy after a step was busy before it with the same job and
\* token, unless the step is its claim.
LEMMA WorkerEffect ==
    ASSUME TypeOK, [Next]_vars
    PROVE  \/ \E w \in Workers, j \in Jobs : ClaimOne(w, j)
           \/ \A v \in Workers :
                 pc'[v] # "idle" =>
                     pc[v] # "idle" /\ job'[v] = job[v] /\ att'[v] = att[v]
<1> DEFINE Keeps == \A v \in Workers :
                       pc'[v] # "idle" =>
                           pc[v] # "idle" /\ job'[v] = job[v] /\ att'[v] = att[v]
<1>1. CASE UNCHANGED <<pc, job, att>>
  BY <1>1
<1>2. ASSUME NEW w \in Workers, NEW label, pc[w] # "idle", Goto(w, label) PROVE Keeps
  BY <1>2 DEF Goto, TypeOK, WorkerTypes
<1>3. ASSUME NEW w \in Workers, NEW label, NEW c, pc[w] # "idle", GotoWith(w, label, c)
      PROVE  Keeps
  BY <1>3 DEF GotoWith, TypeOK, WorkerTypes
<1>4. ASSUME NEW w \in Workers, Release(w) PROVE Keeps
  BY <1>4 DEF Release, TypeOK, WorkerTypes
<1>5. ASSUME NEW w \in Workers, SweepOnly(w) PROVE UNCHANGED <<pc, job, att>>
  BY <1>5 DEF SweepOnly, workerVars
<1>6. ASSUME NEW w \in Workers, Runs(w) \/ Crash(w) PROVE Keeps
  <2>1. CASE RecordProviderCall(w)
    <3>1. CASE Goto(w, "unpersisted")
      BY <2>1, <3>1, <1>2 DEF RecordProviderCall
    <3>2. CASE ~Goto(w, "unpersisted")
      BY <2>1, <3>2 DEF RecordProviderCall, TypeOK, WorkerTypes
    <3> QED
      BY <3>1, <3>2
  <2>2. CASE \/ RecordStarted(w) \/ HandlerReturns(w) \/ HandlerRaises(w) \/ SpawnCall(w)
             \/ CancelUnpersisted(w) \/ PollAuthority(w)
    BY <2>2, <1>2 DEF RecordStarted, HandlerReturns, HandlerRaises, SpawnCall,
                      CancelUnpersisted, PollAuthority
  <2>3. CASE ReattachCall(w) \/ GetCall(w) \/ CancelCall(w) \/ CheckAuthority(w)
             \/ StorePolicy(w)
    BY <2>3, <1>2, <1>3 DEF ReattachCall, GetCall, CancelCall, CheckAuthority, StorePolicy
  <2>4. CASE HandlerRaisesRetryable(w) \/ RecordProviderCancelled(w)
    BY <2>4, <1>3 DEF HandlerRaisesRetryable, RecordProviderCancelled
  <2>5. CASE CommitSuccess(w) \/ MarkFailed(w) \/ MarkRetryable(w)
    <3>1. pc[w] # "idle"
      BY <2>5 DEF CommitSuccess, MarkFailed, MarkRetryable
    <3>2. \/ Goto(w, "failing")
          \/ \E c : GotoWith(w, "reporting", c)
      BY <2>5 DEF CommitSuccess, MarkFailed, MarkRetryable
    <3> QED
      BY <3>1, <3>2, <1>2, <1>3
  <2>6. CASE RecordOutcome(w) \/ Crash(w)
    BY <2>6, <1>4 DEF RecordOutcome, Crash
  <2> QED
    BY <1>6, <2>1, <2>2, <2>3, <2>4, <2>5, <2>6 DEF Runs
<1>7. ASSUME NEW j \in Jobs,
             \/ CancelOwnedJob(j) \/ WithdrawConsent(j)
             \/ LeaseExpires(j) \/ BackoffElapses(j)
             \/ \E a \in Attempts : ProviderFinishes(j, a)
      PROVE  UNCHANGED <<pc, job, att>>
  BY <1>7 DEF CancelOwnedJob, WithdrawConsent, LeaseExpires, BackoffElapses,
              ProviderFinishes, workerVars
<1> QED
  BY <1>1, <1>5, <1>6, <1>7 DEF Next, Claims, vars, workerVars

LEMMA TokenInvStep ==
    ASSUME TypeOK, TokenInv, [Next]_vars
    PROVE  TokenInv'
<1>1. \A j \in Jobs : attempts[j] \in Nat /\ attempts'[j] \in {attempts[j], attempts[j] + 1}
  BY StepEffect, AttemptsAssumption
     DEF JobStep, Untouched, Claimed, Swept, SettledBy, Cancelled, Ended, TypeOK,
         JobTypes, Tokens
<1>2. \A w \in Workers : pc[w] # "idle" => job[w] \in Jobs /\ att[w] \in Nat
  BY AttemptsAssumption DEF TypeOK, WorkerTypes, WorkersWellFormed, Tokens, Attempts
<1>3. ASSUME NEW w \in Workers, NEW j \in Jobs, ClaimOne(w, j) PROVE TokenInv'
  <2>1. /\ pc' = [pc EXCEPT ![w] = "claimed"]
        /\ job' = [job EXCEPT ![w] = j]
        /\ att' = [att EXCEPT ![w] = attempts[j] + 1]
        /\ attempts'[j] = attempts[j] + 1
        /\ pc[w] = "idle"
    BY <1>3 DEF ClaimOne, ClaimTransaction, TypeOK, JobTypes
  <2>2. \A v \in Workers : v # w => pc'[v] = pc[v] /\ job'[v] = job[v] /\ att'[v] = att[v]
    BY <2>1 DEF TypeOK, WorkerTypes
  <2>3. job'[w] = j /\ att'[w] = attempts[j] + 1
    BY <2>1 DEF TypeOK, WorkerTypes
  <2>4. \A v \in Workers : pc'[v] # "idle" => att'[v] <= attempts'[job'[v]]
    BY <1>1, <1>2, <2>1, <2>2, <2>3 DEF TokenInv
  <2>5. ASSUME NEW v \in Workers, v # w, pc'[v] # "idle", job'[v] = j
        PROVE  att'[v] # att'[w]
    BY <1>1, <1>2, <2>2, <2>3, <2>5 DEF TokenInv
  <2> QED
    BY <2>2, <2>3, <2>4, <2>5 DEF TokenInv
<1>4. CASE \A v \in Workers :
              pc'[v] # "idle" => pc[v] # "idle" /\ job'[v] = job[v] /\ att'[v] = att[v]
  BY <1>1, <1>2, <1>4 DEF TokenInv
<1> QED
  BY <1>3, <1>4, WorkerEffect

\* A worker whose next step is the success transaction of a policy has stored its
\* bytes: only StorePolicy leads there, and nothing takes them away.
LEMMA UploadEffect ==
    ASSUME TypeOK, [Next]_vars
    PROVE  /\ \A j \in Jobs : stored[j] => stored'[j]
           /\ \A v \in Workers : pc'[v] = "uploaded" =>
                 \/ pc[v] = "uploaded" /\ job'[v] = job[v]
                 \/ stored'[job'[v]]
<1> DEFINE Kept == \A j \in Jobs : stored[j] => stored'[j]
           Backed == \A v \in Workers : pc'[v] = "uploaded" =>
                        \/ pc[v] = "uploaded" /\ job'[v] = job[v]
                        \/ stored'[job'[v]]
<1>1. ASSUME NEW w \in Workers, StorePolicy(w) PROVE Kept /\ Backed
  <2>1. job[w] \in Jobs /\ pc[w] = "authorized"
    BY <1>1 DEF StorePolicy, TypeOK, WorkerTypes, WorkersWellFormed
  <2>2. Kept
    BY <1>1, <2>1 DEF StorePolicy, TypeOK, OutsideTypes
  <2>3. UNCHANGED job
    BY <1>1 DEF StorePolicy, Goto, GotoWith
  <2>4. ASSUME NEW v \in Workers, v # w PROVE pc'[v] = pc[v]
    BY <1>1, <2>4 DEF StorePolicy, Goto, GotoWith, TypeOK, WorkerTypes
  <2>5. pc'[w] = "uploaded" => stored'[job[w]]
    BY <1>1, <2>1
       DEF StorePolicy, Goto, GotoWith, TypeOK, OutsideTypes, WorkerTypes
  <2> QED
    BY <2>2, <2>3, <2>4, <2>5
<1>2. CASE UNCHANGED <<pc, job, stored>>
  BY <1>2
<1>3. ASSUME NEW w \in Workers, NEW label, label # "uploaded", UNCHANGED stored,
             pc' = [pc EXCEPT ![w] = label], \A v \in Workers : v # w => job'[v] = job[v]
      PROVE  Kept /\ Backed
  BY <1>3 DEF TypeOK, WorkerTypes
<1>4. ASSUME NEW w \in Workers, NEW label, label # "uploaded", UNCHANGED stored,
             Goto(w, label) \/ \E c : GotoWith(w, label, c)
      PROVE  Kept /\ Backed
  BY <1>3, <1>4 DEF Goto, GotoWith
<1>5. ASSUME NEW w \in Workers, Claims(w) \/ Crash(w) \/ RecordOutcome(w)
      PROVE  Kept /\ Backed
  <2>1. UNCHANGED stored
    BY <1>5 DEF Claims, ClaimOne, SweepOnly, ClaimTransaction, Crash, RecordOutcome,
                outsideVars
  <2>2. \A v \in Workers : v # w => job'[v] = job[v]
    BY <1>5 DEF Claims, ClaimOne, SweepOnly, Crash, RecordOutcome, Release, workerVars,
                TypeOK, WorkerTypes
  <2>3. \/ pc' = [pc EXCEPT ![w] = "claimed"]
        \/ pc' = [pc EXCEPT ![w] = "idle"]
        \/ UNCHANGED <<pc, job>>
    BY <1>5 DEF Claims, ClaimOne, SweepOnly, Crash, RecordOutcome, Release, workerVars
  <2> QED
    BY <1>2, <1>3, <2>1, <2>2, <2>3
<1>6. ASSUME NEW w \in Workers, Runs(w), ~StorePolicy(w), ~RecordOutcome(w)
      PROVE  Kept /\ Backed
  <2>1. UNCHANGED stored
    BY <1>6 DEF Runs, RecordStarted, HandlerReturns, HandlerRaisesRetryable,
                HandlerRaises, SpawnCall, RecordProviderCall, CancelUnpersisted,
                ReattachCall, PollAuthority, GetCall, CancelCall,
                RecordProviderCancelled, CheckAuthority, CommitSuccess, MarkFailed,
                MarkRetryable, outsideVars
  <2>2. CASE RecordProviderCall(w)
    BY <1>3, <1>4, <2>1, <2>2 DEF RecordProviderCall
  <2>3. CASE ~RecordProviderCall(w)
    <3>1. \E label \in PCs \ {"uploaded"} :
             Goto(w, label) \/ \E c : GotoWith(w, label, c)
      BY <1>6, <2>3
         DEF Runs, RecordStarted, HandlerReturns, HandlerRaisesRetryable,
             HandlerRaises, SpawnCall, CancelUnpersisted, ReattachCall, PollAuthority,
             GetCall, CancelCall, RecordProviderCancelled, CheckAuthority,
             CommitSuccess, MarkFailed, MarkRetryable, PCs
    <3> QED
      BY <1>4, <2>1, <3>1
  <2> QED
    BY <2>2, <2>3
<1>7. ASSUME NEW j \in Jobs,
             \/ CancelOwnedJob(j) \/ WithdrawConsent(j)
             \/ LeaseExpires(j) \/ BackoffElapses(j)
             \/ \E a \in Attempts : ProviderFinishes(j, a)
      PROVE  UNCHANGED <<pc, job, stored>>
  BY <1>7 DEF CancelOwnedJob, WithdrawConsent, LeaseExpires, BackoffElapses,
              ProviderFinishes, workerVars, outsideVars
<1> QED
  BY <1>1, <1>2, <1>5, <1>6, <1>7 DEF Next, vars, workerVars, outsideVars

LEMMA PublishInvStep ==
    ASSUME TypeOK, LeaseInv, PublishInv, [Next]_vars
    PROVE  PublishInv'
<1>1. ASSUME NEW j \in Jobs
      PROVE  /\ artifacts'[j] = (IF status'[j] = "succeeded" THEN 1 ELSE 0)
             /\ refunded'[j] => status'[j] = "cancelled"
  <2>1. JobStep(j)
    BY StepEffect
  <2>2. CASE \E w \in Workers : SettledBy(j, w)
    BY <2>2 DEF SettledBy, Holds, Authority, PublishInv
  <2>3. CASE Untouched(j) \/ Claimed(j) \/ Swept(j) \/ Cancelled(j)
    BY <2>3 DEF Untouched, Claimed, Swept, Cancelled, PublishInv
  <2> QED
    BY <2>1, <2>2, <2>3 DEF JobStep
<1>2. ASSUME NEW w \in Workers, pc'[w] = "uploaded", job'[w] \in Modal
      PROVE  stored'[job'[w]]
  BY <1>2, UploadEffect, ModalAssumption DEF PublishInv
<1>3. ASSUME NEW j \in Modal, artifacts'[j] > 0
      PROVE  stored'[j]
  <2>1. JobStep(j) /\ j \in Jobs
    BY StepEffect, ModalAssumption
  <2>2. stored[j] => stored'[j]
    BY <2>1, UploadEffect
  <2>3. CASE \E w \in Workers : SettledBy(j, w)
    BY <1>3, <2>2, <2>3 DEF SettledBy, PublishInv
  <2>4. CASE Untouched(j) \/ Claimed(j) \/ Swept(j) \/ Cancelled(j)
    BY <1>3, <2>2, <2>4 DEF Untouched, Claimed, Swept, Cancelled, PublishInv
  <2> QED
    BY <2>1, <2>3, <2>4 DEF JobStep
<1> QED
  BY <1>1, <1>2, <1>3 DEF PublishInv

LEMMA QueueInvHolds == Spec => []QueueInv
<1>1. Init => QueueInv
  <2>1. Init => TypeOK
    BY AttemptsAssumption
       DEF Init, TypeOK, JobTypes, SideTypes, OutsideTypes, WorkerTypes,
           WorkersWellFormed, Tokens, Statuses, RowOutcomes, CallStatuses,
           RemoteStates, EventNames, Codes, PCs
  <2>2. Init => LeaseInv /\ TokenInv
    BY DEF Init, LeaseInv, TokenInv
  <2>3. Init => PublishInv
    BY ModalAssumption DEF Init, PublishInv
  <2> QED
    BY <2>1, <2>2, <2>3 DEF QueueInv
<1>2. QueueInv /\ [Next]_vars => QueueInv'
  <2>1. TypeOK /\ [Next]_vars => TypeOK'
    BY JobTypesStep, SideTypesStep, OutsideTypesStep, WorkerTypesStep DEF TypeOK
  <2> QED
    BY <2>1, LeaseInvStep, TokenInvStep, PublishInvStep DEF QueueInv
<1> QED
  BY <1>1, <1>2, PTL DEF Spec

\* The fence works: of all the workers that crashes, expiries and reclaims have left
\* on one job, at most one passes `status = running AND lease_token = mine AND
\* lease_expires_at > now()'.
THEOREM Fencing == Spec => []OneAuthority
<1>1. QueueInv => OneAuthority
  BY DEF QueueInv, TokenInv, OneAuthority, Holds, Authority
<1> QED
  BY <1>1, QueueInvHolds, PTL

\* A job's output is materialised at most once, and only for a succeeded job whose
\* policy bytes, if it is a Modal job, were stored before.
THEOREM Publication == Spec => []PublishedOnce
<1>1. QueueInv => PublishedOnce
  BY DEF QueueInv, PublishInv, PublishedOnce
<1> QED
  BY <1>1, QueueInvHolds, PTL

\* The owner who got the job's credits back does not also get its output.
THEOREM RefundExcludesOutput == Spec => []RefundedNeverPublishes
<1>1. QueueInv => RefundedNeverPublishes
  BY DEF QueueInv, PublishInv, RefundedNeverPublishes
<1> QED
  BY <1>1, QueueInvHolds, PTL

\* A terminal job is never moved again, by no worker and by neither gateway
\* transaction, and the attempt counter only ever steps up by one.
THEOREM Finality == Spec => TerminalIsFinal
<1> DEFINE Step(j) ==
      /\ status[j] \in Terminal =>
            /\ status'[j] = status[j] /\ artifacts'[j] = artifacts[j]
            /\ refunded'[j] = refunded[j] /\ attempts'[j] = attempts[j]
      /\ attempts'[j] \in {attempts[j], attempts[j] + 1}
<1>1. ASSUME QueueInv, [Next]_vars, NEW j \in Jobs PROVE Step(j)
  <2>1. JobStep(j)
    BY <1>1, StepEffect DEF QueueInv
  <2>2. CASE \E w \in Workers : SettledBy(j, w)
    BY <2>2 DEF SettledBy, Holds, Authority, Terminal, Ended
  <2>3. CASE Untouched(j) \/ Claimed(j) \/ Swept(j) \/ Cancelled(j)
    BY <2>3 DEF Untouched, Claimed, Swept, Cancelled, Terminal, Ended
  <2> QED
    BY <2>1, <2>2, <2>3 DEF JobStep
<1>2. QueueInv /\ [Next]_vars => [\A j \in Jobs : Step(j)]_vars
  BY <1>1
<1> QED
  BY <1>2, QueueInvHolds, PTL DEF Spec, TerminalIsFinal

-----------------------------------------------------------------------------
(* Attempt rows *)

\* The settling transactions close the row of the worker's own attempt, which
\* under the fence is the job's current one.
LEMMA CloseRowEffect ==
    ASSUME TypeOK, NEW j \in Jobs, NEW outcome, outcome # "running",
           CloseRow(j, attempts[j], outcome)
    PROVE  /\ \A k \in Jobs : k # j => row'[k] = row[k]
           /\ \A a \in Attempts : row'[j][a] = "running" =>
                 row[j][a] = "running" /\ a # attempts[j]
  BY DEF CloseRow, TypeOK, SideTypes

LEMMA RowsStep ==
    ASSUME TypeOK, LeaseInv, AttemptRowsFollowJob, [Next]_vars
    PROVE  AttemptRowsFollowJob'
<1> USE DEF TypeOK, JobTypes, SideTypes
<1>1. CASE UNCHANGED <<status, attempts, row>>
  BY <1>1 DEF AttemptRowsFollowJob
<1>2. ASSUME NEW C, C \subseteq Eligible, ClaimTransaction(C)
      PROVE  AttemptRowsFollowJob'
  <2> SUFFICES ASSUME NEW j \in Jobs, NEW a \in Attempts
               PROVE  /\ (status'[j] = "running" /\ a = attempts'[j]) =>
                            row'[j][a] = "running"
                      /\ row'[j][a] = "running" =>
                            /\ a = attempts'[j]
                            /\ \/ status'[j] = "running"
                               \/ j \in Consented /\ status'[j] = "cancelled"
    BY DEF AttemptRowsFollowJob
  <2>1. attempts[j] \in Nat /\ a \in Nat
    BY AttemptsAssumption DEF Tokens, Attempts
  <2>2. /\ status'[j] = IF j \in Exhausted THEN "failed"
                        ELSE IF j \in C THEN "running" ELSE status[j]
        /\ attempts'[j] = IF j \in C THEN attempts[j] + 1 ELSE attempts[j]
        /\ row'[j][a] = IF a = attempts[j] /\ row[j][a] = "running" /\ j \in Exhausted
                        THEN "failed"
                        ELSE IF a = attempts[j] /\ row[j][a] = "running" /\ j \in C
                             THEN "expired"
                        ELSE IF a = attempts[j] + 1 /\ j \in C THEN "running"
                        ELSE row[j][a]
    BY <1>2 DEF ClaimTransaction
  <2>3. j \in C => j \notin Exhausted
    BY <1>2, <2>1, AttemptsAssumption DEF Eligible, Exhausted
  <2>4. j \in C => status[j] \in {"queued", "running"}
    BY <1>2 DEF Eligible
  <2>5. /\ (status[j] = "running" /\ a = attempts[j]) => row[j][a] = "running"
        /\ row[j][a] = "running" =>
              /\ a = attempts[j]
              /\ status[j] = "running" \/ (j \in Consented /\ status[j] = "cancelled")
    BY DEF AttemptRowsFollowJob
  <2>6. j \in Exhausted => status[j] = "running"
    BY DEF Exhausted
  <2>7. CASE j \in C
    BY <2>1, <2>2, <2>3, <2>4, <2>5, <2>7
  <2>8. CASE j \notin C
    BY <2>2, <2>5, <2>6, <2>8
  <2> QED
    BY <2>7, <2>8
<1>3. ASSUME NEW j \in Jobs, NEW s, s # "running", Settle(j, s), UNCHANGED attempts,
             \/ \E o \in RowOutcomes \ {"running"} : CloseRow(j, attempts[j], o)
             \/ /\ UNCHANGED row /\ status[j] \in {"queued", "running"}
                /\ status[j] = "running" => j \in Consented /\ s = "cancelled"
      PROVE  AttemptRowsFollowJob'
  <2>1. /\ status'[j] = s
        /\ \A k \in Jobs : k # j => status'[k] = status[k]
    BY <1>3 DEF Settle
  <2>2. CASE \E o \in RowOutcomes \ {"running"} : CloseRow(j, attempts[j], o)
    <3>1. /\ \A k \in Jobs : k # j => row'[k] = row[k]
          /\ \A a \in Attempts : row'[j][a] = "running" =>
                row[j][a] = "running" /\ a # attempts[j]
      BY <2>2, CloseRowEffect
    <3> QED
      BY <1>3, <2>1, <3>1 DEF AttemptRowsFollowJob
  <2>3. CASE /\ UNCHANGED row /\ status[j] \in {"queued", "running"}
             /\ status[j] = "running" => j \in Consented /\ s = "cancelled"
    <3>1. \A a \in Attempts : row[j][a] = "running" => j \in Consented /\ s = "cancelled"
      BY <2>3 DEF AttemptRowsFollowJob
    <3> QED
      BY <1>3, <2>1, <2>3, <3>1 DEF AttemptRowsFollowJob
  <2> QED
    BY <1>3, <2>2, <2>3
<1>4. ASSUME NEW w \in Workers, Claims(w) PROVE AttemptRowsFollowJob'
  BY <1>2, <1>4 DEF Claims, ClaimOne, SweepOnly
<1>5. ASSUME NEW w \in Workers, CommitSuccess(w) \/ MarkFailed(w) \/ MarkRetryable(w)
      PROVE  AttemptRowsFollowJob'
  <2>1. job[w] \in Jobs
    BY <1>5 DEF CommitSuccess, MarkFailed, MarkRetryable, WorkerTypes, WorkersWellFormed
  <2>2. Holds(w) => att[w] = attempts[job[w]]
    BY <2>1 DEF Holds, Authority, LeaseInv
  <2>3. \/ UNCHANGED <<status, attempts, row>>
        \/ /\ Holds(w) /\ UNCHANGED attempts
           /\ \E s \in {"succeeded", "failed", "queued"},
                 o \in {"succeeded", "failed", "retry-scheduled"} :
                    Settle(job[w], s) /\ CloseRow(job[w], att[w], o)
    BY <1>5 DEF CommitSuccess, MarkFailed, MarkRetryable
  <2> QED
    BY <1>1, <1>3, <2>1, <2>2, <2>3 DEF RowOutcomes
<1>6. ASSUME NEW j \in Jobs, CancelOwnedJob(j) PROVE AttemptRowsFollowJob'
  <2>1. /\ Settle(j, "cancelled") /\ UNCHANGED attempts
        /\ status[j] \in {"queued", "running"}
        /\ IF status[j] = "running" THEN CloseRow(j, attempts[j], "cancelled")
                                    ELSE UNCHANGED row
    BY <1>6 DEF CancelOwnedJob, Cancellable
  <2> QED
    BY <1>3, <2>1 DEF RowOutcomes
<1>7. ASSUME NEW j \in Jobs, WithdrawConsent(j) PROVE AttemptRowsFollowJob'
  <2>1. /\ Settle(j, "cancelled") /\ UNCHANGED <<attempts, row>>
        /\ j \in Consented /\ status[j] \in {"queued", "running"}
    BY <1>7 DEF WithdrawConsent, sideVars
  <2> QED
    BY <1>3, <2>1
<1>8. ASSUME NEW w \in Workers,
             \/ RecordStarted(w) \/ HandlerReturns(w) \/ HandlerRaisesRetryable(w)
             \/ HandlerRaises(w) \/ SpawnCall(w) \/ RecordProviderCall(w)
             \/ CancelUnpersisted(w) \/ ReattachCall(w) \/ PollAuthority(w) \/ GetCall(w)
             \/ CancelCall(w) \/ RecordProviderCancelled(w) \/ CheckAuthority(w)
             \/ StorePolicy(w) \/ RecordOutcome(w) \/ Crash(w)
      PROVE  UNCHANGED <<status, attempts, row>>
  BY <1>8 DEF RecordStarted, HandlerReturns, HandlerRaisesRetryable, HandlerRaises,
              SpawnCall, RecordProviderCall, CancelUnpersisted, ReattachCall,
              PollAuthority, GetCall, CancelCall, RecordProviderCancelled,
              CheckAuthority, StorePolicy, RecordOutcome, Crash, jobVars, sideVars
<1>9. ASSUME NEW j \in Jobs,
             \/ LeaseExpires(j) \/ BackoffElapses(j)
             \/ \E a \in Attempts : ProviderFinishes(j, a)
      PROVE  UNCHANGED <<status, attempts, row>>
  BY <1>9 DEF LeaseExpires, BackoffElapses, ProviderFinishes, jobVars, sideVars
<1> QED
  BY <1>1, <1>4, <1>5, <1>6, <1>7, <1>8, <1>9 DEF Next, Runs, vars, jobVars, sideVars

\* The attempt rows are a faithful record of the jobs table: a row is open exactly
\* while its attempt is the job's running one, consent withdrawals excepted.
THEOREM AttemptRecord == Spec => []AttemptRowsFollowJob
<1>1. Init => AttemptRowsFollowJob
  BY DEF Init, AttemptRowsFollowJob
<1>2. QueueInv /\ AttemptRowsFollowJob /\ [Next]_vars => AttemptRowsFollowJob'
  BY RowsStep DEF QueueInv
<1> QED
  BY <1>1, <1>2, QueueInvHolds, PTL DEF Spec

-----------------------------------------------------------------------------
(* Refinement of the job lifecycle *)

\* Under the publication invariant a job's phase is its status under another name.
LEMMA PhaseValue ==
    ASSUME TypeOK, PublishInv, NEW j \in Jobs
    PROVE  Phase(j) = (IF status[j] = "queued" THEN "waiting"
                       ELSE IF status[j] = "running" THEN "attempting"
                       ELSE IF status[j] = "succeeded" THEN "published"
                       ELSE status[j])
  BY DEF TypeOK, JobTypes, Statuses, PublishInv, Phase

\* Every behaviour of the queue is a behaviour of the job lifecycle: crashes,
\* expired leases, recoveries and races are invisible to a job's owner.
THEOREM Refinement == Spec => ImplementsLifecycle
<1> DEFINE PhaseMap == [j \in Jobs |-> Phase(j)]
<1>1. Init => Lifecycle!Init
  BY DEF Init, Lifecycle!Init, Phase
<1>2. ASSUME QueueInv, QueueInv', [Next]_vars
      PROVE  [Lifecycle!Next]_(Lifecycle!vars)
  <2>1. PhaseMap' \in [Jobs -> Lifecycle!Phases]
    <3>1. \A j \in Jobs : Phase(j)' \in Lifecycle!Phases
      BY <1>2 DEF QueueInv, TypeOK, JobTypes, Statuses, PublishInv, Phase,
                  Lifecycle!Phases
    <3> QED
      BY <3>1
  <2>2. attempts' \in [Jobs -> Nat] /\ refunded' \in [Jobs -> BOOLEAN]
    BY <1>2, AttemptsAssumption DEF QueueInv, TypeOK, JobTypes, Tokens
  <2>3. ASSUME NEW j \in Jobs
        PROVE  \/ Lifecycle!Begin(j) \/ Lifecycle!Finish(j)
               \/ Lifecycle!Cancel(j) \/ Lifecycle!Same(j)
    <3>1. JobStep(j)
      BY <1>2, StepEffect DEF QueueInv
    <3>2. /\ PhaseMap[j] = Phase(j) /\ PhaseMap'[j] = Phase(j)'
          /\ status[j] \in Statuses /\ status'[j] \in Statuses
      BY <1>2 DEF QueueInv, TypeOK, JobTypes
    <3>3. Phase(j) = (IF status[j] = "queued" THEN "waiting"
                       ELSE IF status[j] = "running" THEN "attempting"
                       ELSE IF status[j] = "succeeded" THEN "published"
                       ELSE status[j])
      BY <1>2, PhaseValue DEF QueueInv
    <3>4. Phase(j)' = (IF status'[j] = "queued" THEN "waiting"
                       ELSE IF status'[j] = "running" THEN "attempting"
                       ELSE IF status'[j] = "succeeded" THEN "published"
                       ELSE status'[j])
      BY <1>2 DEF QueueInv, TypeOK, JobTypes, Statuses, PublishInv, Phase
    <3>5. CASE Untouched(j)
      BY <3>2, <3>3, <3>4, <3>5 DEF Untouched, Lifecycle!Same
    <3>6. CASE Claimed(j)
      BY <3>2, <3>3, <3>4, <3>6 DEF Claimed, Lifecycle!Begin
    <3>7. CASE Swept(j)
      BY <3>2, <3>3, <3>4, <3>7 DEF Swept, Ended, Lifecycle!Finish
    <3>8. CASE Cancelled(j)
      BY <2>2, <3>2, <3>3, <3>4, <3>8 DEF Cancelled, Ended, Lifecycle!Cancel
    <3>9. ASSUME NEW w \in Workers, SettledBy(j, w) PROVE Lifecycle!Finish(j)
      BY <3>2, <3>3, <3>4, <3>9
         DEF SettledBy, Holds, Authority, Ended, Lifecycle!Finish
    <3> QED
      BY <3>1, <3>5, <3>6, <3>7, <3>8, <3>9 DEF JobStep
  <2> QED
    BY <2>1, <2>2, <2>3 DEF Lifecycle!Next
<1> QED
  BY <1>1, <1>2, QueueInvHolds, PTL DEF Spec, ImplementsLifecycle, Lifecycle!Spec

-----------------------------------------------------------------------------
(* The event log: job_events *)

\* Worker w is about to record the terminal event e.
Reports(w, e) == pc[w] = "reporting" /\ code[w] = e

\* The attempts of j whose worker has still to record that it started.
Starting(j) ==
    {a \in Attempts : \E w \in Workers : pc[w] = "claimed" /\ job[w] = j /\ att[w] = a}

\* A terminal event still to be reported is true, unwritten, and one worker's business.
ReportInv ==
    /\ \A w \in Workers, e \in Terminal :
          Reports(w, e) => status[job[w]] = e /\ events[job[w]][e] = 0
    /\ \A v, w \in Workers, e \in Terminal :
          (v # w /\ job[v] = job[w] /\ Reports(v, e)) => ~Reports(w, e)
    /\ \A w \in Workers : ~Reports(w, "started")

\* At most one terminal event, naming the status.
TerminalEventsInv ==
    \A j \in Jobs, e \in Terminal : events[j][e] <= 1 /\ (events[j][e] = 1 => status[j] = e)

\* Attempts logged as started, and those about to be, were all claimed.
StartedInv ==
    \A j \in Jobs : events[j]["started"] + Cardinality(Starting(j)) <= attempts[j]

\* Worker steps that touch neither events nor status.
QuietStep(w) ==
    \/ HandlerReturns(w) \/ HandlerRaisesRetryable(w)
    \/ HandlerRaises(w) \/ SpawnCall(w) \/ RecordProviderCall(w)
    \/ CancelUnpersisted(w) \/ ReattachCall(w) \/ PollAuthority(w) \/ GetCall(w)
    \/ CancelCall(w) \/ RecordProviderCancelled(w) \/ CheckAuthority(w)
    \/ StorePolicy(w)

\* The three transactions of a worker that may settle its job.
SettleStep(w) == CommitSuccess(w) \/ MarkFailed(w) \/ MarkRetryable(w)

\* The steps of the queue, grouped by what they may touch.
LEMMA StepCases ==
    ASSUME [Next]_vars
    PROVE  \/ \E w \in Workers : \/ SweepOnly(w) \/ (\E j \in Jobs : ClaimOne(w, j))
                                 \/ RecordStarted(w) \/ QuietStep(w) \/ SettleStep(w)
                                 \/ RecordOutcome(w) \/ Crash(w)
           \/ \E j \in Jobs : \/ CancelOwnedJob(j) \/ WithdrawConsent(j)
                              \/ LeaseExpires(j) \/ BackoffElapses(j)
                              \/ \E a \in Attempts : ProviderFinishes(j, a)
           \/ UNCHANGED vars
  BY DEF Next, Claims, Runs, QuietStep, SettleStep

\* A quiet step moves its worker alone and settles nothing.
LEMMA QuietEffect ==
    ASSUME TypeOK, NEW w \in Workers, QuietStep(w)
    PROVE  /\ UNCHANGED <<status, attempts, lease, live, refunded, due, row, events>>
           /\ UNCHANGED <<artifacts, job, att>>
           /\ \A v \in Workers \ {w} : pc'[v] = pc[v] /\ code'[v] = code[v] /\ call'[v] = call[v]
           /\ pc[w] \notin {"idle", "claimed", "reporting"} /\ pc'[w] \notin {"idle", "claimed"}
           /\ pc'[w] = "reporting" => code'[w] = "discarded"
<1>1. ASSUME NEW label, Goto(w, label)
      PROVE  /\ UNCHANGED <<job, att>>
             /\ \A v \in Workers \ {w} : pc'[v] = pc[v] /\ code'[v] = code[v] /\ call'[v] = call[v]
             /\ pc'[w] = label
  BY <1>1 DEF Goto, TypeOK, WorkerTypes
<1>2. ASSUME NEW label, NEW c, GotoWith(w, label, c)
      PROVE  /\ UNCHANGED <<job, att>>
             /\ \A v \in Workers \ {w} : pc'[v] = pc[v] /\ code'[v] = code[v] /\ call'[v] = call[v]
             /\ pc'[w] = label /\ code'[w] = c
  BY <1>2 DEF GotoWith, TypeOK, WorkerTypes
<1>3. CASE HandlerReturns(w) \/ HandlerRaises(w) \/ SpawnCall(w) \/ CancelUnpersisted(w)
           \/ PollAuthority(w) \/ HandlerRaisesRetryable(w) \/ RecordProviderCancelled(w)
  BY <1>1, <1>2, <1>3
     DEF HandlerReturns, HandlerRaises, SpawnCall, CancelUnpersisted, PollAuthority,
         HandlerRaisesRetryable, RecordProviderCancelled, jobVars, sideVars
<1>4. CASE ReattachCall(w) \/ GetCall(w) \/ CancelCall(w) \/ CheckAuthority(w) \/ StorePolicy(w)
  BY <1>1, <1>2, <1>4
     DEF ReattachCall, GetCall, CancelCall, CheckAuthority, StorePolicy, jobVars,
         sideVars
<1>5. CASE RecordProviderCall(w)
  <2>1. CASE Goto(w, "unpersisted")
    BY <1>1, <1>5, <2>1 DEF RecordProviderCall
  <2>2. CASE ~Goto(w, "unpersisted")
    BY <1>5, <2>2 DEF RecordProviderCall, TypeOK, WorkerTypes
  <2> QED
    BY <2>1, <2>2
<1> QED
  BY <1>3, <1>4, <1>5 DEF QuietStep

\* What a step does to the log of terminal events: it writes what a worker had to
\* report, or it ends the job in the same transaction.
LEMMA EventsEffect ==
    ASSUME TypeOK, [Next]_vars, NEW j \in Jobs, NEW e \in Terminal
    PROVE  \/ events'[j][e] = events[j][e]
           \/ /\ events'[j][e] = events[j][e] + 1
              /\ \/ \E w \in Workers : /\ Reports(w, e) /\ job[w] = j
                                       /\ ~Reports(w, e)' /\ UNCHANGED status
                 \/ status[j] \in {"queued", "running"} /\ status'[j] = e
<1> USE DEF TypeOK, JobTypes, SideTypes
<1>0. e \in EventNames /\ e # "started"
  BY DEF Terminal, EventNames
<1>1. ASSUME NEW C, ClaimTransaction(C)
      PROVE  \/ events'[j][e] = events[j][e]
             \/ /\ events'[j][e] = events[j][e] + 1
                /\ status[j] \in {"queued", "running"} /\ status'[j] = e
  BY <1>0, <1>1 DEF ClaimTransaction, Exhausted
<1>2. ASSUME NEW w \in Workers, RecordStarted(w) PROVE events'[j][e] = events[j][e]
  BY <1>0, <1>2 DEF RecordStarted, LogEvent
<1>3. ASSUME NEW w \in Workers, RecordOutcome(w)
      PROVE  \/ events'[j][e] = events[j][e]
             \/ /\ events'[j][e] = events[j][e] + 1
                /\ Reports(w, e) /\ job[w] = j /\ ~Reports(w, e)' /\ UNCHANGED status
  <2>1. /\ job[w] \in Jobs /\ code[w] \in EventNames /\ pc[w] = "reporting"
        /\ events' = [events EXCEPT ![job[w]][code[w]] = @ + 1]
        /\ pc'[w] = "idle" /\ UNCHANGED status
    BY <1>3 DEF RecordOutcome, LogEvent, Release, WorkerTypes, WorkersWellFormed, jobVars
  <2> QED
    BY <1>0, <2>1 DEF Reports
<1>4. ASSUME NEW k \in Jobs, CancelOwnedJob(k)
      PROVE  \/ events'[j][e] = events[j][e]
             \/ /\ events'[j][e] = events[j][e] + 1
                /\ status[j] \in {"queued", "running"} /\ status'[j] = e
  BY <1>0, <1>4 DEF CancelOwnedJob, Cancellable, LogEvent, Settle, EventNames
<1>5. ASSUME \/ \E w \in Workers : QuietStep(w) \/ SettleStep(w) \/ Crash(w)
             \/ \E k \in Jobs : \/ WithdrawConsent(k) \/ LeaseExpires(k) \/ BackoffElapses(k)
                                \/ \E a \in Attempts : ProviderFinishes(k, a)
             \/ UNCHANGED vars
      PROVE  events' = events
  <2>1. ASSUME NEW w \in Workers, QuietStep(w) PROVE events' = events
    BY <2>1, QuietEffect
  <2> QED
    BY <1>5, <2>1 DEF SettleStep, CommitSuccess, MarkFailed, MarkRetryable, Crash,
        WithdrawConsent, LeaseExpires, BackoffElapses, ProviderFinishes, sideVars, vars
<1> QED
  BY StepCases, <1>1, <1>2, <1>3, <1>4, <1>5 DEF ClaimOne, SweepOnly

\* A worker that is about to report a job's end has just ended it, or was about to before.
LEMMA ReportEffect ==
    ASSUME TypeOK, [Next]_vars, NEW w \in Workers, NEW e, Reports(w, e)'
    PROVE  /\ job'[w] = job[w] /\ job[w] \in Jobs
           /\ \/ Reports(w, e)
              \/ e \in {"discarded", "retry-scheduled"}
              \/ /\ Holds(w) /\ status'[job[w]] = e /\ UNCHANGED events /\ pc[w] # "idle"
                 /\ e \in Terminal
<1> USE DEF TypeOK, JobTypes
<1>1. ASSUME NEW v \in Workers, v # w, 
             \/ RecordStarted(v) \/ SettleStep(v)
             \/ RecordOutcome(v) \/ Crash(v)
      PROVE  pc'[w] = pc[w] /\ code'[w] = code[w] /\ job'[w] = job[w]
  BY <1>1
     DEF RecordStarted, SettleStep, CommitSuccess, MarkFailed, MarkRetryable,
         RecordOutcome, Crash, Goto, GotoWith, Release, WorkerTypes
<1>2. ASSUME pc'[w] = pc[w], code'[w] = code[w], job'[w] = job[w]
      PROVE  Reports(w, e) /\ job[w] \in Jobs
  BY <1>2 DEF Reports, WorkerTypes, WorkersWellFormed
<1>3. ASSUME NEW v \in Workers, NEW k \in Jobs, ClaimOne(v, k)
      PROVE  pc'[w] = pc[w] /\ code'[w] = code[w] /\ job'[w] = job[w]
  BY <1>3 DEF ClaimOne, Reports, WorkerTypes
<1>4. CASE RecordStarted(w)
  BY <1>4 DEF RecordStarted, Goto, Reports, WorkerTypes
<1>5. CASE RecordOutcome(w) \/ Crash(w)
  BY <1>5 DEF RecordOutcome, Crash, Release, Reports, WorkerTypes
<1>6. CASE SettleStep(w)
  <2>1. job[w] \in Jobs
    BY <1>6
       DEF SettleStep, CommitSuccess, MarkFailed, MarkRetryable, WorkerTypes,
           WorkersWellFormed
  <2>2. CASE CommitSuccess(w)
    BY <2>1, <2>2
       DEF CommitSuccess, Goto, GotoWith, Settle, Reports, WorkerTypes, Terminal
  <2>3. CASE MarkFailed(w)
    BY <2>1, <2>3 DEF MarkFailed, GotoWith, Settle, Reports, WorkerTypes, Terminal
  <2>4. CASE MarkRetryable(w)
    <3>1. \/ GotoWith(w, "reporting", "discarded")
          \/ GotoWith(w, "reporting", "retry-scheduled")
          \/ GotoWith(w, "reporting", "failed") /\ Holds(w) /\ Settle(job[w], "failed")
      BY <2>4 DEF MarkRetryable
    <3>2. pc[w] # "idle" /\ UNCHANGED events
      BY <2>4 DEF MarkRetryable
    <3> QED
      BY <2>1, <3>1, <3>2 DEF GotoWith, Settle, Reports, WorkerTypes, Terminal
  <2> QED
    BY <1>6, <2>2, <2>3, <2>4 DEF SettleStep
<1>7. ASSUME NEW v \in Workers, QuietStep(v)
      PROVE  \/ pc'[w] = pc[w] /\ code'[w] = code[w] /\ job'[w] = job[w]
             \/ e = "discarded" /\ pc[w] # "idle" /\ job'[w] = job[w]
  <2>1. CASE v # w
    BY <1>7, <2>1, QuietEffect
  <2>2. CASE v = w
    BY <1>7, <2>2, QuietEffect DEF Reports
  <2> QED
    BY <2>1, <2>2
<1>8. pc[w] # "idle" => job[w] \in Jobs
  BY DEF WorkerTypes, WorkersWellFormed
<1>9. CASE \/ \E v \in Workers : SweepOnly(v)
           \/ \E j \in Jobs : \/ CancelOwnedJob(j) \/ WithdrawConsent(j)
                              \/ LeaseExpires(j) \/ BackoffElapses(j)
                              \/ \E a \in Attempts : ProviderFinishes(j, a)
           \/ UNCHANGED vars
  <2>1. UNCHANGED <<pc, code, job>>
    BY <1>9
       DEF SweepOnly, CancelOwnedJob, WithdrawConsent, LeaseExpires, BackoffElapses,
           ProviderFinishes, workerVars, vars
  <2> QED
    BY <1>2, <2>1
<1> QED
  BY StepCases, <1>1, <1>2, <1>3, <1>4, <1>5, <1>6, <1>7, <1>8, <1>9

\* Only a queued or running job changes status.
LEMMA StatusMoves ==
    ASSUME TypeOK, [Next]_vars, NEW j \in Jobs, status'[j] # status[j]
    PROVE  status[j] \in {"queued", "running"}
<1>1. JobStep(j)
  BY StepEffect
<1> QED
  BY <1>1 DEF JobStep, Untouched, Claimed, Swept, SettledBy, Cancelled, Holds, Authority

\* An event is written at most once and names the status the job ended with.
LEMMA TerminalEventsStep ==
    ASSUME QueueInv, ReportInv, TerminalEventsInv, [Next]_vars
    PROVE  TerminalEventsInv'
<1> SUFFICES ASSUME NEW j \in Jobs, NEW e \in Terminal
             PROVE  events'[j][e] <= 1 /\ (events'[j][e] = 1 => status'[j] = e)
  BY DEF TerminalEventsInv
<1>1. /\ events[j][e] \in Nat /\ events[j][e] <= 1
      /\ events[j][e] = 1 => status[j] = e
  BY DEF QueueInv, TypeOK, SideTypes, TerminalEventsInv, Terminal, EventNames
<1>2. e \notin {"queued", "running"}
  BY DEF Terminal
<1>3. status'[j] # status[j] => status[j] \in {"queued", "running"}
  BY StatusMoves DEF QueueInv
<1>4. CASE events'[j][e] = events[j][e]
  BY <1>1, <1>2, <1>3, <1>4
<1>5. CASE /\ events'[j][e] = events[j][e] + 1
           /\ status[j] \in {"queued", "running"} /\ status'[j] = e
  BY <1>1, <1>2, <1>5
<1>6. ASSUME NEW w \in Workers, Reports(w, e), job[w] = j, UNCHANGED status,
             events'[j][e] = events[j][e] + 1
      PROVE  events'[j][e] <= 1 /\ status'[j] = e
  BY <1>6 DEF ReportInv
<1> QED
  BY <1>4, <1>5, <1>6, EventsEffect DEF QueueInv

\* What a worker has still to report stays true until it reports it.
LEMMA ReportStep ==
    ASSUME QueueInv, ReportInv, TerminalEventsInv, [Next]_vars
    PROVE  ReportInv'
<1>1. TypeOK
  BY DEF QueueInv
<1>2. ASSUME NEW w \in Workers, NEW e \in Terminal, Reports(w, e)'
      PROVE  /\ job'[w] = job[w] /\ job[w] \in Jobs
             /\ \/ Reports(w, e)
                \/ Holds(w) /\ status'[job[w]] = e /\ UNCHANGED events /\ pc[w] # "idle"
  BY <1>1, <1>2, ReportEffect DEF Terminal
<1>3. ASSUME NEW w \in Workers, NEW e \in Terminal, Reports(w, e)'
      PROVE  status'[job'[w]] = e /\ events'[job'[w]][e] = 0
  <2> DEFINE j == job[w]
  <2>1. j \in Jobs /\ job'[w] = j
    BY <1>2, <1>3
  <2>2. e \notin {"queued", "running"}
    BY DEF Terminal
  <2>3. CASE Reports(w, e)
    <3>1. status[j] = e /\ events[j][e] = 0
      BY <2>3 DEF ReportInv
    <3>2. status'[j] = e
      BY <1>1, <2>1, <2>2, <3>1, StatusMoves
    <3>3. ASSUME NEW v \in Workers, Reports(v, e), job[v] = j, ~Reports(v, e)' PROVE FALSE
      BY <1>3, <2>3, <3>3 DEF ReportInv
    <3> QED
      BY <1>1, <2>1, <2>2, <3>1, <3>2, <3>3, EventsEffect
  <2>4. CASE Holds(w) /\ status'[j] = e /\ UNCHANGED events /\ pc[w] # "idle"
    <3>1. status[j] = "running"
      BY <2>4 DEF Holds, Authority
    <3>2. events[j][e] \in Nat /\ events[j][e] <= 1 /\ events[j][e] # 1
      BY <1>1, <2>1, <2>2, <3>1
         DEF TerminalEventsInv, TypeOK, SideTypes, Terminal, EventNames
    <3> QED
      BY <2>1, <2>4, <3>2
  <2> QED
    BY <1>2, <1>3, <2>3, <2>4
<1>4. ASSUME NEW v \in Workers, NEW w \in Workers, NEW e \in Terminal,
             v # w, job'[v] = job'[w], Reports(v, e)', Reports(w, e)'
      PROVE  FALSE
  <2>1. ASSUME NEW x \in Workers, NEW y \in Workers, job[x] = job[y], Reports(x, e), Holds(y)
        PROVE  FALSE
    BY <2>1 DEF ReportInv, Holds, Authority, Terminal
  <2>2. job[v] = job[w]
    BY <1>2, <1>4
  <2>3. ~(Reports(v, e) /\ Reports(w, e))
    BY <1>4, <2>2 DEF ReportInv
  <2>4. pc[v] # "idle" /\ pc[w] # "idle" => ~(Holds(v) /\ Holds(w))
    BY <1>4, <2>2 DEF QueueInv, TokenInv, Holds, Authority
  <2> QED
    BY <1>2, <1>4, <2>1, <2>2, <2>3, <2>4
<1>5. ASSUME NEW w \in Workers PROVE ~Reports(w, "started")'
  BY <1>1, ReportEffect DEF Terminal, ReportInv
<1> QED
  BY <1>3, <1>4, <1>5 DEF ReportInv

\* Only a claim of j adds to the attempts that have still to start, and only a worker
\* of j counts one of them as started.
LEMMA StartEffect ==
    ASSUME TypeOK, ReportInv, [Next]_vars, NEW j \in Jobs
    PROVE  \/ \E w \in Workers : ClaimOne(w, j)
           \/ \E w \in Workers : RecordStarted(w) /\ job[w] = j
           \/ events'[j]["started"] = events[j]["started"] /\ Starting(j)' \subseteq Starting(j)
<1> USE DEF TypeOK, JobTypes, SideTypes
<1> DEFINE Same == events'[j]["started"] = events[j]["started"]
           Fewer == Starting(j)' \subseteq Starting(j)
<1>0. "started" \in EventNames /\ "started" # "failed" /\ "started" # "cancelled"
  BY DEF EventNames
<1>1. ASSUME NEW w \in Workers,
             \A v \in Workers \ {w} :
                pc'[v] = pc[v] /\ job'[v] = job[v] /\ att'[v] = att[v],
             pc'[w] # "claimed"
      PROVE  Fewer
  BY <1>1 DEF Starting
<1>2. ASSUME UNCHANGED <<pc, job, att>> PROVE Fewer
  BY <1>2 DEF Starting
<1>3. ASSUME NEW w \in Workers, NEW k \in Jobs, ClaimOne(w, k), k # j PROVE Same /\ Fewer
  <2>1. Same
    BY <1>0, <1>3 DEF ClaimOne, ClaimTransaction
  <2>2. /\ job'[w] = k
        /\ \A v \in Workers \ {w} : pc'[v] = pc[v] /\ job'[v] = job[v] /\ att'[v] = att[v]
    BY <1>3 DEF ClaimOne, WorkerTypes
  <2> QED
    BY <1>3, <2>1, <2>2 DEF Starting
<1>4. ASSUME NEW w \in Workers, SweepOnly(w) PROVE Same /\ Fewer
  BY <1>0, <1>2, <1>4 DEF SweepOnly, ClaimTransaction, workerVars
<1>5. ASSUME NEW w \in Workers, RecordStarted(w), job[w] # j PROVE Same /\ Fewer
  <2>1. Same
    BY <1>0, <1>5 DEF RecordStarted, LogEvent
  <2>2. /\ pc'[w] = "dispatched"
        /\ \A v \in Workers \ {w} : pc'[v] = pc[v] /\ job'[v] = job[v] /\ att'[v] = att[v]
    BY <1>5 DEF RecordStarted, Goto, WorkerTypes
  <2> QED
    BY <1>1, <2>1, <2>2
<1>6. ASSUME NEW w \in Workers, QuietStep(w) PROVE Same /\ Fewer
  BY <1>1, <1>6, QuietEffect
<1>7. ASSUME NEW w \in Workers, SettleStep(w) PROVE Same /\ Fewer
  <2>1. Same
    BY <1>7 DEF SettleStep, CommitSuccess, MarkFailed, MarkRetryable
  <2>2. Goto(w, "failing") \/ \E c : GotoWith(w, "reporting", c)
    BY <1>7 DEF SettleStep, CommitSuccess, MarkFailed, MarkRetryable
  <2>3. /\ pc'[w] # "claimed"
        /\ \A v \in Workers \ {w} : pc'[v] = pc[v] /\ job'[v] = job[v] /\ att'[v] = att[v]
    BY <2>2 DEF Goto, GotoWith, WorkerTypes
  <2> QED
    BY <1>1, <2>1, <2>3
<1>8. ASSUME NEW w \in Workers, RecordOutcome(w) \/ Crash(w) PROVE Same /\ Fewer
  <2>3. /\ pc'[w] = "idle"
        /\ \A v \in Workers \ {w} : pc'[v] = pc[v] /\ job'[v] = job[v] /\ att'[v] = att[v]
    BY <1>8 DEF RecordOutcome, Crash, Release, WorkerTypes
  <2>4. Fewer
    BY <1>1, <2>3
  <2>5. Same
    <3>1. CASE RecordOutcome(w)
      BY <1>0, <3>1
         DEF RecordOutcome, LogEvent, ReportInv, Reports, WorkerTypes, WorkersWellFormed
    <3>2. CASE Crash(w)
      BY <3>2 DEF Crash, sideVars
    <3> QED
      BY <1>8, <3>1, <3>2
  <2> QED
    BY <2>4, <2>5
<1>9. ASSUME \/ \E k \in Jobs : \/ CancelOwnedJob(k) \/ WithdrawConsent(k)
                                \/ LeaseExpires(k) \/ BackoffElapses(k)
                                \/ \E a \in Attempts : ProviderFinishes(k, a)
             \/ UNCHANGED vars
      PROVE Same /\ Fewer
  <2>1. UNCHANGED <<pc, job, att>>
    BY <1>9
       DEF CancelOwnedJob, WithdrawConsent, LeaseExpires, BackoffElapses,
           ProviderFinishes, workerVars, vars
  <2>2. ASSUME NEW k \in Jobs, CancelOwnedJob(k) PROVE Same
    BY <1>0, <2>2 DEF CancelOwnedJob, LogEvent
  <2>3. CASE \/ \E k \in Jobs : \/ WithdrawConsent(k) \/ LeaseExpires(k) \/ BackoffElapses(k)
                                \/ \E a \in Attempts : ProviderFinishes(k, a)
             \/ UNCHANGED vars
    BY <1>2, <2>1, <2>3
       DEF WithdrawConsent, LeaseExpires, BackoffElapses, ProviderFinishes, sideVars, vars
  <2> QED
    BY <1>2, <1>9, <2>1, <2>2, <2>3
<1> QED
  BY StepCases, <1>3, <1>4, <1>5, <1>6, <1>7, <1>8, <1>9

\* No attempt is counted as started twice, nor before it is claimed.
LEMMA StartedStep ==
    ASSUME QueueInv, ReportInv, StartedInv, [Next]_vars
    PROVE  StartedInv'
<1> SUFFICES ASSUME NEW j \in Jobs
             PROVE  events'[j]["started"] + Cardinality(Starting(j)') <= attempts'[j]
  BY DEF StartedInv
<1>1. /\ attempts[j] \in Nat /\ attempts'[j] \in Nat /\ attempts[j] <= attempts'[j]
      /\ events[j]["started"] \in Nat
  <2>1. TypeOK /\ JobStep(j)
    BY StepEffect DEF QueueInv
  <2>2. attempts'[j] \in {attempts[j], attempts[j] + 1}
    BY <2>1 DEF JobStep, Untouched, Claimed, Swept, SettledBy, Cancelled, Ended
  <2>3. attempts[j] \in Nat /\ events[j]["started"] \in Nat
    BY <2>1, AttemptsAssumption DEF TypeOK, JobTypes, SideTypes, Tokens, EventNames
  <2> QED
    BY <2>2, <2>3
<1> USE DEF QueueInv, TypeOK, JobTypes, SideTypes
<1>2. /\ IsFiniteSet(Starting(j)) /\ Cardinality(Starting(j)) \in Nat
      /\ IsFiniteSet(Starting(j)') /\ Cardinality(Starting(j)') \in Nat
  <2>1. IsFiniteSet(Attempts)
    BY FS_Interval, AttemptsAssumption DEF Attempts
  <2>2. Starting(j) \subseteq Attempts /\ Starting(j)' \subseteq Attempts
    BY DEF Starting, Attempts
  <2>3. IsFiniteSet(Starting(j)) /\ IsFiniteSet(Starting(j)')
    BY <2>1, <2>2, FS_Subset
  <2> QED
    BY <2>3, FS_CardinalityType
<1>3. events[j]["started"] + Cardinality(Starting(j)) <= attempts[j]
  BY DEF StartedInv
<1>4. ASSUME NEW w \in Workers, ClaimOne(w, j)
      PROVE  events'[j]["started"] + Cardinality(Starting(j)') <= attempts'[j]
  <2>1. events'[j]["started"] = events[j]["started"] /\ attempts'[j] = attempts[j] + 1
    BY <1>4 DEF ClaimOne, ClaimTransaction, EventNames
  <2>2. /\ att'[w] = attempts[j] + 1
        /\ \A v \in Workers \ {w} : pc'[v] = pc[v] /\ job'[v] = job[v] /\ att'[v] = att[v]
    BY <1>4 DEF ClaimOne, WorkerTypes
  <2>3. Starting(j)' \subseteq Starting(j) \cup {attempts[j] + 1}
    BY <2>2 DEF Starting
  <2>4. /\ IsFiniteSet(Starting(j) \cup {attempts[j] + 1})
        /\ Cardinality(Starting(j) \cup {attempts[j] + 1}) <= Cardinality(Starting(j)) + 1
        /\ Cardinality(Starting(j) \cup {attempts[j] + 1}) \in Nat
    <3> DEFINE S == Starting(j)
               x == attempts[j] + 1
    <3>1. IsFiniteSet(S) /\ Cardinality(S) \in Nat
      BY <1>2
    <3> HIDE DEF S, x
    <3>2. /\ IsFiniteSet(S \cup {x})
          /\ Cardinality(S \cup {x}) = IF x \in S THEN Cardinality(S) ELSE Cardinality(S) + 1
      BY <3>1, FS_AddElement
    <3>3. Cardinality(S \cup {x}) \in Nat /\ Cardinality(S \cup {x}) <= Cardinality(S) + 1
      BY <3>1, <3>2
    <3> QED
      BY <3>2, <3>3 DEF S, x
  <2>5. Cardinality(Starting(j)') <= Cardinality(Starting(j) \cup {attempts[j] + 1})
    BY <2>3, <2>4, FS_Subset
  <2> HIDE DEF QueueInv, TypeOK, JobTypes, SideTypes
  <2> QED
    BY <1>1, <1>2, <1>3, <2>1, <2>4, <2>5
<1>5. ASSUME NEW w \in Workers, RecordStarted(w), job[w] = j
      PROVE  events'[j]["started"] + Cardinality(Starting(j)') <= attempts'[j]
  <2>1. events'[j]["started"] = events[j]["started"] + 1 /\ attempts'[j] = attempts[j]
    BY <1>5 DEF RecordStarted, LogEvent, jobVars, EventNames
  <2>2. /\ pc[w] = "claimed" /\ pc'[w] = "dispatched"
        /\ \A v \in Workers \ {w} : pc'[v] = pc[v] /\ job'[v] = job[v] /\ att'[v] = att[v]
    BY <1>5 DEF RecordStarted, Goto, WorkerTypes
  <2>3. att[w] \in Starting(j)
    BY <1>5, <2>2 DEF Starting, WorkerTypes, WorkersWellFormed
  <2>4. ASSUME NEW v \in Workers, v # w, pc[v] = "claimed", job[v] = j
        PROVE  att[v] # att[w]
    BY <1>5, <2>2, <2>4 DEF TokenInv
  <2>5. Starting(j)' \subseteq Starting(j) \ {att[w]}
    BY <2>2, <2>4 DEF Starting
  <2>6. /\ IsFiniteSet(Starting(j) \ {att[w]})
        /\ Cardinality(Starting(j) \ {att[w]}) = Cardinality(Starting(j)) - 1
    BY <1>2, <2>3, FS_RemoveElement
  <2>7. Cardinality(Starting(j)') <= Cardinality(Starting(j) \ {att[w]})
    BY <2>5, <2>6, FS_Subset
  <2> HIDE DEF QueueInv, TypeOK, JobTypes, SideTypes
  <2> QED
    BY <1>1, <1>2, <1>3, <2>1, <2>6, <2>7
<1>6. CASE events'[j]["started"] = events[j]["started"] /\ Starting(j)' \subseteq Starting(j)
  <2>1. Cardinality(Starting(j)') <= Cardinality(Starting(j))
    BY <1>2, <1>6, FS_Subset
  <2> HIDE DEF QueueInv, TypeOK, JobTypes, SideTypes
  <2> QED
    BY <1>1, <1>2, <1>3, <1>6, <2>1
<1> QED
  BY <1>4, <1>5, <1>6, StartEffect

\* The inductive invariant of the event log, relative to QueueInv.
EventInv == ReportInv /\ TerminalEventsInv /\ StartedInv

\* The event log's invariant, on top of the queue's.
LEMMA EventInvHolds == Spec => []EventInv
<1>1. Init => EventInv
  <2> SUFFICES ASSUME Init PROVE EventInv
    OBVIOUS
  <2>1. ReportInv /\ TerminalEventsInv
    BY DEF Init, ReportInv, Reports, TerminalEventsInv, Terminal, EventNames
  <2>2. \A j \in Jobs : Starting(j) = {}
    BY DEF Init, Starting
  <2>3. StartedInv
    <3>1. \A j \in Jobs : events[j]["started"] = 0 /\ attempts[j] = 0
      BY DEF Init, EventNames
    <3>2. \A j \in Jobs : Cardinality(Starting(j)) = 0
      BY <2>2, FS_EmptySet
    <3> QED
      BY <3>1, <3>2 DEF StartedInv
  <2> QED
    BY <2>1, <2>3 DEF EventInv
<1>2. QueueInv /\ EventInv /\ [Next]_vars => EventInv'
  BY ReportStep, TerminalEventsStep, StartedStep DEF EventInv
<1> QED
  BY <1>1, <1>2, QueueInvHolds, PTL DEF Spec

\* TerminalEventTruthful, for every job and worker: although record_event runs in a
\* transaction of its own after the one that ended the job (queue.py), a job has at most
\* one terminal event, it names the job's real end, and no attempt is logged as
\* started that was not claimed.
THEOREM EventRecord == Spec => []TerminalEventTruthful
<1>1. TypeOK /\ EventInv => TerminalEventTruthful
  <2> SUFFICES ASSUME TypeOK, EventInv, NEW j \in Jobs
               PROVE  events[j]["started"] <= attempts[j]
    BY DEF EventInv, TerminalEventsInv, TerminalEventTruthful
  <2>1. IsFiniteSet(Starting(j))
    <3>1. IsFiniteSet(Attempts)
      BY FS_Interval, AttemptsAssumption DEF Attempts
    <3>2. Starting(j) \subseteq Attempts
      BY DEF Starting
    <3> QED
      BY <3>1, <3>2, FS_Subset
  <2>2. Cardinality(Starting(j)) \in Nat
    BY <2>1, FS_CardinalityType
  <2>3. events[j]["started"] \in Nat /\ attempts[j] \in Nat
    BY AttemptsAssumption DEF TypeOK, JobTypes, SideTypes, Tokens, EventNames
  <2>4. events[j]["started"] + Cardinality(Starting(j)) <= attempts[j]
    BY DEF EventInv, StartedInv
  <2> QED
    BY <2>2, <2>3, <2>4
<1> QED
  BY <1>1, EventInvHolds, TypeCorrect, PTL

-----------------------------------------------------------------------------
(* Provider calls: job_provider_calls and what runs at the provider *)

\* A persisted call was spawned for a Modal job; calls belong to attempts that have
\* begun; the only persisted call that may still run is the one the job points to.
CallTableInv ==
    /\ \A j \in Jobs, a \in Attempts :
          /\ callRow[j][a] # "none" => j \in Modal /\ remote[j][a] # "none"
          /\ remote[j][a] # "none" => a <= attempts[j]
          /\ (callRow[j][a] # "none" /\ remote[j][a] = "active") => callId[j] = a
    /\ \A j \in Jobs : callId[j] # 0 => callRow[j][callId[j]] # "none"

\* Before a worker touches the provider; after it has the result.
Early == {"claimed", "dispatched"}
Finishing == {"returned", "authorized", "uploaded"}

\* What a worker believes about provider calls.
CallKnown(w) ==
    /\ call[w] # 0 => callRow[job[w]][call[w]] # "none"
    /\ callRow[job[w]][att[w]] # "none" => call[w] = att[w]
    /\ Holds(w) => call[w] = callId[job[w]]

\* What has become of its call when the worker has reached a step.
CallReached(w) ==
    /\ pc[w] \in Early => remote[job[w]][att[w]] = "none"
    /\ pc[w] = "spawned" =>
          /\ job[w] \in Modal /\ remote[job[w]][att[w]] # "none"
          /\ callRow[job[w]][att[w]] = "none"
    /\ pc[w] = "callCancelled" => remote[job[w]][call[w]] # "active"
    /\ (pc[w] \in Finishing /\ job[w] \in Modal) =>
          call[w] # 0 /\ remote[job[w]][call[w]] = "done"
    /\ (pc[w] = "retrying" /\ ~PreservesCall(w) /\ job[w] \in Modal) =>
          call[w] # 0 /\ remote[job[w]][call[w]] # "active"

WorkerCallInv == \A w \in Workers : pc[w] # "idle" => CallKnown(w) /\ CallReached(w)

\* The inductive invariant of the provider calls, relative to QueueInv.
CallInv == CallTableInv /\ WorkerCallInv /\ CallRowsTruthful

\* The step that persists the call of worker w.
Persists(w) == RecordProviderCall(w) /\ Holds(w) /\ callId[job[w]] = 0
               /\ callId' = [callId EXCEPT ![job[w]] = att[w]]
               /\ callRow' = [callRow EXCEPT ![job[w]][att[w]] = "submitted"]
               /\ call' = [call EXCEPT ![w] = att[w]]

\* A provider call starts by a spawn and ends once.
LEMMA RemoteEffect ==
    ASSUME TypeOK, [Next]_vars, NEW j \in Jobs, NEW a \in Attempts
    PROVE  \/ remote'[j][a] = remote[j][a]
           \/ remote[j][a] = "active" /\ remote'[j][a] \in {"done", "terminated"}
           \/ \E w \in Workers : SpawnCall(w) /\ job[w] = j /\ att[w] = a
<1> USE DEF TypeOK, OutsideTypes
<1>1. ASSUME NEW w \in Workers, SpawnCall(w), ~(job[w] = j /\ att[w] = a)
      PROVE  remote'[j][a] = remote[j][a]
  <2>1. job[w] \in Jobs /\ att[w] \in Attempts
    BY <1>1 DEF SpawnCall, WorkerTypes, WorkersWellFormed
  <2> QED
    BY <1>1, <2>1 DEF SpawnCall
<1>2. ASSUME NEW k \in Jobs, NEW b \in Attempts, NEW s \in {"done", "terminated"},
             remote' = [remote EXCEPT ![k][b] = IF @ = "active" THEN s ELSE @]
      PROVE  \/ remote'[j][a] = remote[j][a]
             \/ remote[j][a] = "active" /\ remote'[j][a] \in {"done", "terminated"}
  BY <1>2
<1>3. ASSUME NEW w \in Workers, CancelUnpersisted(w) \/ CancelCall(w)
      PROVE  \/ UNCHANGED remote
             \/ \E k \in Jobs, b \in Attempts :
                   remote' = [remote EXCEPT ![k][b] = IF @ = "active" THEN "terminated" ELSE @]
  BY <1>3 DEF CancelUnpersisted, CancelCall, WorkerTypes, WorkersWellFormed
<1>4. ASSUME NEW k \in Jobs, NEW b \in Attempts, ProviderFinishes(k, b)
      PROVE  remote' = [remote EXCEPT ![k][b] = IF @ = "active" THEN "done" ELSE @]
  BY <1>4 DEF ProviderFinishes
<1>5. ASSUME NEW w \in Workers, QuietStep(w), ~SpawnCall(w), ~CancelUnpersisted(w), ~CancelCall(w)
      PROVE  UNCHANGED remote
  BY <1>5
     DEF QuietStep, HandlerReturns, HandlerRaisesRetryable, HandlerRaises,
         RecordProviderCall, ReattachCall, PollAuthority, GetCall,
         RecordProviderCancelled, CheckAuthority, StorePolicy, outsideVars
<1>6. ASSUME NEW w \in Workers, \/ SweepOnly(w) \/ (\E k \in Jobs : ClaimOne(w, k))
                                \/ RecordStarted(w) \/ SettleStep(w)
                                \/ RecordOutcome(w) \/ Crash(w)
      PROVE  UNCHANGED remote
  BY <1>6
     DEF SweepOnly, ClaimOne, ClaimTransaction, RecordStarted, SettleStep, CommitSuccess,
         MarkFailed, MarkRetryable, RecordOutcome, Crash, outsideVars
<1>7. ASSUME NEW k \in Jobs, \/ CancelOwnedJob(k) \/ WithdrawConsent(k)
                             \/ LeaseExpires(k) \/ BackoffElapses(k)
      PROVE  UNCHANGED remote
  BY <1>7 DEF CancelOwnedJob, WithdrawConsent, LeaseExpires, BackoffElapses, outsideVars
<1>8. CASE UNCHANGED vars
  BY <1>8 DEF vars, outsideVars
<1>9. CASE UNCHANGED remote
  BY <1>9
<1>10. ASSUME NEW w \in Workers, QuietStep(w)
       PROVE  \/ remote'[j][a] = remote[j][a]
              \/ remote[j][a] = "active" /\ remote'[j][a] \in {"done", "terminated"}
              \/ SpawnCall(w) /\ job[w] = j /\ att[w] = a
  BY <1>10, <1>1, <1>2, <1>3, <1>5, <1>9
<1>11. ASSUME NEW k \in Jobs, NEW b \in Attempts, ProviderFinishes(k, b)
       PROVE  \/ remote'[j][a] = remote[j][a]
              \/ remote[j][a] = "active" /\ remote'[j][a] \in {"done", "terminated"}
  BY <1>11, <1>2, <1>4
<1> QED
  BY StepCases, <1>6, <1>7, <1>8, <1>9, <1>10, <1>11

\* Which steps write the row of a provider call, and what.
LEMMA CallRowEffect ==
    ASSUME TypeOK, [Next]_vars, NEW j \in Jobs, NEW a \in Attempts
    PROVE  \/ callRow'[j][a] = callRow[j][a]
           \/ \E w \in Workers : /\ Persists(w) /\ job[w] = j /\ att[w] = a
                                 /\ callRow'[j][a] = "submitted"
           \/ /\ callRow[j][a] # "none"
              /\ \/ \E w \in Workers : /\ pc[w] = "callCancelled" /\ job[w] = j /\ call[w] = a
                                       /\ callRow'[j][a] = "cancelled"
                 \/ \E w \in Workers : /\ pc[w] \in Finishing /\ job[w] = j /\ call[w] = a
                                       /\ callRow'[j][a] = "succeeded"
                 \/ \E w \in Workers : /\ MarkRetryable(w) /\ Holds(w) /\ job[w] = j
                                       /\ ~PreservesCall(w) /\ callRow'[j][a] = "failed"
                 \/ callRow'[j][a] = "failed" /\ status'[j] = "failed"
                 \/ callRow'[j][a] = "cancellation-requested"
<1> USE DEF TypeOK, SideTypes
<1>1. ASSUME NEW w \in Workers, RecordProviderCall(w)
      PROVE  \/ callRow'[j][a] = callRow[j][a]
             \/ Persists(w) /\ job[w] = j /\ att[w] = a /\ callRow'[j][a] = "submitted"
  <2>1. job[w] \in Jobs /\ att[w] \in Attempts
    BY <1>1 DEF RecordProviderCall, WorkerTypes, WorkersWellFormed
  <2>2. CASE UNCHANGED callRow
    BY <2>2
  <2>3. CASE Persists(w)
    BY <2>1, <2>3 DEF Persists
  <2> QED
    BY <1>1, <2>2, <2>3 DEF RecordProviderCall, Persists
<1>2. ASSUME NEW w \in Workers, RecordProviderCancelled(w)
      PROVE  \/ callRow'[j][a] = callRow[j][a]
             \/ /\ callRow[j][a] # "none" /\ pc[w] = "callCancelled" /\ job[w] = j /\ call[w] = a
                /\ callRow'[j][a] = "cancelled"
  <2>1. job[w] \in Jobs /\ call[w] \in Attempts /\ pc[w] = "callCancelled"
    BY <1>2 DEF RecordProviderCancelled, WorkerTypes, WorkersWellFormed
  <2> QED
    BY <1>2, <2>1 DEF RecordProviderCancelled
<1>3. ASSUME NEW k \in Jobs, NEW A, NEW s, SetCalls(k, A, s)
      PROVE  callRow'[j][a] = IF j = k /\ a \in A THEN s ELSE callRow[j][a]
  BY <1>3 DEF SetCalls
<1>4. ASSUME NEW w \in Workers, CommitSuccess(w)
      PROVE  \/ callRow'[j][a] = callRow[j][a]
             \/ /\ callRow[j][a] # "none" /\ pc[w] \in Finishing /\ job[w] = j /\ call[w] = a
                /\ callRow'[j][a] = "succeeded"
  <2>1. job[w] \in Jobs /\ pc[w] \in Finishing
    BY <1>4 DEF CommitSuccess, WorkerTypes, WorkersWellFormed, Finishing
  <2>2. CASE UNCHANGED callRow
    BY <2>2
  <2>3. CASE SetCalls(job[w], {b \in {call[w]} : b # 0 /\ callRow[job[w]][b] # "none"}, "succeeded")
    BY <1>3, <2>1, <2>3
  <2> QED
    BY <1>4, <2>2, <2>3 DEF CommitSuccess
<1>5. ASSUME NEW w \in Workers, MarkFailed(w)
      PROVE  \/ callRow'[j][a] = callRow[j][a]
             \/ callRow[j][a] # "none" /\ callRow'[j][a] = "failed" /\ status'[j] = "failed"
  <2>1. job[w] \in Jobs
    BY <1>5 DEF MarkFailed, WorkerTypes, WorkersWellFormed
  <2>2. CASE UNCHANGED callRow
    BY <2>2
  <2>3. CASE SetCalls(job[w], SubmittedIn(job[w], Attempts), "failed") /\ Settle(job[w], "failed")
    BY <1>3, <2>1, <2>3 DEF SubmittedIn, Settle, JobTypes
  <2> QED
    BY <1>5, <2>2, <2>3 DEF MarkFailed
<1>6. ASSUME NEW w \in Workers, MarkRetryable(w)
      PROVE  \/ callRow'[j][a] = callRow[j][a]
             \/ /\ callRow[j][a] # "none" /\ MarkRetryable(w) /\ Holds(w) /\ job[w] = j
                /\ ~PreservesCall(w) /\ callRow'[j][a] = "failed"
  <2>1. job[w] \in Jobs
    BY <1>6 DEF MarkRetryable, WorkerTypes, WorkersWellFormed
  <2>2. CASE UNCHANGED callRow
    BY <2>2
  <2>3. CASE Holds(w) /\ SetCalls(job[w], IF PreservesCall(w) THEN {}
                                          ELSE SubmittedIn(job[w], {att[w], call[w]}), "failed")
    BY <1>3, <1>6, <2>1, <2>3 DEF SubmittedIn
  <2> QED
    BY <1>6, <2>2, <2>3 DEF MarkRetryable
<1>7. ASSUME NEW k \in Jobs, CancelOwnedJob(k)
      PROVE  \/ callRow'[j][a] = callRow[j][a]
             \/ callRow[j][a] # "none" /\ callRow'[j][a] = "cancellation-requested"
  BY <1>3, <1>7 DEF CancelOwnedJob, SubmittedIn
<1>8. ASSUME NEW w \in Workers, QuietStep(w), ~RecordProviderCall(w), ~RecordProviderCancelled(w)
      PROVE  UNCHANGED callRow
  BY <1>8 DEF QuietStep, HandlerReturns, HandlerRaisesRetryable, HandlerRaises, SpawnCall,
              CancelUnpersisted, CancelCall,
              ReattachCall, PollAuthority, GetCall, CheckAuthority, StorePolicy, sideVars
<1>9. ASSUME NEW w \in Workers, \/ SweepOnly(w) \/ (\E k \in Jobs : ClaimOne(w, k))
                                \/ RecordStarted(w) \/ RecordOutcome(w) \/ Crash(w)
      PROVE  UNCHANGED callRow
  BY <1>9
     DEF SweepOnly, ClaimOne, ClaimTransaction, RecordStarted, RecordOutcome, Crash,
         sideVars
<1>10. ASSUME NEW k \in Jobs, \/ WithdrawConsent(k) \/ LeaseExpires(k) \/ BackoffElapses(k)
                              \/ \E b \in Attempts : ProviderFinishes(k, b)
       PROVE  UNCHANGED callRow
  BY <1>10 DEF WithdrawConsent, LeaseExpires, BackoffElapses, ProviderFinishes, sideVars
<1>11. CASE UNCHANGED vars
  BY <1>11 DEF vars, sideVars
<1>12. CASE UNCHANGED callRow
  BY <1>12
<1> QED
  BY StepCases, <1>1, <1>2, <1>4, <1>5, <1>6, <1>7, <1>8, <1>9, <1>10, <1>11, <1>12
     DEF SettleStep

\* The call a job points to is set when it is persisted and given up by a retry.
LEMMA CallIdEffect ==
    ASSUME TypeOK, [Next]_vars, NEW j \in Jobs
    PROVE  \/ callId'[j] = callId[j]
           \/ \E w \in Workers : Persists(w) /\ job[w] = j /\ callId'[j] = att[w]
           \/ \E w \in Workers : /\ MarkRetryable(w) /\ Holds(w) /\ job[w] = j
                                 /\ ~PreservesCall(w) /\ callId'[j] = 0 /\ status'[j] # "running"
<1> USE DEF TypeOK, JobTypes
<1>1. ASSUME NEW w \in Workers, RecordProviderCall(w)
      PROVE  callId'[j] = callId[j] \/ (Persists(w) /\ job[w] = j /\ callId'[j] = att[w])
  <2>1. job[w] \in Jobs
    BY <1>1 DEF RecordProviderCall, WorkerTypes, WorkersWellFormed
  <2> QED
    BY <1>1, <2>1 DEF RecordProviderCall, Persists
<1>2. ASSUME NEW w \in Workers, MarkRetryable(w)
      PROVE  \/ callId'[j] = callId[j]
             \/ /\ MarkRetryable(w) /\ Holds(w) /\ job[w] = j /\ ~PreservesCall(w)
                /\ callId'[j] = 0 /\ status'[j] # "running"
  <2>1. job[w] \in Jobs
    BY <1>2 DEF MarkRetryable, WorkerTypes, WorkersWellFormed
  <2>2. CASE UNCHANGED callId
    BY <2>2
  <2>3. CASE /\ Holds(w)
             /\ Settle(job[w], IF attempts[job[w]] < MaxAttempts THEN "queued" ELSE "failed")
             /\ callId' = [callId EXCEPT ![job[w]] =
                             IF attempts[job[w]] < MaxAttempts /\ ~PreservesCall(w) THEN 0 ELSE @]
    <3>1. CASE job[w] = j
      BY <1>2, <2>1, <2>3, <3>1 DEF Settle
    <3>2. CASE job[w] # j
      BY <2>1, <2>3, <3>2
    <3> QED
      BY <3>1, <3>2
  <2> QED
    BY <1>2, <2>2, <2>3 DEF MarkRetryable
<1>3. ASSUME NEW w \in Workers, QuietStep(w), ~RecordProviderCall(w)
      PROVE  UNCHANGED callId
  BY <1>3 DEF QuietStep, HandlerReturns, HandlerRaisesRetryable, HandlerRaises, SpawnCall,
              CancelUnpersisted, CancelCall, RecordProviderCancelled,
              ReattachCall, PollAuthority, GetCall, CheckAuthority, StorePolicy, jobVars
<1>4. ASSUME NEW w \in Workers,
             \/ SweepOnly(w) \/ (\E k \in Jobs : ClaimOne(w, k)) \/ CommitSuccess(w)
             \/ MarkFailed(w) \/ RecordStarted(w) \/ RecordOutcome(w) \/ Crash(w)
      PROVE  UNCHANGED callId
  BY <1>4
     DEF SweepOnly, ClaimOne, ClaimTransaction, CommitSuccess, MarkFailed, RecordStarted,
         RecordOutcome, Crash, jobVars
<1>5. ASSUME NEW k \in Jobs,
             \/ CancelOwnedJob(k) \/ WithdrawConsent(k)
             \/ LeaseExpires(k) \/ BackoffElapses(k)
             \/ \E b \in Attempts : ProviderFinishes(k, b)
       PROVE  UNCHANGED callId
  BY <1>5
     DEF CancelOwnedJob, WithdrawConsent, LeaseExpires, BackoffElapses, ProviderFinishes,
         jobVars
<1>6. CASE UNCHANGED vars
  BY <1>6 DEF vars, jobVars
<1> QED
  BY StepCases, <1>1, <1>2, <1>3, <1>4, <1>5, <1>6 DEF SettleStep

\* How a worker comes to the step it is at, other than by a claim, a spawn or the
\* persisting of its call.
Moved(v) ==
    /\ pc[v] # "idle" /\ job'[v] = job[v] /\ att'[v] = att[v] /\ call'[v] = call[v]
    /\ pc'[v] \in Early => pc[v] \in Early
    /\ pc'[v] = "spawned" => pc[v] = "spawned"
    /\ pc'[v] = "callCancelled" =>
          \/ pc[v] = "callCancelled"
          \/ remote'[job[v]][call[v]] # "active"
    /\ pc'[v] \in Finishing =>
          \/ pc[v] \in Finishing
          \/ job[v] \notin Modal
          \/ call[v] \in Attempts /\ remote'[job[v]][call[v]] = "done"
    /\ pc'[v] = "retrying" =>
          \/ pc[v] = "retrying" /\ code'[v] = code[v]
          \/ job[v] \notin Modal
          \/ code'[v] = "provider-recovery-pending"
          \/ pc[v] = "callCancelled" /\ call[v] \in Attempts
          \/ pc[v] \in Finishing

\* Every worker that is busy after a step came there in one of these ways.
LEMMA WorkerMove ==
    ASSUME TypeOK, [Next]_vars, NEW v \in Workers, pc'[v] # "idle"
    PROVE  \/ \E j \in Jobs : ClaimOne(v, j)
           \/ SpawnCall(v) \/ Persists(v) \/ Moved(v)
<1> USE DEF TypeOK
<1>0. ASSUME pc'[v] = pc[v], job'[v] = job[v], att'[v] = att[v],
             call'[v] = call[v], code'[v] = code[v]
      PROVE  Moved(v)
  BY <1>0 DEF Moved
<1>1. ASSUME NEW w \in Workers, NEW label, v # w,
             Goto(w, label) \/ (\E c : GotoWith(w, label, c)) \/ Release(w)
      PROVE  /\ pc'[v] = pc[v] /\ job'[v] = job[v] /\ att'[v] = att[v]
             /\ call'[v] = call[v] /\ code'[v] = code[v]
  BY <1>1 DEF Goto, GotoWith, Release, WorkerTypes
<1>2. ASSUME NEW w \in Workers, v # w, QuietStep(w) PROVE Moved(v)
  BY <1>0, <1>2, QuietEffect
<1>3. ASSUME NEW w \in Workers, v # w,
             SettleStep(w) \/ RecordStarted(w) \/ RecordOutcome(w) \/ Crash(w)
      PROVE  Moved(v)
  <2>1. \/ \E label : Goto(w, label) \/ (\E c : GotoWith(w, label, c))
        \/ Release(w)
    BY <1>3
       DEF SettleStep, CommitSuccess, MarkFailed, MarkRetryable, RecordStarted,
           RecordOutcome, Crash
  <2> QED
    BY <1>0, <1>1, <1>3, <2>1
<1>4. ASSUME NEW w \in Workers, NEW j \in Jobs, v # w, ClaimOne(w, j) PROVE Moved(v)
  BY <1>0, <1>4 DEF ClaimOne, WorkerTypes
<1>5. CASE \/ \E w \in Workers : SweepOnly(w)
           \/ \E j \in Jobs : \/ CancelOwnedJob(j) \/ WithdrawConsent(j)
                              \/ LeaseExpires(j) \/ BackoffElapses(j)
                              \/ \E a \in Attempts : ProviderFinishes(j, a)
           \/ UNCHANGED vars
  <2>1. UNCHANGED workerVars
    BY <1>5 DEF SweepOnly, CancelOwnedJob, WithdrawConsent, LeaseExpires, BackoffElapses,
                ProviderFinishes, vars
  <2> QED
    BY <1>0, <2>1 DEF workerVars
<1>6. ASSUME NEW label, Goto(v, label)
      PROVE  /\ pc'[v] = label
             /\ job'[v] = job[v] /\ att'[v] = att[v] /\ call'[v] = call[v] /\ code'[v] = code[v]
  BY <1>6 DEF Goto, WorkerTypes
<1>7. ASSUME NEW label, NEW c, GotoWith(v, label, c)
      PROVE  /\ pc'[v] = label /\ code'[v] = c
             /\ job'[v] = job[v] /\ att'[v] = att[v] /\ call'[v] = call[v]
  BY <1>7 DEF GotoWith, WorkerTypes
<1>8. CASE SettleStep(v)
  <2>1. pc[v] # "idle" /\ (Goto(v, "failing") \/ \E c : GotoWith(v, "reporting", c))
    BY <1>8 DEF SettleStep, CommitSuccess, MarkFailed, MarkRetryable
  <2> QED
    BY <1>6, <1>7, <2>1 DEF Moved, Early, Finishing
<1>9. CASE RecordStarted(v)
  BY <1>6, <1>9 DEF RecordStarted, Moved, Early, Finishing
<1>10. CASE RecordOutcome(v) \/ Crash(v)
  BY <1>10 DEF RecordOutcome, Crash, Release, WorkerTypes
<1>11. CASE QuietStep(v)
  <2>1. CASE RecordProviderCall(v)
    <3>1. CASE Goto(v, "unpersisted")
      BY <1>6, <2>1, <3>1 DEF RecordProviderCall, Moved, Early, Finishing
    <3>2. CASE ~Goto(v, "unpersisted")
      BY <2>1, <3>2 DEF RecordProviderCall, Persists
    <3> QED
      BY <3>1, <3>2
  <2>2. CASE HandlerReturns(v) \/ HandlerRaises(v) \/ CancelUnpersisted(v) \/ PollAuthority(v)
    BY <1>6, <2>2
       DEF HandlerReturns, HandlerRaises, CancelUnpersisted, PollAuthority, Moved, Early,
           Finishing
  <2>3. CASE HandlerRaisesRetryable(v) \/ RecordProviderCancelled(v)
    BY <1>7, <2>3
       DEF HandlerRaisesRetryable, RecordProviderCancelled, Moved, Early, Finishing,
           WorkerTypes, WorkersWellFormed
  <2>4. CASE ReattachCall(v)
    BY <1>6, <1>7, <2>4 DEF ReattachCall, Moved, Early, Finishing
  <2>5. CASE GetCall(v)
    <3>1. pc[v] = "waiting" /\ call[v] \in Attempts /\ UNCHANGED remote
      BY <2>5 DEF GetCall, outsideVars, WorkerTypes, WorkersWellFormed
    <3>2. CASE GotoWith(v, "retrying", "provider-recovery-pending")
      BY <1>7, <3>1, <3>2 DEF Moved, Early, Finishing
    <3>3. CASE Goto(v, "polling") \/ Goto(v, "failing")
      BY <1>6, <3>1, <3>3 DEF Moved, Early, Finishing
    <3>4. CASE remote[job[v]][call[v]] = "done" /\ Goto(v, "returned")
      BY <1>6, <3>1, <3>4 DEF Moved, Early, Finishing
    <3> QED
      BY <2>5, <3>2, <3>3, <3>4 DEF GetCall
  <2>6. CASE CancelCall(v)
    <3>1. pc[v] = "cancelling" /\ call[v] \in Attempts /\ job[v] \in Jobs
      BY <2>6 DEF CancelCall, WorkerTypes, WorkersWellFormed
    <3>2. CASE Goto(v, "failing")
      BY <1>6, <3>1, <3>2 DEF Moved, Early, Finishing
    <3>3. CASE /\ remote' = [remote EXCEPT ![job[v]][call[v]] =
                                IF @ = "active" THEN "terminated" ELSE @]
               /\ Goto(v, "callCancelled")
      <4>1. remote'[job[v]][call[v]] # "active"
        BY <3>1, <3>3 DEF OutsideTypes
      <4> QED
        BY <1>6, <3>1, <3>3, <4>1 DEF Moved, Early, Finishing
    <3> QED
      BY <2>6, <3>2, <3>3 DEF CancelCall
  <2>7. CASE CheckAuthority(v)
    BY <1>6, <1>7, <2>7 DEF CheckAuthority, Moved, Early, Finishing
  <2>8. CASE StorePolicy(v)
    BY <1>6, <1>7, <2>8 DEF StorePolicy, Moved, Early, Finishing
  <2> QED
    BY <1>11, <2>1, <2>2, <2>3, <2>4, <2>5, <2>6, <2>7, <2>8 DEF QuietStep
<1> QED
  BY StepCases, <1>2, <1>3, <1>4, <1>5, <1>8, <1>9, <1>10, <1>11

\* What CallInv says about a busy worker is about a job and attempts of the right type.
LEMMA BusyWorker ==
    ASSUME TypeOK, NEW w \in Workers, pc[w] # "idle"
    PROVE  /\ job[w] \in Jobs /\ att[w] \in Attempts /\ att[w] # 0
           /\ call[w] # 0 => call[w] \in Attempts
  BY DEF TypeOK, WorkerTypes, WorkersWellFormed, Attempts, Tokens

\* A call that is over stays over, and one that was never spawned is so until the
\* worker of its attempt spawns it.
LEMMA CallsOver ==
    ASSUME QueueInv, CallInv, [Next]_vars, NEW j \in Jobs, NEW a \in Attempts
    PROVE  /\ remote[j][a] # "none" => remote'[j][a] \in {remote[j][a], "done", "terminated"}
           /\ remote[j][a] \in {"done", "terminated"} => remote'[j][a] = remote[j][a]
           /\ callRow[j][a] # "none" => callRow'[j][a] # "none"
<1>1. ASSUME NEW w \in Workers, SpawnCall(w), job[w] = j, att[w] = a
      PROVE  remote[j][a] = "none"
  BY <1>1 DEF SpawnCall, CallInv, WorkerCallInv, CallReached, Early
<1>2. TypeOK
  BY DEF QueueInv
<1>3. callRow[j][a] # "none" => callRow'[j][a] # "none"
  BY <1>2, CallRowEffect
<1> QED
  BY <1>1, <1>2, <1>3, RemoteEffect

\* Authority over a job is never regained: a worker that has it had it before.
LEMMA HoldsBefore ==
    ASSUME TypeOK, [Next]_vars, NEW v \in Workers, pc[v] # "idle",
           job'[v] = job[v], att'[v] = att[v], Holds(v)', TokenInv
    PROVE  Holds(v)
<1>1. job[v] \in Jobs /\ att[v] \in Attempts /\ att[v] # 0
  BY BusyWorker
<1>2. JobStep(job[v])
  BY <1>1, StepEffect
<1>3. att[v] <= attempts[job[v]] /\ attempts[job[v]] \in Nat /\ att[v] \in Nat
  BY <1>1, AttemptsAssumption DEF TokenInv, TypeOK, JobTypes, Tokens, Attempts
<1> QED
  BY <1>1, <1>2, <1>3
     DEF JobStep, Untouched, Claimed, Swept, SettledBy, Cancelled, Ended, Holds,
         Authority

\* The table of calls and the provider agree after every step.
LEMMA CallTableStep ==
    ASSUME QueueInv, CallInv, [Next]_vars
    PROVE  CallTableInv'
<1> USE DEF QueueInv
<1>1. ASSUME NEW w \in Workers, Persists(w)
      PROVE  /\ job[w] \in Jobs /\ att[w] \in Attempts /\ job[w] \in Modal
             /\ remote[job[w]][att[w]] # "none"
    BY <1>1, BusyWorker
       DEF Persists, RecordProviderCall, CallInv, WorkerCallInv, CallReached
<1>2. ASSUME NEW w \in Workers, MarkRetryable(w), Holds(w), ~PreservesCall(w), job[w] \in Modal
      PROVE  /\ call[w] = callId[job[w]] /\ call[w] # 0
             /\ remote[job[w]][call[w]] # "active"
  BY <1>2 DEF MarkRetryable, CallInv, WorkerCallInv, CallReached, CallKnown
<1>3. ASSUME NEW j \in Jobs, NEW a \in Attempts, callRow'[j][a] # "none"
      PROVE  /\ j \in Modal /\ remote[j][a] # "none" /\ remote'[j][a] # "none"
             /\ remote'[j][a] = "active" => remote[j][a] = "active"
  <2>1. j \in Modal /\ remote[j][a] # "none"
    <3>1. CASE callRow[j][a] # "none"
      BY <3>1 DEF CallInv, CallTableInv
    <3>2. CASE callRow[j][a] = "none"
      BY <1>1, <1>3, <3>2, CallRowEffect
    <3> QED
      BY <3>1, <3>2
  <2> QED
    BY <2>1, CallsOver
<1>4. ASSUME NEW j \in Jobs, NEW a \in Attempts, remote'[j][a] # "none"
      PROVE  a <= attempts'[j]
  <2>1. attempts[j] \in Nat /\ attempts'[j] \in {attempts[j], attempts[j] + 1} /\ a \in Nat
    BY StepEffect, AttemptsAssumption
       DEF JobStep, Untouched, Claimed, Swept, SettledBy, Cancelled, Ended, TypeOK,
           JobTypes, Tokens, Attempts
  <2>2. a <= attempts[j]
    <3>1. CASE remote[j][a] # "none"
      BY <3>1 DEF CallInv, CallTableInv
    <3>2. CASE remote[j][a] = "none"
      <4>1. PICK w \in Workers : SpawnCall(w) /\ job[w] = j /\ att[w] = a
        BY <1>4, <3>2, RemoteEffect
      <4> QED
        BY <4>1 DEF SpawnCall, TokenInv
    <3> QED
      BY <3>1, <3>2
  <2> QED
    BY <2>1, <2>2
<1>5. ASSUME NEW j \in Jobs, NEW a \in Attempts, callRow'[j][a] # "none", remote'[j][a] = "active"
      PROVE  callId'[j] = a
  <2>1. j \in Modal /\ remote[j][a] = "active" /\ a # 0
    BY <1>3, <1>5 DEF Attempts
  <2>2. CASE callRow[j][a] # "none"
    <3>1. callId[j] = a
      BY <2>1, <2>2 DEF CallInv, CallTableInv
    <3>2. \A w \in Workers : Persists(w) => callId[job[w]] = 0
      BY DEF Persists
    <3> QED
      BY <1>2, <2>1, <3>1, <3>2, CallIdEffect
  <2>3. CASE callRow[j][a] = "none"
    <3>1. PICK w \in Workers : Persists(w) /\ job[w] = j /\ att[w] = a
      BY <1>5, <2>3, CallRowEffect
    <3> QED
      BY <3>1 DEF Persists, TypeOK, JobTypes
  <2> QED
    BY <2>2, <2>3
<1>6. ASSUME NEW j \in Jobs, callId'[j] # 0 PROVE callRow'[j][callId'[j]] # "none"
  <2>1. CASE callId'[j] = callId[j]
    <3>1. callId[j] \in Attempts /\ callRow[j][callId[j]] # "none"
      BY <1>6, <2>1 DEF CallInv, CallTableInv, TypeOK, JobTypes, Tokens, Attempts
    <3> QED
      BY <2>1, <3>1, CallsOver
  <2>2. CASE callId'[j] # callId[j]
    <3>1. PICK w \in Workers : Persists(w) /\ job[w] = j /\ callId'[j] = att[w]
      BY <1>6, <2>2, CallIdEffect
    <3>2. callRow'[j][att[w]] = "submitted"
      BY <1>1, <3>1 DEF Persists, TypeOK, SideTypes
    <3> QED
      BY <3>1, <3>2
  <2> QED
    BY <2>1, <2>2
<1> QED
  BY <1>3, <1>4, <1>5, <1>6 DEF CallTableInv

\* No row claims more than the provider did, after every step.
LEMMA CallRowsStep ==
    ASSUME QueueInv, CallInv, [Next]_vars
    PROVE  CallRowsTruthful'
<1> USE DEF QueueInv
<1> SUFFICES ASSUME NEW j \in Jobs, NEW a \in Attempts
    PROVE /\ callRow'[j][a] = "cancelled" => remote'[j][a] \in {"done", "terminated"}
          /\ callRow'[j][a] = "succeeded" => remote'[j][a] = "done"
          /\ (remote'[j][a] = "active" /\ callRow'[j][a] # "none" /\ status'[j] # "failed")
                => callRow'[j][a] \in {"submitted", "cancellation-requested"}
  BY DEF CallRowsTruthful
<1> DEFINE Truthful ==
          /\ callRow'[j][a] = "cancelled" => remote'[j][a] \in {"done", "terminated"}
          /\ callRow'[j][a] = "succeeded" => remote'[j][a] = "done"
          /\ (remote'[j][a] = "active" /\ callRow'[j][a] # "none" /\ status'[j] # "failed")
                => callRow'[j][a] \in {"submitted", "cancellation-requested"}
<1>0. remote[j][a] \in RemoteStates
  BY DEF TypeOK, OutsideTypes
<1>1. callRow[j][a] # "none" => j \in Modal /\ remote[j][a] # "none"
  BY DEF CallInv, CallTableInv
<1>2. status'[j] # "failed" => status[j] # "failed"
  BY StatusMoves
<1>3. CASE callRow'[j][a] = callRow[j][a]
  <2>1. CASE callRow[j][a] = "none"
    BY <1>3, <2>1
  <2>2. CASE callRow[j][a] # "none"
    <3>1. remote'[j][a] = "active" => remote[j][a] = "active"
      BY <1>1, <2>2, CallsOver
    <3> QED
      BY <1>2, <1>3, <3>1, CallsOver DEF CallInv, CallRowsTruthful
  <2> QED
    BY <2>1, <2>2
<1>4. CASE callRow'[j][a] \in {"submitted", "cancellation-requested"}
  BY <1>4
<1>5. ASSUME NEW w \in Workers, callRow[j][a] # "none", pc[w] = "callCancelled",
             job[w] = j, call[w] = a, callRow'[j][a] = "cancelled"
      PROVE  Truthful
  <2>1. remote[j][a] \in {"done", "terminated"}
    BY <1>0, <1>1, <1>5 DEF CallInv, WorkerCallInv, CallReached, RemoteStates
  <2> QED
    BY <1>5, <2>1, CallsOver
<1>6. ASSUME NEW w \in Workers, callRow[j][a] # "none", pc[w] \in Finishing,
             job[w] = j, call[w] = a, callRow'[j][a] = "succeeded"
      PROVE  Truthful
  <2>1. remote[j][a] = "done"
    BY <1>1, <1>6 DEF CallInv, WorkerCallInv, CallReached, Finishing
  <2> QED
    BY <1>6, <2>1, CallsOver
<1>7. ASSUME NEW w \in Workers, callRow[j][a] # "none", MarkRetryable(w), Holds(w), job[w] = j,
             ~PreservesCall(w), callRow'[j][a] = "failed"
      PROVE  Truthful
  <2>1. call[w] = callId[j] /\ call[w] # 0 /\ remote[j][call[w]] # "active"
    BY <1>1, <1>7 DEF MarkRetryable, CallInv, WorkerCallInv, CallReached, CallKnown
  <2>2. remote[j][a] # "active"
    BY <1>7, <2>1 DEF CallInv, CallTableInv
  <2>3. remote'[j][a] # "active"
    BY <1>1, <1>7, <2>2, CallsOver
  <2> QED
    BY <1>7, <2>3
<1> QED
  BY <1>3, <1>4, <1>5, <1>6, <1>7, CallRowEffect

\* A worker that goes on with its job and its call still knows what the table says.
LEMMA CallKnownStep ==
    ASSUME QueueInv, CallInv, [Next]_vars, NEW v \in Workers, pc[v] # "idle",
           job'[v] = job[v], att'[v] = att[v], call'[v] = call[v], ~Persists(v)
    PROVE  CallKnown(v)'
<1> USE DEF QueueInv
<1> DEFINE j == job[v]
<1>1. /\ j \in Jobs /\ att[v] \in Attempts /\ att[v] # 0
      /\ call[v] # 0 => call[v] \in Attempts
  BY BusyWorker
<1>2. CallKnown(v)
  BY DEF CallInv, WorkerCallInv
<1>3. call[v] # 0 => callRow'[j][call[v]] # "none"
  BY <1>1, <1>2, CallsOver DEF CallKnown
<1>4. ASSUME NEW w \in Workers, Persists(w), job[w] = j, att[w] = att[v] PROVE FALSE
  BY <1>4 DEF TokenInv, Persists, RecordProviderCall
<1>5. callRow'[j][att[v]] # "none" => call[v] = att[v]
  BY <1>1, <1>2, <1>4, CallRowEffect DEF CallKnown
<1>6. ASSUME Holds(v)' PROVE call[v] = callId'[j]
  <2>1. Holds(v) /\ status'[j] = "running"
    BY <1>6, HoldsBefore DEF Holds, Authority
  <2>2. ASSUME NEW w \in Workers, w # v, pc[w] # "idle", job[w] = j PROVE ~Holds(w)
    BY <2>1, <2>2 DEF Holds, Authority, TokenInv
  <2>3. callId'[j] = callId[j]
    <3>1. ASSUME NEW w \in Workers, Persists(w), job[w] = j PROVE FALSE
      <4>1. pc[w] # "idle" /\ Holds(w)
        BY <3>1 DEF Persists, RecordProviderCall
      <4> QED
        BY <2>2, <3>1, <4>1
    <3> QED
      BY <1>1, <2>1, <3>1, CallIdEffect
  <2> QED
    BY <1>2, <2>1, <2>3 DEF CallKnown
<1> QED
  BY <1>3, <1>5, <1>6 DEF CallKnown

\* What every worker believes about its call stays true.
LEMMA WorkerCallStep ==
    ASSUME QueueInv, CallInv, [Next]_vars
    PROVE  WorkerCallInv'
<1> USE DEF QueueInv
<1> SUFFICES ASSUME NEW v \in Workers, pc'[v] # "idle"
             PROVE  CallKnown(v)' /\ CallReached(v)'
  BY DEF WorkerCallInv
<1>1. ASSUME NEW j \in Jobs, ClaimOne(v, j) PROVE CallKnown(v)' /\ CallReached(v)'
  <2>1. /\ pc'[v] = "claimed" /\ job'[v] = j /\ att'[v] = attempts[j] + 1 /\ call'[v] = callId[j]
        /\ UNCHANGED <<callId, callRow, remote>>
    BY <1>1 DEF ClaimOne, ClaimTransaction, outsideVars, TypeOK, WorkerTypes
  <2>2. attempts[j] \in Nat /\ attempts[j] + 1 \in Attempts
    BY <1>1, AttemptsAssumption DEF ClaimOne, Eligible, TypeOK, JobTypes, Tokens, Attempts
  <2>3. remote[j][attempts[j] + 1] = "none"
    BY <2>2 DEF CallInv, CallTableInv
  <2>4. callRow[j][attempts[j] + 1] = "none"
    BY <2>2, <2>3 DEF CallInv, CallTableInv
  <2>5. callId[j] # 0 => callRow[j][callId[j]] # "none"
    BY DEF CallInv, CallTableInv
  <2> QED
    BY <2>1, <2>3, <2>4, <2>5 DEF CallKnown, CallReached, Finishing
<1>2. CASE SpawnCall(v)
  <2>1. /\ pc[v] = "dispatched" /\ pc'[v] = "spawned" /\ UNCHANGED <<job, att, call, callRow>>
        /\ job[v] \in Modal
    BY <1>2 DEF SpawnCall, Goto, sideVars, TypeOK, WorkerTypes
  <2>2. job[v] \in Jobs /\ att[v] \in Attempts
    BY <2>1, BusyWorker
  <2>3. remote'[job[v]][att[v]] = "active"
    BY <1>2, <2>2 DEF SpawnCall, TypeOK, OutsideTypes
  <2>4. callRow[job[v]][att[v]] = "none"
    BY <2>1, <2>2 DEF CallInv, CallTableInv, WorkerCallInv, CallReached, Early
  <2>5. CallKnown(v)'
    BY <2>1, CallKnownStep DEF Persists, RecordProviderCall
  <2>6. CallReached(v)'
    BY <2>1, <2>3, <2>4 DEF CallReached, Early, Finishing
  <2> QED
    BY <2>5, <2>6
<1>3. CASE Persists(v)
  <2>1. pc[v] = "spawned"
    BY <1>3 DEF Persists, RecordProviderCall
  <2>2. job[v] \in Jobs /\ att[v] \in Attempts /\ att[v] # 0
    BY <2>1, BusyWorker
  <2>3. ~Goto(v, "unpersisted")
    BY <1>3, <2>2 DEF Persists, Goto, TypeOK, WorkerTypes, JobTypes, RecordProviderCall
  <2>4. /\ pc'[v] = "polling" /\ UNCHANGED <<job, att>> /\ call'[v] = att[v]
        /\ callId'[job[v]] = att[v] /\ callRow'[job[v]][att[v]] = "submitted"
    BY <1>3, <2>2, <2>3
       DEF Persists, RecordProviderCall, TypeOK, WorkerTypes, JobTypes, SideTypes
  <2> QED
    BY <2>4 DEF CallKnown, CallReached, Early, Finishing
<1>4. CASE Moved(v) /\ ~SpawnCall(v) /\ ~Persists(v)
  <2>1. pc[v] # "idle" /\ job'[v] = job[v] /\ att'[v] = att[v] /\ call'[v] = call[v]
    BY <1>4 DEF Moved
  <2>2. CallKnown(v)'
    BY <1>4, <2>1, CallKnownStep
  <2> DEFINE j == job[v]
             a == att[v]
             c == call[v]
  <2>3. /\ j \in Jobs /\ a \in Attempts
        /\ c # 0 => c \in Attempts
    BY <2>1, BusyWorker
  <2>4. CallReached(v) /\ CallKnown(v)
    BY <2>1 DEF CallInv, WorkerCallInv
  <2>5. pc'[v] \in Early => remote'[j][a] = "none"
    <3>1. ASSUME NEW w \in Workers, SpawnCall(w), job[w] = j, att[w] = a PROVE FALSE
      BY <1>4, <2>1, <3>1 DEF TokenInv, SpawnCall
    <3> QED
      BY <1>4, <2>3, <2>4, <3>1, RemoteEffect DEF Moved, CallReached
  <2>6. pc'[v] = "spawned" => /\ j \in Modal /\ remote'[j][a] # "none" /\ callRow'[j][a] = "none"
    <3>1. ASSUME NEW w \in Workers, Persists(w), job[w] = j, att[w] = a PROVE FALSE
      BY <1>4, <2>1, <3>1 DEF TokenInv, Persists, RecordProviderCall
    <3>2. callRow[j][a] = "none" => callRow'[j][a] = "none"
      BY <2>3, <3>1, CallRowEffect
    <3> QED
      BY <1>4, <2>3, <2>4, <3>2, CallsOver DEF Moved, CallReached
  <2>7. c \in Attempts /\ remote[j][c] # "active" => remote'[j][c] # "active"
    <3> SUFFICES ASSUME c \in Attempts, remote[j][c] # "active"
                 PROVE  remote'[j][c] # "active"
      OBVIOUS
    <3>1. callRow[j][c] # "none"
      BY <2>4 DEF CallKnown, Attempts
    <3>2. remote[j][c] # "none"
      BY <2>3, <3>1 DEF CallInv, CallTableInv
    <3> QED
      BY <2>3, <3>2, CallsOver
  <2>8. pc'[v] = "callCancelled" => remote'[j][c] # "active"
    <3>1. pc[v] = "callCancelled" => c \in Attempts
      BY DEF TypeOK, WorkerTypes, WorkersWellFormed
    <3> QED
      BY <1>4, <2>4, <2>7, <3>1 DEF Moved, CallReached
  <2>9. pc'[v] \in Finishing /\ j \in Modal => c # 0 /\ remote'[j][c] = "done"
    <3>1. c # 0 /\ remote[j][c] = "done" => remote'[j][c] = "done"
      BY <2>3, CallsOver
    <3> QED
      BY <1>4, <2>4, <3>1 DEF Moved, CallReached, Attempts
  <2>10. pc'[v] = "retrying" /\ ~PreservesCall(v)' /\ j \in Modal => c # 0 /\ remote'[j][c] # "active"
    <3>1. CASE pc[v] = "retrying" /\ code'[v] = code[v]
      BY <2>3, <2>4, <2>7, <3>1 DEF CallReached, PreservesCall
    <3>2. CASE pc[v] = "callCancelled" /\ c \in Attempts
      BY <2>4, <2>7, <3>2 DEF CallReached, Attempts
    <3>3. CASE pc[v] \in Finishing
      BY <2>3, <2>4, <2>7, <3>3 DEF CallReached
    <3> QED
      BY <1>4, <3>1, <3>2, <3>3 DEF Moved, PreservesCall
  <2> QED
    BY <2>1, <2>2, <2>5, <2>6, <2>8, <2>9, <2>10 DEF CallReached
<1> QED
  BY <1>1, <1>2, <1>3, <1>4, WorkerMove

\* The invariant of the provider calls, on top of the queue's.
LEMMA CallInvHolds == Spec => []CallInv
<1>1. Init => CallInv
  BY DEF Init, CallInv, CallTableInv, WorkerCallInv, CallRowsTruthful
<1>2. QueueInv /\ CallInv /\ [Next]_vars => CallInv'
  BY CallTableStep, WorkerCallStep, CallRowsStep DEF CallInv
<1> QED
  BY <1>1, <1>2, QueueInvHolds, PTL DEF Spec

\* ProviderCallsTruthful, for every job and worker: whatever lease loss, crash, retry or
\* cancellation comes between spawn, record_provider_call and the result (modal_adapter.py,
\* queue.py), at most one persisted call of a job runs, and job_provider_calls never claims
\* more than the provider did.
THEOREM ProviderRecord == Spec => []ProviderCallsTruthful
<1>1. CallInv => ProviderCallsTruthful
  BY DEF CallInv, CallTableInv, ProviderCallsTruthful, NoReplacementCall
<1> QED
  BY <1>1, CallInvHolds, PTL

-----------------------------------------------------------------------------
(* Several jobs *)

\* JobsApart, for any number of jobs and workers: sweeping, cancelling or retrying one
\* job in the transaction that claims another leaves each with one lease holder, one open
\* attempt row, one artifact and the terminal event of the status it ended with.
THEOREM JobsIndependent == Spec => []JobsApart
<1>1. /\ OneAuthority /\ AttemptRowsFollowJob /\ PublishedOnce
      /\ RefundedNeverPublishes /\ TerminalEventTruthful
      => JobsApart
  BY DEF JobsApart
<1> QED
  BY <1>1, Fencing, AttemptRecord, Publication, RefundExcludesOutput, EventRecord, PTL

-----------------------------------------------------------------------------
(* The data lifecycle *)

LEMMA SubjectOwner == \A s \in Subjects : OwnerOf(s) \in Users
  BY OwnerAssumption DEF Subjects, OwnerOf

-----------------------------------------------------------------------------
(* Types *)

LEMMA HoldUpdate ==
    ASSUME hold \in [Holdable -> [HoldKeys -> HoldTypes]],
           NEW s \in Holdable, NEW k \in HoldKeys, NEW h \in HoldTypes
    PROVE  [hold EXCEPT ![s][k] = h] \in [Holdable -> [HoldKeys -> HoldTypes]]
<1>1. [hold[s] EXCEPT ![k] = h] \in [HoldKeys -> HoldTypes]
  OBVIOUS
<1> QED
  BY <1>1

LEMMA TypeStep == LifTypeOK /\ [LifNext]_lifVars => LifTypeOK'
<1> SUFFICES ASSUME LifTypeOK, [LifNext]_lifVars PROVE LifTypeOK'
  OBVIOUS
<1> USE DEF primaryVars, tombVars, backupVars, restoreVars, runnerVars
<1>1. ASSUME NEW s \in Holdable, NEW k \in HoldKeys, NEW e \in Days, PlaceHold(s, k, e)
      PROVE  LifTypeOK'
  <2>1. [action |-> "place", expires |-> e, at |-> now] \in HoldTypes
    BY DaysAssumption DEF HoldTypes, Days, LifTypeOK
  <2>2. hold' \in [Holdable -> [HoldKeys -> HoldTypes]]
    BY <1>1, <2>1, HoldUpdate DEF PlaceHold, LifTypeOK
  <2> QED
    BY <1>1, <2>2 DEF PlaceHold, LifTypeOK
<1>2. ASSUME NEW s \in Holdable, NEW k \in HoldKeys, ReleaseHold(s, k)
      PROVE  LifTypeOK'
  <2>1. hold[s][k] \in HoldTypes
    BY DEF LifTypeOK
  <2>2. [action |-> "release", expires |-> hold[s][k].expires, at |-> now] \in HoldTypes
    BY <2>1 DEF HoldTypes, LifTypeOK
  <2>3. hold' = [hold EXCEPT ![s][k] =
                   [action |-> "release", expires |-> hold[s][k].expires, at |-> now]]
    BY <1>2 DEF ReleaseHold, LifTypeOK
  <2>4. hold' \in [Holdable -> [HoldKeys -> HoldTypes]]
    BY <2>2, <2>3, HoldUpdate DEF LifTypeOK
  <2> QED
    BY <1>2, <2>4 DEF ReleaseHold, LifTypeOK
<1>3. ASSUME NEW u \in Users,
             BeginDeletion(u) \/ LockSubjects(u) \/ RollBackDeletion(u)
      PROVE  LifTypeOK'
  <2>1. deletion' \in [Users -> {"idle", "begun", "purging"}]
    BY <1>3 DEF BeginDeletion, LockSubjects, RollBackDeletion, LifTypeOK
  <2>2. held' \in [Users -> BOOLEAN]
    BY <1>3 DEF BeginDeletion, LockSubjects, RollBackDeletion, LifTypeOK
  <2>3. payload' \in [Objects -> PayloadStates]
    BY <1>3 DEF BeginDeletion, LockSubjects, RollBackDeletion, LifTypeOK, PayloadStates
  <2> QED
    BY <1>3, <2>1, <2>2, <2>3 DEF BeginDeletion, LockSubjects, RollBackDeletion, LifTypeOK
<1>4. ASSUME NEW u \in Users, CommitDeletion(u) PROVE LifTypeOK'
  BY <1>4 DEF CommitDeletion, LifTypeOK
<1>5. ASSUME NEW u \in Users, NEW o \in Objects, DeletePayload(u, o) \/ PutThroughUrl(o)
      PROVE  LifTypeOK'
  <2>1. payload' \in [Objects -> PayloadStates]
    BY <1>5 DEF DeletePayload, PutThroughUrl, LifTypeOK, PayloadStates
  <2> QED
    BY <1>5, <2>1 DEF DeletePayload, PutThroughUrl, LifTypeOK
<1>6. ASSUME NEW b \in Backups, NEW S \in SUBSET Subjects, CaptureBackup(b, S) PROVE LifTypeOK'
  BY <1>6 DEF CaptureBackup, LifTypeOK, CatalogStates
<1>7. ASSUME NEW b \in Backups, NEW d \in Days, RegisterBackup(b, d) PROVE LifTypeOK'
  <2>1. tomb' \in [Subjects -> {"none", "open", "done"}]
    BY <1>7 DEF RegisterBackup, Reopened, LifTypeOK
  <2>2. d \in Nat
    BY DaysAssumption DEF Days
  <2> QED
    BY <1>7, <2>1, <2>2 DEF RegisterBackup, LifTypeOK, CatalogStates
<1>8. ASSUME NEW b \in Backups, BeginRestore(b) PROVE LifTypeOK'
  BY <1>8 DEF BeginRestore, LifTypeOK
<1>9. CASE CommitRestore
  BY <1>9 DEF CommitRestore, LifTypeOK
<1>10. ASSUME NEW r \in Runners, NEW b \in Backups, ClaimBackup(r, b) PROVE LifTypeOK'
  <2>1. catalog' \in [Backups -> CatalogStates] /\ stale' \in [Backups -> BOOLEAN]
    BY <1>10 DEF ClaimBackup, LifTypeOK, CatalogStates
  <2>2. /\ rpc' \in [Runners -> {"idle", "claimed", "removed", "failed"}]
        /\ target' \in [Runners -> Backups \cup {NoBackup}]
        /\ \A q \in Runners : rpc'[q] # "idle" => target'[q] \in Backups
    BY <1>10 DEF ClaimBackup, LifTypeOK
  <2> QED
    BY <1>10, <2>1, <2>2 DEF ClaimBackup, LifTypeOK
<1>11. ASSUME NEW r \in Runners, DeleteCopy(r) \/ DeletionRaises(r) PROVE LifTypeOK'
  <2>1. copy' \in [Backups -> BOOLEAN]
    BY <1>11 DEF DeleteCopy, DeletionRaises, LifTypeOK
  <2>2. /\ rpc' \in [Runners -> {"idle", "claimed", "removed", "failed"}]
        /\ rpc[r] # "idle" /\ \A q \in Runners \ {r} : rpc'[q] = rpc[q]
    BY <1>11 DEF DeleteCopy, DeletionRaises, LifTypeOK
  <2>3. UNCHANGED <<now, primaryVars, tombVars, hold, catalog, captured, deleteAfter,
                    deletedOn, covers, stale, restoreVars, target>>
    BY <1>11 DEF DeleteCopy, DeletionRaises
  <2>4. \A q \in Runners : rpc'[q] # "idle" => target'[q] \in Backups
    BY <2>2, <2>3 DEF LifTypeOK
  <2> QED
    BY <2>1, <2>2, <2>3, <2>4 DEF LifTypeOK, primaryVars, tombVars, restoreVars
<1>12. ASSUME NEW r \in Runners, CommitDeleted(r) PROVE LifTypeOK'
  <2>1. tomb' \in [Subjects -> {"none", "open", "done"}]
    BY <1>12 DEF CommitDeleted, LifTypeOK
  <2>2. catalog' \in [Backups -> CatalogStates] /\ deletedOn' \in [Backups -> Nat]
    BY <1>12 DEF CommitDeleted, LifTypeOK, CatalogStates
  <2> QED
    BY <1>12, <2>1, <2>2 DEF CommitDeleted, Idle, LifTypeOK
<1>13. ASSUME NEW r \in Runners, RecordFailure(r) \/ CrashRunner(r) PROVE LifTypeOK'
  <2>1. catalog' \in [Backups -> CatalogStates]
    BY <1>13 DEF RecordFailure, CrashRunner, LifTypeOK, CatalogStates
  <2>2. /\ rpc' \in [Runners -> {"idle", "claimed", "removed", "failed"}]
        /\ target' \in [Runners -> Backups \cup {NoBackup}]
        /\ \A q \in Runners : rpc'[q] # "idle" => target'[q] \in Backups
    BY <1>13 DEF RecordFailure, CrashRunner, Idle, LifTypeOK
  <2> QED
    BY <1>13, <2>1, <2>2 DEF RecordFailure, CrashRunner, LifTypeOK
<1>14. ASSUME NEW b \in Backups, LeaseElapses(b) \/ RegisterAgain(b) PROVE LifTypeOK'
  <2>1. CASE LeaseElapses(b)
    BY <2>1 DEF LeaseElapses, LifTypeOK
  <2>2. CASE RegisterAgain(b)
    <3>1. tomb' \in [Subjects -> {"none", "open", "done"}]
      BY <2>2 DEF RegisterAgain, Reopened, LifTypeOK
    <3> QED
      BY <2>2, <3>1 DEF RegisterAgain, LifTypeOK
  <2> QED
    BY <1>14, <2>1, <2>2
<1>15. CASE RetentionSweep
  <2>1. hold' \in [Holdable -> [HoldKeys -> HoldTypes]]
    <3>1. [action |-> "none", expires |-> 0, at |-> 0] \in HoldTypes
      BY DEF HoldTypes
    <3>2. \A s \in Holdable, k \in HoldKeys : hold[s][k] \in HoldTypes
      BY DEF LifTypeOK
    <3> QED
      BY <1>15, <3>1, <3>2 DEF RetentionSweep
  <2>2. tomb' \in [Subjects -> {"none", "open", "done"}]
    <3>1. Finalized \in [Subjects -> {"none", "open", "done"}]
      BY DEF Finalized, LifTypeOK
    <3> QED
      BY <1>15, <3>1 DEF RetentionSweep
  <2>3. catalog' \in [Backups -> CatalogStates]
    BY <1>15 DEF RetentionSweep, LifTypeOK, CatalogStates
  <2> QED
    BY <1>15, <2>1, <2>2, <2>3 DEF RetentionSweep, LifTypeOK
<1>16. CASE NextDay
  <2>1. now' \in Nat /\ deletion' \in [Users -> {"idle", "begun", "purging"}]
    BY <1>16 DEF NextDay, LifTypeOK
  <2> QED
    BY <1>16, <2>1 DEF NextDay, LifTypeOK
<1>17. CASE UNCHANGED lifVars
  BY <1>17 DEF lifVars, LifTypeOK
<1> QED
  BY <1>1, <1>2, <1>3, <1>4, <1>5, <1>6, <1>7, <1>8, <1>9, <1>10, <1>11, <1>12, <1>13,
     <1>14, <1>15, <1>16, <1>17, OwnerAssumption DEF LifNext, RunnerStep

LEMMA TypeInit == LifInit => LifTypeOK
<1>1. [action |-> "none", expires |-> 0, at |-> 0] \in HoldTypes
  BY DEF HoldTypes
<1>2. LifInit => hold \in [Holdable -> [HoldKeys -> HoldTypes]]
  BY <1>1 DEF LifInit
<1>3. LifInit => /\ now \in Nat
              /\ deletedAt \in [Subjects -> Nat]
              /\ captured \in [Backups -> Nat]
              /\ deleteAfter \in [Backups -> Nat]
              /\ deletedOn \in [Backups -> Nat]
  BY DEF LifInit
<1>4. LifInit => /\ account \in [Users -> {"present", "deleted"}]
              /\ deletion \in [Users -> {"idle", "begun", "purging"}]
              /\ tomb \in [Subjects -> {"none", "open", "done"}]
              /\ catalog \in [Backups -> CatalogStates]
              /\ verdict \in [Backups -> {"none", "eligible", "blocked"}]
  BY DEF LifInit, CatalogStates
<1>5. LifInit => /\ rpc \in [Runners -> {"idle", "claimed", "removed", "failed"}]
              /\ target \in [Runners -> Backups \cup {NoBackup}]
              /\ \A r \in Runners : rpc[r] # "idle" => target[r] \in Backups
  BY DEF LifInit
<1>6. LifInit => /\ payload \in [Objects -> PayloadStates] /\ held \in [Users -> BOOLEAN]
              /\ copy \in [Backups -> BOOLEAN] /\ stale \in [Backups -> BOOLEAN]
  BY DEF LifInit, PayloadStates
<1>7. LifInit => /\ covers \in [Backups -> SUBSET Subjects]
              /\ evaluating \in Backups \cup {NoBackup}
  BY DEF LifInit
<1>8. LifInit => clear \in BOOLEAN
  BY Zenon DEF LifInit
<1> QED
  BY <1>2, <1>3, <1>4, <1>5, <1>6, <1>7, <1>8 DEF LifTypeOK

\* The lifecycle tables keep their types, and a busy runner always has a backup.
THEOREM LifTypeCorrect == LifSpec => []LifTypeOK
  BY TypeInit, TypeStep, PTL DEF LifSpec

-----------------------------------------------------------------------------
(* The steps that matter to the catalogue and the tombstones *)

Quiet ==
    UNCHANGED <<now, account, tomb, deletedAt, catalog, captured, deleteAfter, covers>>

LEMMA CatalogueCases ==
    ASSUME [LifNext]_lifVars
    PROVE  \/ \E u \in Users : CommitDeletion(u)
           \/ \E b \in Backups, S \in SUBSET Subjects : CaptureBackup(b, S)
           \/ \E b \in Backups, d \in Days : RegisterBackup(b, d)
           \/ \E b \in Backups : RegisterAgain(b)
           \/ \E r \in Runners, b \in Backups : ClaimBackup(r, b)
           \/ \E r \in Runners : CommitDeleted(r) \/ RecordFailure(r)
           \/ RetentionSweep
           \/ NextDay
           \/ Quiet
<1> USE DEF primaryVars, tombVars, backupVars, restoreVars, runnerVars
<1>1. ASSUME NEW s \in Holdable, NEW k \in HoldKeys,
             ReleaseHold(s, k) \/ \E e \in Days : PlaceHold(s, k, e)
      PROVE  Quiet
  BY <1>1 DEF Quiet, ReleaseHold, PlaceHold
<1>2. ASSUME NEW u \in Users,
             \/ BeginDeletion(u) \/ LockSubjects(u) \/ RollBackDeletion(u)
             \/ \E o \in Objects : DeletePayload(u, o)
      PROVE  Quiet
  BY <1>2 DEF Quiet, BeginDeletion, LockSubjects, RollBackDeletion, DeletePayload
<1>3. ASSUME NEW b \in Backups, BeginRestore(b) \/ LeaseElapses(b) PROVE Quiet
  BY <1>3 DEF Quiet, BeginRestore, LeaseElapses
<1>4. ASSUME NEW r \in Runners, DeleteCopy(r) \/ DeletionRaises(r) \/ CrashRunner(r)
      PROVE  Quiet
  BY <1>4 DEF Quiet, DeleteCopy, DeletionRaises, CrashRunner
<1>5. CommitRestore \/ (\E o \in Objects : PutThroughUrl(o)) => Quiet
  BY DEF Quiet, CommitRestore, PutThroughUrl
<1>6. UNCHANGED lifVars => Quiet
  BY DEF Quiet, lifVars
<1>7. CASE LifNext
  BY <1>1, <1>2, <1>3, <1>4, <1>5, <1>7 DEF LifNext, RunnerStep
<1> QED
  BY <1>6, <1>7

-----------------------------------------------------------------------------
(* The restore gate *)

\* Every copy was captured in the past, is catalogued for at most BackupMaxDays, and
\* holds no subject that was deleted before it was taken.
WindowInv ==
    \A b \in Backups :
        /\ captured[b] <= now
        /\ catalog[b] = "available" => deleteAfter[b] <= captured[b] + BackupMaxDays
        /\ \A s \in covers[b] : Gone(s) => captured[b] <= deletedAt[s]

LEMMA WindowStep == LifTypeOK /\ WindowInv /\ [LifNext]_lifVars => WindowInv'
<1> SUFFICES ASSUME LifTypeOK, WindowInv, [LifNext]_lifVars PROVE WindowInv'
  OBVIOUS
<1> USE DEF primaryVars, tombVars, backupVars, restoreVars, runnerVars
<1>1. ASSUME NEW u \in Users, CommitDeletion(u) PROVE WindowInv'
  <2> SUFFICES ASSUME NEW b \in Backups, NEW s \in covers[b], Gone(s)'
               PROVE  captured[b] <= deletedAt'[s]
    BY <1>1 DEF CommitDeletion, WindowInv
  <2>1. s \in Subjects /\ OwnerOf(s) \in Users
    BY SubjectOwner DEF LifTypeOK
  <2>2. CASE OwnerOf(s) = u
    BY <1>1, <2>1, <2>2 DEF CommitDeletion, SubjectsOf, WindowInv, LifTypeOK
  <2>3. CASE OwnerOf(s) # u
    <3>1. Gone(s) /\ deletedAt'[s] = deletedAt[s]
      BY <1>1, <2>1, <2>3 DEF CommitDeletion, SubjectsOf, Gone, OwnerOf, LifTypeOK
    <3> QED
      BY <3>1 DEF WindowInv
  <2> QED
    BY <2>2, <2>3
<1>2. ASSUME NEW b \in Backups, NEW S \in SUBSET Subjects, CaptureBackup(b, S)
      PROVE  WindowInv'
  BY <1>2 DEF CaptureBackup, WindowInv, Gone, OwnerOf, LifTypeOK
<1>3. ASSUME NEW b \in Backups, NEW d \in Days, RegisterBackup(b, d) PROVE WindowInv'
  BY <1>3 DEF RegisterBackup, RetentionBound, WindowInv, Gone, OwnerOf, LifTypeOK
<1>4. ASSUME NEW r \in Runners, NEW b \in Backups, ClaimBackup(r, b) PROVE WindowInv'
  BY <1>4 DEF ClaimBackup, WindowInv, Gone, OwnerOf, LifTypeOK
<1>5. ASSUME NEW r \in Runners, CommitDeleted(r) \/ RecordFailure(r) PROVE WindowInv'
  <2>1. UNCHANGED <<now, account, captured, deleteAfter, covers, deletedAt>>
    BY <1>5 DEF CommitDeleted, RecordFailure
  <2>2. \A b \in Backups : catalog'[b] = "available" => catalog[b] = "available"
    BY <1>5 DEF CommitDeleted, RecordFailure, LifTypeOK
  <2> QED
    BY <2>1, <2>2 DEF WindowInv, Gone, OwnerOf
<1>6. CASE RetentionSweep
  <2>1. UNCHANGED <<now, account, captured, deleteAfter, covers, deletedAt>>
    BY <1>6 DEF RetentionSweep
  <2>2. \A b \in Backups : catalog'[b] = "available" => catalog[b] = "available"
    BY <1>6 DEF RetentionSweep
  <2> QED
    BY <2>1, <2>2 DEF WindowInv, Gone, OwnerOf
<1>7. CASE NextDay
  BY <1>7 DEF NextDay, WindowInv, Gone, OwnerOf, LifTypeOK
<1>8. ASSUME NEW b \in Backups, RegisterAgain(b) PROVE WindowInv'
  BY <1>8 DEF RegisterAgain, WindowInv, Gone, OwnerOf
<1>9. CASE Quiet
  BY <1>9 DEF Quiet, WindowInv, Gone, OwnerOf
<1> QED
  BY <1>1, <1>2, <1>3, <1>4, <1>5, <1>6, <1>7, <1>8, <1>9, CatalogueCases

-----------------------------------------------------------------------------
(* Tombstones *)

\* Only an account that is still there is being deleted.
DeletionInv == \A u \in Users : deletion[u] # "idle" => account[u] = "present"

LEMMA DeletionStep == LifTypeOK /\ DeletionInv /\ [LifNext]_lifVars => DeletionInv'
<1> SUFFICES ASSUME LifTypeOK, DeletionInv, [LifNext]_lifVars PROVE DeletionInv'
  OBVIOUS
<1> USE DEF primaryVars, tombVars, backupVars, restoreVars, runnerVars
<1>1. ASSUME NEW u \in Users, BeginDeletion(u) \/ LockSubjects(u) \/ RollBackDeletion(u)
      PROVE  DeletionInv'
  BY <1>1 DEF BeginDeletion, LockSubjects, RollBackDeletion, DeletionInv, LifTypeOK
<1>2. ASSUME NEW u \in Users, CommitDeletion(u) PROVE DeletionInv'
  BY <1>2 DEF CommitDeletion, DeletionInv, LifTypeOK
<1>3. CASE NextDay
  BY <1>3 DEF NextDay, DeletionInv
<1>4. ASSUME UNCHANGED <<account, deletion>> PROVE DeletionInv'
  BY <1>4 DEF DeletionInv
<1>5. ASSUME NEW s \in Holdable, NEW k \in HoldKeys,
             ReleaseHold(s, k) \/ \E e \in Days : PlaceHold(s, k, e)
      PROVE  UNCHANGED <<account, deletion>>
  BY <1>5 DEF ReleaseHold, PlaceHold
<1>6. ASSUME NEW o \in Objects, PutThroughUrl(o) \/ \E u \in Users : DeletePayload(u, o)
      PROVE  UNCHANGED <<account, deletion>>
  BY <1>6 DEF PutThroughUrl, DeletePayload
<1>7. ASSUME NEW b \in Backups,
             \/ \E S \in SUBSET Subjects : CaptureBackup(b, S)
             \/ \E d \in Days : RegisterBackup(b, d)
             \/ RegisterAgain(b) \/ BeginRestore(b) \/ LeaseElapses(b)
      PROVE  UNCHANGED <<account, deletion>>
  BY <1>7 DEF CaptureBackup, RegisterBackup, RegisterAgain, BeginRestore, LeaseElapses
<1>8. ASSUME NEW r \in Runners,
             RunnerStep(r) \/ CrashRunner(r) \/ \E b \in Backups : ClaimBackup(r, b)
      PROVE  UNCHANGED <<account, deletion>>
  BY <1>8 DEF RunnerStep, DeleteCopy, DeletionRaises, CommitDeleted, RecordFailure,
              CrashRunner, ClaimBackup
<1>9. CommitRestore \/ RetentionSweep \/ UNCHANGED lifVars => UNCHANGED <<account, deletion>>
  BY DEF CommitRestore, RetentionSweep, lifVars
<1> QED
  BY <1>1, <1>2, <1>3, <1>4, <1>5, <1>6, <1>7, <1>8, <1>9 DEF LifNext

\* What a purge has removed comes back only through a URL, and counts as in storage
\* again only for a later deletion of an account that is still there.
LEMMA PayloadsStayPurged ==
    ASSUME LifTypeOK, DeletionInv, [LifNext]_lifVars,
           NEW o \in Objects, payload[o] # "stored", account'[Owner[o]] = "deleted"
    PROVE  payload'[o] # "stored"
<1> USE DEF primaryVars, tombVars, backupVars, restoreVars, runnerVars
<1>1. ASSUME NEW u \in Users, NEW q \in Objects, DeletePayload(u, q) \/ PutThroughUrl(q)
      PROVE  payload'[o] # "stored"
  BY <1>1 DEF DeletePayload, PutThroughUrl, LifTypeOK
<1>2. ASSUME UNCHANGED payload PROVE payload'[o] # "stored"
  BY <1>2
<1>3. ASSUME NEW s \in Holdable, NEW k \in HoldKeys,
             ReleaseHold(s, k) \/ \E e \in Days : PlaceHold(s, k, e)
      PROVE  UNCHANGED payload
  BY <1>3 DEF ReleaseHold, PlaceHold
<1>4. ASSUME NEW u \in Users, BeginDeletion(u) \/ CommitDeletion(u) \/ RollBackDeletion(u)
      PROVE  UNCHANGED payload
  BY <1>4 DEF BeginDeletion, CommitDeletion, RollBackDeletion
<1>5. ASSUME NEW u \in Users, LockSubjects(u) PROVE payload'[o] # "stored"
  <2>1. account[u] = "present" /\ UNCHANGED account
    BY <1>5 DEF LockSubjects, DeletionInv
  <2>2. Owner[o] # u
    BY <2>1
  <2> QED
    BY <1>5, <2>2 DEF LockSubjects
<1>6. ASSUME NEW b \in Backups,
             \/ \E S \in SUBSET Subjects : CaptureBackup(b, S)
             \/ \E d \in Days : RegisterBackup(b, d)
             \/ RegisterAgain(b) \/ BeginRestore(b) \/ LeaseElapses(b)
      PROVE  UNCHANGED payload
  BY <1>6 DEF CaptureBackup, RegisterBackup, RegisterAgain, BeginRestore, LeaseElapses
<1>7. ASSUME NEW r \in Runners,
             RunnerStep(r) \/ CrashRunner(r) \/ \E b \in Backups : ClaimBackup(r, b)
      PROVE  UNCHANGED payload
  BY <1>7 DEF RunnerStep, DeleteCopy, DeletionRaises, CommitDeleted, RecordFailure,
              CrashRunner, ClaimBackup
<1>8. CommitRestore \/ RetentionSweep \/ NextDay \/ UNCHANGED lifVars => UNCHANGED payload
  BY DEF CommitRestore, RetentionSweep, NextDay, lifVars
<1> QED
  BY <1>1, <1>2, <1>3, <1>4, <1>5, <1>6, <1>7, <1>8, OwnerAssumption DEF LifNext

\* What the receipt says, subject by subject.
TombInv == \A s \in Subjects :
    Gone(s) => tomb[s] # "none" \/ deletedAt[s] + TombstoneDays <= now

LEMMA TombStep == LifTypeOK /\ TombInv /\ [LifNext]_lifVars => TombInv'
<1> SUFFICES ASSUME LifTypeOK, TombInv, [LifNext]_lifVars PROVE TombInv'
  OBVIOUS
<1> USE DEF primaryVars, tombVars, backupVars, restoreVars, runnerVars
<1>1. ASSUME NEW u \in Users, CommitDeletion(u) PROVE TombInv'
  <2> SUFFICES ASSUME NEW s \in Subjects, Gone(s)'
               PROVE  (tomb[s] # "none" \/ deletedAt[s] + TombstoneDays <= now)'
    BY DEF TombInv
  <2>1. CASE s \in SubjectsOf(u)
    BY <1>1, <2>1 DEF CommitDeletion
  <2>2. CASE s \notin SubjectsOf(u)
    <3>1. Gone(s)
      BY <1>1, <2>2, SubjectOwner DEF CommitDeletion, SubjectsOf, Gone, OwnerOf, LifTypeOK
    <3> QED
      BY <1>1, <2>2, <3>1 DEF CommitDeletion, TombInv
  <2> QED
    BY <2>1, <2>2
<1>2. ASSUME UNCHANGED <<now, account, deletedAt>>,
             \A s \in Subjects : tomb'[s] = "none" => tomb[s] = "none"
      PROVE  TombInv'
  BY <1>2 DEF TombInv, Gone, OwnerOf
<1>3. ASSUME NEW b \in Backups, NEW S \in SUBSET Subjects, CaptureBackup(b, S)
      PROVE  TombInv'
  BY <1>2, <1>3 DEF CaptureBackup
<1>4. ASSUME NEW b \in Backups, NEW d \in Days, RegisterBackup(b, d) PROVE TombInv'
  BY <1>2, <1>4 DEF RegisterBackup, Reopened
<1>5. ASSUME NEW b \in Backups, RegisterAgain(b) PROVE TombInv'
  BY <1>2, <1>5 DEF RegisterAgain, Reopened
<1>6. ASSUME NEW r \in Runners, NEW b \in Backups, ClaimBackup(r, b) PROVE TombInv'
  BY <1>2, <1>6 DEF ClaimBackup
<1>7. ASSUME NEW r \in Runners, CommitDeleted(r) \/ RecordFailure(r) PROVE TombInv'
  BY <1>2, <1>7 DEF CommitDeleted, RecordFailure
<1>8. CASE RetentionSweep
  <2> SUFFICES ASSUME NEW s \in Subjects, Gone(s)', tomb'[s] = "none"
               PROVE  deletedAt'[s] + TombstoneDays <= now'
    BY DEF TombInv
  <2>1. Gone(s) /\ UNCHANGED <<now, deletedAt>>
    BY <1>8 DEF RetentionSweep, Gone, OwnerOf
  <2>2. CASE Purgeable(s, Finalized)
    BY <2>1, <2>2 DEF Purgeable
  <2>3. CASE ~Purgeable(s, Finalized)
    <3>1. tomb[s] = "none"
      BY <1>8, <2>3 DEF RetentionSweep, Finalized
    <3> QED
      BY <2>1, <3>1 DEF TombInv
  <2> QED
    BY <2>2, <2>3
<1>9. CASE NextDay
  BY <1>9, WindowAssumption DEF NextDay, TombInv, Gone, OwnerOf, LifTypeOK
<1>10. CASE Quiet
  BY <1>2, <1>10 DEF Quiet
<1> QED
  BY <1>1, <1>3, <1>4, <1>5, <1>6, <1>7, <1>8, <1>9, <1>10, CatalogueCases

LEMMA AccountStep ==
    ASSUME LifTypeOK, [LifNext]_lifVars, NEW u \in Users, account[u] # account'[u]
    PROVE  CommitDeletion(u)
<1>1. ASSUME NEW v \in Users, CommitDeletion(v) PROVE CommitDeletion(u)
  BY <1>1 DEF CommitDeletion, LifTypeOK
<1>2. ASSUME UNCHANGED account PROVE FALSE
  BY <1>2
<1> QED
  BY <1>1, <1>2, CatalogueCases
     DEF CaptureBackup, RegisterBackup, RegisterAgain, ClaimBackup, CommitDeleted,
         RecordFailure, RetentionSweep, NextDay, Quiet, primaryVars

LEMMA ReceiptStep ==
    LifTypeOK /\ DeletionInv /\ TombInv' /\ ReceiptTruthful /\ [LifNext]_lifVars
        => ReceiptTruthful'
<1> SUFFICES ASSUME LifTypeOK, DeletionInv, TombInv', ReceiptTruthful, [LifNext]_lifVars,
                    NEW u \in Users, account'[u] = "deleted"
             PROVE  /\ \A o \in Objects : Owner[o] = u => payload'[o] # "stored"
                    /\ \A s \in SubjectsOf(u) :
                          (tomb[s] # "none" \/ deletedAt[s] + TombstoneDays <= now)'
  BY DEF ReceiptTruthful, PayloadsDeleted, SubjectsOf, OwnerOf
<1>1. \A o \in Objects : Owner[o] = u => payload[o] # "stored"
  <2>1. CASE account[u] = "deleted"
    BY <2>1 DEF ReceiptTruthful, PayloadsDeleted
  <2>2. CASE account[u] # "deleted"
    BY <2>2, AccountStep DEF CommitDeletion, PayloadsDeleted
  <2> QED
    BY <2>1, <2>2
<1>2. \A s \in SubjectsOf(u) : Gone(s)' /\ s \in Subjects
  BY DEF SubjectsOf, Gone, OwnerOf
<1> QED
  BY <1>1, <1>2, PayloadsStayPurged DEF TombInv

LEMMA GateInit == LifInit => DeletionInv /\ WindowInv /\ TombInv /\ ReceiptTruthful
<1>1. LifInit => \A s \in Subjects : ~Gone(s)
  BY SubjectOwner DEF LifInit, Gone
<1>2. LifInit => WindowInv
  BY <1>1 DEF LifInit, WindowInv
<1>3. LifInit => TombInv
  BY <1>1 DEF TombInv
<1>4. LifInit => ReceiptTruthful
  BY DEF LifInit, ReceiptTruthful
<1>5. LifInit => DeletionInv
  BY DEF LifInit, DeletionInv
<1> QED
  BY <1>2, <1>3, <1>4, <1>5

LEMMA GateInvariant ==
    LifSpec => [](LifTypeOK /\ DeletionInv /\ WindowInv /\ TombInv /\ ReceiptTruthful)
  BY GateInit, LifTypeCorrect, DeletionStep, WindowStep, TombStep, ReceiptStep, PTL
     DEF LifSpec

\* The windows and the tombstones suffice for the gate.
LEMMA GateMeaning == LifTypeOK /\ WindowInv /\ TombInv => NoResurrection
<1> SUFFICES ASSUME LifTypeOK, WindowInv, TombInv, NEW b \in Backups, Restorable(b),
                    NEW s \in covers[b], Gone(s)
             PROVE  Suppressed(s)
  BY DEF NoResurrection
<1>1. /\ s \in Subjects /\ deletedAt[s] \in Nat /\ captured[b] \in Nat
      /\ deleteAfter[b] \in Nat /\ now \in Nat
  BY DEF LifTypeOK
<1>2. now < captured[b] + BackupMaxDays /\ captured[b] <= deletedAt[s]
  BY <1>1, WindowAssumption DEF WindowInv, Restorable
<1>3. deletedAt[s] + TombstoneDays > now
  BY <1>1, <1>2, WindowAssumption
<1>4. tomb[s] # "none"
  BY <1>1, <1>3, WindowAssumption DEF TombInv
<1> QED
  BY <1>3, <1>4 DEF Suppressed

\* The restore gate is safe: for every pair of retention windows with the tombstone's
\* the longer, a copy that may be restored holds no deleted subject whose
\* tombstone has run out.
THEOREM NoDeletedSubjectRestored == LifSpec => []NoResurrection
  BY GateMeaning, GateInvariant, PTL

\* The receipt of an owner deletion stays true: nothing is left of what the account had
\* in storage as its last purge began, whatever earlier purges removed and presigned
\* PUTs brought back, and every subject is suppressed until the day the receipt names.
THEOREM ReceiptStaysTrue == LifSpec => []ReceiptTruthful
  BY GateInvariant, PTL

-----------------------------------------------------------------------------
(* Backup completion *)

LEMMA CompleteStep ==
    LifTypeOK /\ BackupCompleteTruthful /\ [LifNext]_lifVars => BackupCompleteTruthful'
<1> SUFFICES ASSUME LifTypeOK, BackupCompleteTruthful, [LifNext]_lifVars,
                    NEW s \in Subjects, tomb'[s] = "done",
                    NEW b \in Backups, s \in covers'[b]
             PROVE  catalog'[b] \notin {"available", "deleting", "delete-failed"}
  BY DEF BackupCompleteTruthful, CopiesDeleted
<1> DEFINE Live(c) == c \in {"available", "deleting", "delete-failed"}
<1> USE DEF primaryVars, tombVars, backupVars, restoreVars, runnerVars
<1>0. ASSUME tomb[s] = "done", s \in covers[b], Live(catalog'[b]) => Live(catalog[b])
      PROVE  ~Live(catalog'[b])
  BY <1>0 DEF BackupCompleteTruthful, CopiesDeleted
<1>1. ASSUME NEW u \in Users, CommitDeletion(u) PROVE ~Live(catalog'[b])
  BY <1>0, <1>1 DEF CommitDeletion
<1>2. ASSUME NEW c \in Backups, NEW S \in SUBSET Subjects, CaptureBackup(c, S)
      PROVE  ~Live(catalog'[b])
  BY <1>0, <1>2 DEF CaptureBackup, LifTypeOK
<1>3. ASSUME NEW c \in Backups, NEW d \in Days, RegisterBackup(c, d)
      PROVE  ~Live(catalog'[b])
  BY <1>0, <1>3 DEF RegisterBackup, Reopened, LifTypeOK
<1>4. ASSUME NEW c \in Backups, RegisterAgain(c) PROVE ~Live(catalog'[b])
  BY <1>0, <1>4 DEF RegisterAgain, Reopened
<1>5. ASSUME NEW r \in Runners, NEW c \in Backups, ClaimBackup(r, c)
      PROVE  ~Live(catalog'[b])
  BY <1>0, <1>5 DEF ClaimBackup, LifTypeOK
<1>6. ASSUME NEW r \in Runners, CommitDeleted(r) PROVE ~Live(catalog'[b])
  <2>1. Live(catalog'[b]) => Live(catalog[b])
    BY <1>6 DEF CommitDeleted, LifTypeOK
  <2>2. CASE tomb[s] = "done"
    BY <1>0, <1>6, <2>1, <2>2 DEF CommitDeleted
  <2>3. CASE tomb[s] # "done"
    BY <1>6, <2>3 DEF CommitDeleted, CopiesDeleted
  <2> QED
    BY <2>2, <2>3
<1>7. ASSUME NEW r \in Runners, RecordFailure(r) PROVE ~Live(catalog'[b])
  BY <1>0, <1>7 DEF RecordFailure, LifTypeOK
<1>8. CASE RetentionSweep
  <2>1. (Live(catalog'[b]) => Live(catalog[b])) /\ s \in covers[b]
    BY <1>8 DEF RetentionSweep
  <2>2. Finalized[s] = "done"
    BY <1>8 DEF RetentionSweep
  <2>3. tomb[s] = "done" \/ CopiesDeleted(s, catalog)
    BY <2>2 DEF Finalized
  <2> QED
    BY <1>0, <2>1, <2>3 DEF CopiesDeleted
<1>9. NextDay \/ Quiet => ~Live(catalog'[b])
  BY <1>0 DEF NextDay, Quiet
<1> QED
  BY <1>1, <1>2, <1>3, <1>4, <1>5, <1>6, <1>7, <1>8, <1>9, CatalogueCases

LEMMA CompleteInit == LifInit => BackupCompleteTruthful
  BY DEF LifInit, BackupCompleteTruthful

LEMMA CompleteInvariant == LifSpec => [](LifTypeOK /\ BackupCompleteTruthful)
  BY CompleteInit, LifTypeCorrect, CompleteStep, PTL DEF LifSpec

\* A tombstone marked backup-complete has no catalogued copy that is not deleted,
\* however runners, late registrations and sweeps interleave.
THEOREM BackupCompletion == LifSpec => []BackupCompleteTruthful
  BY CompleteInvariant, PTL

\* No tombstone is dropped before its expiry, or while a catalogued copy of its
\* subject is not deleted.
THEOREM TombstoneRetention == LifSpec => TombstoneOutlivesCopies
<1>1. LifTypeOK /\ BackupCompleteTruthful /\ [LifNext]_lifVars =>
        [\A s \in Subjects : (tomb[s] # "none" /\ tomb'[s] = "none") =>
            CopiesDeleted(s, catalog) /\ deletedAt[s] + TombstoneDays <= now]_lifVars
  <2> SUFFICES ASSUME LifTypeOK, BackupCompleteTruthful, [LifNext]_lifVars,
                      NEW s \in Subjects, tomb[s] # "none", tomb'[s] = "none"
               PROVE  CopiesDeleted(s, catalog) /\ deletedAt[s] + TombstoneDays <= now
    OBVIOUS
  <2>1. CASE RetentionSweep
    <3>1. Purgeable(s, Finalized)
      BY <2>1 DEF RetentionSweep, Finalized
    <3>2. Finalized[s] = "done" /\ deletedAt[s] + TombstoneDays <= now
      BY <3>1 DEF Purgeable
    <3>3. tomb[s] = "done" \/ CopiesDeleted(s, catalog)
      BY <3>2 DEF Finalized
    <3> QED
      BY <3>2, <3>3 DEF BackupCompleteTruthful
  <2>2. CASE ~RetentionSweep
    BY <2>2, CatalogueCases
       DEF CommitDeletion, CaptureBackup, RegisterBackup, RegisterAgain, Reopened,
           ClaimBackup, CommitDeleted, RecordFailure, NextDay, Quiet, tombVars
  <2> QED
    BY <2>1, <2>2
<1> QED
  BY <1>1, CompleteInvariant, PTL DEF LifSpec, TombstoneOutlivesCopies

-----------------------------------------------------------------------------
(* Deletion runners *)

\* A runner works on a copy that exists or existed, and one that is about to commit
\* has seen the provider delete it.
RunnerInv ==
    /\ DeletedCopyIsGone
    /\ \A r \in Runners : rpc[r] # "idle" => catalog[target[r]] # "none"
    /\ \A r \in Runners : rpc[r] = "removed" => ~copy[target[r]]

LEMMA RunnerInvStep == LifTypeOK /\ RunnerInv /\ [LifNext]_lifVars => RunnerInv'
<1> SUFFICES ASSUME LifTypeOK, RunnerInv, [LifNext]_lifVars PROVE RunnerInv'
  OBVIOUS
<1> USE DEF primaryVars, tombVars, backupVars, restoreVars, runnerVars
<1>1. ASSUME UNCHANGED <<catalog, copy, rpc, target>> PROVE RunnerInv'
  BY <1>1 DEF RunnerInv, DeletedCopyIsGone
<1>2. ASSUME NEW b \in Backups, NEW S \in SUBSET Subjects, CaptureBackup(b, S)
      PROVE  RunnerInv'
  BY <1>2 DEF CaptureBackup, RunnerInv, DeletedCopyIsGone, LifTypeOK
<1>3. ASSUME NEW b \in Backups, NEW d \in Days, RegisterBackup(b, d) PROVE RunnerInv'
  BY <1>3 DEF RegisterBackup, RunnerInv, DeletedCopyIsGone, LifTypeOK
<1>4. ASSUME NEW r \in Runners, NEW b \in Backups, ClaimBackup(r, b) PROVE RunnerInv'
  BY <1>4 DEF ClaimBackup, RunnerInv, DeletedCopyIsGone, LifTypeOK
<1>5. ASSUME NEW r \in Runners, DeleteCopy(r) PROVE RunnerInv'
  BY <1>5 DEF DeleteCopy, RunnerInv, DeletedCopyIsGone, LifTypeOK
<1>6. ASSUME NEW r \in Runners, DeletionRaises(r) PROVE RunnerInv'
  <2>1. \A b \in Backups : ~copy[b] => ~copy'[b]
    BY <1>6 DEF DeletionRaises, LifTypeOK
  <2> QED
    BY <1>6, <2>1 DEF DeletionRaises, RunnerInv, DeletedCopyIsGone, LifTypeOK
<1>7. ASSUME NEW r \in Runners, CommitDeleted(r) PROVE RunnerInv'
  BY <1>7 DEF CommitDeleted, Idle, RunnerInv, DeletedCopyIsGone, LifTypeOK
<1>8. ASSUME NEW r \in Runners, RecordFailure(r) PROVE RunnerInv'
  BY <1>8 DEF RecordFailure, Idle, RunnerInv, DeletedCopyIsGone, LifTypeOK
<1>9. ASSUME NEW r \in Runners, CrashRunner(r) PROVE RunnerInv'
  BY <1>9 DEF CrashRunner, Idle, RunnerInv, DeletedCopyIsGone, LifTypeOK
<1>10. CASE RetentionSweep
  BY <1>10 DEF RetentionSweep, RunnerInv, DeletedCopyIsGone, LifTypeOK
<1>11. ASSUME NEW s \in Holdable, NEW k \in HoldKeys,
              ReleaseHold(s, k) \/ \E e \in Days : PlaceHold(s, k, e)
       PROVE  RunnerInv'
  BY <1>1, <1>11 DEF ReleaseHold, PlaceHold
<1>12. ASSUME NEW u \in Users,
              \/ BeginDeletion(u) \/ LockSubjects(u) \/ CommitDeletion(u)
              \/ RollBackDeletion(u)
              \/ \E o \in Objects : DeletePayload(u, o) \/ PutThroughUrl(o)
       PROVE  RunnerInv'
  BY <1>1, <1>12
     DEF BeginDeletion, LockSubjects, CommitDeletion, RollBackDeletion, DeletePayload,
         PutThroughUrl
<1>13. ASSUME NEW b \in Backups, RegisterAgain(b) \/ BeginRestore(b) \/ LeaseElapses(b)
       PROVE  RunnerInv'
  BY <1>1, <1>13 DEF RegisterAgain, BeginRestore, LeaseElapses
<1>14. CommitRestore \/ NextDay \/ UNCHANGED lifVars => RunnerInv'
  BY <1>1 DEF CommitRestore, NextDay, lifVars
<1> QED
  BY <1>2, <1>3, <1>4, <1>5, <1>6, <1>7, <1>8, <1>9, <1>10, <1>11, <1>12, <1>13, <1>14,
     OwnerAssumption DEF LifNext, RunnerStep

LEMMA RunnerInit == LifInit => RunnerInv
  BY DEF LifInit, RunnerInv, DeletedCopyIsGone

\* The catalogue never calls a copy deleted that still exists, with any number of
\* runners taking over each other's leases.
THEOREM DeletionIsReal == LifSpec => []DeletedCopyIsGone
<1>1. RunnerInv => DeletedCopyIsGone
  BY DEF RunnerInv
<1> QED
  BY <1>1, RunnerInit, LifTypeCorrect, RunnerInvStep, PTL DEF LifSpec

-----------------------------------------------------------------------------
(* The gate, the tombstones and the runners together *)

LifecycleInv == LifTypeOK /\ WindowInv /\ TombInv /\ BackupCompleteTruthful /\ RunnerInv

\* What the restore gate, the tombstones and the backup runners keep together.
LEMMA LifecycleInductive ==
    /\ LifInit => LifecycleInv
    /\ LifecycleInv /\ [LifNext]_lifVars => LifecycleInv'
    /\ LifecycleInv => NoResurrection /\ BackupCompleteTruthful /\ DeletedCopyIsGone
<1>1. LifInit => LifecycleInv
  BY TypeInit, GateInit, CompleteInit, RunnerInit DEF LifecycleInv
<1>2. LifecycleInv /\ [LifNext]_lifVars => LifecycleInv'
  BY TypeStep, WindowStep, TombStep, CompleteStep, RunnerInvStep DEF LifecycleInv
<1>3. LifecycleInv => NoResurrection /\ BackupCompleteTruthful /\ DeletedCopyIsGone
  BY GateMeaning DEF LifecycleInv, RunnerInv
<1> QED
  BY <1>1, <1>2, <1>3

-----------------------------------------------------------------------------
(* Holds *)

\* While a deletion that saw no hold is under way, whatever hold is in force on one
\* of its subjects was recorded on the same day.
HoldInv ==
    \A u \in Users : (deletion[u] = "purging" \/ (deletion[u] = "begun" /\ ~held[u])) =>
        \A s \in SubjectsOf(u) \cap Holdable, k \in HoldKeys :
            (hold[s][k].action = "place" /\ hold[s][k].expires > now) => hold[s][k].at = now

LEMMA HoldInvStep == LifTypeOK /\ HoldInv /\ [LifNext]_lifVars => HoldInv'
<1> SUFFICES ASSUME LifTypeOK, HoldInv, [LifNext]_lifVars PROVE HoldInv'
  OBVIOUS
<1> USE DEF primaryVars, tombVars, backupVars, restoreVars, runnerVars
<1>1. ASSUME UNCHANGED <<now, deletion, held, hold>> PROVE HoldInv'
  BY <1>1 DEF HoldInv, SubjectsOf, OwnerOf
<1>2. ASSUME UNCHANGED <<now, deletion, held>>,
             \A s \in Holdable, k \in HoldKeys :
                \/ hold'[s][k] = hold[s][k]
                \/ hold'[s][k].action # "place"
                \/ hold'[s][k].at = now
      PROVE  HoldInv'
  BY <1>2 DEF HoldInv, SubjectsOf, OwnerOf
<1>3. ASSUME NEW s \in Holdable, NEW k \in HoldKeys, NEW e \in Days, PlaceHold(s, k, e)
      PROVE  HoldInv'
  <2>1. hold'[s][k].at = now
    BY <1>3 DEF PlaceHold, LifTypeOK
  <2>2. \A t \in Holdable, l \in HoldKeys :
           (t # s \/ l # k) => hold'[t][l] = hold[t][l]
    BY <1>3 DEF PlaceHold, LifTypeOK
  <2> QED
    BY <1>2, <1>3, <2>1, <2>2 DEF PlaceHold
<1>4. ASSUME NEW s \in Holdable, NEW k \in HoldKeys, ReleaseHold(s, k) PROVE HoldInv'
  <2>1. hold'[s][k].action = "release"
    BY <1>4 DEF ReleaseHold, LifTypeOK
  <2>2. \A t \in Holdable, l \in HoldKeys :
           (t # s \/ l # k) => hold'[t][l] = hold[t][l]
    BY <1>4 DEF ReleaseHold, LifTypeOK
  <2> QED
    BY <1>2, <1>4, <2>1, <2>2 DEF ReleaseHold
<1>5. ASSUME NEW u \in Users, BeginDeletion(u) PROVE HoldInv'
  BY <1>5 DEF BeginDeletion, HoldInv, HoldActive, SubjectsOf, OwnerOf, LifTypeOK
<1>6. ASSUME NEW u \in Users,
             LockSubjects(u) \/ CommitDeletion(u) \/ RollBackDeletion(u)
      PROVE  HoldInv'
  <2>1. UNCHANGED <<now, held, hold>>
    BY <1>6 DEF LockSubjects, CommitDeletion, RollBackDeletion
  <2>2. \A v \in Users : deletion'[v] # deletion[v] =>
           deletion'[v] = "idle" \/ (deletion[v] = "begun" /\ ~held[v])
    BY <1>6 DEF LockSubjects, CommitDeletion, RollBackDeletion, LifTypeOK
  <2>3. \A v \in Users : deletion'[v] = "begun" => deletion[v] = "begun"
    BY <1>6 DEF LockSubjects, CommitDeletion, RollBackDeletion, LifTypeOK
  <2> QED
    BY <2>1, <2>2, <2>3 DEF HoldInv, SubjectsOf, OwnerOf
<1>7. CASE RetentionSweep
  BY <1>2, <1>7 DEF RetentionSweep
<1>8. CASE NextDay
  BY <1>8 DEF NextDay, HoldInv
<1>9. ASSUME NEW u \in Users, NEW o \in Objects, DeletePayload(u, o) \/ PutThroughUrl(o)
      PROVE  HoldInv'
  BY <1>1, <1>9 DEF DeletePayload, PutThroughUrl
<1>10. ASSUME NEW b \in Backups,
              \/ \E S \in SUBSET Subjects : CaptureBackup(b, S)
              \/ \E d \in Days : RegisterBackup(b, d)
              \/ RegisterAgain(b) \/ BeginRestore(b) \/ LeaseElapses(b)
       PROVE  HoldInv'
  BY <1>1, <1>10
     DEF CaptureBackup, RegisterBackup, RegisterAgain, BeginRestore, LeaseElapses
<1>11. ASSUME NEW r \in Runners,
              RunnerStep(r) \/ CrashRunner(r) \/ \E b \in Backups : ClaimBackup(r, b)
       PROVE  HoldInv'
  BY <1>1, <1>11 DEF RunnerStep, DeleteCopy, DeletionRaises, CommitDeleted, RecordFailure,
                     CrashRunner, ClaimBackup
<1>12. CommitRestore \/ UNCHANGED lifVars => HoldInv'
  BY <1>1 DEF CommitRestore, lifVars
<1> QED
  BY <1>3, <1>4, <1>5, <1>6, <1>7, <1>8, <1>9, <1>10, <1>11, <1>12,
     OwnerAssumption DEF LifNext

\* No account is purged over a hold recorded before the day of the purge; only one
\* recorded while the purge was running can be missed.
THEOREM HoldsBlockDeletion == LifSpec => EarlierHoldBlocks
<1>1. LifInit => HoldInv
  BY DEF LifInit, HoldInv
<1>2. LifTypeOK /\ HoldInv /\ [LifNext]_lifVars =>
        [\A u \in Users : (account[u] = "present" /\ account'[u] = "deleted") =>
            \A s \in SubjectsOf(u) \cap Holdable, k \in HoldKeys :
                (hold[s][k].action = "place" /\ hold[s][k].expires > now)
                    => hold[s][k].at = now]_lifVars
  <2> SUFFICES ASSUME LifTypeOK, HoldInv, [LifNext]_lifVars,
                      NEW u \in Users, account[u] = "present", account'[u] = "deleted"
               PROVE  \A s \in SubjectsOf(u) \cap Holdable, k \in HoldKeys :
                        (hold[s][k].action = "place" /\ hold[s][k].expires > now)
                            => hold[s][k].at = now
    OBVIOUS
  <2>1. deletion[u] = "purging"
    BY AccountStep DEF CommitDeletion
  <2> QED
    BY <2>1 DEF HoldInv
<1> QED
  BY <1>1, <1>2, LifTypeCorrect, HoldInvStep, PTL DEF LifSpec, EarlierHoldBlocks
=============================================================================
