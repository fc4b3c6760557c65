--------------------------- MODULE RequestProofs ---------------------------
(***************************************************************************)
(* Machine-checked safety of the requests that make something: job         *)
(* admission, for any keys, users, requests in flight and quota limits,    *)
(* the generation loop, for any requests, users, briefs and checks and any *)
(* repair budget, what jobs leave behind, for any users, keys, models and  *)
(* requests and any finite number of requests in flight, and the recorded  *)
(* cost of their provider calls, for any calls and billing rows.           *)
(***************************************************************************)
EXTENDS JobAdmission, Generation, JobOutputs, CostReconcile, FiniteSetTheorems, TLAPS

-----------------------------------------------------------------------------
(* Types *)

\* Every action keeps the types, and the columns of a row are written together.
LEMMA TypeStep == TypeOK /\ [Next]_vars => TypeOK'
<1> SUFFICES ASSUME TypeOK, [Next]_vars PROVE TypeOK'
    OBVIOUS
<1> USE OwnerAssumption, SubsetAssumption, LimitAssumption, NoneAssumption
<1>1. CASE UNCHANGED vars
    BY <1>1 DEF TypeOK, vars, jobVars, creditVars, txVars, Open
<1>2. ASSUME NEW r \in Handlers, CreateJob(r) PROVE TypeOK'
    BY <1>2 DEF TypeOK, CreateJob, Insert, EndTransaction, Open
<1>3. ASSUME NEW r \in Handlers, Replay(r) \/ RollBack(r) PROVE TypeOK'
    <2>1. UNCHANGED <<today, jobVars, creditVars, consent>> /\ EndTransaction(r, {})
        BY <1>3 DEF Replay, RollBack
    <2> QED
        BY <2>1 DEF TypeOK, EndTransaction, Open, jobVars, creditVars
<1>4. ASSUME NEW r \in Handlers, NEW k \in Keys, NEW b \in Bodies, Begin(r, k, b)
      PROVE TypeOK'
    BY <1>4 DEF TypeOK, Begin, Open, jobVars, creditVars, ActiveModal, LaunchedOn
<1>5. ASSUME NEW k \in Keys, CancelJob(k) PROVE TypeOK'
    BY <1>5 DEF TypeOK, CancelJob, Doom, Open
<1>6. ASSUME NEW k \in Keys, WorkerEnds(k) PROVE TypeOK'
    BY <1>6 DEF TypeOK, WorkerEnds, Doom, Open, creditVars
<1>7. ASSUME NEW u \in Users, GrantConsent(u) PROVE TypeOK'
    BY <1>7 DEF TypeOK, GrantConsent, Open, jobVars, creditVars, txVars
<1>8. ASSUME NEW u \in Users, WithdrawConsent(u) PROVE TypeOK'
    BY <1>8 DEF TypeOK, WithdrawConsent, Withdrawn, Doom, Open, creditVars
<1>9. CASE NextDay
    BY <1>9 DEF TypeOK, NextDay, Open, jobVars, creditVars, txVars
<1> QED
    BY <1>1, <1>2, <1>3, <1>4, <1>5, <1>6, <1>7, <1>8, <1>9 DEF Next

LEMMA TypeInit == Init => TypeOK
    BY LimitAssumption, NoneAssumption DEF Init, TypeOK, Open

\* Admission is type correct: every job row has an input from the moment it exists, and
\* every request in flight has a body.
THEOREM TypeCorrect == Spec => []TypeOK
    BY TypeInit, TypeStep, PTL DEF Spec

-----------------------------------------------------------------------------
(* Requests are bound to their keys *)

\* A job's input and day never change once it is admitted, and an ended job keeps its
\* status: no later request, cancellation or withdrawal rewrites it.
THEOREM RequestsStayBound == Spec => RequestBound
<1> DEFINE Bound ==
        \A k \in Keys : status[k] # "none" =>
          /\ status'[k] # "none" /\ body'[k] = body[k] /\ day'[k] = day[k]
          /\ (status[k] # "active" => status'[k] = status[k])
<1>1. TypeOK /\ [Next]_vars => [Bound]_vars
    <2> SUFFICES ASSUME TypeOK, Next PROVE Bound
        OBVIOUS
    <2>1. ASSUME NEW r \in Handlers, CreateJob(r) PROVE Bound
        BY <2>1 DEF TypeOK, CreateJob, Insert, Open
    <2>2. ASSUME NEW r \in Handlers, Replay(r) \/ RollBack(r) PROVE Bound
        BY <2>2 DEF TypeOK, Replay, RollBack, jobVars
    <2>3. ASSUME NEW r \in Handlers, NEW k \in Keys, NEW b \in Bodies, Begin(r, k, b)
          PROVE Bound
        BY <2>3 DEF TypeOK, Begin, jobVars
    <2>4. ASSUME NEW k \in Keys, CancelJob(k) \/ WorkerEnds(k) PROVE Bound
        BY <2>4 DEF TypeOK, CancelJob, WorkerEnds
    <2>5. ASSUME NEW u \in Users, GrantConsent(u) PROVE Bound
        BY <2>5 DEF TypeOK, GrantConsent, jobVars
    <2>6. ASSUME NEW u \in Users, WithdrawConsent(u) PROVE Bound
        BY <2>6 DEF TypeOK, WithdrawConsent, Withdrawn
    <2>7. CASE NextDay
        BY <2>7 DEF NextDay, jobVars
    <2> QED
        BY <2>1, <2>2, <2>3, <2>4, <2>5, <2>6, <2>7 DEF Next
<1> QED
    BY <1>1, TypeCorrect, PTL DEF Spec, RequestBound

-----------------------------------------------------------------------------
(* Withdrawal of consent *)

\* A transaction that can still commit has read a consent that still stands.
ConsentInv ==
    \A r \in Handlers :
        Open(r) /\ ~doomed[r] /\ reqKey[r] \in Gated /\ agreed[r]
            => consent[Owner[reqKey[r]]]

\* Either the withdrawal comes first and dooms the request, or the request comes first
\* and the withdrawal cancels its job.
LEMMA ConsentStep ==
    TypeOK /\ ConsentInv /\ WithdrawalStopsWork /\ [Next]_vars
        => ConsentInv' /\ WithdrawalStopsWork'
<1> SUFFICES ASSUME TypeOK, ConsentInv, WithdrawalStopsWork, [Next]_vars
             PROVE ConsentInv' /\ WithdrawalStopsWork'
    OBVIOUS
<1> USE OwnerAssumption, SubsetAssumption, NoneAssumption
<1>1. CASE UNCHANGED vars
    BY <1>1 DEF ConsentInv, WithdrawalStopsWork, vars, jobVars, txVars, Open
<1>2. ASSUME NEW r \in Handlers, CreateJob(r) PROVE ConsentInv' /\ WithdrawalStopsWork'
    <2>1. ConsentInv'
        BY <1>2 DEF TypeOK, ConsentInv, CreateJob, Insert, EndTransaction, Open
    <2>2. WithdrawalStopsWork'
        BY <1>2 DEF TypeOK, ConsentInv, WithdrawalStopsWork, CreateJob, Insert, Consents,
                    Open
    <2> QED BY <2>1, <2>2
<1>3. ASSUME NEW r \in Handlers, Replay(r) \/ RollBack(r)
      PROVE ConsentInv' /\ WithdrawalStopsWork'
    BY <1>3 DEF TypeOK, ConsentInv, WithdrawalStopsWork, Replay, RollBack, EndTransaction,
                Open, jobVars
<1>4. ASSUME NEW r \in Handlers, NEW k \in Keys, NEW b \in Bodies, Begin(r, k, b)
      PROVE ConsentInv' /\ WithdrawalStopsWork'
    BY <1>4 DEF TypeOK, ConsentInv, WithdrawalStopsWork, Begin, Open, jobVars
<1>5. ASSUME NEW k \in Keys, CancelJob(k) \/ WorkerEnds(k)
      PROVE ConsentInv' /\ WithdrawalStopsWork'
    BY <1>5 DEF TypeOK, ConsentInv, WithdrawalStopsWork, CancelJob, WorkerEnds, Doom, Open
<1>6. ASSUME NEW u \in Users, GrantConsent(u) PROVE ConsentInv' /\ WithdrawalStopsWork'
    BY <1>6 DEF TypeOK, ConsentInv, WithdrawalStopsWork, GrantConsent, Open, jobVars, txVars
<1>7. ASSUME NEW u \in Users, WithdrawConsent(u)
      PROVE ConsentInv' /\ WithdrawalStopsWork'
    <2>1. ConsentInv'
        BY <1>7 DEF TypeOK, ConsentInv, WithdrawConsent, ConsentReaders, Doom, Open
    <2>2. WithdrawalStopsWork'
        BY <1>7 DEF TypeOK, WithdrawalStopsWork, WithdrawConsent, Withdrawn
    <2> QED BY <2>1, <2>2
<1>8. CASE NextDay
    BY <1>8 DEF ConsentInv, WithdrawalStopsWork, NextDay, Open, jobVars, txVars
<1> QED
    BY <1>1, <1>2, <1>3, <1>4, <1>5, <1>6, <1>7, <1>8 DEF Next

LEMMA ConsentInit == Init => ConsentInv /\ WithdrawalStopsWork
    BY SubsetAssumption DEF Init, ConsentInv, WithdrawalStopsWork, Open

\* No job stays at work on what a withdrawn consent covered, whatever requests were in
\* flight when it was withdrawn.
THEOREM WithdrawalIsEffective == Spec => []WithdrawalStopsWork
    BY ConsentInit, ConsentStep, TypeCorrect, PTL DEF Spec

-----------------------------------------------------------------------------
(* The quota *)

\* A Modal transaction that can still commit sees every job that counts: others may have
\* left the active set since its snapshot, none has joined it.
SnapshotInv ==
    \A r \in Handlers :
        Open(r) /\ ~doomed[r] /\ reqKey[r] \in Modal
            => ActiveModal \subseteq active[r] /\ LaunchedOn(begun[r]) \subseteq spent[r]

\* QuotaKept for every day, not only those of a bounded run.
AllQuotas ==
    /\ Cardinality(ActiveModal) <= MaxActive
    /\ \A d \in Nat : Cardinality(LaunchedOn(d)) <= DailyLimit

\* Sets of keys are finite, and a smaller set has no more elements.
LEMMA KeySets ==
    ASSUME NEW S \in SUBSET Keys, NEW T \in SUBSET Keys, S \subseteq T
    PROVE  /\ IsFiniteSet(S) /\ IsFiniteSet(T)
           /\ Cardinality(S) \in Nat /\ Cardinality(T) \in Nat
           /\ Cardinality(S) <= Cardinality(T)
<1>1. IsFiniteSet(S) /\ IsFiniteSet(T)
    BY KeysAssumption, FS_Subset
<1>2. Cardinality(S) <= Cardinality(T)
    BY <1>1, FS_Subset
<1>3. Cardinality(S) \in Nat /\ Cardinality(T) \in Nat
    BY <1>1, FS_CardinalityType
<1> QED BY <1>1, <1>2, <1>3

\* Adding a key that was not there adds one.
LEMMA KeyAdded ==
    ASSUME NEW S \in SUBSET Keys, NEW k \in Keys, k \notin S
    PROVE  Cardinality(S \cup {k}) = Cardinality(S) + 1 /\ Cardinality(S) \in Nat
<1>1. IsFiniteSet(S)
    BY KeysAssumption, FS_Subset
<1> QED BY <1>1, FS_AddElement, FS_CardinalityType

\* What the steps other than an insertion do to the counted sets.
LEMMA CountsStep ==
    ASSUME TypeOK, [Next]_vars, \A r \in Handlers : ~CreateJob(r)
    PROVE  /\ ActiveModal' \subseteq ActiveModal
           /\ \A d \in Nat : LaunchedOn(d)' = LaunchedOn(d)
<1> USE SubsetAssumption
<1>1. CASE UNCHANGED jobVars
    BY <1>1 DEF jobVars, ActiveModal, LaunchedOn
<1>2. ASSUME NEW k \in Keys, CancelJob(k) \/ WorkerEnds(k)
      PROVE  /\ ActiveModal' \subseteq ActiveModal
             /\ \A d \in Nat : LaunchedOn(d)' = LaunchedOn(d)
    BY <1>2 DEF TypeOK, CancelJob, WorkerEnds, ActiveModal, LaunchedOn
<1>3. ASSUME NEW u \in Users, WithdrawConsent(u)
      PROVE  /\ ActiveModal' \subseteq ActiveModal
             /\ \A d \in Nat : LaunchedOn(d)' = LaunchedOn(d)
    BY <1>3 DEF TypeOK, WithdrawConsent, Withdrawn, ActiveModal, LaunchedOn
<1> QED
    BY <1>1, <1>2, <1>3 DEF Next, vars, Replay, RollBack, Begin, GrantConsent, NextDay

\* An insertion from a current snapshot keeps both limits.
LEMMA InsertKeepsQuota ==
    ASSUME TypeOK, SnapshotInv, AllQuotas, NEW r \in Handlers, CreateJob(r)
    PROVE  AllQuotas'
<1> DEFINE k == reqKey[r]
<1> USE SubsetAssumption, LimitAssumption, NoneAssumption
<1>1. /\ k \in Keys /\ status[k] = "none" /\ ~doomed[r] /\ Open(r) /\ Quota(r)
      /\ status' = [status EXCEPT ![k] = "active"]
      /\ day' = [day EXCEPT ![k] = begun[r]]
    BY DEF TypeOK, CreateJob, Insert, Open
<1>2. CASE k \notin Modal
    <2>1. ActiveModal' = ActiveModal /\ \A d \in Nat : LaunchedOn(d)' = LaunchedOn(d)
        BY <1>1, <1>2 DEF TypeOK, ActiveModal, LaunchedOn
    <2> QED BY <2>1 DEF AllQuotas
<1>3. CASE k \in Modal
    <2>1. PICK e \in Nat : e = begun[r]
        BY DEF TypeOK
    <2>2. ActiveModal' = ActiveModal \cup {k} /\ k \notin ActiveModal
        BY <1>1, <1>3 DEF TypeOK, ActiveModal
    <2>3. LaunchedOn(e)' = LaunchedOn(e) \cup {k} /\ k \notin LaunchedOn(e)
        BY <1>1, <1>3, <2>1 DEF TypeOK, LaunchedOn
    <2>4. ASSUME NEW d \in Nat, d # e PROVE LaunchedOn(d)' = LaunchedOn(d)
        BY <1>1, <1>3, <2>1, <2>4 DEF TypeOK, LaunchedOn
    <2>5. ActiveModal \subseteq active[r] \ {k} /\ LaunchedOn(e) \subseteq spent[r] \ {k}
        BY <1>1, <1>3, <2>1, <2>2, <2>3 DEF SnapshotInv
    <2>6. /\ ActiveModal \in SUBSET Keys /\ LaunchedOn(e) \in SUBSET Keys
          /\ active[r] \ {k} \in SUBSET Keys /\ spent[r] \ {k} \in SUBSET Keys
        BY DEF TypeOK, ActiveModal, LaunchedOn
    <2>7. /\ Cardinality(active[r] \ {k}) < MaxActive
          /\ Cardinality(spent[r] \ {k}) + 1 <= DailyLimit
        BY <1>1, <1>3 DEF Quota
    <2>8. Cardinality(ActiveModal') <= MaxActive
        <3>1. /\ Cardinality(ActiveModal) <= Cardinality(active[r] \ {k})
              /\ Cardinality(active[r] \ {k}) \in Nat
            BY <2>5, <2>6, KeySets
        <3>2. Cardinality(ActiveModal \cup {k}) = Cardinality(ActiveModal) + 1
              /\ Cardinality(ActiveModal) \in Nat
            BY <1>1, <2>2, <2>6, KeyAdded
        <3> QED BY <3>1, <3>2, <2>2, <2>7
    <2>9. Cardinality(LaunchedOn(e)') <= DailyLimit
        <3>1. /\ Cardinality(LaunchedOn(e)) <= Cardinality(spent[r] \ {k})
              /\ Cardinality(spent[r] \ {k}) \in Nat
            BY <2>5, <2>6, KeySets
        <3>2. Cardinality(LaunchedOn(e) \cup {k}) = Cardinality(LaunchedOn(e)) + 1
              /\ Cardinality(LaunchedOn(e)) \in Nat
            BY <1>1, <2>3, <2>6, KeyAdded
        <3> QED BY <3>1, <3>2, <2>3, <2>7
    <2> QED BY <2>4, <2>8, <2>9 DEF AllQuotas
<1> QED BY <1>2, <1>3

\* A transaction either keeps a snapshot that covers the present, or is doomed.
LEMMA SnapshotStep == TypeOK /\ SnapshotInv /\ [Next]_vars => SnapshotInv'
<1> SUFFICES ASSUME TypeOK, SnapshotInv, [Next]_vars,
                    NEW q \in Handlers,
                    Open(q)', ~doomed'[q], reqKey'[q] \in Modal
             PROVE  (ActiveModal \subseteq active[q])' /\ (LaunchedOn(begun[q]) \subseteq spent[q])'
    BY DEF SnapshotInv
<1> USE SubsetAssumption, NoneAssumption
<1>1. ASSUME NEW r \in Handlers, CreateJob(r)
      PROVE  (ActiveModal \subseteq active[q])' /\ (LaunchedOn(begun[q]) \subseteq spent[q])'
    <2>1. q # r /\ reqKey'[q] = reqKey[q] /\ begun'[q] = begun[q] /\ active'[q] = active[q]
          /\ spent'[q] = spent[q] /\ Open(q) /\ ~doomed[q]
        BY <1>1 DEF TypeOK, CreateJob, Insert, EndTransaction, Open
    <2>2. reqKey[r] \notin Modal
        BY <1>1, <2>1 DEF TypeOK, CreateJob, Insert, EndTransaction, QuotaReaders, Open
    <2>3. ActiveModal' = ActiveModal
        BY <1>1, <2>2 DEF TypeOK, CreateJob, Insert, ActiveModal, Open
    <2>4. LaunchedOn(begun[q])' = LaunchedOn(begun[q])
        BY <1>1, <2>1, <2>2 DEF TypeOK, CreateJob, Insert, LaunchedOn, Open
    <2> QED BY <2>1, <2>3, <2>4 DEF SnapshotInv
<1>2. CASE \A r \in Handlers : ~CreateJob(r)
    <2>1. /\ ActiveModal' \subseteq ActiveModal
          /\ \A d \in Nat : LaunchedOn(d)' = LaunchedOn(d)
        BY <1>2, CountsStep
    <2>2. ASSUME NEW r \in Handlers, NEW k \in Keys, NEW b \in Bodies, Begin(r, k, b), q = r
          PROVE  (ActiveModal \subseteq active[q])' /\ (LaunchedOn(begun[q]) \subseteq spent[q])'
        BY <2>2 DEF TypeOK, Begin, jobVars, ActiveModal, LaunchedOn
    <2>3. CASE ~ \E r \in Handlers, k \in Keys, b \in Bodies : Begin(r, k, b) /\ q = r
        <3>1. reqKey'[q] = reqKey[q] /\ begun'[q] = begun[q] /\ active'[q] = active[q]
              /\ spent'[q] = spent[q] /\ Open(q) /\ ~doomed[q]
            <4>1. ASSUME NEW r \in Handlers, EndTransaction(r, {})
                  PROVE  /\ reqKey'[q] = reqKey[q] /\ begun'[q] = begun[q]
                         /\ active'[q] = active[q] /\ spent'[q] = spent[q]
                         /\ Open(q) /\ ~doomed[q]
                BY <4>1 DEF TypeOK, EndTransaction, Open
            <4>2. ASSUME NEW P, Doom(P), UNCHANGED <<reqKey, begun, active, spent>>
                  PROVE  /\ reqKey'[q] = reqKey[q] /\ begun'[q] = begun[q]
                         /\ active'[q] = active[q] /\ spent'[q] = spent[q]
                         /\ Open(q) /\ ~doomed[q]
                BY <4>2 DEF TypeOK, Doom, Open
            <4>3. ASSUME NEW r \in Handlers, NEW k \in Keys, NEW b \in Bodies,
                         Begin(r, k, b), q # r
                  PROVE  /\ reqKey'[q] = reqKey[q] /\ begun'[q] = begun[q]
                         /\ active'[q] = active[q] /\ spent'[q] = spent[q]
                         /\ Open(q) /\ ~doomed[q]
                BY <4>3 DEF TypeOK, Begin, Open
            <4>4. CASE UNCHANGED txVars
                BY <4>4 DEF txVars, Open
            <4> QED
                BY <1>2, <2>3, <4>1, <4>2, <4>3, <4>4
                DEF Next, vars, Replay, RollBack, CancelJob, WorkerEnds, GrantConsent,
                    WithdrawConsent, NextDay
        <3>2. PICK e \in Nat : e = begun[q]
            BY DEF TypeOK
        <3>3. LaunchedOn(begun[q])' = LaunchedOn(e)'
            BY <3>1, <3>2 DEF LaunchedOn
        <3>4. ActiveModal \subseteq active[q] /\ LaunchedOn(e) \subseteq spent[q]
            BY <3>1, <3>2 DEF SnapshotInv
        <3> QED BY <2>1, <3>1, <3>2, <3>3, <3>4
    <2> QED BY <2>2, <2>3
<1> QED BY <1>1, <1>2

\* The first job finds both counts at zero.
LEMMA QuotaInit == Init => SnapshotInv /\ AllQuotas
<1> USE SubsetAssumption, LimitAssumption
<1> SUFFICES ASSUME Init PROVE SnapshotInv /\ AllQuotas
    OBVIOUS
<1>1. SnapshotInv
    BY DEF Init, SnapshotInv, Open
<1>2. ActiveModal = {} /\ \A d \in Nat : LaunchedOn(d) = {}
    BY DEF Init, ActiveModal, LaunchedOn
<1>3. Cardinality({}) = 0
    BY FS_EmptySet
<1> QED BY <1>1, <1>2, <1>3 DEF AllQuotas

\* No step takes either count past its limit.
LEMMA QuotaStep == TypeOK /\ SnapshotInv /\ AllQuotas /\ [Next]_vars => AllQuotas'
<1> SUFFICES ASSUME TypeOK, SnapshotInv, AllQuotas, [Next]_vars PROVE AllQuotas'
    OBVIOUS
<1> USE SubsetAssumption, LimitAssumption
<1>1. CASE \E r \in Handlers : CreateJob(r)
    BY <1>1, InsertKeepsQuota
<1>2. CASE \A r \in Handlers : ~CreateJob(r)
    <2>1. /\ ActiveModal' \subseteq ActiveModal
          /\ \A d \in Nat : LaunchedOn(d)' = LaunchedOn(d)
        BY <1>2, CountsStep
    <2>2. ActiveModal \in SUBSET Keys /\ ActiveModal' \in SUBSET Keys
        BY DEF ActiveModal
    <2>3. /\ Cardinality(ActiveModal') <= Cardinality(ActiveModal)
          /\ Cardinality(ActiveModal') \in Nat /\ Cardinality(ActiveModal) \in Nat
        BY <2>1, <2>2, KeySets
    <2>4. Cardinality(ActiveModal') <= MaxActive
        BY <2>3 DEF AllQuotas
    <2> QED BY <2>1, <2>4 DEF AllQuotas
<1> QED BY <1>1, <1>2

\* The active and the daily limits hold however many requests pass the check at once:
\* the serializable transactions keep the count, not the advisory lock.
THEOREM QuotaIsShared == Spec => []QuotaKept
<1>1. AllQuotas => QuotaKept
    BY LimitAssumption DEF AllQuotas, QuotaKept
<1> QED
    BY <1>1, QuotaInit, QuotaStep, SnapshotStep, TypeCorrect, PTL DEF Spec

-----------------------------------------------------------------------------
(* The credit ledger *)

\* A user's share of a set of keys grows by one when a key of theirs joins it.
LEMMA ShareAdded ==
    ASSUME NEW S \in SUBSET Keys, NEW k \in Keys, k \notin S, NEW u \in Users
    PROVE  /\ Cardinality({x \in S \cup {k} : Owner[x] = u})
                = Cardinality({x \in S : Owner[x] = u}) + (IF Owner[k] = u THEN 1 ELSE 0)
           /\ Cardinality({x \in S : Owner[x] = u}) \in Nat
<1> DEFINE T == {x \in S : Owner[x] = u}
<1>1. T \in SUBSET Keys /\ k \notin T
    OBVIOUS
<1>2. Cardinality(T \cup {k}) = Cardinality(T) + 1 /\ Cardinality(T) \in Nat
    BY <1>1, KeyAdded
<1>3. CASE Owner[k] = u
    <2>1. {x \in S \cup {k} : Owner[x] = u} = T \cup {k}
        BY <1>3
    <2> QED BY <1>2, <1>3, <2>1
<1>4. CASE Owner[k] # u
    <2>1. {x \in S \cup {k} : Owner[x] = u} = T
        BY <1>4
    <2> QED BY <1>2, <1>4, <2>1
<1> QED BY <1>3, <1>4

\* Debits follow insertions, refunds follow the cancellation of an active job.
LEMMA LedgerStep == TypeOK /\ LedgerBalances /\ [Next]_vars => LedgerBalances'
<1> SUFFICES ASSUME TypeOK, LedgerBalances, [Next]_vars PROVE LedgerBalances'
    OBVIOUS
<1> USE OwnerAssumption, SubsetAssumption, NoneAssumption
<1>1. CASE UNCHANGED <<status, creditVars>>
    BY <1>1 DEF LedgerBalances, creditVars
<1>2. ASSUME NEW r \in Handlers, CreateJob(r) PROVE LedgerBalances'
    <2> DEFINE k == reqKey[r]
    <2>1. /\ k \in Keys /\ status[k] = "none" /\ status' = [status EXCEPT ![k] = "active"]
          /\ debited' = IF k \in Modal THEN debited \cup {k} ELSE debited
          /\ balance' = [balance EXCEPT ![Owner[k]] = IF k \in Modal THEN @ - 1 ELSE @]
          /\ refunded' = refunded
        BY <1>2 DEF TypeOK, CreateJob, Insert, Open
    <2>2. debited' = {x \in Modal : status'[x] # "none"}
        BY <2>1 DEF TypeOK, LedgerBalances
    <2>3. refunded' \subseteq {x \in debited' : status'[x] = "cancelled"}
        BY <2>1 DEF TypeOK, LedgerBalances
    <2>4. k \notin debited /\ debited \in SUBSET Keys
        BY <2>1 DEF TypeOK, LedgerBalances
    <2>5. ASSUME NEW u \in Users
          PROVE  balance'[u] = Cardinality({x \in refunded' : Owner[x] = u})
                               - Cardinality({x \in debited' : Owner[x] = u})
        <3> DEFINE paid == Cardinality({x \in refunded : Owner[x] = u})
                   owed == Cardinality({x \in debited : Owner[x] = u})
        <3>1. paid \in Nat /\ owed \in Nat /\ balance[u] = paid - owed /\ balance[u] \in Int
            <4>1. {x \in refunded : Owner[x] = u} \in SUBSET Keys
                  /\ {x \in debited : Owner[x] = u} \in SUBSET Keys
                BY DEF TypeOK
            <4>2. paid \in Nat /\ owed \in Nat
                BY <4>1, KeySets
            <4> QED BY <4>2 DEF LedgerBalances, TypeOK
        <3>2. CASE k \in Modal
            <4>1. Cardinality({x \in debited \cup {k} : Owner[x] = u})
                    = owed + (IF Owner[k] = u THEN 1 ELSE 0)
                BY <2>1, <2>4, ShareAdded
            <4>2. balance'[u] = balance[u] - (IF Owner[k] = u THEN 1 ELSE 0)
                BY <2>1, <3>1, <3>2 DEF TypeOK
            <4>3. debited' = debited \cup {k}
                BY <2>1, <3>2
            <4>4. /\ Cardinality({x \in debited' : Owner[x] = u})
                        = owed + (IF Owner[k] = u THEN 1 ELSE 0)
                  /\ Cardinality({x \in refunded' : Owner[x] = u}) = paid
                BY <2>1, <4>1, <4>3
            <4> HIDE DEF k, paid, owed
            <4> QED BY <3>1, <4>2, <4>4
        <3>3. CASE k \notin Modal
            <4>1. balance'[u] = balance[u]
                BY <2>1, <3>1, <3>3 DEF TypeOK
            <4> QED BY <2>1, <3>1, <3>3, <4>1
        <3> QED BY <3>2, <3>3
    <2> QED BY <2>2, <2>3, <2>5 DEF LedgerBalances
<1>3. ASSUME NEW k \in Keys, CancelJob(k) PROVE LedgerBalances'
    <2>1. /\ status[k] \in {"active", "cancelled"}
          /\ status' = [status EXCEPT ![k] = "cancelled"] /\ debited' = debited
          /\ refunded' = IF Refundable(k) THEN refunded \cup {k} ELSE refunded
          /\ balance' = [balance EXCEPT ![Owner[k]] = IF Refundable(k) THEN @ + 1 ELSE @]
        BY <1>3 DEF CancelJob
    <2>2. debited' = {x \in Modal : status'[x] # "none"}
        BY <2>1 DEF TypeOK, LedgerBalances
    <2>3. refunded' \subseteq {x \in debited' : status'[x] = "cancelled"}
        BY <2>1 DEF TypeOK, LedgerBalances, Refundable
    <2>4. Refundable(k) => k \notin refunded
        BY DEF TypeOK, LedgerBalances, Refundable
    <2>5. ASSUME NEW u \in Users
          PROVE  balance'[u] = Cardinality({x \in refunded' : Owner[x] = u})
                               - Cardinality({x \in debited' : Owner[x] = u})
        <3> DEFINE paid == Cardinality({x \in refunded : Owner[x] = u})
                   owed == Cardinality({x \in debited : Owner[x] = u})
        <3>1. paid \in Nat /\ owed \in Nat /\ balance[u] = paid - owed /\ balance[u] \in Int
            <4>1. {x \in refunded : Owner[x] = u} \in SUBSET Keys
                  /\ {x \in debited : Owner[x] = u} \in SUBSET Keys
                BY DEF TypeOK
            <4>2. paid \in Nat /\ owed \in Nat
                BY <4>1, KeySets
            <4> QED BY <4>2 DEF LedgerBalances, TypeOK
        <3>2. CASE Refundable(k)
            <4>1. Cardinality({x \in refunded \cup {k} : Owner[x] = u})
                    = paid + (IF Owner[k] = u THEN 1 ELSE 0)
                <5>1. refunded \in SUBSET Keys
                    BY DEF TypeOK
                <5> QED BY <2>4, <3>2, <5>1, ShareAdded
            <4>2. balance'[u] = balance[u] + (IF Owner[k] = u THEN 1 ELSE 0)
                BY <2>1, <3>1, <3>2 DEF TypeOK
            <4>3. refunded' = refunded \cup {k}
                BY <2>1, <3>2
            <4>4. /\ Cardinality({x \in refunded' : Owner[x] = u})
                        = paid + (IF Owner[k] = u THEN 1 ELSE 0)
                  /\ Cardinality({x \in debited' : Owner[x] = u}) = owed
                BY <2>1, <4>1, <4>3
            <4> HIDE DEF paid, owed
            <4> QED BY <3>1, <4>2, <4>4
        <3>3. CASE ~Refundable(k)
            <4>1. balance'[u] = balance[u]
                BY <2>1, <3>1, <3>3 DEF TypeOK
            <4> QED BY <2>1, <3>1, <3>3, <4>1
        <3> QED BY <3>2, <3>3
    <2> QED BY <2>2, <2>3, <2>5 DEF LedgerBalances
<1>4. ASSUME NEW k \in Keys, WorkerEnds(k) PROVE LedgerBalances'
    BY <1>4 DEF TypeOK, LedgerBalances, WorkerEnds, creditVars
<1>5. ASSUME NEW u \in Users, WithdrawConsent(u) PROVE LedgerBalances'
    BY <1>5 DEF TypeOK, LedgerBalances, WithdrawConsent, Withdrawn, creditVars
<1> QED
    BY <1>1, <1>2, <1>3, <1>4, <1>5
    DEF Next, vars, jobVars, Replay, RollBack, Begin, GrantConsent, NextDay

LEMMA LedgerInit == Init => LedgerBalances
<1> SUFFICES ASSUME Init PROVE LedgerBalances
    OBVIOUS
<1>1. ASSUME NEW u \in Users
      PROVE  /\ Cardinality({k \in refunded : Owner[k] = u}) = 0
             /\ Cardinality({k \in debited : Owner[k] = u}) = 0
    <2>1. /\ {k \in refunded : Owner[k] = u} = {}
          /\ {k \in debited : Owner[k] = u} = {}
        BY DEF Init
    <2> QED BY <2>1, FS_EmptySet
<1> QED BY <1>1, SubsetAssumption DEF Init, LedgerBalances

\* Credits are never created or lost: a job is debited once, refunded at most once and
\* only when its owner cancelled it, and the balance is the sum of the ledger.
THEOREM LedgerIsConsistent == Spec => []LedgerBalances
    BY LedgerInit, LedgerStep, TypeCorrect, PTL DEF Spec

-----------------------------------------------------------------------------
(* The invariants together *)

AdmissionInv ==
    TypeOK /\ ConsentInv /\ WithdrawalStopsWork /\ SnapshotInv /\ AllQuotas /\ LedgerBalances

\* Admission keeps its quotas, its consents and its ledger together.
LEMMA AdmissionInductive ==
    /\ Init => AdmissionInv
    /\ AdmissionInv /\ [Next]_vars => AdmissionInv'
    /\ AdmissionInv => QuotaKept /\ WithdrawalStopsWork /\ LedgerBalances
<1>1. Init => AdmissionInv
    BY TypeInit, ConsentInit, QuotaInit, LedgerInit DEF AdmissionInv
<1>2. AdmissionInv /\ [Next]_vars => AdmissionInv'
    BY TypeStep, ConsentStep, SnapshotStep, QuotaStep, LedgerStep DEF AdmissionInv
<1>3. AdmissionInv => QuotaKept /\ WithdrawalStopsWork /\ LedgerBalances
    BY LimitAssumption DEF AdmissionInv, AllQuotas, QuotaKept
<1> QED BY <1>1, <1>2, <1>3

-----------------------------------------------------------------------------
(* The inductive invariant: what is known of a request at each step of the   *)
(* handler.                                                                  *)

Answered == {"record", "usage", "register"}
Working == {"validate", "repair", "draft"} \cup Answered

\* An accepted brief is carried to the end, a contract from the synthesis on, and only
\* a signed-in user's generation gets to the usage and the registry.
Carries(q) ==
    /\ q.st \notin {"idle", "refused"} => q.prompt \in Prompts
    /\ q.st \in Working => q.cand \in Contract /\ q.base \in Contract
    /\ q.st \in {"usage", "register"} => q.user \in SignedIn

\* The report a request ends with is the validator's on its last contract.
Reported(q) ==
    q.st \in Answered =>
        /\ q.verdict \in Verdicts
        /\ q.report # None => (q.report = "admitted" <=> q.cand.flaws = {})
        /\ q.verdict = "draft" => q.report = "draft" /\ q.cand.flaws # {}

\* The attempts made so far, by the request's step: only the last can be a draft or
\* an admission, and none is while the loop may still go round.
History(q) ==
    LET a == q.attempts
        n == Len(a)
        k == q.repairIndex
    IN  /\ n <= k + 1 \/ (n = k + 2 /\ a[n].phase = "draft")
        /\ \A i \in 1..n :
              /\ (i = 1) <=> (a[i].phase = "synthesize")
              /\ a[i].phase = "draft" \/ a[i].verdict = "admitted" => i = n
        /\ q.st \in {"idle", "context", "synthesize"} => n = 0 /\ k = 0
        /\ q.st \in {"validate", "repair", "draft"} =>
              /\ n = IF q.st = "validate" THEN k ELSE k + 1
              /\ \A i \in 1..n : a[i].phase # "draft" /\ a[i].verdict # "admitted"
        /\ q.st = "repair" => k < MaxRepairs

ReqInv(q) == q \in Request /\ Carries(q) /\ Reported(q) /\ History(q)

GenInv ==
    /\ GenTypeOK
    /\ \A r \in Reqs : ReqInv(reqs[r])
    /\ RegisteredTruthful
    /\ DraftsWereRejected

\* The constants of the model: a repair budget, a seed to start from, briefs that are
\* either refused or not, and an absent value that is none of the present ones.
GenConstants ==
    /\ MaxRepairs \in Nat
    /\ Seeds # {}
    /\ Prompts \cap BadPrompts = {}
    /\ None \notin Verdicts /\ None \notin Contract /\ None \notin ArtifactRow
    /\ None \notin ModelRow

-----------------------------------------------------------------------------
(* Helpers of the handler *)

\* What the validator can have answered when it ran: its verdict on the contract, or
\* nothing at all, which counts as an admission without a report.
LEMMA ValidatorAnswer ==
    ASSUME GenConstants, NEW c \in Contract, NEW asDraft \in BOOLEAN,
           NEW result \in runValidator(c, asDraft), result.exitCode # -1
    PROVE  /\ result.diagnostics \in SUBSET Checks
           /\ verdictFromReport(result) \in Verdicts
           /\ \/ result.report = None /\ verdictFromReport(result) = "admitted"
              \/ /\ result.report = verdictOf(c, asDraft) /\ result.report \in Verdicts
                 /\ verdictFromReport(result) = result.report
  BY DEF runValidator, verdictFromReport, verdictOf, Verdicts, GenConstants, Contract

\* The attempts after one more.
LEMMA HistoryAppend ==
    ASSUME NEW a \in Seq(Attempt), NEW x \in Attempt
    PROVE  /\ Append(a, x) \in Seq(Attempt) /\ Len(Append(a, x)) = Len(a) + 1
           /\ Len(a) \in Nat
           /\ \A i \in 1..Len(a) : Append(a, x)[i] = a[i]
           /\ Append(a, x)[Len(a) + 1] = x
  OBVIOUS

-----------------------------------------------------------------------------
(* How one step of the handler moves its request *)

\* Only the request that takes the step moves.
Moves(r, q) == reqs' = [reqs EXCEPT ![r] = q]

\* A step of one request keeps the invariant of all, if it keeps that one's.
LEMMA MovesOne ==
    ASSUME GenTypeOK, NEW r \in Reqs, NEW q, Moves(r, q), ReqInv(q),
           \A s \in Reqs : ReqInv(reqs[s])
    PROVE  reqs' \in [Reqs -> Request] /\ \A s \in Reqs : ReqInv(reqs'[s])
  BY DEF GenTypeOK, Moves, ReqInv

\* A request that goes on, or fails, without new attempts keeps its history.
LEMMA GotoInv ==
    ASSUME NEW q, ReqInv(q),
           NEW s \in {"usage", "register"} \cup Final,
           s \in {"usage", "register"} => q.st \in Answered /\ q.user \in SignedIn,
           s = "refused" => q.st = "refused",
           q.st \notin {"idle", "refused"}
    PROVE  ReqInv([q EXCEPT !.st = s])
<1> DEFINE p == [q EXCEPT !.st = s]
<1>1. /\ p.st = s /\ p.user = q.user /\ p.prompt = q.prompt /\ p.base = q.base
      /\ p.cand = q.cand /\ p.repairIndex = q.repairIndex /\ p.attempts = q.attempts
      /\ p.verdict = q.verdict /\ p.report = q.report
  BY DEF ReqInv, Request
<1>2. p \in Request
  BY DEF ReqInv, Request, Final
<1>3. Carries(p)
  BY <1>1 DEF ReqInv, Carries, Working, Answered, Final
<1>4. Reported(p)
  BY <1>1 DEF ReqInv, Reported, Answered, Final
<1>5. History(p)
  BY <1>1 DEF ReqInv, History, Final
<1> HIDE DEF p
<1> QED
  BY <1>2, <1>3, <1>4, <1>5 DEF ReqInv, p

\* executeGeneration: a brief is taken up, or refused.
LEMMA ExecuteInv ==
    ASSUME GenConstants, NEW q, ReqInv(q), q.st = "idle",
           NEW u \in SignedIn \cup {None}, NEW p \in Prompts \cup BadPrompts,
           NEW provider \in Providers, NEW s \in Seeds,
           NEW n, n = [q EXCEPT !.user = u, !.prompt = p, !.provider = provider, !.seed = s,
                                !.st = IF p \in BadPrompts THEN "refused" ELSE "context"]
    PROVE  ReqInv(n)
<1>1. /\ n.st = (IF p \in BadPrompts THEN "refused" ELSE "context")
      /\ n.user = u /\ n.prompt = p /\ n.base = q.base
      /\ n.cand = q.cand /\ n.repairIndex = q.repairIndex /\ n.attempts = q.attempts
      /\ n.verdict = q.verdict /\ n.report = q.report
  BY DEF ReqInv, Request
<1>2. n \in Request
  <2>1. /\ q \in Request /\ p \in Prompts \cup BadPrompts \cup {None}
        /\ provider \in Providers \cup {None}
    BY DEF ReqInv
  <2>2. ASSUME NEW st \in {"refused", "context"},
               n = [q EXCEPT !.user = u, !.prompt = p, !.provider = provider, !.seed = s,
                             !.st = st]
        PROVE  n \in Request
    BY <2>1, <2>2 DEF Request, Final
  <2>3. CASE p \in BadPrompts
    BY <2>2, <2>3
  <2>4. CASE p \notin BadPrompts
    BY <2>2, <2>4
  <2> QED
    BY <2>3, <2>4
<1>3. Carries(n) /\ Reported(n)
  BY <1>1 DEF Carries, Reported, Working, Answered, GenConstants
<1>4. History(n)
  BY <1>1 DEF ReqInv, History
<1> QED
  BY <1>2, <1>3, <1>4 DEF ReqInv

\* buildGenerationContext: blocked, or on to the synthesis.
LEMMA ContextInv ==
    ASSUME NEW q, ReqInv(q), q.st = "context"
    PROVE  /\ ReqInv([q EXCEPT !.st = "done", !.verdict = "blocked"])
           /\ ReqInv([q EXCEPT !.st = "synthesize"])
<1>1. ASSUME NEW n, \/ n = [q EXCEPT !.st = "done", !.verdict = "blocked"]
                    \/ n = [q EXCEPT !.st = "synthesize"]
      PROVE  ReqInv(n)
  <2>1. /\ n.st \in {"done", "synthesize"} /\ n.prompt = q.prompt
        /\ n.repairIndex = q.repairIndex /\ n.attempts = q.attempts
    BY <1>1 DEF ReqInv, Request
  <2>2. n \in Request
    <3>1. CASE n = [q EXCEPT !.st = "synthesize"]
      BY <3>1 DEF ReqInv, Request
    <3>2. CASE n = [q EXCEPT !.st = "done", !.verdict = "blocked"]
      BY <3>2 DEF ReqInv, Request, Final
    <3> QED
      BY <1>1, <3>1, <3>2
  <2>3. Carries(n) /\ Reported(n)
    BY <2>1 DEF ReqInv, Carries, Reported, Working, Answered
  <2>4. History(n)
    BY <2>1 DEF ReqInv, History
  <2> QED
    BY <2>2, <2>3, <2>4 DEF ReqInv
<1> QED
  BY <1>1

\* synthesize: the first contract, before any attempt.
LEMMA SynthesizeInv ==
    ASSUME NEW q, ReqInv(q), q.st = "synthesize", NEW c \in Contract
    PROVE  ReqInv([q EXCEPT !.st = "validate", !.base = c, !.cand = c])
<1> DEFINE n == [q EXCEPT !.st = "validate", !.base = c, !.cand = c]
<1>1. /\ n.st = "validate" /\ n.prompt = q.prompt /\ n.base = c /\ n.cand = c
      /\ n.repairIndex = q.repairIndex /\ n.attempts = q.attempts
  BY DEF ReqInv, Request
<1>2. n \in Request
  BY DEF ReqInv, Request
<1>3. Carries(n) /\ Reported(n)
  BY <1>1 DEF ReqInv, Carries, Reported, Answered
<1>4. History(n)
  BY <1>1 DEF ReqInv, History
<1> HIDE DEF n
<1> QED
  BY <1>2, <1>3, <1>4 DEF ReqInv, n

\* Another round of the loop, or none: the draft run follows.
LEMMA RepairInv ==
    ASSUME GenConstants, NEW q, ReqInv(q), q.st = "repair"
    PROVE  /\ ReqInv([q EXCEPT !.st = "draft"])
           /\ \A c \in Contract :
                 ReqInv([q EXCEPT !.st = "validate", !.cand = c, !.repairIndex = @ + 1])
<1>0. q.repairIndex \in Nat /\ q.repairIndex < MaxRepairs /\ MaxRepairs \in Nat
  BY DEF ReqInv, Request, History, GenConstants
<1>1. ASSUME NEW n, n = [q EXCEPT !.st = "draft"] PROVE ReqInv(n)
  <2>1. /\ n.st = "draft" /\ n.prompt = q.prompt /\ n.base = q.base /\ n.cand = q.cand
        /\ n.repairIndex = q.repairIndex /\ n.attempts = q.attempts
    BY <1>1 DEF ReqInv, Request
  <2>2. n \in Request
    BY <1>1 DEF ReqInv, Request
  <2>3. Carries(n) /\ Reported(n)
    BY <2>1 DEF ReqInv, Carries, Reported, Answered, Working
  <2>4. History(n)
    BY <2>1 DEF ReqInv, History
  <2> QED
    BY <2>2, <2>3, <2>4 DEF ReqInv
<1>2. ASSUME NEW n, NEW c \in Contract,
             n = [q EXCEPT !.st = "validate", !.cand = c, !.repairIndex = @ + 1]
      PROVE  ReqInv(n)
  <2>1. /\ n.st = "validate" /\ n.prompt = q.prompt /\ n.base = q.base /\ n.cand = c
        /\ n.repairIndex = q.repairIndex + 1 /\ n.attempts = q.attempts
    BY <1>2 DEF ReqInv, Request
  <2>2. n \in Request
    <3>1. q.repairIndex + 1 \in 0..MaxRepairs /\ q \in Request
      BY <1>0 DEF ReqInv
    <3> QED
      BY <1>2, <3>1 DEF Request
  <2>3. Carries(n) /\ Reported(n)
    BY <2>1 DEF ReqInv, Carries, Reported, Answered, Working
  <2>4. History(n)
    BY <1>0, <2>1 DEF ReqInv, History
  <2> QED
    BY <2>2, <2>3, <2>4 DEF ReqInv
<1> QED
  BY <1>1, <1>2

\* One pass of the loop appends its attempt and goes on by the verdict.
LEMMA PassInv ==
    ASSUME GenConstants, NEW q, ReqInv(q), q.st = "validate",
           NEW result \in runValidator(q.cand, FALSE), result.exitCode # -1,
           NEW x, x = [phase |-> IF q.repairIndex = 0 THEN "synthesize" ELSE "repair",
                       verdict |-> verdictFromReport(result), contract |-> q.cand,
                       diagnostics |-> result.diagnostics],
           NEW p, p = [q EXCEPT !.attempts = Append(q.attempts, x)],
           NEW n, n = IF verdictFromReport(result) = "admitted"
                      THEN [p EXCEPT !.st = "record", !.verdict = "admitted",
                                     !.report = result.report]
                      ELSE IF q.repairIndex = MaxRepairs THEN [p EXCEPT !.st = "draft"]
                      ELSE [p EXCEPT !.st = "repair"]
    PROVE  ReqInv(n)
<1>1. q \in Request /\ q.cand \in Contract /\ q.base \in Contract /\ q.prompt \in Prompts
  BY DEF ReqInv, Carries, Working
<1>2. /\ q.attempts \in Seq(Attempt) /\ q.repairIndex \in Nat /\ q.repairIndex <= MaxRepairs
      /\ MaxRepairs \in Nat
  BY <1>1 DEF Request, GenConstants
<1>3. /\ result.diagnostics \in SUBSET Checks /\ verdictFromReport(result) \in Verdicts
      /\ \/ result.report = None /\ verdictFromReport(result) = "admitted"
         \/ /\ result.report = verdictOf(q.cand, FALSE) /\ result.report \in Verdicts
            /\ verdictFromReport(result) = result.report
  BY <1>1, ValidatorAnswer
<1>4. /\ x \in Attempt /\ x.phase = (IF q.repairIndex = 0 THEN "synthesize" ELSE "repair")
      /\ x.verdict = verdictFromReport(result)
  BY <1>1, <1>3 DEF Attempt
<1> DEFINE a == q.attempts
           b == Append(a, x)
<1>5. /\ b \in Seq(Attempt) /\ Len(b) = Len(a) + 1 /\ Len(a) \in Nat
      /\ \A i \in 1..Len(a) : b[i] = a[i]
      /\ b[Len(a) + 1] = x
  BY <1>2, <1>4, HistoryAppend
<1>6. /\ Len(a) = q.repairIndex
      /\ \A i \in 1..Len(a) : a[i].phase # "draft" /\ a[i].verdict # "admitted"
      /\ \A i \in 1..Len(a) : (i = 1) <=> (a[i].phase = "synthesize")
  BY DEF ReqInv, History
<1>7. p \in Request /\ p.attempts = b /\ p.repairIndex = q.repairIndex /\ p.cand = q.cand
      /\ p.base = q.base /\ p.prompt = q.prompt
  BY <1>1, <1>5 DEF Request
<1> HIDE DEF b
<1>8. /\ \A i \in 1..Len(b) : (i = 1) <=> (b[i].phase = "synthesize")
      /\ \A i \in 1..Len(b) : b[i].phase # "draft"
      /\ \A i \in 1..Len(b) : b[i].verdict = "admitted" => i = Len(b) /\ x.verdict = "admitted"
      /\ Len(b) = q.repairIndex + 1
  <2> SUFFICES ASSUME NEW i \in 1..Len(b)
               PROVE  /\ (i = 1) <=> (b[i].phase = "synthesize")
                      /\ b[i].phase # "draft"
                      /\ b[i].verdict = "admitted" => i = Len(b) /\ x.verdict = "admitted"
    BY <1>5, <1>6
  <2>1. CASE i \in 1..Len(a)
    BY <1>5, <1>6, <2>1
  <2>2. CASE i = Len(a) + 1
    BY <1>2, <1>4, <1>5, <1>6, <2>2
  <2> QED
    BY <1>5, <2>1, <2>2
<1>9. CASE verdictFromReport(result) = "admitted"
  <2>1. n = [p EXCEPT !.st = "record", !.verdict = "admitted", !.report = result.report]
    BY <1>9
  <2>2. n \in Request
    BY <1>3, <1>7, <2>1 DEF Request, Verdicts
  <2>3. /\ n.st = "record" /\ n.verdict = "admitted" /\ n.report = result.report
        /\ n.attempts = b /\ n.repairIndex = q.repairIndex /\ n.cand = q.cand
        /\ n.base = q.base /\ n.prompt = q.prompt
    BY <1>7, <2>1 DEF Request
  <2>4. Carries(n)
    BY <1>1, <2>3 DEF Carries
  <2>5. Reported(n)
    BY <1>3, <1>9, <2>3 DEF Reported, Verdicts, verdictOf
  <2>6. History(n)
    BY <1>2, <1>8, <2>3 DEF History
  <2> QED
    BY <2>2, <2>4, <2>5, <2>6 DEF ReqInv
<1>10. CASE verdictFromReport(result) # "admitted"
  <2>1. PICK st \in {"draft", "repair"} :
            n = [p EXCEPT !.st = st] /\ (st = "repair" => q.repairIndex # MaxRepairs)
    BY <1>10
  <2>2. n \in Request
    BY <1>7, <2>1 DEF Request
  <2>3. /\ n.st = st /\ n.attempts = b /\ n.repairIndex = q.repairIndex /\ n.cand = q.cand
        /\ n.base = q.base /\ n.prompt = q.prompt
    BY <1>7, <2>1 DEF Request
  <2>4. Carries(n) /\ Reported(n)
    BY <1>1, <2>3 DEF Carries, Reported, Answered
  <2>5. History(n)
    BY <1>2, <1>4, <1>8, <1>10, <2>1, <2>3 DEF History
  <2> QED
    BY <2>2, <2>4, <2>5 DEF ReqInv
<1> QED
  BY <1>9, <1>10

\* The draft run appends the last attempt.
LEMMA DraftInv ==
    ASSUME GenConstants, NEW q, ReqInv(q), q.st = "draft",
           NEW result \in runValidator(q.cand, TRUE), result.exitCode # -1,
           NEW x, x = [phase |-> "draft", verdict |-> verdictFromReport(result),
                       contract |-> q.cand, diagnostics |-> result.diagnostics],
           NEW n, n = [q EXCEPT !.attempts = Append(q.attempts, x), !.st = "record",
                                !.report = result.report,
                                !.verdict = IF verdictFromReport(result) = "draft"
                                            THEN "draft" ELSE "rejected"]
    PROVE  ReqInv(n)
<1>1. q \in Request /\ q.cand \in Contract /\ q.base \in Contract /\ q.prompt \in Prompts
  BY DEF ReqInv, Carries, Working
<1>2. /\ q.attempts \in Seq(Attempt) /\ q.repairIndex \in Nat /\ q.repairIndex <= MaxRepairs
      /\ MaxRepairs \in Nat
  BY <1>1 DEF Request, GenConstants
<1>3. /\ result.diagnostics \in SUBSET Checks /\ verdictFromReport(result) \in Verdicts
      /\ \/ result.report = None /\ verdictFromReport(result) = "admitted"
         \/ /\ result.report = verdictOf(q.cand, TRUE) /\ result.report \in Verdicts
            /\ verdictFromReport(result) = result.report
  BY <1>1, ValidatorAnswer
<1>4. x \in Attempt /\ x.phase = "draft"
  BY <1>1, <1>3 DEF Attempt
<1> DEFINE a == q.attempts
           b == Append(a, x)
<1>5. /\ b \in Seq(Attempt) /\ Len(b) = Len(a) + 1 /\ Len(a) \in Nat
      /\ \A i \in 1..Len(a) : b[i] = a[i]
      /\ b[Len(a) + 1] = x
  BY <1>2, <1>4, HistoryAppend
<1>6. /\ Len(a) = q.repairIndex + 1
      /\ \A i \in 1..Len(a) : a[i].phase # "draft" /\ a[i].verdict # "admitted"
      /\ \A i \in 1..Len(a) : (i = 1) <=> (a[i].phase = "synthesize")
  BY DEF ReqInv, History
<1> DEFINE v == IF verdictFromReport(result) = "draft" THEN "draft" ELSE "rejected"
<1>7. v \in Verdicts
  BY DEF Verdicts
<1>8. /\ n = [q EXCEPT !.attempts = b, !.st = "record", !.report = result.report, !.verdict = v]
      /\ v = "draft" => verdictFromReport(result) = "draft"
  OBVIOUS
<1> HIDE DEF b, v
<1>9. n \in Request
  BY <1>1, <1>3, <1>5, <1>7, <1>8 DEF Request
<1>10. /\ n.st = "record" /\ n.verdict = v /\ n.report = result.report
       /\ n.attempts = b /\ n.repairIndex = q.repairIndex /\ n.cand = q.cand
       /\ n.base = q.base /\ n.prompt = q.prompt
  BY <1>1, <1>8 DEF Request
<1>11. Carries(n)
  BY <1>1, <1>10 DEF Carries
<1>12. Reported(n)
  BY <1>3, <1>7, <1>8, <1>10 DEF Reported, Verdicts, verdictOf
<1>13. History(n)
  <2>1. ASSUME NEW i \in 1..Len(b)
        PROVE  /\ (i = 1) <=> (b[i].phase = "synthesize")
               /\ b[i].phase = "draft" \/ b[i].verdict = "admitted" => i = Len(b)
    <3>1. CASE i \in 1..Len(a)
      BY <1>5, <1>6, <3>1
    <3>2. CASE i = Len(a) + 1
      BY <1>2, <1>4, <1>5, <1>6, <3>2
    <3> QED
      BY <1>5, <3>1, <3>2
  <2>2. Len(b) = q.repairIndex + 2 /\ b[Len(b)].phase = "draft"
    BY <1>2, <1>4, <1>5, <1>6
  <2> QED
    BY <1>10, <2>1, <2>2 DEF History
<1> QED
  BY <1>9, <1>11, <1>12, <1>13 DEF ReqInv

-----------------------------------------------------------------------------
(* The invariant is inductive *)

\* Every step keeps what is known of every request.
LEMMA RequestsStep ==
    ASSUME GenConstants, GenInv, GenNext
    PROVE  reqs' \in [Reqs -> Request] /\ \A r \in Reqs : ReqInv(reqs'[r])
<1> DEFINE Goal == reqs' \in [Reqs -> Request] /\ \A r \in Reqs : ReqInv(reqs'[r])
<1>1. GenTypeOK /\ \A r \in Reqs : ReqInv(reqs[r])
  BY DEF GenInv
<1>2. ASSUME NEW r \in Reqs, NEW q, Moves(r, q), ReqInv(q) PROVE Goal
  BY <1>1, <1>2, MovesOne
<1>3. ASSUME NEW c \in Components, NEW d, recordReviewDecision(c, d) PROVE Goal
  BY <1>1, <1>3 DEF recordReviewDecision, GenTypeOK
<1>4. ASSUME NEW r \in Reqs, NEW s, Goto(r, s) PROVE Moves(r, [reqs[r] EXCEPT !.st = s])
  BY <1>1, <1>4 DEF Goto, Moves, GenTypeOK
<1>5. ASSUME NEW r \in Reqs, RequestError(r) PROVE Goal
  <2>1. ReqInv([reqs[r] EXCEPT !.st = "failed"])
    BY <1>1, <1>5, GotoInv DEF RequestError, Final
  <2> QED
    BY <1>2, <1>4, <1>5, <2>1 DEF RequestError
<1>6. ASSUME NEW r \in Reqs, NEW u \in SignedIn \cup {None}, NEW p \in Prompts \cup BadPrompts,
             NEW provider \in Providers, NEW s \in Seeds,
             executeGeneration(r, u, p, provider, s)
      PROVE  Goal
  <2> DEFINE n == [reqs[r] EXCEPT !.user = u, !.prompt = p, !.provider = provider, !.seed = s,
                                  !.st = IF p \in BadPrompts THEN "refused" ELSE "context"]
  <2>1. Moves(r, n)
    BY <1>6 DEF executeGeneration, Moves
  <2>2. ReqInv(n)
    BY <1>1, <1>6, ExecuteInv DEF executeGeneration
  <2> HIDE DEF n
  <2> QED
    BY <1>2, <2>1, <2>2
<1>7. ASSUME NEW r \in Reqs, buildGenerationContext(r) PROVE Goal
  <2>1. /\ ReqInv([reqs[r] EXCEPT !.st = "done", !.verdict = "blocked"])
        /\ ReqInv([reqs[r] EXCEPT !.st = "synthesize"])
    BY <1>1, <1>7, ContextInv DEF buildGenerationContext
  <2>2. \/ Moves(r, [reqs[r] EXCEPT !.st = "done", !.verdict = "blocked"])
        \/ Moves(r, [reqs[r] EXCEPT !.st = "synthesize"])
    BY <1>1, <1>7 DEF buildGenerationContext, Moves, GenTypeOK
  <2> QED
    BY <1>2, <2>1, <2>2
<1>8. ASSUME NEW r \in Reqs, NEW c \in Contract, synthesize(r, c) PROVE Goal
  <2>1. Moves(r, [reqs[r] EXCEPT !.st = "validate", !.base = c, !.cand = c])
    BY <1>8 DEF synthesize, Moves
  <2>2. ReqInv([reqs[r] EXCEPT !.st = "validate", !.base = c, !.cand = c])
    BY <1>1, <1>8, SynthesizeInv DEF synthesize
  <2> QED
    BY <1>2, <2>1, <2>2
<1>9. ASSUME NEW r \in Reqs, validatePass(r) PROVE Goal
  <2> DEFINE q == reqs[r]
  <2>1. ReqInv(q) /\ q.st = "validate"
    BY <1>1, <1>9 DEF validatePass
  <2>2. PICK result \in runValidator(q.cand, FALSE) :
            LET phase == IF q.repairIndex = 0 THEN "synthesize" ELSE "repair"
                pushed == [q EXCEPT !.attempts = pushAttempt(r, phase, result)]
            IN reqs' = [reqs EXCEPT ![r] =
                 IF result.exitCode = -1 THEN [@ EXCEPT !.st = "failed"]
                 ELSE IF verdictFromReport(result) = "admitted"
                      THEN [pushed EXCEPT !.st = "record", !.verdict = "admitted",
                                          !.report = result.report]
                 ELSE IF q.repairIndex = MaxRepairs THEN [pushed EXCEPT !.st = "draft"]
                 ELSE [pushed EXCEPT !.st = "repair"]]
    BY <1>9 DEF validatePass
  <2> DEFINE x == [phase |-> IF q.repairIndex = 0 THEN "synthesize" ELSE "repair",
                   verdict |-> verdictFromReport(result), contract |-> q.cand,
                   diagnostics |-> result.diagnostics]
             p == [q EXCEPT !.attempts = Append(q.attempts, x)]
             n == IF verdictFromReport(result) = "admitted"
                  THEN [p EXCEPT !.st = "record", !.verdict = "admitted",
                                 !.report = result.report]
                  ELSE IF q.repairIndex = MaxRepairs THEN [p EXCEPT !.st = "draft"]
                  ELSE [p EXCEPT !.st = "repair"]
  <2>3. CASE result.exitCode = -1
    <3>1. Moves(r, [q EXCEPT !.st = "failed"])
      BY <2>2, <2>3 DEF Moves
    <3>2. ReqInv([q EXCEPT !.st = "failed"])
      BY <2>1, GotoInv DEF Final
    <3> QED
      BY <1>2, <3>1, <3>2
  <2>4. CASE result.exitCode # -1
    <3>1. Moves(r, n)
      BY <2>2, <2>4 DEF Moves, pushAttempt
    <3>2. ReqInv(n)
      BY <2>1, <2>2, <2>4, PassInv
    <3> HIDE DEF n
    <3> QED
      BY <1>2, <3>1, <3>2
  <2> QED
    BY <2>3, <2>4
<1>10. ASSUME NEW r \in Reqs, repair(r) PROVE Goal
  <2>1. ReqInv(reqs[r]) /\ reqs[r].st = "repair"
    BY <1>1, <1>10 DEF repair
  <2>2. reqs[r].base \in Contract
    BY <2>1 DEF ReqInv, Carries, Working
  <2>3. templateRepair(r) \subseteq Contract \cup {None} /\ anthropicRepair(r) \subseteq Contract
    BY <2>2 DEF templateRepair, anthropicRepair
  <2>4. PICK c \in Contract \cup {None} :
            reqs' = [reqs EXCEPT ![r] =
                       IF c = None THEN [@ EXCEPT !.st = "draft"]
                       ELSE [@ EXCEPT !.st = "validate", !.cand = c,
                                      !.repairIndex = reqs[r].repairIndex + 1]]
    BY <1>10, <2>3 DEF repair
  <2>5. CASE c = None
    <3>1. Moves(r, [reqs[r] EXCEPT !.st = "draft"])
      BY <2>4, <2>5 DEF Moves
    <3> QED
      BY <1>2, <2>1, <3>1, RepairInv
  <2>6. CASE c # None
    <3> DEFINE n == [reqs[r] EXCEPT !.st = "validate", !.cand = c, !.repairIndex = @ + 1]
    <3>1. Moves(r, n)
      BY <2>4, <2>6 DEF Moves
    <3>2. ReqInv(n)
      BY <2>1, <2>6, RepairInv
    <3> HIDE DEF n
    <3> QED
      BY <1>2, <3>1, <3>2
  <2> QED
    BY <2>5, <2>6
<1>11. ASSUME NEW r \in Reqs, draftPass(r) PROVE Goal
  <2> DEFINE q == reqs[r]
  <2>1. ReqInv(q) /\ q.st = "draft"
    BY <1>1, <1>11 DEF draftPass
  <2>2. PICK result \in runValidator(q.cand, TRUE) :
          reqs' = [reqs EXCEPT ![r] =
            IF result.exitCode = -1 THEN [@ EXCEPT !.st = "failed"]
            ELSE [@ EXCEPT !.attempts = pushAttempt(r, "draft", result), !.st = "record",
                           !.report = result.report,
                           !.verdict = IF verdictFromReport(result) = "draft"
                                       THEN "draft" ELSE "rejected"]]
    BY <1>11 DEF draftPass
  <2> DEFINE x == [phase |-> "draft", verdict |-> verdictFromReport(result),
                   contract |-> q.cand, diagnostics |-> result.diagnostics]
             n == [q EXCEPT !.attempts = Append(q.attempts, x), !.st = "record",
                            !.report = result.report,
                            !.verdict = IF verdictFromReport(result) = "draft"
                                        THEN "draft" ELSE "rejected"]
  <2>3. CASE result.exitCode = -1
    <3>1. Moves(r, [q EXCEPT !.st = "failed"])
      BY <2>2, <2>3 DEF Moves
    <3>2. ReqInv([q EXCEPT !.st = "failed"])
      BY <2>1, GotoInv DEF Final
    <3> QED
      BY <1>2, <3>1, <3>2
  <2>4. CASE result.exitCode # -1
    <3>1. Moves(r, n)
      BY <2>2, <2>4 DEF Moves, pushAttempt
    <3>2. ReqInv(n)
      BY <2>1, <2>2, <2>4, DraftInv
    <3> HIDE DEF n
    <3> QED
      BY <1>2, <3>1, <3>2
  <2> QED
    BY <2>3, <2>4
<1>12. ASSUME NEW r \in Reqs, recordGeneratedArtifact(r) PROVE Goal
  <2>1. PICK s \in {"done", "usage"} : Goto(r, s) /\ (s = "usage" => reqs[r].user # None)
    BY <1>12 DEF recordGeneratedArtifact
  <2>2. reqs[r].st = "record" /\ reqs[r].user \in SignedIn \cup {None} /\ ReqInv(reqs[r])
    BY <1>1, <1>12 DEF recordGeneratedArtifact, GenTypeOK, Request
  <2>3. ReqInv([reqs[r] EXCEPT !.st = s])
    BY <2>1, <2>2, GotoInv DEF Answered, Final
  <2> QED
    BY <1>2, <1>4, <2>1, <2>3
<1>13. ASSUME NEW r \in Reqs,
              recordUsageEvent(r) \/ \E m \in Models : insertModelFromGeneration(r, m)
       PROVE  Goal
  <2>1. PICK s \in {"done", "register"} : Goto(r, s)
    BY <1>13 DEF recordUsageEvent, insertModelFromGeneration
  <2>2. reqs[r].st \in {"usage", "register"} /\ ReqInv(reqs[r])
    BY <1>1, <1>13 DEF recordUsageEvent, insertModelFromGeneration
  <2>3. reqs[r].user \in SignedIn
    BY <2>2 DEF ReqInv, Carries
  <2>4. ReqInv([reqs[r] EXCEPT !.st = s])
    BY <2>1, <2>2, <2>3, GotoInv DEF Answered, Final
  <2> QED
    BY <1>2, <1>4, <2>1, <2>4
<1> QED
  BY <1>3, <1>5, <1>6, <1>7, <1>8, <1>9, <1>10, <1>11, <1>12, <1>13 DEF GenNext, Handler

\* The tables of reviews, refusals and usage keep their types.
LEMMA TablesStep ==
    ASSUME GenConstants, GenInv, GenNext
    PROVE  /\ review' \in [Components -> {"needs_review", "approved", "blocked", "rejected"}]
           /\ refusals' \subseteq BadPrompts \X (SignedIn \cup {None})
           /\ usage' \subseteq Prompts \X Contract
  <1>1. ASSUME NEW r \in Reqs, reqs[r].st = "usage" PROVE reqs[r].cand \in Contract
    BY <1>1 DEF GenInv, ReqInv, Carries, Working, Answered
  <1>2. ASSUME NEW c \in Contract PROVE c.id \in Prompts
    BY DEF Contract
  <1>3. CASE \E r \in Reqs : recordUsageEvent(r)
    BY <1>1, <1>2, <1>3 DEF recordUsageEvent, GenInv, GenTypeOK
  <1>4. CASE \E c \in Components, d \in {"approved", "blocked", "rejected"} :
                recordReviewDecision(c, d)
    BY <1>4 DEF recordReviewDecision, GenInv, GenTypeOK
  <1>5. CASE \E r \in Reqs, u \in SignedIn \cup {None}, p \in Prompts \cup BadPrompts,
                provider \in Providers, s \in Seeds : executeGeneration(r, u, p, provider, s)
    <2>1. PICK u \in SignedIn \cup {None}, p \in Prompts \cup BadPrompts :
              /\ refusals' = IF p \in BadPrompts THEN refusals \cup {<<p, u>>} ELSE refusals
              /\ UNCHANGED <<review, usage>>
      BY <1>5 DEF executeGeneration
    <2>2. CASE p \in BadPrompts
      BY <2>1, <2>2 DEF GenInv, GenTypeOK
    <2>3. CASE p \notin BadPrompts
      BY <2>1, <2>3 DEF GenInv, GenTypeOK
    <2> QED
      BY <2>2, <2>3
  <1>6. CASE \E r \in Reqs :
                \/ buildGenerationContext(r) \/ validatePass(r) \/ repair(r) \/ draftPass(r)
                \/ (\E c \in Contract : synthesize(r, c)) \/ recordGeneratedArtifact(r)
                \/ (\E m \in Models : insertModelFromGeneration(r, m)) \/ RequestError(r)
    <2>1. UNCHANGED <<review, refusals, usage>>
      BY <1>6 DEF buildGenerationContext, validatePass, repair, draftPass, synthesize,
                  recordGeneratedArtifact, insertModelFromGeneration, RequestError
    <2> QED
      BY <2>1 DEF GenInv, GenTypeOK
  <1> QED
    BY <1>3, <1>4, <1>5, <1>6 DEF GenNext, Handler

\* The upsert of recordGeneratedArtifact is the only write to generated_artifacts.
LEMMA ArtifactsStep ==
    ASSUME GenConstants, GenInv, GenNext
    PROVE  /\ artifacts' \in [Prompts -> ArtifactRow \cup {None}]
           /\ DraftsWereRejected'
           /\ OwnerNotLost
<1> USE DEF GenInv, GenTypeOK
<1>1. CASE UNCHANGED artifacts
  BY <1>1 DEF DraftsWereRejected, OwnerNotLost
<1>2. ASSUME NEW r \in Reqs, recordGeneratedArtifact(r)
      PROVE  /\ artifacts' \in [Prompts -> ArtifactRow \cup {None}]
             /\ DraftsWereRejected'
             /\ OwnerNotLost
  <2> DEFINE q == reqs[r]
             i == q.cand.id
             owner == IF q.user = None /\ artifacts[i] # None THEN artifacts[i].owner ELSE q.user
             row == [newRow(r) EXCEPT !.owner = owner]
  <2>1. ReqInv(q) /\ q.st = "record" /\ artifacts' = [artifacts EXCEPT ![i] = row]
    BY <1>2 DEF recordGeneratedArtifact
  <2>2. q \in Request /\ q.prompt \in Prompts /\ q.cand \in Contract /\ q.verdict \in Verdicts
    BY <2>1 DEF ReqInv, Carries, Reported, Working, Answered
  <2>3. q.verdict = "draft" => q.report = "draft" /\ q.cand.flaws # {}
    BY <2>1 DEF ReqInv, Reported, Answered
  <2>4. i \in Prompts
    BY <2>2 DEF Contract
  <2>5. Len(q.attempts) \in 0..(MaxRepairs + 2)
    <3>1. /\ Len(q.attempts) \in Nat /\ q.repairIndex \in Nat /\ q.repairIndex <= MaxRepairs
          /\ MaxRepairs \in Nat
      BY <2>2 DEF Request, GenConstants
    <3>2. Len(q.attempts) <= q.repairIndex + 2
      BY <2>1, <3>1 DEF ReqInv, History
    <3> QED
      BY <3>1, <3>2
  <2>6. owner \in SignedIn \cup {None}
    <3>1. q.user \in SignedIn \cup {None}
      BY <2>2 DEF Request
    <3>2. artifacts[i] # None => artifacts[i].owner \in SignedIn \cup {None}
      BY <2>4 DEF ArtifactRow
    <3> QED
      BY <3>1, <3>2
  <2>7. artifacts[i] # None /\ artifacts[i].owner # None => owner # None
    OBVIOUS
  <2> DEFINE fresh == newRow(r)
  <2> HIDE DEF owner
  <2>8. /\ fresh \in ArtifactRow /\ fresh.status = q.verdict /\ fresh.contract = q.cand
        /\ fresh.report = q.report
    <3>1. q.seed \in Seeds /\ q.report \in Verdicts \cup {None} /\ q.user \in SignedIn \cup {None}
      BY <2>2 DEF Request
    <3> HIDE DEF q
    <3> QED
      BY <2>2, <2>5, <3>1 DEF newRow, ArtifactRow, q
  <2> HIDE DEF fresh
  <2>9. /\ row \in ArtifactRow /\ row.status = q.verdict /\ row.contract = q.cand
        /\ row.report = q.report /\ row.owner = owner
    BY <2>6, <2>8 DEF ArtifactRow, fresh
  <2> HIDE DEF row
  <2>10. /\ artifacts'[i] = row
         /\ \A k \in Prompts : k # i => artifacts'[k] = artifacts[k]
         /\ artifacts' \in [Prompts -> ArtifactRow \cup {None}]
    BY <2>1, <2>4, <2>9
  <2>11. DraftsWereRejected'
    BY <2>3, <2>9, <2>10 DEF DraftsWereRejected
  <2>12. OwnerNotLost
    BY <2>7, <2>9, <2>10 DEF OwnerNotLost, GenConstants
  <2> QED
    BY <2>10, <2>11, <2>12
<1> QED
  BY <1>1, <1>2 DEF GenNext, Handler, buildGenerationContext, validatePass, repair, draftPass,
        synthesize, recordUsageEvent, insertModelFromGeneration, RequestError,
        executeGeneration, recordReviewDecision

\* insertModelFromGeneration is the only write to the registry.
LEMMA ModelsStep ==
    ASSUME GenConstants, GenInv, GenNext
    PROVE  models' \in [Models -> ModelRow \cup {None}] /\ RegisteredTruthful'
<1> USE DEF GenInv, GenTypeOK
<1>1. CASE UNCHANGED models
  BY <1>1 DEF RegisteredTruthful
<1>2. ASSUME NEW r \in Reqs, NEW m \in Models, insertModelFromGeneration(r, m),
             reqs[r].report # None
      PROVE  models' \in [Models -> ModelRow \cup {None}] /\ RegisteredTruthful'
  <2> DEFINE q == reqs[r]
             row == [owner |-> q.user, src |-> q.cand.id, status |-> q.report,
                     visibility |-> "private", contract |-> q.cand]
  <2>1. ReqInv(q) /\ q.st = "register" /\ models' = [models EXCEPT ![m] = row]
    BY <1>2 DEF insertModelFromGeneration, insertModel
  <2>2. /\ q.cand \in Contract /\ q.user \in SignedIn /\ q.report \in Verdicts
        /\ q.report = "admitted" <=> q.cand.flaws = {}
    BY <1>2, <2>1 DEF ReqInv, Carries, Reported, Working, Answered, Request
  <2>3. q.cand.id \in Prompts
    BY <2>2 DEF Contract
  <2>4. /\ row \in ModelRow /\ row.status = q.report /\ row.contract = q.cand
    BY <2>2, <2>3 DEF ModelRow
  <2> HIDE DEF row
  <2>5. /\ models'[m] = row
        /\ \A k \in Models : k # m => models'[k] = models[k]
        /\ models' \in [Models -> ModelRow \cup {None}]
    BY <2>1, <2>4
  <2>6. RegisteredTruthful'
    BY <2>2, <2>4, <2>5 DEF RegisteredTruthful
  <2> QED
    BY <2>5, <2>6
<1> QED
  BY <1>1, <1>2 DEF GenNext, Handler, buildGenerationContext, validatePass, repair, draftPass,
        synthesize, recordUsageEvent, insertModelFromGeneration, RequestError,
        recordGeneratedArtifact, executeGeneration, recordReviewDecision

\* The invariant holds initially ...
LEMMA GenInvInit == GenConstants /\ GenInit => GenInv
<1> SUFFICES ASSUME GenConstants, GenInit PROVE GenInv
  OBVIOUS
<1> DEFINE q0 == [st |-> "idle", user |-> None, prompt |-> None, provider |-> None,
                  seed |-> CHOOSE s \in Seeds : TRUE, base |-> None, cand |-> None,
                  repairIndex |-> 0, attempts |-> <<>>, verdict |-> None, report |-> None]
<1>1. (CHOOSE s \in Seeds : TRUE) \in Seeds
  BY DEF GenConstants
<1>2. <<>> \in Seq(Attempt) /\ Len(<<>>) = 0 /\ 0 \in 0..MaxRepairs
  BY DEF GenConstants
<1>3. q0 \in Request
  BY <1>1, <1>2 DEF Request
<1>4. ReqInv(q0)
  BY <1>2, <1>3 DEF ReqInv, Carries, Reported, History, Working, Answered
<1>5. reqs \in [Reqs -> Request] /\ \A r \in Reqs : ReqInv(reqs[r])
  BY <1>3, <1>4 DEF GenInit
<1> QED
  BY <1>5 DEF GenInit, GenInv, GenTypeOK, RegisteredTruthful, DraftsWereRejected

\* ... and is kept by every step.
LEMMA GenInvStep == GenConstants /\ GenInv /\ [GenNext]_genVars => GenInv'
<1> SUFFICES ASSUME GenConstants, GenInv, [GenNext]_genVars PROVE GenInv'
  OBVIOUS
<1>1. CASE GenNext
  BY <1>1, RequestsStep, TablesStep, ArtifactsStep, ModelsStep DEF GenInv, GenTypeOK
<1>2. CASE UNCHANGED genVars
  BY <1>2 DEF genVars, GenInv, GenTypeOK, RegisteredTruthful, DraftsWereRejected
<1> QED
  BY <1>1, <1>2

\* The repair budget bounds the attempts.
LEMMA HistoryBound ==
    ASSUME GenConstants, NEW q, ReqInv(q)
    PROVE  /\ Len(q.attempts) <= MaxRepairs + 2
           /\ Cardinality({i \in DOMAIN q.attempts : q.attempts[i].phase # "draft"})
                <= MaxRepairs + 1
<1> DEFINE a == q.attempts
           k == q.repairIndex
           S == {i \in DOMAIN a : a[i].phase # "draft"}
<1>1. /\ a \in Seq(Attempt) /\ Len(a) \in Nat /\ DOMAIN a = 1..Len(a)
      /\ k \in Nat /\ k <= MaxRepairs /\ MaxRepairs \in Nat
  BY DEF ReqInv, Request, GenConstants
<1>2. Len(a) <= k + 1 \/ (Len(a) = k + 2 /\ a[Len(a)].phase = "draft")
  BY DEF ReqInv, History
<1> HIDE DEF a, k
<1>3. S \subseteq 1..(k + 1)
  <2> SUFFICES ASSUME NEW i \in 1..Len(a), a[i].phase # "draft" PROVE i \in 1..(k + 1)
    BY <1>1
  <2>1. CASE Len(a) <= k + 1
    BY <1>1, <2>1
  <2>2. CASE Len(a) = k + 2 /\ a[Len(a)].phase = "draft"
    <3>1. i # Len(a)
      BY <2>2
    <3> QED
      BY <1>1, <2>2, <3>1
  <2> QED
    BY <1>2, <2>1, <2>2
<1>4. IsFiniteSet(1..(k + 1)) /\ Cardinality(1..(k + 1)) = k + 1
  BY <1>1, FS_Interval
<1>5. Cardinality(S) <= k + 1 /\ IsFiniteSet(S)
  BY <1>3, <1>4, FS_Subset
<1>6. Cardinality(S) \in Nat
  BY <1>5, FS_CardinalityType
<1> QED
  BY <1>1, <1>2, <1>5, <1>6 DEF a, k

-----------------------------------------------------------------------------
(* The theorems *)

\* For any requests and checks, the type invariant, RegisteredTruthful and
\* DraftsWereRejected: whatever becomes of the validator process, a registered model's status
\* is what the validator said of its contract, and a draft was refused admission
\* (runGeneration, insertModelFromGeneration, recordGeneratedArtifact).
THEOREM GenerationTruthful ==
    ASSUME GenConstants
    PROVE  GenSpec => [](GenTypeOK /\ RegisteredTruthful /\ DraftsWereRejected)
<1>1. GenInit => GenInv
  BY GenInvInit
<1>2. GenInv /\ [GenNext]_genVars => GenInv'
  BY GenInvStep
<1>3. GenInv => GenTypeOK /\ RegisteredTruthful /\ DraftsWereRejected
  BY DEF GenInv
<1> QED
  BY <1>1, <1>2, <1>3, PTL DEF GenSpec

\* The history of every request is within its budget.
LEMMA AttemptMeaning == GenConstants /\ GenInv => AttemptHistory
<1> SUFFICES ASSUME GenConstants, GenInv, NEW r \in Reqs
             PROVE  LET a == reqs[r].attempts IN
                    /\ Len(a) <= MaxRepairs + 2
                    /\ Cardinality({i \in DOMAIN a : a[i].phase # "draft"}) <= MaxRepairs + 1
                    /\ \A i \in DOMAIN a :
                          /\ (i = 1) <=> (a[i].phase = "synthesize")
                          /\ a[i].phase = "draft" \/ a[i].verdict = "admitted" => i = Len(a)
  BY DEF AttemptHistory
<1>1. ReqInv(reqs[r])
  BY DEF GenInv
<1>2. DOMAIN reqs[r].attempts = 1..Len(reqs[r].attempts)
  BY <1>1 DEF ReqInv, Request
<1>3. \A i \in 1..Len(reqs[r].attempts) :
         /\ (i = 1) <=> (reqs[r].attempts[i].phase = "synthesize")
         /\ reqs[r].attempts[i].phase = "draft" \/ reqs[r].attempts[i].verdict = "admitted"
              => i = Len(reqs[r].attempts)
  BY <1>1 DEF ReqInv, History
<1> QED
  BY <1>1, <1>2, <1>3, HistoryBound

\* AttemptHistory, for any repair budget: one synthesis, then repairs, the draft run at
\* most once and last, nothing after an admission (runGeneration).
THEOREM BoundedLoop ==
    ASSUME GenConstants
    PROVE  GenSpec => []AttemptHistory
<1>1. GenInit => GenInv
  BY GenInvInit
<1>2. GenInv /\ [GenNext]_genVars => GenInv'
  BY GenInvStep
<1>3. GenInv => AttemptHistory
  BY AttemptMeaning
<1> QED
  BY <1>1, <1>2, <1>3, PTL DEF GenSpec

\* OwnerNotLost, for every step: an anonymous generation of the same brief does not take
\* an artifact from its owner (the COALESCE of recordGeneratedArtifact).
THEOREM OwnerKept ==
    ASSUME GenConstants
    PROVE  GenSpec => [][OwnerNotLost]_genVars
<1>1. GenInit => GenInv
  BY GenInvInit
<1>2. GenInv /\ [GenNext]_genVars => GenInv'
  BY GenInvStep
<1>3. GenInv /\ [GenNext]_genVars => [OwnerNotLost]_genVars
  BY ArtifactsStep
<1> QED
  BY <1>1, <1>2, <1>3, PTL DEF GenSpec

-----------------------------------------------------------------------------
(* Job outputs: the rows of the model *)

Purpose == {"photoscan.processing", "training.reuse", "telemetry.sharing"}
BlobStatus == {"none", "staged", "foreign", "complete"}
JobRow ==
    [user : Owners, key : IdemKeys \cup {Missing}, kind : Kinds, provider : Executors,
     model : ModelIds \cup {Missing}, subject : BOOLEAN,
     status : {"queued", "succeeded", "cancelled"}]
PolicyRow == [owner : Owners, job : JobIds \cup {Missing}, delivery : JobIds,
              model : ModelIds \cup {Missing}]
Photoscan == [made : JobIds, job : JobIds \cup {Missing}, owner : Owners,
              blob : Owners \X Kinds \X BOOLEAN, reviewer : Owners \cup {Missing}]
Making == [phase : {"inserted", "replay"}, job : JobIds]
Writing == [phase : {"written"}, req : {r \in Requests : r.kind = "train.policy"}, saw : BlobStatus]
Inspecting == [phase : {"inspected"}, owner : Owners, matches : BOOLEAN]
Refreshing == [phase : {"refresh"}, left : Nat, done : Nat]
SlotState == {Idle} \cup Making \cup Writing \cup Inspecting \cup Refreshing

\* Requests of the declared type, a finite number of handlers, an absent value that is
\* none of the present ones.
OutputsConstants ==
    /\ Requests \subseteq RequestType
    /\ MaxJobs \in Nat /\ MaxOffers \in Nat
    /\ IsFiniteSet(Slots) /\ Uploaders \subseteq Owners
    /\ Missing \notin JobIds /\ Missing \notin JobRow /\ Missing \notin PolicyRow

-----------------------------------------------------------------------------
(* Job outputs: the inductive invariant *)

Shape ==
    /\ jobs \in [JobIds -> JobRow \cup {Missing}]
    /\ slot \in [Slots -> SlotState]
    /\ \A u \in Owners : granted[u] \subseteq Purposes[u]
    /\ DOMAIN granted = Owners
    /\ photoscans \subseteq Photoscan
    /\ policies \in [JobIds -> PolicyRow \cup {Missing}]
    /\ rows \in [JobIds -> Nat]
    /\ shared \subseteq Owners
    /\ blob \in [Owners -> BlobStatus]
    /\ stored \in [Owners -> {"absent", "policy", "altered"}]
    /\ offers \in Nat /\ counted \in Nat
    /\ served \subseteq Owners \X JobIds

\* A handler that is about to write the row of a job is the only one, and the row is
\* not there yet.
Makes(s) == slot[s].phase \in {"inserted", "replay"}
OneMaker ==
    /\ \A j \in JobIds : rows[j] <= 1
    /\ \A s \in Slots : Makes(s) => rows[slot[s].job] = 0
    /\ \A s, t \in Slots : Makes(s) /\ Makes(t) /\ slot[s].job = slot[t].job => s = t

\* A photoscan is made once for its job and names it, or none when the job is gone.
OneScan ==
    /\ \A p, q \in photoscans : p.made = q.made => p = q
    /\ \A p \in photoscans : p.job \in {p.made, Missing} /\ p.blob[1] = p.owner

\* The artifact of a policy stands on the row of its own object.
PoliciesBacked == \A j \in JobIds : policies[j] # Missing => OwnObject(policies[j].owner)

\* Work waiting for a worker names the subject its consent is about.
WaitingNamesSubject ==
    \A j \in JobIds : Exists(j) /\ jobs[j].status = "queued" /\ jobs[j].kind = "photoscan.single"
                      => jobs[j].subject

\* The offers that handlers in flight have inserted and no usage event counts yet.
Uncounted ==
    {x \in Slots \X (1..offers) : slot[x[1]].phase = "refresh" /\ x[2] <= slot[x[1]].done}
OffersCounted ==
    /\ \A s \in Slots : slot[s].phase = "refresh" => slot[s].done <= offers
    /\ counted + Cardinality(Uncounted) <= offers

OutputsInv ==
    /\ Shape
    /\ OneMaker
    /\ OneScan
    /\ ArtifactWithJob
    /\ PoliciesBacked
    /\ ServedToOwner
    /\ ConsentCarries
    /\ WaitingNamesSubject
    /\ OffersCounted

-----------------------------------------------------------------------------
(* Job outputs: rows and handlers *)

\* The row of a request has its shape, and names what the request names.
LEMMA RowShape ==
    ASSUME OutputsConstants, NEW r \in Requests, NEW st \in {"queued", "succeeded", "cancelled"}
    PROVE  /\ Row(r, st) \in JobRow /\ Row(r, st) # Missing
           /\ Row(r, st).user = r.user /\ Row(r, st).kind = r.kind
           /\ Row(r, st).subject = r.subject /\ Row(r, st).status = st
           /\ r.user \in Owners /\ r.model \in ModelIds \cup {Missing} /\ r.kind \in Kinds
           /\ r.subject \in BOOLEAN
<1>1. r \in RequestType
  BY DEF OutputsConstants
<1>2. Row(r, st) \in JobRow
  BY <1>1 DEF RequestType, Row, JobRow
<1>3. Row(r, st) # Missing
  BY <1>2 DEF OutputsConstants
<1> QED
  BY <1>1, <1>2, <1>3 DEF RequestType, Row

\* The step a handler is at says which fields it has.
LEMMA SlotShape ==
    ASSUME Shape, NEW s \in Slots
    PROVE  /\ slot[s].phase \in {"idle", "inserted", "replay", "written", "inspected", "refresh"}
           /\ Makes(s) => slot[s].job \in JobIds
           /\ slot[s].phase = "written" =>
                slot[s].req \in Requests /\ slot[s].req.kind = "train.policy"
           /\ slot[s].phase = "inspected" => slot[s].owner \in Owners
           /\ slot[s].phase = "refresh" => slot[s] \in Refreshing
           /\ slot[s].phase = "refresh" => slot[s].left \in Nat /\ slot[s].done \in Nat
           /\ slot[s] = Idle => slot[s].phase = "idle"
<1>1. \/ slot[s] = Idle \/ slot[s] \in Making \/ slot[s] \in Writing
      \/ slot[s] \in Inspecting \/ slot[s] \in Refreshing
  BY DEF Shape, SlotState
<1>2. CASE slot[s] = Idle
  BY <1>2 DEF Idle, Makes
<1>3. CASE slot[s] \in Making
  BY <1>3 DEF Making, Makes, Idle
<1>4. CASE slot[s] \in Writing
  BY <1>4 DEF Writing, Makes, Idle
<1>5. CASE slot[s] \in Refreshing
  BY <1>5 DEF Refreshing, Makes, Idle
<1>6. CASE slot[s] \in Inspecting
  BY <1>6 DEF Inspecting, Makes, Idle
<1> QED
  BY <1>1, <1>2, <1>3, <1>4, <1>5, <1>6

\* What a handler may be about to do.
LEMMA SlotStates ==
    Idle \in SlotState /\ Making \subseteq SlotState /\ Writing \subseteq SlotState
    /\ Inspecting \subseteq SlotState /\ Refreshing \subseteq SlotState
  BY DEF SlotState

\* A new job row, a handler's step: the shapes they keep.
LEMMA JobsShape ==
    ASSUME OutputsConstants, Shape, NEW r \in Requests, NEW j \in JobIds,
           NEW st \in {"queued", "succeeded", "cancelled"},
           jobs' = [jobs EXCEPT ![j] = Row(r, st)]
    PROVE  jobs' \in [JobIds -> JobRow \cup {Missing}]
<1>1. Row(r, st) \in JobRow
  BY RowShape
<1> QED
  BY <1>1 DEF Shape

LEMMA SlotsShape ==
    ASSUME Shape, NEW s \in Slots, NEW x \in SlotState,
           slot' = [slot EXCEPT ![s] = x]
    PROVE  /\ slot' \in [Slots -> SlotState]
           /\ slot'[s] = x /\ \A t \in Slots : t # s => slot'[t] = slot[t]
  BY DEF Shape

-----------------------------------------------------------------------------
(* Job outputs: the invariant, conjunct by conjunct *)

LEMMA ShapeStep ==
    ASSUME OutputsConstants, Shape, [OutNext]_outVars
    PROVE  Shape'
<1>1. CASE UNCHANGED outVars
  BY <1>1 DEF outVars, Shape
<1>2. ASSUME NEW r \in Requests, NEW j \in JobIds, CreateQueued(r, j) PROVE Shape'
  <2>1. jobs' \in [JobIds -> JobRow \cup {Missing}]
    BY <1>2, JobsShape DEF CreateQueued
  <2> QED
    BY <1>2, <2>1 DEF CreateQueued, rest, Shape
<1>3. ASSUME NEW r \in Requests, NEW j \in JobIds, CreatePhotoscan(r, j) PROVE Shape'
  <2>1. jobs' \in [JobIds -> JobRow \cup {Missing}]
    BY <1>3, JobsShape DEF CreatePhotoscan
  <2>2. [made |-> j, job |-> j, owner |-> r.user, blob |-> upsertArtifactBlob(r),
         reviewer |-> Missing] \in Photoscan
    BY RowShape DEF Photoscan, upsertArtifactBlob
  <2> QED
    BY <1>3, <2>1, <2>2 DEF CreatePhotoscan, rest, Shape
<1>4. ASSUME NEW s \in Slots, NEW r \in Requests, NEW j \in JobIds, InsertFixture(s, r, j)
      PROVE  Shape'
  <2>1. jobs' \in [JobIds -> JobRow \cup {Missing}]
    BY <1>4, JobsShape DEF InsertFixture
  <2>2. [phase |-> "inserted", job |-> j] \in Making /\ [phase |-> "replay", job |-> j] \in Making
    BY DEF Making
  <2>3. slot' \in [Slots -> SlotState]
    BY <1>4, <2>2, SlotsShape, SlotStates DEF InsertFixture
  <2> QED
    BY <1>4, <2>1, <2>3 DEF InsertFixture, rest, Shape
<1>5. ASSUME NEW s \in Slots, NEW r \in Requests, WritePolicyObject(s, r) PROVE Shape'
  <2>1. r.user \in Owners /\ r.kind = "train.policy"
    BY <1>5, RowShape DEF WritePolicyObject
  <2>2. [phase |-> "written", req |-> r, saw |-> blob[r.user]] \in Writing
    BY <2>1 DEF Writing, Shape
  <2>3. slot' \in [Slots -> SlotState]
    BY <1>5, <2>2, SlotsShape, SlotStates DEF WritePolicyObject
  <2> QED
    BY <1>5, <2>1, <2>3 DEF WritePolicyObject, rest, Shape
<1>6. ASSUME NEW s \in Slots, NEW j \in JobIds, CommitPolicy(s, j) PROVE Shape'
  <2> DEFINE r == slot[s].req
  <2>1. r \in Requests
    BY <1>6, SlotShape DEF CommitPolicy
  <2>2. r.user \in Owners /\ r.model \in ModelIds \cup {Missing}
    BY <2>1, RowShape
  <2>3. jobs' \in [JobIds -> JobRow \cup {Missing}]
    BY <1>6, <2>1, JobsShape DEF CommitPolicy
  <2>4. /\ policies' = [policies EXCEPT ![j] =
              [owner |-> r.user, job |-> j, delivery |-> j, model |-> r.model]]
        /\ blob' = [blob EXCEPT ![r.user] = "complete"] /\ slot' = [slot EXCEPT ![s] = Idle]
        /\ UNCHANGED <<granted, photoscans, rows, stored, shared, offers, counted, served>>
    BY <1>6 DEF CommitPolicy, upsertCompletedPolicyBlob, rest
  <2>5. slot' \in [Slots -> SlotState]
    BY <2>4, SlotsShape, SlotStates
  <2> HIDE DEF r
  <2>6. [owner |-> r.user, job |-> j, delivery |-> j, model |-> r.model] \in PolicyRow
    BY <2>2 DEF PolicyRow
  <2>7. policies' \in [JobIds -> PolicyRow \cup {Missing}]
    BY <2>4, <2>6 DEF Shape
  <2>8. blob' \in [Owners -> BlobStatus]
    BY <2>2, <2>4 DEF Shape, BlobStatus
  <2> QED
    BY <2>3, <2>4, <2>5, <2>7, <2>8 DEF Shape
<1>7. ASSUME NEW s \in Slots, MaterializeRow(s) \/ InsertReplayArtifact(s) PROVE Shape'
  <2>1. slot[s].job \in JobIds
    BY <1>7, SlotShape DEF Makes, MaterializeRow, InsertReplayArtifact
  <2>2. rows' \in [JobIds -> Nat]
    BY <1>7, <2>1 DEF MaterializeRow, InsertReplayArtifact, Shape
  <2>3. slot' \in [Slots -> SlotState]
    BY <1>7, SlotsShape, SlotStates DEF MaterializeRow, InsertReplayArtifact
  <2> QED
    BY <1>7, <2>2, <2>3 DEF MaterializeRow, InsertReplayArtifact, rest, Shape
<1>8. ASSUME NEW s \in Slots, AbortPolicy(s) \/ RefuseVendorOffer(s) PROVE Shape'
  <2>1. slot' \in [Slots -> SlotState]
    BY <1>8, SlotsShape, SlotStates DEF AbortPolicy, RefuseVendorOffer
  <2> QED
    BY <1>8, <2>1 DEF AbortPolicy, RefuseVendorOffer, rest, Shape
<1>9. ASSUME NEW s \in Slots, InsertVendorOffer(s) PROVE Shape'
  <2> DEFINE x == [slot[s] EXCEPT !.left = slot[s].left - 1, !.done = slot[s].done + 1]
  <2>1. slot[s] \in Refreshing /\ slot[s].left - 1 \in Nat /\ slot[s].done + 1 \in Nat
    BY <1>9, SlotShape DEF InsertVendorOffer
  <2>2. x \in Refreshing
    BY <2>1 DEF Refreshing
  <2>3. slot' = [slot EXCEPT ![s] = x]
    BY <1>9 DEF InsertVendorOffer, Shape
  <2> HIDE DEF x
  <2>4. slot' \in [Slots -> SlotState]
    BY <2>2, <2>3, SlotsShape, SlotStates
  <2> QED
    BY <1>9, <2>4 DEF InsertVendorOffer, Shape
<1>10. ASSUME NEW s \in Slots, RecordRefreshUsage(s) PROVE Shape'
  <2>1. slot[s].done \in Nat
    BY <1>10, SlotShape DEF RecordRefreshUsage
  <2>2. slot' \in [Slots -> SlotState]
    BY <1>10, SlotsShape, SlotStates DEF RecordRefreshUsage
  <2> QED
    BY <1>10, <2>1, <2>2 DEF RecordRefreshUsage, Shape
<1>11. ASSUME NEW s \in Slots, NEW n \in 1..MaxOffers, BeginRefresh(s, n) PROVE Shape'
  <2>1. [phase |-> "refresh", left |-> n, done |-> 0] \in Refreshing
    BY DEF Refreshing, OutputsConstants
  <2>2. slot' \in [Slots -> SlotState]
    BY <1>11, <2>1, SlotsShape, SlotStates DEF BeginRefresh
  <2> QED
    BY <1>11, <2>2 DEF BeginRefresh, rest, Shape
<1>12. CASE Crash
  BY <1>12, SlotStates DEF Crash, rest, Shape
<1>13. ASSUME NEW u \in Owners, NEW p \in Purposes[u], GrantPurpose(u, p) PROVE Shape'
  BY <1>13 DEF GrantPurpose, rest, Shape
<1>14. ASSUME NEW u \in Owners, NEW p \in Purposes[u], WithdrawPurpose(u, p) PROVE Shape'
  <2>1. \A j \in JobIds : jobs[j] # Missing =>
           jobs[j] \in JobRow /\ [jobs[j] EXCEPT !.status = "cancelled"] \in JobRow
    BY DEF Shape, JobRow
  <2>2. jobs' \in [JobIds -> JobRow \cup {Missing}]
    BY <1>14, <2>1 DEF WithdrawPurpose, applyWithdrawal, Exists
  <2>3. shared' \subseteq Owners
    BY <1>14 DEF WithdrawPurpose, applyWithdrawal, Shape
  <2> QED
    BY <1>14, <2>2, <2>3 DEF WithdrawPurpose, Shape
<1>15. ASSUME NEW u \in Owners, ShareTelemetryLog(u) PROVE Shape'
  BY <1>15 DEF ShareTelemetryLog, Shape
<1>16. ASSUME NEW u \in Owners, NEW p \in photoscans, updatePhotoscanAlignment(u, p) PROVE Shape'
  <2>1. [p EXCEPT !.reviewer = u] \in Photoscan
    BY DEF Shape, Photoscan
  <2> QED
    BY <1>16, <2>1 DEF updatePhotoscanAlignment, rest, Shape
<1>17. ASSUME NEW u \in Owners, NEW how \in {"staged", "foreign"}, RegisterBlob(u, how) PROVE Shape'
  BY <1>17 DEF RegisterBlob, rest, Shape, BlobStatus
<1>18. ASSUME NEW u \in Owners, PutThroughUrl(u) \/ DeletionRollsBack(u) PROVE Shape'
  <2>1. stored' \in [Owners -> {"absent", "policy", "altered"}]
    BY <1>18 DEF PutThroughUrl, DeletionRollsBack, Shape
  <2> QED
    BY <1>18, <2>1 DEF PutThroughUrl, DeletionRollsBack, rest, Shape
<1>19. ASSUME NEW s \in Slots, NEW u \in Owners, inspectStoredObject(s, u) PROVE Shape'
  <2>1. [phase |-> "inspected", owner |-> u, matches |-> stored[u] = "policy"] \in Inspecting
    BY DEF Inspecting
  <2>2. slot' \in [Slots -> SlotState]
    BY <1>19, <2>1, SlotsShape, SlotStates DEF inspectStoredObject
  <2> QED
    BY <1>19, <2>2 DEF inspectStoredObject, rest, Shape
<1>20. ASSUME NEW s \in Slots, completeObjectBlobUpload(s) PROVE Shape'
  <2>1. slot' \in [Slots -> SlotState]
    BY <1>20, SlotsShape, SlotStates DEF completeObjectBlobUpload
  <2>2. blob' \in [Owners -> BlobStatus]
    BY <1>20, SlotShape DEF completeObjectBlobUpload, Shape, BlobStatus
  <2> QED
    BY <1>20, <2>1, <2>2 DEF completeObjectBlobUpload, rest, Shape
<1>21. ASSUME NEW j \in JobIds, RetireJob(j) PROVE Shape'
  <2>1. \A p \in photoscans : [p EXCEPT !.job = Missing] \in Photoscan
    BY DEF Shape, Photoscan
  <2>2. policies[j] # Missing => [policies[j] EXCEPT !.job = Missing] \in PolicyRow
    BY DEF Shape, PolicyRow
  <2>3. policies' \in [JobIds -> PolicyRow \cup {Missing}]
    BY <1>21, <2>2 DEF RetireJob, Shape
  <2>4. photoscans' \subseteq Photoscan
    BY <1>21, <2>1 DEF RetireJob, Shape
  <2> QED
    BY <1>21, <2>3, <2>4 DEF RetireJob, rest, Shape
<1>22. ASSUME NEW u \in Owners, NEW p \in JobIds, DownloadPolicyModel(u, p) PROVE Shape'
  BY <1>22 DEF DownloadPolicyModel, Shape
<1> QED
  BY <1>1, <1>2, <1>3, <1>4, <1>5, <1>6, <1>7, <1>8, <1>9, <1>10, <1>11, <1>12, <1>13, <1>14,
     <1>15, <1>16, <1>17, <1>21, <1>22, <1>18, <1>19, <1>20 DEF OutNext, OutputsConstants

\* A handler that does not go on to make a row leaves the makers as they were.
LEMMA MakerFrame ==
    ASSUME Shape, OneMaker, rows' = rows, NEW s \in Slots,
           NEW x \in SlotState,
           x.phase \notin {"inserted", "replay"}, slot' = [slot EXCEPT ![s] = x]
    PROVE  OneMaker'
<1>1. slot'[s] = x /\ \A t \in Slots : t # s => slot'[t] = slot[t]
  BY SlotsShape, SlotStates
<1> QED
  BY <1>1 DEF OneMaker, Makes

LEMMA MakerStep ==
    ASSUME OutputsConstants, Shape, OneMaker, [OutNext]_outVars
    PROVE  OneMaker'
<1>1. CASE UNCHANGED <<slot, rows>>
  BY <1>1 DEF OneMaker, Makes
<1>2. ASSUME NEW s \in Slots, NEW r \in Requests, NEW j \in JobIds, InsertFixture(s, r, j)
      PROVE  OneMaker'
  <2>1. /\ rows' = rows /\ rows[j] = 0
        /\ \A t \in Slots : Makes(t) => slot[t].job # j
    BY <1>2 DEF InsertFixture, NewId, Makes
  <2>2. PICK x \in {Idle, [phase |-> "inserted", job |-> j], [phase |-> "replay", job |-> j]} :
           slot' = [slot EXCEPT ![s] = x]
    BY <1>2 DEF InsertFixture
  <2>3. x \in SlotState
    BY SlotStates DEF Making
  <2>4. slot'[s] = x /\ \A t \in Slots : t # s => slot'[t] = slot[t]
    BY <2>2, <2>3, SlotsShape, SlotStates
  <2>5. x.phase \in {"inserted", "replay"} => x.job = j
    BY DEF Idle
  <2> QED
    BY <2>1, <2>4, <2>5 DEF OneMaker, Makes
<1>3. ASSUME NEW s \in Slots, MaterializeRow(s) \/ InsertReplayArtifact(s) PROVE OneMaker'
  <2> DEFINE j == slot[s].job
  <2>1. j \in JobIds /\ Makes(s)
    BY <1>3, SlotShape DEF Makes, MaterializeRow, InsertReplayArtifact
  <2>2. /\ rows' = [rows EXCEPT ![j] = @ + 1] /\ slot' = [slot EXCEPT ![s] = Idle]
    BY <1>3 DEF MaterializeRow, InsertReplayArtifact
  <2>3. slot'[s] = Idle /\ \A t \in Slots : t # s => slot'[t] = slot[t]
    BY <2>2, SlotsShape, SlotStates
  <2>4. rows'[j] = 1 /\ \A k \in JobIds : k # j => rows'[k] = rows[k]
    BY <2>1, <2>2 DEF OneMaker, Shape
  <2>5. \A t \in Slots : t # s /\ Makes(t) => slot[t].job # j /\ slot[t].job \in JobIds
    BY <2>1, SlotShape DEF OneMaker
  <2> HIDE DEF j
  <2> QED
    BY <2>1, <2>3, <2>4, <2>5 DEF OneMaker, Makes, Idle
<1>4. ASSUME NEW s \in Slots, NEW r \in Requests, WritePolicyObject(s, r) PROVE OneMaker'
  <2>1. r.user \in Owners /\ r.kind = "train.policy"
    BY <1>4, RowShape DEF WritePolicyObject
  <2>2. [phase |-> "written", req |-> r, saw |-> blob[r.user]] \in Writing
    BY <2>1 DEF Writing, Shape
  <2> QED
    BY <1>4, <2>2, MakerFrame, SlotStates DEF WritePolicyObject
<1>5. ASSUME NEW s \in Slots, slot' = [slot EXCEPT ![s] = Idle], rows' = rows PROVE OneMaker'
  BY <1>5, MakerFrame, SlotStates DEF Idle
<1>6. ASSUME NEW s \in Slots, InsertVendorOffer(s) PROVE OneMaker'
  <2> DEFINE x == [slot[s] EXCEPT !.left = slot[s].left - 1, !.done = slot[s].done + 1]
  <2>1. slot[s] \in Refreshing /\ slot[s].left - 1 \in Nat /\ slot[s].done + 1 \in Nat
    BY <1>6, SlotShape DEF InsertVendorOffer
  <2>2. x \in Refreshing /\ x.phase = "refresh"
    BY <2>1 DEF Refreshing
  <2>3. slot' = [slot EXCEPT ![s] = x] /\ rows' = rows
    BY <1>6 DEF InsertVendorOffer, Shape
  <2> HIDE DEF x
  <2> QED
    BY <2>2, <2>3, MakerFrame, SlotStates
<1>7. ASSUME NEW s \in Slots, NEW n \in 1..MaxOffers, BeginRefresh(s, n) PROVE OneMaker'
  <2>1. [phase |-> "refresh", left |-> n, done |-> 0] \in Refreshing
    BY DEF Refreshing, OutputsConstants
  <2> QED
    BY <1>7, <2>1, MakerFrame, SlotStates DEF BeginRefresh
<1>8. CASE Crash
  BY <1>8 DEF Crash, OneMaker, Makes, Idle
<1>9. ASSUME NEW s \in Slots, NEW j \in JobIds, CommitPolicy(s, j) PROVE OneMaker'
  BY <1>5, <1>9 DEF CommitPolicy
<1>10. ASSUME NEW s \in Slots, AbortPolicy(s) \/ RefuseVendorOffer(s) \/ RecordRefreshUsage(s)
       PROVE  OneMaker'
  BY <1>5, <1>10 DEF AbortPolicy, RefuseVendorOffer, RecordRefreshUsage
<1>11. CASE UNCHANGED outVars
  BY <1>1, <1>11 DEF outVars
<1>12. ASSUME NEW s \in Slots, NEW u \in Owners, inspectStoredObject(s, u) PROVE OneMaker'
  <2>1. [phase |-> "inspected", owner |-> u, matches |-> stored[u] = "policy"] \in Inspecting
    BY DEF Inspecting
  <2> QED
    BY <1>12, <2>1, MakerFrame, SlotStates DEF inspectStoredObject
<1>13. ASSUME NEW s \in Slots, completeObjectBlobUpload(s) PROVE OneMaker'
  BY <1>5, <1>13 DEF completeObjectBlobUpload
<1>14. ASSUME NEW u \in Owners, \/ \E how \in {"staged", "foreign"} : RegisterBlob(u, how)
                                \/ PutThroughUrl(u) \/ DeletionRollsBack(u)
       PROVE  OneMaker'
  BY <1>1, <1>14 DEF RegisterBlob, PutThroughUrl, DeletionRollsBack
<1>15. CASE OutNext
  BY <1>1, <1>2, <1>3, <1>4, <1>6, <1>7, <1>8, <1>9, <1>10, <1>15, <1>12, <1>13, <1>14
     DEF OutNext, CreateQueued, CreatePhotoscan, GrantPurpose, WithdrawPurpose, ShareTelemetryLog,
         updatePhotoscanAlignment, RetireJob, DownloadPolicyModel, OutputsConstants
<1> QED
  BY <1>11, <1>15

LEMMA ScanStep ==
    ASSUME OutputsConstants, Shape, OneScan, [OutNext]_outVars
    PROVE  OneScan'
<1>1. CASE UNCHANGED photoscans
  BY <1>1 DEF OneScan
<1>2. ASSUME NEW r \in Requests, NEW j \in JobIds, CreatePhotoscan(r, j) PROVE OneScan'
  <2> DEFINE n == [made |-> j, job |-> j, owner |-> r.user, blob |-> upsertArtifactBlob(r),
                   reviewer |-> Missing]
  <2>1. photoscans' = photoscans \cup {n} /\ \A p \in photoscans : p.made # j
    BY <1>2 DEF CreatePhotoscan, NewId
  <2>2. n.made = j /\ n.job = j /\ n.blob[1] = n.owner
    BY DEF upsertArtifactBlob
  <2> HIDE DEF n
  <2> QED
    BY <2>1, <2>2 DEF OneScan
<1>3. ASSUME NEW u \in Owners, NEW p \in photoscans, updatePhotoscanAlignment(u, p) PROVE OneScan'
  <2> DEFINE n == [p EXCEPT !.reviewer = u]
  <2>1. photoscans' = (photoscans \ {p}) \cup {n}
    BY <1>3 DEF updatePhotoscanAlignment
  <2>2. p \in Photoscan
    BY DEF Shape
  <2>3. n.made = p.made /\ n.job = p.job /\ n.blob = p.blob /\ n.owner = p.owner
    BY <2>2 DEF Photoscan
  <2> HIDE DEF n
  <2> QED
    BY <2>1, <2>3 DEF OneScan
<1>4. ASSUME NEW j \in JobIds, RetireJob(j) PROVE OneScan'
  <2> DEFINE f(p) == IF p.made = j THEN [p EXCEPT !.job = Missing] ELSE p
  <2>1. photoscans' = {f(p) : p \in photoscans}
    BY <1>4 DEF RetireJob
  <2>2. \A p \in photoscans : /\ f(p).made = p.made /\ f(p).job \in {p.job, Missing}
                              /\ f(p).blob = p.blob /\ f(p).owner = p.owner
    BY DEF Shape, Photoscan
  <2> HIDE DEF f
  <2> QED
    BY <2>1, <2>2 DEF OneScan
<1>5. CASE UNCHANGED outVars
  BY <1>1, <1>5 DEF outVars
<1>6. CASE OutNext
  BY <1>1, <1>2, <1>3, <1>4, <1>6
     DEF OutNext, CreateQueued, InsertFixture, WritePolicyObject, CommitPolicy, MaterializeRow,
         InsertReplayArtifact, AbortPolicy, InsertVendorOffer, RefuseVendorOffer,
         RecordRefreshUsage, BeginRefresh, Crash, GrantPurpose, WithdrawPurpose,
         ShareTelemetryLog, RegisterBlob, PutThroughUrl,
         inspectStoredObject, completeObjectBlobUpload, DeletionRollsBack, DownloadPolicyModel
<1> QED
  BY <1>5, <1>6

\* A succeeded job keeps its artifact, and its artifact its job, until it is retired.
LEMMA ArtifactStep ==
    ASSUME OutputsConstants, Shape, OneScan, ArtifactWithJob, [OutNext]_outVars
    PROVE  ArtifactWithJob'
<1>1. CASE UNCHANGED <<jobs, policies, photoscans>>
  BY <1>1 DEF ArtifactWithJob, Exists
<1>2. ASSUME NEW r \in Requests, NEW j \in JobIds, NEW st \in {"queued", "succeeded"},
             jobs' = [jobs EXCEPT ![j] = Row(r, st)],
             \A i \in JobIds : policies[i] # Missing => policies'[i] # Missing,
             photoscans \subseteq photoscans',
             st = "succeeded" /\ r.kind = "train.policy" => policies'[j] # Missing,
             st = "succeeded" /\ r.kind = "photoscan.single" => \E p \in photoscans' : p.job = j
      PROVE  ArtifactWithJob'
  <2>1. /\ Row(r, st) # Missing /\ Row(r, st).kind = r.kind /\ Row(r, st).status = st
    BY RowShape
  <2>2. jobs'[j] = Row(r, st) /\ \A i \in JobIds : i # j => jobs'[i] = jobs[i]
    BY <1>2 DEF Shape
  <2> SUFFICES ASSUME NEW i \in JobIds, jobs'[i] # Missing, jobs'[i].status = "succeeded"
               PROVE  /\ jobs'[i].kind = "train.policy" => policies'[i] # Missing
                      /\ jobs'[i].kind = "photoscan.single" => \E p \in photoscans' : p.job = i
    BY DEF ArtifactWithJob, Exists
  <2>3. CASE i = j
    BY <1>2, <2>1, <2>2, <2>3
  <2>4. CASE i # j
    BY <1>2, <2>2, <2>4 DEF ArtifactWithJob, Exists
  <2> QED
    BY <2>3, <2>4
<1>3. ASSUME NEW r \in Requests, NEW j \in JobIds, CreateQueued(r, j) PROVE ArtifactWithJob'
  BY <1>2, <1>3 DEF CreateQueued
<1>4. ASSUME NEW r \in Requests, NEW j \in JobIds, CreatePhotoscan(r, j) PROVE ArtifactWithJob'
  <2> DEFINE n == [made |-> j, job |-> j, owner |-> r.user, blob |-> upsertArtifactBlob(r),
                   reviewer |-> Missing]
  <2>1. /\ photoscans' = photoscans \cup {n} /\ n.job = j /\ r.kind = "photoscan.single"
        /\ jobs' = [jobs EXCEPT ![j] = Row(r, "succeeded")] /\ policies' = policies
    BY <1>4 DEF CreatePhotoscan
  <2> HIDE DEF n
  <2>2. \E p \in photoscans' : p.job = j
    BY <2>1
  <2> QED
    BY <1>2, <2>1, <2>2
<1>5. ASSUME NEW s \in Slots, NEW r \in Requests, NEW j \in JobIds, InsertFixture(s, r, j)
      PROVE  ArtifactWithJob'
  BY <1>2, <1>5 DEF InsertFixture
<1>6. ASSUME NEW s \in Slots, NEW j \in JobIds, CommitPolicy(s, j) PROVE ArtifactWithJob'
  <2> DEFINE r == slot[s].req
  <2> DEFINE n == [owner |-> r.user, job |-> j, delivery |-> j, model |-> r.model]
  <2>1. r \in Requests
    BY <1>6, SlotShape DEF CommitPolicy
  <2>2. /\ policies' = [policies EXCEPT ![j] = n] /\ photoscans' = photoscans
        /\ jobs' = [jobs EXCEPT ![j] = Row(r, "succeeded")]
        /\ slot[s].phase = "written"
    BY <1>6 DEF CommitPolicy
  <2>3. r.user \in Owners /\ r.model \in ModelIds \cup {Missing}
    BY <2>1, RowShape
  <2> HIDE DEF r
  <2>4. n \in PolicyRow
    BY <2>3 DEF PolicyRow
  <2>5. n # Missing
    BY <2>4 DEF OutputsConstants
  <2>6. policies'[j] # Missing /\ \A i \in JobIds : policies[i] # Missing => policies'[i] # Missing
    BY <2>2, <2>5 DEF Shape
  <2>7. r.kind # "photoscan.single"
    BY <2>2, SlotShape DEF r
  <2> QED
    BY <1>2, <2>1, <2>2, <2>6, <2>7
<1>7. ASSUME NEW u \in Owners, NEW p \in Purposes[u], WithdrawPurpose(u, p) PROVE ArtifactWithJob'
  <2>1. \A j \in JobIds : \/ jobs'[j] = jobs[j]
                          \/ jobs[j] # Missing /\ jobs'[j] = [jobs[j] EXCEPT !.status = "cancelled"]
    BY <1>7 DEF WithdrawPurpose, applyWithdrawal, Exists
  <2>2. \A j \in JobIds : \/ jobs'[j] = jobs[j]
                          \/ jobs'[j].status = "cancelled"
    BY <2>1 DEF Shape, JobRow
  <2>3. UNCHANGED <<policies, photoscans>>
    BY <1>7 DEF WithdrawPurpose
  <2> QED
    BY <2>2, <2>3 DEF ArtifactWithJob, Exists
<1>8. ASSUME NEW u \in Owners, NEW p \in photoscans, updatePhotoscanAlignment(u, p)
      PROVE  ArtifactWithJob'
  <2> DEFINE n == [p EXCEPT !.reviewer = u]
  <2>1. /\ photoscans' = (photoscans \ {p}) \cup {n} /\ UNCHANGED <<jobs, policies>>
    BY <1>8 DEF updatePhotoscanAlignment
  <2>2. n.job = p.job
    BY DEF Shape, Photoscan
  <2> HIDE DEF n
  <2>3. \A j : (\E q \in photoscans : q.job = j) => \E q \in photoscans' : q.job = j
    BY <2>1, <2>2
  <2> QED
    BY <2>1, <2>3 DEF ArtifactWithJob, Exists
<1>9. ASSUME NEW j \in JobIds, RetireJob(j) PROVE ArtifactWithJob'
  <2> DEFINE f(p) == IF p.made = j THEN [p EXCEPT !.job = Missing] ELSE p
  <2>1. /\ photoscans' = {f(p) : p \in photoscans}
        /\ jobs' = [jobs EXCEPT ![j] = Missing]
        /\ policies' = [policies EXCEPT ![j] =
                          IF @ # Missing THEN [@ EXCEPT !.job = Missing] ELSE @]
    BY <1>9 DEF RetireJob
  <2>2. ASSUME NEW i \in JobIds, i # j, NEW p \in photoscans, p.job = i
        PROVE  \E q \in photoscans' : q.job = i
    <3>1. p.made # j
      BY <2>2 DEF OneScan, OutputsConstants
    <3>2. f(p) = p /\ f(p) \in photoscans'
      BY <2>1, <3>1
    <3> QED
      BY <2>2, <3>2
  <2>3. \A i \in JobIds : i # j => policies'[i] = policies[i] /\ jobs'[i] = jobs[i]
    BY <2>1 DEF Shape
  <2>4. jobs'[j] = Missing
    BY <2>1 DEF Shape
  <2> QED
    BY <2>2, <2>3, <2>4 DEF ArtifactWithJob, Exists
<1>10. CASE UNCHANGED outVars
  BY <1>1, <1>10 DEF outVars
<1>11. CASE OutNext
  BY <1>1, <1>3, <1>4, <1>5, <1>6, <1>7, <1>8, <1>9, <1>11
     DEF OutNext, WritePolicyObject, MaterializeRow, InsertReplayArtifact, AbortPolicy,
         InsertVendorOffer, RefuseVendorOffer, RecordRefreshUsage, BeginRefresh, Crash,
         GrantPurpose, ShareTelemetryLog, RegisterBlob, PutThroughUrl,
         inspectStoredObject, completeObjectBlobUpload, DeletionRollsBack, DownloadPolicyModel
<1> QED
  BY <1>10, <1>11

\* What a step must keep of the policies, the blobs and the storage.
LEMMA BackedFrame ==
    ASSUME Shape, PoliciesBacked, ServedToOwner,
           \A j \in JobIds : policies[j] # Missing =>
              policies'[j] # Missing /\ policies'[j].owner = policies[j].owner,
           \A j \in JobIds : policies'[j] # Missing /\ policies[j] = Missing =>
              blob'[policies'[j].owner] \in {"staged", "complete"},
           \A u \in Owners : OwnObject(u) => OwnObject(u)',
           \A d \in served' : d \in served \/
              (d \in Owners \X JobIds /\ policies[d[2]] # Missing /\ policies[d[2]].owner = d[1])
    PROVE  PoliciesBacked' /\ ServedToOwner'
<1>1. \A j \in JobIds : policies[j] # Missing => policies[j].owner \in Owners
  BY DEF Shape, PolicyRow
<1>2. PoliciesBacked'
  BY <1>1 DEF PoliciesBacked, OwnObject
<1>3. ServedToOwner'
  BY DEF ServedToOwner, Shape
<1> QED
  BY <1>2, <1>3

LEMMA BackedStep ==
    ASSUME OutputsConstants, Shape, PoliciesBacked, ServedToOwner, [OutNext]_outVars
    PROVE  PoliciesBacked' /\ ServedToOwner'
<1>1. ASSUME UNCHANGED <<policies, blob, served>> PROVE PoliciesBacked' /\ ServedToOwner'
  BY <1>1, BackedFrame DEF OwnObject
<1>2. ASSUME NEW s \in Slots, NEW j \in JobIds, CommitPolicy(s, j)
      PROVE  PoliciesBacked' /\ ServedToOwner'
  <2> DEFINE r == slot[s].req
  <2> DEFINE n == [owner |-> r.user, job |-> j, delivery |-> j, model |-> r.model]
  <2>1. r \in Requests
    BY <1>2, SlotShape DEF CommitPolicy
  <2>2. /\ policies' = [policies EXCEPT ![j] = n] /\ policies[j] = Missing
        /\ blob' = [blob EXCEPT ![r.user] = "complete"] /\ UNCHANGED served
    BY <1>2 DEF CommitPolicy, NewId, upsertCompletedPolicyBlob, rest
  <2>3. r.user \in Owners
    BY <2>1, RowShape
  <2> HIDE DEF r
  <2>4. n.owner = r.user
    OBVIOUS
  <2> HIDE DEF n
  <2>5. policies'[j] = n /\ \A i \in JobIds : i # j => policies'[i] = policies[i]
    BY <2>2 DEF Shape
  <2>6. blob'[r.user] = "complete" /\ \A u \in Owners : u # r.user => blob'[u] = blob[u]
    BY <2>2, <2>3 DEF Shape
  <2> QED
    BY <2>2, <2>4, <2>5, <2>6, BackedFrame DEF OwnObject
<1>3. ASSUME NEW u \in Owners, NEW how \in {"staged", "foreign"}, RegisterBlob(u, how)
      PROVE  PoliciesBacked' /\ ServedToOwner'
  <2>1. \A v \in Owners : OwnObject(v) => OwnObject(v)'
    BY <1>3 DEF RegisterBlob, OwnObject, Shape
  <2> QED
    BY <1>3, <2>1, BackedFrame DEF RegisterBlob, rest
<1>4. ASSUME NEW s \in Slots, completeObjectBlobUpload(s) PROVE PoliciesBacked' /\ ServedToOwner'
  <2>1. \A v \in Owners : OwnObject(v) => OwnObject(v)'
    BY <1>4 DEF completeObjectBlobUpload, OwnObject, Shape
  <2> QED
    BY <1>4, <2>1, BackedFrame DEF completeObjectBlobUpload, rest
<1>5. ASSUME NEW j \in JobIds, RetireJob(j) PROVE PoliciesBacked' /\ ServedToOwner'
  <2>1. policies[j] # Missing => /\ [policies[j] EXCEPT !.job = Missing].owner = policies[j].owner
                              /\ [policies[j] EXCEPT !.job = Missing] \in PolicyRow
    BY DEF Shape, PolicyRow
  <2>2. policies[j] # Missing => [policies[j] EXCEPT !.job = Missing] # Missing
    BY <2>1 DEF OutputsConstants
  <2>3. \A i \in JobIds : /\ policies[i] # Missing =>
                               policies'[i] # Missing /\ policies'[i].owner = policies[i].owner
                          /\ policies[i] = Missing => policies'[i] = Missing
    BY <1>5, <2>1, <2>2 DEF RetireJob, Shape
  <2> QED
    BY <1>5, <2>3, BackedFrame DEF RetireJob, OwnObject, rest
<1>6. ASSUME NEW u \in Owners, NEW p \in JobIds, DownloadPolicyModel(u, p)
      PROVE  PoliciesBacked' /\ ServedToOwner'
  BY <1>6, BackedFrame DEF DownloadPolicyModel, Deliverable, OwnObject
<1>7. CASE UNCHANGED outVars
  BY <1>1, <1>7 DEF outVars
<1>8. CASE OutNext
  BY <1>1, <1>2, <1>3, <1>4, <1>5, <1>6, <1>8
     DEF OutNext, CreateQueued, CreatePhotoscan, InsertFixture, WritePolicyObject,
         MaterializeRow, InsertReplayArtifact, AbortPolicy, InsertVendorOffer,
         RefuseVendorOffer, RecordRefreshUsage, BeginRefresh, Crash, GrantPurpose,
         WithdrawPurpose, ShareTelemetryLog, updatePhotoscanAlignment, PutThroughUrl,
         inspectStoredObject, DeletionRollsBack, OutputsConstants, rest
<1> QED
  BY <1>7, <1>8

\* Waiting work needs the same consents as the request it was made from.
LEMMA PurposeStep ==
    ASSUME OutputsConstants, Shape, ConsentCarries, WaitingNamesSubject, [OutNext]_outVars
    PROVE  ConsentCarries' /\ WaitingNamesSubject'
<1> DEFINE Carried(row, g) ==
             row # Missing /\ row.status = "queued" =>
               /\ telemetryLogIdsFromPayload(row) \subseteq g[row.user]
               /\ row.kind = "photoscan.single" => row.subject
<1>1. \A j \in JobIds : Carried(jobs[j], granted)
  BY DEF ConsentCarries, WaitingNamesSubject, Exists
<1>2. ASSUME \A j \in JobIds : Carried(jobs'[j], granted'),
             \A u \in shared' : "telemetry.sharing" \in granted'[u]
      PROVE  ConsentCarries' /\ WaitingNamesSubject'
  BY <1>2 DEF ConsentCarries, WaitingNamesSubject, Exists, telemetryLogIdsFromPayload
<1>3. ASSUME UNCHANGED <<shared, granted>>, NEW r \in Requests, NEW j \in JobIds,
             jobs' = [jobs EXCEPT ![j] = Row(r, "succeeded")]
      PROVE  ConsentCarries' /\ WaitingNamesSubject'
  <2>1. Row(r, "succeeded").status = "succeeded"
    BY RowShape
  <2>2. \A i \in JobIds : Carried(jobs'[i], granted')
    BY <1>1, <1>3, <2>1 DEF Shape
  <2> QED
    BY <1>2, <1>3, <2>2 DEF ConsentCarries
<1>4. ASSUME UNCHANGED <<jobs, shared, granted>> PROVE ConsentCarries' /\ WaitingNamesSubject'
  BY <1>1, <1>2, <1>4 DEF ConsentCarries
<1>5. ASSUME NEW r \in Requests, NEW j \in JobIds, CreateQueued(r, j)
      PROVE  ConsentCarries' /\ WaitingNamesSubject'
  <2> DEFINE row == Row(r, "queued")
  <2>1. /\ row.user = r.user /\ row.kind = r.kind /\ row.subject = r.subject
    BY RowShape
  <2>2. /\ jobs' = [jobs EXCEPT ![j] = row] /\ UNCHANGED <<granted, shared>>
        /\ telemetryLogIdsFromPayload(r) \subseteq granted[r.user]
        /\ r.kind = "photoscan.single" => r.subject
    BY <1>5 DEF CreateQueued, withActiveConsents, Admissible, sourceBlobIdsFromPayload, rest
  <2> HIDE DEF row
  <2>3. Carried(row, granted)
    BY <2>1, <2>2 DEF telemetryLogIdsFromPayload
  <2> HIDE DEF Carried
  <2>4. \A i \in JobIds : Carried(jobs'[i], granted')
    BY <1>1, <2>2, <2>3 DEF Shape
  <2> QED
    BY <1>2, <2>2, <2>4 DEF ConsentCarries
<1>6. ASSUME NEW u \in Owners, NEW p \in Purposes[u], GrantPurpose(u, p)
      PROVE  ConsentCarries' /\ WaitingNamesSubject'
  <2>1. UNCHANGED <<jobs, shared>> /\ \A v \in Owners : granted[v] \subseteq granted'[v]
    BY <1>6 DEF GrantPurpose, Shape, rest
  <2>2. \A j \in JobIds : jobs[j] # Missing => jobs[j].user \in Owners
    BY DEF Shape, JobRow
  <2> QED
    BY <1>1, <1>2, <2>1, <2>2 DEF ConsentCarries, Shape
<1>7. ASSUME NEW u \in Owners, NEW p \in Purposes[u], WithdrawPurpose(u, p)
      PROVE  ConsentCarries' /\ WaitingNamesSubject'
  <2>1. /\ granted' = [granted EXCEPT ![u] = @ \ {p}]
        /\ shared' = IF p = "telemetry.sharing" THEN shared \ {u} ELSE shared
    BY <1>7 DEF WithdrawPurpose, applyWithdrawal
  <2>2. granted'[u] = granted[u] \ {p} /\ \A v \in Owners : v # u => granted'[v] = granted[v]
    BY <2>1 DEF Shape
  <2>3. \A v \in shared' : "telemetry.sharing" \in granted'[v]
    BY <2>1, <2>2 DEF ConsentCarries, Shape
  <2>4. ASSUME NEW j \in JobIds PROVE Carried(jobs'[j], granted')
    <3> DEFINE stops == /\ Exists(j) /\ jobs[j].user = u /\ jobs[j].status = "queued"
                        /\ jobs[j].subject /\ p \in telemetryLogIdsFromPayload(jobs[j])
    <3>1. jobs'[j] = IF stops THEN [jobs[j] EXCEPT !.status = "cancelled"] ELSE jobs[j]
      BY <1>7 DEF WithdrawPurpose, applyWithdrawal
    <3>2. jobs[j] # Missing => jobs[j] \in JobRow
      BY DEF Shape
    <3>3. CASE stops
      <4>1. jobs'[j].status = "cancelled"
        BY <3>1, <3>2, <3>3 DEF JobRow, Exists
      <4> QED
        BY <4>1
    <3>4. CASE ~stops
      <4> SUFFICES ASSUME jobs[j] # Missing, jobs[j].status = "queued"
                   PROVE  /\ telemetryLogIdsFromPayload(jobs[j]) \subseteq granted'[jobs[j].user]
                          /\ jobs[j].kind = "photoscan.single" => jobs[j].subject
        BY <3>1, <3>4
      <4>1. /\ telemetryLogIdsFromPayload(jobs[j]) \subseteq granted[jobs[j].user]
            /\ jobs[j].kind = "photoscan.single" => jobs[j].subject
        BY <1>1
      <4>2. jobs[j].user \in Owners /\ jobs[j].subject \in BOOLEAN
        BY <3>2 DEF JobRow
      <4>3. jobs[j].user = u => p \notin telemetryLogIdsFromPayload(jobs[j])
        <5>1. CASE jobs[j].subject
          BY <3>4, <5>1 DEF Exists
        <5>2. CASE ~jobs[j].subject
          BY <4>1, <5>2 DEF telemetryLogIdsFromPayload
        <5> QED
          BY <5>1, <5>2
      <4> QED
        BY <2>2, <4>1, <4>2, <4>3
    <3> QED
      BY <3>3, <3>4
  <2> QED
    BY <1>2, <2>3, <2>4
<1>8. ASSUME NEW u \in Owners, ShareTelemetryLog(u) PROVE ConsentCarries' /\ WaitingNamesSubject'
  <2>1. /\ UNCHANGED <<jobs, granted>> /\ shared' = shared \cup {u}
        /\ "telemetry.sharing" \in granted[u]
    BY <1>8 DEF ShareTelemetryLog, withActiveConsents
  <2> QED
    BY <1>1, <1>2, <2>1 DEF ConsentCarries
<1>9. ASSUME NEW j \in JobIds, RetireJob(j) PROVE ConsentCarries' /\ WaitingNamesSubject'
  <2>1. /\ UNCHANGED <<shared, granted>>
        /\ \A i \in JobIds : jobs'[i] = jobs[i] \/ jobs'[i] = Missing
    BY <1>9 DEF RetireJob, rest, Shape
  <2> QED
    BY <1>1, <1>2, <2>1 DEF ConsentCarries
<1>10. ASSUME NEW s \in Slots, NEW j \in JobIds, CommitPolicy(s, j)
       PROVE  ConsentCarries' /\ WaitingNamesSubject'
  <2>1. slot[s].req \in Requests
    BY <1>10, SlotShape DEF CommitPolicy
  <2> QED
    BY <1>3, <1>10, <2>1 DEF CommitPolicy, rest
<1>11. CASE UNCHANGED outVars
  BY <1>4, <1>11 DEF outVars
<1> HIDE DEF Carried
<1>12. ASSUME NEW r \in Requests, NEW j \in JobIds, CreatePhotoscan(r, j)
       PROVE  ConsentCarries' /\ WaitingNamesSubject'
  BY <1>3, <1>12 DEF CreatePhotoscan, rest
<1>13. ASSUME NEW s \in Slots, NEW r \in Requests, NEW j \in JobIds, InsertFixture(s, r, j)
       PROVE  ConsentCarries' /\ WaitingNamesSubject'
  BY <1>3, <1>13 DEF InsertFixture, rest
<1>14. CASE OutNext
  BY <1>4, <1>5, <1>6, <1>7, <1>8, <1>9, <1>10, <1>12, <1>13, <1>14
     DEF OutNext, WritePolicyObject, MaterializeRow, InsertReplayArtifact, AbortPolicy,
         InsertVendorOffer, RefuseVendorOffer, RecordRefreshUsage, BeginRefresh, Crash,
         updatePhotoscanAlignment, RegisterBlob, PutThroughUrl,
         inspectStoredObject, completeObjectBlobUpload, DeletionRollsBack, DownloadPolicyModel, rest
<1> QED
  BY <1>11, <1>14

\* The offers in flight are finitely many.
LEMMA UncountedFinite ==
    ASSUME OutputsConstants, Shape
    PROVE  IsFiniteSet(Uncounted) /\ Cardinality(Uncounted) \in Nat
<1>1. IsFiniteSet(1..offers)
  BY FS_Interval DEF Shape
<1>2. IsFiniteSet(Slots \X (1..offers))
  BY <1>1, FS_Product DEF OutputsConstants
<1>3. Uncounted \in SUBSET (Slots \X (1..offers))
  BY DEF Uncounted
<1>4. IsFiniteSet(Uncounted)
  BY <1>2, <1>3, FS_Subset
<1> QED
  BY <1>4, FS_CardinalityType

\* A refresh that begins, ends or is lost counts nothing new.
LEMMA OffersFrame ==
    ASSUME OutputsConstants, Shape, OffersCounted, UNCHANGED <<offers, counted>>,
           \A t \in Slots : slot'[t].phase = "refresh" =>
              slot'[t] = slot[t] \/ slot'[t].done = 0
    PROVE  OffersCounted'
<1>1. IsFiniteSet(Uncounted) /\ Cardinality(Uncounted) \in Nat
  BY UncountedFinite
<1>2. Uncounted' \in SUBSET Uncounted
  BY DEF Uncounted, Shape
<1>3. IsFiniteSet(Uncounted') /\ Cardinality(Uncounted') <= Cardinality(Uncounted)
  BY <1>1, <1>2, FS_Subset
<1>4. Cardinality(Uncounted') \in Nat
  BY <1>3, FS_CardinalityType
<1>5. counted' + Cardinality(Uncounted') <= offers'
  BY <1>1, <1>3, <1>4 DEF OffersCounted, Shape
<1>6. \A t \in Slots : slot'[t].phase = "refresh" => slot'[t].done <= offers'
  BY DEF OffersCounted, Shape
<1> QED
  BY <1>5, <1>6 DEF OffersCounted

LEMMA OffersStep ==
    ASSUME OutputsConstants, Shape, OffersCounted, [OutNext]_outVars
    PROVE  OffersCounted'
<1>1. IsFiniteSet(Uncounted) /\ Cardinality(Uncounted) \in Nat /\ offers \in Nat /\ counted \in Nat
  BY UncountedFinite DEF Shape
<1>2. ASSUME NEW s \in Slots, NEW x \in SlotState,
             slot' = [slot EXCEPT ![s] = x], x.phase = "refresh" => x.done = 0,
             UNCHANGED <<offers, counted>>
      PROVE  OffersCounted'
  <2>1. slot'[s] = x /\ \A t \in Slots : t # s => slot'[t] = slot[t]
    BY <1>2, SlotsShape, SlotStates
  <2> QED
    BY <1>2, <2>1, OffersFrame
<1>3. ASSUME UNCHANGED <<slot, offers, counted>> PROVE OffersCounted'
  BY <1>3, OffersFrame
<1>4. ASSUME NEW s \in Slots, slot' = [slot EXCEPT ![s] = Idle], UNCHANGED <<offers, counted>>
      PROVE  OffersCounted'
  BY <1>2, <1>4, SlotStates DEF Idle
<1>5. ASSUME NEW s \in Slots, NEW r \in Requests, NEW j \in JobIds, InsertFixture(s, r, j)
      PROVE  OffersCounted'
  <2>1. PICK x \in {Idle, [phase |-> "inserted", job |-> j], [phase |-> "replay", job |-> j]} :
           slot' = [slot EXCEPT ![s] = x]
    BY <1>5 DEF InsertFixture
  <2>2. x \in SlotState /\ x.phase # "refresh"
    BY SlotStates DEF Making, Idle
  <2> QED
    BY <1>2, <1>5, <2>1, <2>2 DEF InsertFixture, rest
<1>6. ASSUME NEW s \in Slots, NEW r \in Requests, WritePolicyObject(s, r) PROVE OffersCounted'
  <2>1. r.user \in Owners /\ r.kind = "train.policy"
    BY <1>6, RowShape DEF WritePolicyObject
  <2>2. [phase |-> "written", req |-> r, saw |-> blob[r.user]] \in Writing
    BY <2>1 DEF Writing, Shape
  <2> QED
    BY <1>2, <1>6, <2>2, SlotStates DEF WritePolicyObject, rest
<1>7. ASSUME NEW s \in Slots, NEW n \in 1..MaxOffers, BeginRefresh(s, n) PROVE OffersCounted'
  <2>1. [phase |-> "refresh", left |-> n, done |-> 0] \in Refreshing
    BY DEF Refreshing, OutputsConstants
  <2> QED
    BY <1>2, <1>7, <2>1, SlotStates DEF BeginRefresh, rest
<1>8. ASSUME NEW s \in Slots, InsertVendorOffer(s) PROVE OffersCounted'
  <2> DEFINE x == [slot[s] EXCEPT !.left = slot[s].left - 1, !.done = slot[s].done + 1]
  <2> DEFINE d == slot[s].done
  <2> DEFINE new == <<s, d + 1>>
  <2>1. /\ slot[s] \in Refreshing /\ slot[s].left - 1 \in Nat /\ d + 1 \in Nat /\ d \in Nat
        /\ slot[s].phase = "refresh"
    BY <1>8, SlotShape DEF InsertVendorOffer
  <2>2. x \in Refreshing /\ x.phase = "refresh" /\ x.done = d + 1
    BY <2>1 DEF Refreshing
  <2>3. slot' = [slot EXCEPT ![s] = x] /\ offers' = offers + 1 /\ counted' = counted
    BY <1>8 DEF InsertVendorOffer, Shape
  <2> HIDE DEF x
  <2>4. slot'[s] = x /\ \A t \in Slots : t # s => slot'[t] = slot[t]
    BY <2>2, <2>3, SlotsShape, SlotStates
  <2> HIDE DEF d
  <2>5. \A t \in Slots : slot'[t].phase = "refresh" => slot'[t].done <= offers'
    <3>1. d <= offers
      BY <2>1 DEF OffersCounted, d
    <3>2. \A t \in Slots : slot[t].phase = "refresh" =>
            slot[t].done <= offers /\ slot[t].done \in Nat
      BY SlotShape DEF OffersCounted
    <3> QED
      BY <1>1, <2>1, <2>2, <2>3, <2>4, <3>1, <3>2
  <2>6. Uncounted' \in SUBSET (Uncounted \cup {new})
    <3> SUFFICES ASSUME NEW y \in Uncounted' PROVE y \in Uncounted \/ y = new
      OBVIOUS
    <3>1. /\ y \in Slots \X (1..offers') /\ slot'[y[1]].phase = "refresh"
          /\ y[2] <= slot'[y[1]].done
      BY DEF Uncounted
    <3>2. CASE y[1] # s
      <4>1. slot[y[1]].phase = "refresh" /\ y[2] <= slot[y[1]].done /\ y[1] \in Slots
        BY <2>4, <3>1, <3>2
      <4>2. slot[y[1]].done <= offers /\ slot[y[1]].done \in Nat
        BY <4>1, SlotShape DEF OffersCounted
      <4>3. y[2] \in 1..offers
        BY <1>1, <2>3, <3>1, <4>1, <4>2
      <4> QED
        BY <3>1, <4>1, <4>3 DEF Uncounted
    <3>3. CASE y[1] = s
      <4>1. y[2] <= d + 1 /\ y[2] \in 1..offers'
        BY <2>2, <2>4, <3>1, <3>3
      <4>2. CASE y[2] = d + 1
        BY <3>1, <3>3, <4>2
      <4>3. CASE y[2] # d + 1
        <5>1. y[2] <= d /\ d <= offers /\ y[2] \in 1..offers
          BY <1>1, <2>1, <2>3, <4>1, <4>3 DEF OffersCounted, d
        <5> QED
          BY <2>1, <3>1, <3>3, <5>1 DEF Uncounted, d
      <4> QED
        BY <4>2, <4>3
    <3> QED
      BY <3>2, <3>3
  <2> HIDE DEF new
  <2>11. /\ IsFiniteSet(Uncounted \cup {new})
         /\ Cardinality(Uncounted \cup {new}) =
              IF new \in Uncounted THEN Cardinality(Uncounted) ELSE Cardinality(Uncounted) + 1
    BY <1>1, FS_AddElement
  <2>7. /\ IsFiniteSet(Uncounted \cup {new})
        /\ Cardinality(Uncounted \cup {new}) <= Cardinality(Uncounted) + 1
    BY <1>1, <2>11
  <2>8. /\ IsFiniteSet(Uncounted')
        /\ Cardinality(Uncounted') <= Cardinality(Uncounted \cup {new})
    BY <2>6, <2>7, FS_Subset
  <2>9. Cardinality(Uncounted') \in Nat /\ Cardinality(Uncounted \cup {new}) \in Nat
    BY <2>7, <2>8, FS_CardinalityType
  <2>10. counted' + Cardinality(Uncounted') <= offers'
    BY <1>1, <2>3, <2>7, <2>8, <2>9 DEF OffersCounted
  <2> QED
    BY <2>5, <2>10 DEF OffersCounted
<1>9. ASSUME NEW s \in Slots, RecordRefreshUsage(s) PROVE OffersCounted'
  <2> DEFINE d == slot[s].done
  <2> DEFINE mine == {s} \X (1..d)
  <2>1. /\ slot[s].phase = "refresh" /\ d \in Nat /\ d <= offers
        /\ counted' = counted + d /\ offers' = offers /\ slot' = [slot EXCEPT ![s] = Idle]
    BY <1>9, SlotShape DEF RecordRefreshUsage, OffersCounted
  <2>2. slot'[s] = Idle /\ \A t \in Slots : t # s => slot'[t] = slot[t]
    BY <2>1, SlotsShape, SlotStates
  <2>6. mine \subseteq Uncounted
    BY <1>1, <2>1 DEF Uncounted
  <2>9. Uncounted' \in SUBSET (Uncounted \ mine)
    BY <2>1, <2>2 DEF Uncounted, Idle
  <2> HIDE DEF d
  <2>3. IsFiniteSet(1..d) /\ Cardinality(1..d) = d
    <3>1. 1 \in Int /\ d \in Int /\ (1 > d => d = 0)
      BY <2>1
    <3>2. IsFiniteSet(1..d) /\ Cardinality(1..d) = IF 1 > d THEN 0 ELSE d - 1 + 1
      BY <3>1, FS_Interval
    <3> QED
      BY <3>1, <3>2
  <2>4. IsFiniteSet({s}) /\ Cardinality({s}) = 1
    BY FS_Singleton
  <2>5. IsFiniteSet(mine) /\ Cardinality(mine) = d
    <3>1. IsFiniteSet(mine) /\ Cardinality(mine) = Cardinality({s}) * Cardinality(1..d)
      BY <2>3, <2>4, FS_Product
    <3> QED
      BY <2>1, <2>3, <2>4, <3>1
  <2> HIDE DEF mine
  <2>7. Uncounted \cap mine = mine
    BY <2>6
  <2>8. /\ IsFiniteSet(Uncounted \ mine)
        /\ Cardinality(Uncounted \ mine) = Cardinality(Uncounted) - Cardinality(Uncounted \cap mine)
    BY <1>1, FS_Difference
  <2>10. /\ IsFiniteSet(Uncounted')
         /\ Cardinality(Uncounted') <= Cardinality(Uncounted \ mine)
    BY <2>8, <2>9, FS_Subset
  <2>11. Cardinality(Uncounted') \in Nat
    BY <2>10, FS_CardinalityType
  <2>12. Cardinality(Uncounted \ mine) = Cardinality(Uncounted) - d
    BY <2>1, <2>5, <2>7, <2>8
  <2>13. counted' + Cardinality(Uncounted') <= offers'
    BY <1>1, <2>1, <2>10, <2>11, <2>12 DEF OffersCounted
  <2>14. \A t \in Slots : slot'[t].phase = "refresh" => slot'[t].done <= offers'
    BY <2>1, <2>2 DEF OffersCounted, Idle
  <2> QED
    BY <2>13, <2>14 DEF OffersCounted
<1>10. CASE Crash
  <2>1. \A t \in Slots : slot'[t].phase # "refresh"
    BY <1>10 DEF Crash, Idle
  <2> QED
    BY <1>10, <2>1, OffersFrame DEF Crash, rest
<1>11. ASSUME NEW s \in Slots, \/ MaterializeRow(s) \/ InsertReplayArtifact(s) \/ AbortPolicy(s)
                               \/ RefuseVendorOffer(s)
       PROVE  OffersCounted'
  BY <1>4, <1>11 DEF MaterializeRow, InsertReplayArtifact, AbortPolicy, RefuseVendorOffer, rest
<1>12. ASSUME NEW s \in Slots, NEW j \in JobIds, CommitPolicy(s, j) PROVE OffersCounted'
  BY <1>4, <1>12 DEF CommitPolicy, rest
<1>13. CASE UNCHANGED outVars
  BY <1>3, <1>13 DEF outVars
<1>14. ASSUME NEW s \in Slots, NEW u \in Owners, inspectStoredObject(s, u) PROVE OffersCounted'
  <2>1. [phase |-> "inspected", owner |-> u, matches |-> stored[u] = "policy"] \in Inspecting
    BY DEF Inspecting
  <2> QED
    BY <1>2, <1>14, <2>1, SlotStates DEF inspectStoredObject, rest
<1>15. ASSUME NEW s \in Slots, completeObjectBlobUpload(s) PROVE OffersCounted'
  BY <1>4, <1>15 DEF completeObjectBlobUpload, rest
<1>16. CASE OutNext
  BY <1>3, <1>5, <1>6, <1>7, <1>8, <1>9, <1>10, <1>11, <1>12, <1>16, <1>14, <1>15
     DEF OutNext, CreateQueued, CreatePhotoscan, GrantPurpose, WithdrawPurpose, ShareTelemetryLog,
         updatePhotoscanAlignment, RegisterBlob, PutThroughUrl, DeletionRollsBack, RetireJob,
         DownloadPolicyModel, OutputsConstants, rest
<1> QED
  BY <1>13, <1>16

-----------------------------------------------------------------------------
(* Job outputs: the invariant and the theorem *)

LEMMA OutputsInvInit == OutputsConstants /\ OutInit => OutputsInv
<1> SUFFICES ASSUME OutputsConstants, OutInit PROVE OutputsInv
  OBVIOUS
<1>1. Shape
  BY SlotStates DEF OutInit, Shape, BlobStatus
<1>2. OneMaker /\ OneScan /\ ArtifactWithJob /\ PoliciesBacked
  BY DEF OutInit, OneMaker, Makes, OneScan, ArtifactWithJob, Exists, PoliciesBacked, Idle
<1>3. ServedToOwner /\ ConsentCarries /\ WaitingNamesSubject
  BY DEF OutInit, ServedToOwner, ConsentCarries, WaitingNamesSubject, Exists
<1>4. Uncounted = {}
  BY DEF OutInit, Uncounted
<1>5. OffersCounted
  BY <1>4, FS_EmptySet DEF OutInit, OffersCounted, Idle
<1> QED
  BY <1>1, <1>2, <1>3, <1>5 DEF OutputsInv

LEMMA OutputsInvStep == OutputsConstants /\ OutputsInv /\ [OutNext]_outVars => OutputsInv'
<1> SUFFICES ASSUME OutputsConstants, OutputsInv, [OutNext]_outVars PROVE OutputsInv'
  OBVIOUS
<1>1. /\ Shape /\ OneMaker /\ OneScan /\ ArtifactWithJob /\ PoliciesBacked /\ ServedToOwner
      /\ ConsentCarries /\ WaitingNamesSubject /\ OffersCounted
  BY DEF OutputsInv
<1>2. Shape' /\ OneMaker' /\ OneScan' /\ ArtifactWithJob'
  BY <1>1, ShapeStep, MakerStep, ScanStep, ArtifactStep
<1>3. PoliciesBacked' /\ ServedToOwner'
  BY <1>1, BackedStep
<1>4. ConsentCarries' /\ WaitingNamesSubject' /\ OffersCounted'
  BY <1>1, PurposeStep, OffersStep
<1> QED
  BY <1>2, <1>3, <1>4 DEF OutputsInv

\* The invariant says what the component promises.
LEMMA OutputsMeaning ==
    ASSUME OutputsConstants, OutputsInv
    PROVE  OutTypeOK /\ OutputsSafe
<1>1. Shape /\ OneMaker /\ OneScan /\ PoliciesBacked /\ OffersCounted
  BY DEF OutputsInv
<1>2. OutTypeOK
  <2>1. \A s \in Slots : slot[s].phase \in {"idle", "inserted", "replay", "written", "inspected",
                                          "refresh"}
    BY <1>1, SlotShape
  <2> QED
    BY <1>1, <2>1 DEF Shape, OutTypeOK, Exists, JobRow, BlobStatus, OutputsConstants
<1>3. OneArtifactPerJob /\ ArtifactBacked
  BY <1>1 DEF OneArtifactPerJob, ArtifactBacked, OneMaker, OneScan, PoliciesBacked
<1>4. UsageBacked
  <2>1. Cardinality(Uncounted) \in Nat
    BY <1>1, UncountedFinite
  <2> QED
    BY <1>1, <2>1 DEF OffersCounted, UsageBacked, Shape
<1> QED
  BY <1>2, <1>3, <1>4 DEF OutputsInv, OutputsSafe

\* OutputsSafe, for any users, keys, models, requests and any finite number of requests
\* in flight, with the gateway stopping anywhere: a job leaves at most one artifact and a
\* succeeded photoscan or policy job is never without it, a policy artifact stands on the
\* row of its own object through every upload, completion and rolled-back deletion of its
\* owner, a photoscan on a blob of its owner, policies go to their owner only, nothing outlives the consent it was made under, and usage never
\* counts an offer that was not inserted (createJob and materializeJobOutput in
\* platform.ts, the vendor refresh of server.ts).
THEOREM OutputsAreSafe ==
    ASSUME OutputsConstants
    PROVE  OutSpec => [](OutTypeOK /\ OutputsSafe)
<1>1. OutInit => OutputsInv
  BY OutputsInvInit
<1>2. OutputsInv /\ [OutNext]_outVars => OutputsInv'
  BY OutputsInvStep
<1>3. OutputsInv => OutTypeOK /\ OutputsSafe
  BY OutputsMeaning
<1> QED
  BY <1>1, <1>2, <1>3, PTL DEF OutSpec

-----------------------------------------------------------------------------
(* The cost of a provider call *)

\* A billing row is neither NULL nor the mark of a call that was never made.
CostConstants ==
    MaxAttempts \in Nat /\ Null \notin Authorities /\ "unknown" \notin Authorities \cup {Null}

CostInv == CostTypeOK /\ EventPerReconciledCall

LEMMA CostInvInit == CostConstants /\ CostInit => CostInv
  BY DEF CostConstants, CostInit, CostInv, CostTypeOK, EventPerReconciledCall

\* A reconciliation writes the cost and the event of one call together, and only where
\* neither the call nor its job has a cost.
LEMMA CostInvStep == CostConstants /\ CostInv /\ [CostNext]_costVars => CostInv'
<1> SUFFICES ASSUME CostConstants, CostInv, [CostNext]_costVars PROVE CostInv'
  OBVIOUS
<1> USE DEF CostConstants, CostInv
<1>1. CASE ClaimOne \/ mark_succeeded \/ \E preserve \in BOOLEAN : mark_failed(preserve)
  <2>1. UNCHANGED <<calls, events, reply>>
    BY <1>1 DEF ClaimOne, mark_succeeded, mark_failed
  <2>2. job' \in [status : {"queued", "running", "failed", "succeeded"},
                  attempts : 0..MaxAttempts, call : Calls \cup {Null},
                  cost : Authorities \cup {Null}]
    <3>1. ASSUME NEW preserve \in BOOLEAN, mark_failed(preserve)
          PROVE  \/ job' = [job EXCEPT !.status = "failed"]
                 \/ job' = [job EXCEPT !.status = "queued"]
                 \/ job' = [job EXCEPT !.status = "queued", !.call = Null, !.cost = Null]
      BY <3>1 DEF mark_failed
    <3>2. CASE \E preserve \in BOOLEAN : mark_failed(preserve)
      BY <3>1, <3>2 DEF CostTypeOK
    <3>3. CASE ClaimOne
      <4>1. job.attempts \in 0..MaxAttempts /\ job.attempts < MaxAttempts
        BY <3>3 DEF ClaimOne, CostTypeOK
      <4>2. job.attempts + 1 \in 0..MaxAttempts
        BY <4>1
      <4>3. job' = [job EXCEPT !.status = "running", !.attempts = job.attempts + 1]
        BY <3>3 DEF ClaimOne, CostTypeOK
      <4> QED
        BY <4>2, <4>3 DEF CostTypeOK
    <3>4. CASE mark_succeeded
      BY <3>4 DEF mark_succeeded, CostTypeOK
    <3> QED
      BY <1>1, <3>2, <3>3, <3>4
  <2> QED
    BY <2>1, <2>2 DEF CostTypeOK, EventPerReconciledCall
<1>2. ASSUME NEW c \in Calls, _record_provider_call(c) PROVE CostInv'
  BY <1>2 DEF _record_provider_call, CostTypeOK, EventPerReconciledCall
<1>3. ASSUME NEW c \in Calls, NEW a \in Authorities, reconcile(c, a) PROVE CostInv'
  <2>1. CASE hasExisting(c)
    BY <1>3, <2>1 DEF reconcile, CostTypeOK, EventPerReconciledCall
  <2>2. CASE ~hasExisting(c)
    <3>1. calls[c] = Null /\ events[c] = 0
      BY <2>2 DEF hasExisting, EventPerReconciledCall
    <3> QED
      BY <1>3, <2>2, <3>1 DEF reconcile, CostTypeOK, EventPerReconciledCall
  <2> QED
    BY <2>1, <2>2
<1>4. CASE UNCHANGED costVars
  BY <1>4 DEF costVars, CostTypeOK, EventPerReconciledCall
<1> QED
  BY <1>1, <1>2, <1>3, <1>4 DEF CostNext

\* No step of the worker or of the command touches the cost of a call that has one.
LEMMA CallCostStep == CostConstants /\ CostInv /\ [CostNext]_costVars => CallCostFinal
<1> SUFFICES ASSUME CostConstants, CostInv, [CostNext]_costVars,
                    NEW c \in Calls, calls[c] \in Authorities
             PROVE  calls'[c] = calls[c]
  BY DEF CallCostFinal
<1>1. CASE ClaimOne \/ mark_succeeded \/ \E preserve \in BOOLEAN : mark_failed(preserve)
  BY <1>1 DEF ClaimOne, mark_succeeded, mark_failed
<1>2. ASSUME NEW d \in Calls, _record_provider_call(d) PROVE calls'[c] = calls[c]
  BY <1>2 DEF _record_provider_call, CostConstants, CostInv, CostTypeOK
<1>3. ASSUME NEW d \in Calls, NEW a \in Authorities, reconcile(d, a)
      PROVE  calls'[c] = calls[c]
  BY <1>3 DEF reconcile, hasExisting, CostConstants, CostInv, CostTypeOK
<1> QED
  BY <1>1, <1>2, <1>3 DEF CostNext, costVars

\* Every call with a recorded cost has exactly one cost event, however reconciliations
\* interleave with retries that clear the job's columns.
THEOREM OneEventPerCost ==
    ASSUME CostConstants PROVE CostSpec => [](CostTypeOK /\ EventPerReconciledCall)
<1>1. CostInit => CostInv
  BY CostInvInit
<1>2. CostInv /\ [CostNext]_costVars => CostInv'
  BY CostInvStep
<1> QED
  BY <1>1, <1>2, PTL DEF CostSpec, CostInv

\* The cost recorded for a call is never replaced, by another report or by a retry.
THEOREM CostsAreFinal == ASSUME CostConstants PROVE CostSpec => [][CallCostFinal]_costVars
<1>1. CostInit => CostInv
  BY CostInvInit
<1>2. CostInv /\ [CostNext]_costVars => CostInv'
  BY CostInvStep
<1>3. CostInv /\ [CostNext]_costVars => CallCostFinal
  BY CallCostStep
<1> QED
  BY <1>1, <1>2, <1>3, PTL DEF CostSpec
==============================================================================
