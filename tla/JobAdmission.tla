---------------------------- MODULE JobAdmission ----------------------------
(***************************************************************************)
(* Admission of queued jobs in packages/gateway/src/platform.ts            *)
(* (createJob, createJobUnchecked, assertModalJobQuota), the credit        *)
(* ledger, owner cancellation (cancelOwnedJob), and the consents of        *)
(* consent.ts (withActiveConsents, recordConsent, applyWithdrawal).        *)
(*                                                                         *)
(* A job is named by its idempotency key, which the gateway scopes to its  *)
(* owner and the database keeps unique; a request without a key is one     *)
(* whose key nobody else uses.                                             *)
(*                                                                         *)
(* createJob runs in a SERIALIZABLE transaction, modelled in two steps:    *)
(* Begin takes the snapshot, CreateJob decides from it.  PostgreSQL's      *)
(* serializable snapshot isolation is the variable `doomed': a commit      *)
(* dooms every open transaction that has read what it wrote and is to      *)
(* write what it read.  The advisory lock of assertModalJobQuota is left   *)
(* out: the snapshot is older than the lock, so waiting for it refreshes   *)
(* nothing, and leaving it out only allows more interleavings.             *)
(***************************************************************************)
EXTENDS Integers, FiniteSets

CONSTANTS
    Keys,         \* (owner, idempotency key) pairs: one job each
    Users,
    Owner,        \* the user of each key
    Modal,        \* keys of jobs for the Modal provider, which cost one credit
    Gated,        \* keys of jobs whose input needs their owner's consent
    Bodies,       \* request bodies
    Handlers,     \* gateway requests in flight
    MaxActive,    \* FORGE_MODAL_MAX_ACTIVE_JOBS
    DailyLimit,   \* FORGE_MODAL_DAILY_CREDIT_LIMIT
    MaxDay,       \* the last day of the model
    NoKey, NoBody

ASSUME KeysAssumption == IsFiniteSet(Keys)
ASSUME OwnerAssumption == Owner \in [Keys -> Users]
ASSUME SubsetAssumption == Modal \subseteq Keys /\ Gated \subseteq Keys
ASSUME LimitAssumption ==
    MaxActive \in Nat \ {0} /\ DailyLimit \in Nat \ {0} /\ MaxDay \in Nat
ASSUME NoneAssumption == NoKey \notin Keys /\ NoBody \notin Bodies

VARIABLES
    today,
    status, body, day,                 \* jobs: status, input, created_at
    debited, refunded, balance,        \* credit_ledger rows, credit_accounts
    consent,                           \* the newest consent event of each user
    reqKey, reqBody,                   \* the request of each handler
    begun, active, spent, agreed,      \* what its snapshot shows
    doomed

jobVars == <<status, body, day>>
creditVars == <<debited, refunded, balance>>
txVars == <<reqKey, reqBody, begun, active, spent, agreed, doomed>>
vars == <<today, jobVars, creditVars, consent, txVars>>

Open(r) == reqKey[r] # NoKey

TypeOK ==
    /\ today \in Nat
    /\ status \in [Keys -> {"none", "active", "ended", "cancelled"}]
    /\ body \in [Keys -> Bodies \cup {NoBody}]
    /\ day \in [Keys -> Nat]
    /\ debited \in SUBSET Keys /\ refunded \in SUBSET Keys
    /\ balance \in [Users -> Int]
    /\ consent \in [Users -> BOOLEAN]
    /\ reqKey \in [Handlers -> Keys \cup {NoKey}]
    /\ reqBody \in [Handlers -> Bodies \cup {NoBody}]
    /\ begun \in [Handlers -> Nat]
    /\ active \in [Handlers -> SUBSET Keys]
    /\ spent \in [Handlers -> SUBSET Keys]
    /\ agreed \in [Handlers -> BOOLEAN]
    /\ doomed \in [Handlers -> BOOLEAN]
    /\ \A k \in Keys : status[k] = "none" <=> body[k] = NoBody
    /\ \A r \in Handlers : Open(r) <=> reqBody[r] # NoBody

Init ==
    /\ today = 0
    /\ status = [k \in Keys |-> "none"]
    /\ body = [k \in Keys |-> NoBody]
    /\ day = [k \in Keys |-> 0]
    /\ debited = {} /\ refunded = {}
    /\ balance = [u \in Users |-> 0]
    /\ consent = [u \in Users |-> FALSE]
    /\ reqKey = [r \in Handlers |-> NoKey]
    /\ reqBody = [r \in Handlers |-> NoBody]
    /\ begun = [r \in Handlers |-> 0]
    /\ active = [r \in Handlers |-> {}]
    /\ spent = [r \in Handlers |-> {}]
    /\ agreed = [r \in Handlers |-> FALSE]
    /\ doomed = [r \in Handlers |-> FALSE]

ActiveModal == {k \in Modal : status[k] = "active"}
\* Every Modal job created on day d, whatever became of it.
LaunchedOn(d) == {k \in Modal : status[k] # "none" /\ day[k] = d}

-----------------------------------------------------------------------------
(* Serializable snapshot isolation (external) *)

\* Mutant of Doom: the transactions run as REPEATABLE READ.
DoomRepeatableRead(P) == UNCHANGED doomed

\* P is the set of handlers whose transactions may no longer commit.
Doom(P) == doomed' = [r \in Handlers |-> doomed[r] \/ (r \in P /\ Open(r))]

\* ON CONFLICT updates the row of its key, and fails if it has changed since.
SameRow(k) == {r \in Handlers : reqKey[r] = k}

EndTransaction(r, P) ==
    /\ reqKey' = [reqKey EXCEPT ![r] = NoKey]
    /\ reqBody' = [reqBody EXCEPT ![r] = NoBody]
    /\ begun' = [begun EXCEPT ![r] = 0]
    /\ active' = [active EXCEPT ![r] = {}]
    /\ spent' = [spent EXCEPT ![r] = {}]
    /\ agreed' = [agreed EXCEPT ![r] = FALSE]
    /\ doomed' = [q \in Handlers |-> q # r /\ (doomed[q] \/ (q \in P /\ Open(q)))]

-----------------------------------------------------------------------------
(* createJob *)

Begin(r, k, b) ==
    /\ ~Open(r)
    /\ reqKey' = [reqKey EXCEPT ![r] = k]
    /\ reqBody' = [reqBody EXCEPT ![r] = b]
    /\ begun' = [begun EXCEPT ![r] = today]
    /\ active' = [active EXCEPT ![r] = ActiveModal]
    /\ spent' = [spent EXCEPT ![r] = LaunchedOn(today)]
    /\ agreed' = [agreed EXCEPT ![r] = consent[Owner[k]]]
    /\ UNCHANGED <<today, jobVars, creditVars, consent, doomed>>

\* assertActiveConsent for every subject of the request.
Consents(r) == reqKey[r] \in Gated => agreed[r]

\* Mutant of Quota: jobs that were cancelled give their daily credit back.
QuotaOfStanding(r) ==
    reqKey[r] \in Modal =>
        /\ Cardinality(active[r] \ {reqKey[r]}) < MaxActive
        /\ Cardinality({k \in spent[r] : status[k] # "cancelled"} \ {reqKey[r]}) + 1
              <= DailyLimit

\* assertModalJobQuota: the request's own job, if it is a replay, does not count.
Quota(r) ==
    reqKey[r] \in Modal =>
        /\ Cardinality(active[r] \ {reqKey[r]}) < MaxActive
        /\ Cardinality(spent[r] \ {reqKey[r]}) + 1 <= DailyLimit

\* The transactions that read the quota counts this insertion changes.
QuotaReaders(k) == {q \in Handlers : k \in Modal /\ reqKey[q] \in Modal}

\* Mutant of Insert: the row is made without its input.
InsertWithoutBody(r) ==
    LET k == reqKey[r] IN
    /\ ~doomed[r] /\ Consents(r) /\ Quota(r)
    /\ status[k] = "none"
    /\ status' = [status EXCEPT ![k] = "active"]
    /\ day' = [day EXCEPT ![k] = begun[r]]
    /\ debited' = IF k \in Modal THEN debited \cup {k} ELSE debited
    /\ balance' = [balance EXCEPT ![Owner[k]] = IF k \in Modal THEN @ - 1 ELSE @]
    /\ EndTransaction(r, SameRow(k) \cup QuotaReaders(k))
    /\ UNCHANGED <<today, body, refunded, consent>>

\* A new row, and the debit of a Modal job.
Insert(r) ==
    LET k == reqKey[r] IN
    /\ ~doomed[r] /\ Consents(r) /\ Quota(r)
    /\ status[k] = "none"
    /\ status' = [status EXCEPT ![k] = "active"]
    /\ body' = [body EXCEPT ![k] = reqBody[r]]
    /\ day' = [day EXCEPT ![k] = begun[r]]
    /\ debited' = IF k \in Modal THEN debited \cup {k} ELSE debited
    /\ balance' = [balance EXCEPT ![Owner[k]] = IF k \in Modal THEN @ - 1 ELSE @]
    /\ EndTransaction(r, SameRow(k) \cup QuotaReaders(k))
    /\ UNCHANGED <<today, refunded, consent>>

CreateJob(r) == Open(r) /\ Insert(r)

\* Mutant of Replay: ON CONFLICT DO UPDATE stores the new input.
ReplayOverwrites(r) ==
    LET k == reqKey[r] IN
    /\ Open(r) /\ ~doomed[r] /\ Consents(r) /\ Quota(r)
    /\ status[k] # "none"
    /\ body' = [body EXCEPT ![k] = reqBody[r]]
    /\ EndTransaction(r, {})
    /\ UNCHANGED <<today, status, day, creditVars, consent>>

\* The key exists: the same request gets that job back, another one a 409.  The
\* row is written with its own key, which changes nothing.
Replay(r) ==
    LET k == reqKey[r] IN
    /\ Open(r) /\ ~doomed[r] /\ Consents(r) /\ Quota(r)
    /\ status[k] # "none"
    /\ EndTransaction(r, {})
    /\ UNCHANGED <<today, jobVars, creditVars, consent>>

\* Refused (401, 409, 429), a serialization failure, or a dead gateway.
RollBack(r) ==
    /\ Open(r)
    /\ EndTransaction(r, {})
    /\ UNCHANGED <<today, jobVars, creditVars, consent>>

-----------------------------------------------------------------------------
(* cancelOwnedJob, recordConsent, the workers *)

\* Mutant of Refundable: a second cancellation refunds again.
RefundableAgain(k) == k \in Modal

Refundable(k) == k \in Modal /\ status[k] = "active"

\* A cancelled job is returned as it is; a finished one is a 409.
CancelJob(k) ==
    /\ status[k] \in {"active", "cancelled"}
    /\ status' = [status EXCEPT ![k] = "cancelled"]
    /\ refunded' = IF Refundable(k) THEN refunded \cup {k} ELSE refunded
    /\ balance' = [balance EXCEPT ![Owner[k]] = IF Refundable(k) THEN @ + 1 ELSE @]
    /\ Doom(IF status[k] = "active" THEN SameRow(k) ELSE {})
    /\ UNCHANGED <<today, body, day, debited, consent, reqKey, reqBody, begun, active,
                   spent, agreed>>

GrantConsent(u) ==
    /\ consent' = [consent EXCEPT ![u] = TRUE]
    /\ UNCHANGED <<today, jobVars, creditVars, txVars>>

\* Withdrawal reads the jobs it cancels, and the open transactions about to add one
\* have read the consent it withdraws.
ConsentReaders(u) == {r \in Handlers : reqKey[r] \in Gated /\ Owner[reqKey[r]] = u}

Withdrawn(u) == {k \in Gated : Owner[k] = u /\ status[k] = "active"}

\* applyWithdrawal cancels; it refunds nothing.
WithdrawConsent(u) ==
    /\ consent' = [consent EXCEPT ![u] = FALSE]
    /\ status' = [k \in Keys |-> IF k \in Withdrawn(u) THEN "cancelled" ELSE status[k]]
    /\ Doom(ConsentReaders(u) \cup {r \in Handlers : reqKey[r] \in Withdrawn(u)})
    /\ UNCHANGED <<today, body, day, creditVars, reqKey, reqBody, begun, active, spent,
                   agreed>>

\* A worker settles the job (READ COMMITTED: it reads nothing others must not write).
WorkerEnds(k) ==
    /\ status[k] = "active"
    /\ status' = [status EXCEPT ![k] = "ended"]
    /\ Doom(SameRow(k))
    /\ UNCHANGED <<today, body, day, creditVars, consent, reqKey, reqBody, begun, active,
                   spent, agreed>>

NextDay ==
    /\ today < MaxDay
    /\ today' = today + 1
    /\ UNCHANGED <<jobVars, creditVars, consent, txVars>>

-----------------------------------------------------------------------------
Next ==
    \/ \E r \in Handlers :
          \/ CreateJob(r) \/ Replay(r) \/ RollBack(r)
          \/ \E k \in Keys, b \in Bodies : Begin(r, k, b)
    \/ \E k \in Keys : CancelJob(k) \/ WorkerEnds(k)
    \/ \E u \in Users : GrantConsent(u) \/ WithdrawConsent(u)
    \/ NextDay

Spec == Init /\ [][Next]_vars
-----------------------------------------------------------------------------
(* Properties *)

\* compute-workers section 4, "Shared active-job and UTC-day credit caps": requests
\* that checked the quota from the same snapshot do not exceed it together,
\* and "Cancellation releases active capacity but never subtracts the
\* launch from the daily ceiling".
QuotaKept ==
    /\ Cardinality(ActiveModal) <= MaxActive
    /\ \A d \in 0..MaxDay : Cardinality(LaunchedOn(d)) <= DailyLimit

\* A withdrawn consent leaves no job at work on what it covered, not even one whose
\* admission had already read the consent when it was withdrawn.
WithdrawalStopsWork ==
    \A k \in Gated : status[k] = "active" => consent[Owner[k]]

\* gateway-and-data, "inserts the new idempotent job, and then debits it exactly
\* once" and "reverses one positive Modal debit": the balance is what the
\* ledger rows add up to, each job being debited once, and refunded
\* at most once and only when cancelled.
LedgerBalances ==
    /\ \A u \in Users :
          balance[u] = Cardinality({k \in refunded : Owner[k] = u})
                       - Cardinality({k \in debited : Owner[k] = u})
    /\ debited = {k \in Modal : status[k] # "none"}
    /\ refunded \subseteq {k \in debited : status[k] = "cancelled"}

\* An admitted request is not changed by a later one with its key, nor moved to
\* another day.
RequestBound ==
    [][\A k \in Keys : status[k] # "none" =>
          /\ status'[k] # "none" /\ body'[k] = body[k] /\ day'[k] = day[k]
          /\ (status[k] # "active" => status'[k] = status[k])]_vars
=============================================================================
