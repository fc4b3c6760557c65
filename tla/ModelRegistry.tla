--------------------------- MODULE ModelRegistry ---------------------------
(***************************************************************************)
(* The model registry of the gateway: createModel, the conversational edit *)
(* (read, patch and validate in subprocesses, write), sharing, pattern     *)
(* contribution under consent, and what account deletion removes of them.  *)
(* An edit and a share hold a row they read while other requests run; a    *)
(* report records the contract it judged.                                  *)
(***************************************************************************)
EXTENDS Naturals, FiniteSets

CONSTANTS Users, Models, Shares,
          Contracts, Sound,   \* contracts, and those that pass every check
          Calls,              \* handler invocations in flight
          None

VARIABLES alive,     \* users rows
          models,    \* model_registry: id -> row; an id is used once
          spent,     \* ids given out so far
          shares,    \* share_snapshots: id -> row
          patterns,  \* pattern_library rows of kind user-opt-in
          consents,  \* models with an active pattern.contribution consent
          calls      \* handler -> what it holds between two awaits

regVars == <<alive, models, spent, shares, patterns, consents, calls>>

Report   == [of : Contracts, verdict : {"admitted", "draft", "rejected"}]
ModelRow == [owner : Users, status : {"admitted", "draft", "rejected"},
             visibility : {"private", "unlisted"}, contract : Contracts, report : Report]
ShareRow == [model : Models, owner : Users, contract : Contracts, report : Report]

Idle == [st |-> "idle", user |-> None, model |-> None, row |-> None]

RegTypeOK ==
  /\ alive \subseteq Users /\ consents \subseteq Models /\ spent \subseteq Models
  /\ models \in [Models -> ModelRow \cup {None}]
  /\ shares \in [Shares -> ShareRow \cup {None}]
  /\ patterns \subseteq [owner : Users, model : Models \cup {None}, contract : Contracts]
  /\ \A p \in Calls : calls[p].row \in ModelRow \cup {None}

RegInit ==
  /\ alive = Users
  /\ models = [m \in Models |-> None] /\ spent = {}
  /\ shares = [s \in Shares |-> None]
  /\ patterns = {} /\ consents = {}
  /\ calls = [p \in Calls |-> Idle]

-----------------------------------------------------------------------------
verdictOf(c, asDraft) ==
  IF c \in Sound THEN "admitted" ELSE IF asDraft THEN "draft" ELSE "rejected"

runValidator(c, asDraft) == [of |-> c, verdict |-> verdictOf(c, asDraft)]

reportVerdict(report) == report.verdict

insertModel(u, m, c, report) ==
  /\ u \in alive /\ m \notin spent
  /\ spent' = spent \cup {m}
  /\ models' = [models EXCEPT ![m] = [owner |-> u, status |-> reportVerdict(report),
                                      visibility |-> "private", contract |-> c, report |-> report]]

(* Without a report the request ends with 503, rejected without asDraft    *)
(* with 422; neither leaves a row.                                         *)
createModel(u, m, c, asDraft) ==
  /\ reportVerdict(runValidator(c, asDraft)) # "rejected"
  /\ insertModel(u, m, c, runValidator(c, asDraft))
  /\ UNCHANGED <<alive, shares, patterns, consents, calls>>

owns(u, m) == models[m] # None /\ models[m].owner = u

getOwnedModel(u, m) == IF u \in alive /\ owns(u, m) THEN models[m] ELSE None

Hold(p, st, u, m, row) == calls' = [calls EXCEPT ![p] = [st |-> st, user |-> u, model |-> m, row |-> row]]
Release(p) == calls' = [calls EXCEPT ![p] = Idle]

(* editModel: read the row, then patch and validate what was read.         *)
editRead(p, u, m) ==
  /\ calls[p].st = "idle" /\ getOwnedModel(u, m) # None
  /\ Hold(p, "edit", u, m, getOwnedModel(u, m))
  /\ UNCHANGED <<alive, models, spent, shares, patterns, consents>>

(* updateModelContract by id: no owner and no version in the WHERE, so the *)
(* last writer wins; a row deleted meanwhile updates nothing and the       *)
(* handler fails on the missing row.                                       *)
updateModelContract(p, c) ==
  /\ calls[p].st = "edit"
  /\ models' = [models EXCEPT ![calls[p].model] =
       IF @ = None THEN None
       ELSE LET report == runValidator(c, TRUE)
            IN [@ EXCEPT !.status = reportVerdict(report), !.contract = c, !.report = report]]
  /\ Release(p)
  /\ UNCHANGED <<alive, spent, shares, patterns, consents>>

(* A refused brief, an unsupported edit, a refused patch, a validator that *)
(* is missing or gave no report: the handler ends, its writes so far stay. *)
CallFails(p) ==
  /\ calls[p].st # "idle"
  /\ Release(p)
  /\ UNCHANGED <<alive, models, spent, shares, patterns, consents>>

shareRead(p, u, m) ==
  /\ calls[p].st = "idle"
  /\ getOwnedModel(u, m) # None /\ getOwnedModel(u, m).status = "admitted"
  /\ Hold(p, "share", u, m, getOwnedModel(u, m))
  /\ UNCHANGED <<alive, models, spent, shares, patterns, consents>>

(* Mutant: the snapshot is taken of the row as it is now.                  *)
shareCurrent(p, s) ==
  LET call == calls[p] IN
  /\ call.st = "share" /\ models[call.model] # None /\ shares[s] = None
  /\ shares' = [shares EXCEPT ![s] = [model |-> call.model, owner |-> call.user,
                 contract |-> models[call.model].contract, report |-> models[call.model].report]]
  /\ calls' = [calls EXCEPT ![p].st = "publish"]
  /\ UNCHANGED <<alive, models, spent, patterns, consents>>

(* The snapshot is of the row that was read; the foreign keys refuse it    *)
(* when the model or the user is gone.                                     *)
shareInsert(p, s) ==
  LET call == calls[p] IN
  /\ call.st = "share" /\ shares[s] = None
  /\ call.user \in alive /\ models[call.model] # None
  /\ shares' = [shares EXCEPT ![s] = [model |-> call.model, owner |-> call.user,
                                      contract |-> call.row.contract, report |-> call.row.report]]
  /\ calls' = [calls EXCEPT ![p].st = "publish"]
  /\ UNCHANGED <<alive, models, spent, patterns, consents>>

sharePublish(p) ==
  /\ calls[p].st = "publish"
  /\ models' = [models EXCEPT ![calls[p].model] = IF @ = None THEN None ELSE [@ EXCEPT !.visibility = "unlisted"]]
  /\ Release(p)
  /\ UNCHANGED <<alive, spent, shares, patterns, consents>>

getShare(s) == shares[s]

(* The consent transactions and the contribution lock the users row and    *)
(* run serializably: each is one step.                                     *)
GrantConsent(u, m) ==
  /\ u \in alive /\ owns(u, m) /\ m \notin consents
  /\ consents' = consents \cup {m}
  /\ UNCHANGED <<alive, models, spent, shares, patterns, calls>>

WithdrawConsent(u, m) ==
  /\ u \in alive /\ m \in consents /\ owns(u, m)
  /\ consents' = consents \ {m}
  /\ patterns' = {t \in patterns : ~(t.owner = u /\ t.model = m)}
  /\ UNCHANGED <<alive, models, spent, shares, calls>>

contributePattern(u, m) ==
  /\ m \in consents
  /\ getOwnedModel(u, m) # None /\ getOwnedModel(u, m).status = "admitted"
  /\ patterns' = IF \E t \in patterns : t.model = m THEN patterns
                 ELSE patterns \cup {[owner |-> u, model |-> m, contract |-> models[m].contract]}
  /\ UNCHANGED <<alive, models, spent, shares, consents, calls>>

(* What deleteAccount removes of these tables, in one transaction.         *)
ModelsLeft(u) == [m \in Models |-> IF owns(u, m) THEN None ELSE models[m]]

DeleteAccount(u) ==
  /\ u \in alive
  /\ alive' = alive \ {u}
  /\ models' = ModelsLeft(u)
  /\ consents' = {m \in consents : ~owns(u, m)}
  /\ shares' = [s \in Shares |-> IF shares[s] # None /\ shares[s].owner = u THEN None ELSE shares[s]]
  /\ patterns' = {t \in patterns : t.owner # u}
  /\ UNCHANGED <<spent, calls>>

RegStep ==
  \/ \E u \in Users, m \in Models :
       \/ \E c \in Contracts, asDraft \in BOOLEAN : createModel(u, m, c, asDraft)
       \/ \E p \in Calls : editRead(p, u, m) \/ shareRead(p, u, m)
       \/ GrantConsent(u, m) \/ WithdrawConsent(u, m) \/ contributePattern(u, m)
  \/ \E p \in Calls : \/ \E c \in Contracts : updateModelContract(p, c)
                      \/ \E s \in Shares : shareInsert(p, s)
                      \/ sharePublish(p) \/ CallFails(p)

RegNext == RegStep \/ \E u \in Users : DeleteAccount(u)

RegSpec == RegInit /\ [][RegNext]_regVars

-----------------------------------------------------------------------------
(***************************************************************************)
(* Whatever edits run at the same time, a model's status and its report    *)
(* are about the contract the row holds (updateModelContract writes the    *)
(* three together).                                                        *)
(***************************************************************************)
StatusOfContract ==
  \A m \in Models : models[m] # None =>
    /\ models[m].report.of = models[m].contract
    /\ models[m].status = "admitted" <=> models[m].contract \in Sound

(***************************************************************************)
(* A share link shows an admitted contract with the report that admitted   *)
(* it, also when an edit or a deletion of the model runs between the read  *)
(* and the insert of shareModel; no share outlives its model's owner.      *)
(***************************************************************************)
SharesAdmitted ==
  \A s \in Shares : LET share == getShare(s) IN share # None =>
    /\ share.contract \in Sound /\ share.report.of = share.contract
    /\ share.owner \in alive /\ models[share.model] # None

(***************************************************************************)
(* The pattern library holds an opted-in pattern only while the consent    *)
(* for its model is active (withActiveConsents and applyWithdrawal).       *)
(***************************************************************************)
PatternsConsented == \A t \in patterns : t.model # None => t.model \in consents

(***************************************************************************)
(* Nothing of a deleted account stays in these tables, late writers of its *)
(* own requests included (deleteAccount).                                  *)
(***************************************************************************)
NothingOfDeleted ==
  /\ \A m \in Models : models[m] # None => models[m].owner \in alive
  /\ \A t \in patterns : t.owner \in alive
=============================================================================
