-------------------------- MODULE PublishingProofs --------------------------
(***************************************************************************)
(* Machine-checked safety of what the platform publishes: the model        *)
(* registry and the marketplace, for any users, models, contracts,         *)
(* listings and quotes and any finite number of handlers in flight; and    *)
(* the release tools, for any migration directories and runners, any       *)
(* images, revisions and builds, and any deployable components.            *)
(***************************************************************************)
EXTENDS Marketplace, Migrations, RegistryPublication, PromotionLadder, FiniteSetTheorems,
        WellFoundedInduction, TLAPS

-----------------------------------------------------------------------------
(* The registry's invariant *)

\* An absent value is none of the rows, users or ids.
RegConstants ==
    None \notin ModelRow /\ None \notin ShareRow /\ None \notin Users /\ None \notin Models

Call == [st : {"idle", "edit", "share", "publish"}, user : Users \cup {None},
         model : Models \cup {None}, row : ModelRow \cup {None}]

\* A row whose status and report are about the contract it holds.
RowSound(row) ==
    /\ row.report = [of |-> row.contract, verdict |-> row.status]
    /\ row.status = "admitted" <=> row.contract \in Sound

\* The model was given out; its row, while it exists, is the user's.
Theirs(u, m) == m \in spent /\ (models[m] # None => models[m].owner = u)

\* The model exists, belongs to the user, and the user's account exists.
Standing(u, m) == u \in alive /\ m \in spent /\ models[m] # None /\ models[m].owner = u

\* What a handler of the registry holds between two statements.
CallSound(c) ==
    /\ c.st # "idle" =>
          /\ c.user \in Users /\ c.model \in Models /\ c.row \in ModelRow
          /\ RowSound(c.row) /\ Theirs(c.user, c.model)
    /\ c.st = "share" => c.row.status = "admitted"

CallsSound == calls \in [Calls -> Call] /\ \A p \in Calls : CallSound(calls[p])

RowsSound ==
    \A m \in Models : models[m] # None =>
        RowSound(models[m]) /\ m \in spent /\ models[m].owner \in alive

SharesSound ==
    \A s \in Shares : shares[s] # None =>
        /\ Standing(shares[s].owner, shares[s].model)
        /\ shares[s].contract \in Sound /\ shares[s].report.of = shares[s].contract

PatternsSound ==
    /\ \A m \in consents : models[m] # None
    /\ \A t \in patterns : t.model \in consents /\ Standing(t.owner, t.model)

RegInv == RegTypeOK /\ CallsSound /\ RowsSound /\ SharesSound /\ PatternsSound

-----------------------------------------------------------------------------
(* The marketplace's invariant *)

MarketConstants ==
    /\ RegConstants /\ IsFiniteSet(MarketCalls)
    /\ None \notin Listings \cup Quotes /\ None \notin Kinds
    /\ None \notin [owner : Users, model : Models, kind : Kinds, status : ListingStatus,
                    report : Report]
    /\ None \notin [by : Users, target : Listings, repeat : BOOLEAN,
                    status : {"open", "triaged", "actioned", "rejected"}]
    /\ None \notin [owner : Users, model : Models]

MCall == [st : {"idle", "gate", "insert", "signoff", "delist", "usage", "quote", "offer"},
          user : Users \cup {None}, model : Models \cup {None}, row : ModelRow \cup {None},
          kind : Kinds \cup {None}, id : Listings \cup Quotes \cup {None}]

Accepted == \E i \in DOMAIN gate : gate[i] = "accepted"

\* What a handler holds between two statements.
MCallHolds(c) ==
    /\ c.st \in {"gate", "insert", "signoff", "quote"} =>
          c.user \in Users /\ c.model \in Models /\ Theirs(c.user, c.model)
    /\ c.st \in {"gate", "insert", "signoff"} =>
          /\ c.row \in ModelRow /\ RowSound(c.row) /\ c.row.status = "admitted"
          /\ c.kind \in Kinds
          /\ c.st # "gate" /\ c.kind = "policy" => Accepted
    /\ c.st \in {"signoff", "delist", "usage"} => c.id \in Listings
    /\ c.st = "offer" => c.id \in Quotes

\* A signoff is about to be recorded for a listing of the handler's user.
MCallSound(c) ==
    /\ MCallHolds(c)
    /\ c.st = "signoff" /\ c.user \in alive =>
          listings[c.id] # None /\ listings[c.id].owner = c.user

MCallsSound == mcalls \in [MarketCalls -> MCall] /\ \A p \in MarketCalls : MCallSound(mcalls[p])

ListingsSound ==
    /\ \A l \in Listings : listings[l] # None =>
          /\ Standing(listings[l].owner, listings[l].model)
          /\ listings[l].report.verdict = "admitted" /\ listings[l].report.of \in Sound
          /\ listings[l].kind = "policy" => Accepted
    /\ \A l \in Listings : signoffs[l] # None =>
          listings[l] # None /\ listings[l].owner = signoffs[l]

QuotesSound ==
    /\ \A q \in Quotes : quotes[q] # None => Standing(quotes[q].owner, quotes[q].model)
    /\ OffersHaveRequest
    /\ \A i \in ReportIds : modReports[i] # None => modReports[i].by \in alive

\* The usage events a listing's rollup has counted and nobody has written yet.
Pending(l) == {p \in MarketCalls : mcalls[p].st = "usage" /\ mcalls[p].id = l}
UsageCounted ==
    \A l \in Listings : listings[l] # None => events[l] + Cardinality(Pending(l)) <= rollups[l]

MarketInv ==
    /\ RegInv /\ MarketTypeOK /\ MCallsSound /\ ListingsSound /\ QuotesSound /\ UsageCounted

-----------------------------------------------------------------------------
(* What the steps of the registry leave of its rows *)

\* Rows that were given out stay with their owners.
Keeps ==
    /\ alive' = alive /\ spent \subseteq spent'
    /\ \A m \in spent : /\ models'[m] = None <=> models[m] = None
                        /\ models[m] # None => models'[m].owner = models[m].owner

\* Every report the validator writes is about its contract.
LEMMA ReportOf ==
    ASSUME NEW c \in Contracts, NEW asDraft \in BOOLEAN
    PROVE  /\ runValidator(c, asDraft) \in Report
           /\ runValidator(c, asDraft).of = c
           /\ reportVerdict(runValidator(c, asDraft)) \in {"admitted", "draft", "rejected"}
           /\ reportVerdict(runValidator(c, asDraft)) = "admitted" <=> c \in Sound
           /\ runValidator(c, asDraft) =
                [of |-> c, verdict |-> reportVerdict(runValidator(c, asDraft))]
  BY DEF runValidator, verdictOf, reportVerdict, Report

\* A row that was read is a row of its owner.
LEMMA RowRead ==
    ASSUME RegConstants, RegInv, NEW u \in Users, NEW m \in Models, getOwnedModel(u, m) # None
    PROVE  /\ getOwnedModel(u, m) = models[m] /\ models[m] \in ModelRow /\ models[m] # None
           /\ RowSound(models[m]) /\ Standing(u, m) /\ Theirs(u, m)
  BY DEF RegInv, RegTypeOK, RowsSound, getOwnedModel, owns, Standing, Theirs

\* An edit leaves a sound row of the same owner, or no row where there was none.
LEMMA RowEdited ==
    ASSUME RegConstants, RegInv, NEW m \in Models, NEW c \in Contracts,
           models' = [models EXCEPT ![m] =
               IF @ = None THEN None
               ELSE LET report == runValidator(c, TRUE)
                    IN [@ EXCEPT !.status = reportVerdict(report), !.contract = c,
                                 !.report = report]]
    PROVE  /\ models' \in [Models -> ModelRow \cup {None}]
           /\ \A n \in Models : n # m => models'[n] = models[n]
           /\ models[m] = None => models'[m] = None
           /\ models[m] # None => /\ models'[m] # None /\ RowSound(models'[m])
                                  /\ models'[m].owner = models[m].owner
<1> DEFINE report == runValidator(c, TRUE)
           row == [models[m] EXCEPT !.status = reportVerdict(report), !.contract = c,
                                    !.report = report]
<1>1. models \in [Models -> ModelRow \cup {None}]
  BY DEF RegInv, RegTypeOK
<1>2. CASE models[m] = None
  <2>1. models' = [models EXCEPT ![m] = None]
    BY <1>2
  <2> QED
    BY <1>1, <1>2, <2>1
<1>3. CASE models[m] # None
  <2>1. models' = [models EXCEPT ![m] = row]
    BY <1>3
  <2>2. models[m] \in ModelRow
    BY <1>1, <1>3
  <2>3. /\ report \in Report /\ report = [of |-> c, verdict |-> reportVerdict(report)]
        /\ reportVerdict(report) \in {"admitted", "draft", "rejected"}
        /\ reportVerdict(report) = "admitted" <=> c \in Sound
    BY ReportOf
  <2>4. row \in ModelRow /\ row.owner = models[m].owner /\ row.contract = c
        /\ row.status = reportVerdict(report) /\ row.report = report
    BY <2>2, <2>3 DEF ModelRow
  <2>5. RowSound(row) /\ row # None
    BY <2>3, <2>4 DEF RowSound, RegConstants
  <2> HIDE DEF row
  <2> QED
    BY <1>1, <1>3, <2>1, <2>4, <2>5
<1> QED
  BY <1>2, <1>3

\* Publishing a model changes neither its contract nor its owner.
LEMMA RowPublished ==
    ASSUME RegConstants, RegInv, NEW m \in Models,
           models' = [models EXCEPT ![m] =
               IF @ = None THEN None ELSE [@ EXCEPT !.visibility = "unlisted"]]
    PROVE  /\ models' \in [Models -> ModelRow \cup {None}]
           /\ \A n \in Models : n # m => models'[n] = models[n]
           /\ models[m] = None => models'[m] = None
           /\ models[m] # None => /\ models'[m] # None /\ RowSound(models'[m])
                                  /\ models'[m].owner = models[m].owner
<1> DEFINE row == [models[m] EXCEPT !.visibility = "unlisted"]
<1>1. models \in [Models -> ModelRow \cup {None}]
  BY DEF RegInv, RegTypeOK
<1>2. CASE models[m] = None
  <2>1. models' = [models EXCEPT ![m] = None]
    BY <1>2
  <2> QED
    BY <1>1, <1>2, <2>1
<1>3. CASE models[m] # None
  <2>1. models' = [models EXCEPT ![m] = row]
    BY <1>3
  <2>2. models[m] \in ModelRow /\ RowSound(models[m])
    BY <1>1, <1>3 DEF RegInv, RowsSound
  <2>3. row \in ModelRow /\ row.owner = models[m].owner /\ row.contract = models[m].contract
        /\ row.status = models[m].status /\ row.report = models[m].report
    BY <2>2 DEF ModelRow
  <2>4. RowSound(row) /\ row # None
    BY <2>2, <2>3 DEF RowSound, RegConstants
  <2> HIDE DEF row
  <2> QED
    BY <1>1, <1>3, <2>1, <2>3, <2>4
<1> QED
  BY <1>2, <1>3

-----------------------------------------------------------------------------
(* The steps of the registry keep its invariant *)

\* Where rows keep their owners, shares and patterns keep their models.
LEMMA KeepsRest ==
    ASSUME RegInv, Keeps, UNCHANGED <<shares, patterns, consents>>
    PROVE  SharesSound' /\ PatternsSound'
<1>1. SharesSound'
  BY DEF RegInv, SharesSound, Standing, Keeps
<1>2. ASSUME NEW m \in consents PROVE models'[m] # None
  BY <1>2 DEF RegInv, RegTypeOK, PatternsSound, RowsSound, Keeps
<1> QED
  BY <1>1, <1>2 DEF RegInv, PatternsSound, Standing, Keeps

\* The handlers keep what they hold.
LEMMA KeepsCalls ==
    ASSUME RegInv, Keeps, UNCHANGED calls
    PROVE  CallsSound'
  BY DEF RegInv, CallsSound, CallSound, Theirs, Keeps

\* One handler goes on.
LEMMA KeepsCall ==
    ASSUME RegInv, Keeps, NEW p \in Calls, NEW c \in Call, calls' = [calls EXCEPT ![p] = c],
           c.st # "idle" =>
             /\ c.user \in Users /\ c.model \in Models /\ c.row \in ModelRow
             /\ RowSound(c.row) /\ Theirs(c.user, c.model),
           c.st = "share" => c.row.status = "admitted"
    PROVE  CallsSound' /\ (\A q \in Calls : calls[q].row \in ModelRow \cup {None})'
<1>1. calls \in [Calls -> Call] /\ \A q \in Calls : CallSound(calls[q])
  BY DEF RegInv, CallsSound
<1>2. calls' \in [Calls -> Call] /\ calls'[p] = c /\ \A q \in Calls : q # p => calls'[q] = calls[q]
  BY <1>1
<1>3. ASSUME NEW q \in Calls PROVE CallSound(calls[q])'
  <2>1. CASE q = p
    BY <1>2, <2>1 DEF CallSound, Theirs, Keeps
  <2>2. CASE q # p
    BY <1>1, <1>2, <2>2 DEF CallSound, Theirs, Keeps
  <2> QED
    BY <2>1, <2>2
<1>4. \A q \in Calls : calls'[q].row \in ModelRow \cup {None}
  BY <1>2 DEF Call
<1> QED
  BY <1>2, <1>3, <1>4 DEF CallsSound

LEMMA IdleCall == Idle \in Call /\ Idle.st = "idle" /\ Idle.row = None
  BY DEF Idle, Call

LEMMA CreateKeeps ==
    ASSUME RegConstants, RegInv, NEW u \in Users, NEW m \in Models, NEW c \in Contracts,
           NEW asDraft \in BOOLEAN, createModel(u, m, c, asDraft)
    PROVE  RegInv' /\ Keeps
<1> DEFINE report == runValidator(c, asDraft)
           row == [owner |-> u, status |-> reportVerdict(report), visibility |-> "private",
                   contract |-> c, report |-> report]
<1>1. /\ models' = [models EXCEPT ![m] = row] /\ spent' = spent \cup {m} /\ m \notin spent
      /\ u \in alive /\ UNCHANGED <<alive, shares, patterns, consents, calls>>
  BY DEF createModel, insertModel
<1>2. /\ report \in Report /\ report = [of |-> c, verdict |-> reportVerdict(report)]
      /\ reportVerdict(report) \in {"admitted", "draft", "rejected"}
      /\ reportVerdict(report) = "admitted" <=> c \in Sound
  BY ReportOf
<1>3. row \in ModelRow /\ RowSound(row) /\ row.owner = u
  BY <1>2 DEF ModelRow, RowSound
<1>4. models \in [Models -> ModelRow \cup {None}] /\ spent \subseteq Models
  BY DEF RegInv, RegTypeOK
<1> HIDE DEF row
<1>5. models' \in [Models -> ModelRow \cup {None}] /\ models'[m] = row
      /\ \A n \in Models : n # m => models'[n] = models[n]
  BY <1>1, <1>3, <1>4
<1>6. Keeps
  BY <1>1, <1>4, <1>5 DEF Keeps
<1>7. RowsSound'
  BY <1>1, <1>3, <1>5 DEF RegInv, RowsSound, RowSound
<1>8. RegTypeOK'
  BY <1>1, <1>4, <1>5 DEF RegInv, RegTypeOK
<1> QED
  BY <1>1, <1>6, <1>7, <1>8, KeepsRest, KeepsCalls DEF RegInv

\* Reading, failing and writing a row back.
LEMMA ReadKeeps ==
    ASSUME RegConstants, RegInv, NEW p \in Calls, NEW u \in Users, NEW m \in Models,
           editRead(p, u, m) \/ shareRead(p, u, m)
    PROVE  RegInv' /\ Keeps
<1>1. /\ getOwnedModel(u, m) # None
      /\ UNCHANGED <<alive, models, spent, shares, patterns, consents>>
  BY DEF editRead, shareRead
<1>2. /\ getOwnedModel(u, m) = models[m] /\ models[m] \in ModelRow /\ RowSound(models[m])
      /\ Theirs(u, m)
  BY <1>1, RowRead
<1>3. PICK st \in {"edit", "share"} :
        /\ calls' = [calls EXCEPT ![p] = [st |-> st, user |-> u, model |-> m, row |-> models[m]]]
        /\ st = "share" => models[m].status = "admitted"
  BY <1>2 DEF editRead, shareRead, Hold
<1>4. [st |-> st, user |-> u, model |-> m, row |-> models[m]] \in Call
  BY <1>2 DEF Call
<1>5. Keeps
  BY <1>1 DEF Keeps
<1>6. CallsSound' /\ (\A q \in Calls : calls[q].row \in ModelRow \cup {None})'
  BY <1>2, <1>3, <1>4, <1>5, KeepsCall
<1>7. RowsSound'
  BY <1>1 DEF RegInv, RowsSound
<1>8. RegTypeOK'
  BY <1>1, <1>6 DEF RegInv, RegTypeOK
<1> QED
  BY <1>1, <1>5, <1>6, <1>7, <1>8, KeepsRest DEF RegInv

LEMMA FailKeeps ==
    ASSUME RegConstants, RegInv, NEW p \in Calls, CallFails(p)
    PROVE  RegInv' /\ Keeps
<1>1. /\ calls' = [calls EXCEPT ![p] = Idle]
      /\ UNCHANGED <<alive, models, spent, shares, patterns, consents>>
  BY DEF CallFails, Release
<1>2. Keeps
  BY <1>1 DEF Keeps
<1>3. CallsSound' /\ (\A q \in Calls : calls[q].row \in ModelRow \cup {None})'
  BY <1>1, <1>2, IdleCall, KeepsCall
<1>4. RowsSound'
  BY <1>1 DEF RegInv, RowsSound
<1>5. RegTypeOK'
  BY <1>1, <1>3 DEF RegInv, RegTypeOK
<1> QED
  BY <1>1, <1>2, <1>3, <1>4, <1>5, KeepsRest DEF RegInv

LEMMA WriteKeeps ==
    ASSUME RegConstants, RegInv, NEW p \in Calls,
           sharePublish(p) \/ \E c \in Contracts : updateModelContract(p, c)
    PROVE  RegInv' /\ Keeps
<1> DEFINE m == calls[p].model
<1>1. /\ calls[p].st # "idle" /\ calls' = [calls EXCEPT ![p] = Idle]
      /\ UNCHANGED <<alive, spent, shares, patterns, consents>>
  BY DEF sharePublish, updateModelContract, Release
<1>2. m \in Models
  BY <1>1 DEF RegInv, CallsSound, CallSound
<1>3. /\ models' \in [Models -> ModelRow \cup {None}]
      /\ \A n \in Models : n # m => models'[n] = models[n]
      /\ models[m] = None => models'[m] = None
      /\ models[m] # None => /\ models'[m] # None /\ RowSound(models'[m])
                             /\ models'[m].owner = models[m].owner
  <2>1. CASE sharePublish(p)
    BY <1>2, <2>1, RowPublished DEF sharePublish
  <2>2. CASE \E c \in Contracts : updateModelContract(p, c)
    BY <1>2, <2>2, RowEdited DEF updateModelContract
  <2> QED
    BY <2>1, <2>2
<1> HIDE DEF m
<1>4. Keeps
  BY <1>1, <1>2, <1>3 DEF Keeps, RegInv, RegTypeOK
<1>5. CallsSound' /\ (\A q \in Calls : calls[q].row \in ModelRow \cup {None})'
  BY <1>1, <1>4, IdleCall, KeepsCall
<1>6. RowsSound'
  <2> SUFFICES ASSUME NEW n \in Models, models'[n] # None
               PROVE  RowSound(models'[n]) /\ n \in spent /\ models'[n].owner \in alive
    BY <1>1 DEF RowsSound, RowSound
  <2>1. models[n] # None
    BY <1>2, <1>3
  <2>2. RowSound(models[n]) /\ n \in spent /\ models[n].owner \in alive
    BY <2>1 DEF RegInv, RowsSound
  <2> QED
    BY <1>2, <1>3, <2>1, <2>2
<1>7. RegTypeOK'
  BY <1>1, <1>3, <1>5 DEF RegInv, RegTypeOK
<1> QED
  BY <1>1, <1>4, <1>5, <1>6, <1>7, KeepsRest DEF RegInv

\* A snapshot is of the admitted row that was read, for a model that still exists.
LEMMA ShareKeeps ==
    ASSUME RegConstants, RegInv, NEW p \in Calls, NEW s \in Shares, shareInsert(p, s)
    PROVE  RegInv' /\ Keeps
<1> DEFINE call == calls[p]
           snapshot == [model |-> call.model, owner |-> call.user,
                        contract |-> call.row.contract, report |-> call.row.report]
<1>1. /\ call.st = "share" /\ call.user \in alive /\ models[call.model] # None
      /\ shares' = [shares EXCEPT ![s] = snapshot]
      /\ calls' = [calls EXCEPT ![p].st = "publish"]
      /\ UNCHANGED <<alive, models, spent, patterns, consents>>
  BY DEF shareInsert
<1>2. /\ call \in Call /\ call.user \in Users /\ call.model \in Models
      /\ call.row \in ModelRow /\ RowSound(call.row) /\ Theirs(call.user, call.model)
      /\ call.row.status = "admitted"
  BY <1>1 DEF RegInv, CallsSound, CallSound
<1>3. snapshot \in ShareRow /\ Standing(snapshot.owner, snapshot.model)
      /\ snapshot.contract \in Sound /\ snapshot.report.of = snapshot.contract
  BY <1>1, <1>2 DEF ShareRow, ModelRow, RowSound, Standing, Theirs
<1>4. Keeps
  BY <1>1 DEF Keeps
<1>5. CallsSound' /\ (\A q \in Calls : calls[q].row \in ModelRow \cup {None})'
  <2>1. [call EXCEPT !.st = "publish"] \in Call
    BY <1>2 DEF Call
  <2>2. calls' = [calls EXCEPT ![p] = [call EXCEPT !.st = "publish"]]
    BY <1>1 DEF RegInv, CallsSound
  <2>3. /\ [call EXCEPT !.st = "publish"].st = "publish"
        /\ [call EXCEPT !.st = "publish"].user = call.user
        /\ [call EXCEPT !.st = "publish"].model = call.model
        /\ [call EXCEPT !.st = "publish"].row = call.row
    BY <1>2 DEF Call
  <2> QED
    BY <1>2, <1>4, <2>1, <2>2, <2>3, KeepsCall
<1> HIDE DEF snapshot
<1>6. shares \in [Shares -> ShareRow \cup {None}]
  BY DEF RegInv, RegTypeOK
<1>7. shares' \in [Shares -> ShareRow \cup {None}] /\ shares'[s] = snapshot
      /\ \A t \in Shares : t # s => shares'[t] = shares[t]
  BY <1>1, <1>3, <1>6
<1>8. SharesSound'
  BY <1>1, <1>3, <1>7 DEF RegInv, SharesSound, Standing
<1>9. RowsSound' /\ PatternsSound'
  BY <1>1 DEF RegInv, RowsSound, PatternsSound, Standing
<1>10. RegTypeOK'
  BY <1>1, <1>5, <1>7 DEF RegInv, RegTypeOK
<1> QED
  BY <1>4, <1>5, <1>8, <1>9, <1>10 DEF RegInv

\* Consents and the patterns under them.
LEMMA ConsentKeeps ==
    ASSUME RegConstants, RegInv, NEW u \in Users, NEW m \in Models,
           GrantConsent(u, m) \/ WithdrawConsent(u, m) \/ contributePattern(u, m)
    PROVE  RegInv' /\ Keeps
<1>1. UNCHANGED <<alive, models, spent, shares, calls>>
  BY DEF GrantConsent, WithdrawConsent, contributePattern
<1>2. Keeps /\ CallsSound' /\ RowsSound' /\ SharesSound'
  BY <1>1
     DEF Keeps, RegInv, CallsSound, CallSound, Theirs, RowsSound, SharesSound, Standing
<1>3. patterns' \subseteq [owner : Users, model : Models \cup {None}, contract : Contracts]
      /\ consents' \subseteq Models /\ PatternsSound'
  <2>1. CASE GrantConsent(u, m)
    BY <1>1, <2>1 DEF GrantConsent, owns, RegInv, RegTypeOK, PatternsSound, Standing
  <2>2. CASE WithdrawConsent(u, m)
    <3>1. \A t \in patterns : t.model = m => t.owner = u
      BY <2>2 DEF WithdrawConsent, owns, RegInv, PatternsSound, Standing
    <3> QED
      BY <1>1, <2>2, <3>1 DEF WithdrawConsent, RegInv, RegTypeOK, PatternsSound, Standing
  <2>3. CASE contributePattern(u, m)
    <3>1. models[m] \in ModelRow /\ Standing(u, m) /\ m \in consents /\ consents' = consents
      BY <2>3, RowRead DEF contributePattern
    <3>2. [owner |-> u, model |-> m, contract |-> models[m].contract] \in
             [owner : Users, model : Models \cup {None}, contract : Contracts]
      BY <3>1 DEF ModelRow
    <3>3. patterns' = patterns
          \/ patterns' = patterns \cup {[owner |-> u, model |-> m, contract |-> models[m].contract]}
      BY <2>3 DEF contributePattern
    <3>4. \A t \in patterns' : t.model \in consents /\ Standing(t.owner, t.model)
      BY <3>1, <3>3 DEF RegInv, PatternsSound
    <3> QED
      BY <1>1, <3>1, <3>2, <3>3, <3>4 DEF RegInv, RegTypeOK, PatternsSound, Standing
  <2> QED
    BY <2>1, <2>2, <2>3
<1>4. RegTypeOK'
  BY <1>1, <1>3 DEF RegInv, RegTypeOK
<1> QED
  BY <1>2, <1>3, <1>4 DEF RegInv

\* Account deletion takes the user's rows and what belongs to them, and nothing else.
LEMMA DeleteKeeps ==
    ASSUME RegConstants, RegInv, NEW u \in Users, DeleteAccount(u)
    PROVE  RegInv'
<1>1. /\ alive' = alive \ {u} /\ UNCHANGED <<spent, calls>>
      /\ models' = [m \in Models |-> IF owns(u, m) THEN None ELSE models[m]]
      /\ consents' = {m \in consents : ~owns(u, m)}
      /\ shares' = [s \in Shares |-> IF shares[s] # None /\ shares[s].owner = u THEN None
                                     ELSE shares[s]]
      /\ patterns' = {t \in patterns : t.owner # u}
  BY DEF DeleteAccount, ModelsLeft
<1>2. \A m \in Models : models'[m] # None => models'[m] = models[m] /\ models[m].owner # u
  BY <1>1 DEF owns
<1>3. CallsSound'
  BY <1>1, <1>2 DEF RegInv, CallsSound, CallSound, Theirs
<1>4. RowsSound'
  BY <1>1, <1>2 DEF RegInv, RowsSound
<1>5. shares' \in [Shares -> ShareRow \cup {None}]
      /\ \A s \in Shares : shares'[s] # None => shares'[s] = shares[s] /\ shares[s].owner # u
  BY <1>1 DEF RegInv, RegTypeOK
<1>6. SharesSound'
  <2> SUFFICES ASSUME NEW s \in Shares, shares'[s] # None
               PROVE  /\ Standing(shares[s].owner, shares[s].model)'
                      /\ shares'[s].contract \in Sound
                      /\ shares'[s].report.of = shares'[s].contract
    BY DEF SharesSound
  <2>1. shares'[s] = shares[s] /\ shares[s].owner # u /\ shares[s] # None
    BY <1>5
  <2>2. shares[s].model \in Models
    BY <2>1 DEF RegInv, RegTypeOK, ShareRow
  <2>3. Standing(shares[s].owner, shares[s].model) /\ shares[s].contract \in Sound
        /\ shares[s].report.of = shares[s].contract
    BY <2>1 DEF RegInv, SharesSound
  <2> QED
    BY <1>1, <2>1, <2>2, <2>3 DEF Standing, owns
<1>7. PatternsSound'
  <2>1. \A m \in consents' : models'[m] # None
    BY <1>1 DEF RegInv, RegTypeOK, PatternsSound
  <2>2. ASSUME NEW t \in patterns'
        PROVE  t.model \in consents' /\ Standing(t.owner, t.model)'
    <3>1. t \in patterns /\ t.owner # u /\ t.model \in consents /\ Standing(t.owner, t.model)
          /\ t.model \in Models
      BY <1>1, <2>2 DEF RegInv, RegTypeOK, PatternsSound
    <3> QED
      BY <1>1, <3>1 DEF Standing, owns
  <2> QED
    BY <2>1, <2>2 DEF PatternsSound, Standing
<1>8. RegTypeOK'
  BY <1>1, <1>5 DEF RegInv, RegTypeOK
<1> QED
  BY <1>3, <1>4, <1>6, <1>7, <1>8 DEF RegInv

LEMMA RegInvInit == RegConstants /\ RegInit => RegInv
  BY IdleCall
     DEF RegInit, RegInv, RegTypeOK, CallsSound, CallSound, RowsSound, SharesSound,
         PatternsSound, RegConstants

\* Every step but a deletion keeps the invariant and the owners of the rows.
LEMMA RegStepKeeps ==
    ASSUME RegConstants, RegInv, RegStep
    PROVE  RegInv' /\ Keeps
  BY CreateKeeps, ReadKeeps, FailKeeps, WriteKeeps, ShareKeeps, ConsentKeeps DEF RegStep

LEMMA RegInvStep == RegConstants /\ RegInv /\ [RegNext]_regVars => RegInv'
<1> SUFFICES ASSUME RegConstants, RegInv, [RegNext]_regVars PROVE RegInv'
  OBVIOUS
<1>1. CASE RegNext
  BY <1>1, RegStepKeeps, DeleteKeeps DEF RegNext
<1>2. CASE UNCHANGED regVars
  BY <1>2
     DEF regVars, RegInv, RegTypeOK, CallsSound, CallSound, Theirs, RowsSound,
         SharesSound, PatternsSound, Standing
<1> QED
  BY <1>1, <1>2

\* What the invariant says of the registry.
LEMMA RegMeaning ==
    ASSUME RegConstants, RegInv
    PROVE  /\ RegTypeOK /\ StatusOfContract /\ SharesAdmitted /\ PatternsConsented
           /\ NothingOfDeleted
<1>1. StatusOfContract
  <2> SUFFICES ASSUME NEW m \in Models, models[m] # None
               PROVE  /\ models[m].report.of = models[m].contract
                      /\ models[m].status = "admitted" <=> models[m].contract \in Sound
    BY DEF StatusOfContract
  <2>1. RowSound(models[m])
    BY DEF RegInv, RowsSound
  <2> QED
    BY <2>1 DEF RowSound
<1>2. SharesAdmitted
  BY DEF RegInv, SharesSound, Standing, SharesAdmitted, getShare
<1>3. PatternsConsented /\ NothingOfDeleted
  BY DEF RegInv, RowsSound, PatternsSound, Standing, PatternsConsented, NothingOfDeleted
<1> QED
  BY <1>1, <1>2, <1>3 DEF RegInv

\* RegTypeOK, StatusOfContract, SharesAdmitted, PatternsConsented and NothingOfDeleted
\* for any number of edits, shares and deletions in flight (the model routes, consent.ts,
\* deleteAccount).
THEOREM RegistryTruthful ==
    ASSUME RegConstants
    PROVE  RegSpec => [](RegTypeOK /\ StatusOfContract /\ SharesAdmitted
                           /\ PatternsConsented /\ NothingOfDeleted)
<1>1. RegInit => RegInv
  BY RegInvInit
<1>2. RegInv /\ [RegNext]_regVars => RegInv'
  BY RegInvStep
<1>3. RegInv => /\ RegTypeOK /\ StatusOfContract /\ SharesAdmitted /\ PatternsConsented
                /\ NothingOfDeleted
  BY RegMeaning
<1> QED
  BY <1>1, <1>2, <1>3, PTL DEF RegSpec

-----------------------------------------------------------------------------
(* The steps of the marketplace *)

\* What no step takes from a handler: rows change neither owner nor life, deletions
\* aside; an acceptance of the gate stays on record; listings live as long as their owners.
MKeeps ==
    /\ spent \subseteq spent' /\ alive' \subseteq alive
    /\ \A m \in spent : models'[m] # None =>
          models[m] # None /\ models'[m].owner = models[m].owner
    /\ Accepted => Accepted'
    /\ \A l \in Listings : listings[l] # None /\ listings[l].owner \in alive' =>
          listings'[l] # None /\ listings'[l].owner = listings[l].owner

LEMMA MKeepsOne ==
    ASSUME MKeeps, NEW c, MCallHolds(c),
           c.st = "signoff" /\ c.user \in alive' =>
               listings'[c.id] # None /\ listings'[c.id].owner = c.user
    PROVE  MCallSound(c)'
  BY DEF MKeeps, MCallHolds, MCallSound, Theirs

LEMMA MKeepsSame ==
    ASSUME MKeeps, NEW c, MCallSound(c)
    PROVE  MCallSound(c)'
<1>1. c.st = "signoff" /\ c.user \in alive' =>
         listings'[c.id] # None /\ listings'[c.id].owner = c.user
  BY DEF MKeeps, MCallSound, MCallHolds
<1> QED
  BY <1>1, MKeepsOne DEF MCallSound

LEMMA MKeepsCalls == MarketInv /\ MKeeps /\ UNCHANGED mcalls => MCallsSound'
<1> SUFFICES ASSUME MarketInv, MKeeps, UNCHANGED mcalls PROVE MCallsSound'
  OBVIOUS
<1>1. ASSUME NEW p \in MarketCalls PROVE MCallSound(mcalls[p])'
  <2>1. PICK c : c = mcalls[p]
    OBVIOUS
  <2>2. MCallSound(c)'
    BY <2>1, MKeepsSame DEF MarketInv, MCallsSound
  <2> QED
    BY <2>1, <2>2 DEF MCallSound, MCallHolds, Theirs, Accepted
<1> QED
  BY <1>1 DEF MarketInv, MCallsSound

\* One handler goes on.
LEMMA MKeepsCall ==
    ASSUME MarketInv, MKeeps, NEW p \in MarketCalls, NEW c \in MCall, MCallHolds(c),
           c.st = "signoff" /\ c.user \in alive' =>
               listings'[c.id] # None /\ listings'[c.id].owner = c.user,
           mcalls' = [mcalls EXCEPT ![p] = c]
    PROVE  MCallsSound'
<1>1. mcalls \in [MarketCalls -> MCall] /\ \A q \in MarketCalls : MCallSound(mcalls[q])
  BY DEF MarketInv, MCallsSound
<1>2. /\ mcalls' \in [MarketCalls -> MCall] /\ mcalls'[p] = c
      /\ \A q \in MarketCalls : q # p => mcalls'[q] = mcalls[q]
  BY <1>1
<1>3. ASSUME NEW q \in MarketCalls PROVE MCallSound(mcalls[q])'
  <2>1. PICK d : d = mcalls'[q]
    OBVIOUS
  <2>2. MCallSound(d)'
    <3>1. CASE q = p
      BY <1>2, <2>1, <3>1, MKeepsOne
    <3>2. CASE q # p
      BY <1>1, <1>2, <2>1, <3>2, MKeepsSame
    <3> QED
      BY <3>1, <3>2
  <2> QED
    BY <2>1, <2>2 DEF MCallSound, MCallHolds, Theirs, Accepted
<1> QED
  BY <1>2, <1>3 DEF MCallsSound

LEMMA IdleMCall ==
    MIdle \in MCall /\ MIdle.st = "idle" /\ MCallHolds(MIdle)
  BY DEF MIdle, MCall, MCallHolds

LEMMA PendingFinite ==
    ASSUME MarketConstants, NEW l
    PROVE  IsFiniteSet(Pending(l)) /\ Cardinality(Pending(l)) \in Nat
<1>1. IsFiniteSet(Pending(l))
  BY FS_Subset DEF MarketConstants, Pending
<1> QED
  BY <1>1, FS_CardinalityType

\* A handler that does not start to record usage adds to no listing's pending events.
LEMMA PendingKept ==
    ASSUME MarketConstants, MarketInv, NEW p \in MarketCalls, NEW c, c.st # "usage",
           mcalls' = [mcalls EXCEPT ![p] = c], NEW l \in Listings
    PROVE  /\ Cardinality(Pending(l)) \in Nat /\ Cardinality(Pending(l)') \in Nat
           /\ Cardinality(Pending(l)') <= Cardinality(Pending(l))
           /\ p \in Pending(l) => Cardinality(Pending(l)') + 1 = Cardinality(Pending(l))
<1>1. mcalls \in [MarketCalls -> MCall]
  BY DEF MarketInv, MCallsSound
<1>2. Pending(l)' = Pending(l) \ {p}
  BY <1>1 DEF Pending
<1>3. IsFiniteSet(Pending(l)) /\ Cardinality(Pending(l)) \in Nat
  BY PendingFinite
<1>4. /\ IsFiniteSet(Pending(l) \ {p})
      /\ Cardinality(Pending(l) \ {p}) = IF p \in Pending(l) THEN Cardinality(Pending(l)) - 1
                                         ELSE Cardinality(Pending(l))
  BY <1>3, FS_RemoveElement
<1>5. Cardinality(Pending(l) \ {p}) \in Nat
  BY <1>4, FS_CardinalityType
<1> QED
  BY <1>2, <1>3, <1>4, <1>5

\* A step that leaves the listings, their rollups and their events alone.
LEMMA UsageKept ==
    ASSUME MarketConstants, MarketInv, NEW p \in MarketCalls, NEW c, c.st # "usage",
           mcalls' = [mcalls EXCEPT ![p] = c], UNCHANGED <<rollups, events>>,
           \A l \in Listings : listings'[l] # None => listings[l] # None
    PROVE  UsageCounted'
<1> SUFFICES ASSUME NEW l \in Listings, listings'[l] # None
             PROVE  events[l] + Cardinality(Pending(l)') <= rollups[l]
  BY DEF UsageCounted
<1>1. /\ Cardinality(Pending(l)) \in Nat /\ Cardinality(Pending(l)') \in Nat
      /\ Cardinality(Pending(l)') <= Cardinality(Pending(l))
  BY PendingKept
<1>2. events[l] + Cardinality(Pending(l)) <= rollups[l]
  BY DEF MarketInv, UsageCounted
<1>3. events[l] \in Nat /\ rollups[l] \in Nat
  BY DEF MarketInv, MarketTypeOK
<1> QED
  BY <1>1, <1>2, <1>3

\* The registry does not move.
LEMMA RegStays == MarketConstants /\ MarketInv /\ UNCHANGED regVars => RegInv'
  BY RegInvStep DEF MarketConstants, MarketInv

\* Handlers that read, pass the gate or give up change nothing but what they hold.
LEMMA HandlerStep ==
    ASSUME MarketConstants, MarketInv, NEW p \in MarketCalls, NEW c \in MCall,
           MCallHolds(c), c.st \notin {"usage", "signoff"},
           mcalls' = [mcalls EXCEPT ![p] = c],
           UNCHANGED <<regVars, gate, listings, signoffs, modReports, rollups, events, quotes,
                       offers>>
    PROVE  MarketInv'
<1>1. MKeeps
  BY DEF MKeeps, regVars, Accepted
<1>2. MCallsSound'
  BY <1>1, MKeepsCall
<1>3. UsageCounted'
  BY UsageKept
<1>4. RegInv'
  BY RegStays
<1>5. MarketTypeOK' /\ ListingsSound' /\ QuotesSound'
  BY DEF MarketInv, MarketTypeOK, ListingsSound, QuotesSound, OffersHaveRequest, Standing,
         Accepted, regVars
<1> QED
  BY <1>2, <1>3, <1>4, <1>5 DEF MarketInv

LEMMA ReadSteps ==
    ASSUME MarketConstants, MarketInv, NEW p \in MarketCalls,
           \/ MarketCallFails(p) \/ listingGate(p)
           \/ \E u \in Users, m \in Models : \/ assertAdmittedModelReference(p, u, m)
                                             \/ \E k \in Kinds : listingRead(p, u, m, k)
    PROVE  MarketInv'
<1>1. CASE MarketCallFails(p)
  BY <1>1, IdleMCall, HandlerStep DEF MarketCallFails, MDone
<1>2. CASE listingGate(p)
  <2>1. CASE mcalls' = [mcalls EXCEPT ![p] = MIdle]
    BY <1>2, <2>1, IdleMCall, HandlerStep DEF listingGate
  <2>2. CASE mcalls' = [mcalls EXCEPT ![p].st = "insert"] /\ currentPlatformGate = "accepted"
    <3> DEFINE c == [mcalls[p] EXCEPT !.st = "insert"]
    <3>1. mcalls[p] \in MCall /\ MCallHolds(mcalls[p]) /\ mcalls[p].st = "gate"
      BY <1>2 DEF MarketInv, MCallsSound, MCallSound, listingGate
    <3>2. Accepted
      <4>1. gate \in Seq({"blocked", "accepted", "revoked"}) /\ gate # <<>>
            /\ gate[Len(gate)] = "accepted"
        BY <2>2 DEF MarketInv, MarketTypeOK, currentPlatformGate
      <4>2. Len(gate) \in DOMAIN gate
        BY <4>1
      <4> QED
        BY <4>1, <4>2 DEF Accepted
    <3>3. /\ c \in MCall /\ c.st = "insert" /\ c.user = mcalls[p].user
          /\ c.model = mcalls[p].model /\ c.row = mcalls[p].row /\ c.kind = mcalls[p].kind
      BY <3>1 DEF MCall
    <3>4. MCallHolds(c)
      BY <3>1, <3>2, <3>3 DEF MCallHolds
    <3>5. mcalls' = [mcalls EXCEPT ![p] = c]
      BY <2>2 DEF MarketInv, MCallsSound
    <3> HIDE DEF c
    <3> QED
      BY <1>2, <3>3, <3>4, <3>5, HandlerStep DEF listingGate
  <2> QED
    BY <1>2, <2>1, <2>2 DEF listingGate, MGoto, MDone
<1>3. ASSUME NEW u \in Users, NEW m \in Models, assertAdmittedModelReference(p, u, m)
      PROVE  MarketInv'
  <2> DEFINE c == [MIdle EXCEPT !.st = "quote", !.user = u, !.model = m]
  <2>1. getOwnedModel(u, m) # None
    BY <1>3 DEF assertAdmittedModelReference
  <2>2. Theirs(u, m)
    BY <2>1, RowRead DEF MarketInv, MarketConstants
  <2>3. c \in MCall /\ c.st = "quote" /\ c.user = u /\ c.model = m
    BY DEF MIdle, MCall
  <2>4. MCallHolds(c)
    BY <2>2, <2>3 DEF MCallHolds
  <2> HIDE DEF c
  <2>5. mcalls' = [mcalls EXCEPT ![p] = c]
    BY <1>3 DEF assertAdmittedModelReference, c
  <2> QED
    BY <1>3, <2>3, <2>4, <2>5, HandlerStep DEF assertAdmittedModelReference
<1>4. ASSUME NEW u \in Users, NEW m \in Models, NEW k \in Kinds, listingRead(p, u, m, k)
      PROVE  MarketInv'
  <2> DEFINE c == [st |-> IF k = "policy" THEN "gate" ELSE "insert", user |-> u, model |-> m,
                   row |-> models[m], kind |-> k, id |-> None]
  <2>1. getOwnedModel(u, m) # None /\ getOwnedModel(u, m).status = "admitted"
    BY <1>4 DEF listingRead
  <2>2. Theirs(u, m) /\ models[m] \in ModelRow /\ RowSound(models[m])
        /\ models[m].status = "admitted"
    BY <2>1, RowRead DEF MarketInv, MarketConstants
  <2>3. c \in MCall /\ c.st \in {"gate", "insert"} /\ (k = "policy" => c.st = "gate")
    BY <2>2 DEF MCall
  <2>4. MCallHolds(c)
    BY <2>2, <2>3 DEF MCallHolds
  <2>5. mcalls' = [mcalls EXCEPT ![p] = c]
    BY <1>4 DEF listingRead
  <2> HIDE DEF c
  <2> QED
    BY <1>4, <2>3, <2>4, <2>5, HandlerStep DEF listingRead
<1> QED
  BY <1>1, <1>2, <1>3, <1>4

\* A listing goes in with the report of the row that was read, while the model exists.
LEMMA ListingStep ==
    ASSUME MarketConstants, MarketInv, NEW p \in MarketCalls, NEW l \in Listings,
           listingInsert(p, l)
    PROVE  MarketInv'
<1> DEFINE call == mcalls[p]
           new == [owner |-> call.user, model |-> call.model, kind |-> call.kind,
                   status |-> "review", report |-> call.row.report]
           c == IF call.kind = "policy" THEN [call EXCEPT !.st = "signoff", !.id = l] ELSE MIdle
<1>1. /\ call.st = "insert" /\ NewId(l) /\ call.user \in alive /\ models[call.model] # None
      /\ listings' = [listings EXCEPT ![l] = new]
      /\ UNCHANGED <<regVars, gate, signoffs, modReports, rollups, events, quotes, offers>>
  BY DEF listingInsert
<1>2. mcalls \in [MarketCalls -> MCall] /\ call \in MCall /\ MCallHolds(call)
  BY DEF MarketInv, MCallsSound, MCallSound
<1>3. mcalls' = [mcalls EXCEPT ![p] = c]
  BY <1>2 DEF listingInsert
<1>4. /\ call.user \in Users /\ call.model \in Models /\ Theirs(call.user, call.model)
      /\ call.row \in ModelRow /\ RowSound(call.row) /\ call.row.status = "admitted"
      /\ call.kind \in Kinds /\ (call.kind = "policy" => Accepted)
  BY <1>1, <1>2 DEF MCallHolds
<1>5. /\ new \in [owner : Users, model : Models, kind : Kinds, status : ListingStatus,
                  report : Report]
      /\ new.owner = call.user /\ new.model = call.model /\ new.kind = call.kind
      /\ new.report.verdict = "admitted" /\ new.report.of \in Sound
  BY <1>4 DEF ModelRow, RowSound, ListingStatus
<1>6. new # None /\ Standing(new.owner, new.model)
  BY <1>1, <1>4, <1>5 DEF MarketConstants, Standing, Theirs
<1>7. /\ c \in MCall /\ c.st \in {"idle", "signoff"} /\ MCallHolds(c)
      /\ c.st = "signoff" => c.user = call.user /\ c.id = l
  <2>1. CASE call.kind = "policy"
    <3>1. /\ c \in MCall /\ c.st = "signoff" /\ c.id = l /\ c.user = call.user
          /\ c.model = call.model /\ c.row = call.row /\ c.kind = call.kind
      BY <1>2, <2>1 DEF MCall
    <3> QED
      BY <1>4, <3>1 DEF MCallHolds
  <2>2. CASE call.kind # "policy"
    BY <2>2, IdleMCall
  <2> QED
    BY <2>1, <2>2
<1> HIDE DEF new, c
<1>8. listings \in [Listings -> [owner : Users, model : Models, kind : Kinds,
                                 status : ListingStatus, report : Report] \cup {None}]
      /\ listings[l] = None
  BY <1>1 DEF MarketInv, MarketTypeOK, NewId
<1>9. /\ listings' \in [Listings -> [owner : Users, model : Models, kind : Kinds,
                                     status : ListingStatus, report : Report] \cup {None}]
      /\ listings'[l] = new /\ \A k \in Listings : k # l => listings'[k] = listings[k]
  BY <1>1, <1>5, <1>8
<1>10. MKeeps
  BY <1>1, <1>8, <1>9 DEF MKeeps, regVars, Accepted
<1>11. MCallsSound'
  BY <1>3, <1>5, <1>6, <1>7, <1>9, <1>10, MKeepsCall
<1>12. UsageCounted'
  <2> SUFFICES ASSUME NEW k \in Listings, listings'[k] # None
               PROVE  events[k] + Cardinality(Pending(k)') <= rollups[k]
    BY <1>1 DEF UsageCounted
  <2>1. /\ Cardinality(Pending(k)) \in Nat /\ Cardinality(Pending(k)') \in Nat
        /\ Cardinality(Pending(k)') <= Cardinality(Pending(k))
    BY <1>3, <1>7, PendingKept
  <2>2. events[k] \in Nat /\ rollups[k] \in Nat
    BY DEF MarketInv, MarketTypeOK
  <2>3. CASE k = l
    <3>1. events[l] = 0 /\ Pending(l) = {}
      BY <1>1 DEF NewId, Pending
    <3>2. Cardinality(Pending(l)) = 0
      BY <3>1, FS_EmptySet
    <3> QED
      BY <2>1, <2>2, <2>3, <3>1, <3>2
  <2>4. CASE k # l
    <3>1. events[k] + Cardinality(Pending(k)) <= rollups[k]
      BY <1>9, <2>4 DEF MarketInv, UsageCounted
    <3> QED
      BY <2>1, <2>2, <3>1
  <2> QED
    BY <2>3, <2>4
<1>13. RegInv'
  BY <1>1, RegStays
<1>14. ListingsSound'
  <2>1. ASSUME NEW k \in Listings, listings'[k] # None
        PROVE  /\ Standing(listings'[k].owner, listings'[k].model)
               /\ listings'[k].report.verdict = "admitted" /\ listings'[k].report.of \in Sound
               /\ listings'[k].kind = "policy" => Accepted
    BY <1>4, <1>5, <1>6, <1>9, <2>1 DEF MarketInv, ListingsSound
  <2>2. ASSUME NEW k \in Listings, signoffs[k] # None
        PROVE  listings'[k] # None /\ listings'[k].owner = signoffs[k]
    BY <1>1, <1>9, <2>2 DEF MarketInv, ListingsSound, NewId
  <2> QED
    BY <1>1, <2>1, <2>2 DEF ListingsSound, Standing, Accepted, regVars
<1>15. MarketTypeOK' /\ QuotesSound'
  BY <1>1, <1>9
     DEF MarketInv, MarketTypeOK, QuotesSound, OffersHaveRequest, Standing, regVars
<1> QED
  BY <1>11, <1>12, <1>13, <1>14, <1>15 DEF MarketInv

\* A change of a listing's status changes nothing the invariant is about.
LEMMA StatusStep ==
    ASSUME MarketConstants, MarketInv, NEW l \in Listings, NEW st \in ListingStatus,
           listings' = [listings EXCEPT ![l] = IF @ = None THEN None ELSE [@ EXCEPT !.status = st]],
           UNCHANGED <<regVars, gate, signoffs, modReports, rollups, events, quotes, offers>>
    PROVE  MKeeps /\ RegInv' /\ MarketTypeOK' /\ ListingsSound' /\ QuotesSound'
           /\ \A k \in Listings : listings'[k] # None => listings[k] # None
<1> DEFINE Row == [owner : Users, model : Models, kind : Kinds, status : ListingStatus,
                   report : Report]
           new == [listings[l] EXCEPT !.status = st]
<1>1. listings \in [Listings -> Row \cup {None}] /\ None \notin Row
  BY DEF MarketInv, MarketTypeOK, MarketConstants
<1>2. CASE listings[l] = None
  <2>1. listings' = [listings EXCEPT ![l] = None]
    BY <1>2
  <2>2. listings' = listings
    BY <1>1, <1>2, <2>1
  <2>3. MKeeps
    BY <2>2 DEF MKeeps, Accepted, regVars
  <2>4. ListingsSound'
    BY <2>2 DEF MarketInv, ListingsSound, Standing, Accepted, regVars
  <2>5. MarketTypeOK' /\ QuotesSound'
    BY <2>2 DEF MarketInv, MarketTypeOK, QuotesSound, OffersHaveRequest, Standing, regVars
  <2> QED
    BY <2>2, <2>3, <2>4, <2>5, RegStays
<1>3. CASE listings[l] # None
  <2>1. listings' = [listings EXCEPT ![l] = new]
    BY <1>3
  <2>2. listings[l] \in Row
    BY <1>1, <1>3
  <2>3. new \in Row /\ new.owner = listings[l].owner /\ new.model = listings[l].model
        /\ new.kind = listings[l].kind /\ new.report = listings[l].report
    BY <2>2
  <2> HIDE DEF new
  <2>4. listings' \in [Listings -> Row \cup {None}] /\ listings'[l] = new /\ new # None
        /\ \A k \in Listings : k # l => listings'[k] = listings[k]
    BY <1>1, <2>1, <2>3
  <2>5. \A k \in Listings :
           /\ listings'[k] # None <=> listings[k] # None
           /\ listings'[k] # None =>
                /\ listings'[k].owner = listings[k].owner
                /\ listings'[k].model = listings[k].model
                /\ listings'[k].kind = listings[k].kind
                /\ listings'[k].report = listings[k].report
    BY <1>3, <2>3, <2>4
  <2>6. MKeeps
    BY <2>5 DEF MKeeps, Accepted, regVars
  <2>7. ListingsSound'
    BY <2>5 DEF MarketInv, ListingsSound, Standing, Accepted, regVars
  <2>8. MarketTypeOK' /\ QuotesSound'
    BY <2>4 DEF MarketInv, MarketTypeOK, QuotesSound, OffersHaveRequest, Standing, regVars
  <2> QED
    BY <2>5, <2>6, <2>7, <2>8, RegStays
<1> QED
  BY <1>2, <1>3

LEMMA CurateStep ==
    ASSUME MarketConstants, MarketInv, NEW l \in Listings,
           (\E st \in ListingStatus : curateListing(l, st))
    PROVE  MarketInv'
<1>1. PICK st \in ListingStatus : curateListing(l, st)
  OBVIOUS
<1>2. listings' = [listings EXCEPT ![l] = IF @ = None THEN None ELSE [@ EXCEPT !.status = st]]
  BY <1>1 DEF curateListing, MarketInv, MarketTypeOK
<1>3. UNCHANGED <<regVars, gate, signoffs, modReports, rollups, events, quotes, offers, mcalls>>
  BY <1>1 DEF curateListing
<1>4. /\ MKeeps /\ RegInv' /\ MarketTypeOK' /\ ListingsSound' /\ QuotesSound'
      /\ \A k \in Listings : listings'[k] # None => listings[k] # None
  BY <1>2, <1>3, StatusStep
<1>5. MCallsSound'
  BY <1>3, <1>4, MKeepsCalls
<1>6. UsageCounted'
  BY <1>3, <1>4 DEF MarketInv, UsageCounted, Pending
<1> QED
  BY <1>4, <1>5, <1>6 DEF MarketInv

LEMMA DelistStep ==
    ASSUME MarketConstants, MarketInv, NEW p \in MarketCalls, delistListing(p)
    PROVE  MarketInv'
<1>1. mcalls[p].id \in Listings
  BY DEF delistListing, MarketInv, MCallsSound, MCallSound, MCallHolds
<1>2. /\ MKeeps /\ RegInv' /\ MarketTypeOK' /\ ListingsSound' /\ QuotesSound'
      /\ \A k \in Listings : listings'[k] # None => listings[k] # None
  BY <1>1, StatusStep DEF delistListing, ListingStatus
<1>3. mcalls' = [mcalls EXCEPT ![p] = MIdle] /\ UNCHANGED <<rollups, events>>
  BY DEF delistListing, MDone
<1>4. MCallsSound' /\ UsageCounted'
  BY <1>2, <1>3, IdleMCall, MKeepsCall, UsageKept
<1> QED
  BY <1>2, <1>4 DEF MarketInv

\* The steps that leave the registry, the listings, the quotes and the gate alone.
LEMMA SignoffStep ==
    ASSUME MarketConstants, MarketInv, NEW p \in MarketCalls, signoffInsert(p)
    PROVE  MarketInv'
<1> DEFINE call == mcalls[p]
<1>1. /\ call.st = "signoff" /\ call.user \in alive
      /\ signoffs' = [signoffs EXCEPT ![call.id] = call.user]
      /\ mcalls' = [mcalls EXCEPT ![p] = MIdle]
      /\ UNCHANGED <<regVars, gate, listings, modReports, rollups, events, quotes, offers>>
  BY DEF signoffInsert, MDone
<1>2. call.user \in Users /\ call.id \in Listings
      /\ listings[call.id] # None /\ listings[call.id].owner = call.user
  BY <1>1 DEF MarketInv, MCallsSound, MCallSound, MCallHolds
<1> HIDE DEF call
<1>3. signoffs \in [Listings -> Users \cup {None}]
  BY DEF MarketInv, MarketTypeOK
<1>4. signoffs' \in [Listings -> Users \cup {None}] /\ signoffs'[call.id] = call.user
      /\ \A l \in Listings : l # call.id => signoffs'[l] = signoffs[l]
  BY <1>1, <1>2, <1>3
<1>5. MKeeps
  BY <1>1 DEF MKeeps, Accepted, regVars
<1>6. MCallsSound' /\ UsageCounted' /\ RegInv'
  BY <1>1, <1>5, IdleMCall, MKeepsCall, UsageKept, RegStays
<1>7. ListingsSound'
  BY <1>1, <1>2, <1>4 DEF MarketInv, ListingsSound, Standing, Accepted, regVars
<1>8. MarketTypeOK' /\ QuotesSound'
  BY <1>1, <1>4
     DEF MarketInv, MarketTypeOK, QuotesSound, OffersHaveRequest, Standing, regVars
<1> QED
  BY <1>6, <1>7, <1>8 DEF MarketInv

LEMMA ReportStep ==
    ASSUME MarketConstants, MarketInv, NEW u \in Users, NEW i \in ReportIds, NEW l \in Listings,
           reportListing(u, i, l)
    PROVE  MarketInv'
<1> DEFINE Row == [by : Users, target : Listings, repeat : BOOLEAN,
                   status : {"open", "triaged", "actioned", "rejected"}]
           again == \E j \in ReportIds : /\ modReports[j] # None /\ modReports[j].target = l
                                         /\ modReports[j].status # "rejected"
           row == [by |-> u, target |-> l, status |-> "open", repeat |-> again]
<1>1. /\ u \in alive /\ modReports' = [modReports EXCEPT ![i] = row]
      /\ UNCHANGED <<regVars, gate, listings, signoffs, rollups, events, quotes, offers, mcalls>>
  BY DEF reportListing
<1>2. modReports \in [ReportIds -> Row \cup {None}]
  BY DEF MarketInv, MarketTypeOK
<1>3. row \in Row /\ row.by = u
  <2>1. again \in BOOLEAN
    OBVIOUS
  <2> HIDE DEF again
  <2> QED
    BY <2>1
<1> HIDE DEF row
<1>4. modReports' \in [ReportIds -> Row \cup {None}] /\ modReports'[i] = row
      /\ \A j \in ReportIds : j # i => modReports'[j] = modReports[j]
  BY <1>1, <1>2, <1>3
<1>5. MKeeps
  BY <1>1 DEF MKeeps, Accepted, regVars
<1>6. MCallsSound' /\ RegInv'
  BY <1>1, <1>5, MKeepsCalls, RegStays
<1>7. UsageCounted'
  BY <1>1 DEF MarketInv, UsageCounted, Pending
<1>8. ListingsSound'
  BY <1>1 DEF MarketInv, ListingsSound, Standing, Accepted, regVars
<1>9. MarketTypeOK'
  BY <1>1, <1>4 DEF MarketInv, MarketTypeOK
<1>10. QuotesSound'
  BY <1>1, <1>3, <1>4 DEF MarketInv, QuotesSound, OffersHaveRequest, Standing, regVars
<1> QED
  BY <1>6, <1>7, <1>8, <1>9, <1>10 DEF MarketInv

\* A decision keeps who reported; an action that delists sets the handler on its way.
LEMMA DecideStep ==
    ASSUME MarketConstants, MarketInv, NEW p \in MarketCalls, NEW i \in ReportIds,
           NEW st \in {"open", "triaged", "actioned", "rejected"}, NEW delist \in BOOLEAN,
           decideReport(p, i, st, delist)
    PROVE  MarketInv'
<1> DEFINE Row == [by : Users, target : Listings, repeat : BOOLEAN,
                   status : {"open", "triaged", "actioned", "rejected"}]
           row == [modReports[i] EXCEPT !.status = st]
           c == [MIdle EXCEPT !.st = "delist", !.id = modReports[i].target]
<1>1. /\ modReports[i] # None /\ modReports' = [modReports EXCEPT ![i].status = st]
      /\ UNCHANGED <<regVars, gate, listings, signoffs, rollups, events, quotes, offers>>
      /\ mcalls' = mcalls \/ mcalls' = [mcalls EXCEPT ![p] = c]
  BY DEF decideReport
<1>2. modReports \in [ReportIds -> Row \cup {None}] /\ modReports[i] \in Row
  BY <1>1 DEF MarketInv, MarketTypeOK
<1>3. row \in Row /\ row.by = modReports[i].by /\ modReports[i].target \in Listings
  BY <1>2
<1>4. modReports' = [modReports EXCEPT ![i] = row]
  BY <1>1, <1>2
<1>5. c \in MCall /\ c.st = "delist" /\ MCallHolds(c)
  <2>1. c \in MCall /\ c.st = "delist" /\ c.id = modReports[i].target
    BY <1>3 DEF MIdle, MCall
  <2> QED
    BY <1>3, <2>1 DEF MCallHolds
<1> HIDE DEF row, c
<1>6. modReports' \in [ReportIds -> Row \cup {None}] /\ modReports'[i] = row
      /\ \A j \in ReportIds : j # i => modReports'[j] = modReports[j]
  BY <1>2, <1>3, <1>4
<1>7. MKeeps
  BY <1>1 DEF MKeeps, Accepted, regVars
<1>8. MCallsSound' /\ UsageCounted'
  <2>1. CASE mcalls' = mcalls
    BY <1>1, <1>7, <2>1, MKeepsCalls DEF MarketInv, UsageCounted, Pending
  <2>2. CASE mcalls' = [mcalls EXCEPT ![p] = c]
    BY <1>1, <1>5, <1>7, <2>2, MKeepsCall, UsageKept
  <2> QED
    BY <1>1, <2>1, <2>2
<1>9. ListingsSound' /\ RegInv'
  BY <1>1, RegStays DEF MarketInv, ListingsSound, Standing, Accepted, regVars
<1>10. MarketTypeOK'
  BY <1>1, <1>6 DEF MarketInv, MarketTypeOK
<1>11. QuotesSound'
  BY <1>1, <1>3, <1>6 DEF MarketInv, QuotesSound, OffersHaveRequest, Standing, regVars
<1> QED
  BY <1>8, <1>9, <1>10, <1>11 DEF MarketInv

\* Gate signoffs are only appended: an acceptance stays.
LEMMA GateStep ==
    ASSUME MarketConstants, MarketInv, NEW st \in {"blocked", "accepted", "revoked"},
           recordPlatformGateSignoff(st)
    PROVE  MarketInv'
<1>1. /\ gate' = Append(gate, st)
      /\ UNCHANGED <<regVars, listings, signoffs, modReports, rollups, events, quotes, offers,
                     mcalls>>
  BY DEF recordPlatformGateSignoff
<1>2. gate \in Seq({"blocked", "accepted", "revoked"})
  BY DEF MarketInv, MarketTypeOK
<1>3. /\ gate' \in Seq({"blocked", "accepted", "revoked"})
      /\ \A i \in DOMAIN gate : i \in DOMAIN gate' /\ gate'[i] = gate[i]
  BY <1>1, <1>2
<1>4. Accepted => Accepted'
  BY <1>3 DEF Accepted
<1>5. MKeeps
  BY <1>1, <1>4 DEF MKeeps, regVars
<1>6. MCallsSound' /\ RegInv'
  BY <1>1, <1>5, MKeepsCalls, RegStays
<1>7. UsageCounted'
  BY <1>1 DEF MarketInv, UsageCounted, Pending
<1>8. ListingsSound'
  BY <1>1, <1>4 DEF MarketInv, ListingsSound, Standing, regVars
<1>9. MarketTypeOK' /\ QuotesSound'
  BY <1>1, <1>3
     DEF MarketInv, MarketTypeOK, QuotesSound, OffersHaveRequest, Standing, regVars
<1> QED
  BY <1>6, <1>7, <1>8, <1>9 DEF MarketInv

\* The rollup counts the event before it is written.
LEMMA RollupStep ==
    ASSUME MarketConstants, MarketInv, NEW p \in MarketCalls, NEW l \in Listings,
           recordMarketplaceUsageRollup(p, l)
    PROVE  MarketInv'
<1> DEFINE c == [MIdle EXCEPT !.st = "usage", !.id = l]
<1>1. /\ mcalls[p].st = "idle" /\ rollups' = [rollups EXCEPT ![l] = @ + 1]
      /\ mcalls' = [mcalls EXCEPT ![p] = c]
      /\ UNCHANGED <<regVars, gate, listings, signoffs, modReports, events, quotes, offers>>
  BY DEF recordMarketplaceUsageRollup
<1>2. c \in MCall /\ c.st = "usage" /\ c.id = l /\ MCallHolds(c)
  <2>1. c \in MCall /\ c.st = "usage" /\ c.id = l
    BY DEF MIdle, MCall
  <2> QED
    BY <2>1 DEF MCallHolds
<1> HIDE DEF c
<1>3. MKeeps
  BY <1>1 DEF MKeeps, Accepted, regVars
<1>4. MCallsSound' /\ RegInv'
  BY <1>1, <1>2, <1>3, MKeepsCall, RegStays
<1>5. mcalls \in [MarketCalls -> MCall] /\ rollups \in [Listings -> Nat]
      /\ events \in [Listings -> Nat]
  BY DEF MarketInv, MCallsSound, MarketTypeOK
<1>6. rollups' \in [Listings -> Nat] /\ rollups'[l] = rollups[l] + 1
      /\ \A k \in Listings : k # l => rollups'[k] = rollups[k]
  BY <1>1, <1>5
<1>7. UsageCounted'
  <2> SUFFICES ASSUME NEW k \in Listings, listings[k] # None
               PROVE  events[k] + Cardinality(Pending(k)') <= rollups'[k]
    BY <1>1 DEF UsageCounted
  <2>1. events[k] + Cardinality(Pending(k)) <= rollups[k]
    BY DEF MarketInv, UsageCounted
  <2>2. IsFiniteSet(Pending(k)) /\ Cardinality(Pending(k)) \in Nat
    BY PendingFinite
  <2>3. CASE k = l
    <3>1. Pending(k)' = Pending(k) \cup {p} /\ p \notin Pending(k)
      BY <1>1, <1>2, <1>5, <2>3 DEF Pending
    <3>2. Cardinality(Pending(k) \cup {p}) = Cardinality(Pending(k)) + 1
      BY <2>2, <3>1, FS_AddElement
    <3> QED
      BY <1>5, <1>6, <2>1, <2>2, <2>3, <3>1, <3>2
  <2>4. CASE k # l
    <3>1. Pending(k)' = Pending(k)
      BY <1>1, <1>2, <1>5, <2>4 DEF Pending
    <3> QED
      BY <1>6, <2>1, <2>4, <3>1
  <2> QED
    BY <2>3, <2>4
<1>8. ListingsSound'
  BY <1>1 DEF MarketInv, ListingsSound, Standing, Accepted, regVars
<1>9. MarketTypeOK' /\ QuotesSound'
  BY <1>1, <1>6
     DEF MarketInv, MarketTypeOK, QuotesSound, OffersHaveRequest, Standing, regVars
<1> QED
  BY <1>4, <1>7, <1>8, <1>9 DEF MarketInv

LEMMA EventStep ==
    ASSUME MarketConstants, MarketInv, NEW p \in MarketCalls, recordUsageEvent(p)
    PROVE  MarketInv'
<1> DEFINE l == mcalls[p].id
<1>1. /\ mcalls[p].st = "usage" /\ events' = [events EXCEPT ![l] = @ + 1]
      /\ mcalls' = [mcalls EXCEPT ![p] = MIdle]
      /\ UNCHANGED <<regVars, gate, listings, signoffs, modReports, rollups, quotes, offers>>
  BY DEF recordUsageEvent, MDone
<1>2. l \in Listings /\ p \in Pending(l)
  BY <1>1 DEF MarketInv, MCallsSound, MCallSound, MCallHolds, Pending
<1>3. \A k \in Listings : k # l => p \notin Pending(k)
  BY DEF Pending
<1> HIDE DEF l
<1>4. MKeeps
  BY <1>1 DEF MKeeps, Accepted, regVars
<1>5. MCallsSound' /\ RegInv'
  BY <1>1, <1>4, IdleMCall, MKeepsCall, RegStays
<1>6. rollups \in [Listings -> Nat] /\ events \in [Listings -> Nat]
  BY DEF MarketInv, MarketTypeOK
<1>7. events' \in [Listings -> Nat] /\ events'[l] = events[l] + 1
      /\ \A k \in Listings : k # l => events'[k] = events[k]
  BY <1>1, <1>2, <1>6
<1>8. UsageCounted'
  <2> SUFFICES ASSUME NEW k \in Listings, listings[k] # None
               PROVE  events'[k] + Cardinality(Pending(k)') <= rollups[k]
    BY <1>1 DEF UsageCounted
  <2>1. events[k] + Cardinality(Pending(k)) <= rollups[k]
    BY DEF MarketInv, UsageCounted
  <2>2. /\ Cardinality(Pending(k)) \in Nat /\ Cardinality(Pending(k)') \in Nat
        /\ Cardinality(Pending(k)') <= Cardinality(Pending(k))
        /\ p \in Pending(k) => Cardinality(Pending(k)') + 1 = Cardinality(Pending(k))
    BY <1>1, IdleMCall, PendingKept
  <2>3. CASE k = l
    BY <1>2, <1>6, <1>7, <2>1, <2>2, <2>3
  <2>4. CASE k # l
    BY <1>6, <1>7, <2>1, <2>2, <2>4
  <2> QED
    BY <2>3, <2>4
<1>9. ListingsSound'
  BY <1>1 DEF MarketInv, ListingsSound, Standing, Accepted, regVars
<1>10. MarketTypeOK' /\ QuotesSound'
  BY <1>1, <1>7
     DEF MarketInv, MarketTypeOK, QuotesSound, OffersHaveRequest, Standing, regVars
<1> QED
  BY <1>5, <1>8, <1>9, <1>10 DEF MarketInv

LEMMA QuoteStep ==
    ASSUME MarketConstants, MarketInv, NEW p \in MarketCalls, NEW q \in Quotes,
           createPrintQuoteRequest(p, q)
    PROVE  MarketInv'
<1> DEFINE call == mcalls[p]
           row == [owner |-> call.user, model |-> call.model]
           c == [MIdle EXCEPT !.st = "offer", !.id = q]
<1>1. /\ call.st = "quote" /\ quotes[q] = None /\ call.user \in alive
      /\ models[call.model] # None /\ quotes' = [quotes EXCEPT ![q] = row]
      /\ mcalls' = [mcalls EXCEPT ![p] = c]
      /\ UNCHANGED <<regVars, gate, listings, signoffs, modReports, rollups, events, offers>>
  BY DEF createPrintQuoteRequest
<1>2. call.user \in Users /\ call.model \in Models /\ Theirs(call.user, call.model)
  BY <1>1 DEF MarketInv, MCallsSound, MCallSound, MCallHolds
<1>3. row \in [owner : Users, model : Models] /\ Standing(row.owner, row.model)
  BY <1>1, <1>2 DEF Standing, Theirs
<1>4. c \in MCall /\ c.st = "offer" /\ MCallHolds(c)
  <2>1. c \in MCall /\ c.st = "offer" /\ c.id = q
    BY DEF MIdle, MCall
  <2> QED
    BY <2>1 DEF MCallHolds
<1> HIDE DEF row, c
<1>5. quotes \in [Quotes -> [owner : Users, model : Models] \cup {None}]
  BY DEF MarketInv, MarketTypeOK
<1>6. quotes' \in [Quotes -> [owner : Users, model : Models] \cup {None}] /\ quotes'[q] = row
      /\ row # None /\ \A k \in Quotes : k # q => quotes'[k] = quotes[k]
  BY <1>1, <1>3, <1>5 DEF MarketConstants
<1>7. MKeeps
  BY <1>1 DEF MKeeps, Accepted, regVars
<1>8. MCallsSound' /\ UsageCounted' /\ RegInv'
  BY <1>1, <1>4, <1>7, MKeepsCall, UsageKept, RegStays
<1>9. ListingsSound'
  BY <1>1 DEF MarketInv, ListingsSound, Standing, Accepted, regVars
<1>10. MarketTypeOK'
  BY <1>1, <1>6 DEF MarketInv, MarketTypeOK
<1>11. QuotesSound'
  BY <1>1, <1>3, <1>6
     DEF MarketInv, MarketTypeOK, QuotesSound, OffersHaveRequest, Standing, regVars
<1> QED
  BY <1>8, <1>9, <1>10, <1>11 DEF MarketInv

LEMMA OfferStep ==
    ASSUME MarketConstants, MarketInv, NEW p \in MarketCalls, insertOffer(p)
    PROVE  MarketInv'
<1>1. /\ mcalls[p].st = "offer" /\ quotes[mcalls[p].id] # None
      /\ offers' = offers \cup {mcalls[p].id} /\ mcalls' = [mcalls EXCEPT ![p] = MIdle]
      /\ UNCHANGED <<regVars, gate, listings, signoffs, modReports, rollups, events, quotes>>
  BY DEF insertOffer, MDone
<1>2. mcalls[p].id \in Quotes
  BY <1>1 DEF MarketInv, MCallsSound, MCallSound, MCallHolds
<1>3. MKeeps
  BY <1>1 DEF MKeeps, Accepted, regVars
<1>4. MCallsSound' /\ UsageCounted' /\ RegInv'
  BY <1>1, <1>3, IdleMCall, MKeepsCall, UsageKept, RegStays
<1>5. ListingsSound'
  BY <1>1 DEF MarketInv, ListingsSound, Standing, Accepted, regVars
<1>6. MarketTypeOK' /\ QuotesSound'
  BY <1>1, <1>2
     DEF MarketInv, MarketTypeOK, QuotesSound, OffersHaveRequest, Standing, regVars
<1> QED
  BY <1>4, <1>5, <1>6 DEF MarketInv

\* The registry's own steps: rows that were given out keep their owners.
LEMMA RegistrySteps ==
    ASSUME MarketConstants, MarketInv, RegStep, UNCHANGED marketVars
    PROVE  MarketInv'
<1>1. RegInv' /\ Keeps
  BY RegStepKeeps DEF MarketInv, MarketConstants
<1>2. UNCHANGED <<gate, listings, signoffs, modReports, rollups, events, quotes, offers, mcalls>>
  BY DEF marketVars
<1>3. MKeeps
  BY <1>1, <1>2 DEF Keeps, MKeeps, Accepted
<1>4. MCallsSound'
  BY <1>2, <1>3, MKeepsCalls
<1>5. UsageCounted'
  BY <1>2 DEF MarketInv, UsageCounted, Pending
<1>7. ListingsSound'
  <2>1. ASSUME NEW l \in Listings, listings[l] # None
        PROVE  /\ Standing(listings[l].owner, listings[l].model)'
               /\ listings[l].report.verdict = "admitted" /\ listings[l].report.of \in Sound
               /\ listings[l].kind = "policy" => Accepted
    <3>1. Standing(listings[l].owner, listings[l].model)
      BY <2>1 DEF MarketInv, ListingsSound
    <3>2. Standing(listings[l].owner, listings[l].model)'
      BY <1>1, <1>2, <3>1 DEF Keeps, Standing
    <3> QED
      BY <2>1, <3>2 DEF MarketInv, ListingsSound
  <2> QED
    BY <1>2, <2>1 DEF MarketInv, ListingsSound, Accepted
<1>8. QuotesSound'
  <2>1. ASSUME NEW q \in Quotes, quotes[q] # None
        PROVE  Standing(quotes[q].owner, quotes[q].model)'
    <3>1. Standing(quotes[q].owner, quotes[q].model)
      BY <2>1 DEF MarketInv, QuotesSound
    <3> QED
      BY <1>1, <1>2, <3>1 DEF Keeps, Standing
  <2> QED
    BY <1>1, <1>2, <2>1 DEF MarketInv, QuotesSound, OffersHaveRequest, Keeps
<1>9. MarketTypeOK'
  BY <1>2 DEF MarketInv, MarketTypeOK
<1> QED
  BY <1>1, <1>4, <1>5, <1>7, <1>8, <1>9 DEF MarketInv

\* Deletion takes the user's listings and quotes with their models, and no others.
LEMMA MarketDeleteStep ==
    ASSUME MarketConstants, MarketInv, NEW u \in Users, MarketDelete(u)
    PROVE  MarketInv'
<1> DEFINE gone == {q \in Quotes : quotes[q] # None
                                   /\ (quotes[q].owner = u \/ owns(u, quotes[q].model))}
<1>1. DeleteAccount(u) /\ UNCHANGED <<gate, events, mcalls>>
  BY DEF MarketDelete
<1>2. /\ signoffs' = [l \in Listings |-> IF signoffs[l] = u THEN None ELSE signoffs[l]]
      /\ modReports' = [i \in ReportIds |->
            IF modReports[i] # None /\ modReports[i].by = u THEN None ELSE modReports[i]]
      /\ rollups' = [l \in Listings |-> IF l \in GoneListings(u) THEN 0 ELSE rollups[l]]
      /\ listings' = [l \in Listings |-> IF l \in GoneListings(u) THEN None ELSE listings[l]]
      /\ offers' = offers \ gone
      /\ quotes' = [q \in Quotes |-> IF q \in gone THEN None ELSE quotes[q]]
  BY DEF MarketDelete
<1>3. RegInv'
  BY <1>1, DeleteKeeps DEF MarketInv, MarketConstants
<1>4. /\ alive' = alive \ {u} /\ spent' = spent
      /\ models' = [m \in Models |-> IF owns(u, m) THEN None ELSE models[m]]
  BY <1>1 DEF DeleteAccount, ModelsLeft
<1>5. ASSUME NEW v \in Users, NEW m \in Models, Standing(v, m), v # u
      PROVE  Standing(v, m)' /\ ~owns(u, m)
  BY <1>4, <1>5 DEF Standing, owns
<1>6. \A l \in Listings : listings[l] # None =>
         /\ listings[l].owner \in Users /\ listings[l].model \in Models
         /\ Standing(listings[l].owner, listings[l].model)
  BY DEF MarketInv, MarketTypeOK, ListingsSound
<1>7. \A l \in Listings : listings[l] # None => (l \in GoneListings(u) <=> listings[l].owner = u)
  BY <1>5, <1>6 DEF GoneListings
<1>8. /\ \A l \in Listings : listings'[l] # None =>
            listings'[l] = listings[l] /\ listings[l] # None /\ listings[l].owner # u
      /\ \A l \in Listings : listings[l] # None /\ listings[l].owner # u =>
            listings'[l] = listings[l]
      /\ \A l \in Listings : listings'[l] # None => rollups'[l] = rollups[l]
  BY <1>2, <1>7 DEF GoneListings
<1>9. \A q \in Quotes : quotes[q] # None =>
         /\ quotes[q].owner \in Users /\ quotes[q].model \in Models
         /\ Standing(quotes[q].owner, quotes[q].model)
  BY DEF MarketInv, MarketTypeOK, QuotesSound
<1>10. \A q \in Quotes : quotes'[q] # None =>
          quotes'[q] = quotes[q] /\ quotes[q] # None /\ quotes[q].owner # u
  BY <1>2, <1>9
<1>11. MKeeps
  BY <1>1, <1>4, <1>8 DEF MKeeps, Accepted, owns, MarketInv, RegInv, RegTypeOK
<1>12. MCallsSound'
  BY <1>1, <1>11, MKeepsCalls
<1>13. UsageCounted'
  BY <1>1, <1>8 DEF MarketInv, UsageCounted, Pending
<1>14. ListingsSound'
  <2>1. ASSUME NEW l \in Listings, listings'[l] # None
        PROVE  /\ Standing(listings[l].owner, listings[l].model)'
               /\ listings'[l].report.verdict = "admitted" /\ listings'[l].report.of \in Sound
               /\ listings'[l].kind = "policy" => Accepted
    <3>1. listings'[l] = listings[l] /\ listings[l] # None /\ listings[l].owner # u
      BY <1>8, <2>1
    <3>2. Standing(listings[l].owner, listings[l].model)'
      BY <1>4, <1>6, <3>1 DEF Standing, owns
    <3> QED
      BY <3>1, <3>2 DEF MarketInv, ListingsSound
  <2>2. ASSUME NEW l \in Listings, signoffs'[l] # None
        PROVE  listings'[l] # None /\ listings'[l].owner = signoffs'[l]
    <3>1. signoffs'[l] = signoffs[l] /\ signoffs[l] # None /\ signoffs[l] # u
      BY <1>2, <2>2
    <3> QED
      BY <1>8, <3>1 DEF MarketInv, ListingsSound
  <2> QED
    BY <1>1, <2>1, <2>2 DEF ListingsSound, Accepted
<1>15. QuotesSound'
  <2>1. ASSUME NEW q \in Quotes, quotes'[q] # None
        PROVE  Standing(quotes[q].owner, quotes[q].model)'
    <3>1. quotes'[q] = quotes[q] /\ quotes[q] # None /\ quotes[q].owner # u
      BY <1>10, <2>1
    <3> QED
      BY <1>4, <1>9, <3>1 DEF Standing, owns
  <2>2. OffersHaveRequest'
    BY <1>2 DEF MarketInv, MarketTypeOK, QuotesSound, OffersHaveRequest
  <2>3. \A i \in ReportIds : modReports'[i] # None => modReports'[i].by \in alive'
    BY <1>2, <1>4 DEF MarketInv, QuotesSound
  <2> QED
    BY <2>1, <2>2, <2>3 DEF QuotesSound
<1>16. MarketTypeOK'
  <2> USE DEF MarketInv, MarketTypeOK
  <2>1. listings' \in [Listings -> [owner : Users, model : Models, kind : Kinds,
                                    status : ListingStatus, report : Report] \cup {None}]
    BY <1>2
  <2>2. signoffs' \in [Listings -> Users \cup {None}] /\ rollups' \in [Listings -> Nat]
    BY <1>2
  <2>3. modReports' \in [ReportIds -> [by : Users, target : Listings, repeat : BOOLEAN,
                                       status : {"open", "triaged", "actioned", "rejected"}]
                                      \cup {None}]
    BY <1>2
  <2>4. quotes' \in [Quotes -> [owner : Users, model : Models] \cup {None}]
        /\ offers' \subseteq Quotes
    BY <1>2
  <2> QED
    BY <1>1, <2>1, <2>2, <2>3, <2>4
<1> QED
  BY <1>3, <1>12, <1>13, <1>14, <1>15, <1>16 DEF MarketInv

-----------------------------------------------------------------------------
(* The theorem *)

LEMMA MarketInvInit == MarketConstants /\ Init => MarketInv
<1> SUFFICES ASSUME MarketConstants, Init PROVE MarketInv
  OBVIOUS
<1>1. RegInv
  BY RegInvInit DEF Init, MarketConstants
<1>2. MarketTypeOK
  BY DEF Init, MarketTypeOK
<1>3. MCallsSound
  <2>1. mcalls \in [MarketCalls -> MCall] /\ \A p \in MarketCalls : mcalls[p] = MIdle
    BY IdleMCall DEF Init
  <2> QED
    BY <2>1, IdleMCall DEF MCallsSound, MCallSound
<1>4. ListingsSound /\ QuotesSound /\ UsageCounted
  BY DEF Init, ListingsSound, QuotesSound, OffersHaveRequest, UsageCounted
<1> QED
  BY <1>1, <1>2, <1>3, <1>4 DEF MarketInv

LEMMA MarketInvStep == MarketConstants /\ MarketInv /\ [Next]_vars => MarketInv'
<1> SUFFICES ASSUME MarketConstants, MarketInv, [Next]_vars PROVE MarketInv'
  OBVIOUS
<1>1. CASE Next
  BY <1>1, RegistrySteps, MarketDeleteStep, GateStep, CurateStep, ReportStep, ReadSteps,
     ListingStep, RollupStep, QuoteStep, DecideStep, SignoffStep, DelistStep, EventStep,
     OfferStep DEF Next
<1>2. CASE UNCHANGED vars
  <2>1. UNCHANGED <<regVars, gate, listings, signoffs, modReports, rollups, events, quotes, offers,
                    mcalls>>
    BY <1>2 DEF vars, marketVars
  <2>2. MKeeps
    BY <2>1 DEF MKeeps, Accepted, regVars
  <2>3. MCallsSound' /\ RegInv'
    BY <2>1, <2>2, MKeepsCalls, RegStays
  <2>4. UsageCounted'
    BY <2>1 DEF MarketInv, UsageCounted, Pending
  <2>5. ListingsSound'
    BY <2>1 DEF MarketInv, ListingsSound, Standing, Accepted, regVars
  <2>6. MarketTypeOK' /\ QuotesSound'
    BY <2>1 DEF MarketInv, MarketTypeOK, QuotesSound, OffersHaveRequest, Standing, regVars
  <2> QED
    BY <2>3, <2>4, <2>5, <2>6 DEF MarketInv
<1> QED
  BY <1>1, <1>2

\* What the invariant says of the marketplace.
LEMMA MarketMeaning ==
    ASSUME MarketConstants, MarketInv
    PROVE  /\ MarketTypeOK /\ ListingReportAdmitted /\ PolicyListingsGated
           /\ OffersHaveRequest /\ RollupCountsEvents /\ MarketNothingOfDeleted
<1>1. ListingReportAdmitted /\ PolicyListingsGated
  BY DEF MarketInv, ListingsSound, ListingReportAdmitted, PolicyListingsGated, Accepted
<1>2. RollupCountsEvents
  <2> SUFFICES ASSUME NEW l \in Listings, listings[l] # None PROVE events[l] <= rollups[l]
    BY DEF RollupCountsEvents
  <2>1. Cardinality(Pending(l)) \in Nat /\ events[l] \in Nat /\ rollups[l] \in Nat
    BY PendingFinite DEF MarketInv, MarketTypeOK
  <2>2. events[l] + Cardinality(Pending(l)) <= rollups[l]
    BY DEF MarketInv, UsageCounted
  <2> QED
    BY <2>1, <2>2
<1>3. MarketNothingOfDeleted
  BY DEF MarketInv, ListingsSound, QuotesSound, Standing, MarketNothingOfDeleted
<1> QED
  BY <1>1, <1>2, <1>3 DEF MarketInv, QuotesSound

\* A listing ships the report that admitted it, policies wait for the gate, no offer
\* outlives its request, no usage event goes uncounted and a deleted account leaves nothing,
\* whatever handlers are between two statements (the marketplace routes, deleteAccount).
THEOREM MarketTruthful ==
    ASSUME MarketConstants
    PROVE  Spec => [](MarketTypeOK /\ ListingReportAdmitted /\ PolicyListingsGated
                        /\ OffersHaveRequest /\ RollupCountsEvents /\ MarketNothingOfDeleted)
<1>1. Init => MarketInv
  BY MarketInvInit
<1>2. MarketInv /\ [Next]_vars => MarketInv'
  BY MarketInvStep
<1>3. MarketInv => /\ MarketTypeOK /\ ListingReportAdmitted /\ PolicyListingsGated
                   /\ OffersHaveRequest /\ RollupCountsEvents /\ MarketNothingOfDeleted
  BY MarketMeaning
<1> QED
  BY <1>1, <1>2, <1>3, PTL DEF Spec
-----------------------------------------------------------------------------
(* Sets of naturals, and sequences in order *)

LEMMA LeastNat ==
    ASSUME NEW T, T \subseteq Nat, T # {}
    PROVE  \E x \in T : \A y \in T : x <= y
<1> DEFINE R == OpToRel(<, Nat)
<1>1. IsWellFoundedOn(R, Nat)
  BY NatLessThanWellFounded
<1>2. \A x, y \in Nat : <<y, x>> \in R <=> y < x
  BY DEF OpToRel
<1> HIDE DEF R
<1>3. PICK x \in T : \A y \in T : ~(<<y, x>> \in R)
  BY <1>1, WFMin
<1>4. ASSUME NEW y \in T PROVE x <= y
  <2>1. x \in Nat /\ y \in Nat
    OBVIOUS
  <2>2. ~(y < x)
    BY <1>2, <1>3, <2>1
  <2> QED
    BY <2>1, <2>2
<1> QED
  BY <1>4

\* An order-preserving map of a range into itself is the identity.
LEMMA OrderedIsIdentity ==
    ASSUME NEW n \in Nat, NEW k \in [1..n -> 1..n],
           \A i, j \in 1..n : i < j => k[i] < k[j]
    PROVE  \A i \in 1..n : k[i] = i
<1>1. \A i \in 1..n : k[i] >= i
  <2> DEFINE T == {i \in 1..n : k[i] < i}
  <2>1. CASE T = {}
    BY <2>1
  <2>2. CASE T # {}
    <3>0. T \subseteq Nat
      OBVIOUS
    <3>1. PICK i \in T : \A j \in T : i <= j
      <4> HIDE DEF T
      <4> QED
        BY <2>2, <3>0, LeastNat
    <3>2. i \in 1..n /\ k[i] \in 1..n /\ k[i] < i
      OBVIOUS
    <3>3. i - 1 \in 1..n /\ i - 1 \notin T /\ k[i - 1] \in 1..n
      BY <3>1, <3>2
    <3> QED
      BY <3>2, <3>3
  <2> QED
    BY <2>1, <2>2
<1>2. \A i \in 1..n : k[i] <= i
  <2> DEFINE T == {d \in 0..n : \E i \in 1..n : d = n - i /\ k[i] > i}
  <2>0. \A i \in 1..n : k[i] > i => n - i \in T
    OBVIOUS
  <2>1. CASE T = {}
    <3>1. \A i \in 1..n : ~(k[i] > i) /\ k[i] \in 1..n
      BY <2>0, <2>1
    <3> QED
      BY <3>1
  <2>2. CASE T # {}
    <3>0. T \subseteq Nat
      OBVIOUS
    <3>1. PICK d \in T : \A e \in T : d <= e
      <4> HIDE DEF T
      <4> QED
        BY <2>2, <3>0, LeastNat
    <3>2. PICK i \in 1..n : d = n - i /\ k[i] > i
      OBVIOUS
    <3>3. k[i] \in 1..n /\ i + 1 \in 1..n /\ k[i + 1] \in 1..n
      BY <3>2
    <3>4. n - (i + 1) \in 0..n /\ n - (i + 1) < d
      BY <3>2, <3>3
    <3>5. n - (i + 1) \notin T
      <4> HIDE DEF T
      <4> QED
        BY <3>0, <3>1, <3>2, <3>4
    <3>6. ~(k[i + 1] > i + 1)
      BY <2>0, <3>3, <3>5
    <3> QED
      BY <3>2, <3>3, <3>6
  <2> QED
    BY <2>1, <2>2
<1> QED
  BY <1>1, <1>2

-----------------------------------------------------------------------------
(* The migration runner *)

\* At least one checkout exists, of well-formed files.
MigConstants ==
    NoSession \notin Runners /\ Checkouts # {} /\ Checkouts \subseteq Seq(Migration)

Runner == [pc : {"idle", "locking", "reading", "applying"}, migrations : Seq(Migration),
           at : Nat, inTx : BOOLEAN, starts : Nat]

\* The first n files are in the order of their names.
InOrder(ms, n) == \A i, j \in 1..n : i < j => ms[i].filename < ms[j].filename

\* The schema has been through a prefix of the files, and through nothing else.
Applied(ms) ==
    /\ Len(executed) <= Len(ms)
    /\ rows = {ms[i] : i \in 1..Len(executed)}
    /\ executed = [i \in 1..Len(executed) |-> ms[i].checksum]

Lineage == \E ms \in Checkouts : Applied(ms) /\ InOrder(ms, Len(executed))

\* A runner works on an ordered checkout, past the lock only while it holds it, and once it
\* has read the history it is at the file after the last one recorded.
RunnerSound(r) ==
    /\ runner[r].pc # "idle" =>
          runner[r].migrations \in Checkouts /\ validSources(runner[r].migrations)
    /\ runner[r].pc \in {"reading", "applying"} => lockHolder = r
    /\ runner[r].pc = "applying" =>
          Applied(runner[r].migrations) /\ runner[r].at = Len(executed) + 1
    /\ runner[r].inTx => runner[r].pc = "applying" /\ runner[r].at <= Len(runner[r].migrations)

MigInv ==
    /\ lockHolder \in Runners \cup {NoSession} /\ executed \in Seq(Nat)
    /\ runner \in [Runners -> Runner]
    /\ Lineage /\ \A r \in Runners : RunnerSound(r)

LEMMA FilesNamed ==
    ASSUME NEW ms \in Seq(Migration), NEW i \in 1..Len(ms)
    PROVE  ms[i] \in Migration /\ ms[i].filename \in Nat
<1>1. ms[i] \in Migration
  OBVIOUS
<1> QED
  BY <1>1 DEF Migration

LEMMA SourcesInOrder ==
    ASSUME NEW ms \in Seq(Migration), validSources(ms)
    PROVE  InOrder(ms, Len(ms))
<1> SUFFICES ASSUME NEW i \in 1..Len(ms), NEW j \in 1..Len(ms), i < j,
                    ~(ms[i].filename < ms[j].filename)
             PROVE  FALSE
  BY DEF InOrder
<1> DEFINE T == {x \in 1..Len(ms) : i < x /\ ~(ms[i].filename < ms[x].filename)}
<1>0. T \subseteq Nat /\ j \in T
  OBVIOUS
<1>1. PICK x \in T : \A y \in T : x <= y
  <2> HIDE DEF T
  <2> QED
    BY <1>0, LeastNat
<1>2. /\ Len(ms) \in Nat /\ x \in 1..Len(ms) /\ i < x
      /\ \A y \in 1..Len(ms) : ms[y].filename \in Nat
  BY FilesNamed
<1>3. ~(ms[i].filename < ms[x].filename)
  OBVIOUS
<1>4. x - 1 \in 1..Len(ms) - 1 /\ x - 1 \in 1..Len(ms)
  BY <1>2
<1>5. ms[x - 1].filename < ms[(x - 1) + 1].filename
  BY <1>4 DEF validSources
<1>6. (x - 1) + 1 = x
  BY <1>2
<1>7. ms[x - 1].filename < ms[x].filename
  BY <1>5, <1>6
<1>8. CASE x - 1 = i
  BY <1>3, <1>7, <1>8
<1>9. CASE x - 1 # i
  <2>1. x - 1 \notin T /\ i < x - 1
    BY <1>1, <1>2, <1>4, <1>9
  <2>2. ms[i].filename < ms[x - 1].filename
    BY <2>1, <1>4
  <2> QED
    BY <1>2, <1>3, <1>4, <1>7, <2>2
<1> QED
  BY <1>8, <1>9

\* Read in the order of the names, the rows are the files in the order they ran.
LEMMA HistoryOf ==
    ASSUME NEW ms \in Seq(Migration), executed \in Seq(Nat), Applied(ms),
           InOrder(ms, Len(executed))
    PROVE  /\ Cardinality(rows) = Len(executed)
           /\ migrationHistory = [i \in 1..Len(executed) |-> ms[i]]
<1> DEFINE n == Len(executed)
           g == [i \in 1..n |-> ms[i]]
<1>1. n \in Nat /\ n <= Len(ms) /\ rows = {ms[i] : i \in 1..n}
  BY DEF Applied
<1>2. \A i \in 1..n : ms[i] \in Migration /\ ms[i].filename \in Nat
  BY <1>1, FilesNamed
<1>3. \A i, j \in 1..n : i < j => ms[i].filename < ms[j].filename
  BY DEF InOrder
<1> HIDE DEF n
<1>4. g \in [1..n -> rows]
  BY <1>1
<1>5. \A i, j \in 1..n : ms[i].filename < ms[j].filename => i < j
  <2> SUFFICES ASSUME NEW i \in 1..n, NEW j \in 1..n, ms[i].filename < ms[j].filename,
                      ~(i < j)
               PROVE  FALSE
    OBVIOUS
  <2>1. CASE i = j
    BY <2>1, <1>2
  <2>2. CASE j < i
    BY <2>2, <1>2, <1>3
  <2> QED
    BY <1>1, <2>1, <2>2
<1>6. \A i, j \in 1..n : ms[i] = ms[j] => i = j
  <2> SUFFICES ASSUME NEW i \in 1..n, NEW j \in 1..n, ms[i] = ms[j], i # j
               PROVE  FALSE
    OBVIOUS
  <2>1. i < j \/ j < i
    BY <1>1
  <2> QED
    BY <2>1, <1>2, <1>3
<1>7. Cardinality(rows) = n
  <2>1. g \in Bijection(1..n, rows)
    BY <1>1, <1>4, <1>6 DEF Bijection, Injection, Surjection, IsInjective
  <2>2. IsFiniteSet(1..n) /\ Cardinality(1..n) = n
    BY <1>1, FS_Interval
  <2> QED
    BY <2>1, <2>2, FS_Bijection DEF ExistsBijection
<1> DEFINE Sorted(h) == \A i, j \in 1..n : i < j => h[i].filename < h[j].filename
           H == migrationHistory
<1>8. H \in [1..n -> rows] /\ Sorted(H)
  <2>1. H = CHOOSE h \in [1..n -> rows] : Sorted(h)
    BY <1>7 DEF migrationHistory
  <2>2. Sorted(g)
    BY <1>3
  <2> QED
    BY <1>4, <2>1, <2>2
<1> HIDE DEF H
<1>9. \A i \in 1..n : \E x \in 1..n : H[i] = ms[x]
  BY <1>1, <1>8
<1> DEFINE k == [i \in 1..n |-> CHOOSE x \in 1..n : H[i] = ms[x]]
<1>10. \A i \in 1..n : k[i] \in 1..n /\ H[i] = ms[k[i]]
  BY <1>9
<1> HIDE DEF Sorted
<1>11. \A i, j \in 1..n : i < j => k[i] < k[j]
  BY <1>5, <1>8, <1>10 DEF Sorted
<1>12. k \in [1..n -> 1..n]
  BY <1>10
<1> HIDE DEF k
<1>13. \A i \in 1..n : k[i] = i
  BY <1>1, <1>11, <1>12, OrderedIsIdentity
<1>14. H = g
  BY <1>8, <1>10, <1>13
<1> QED
  BY <1>7, <1>14 DEF H, n

LEMMA MigMeaning == MigConstants /\ MigInv => MigTypeOK /\ MigrationsSafe
<1> SUFFICES ASSUME MigConstants, MigInv PROVE MigTypeOK /\ MigrationsSafe
  OBVIOUS
<1>1. PICK ms \in Checkouts : Applied(ms) /\ InOrder(ms, Len(executed))
  BY DEF MigInv, Lineage
<1> DEFINE n == Len(executed)
<1>2. ms \in Seq(Migration) /\ n \in Nat /\ executed \in Seq(Nat)
  BY DEF MigConstants, MigInv
<1>3. Cardinality(rows) = n /\ migrationHistory = [i \in 1..n |-> ms[i]]
  BY <1>1, <1>2, HistoryOf
<1>4. n <= Len(ms) /\ rows = {ms[i] : i \in 1..n} /\ executed = [i \in 1..n |-> ms[i].checksum]
  BY <1>1 DEF Applied
<1> HIDE DEF n
<1>5. MigTypeOK
  BY <1>2, <1>4 DEF MigInv, MigTypeOK, Runner
<1>6. HistoryIsWhatRan
  BY <1>3, <1>4 DEF HistoryIsWhatRan
<1>7. OneLineage
  <2>1. [i \in 1..n |-> ms[i]] \in Seq(Migration) /\ Len([i \in 1..n |-> ms[i]]) = n
    BY <1>2, <1>4
  <2>2. validHistory([i \in 1..n |-> ms[i]], ms)
    BY <2>1, <1>4 DEF validHistory
  <2> QED
    BY <1>3, <2>2 DEF OneLineage
<1> QED
  BY <1>5, <1>6, <1>7 DEF MigrationsSafe

\* The file a runner commits is the one after the last one recorded.
LEMMA CommitExtends ==
    ASSUME MigConstants, MigInv, NEW r \in Runners, runner[r].inTx, Committed(r),
           NEW ms, ms = runner[r].migrations
    PROVE  /\ executed' \in Seq(Nat) /\ Len(executed') = Len(executed) + 1
           /\ Applied(ms)' /\ Lineage'
<1> DEFINE n == Len(executed)
<1>1. /\ ms \in Checkouts /\ validSources(ms) /\ ms \in Seq(Migration)
      /\ runner[r].at = n + 1 /\ n + 1 <= Len(ms) /\ Applied(ms)
  BY DEF MigInv, RunnerSound, MigConstants
<1>2. n \in Nat /\ executed \in Seq(Nat) /\ n + 1 \in 1..Len(ms)
  BY <1>1 DEF MigInv
<1>3. /\ rows' = rows \cup {ms[n + 1]} /\ executed' = Append(executed, ms[n + 1].checksum)
  BY <1>1 DEF Committed
<1>4. ms[n + 1].checksum \in Nat
  <2>1. ms[n + 1] \in Migration
    BY <1>1, <1>2, FilesNamed
  <2> QED
    BY <2>1 DEF Migration
<1>5. rows = {ms[i] : i \in 1..n} /\ executed = [i \in 1..n |-> ms[i].checksum] /\ n <= Len(ms)
  BY <1>1 DEF Applied
<1>6. executed' \in Seq(Nat) /\ Len(executed') = n + 1
  BY <1>2, <1>3, <1>4
<1> HIDE DEF n
<1>7. 1..(n + 1) = (1..n) \cup {n + 1}
  BY <1>2
<1>8. rows' = {ms[i] : i \in 1..(n + 1)}
  BY <1>3, <1>5, <1>7
<1>9. executed' = [i \in 1..(n + 1) |-> ms[i].checksum]
  <2>1. \A i \in 1..n : executed'[i] = ms[i].checksum
    <3>1. \A i \in 1..n : executed'[i] = executed[i]
      BY <1>2, <1>3, <1>4 DEF n
    <3> QED
      BY <3>1, <1>5
  <2>2. executed'[n + 1] = ms[n + 1].checksum
    BY <1>2, <1>3, <1>4 DEF n
  <2>3. DOMAIN executed' = 1..(n + 1)
    BY <1>6
  <2> QED
    BY <1>6, <1>7, <2>1, <2>2, <2>3
<1>10. Applied(ms)'
  BY <1>1, <1>6, <1>8, <1>9 DEF Applied
<1>11. InOrder(ms, n + 1)
  <2>1. InOrder(ms, Len(ms)) /\ n + 1 <= Len(ms) /\ Len(ms) \in Nat
    BY <1>1, <1>2, SourcesInOrder
  <2> QED
    <3>1. 1..(n + 1) \subseteq 1..Len(ms)
      BY <1>2, <2>1
    <3> QED
      BY <2>1, <3>1 DEF InOrder
<1>12. Lineage'
  BY <1>1, <1>6, <1>10, <1>11 DEF Lineage
<1> QED
  BY <1>6, <1>10, <1>12 DEF n

\* Nothing but the one runner changes: the others are as sound as they were, unless the
\* lock is taken from them or the history changes while they apply.
LEMMA OthersSound ==
    ASSUME MigInv, NEW r \in Runners, NEW q \in Runners \ {r}, runner'[q] = runner[q],
           lockHolder = q => lockHolder' = q,
           UNCHANGED <<rows, executed>> \/ lockHolder = r
    PROVE  RunnerSound(q)'
<1>1. RunnerSound(q)
  BY DEF MigInv
<1>2. runner[q].pc = "applying" => lockHolder = q /\ UNCHANGED <<rows, executed>>
  BY <1>1 DEF RunnerSound
<1> QED
  BY <1>1, <1>2 DEF RunnerSound, Applied

LEMMA StartKeeps ==
    ASSUME MigConstants, MigInv, NEW r \in Runners, Start(r)
    PROVE  MigInv'
<1>1. PICK ms \in Checkouts :
         runner' = [runner EXCEPT ![r] =
             [IdleRunner EXCEPT !.pc = IF validSources(ms) THEN "locking" ELSE "idle",
                                !.migrations = ms, !.starts = runner[r].starts + 1]]
  BY DEF Start
<1>2. UNCHANGED <<lockHolder, rows, executed>>
  BY DEF Start
<1>3. ms \in Seq(Migration) /\ runner[r] \in Runner
  BY DEF MigConstants, MigInv
<1>4. runner' \in [Runners -> Runner]
  <2>1. runner[r].starts + 1 \in Nat
    BY <1>3 DEF Runner
  <2>2. ASSUME NEW x \in Nat, NEW pc \in {"locking", "idle"}
        PROVE  [IdleRunner EXCEPT !.pc = pc, !.migrations = ms, !.starts = x] \in Runner
    BY <1>3 DEF Runner, IdleRunner
  <2> QED
    BY <1>1, <2>1, <2>2 DEF MigInv
<1>5. RunnerSound(r)'
  BY <1>1 DEF MigInv, RunnerSound, IdleRunner
<1>6. ASSUME NEW q \in Runners \ {r} PROVE RunnerSound(q)'
  BY <1>1, <1>2, OthersSound DEF MigInv
<1>7. Lineage'
  BY <1>2 DEF MigInv, Lineage, Applied
<1> QED
  BY <1>2, <1>4, <1>5, <1>6, <1>7 DEF MigInv

LEMMA LockKeeps ==
    ASSUME MigConstants, MigInv, NEW r \in Runners, Lock(r)
    PROVE  MigInv'
<1>1. /\ runner' = [runner EXCEPT ![r].pc = "reading"] /\ lockHolder' = r
      /\ lockHolder = NoSession /\ UNCHANGED <<rows, executed>>
  BY DEF Lock
<1>2. runner' \in [Runners -> Runner]
  BY <1>1 DEF MigInv, Runner
<1>3. RunnerSound(r)'
  BY <1>1 DEF MigInv, RunnerSound, Lock, Runner
<1>4. ASSUME NEW q \in Runners \ {r} PROVE RunnerSound(q)'
  BY <1>1, OthersSound DEF MigInv, MigConstants
<1>5. Lineage'
  BY <1>1 DEF MigInv, Lineage, Applied
<1> QED
  BY <1>1, <1>2, <1>3, <1>4, <1>5 DEF MigInv

\* A runner that gives up leaves what the others rely on.
LEMMA UnlockKeeps ==
    ASSUME MigConstants, MigInv, NEW r \in Runners, Unlock(r), executed' \in Seq(Nat),
           Lineage', UNCHANGED <<rows, executed>> \/ lockHolder = r
    PROVE  MigInv'
<1>1. /\ runner' = [runner EXCEPT ![r].pc = "idle", ![r].inTx = FALSE]
      /\ lockHolder' = IF lockHolder = r THEN NoSession ELSE lockHolder
  BY DEF Unlock
<1>2. runner' \in [Runners -> Runner]
  BY <1>1 DEF MigInv, Runner
<1>3. RunnerSound(r)'
  BY <1>1 DEF MigInv, RunnerSound, Runner
<1>4. ASSUME NEW q \in Runners \ {r} PROVE RunnerSound(q)'
  BY <1>1, OthersSound DEF MigInv
<1> QED
  BY <1>1, <1>2, <1>3, <1>4 DEF MigInv

LEMMA ReadHistoryKeeps ==
    ASSUME MigConstants, MigInv, NEW r \in Runners, ReadHistory(r)
    PROVE  MigInv'
<1>1. UNCHANGED <<rows, executed>> /\ runner[r].pc = "reading"
  BY DEF ReadHistory
<1>2. Lineage'
  BY <1>1 DEF MigInv, Lineage, Applied
<1>3. CASE Unlock(r)
  BY <1>1, <1>2, <1>3, UnlockKeeps DEF MigInv
<1>4. CASE /\ validHistory(migrationHistory, runner[r].migrations)
           /\ runner' = [runner EXCEPT ![r].pc = "applying", ![r].at = Cardinality(rows) + 1]
           /\ UNCHANGED lockHolder
  <2> DEFINE n == Len(executed)
             own == runner[r].migrations
  <2>1. PICK ms \in Checkouts : Applied(ms) /\ InOrder(ms, n)
    BY DEF MigInv, Lineage
  <2>2. /\ ms \in Seq(Migration) /\ own \in Seq(Migration) /\ n \in Nat
        /\ executed \in Seq(Nat) /\ runner[r] \in Runner
    BY DEF MigConstants, MigInv, Runner
  <2>3. Cardinality(rows) = n /\ migrationHistory = [i \in 1..n |-> ms[i]]
    BY <2>1, <2>2, HistoryOf
  <2>4. n <= Len(ms) /\ rows = {ms[i] : i \in 1..n} /\ executed = [i \in 1..n |-> ms[i].checksum]
    BY <2>1 DEF Applied
  <2> HIDE DEF n, own
  <2>5. [i \in 1..n |-> ms[i]] \in Seq(Migration) /\ Len([i \in 1..n |-> ms[i]]) = n
    BY <2>2, <2>4
  <2>6. n <= Len(own) /\ \A i \in 1..n : ms[i].filename = own[i].filename
                                         /\ ms[i].checksum = own[i].checksum
    BY <1>4, <2>3, <2>5 DEF validHistory, own
  <2>7. \A i \in 1..n : ms[i] = own[i]
    <3>1. \A i \in 1..n : ms[i] \in Migration /\ own[i] \in Migration
      BY <2>2, <2>4, <2>6, FilesNamed
    <3> QED
      BY <2>6, <3>1 DEF Migration
  <2>8. Applied(own)
    BY <2>4, <2>6, <2>7 DEF Applied, n
  <2>9. runner' \in [Runners -> Runner]
    <3>1. Cardinality(rows) + 1 \in Nat
      BY <2>2, <2>3
    <3>2. ASSUME NEW x \in Nat
          PROVE  [runner[r] EXCEPT !.pc = "applying", !.at = x] \in Runner
      BY <2>2 DEF Runner
    <3> QED
      BY <1>4, <3>1, <3>2 DEF MigInv
  <2>10. /\ runner'[r].migrations = own /\ runner'[r].pc = "applying"
         /\ runner'[r].at = n + 1 /\ runner'[r].inTx = runner[r].inTx
    BY <1>4, <2>2, <2>3 DEF MigInv, own, Runner
  <2>11. RunnerSound(r)'
    <3>1. RunnerSound(r)
      BY DEF MigInv
    <3>2. own \in Checkouts /\ validSources(own) /\ lockHolder = r /\ ~runner[r].inTx
      BY <1>1, <3>1 DEF RunnerSound, own
    <3> QED
      BY <1>1, <1>4, <2>8, <2>10, <3>2 DEF RunnerSound, Applied, n
  <2>12. ASSUME NEW q \in Runners \ {r} PROVE RunnerSound(q)'
    BY <1>1, <1>4, OthersSound DEF MigInv
  <2> QED
    BY <1>1, <1>2, <1>4, <2>9, <2>11, <2>12 DEF MigInv
<1> QED
  BY <1>3, <1>4 DEF ReadHistory

LEMMA RunSqlKeeps ==
    ASSUME MigConstants, MigInv, NEW r \in Runners, RunSql(r)
    PROVE  MigInv'
<1>1. /\ runner' = [runner EXCEPT ![r].inTx = TRUE]
      /\ runner[r].pc = "applying" /\ runner[r].at <= Len(runner[r].migrations)
      /\ UNCHANGED <<lockHolder, rows, executed>>
  BY DEF RunSql
<1>2. runner' \in [Runners -> Runner]
  BY <1>1 DEF MigInv, Runner
<1>3. RunnerSound(r)'
  BY <1>1 DEF MigInv, RunnerSound, Runner, Applied
<1>4. ASSUME NEW q \in Runners \ {r} PROVE RunnerSound(q)'
  BY <1>1, OthersSound DEF MigInv
<1>5. Lineage'
  BY <1>1 DEF MigInv, Lineage, Applied
<1> QED
  BY <1>1, <1>2, <1>3, <1>4, <1>5 DEF MigInv

LEMMA RecordAndCommitKeeps ==
    ASSUME MigConstants, MigInv, NEW r \in Runners, RecordAndCommit(r)
    PROVE  MigInv'
<1>1. /\ runner' = [runner EXCEPT ![r].at = @ + 1, ![r].inTx = FALSE]
      /\ UNCHANGED lockHolder /\ runner[r].inTx /\ Committed(r)
  BY DEF RecordAndCommit
<1>2. PICK ms : ms = runner[r].migrations
  OBVIOUS
<1>3. executed' \in Seq(Nat) /\ Len(executed') = Len(executed) + 1 /\ Applied(ms)' /\ Lineage'
  BY <1>1, <1>2, CommitExtends
<1>4. runner[r] \in Runner /\ RunnerSound(r)
  BY DEF MigInv
<1>5. runner' \in [Runners -> Runner]
  <2>1. runner[r].at + 1 \in Nat
    BY <1>4 DEF Runner
  <2>2. ASSUME NEW x \in Nat PROVE [runner[r] EXCEPT !.at = x, !.inTx = FALSE] \in Runner
    BY <1>4 DEF Runner
  <2>3. runner' = [runner EXCEPT ![r] = [runner[r] EXCEPT !.at = runner[r].at + 1, !.inTx = FALSE]]
    BY <1>1
  <2> QED
    BY <2>1, <2>2, <2>3 DEF MigInv
<1>6. /\ runner'[r].migrations = ms /\ runner'[r].at = runner[r].at + 1
      /\ ~runner'[r].inTx /\ runner'[r].pc = runner[r].pc
  BY <1>1, <1>2, <1>4 DEF MigInv, Runner
<1>7. /\ ms \in Checkouts /\ validSources(ms) /\ lockHolder = r
      /\ runner[r].at = Len(executed) + 1
  BY <1>1, <1>2, <1>4 DEF RunnerSound
<1>8. RunnerSound(r)'
  BY <1>1, <1>3, <1>6, <1>7 DEF RunnerSound
<1>9. ASSUME NEW q \in Runners \ {r} PROVE RunnerSound(q)'
  BY <1>1, <1>7, OthersSound DEF MigInv
<1> QED
  BY <1>1, <1>3, <1>5, <1>8, <1>9 DEF MigInv

LEMMA GivesUpKeeps ==
    ASSUME MigConstants, MigInv, NEW r \in Runners,
           MigrationFails(r) \/ Finish(r) \/ ConnectionLost(r)
    PROVE  MigInv'
<1>1. Unlock(r)
  BY DEF MigrationFails, Finish, ConnectionLost
<1>2. CASE UNCHANGED <<rows, executed>>
  BY <1>1, <1>2, UnlockKeeps DEF MigInv, Lineage, Applied
<1>3. CASE runner[r].inTx /\ Committed(r)
  <2>1. PICK ms : ms = runner[r].migrations
    OBVIOUS
  <2>2. executed' \in Seq(Nat) /\ Lineage'
    BY <1>3, <2>1, CommitExtends
  <2>3. lockHolder = r
    BY <1>3 DEF MigInv, RunnerSound
  <2> QED
    BY <1>1, <2>2, <2>3, UnlockKeeps
<1> QED
  BY <1>2, <1>3 DEF MigrationFails, Finish, ConnectionLost

LEMMA MigInvInit == MigConstants /\ MigInit => MigInv
<1> SUFFICES ASSUME MigConstants, MigInit PROVE MigInv
  OBVIOUS
<1>1. /\ executed \in Seq(Nat) /\ Len(executed) = 0
      /\ runner = [r \in Runners |-> IdleRunner] /\ lockHolder = NoSession
  BY DEF MigInit
<1>2. IdleRunner \in Runner
  BY DEF IdleRunner, Runner
<1>3. \A r \in Runners : RunnerSound(r)
  BY <1>1 DEF RunnerSound, IdleRunner
<1>4. Lineage
  <2>1. PICK ms \in Checkouts : ms \in Seq(Migration)
    BY DEF MigConstants
  <2>2. 1..0 = {} /\ 0 <= Len(ms)
    BY <2>1
  <2>3. <<>> = [i \in 1..0 |-> ms[i].checksum] /\ {} = {ms[i] : i \in 1..0}
    BY <2>2
  <2>4. Applied(ms)
    BY <1>1, <2>2, <2>3 DEF Applied, MigInit
  <2>5. InOrder(ms, Len(executed))
    BY <1>1, <2>2 DEF InOrder
  <2> QED
    BY <2>4, <2>5 DEF Lineage
<1> QED
  BY <1>1, <1>2, <1>3, <1>4 DEF MigInv

LEMMA MigInvStep == MigConstants /\ MigInv /\ [MigNext]_migVars => MigInv'
<1> SUFFICES ASSUME MigConstants, MigInv, [MigNext]_migVars PROVE MigInv'
  OBVIOUS
<1>1. CASE UNCHANGED migVars
  <2>1. UNCHANGED <<lockHolder, rows, executed, runner>>
    BY <1>1 DEF migVars
  <2>2. Lineage'
    BY <2>1 DEF MigInv, Lineage, Applied
  <2>3. ASSUME NEW r \in Runners PROVE RunnerSound(r)'
    BY <2>1 DEF MigInv, RunnerSound, Applied
  <2> QED
    BY <2>1, <2>2, <2>3 DEF MigInv
<1>2. ASSUME NEW r \in Runners,
             \/ Start(r) \/ Lock(r) \/ ReadHistory(r) \/ RunSql(r) \/ RecordAndCommit(r)
             \/ MigrationFails(r) \/ Finish(r) \/ ConnectionLost(r)
      PROVE  MigInv'
  BY <1>2, StartKeeps, LockKeeps, ReadHistoryKeeps, RunSqlKeeps, RecordAndCommitKeeps,
     GivesUpKeeps
<1> QED
  BY <1>1, <1>2 DEF MigNext

\* Whatever runners start from whatever checkouts and lose their connections wherever, the
\* recorded history is what the schema has been through, in order, and a prefix of one
\* checkout (applyMigrations).
THEOREM MigrationsHold ==
    ASSUME MigConstants
    PROVE  MigSpec => [](MigTypeOK /\ MigrationsSafe)
<1>1. MigInit => MigInv
  BY MigInvInit
<1>2. MigInv /\ [MigNext]_migVars => MigInv'
  BY MigInvStep
<1>3. MigInv => MigTypeOK /\ MigrationsSafe
  BY MigMeaning
<1> QED
  BY <1>1, <1>2, <1>3, PTL DEF MigSpec

-----------------------------------------------------------------------------
(* The publication of images *)

PubConstants == MaxBuilds \in Nat

Build == [component : Components, revision : Revisions, reportsConfig : BOOLEAN, clean : BOOLEAN]

\* One file per component, each made from a build.
Files == [Components -> Nat]

SmokeFile == [sourceRevision : Revisions, images : Files, sameArtifactRestartReady : BOOLEAN]

Directory ==
    [buildRecord : Files, registryManifest : Files, spdx : Files, trivy : Files,
     bundle : Files, verification : Files, smoke : SmokeFile \cup {NoRecord}]

Record ==
    [sourceRevision : Revisions, images : Files, reference : Files, configs : Files,
     files : [BoundFiles -> Files], findings : [Components -> BOOLEAN],
     smoke : SmokeFile \cup {NoRecord}, sameArtifactRestartReady : BOOLEAN,
     promotedClaims : BOOLEAN]

\* The attestation a verification file is about exists.
VerificationsAttested ==
    \A c \in Components : dir.verification[c] # Missing => dir.verification[c] \in attested

\* A verified publication is safe, and about images that stay in the registry.
VerifiedSound ==
    /\ verified # NoRecord => \A c \in Components : verified.record.images[c] \in attested
    /\ PublicationSafe

PubInv ==
    /\ builds \in Seq(Build) /\ dir \in Directory
    /\ publication \in Record \cup {NoRecord}
    /\ PubTypeOK /\ VerificationsAttested /\ VerifiedSound

\* Builds and attestations are only added, so what was verified stays true of the registry.
LEMMA VerifiedKept ==
    ASSUME PubInv, verified' = verified, attested \subseteq attested',
           \A b \in BuildIds : builds'[b] = builds[b]
    PROVE  VerifiedSound'
<1> SUFFICES ASSUME verified # NoRecord PROVE VerifiedSound'
  BY DEF VerifiedSound, PublicationSafe, VerifiedIsOneRelease, VerifiedIsBound
<1>1. \A c \in Components : verified.record.images[c] \in attested /\ attested \subseteq BuildIds
  BY DEF PubInv, VerifiedSound, PubTypeOK
<1>2. VerifiedIsOneRelease'
  BY <1>1 DEF PubInv, VerifiedSound, PublicationSafe, VerifiedIsOneRelease
<1>3. VerifiedIsBound'
  BY DEF PubInv, VerifiedSound, PublicationSafe, VerifiedIsBound
<1> QED
  BY <1>1, <1>2, <1>3 DEF VerifiedSound, PublicationSafe

LEMMA KindOfFile ==
    ASSUME NEW d \in Directory, NEW kind \in BoundFiles
    PROVE  d[kind] \in Files
BY DEF BoundFiles, Directory

LEMMA BuildImageKeeps ==
    ASSUME PubConstants, PubInv, NEW c \in Components, BuildImage(c)
    PROVE  PubInv'
<1>1. PICK b \in Build : builds' = Append(builds, b)
  BY DEF BuildImage, Build
<1>2. /\ builds' \in Seq(Build) /\ Len(builds') = Len(builds) + 1 /\ Len(builds) \in Nat
      /\ \A i \in BuildIds : builds'[i] = builds[i]
      /\ BuildIds \subseteq BuildIds' /\ Len(builds) + 1 \in BuildIds'
  BY <1>1 DEF PubInv, BuildIds
<1>3. /\ dir' = [dir EXCEPT !.buildRecord[c] = Len(builds) + 1]
      /\ UNCHANGED <<attested, pulled, publication, verified>> /\ Len(builds) < MaxBuilds
  BY DEF BuildImage
<1>4. dir' \in Directory
  <2>1. [dir.buildRecord EXCEPT ![c] = Len(builds) + 1] \in Files
    BY <1>2 DEF PubInv, Directory, Files
  <2> QED
    BY <1>3, <2>1 DEF PubInv, Directory
<1>5. PubTypeOK'
  <2>1. dir'.buildRecord \in [Components -> BuildIds' \cup {Missing}]
    BY <1>2, <1>3 DEF PubInv, PubTypeOK, Directory, Files, BoundFiles
  <2>2. ASSUME NEW kind \in BoundFiles, kind # "buildRecord"
        PROVE  dir'[kind] \in [Components -> BuildIds' \cup {Missing}]
    <3>1. dir'[kind] = dir[kind]
      BY <1>3, <2>2 DEF PubInv, Directory, BoundFiles
    <3> QED
      BY <1>2, <3>1 DEF PubInv, PubTypeOK
  <2>3. Len(builds') <= MaxBuilds
    BY <1>2, <1>3 DEF PubConstants
  <2>4. attested' \subseteq BuildIds' /\ pulled' \in [Components -> BuildIds' \cup {Missing}]
    BY <1>2, <1>3 DEF PubInv, PubTypeOK
  <2> QED
    BY <2>1, <2>2, <2>3, <2>4 DEF PubTypeOK
<1>6. VerificationsAttested'
  BY <1>3 DEF PubInv, VerificationsAttested, Directory
<1>7. VerifiedSound'
  BY <1>2, <1>3, VerifiedKept
<1> QED
  BY <1>2, <1>3, <1>4, <1>5, <1>6, <1>7 DEF PubInv

LEMMA ScanImageKeeps ==
    ASSUME PubInv, NEW c \in Components, ScanImage(c)
    PROVE  PubInv'
<1>1. UNCHANGED <<builds, attested, pulled, publication, verified>>
  BY DEF ScanImage
<1>2. dir.buildRecord \in Files /\ dir.buildRecord[c] \in BuildIds \cup {Missing}
  BY DEF PubInv, PubTypeOK, Directory, BoundFiles
<1> DEFINE spdx == [dir.spdx EXCEPT ![c] = dir.buildRecord[c]]
           trivy == [dir.trivy EXCEPT ![c] = dir.buildRecord[c]]
           Known == [Components -> BuildIds \cup {Missing}]
<1>3. spdx \in Files /\ trivy \in Files
  BY <1>2 DEF PubInv, Directory, Files
<1>4. spdx \in Known /\ trivy \in Known /\ \A kind \in BoundFiles : dir[kind] \in Known
  BY <1>2 DEF PubInv, PubTypeOK, BoundFiles
<1>5. dir' = [dir EXCEPT !.spdx = spdx, !.trivy = trivy] \/ dir' = [dir EXCEPT !.spdx = spdx]
  BY DEF ScanImage, PubInv, Directory
<1> HIDE DEF spdx, trivy, Known
<1>6. dir' \in Directory /\ dir'.verification = dir.verification
  BY <1>3, <1>5 DEF PubInv, Directory
<1>7. ASSUME NEW kind \in BoundFiles
      PROVE  dir'[kind] \in Known
  BY <1>4, <1>5 DEF PubInv, Directory, BoundFiles
<1>8. PubTypeOK'
  BY <1>1, <1>7 DEF PubInv, PubTypeOK, BuildIds, Known
<1>9. VerifiedSound'
  BY <1>1, VerifiedKept
<1> QED
  BY <1>1, <1>6, <1>8, <1>9 DEF PubInv, VerificationsAttested

LEMMA AttestImageKeeps ==
    ASSUME PubInv, NEW c \in Components, AttestImage(c)
    PROVE  PubInv'
<1>1. /\ UNCHANGED <<builds, pulled, publication, verified>>
      /\ attested' = attested \cup {dir.buildRecord[c]}
      /\ dir' = [dir EXCEPT !.bundle[c] = dir.buildRecord[c]]
  BY DEF AttestImage
<1>2. dir.buildRecord \in Files /\ dir.buildRecord[c] \in BuildIds
  BY DEF PubInv, PubTypeOK, Directory, BoundFiles, AttestImage
<1>3. dir' \in Directory /\ dir'.verification = dir.verification
  BY <1>1, <1>2 DEF PubInv, Directory, Files
<1>4. ASSUME NEW kind \in BoundFiles
      PROVE  dir'[kind] \in [Components -> BuildIds \cup {Missing}]
  BY <1>1, <1>2 DEF PubInv, PubTypeOK, Directory, Files, BoundFiles
<1>5. PubTypeOK'
  BY <1>1, <1>2, <1>4 DEF PubInv, PubTypeOK, BuildIds
<1>6. VerifiedSound'
  BY <1>1, VerifiedKept
<1> QED
  BY <1>1, <1>3, <1>5, <1>6 DEF PubInv, VerificationsAttested

LEMMA PullImageKeeps ==
    ASSUME PubInv, NEW c \in Components, PullImage(c)
    PROVE  PubInv'
<1>1. PICK b \in attested : /\ dir' = [dir EXCEPT !.registryManifest[c] = b, !.verification[c] = b]
                            /\ pulled' = [pulled EXCEPT ![c] = b]
  BY DEF PullImage
<1>2. UNCHANGED <<builds, attested, publication, verified>>
  BY DEF PullImage
<1>3. b \in BuildIds /\ b \in Nat
  BY DEF PubInv, PubTypeOK, BuildIds
<1>4. dir' \in Directory
  BY <1>1, <1>3 DEF PubInv, Directory, Files
<1>5. ASSUME NEW kind \in BoundFiles
      PROVE  dir'[kind] \in [Components -> BuildIds \cup {Missing}]
  BY <1>1, <1>3 DEF PubInv, PubTypeOK, Directory, Files, BoundFiles
<1>6. PubTypeOK'
  BY <1>1, <1>2, <1>3, <1>5 DEF PubInv, PubTypeOK, BuildIds
<1>7. VerificationsAttested'
  BY <1>1, <1>2 DEF PubInv, VerificationsAttested, Directory, Files
<1>8. VerifiedSound'
  BY <1>2, VerifiedKept
<1> QED
  BY <1>2, <1>4, <1>6, <1>7, <1>8 DEF PubInv

LEMMA RunSmokeKeeps ==
    ASSUME PubInv, RunSmoke
    PROVE  PubInv'
<1>1. PICK revision \in Revisions, restart \in BOOLEAN :
         dir' = [dir EXCEPT !.smoke = Smoke(revision, restart)]
  BY DEF RunSmoke
<1>2. UNCHANGED <<builds, attested, pulled, publication, verified>>
  BY DEF RunSmoke
<1>3. Smoke(revision, restart) \in SmokeFile
  <2>1. pulled \in Files
    BY DEF PubInv, PubTypeOK, Files, BuildIds, Missing
  <2> QED
    BY <2>1 DEF Smoke, SmokeFile
<1>4. dir' \in Directory /\ \A kind \in BoundFiles : dir'[kind] = dir[kind]
  BY <1>1, <1>3 DEF PubInv, Directory, BoundFiles
<1>5. PubTypeOK'
  BY <1>2, <1>4 DEF PubInv, PubTypeOK, BuildIds
<1>6. VerificationsAttested'
  BY <1>2, <1>4 DEF PubInv, VerificationsAttested, BoundFiles
<1>7. VerifiedSound'
  BY <1>2, VerifiedKept
<1> QED
  BY <1>2, <1>4, <1>5, <1>6, <1>7 DEF PubInv

LEMMA CreatePublicationKeeps ==
    ASSUME PubInv, CreatePublication
    PROVE  PubInv'
<1>1. PICK revision \in Revisions : publication' = publicationOf(revision)
  BY DEF CreatePublication
<1>2. UNCHANGED <<builds, attested, pulled, dir, verified>>
  BY DEF CreatePublication
<1>3. publicationOf(revision) \in Record
  <2>1. dir.smoke \in SmokeFile /\ dir.buildRecord \in Files /\ dir.smoke.images \in Files
        /\ dir.smoke.sameArtifactRestartReady \in BOOLEAN
    BY DEF CreatePublication, PubInv, Directory, SmokeFile
  <2>2. [kind \in BoundFiles |-> dir[kind]] \in [BoundFiles -> Files]
    BY KindOfFile DEF PubInv
  <2>3. \A c \in Components : dir.trivy[c] \in BuildIds
    BY DEF CreatePublication, PubInv, PubTypeOK, BoundFiles
  <2>4. \A c \in Components : builds[dir.trivy[c]] \in Build
    <3>1. builds \in Seq(Build)
      BY DEF PubInv
    <3>2. \A b \in BuildIds : builds[b] \in Build
      BY <3>1 DEF BuildIds
    <3> QED
      BY <2>3, <3>2, Zenon
  <2>5. [c \in Components |-> ~builds[dir.trivy[c]].clean] \in [Components -> BOOLEAN]
    BY <2>4 DEF Build
  <2> QED
    BY <2>1, <2>2, <2>5 DEF publicationOf, Record
<1>4. VerifiedSound'
  BY <1>2, VerifiedKept
<1> QED
  BY <1>1, <1>2, <1>3, <1>4 DEF PubInv, PubTypeOK, VerificationsAttested, BuildIds

LEMMA VerifyPublicationKeeps ==
    ASSUME PubInv, VerifyPublication
    PROVE  PubInv'
<1>1. /\ verified' = [record |-> publication, dir |-> dir]
      /\ UNCHANGED <<builds, attested, pulled, dir, publication>>
      /\ validEvidenceFiles(publication, dir) /\ publication \in Record
  BY DEF VerifyPublication, PubInv
<1>2. ASSUME NEW c \in Components
      PROVE  LET b == publication.images[c] IN
             /\ builds[b].component = c /\ builds[b].revision = publication.sourceRevision
             /\ builds[b].clean /\ b \in attested /\ dir.registryManifest[c] = b
             /\ builds[b].reportsConfig => dir.smoke.images[c] = b
  <2>1. /\ dir.verification[c] # Missing /\ dir.verification[c] = publication.images[c]
        /\ dir.registryManifest[c] = publication.images[c]
        /\ validTrivy(publication, dir, c) /\ validBuildRecord(publication, dir, c)
        /\ validSmoke(publication, dir) /\ publication.reference[c] = publication.images[c]
    BY <1>1 DEF validEvidenceFiles, validFileHash, validAttestation, BoundFiles, validRecord
  <2> QED
    BY <2>1 DEF PubInv, VerificationsAttested, validTrivy, validBuildRecord, validSmoke
<1>3. VerifiedIsOneRelease'
  BY <1>1, <1>2 DEF VerifiedIsOneRelease
<1>4. ASSUME NEW kind \in BoundFiles PROVE dir[kind] = publication.files[kind]
  <2>1. dir[kind] \in Files /\ publication.files[kind] \in Files
    BY <1>1, KindOfFile DEF PubInv, Record
  <2>2. \A c \in Components : dir[kind][c] = publication.files[kind][c]
    BY <1>1 DEF validEvidenceFiles, validFileHash
  <2> QED
    BY <2>1, <2>2 DEF Files
<1>5. VerifiedIsBound'
  BY <1>1, <1>4 DEF VerifiedIsBound, validEvidenceFiles, validSmoke, validRecord
<1>6. VerifiedSound'
  BY <1>1, <1>2, <1>3, <1>5 DEF VerifiedSound, PublicationSafe
<1> QED
  BY <1>1, <1>6 DEF PubInv, PubTypeOK, VerificationsAttested, BuildIds

LEMMA EditRecordKeeps ==
    ASSUME PubInv, EditRecord
    PROVE  PubInv'
<1>1. UNCHANGED <<builds, attested, pulled, dir, verified>> /\ publication \in Record
  BY DEF EditRecord, PubInv
<1>2. publication' \in Record
  <2>1. CASE publication' = [publication EXCEPT !.promotedClaims = TRUE]
    BY <1>1, <2>1 DEF Record
  <2>2. ASSUME NEW c \in Components, NEW b \in BuildIds,
               publication' = [publication EXCEPT !.images[c] = b, !.reference[c] = b]
        PROVE  publication' \in Record
    <3>1. b \in Nat
      BY DEF BuildIds, PubInv
    <3>2. [publication.images EXCEPT ![c] = b] \in Files
          /\ [publication.reference EXCEPT ![c] = b] \in Files
      BY <1>1, <3>1 DEF Record, Files
    <3> QED
      BY <1>1, <2>2, <3>2 DEF Record
  <2> QED
    BY <2>1, <2>2 DEF EditRecord
<1>3. VerifiedSound'
  BY <1>1, VerifiedKept
<1> QED
  BY <1>1, <1>2, <1>3 DEF PubInv, PubTypeOK, VerificationsAttested, BuildIds

LEMMA PubInvInit == PubConstants /\ PubInit => PubInv
<1> SUFFICES ASSUME PubConstants, PubInit PROVE PubInv
  OBVIOUS
<1>1. NoFile \in Files /\ NoFile \in [Components -> BuildIds \cup {Missing}]
  BY DEF NoFile, Files, Missing
<1>2. dir \in Directory /\ \A kind \in BoundFiles : dir[kind] = NoFile
  BY <1>1 DEF PubInit, EmptyDir, Directory, BoundFiles
<1>3. dir.verification = NoFile
  BY <1>2 DEF BoundFiles
<1>4. VerificationsAttested
  BY <1>3 DEF VerificationsAttested, NoFile
<1>5. PubTypeOK
  BY <1>1, <1>2 DEF PubInit, PubTypeOK, PubConstants
<1>6. VerifiedSound
  BY DEF PubInit, VerifiedSound, PublicationSafe, VerifiedIsOneRelease, VerifiedIsBound
<1> QED
  BY <1>2, <1>4, <1>5, <1>6 DEF PubInit, PubInv

LEMMA PubInvStep == PubConstants /\ PubInv /\ [PubNext]_pubVars => PubInv'
<1> SUFFICES ASSUME PubConstants, PubInv, [PubNext]_pubVars PROVE PubInv'
  OBVIOUS
<1>1. CASE UNCHANGED pubVars
  <2>1. VerifiedSound'
    BY <1>1, VerifiedKept DEF pubVars
  <2> QED
    BY <1>1, <2>1 DEF pubVars, PubInv, PubTypeOK, VerificationsAttested, BuildIds
<1>2. ASSUME NEW c \in Components,
             BuildImage(c) \/ ScanImage(c) \/ AttestImage(c) \/ PullImage(c)
      PROVE  PubInv'
  BY <1>2, BuildImageKeeps, ScanImageKeeps, AttestImageKeeps, PullImageKeeps
<1>3. CASE RunSmoke \/ CreatePublication \/ VerifyPublication \/ EditRecord
  BY <1>3, RunSmokeKeeps, CreatePublicationKeeps, VerifyPublicationKeeps, EditRecordKeeps
<1> QED
  BY <1>1, <1>2, <1>3 DEF PubNext

LEMMA PubMeaning == PubInv => PubTypeOK /\ PublicationSafe
BY DEF PubInv, VerifiedSound

\* A publication that verify accepts is of one release and what create bound, whatever steps
\* were run again or records edited in between (validatePublicationEvidenceFiles).
THEOREM PublicationHolds ==
    ASSUME PubConstants
    PROVE  PubSpec => [](PubTypeOK /\ PublicationSafe)
<1>1. PubInit => PubInv
  BY PubInvInit
<1>2. PubInv /\ [PubNext]_pubVars => PubInv'
  BY PubInvStep
<1> QED
  BY <1>1, <1>2, PubMeaning, PTL DEF PubSpec

-----------------------------------------------------------------------------
(* The promotion ladder *)

\* The policy names only deployable components (validatePolicy: "requires unknown component").
LadConstants == Required \subseteq Deployables /\ MaxManifests \in Nat

Manifest ==
    [environment : Environments, status : {"active", "planned"}, revision : SourceRevisions,
     protectedMain : BOOLEAN, immutableUris : BOOLEAN,
     artifacts : [Deployables -> Digests \cup {Absent}],
     secretRef : [environment : Environments, version : SecretVersions],
     has : SUBSET Demands, sourceEnvironment : {e[1] : e \in Edges}, sourceManifest : Nat,
     authority : SUBSET {"live", "hardware", "field"}]

\* What an environment runs has been deployed there.
RunningSound ==
    \A e \in Environments : running[e] # NoManifest =>
        running[e] \in everRan /\ manifests[running[e]].environment = e

\* A manifest that is not from protected main was promoted from one that ran in the
\* environment before it.
LineageSound(n) ==
    /\ manifests[n].secretRef.environment = manifests[n].environment
    /\ <<manifests[n].sourceEnvironment, manifests[n].environment>> \in Edges
    /\ manifests[n].sourceEnvironment # "protected-main" =>
          /\ manifests[n].sourceManifest \in everRan
          /\ manifests[manifests[n].sourceManifest].environment
                = manifests[n].sourceEnvironment
          /\ PromotedFrom(n, manifests[n].sourceManifest)

LadInv ==
    /\ manifests \in Seq(Manifest)
    /\ LadTypeOK /\ RunningSound
    /\ \A n \in DOMAIN manifests : LineageSound(n)

LEMMA DraftType ==
    ASSUME manifests \in Seq(Manifest), NEW env \in Environments, NEW t \in Drafts(env)
    PROVE  t \in Manifest /\ t.environment = env
<1>1. MaximumAuthority(env) \in SUBSET {"live", "hardware", "field"}
  BY DEF MaximumAuthority
<1>2. ASSUME NEW s \in CarefulDrafts(env) PROVE s \in Manifest /\ s.environment = env
  <2>1. {Demands} \subseteq SUBSET Demands /\ 0..Len(manifests) \subseteq Nat
    OBVIOUS
  <2>2. {"sandbox"} \cup {env} \subseteq Environments
    BY DEF Environments
  <2> QED
    BY <1>1, <2>1, <2>2 DEF CarefulDrafts, Manifest
<1>3. ASSUME NEW s \in Manifest, NEW f \in Flawed(s)
      PROVE  f \in Manifest /\ f.environment = s.environment
  <2>1. CASE \E d \in Demands : f = [s EXCEPT !.has = Demands \ {d}]
    <3>1. PICK d \in Demands : f = [s EXCEPT !.has = Demands \ {d}]
      BY <2>1
    <3>2. Demands \ {d} \in SUBSET Demands
      OBVIOUS
    <3> QED
      BY <3>1, <3>2 DEF Manifest
  <2>2. CASE f \in {[s EXCEPT !.protectedMain = FALSE], [s EXCEPT !.immutableUris = FALSE]}
    BY <2>2 DEF Manifest
  <2>3. CASE f = [s EXCEPT !.authority = {"field"}]
    BY <2>3 DEF Manifest
  <2>4. CASE f = [s EXCEPT !.status = "planned"]
    BY <2>4 DEF Manifest
  <2> QED
    BY <2>1, <2>2, <2>3, <2>4 DEF Flawed
<1> QED
  BY <1>2, <1>3 DEF Drafts

\* One more approved manifest leaves those before it as they were.
LEMMA ApprovedLater ==
    ASSUME LadInv, NEW t \in Manifest, manifests' = Append(manifests, t),
           Len(manifests) < MaxManifests, LadConstants, UNCHANGED <<running, everRan>>,
           NEW k, k = Len(manifests) + 1, LineageSound(k)'
    PROVE  LadInv'
<1>1. /\ manifests' \in Seq(Manifest) /\ Len(manifests') = Len(manifests) + 1
      /\ \A n \in DOMAIN manifests : manifests'[n] = manifests[n]
      /\ DOMAIN manifests = 1..Len(manifests) /\ DOMAIN manifests' = 1..Len(manifests')
  BY DEF LadInv
<1>2. LadTypeOK'
  BY <1>1 DEF LadInv, LadTypeOK, LadConstants
<1>3. RunningSound'
  BY <1>1 DEF LadInv, LadTypeOK, RunningSound
<1>4. ASSUME NEW n \in DOMAIN manifests PROVE LineageSound(n)'
  <2>1. LineageSound(n) /\ everRan \subseteq DOMAIN manifests
    BY DEF LadInv, LadTypeOK
  <2>2. manifests'[n] = manifests[n] /\ everRan' = everRan
    BY <1>1
  <2>3. manifests[n].sourceManifest \in everRan =>
           manifests'[manifests[n].sourceManifest] = manifests[manifests[n].sourceManifest]
    BY <1>1, <2>1
  <2> QED
    BY <2>1, <2>2, <2>3 DEF LineageSound, PromotedFrom
<1>5. DOMAIN manifests' = DOMAIN manifests \cup {k}
  BY <1>1
<1> QED
  BY <1>1, <1>2, <1>3, <1>4, <1>5 DEF LadInv

LEMMA ApproveCandidateKeeps ==
    ASSUME LadConstants, LadInv, NEW env \in Environments, ApproveCandidate(env)
    PROVE  LadInv'
<1>1. PICK t \in Drafts(env) : /\ t.sourceEnvironment = "protected-main"
                               /\ validManifest(t)
                               /\ manifests' = Append(manifests, t)
  BY DEF ApproveCandidate
<1>2. t \in Manifest /\ t.environment = env
  BY <1>1, DraftType DEF LadInv
<1> DEFINE k == Len(manifests) + 1
<1> HIDE DEF k
<1>3. manifests'[k] = t
  BY <1>1, <1>2 DEF LadInv, k
<1>4. ASSUME NEW j, j = k PROVE LineageSound(j)'
  BY <1>1, <1>3, <1>4 DEF LineageSound, validManifest, validConfiguration, validLineage
<1> QED
  BY <1>1, <1>2, <1>4, ApprovedLater DEF ApproveCandidate, k

LEMMA ApprovePromotionKeeps ==
    ASSUME LadConstants, LadInv, NEW from \in Environments, NEW env \in Environments,
           ApprovePromotion(from, env)
    PROVE  LadInv'
<1> DEFINE m == running[from]
           s == manifests[m]
<1>1. PICK t \in Drafts(env) : /\ validPromotion(s, m, t)
                               /\ manifests' = Append(manifests, t)
  BY DEF ApprovePromotion
<1>2. t \in Manifest /\ t.environment = env
  BY <1>1, DraftType DEF LadInv
<1>3. /\ m \in everRan /\ m \in DOMAIN manifests /\ s \in Manifest
  BY DEF ApprovePromotion, LadInv, LadTypeOK, RunningSound
<1>4. /\ manifests'[Len(manifests) + 1] = t /\ manifests'[m] = s
  BY <1>1, <1>2, <1>3 DEF LadInv
<1>5. /\ t.sourceEnvironment = s.environment /\ t.sourceManifest = m
      /\ t.revision = s.revision
  BY <1>1 DEF validPromotion
<1>6. \A c \in Required : t.artifacts[c] = s.artifacts[c]
  BY <1>1 DEF validPromotion, validManifest, validSourceAndArtifacts, LadConstants
<1>7. t.secretRef.environment = t.environment /\ <<t.sourceEnvironment, t.environment>> \in Edges
  BY <1>1 DEF validPromotion, validManifest, validConfiguration, validLineage
<1>8. everRan' = everRan
  BY DEF ApprovePromotion
<1> HIDE DEF m, s
<1>9. ASSUME NEW j, j = Len(manifests) + 1 PROVE LineageSound(j)'
  BY <1>9, <1>3, <1>4, <1>5, <1>6, <1>7, <1>8 DEF LineageSound, PromotedFrom
<1> QED
  BY <1>1, <1>2, <1>9, ApprovedLater DEF ApprovePromotion

LEMMA DeployKeeps ==
    ASSUME LadConstants, LadInv, NEW n \in DOMAIN manifests, Deploy(n)
    PROVE  LadInv'
<1>1. n \in 1..Len(manifests) /\ manifests[n] \in Manifest
  BY DEF LadInv
<1>2. LadTypeOK'
  <2>1. /\ running' = [running EXCEPT ![manifests[n].environment] = n]
        /\ everRan' = everRan \cup {n} /\ manifests' = manifests
    BY DEF Deploy
  <2>2. /\ running \in [Environments -> 0..Len(manifests)] /\ Len(manifests) <= MaxManifests
        /\ everRan \subseteq DOMAIN manifests
    BY DEF LadInv, LadTypeOK
  <2>3. running' \in [Environments -> 0..Len(manifests)]
    <3>1. n \in 0..Len(manifests)
      BY <1>1 DEF LadInv
    <3> QED
      BY <2>1, <2>2, <3>1, Zenon
  <2> QED
    BY <2>1, <2>2, <2>3 DEF LadTypeOK
<1>3. RunningSound'
  BY <1>1, <1>2 DEF LadInv, LadTypeOK, RunningSound, Deploy, Manifest
<1>4. ASSUME NEW k \in DOMAIN manifests PROVE LineageSound(k)'
  BY DEF LadInv, LineageSound, PromotedFrom, Deploy
<1> QED
  BY <1>2, <1>3, <1>4 DEF LadInv, Deploy

LEMMA RetireKeeps ==
    ASSUME LadConstants, LadInv, NEW env \in Environments, Retire(env)
    PROVE  LadInv'
<1>1. LadTypeOK' /\ RunningSound'
  BY DEF LadInv, LadTypeOK, RunningSound, Retire, NoManifest
<1>2. ASSUME NEW k \in DOMAIN manifests PROVE LineageSound(k)'
  BY DEF LadInv, LineageSound, PromotedFrom, Retire
<1> QED
  BY <1>1, <1>2 DEF LadInv, Retire

LEMMA LadInvInit == LadConstants /\ LadInit => LadInv
BY DEF LadConstants, LadInit, LadInv, LadTypeOK, RunningSound, NoManifest

LEMMA LadInvStep == LadConstants /\ LadInv /\ [LadNext]_ladVars => LadInv'
<1> SUFFICES ASSUME LadConstants, LadInv, [LadNext]_ladVars PROVE LadInv'
  OBVIOUS
<1>1. CASE UNCHANGED ladVars
  BY <1>1 DEF ladVars, LadInv, LadTypeOK, RunningSound, LineageSound, PromotedFrom
<1>2. ASSUME NEW env \in Environments, ApproveCandidate(env) \/ Retire(env) PROVE LadInv'
  BY <1>2, ApproveCandidateKeeps, RetireKeeps
<1>3. ASSUME NEW edge \in Edges, edge[1] # "protected-main", ApprovePromotion(edge[1], edge[2])
      PROVE  LadInv'
  <2>1. edge[1] \in Environments /\ edge[2] \in Environments
    BY <1>3 DEF Edges, Environments
  <2> QED
    BY <1>3, <2>1, ApprovePromotionKeeps
<1>4. ASSUME NEW n \in DOMAIN manifests, Deploy(n) PROVE LadInv'
  BY <1>4, DeployKeeps
<1> QED
  BY <1>1, <1>2, <1>3, <1>4 DEF LadNext

LEMMA LadMeaning == LadInv => LadTypeOK /\ LadderSafe
<1> SUFFICES ASSUME LadInv PROVE NoStageSkipped /\ SecretsNeverShared
  BY DEF LadInv, LadderSafe
<1>1. everRan \subseteq DOMAIN manifests
  BY DEF LadInv, LadTypeOK
<1>2. SecretsNeverShared
  <2> SUFFICES ASSUME NEW n \in everRan, NEW m \in everRan,
                      manifests[n].secretRef = manifests[m].secretRef
               PROVE  manifests[n].environment = manifests[m].environment
    BY DEF SecretsNeverShared
  <2> QED
    BY <1>1 DEF LadInv, LineageSound
<1>3. NoStageSkipped
  <2> SUFFICES ASSUME NEW n \in everRan, manifests[n].environment = "production"
               PROVE  \E m \in everRan, k \in everRan :
                         /\ manifests[m].environment = "staging" /\ PromotedFrom(n, m)
                         /\ manifests[k].environment = "sandbox" /\ PromotedFrom(m, k)
    BY DEF NoStageSkipped
  <2> DEFINE m == manifests[n].sourceManifest
             k == manifests[m].sourceManifest
  <2>1. /\ m \in everRan /\ manifests[m].environment = "staging" /\ PromotedFrom(n, m)
    BY <1>1 DEF LadInv, LineageSound, Edges
  <2>2. /\ k \in everRan /\ manifests[k].environment = "sandbox" /\ PromotedFrom(m, k)
    BY <1>1, <2>1 DEF LadInv, LineageSound, Edges
  <2> QED
    BY <2>1, <2>2
<1> QED
  BY <1>2, <1>3

\* Nothing runs in production that did not run in staging and in sandbox, and no two
\* environments ever ran with one secret reference, whatever is retired or rolled back
\* between approval and deployment (validatePromotion).
THEOREM LadderHolds ==
    ASSUME LadConstants
    PROVE  LadSpec => [](LadTypeOK /\ LadderSafe)
<1>1. LadInit => LadInv
  BY LadInvInit
<1>2. LadInv /\ [LadNext]_ladVars => LadInv'
  BY LadInvStep
<1>3. LadInv => LadTypeOK /\ LadderSafe
  BY LadMeaning
<1> QED
  BY <1>1, <1>2, <1>3, PTL DEF LadSpec
=============================================================================
