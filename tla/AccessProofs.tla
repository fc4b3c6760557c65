---------------------------- MODULE AccessProofs ----------------------------
(***************************************************************************)
(* Machine-checked safety of the ways in: which rows a signed-in owner is  *)
(* shown, for any users and any store; what the HTTP server lets through,  *)
(* for any configurations, requests, limits and windows; and what an       *)
(* operator finds of what was given into custody, for any processes that   *)
(* may be killed at any step, any number of faults and losses of power.    *)
(***************************************************************************)
EXTENDS OwnerAccess, HttpAccess, ObservabilityCustody, FiniteSetTheorems, TLAPS

-----------------------------------------------------------------------------
(* Who is shown which rows *)

ParentTables == {"job", "quote", "course", "assignment", "model"}

\* What is asked of the parameters: every table in play is one of the export's datasets.
OwnConstants ==
    /\ Datasets \in Seq(STRING) /\ MaxRows \in Nat /\ Routes \subseteq STRING
    /\ None \notin ParentTables \cup Nat \cup Callers
    /\ Tables \subseteq AccountDatasets \cup WorkDatasets \cup CommunityDatasets
                        \cup RecordDatasets \cup LedgerDatasets

Row == [id: Nat, table: STRING, owner: Users, parent: Nat \cup {None}, shown: BOOLEAN]

\* A row's parent is there, of the table it must be of, and of the same owner except for
\* runs and submissions, which hang on other users' rows.
HangsOn(r, p) ==
    /\ p.id = r.parent /\ p.table = ParentTable(r.table)
    /\ r.table \in {"event", "offer", "listing"} => p.owner = r.owner

\* What holds of the rows at every moment, and so of an export's snapshot.
RowsSound(d) ==
    /\ d \subseteq Row
    /\ \A r \in d : r.table \in Tables
    /\ \A r, s \in d : r.id = s.id => r = s
    /\ \A r \in d : r.parent = None <=> ParentTable(r.table) = None
    /\ \A r \in d : r.parent # None => \E p \in d : HangsOn(r, p)

CallState ==
    {NoCall} \cup [phase: {"known"}, by: Callers, route: STRING]
             \cup [phase: {"first"}, by: Callers, route: STRING, rows: SUBSET Row]

ExportState ==
    {NoExport} \cup [user: Users, snapshot: SUBSET Row, at: 1..(Len(Datasets) + 1), got: SUBSET Row]

\* The rows a first query found are the caller's, and stay so: an id is never used twice.
FirstRowsOwn ==
    call.phase = "first" =>
        /\ call.route \in TwoQueries
        /\ \A q \in call.rows : q.owner = call.by /\ q.id <= made
        /\ \A q \in call.rows, p \in db : p.id = q.id => p.owner = q.owner

\* The export has read the datasets before `at` from its snapshot.
ReadSoFar ==
    export # NoExport =>
        /\ RowsSound(export.snapshot)
        /\ export.got = UNION {Dataset(Datasets[i], export.user, export.snapshot) :
                                 i \in 1..(export.at - 1)}

OwnInv ==
    /\ RowsSound(db)
    /\ made \in 0..MaxRows /\ \A r \in db : r.id \in 1..made
    /\ accounts \subseteq Users /\ \A r \in db : r.owner \in accounts
    /\ call \in CallState /\ export \in ExportState
    /\ FirstRowsOwn /\ ReadSoFar

\* ParentTable in terms that need no case split.
LEMMA ParentTableCases ==
    ASSUME OwnConstants, NEW t
    PROVE  /\ t = "event" => ParentTable(t) = "job"
           /\ t = "offer" => ParentTable(t) = "quote"
           /\ t = "run" => ParentTable(t) = "course"
           /\ t = "submission" => ParentTable(t) = "assignment"
           /\ t = "listing" => ParentTable(t) = "model"
           /\ t \notin {"event", "offer", "run", "submission", "listing"} => ParentTable(t) = None
           /\ ParentTable(t) # None => ParentTable(ParentTable(t)) = None
  BY DEF OwnConstants, ParentTable

LEMMA OwnInvInit == OwnConstants /\ OwnInit => OwnInv
  BY DEF OwnConstants, OwnInit, OwnInv, RowsSound, CallState, ExportState, FirstRowsOwn, ReadSoFar,
         NoCall, NoExport

\* A new row: its id is new, and its parent, if any, is one of the maker's.
LEMMA CreateKeeps ==
    ASSUME OwnConstants, OwnInv,
           NEW u \in Users, NEW t \in Tables, NEW parent \in 1..MaxRows \cup {None},
           NEW shown \in BOOLEAN, CreateRow(u, t, parent, shown)
    PROVE  OwnInv'
<1> DEFINE new == [id |-> made + 1, table |-> t, owner |-> u, parent |-> parent, shown |-> shown]
<1>1. /\ db' = db \cup {new} /\ made' = made + 1 /\ made < MaxRows /\ u \in accounts
      /\ UNCHANGED <<accounts, call, answer, export>>
  BY DEF CreateRow
<1>2. /\ made \in Nat /\ MaxRows \in Nat /\ t \in STRING /\ parent \in Nat \cup {None}
  BY DEF OwnInv, OwnConstants, Tables
<1>3. new \in Row
  BY <1>2 DEF Row
<1>4. parent = None <=> ParentTable(t) = None
  BY DEF CreateRow
<1>5. parent # None => \E p \in db : HangsOn(new, p)
  <2> SUFFICES ASSUME parent # None PROVE \E p \in db : HangsOn(new, p)
    OBVIOUS
  <2>1. PICK p \in db : p.id = parent /\ MayHang(u, t, p)
    BY DEF CreateRow
  <2>2. HangsOn(new, p)
    BY <2>1 DEF HangsOn, MayHang
  <2> QED
    BY <2>2
<1>6. \A r \in db : r.id \in 1..made /\ r.id # new.id
  BY <1>2 DEF OwnInv
<1>7. RowsSound(db')
  <2> HIDE DEF new
  <2>0. new.table = t /\ new.parent = parent
    BY DEF new
  <2>1. db' \subseteq Row
    BY <1>1, <1>3 DEF OwnInv, RowsSound
  <2>2. \A r \in db' : r.table \in Tables
    BY <1>1, <2>0 DEF OwnInv, RowsSound
  <2>3. \A r, s \in db' : r.id = s.id => r = s
    BY <1>1, <1>6 DEF OwnInv, RowsSound
  <2>4. \A r \in db' : r.parent = None <=> ParentTable(r.table) = None
    BY <1>1, <1>4, <2>0 DEF OwnInv, RowsSound
  <2>5. \A r \in db' : r.parent # None => \E p \in db' : HangsOn(r, p)
    BY <1>1, <1>5, <2>0 DEF OwnInv, RowsSound
  <2> QED
    BY <2>1, <2>2, <2>3, <2>4, <2>5 DEF RowsSound
<1>8. /\ made' \in 0..MaxRows /\ \A r \in db' : r.id \in 1..made'
      /\ \A r \in db' : r.owner \in accounts'
  BY <1>1, <1>2, <1>6 DEF OwnInv
<1>9. FirstRowsOwn'
  <2> SUFFICES ASSUME call.phase = "first" PROVE FirstRowsOwn'
    BY <1>1 DEF FirstRowsOwn
  <2>1. \A q \in call.rows : q \in Row
    BY DEF OwnInv, CallState, NoCall
  <2>2. \A q \in call.rows : q.id \in Nat /\ q.id <= made /\ q.id <= made + 1
    BY <1>2, <2>1 DEF OwnInv, FirstRowsOwn, Row
  <2> QED
    BY <1>1, <1>2, <2>2 DEF OwnInv, FirstRowsOwn
<1>10. ReadSoFar'
  BY <1>1 DEF OwnInv, ReadSoFar
<1> QED
  BY <1>1, <1>7, <1>8, <1>9, <1>10 DEF OwnInv

\* Curation changes a listing's visibility and nothing else of any row.
LEMMA CurateKeeps ==
    ASSUME OwnConstants, OwnInv, NEW l \in db, CurateListing(l)
    PROVE  OwnInv'
<1> DEFINE new == [l EXCEPT !.shown = ~@]
<1>1. /\ db' = (db \ {l}) \cup {new} /\ UNCHANGED <<made, accounts, call, answer, export>>
  BY DEF CurateListing
<1>2. l \in Row /\ l.table = "listing"
  BY DEF CurateListing, Of, OwnInv, RowsSound
<1>3. new \in Row /\ new.id = l.id /\ new.table = l.table /\ new.owner = l.owner
      /\ new.parent = l.parent
  BY <1>2 DEF Row
<1> HIDE DEF new
<1>4. RowsSound(db')
  <2>1. db' \subseteq Row /\ \A r \in db' : r.table \in Tables
    BY <1>1, <1>3 DEF OwnInv, RowsSound
  <2>2. \A r, s \in db' : r.id = s.id => r = s
    BY <1>1, <1>3 DEF OwnInv, RowsSound
  <2>3. \A r \in db' : r.parent = None <=> ParentTable(r.table) = None
    BY <1>1, <1>3 DEF OwnInv, RowsSound
  <2>4. ASSUME NEW r \in db', r.parent # None PROVE \E p \in db' : HangsOn(r, p)
    <3>1. PICK o \in db : o.parent = r.parent /\ o.table = r.table /\ o.owner = r.owner
      BY <1>1, <1>3
    <3>2. PICK p \in db : HangsOn(o, p)
      BY <2>4, <3>1 DEF OwnInv, RowsSound
    <3>3. HangsOn(r, p) /\ (p = l => HangsOn(r, new))
      BY <1>3, <3>1, <3>2 DEF HangsOn
    <3> QED
      BY <1>1, <3>3
  <2> QED
    BY <2>1, <2>2, <2>3, <2>4 DEF RowsSound
<1>5. \A r \in db' : \E o \in db : o.id = r.id /\ o.owner = r.owner
  BY <1>1, <1>3
<1>6. (\A r \in db' : r.id \in 1..made /\ r.owner \in accounts) /\ FirstRowsOwn' /\ ReadSoFar'
  BY <1>1, <1>5 DEF OwnInv, FirstRowsOwn, ReadSoFar
<1> QED
  BY <1>1, <1>4, <1>6 DEF OwnInv

\* A deletion takes the user's rows and what hangs on them: what is left keeps its parent,
\* which hangs on nothing itself.
LEMMA DeleteKeeps ==
    ASSUME OwnConstants, OwnInv, NEW u \in Users, DeleteAccount(u)
    PROVE  OwnInv'
<1>1. /\ accounts' = accounts \ {u} /\ db' = {r \in db : ~Purged(u, r)}
      /\ UNCHANGED <<made, call, answer, export>>
  BY DEF DeleteAccount
<1>2. db' \subseteq db /\ \A r \in db' : r.owner # u
  BY <1>1 DEF Purged
<1>3. RowsSound(db')
  <2>1. ASSUME NEW r \in db', r.parent # None PROVE \E p \in db' : HangsOn(r, p)
    <3>1. PICK p \in db : HangsOn(r, p)
      BY <1>2, <2>1 DEF OwnInv, RowsSound
    <3>2. p.owner # u
      BY <1>1, <2>1, <3>1 DEF Purged, HangsOn
    <3>3. p.parent = None
      <4>1. ParentTable(r.table) # None /\ p.table = ParentTable(r.table)
        BY <1>2, <2>1, <3>1 DEF OwnInv, RowsSound, HangsOn
      <4>2. ParentTable(p.table) = None
        BY <4>1, ParentTableCases
      <4> QED
        BY <4>2 DEF OwnInv, RowsSound
    <3>4. \A q \in db : q.id # None
      BY DEF OwnInv, OwnConstants
    <3> QED
      BY <1>1, <3>1, <3>2, <3>3, <3>4 DEF Purged
  <2> QED
    BY <1>2, <2>1 DEF OwnInv, RowsSound
<1>4. \A r \in db' : r.owner \in accounts'
  BY <1>1, <1>2 DEF OwnInv
<1>5. FirstRowsOwn' /\ ReadSoFar'
  BY <1>1, <1>2 DEF OwnInv, FirstRowsOwn, ReadSoFar
<1> QED
  BY <1>1, <1>2, <1>3, <1>4, <1>5 DEF OwnInv

\* What the two routes that ask twice find first is the caller's own.
LEMMA FirstOfTwoOwn ==
    ASSUME OwnInv, NEW c, NEW route \in TwoQueries
    PROVE  First(route, c, db) = Own(db, IF route = "job" THEN "job" ELSE "quote", c)
  BY DEF TwoQueries, First, getOwnedJob, listPrintQuoteRequests

LEMMA CallKeeps ==
    ASSUME OwnConstants, OwnInv,
           \/ \E c \in Callers, route \in Routes : ResolveCaller(c, route)
           \/ Query \/ SecondQuery \/ Answered
    PROVE  OwnInv'
<1>1. UNCHANGED <<db, made, accounts, export>>
  BY DEF ResolveCaller, Query, SecondQuery, Answered
<1>2. call' \in CallState /\ FirstRowsOwn'
  <2>1. ASSUME NEW c \in Callers, NEW route \in Routes, ResolveCaller(c, route)
        PROVE  call' \in CallState /\ FirstRowsOwn'
    BY <2>1 DEF OwnConstants, ResolveCaller, CallState, FirstRowsOwn
  <2>2. ASSUME Query PROVE call' \in CallState /\ FirstRowsOwn'
    <3> DEFINE rows == First(call.route, call.by, db)
    <3>1. CASE call' = NoCall
      BY <3>1 DEF CallState, FirstRowsOwn, NoCall
    <3>2. CASE /\ call.route \in TwoQueries
               /\ call' = [phase |-> "first", by |-> call.by, route |-> call.route, rows |-> rows]
      <4>1. call.by \in Callers /\ call.route \in STRING
        BY <2>2 DEF Query, OwnInv, CallState, NoCall
      <4>2. \A q \in rows : q \in db /\ q.owner = call.by
        BY <3>2, FirstOfTwoOwn DEF Own, Of
      <4>3. \A q \in rows : q \in Row /\ q.id <= made
        BY <4>2 DEF OwnInv, RowsSound
      <4>4. call' \in CallState
        BY <3>2, <4>1, <4>3 DEF CallState
      <4>5. FirstRowsOwn'
        BY <1>1, <3>2, <4>2, <4>3 DEF FirstRowsOwn, OwnInv, RowsSound
      <4> QED
        BY <4>4, <4>5
    <3> QED
      BY <2>2, <3>1, <3>2 DEF Query
  <2>3. ASSUME SecondQuery PROVE call' \in CallState /\ FirstRowsOwn'
    BY <2>3 DEF SecondQuery, CallState, FirstRowsOwn, NoCall
  <2>4. ASSUME Answered PROVE call' \in CallState /\ FirstRowsOwn'
    BY <1>1, <2>4 DEF Answered, FirstRowsOwn, OwnInv
  <2> QED
    BY <2>1, <2>2, <2>3, <2>4
<1> QED
  BY <1>1, <1>2 DEF OwnInv, ReadSoFar

\* A dataset is a part of the snapshot.
LEMMA DatasetOfSnapshot ==
    ASSUME NEW t, NEW u, NEW d
    PROVE  Dataset(t, u, d) \subseteq d
  BY DEF Dataset, Under, Own, Of

LEMMA ExportKeeps ==
    ASSUME OwnConstants, OwnInv,
           (\E u \in Users : BeginExport(u)) \/ ReadDataset \/ FinishExport
    PROVE  OwnInv'
<1>1. UNCHANGED <<db, made, accounts, call>>
  BY DEF BeginExport, ReadDataset, FinishExport
<1>0. Len(Datasets) \in Nat
  BY DEF OwnConstants
<1>2. export' \in ExportState /\ ReadSoFar'
  <2>1. ASSUME NEW u \in Users, BeginExport(u) PROVE export' \in ExportState /\ ReadSoFar'
    <3>1. export' = [user |-> u, snapshot |-> db, at |-> 1, got |-> {}]
      BY <2>1 DEF BeginExport
    <3>2. export' \in ExportState
      BY <1>0, <3>1 DEF ExportState, OwnInv, RowsSound
    <3>3. 1..(export'.at - 1) = {}
      BY <3>1
    <3>4. UNION {Dataset(Datasets[i], u, db) : i \in {}} = {}
      OBVIOUS
    <3> QED
      BY <3>1, <3>2, <3>3, <3>4 DEF ReadSoFar, OwnInv
  <2>2. ASSUME ReadDataset PROVE export' \in ExportState /\ ReadSoFar'
    <3> DEFINE k == export.at
               read == Dataset(Datasets[k], export.user, export.snapshot)
    <3>1. /\ export \in [user: Users, snapshot: SUBSET Row, at: 1..(Len(Datasets) + 1),
                         got: SUBSET Row]
          /\ k <= Len(Datasets)
          /\ export' = [export EXCEPT !.at = @ + 1, !.got = @ \cup read]
      BY <2>2 DEF ReadDataset, OwnInv, ExportState
    <3>2. read \subseteq Row
      BY <3>1, DatasetOfSnapshot
    <3> HIDE DEF read
    <3>3. /\ export'.user = export.user /\ export'.snapshot = export.snapshot
          /\ export'.at = k + 1 /\ export'.got = export.got \cup read
          /\ k \in 1..Len(Datasets) /\ export' \in ExportState
      <4>1. k \in 1..Len(Datasets) /\ k + 1 \in 1..(Len(Datasets) + 1)
        BY <1>0, <3>1
      <4>2. export.got \cup read \in SUBSET Row
        BY <3>1, <3>2
      <4>3. export' \in [user: Users, snapshot: SUBSET Row, at: 1..(Len(Datasets) + 1),
                         got: SUBSET Row]
        BY <3>1, <4>1, <4>2
      <4> QED
        BY <3>1, <4>1, <4>3 DEF ExportState
    <3>4. 1..(k + 1 - 1) = (1..(k - 1)) \cup {k}
      BY <1>0, <3>3
    <3>5. RowsSound(export.snapshot) /\ export.got =
            UNION {Dataset(Datasets[i], export.user, export.snapshot) : i \in 1..(k - 1)}
      BY <2>2 DEF OwnInv, ReadSoFar, ReadDataset
    <3>6. export'.got =
            UNION {Dataset(Datasets[i], export.user, export.snapshot) : i \in 1..(k + 1 - 1)}
      BY <3>3, <3>4, <3>5 DEF read
    <3> QED
      BY <3>3, <3>5, <3>6 DEF ReadSoFar
  <2>3. ASSUME FinishExport PROVE export' \in ExportState /\ ReadSoFar'
    BY <2>3 DEF FinishExport, ExportState, ReadSoFar
  <2> QED
    BY <2>1, <2>2, <2>3
<1> QED
  BY <1>1, <1>2 DEF OwnInv, FirstRowsOwn

LEMMA OwnInvStep == OwnConstants /\ OwnInv /\ [OwnNext]_ownVars => OwnInv'
<1> SUFFICES ASSUME OwnConstants, OwnInv, [OwnNext]_ownVars PROVE OwnInv'
  OBVIOUS
<1>1. CASE UNCHANGED ownVars
  BY <1>1 DEF ownVars, OwnInv, FirstRowsOwn, ReadSoFar
<1>2. CASE OwnNext
  BY <1>2, CreateKeeps, CurateKeeps, DeleteKeeps, CallKeeps, ExportKeeps DEF OwnNext
<1> QED
  BY <1>1, <1>2

\* The rows of the datasets are the user's and what hangs on the user's jobs and quotes.
LEMMA ExportOfSound ==
    ASSUME OwnConstants, NEW d, RowsSound(d), NEW u \in Users
    PROVE  UNION {Dataset(Datasets[i], u, d) : i \in 1..Len(Datasets)} =
             {r \in d : \/ r.owner = u
                        \/ /\ r.table \in {"event", "offer"}
                           /\ \E p \in d : p.id = r.parent /\ p.owner = u}
<1> DEFINE Mine(r) == \/ r.owner = u
                      \/ /\ r.table \in {"event", "offer"}
                         /\ \E p \in d : p.id = r.parent /\ p.owner = u
<1>1. ASSUME NEW i \in 1..Len(Datasets), NEW r \in Dataset(Datasets[i], u, d)
      PROVE  r \in d /\ Mine(r)
  BY <1>1 DEF Dataset, ThroughParent, Under, Own, Of, IdsOf
<1>2. ASSUME NEW r \in d, Mine(r)
      PROVE  \E i \in 1..Len(Datasets) : r \in Dataset(Datasets[i], u, d)
  <2>1. PICK i \in 1..Len(Datasets) : Datasets[i] = r.table
    BY DEF RowsSound, Tables
  <2>2. CASE r.table \notin ThroughParent
    BY <1>2, <2>1, <2>2 DEF Dataset, ThroughParent, Own, Of
  <2>3. CASE r.table \in ThroughParent
    <3>0. ParentTable(r.table) = "job" \/ ParentTable(r.table) = "quote"
      BY <2>3 DEF ThroughParent, ParentTable
    <3>1. ParentTable(r.table) # None
      BY <3>0 DEF OwnConstants, ParentTables
    <3>2. PICK p \in d : HangsOn(r, p)
      BY <3>1 DEF RowsSound
    <3>3. p.owner = u
      BY <1>2, <2>3, <3>2 DEF HangsOn, ThroughParent, RowsSound
    <3>4. p \in Own(d, ParentTable(r.table), u) /\ p.id = r.parent
      BY <3>2, <3>3 DEF HangsOn, Own, Of
    <3> QED
      BY <2>1, <2>3, <3>4 DEF Dataset, Under, Of, IdsOf
  <2> QED
    BY <2>2, <2>3
<1> QED
  BY <1>1, <1>2

\* What the rows, the calls and the export always satisfy (OwnTypeOK, AccessSafe).
LEMMA OwnMeaning == OwnConstants /\ OwnInv => OwnTypeOK /\ AccessSafe
<1> SUFFICES ASSUME OwnConstants, OwnInv PROVE OwnTypeOK /\ AccessSafe
  OBVIOUS
<1>1. OwnTypeOK
  <2>1. call.phase \in {"none", "known", "first"} /\ call.by \in Callers \cup {None}
    BY DEF OwnInv, CallState, NoCall
  <2>2. export.user \in Users \cup {None}
    BY DEF OwnInv, ExportState, NoExport
  <2>3. \A r \in db : r \in Row /\ r.table \in Tables /\ r.id \in 1..made
    BY DEF OwnInv, RowsSound
  <2> QED
    BY <2>1, <2>2, <2>3 DEF OwnTypeOK, OwnInv, OwnConstants, Row
<1>2. NothingOrphaned
  BY DEF NothingOrphaned, OwnInv, RowsSound, HangsOn
<1>3. ExportIsOneMoment
  <2> SUFFICES ASSUME export # NoExport, export.at > Len(Datasets) PROVE ExportIsOneMoment
    BY DEF ExportIsOneMoment
  <2>1. /\ export.user \in Users /\ export.at \in 1..(Len(Datasets) + 1)
        /\ Len(Datasets) \in Nat
    BY DEF OwnInv, ExportState, OwnConstants
  <2>2. export.at - 1 = Len(Datasets)
    BY <2>1
  <2> QED
    BY <2>1, <2>2, ExportOfSound DEF OwnInv, ReadSoFar, ExportIsOneMoment
<1> QED
  BY <1>1, <1>2, <1>3 DEF AccessSafe

\* Every answer's rows are ones its reader is entitled to: the first query filters by the
\* caller, and what the second adds hangs on rows that are still the caller's.
LEMMA OwnStepEntitled ==
    OwnConstants /\ OwnInv /\ [OwnNext]_ownVars => AnswersEntitled
<1> SUFFICES ASSUME OwnConstants, OwnInv, [OwnNext]_ownVars, answer' # answer
             PROVE  \A r \in answer'.rows : Entitled(answer'.to, r, db)
  BY DEF AnswersEntitled
<1>1. Query \/ SecondQuery \/ Answered
  BY DEF OwnNext, ownVars, ResolveCaller, CreateRow, CurateListing, DeleteAccount,
         BeginExport, ReadDataset, FinishExport
<1>2. ASSUME Query PROVE \A r \in answer'.rows : Entitled(answer'.to, r, db)
  <2>1. answer' = [to |-> call.by, rows |-> First(call.route, call.by, db)]
    BY <1>2 DEF Query
  <2>2. ASSUME NEW r \in First(call.route, call.by, db) PROVE Entitled(call.by, r, db)
    <3> DEFINE c == call.by
    <3>1. \/ r \in db /\ r.owner = c
          \/ r \in ListCourses(c, db) \cup GetCourse(c, db) \cup ListLeaderboard(c, db)
                   \cup ListAssignments(c, db) \cup ListSubmissions(c, db) \cup ListListings(c, db)
      BY <2>2 DEF First, Own, Of, listModels, getOwnedModel, getOwnedObjectBlob, BlobAccess,
         listRecorderArchives, listJobs, getOwnedJob, listPhotoscanArtifacts,
         listPolicyArtifacts, listReplayArtifacts, listTelemetryLogs, listPrintQuoteRequests,
         creditSummary, listCurrentConsents, MaintenanceRecords, ModerationReports,
         OwnedListings
    <3>2. r \in ListCourses(c, db) \cup GetCourse(c, db) \cup ListLeaderboard(c, db)
                  \cup ListAssignments(c, db) \cup ListListings(c, db) => Entitled(c, r, db)
      BY DEF ListCourses, GetCourse, ListLeaderboard, ListAssignments, ListListings, Of,
             Entitled, Showable
    <3>3. r \in ListSubmissions(c, db) => Entitled(c, r, db)
      BY DEF ListSubmissions, Under, Own, Of, IdsOf, Entitled
    <3> QED
      BY <3>1, <3>2, <3>3 DEF Entitled
  <2> QED
    BY <2>1, <2>2
<1>3. ASSUME SecondQuery PROVE \A r \in answer'.rows : Entitled(answer'.to, r, db)
  <2>1. /\ answer' = [to |-> call.by, rows |-> Second(call.route, call.by, call.rows, db)]
        /\ call.phase = "first"
    BY <1>3 DEF SecondQuery
  <2>2. ASSUME NEW r \in Second(call.route, call.by, call.rows, db)
        PROVE  Entitled(call.by, r, db)
    <3>1. PICK q \in call.rows : /\ r \in db /\ r.table \in {"event", "offer"}
                                 /\ q.id = r.parent
      BY <2>2 DEF Second, listJobEvents, QuoteOffers, Under, IdsOf, Of
    <3>2. q.owner = call.by /\ \A p \in db : p.id = q.id => p.owner = q.owner
      BY <2>1, <3>1 DEF OwnInv, FirstRowsOwn
    <3>3. r.parent # None
      <4>1. q.id \in Nat
        BY <2>1, <3>1 DEF OwnInv, CallState, NoCall, Row
      <4> QED
        BY <3>1, <4>1 DEF OwnConstants
    <3>4. PICK p \in db : HangsOn(r, p)
      BY <3>1, <3>3 DEF OwnInv, RowsSound
    <3> QED
      BY <3>1, <3>2, <3>4 DEF HangsOn, Entitled
  <2> QED
    BY <2>1, <2>2
<1>4. ASSUME Answered PROVE \A r \in answer'.rows : Entitled(answer'.to, r, db)
  BY <1>4 DEF Answered, NoAnswer
<1> QED
  BY <1>1, <1>2, <1>3, <1>4

\* The export, the deletion and the reads, for any users, tables and routes: nothing of a
\* deleted account is left and an export is one moment of its account (accountData.ts).
THEOREM OwnerAccessIsSafe ==
    ASSUME OwnConstants PROVE OwnSpec => [](OwnTypeOK /\ AccessSafe)
  BY OwnInvInit, OwnInvStep, OwnMeaning, PTL DEF OwnSpec

\* No answer shows a row to a caller who is not entitled to it, whatever requests change
\* between the caller's check and its queries (the read routes of server.ts).
THEOREM OwnerAnswersEntitled ==
    ASSUME OwnConstants PROVE OwnSpec => [][AnswersEntitled]_ownVars
<1>1. OwnConstants /\ OwnInv /\ [OwnNext]_ownVars => [AnswersEntitled]_ownVars
  BY OwnStepEntitled
<1> QED
  BY <1>1, OwnInvInit, OwnInvStep, PTL DEF OwnSpec

-----------------------------------------------------------------------------
(* What the server lets through *)

Classes == DOMAIN Limit
Keys == Classes \X {q.ip : q \in Requests}

\* What is asked of the parameters: the constructor of the limiter refuses a window or a
\* limit of zero, every class but that of the auth routes has a limit, and a value that
\* stands for absence is none of the others.
HttpConstants ==
  /\ Limit \in [Classes -> Nat \ {0}] /\ Window \in Nat \ {0} /\ MaxBuckets \in Nat \ {0}
  /\ MaxTime \in Nat /\ MaxRequests \in Nat
  /\ \A q \in Requests : q.kind \in Classes \cup {"auth"}
  /\ \A e \in Configs : e.origin \in {"none", "http", "https", "malformed"}
  /\ Absent \notin {"own", "throws", "revision", "deployment"}

Bucket == [key: Keys, count: Nat, resetsAt: Nat, place: Nat]
Arrival == [key: Keys, at: Nat, over: BOOLEAN]

\* The requests of a key in its current window, those let through, those let through in a
\* window's length before it, and in a stretch of time.
Hits(b) == {j \in DOMAIN arrivals : arrivals[j].key = b.key /\ arrivals[j].at + Window >= b.resetsAt}
Let(b) == {j \in Hits(b) : ~arrivals[j].over}
LetBefore(b, t) ==
  {j \in DOMAIN arrivals : /\ arrivals[j].key = b.key /\ ~arrivals[j].over
                           /\ arrivals[j].at >= t /\ arrivals[j].at + Window < b.resetsAt}
LetIn(k, t) ==
  {j \in DOMAIN arrivals : /\ arrivals[j].key = k /\ ~arrivals[j].over
                           /\ arrivals[j].at \in t..(t + Window - 1)}
Seen == {arrivals[j].key : j \in DOMAIN arrivals}

\* The buckets: one per key, each in a place of its own, within the cap.
BucketsSound ==
  /\ buckets \subseteq Bucket /\ IsFiniteSet(buckets) /\ Cardinality(buckets) <= MaxBuckets
  /\ \A b, c \in buckets : b.key = c.key => b = c
  /\ \A b, c \in buckets : b.place = c.place => b = c
  /\ \A b \in buckets : /\ b.count \in 1..sent /\ b.place < sent /\ b.resetsAt <= now + Window
                        /\ b.resetsAt >= Window /\ b.key \in Seen
                        /\ b.count <= Cardinality(Hits(b))

\* As long as nothing was evicted: every key that came has its bucket, whose window holds
\* all its requests up to now; the limit held in this window and in any stretch that
\* reaches from the window before into it.
WindowsSound ==
  Cardinality(Seen) <= MaxBuckets =>
    /\ \A k \in Seen : BucketsOf(k) # {}
    /\ \A b \in buckets, j \in DOMAIN arrivals :
         arrivals[j].key = b.key => arrivals[j].at < b.resetsAt
    /\ \A b \in buckets : Cardinality(Let(b)) <= b.count /\ Cardinality(Let(b)) <= Limit[b.key[1]]
    /\ \A b \in buckets, t \in 0..MaxTime :
         t + 2 * Window > b.resetsAt => Cardinality(LetBefore(b, t)) <= Limit[b.key[1]]
    /\ \A k \in Seen, t \in 0..MaxTime : Cardinality(LetIn(k, t)) <= 2 * Limit[k[1]]

\* The limiter, its store and what it has done.
LimiterSound ==
  /\ now \in 0..MaxTime /\ sent \in 0..MaxRequests
  /\ arrivals \in Seq(Arrival) /\ (\A j \in DOMAIN arrivals : arrivals[j].at <= now)
  /\ IsFiniteSet(Seen)
  /\ BucketsSound /\ WindowsSound /\ RefusedOnlyOverLimit
  /\ arrivals # <<>> => BucketsOf(arrivals[Len(arrivals)].key) # {}

\* A request has the fields of an incoming one.
IsRequest(r) ==
  r = [ip |-> r.ip, kind |-> r.kind, safe |-> r.safe, origin |-> r.origin, cookie |-> r.cookie,
       dev |-> r.dev, body |-> r.body, n |-> r.n, stream |-> r.stream]

\* A request whose user is known came from a trusted origin and with a session or a
\* development header.
Identified(r, user) ==
  user # Absent => assertTrustedRequestOrigin(r) /\ (headerAuthEnabled \/ HasSessionCookie(r))

\* A process that left the bootstrap passed its checks, and only such a one has requests;
\* their users are known the way Identified says.
RequestsSound ==
  /\ proc \in {"up", "stopping", "exited"} => assertDeploymentBootstrap /\ assertAuthConfiguration
  /\ proc \notin {"up", "stopping", "exited"} => reqs = {} /\ done = Absent
  /\ \A q \in reqs : /\ q = [r |-> q.r, step |-> q.step, user |-> q.user] /\ IsRequest(q.r)
                     /\ q.step = "handler" <=> q.user # Absent
                     /\ assertTrustedRequestOrigin(q.r) /\ Identified(q.r, q.user)
  /\ done # Absent => Identified(done.r, done.user)
  /\ EveryResponseObserved

HttpInv ==
  /\ env \in Configs /\ proc \in {"starting", "up", "stopping", "refused", "exited"}
  /\ LimiterSound /\ RequestsSound

\* A nonempty set of naturals has a least element.
LEMMA LeastOf ==
  ASSUME NEW T, T \subseteq Nat, T # {}
  PROVE  \E x \in T : \A y \in T : x <= y
<1> DEFINE R == OpToRel(<, Nat)
<1>1. IsWellFoundedOn(R, Nat) /\ \A x, y \in Nat : <<y, x>> \in R <=> y < x
  BY NatLessThanWellFounded DEF OpToRel
<1> HIDE DEF R
<1>2. PICK x \in T : \A y \in T : ~(<<y, x>> \in R)
  BY <1>1, WFMin
<1>3. ASSUME NEW y \in T PROVE x <= y
  <2>1. x \in Nat /\ y \in Nat /\ ~(y < x)
    BY <1>1, <1>2
  <2> QED
    BY <2>1
<1> QED
  BY <1>3

\* What Evicted keeps: at most the cap, everything if the cap is not exceeded, and always
\* an open bucket in the last place.
LEMMA EvictedKeeps ==
  ASSUME HttpConstants, now \in Nat,
         NEW bs, IsFiniteSet(bs), bs \subseteq Bucket,
         \A b, c \in bs : b.place = c.place => b = c
  PROVE  /\ Evicted(bs) \subseteq bs /\ IsFiniteSet(Evicted(bs))
         /\ Cardinality(Evicted(bs)) <= MaxBuckets
         /\ Cardinality(bs) <= MaxBuckets => Evicted(bs) = bs
         /\ \A b \in bs : b.resetsAt > now /\ (\A c \in bs : c.place <= b.place)
                            => b \in Evicted(bs)
<1>0. Cardinality(bs) \in Nat /\ MaxBuckets \in Nat \ {0}
  BY FS_CardinalityType DEF HttpConstants
<1>1. CASE Cardinality(bs) <= MaxBuckets
  BY <1>1 DEF Evicted
<1>2. CASE ~(Cardinality(bs) <= MaxBuckets)
  <2> DEFINE live == {b \in bs : b.resetsAt > now}
             Later(b) == {c \in live : c.place > b.place}
             kept == {b \in live : Cardinality(Later(b)) < MaxBuckets}
  <2>1. Evicted(bs) = kept
    BY <1>2 DEF Evicted
  <2>2. live \subseteq bs /\ kept \subseteq live
    OBVIOUS
  <2>3. IsFiniteSet(kept) /\ Cardinality(kept) \in Nat /\ IsFiniteSet(live)
    BY <2>2, FS_Subset, FS_CardinalityType
  <2>4. ASSUME NEW b \in bs, b.resetsAt > now, \A c \in bs : c.place <= b.place PROVE b \in kept
    <3>1. Later(b) = {}
      BY <2>4 DEF Bucket
    <3>2. Cardinality(Later(b)) = 0
      BY <3>1, FS_EmptySet
    <3> QED
      BY <1>0, <2>4, <3>2
  <2>5. Cardinality(kept) <= MaxBuckets
    <3>1. CASE kept = {}
      <4> HIDE DEF kept
      <4>1. Cardinality(kept) = 0
        BY <3>1, FS_EmptySet
      <4> QED
        BY <1>0, <4>1
    <3>2. CASE kept # {}
      <4> DEFINE places == {b.place : b \in kept}
      <4>0. \A c \in kept : c \in Bucket /\ c \in live /\ c.place \in Nat
        BY <2>2 DEF Bucket
      <4>1. places \subseteq Nat /\ places # {}
        <5> HIDE DEF kept
        <5> QED
          BY <3>2, <4>0
      <4>2. PICK m \in places : \A y \in places : m <= y
        <5> HIDE DEF places
        <5> QED
          BY <4>1, LeastOf
      <4>3. PICK b \in kept : b.place = m
        BY <4>2
      <4>4. ASSUME NEW c \in kept, c # b PROVE c.place > b.place
        <5>1. c.place \in Nat /\ b.place \in Nat /\ b.place <= c.place
          <6> HIDE DEF kept
          <6> QED
            BY <4>0, <4>2, <4>3
        <5>2. c \in bs /\ b \in bs
          BY <2>2, <4>3
        <5>3. c.place # b.place
          <6> HIDE DEF kept
          <6> QED
            BY <4>4, <5>2
        <5> QED
          BY <5>1, <5>3
      <4>5. kept \ {b} \subseteq Later(b)
        <5> HIDE DEF kept, live
        <5> QED
          BY <4>0, <4>4
      <4>6. Later(b) \subseteq live
        OBVIOUS
      <4>7. IsFiniteSet(Later(b)) /\ Cardinality(Later(b)) < MaxBuckets
        BY <2>3, <4>6, FS_Subset
      <4> HIDE DEF kept, Later
      <4>8. Cardinality(kept \ {b}) = Cardinality(kept) - 1
        BY <2>3, FS_RemoveElement
      <4>9. Cardinality(kept \ {b}) <= Cardinality(Later(b)) /\ Cardinality(Later(b)) \in Nat
        BY <4>5, <4>7, FS_Subset, FS_CardinalityType
      <4> QED
        BY <1>0, <2>3, <4>7, <4>8, <4>9
    <3> QED
      BY <3>1, <3>2
  <2> QED
    BY <1>2, <2>1, <2>2, <2>3, <2>4, <2>5
<1> QED
  BY <1>1, <1>2

\* The bucket a counted request leaves behind, and the buckets of the other keys.
Successor(k) ==
  IF BucketsOf(k) = {} THEN Fresh(k, sent)
  ELSE LET b == CHOOSE b \in BucketsOf(k) : TRUE
       IN IF b.resetsAt <= now THEN Fresh(k, b.place) ELSE [b EXCEPT !.count = @ + 1]
Others(k) == {b \in buckets : b.key # k}

LEMMA ConsumeIs ==
  ASSUME HttpConstants, LimiterSound, NEW k \in Keys
  PROVE  /\ consume(k) = Evicted(Others(k) \cup {Successor(k)})
         /\ Successor(k) \in Bucket /\ Successor(k).key = k
         /\ Successor(k).count \in 1..(sent + 1) /\ Successor(k).count = Counted(k)
         /\ Successor(k).place <= sent
         /\ Successor(k).resetsAt > now /\ Successor(k).resetsAt <= now + Window
         /\ Successor(k).resetsAt >= Window
         /\ \A c \in Others(k) : c.place # Successor(k).place
         /\ \/ BucketsOf(k) = {} /\ Others(k) = buckets /\ Successor(k) = Fresh(k, sent)
            \/ \E b \in buckets :
                 /\ BucketsOf(k) = {b} /\ Others(k) = buckets \ {b}
                 /\ \/ b.resetsAt <= now /\ Successor(k) = Fresh(k, b.place)
                    \/ b.resetsAt > now /\ Successor(k) = [b EXCEPT !.count = @ + 1]
<1>1. /\ now \in Nat /\ sent \in Nat /\ Window \in Nat \ {0}
      /\ buckets \subseteq Bucket
      /\ \A b, c \in buckets : b.key = c.key => b = c
      /\ \A b, c \in buckets : b.place = c.place => b = c
      /\ \A b \in buckets : /\ b.count \in 1..sent /\ b.place < sent /\ b.resetsAt >= Window
                            /\ b.resetsAt <= now + Window
  BY DEF HttpConstants, LimiterSound, BucketsSound
<1>2. CASE BucketsOf(k) = {}
  <2>1. Successor(k) = Fresh(k, sent) /\ Others(k) = buckets
    BY <1>2 DEF Successor, Others, BucketsOf
  <2>2. Counted(k) = 1 /\ consume(k) = Evicted(Others(k) \cup {Successor(k)})
    BY <1>2, <2>1 DEF Counted, consume
  <2>3. Fresh(k, sent) \in Bucket
    BY <1>1 DEF Fresh, Bucket
  <2> QED
    BY <1>1, <1>2, <2>1, <2>2, <2>3 DEF Fresh, Bucket
<1>3. CASE BucketsOf(k) # {}
  <2> DEFINE b == CHOOSE b \in BucketsOf(k) : TRUE
  <2>1. b \in buckets /\ b.key = k
    BY <1>3 DEF BucketsOf
  <2>2. BucketsOf(k) = {b} /\ Others(k) = buckets \ {b}
    BY <1>1, <2>1 DEF BucketsOf, Others
  <2>3. consume(k) = Evicted(Others(k) \cup {Successor(k)})
    BY <1>3, <2>2 DEF consume, Successor
  <2>4. CASE b.resetsAt <= now
    <3>1. Successor(k) = Fresh(k, b.place)
      BY <1>3, <2>4 DEF Successor
    <3>2. Counted(k) = 1
      <4> HIDE DEF b
      <4>0. b.resetsAt \in Nat
        BY <1>1, <2>1 DEF Bucket
      <4>1. {c \in BucketsOf(k) : c.resetsAt > now} = {}
        BY <1>1, <2>2, <2>4, <4>0
      <4> QED
        BY <4>1 DEF Counted
    <3> HIDE DEF b
    <3>3. Fresh(k, b.place) \in Bucket /\ b.place \in Nat
      BY <1>1, <2>1 DEF Fresh, Bucket
    <3> QED
      BY <1>1, <2>1, <2>2, <2>3, <2>4, <3>1, <3>2, <3>3 DEF Fresh, Bucket
  <2>5. CASE ~(b.resetsAt <= now)
    <3>1. Successor(k) = [b EXCEPT !.count = @ + 1]
      BY <1>3, <2>5 DEF Successor
    <3>2. Counted(k) = b.count + 1
      <4> HIDE DEF b
      <4>0. b.resetsAt \in Nat /\ b.resetsAt > now
        BY <1>1, <2>1, <2>5 DEF Bucket
      <4>1. {c \in BucketsOf(k) : c.resetsAt > now} = {b}
        BY <2>2, <4>0
      <4>2. (CHOOSE c \in {b} : TRUE) = b
        OBVIOUS
      <4> QED
        BY <4>1, <4>2 DEF Counted
    <3> HIDE DEF b
    <3>3. b \in Bucket /\ [b EXCEPT !.count = @ + 1] \in Bucket
      BY <1>1, <2>1 DEF Bucket
    <3> QED
      BY <1>1, <2>1, <2>2, <2>3, <2>5, <3>1, <3>2, <3>3 DEF Bucket
  <2> QED
    BY <2>4, <2>5
<1> QED
  BY <1>2, <1>3

\* What one more counted arrival changes of the history's sets: those of the other keys
\* stay, those of its own key get the new arrival or stay.
LEMMA OneMoreArrival ==
  ASSUME HttpConstants, LimiterSound, NEW k \in Keys, NEW over \in BOOLEAN,
         arrivals' = Append(arrivals, [key |-> k, at |-> now, over |-> over])
  PROVE  /\ arrivals' \in Seq(Arrival) /\ Len(arrivals') = Len(arrivals) + 1
         /\ DOMAIN arrivals = 1..Len(arrivals) /\ DOMAIN arrivals' = 1..(Len(arrivals) + 1)
         /\ \A j \in DOMAIN arrivals : arrivals'[j] = arrivals[j] /\ arrivals[j] \in Arrival
         /\ arrivals'[Len(arrivals) + 1] = [key |-> k, at |-> now, over |-> over]
         /\ Seen' = Seen \cup {k}
         /\ \A b : b.key # k => /\ Hits(b)' = Hits(b) /\ Let(b)' = Let(b)
                                /\ \A t : LetBefore(b, t)' = LetBefore(b, t)
         /\ \A i, t : i # k => LetIn(i, t)' = LetIn(i, t)
<1>1. arrivals \in Seq(Arrival) /\ [key |-> k, at |-> now, over |-> over] \in Arrival
  BY DEF LimiterSound, Arrival
<1> DEFINE n == Len(arrivals) + 1
<1>2. /\ arrivals' \in Seq(Arrival) /\ Len(arrivals') = n /\ Len(arrivals) \in Nat
      /\ DOMAIN arrivals = 1..Len(arrivals) /\ DOMAIN arrivals' = 1..n
      /\ \A j \in DOMAIN arrivals : arrivals'[j] = arrivals[j] /\ arrivals[j] \in Arrival
      /\ arrivals'[n] = [key |-> k, at |-> now, over |-> over]
  BY <1>1
<1> HIDE DEF n
<1>3. DOMAIN arrivals' = DOMAIN arrivals \cup {n} /\ n \notin DOMAIN arrivals
  BY <1>2 DEF n
<1>4. arrivals'[n].key = k
  BY <1>2
<1>5. Seen' = Seen \cup {k}
  BY <1>2, <1>3, <1>4 DEF Seen
<1>6. ASSUME NEW b, b.key # k
      PROVE  /\ Hits(b)' = Hits(b) /\ Let(b)' = Let(b)
             /\ \A t : LetBefore(b, t)' = LetBefore(b, t)
  <2>1. Hits(b)' = Hits(b)
    BY <1>2, <1>3, <1>4, <1>6 DEF Hits
  <2>2. Let(b)' = Let(b)
    BY <1>2, <2>1 DEF Let, Hits
  <2>3. ASSUME NEW t PROVE LetBefore(b, t)' = LetBefore(b, t)
    BY <1>2, <1>3, <1>4, <1>6 DEF LetBefore
  <2> QED
    BY <2>1, <2>2, <2>3
<1>7. ASSUME NEW i, NEW t, i # k PROVE LetIn(i, t)' = LetIn(i, t)
  BY <1>2, <1>3, <1>4, <1>7 DEF LetIn
<1> QED
  BY <1>2, <1>5, <1>6, <1>7 DEF n

\* The history's sets are finite.
LEMMA HistoryFinite ==
  ASSUME HttpConstants, arrivals \in Seq(Arrival)
  PROVE  \A b : /\ IsFiniteSet(Hits(b)) /\ IsFiniteSet(Let(b))
                /\ Cardinality(Hits(b)) \in Nat /\ Cardinality(Let(b)) \in Nat
                /\ \A t : /\ IsFiniteSet(LetBefore(b, t)) /\ Cardinality(LetBefore(b, t)) \in Nat
                          /\ IsFiniteSet(LetIn(b, t)) /\ Cardinality(LetIn(b, t)) \in Nat
<1>1. IsFiniteSet(DOMAIN arrivals)
  <2>1. DOMAIN arrivals = 1..Len(arrivals) /\ Len(arrivals) \in Nat
    OBVIOUS
  <2> QED
    BY <2>1, FS_Interval
<1>2. ASSUME NEW b, NEW t
      PROVE  /\ Hits(b) \subseteq DOMAIN arrivals /\ Let(b) \subseteq DOMAIN arrivals
             /\ LetBefore(b, t) \subseteq DOMAIN arrivals /\ LetIn(b, t) \subseteq DOMAIN arrivals
  BY DEF Hits, Let, LetBefore, LetIn
<1> QED
  BY <1>1, <1>2, FS_Subset, FS_CardinalityType

\* What a counted request does to the history of its own key: when its bucket is new the
\* window holds this request alone, otherwise it is counted on top of the window's.
LEMMA OwnHistory ==
  ASSUME HttpConstants, LimiterSound, NEW k \in Keys, NEW over \in BOOLEAN, NEW nb, nb = Successor(k),
         arrivals' = Append(arrivals, [key |-> k, at |-> now, over |-> over])
  PROVE  LET n == Len(arrivals) + 1
         IN /\ nb.count <= Cardinality(Hits(nb)')
            /\ (nb = Fresh(k, nb.place) => Hits(nb)' \subseteq Hits(nb) \cup {n} /\ n \in Hits(nb)')
            /\ \A b \in BucketsOf(k) : b.resetsAt > now =>
                 Hits(nb)' = Hits(b) \cup {n} /\ n \notin Hits(b) /\ nb.count = b.count + 1
<1> DEFINE n == Len(arrivals) + 1
<1>1. /\ now \in Nat /\ Window \in Nat \ {0} /\ buckets \subseteq Bucket
      /\ arrivals \in Seq(Arrival)
      /\ \A b \in buckets : b.resetsAt <= now + Window /\ b.count <= Cardinality(Hits(b))
  BY DEF HttpConstants, LimiterSound, BucketsSound
<1>2. /\ n \notin DOMAIN arrivals /\ DOMAIN arrivals' = DOMAIN arrivals \cup {n}
      /\ \A j \in DOMAIN arrivals : arrivals'[j] = arrivals[j]
      /\ arrivals'[n] = [key |-> k, at |-> now, over |-> over]
      /\ arrivals' \in Seq(Arrival)
  <2>1. Len(arrivals) \in Nat
    BY <1>1
  <2> QED
    BY <2>1, OneMoreArrival
<1>3. nb.key = k /\ nb.resetsAt <= now + Window /\ nb \in Bucket
  BY ConsumeIs
<1> HIDE DEF n
<1>4. n \in Hits(nb)'
  BY <1>1, <1>2, <1>3 DEF Hits, Bucket
<1>5. Hits(nb)' = Hits(nb) \cup {n}
  BY <1>2, <1>4 DEF Hits
<1>6. \A b : IsFiniteSet(Hits(b)) /\ Cardinality(Hits(b)) \in Nat
  BY <1>1, HistoryFinite
<1>7. n \notin Hits(nb) /\ \A b : n \notin Hits(b)
  BY <1>2 DEF Hits
<1>8. IsFiniteSet(Hits(nb)') /\ Cardinality(Hits(nb)') = Cardinality(Hits(nb)) + 1
  <2>1. PICK H : H = Hits(nb)
    OBVIOUS
  <2>2. IsFiniteSet(H) /\ n \notin H
    BY <1>6, <1>7, <2>1
  <2>3. IsFiniteSet(H \cup {n}) /\ Cardinality(H \cup {n}) = Cardinality(H) + 1
    BY <2>2, FS_AddElement
  <2> QED
    BY <1>5, <2>1, <2>3
<1>9. ASSUME NEW b \in BucketsOf(k), b.resetsAt > now
      PROVE  Hits(nb)' = Hits(b) \cup {n} /\ nb.count = b.count + 1 /\ nb.count <= Cardinality(Hits(nb)')
  <2>1. b \in buckets /\ b.key = k /\ b \in Bucket
    BY <1>1, <1>9 DEF BucketsOf
  <2>2. nb = [b EXCEPT !.count = @ + 1]
    <3>1. \/ BucketsOf(k) = {}
          \/ \E c \in buckets : /\ BucketsOf(k) = {c}
                 /\ \/ c.resetsAt <= now
                    \/ c.resetsAt > now /\ nb = [c EXCEPT !.count = @ + 1]
      BY ConsumeIs
    <3> QED
      BY <1>1, <1>9, <2>1, <3>1 DEF Bucket
  <2>3. nb.key = b.key /\ nb.resetsAt = b.resetsAt /\ nb.count = b.count + 1
    BY <2>1, <2>2 DEF Bucket
  <2>4. Hits(nb) = Hits(b)
    BY <2>3 DEF Hits
  <2>5. b.count <= Cardinality(Hits(b)) /\ b.count \in Nat
    BY <1>1, <2>1 DEF Bucket
  <2> QED
    BY <1>5, <1>6, <1>8, <2>3, <2>4, <2>5
<1>10. nb.count <= Cardinality(Hits(nb)')
  <2>1. CASE \E b \in BucketsOf(k) : b.resetsAt > now
    BY <1>9, <2>1
  <2>2. CASE ~(\E b \in BucketsOf(k) : b.resetsAt > now)
    <3>1. nb = Fresh(k, sent) \/ \E p \in Nat : nb = Fresh(k, p)
      <4>1. \/ nb = Fresh(k, sent)
            \/ \E b \in buckets :
                 /\ BucketsOf(k) = {b}
                 /\ \/ b.resetsAt <= now /\ nb = Fresh(k, b.place)
                    \/ b.resetsAt > now
        BY ConsumeIs
      <4>2. \A b \in buckets : b.place \in Nat
        BY <1>1 DEF Bucket
      <4> QED
        BY <2>2, <4>1, <4>2
    <3>2. nb.count = 1
      BY <3>1 DEF Fresh
    <3> QED
      BY <1>6, <1>8, <3>2
  <2> QED
    BY <2>1, <2>2
<1> QED
  BY <1>4, <1>5, <1>7, <1>9, <1>10 DEF n

\* The store after a counted request: sound, with the request's own bucket in it, and
\* with every other bucket unless the cap was exceeded.
LEMMA StoreKeeps ==
  ASSUME HttpConstants, LimiterSound, NEW k \in Keys, NEW over \in BOOLEAN,
         buckets' = consume(k), now' = now, sent' = sent + 1,
         arrivals' = Append(arrivals, [key |-> k, at |-> now, over |-> over])
  PROVE  /\ BucketsSound' /\ Successor(k) \in buckets'
         /\ buckets' \subseteq Others(k) \cup {Successor(k)}
         /\ IsFiniteSet(Seen')
         /\ Cardinality(Seen') <= MaxBuckets =>
              buckets' = Others(k) \cup {Successor(k)} /\ Cardinality(Seen) <= MaxBuckets
<1>1. PICK nb : nb = Successor(k)
  OBVIOUS
<1>2. PICK O : O = Others(k)
  OBVIOUS
<1> DEFINE bs == O \cup {nb}
<1>3. /\ now \in Nat /\ sent \in Nat /\ MaxBuckets \in Nat \ {0} /\ IsFiniteSet(Seen)
      /\ buckets \subseteq Bucket /\ IsFiniteSet(buckets) /\ Cardinality(buckets) <= MaxBuckets
      /\ \A b, c \in buckets : b.key = c.key => b = c
      /\ \A b, c \in buckets : b.place = c.place => b = c
      /\ \A b \in buckets : /\ b.count \in 1..sent /\ b.place < sent /\ b.resetsAt <= now + Window
                            /\ b.resetsAt >= Window /\ b.key \in Seen
                            /\ b.count <= Cardinality(Hits(b))
  BY DEF HttpConstants, LimiterSound, BucketsSound
<1>4. /\ buckets' = Evicted(bs)
      /\ nb \in Bucket /\ nb.key = k /\ nb.count \in 1..(sent + 1) /\ nb.place <= sent
      /\ nb.resetsAt > now /\ nb.resetsAt <= now + Window /\ nb.resetsAt >= Window
      /\ \A c \in O : c.place # nb.place
      /\ \/ BucketsOf(k) = {} /\ O = buckets /\ nb = Fresh(k, sent)
         \/ \E b \in buckets : BucketsOf(k) = {b} /\ O = buckets \ {b}
  BY <1>1, <1>2, ConsumeIs
<1>5. O \subseteq buckets /\ \A b \in O : b.key # k
  BY <1>2 DEF Others
<1>6. Seen' = Seen \cup {k}
  BY OneMoreArrival
<1>7. IsFiniteSet(Seen')
  BY <1>3, <1>6, FS_AddElement
<1>8. bs \subseteq Bucket /\ IsFiniteSet(bs)
  <2>1. IsFiniteSet(O)
    BY <1>3, <1>5, FS_Subset
  <2> QED
    BY <1>3, <1>4, <1>5, <2>1, FS_AddElement
<1>9. \A b, c \in bs : (b.place = c.place => b = c) /\ (b.key = c.key => b = c)
  BY <1>3, <1>4, <1>5
<1>10. \A b \in bs : /\ b.count \in 1..(sent + 1) /\ b.place < sent + 1 /\ b.resetsAt <= now + Window
                     /\ b.resetsAt >= Window /\ b.key \in Seen'
                     /\ b.count <= Cardinality(Hits(b)')
  <2>1. ASSUME NEW b \in O
        PROVE  /\ b.count \in 1..(sent + 1) /\ b.place < sent + 1 /\ b.resetsAt <= now + Window
               /\ b.resetsAt >= Window /\ b.key \in Seen'
               /\ b.count <= Cardinality(Hits(b)')
    <3>1. b \in buckets /\ b.key # k /\ b.place \in Nat
      BY <1>3, <1>5 DEF Bucket
    <3>2. Hits(b)' = Hits(b)
      BY <3>1, OneMoreArrival
    <3> QED
      BY <1>3, <1>6, <3>1, <3>2
  <2>2. nb.count <= Cardinality(Hits(nb)')
    BY <1>1, OwnHistory
  <2>3. nb.key \in Seen' /\ nb.place < sent + 1
    BY <1>3, <1>4, <1>6 DEF Bucket
  <2> QED
    BY <1>4, <2>1, <2>2, <2>3
<1> HIDE DEF bs
<1>11. /\ Evicted(bs) \subseteq bs /\ IsFiniteSet(Evicted(bs)) /\ Cardinality(Evicted(bs)) <= MaxBuckets
       /\ Cardinality(bs) <= MaxBuckets => Evicted(bs) = bs
       /\ \A b \in bs : b.resetsAt > now /\ (\A c \in bs : c.place <= b.place) => b \in Evicted(bs)
  BY <1>3, <1>8, <1>9, EvictedKeeps
<1>12. BucketsSound'
  BY <1>4, <1>8, <1>9, <1>10, <1>11 DEF BucketsSound
<1>13. nb \in buckets'
  <2>1. CASE BucketsOf(k) = {} /\ O = buckets /\ nb = Fresh(k, sent)
    <3>1. nb.place = sent
      BY <2>1 DEF Fresh
    <3>2. \A c \in bs : c.place <= nb.place
      BY <1>3, <1>5, <3>1 DEF bs, Bucket
    <3> QED
      BY <1>4, <1>11, <3>2 DEF bs
  <2>2. CASE \E b \in buckets : BucketsOf(k) = {b} /\ O = buckets \ {b}
    <3>1. PICK b \in buckets : O = buckets \ {b}
      BY <2>2
    <3>2. IsFiniteSet(O) /\ Cardinality(O) = Cardinality(buckets) - 1 /\ nb \notin O
      BY <1>3, <1>4, <1>5, <3>1, FS_RemoveElement
    <3>3. Cardinality(bs) = Cardinality(O) + 1 /\ Cardinality(O) \in Nat /\ Cardinality(buckets) \in Nat
      BY <1>3, <3>2, FS_AddElement, FS_CardinalityType DEF bs
    <3>4. Cardinality(bs) <= MaxBuckets
      BY <1>3, <3>2, <3>3
    <3> QED
      BY <1>4, <1>11, <3>4 DEF bs
  <2> QED
    BY <1>4, <2>1, <2>2
<1>14. ASSUME Cardinality(Seen') <= MaxBuckets
       PROVE  buckets' = O \cup {nb} /\ Cardinality(Seen) <= MaxBuckets
  <2> DEFINE keyed == [b \in bs |-> b.key]
  <2>1. keyed \in Injection(bs, Seen')
    BY <1>9, <1>10 DEF Injection, IsInjective
  <2>2. Cardinality(bs) <= Cardinality(Seen')
    <3> HIDE DEF keyed
    <3> QED
      BY <1>7, <2>1, FS_Injection
  <2>3. Cardinality(Seen) <= Cardinality(Seen') /\ Cardinality(Seen) \in Nat /\ Cardinality(Seen') \in Nat
    BY <1>3, <1>6, <1>7, FS_Subset, FS_CardinalityType
  <2>4. Cardinality(bs) \in Nat
    BY <1>8, FS_CardinalityType
  <2> QED
    <3>1. Cardinality(bs) <= MaxBuckets /\ Cardinality(Seen) <= MaxBuckets
      BY <1>3, <1>14, <2>2, <2>3, <2>4
    <3> QED
      BY <1>4, <1>11, <3>1 DEF bs
<1> QED
  BY <1>1, <1>2, <1>4, <1>7, <1>11, <1>12, <1>13, <1>14 DEF bs

\* A refused request is one too many for its class, and the earlier refusals stay so.
LEMMA RefusalsKeep ==
  ASSUME HttpConstants, LimiterSound, NEW k \in Keys, NEW over \in BOOLEAN,
         over => Counted(k) > Limit[k[1]],
         arrivals' = Append(arrivals, [key |-> k, at |-> now, over |-> over])
  PROVE  RefusedOnlyOverLimit'
<1>0. PICK n : n = Len(arrivals) + 1
  OBVIOUS
<1> DEFINE Recent(i) == {j \in 1..i : /\ arrivals[j].key = arrivals[i].key
                                      /\ arrivals[j].at + Window > arrivals[i].at}
<1>1. PICK nb : nb = Successor(k)
  OBVIOUS
<1>2. /\ now \in Nat /\ Window \in Nat \ {0} /\ arrivals \in Seq(Arrival)
      /\ Limit[k[1]] \in Nat
  BY DEF HttpConstants, LimiterSound, Keys
<1>3. /\ arrivals' \in Seq(Arrival) /\ Len(arrivals) \in Nat
      /\ DOMAIN arrivals = 1..Len(arrivals) /\ DOMAIN arrivals' = 1..n
      /\ \A j \in DOMAIN arrivals : arrivals'[j] = arrivals[j] /\ arrivals[j] \in Arrival
      /\ arrivals'[n] = [key |-> k, at |-> now, over |-> over] /\ n \in Nat
  BY <1>0, <1>2, OneMoreArrival
<1>4. nb.key = k /\ nb.resetsAt > now /\ nb.count = Counted(k) /\ nb \in Bucket
  BY <1>1, ConsumeIs
<1>5. nb.count <= Cardinality(Hits(nb)')
  BY <1>1, OwnHistory
<1>6. ASSUME NEW i \in DOMAIN arrivals', arrivals'[i].over
      PROVE  Cardinality(Recent(i)') > Limit[arrivals'[i].key[1]]
  <2>1. CASE i \in DOMAIN arrivals
    <3>1. \A j \in 1..i : arrivals'[j] = arrivals[j]
      BY <1>3, <2>1
    <3>2. Recent(i)' = Recent(i)
      BY <1>3, <2>1, <3>1
    <3>3. Cardinality(Recent(i)) > Limit[arrivals[i].key[1]]
      BY <1>3, <1>6, <2>1 DEF LimiterSound, RefusedOnlyOverLimit
    <3> QED
      BY <1>3, <2>1, <3>2, <3>3
  <2>2. CASE i = n
    <3>1. Hits(nb)' \subseteq Recent(n)'
      <4>1. ASSUME NEW j \in DOMAIN arrivals', arrivals'[j].key = k,
                   arrivals'[j].at + Window >= nb.resetsAt
            PROVE  j \in Recent(n)'
        <5>1. arrivals'[j].at \in Nat /\ nb.resetsAt \in Nat
          BY <1>3, <1>4 DEF Arrival, Bucket
        <5>2. arrivals'[j].at + Window > now
          BY <1>2, <1>4, <4>1, <5>1
        <5> QED
          BY <1>3, <4>1, <5>2
      <4> QED
        BY <1>4, <4>1 DEF Hits
    <3>2. IsFiniteSet(Recent(n)')
      <4>1. Recent(n)' \subseteq 1..n
        OBVIOUS
      <4>2. IsFiniteSet(1..n)
        BY <1>3, FS_Interval
      <4> QED
        BY <4>1, <4>2, FS_Subset
    <3> HIDE DEF Recent
    <3>3. /\ Cardinality(Hits(nb)') <= Cardinality(Recent(n)')
          /\ Cardinality(Hits(nb)') \in Nat /\ Cardinality(Recent(n)') \in Nat
      BY <3>1, <3>2, FS_Subset, FS_CardinalityType
    <3>4. Counted(k) > Limit[k[1]] /\ nb.count \in Nat
      BY <1>3, <1>4, <1>6, <2>2 DEF Bucket
    <3>5. Cardinality(Recent(n)') > Limit[k[1]]
      BY <1>2, <1>4, <1>5, <3>3, <3>4
    <3> QED
      BY <1>3, <2>2, <3>5
  <2> QED
    <3>1. i \in DOMAIN arrivals \/ i = n
      BY <1>0, <1>3, <1>6
    <3> HIDE DEF Recent
    <3> QED
      BY <2>1, <2>2, <3>1
<1> QED
  BY <1>6 DEF RefusedOnlyOverLimit

\* A set within a singleton counts one at most.
LEMMA OneAtMost ==
  ASSUME NEW S, NEW x, S \subseteq {x}
  PROVE  Cardinality(S) <= 1
<1>1. IsFiniteSet({x}) /\ Cardinality({x}) = 1
  BY FS_Singleton
<1> QED
  BY <1>1, FS_Subset

\* The windows after a counted request.
LEMMA WindowsKeep ==
  ASSUME HttpConstants, LimiterSound, NEW k \in Keys, NEW over \in BOOLEAN,
         over <=> Counted(k) > Limit[k[1]],
         buckets' = consume(k), now' = now, sent' = sent + 1,
         arrivals' = Append(arrivals, [key |-> k, at |-> now, over |-> over])
  PROVE  WindowsSound'
<1>1. PICK nb : nb = Successor(k)
  OBVIOUS
<1>2. PICK O : O = Others(k)
  OBVIOUS
<1>3. SUFFICES ASSUME Cardinality(Seen') <= MaxBuckets
               PROVE  /\ \A i \in Seen' : BucketsOf(i)' # {}
                      /\ \A b \in buckets', j \in DOMAIN arrivals' :
                           arrivals'[j].key = b.key => arrivals'[j].at < b.resetsAt
                      /\ \A b \in buckets' : /\ Cardinality(Let(b)') <= b.count
                                             /\ Cardinality(Let(b)') <= Limit[b.key[1]]
                      /\ \A b \in buckets', t \in 0..MaxTime :
                           t + 2 * Window > b.resetsAt => Cardinality(LetBefore(b, t)') <= Limit[b.key[1]]
                      /\ \A i \in Seen', t \in 0..MaxTime : Cardinality(LetIn(i, t)') <= 2 * Limit[i[1]]
  BY DEF WindowsSound
<1>4. /\ buckets' = O \cup {nb} /\ O \subseteq buckets
      /\ (\A b \in O : b.key # k) /\ Cardinality(Seen) <= MaxBuckets
  BY <1>1, <1>2, <1>3, StoreKeeps DEF Others
<1>5. /\ \A i \in Seen : BucketsOf(i) # {}
      /\ \A b \in buckets, j \in DOMAIN arrivals : arrivals[j].key = b.key => arrivals[j].at < b.resetsAt
      /\ \A b \in buckets : Cardinality(Let(b)) <= b.count /\ Cardinality(Let(b)) <= Limit[b.key[1]]
      /\ \A b \in buckets, t \in 0..MaxTime :
           t + 2 * Window > b.resetsAt => Cardinality(LetBefore(b, t)) <= Limit[b.key[1]]
      /\ \A i \in Seen, t \in 0..MaxTime : Cardinality(LetIn(i, t)) <= 2 * Limit[i[1]]
  BY <1>4 DEF LimiterSound, WindowsSound
<1>6. /\ now \in Nat /\ Window \in Nat \ {0} /\ buckets \subseteq Bucket
      /\ Limit \in [Classes -> Nat \ {0}] /\ MaxTime \in Nat
      /\ (\A j \in DOMAIN arrivals : arrivals[j].at \in Nat /\ arrivals[j].at <= now)
      /\ (\A b \in buckets : b.resetsAt <= now + Window /\ b.count \in 1..sent)
      /\ arrivals \in Seq(Arrival)
  <2>1. /\ now \in Nat /\ Window \in Nat \ {0} /\ buckets \subseteq Bucket
        /\ Limit \in [Classes -> Nat \ {0}] /\ MaxTime \in Nat
    BY DEF HttpConstants, LimiterSound, BucketsSound
  <2>2. \A b \in buckets : b.resetsAt <= now + Window /\ b.count \in 1..sent
    BY DEF LimiterSound, BucketsSound
  <2>3. arrivals \in Seq(Arrival) /\ \A j \in DOMAIN arrivals : arrivals[j].at <= now
    BY DEF LimiterSound
  <2>4. ASSUME NEW j \in DOMAIN arrivals PROVE arrivals[j].at \in Nat
    <3>1. arrivals[j] \in Arrival
      BY <2>3
    <3> QED
      BY <3>1 DEF Arrival
  <2> QED
    BY <2>1, <2>2, <2>3, <2>4
<1>7. Limit[k[1]] \in Nat /\ Limit[k[1]] >= 1
  BY <1>6 DEF Keys
<1>8. PICK n : n = Len(arrivals) + 1
  OBVIOUS
<1>9. /\ DOMAIN arrivals' = DOMAIN arrivals \cup {n} /\ n \notin DOMAIN arrivals
      /\ \A j \in DOMAIN arrivals : arrivals'[j] = arrivals[j]
      /\ arrivals'[n] = [key |-> k, at |-> now, over |-> over]
      /\ Seen' = Seen \cup {k}
      /\ \A b : b.key # k => /\ Hits(b)' = Hits(b) /\ Let(b)' = Let(b)
                             /\ \A t : LetBefore(b, t)' = LetBefore(b, t)
      /\ \A i, t : i # k => LetIn(i, t)' = LetIn(i, t)
      /\ arrivals' \in Seq(Arrival)
  <2>1. Len(arrivals) \in Nat
    BY <1>6
  <2> QED
    BY <1>8, <2>1, OneMoreArrival
<1>10. /\ nb.key = k /\ nb \in Bucket /\ nb.count = Counted(k)
       /\ nb.resetsAt > now /\ nb.resetsAt <= now + Window
       /\ \/ BucketsOf(k) = {} /\ nb = Fresh(k, sent)
          \/ \E b \in buckets :
               /\ BucketsOf(k) = {b}
               /\ \/ b.resetsAt <= now /\ nb = Fresh(k, b.place)
                  \/ b.resetsAt > now /\ nb = [b EXCEPT !.count = @ + 1]
  BY <1>1, ConsumeIs
<1>11. nb.resetsAt \in Nat /\ nb.count \in Nat
  BY <1>10 DEF Bucket
<1>12. /\ \A b : IsFiniteSet(Let(b)') /\ Cardinality(Let(b)') \in Nat
       /\ \A b, t : IsFiniteSet(LetBefore(b, t)') /\ Cardinality(LetBefore(b, t)') \in Nat
       /\ \A b, t : IsFiniteSet(LetIn(b, t)') /\ Cardinality(LetIn(b, t)') \in Nat
  <2>1. IsFiniteSet(DOMAIN arrivals')
    <3>1. IsFiniteSet(DOMAIN arrivals)
      <4>1. DOMAIN arrivals = 1..Len(arrivals) /\ Len(arrivals) \in Nat
        BY <1>6
      <4> QED
        BY <4>1, FS_Interval
    <3> QED
      BY <1>9, <3>1, FS_AddElement
  <2>2. /\ \A b : Let(b)' \subseteq DOMAIN arrivals'
        /\ \A b, t : LetBefore(b, t)' \subseteq DOMAIN arrivals' /\ LetIn(b, t)' \subseteq DOMAIN arrivals'
    BY DEF Let, Hits, LetBefore, LetIn
  <2>3. \A S : S \subseteq DOMAIN arrivals' => IsFiniteSet(S) /\ Cardinality(S) \in Nat
    BY <2>1, FS_Subset, FS_CardinalityType
  <2> QED
    BY <2>2, <2>3
<1>13. \A b : /\ IsFiniteSet(Let(b)) /\ Cardinality(Let(b)) \in Nat
              /\ \A t : IsFiniteSet(LetBefore(b, t)) /\ Cardinality(LetBefore(b, t)) \in Nat
  BY <1>6, HistoryFinite
\* What the limiter let through for the key in its window and before it, by the three ways
\* its bucket can have come about.
<1>14. /\ Cardinality(Let(nb)') <= nb.count /\ Cardinality(Let(nb)') <= Limit[k[1]]
       /\ \A t \in 0..MaxTime :
            t + 2 * Window > nb.resetsAt => Cardinality(LetBefore(nb, t)') <= Limit[k[1]]
  <2>1. CASE BucketsOf(k) = {} /\ nb = Fresh(k, sent)
    <3>1. k \notin Seen
      BY <1>5, <2>1
    <3>2. \A j \in DOMAIN arrivals : arrivals[j].key # k
      BY <3>1 DEF Seen
    <3>3. Let(nb)' \subseteq {n}
      BY <1>9, <1>10, <3>2 DEF Let, Hits
    <3>4. \A t : LetBefore(nb, t)' = {}
      BY <1>6, <1>9, <1>10, <2>1, <3>2 DEF LetBefore, Fresh
    <3>5. Cardinality(Let(nb)') <= 1
      BY <1>12, <3>3, OneAtMost
    <3>6. nb.count = 1
      BY <2>1 DEF Fresh
    <3>7. Cardinality({}) = 0
      BY FS_EmptySet
    <3>8. ASSUME NEW t PROVE Cardinality(LetBefore(nb, t)') <= Limit[k[1]]
      <4>1. LetBefore(nb, t)' = {}
        BY <3>4
      <4> QED
        BY <1>7, <3>7, <4>1
    <3>9. Cardinality(Let(nb)') <= nb.count /\ Cardinality(Let(nb)') <= Limit[k[1]]
      BY <1>7, <1>12, <3>5, <3>6
    <3> QED
      BY <3>8, <3>9
  <2>2. ASSUME NEW b \in buckets, BucketsOf(k) = {b}, b.resetsAt <= now, nb = Fresh(k, b.place)
        PROVE  <1>14!:
    <3>1. b.key = k /\ b \in Bucket /\ b.resetsAt \in Nat
      BY <1>6, <2>2 DEF BucketsOf, Bucket
    <3>2. nb.count = 1 /\ nb.resetsAt = now + Window
      BY <2>2 DEF Fresh
    <3>3. \A j \in DOMAIN arrivals : arrivals[j].key = k => arrivals[j].at < b.resetsAt
      BY <1>5, <3>1
    <3>4. Let(nb)' \subseteq {n}
      <4>1. ASSUME NEW j \in DOMAIN arrivals, arrivals[j].key = k PROVE ~(arrivals[j].at + Window >= nb.resetsAt)
        BY <1>6, <2>2, <3>1, <3>2, <3>3, <4>1
      <4> QED
        BY <1>9, <1>10, <4>1 DEF Let, Hits
    <3>5. Cardinality(Let(nb)') <= 1
      BY <1>12, <3>4, OneAtMost
    <3>6. ASSUME NEW t \in 0..MaxTime, t + 2 * Window > nb.resetsAt
          PROVE  Cardinality(LetBefore(nb, t)') <= Limit[k[1]]
      <4>1. LetBefore(nb, t)' \subseteq Let(b)
        <5>1. ASSUME NEW j \in DOMAIN arrivals', arrivals'[j].key = k, ~arrivals'[j].over,
                     arrivals'[j].at >= t, arrivals'[j].at + Window < nb.resetsAt
              PROVE  j \in Let(b)
          <6>1. j \in DOMAIN arrivals
            BY <1>6, <1>9, <3>2, <5>1
          <6>2. arrivals[j].at + Window >= b.resetsAt
            BY <1>6, <1>9, <2>2, <3>1, <3>2, <3>6, <5>1, <6>1
          <6> QED
            BY <1>9, <3>1, <5>1, <6>1, <6>2 DEF Let, Hits
        <5> QED
          BY <1>10, <5>1 DEF LetBefore
      <4>2. Cardinality(LetBefore(nb, t)') <= Cardinality(Let(b))
        BY <1>13, <4>1, FS_Subset
      <4>3. Cardinality(Let(b)) <= Limit[k[1]]
        BY <1>5, <3>1
      <4> QED
        BY <1>7, <1>12, <1>13, <4>2, <4>3
    <3> QED
      BY <1>7, <1>12, <3>2, <3>5, <3>6
  <2>3. ASSUME NEW b \in buckets, BucketsOf(k) = {b}, b.resetsAt > now, nb = [b EXCEPT !.count = @ + 1]
        PROVE  <1>14!:
    <3>1. b.key = k /\ b \in Bucket /\ b.resetsAt \in Nat /\ b.count \in Nat
      BY <1>6, <2>3 DEF BucketsOf, Bucket
    <3>2. nb.count = b.count + 1 /\ nb.resetsAt = b.resetsAt /\ nb.key = b.key
      BY <2>3, <3>1 DEF Bucket
    <3>3. Hits(nb)' = Hits(b) \cup {n}
      BY <1>1, <1>8, <2>3, OwnHistory
    <3>4. Let(b) \subseteq DOMAIN arrivals /\ Hits(b) \subseteq DOMAIN arrivals
      BY DEF Let, Hits
    <3>5. Let(nb)' = IF over THEN Let(b) ELSE Let(b) \cup {n}
      BY <1>9, <3>3, <3>4 DEF Let
    <3>6. Cardinality(Let(b)) <= b.count /\ Cardinality(Let(b)) <= Limit[k[1]]
      BY <1>5, <3>1
    <3>7. PICK L : L = Let(b)
      OBVIOUS
    <3>8. Cardinality(L \cup {n}) = Cardinality(L) + 1
      BY <1>9, <1>13, <3>4, <3>7, FS_AddElement
    <3>9. Cardinality(Let(nb)') <= nb.count /\ Cardinality(Let(nb)') <= Limit[k[1]]
      <4>1. CASE over
        BY <1>7, <1>13, <3>1, <3>2, <3>5, <3>6, <4>1
      <4>2. CASE ~over
        BY <1>7, <1>10, <1>13, <3>1, <3>2, <3>5, <3>6, <3>7, <3>8, <4>2
      <4> QED
        BY <4>1, <4>2
    <3>10. ASSUME NEW t \in 0..MaxTime, t + 2 * Window > nb.resetsAt
           PROVE  Cardinality(LetBefore(nb, t)') <= Limit[k[1]]
      <4>1. ~(now + Window < nb.resetsAt)
        BY <1>6, <1>10, <1>11
      <4>2. LetBefore(nb, t)' = LetBefore(b, t)
        BY <1>9, <1>10, <3>2, <4>1 DEF LetBefore
      <4> QED
        BY <1>5, <3>1, <3>2, <3>10, <4>2
    <3> QED
      BY <3>9, <3>10
  <2> QED
    BY <1>10, <2>1, <2>2, <2>3
<1>15. ASSUME NEW b \in O
       PROVE  b \in buckets /\ b.key # k /\ Let(b)' = Let(b) /\ \A t : LetBefore(b, t)' = LetBefore(b, t)
  BY <1>4, <1>9
<1>16. ASSUME NEW i \in Seen' PROVE BucketsOf(i)' # {}
  <2>1. CASE i = k
    BY <1>4, <1>10, <2>1 DEF BucketsOf
  <2>2. CASE i # k
    <3>1. PICK b \in buckets : b.key = i
      BY <1>5, <1>9, <2>2 DEF BucketsOf
    <3>2. b \in O
      BY <1>2, <2>2, <3>1 DEF Others
    <3> QED
      BY <1>4, <3>1, <3>2 DEF BucketsOf
  <2> QED
    BY <2>1, <2>2
<1>17. ASSUME NEW b \in buckets', NEW j \in DOMAIN arrivals', arrivals'[j].key = b.key
       PROVE  arrivals'[j].at < b.resetsAt
  <2>1. CASE b \in O
    BY <1>5, <1>9, <1>15, <1>17, <2>1
  <2>2. CASE b = nb
    BY <1>6, <1>9, <1>10, <1>11, <2>2
  <2> QED
    BY <1>4, <2>1, <2>2
<1>18. ASSUME NEW b \in buckets'
       PROVE  /\ Cardinality(Let(b)') <= b.count /\ Cardinality(Let(b)') <= Limit[b.key[1]]
              /\ \A t \in 0..MaxTime :
                   t + 2 * Window > b.resetsAt => Cardinality(LetBefore(b, t)') <= Limit[b.key[1]]
  BY <1>4, <1>5, <1>10, <1>14, <1>15
<1>19. ASSUME NEW i \in Seen', NEW t \in 0..MaxTime
       PROVE  Cardinality(LetIn(i, t)') <= 2 * Limit[i[1]]
  <2>1. CASE i # k
    BY <1>5, <1>9, <2>1
  <2>2. CASE i = k /\ t + 2 * Window > nb.resetsAt
    <3>1. LetIn(k, t)' \subseteq LetBefore(nb, t)' \cup Let(nb)'
      <4>1. ASSUME NEW j \in DOMAIN arrivals', arrivals'[j].key = k, ~arrivals'[j].over,
                   arrivals'[j].at \in t..(t + Window - 1)
            PROVE  j \in LetBefore(nb, t)' \cup Let(nb)'
        <5>1. arrivals'[j].at \in Nat /\ arrivals'[j].at >= t
          BY <1>9, <4>1 DEF Arrival
        <5> QED
          BY <1>6, <1>10, <1>11, <4>1, <5>1 DEF LetBefore, Let, Hits
      <4> QED
        BY <4>1 DEF LetIn
    <3>2. PICK A, B : A = LetBefore(nb, t)' /\ B = Let(nb)'
      OBVIOUS
    <3>3. /\ IsFiniteSet(A) /\ IsFiniteSet(B) /\ Cardinality(A) \in Nat /\ Cardinality(B) \in Nat
          /\ Cardinality(A) <= Limit[k[1]] /\ Cardinality(B) <= Limit[k[1]]
      BY <1>12, <1>14, <2>2, <3>2
    <3>4. Cardinality(A \cup B) = Cardinality(A) + Cardinality(B) - Cardinality(A \cap B)
          /\ IsFiniteSet(A \cup B)
      BY <3>3, FS_Union
    <3>5. Cardinality(A \cap B) \in Nat /\ Cardinality(A \cup B) \in Nat
      BY <3>3, <3>4, FS_Intersection, FS_CardinalityType
    <3>6. Cardinality(LetIn(k, t)') <= Cardinality(A \cup B)
      BY <3>1, <3>2, <3>4, FS_Subset
    <3> QED
      BY <1>7, <1>12, <2>2, <3>3, <3>4, <3>5, <3>6
  <2>3. CASE i = k /\ ~(t + 2 * Window > nb.resetsAt)
    <3>1. now \notin t..(t + Window - 1)
      BY <1>6, <1>10, <1>11, <2>3
    <3>2. LetIn(k, t)' = LetIn(k, t)
      BY <1>9, <3>1 DEF LetIn
    <3>3. CASE k \in Seen
      BY <1>5, <2>3, <3>2, <3>3
    <3>4. CASE k \notin Seen
      <4>1. LetIn(k, t) = {}
        BY <3>4 DEF LetIn, Seen
      <4>2. Cardinality({}) = 0
        BY FS_EmptySet
      <4> QED
        BY <1>7, <2>3, <3>2, <4>1, <4>2
    <3> QED
      BY <3>3, <3>4
  <2> QED
    BY <2>1, <2>2, <2>3
<1> QED
  BY <1>16, <1>17, <1>18, <1>19

\* What time, and a request that is not counted, leave of the limiter.
LEMMA LimiterStays ==
  ASSUME HttpConstants, LimiterSound, UNCHANGED <<buckets, arrivals>>,
         \/ now' = now
         \/ now < MaxTime /\ now' = now + 1,
         \/ sent' = sent
         \/ sent < MaxRequests /\ sent' = sent + 1
  PROVE  LimiterSound'
<1>1. Seen' = Seen /\ \A b : /\ Hits(b)' = Hits(b) /\ Let(b)' = Let(b) /\ BucketsOf(b)' = BucketsOf(b)
                             /\ \A t : LetBefore(b, t)' = LetBefore(b, t) /\ LetIn(b, t)' = LetIn(b, t)
  BY DEF Seen, Hits, Let, LetBefore, LetIn, BucketsOf
<1>2. /\ now \in Nat /\ sent \in Nat /\ MaxTime \in Nat /\ MaxRequests \in Nat /\ Window \in Nat
      /\ now' \in 0..MaxTime /\ sent' \in 0..MaxRequests /\ now <= now' /\ sent <= sent'
  BY DEF HttpConstants, LimiterSound
<1>3. BucketsSound'
  <2>1. \A b \in buckets : b \in Bucket /\ b.count \in Nat /\ b.place \in Nat /\ b.resetsAt \in Nat
    BY DEF LimiterSound, BucketsSound, Bucket
  <2>2. \A b \in buckets : b.count \in 1..sent' /\ b.place < sent' /\ b.resetsAt <= now' + Window
    BY <1>2, <2>1 DEF LimiterSound, BucketsSound
  <2> QED
    BY <1>1, <2>2 DEF LimiterSound, BucketsSound
<1>4. WindowsSound'
  BY <1>1 DEF LimiterSound, WindowsSound
<1>5. RefusedOnlyOverLimit'
  BY DEF LimiterSound, RefusedOnlyOverLimit
<1>6. \A j \in DOMAIN arrivals : arrivals[j].at <= now'
  <2>1. ASSUME NEW j \in DOMAIN arrivals PROVE arrivals[j].at \in Nat /\ arrivals[j].at <= now
    <3>1. arrivals[j] \in Arrival
      BY DEF LimiterSound
    <3> QED
      BY <3>1 DEF Arrival, LimiterSound
  <2> QED
    BY <1>2, <2>1
<1>7. (arrivals # <<>> => BucketsOf(arrivals[Len(arrivals)].key) # {})'
  BY DEF LimiterSound, BucketsOf
<1> QED
  BY <1>1, <1>2, <1>3, <1>4, <1>5, <1>6, <1>7 DEF LimiterSound

\* An arrival keeps the limiter sound, whether it is counted or not.
LEMMA ArriveKeeps ==
  ASSUME HttpConstants, LimiterSound, Arrive
  PROVE  LimiterSound'
<1>1. PICK q \in Requests :
        LET r == Incoming(q)
            counted == assertTrustedRequestOrigin(r) /\ r.kind # "auth"
        IN /\ buckets' = IF counted THEN consume(KeyOf(r)) ELSE buckets
           /\ arrivals' = IF counted
                          THEN Append(arrivals, [key |-> KeyOf(r), at |-> now, over |-> OverLimit(r)])
                          ELSE arrivals
  BY DEF Arrive
<1>2. sent < MaxRequests /\ sent' = sent + 1 /\ now' = now
  BY DEF Arrive
<1> DEFINE k == KeyOf(Incoming(q))
           counted == assertTrustedRequestOrigin(Incoming(q)) /\ q.kind # "auth"
<1>3. Incoming(q).kind = q.kind /\ Incoming(q).ip = q.ip
  BY DEF Incoming
<1>4. CASE counted
  <2>1. k \in Keys /\ k[1] = q.kind
    BY <1>3, <1>4 DEF KeyOf, requestRateLimitIdentity, Keys, HttpConstants
  <2> DEFINE over == OverLimit(Incoming(q))
  <2>2. over \in BOOLEAN /\ (over <=> Counted(k) > Limit[k[1]])
    BY <1>3, <1>4, <2>1 DEF OverLimit
  <2>3. buckets' = consume(k) /\ arrivals' = Append(arrivals, [key |-> k, at |-> now, over |-> over])
    BY <1>1, <1>3, <1>4
  <2> HIDE DEF k, over
  <2>4. PICK c, o : c = k /\ o = over
    OBVIOUS
  <2>5. /\ c \in Keys /\ o \in BOOLEAN /\ (o <=> Counted(c) > Limit[c[1]])
        /\ buckets' = consume(c) /\ arrivals' = Append(arrivals, [key |-> c, at |-> now, over |-> o])
    BY <2>1, <2>2, <2>3, <2>4
  <2>6. /\ arrivals' \in Seq(Arrival) /\ Len(arrivals') = Len(arrivals) + 1
        /\ DOMAIN arrivals = 1..Len(arrivals) /\ DOMAIN arrivals' = 1..(Len(arrivals) + 1)
        /\ \A j \in DOMAIN arrivals : arrivals'[j] = arrivals[j]
        /\ arrivals'[Len(arrivals) + 1] = [key |-> c, at |-> now, over |-> o]
    BY <2>5, OneMoreArrival
  <2>7. BucketsSound' /\ Successor(c) \in buckets' /\ IsFiniteSet(Seen')
    BY <1>2, <2>5, StoreKeeps
  <2>8. WindowsSound'
    BY <1>2, <2>5, WindowsKeep
  <2>9. RefusedOnlyOverLimit'
    BY <2>5, RefusalsKeep
  <2>10. \A j \in DOMAIN arrivals' : arrivals'[j].at <= now
    <3>1. \A j \in DOMAIN arrivals : arrivals[j].at <= now
      BY DEF LimiterSound
    <3>2. now \in Nat /\ Len(arrivals) \in Nat
      BY DEF LimiterSound, HttpConstants
    <3> QED
      BY <2>6, <3>1, <3>2
  <2>11. (arrivals # <<>> => BucketsOf(arrivals[Len(arrivals)].key) # {})'
    <3>1. Successor(c).key = c
      BY <2>5, ConsumeIs
    <3>2. BucketsOf(c)' # {}
      BY <2>7, <3>1 DEF BucketsOf
    <3>3. arrivals'[Len(arrivals')].key = c
      BY <2>6
    <3>4. BucketsOf(arrivals[Len(arrivals)].key)' = BucketsOf(c)'
      BY <3>3 DEF BucketsOf
    <3> QED
      BY <3>2, <3>4
  <2>12. sent' \in 0..MaxRequests /\ now' \in 0..MaxTime
    BY <1>2 DEF LimiterSound, HttpConstants
  <2> QED
    BY <1>2, <2>6, <2>7, <2>8, <2>9, <2>10, <2>11, <2>12 DEF LimiterSound
<1>5. CASE ~counted
  <2>1. UNCHANGED <<buckets, arrivals, now>>
    BY <1>1, <1>2, <1>3, <1>5
  <2> QED
    BY <1>2, <2>1, LimiterStays
<1> QED
  BY <1>4, <1>5

\* The event of a request passes its checks wherever the process could start, but for one
\* that took over an hour and for the laboratory.
LEMMA CompletedObserved ==
  ASSUME HttpConstants, assertDeploymentBootstrap, UNCHANGED env,
         NEW r, NEW status, NEW user, NEW headers, Complete(r, status, user, headers)
  PROVE  EveryResponseObserved' /\ done'.r = r /\ done'.user = user
<1>1. PICK hour : done' = [r |-> r, status |-> status, user |-> user, headers |-> headers, hour |-> hour,
                           event |-> validateGatewayRequestObservation(
                                       createGatewayRequestObservation(status, hour))]
                  /\ hour \in BOOLEAN
  BY DEF Complete
<1> DEFINE e == createGatewayRequestObservation(status, hour)
<1>2. e.overAnHour = hour /\ e.rt = gatewayObservabilityRuntimeContext
  BY DEF createGatewayRequestObservation
<1> HIDE DEF e
<1>3. ASSUME ~hour, env.dep # "controlled-lab" PROVE validateGatewayRequestObservation(e)
  <2>1. CASE Production
    BY <1>2, <1>3, <2>1
      DEF HttpConstants, validateGatewayRequestObservation, gatewayObservabilityRuntimeContext,
          assertDeploymentBootstrap, DeploymentId, Environments, Gateways, Unmanaged
  <2>2. CASE ~Production
    BY <1>2, <1>3, <2>2
      DEF HttpConstants, validateGatewayRequestObservation, gatewayObservabilityRuntimeContext,
          assertDeploymentBootstrap, DeploymentId, Environments, Gateways, Unmanaged
  <2> QED
    BY <2>1, <2>2
<1>4. done'.event = validateGatewayRequestObservation(e) /\ done'.hour = hour
      /\ done'.r = r /\ done'.user = user
  BY <1>1 DEF e
<1> QED
  BY <1>3, <1>4 DEF EveryResponseObserved

\* The facts about a request do not change while the environment does not.
LEMMA RequestsFrame ==
  ASSUME UNCHANGED env
  PROVE  /\ Production' = Production /\ headerAuthEnabled' = headerAuthEnabled
         /\ assertDeploymentBootstrap' = assertDeploymentBootstrap
         /\ assertAuthConfiguration' = assertAuthConfiguration
         /\ \A r : assertTrustedRequestOrigin(r)' = assertTrustedRequestOrigin(r)
         /\ \A r, u : Identified(r, u)' = Identified(r, u)
<1>1. Production' = Production /\ configuredPublicOrigin' = configuredPublicOrigin
  BY DEF Production, configuredPublicOrigin
<1>2. /\ headerAuthEnabled' = headerAuthEnabled
      /\ assertDeploymentBootstrap' = assertDeploymentBootstrap
      /\ assertAuthConfiguration' = assertAuthConfiguration
  BY <1>1 DEF headerAuthEnabled, assertDeploymentBootstrap, assertAuthConfiguration
<1>3. \A r : assertTrustedRequestOrigin(r)' = assertTrustedRequestOrigin(r)
  BY <1>1 DEF assertTrustedRequestOrigin
<1>4. \A r, u : Identified(r, u)' = Identified(r, u)
  BY <1>2, <1>3 DEF Identified
<1> QED
  BY <1>1, <1>2, <1>3, <1>4

\* A request under way has its fields and a trusted origin, and its user is known as
\* Identified says.
Underway(q) ==
  /\ q = [r |-> q.r, step |-> q.step, user |-> q.user] /\ IsRequest(q.r)
  /\ q.step = "handler" <=> q.user # Absent
  /\ assertTrustedRequestOrigin(q.r) /\ Identified(q.r, q.user)

\* Each step of a request keeps what is known of it.
LEMMA RequestsKeep ==
  ASSUME HttpConstants, RequestsSound, Arrive \/ Authenticate \/ Respond
  PROVE  RequestsSound'
<1>1. UNCHANGED <<env, proc>>
  BY DEF Arrive, Authenticate, Respond
<1>2. \A q \in reqs : Underway(q)
  BY DEF RequestsSound, Underway
<1>3. proc \in {"up", "stopping", "exited"}
  BY DEF Arrive, Authenticate, Respond, RequestsSound
<1>4. assertDeploymentBootstrap /\ assertAuthConfiguration
  BY <1>3 DEF RequestsSound
<1>5. SUFFICES ASSUME TRUE
               PROVE  /\ \A q \in reqs' : Underway(q)
                      /\ done' # Absent => Identified(done'.r, done'.user)
                      /\ EveryResponseObserved'
  BY <1>1, <1>3, <1>4, RequestsFrame DEF RequestsSound, Underway
<1>6. (done # Absent => Identified(done.r, done.user)) /\ EveryResponseObserved
  BY DEF RequestsSound
<1>7. UNCHANGED done => EveryResponseObserved'
  BY <1>1, <1>6 DEF EveryResponseObserved
<1>8. CASE Arrive
  <2>1. PICK q \in Requests :
          LET r == Incoming(q)
          IN IF ~assertTrustedRequestOrigin(r)
             THEN Complete(r, 403, Absent, denialHeaders(403)) /\ UNCHANGED reqs
             ELSE IF OverLimit(r)
             THEN Complete(r, 429, Absent, denialHeaders(429)) /\ UNCHANGED reqs
             ELSE IF r.body \in {"unbounded", "carries-key"}
             THEN Complete(r, 400, Absent, {}) /\ UNCHANGED reqs
             ELSE reqs' = reqs \cup {[r |-> r, step |-> "auth", user |-> Absent]} /\ UNCHANGED done
    BY <1>8 DEF Arrive
  <2>2. PICK r : r = Incoming(q)
    OBVIOUS
  <2>3. IsRequest(r)
    BY <2>2 DEF Incoming, IsRequest
  <2>4. \/ /\ UNCHANGED reqs
           /\ \/ Complete(r, 403, Absent, denialHeaders(403)) \/ Complete(r, 429, Absent, denialHeaders(429))
              \/ Complete(r, 400, Absent, {})
        \/ /\ assertTrustedRequestOrigin(r) /\ UNCHANGED done
           /\ reqs' = reqs \cup {[r |-> r, step |-> "auth", user |-> Absent]}
    BY <2>1, <2>2
  <2>5. CASE UNCHANGED reqs /\ done'.user = Absent /\ EveryResponseObserved'
    BY <1>2, <2>5 DEF Identified
  <2>6. CASE /\ assertTrustedRequestOrigin(r) /\ UNCHANGED done
             /\ reqs' = reqs \cup {[r |-> r, step |-> "auth", user |-> Absent]}
    <3>1. PICK q1 : q1 = [r |-> r, step |-> "auth", user |-> Absent]
      OBVIOUS
    <3>2. q1.r = r /\ q1.step = "auth" /\ q1.user = Absent
      BY <3>1
    <3>3. Underway(q1)
      BY <2>3, <2>6, <3>1, <3>2 DEF Underway, Identified
    <3> QED
      BY <1>2, <1>6, <1>7, <2>6, <3>1, <3>3
  <2> QED
    BY <1>1, <1>4, <2>4, <2>5, <2>6, CompletedObserved
<1>9. CASE Authenticate
  <2>1. PICK q \in reqs :
          /\ q.step = "auth"
          /\ LET u == getCurrentUser(q.r)
             IN IF u = Absent
                THEN reqs' = reqs \ {q} /\ Complete(q.r, 401, Absent, {})
                ELSE /\ reqs' = (reqs \ {q}) \cup {[q EXCEPT !.step = "handler", !.user = u]}
                     /\ UNCHANGED done
    BY <1>9 DEF Authenticate
  <2>2. PICK u : u = getCurrentUser(q.r)
    OBVIOUS
  <2>3. CASE u = Absent
    <3>1. reqs' = reqs \ {q} /\ Complete(q.r, 401, Absent, {})
      BY <2>1, <2>2, <2>3
    <3>2. EveryResponseObserved' /\ done'.user = Absent
      BY <1>1, <1>4, <3>1, CompletedObserved
    <3> QED
      BY <1>2, <3>1, <3>2 DEF Identified
  <2>4. CASE u # Absent
    <3>1. PICK q1 : q1 = [q EXCEPT !.step = "handler", !.user = u]
      OBVIOUS
    <3>2. reqs' = (reqs \ {q}) \cup {q1} /\ UNCHANGED done
      BY <2>1, <2>2, <2>4, <3>1
    <3>3. Underway(q)
      BY <1>2
    <3>4. q1 = [r |-> q.r, step |-> "handler", user |-> u]
      <4>1. q = [r |-> q.r, step |-> q.step, user |-> q.user]
        BY <3>3 DEF Underway
      <4> QED
        BY <3>1, <4>1
    <3>5. q1.r = q.r /\ q1.step = "handler" /\ q1.user = u
      BY <3>4
    <3>6. headerAuthEnabled \/ HasSessionCookie(q.r)
      BY <2>2, <2>4 DEF getCurrentUser, HasSessionCookie
    <3>7. Underway(q1)
      BY <2>4, <3>3, <3>4, <3>5, <3>6 DEF Underway, Identified
    <3> QED
      BY <1>2, <1>6, <1>7, <3>2, <3>7
  <2> QED
    BY <2>3, <2>4
<1>10. CASE Respond
  <2>1. PICK q \in reqs, stream \in BOOLEAN, outcome \in {200, 409, 422, 500} :
          /\ reqs' = reqs \ {q}
          /\ Complete([q.r EXCEPT !.stream = stream],
                      IF outcome = 200 THEN 200 ELSE routeError(outcome), q.user, {})
    BY <1>10 DEF Respond
  <2>2. PICK r : r = [q.r EXCEPT !.stream = stream]
    OBVIOUS
  <2>3. EveryResponseObserved' /\ done'.r = r /\ done'.user = q.user
    BY <1>1, <1>4, <2>1, <2>2, CompletedObserved
  <2>4. Underway(q)
    BY <1>2
  <2>5. r.origin = q.r.origin /\ r.safe = q.r.safe /\ r.cookie = q.r.cookie
    BY <2>2, <2>4 DEF Underway, IsRequest
  <2>6. Identified(r, q.user)
    BY <2>4, <2>5 DEF Underway, Identified, assertTrustedRequestOrigin, HasSessionCookie
  <2> QED
    BY <1>2, <2>1, <2>3, <2>6
<1> QED
  BY <1>8, <1>9, <1>10

\* The other actions keep it too: the bootstrap lets up only what its checks allow, and a
\* process that ends drops its requests.
LEMMA ProcessKeeps ==
  ASSUME HttpConstants, RequestsSound, UNCHANGED <<env, done>>,
         \/ Start
         \/ UNCHANGED <<proc, reqs>>
         \/ proc \in {"up", "stopping"} /\ proc' \in {"stopping", "exited"} /\ reqs' \subseteq reqs
  PROVE  RequestsSound'
<1>1. \A q \in reqs : Underway(q)
  BY DEF RequestsSound, Underway
<1>2. EveryResponseObserved'
  BY DEF RequestsSound, EveryResponseObserved
<1>3. \A q \in reqs' : q \in reqs
  BY DEF Start
<1>4. /\ proc' \in {"up", "stopping", "exited"} => assertDeploymentBootstrap /\ assertAuthConfiguration
      /\ proc' \notin {"up", "stopping", "exited"} => reqs' = {} /\ done' = Absent
  BY DEF Start, RequestsSound
<1> QED
  BY <1>1, <1>2, <1>3, <1>4, RequestsFrame DEF RequestsSound, Underway

\* The invariant holds at the start, every step keeps it, and it means the properties.
LEMMA HttpInvInit == ASSUME HttpConstants, HttpInit PROVE HttpInv
<1>1. DOMAIN arrivals = {} /\ arrivals \in Seq(Arrival) /\ buckets = {}
  BY DEF HttpInit
<1>2. IsFiniteSet({}) /\ Cardinality({}) = 0
  BY FS_EmptySet
<1>3. Seen = {}
  BY <1>1 DEF Seen
<1>4. BucketsSound /\ WindowsSound /\ RefusedOnlyOverLimit
  <2>1. BucketsSound
    BY <1>1, <1>2 DEF BucketsSound, HttpConstants
  <2>2. WindowsSound
    BY <1>1, <1>3 DEF WindowsSound
  <2> QED
    BY <1>1, <2>1, <2>2 DEF RefusedOnlyOverLimit
<1>5. LimiterSound
  BY <1>1, <1>2, <1>3, <1>4 DEF LimiterSound, HttpInit, HttpConstants
<1>6. RequestsSound
  BY DEF RequestsSound, HttpInit, EveryResponseObserved
<1> QED
  BY <1>5, <1>6 DEF HttpInv, HttpInit

LEMMA HttpInvStep == ASSUME HttpConstants, HttpInv, [HttpNext]_httpVars PROVE HttpInv'
<1>1. LimiterSound'
  <2>1. CASE Arrive
    BY <2>1, ArriveKeeps DEF HttpInv
  <2>2. CASE ~Arrive
    <3>1. UNCHANGED <<buckets, arrivals, sent>> /\ (now' = now \/ (now < MaxTime /\ now' = now + 1))
      <4>1. CASE UNCHANGED httpVars
        BY <4>1 DEF httpVars
      <4>2. CASE Tick
        BY <4>2 DEF Tick
      <4>3. CASE Start \/ Authenticate \/ Respond \/ SignIn \/ SignOut \/ Signal \/ Close \/ Deadline
        BY <4>3 DEF Start, Authenticate, Respond, SignIn, SignOut, Signal, Close, Deadline
      <4> QED
        BY <2>2, <4>1, <4>2, <4>3 DEF HttpNext
    <3> QED
      BY <3>1, LimiterStays DEF HttpInv
  <2> QED
    BY <2>1, <2>2
<1>2. RequestsSound'
  <2>1. CASE Arrive \/ Authenticate \/ Respond
    BY <2>1, RequestsKeep DEF HttpInv
  <2>2. CASE ~(Arrive \/ Authenticate \/ Respond)
    <3>1. /\ UNCHANGED <<env, done>>
          /\ \/ Start
             \/ UNCHANGED <<proc, reqs>>
             \/ proc \in {"up", "stopping"} /\ proc' \in {"stopping", "exited"} /\ reqs' \subseteq reqs
      BY <2>2 DEF HttpNext, httpVars, Start, SignIn, SignOut, Tick, Signal, Close, Deadline
    <3> QED
      BY <3>1, ProcessKeeps DEF HttpInv
  <2> QED
    BY <2>1, <2>2
<1>3. env' \in Configs /\ proc' \in {"starting", "up", "stopping", "refused", "exited"}
  BY DEF HttpInv, HttpNext, httpVars, Start, Arrive, Authenticate, Respond, SignIn, SignOut, Tick,
         Signal, Close, Deadline
<1> QED
  BY <1>1, <1>2, <1>3 DEF HttpInv

LEMMA HttpMeaning ==
  ASSUME HttpConstants, HttpInv
  PROVE  /\ HttpTypeOK /\ ProductionIdentity /\ EveryResponseObserved /\ AnyWindowBounded
         /\ RefusedOnlyOverLimit /\ StoreBounded
<1>1. HttpTypeOK
  <2>1. \A b \in buckets : b.count \in 1..MaxRequests
    <3>1. sent \in 0..MaxRequests /\ MaxRequests \in Nat
      BY DEF HttpConstants, HttpInv, LimiterSound
    <3>2. \A b \in buckets : b.count \in 1..sent
      BY DEF HttpInv, LimiterSound, BucketsSound
    <3> QED
      BY <3>1, <3>2
  <2> QED
    BY <2>1 DEF HttpTypeOK, HttpInv, LimiterSound, BucketsSound, RequestsSound
<1>2. ProductionIdentity
  <2>1. SUFFICES ASSUME Production, done # Absent, done.user # Absent
                 PROVE  done.r.cookie # Absent /\ (done.r.safe \/ done.r.origin = "own")
    BY DEF ProductionIdentity
  <2>2. /\ assertTrustedRequestOrigin(done.r) /\ (headerAuthEnabled \/ HasSessionCookie(done.r))
        /\ assertAuthConfiguration
    BY <2>1 DEF HttpInv, RequestsSound, Identified
  <2>3. configuredPublicOrigin = "own"
    <3>1. env.origin \in {"none", "http", "https", "malformed"}
      BY DEF HttpConstants, HttpInv
    <3> QED
      BY <2>1, <2>2, <3>1 DEF configuredPublicOrigin, assertAuthConfiguration
  <2> QED
    BY <2>1, <2>2, <2>3 DEF HttpConstants, assertTrustedRequestOrigin, headerAuthEnabled, HasSessionCookie
<1>3. AnyWindowBounded
  <2>1. SUFFICES ASSUME Cardinality(Seen) <= MaxBuckets, NEW k \in Seen, NEW t \in 0..MaxTime
                 PROVE  Passed(k, t, t + Window - 1) <= 2 * Limit[k[1]]
    BY DEF AnyWindowBounded, Seen
  <2>2. Passed(k, t, t + Window - 1) = Cardinality(LetIn(k, t))
    BY DEF Passed, LetIn
  <2> QED
    BY <2>1, <2>2 DEF HttpInv, LimiterSound, WindowsSound
<1>4. StoreBounded
  BY DEF HttpInv, LimiterSound, BucketsSound, StoreBounded
<1> QED
  BY <1>1, <1>2, <1>3, <1>4 DEF HttpInv, LimiterSound, RequestsSound

THEOREM HttpAccessIsSafe ==
  ASSUME HttpConstants
  PROVE  HttpSpec => [](/\ HttpTypeOK /\ ProductionIdentity /\ EveryResponseObserved
                        /\ AnyWindowBounded /\ RefusedOnlyOverLimit /\ StoreBounded)
<1>1. HttpInit => HttpInv
  BY HttpInvInit
<1>2. HttpInv /\ [HttpNext]_httpVars => HttpInv'
  BY HttpInvStep
<1>3. HttpInv => /\ HttpTypeOK /\ ProductionIdentity /\ EveryResponseObserved
                 /\ AnyWindowBounded /\ RefusedOnlyOverLimit /\ StoreBounded
  BY HttpMeaning
<1> QED
  BY <1>1, <1>2, <1>3, PTL DEF HttpSpec

-----------------------------------------------------------------------------
(* The custody store under kills, errors and loss of power *)

\* Where an operation of each kind can stand, and what an operation looks like.
StorePcs == {"list", "objName", "objSync", "recName", "recSync", "undo", "unlock"}
DeletePcs == {"read", "unlink", "objGone", "rcpName", "rcpSync", "recUnlink", "recGone", "unlock"}
PcsOf(kind) ==
  CASE kind = "store" -> StorePcs
    [] kind = "delete" -> DeletePcs
    [] kind = "sweep" -> DeletePcs \cup {"scan"}
    [] kind = "query" -> {"object"}
Ops == [kind: {"store", "delete", "sweep", "query"}, id: Ids \cup {Nil},
        pc: StorePcs \cup DeletePcs \cup {"scan", "object"},
        todo: (SUBSET Ids) \cup BOOLEAN \cup {Nil}, temp: Dirs \cup {Nil}, ok: BOOLEAN,
        at: Nat, io: BOOLEAN]

\* What is asked of the parameters: a value that stands for absence is none of the others.
CusConstants ==
  /\ MaxId \in Nat /\ MaxRecords \in Nat /\ Retention \in Nat /\ MaxClock \in Nat /\ MaxFaults \in Nat
  /\ Nil \notin Procs /\ Nil \notin Ops

\* What holds of an operation where it stands.  A store has found room and its id is in no
\* receipt; a deletion writes the receipt only when the object is gone for good, and
\* unlinks the record only when the receipt is there for good.
OpSound(o) ==
  /\ o.pc \in PcsOf(o.kind)
  /\ o.kind = "query" => o.todo \in BOOLEAN /\ (o.todo => o.id \in vol["deletions"])
  /\ o.kind = "sweep" => o.todo \in (SUBSET Ids) \cup {Nil}
  /\ o.kind \in {"store", "delete"} => o.id \in used
  /\ o.pc \in {"list", "objName"} => o.id \notin vol["deletions"]
  /\ o.pc \in {"objName", "objSync", "recName"} => Cardinality(vol["records"]) < MaxRecords
  /\ o.pc = "recSync" => o.id \in vol["records"]
  /\ o.pc = "unlock" /\ o.ok /\ o.kind = "store" => o.id \in vol["records"] \cap dur["records"]
  /\ o.pc \in {"read", "unlink", "objGone", "rcpName", "rcpSync", "recUnlink", "recGone"} => o.id \in used
  /\ o.pc \in {"objGone", "rcpName"} => o.id \notin vol["objects"]
  /\ o.pc = "rcpName" => o.id \notin dur["objects"]
  /\ o.pc = "rcpSync" => o.id \in vol["deletions"]
  /\ o.pc = "recUnlink" => o.id \in dur["deletions"]

\* The directories, as they show and as they would be after a loss of power.
FilesSound ==
  /\ vol \in [Dirs -> SUBSET Ids] /\ dur \in [Dirs -> SUBSET Ids]
  /\ used \subseteq Ids /\ returned \subseteq used
  /\ \A d \in Dirs : vol[d] \subseteq used /\ dur[d] \subseteq used
  /\ dur["deletions"] \subseteq vol["deletions"]
  /\ vol["deletions"] \cap (vol["objects"] \cup dur["objects"]) = {}
  /\ \A id \in returned : id \in vol["records"] \cap dur["records"] \/ id \in dur["deletions"]
  /\ dur["records"] \ vol["records"] \subseteq dur["deletions"]
  /\ Cardinality(vol["records"] \ dur["deletions"]) <= MaxRecords

\* The lock: only its owner changes the directories.
LockSound ==
  /\ lock \in Procs \cup {Nil}
  /\ op \in [Procs -> Ops \cup {Nil}]
  /\ \A p \in Procs : op[p] # Nil =>
       OpSound(op[p]) /\ (op[p].kind # "query" => lock = p)
  /\ lock # Nil /\ ~killed => op[lock] # Nil /\ op[lock].kind # "query"

CusInv ==
  /\ FilesSound /\ LockSound
  /\ left \subseteq Dirs /\ bad \subseteq Dirs \X Ids
  /\ clock \in 0..MaxClock /\ faults \in 0..MaxFaults
  /\ DeletedStaysClosed

\* The sets the bounds count are finite.
LEMMA IdsFinite ==
  ASSUME CusConstants
  PROVE  \A S \in SUBSET Ids : /\ IsFiniteSet(S) /\ Cardinality(S) \in Nat /\ Cardinality(S) <= MaxId
                               /\ \A T \in SUBSET S : Cardinality(T) <= Cardinality(S)
<1>1. IsFiniteSet(Ids) /\ Cardinality(Ids) = MaxId
  BY FS_Interval DEF Ids, CusConstants
<1>2. ASSUME NEW S \in SUBSET Ids
      PROVE  /\ IsFiniteSet(S) /\ Cardinality(S) \in Nat /\ Cardinality(S) <= MaxId
             /\ \A T \in SUBSET S : Cardinality(T) <= Cardinality(S)
  <2>1. IsFiniteSet(S) /\ Cardinality(S) <= Cardinality(Ids)
    BY <1>1, FS_Subset
  <2>2. \A T \in SUBSET S : Cardinality(T) <= Cardinality(S)
    BY <2>1, FS_Subset
  <2> QED
    BY <1>1, <2>1, <2>2, FS_CardinalityType
<1> QED
  BY <1>2

\* Each change of a directory keeps the files sound where the protocol makes it: a sync, a
\* file that appears, a file that goes.
LEMMA SyncKeeps ==
  ASSUME CusConstants, FilesSound, NEW d \in Dirs, dur' = [dur EXCEPT ![d] = vol[d]],
         UNCHANGED <<vol, used, returned>>
  PROVE  FilesSound' /\ dur'[d] = vol[d] /\ \A e \in Dirs : e # d => dur'[e] = dur[e]
<1>1. dur'[d] = vol[d] /\ \A e \in Dirs : e # d => dur'[e] = dur[e]
  BY DEF FilesSound
<1>2. dur["deletions"] \subseteq dur'["deletions"] /\ dur'["deletions"] \subseteq vol["deletions"]
  BY <1>1 DEF FilesSound, Dirs
<1>3. Cardinality(vol["records"] \ dur'["deletions"]) <= MaxRecords
  <2>1. vol["records"] \ dur'["deletions"] \subseteq vol["records"] \ dur["deletions"]
    BY <1>2
  <2>2. vol["records"] \ dur["deletions"] \in SUBSET Ids
    BY DEF FilesSound, Dirs
  <2>3. Cardinality(vol["records"] \ dur'["deletions"]) <= Cardinality(vol["records"] \ dur["deletions"])
    BY <2>1, <2>2, IdsFinite
  <2>4. /\ Cardinality(vol["records"] \ dur'["deletions"]) \in Nat
        /\ Cardinality(vol["records"] \ dur["deletions"]) \in Nat
    BY <2>1, <2>2, IdsFinite
  <2> QED
    BY <2>3, <2>4 DEF FilesSound, CusConstants
<1>4. dur' \in [Dirs -> SUBSET Ids]
  BY DEF FilesSound
<1>5. \A e \in Dirs : dur'[e] \subseteq used
  BY <1>1 DEF FilesSound
<1>6. vol["deletions"] \cap (vol["objects"] \cup dur'["objects"]) = {}
  BY <1>1 DEF FilesSound, Dirs
<1>7. \A id \in returned : id \in vol["records"] \cap dur'["records"] \/ id \in dur'["deletions"]
  BY <1>1, <1>2 DEF FilesSound, Dirs
<1>8. dur'["records"] \ vol["records"] \subseteq dur'["deletions"]
  BY <1>1, <1>2 DEF FilesSound, Dirs
<1> QED
  BY <1>1, <1>2, <1>3, <1>4, <1>5, <1>6, <1>7, <1>8 DEF FilesSound

LEMMA LinkKeeps ==
  ASSUME CusConstants, FilesSound, NEW d \in Dirs, NEW id \in used, vol' = link(d, id),
         d = "objects" => id \notin vol["deletions"],
         d = "records" => Cardinality(vol["records"]) < MaxRecords,
         d = "deletions" => id \notin vol["objects"] \cup dur["objects"],
         UNCHANGED <<dur, used, returned>>
  PROVE  FilesSound' /\ vol'[d] = vol[d] \cup {id} /\ \A e \in Dirs : e # d => vol'[e] = vol[e]
<1>1. vol'[d] = vol[d] \cup {id} /\ \A e \in Dirs : e # d => vol'[e] = vol[e]
  BY DEF FilesSound, link
<1>2. vol' \in [Dirs -> SUBSET Ids]
  BY DEF FilesSound, link
<1>3. Cardinality(vol'["records"] \ dur["deletions"]) <= MaxRecords
  <2>1. CASE d # "records"
    BY <1>1, <2>1 DEF FilesSound, Dirs
  <2>2. CASE d = "records"
    <3>1. vol["records"] \in SUBSET Ids /\ vol'["records"] \in SUBSET Ids
      BY <1>2 DEF FilesSound, Dirs
    <3>2. PICK R : R = vol["records"]
      OBVIOUS
    <3>3. Cardinality(R \cup {id}) <= MaxRecords
      <4>1. IsFiniteSet(R) /\ Cardinality(R) \in Nat
        BY <3>1, <3>2, IdsFinite
      <4>2. Cardinality(R \cup {id}) = IF id \in R THEN Cardinality(R) ELSE Cardinality(R) + 1
        BY <4>1, FS_AddElement
      <4> QED
        BY <2>2, <3>2, <4>1, <4>2 DEF CusConstants
    <3>4. vol'["records"] = R \cup {id}
      BY <1>1, <2>2, <3>2
    <3>5. Cardinality(vol'["records"] \ dur["deletions"]) <= Cardinality(vol'["records"])
      BY <3>1, IdsFinite
    <3>6. Cardinality(vol'["records"] \ dur["deletions"]) \in Nat /\ Cardinality(vol'["records"]) \in Nat
      BY <3>1, IdsFinite
    <3> QED
      BY <3>3, <3>4, <3>5, <3>6 DEF CusConstants
  <2> QED
    BY <2>1, <2>2
<1>4. \A e \in Dirs : vol'[e] \subseteq used
  BY <1>1 DEF FilesSound
<1>5. dur["deletions"] \subseteq vol'["deletions"]
  BY <1>1 DEF FilesSound, Dirs
<1>6. vol'["deletions"] \cap (vol'["objects"] \cup dur["objects"]) = {}
  <2>1. CASE d = "objects"
    <3>1. vol'["deletions"] = vol["deletions"] /\ vol'["objects"] = vol["objects"] \cup {id}
      BY <1>1, <2>1 DEF Dirs
    <3> QED
      BY <2>1, <3>1 DEF FilesSound
  <2>2. CASE d = "deletions"
    <3>1. vol'["deletions"] = vol["deletions"] \cup {id} /\ vol'["objects"] = vol["objects"]
      BY <1>1, <2>2 DEF Dirs
    <3> QED
      BY <2>2, <3>1 DEF FilesSound
  <2>3. CASE d = "records"
    <3>1. vol'["deletions"] = vol["deletions"] /\ vol'["objects"] = vol["objects"]
      BY <1>1, <2>3 DEF Dirs
    <3> QED
      BY <3>1 DEF FilesSound
  <2> QED
    BY <2>1, <2>2, <2>3 DEF Dirs
<1>7. vol["records"] \subseteq vol'["records"]
  BY <1>1 DEF Dirs
<1> QED
  BY <1>1, <1>2, <1>3, <1>4, <1>5, <1>6, <1>7 DEF FilesSound

LEMMA UnlinkKeeps ==
  ASSUME CusConstants, FilesSound, NEW d \in {"objects", "records"}, NEW id, vol' = unlinkSync(d, id),
         d = "records" => id \in dur["deletions"],
         dur' = dur \/ dur' = [dur EXCEPT !["objects"] = vol'["objects"]],
         UNCHANGED <<used, returned>>
  PROVE  FilesSound' /\ vol'[d] = vol[d] \ {id} /\ \A e \in Dirs : e # d => vol'[e] = vol[e]
<1>1. d \in Dirs /\ vol'[d] = vol[d] \ {id} /\ \A e \in Dirs : e # d => vol'[e] = vol[e]
  BY DEF FilesSound, unlinkSync, Dirs
<1>2. vol' \in [Dirs -> SUBSET Ids]
  BY <1>1 DEF FilesSound, unlinkSync
<1>3. dur' \in [Dirs -> SUBSET Ids] /\ (\A e \in Dirs : e # "objects" => dur'[e] = dur[e])
      /\ dur'["objects"] \in {dur["objects"], vol'["objects"]}
  BY <1>2 DEF FilesSound, Dirs
<1>4. vol'["records"] \subseteq vol["records"] /\ vol'["objects"] \subseteq vol["objects"]
      /\ vol'["deletions"] = vol["deletions"]
  BY <1>1 DEF Dirs
<1>5. dur'["records"] = dur["records"] /\ dur'["deletions"] = dur["deletions"]
      /\ dur'["objects"] \subseteq vol["objects"] \cup dur["objects"]
  BY <1>3, <1>4 DEF Dirs
<1>6. Cardinality(vol'["records"] \ dur["deletions"]) <= MaxRecords
  <2>1. vol["records"] \ dur["deletions"] \in SUBSET Ids
    BY DEF FilesSound, Dirs
  <2>2. vol'["records"] \ dur["deletions"] \in SUBSET (vol["records"] \ dur["deletions"])
    BY <1>4
  <2>3. /\ Cardinality(vol'["records"] \ dur["deletions"]) <= Cardinality(vol["records"] \ dur["deletions"])
        /\ Cardinality(vol["records"] \ dur["deletions"]) \in Nat
        /\ Cardinality(vol'["records"] \ dur["deletions"]) \in Nat
    BY <2>1, <2>2, IdsFinite
  <2> QED
    BY <2>3 DEF FilesSound, CusConstants
<1>7. \A e \in Dirs : vol'[e] \subseteq used /\ dur'[e] \subseteq used
  BY <1>1, <1>3 DEF FilesSound
<1>8. \A i \in returned : i \in vol'["records"] \cap dur["records"] \/ i \in dur["deletions"]
  BY <1>1, <1>4 DEF FilesSound, Dirs
<1>9. dur["records"] \ vol'["records"] \subseteq dur["deletions"]
  BY <1>1 DEF FilesSound, Dirs
<1>10. vol["deletions"] \cap (vol'["objects"] \cup dur'["objects"]) = {}
  BY <1>4, <1>5 DEF FilesSound
<1>11. dur["deletions"] \subseteq vol["deletions"]
  BY DEF FilesSound
<1> QED
  BY <1>1, <1>2, <1>3, <1>4, <1>5, <1>6, <1>7, <1>8, <1>9, <1>10, <1>11 DEF FilesSound

\* A loss of power keeps the files sound: what can come back or go is bounded by what the
\* directories show and what they last synced.
LEMMA PowerKeeps ==
  ASSUME CusConstants, FilesSound, powerLoss
  PROVE  FilesSound'
<1>1. PICK flips \in [Dirs -> SUBSET Ids] :
        /\ \A d \in Dirs : flips[d] \subseteq Unsynced(d)
        /\ vol' = [d \in Dirs |-> (vol[d] \ flips[d]) \cup (flips[d] \cap dur[d])]
        /\ dur' = vol'
  BY DEF powerLoss
<1>2. UNCHANGED <<used, returned>>
  BY DEF powerLoss
<1>3. \A d \in Dirs : vol'[d] \subseteq vol[d] \cup dur[d] /\ vol[d] \cap dur[d] \subseteq vol'[d]
  BY <1>1 DEF Unsynced
<1>4. vol' \in [Dirs -> SUBSET Ids]
  BY <1>1 DEF FilesSound
<1>5. /\ vol'["records"] \subseteq vol["records"] \cup dur["records"]
      /\ vol["records"] \cap dur["records"] \subseteq vol'["records"]
      /\ vol'["objects"] \subseteq vol["objects"] \cup dur["objects"]
      /\ vol'["deletions"] \subseteq vol["deletions"]
      /\ dur["deletions"] \subseteq vol'["deletions"]
  <2>1. dur["deletions"] \subseteq vol["deletions"]
    BY DEF FilesSound
  <2> QED
    BY <1>3, <2>1 DEF Dirs
<1>6. Cardinality(vol'["records"] \ vol'["deletions"]) <= MaxRecords
  <2>1. vol["records"] \ dur["deletions"] \in SUBSET Ids
    BY DEF FilesSound, Dirs
  <2>2. vol'["records"] \ vol'["deletions"] \in SUBSET (vol["records"] \ dur["deletions"])
    BY <1>5 DEF FilesSound
  <2>3. /\ Cardinality(vol'["records"] \ vol'["deletions"]) <= Cardinality(vol["records"] \ dur["deletions"])
        /\ Cardinality(vol["records"] \ dur["deletions"]) \in Nat
        /\ Cardinality(vol'["records"] \ vol'["deletions"]) \in Nat
    BY <2>1, <2>2, IdsFinite
  <2> QED
    BY <2>3 DEF FilesSound, CusConstants
<1>7. \A d \in Dirs : vol'[d] \subseteq used
  BY <1>3 DEF FilesSound
<1>8. vol'["deletions"] \cap vol'["objects"] = {}
  BY <1>5 DEF FilesSound
<1>9. \A id \in returned : id \in vol'["records"] \/ id \in vol'["deletions"]
  BY <1>5 DEF FilesSound
<1>10. used \subseteq Ids /\ returned \subseteq used
  BY DEF FilesSound
<1> QED
  BY <1>1, <1>2, <1>4, <1>6, <1>7, <1>8, <1>9, <1>10 DEF FilesSound

\* An operation of one process, and what the others may take for granted meanwhile: the
\* queries need only that receipts stay.
Underlock(p) == op[p] # Nil /\ op[p].kind # "query"

LEMMA QueriesKeep ==
  ASSUME NEW o, OpSound(o), o.kind = "query", vol["deletions"] \subseteq vol'["deletions"]
  PROVE  OpSound(o)'
<1>1. o.pc = "object"
  BY DEF OpSound, PcsOf
<1> QED
  BY <1>1 DEF OpSound

LEMMA OwnerMoves ==
  ASSUME CusConstants, LockSound, NEW p \in Procs, NEW o \in Ops, Underlock(p),
         op' = [op EXCEPT ![p] = o], o.kind # "query", OpSound(o)',
         vol["deletions"] \subseteq vol'["deletions"], UNCHANGED lock, killed' \in {killed, TRUE}
  PROVE  LockSound'
<1>1. lock = p /\ op \in [Procs -> Ops \cup {Nil}] /\ Nil \notin Ops /\ Nil \notin Procs
  BY DEF LockSound, Underlock, CusConstants
<1>2. op' \in [Procs -> Ops \cup {Nil}] /\ op'[p] = o /\ \A q \in Procs : q # p => op'[q] = op[q]
  BY <1>1
<1>3. ASSUME NEW q \in Procs, op'[q] # Nil
      PROVE  OpSound(op[q])' /\ (op'[q].kind # "query" => lock = q)
  <2>1. CASE q = p
    <3>1. OpSound(op[q])'
      BY <1>2, <2>1 DEF OpSound
    <3> QED
      BY <1>1, <2>1, <3>1
  <2>2. CASE q # p
    <3>1. PICK r : r = op[q]
      OBVIOUS
    <3>2. op'[q] = r /\ r # Nil
      BY <1>2, <1>3, <2>2, <3>1
    <3>3. OpSound(r) /\ r.kind = "query"
      BY <1>1, <2>2, <3>1, <3>2 DEF LockSound
    <3>4. OpSound(r)'
      BY <3>3, QueriesKeep
    <3>5. OpSound(op[q])'
      BY <3>2, <3>4 DEF OpSound
    <3> QED
      BY <3>2, <3>3, <3>5
  <2> QED
    BY <2>1, <2>2
<1>4. lock' # Nil => op'[lock'] # Nil /\ op'[lock'].kind # "query"
  BY <1>1, <1>2
<1> QED
  BY <1>1, <1>2, <1>3, <1>4 DEF LockSound

\* An operation that throws goes to release the lock; it is sound there.
LEMMA ThrowSound ==
  ASSUME NEW x \in Ops, OpSound(x), x.kind # "query", NEW io \in BOOLEAN, NEW o, UNCHANGED used,
         o = [x EXCEPT !.pc = "unlock", !.ok = FALSE, !.temp = Nil, !.io = @ \/ io]
  PROVE  o \in Ops /\ o.kind = x.kind /\ OpSound(o)'
<1>1. o \in Ops /\ o.kind = x.kind /\ o.id = x.id /\ o.ok = FALSE /\ o.todo = x.todo /\ o.pc = "unlock"
  BY DEF Ops, DeletePcs
<1> QED
  BY <1>1 DEF OpSound, PcsOf, StorePcs, DeletePcs, Ops

\* Every step under the lock that changes the directories leaves them, and the operation
\* where it stands next, sound.
LEMMA StepsSound ==
  ASSUME CusConstants, FilesSound, LockSound, NEW p \in Procs,
         \/ publishObject(p) \/ syncObject(p) \/ publishRecord(p) \/ syncRecord(p)
         \/ unlinkObject(p) \/ syncUnlink(p) \/ publishReceipt(p) \/ syncReceipt(p)
         \/ unlinkRecord(p) \/ syncRecordGone(p)
  PROVE  \E o \in Ops :
           /\ op' = [op EXCEPT ![p] = o] /\ Underlock(p) /\ o.kind # "query" /\ OpSound(o)'
           /\ FilesSound' /\ vol["deletions"] \subseteq vol'["deletions"]
<1>1. PICK x : x = op[p]
  OBVIOUS
<1>2. x # Nil => /\ x \in Ops /\ OpSound(x)
                 /\ x.pc # "object" => x.kind # "query"
  BY <1>1 DEF LockSound, OpSound, PcsOf
<1>3. FilesSound /\ CusConstants
  OBVIOUS
<1>21. CASE publishObject(p)
  <2>1. At(p, "objName") /\ UNCHANGED <<used, returned>>
    BY <1>21 DEF publishObject, rest, files
  <2>2. x # Nil /\ x.pc = "objName"
    BY <1>1, <2>1 DEF At
  <2>3. x \in Ops /\ OpSound(x) /\ x.kind # "query"
    BY <1>1, <2>2, <1>2
  <2>4. PICK o : o = [x EXCEPT !.pc = "objSync", !.temp = Nil]
    OBVIOUS
  <2>5. op' = [op EXCEPT ![p] = o]
    BY <1>1, <1>21, <2>4 DEF publishObject, Goto
  <2>6. o \in Ops /\ o.kind = x.kind /\ o.id = x.id /\ o.ok = x.ok /\ o.todo = x.todo /\ o.pc = "objSync"
    BY <2>3, <2>4 DEF Ops, StorePcs, DeletePcs, Dirs
  <2>7. FilesSound' /\ dur' = dur /\ vol'["objects"] = vol["objects"] \cup {x.id}
        /\ \A e \in Dirs : e # "objects" => vol'[e] = vol[e]
    <3>1. vol' = link("objects", x.id) /\ UNCHANGED dur
      BY <1>1, <1>21 DEF publishObject
    <3>2. /\ x.id \in used
          /\ "objects" = "objects" => x.id \notin vol["deletions"]
          /\ "objects" = "records" => Cardinality(vol["records"]) < MaxRecords
          /\ "objects" = "deletions" => x.id \notin vol["objects"] \cup dur["objects"]
      BY <2>2, <2>3 DEF OpSound, PcsOf, StorePcs, DeletePcs, Ops
    <3> QED
      BY <1>3, <2>1, <3>1, <3>2, LinkKeeps DEF Dirs
  <2>8. vol["deletions"] \subseteq vol'["deletions"]
    BY <2>7 DEF Dirs
  <2>9. x.kind = "store"
    BY <2>2, <2>3 DEF OpSound, PcsOf, StorePcs, DeletePcs, Ops
  <2>10. OpSound(o)'
    BY <2>1, <2>2, <2>3, <2>6, <2>7, <2>8, <2>9 DEF OpSound, PcsOf, StorePcs, DeletePcs, Dirs
  <2> QED
    BY <1>1, <2>2, <2>3, <2>5, <2>6, <2>7, <2>8, <2>10 DEF Underlock
<1>22. CASE syncObject(p)
  <2>1. At(p, "objSync") /\ UNCHANGED <<used, returned>>
    BY <1>22 DEF syncObject, rest, files
  <2>2. x # Nil /\ x.pc = "objSync"
    BY <1>1, <2>1 DEF At
  <2>3. x \in Ops /\ OpSound(x) /\ x.kind # "query"
    BY <1>1, <2>2, <1>2
  <2>4. PICK o : o = [x EXCEPT !.pc = "recName", !.temp = "records"]
    OBVIOUS
  <2>5. op' = [op EXCEPT ![p] = o]
    BY <1>1, <1>22, <2>4 DEF syncObject, Goto
  <2>6. o \in Ops /\ o.kind = x.kind /\ o.id = x.id /\ o.ok = x.ok /\ o.todo = x.todo /\ o.pc = "recName"
    BY <2>3, <2>4 DEF Ops, StorePcs, DeletePcs, Dirs
  <2>7. FilesSound' /\ vol' = vol /\ dur'["objects"] = vol["objects"] /\ \A e \in Dirs : e # "objects" => dur'[e] = dur[e]
    <3>1. dur' = [dur EXCEPT !["objects"] = vol["objects"]] /\ UNCHANGED vol
      BY <1>22 DEF syncObject, fsyncDirectory
    <3> QED
      BY <1>3, <2>1, <3>1, SyncKeeps DEF Dirs
  <2>8. vol["deletions"] \subseteq vol'["deletions"]
    BY <2>7
  <2>9. x.kind = "store"
    BY <2>2, <2>3 DEF OpSound, PcsOf, StorePcs, DeletePcs, Ops
  <2>10. OpSound(o)'
    BY <2>1, <2>2, <2>3, <2>6, <2>7, <2>8, <2>9 DEF OpSound, PcsOf, StorePcs, DeletePcs, Dirs
  <2> QED
    BY <1>1, <2>2, <2>3, <2>5, <2>6, <2>7, <2>8, <2>10 DEF Underlock
<1>23. CASE publishRecord(p)
  <2>1. At(p, "recName") /\ UNCHANGED <<used, returned>>
    BY <1>23 DEF publishRecord, rest, files
  <2>2. x # Nil /\ x.pc = "recName"
    BY <1>1, <2>1 DEF At
  <2>3. x \in Ops /\ OpSound(x) /\ x.kind # "query"
    BY <1>1, <2>2, <1>2
  <2>4. PICK o : o = [x EXCEPT !.pc = "recSync", !.temp = Nil]
    OBVIOUS
  <2>5. op' = [op EXCEPT ![p] = o]
    BY <1>1, <1>23, <2>4 DEF publishRecord, Goto
  <2>6. o \in Ops /\ o.kind = x.kind /\ o.id = x.id /\ o.ok = x.ok /\ o.todo = x.todo /\ o.pc = "recSync"
    BY <2>3, <2>4 DEF Ops, StorePcs, DeletePcs, Dirs
  <2>7. FilesSound' /\ dur' = dur /\ vol'["records"] = vol["records"] \cup {x.id}
        /\ \A e \in Dirs : e # "records" => vol'[e] = vol[e]
    <3>1. vol' = link("records", x.id) /\ UNCHANGED dur
      BY <1>1, <1>23 DEF publishRecord
    <3>2. /\ x.id \in used
          /\ "records" = "objects" => x.id \notin vol["deletions"]
          /\ "records" = "records" => Cardinality(vol["records"]) < MaxRecords
          /\ "records" = "deletions" => x.id \notin vol["objects"] \cup dur["objects"]
      BY <2>2, <2>3 DEF OpSound, PcsOf, StorePcs, DeletePcs, Ops
    <3> QED
      BY <1>3, <2>1, <3>1, <3>2, LinkKeeps DEF Dirs
  <2>8. vol["deletions"] \subseteq vol'["deletions"]
    BY <2>7 DEF Dirs
  <2>9. x.kind = "store"
    BY <2>2, <2>3 DEF OpSound, PcsOf, StorePcs, DeletePcs, Ops
  <2>10. OpSound(o)'
    BY <2>1, <2>2, <2>3, <2>6, <2>7, <2>8, <2>9 DEF OpSound, PcsOf, StorePcs, DeletePcs, Dirs
  <2> QED
    BY <1>1, <2>2, <2>3, <2>5, <2>6, <2>7, <2>8, <2>10 DEF Underlock
<1>24. CASE syncRecord(p)
  <2>1. At(p, "recSync") /\ UNCHANGED <<used, returned>>
    BY <1>24 DEF syncRecord, rest, files
  <2>2. x # Nil /\ x.pc = "recSync"
    BY <1>1, <2>1 DEF At
  <2>3. x \in Ops /\ OpSound(x) /\ x.kind # "query"
    BY <1>1, <2>2, <1>2
  <2>4. PICK o : o = [x EXCEPT !.pc = "unlock"]
    OBVIOUS
  <2>5. op' = [op EXCEPT ![p] = o]
    BY <1>1, <1>24, <2>4 DEF syncRecord, Goto
  <2>6. o \in Ops /\ o.kind = x.kind /\ o.id = x.id /\ o.ok = x.ok /\ o.todo = x.todo /\ o.pc = "unlock"
    BY <2>3, <2>4 DEF Ops, StorePcs, DeletePcs, Dirs
  <2>7. FilesSound' /\ vol' = vol /\ dur'["records"] = vol["records"] /\ \A e \in Dirs : e # "records" => dur'[e] = dur[e]
    <3>1. dur' = [dur EXCEPT !["records"] = vol["records"]] /\ UNCHANGED vol
      BY <1>24 DEF syncRecord, fsyncDirectory
    <3> QED
      BY <1>3, <2>1, <3>1, SyncKeeps DEF Dirs
  <2>8. vol["deletions"] \subseteq vol'["deletions"]
    BY <2>7
  <2>9. x.kind = "store"
    BY <2>2, <2>3 DEF OpSound, PcsOf, StorePcs, DeletePcs, Ops
  <2>10. OpSound(o)'
    BY <2>1, <2>2, <2>3, <2>6, <2>7, <2>8, <2>9 DEF OpSound, PcsOf, StorePcs, DeletePcs, Dirs
  <2> QED
    BY <1>1, <2>2, <2>3, <2>5, <2>6, <2>7, <2>8, <2>10 DEF Underlock
<1>25. CASE unlinkObject(p)
  <2>1. At(p, "unlink") /\ UNCHANGED <<used, returned>>
    BY <1>25 DEF unlinkObject, rest, files
  <2>2. x # Nil /\ x.pc = "unlink"
    BY <1>1, <2>1 DEF At
  <2>3. x \in Ops /\ OpSound(x) /\ x.kind # "query"
    BY <1>1, <2>2, <1>2
  <2>4. PICK o : o = [x EXCEPT !.pc = "objGone"]
    OBVIOUS
  <2>5. op' = [op EXCEPT ![p] = o]
    BY <1>1, <1>25, <2>4 DEF unlinkObject, Goto
  <2>6. o \in Ops /\ o.kind = x.kind /\ o.id = x.id /\ o.ok = x.ok /\ o.todo = x.todo /\ o.pc = "objGone"
    BY <2>3, <2>4 DEF Ops, StorePcs, DeletePcs, Dirs
  <2>7. FilesSound' /\ dur' = dur /\ vol'["objects"] = vol["objects"] \ {x.id}
        /\ \A e \in Dirs : e # "objects" => vol'[e] = vol[e]
    <3>1. vol' = unlinkSync("objects", x.id) /\ UNCHANGED dur
      BY <1>1, <1>25 DEF unlinkObject
    <3>2. "objects" = "records" => x.id \in dur["deletions"]
      BY <2>2, <2>3 DEF OpSound
    <3> QED
      BY <1>3, <2>1, <3>1, <3>2, UnlinkKeeps
  <2>8. vol["deletions"] \subseteq vol'["deletions"]
    BY <2>7 DEF Dirs
  <2>9. x.kind \in {"delete", "sweep"}
    BY <2>2, <2>3 DEF OpSound, PcsOf, StorePcs, DeletePcs, Ops
  <2>10. OpSound(o)'
    BY <2>1, <2>2, <2>3, <2>6, <2>7, <2>8, <2>9 DEF OpSound, PcsOf, StorePcs, DeletePcs, Dirs
  <2> QED
    BY <1>1, <2>2, <2>3, <2>5, <2>6, <2>7, <2>8, <2>10 DEF Underlock
<1>26. CASE syncUnlink(p)
  <2>1. At(p, "objGone") /\ UNCHANGED <<used, returned>>
    BY <1>26 DEF syncUnlink, rest, files
  <2>2. x # Nil /\ x.pc = "objGone"
    BY <1>1, <2>1 DEF At
  <2>3. x \in Ops /\ OpSound(x) /\ x.kind # "query"
    BY <1>1, <2>2, <1>2
  <2>4. PICK o : o = [x EXCEPT !.pc = "rcpName"]
    OBVIOUS
  <2>5. op' = [op EXCEPT ![p] = o]
    BY <1>1, <1>26, <2>4 DEF syncUnlink, Goto
  <2>6. o \in Ops /\ o.kind = x.kind /\ o.id = x.id /\ o.ok = x.ok /\ o.todo = x.todo /\ o.pc = "rcpName"
    BY <2>3, <2>4 DEF Ops, StorePcs, DeletePcs, Dirs
  <2>7. FilesSound' /\ vol' = vol /\ dur'["objects"] = vol["objects"] /\ \A e \in Dirs : e # "objects" => dur'[e] = dur[e]
    <3>1. dur' = [dur EXCEPT !["objects"] = vol["objects"]] /\ UNCHANGED vol
      BY <1>26 DEF syncUnlink, fsyncDirectory
    <3> QED
      BY <1>3, <2>1, <3>1, SyncKeeps DEF Dirs
  <2>8. vol["deletions"] \subseteq vol'["deletions"]
    BY <2>7
  <2>9. x.kind \in {"delete", "sweep"}
    BY <2>2, <2>3 DEF OpSound, PcsOf, StorePcs, DeletePcs, Ops
  <2>10. OpSound(o)'
    BY <2>1, <2>2, <2>3, <2>6, <2>7, <2>8, <2>9 DEF OpSound, PcsOf, StorePcs, DeletePcs, Dirs
  <2> QED
    BY <1>1, <2>2, <2>3, <2>5, <2>6, <2>7, <2>8, <2>10 DEF Underlock
<1>27. CASE publishReceipt(p)
  <2>1. At(p, "rcpName") /\ UNCHANGED <<used, returned>>
    BY <1>27 DEF publishReceipt, rest, files
  <2>2. x # Nil /\ x.pc = "rcpName"
    BY <1>1, <2>1 DEF At
  <2>3. x \in Ops /\ OpSound(x) /\ x.kind # "query"
    BY <1>1, <2>2, <1>2
  <2>4. PICK o : o = [x EXCEPT !.pc = "rcpSync", !.temp = Nil]
    OBVIOUS
  <2>5. op' = [op EXCEPT ![p] = o]
    BY <1>1, <1>27, <2>4 DEF publishReceipt, Goto
  <2>6. o \in Ops /\ o.kind = x.kind /\ o.id = x.id /\ o.ok = x.ok /\ o.todo = x.todo /\ o.pc = "rcpSync"
    BY <2>3, <2>4 DEF Ops, StorePcs, DeletePcs, Dirs
  <2>7. FilesSound' /\ dur' = dur /\ vol'["deletions"] = vol["deletions"] \cup {x.id}
        /\ \A e \in Dirs : e # "deletions" => vol'[e] = vol[e]
    <3>1. vol' = link("deletions", x.id) /\ UNCHANGED dur
      BY <1>1, <1>27 DEF publishReceipt
    <3>2. /\ x.id \in used
          /\ "deletions" = "objects" => x.id \notin vol["deletions"]
          /\ "deletions" = "records" => Cardinality(vol["records"]) < MaxRecords
          /\ "deletions" = "deletions" => x.id \notin vol["objects"] \cup dur["objects"]
      BY <2>2, <2>3 DEF OpSound, PcsOf, StorePcs, DeletePcs, Ops
    <3> QED
      BY <1>3, <2>1, <3>1, <3>2, LinkKeeps DEF Dirs
  <2>8. vol["deletions"] \subseteq vol'["deletions"]
    BY <2>7 DEF Dirs
  <2>9. x.kind \in {"delete", "sweep"}
    BY <2>2, <2>3 DEF OpSound, PcsOf, StorePcs, DeletePcs, Ops
  <2>10. OpSound(o)'
    BY <2>1, <2>2, <2>3, <2>6, <2>7, <2>8, <2>9 DEF OpSound, PcsOf, StorePcs, DeletePcs, Dirs
  <2> QED
    BY <1>1, <2>2, <2>3, <2>5, <2>6, <2>7, <2>8, <2>10 DEF Underlock
<1>28. CASE syncReceipt(p)
  <2>1. At(p, "rcpSync") /\ UNCHANGED <<used, returned>>
    BY <1>28 DEF syncReceipt, rest, files
  <2>2. x # Nil /\ x.pc = "rcpSync"
    BY <1>1, <2>1 DEF At
  <2>3. x \in Ops /\ OpSound(x) /\ x.kind # "query"
    BY <1>1, <2>2, <1>2
  <2>4. PICK o : o = [x EXCEPT !.pc = "recUnlink"]
    OBVIOUS
  <2>5. op' = [op EXCEPT ![p] = o]
    BY <1>1, <1>28, <2>4 DEF syncReceipt, Goto
  <2>6. o \in Ops /\ o.kind = x.kind /\ o.id = x.id /\ o.ok = x.ok /\ o.todo = x.todo /\ o.pc = "recUnlink"
    BY <2>3, <2>4 DEF Ops, StorePcs, DeletePcs, Dirs
  <2>7. FilesSound' /\ vol' = vol /\ dur'["deletions"] = vol["deletions"] /\ \A e \in Dirs : e # "deletions" => dur'[e] = dur[e]
    <3>1. dur' = [dur EXCEPT !["deletions"] = vol["deletions"]] /\ UNCHANGED vol
      BY <1>28 DEF syncReceipt, fsyncDirectory
    <3> QED
      BY <1>3, <2>1, <3>1, SyncKeeps DEF Dirs
  <2>8. vol["deletions"] \subseteq vol'["deletions"]
    BY <2>7
  <2>9. x.kind \in {"delete", "sweep"}
    BY <2>2, <2>3 DEF OpSound, PcsOf, StorePcs, DeletePcs, Ops
  <2>10. OpSound(o)'
    BY <2>1, <2>2, <2>3, <2>6, <2>7, <2>8, <2>9 DEF OpSound, PcsOf, StorePcs, DeletePcs, Dirs
  <2> QED
    BY <1>1, <2>2, <2>3, <2>5, <2>6, <2>7, <2>8, <2>10 DEF Underlock
<1>29. CASE unlinkRecord(p)
  <2>1. At(p, "recUnlink") /\ UNCHANGED <<used, returned>>
    BY <1>29 DEF unlinkRecord, rest, files
  <2>2. x # Nil /\ x.pc = "recUnlink"
    BY <1>1, <2>1 DEF At
  <2>3. x \in Ops /\ OpSound(x) /\ x.kind # "query"
    BY <1>1, <2>2, <1>2
  <2>4. PICK o : o = [x EXCEPT !.pc = "recGone"]
    OBVIOUS
  <2>5. op' = [op EXCEPT ![p] = o]
    BY <1>1, <1>29, <2>4 DEF unlinkRecord, Goto
  <2>6. o \in Ops /\ o.kind = x.kind /\ o.id = x.id /\ o.ok = x.ok /\ o.todo = x.todo /\ o.pc = "recGone"
    BY <2>3, <2>4 DEF Ops, StorePcs, DeletePcs, Dirs
  <2>7. FilesSound' /\ dur' = dur /\ vol'["records"] = vol["records"] \ {x.id}
        /\ \A e \in Dirs : e # "records" => vol'[e] = vol[e]
    <3>1. vol' = unlinkSync("records", x.id) /\ UNCHANGED dur
      BY <1>1, <1>29 DEF unlinkRecord
    <3>2. "records" = "records" => x.id \in dur["deletions"]
      BY <2>2, <2>3 DEF OpSound
    <3> QED
      BY <1>3, <2>1, <3>1, <3>2, UnlinkKeeps
  <2>8. vol["deletions"] \subseteq vol'["deletions"]
    BY <2>7 DEF Dirs
  <2>9. x.kind \in {"delete", "sweep"}
    BY <2>2, <2>3 DEF OpSound, PcsOf, StorePcs, DeletePcs, Ops
  <2>10. OpSound(o)'
    BY <2>1, <2>2, <2>3, <2>6, <2>7, <2>8, <2>9 DEF OpSound, PcsOf, StorePcs, DeletePcs, Dirs
  <2> QED
    BY <1>1, <2>2, <2>3, <2>5, <2>6, <2>7, <2>8, <2>10 DEF Underlock
<1>30. CASE syncRecordGone(p)
  <2>1. At(p, "recGone") /\ UNCHANGED <<used, returned>>
    BY <1>30 DEF syncRecordGone, rest, files
  <2>2. x # Nil /\ x.pc = "recGone"
    BY <1>1, <2>1 DEF At
  <2>3. x \in Ops /\ OpSound(x) /\ x.kind # "query"
    BY <1>1, <2>2, <1>2
  <2>4. PICK o : o = [x EXCEPT !.pc = IF x.kind = "sweep" THEN "scan" ELSE "unlock"]
    OBVIOUS
  <2>5. op' = [op EXCEPT ![p] = o]
    BY <1>1, <1>30, <2>4 DEF syncRecordGone, Goto
  <2>6. o \in Ops /\ o.kind = x.kind /\ o.id = x.id /\ o.ok = x.ok /\ o.todo = x.todo /\ o.pc = (IF x.kind = "sweep" THEN "scan" ELSE "unlock")
    BY <2>3, <2>4 DEF Ops, StorePcs, DeletePcs, Dirs
  <2>7. FilesSound' /\ vol' = vol /\ dur'["records"] = vol["records"] /\ \A e \in Dirs : e # "records" => dur'[e] = dur[e]
    <3>1. dur' = [dur EXCEPT !["records"] = vol["records"]] /\ UNCHANGED vol
      BY <1>30 DEF syncRecordGone, fsyncDirectory
    <3> QED
      BY <1>3, <2>1, <3>1, SyncKeeps DEF Dirs
  <2>8. vol["deletions"] \subseteq vol'["deletions"]
    BY <2>7
  <2>9. x.kind \in {"delete", "sweep"}
    BY <2>2, <2>3 DEF OpSound, PcsOf, StorePcs, DeletePcs, Ops
  <2>10. OpSound(o)'
    BY <2>1, <2>2, <2>3, <2>6, <2>7, <2>8, <2>9 DEF OpSound, PcsOf, StorePcs, DeletePcs, Dirs
  <2> QED
    BY <1>1, <2>2, <2>3, <2>5, <2>6, <2>7, <2>8, <2>10 DEF Underlock
<1> QED
  BY <1>21, <1>22, <1>23, <1>24, <1>25, <1>26, <1>27, <1>28, <1>29, <1>30

\* The steps under the lock that only read, those that give up, and the errors.
LEMMA ReadsSound ==
  ASSUME CusConstants, FilesSound, LockSound, NEW p \in Procs,
         List(p) \/ removeObject(p) \/ readForDelete(p) \/ scan(p) \/ ioError(p)
  PROVE  \E o \in Ops :
           /\ op' = [op EXCEPT ![p] = o] /\ Underlock(p) /\ o.kind # "query" /\ OpSound(o)'
           /\ FilesSound' /\ vol["deletions"] \subseteq vol'["deletions"]
<1>1. PICK x : x = op[p]
  OBVIOUS
<1>2. x # Nil => /\ x \in Ops /\ OpSound(x)
                 /\ x.pc # "object" => x.kind # "query"
  BY <1>1 DEF LockSound, OpSound, PcsOf
<1>3. FilesSound /\ CusConstants
  OBVIOUS
<1>4. ASSUME NEW io \in BOOLEAN, x # Nil, x.kind # "query", Throw(p, io), UNCHANGED used,
             FilesSound', vol["deletions"] \subseteq vol'["deletions"]
      PROVE  \E o \in Ops :
               /\ op' = [op EXCEPT ![p] = o] /\ Underlock(p) /\ o.kind # "query" /\ OpSound(o)'
               /\ FilesSound' /\ vol["deletions"] \subseteq vol'["deletions"]
  <2>1. PICK o : o = [x EXCEPT !.pc = "unlock", !.ok = FALSE, !.temp = Nil, !.io = @ \/ io]
    OBVIOUS
  <2>2. op' = [op EXCEPT ![p] = o]
    BY <1>1, <1>4, <2>1 DEF Throw
  <2>3. o \in Ops /\ o.kind = x.kind /\ OpSound(o)'
    BY <1>2, <1>4, <2>1, ThrowSound
  <2> QED
    BY <1>1, <1>4, <2>2, <2>3 DEF Underlock
<1>5. ASSUME NEW o \in Ops, x # Nil, x.kind # "query", op' = [op EXCEPT ![p] = o], o.kind = x.kind,
             OpSound(o), UNCHANGED <<vol, dur, used, returned>>
      PROVE  \E r \in Ops :
               /\ op' = [op EXCEPT ![p] = r] /\ Underlock(p) /\ r.kind # "query" /\ OpSound(r)'
               /\ FilesSound' /\ vol["deletions"] \subseteq vol'["deletions"]
  <2>1. OpSound(o)' /\ FilesSound' /\ vol["deletions"] \subseteq vol'["deletions"]
    BY <1>3, <1>5 DEF OpSound, FilesSound
  <2> QED
    BY <1>1, <1>5, <2>1 DEF Underlock
<1>6. UNCHANGED <<vol, dur, used, returned>> => FilesSound' /\ vol["deletions"] \subseteq vol'["deletions"]
  BY <1>3 DEF FilesSound
<1>7. CASE List(p)
  <2>1. At(p, "list") /\ UNCHANGED <<vol, dur, used, returned>>
    BY <1>7 DEF List, rest, files
  <2>2. x # Nil /\ x.pc = "list" /\ x \in Ops /\ OpSound(x) /\ x.kind # "query"
    BY <1>1, <1>2, <2>1 DEF At
  <2>3. CASE Throw(p, FALSE)
    BY <1>4, <1>6, <2>1, <2>2, <2>3
  <2>4. CASE Cardinality(vol["records"]) < MaxRecords
             /\ op' = [op EXCEPT ![p].pc = "objName", ![p].temp = "objects"]
    <3>1. PICK o : o = [x EXCEPT !.pc = "objName", !.temp = "objects"]
      OBVIOUS
    <3>2. op' = [op EXCEPT ![p] = o]
      BY <1>1, <2>4, <3>1
    <3>3. o \in Ops /\ o.kind = x.kind /\ o.id = x.id /\ o.ok = x.ok /\ o.todo = x.todo /\ o.pc = "objName"
      BY <2>2, <3>1 DEF Ops, StorePcs, Dirs
    <3>4. x.kind = "store"
      BY <2>2 DEF OpSound, PcsOf, DeletePcs, Ops
    <3>5. OpSound(o)
      BY <2>2, <2>4, <3>3, <3>4 DEF OpSound, PcsOf, StorePcs
    <3> QED
      BY <1>5, <2>1, <2>2, <3>2, <3>3, <3>5
  <2>5. Cardinality(vol["records"]) \in Nat /\ MaxRecords \in Nat
    <3>1. vol["records"] \in SUBSET Ids
      BY DEF FilesSound, Dirs
    <3> QED
      BY <3>1, IdsFinite DEF CusConstants
  <2> QED
    <3>1. \/ Throw(p, FALSE)
          \/ /\ ~(Cardinality(vol["records"]) >= MaxRecords)
             /\ op' = [op EXCEPT ![p].pc = "objName", ![p].temp = "objects"]
      BY <1>7 DEF List
    <3>2. ~(Cardinality(vol["records"]) >= MaxRecords) => Cardinality(vol["records"]) < MaxRecords
      BY <2>5
    <3> QED
      BY <2>3, <2>4, <3>1, <3>2
<1>8. CASE removeObject(p)
  <2>1. At(p, "undo") /\ UNCHANGED <<used, returned>>
    BY <1>8 DEF removeObject, rest
  <2>2. x # Nil /\ x.kind # "query"
    BY <1>1, <1>2, <2>1 DEF At
  <2>3. vol' = unlinkSync("objects", op[p].id) /\ dur' = [dur EXCEPT !["objects"] = vol'["objects"]]
        /\ Throw(p, FALSE)
    BY <1>8 DEF removeObject
  <2>4. FilesSound' /\ vol["deletions"] \subseteq vol'["deletions"]
    BY <1>3, <2>1, <2>3, UnlinkKeeps DEF Dirs
  <2> QED
    BY <1>4, <2>1, <2>2, <2>3, <2>4
<1>9. CASE readForDelete(p)
  <2>1. At(p, "read") /\ UNCHANGED <<vol, dur, used, returned>>
    BY <1>9 DEF readForDelete, rest, files
  <2>2. x # Nil /\ x.pc = "read" /\ x \in Ops /\ OpSound(x) /\ x.kind # "query"
    BY <1>1, <1>2, <2>1 DEF At
  <2>3. CASE Throw(p, FALSE)
    BY <1>4, <1>6, <2>1, <2>2, <2>3
  <2>4. CASE op' = [op EXCEPT ![p].pc = "unlink", ![p].temp = "deletions"]
    <3>1. PICK o : o = [x EXCEPT !.pc = "unlink", !.temp = "deletions"]
      OBVIOUS
    <3>2. op' = [op EXCEPT ![p] = o]
      BY <1>1, <2>4, <3>1
    <3>3. o \in Ops /\ o.kind = x.kind /\ o.id = x.id /\ o.ok = x.ok /\ o.todo = x.todo /\ o.pc = "unlink"
      BY <2>2, <3>1 DEF Ops, DeletePcs, Dirs
    <3>4. x.kind \in {"delete", "sweep"}
      BY <2>2 DEF OpSound, PcsOf, StorePcs, Ops
    <3>5. OpSound(o)
      BY <2>2, <3>3, <3>4 DEF OpSound, PcsOf, DeletePcs
    <3> QED
      BY <1>5, <2>1, <2>2, <3>2, <3>3, <3>5
  <2> QED
    BY <1>9, <2>3, <2>4 DEF readForDelete
<1>10. CASE scan(p)
  <2>1. At(p, "scan") /\ UNCHANGED <<vol, dur, used, returned>>
    BY <1>10 DEF scan, rest, files
  <2>2. x # Nil /\ x.pc = "scan" /\ x \in Ops /\ OpSound(x) /\ x.kind = "sweep"
    BY <1>1, <1>2, <2>1 DEF At, OpSound, PcsOf, StorePcs, DeletePcs, Ops
  <2>3. CASE Throw(p, FALSE)
    BY <1>4, <1>6, <2>1, <2>2, <2>3
  <2>4. ASSUME NEW o, op' = [op EXCEPT ![p] = o],
               \/ o = [x EXCEPT !.todo = vol["records"]]
               \/ o = [x EXCEPT !.pc = "unlock"]
        PROVE  \E r \in Ops :
                 /\ op' = [op EXCEPT ![p] = r] /\ Underlock(p) /\ r.kind # "query" /\ OpSound(r)'
                 /\ FilesSound' /\ vol["deletions"] \subseteq vol'["deletions"]
    <3>1. vol["records"] \in SUBSET Ids
      BY DEF FilesSound, Dirs
    <3>2. o \in Ops /\ o.kind = "sweep" /\ o.pc \in {"scan", "unlock"} /\ o.todo \in {x.todo, vol["records"]}
      BY <2>2, <2>4, <3>1 DEF Ops, DeletePcs
    <3>3. OpSound(o)
      BY <2>2, <3>1, <3>2 DEF OpSound, PcsOf, DeletePcs
    <3> QED
      BY <1>5, <2>1, <2>2, <2>4, <3>2, <3>3
  <2>5. ASSUME NEW id, x.todo # Nil, Readable(id), NEW pc \in {"read", "scan"},
               op' = [op EXCEPT ![p].todo = @ \ {id}, ![p].id = id, ![p].pc = pc]
        PROVE  \E r \in Ops :
                 /\ op' = [op EXCEPT ![p] = r] /\ Underlock(p) /\ r.kind # "query" /\ OpSound(r)'
                 /\ FilesSound' /\ vol["deletions"] \subseteq vol'["deletions"]
    <3>1. PICK o : o = [x EXCEPT !.todo = @ \ {id}, !.id = id, !.pc = pc]
      OBVIOUS
    <3>2. op' = [op EXCEPT ![p] = o]
      BY <1>1, <2>5, <3>1
    <3>3. id \in used /\ id \in Ids
      BY <2>5 DEF Readable, loadArtifact, FilesSound, Dirs
    <3>4. x.todo \in SUBSET Ids
      BY <2>2, <2>5 DEF OpSound
    <3>5. o \in Ops /\ o.kind = "sweep" /\ o.pc = pc /\ o.todo \in SUBSET Ids /\ o.id = id
      BY <2>2, <3>1, <3>3, <3>4 DEF Ops, DeletePcs
    <3>6. OpSound(o)
      BY <2>2, <3>3, <3>5 DEF OpSound, PcsOf, DeletePcs
    <3> QED
      BY <1>5, <2>1, <2>2, <3>2, <3>5, <3>6
  <2>6. CASE x.todo = Nil
    <3>1. Throw(p, FALSE) \/ op' = [op EXCEPT ![p].todo = vol["records"]]
      BY <1>1, <1>10, <2>6 DEF scan
    <3>2. PICK o : o = [x EXCEPT !.todo = vol["records"]]
      OBVIOUS
    <3>3. op' = [op EXCEPT ![p].todo = vol["records"]] => op' = [op EXCEPT ![p] = o]
      BY <1>1, <3>2
    <3> QED
      BY <2>3, <2>4, <3>1, <3>2, <3>3
  <2>7. CASE x.todo # Nil /\ x.todo = {}
    <3>1. op' = [op EXCEPT ![p].pc = "unlock"]
      BY <1>1, <1>10, <2>7 DEF scan, Goto
    <3>2. PICK o : o = [x EXCEPT !.pc = "unlock"]
      OBVIOUS
    <3>3. op' = [op EXCEPT ![p] = o]
      BY <1>1, <3>1, <3>2
    <3> QED
      BY <2>4, <3>2, <3>3
  <2>8. CASE x.todo # Nil /\ x.todo # {}
    <3>1. PICK id : id = CHOOSE i \in op[p].todo : \A j \in op[p].todo : i <= j
      OBVIOUS
    <3>2. \/ Throw(p, FALSE)
          \/ /\ Readable(id)
             /\ op' = [op EXCEPT ![p].todo = @ \ {id}, ![p].id = id,
                          ![p].pc = IF op[p].at >= created[id] + Retention THEN "read" ELSE "scan"]
      BY <1>1, <1>10, <2>8, <3>1 DEF scan
    <3>3. PICK pc : pc = IF op[p].at >= created[id] + Retention THEN "read" ELSE "scan"
      OBVIOUS
    <3> QED
      BY <2>3, <2>5, <2>8, <3>2, <3>3
  <2> QED
    BY <2>6, <2>7, <2>8
<1>11. CASE ioError(p)
  <2>1. UNCHANGED <<vol, dur, used, returned>> /\ x # Nil
    BY <1>1, <1>11 DEF ioError
  <2>2. CASE Throw(p, TRUE) /\ x.pc # "object"
    BY <1>2, <1>4, <1>6, <2>1, <2>2
  <2>3. CASE /\ x.pc \in {"recName", "recSync"}
             /\ op' = [op EXCEPT ![p].pc = "undo", ![p].temp = Nil, ![p].io = TRUE]
    <3>1. PICK o : o = [x EXCEPT !.pc = "undo", !.temp = Nil, !.io = TRUE]
      OBVIOUS
    <3>2. op' = [op EXCEPT ![p] = o] /\ x \in Ops /\ OpSound(x) /\ x.kind # "query"
      BY <1>1, <1>2, <2>1, <2>3, <3>1
    <3>3. o \in Ops /\ o.kind = x.kind /\ o.id = x.id /\ o.ok = x.ok /\ o.todo = x.todo /\ o.pc = "undo"
      BY <3>1, <3>2 DEF Ops, StorePcs
    <3>4. x.kind = "store"
      BY <2>3, <3>2 DEF OpSound, PcsOf, DeletePcs, Ops
    <3>5. OpSound(o)
      BY <3>2, <3>3, <3>4 DEF OpSound, PcsOf, StorePcs
    <3> QED
      BY <1>5, <2>1, <3>2, <3>3, <3>5
  <2> QED
    BY <1>1, <1>11, <2>2, <2>3 DEF ioError
<1> QED
  BY <1>7, <1>8, <1>9, <1>10, <1>11

\* An operation that begins under the lock is the only one there.
LEMMA BeginsSound ==
  ASSUME CusConstants, FilesSound, LockSound, NEW p \in Procs, NEW o \in Ops,
         op[p] = Nil, lock = Nil, op' = [op EXCEPT ![p] = o], lock' = p, o.kind # "query",
         OpSound(o)', UNCHANGED <<vol, dur, killed>>, used \subseteq used'
  PROVE  LockSound'
<1>1. op \in [Procs -> Ops \cup {Nil}] /\ Nil \notin Ops /\ Nil \notin Procs
  BY DEF LockSound, CusConstants
<1>2. op' \in [Procs -> Ops \cup {Nil}] /\ op'[p] = o /\ \A q \in Procs : q # p => op'[q] = op[q]
  BY <1>1
<1>3. ASSUME NEW q \in Procs, op'[q] # Nil
      PROVE  OpSound(op[q])' /\ (op'[q].kind # "query" => lock' = q)
  <2>1. CASE q = p
    BY <1>2, <2>1 DEF OpSound
  <2>2. CASE q # p
    <3>1. PICK r : r = op[q]
      OBVIOUS
    <3>2. op'[q] = r /\ r # Nil
      BY <1>2, <1>3, <2>2, <3>1
    <3>3. OpSound(r) /\ r.kind = "query"
      BY <1>1, <2>2, <3>1, <3>2 DEF LockSound
    <3>4. OpSound(r)'
      BY <3>3, QueriesKeep
    <3>5. OpSound(op[q])'
      BY <3>2, <3>4 DEF OpSound
    <3> QED
      BY <3>2, <3>3, <3>5
  <2> QED
    BY <2>1, <2>2
<1> QED
  BY <1>1, <1>2, <1>3 DEF LockSound

\* The steps that end an operation, begin a query or leave the operations alone: no
\* process enters the lock, and what stays was there.
LEMMA LeavesSound ==
  ASSUME CusConstants, LockSound, vol["deletions"] \subseteq vol'["deletions"],
         op' \in [Procs -> Ops \cup {Nil}], lock' \in {lock, Nil},
         \A p \in Procs : op'[p] # Nil =>
           \/ op'[p] = op[p] /\ (op[p].kind = "query" \/ UNCHANGED <<vol, dur, used, lock>>)
           \/ op'[p].kind = "query" /\ OpSound(op[p])',
         lock' # Nil /\ ~killed' => UNCHANGED killed /\ op'[lock] = op[lock]
  PROVE  LockSound'
<1>1. ASSUME NEW p \in Procs, op'[p] # Nil
      PROVE  OpSound(op[p])' /\ (op'[p].kind # "query" => lock' = p)
  <2>1. CASE op'[p] = op[p] /\ op[p].kind = "query"
    <3>1. PICK r : r = op[p]
      OBVIOUS
    <3>2. OpSound(r)'
      BY <1>1, <2>1, <3>1, QueriesKeep DEF LockSound
    <3> QED
      BY <2>1, <3>1, <3>2 DEF OpSound
  <2>2. CASE op'[p] = op[p] /\ UNCHANGED <<vol, dur, used, lock>>
    BY <1>1, <2>2 DEF LockSound, OpSound
  <2>3. CASE op'[p].kind = "query" /\ OpSound(op[p])'
    BY <2>3
  <2> QED
    BY <1>1, <2>1, <2>2, <2>3
<1>2. lock' \in Procs \cup {Nil}
  BY DEF LockSound
<1>3. lock' # Nil /\ ~killed' => op'[lock'] # Nil /\ op'[lock'].kind # "query"
  BY DEF LockSound
<1> QED
  BY <1>1, <1>2, <1>3 DEF LockSound

\* A step under the lock keeps the files and the lock sound, and so does every other step.
LEMMA LockedKeeps ==
  ASSUME CusConstants, FilesSound, LockSound, NEW p \in Procs,
         Step(p) \/ ioError(p), ~unlock(p), ~readCustodyRecord(p)
  PROVE  FilesSound' /\ LockSound' /\ UNCHANGED <<last, killed>>
<1>1. PICK o \in Ops :
        /\ op' = [op EXCEPT ![p] = o] /\ Underlock(p) /\ o.kind # "query" /\ OpSound(o)'
        /\ FilesSound' /\ vol["deletions"] \subseteq vol'["deletions"]
  BY StepsSound, ReadsSound DEF Step
<1>2. UNCHANGED <<lock, killed, last>>
  BY DEF Step, List, publishObject, syncObject, publishRecord, syncRecord, removeObject, readForDelete,
         unlinkObject, syncUnlink, publishReceipt, syncReceipt, unlinkRecord, syncRecordGone, scan,
         ioError, rest
<1> QED
  BY <1>1, <1>2, OwnerMoves

LEMMA BeginKeeps ==
  ASSUME CusConstants, FilesSound, LockSound, clock \in Nat, NEW p \in Procs, Begin(p)
  PROVE  FilesSound' /\ LockSound' /\ UNCHANGED <<last, killed>>
<1>1. Nil \notin Ops /\ op \in [Procs -> Ops \cup {Nil}]
  BY DEF CusConstants, LockSound
<1>2. CASE storeObservabilitySignalSet(p)
  <2>1. PICK id \in Ids \ used : /\ used' = used \cup {id}
                                 /\ op' = [op EXCEPT ![p] = Op("store", id, "list", {})]
    BY <1>2 DEF storeObservabilitySignalSet, Enter
  <2>2. /\ op[p] = Nil /\ lock = Nil /\ lock' = p
        /\ UNCHANGED <<vol, dur, returned, last, killed>>
    BY <1>2 DEF storeObservabilitySignalSet, files
  <2>3. PICK o : o = Op("store", id, "list", {})
    OBVIOUS
  <2>4. o \in Ops /\ o.kind = "store" /\ o.id = id /\ o.pc = "list"
    BY <2>3 DEF Op, Ops, StorePcs
  <2>5. OpSound(o)'
    BY <2>1, <2>2, <2>4 DEF OpSound, PcsOf, StorePcs, FilesSound, Dirs
  <2>6. FilesSound'
    BY <2>1, <2>2 DEF FilesSound
  <2> QED
    BY <2>1, <2>2, <2>3, <2>4, <2>5, <2>6, BeginsSound
<1>3. CASE deleteCustodyRecord(p)
  <2>1. PICK id \in used : op' = [op EXCEPT ![p] = Op("delete", id, "read", {})]
    BY <1>3 DEF deleteCustodyRecord, Enter
  <2>2. /\ op[p] = Nil /\ lock = Nil /\ lock' = p
        /\ UNCHANGED <<vol, dur, used, returned, last, killed>>
    BY <1>3 DEF deleteCustodyRecord, files
  <2>3. PICK o : o = Op("delete", id, "read", {})
    OBVIOUS
  <2>4. o \in Ops /\ o.kind = "delete" /\ o.id = id /\ o.pc = "read"
    <3>1. id \in Ids
      BY DEF FilesSound
    <3> QED
      BY <2>3, <3>1 DEF Op, Ops, DeletePcs
  <2>5. OpSound(o)'
    BY <2>1, <2>2, <2>4 DEF OpSound, PcsOf, DeletePcs
  <2>6. FilesSound'
    BY <2>2 DEF FilesSound
  <2> QED
    BY <2>1, <2>2, <2>3, <2>4, <2>5, <2>6, BeginsSound
<1>4. CASE sweepCustodyRoot(p)
  <2>1. op' = [op EXCEPT ![p] = Op("sweep", Nil, "scan", Nil)]
    BY <1>4 DEF sweepCustodyRoot, Enter
  <2>2. /\ op[p] = Nil /\ lock = Nil /\ lock' = p
        /\ UNCHANGED <<vol, dur, used, returned, last, killed>>
    BY <1>4 DEF sweepCustodyRoot, files
  <2>3. PICK o : o = Op("sweep", Nil, "scan", Nil)
    OBVIOUS
  <2>4. o \in Ops /\ o.kind = "sweep" /\ o.pc = "scan" /\ o.todo = Nil
    BY <2>3 DEF Op, Ops
  <2>5. OpSound(o)'
    BY <2>4 DEF OpSound, PcsOf
  <2>6. FilesSound'
    BY <2>2 DEF FilesSound
  <2> QED
    BY <2>1, <2>2, <2>3, <2>4, <2>5, <2>6, BeginsSound
<1>5. CASE queryCustodyRecord(p)
  <2>1. PICK id \in vol["records"] \cup vol["deletions"] :
          op' = [op EXCEPT ![p] = [Op("query", id, "object", {}) EXCEPT
                                     !.ok = loadArtifact("records", id), !.todo = id \in vol["deletions"]]]
    BY <1>5 DEF queryCustodyRecord, Enter
  <2>2. op[p] = Nil /\ UNCHANGED <<vol, dur, used, returned, last, killed, lock>>
    BY <1>5 DEF queryCustodyRecord, files, rest
  <2>3. PICK o : o = [Op("query", id, "object", {}) EXCEPT
                        !.ok = loadArtifact("records", id), !.todo = id \in vol["deletions"]]
    OBVIOUS
  <2>4. id \in Ids /\ loadArtifact("records", id) \in BOOLEAN
    BY DEF FilesSound, Dirs, loadArtifact
  <2>5. o = [kind |-> "query", id |-> id, pc |-> "object", todo |-> id \in vol["deletions"], temp |-> Nil,
             ok |-> loadArtifact("records", id), at |-> clock, io |-> FALSE]
    BY <2>3 DEF Op
  <2>6. o \in Ops /\ o.kind = "query" /\ o.id = id /\ o.pc = "object" /\ o.todo = (id \in vol["deletions"])
    BY <2>4, <2>5 DEF Ops
  <2>7. op' \in [Procs -> Ops \cup {Nil}] /\ op'[p] = o /\ \A q \in Procs : q # p => op'[q] = op[q]
    BY <1>1, <2>1, <2>3, <2>6
  <2>8. OpSound(o)'
    <3>1. o.todo \in BOOLEAN
      BY <2>6
    <3>2. o.todo => o.id \in vol'["deletions"]
      BY <2>2, <2>6
    <3> QED
      BY <2>6, <3>1, <3>2 DEF OpSound, PcsOf
  <2>9. OpSound(op[p])'
    BY <2>7, <2>8 DEF OpSound
  <2>10. FilesSound'
    BY <2>2 DEF FilesSound
  <2>11. lock # Nil /\ ~killed => lock # p
    BY <2>2 DEF LockSound
  <2>12. lock' # Nil /\ ~killed' => UNCHANGED killed /\ op'[lock] = op[lock]
    BY <2>2, <2>7, <2>11 DEF LockSound
  <2> QED
    BY <2>2, <2>6, <2>7, <2>9, <2>10, <2>12, LeavesSound
<1> QED
  BY <1>2, <1>3, <1>4, <1>5 DEF Begin

LEMMA EndKeeps ==
  ASSUME CusConstants, FilesSound, LockSound, NEW p \in Procs,
         unlock(p) \/ readCustodyRecord(p) \/ kill(p)
  PROVE  FilesSound' /\ LockSound'
<1>1. Nil \notin Ops /\ op \in [Procs -> Ops \cup {Nil}] /\ Nil \notin Procs
  BY DEF CusConstants, LockSound
<1>2. op[p] # Nil /\ op' = [op EXCEPT ![p] = Nil] /\ UNCHANGED <<vol, dur, used>>
  BY DEF unlock, readCustodyRecord, kill, At, files
<1>3. op' \in [Procs -> Ops \cup {Nil}] /\ op'[p] = Nil /\ \A q \in Procs : q # p => op'[q] = op[q]
  BY <1>1, <1>2
<1>4. CASE unlock(p)
  <2>1. PICK x : x = op[p]
    OBVIOUS
  <2>2. x.pc = "unlock" /\ x \in Ops /\ OpSound(x) /\ x.kind # "query" /\ lock = p
    BY <1>1, <1>2, <1>4, <2>1 DEF unlock, At, LockSound, OpSound, PcsOf
  <2>3. returned' = IF x.ok /\ x.kind = "store" THEN returned \cup {x.id} ELSE returned
    BY <1>4, <2>1 DEF unlock
  <2>4. x.ok /\ x.kind = "store" => x.id \in used /\ x.id \in vol["records"] \cap dur["records"]
    BY <2>2 DEF OpSound
  <2>5. FilesSound'
    BY <1>2, <2>3, <2>4 DEF FilesSound
  <2>6. lock' = Nil
    BY <1>4 DEF unlock
  <2>7. \A q \in Procs : op'[q] # Nil => op'[q] = op[q] /\ op[q].kind = "query"
    BY <1>3, <2>2 DEF LockSound
  <2> QED
    BY <1>2, <1>3, <2>5, <2>6, <2>7, LeavesSound
<1>5. CASE readCustodyRecord(p)
  <2>1. op[p].kind = "query" /\ UNCHANGED <<lock, killed, returned>>
    BY <1>1, <1>2, <1>5 DEF readCustodyRecord, At, LockSound, OpSound, PcsOf, StorePcs, DeletePcs, Ops
  <2>2. lock # Nil /\ ~killed => lock # p
    BY <2>1 DEF LockSound
  <2>3. FilesSound'
    BY <1>2, <2>1 DEF FilesSound
  <2>4. \A q \in Procs : op'[q] # Nil => op'[q] = op[q]
    BY <1>3
  <2>5. lock' # Nil /\ ~killed' => UNCHANGED killed /\ op'[lock] = op[lock]
    BY <1>3, <2>1, <2>2 DEF LockSound
  <2> QED
    BY <1>2, <1>3, <2>1, <2>3, <2>4, <2>5, LeavesSound
<1>6. CASE kill(p)
  <2>1. killed' = TRUE /\ UNCHANGED <<lock, returned>>
    BY <1>6 DEF kill
  <2>2. FilesSound'
    BY <1>2, <2>1 DEF FilesSound
  <2>3. \A q \in Procs : op'[q] # Nil => op'[q] = op[q]
    BY <1>3
  <2> QED
    BY <1>2, <1>3, <2>1, <2>2, <2>3, LeavesSound
<1> QED
  BY <1>4, <1>5, <1>6

\* A query that began after the receipt finds no object: the receipt and the object are
\* never there together.
LEMMA AnswerKeeps ==
  ASSUME CusConstants, CusInv, CusNext
  PROVE  DeletedStaysClosed'
<1>1. ASSUME NEW p \in Procs, readCustodyRecord(p)
      PROVE  DeletedStaysClosed'
  <2>1. PICK x : x = op[p]
    OBVIOUS
  <2>2. x \in Ops /\ OpSound(x) /\ x.kind = "query"
    BY <1>1, <2>1 DEF readCustodyRecord, At, CusInv, LockSound, OpSound, PcsOf, StorePcs, DeletePcs, Ops
  <2>3. x.todo \in BOOLEAN /\ (x.todo => x.id \notin vol["objects"])
    BY <2>2 DEF OpSound, CusInv, FilesSound
  <2>4. last'.closed = x.todo /\ last'.ok = (x.ok /\ x.id \in vol["objects"] /\ <<"objects", x.id>> \notin bad)
    BY <1>1, <2>1 DEF readCustodyRecord
  <2> QED
    BY <2>3, <2>4 DEF DeletedStaysClosed
<1>2. ASSUME NEW p \in Procs, unlock(p)
      PROVE  DeletedStaysClosed'
  <2>1. last'.kind = op[p].kind /\ op[p].kind # "query"
    BY <1>2 DEF unlock, Ended, At, CusInv, LockSound, OpSound, PcsOf
  <2> QED
    BY <2>1 DEF DeletedStaysClosed
<1>3. ASSUME UNCHANGED last PROVE DeletedStaysClosed'
  BY <1>3 DEF CusInv, DeletedStaysClosed
<1>4. ASSUME NEW p \in Procs, Begin(p) \/ Step(p) \/ ioError(p) \/ kill(p)
      PROVE  readCustodyRecord(p) \/ unlock(p) \/ UNCHANGED last
  <2>1. CASE Begin(p)
    BY <2>1 DEF Begin, storeObservabilitySignalSet, deleteCustodyRecord, sweepCustodyRoot,
                queryCustodyRecord, files, rest
  <2>2. CASE (Step(p) \/ ioError(p)) /\ ~unlock(p) /\ ~readCustodyRecord(p)
    BY <2>2, LockedKeeps DEF CusInv
  <2>3. CASE kill(p)
    BY <2>3 DEF kill
  <2> QED
    BY <1>4, <2>1, <2>2, <2>3
<1>5. powerLoss \/ tamper \/ tick => UNCHANGED last
  BY DEF powerLoss, tamper, tick
<1> QED
  BY <1>1, <1>2, <1>3, <1>4, <1>5 DEF CusNext

\* What the faults and the clock change besides.
LEMMA MarksKeep ==
  ASSUME CusConstants, CusInv, CusNext
  PROVE  /\ left' \subseteq Dirs /\ bad' \subseteq Dirs \X Ids
         /\ clock' \in 0..MaxClock /\ faults' \in 0..MaxFaults
<1>1. /\ left \subseteq Dirs /\ bad \subseteq Dirs \X Ids
      /\ clock \in 0..MaxClock /\ faults \in 0..MaxFaults
      /\ MaxClock \in Nat /\ MaxFaults \in Nat
  BY DEF CusInv, CusConstants
<1>2. ASSUME NEW p \in Procs, Begin(p) \/ Step(p)
      PROVE  UNCHANGED <<left, bad, clock, faults>>
  <2>1. CASE Begin(p)
    BY <2>1 DEF Begin, storeObservabilitySignalSet, deleteCustodyRecord, sweepCustodyRoot,
                queryCustodyRecord, files, rest
  <2>2. CASE Step(p)
    BY <2>2 DEF Step, List, publishObject, syncObject, publishRecord, syncRecord, removeObject, readForDelete,
         unlinkObject, syncUnlink, publishReceipt, syncReceipt, unlinkRecord, syncRecordGone, scan,
         unlock, readCustodyRecord, rest, files
  <2> QED
    BY <1>2, <2>1, <2>2
<1>3. ASSUME NEW p \in Procs, ioError(p)
      PROVE  left' \subseteq left \cup {"deletions"} /\ UNCHANGED <<bad, clock>> /\ Fault
  BY <1>3 DEF ioError
<1>4. ASSUME NEW p \in Procs, kill(p)
      PROVE  left' \subseteq Dirs /\ UNCHANGED <<bad, clock>> /\ Fault
  <2>1. op[p].temp \in Dirs \cup {Nil}
    BY <1>4 DEF kill, CusInv, LockSound, Ops
  <2> QED
    BY <1>1, <1>4, <2>1 DEF kill
<1>5. powerLoss => left' \subseteq Dirs /\ UNCHANGED <<bad, clock>> /\ Fault
  BY <1>1 DEF powerLoss
<1>6. tamper => bad' \subseteq Dirs \X Ids /\ UNCHANGED <<left, clock>> /\ Fault
  <2>1. \A d \in Dirs : vol[d] \subseteq Ids
    BY DEF CusInv, FilesSound
  <2> QED
    BY <1>1, <2>1 DEF tamper, files
<1>7. tick => UNCHANGED <<left, bad, faults>> /\ clock < MaxClock /\ clock' = clock + 1
  BY DEF tick, files
<1>8. Fault => faults' \in 0..MaxFaults
  BY <1>1 DEF Fault
<1>9. CASE tick
  BY <1>1, <1>7, <1>9
<1>10. CASE powerLoss \/ tamper
  BY <1>1, <1>5, <1>6, <1>8, <1>10
<1>11. CASE \E p \in Procs : Begin(p) \/ Step(p) \/ ioError(p) \/ kill(p)
  BY <1>1, <1>2, <1>3, <1>4, <1>8, <1>11 DEF Dirs
<1> QED
  BY <1>9, <1>10, <1>11 DEF CusNext

\* The invariant holds at the start, every step keeps it, and it means the properties.
LEMMA CusInvInit == ASSUME CusConstants, CusInit PROVE CusInv
<1>1. Cardinality({}) = 0
  BY FS_EmptySet
<1>2. /\ vol = [d \in Dirs |-> {}] /\ dur = vol /\ left = {} /\ lock = Nil
      /\ op = [p \in Procs |-> Nil] /\ bad = {}
      /\ used = {} /\ returned = {} /\ last = Nil /\ clock = 0 /\ faults = 0
  BY DEF CusInit
<1>3. FilesSound
  <2>1. \A d \in Dirs : vol[d] = {} /\ dur[d] = {}
    BY <1>2
  <2>2. vol["records"] \ dur["deletions"] = {}
    BY <2>1 DEF Dirs
  <2> QED
    BY <1>1, <1>2, <2>1, <2>2 DEF FilesSound, Dirs, CusConstants
<1>4. LockSound
  BY <1>2 DEF LockSound
<1> QED
  BY <1>2, <1>3, <1>4 DEF CusInv, DeletedStaysClosed, CusConstants

LEMMA CusInvStep == ASSUME CusConstants, CusInv, [CusNext]_cusVars PROVE CusInv'
<1>1. FilesSound /\ LockSound /\ clock \in Nat
  BY DEF CusInv, CusConstants
<1>2. ASSUME UNCHANGED <<vol, dur, used, returned, lock, op, killed>>
      PROVE  FilesSound' /\ LockSound'
  BY <1>1, <1>2 DEF FilesSound, LockSound, OpSound
<1>3. CASE UNCHANGED cusVars
  BY <1>2, <1>3 DEF cusVars, CusInv, DeletedStaysClosed
<1>4. CASE CusNext
  <2>1. ASSUME NEW p \in Procs, Begin(p) \/ Step(p) \/ ioError(p) \/ kill(p)
        PROVE  FilesSound' /\ LockSound'
    BY <1>1, <2>1, LockedKeeps, BeginKeeps, EndKeeps
  <2>2. ASSUME powerLoss PROVE FilesSound' /\ LockSound'
    <3>1. FilesSound'
      BY <1>1, <2>2, PowerKeeps
    <3>2. op' = [p \in Procs |-> Nil] /\ killed' = TRUE /\ lock' \in {lock, Nil}
      BY <2>2 DEF powerLoss
    <3>3. LockSound'
      BY <1>1, <3>2 DEF LockSound
    <3> QED
      BY <3>1, <3>3
  <2>3. ASSUME tamper \/ tick PROVE FilesSound' /\ LockSound'
    BY <1>2, <2>3 DEF tamper, tick, files
  <2>4. FilesSound' /\ LockSound'
    BY <1>4, <2>1, <2>2, <2>3 DEF CusNext
  <2> QED
    BY <1>4, <2>4, AnswerKeeps, MarksKeep DEF CusInv
<1> QED
  BY <1>3, <1>4

LEMMA CusMeaning ==
  ASSUME CusConstants, CusInv
  PROVE  /\ CusTypeOK /\ NothingLostInSilence /\ ReceiptTruthful /\ LiveRecordsBounded
         /\ AuditFindsEverything /\ DeletedStaysClosed /\ LockHasOwner
<1>1. vol["records"] \in SUBSET Ids /\ vol["deletions"] \in SUBSET Ids /\ vol["objects"] \in SUBSET Ids
      /\ dur["deletions"] \subseteq vol["deletions"]
  BY DEF CusInv, FilesSound, Dirs
<1>2. CusTypeOK
  <2>1. Cardinality(vol["records"]) <= MaxId
    BY <1>1, IdsFinite
  <2> QED
    BY <2>1 DEF CusTypeOK, CusInv, FilesSound, LockSound
<1>3. NothingLostInSilence
  BY <1>1 DEF NothingLostInSilence, CusInv, FilesSound
<1>4. ReceiptTruthful
  BY DEF ReceiptTruthful, CusInv, FilesSound
<1>5. LiveRecordsBounded
  <2>1. vol["records"] \ vol["deletions"] \in SUBSET (vol["records"] \ dur["deletions"])
    BY <1>1
  <2>2. /\ Cardinality(vol["records"] \ vol["deletions"]) <= Cardinality(vol["records"] \ dur["deletions"])
        /\ Cardinality(vol["records"] \ dur["deletions"]) \in Nat
        /\ Cardinality(vol["records"] \ vol["deletions"]) \in Nat
    BY <1>1, <2>1, IdsFinite
  <2>3. Cardinality(vol["records"] \ dur["deletions"]) <= MaxRecords
    BY DEF CusInv, FilesSound
  <2> QED
    BY <2>2, <2>3 DEF LiveRecordsBounded, CusConstants
<1>6. AuditFindsEverything
  <2>1. SUFFICES ASSUME auditCustodyRoot
                 PROVE  /\ \A id \in returned :
                             \/ {d \in Dirs : id \in vol[d]} = {"records", "objects"}
                             \/ {d \in Dirs : id \in vol[d]} = {"deletions"}
                        /\ \A id \in Ids \ vol["records"] : id \notin vol["objects"]
                        /\ \A f \in bad : f[2] \notin vol[f[1]]
    BY DEF AuditFindsEverything
  <2>2. /\ \A id \in vol["records"] : id \notin vol["deletions"] /\ Readable(id)
        /\ vol["objects"] \subseteq vol["records"]
        /\ \A id \in vol["deletions"] :
             loadArtifact("deletions", id) /\ id \notin vol["records"] \cup vol["objects"]
    BY <2>1 DEF auditCustodyRoot
  <2>3. ASSUME NEW id \in returned
        PROVE  \/ {d \in Dirs : id \in vol[d]} = {"records", "objects"}
               \/ {d \in Dirs : id \in vol[d]} = {"deletions"}
    <3>1. id \in vol["records"] \/ id \in vol["deletions"]
      BY <1>3 DEF NothingLostInSilence
    <3>2. CASE id \in vol["records"]
      <4>1. id \in vol["objects"] /\ id \notin vol["deletions"]
        BY <2>2, <3>2 DEF Readable
      <4> QED
        BY <3>2, <4>1 DEF Dirs
    <3>3. CASE id \in vol["deletions"]
      BY <2>2, <3>3 DEF Dirs
    <3> QED
      BY <3>1, <3>2, <3>3
  <2>4. ASSUME NEW f \in bad PROVE f[2] \notin vol[f[1]]
    <3>1. f = <<f[1], f[2]>> /\ f[1] \in Dirs
      BY DEF CusInv
    <3> QED
      BY <2>2, <3>1 DEF Readable, loadArtifact, Dirs
  <2> QED
    BY <2>2, <2>3, <2>4
<1>7. LockHasOwner
  BY DEF LockHasOwner, CusInv, LockSound
<1> QED
  BY <1>2, <1>3, <1>4, <1>5, <1>6, <1>7 DEF CusInv

THEOREM CustodyIsKept ==
  ASSUME CusConstants
  PROVE  CusSpec => [](/\ CusTypeOK /\ NothingLostInSilence /\ ReceiptTruthful /\ LiveRecordsBounded
                       /\ AuditFindsEverything /\ DeletedStaysClosed /\ LockHasOwner)
<1>1. CusInit => CusInv
  BY CusInvInit
<1>2. CusInv /\ [CusNext]_cusVars => CusInv'
  BY CusInvStep
<1>3. CusInv => /\ CusTypeOK /\ NothingLostInSilence /\ ReceiptTruthful /\ LiveRecordsBounded
                /\ AuditFindsEverything /\ DeletedStaysClosed /\ LockHasOwner
  BY CusMeaning
<1> QED
  BY <1>1, <1>2, <1>3, PTL DEF CusSpec
=============================================================================
