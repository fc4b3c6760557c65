---------------------------- MODULE OwnerAccess ----------------------------
(***************************************************************************)
(* Who is shown which rows: the read routes of packages/gateway/src/       *)
(* server.ts with the queries behind them (platform.ts, consent.ts,        *)
(* recorderArchives.ts), the account export of accountData.ts and the      *)
(* purge that deletes an account.                                          *)
(*                                                                         *)
(* A row keeps its table, its owner, the row it belongs to, and whether    *)
(* its visibility or status shows it to everyone.  A route first resolves  *)
(* the caller and then asks the database, in one query or in two, and      *)
(* other requests run between these steps.  Tables whose routes filter in  *)
(* the same way are told apart by their routes only: an instance has one   *)
(* table of each way in play.                                              *)
(***************************************************************************)
EXTENDS Integers, Sequences

CONSTANTS
    Users,
    Guest,         \* a caller without a session
    Curator,       \* a caller with the review token and no session
    Datasets,      \* the tables in play, in the order the export reads them
    Routes,        \* the routes in play
    MaxRows,       \* rows ever made
    None

Tables == {Datasets[i] : i \in 1..Len(Datasets)}

\* The table a row of each child table belongs to.
ParentTable(t) ==
    CASE t = "event" -> "job" [] t = "offer" -> "quote" [] t = "run" -> "course"
      [] t = "submission" -> "assignment" [] t = "listing" -> "model" [] OTHER -> None
Showable == {"course", "assignment", "listing"}
Callers == Users \cup {Guest, Curator}

VARIABLES
    db,            \* the rows
    made,          \* rows made so far
    accounts,      \* users that have an account
    call,          \* the read request in flight: reads do not meet each other
    answer,        \* the answer being sent: its reader and its rows
    export         \* the account export that runs

ownVars == <<db, made, accounts, call, answer, export>>

NoCall == [phase |-> "none", by |-> None]
NoAnswer == [to |-> None, rows |-> {}]
NoExport == [user |-> None]
IdsOf(rs) == {r.id : r \in rs}
Of(d, t) == {r \in d : r.table = t}
Own(d, t, u) == {r \in Of(d, t) : r.owner = u}
Under(d, t, parents) == {r \in Of(d, t) : r.parent \in IdsOf(parents)}

OwnInit ==
    /\ db = {} /\ made = 0
    /\ accounts = Users
    /\ call = NoCall
    /\ answer = NoAnswer
    /\ export = NoExport

-----------------------------------------------------------------------------
(* The queries.  u is the caller, d the rows it is answered from. *)

listModels(u, d) == Own(d, "model", u)
getOwnedModel(u, d) == Own(d, "model", u)
getOwnedObjectBlob(u, d) == Own(d, "blob", u)
\* A download link only for a complete upload.
BlobAccess(u, d) == {r \in Own(d, "blob", u) : r.shown}
listRecorderArchives(u, d) == Own(d, "archive", u)
listJobs(u, d) == Own(d, "job", u)
getOwnedJob(u, d) == Own(d, "job", u)
listPhotoscanArtifacts(u, d) == Own(d, "photoscan", u)
listPolicyArtifacts(u, d) == Own(d, "policy", u)
listReplayArtifacts(u, d) == Own(d, "replay", u)
listTelemetryLogs(u, d) == Own(d, "telemetry", u)
listPrintQuoteRequests(u, d) == Own(d, "quote", u)
creditSummary(u, d) == Own(d, "credit", u)
listCurrentConsents(u, d) == Own(d, "consent", u)
MaintenanceRecords(u, d) == Own(d, "record", u)
ModerationReports(u, d) == Own(d, "report", u)
OwnedListings(u, d) == Own(d, "listing", u)
\* Public and unlisted courses, with or without a session.
ListCourses(u, d) == {r \in Of(d, "course") : r.shown}
\* One course by its URL: also the owner's private one.
\* Mutant of GetCourse: the row is fetched by its id alone.
GetCourseById(u, d) == Of(d, "course")
GetCourse(u, d) == {r \in Of(d, "course") : r.shown \/ r.owner = u}
\* The runs of a course, for whoever names it.
ListLeaderboard(u, d) == Of(d, "run")
ListAssignments(u, d) == {r \in Of(d, "assignment") : r.shown \/ r.owner = u}
\* A submission is read by its student and by the assignment's owner.
ListSubmissions(u, d) ==
    Own(d, "submission", u) \cup Under(d, "submission", Own(d, "assignment", u))
\* Listed entries for everyone; any other status with the review token.
ListListings(u, d) == {r \in Of(d, "listing") : r.shown \/ u = Curator}
listJobEvents(u, jobs, d) == Under(d, "event", {j \in jobs : j \in Own(d, "job", u)})
QuoteOffers(u, quotes, d) == Under(d, "offer", quotes)

\* Routes a caller without a session may use.
OpenRoutes == {"courses", "course", "leaderboards", "assignments", "listings"}

\* What each route answers from its first query ...
First(route, u, d) ==
    CASE route = "models" -> listModels(u, d)
      [] route = "model" -> getOwnedModel(u, d)
      [] route = "blob" -> getOwnedObjectBlob(u, d)
      [] route = "access" -> BlobAccess(u, d)
      [] route = "archives" -> listRecorderArchives(u, d)
      [] route = "jobs" -> listJobs(u, d)
      [] route = "job" -> getOwnedJob(u, d)
      [] route = "photoscans" -> listPhotoscanArtifacts(u, d)
      [] route = "policies" -> listPolicyArtifacts(u, d)
      [] route = "replays" -> listReplayArtifacts(u, d)
      [] route = "telemetry" -> listTelemetryLogs(u, d)
      [] route = "quotes" -> listPrintQuoteRequests(u, d)
      [] route = "credits" -> creditSummary(u, d)
      [] route = "consents" -> listCurrentConsents(u, d)
      [] route = "records" -> MaintenanceRecords(u, d)
      [] route = "reports" -> ModerationReports(u, d)
      [] route = "mine" -> OwnedListings(u, d)
      [] route = "courses" -> ListCourses(u, d)
      [] route = "course" -> GetCourse(u, d)
      [] route = "leaderboards" -> ListLeaderboard(u, d)
      [] route = "assignments" -> ListAssignments(u, d)
      [] route = "submissions" -> ListSubmissions(u, d)
      [] OTHER -> ListListings(u, d)

\* ... and from the second, where there is one.
Second(route, u, first, d) ==
    CASE route = "job" -> listJobEvents(u, first, d)
      [] route = "quotes" -> QuoteOffers(u, first, d)
      [] OTHER -> {}

TwoQueries == {"job", "quotes"}

-----------------------------------------------------------------------------
(* Requests *)

\* requireUser, or getCurrentUser on the open routes.
ResolveCaller(c, route) ==
    /\ call = NoCall /\ export = NoExport /\ answer = NoAnswer
    /\ c \in accounts \/ route \in OpenRoutes
    /\ call' = [phase |-> "known", by |-> c, route |-> route]
    /\ UNCHANGED <<db, made, accounts, answer, export>>

Query ==
    /\ call.phase = "known"
    /\ LET rows == First(call.route, call.by, db) IN
       IF call.route \in TwoQueries /\ rows # {}
       THEN /\ call' = [phase |-> "first", by |-> call.by, route |-> call.route, rows |-> rows]
            /\ UNCHANGED answer
       ELSE /\ call' = NoCall
            /\ answer' = [to |-> call.by, rows |-> rows]
    /\ UNCHANGED <<db, made, accounts, export>>

SecondQuery ==
    /\ call.phase = "first"
    /\ answer' = [to |-> call.by, rows |-> Second(call.route, call.by, call.rows, db)]
    /\ call' = NoCall
    /\ UNCHANGED <<db, made, accounts, export>>

Answered ==
    /\ answer # NoAnswer
    /\ answer' = NoAnswer
    /\ UNCHANGED <<db, made, accounts, call, export>>

\* A row is made by its owner; a child names a parent that exists, which the
\* route requires to be the maker's own, except for a run on any course and a
\* submission to an assignment the student can see.
MayHang(u, t, p) ==
    /\ p.table = ParentTable(t)
    /\ CASE t = "run" -> TRUE
         [] t = "submission" -> p.shown \/ p.owner = u
         [] OTHER -> p.owner = u

CreateRow(u, t, parent, shown) ==
    /\ u \in accounts /\ made < MaxRows /\ t \in Tables
    /\ ParentTable(t) = None <=> parent = None
    /\ parent # None => \E p \in db : p.id = parent /\ MayHang(u, t, p)
    /\ shown => t \in {"course", "assignment", "blob"}
    /\ made' = made + 1
    /\ db' = db \cup {[id |-> made + 1, table |-> t, owner |-> u, parent |-> parent, shown |-> shown]}
    /\ UNCHANGED <<accounts, call, answer, export>>

\* PATCH /v1/listings/:id: curation lists an entry or takes it down.
CurateListing(r) ==
    /\ r \in Of(db, "listing")
    /\ db' = (db \ {r}) \cup {[r EXCEPT !.shown = ~@]}
    /\ UNCHANGED <<made, accounts, call, answer, export>>

\* purgeSteps, and the ON DELETE CASCADE of job events: the user's rows and
\* what hangs on them, whoever made it.
Purged(u, r) ==
    \/ r.owner = u
    \/ \E p \in db : p.id = r.parent /\ p.owner = u

DeleteAccount(u) ==
    /\ u \in accounts
    /\ accounts' = accounts \ {u}
    /\ db' = {r \in db : ~Purged(u, r)}
    /\ UNCHANGED <<made, call, answer, export>>

-----------------------------------------------------------------------------
(* exportUserData *)

\* exportDatasets, by what they hold.
AccountDatasets == {"credit"}
WorkDatasets == {"model", "blob", "job", "event", "photoscan", "replay", "policy"}
CommunityDatasets == {"course", "run", "listing", "report", "assignment", "submission"}
RecordDatasets == {"telemetry", "archive", "record", "quote", "offer"}
LedgerDatasets == {"consent"}
\* Rows without an owner column are read through the row they belong to.
ThroughParent == {"event", "offer"}

Dataset(t, u, d) ==
    IF t \in ThroughParent THEN Under(d, t, Own(d, ParentTable(t), u)) ELSE Own(d, t, u)

BeginExport(u) ==
    /\ export = NoExport /\ call = NoCall /\ answer = NoAnswer /\ u \in accounts
    /\ export' = [user |-> u, snapshot |-> db, at |-> 1, got |-> {}]
    /\ UNCHANGED <<db, made, accounts, call, answer>>

\* REPEATABLE READ: every dataset from the snapshot of the first query.
ReadDataset ==
    /\ export # NoExport /\ export.at <= Len(Datasets)
    /\ export' = [export EXCEPT !.at = @ + 1,
           !.got = @ \cup Dataset(Datasets[export.at], export.user, export.snapshot)]
    /\ UNCHANGED <<db, made, accounts, call, answer>>

FinishExport ==
    /\ export # NoExport /\ export.at > Len(Datasets)
    /\ export' = NoExport
    /\ UNCHANGED <<db, made, accounts, call, answer>>

OwnNext ==
    \/ \E c \in Callers, route \in Routes : ResolveCaller(c, route)
    \/ Query \/ SecondQuery \/ Answered
    \/ \E u \in Users, t \in Tables, parent \in 1..MaxRows \cup {None}, shown \in BOOLEAN :
          CreateRow(u, t, parent, shown)
    \/ \E r \in db : CurateListing(r)
    \/ \E u \in Users : DeleteAccount(u) \/ BeginExport(u)
    \/ ReadDataset \/ FinishExport

OwnSpec == OwnInit /\ [][OwnNext]_ownVars

-----------------------------------------------------------------------------
(* Properties *)

OwnTypeOK ==
    /\ Tables \subseteq AccountDatasets \cup WorkDatasets \cup CommunityDatasets
                        \cup RecordDatasets \cup LedgerDatasets
    /\ made \in 0..MaxRows /\ accounts \subseteq Users
    /\ \A r \in db : r.id \in 1..made /\ r.table \in Tables /\ r.owner \in Users
                     /\ r.shown \in BOOLEAN
    /\ call.phase \in {"none", "known", "first"} /\ call.by \in Callers \cup {None}
    /\ export.user \in Users \cup {None}

\* Who may be shown a row: its owner, everyone once it is shown, the owner of
\* what it hangs on, the curator for listings, and everyone for a run, which
\* its user published.
Entitled(c, r, d) ==
    \/ r.owner = c
    \/ r.shown /\ r.table \in Showable
    \/ r.table = "run"
    \/ r.table = "listing" /\ c = Curator
    \/ r.table \in {"event", "offer", "submission"} /\ \E p \in d : p.id = r.parent /\ p.owner = c

\* No answer shows a row to a caller who is not entitled to it, whatever other
\* requests change between the caller's check and its queries ("private courses
\* stay owner-only", docs/TODO.md).
AnswersEntitled ==
    answer' # answer => \A r \in answer'.rows : Entitled(answer'.to, r, db)

\* A deleted account leaves nothing behind, and no row without the row it
\* belongs to.
NothingOrphaned ==
    /\ \A r \in db : r.owner \in accounts
    /\ \A r \in db : r.parent # None => \E p \in db : p.id = r.parent

\* An export is one moment of the account: every row of the user at its first
\* query, with no dataset ahead of another, and nobody else's.
ExportIsOneMoment ==
    export # NoExport /\ export.at > Len(Datasets) =>
        export.got = {r \in export.snapshot :
            \/ r.owner = export.user
            \/ r.table \in {"event", "offer"}
               /\ \E p \in export.snapshot : p.id = r.parent /\ p.owner = export.user}

AccessSafe == NothingOrphaned /\ ExportIsOneMoment
=============================================================================
