------------------------------ MODULE Courses ------------------------------
(***************************************************************************)
(* Courses, leaderboards and classroom: authored and generated courses,    *)
(* replay-verified runs published under consent, assignments and graded    *)
(* submissions, and what account deletion and withdrawal remove of them.   *)
(***************************************************************************)
EXTENDS EnvSpec, FiniteSets

CONSTANTS Users, CourseIds, RunIds, ReplayIds, AssignmentIds, SubmissionIds,
          Authored,     \* EnvSpecs users write
          Templates,    \* archetypes users generate courses for
          Seeds,
          Tapes,        \* replay tapes: [times, hash, contract]
          Hashes,       \* hashes a client may expect of a tape or contract
          Contracts, Sound, None

VARIABLES alive, published,  \* users; those with leaderboard.publication consent
          courses, runs, replays, assignments, submissions,
          refused            \* templates forge-validate refused (422)

vars == <<alive, published, courses, runs, replays, assignments, submissions, refused>>

Visibility == {"private", "unlisted", "public"}

TypeOK ==
  /\ alive \subseteq Users /\ published \subseteq Users
  /\ \A c \in CourseIds : courses[c] # None =>
       courses[c].owner \in Users /\ courses[c].visibility \in Visibility /\ courses[c].verdict \in {"admitted", "draft"}
  /\ \A r \in RunIds : runs[r] # None =>
       runs[r].course \in CourseIds /\ runs[r].user \in Users /\ runs[r].verified \in BOOLEAN
                                    /\ runs[r].replay \in ReplayIds \cup {None}
  /\ \A a \in AssignmentIds : assignments[a] # None =>
       assignments[a].course \in CourseIds \cup {None} /\ assignments[a].visibility \in Visibility
  /\ \A s \in SubmissionIds : submissions[s] # None => submissions[s].pass \in BOOLEAN

Init ==
  /\ alive = Users /\ published = {} /\ refused = {}
  /\ courses = [c \in CourseIds |-> None] /\ runs = [r \in RunIds |-> None]
  /\ replays = [r \in ReplayIds |-> None]
  /\ assignments = [a \in AssignmentIds |-> None]
  /\ submissions = [s \in SubmissionIds |-> None]

-----------------------------------------------------------------------------

(* POST /v1/courses keeps what fails as a draft; /generate refuses it.     *)
createCourse(u, c, env, vis) ==
  /\ u \in alive /\ courses[c] = None
  /\ courses' = [courses EXCEPT ![c] = [owner |-> u, visibility |-> vis, env |-> env,
                   verdict |-> IF validate_envspec(env) = {} THEN "admitted" ELSE "draft"]]
  /\ UNCHANGED <<alive, published, runs, replays, assignments, submissions, refused>>

generateCourse(u, c, a, seed, vis) ==
  LET env == buildTemplateEnvSpec(a, seed) IN
  /\ u \in alive /\ courses[c] = None
  /\ IF validate_envspec(env) = {}
     THEN courses' = [courses EXCEPT ![c] = [owner |-> u, visibility |-> vis, env |-> env, verdict |-> "admitted"]]
          /\ UNCHANGED refused
     ELSE refused' = refused \cup {<<a, seed>>} /\ UNCHANGED courses
  /\ UNCHANGED <<alive, published, runs, replays, assignments, submissions>>

readable(u, row) == row # None /\ (row.visibility \in {"public", "unlisted"} \/ row.owner = u)

numericFrameTimes(tape) == tape # None /\ tape.times # <<>>

verifyReplayTape(tape, expectedHash, expectedContract) ==
  /\ numericFrameTimes(tape)
  /\ \A i \in 2..Len(tape.times) : tape.times[i - 1] < tape.times[i]
  /\ expectedHash # None => expectedHash = tape.hash
  /\ expectedContract # None => expectedContract = tape.contract

GrantPublication(u) ==
  /\ u \in alive \ published
  /\ published' = published \cup {u}
  /\ UNCHANGED <<alive, courses, runs, replays, assignments, submissions, refused>>

(* Mutant: withdrawal stops new rows only.                                 *)
WithdrawKeepsRuns(u) ==
  /\ u \in alive \cap published
  /\ published' = published \ {u}
  /\ UNCHANGED <<alive, courses, runs, replays, assignments, submissions, refused>>

WithdrawPublication(u) ==
  /\ u \in alive \cap published
  /\ published' = published \ {u}
  /\ runs' = [r \in RunIds |-> IF runs[r] # None /\ runs[r].user = u THEN None ELSE runs[r]]
  /\ UNCHANGED <<alive, courses, replays, assignments, submissions, refused>>

(* POST /v1/replays: a tape is kept with its verification.                 *)
recordReplay(u, p, tape) ==
  /\ u \in alive /\ replays[p] = None
  /\ replays' = [replays EXCEPT ![p] = [owner |-> u, tape |-> tape, verified |-> verifyReplayTape(tape, None, None)]]
  /\ UNCHANGED <<alive, published, courses, runs, assignments, submissions, refused>>

(* POST /v1/leaderboards, one serializable transaction under the consent.  *)
(* With a tape a replay row is written for it; without one the row may     *)
(* name an existing replay and is not verified.                            *)
publishRun(u, r, c, tape, p, expectedHash, expectedContract) ==
  /\ u \in alive \cap published /\ runs[r] = None
  /\ courses[c] # None                                     \* foreign key
  /\ tape = None => (p # None => replays[p] # None)
  /\ tape # None => p # None /\ replays[p] = None
  /\ LET verified == verifyReplayTape(tape, expectedHash, expectedContract) IN
       /\ runs' = [runs EXCEPT ![r] = [course |-> c, user |-> u, replay |-> p, verified |-> verified,
                                       expected |-> expectedHash]]
       /\ replays' = IF tape = None THEN replays
                     ELSE [replays EXCEPT ![p] = [owner |-> u, tape |-> tape, verified |-> verified]]
  /\ UNCHANGED <<alive, published, courses, assignments, submissions, refused>>

createAssignment(u, a, c, rubric, vis) ==
  /\ u \in alive /\ assignments[a] = None /\ (c # None => courses[c] # None)
  /\ assignments' = [assignments EXCEPT ![a] = [owner |-> u, course |-> c, rubric |-> rubric, visibility |-> vis]]
  /\ UNCHANGED <<alive, published, courses, runs, replays, submissions, refused>>

(* gradeClassroomSubmission: every reason counts, and a low score is one   *)
(* more.  Scores are tenths.                                               *)
gradeClassroomSubmission(contract, rubric, successRate) ==
  LET verdict == IF contract \in Sound THEN "admitted" ELSE "draft"
      errors  == IF contract \in Sound THEN 0 ELSE 1
      reasons == {w \in {"verdict", "errors", "success"} :
                   \/ w = "verdict" /\ verdict # "admitted"
                   \/ w = "errors" /\ errors > rubric.maxErrors
                   \/ w = "success" /\ rubric.minSuccess # None
                                    /\ (successRate # None => successRate < rubric.minSuccess)}
      score   == IF reasons = {} THEN 10 ELSE IF verdict = "draft" THEN 5 ELSE 2
  IN reasons = {} /\ score >= rubric.minScore

submitAssignment(u, s, a, contract, successRate) ==
  /\ u \in alive /\ submissions[s] = None /\ readable(u, assignments[a])
  /\ submissions' = [submissions EXCEPT ![s] = [assignment |-> a, student |-> u, contract |-> contract,
       pass |-> gradeClassroomSubmission(contract, assignments[a].rubric, successRate)]]
  /\ UNCHANGED <<alive, published, courses, runs, replays, assignments, refused>>

(* deleteAccount on these tables, foreign keys included: runs on the       *)
(* user's courses go, assignments for them lose the course.                *)
Without(f, Gone(_)) == [i \in DOMAIN f |-> IF f[i] # None /\ Gone(f[i]) THEN None ELSE f[i]]

DeleteAccount(u) ==
  LET ownCourse(c) == c # None /\ courses[c] # None /\ courses[c].owner = u
      kept == Without(assignments, LAMBDA x : x.owner = u)
      left == Without(runs, LAMBDA x : x.user = u \/ ownCourse(x.course))
  IN /\ u \in alive
     /\ alive' = alive \ {u} /\ published' = published \ {u}
     /\ courses' = Without(courses, LAMBDA x : x.owner = u)
     /\ replays' = Without(replays, LAMBDA x : x.owner = u)
     /\ runs' = [r \in RunIds |->
          IF left[r] # None /\ left[r].replay # None
          THEN [left[r] EXCEPT !.replay = IF replays'[@] = None THEN None ELSE @] ELSE left[r]]
     /\ assignments' = [a \in AssignmentIds |->
          IF kept[a] # None /\ ownCourse(kept[a].course) THEN [kept[a] EXCEPT !.course = None] ELSE kept[a]]
     /\ submissions' = Without(submissions, LAMBDA x : x.student = u \/ assignments[x.assignment].owner = u)
     /\ UNCHANGED refused

Next ==
  \E u \in Users :
    \/ \E c \in CourseIds, vis \in Visibility :
         \/ \E env \in Authored : createCourse(u, c, env, vis)
         \/ \E a \in Templates, seed \in Seeds : generateCourse(u, c, a, seed, vis)
    \/ GrantPublication(u) \/ WithdrawPublication(u) \/ DeleteAccount(u)
    \/ \E p \in ReplayIds, tape \in Tapes : recordReplay(u, p, tape)
    \/ \E r \in RunIds, c \in CourseIds, tape \in Tapes \cup {None}, p \in ReplayIds \cup {None},
          h, k \in Hashes \cup {None} : publishRun(u, r, c, tape, p, h, k)
    \/ \E a \in AssignmentIds, c \in CourseIds \cup {None}, vis \in {"private", "public"},
          minSuccess \in {None, 8}, minScore \in {0, 8} :
         createAssignment(u, a, c, [maxErrors |-> 1, minScore |-> minScore, minSuccess |-> minSuccess], vis)
    \/ \E s \in SubmissionIds, a \in AssignmentIds, contract \in Contracts, rate \in {None, 5, 9} :
         submitAssignment(u, s, a, contract, rate)

Spec == Init /\ [][Next]_vars

-----------------------------------------------------------------------------
(***************************************************************************)
(* The course template is valid for every archetype and every seed: the    *)
(* generation route never answers 422 (buildTemplateEnvSpec against the    *)
(* checks of forge-validate env).                                          *)
(***************************************************************************)
TemplatesAdmitted == refused = {}

(***************************************************************************)
(* In an admitted course every goal gate has a spawn with a free straight  *)
(* path over the ground, tested point by point (spawn_can_reach_gate).     *)
(***************************************************************************)
AdmittedReachable ==
  \A c \in CourseIds : courses[c] # None /\ courses[c].verdict = "admitted" =>
    LET env == courses[c].env IN
    \A g \in reachable_goal_gates(env) : \E s \in env.spawns :
      ground_archetype(s) => \A o \in env.obstacles : ~PathBlocked(s.p, g.p, o, 20)

(***************************************************************************)
(* Everything an admitted course places lies inside its bounds, measured   *)
(* from the centre (inside_bounds).                                        *)
(***************************************************************************)
AdmittedInside ==
  \A c \in CourseIds : courses[c] # None /\ courses[c].verdict = "admitted" =>
    LET env == courses[c].env IN
    \A p \in {g.p : g \in env.gates} \cup {s.p : s \in env.spawns} \cup {o.c : o \in env.obstacles} :
      \A i \in 1..3 : -env.bounds[i] <= 2 * p[i] /\ 2 * p[i] <= env.bounds[i]

(***************************************************************************)
(* A run is on the board only while its user consents, on a course that    *)
(* exists, and points only to replays that exist (withActiveConsents,      *)
(* applyWithdrawal, purgeStatements, foreign keys).                        *)
(***************************************************************************)
RunsConsented ==
  \A r \in RunIds : runs[r] # None =>
    /\ runs[r].user \in published /\ courses[runs[r].course] # None
    /\ runs[r].replay # None => replays[runs[r].replay] # None

(***************************************************************************)
(* A verified run had a tape whose times strictly increase and whose hash  *)
(* is the one the client expected, and that tape is what the run points to *)
(* while it is stored (verifyReplayTape, POST /v1/leaderboards).           *)
(***************************************************************************)
VerifiedHasTape ==
  \A r \in RunIds : runs[r] # None /\ runs[r].verified /\ runs[r].replay # None =>
    LET tape == replays[runs[r].replay].tape IN
    /\ Cardinality({tape.times[i] : i \in DOMAIN tape.times}) = Len(tape.times)
    /\ runs[r].expected \in {None, tape.hash}

(***************************************************************************)
(* A passed submission is an admitted contract, whatever the rubric allows *)
(* (grading is production admission), and belongs to a student and an      *)
(* assignment that exist (gradeClassroomSubmission, deleteAccount).        *)
(***************************************************************************)
PassedIsAdmitted ==
  \A s \in SubmissionIds : submissions[s] # None =>
    /\ submissions[s].pass => submissions[s].contract \in Sound
    /\ submissions[s].student \in alive /\ assignments[submissions[s].assignment] # None
=============================================================================
