---------------------------- MODULE StudioPanels ----------------------------
(***************************************************************************)
(* The asynchronous handlers of the Studio's panels (App.tsx): each one     *)
(* raises its panel's busy flag, awaits requests to the gateway one after   *)
(* the other, refreshes lists of the page and lowers the flag.  Refreshes   *)
(* are handlers too, also run by effects and by the job timer, and raise    *)
(* and lower the same flags.                                                *)
(*                                                                         *)
(* A handler is the sequence of its awaits, each a set of requests in       *)
(* flight together (Promise.all).  Kept of the data: the job the page       *)
(* shows, the active course and the course whose leaderboard is shown.      *)
(***************************************************************************)
EXTENDS Naturals, Sequences

CONSTANTS Courses,   \* courses of the gateway, 1..n; the first exists at the start
          Slots,     \* handlers under way at once
          MaxUser    \* handlers the user starts

NoCourse == 0
Flags == {"review", "artifact", "consent", "platform", "scan"}

VARIABLES
    server,  \* the job and the number of courses, as the gateway has them
    panels,       \* busy flags, the job shown, active course, its ?course= and the board shown
    calls,    \* the handler in each slot
    effect,   \* has the mount effect still to run for a changed refreshPlatform?
    user      \* handlers the user has started

panelVars == <<server, panels, calls, effect, user>>
-----------------------------------------------------------------------------
(* Requests: what they refresh, and the flag their refresh holds meanwhile. *)
Req(name) == [name |-> name, got |-> "pending"]
Holds(name) ==
    CASE name = "artifacts" -> {"artifact"}
      [] name = "reviews" -> {"review"}
      [] name \in {"platform", "platformBoard", "platformSubmissions"} -> {"platform"}
      [] OTHER -> {}

(* A refresh keeps its error to itself; a request of the handler itself, or *)
(* refreshLeaderboard and refreshClassroomSubmissions, ends the handler.    *)
Caught(name) == name \notin {"post", "job", "course", "leaderboard", "submissions"}

(* refreshPlatform awaits its ten lists, then the leaderboard of the course *)
(* it settled on, then the submissions.                                     *)
Follow(name) ==
    CASE name = "platform" -> {Req("platformBoard")}
      [] name = "platformBoard" -> {Req("platformSubmissions")}
      [] OTHER -> {}

Handler(flags, steps) == [flags |-> flags, steps |-> steps, course |-> NoCourse]
Idle == Handler({}, <<>>)
Await(names) == {Req(n) : n \in names}

(* The refreshes.                                                           *)
refreshReviews == Await({"reviews"})
refreshConsents == Await({"consents"})
refreshModels == Await({"models"})
refreshJobs == Await({"jobs"})
refreshArtifacts == Await({"artifacts"})
refreshLeaderboard == Await({"leaderboard"})
refreshClassroomSubmissions == Await({"submissions"})
refreshPlatform == Await({"platform"})
Refresh(requests) == Handler({}, <<requests>>)
post == Await({"post"})

(* The handlers of the panels.                                              *)
setReviewFilter == Refresh(refreshReviews)
openArtifactBlob == Handler({}, <<post>>)
alignPhotoscanArtifact == Handler({"artifact"}, <<post, refreshArtifacts>>)
recordDecision == Handler({"review"}, <<post>>)
uploadScanFiles == Handler({"scan"}, <<post, post>>)
runFixtureJob == Handler({}, <<Await({"job"}), refreshJobs, refreshArtifacts>>)
changeConsent ==
    Handler({"consent"}, <<post, post, refreshConsents \cup refreshJobs \cup refreshArtifacts
                                       \cup refreshPlatform>>)
shareFirstTelemetry == Handler({"consent"}, <<post, refreshArtifacts>>)
contributeActivePattern == Handler({"consent"}, <<post>>)
trainFromFirstTelemetry ==
    Handler({"consent"}, <<Await({"job"}), refreshJobs \cup refreshArtifacts>>)
publishFixtureCourse == Handler({"platform"}, <<Await({"course"}), refreshPlatform>>)
submitFixtureLeaderboardRun == Handler({"platform"}, <<post, refreshLeaderboard>>)
publishFixtureAssignment == Handler({"platform"}, <<post, refreshPlatform>>)
submitFixtureAssignment == Handler({"platform"}, <<post, refreshClassroomSubmissions>>)
reportFixtureModeration == Handler({"platform"}, <<post, post>>)
submitModelListing == Handler({"platform"}, <<post, refreshPlatform>>)
submitPolicyListing == Handler({"platform"}, <<post, refreshPlatform>>)
refreshVendorLinks ==
    {Handler({"platform"}, <<post, refreshPlatform>>),   \* queued through the worker
     Handler({"platform"}, <<post, post>>)}              \* sandbox offers, then the list
requestPrintQuoteLink == Handler({"platform"}, <<post>>)
recordMarketplaceUsage == Handler({"platform"}, <<post>>)
share == Handler({}, <<post>>)

PanelHandlers ==
    {setReviewFilter, Refresh(refreshModels), share, openArtifactBlob, alignPhotoscanArtifact, recordDecision,
     uploadScanFiles, runFixtureJob, changeConsent, shareFirstTelemetry, contributeActivePattern,
     trainFromFirstTelemetry, publishFixtureCourse, submitFixtureLeaderboardRun,
     publishFixtureAssignment, submitFixtureAssignment, reportFixtureModeration,
     submitModelListing, submitPolicyListing, requestPrintQuoteLink, recordMarketplaceUsage}
    \cup refreshVendorLinks
-----------------------------------------------------------------------------
PanelsInit ==
    /\ server = [job |-> "none", courses |-> 1]
    /\ panels = [busy |-> [f \in Flags |-> FALSE], job |-> "none", course |-> NoCourse,
                 url |-> NoCourse, board |-> NoCourse]
    /\ calls = [s \in Slots |-> Idle]
    /\ effect = TRUE
    /\ user = 0

FreeSlots == {s \in Slots : calls[s].steps = <<>>}
Slot == CHOOSE s \in FreeSlots : \A t \in FreeSlots : s <= t
Raise(busy, flags) == [f \in Flags |-> busy[f] \/ f \in flags]
Lower(busy, flags) == [f \in Flags |-> busy[f] /\ f \notin flags]

HoldsOf(step) == UNION {Holds(r.name) : r \in step}

(* A handler begins: its closure has the active course of this render.      *)
Run(h) ==
    /\ calls' = [calls EXCEPT ![Slot] = [h EXCEPT !.course = panels.course]]
    /\ panels' = [panels EXCEPT !.busy = Raise(@, h.flags \cup HoldsOf(Head(h.steps)))]

(* The user clicks: the panel's buttons are disabled while it is busy.      *)
Click(h) ==
    /\ user < MaxUser /\ FreeSlots # {}
    /\ \A f \in h.flags : ~panels.busy[f]
    /\ user' = user + 1
    /\ Run(h)
    /\ UNCHANGED <<server, effect>>

(* selectCourse: the address follows, the leaderboard is asked for, and the *)
(* changed course makes a new refreshPlatform, which the mount effect runs. *)
selectCourse(c) ==
    /\ user < MaxUser /\ FreeSlots # {} /\ c # panels.course
    /\ user' = user + 1
    /\ panels' = [panels EXCEPT !.course = c, !.url = c]
    /\ calls' = [calls EXCEPT ![Slot] = [Refresh(refreshLeaderboard) EXCEPT !.course = c]]
    /\ effect' = TRUE
    /\ UNCHANGED <<server>>

(* The mount effect: every list is refreshed, at the start and whenever     *)
(* refreshPlatform has changed (the refreshes of the account, the models,   *)
(* the consents and the evaluation hold no flag and are left out).          *)
mountEffect ==
    Refresh(refreshJobs \cup refreshArtifacts \cup refreshPlatform)
MountEffect ==
    /\ effect /\ FreeSlots # {}
    /\ effect' = FALSE
    /\ Run(mountEffect)
    /\ UNCHANGED <<server, user>>

(* The timer that runs while a job is shown as queued or running (one       *)
(* unanswered poll at a time).                                              *)
PollJobs ==
    /\ panels.job = "active" /\ FreeSlots # {}
    /\ \A s \in Slots : calls[s].steps # <<>> => Req("jobs") \notin Head(calls[s].steps)
    /\ Run(Refresh(refreshJobs \cup refreshArtifacts))
    /\ UNCHANGED <<server, effect, user>>
-----------------------------------------------------------------------------
(* The gateway answers a list of jobs with what it holds at that moment; a  *)
(* later answer may reach the page first.                                   *)
Serve(s) ==
    /\ calls[s].steps # <<>> /\ Req("jobs") \in Head(calls[s].steps)
    /\ calls' = [calls EXCEPT ![s].steps[1] =
                   (@ \ {Req("jobs")}) \cup {[name |-> "jobs", got |-> server.job]}]
    /\ UNCHANGED <<server, panels, effect, user>>

(* refreshPlatform: the course of the address, else that of the closure,    *)
(* else the first one.                                                      *)
Settled(course) ==
    IF panels.url # NoCourse THEN panels.url ELSE IF course # NoCourse THEN course ELSE 1

(* What an answer changes on the page.                                      *)
Applied(r, c) ==
    CASE r.name = "jobs" -> [panels EXCEPT !.job = r.got]
      [] r.name = "platform" -> [panels EXCEPT !.course = Settled(c)]
      [] r.name = "course" -> [panels EXCEPT !.course = server.courses + 1]
      [] r.name \in {"leaderboard", "platformBoard"} -> [panels EXCEPT !.board = c]
      [] OTHER -> panels

(* ... and what the refresh's catch leaves there.                           *)
Refused(r) ==
    CASE r.name = "jobs" -> [panels EXCEPT !.job = "none"]
      [] r.name \in {"platform", "platformBoard", "platformSubmissions"} ->
           [panels EXCEPT !.board = NoCourse]
      [] OTHER -> panels

(* The call after request r of its first step is settled: the requests that *)
(* follow it, the next step, or the finally of the handler.                 *)
Advance(call, r, follow) ==
    LET left == (Head(call.steps) \ {r}) \cup follow
    IN IF left # {} THEN [call EXCEPT !.steps = <<left>> \o Tail(@)]
       ELSE [call EXCEPT !.steps = Tail(@)]

(* Continue slot s with `next` over the page u: flags raised by the next    *)
(* step, lowered by what ended.                                             *)
Continue(s, r, u, next) ==
    LET ended == next.steps = <<>>
        released == (Holds(r.name) \ (IF ended THEN {} ELSE HoldsOf(Head(next.steps))))
                    \cup (IF ended THEN calls[s].flags ELSE {})
        raised == IF ended THEN {} ELSE HoldsOf(Head(next.steps))
    IN /\ panels' = [u EXCEPT !.busy = Raise(Lower(@, released), raised)]
       /\ calls' = [calls EXCEPT ![s] = IF ended THEN Idle ELSE next]
       /\ effect' = (effect \/ u.course # panels.course)

Served(r) == r.name = "jobs" => r.got # "pending"

AnswerOk(s) ==
    /\ calls[s].steps # <<>>
    /\ \E r \in Head(calls[s].steps) :
         /\ Served(r)
         /\ r.name = "course" => server.courses < Courses
         /\ server' = [job |-> IF r.name = "job" THEN "active" ELSE server.job,
                        courses |-> server.courses + (IF r.name = "course" THEN 1 ELSE 0)]
         /\ LET c == IF r.name = "platform" THEN Settled(calls[s].course) ELSE calls[s].course
            IN Continue(s, r, Applied(r, calls[s].course),
                        Advance([calls[s] EXCEPT !.course = c], r, Follow(r.name)))
    /\ UNCHANGED <<user>>

AnswerRefused(s) ==
    /\ calls[s].steps # <<>>
    /\ \E r \in Head(calls[s].steps) :
         /\ Continue(s, r, Refused(r),
                     IF Caught(r.name) THEN Advance(calls[s], r, {}) ELSE Idle)
    /\ UNCHANGED <<server, user>>

JobEnds ==
    /\ server.job = "active"
    /\ server' = [server EXCEPT !.job = "terminal"]
    /\ UNCHANGED <<panels, calls, effect, user>>

PanelsNext ==
    \/ \E h \in PanelHandlers : Click(h)
    \/ \E c \in 1..server.courses : selectCourse(c)
    \/ MountEffect \/ PollJobs \/ JobEnds
    \/ \E s \in Slots : Serve(s) \/ AnswerOk(s) \/ AnswerRefused(s)

(* The gateway answers, the timer fires, jobs end.                          *)
PanelsFairness ==
    /\ WF_panelVars(PollJobs) /\ WF_panelVars(JobEnds)
    /\ \A s \in Slots : WF_panelVars(Serve(s)) /\ WF_panelVars(AnswerOk(s) \/ AnswerRefused(s))

PanelsSpec == PanelsInit /\ [][PanelsNext]_panelVars /\ PanelsFairness
-----------------------------------------------------------------------------
(* A panel's buttons are never disabled for good: while a flag is up, some  *)
(* handler under way will lower it, through every error path and every      *)
(* refresh nested in another handler (App.tsx, the finally blocks).         *)
BusyMeansWork ==
    \A f \in Flags : panels.busy[f] =>
        \E s \in Slots : calls[s].steps # <<>>
                         /\ (f \in calls[s].flags \/ f \in HoldsOf(Head(calls[s].steps)))
=============================================================================
