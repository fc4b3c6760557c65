--------------------------- MODULE PolicyPlayback ---------------------------
(***************************************************************************)
(* Playing a trained policy in the Studio: three actors that only exchange  *)
(* messages.  The core session worker (session.worker.ts) owns the motion   *)
(* core and answers a FIFO of requests; its facade on the page              *)
(* (WorkerCoreSession, wasm.ts) keeps at most one step outstanding and sums *)
(* up the time that passes meanwhile; the controller (policyRuntime.ts)     *)
(* asks for an observation, runs the ONNX network and offers its action to  *)
(* the render loop (App.tsx), which steps the session on every frame.       *)
(*                                                                         *)
(* A promise continuation runs in the task that settles it, so an action    *)
(* is one task of the page: a frame, one message, one timer, one answer of  *)
(* ONNX Runtime.  An action is the policy's ("policy"), zero, or the sticks *)
(* of a user who drives by hand.  Time is counted in frames.                *)
(***************************************************************************)
EXTENDS Naturals, Sequences, FiniteSets

CONSTANTS
    Controllers,  \* the controllers ever created, 1..n in the order of creation
    Targets,      \* waypoints of the policy's task
    Duration,     \* frames a playback lasts (controller.durationS)
    Period,       \* frames between inferences (1 / rateHz)
    MaxFrames, MaxSessions, MaxFaults   \* bounds of the exploration

Nobody == 0
Inputs == {"zero", "policy", "sticks"}

VARIABLES
    facade,    \* the page's facade: mode, message queues, the pending step and observations
    core,      \* the motion core: time asked for, advanced and lost, the last input it took
    ctl,       \* every controller and where its asynchronous chain stands
    loop,      \* the render loop's view: playing controller, elapsed frames, driving, and
               \* whether the last playback ended on a frame that sent a zero step
    count      \* frames, sessions and faults so far

playVars == <<facade, core, ctl, loop, count>>

NoStep == [dt |-> 0, input |-> "zero"]
Fresh(mode) ==
    [mode |-> mode, inbox |-> <<>>, outbox |-> <<>>, stepPending |-> FALSE,
     queued |-> NoStep, awaiting |-> {}, nextId |-> 1]
NotCreated == [st |-> "unused", at |-> "idle", id |-> Nobody, failure |-> FALSE, released |-> FALSE,
               target |-> 1, completed |-> 0, input |-> "zero", next |-> 0, source |-> 0,
               reached |-> FALSE]

PlayInit ==
    /\ facade = Fresh("none")
    /\ core = [asked |-> 0, advanced |-> 0, lost |-> 0, last |-> "zero"]
    /\ ctl = [c \in Controllers |-> NotCreated]
    /\ loop = [playing |-> Nobody, elapsed |-> 0, driving |-> FALSE, zeroed |-> FALSE]
    /\ count = [frames |-> 0, sessions |-> 0, faults |-> 0]

Live == facade.mode \in {"worker", "local"}
Fault == count.faults < MaxFaults
-----------------------------------------------------------------------------
(* The page's facade of the session.                                        *)
Post(s, message) == [s EXCEPT !.inbox = Append(@, message)]

(* As dispatchStep, but a step that comes while one is outstanding replaces *)
(* the queued one and its time.                                             *)
DispatchStepOverwrites(s, dt, input) ==
    IF s.stepPending
      THEN [s EXCEPT !.queued = [dt |-> dt, input |-> input]]
      ELSE Post([s EXCEPT !.stepPending = TRUE], [type |-> "step", dt |-> dt, input |-> input])

(* dispatchStep: one step outstanding; the time of the others adds up and   *)
(* the newest input wins.                                                   *)
DispatchStep(s, dt, input) ==
    IF s.stepPending
      THEN [s EXCEPT !.queued = [dt |-> @.dt + dt, input |-> input]]
      ELSE Post([s EXCEPT !.stepPending = TRUE], [type |-> "step", dt |-> dt, input |-> input])

(* policySnapshot registers the request, arms its two-second timer, posts.  *)
RequestSnapshot(s) ==
    Post([s EXCEPT !.awaiting = @ \cup {s.nextId}, !.nextId = @ + 1],
         [type |-> "policySnapshot", id |-> s.nextId])

(* A worker's answer to the outstanding step frees the slot; the time that  *)
(* queued up goes out at once.  An error frees it and sends nothing.        *)
Stepped(s) ==
    LET free == [s EXCEPT !.stepPending = FALSE]
    IN IF s.queued.dt > 0
         THEN DispatchStep([free EXCEPT !.queued = NoStep], s.queued.dt, s.queued.input)
         ELSE free
StepFailed(s) == [s EXCEPT !.stepPending = FALSE]
-----------------------------------------------------------------------------
(* The controller: pure steps of its chain, on its own record.              *)
Zero(k) == [k EXCEPT !.input = "zero"]

(* The chain's finally: a controller disposed meanwhile frees its runtime.  *)
SettleChain(k) ==
    [k EXCEPT !.at = "idle", !.id = Nobody, !.released = @ \/ k.st = "disposed"]

(* The chain's catch: an error zeroes the command and is kept as the failure. *)
Reject(k) ==
    SettleChain(IF k.st = "disposed" THEN k ELSE [Zero(k) EXCEPT !.failure = TRUE])

(* dispose: the runtime is released here only when no chain is under way.   *)
Dispose(k) ==
    IF k.st # "live" THEN k
    ELSE [Zero(k) EXCEPT !.st = "disposed", !.released = @ \/ k.at = "idle"]

(* A chain's end in create(): an error releases the runtime at once.        *)
Finish(k) == IF k.st = "creating" THEN [SettleChain(k) EXCEPT !.at = "created"] ELSE SettleChain(k)
Fail(k) ==
    IF k.st = "creating"
      THEN [SettleChain(k) EXCEPT !.st = "refusing", !.released = TRUE]
      ELSE Reject(k)

(* processSnapshot up to its next await: a reached waypoint moves on to the *)
(* next target and asks for a fresh observation of it, the last one ends    *)
(* the task, an unreached one starts an inference.                          *)
ProcessSnapshot(k, reached) ==
    IF k.st = "disposed" THEN SettleChain(k)
    ELSE IF ~reached THEN [k EXCEPT !.at = "run", !.id = Nobody]
    ELSE IF k.completed + 1 >= Targets
      THEN Finish([Zero(k) EXCEPT !.completed = @ + 1])
      ELSE [k EXCEPT !.completed = @ + 1, !.target = @ + 1, !.at = "ask", !.id = Nobody]

(* create() verifies the artifact and loads the runtime between its first    *)
(* observation and the first use of it.                                     *)
OnSnapshot(k, reached) ==
    IF k.st = "creating" /\ k.completed = 0 /\ k.at # "prep"
      THEN [k EXCEPT !.at = "prep", !.id = Nobody, !.reached = reached]
      ELSE ProcessSnapshot(k, reached)

(* Asking the chain's source: a disposed session rejects, a worker session   *)
(* answers by message, a local one in a continuation of this task.          *)
Ask(c, k, s) ==
    IF k.source # count.sessions \/ s.mode \notin {"worker", "local"}
      THEN /\ facade' = s
           /\ ctl' = [ctl EXCEPT ![c] = Fail(k)]
    ELSE IF s.mode = "local"
      THEN /\ facade' = s
           /\ ctl' = [ctl EXCEPT ![c] = [k EXCEPT !.at = "local"]]
      ELSE /\ facade' = RequestSnapshot(s)
           /\ ctl' = [ctl EXCEPT ![c] = [k EXCEPT !.at = "snap", !.id = s.nextId]]

(* Where a chain's continuation goes on: it may have to ask again.          *)
GoOn(c, k, s) ==
    IF k.at = "ask" THEN Ask(c, k, s) ELSE facade' = s /\ ctl' = [ctl EXCEPT ![c] = k]
-----------------------------------------------------------------------------
(* Sessions.  CoreSession.create prefers a worker and falls back to the     *)
(* page; loading a contract disposes the playback and drops the reference,  *)
(* applying a patch leaves both and replaces the session when it is ready.  *)
RejectAwaiting(k) == IF k.at = "snap" THEN Fail(k) ELSE k

ReplaceSession(mode) ==
    /\ count.sessions < MaxSessions
    /\ count' = [count EXCEPT !.sessions = @ + 1]
    /\ \E worker \in BOOLEAN :
          facade' = IF worker THEN Post(Fresh(mode), [type |-> "create"])
                     ELSE Fresh("fallback")
    /\ core' = [asked |-> 0, advanced |-> 0, lost |-> 0, last |-> "zero"]

LoadContract ==
    /\ facade.mode \in {"none", "worker", "local"}
    /\ ReplaceSession("loading")
    /\ ctl' = [c \in Controllers |->
                 RejectAwaiting(IF c = loop.playing THEN Dispose(ctl[c]) ELSE ctl[c])]
    /\ loop' = [loop EXCEPT !.playing = Nobody, !.zeroed = FALSE]

ApplyPatch ==
    /\ Live
    /\ ReplaceSession("patching")
    /\ ctl' = [c \in Controllers |-> RejectAwaiting(ctl[c])]
    /\ loop' = [loop EXCEPT !.zeroed = FALSE]

(* The session worker: one request at a time, in order.                     *)
WorkerAnswer(message, answer) ==
    /\ facade.inbox # <<>> /\ Head(facade.inbox).type = message
    /\ facade' = [facade EXCEPT !.inbox = Tail(@), !.outbox = Append(@, answer)]
    /\ UNCHANGED ctl

WorkerCreates ==
    /\ \/ WorkerAnswer("create", [type |-> "created"]) /\ UNCHANGED count
       \/ /\ Fault /\ WorkerAnswer("create", [type |-> "error"])
          /\ count' = [count EXCEPT !.faults = @ + 1]
    /\ UNCHANGED <<core, loop>>

WorkerSteps ==
    LET step == Head(facade.inbox) IN
    \/ /\ WorkerAnswer("step", [type |-> "stepped"])
       /\ core' = [core EXCEPT !.advanced = @ + step.dt, !.last = step.input]
       /\ UNCHANGED <<count, loop>>
    \/ /\ Fault /\ WorkerAnswer("step", [type |-> "error"])
       /\ core' = [core EXCEPT !.lost = @ + step.dt]
       /\ loop' = [loop EXCEPT !.zeroed = FALSE]
       /\ count' = [count EXCEPT !.faults = @ + 1]

WorkerObserves ==
    /\ UNCHANGED <<core, loop>>
    /\ \/ /\ \E reached \in BOOLEAN :
               WorkerAnswer("policySnapshot", [type |-> "policySnapshot",
                                               id |-> Head(facade.inbox).id, reached |-> reached])
          /\ UNCHANGED count
       \/ /\ Fault
          /\ WorkerAnswer("policySnapshot",
                          [type |-> "policySnapshotError", id |-> Head(facade.inbox).id])
          /\ count' = [count EXCEPT !.faults = @ + 1]

(* The page takes the oldest answer of the worker.                          *)
Received == [facade EXCEPT !.outbox = Tail(@)]
Chain(id) == CHOOSE c \in Controllers : ctl[c].at = "snap" /\ ctl[c].id = id

ReceiveCreation ==
    /\ facade.mode \in {"loading", "patching"} /\ facade.outbox # <<>>
    /\ facade' = IF Head(facade.outbox).type = "created"
                    THEN [Received EXCEPT !.mode = "worker"]
                    ELSE Fresh("fallback")
    /\ UNCHANGED <<core, ctl, loop, count>>

(* LocalCoreSession.create: a contract without a driver leaves no session.  *)
CreateLocal ==
    /\ facade.mode = "fallback"
    /\ \/ facade' = Fresh("local") /\ UNCHANGED count
       \/ Fault /\ facade' = Fresh("none") /\ count' = [count EXCEPT !.faults = @ + 1]
    /\ UNCHANGED <<core, ctl, loop>>

HandleResponse ==
    /\ facade.mode = "worker" /\ facade.outbox # <<>>
    /\ LET message == Head(facade.outbox) IN
       CASE message.type = "stepped" -> facade' = Stepped(Received) /\ UNCHANGED ctl
         [] message.type = "error" -> facade' = StepFailed(Received) /\ UNCHANGED ctl
         [] OTHER ->
              LET c == Chain(message.id)
                  s == [Received EXCEPT !.awaiting = @ \ {message.id}]
              IN IF message.id \notin facade.awaiting THEN facade' = Received /\ UNCHANGED ctl
                 ELSE IF message.type = "policySnapshot"
                   THEN GoOn(c, OnSnapshot(ctl[c], message.reached), s)
                   ELSE facade' = s /\ ctl' = [ctl EXCEPT ![c] = Fail(@)]
    /\ UNCHANGED <<core, loop, count>>

SnapshotTimesOut ==
    /\ \E id \in facade.awaiting :
         /\ facade' = [facade EXCEPT !.awaiting = @ \ {id}]
         /\ ctl' = [ctl EXCEPT ![Chain(id)] = Fail(@)]
    /\ UNCHANGED <<core, loop, count>>

LocalSnapshot(c) ==
    /\ ctl[c].at = "local"
    /\ \E reached \in BOOLEAN : GoOn(c, OnSnapshot(ctl[c], reached), facade)
    /\ UNCHANGED <<core, loop, count>>

(* infer: the answer of ONNX Runtime is checked, then stored; it is stored   *)
(* even in a controller disposed while the network ran.                     *)
InferenceEnds(c) ==
    /\ ctl[c].at = "run"
    /\ \/ ctl' = [ctl EXCEPT ![c] = Finish([@ EXCEPT !.input = "policy"])] /\ UNCHANGED count
       \/ /\ Fault
          /\ ctl' = [ctl EXCEPT ![c] = Fail(@)]
          /\ count' = [count EXCEPT !.faults = @ + 1]
    /\ UNCHANGED <<facade, core, loop>>
-----------------------------------------------------------------------------
(* startPolicyPlayback: the old playback is disposed, a controller is       *)
(* created on the session of that moment and takes over only if that is     *)
(* still the session when its first inference has ended.                    *)
StartPlayback(c) ==
    /\ facade.mode # "none" /\ facade.mode # "loading" /\ facade.mode # "fallback"
    /\ ctl[c].st = "unused" /\ \A d \in Controllers : d < c => ctl[d].st # "unused"
    /\ loop' = [loop EXCEPT !.playing = Nobody]
    /\ LET begun == [NotCreated EXCEPT !.st = "creating", !.source = count.sessions]
           others == [d \in Controllers |-> IF d = loop.playing THEN Dispose(ctl[d]) ELSE ctl[d]]
       IN IF ~Live
            THEN facade' = facade /\ ctl' = [others EXCEPT ![c] = Fail(begun)]
            ELSE IF facade.mode = "local"
            THEN facade' = facade /\ ctl' = [others EXCEPT ![c] = [begun EXCEPT !.at = "local"]]
            ELSE /\ facade' = RequestSnapshot(facade)
                 /\ ctl' = [others EXCEPT ![c] = [begun EXCEPT !.at = "snap", !.id = facade.nextId]]
    /\ UNCHANGED <<core, count>>

Prepared(c) ==
    /\ ctl[c].at = "prep"
    /\ \/ GoOn(c, ProcessSnapshot(ctl[c], ctl[c].reached), facade) /\ UNCHANGED count
       \/ /\ Fault /\ count' = [count EXCEPT !.faults = @ + 1]
          /\ ctl' = [ctl EXCEPT ![c] = Fail(@)] /\ UNCHANGED facade
    /\ UNCHANGED <<core, loop>>

(* The refusal reaches the page once the runtime is released.               *)
ReportRefusal(c) ==
    /\ ctl[c].st = "refusing"
    /\ ctl' = [ctl EXCEPT ![c].st = "refused"]
    /\ loop' = [loop EXCEPT !.driving = FALSE]
    /\ UNCHANGED <<facade, core, count>>

TakeOver(c) ==
    /\ ctl[c].at = "created"
    /\ LET made == [ctl[c] EXCEPT !.st = "live", !.at = "idle", !.next = Period]
           current == ctl[c].source = count.sessions /\ Live
       IN /\ ctl' = [ctl EXCEPT ![c] = IF current THEN made ELSE Dispose(made)]
          /\ loop' = IF current
                       THEN [playing |-> c, elapsed |-> 0, driving |-> TRUE, zeroed |-> FALSE]
                     ELSE [loop EXCEPT !.driving = FALSE]
    /\ UNCHANGED <<facade, core, count>>

(* The user's own controls: drive by hand, or stop driving.                 *)
SetDriving(on) ==
    /\ loop.driving # on
    /\ loop' = [loop EXCEPT !.driving = on, !.zeroed = @ /\ ~on]
    /\ UNCHANGED <<facade, core, ctl, count>>

(* schedule: does the controller ask for an observation at this frame?      *)
Schedules(k, elapsed) ==
    k.at = "idle" /\ ~k.failure /\ k.completed < Targets /\ elapsed >= k.next

Schedule(k, elapsed) ==
    [k EXCEPT !.next = elapsed + Period, !.source = count.sessions,
              !.at = CASE facade.mode = "worker" -> "snap"
                       [] facade.mode = "local" -> "local"
                       [] OTHER -> "rejected",
              !.id = IF facade.mode = "worker" THEN facade.nextId ELSE Nobody]

(* One frame of the render loop while driving.  A paused frame passes no    *)
(* time.  The controller is scheduled first, its command read next; the     *)
(* playback ends on a failure or at its duration, and the session is        *)
(* stepped last.  In the window of a patch the reference still names the    *)
(* disposed session: stepping it does nothing and observing it rejects,     *)
(* which the controller learns when the frame is over.                      *)
Frame(dt) ==
    LET c == loop.playing
        elapsed == loop.elapsed + dt
        asks == c # Nobody /\ Schedules(ctl[c], elapsed)
        over == c # Nobody /\ (ctl[c].failure \/ elapsed >= Duration)
        input == IF c = Nobody THEN "sticks" ELSE IF over THEN "zero" ELSE ctl[c].input
        observed == IF asks /\ facade.mode = "worker" THEN RequestSnapshot(facade) ELSE facade
        begun == IF asks THEN Schedule(ctl[c], elapsed) ELSE ctl[c]
        ended == IF over THEN Dispose(begun) ELSE begun
    IN /\ loop.driving /\ facade.mode \in {"worker", "local", "patching"}
       /\ count.frames < MaxFrames
       /\ count' = [count EXCEPT !.frames = @ + 1]
       /\ facade' = IF dt > 0 /\ facade.mode = "worker"
                       THEN DispatchStep(observed, dt, input) ELSE observed
       /\ core' = [core EXCEPT !.asked = @ + (IF Live THEN dt ELSE 0),
                               !.advanced = @ + (IF facade.mode = "local" THEN dt ELSE 0),
                               !.last = IF dt > 0 /\ facade.mode = "local" THEN input ELSE @]
       /\ ctl' = IF c = Nobody THEN ctl
                  ELSE [ctl EXCEPT ![c] = IF ended.at = "rejected" THEN Reject(ended) ELSE ended]
       /\ loop' = IF c = Nobody THEN loop
                   ELSE IF over THEN [playing |-> Nobody, elapsed |-> 0, driving |-> FALSE,
                                      zeroed |-> dt > 0 /\ Live]
                   ELSE [loop EXCEPT !.elapsed = elapsed]

PlayNext ==
    \/ LoadContract \/ ApplyPatch \/ CreateLocal
    \/ WorkerCreates \/ WorkerSteps \/ WorkerObserves
    \/ ReceiveCreation \/ HandleResponse \/ SnapshotTimesOut
    \/ \E c \in Controllers :
         \/ StartPlayback(c) \/ Prepared(c) \/ TakeOver(c) \/ ReportRefusal(c)
         \/ LocalSnapshot(c) \/ InferenceEnds(c)
    \/ \E on \in BOOLEAN : SetDriving(on)
    \/ \E dt \in 0..1 : Frame(dt)

\* The next step of a controller's chain of promises.
Promises(c) == LocalSnapshot(c) \/ InferenceEnds(c) \/ Prepared(c) \/ TakeOver(c) \/ ReportRefusal(c)

\* Observations are timed, and ONNX Runtime answers.
PlayFairness == WF_playVars(SnapshotTimesOut) /\ \A c \in Controllers : WF_playVars(Promises(c))

PlaySpec == PlayInit /\ [][PlayNext]_playVars /\ PlayFairness
-----------------------------------------------------------------------------
PlayTypeOK ==
    /\ facade.mode \in {"none", "loading", "patching", "fallback", "worker", "local"}
    /\ facade.queued.input \in Inputs /\ facade.awaiting \subseteq 1..facade.nextId
    /\ core.last \in Inputs /\ loop.playing \in Controllers \cup {Nobody}
    /\ \A c \in Controllers :
         /\ ctl[c].st \in {"unused", "creating", "live", "disposed", "refusing", "refused"}
         /\ ctl[c].at \in {"idle", "snap", "local", "prep", "run", "created"}

(* No second of motion is lost, doubled or run twice: the time the render   *)
(* loop asked of the worker session is what the core advanced, what failed  *)
(* with an error, what is in its queue and what the page holds back; and    *)
(* the page believes a step is outstanding exactly when one is              *)
(* (wasm.ts dispatchStep, handleResponse).                                  *)
Queued(q, types) == {i \in DOMAIN q : q[i].type \in types}
ClockConserved ==
    facade.mode = "worker" =>
        LET steps == Queued(facade.inbox, {"step"})
            answers == Queued(facade.outbox, {"stepped", "error"})
        IN /\ Cardinality(steps) + Cardinality(answers) = (IF facade.stepPending THEN 1 ELSE 0)
           /\ core.asked = core.advanced + core.lost + facade.queued.dt
                + (IF steps = {} THEN 0 ELSE facade.inbox[CHOOSE i \in steps : TRUE].dt)

(* Every chain that waits for an observation has a request the page still   *)
(* tracks, with its timer, and no request outlives its chain: an answer     *)
(* after the timeout, a disposed session or a replaced one leaves nobody    *)
(* waiting for ever (wasm.ts policySnapshot, handleResponse, dispose).      *)
ObservationsTracked ==
    /\ facade.awaiting = {ctl[c].id : c \in {d \in Controllers : ctl[d].at = "snap"}}
    /\ \A c, d \in Controllers :
          ctl[c].at = "snap" /\ ctl[d].at = "snap" /\ ctl[c].id = ctl[d].id => c = d

(* The ONNX session is released exactly when its controller is disposed (or *)
(* refused) and no inference of it is under way: never under a running      *)
(* network, never forgotten (policyRuntime.ts dispose, releaseRuntime).     *)
RuntimeReleasedWhenQuiet ==
    \A c \in Controllers :
        ctl[c].released <=> \/ ctl[c].st = "disposed" /\ ctl[c].at = "idle"
                           \/ ctl[c].st \in {"refusing", "refused"}

(* Once a playback has ended on a frame that passed time, the last command  *)
(* the core takes is zero, whatever steps were still queued with a policy   *)
(* action when it ended: "any error zeros commands and stops playback"      *)
(* (docs/systems/learning-engine.md:420).  It is not so once a step has     *)
(* failed: the error leaves queuedInput in place, and the stale command     *)
(* follows the zero step (wasm.ts handleResponse).                          *)
EndedMeansZero ==
    loop.zeroed /\ core.lost = 0 /\ ~facade.stepPending /\ Live
        => core.last = "zero" /\ facade.queued.dt = 0

(* A policy action reaches the session only from a controller that is live  *)
(* and has not failed: a late answer stored in a disposed controller is     *)
(* never played (App.tsx onFrame).                                          *)
OnlyLiveControllerPlays ==
    loop.playing # Nobody => ctl[loop.playing].st = "live" /\ (ctl[loop.playing].failure
                             => ctl[loop.playing].input = "zero")

PlaybackSafe == ClockConserved /\ ObservationsTracked /\ RuntimeReleasedWhenQuiet
                /\ EndedMeansZero /\ OnlyLiveControllerPlays

(* A controller whose chain of promises has not ended.                      *)
Chained(c) == ctl[c].at # "idle"
=============================================================================
