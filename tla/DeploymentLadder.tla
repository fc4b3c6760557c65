-------------------------- MODULE DeploymentLadder --------------------------
(***************************************************************************)
(* The deployment-ladder rehearsal: SITL, HITL, constrained and free       *)
(* operation, acknowledged one after the other.  The one session belongs   *)
(* to the desktop shell; the panel of the studio page drives it with       *)
(* commands that run in order on the shell's main thread.  The page may be *)
(* reloaded while a command is under way: the command runs, its answer is  *)
(* dropped.  The confirmation boxes stay open while a handler waits, and   *)
(* the model, the policies and the jobs the panel is given change freely.  *)
(*                                                                         *)
(* A stage is its index in the stage order; the confirmation sentence of a *)
(* stage is the stage it names.                                            *)
(***************************************************************************)
EXTENDS Naturals, Sequences

CONSTANTS Pool, Rigs,
          Policies,     \* policy artifacts: id, model, gate
          Jobs,         \* supervisor jobs: id, done, allow, command, reasons, rates
          MaxStarts,    \* starts, bounded
          MaxLoads, Nothing

VARIABLES session,   \* shell: the rehearsal, or Nothing
          faulty,    \* this desktop build claims authority in its statuses
          orders, response, load, starts,
          ladderUi,  \* panel state of the current page
          props,     \* what the page gives the panel: model, report, policies, jobs
          ticks      \* history: <<session, stage>> whose box the operator ticked

rehVars == <<session, faulty, orders, response, load, starts, ladderUi, props, ticks>>

Stages == 0..3                 \* sitl, hitl, constrained, free
Free == 3

BlankPanel == [status |-> Nothing, rig |-> Nothing, startOk |-> FALSE, stageOk |-> FALSE,
               call |-> Nothing]
Waiting == ladderUi.call # Nothing

----------------------------------------------------------------------------
(* The shell.                                                              *)

inactive_status == [state |-> "inactive", promoted |-> faulty]

status_for_session(s) ==
  [state |-> IF s.stage = Free THEN "rehearsal-complete" ELSE "rehearsing",
   id |-> s.id, ev |-> s.ev, stage |-> s.stage, promoted |-> faulty]

LadderStatus(s) == IF s = Nothing THEN inactive_status ELSE status_for_session(s)

Refusal == [state |-> "error"]

Respond(c, answer) == response' = IF c.load = load THEN answer ELSE response

validate_start_request(c) == c.ev.gate = "exportable" /\ c.ev.rig \in Rigs /\ c.confirm = 0

start(c) ==
  IF validate_start_request(c) /\ session = Nothing
  THEN /\ session' = [id |-> c.id, ev |-> c.ev, stage |-> 0]
       /\ Respond(c, LadderStatus(session'))
  ELSE Respond(c, Refusal) /\ UNCHANGED session

advance(c) ==
  IF /\ session # Nothing
     /\ c.id = session.id
     /\ session.stage < Free
     /\ c.from = session.stage /\ c.to = session.stage + 1
     /\ c.confirm = c.to
  THEN /\ session' = [session EXCEPT !.stage = @ + 1]
       /\ Respond(c, LadderStatus(session'))
  ELSE Respond(c, Refusal) /\ UNCHANGED session

reset(c) ==
  IF session # Nothing /\ c.id = session.id /\ c.confirm = "end"
  THEN session' = Nothing /\ Respond(c, LadderStatus(session'))
  ELSE Respond(c, Refusal) /\ UNCHANGED session

status(c) == Respond(c, LadderStatus(session)) /\ UNCHANGED session

LadderShell ==
  /\ orders # <<>>
  /\ orders' = Tail(orders)
  /\ LET c == Head(orders) IN
       \/ c.kind = "start" /\ start(c)
       \/ c.kind = "advance" /\ advance(c)
       \/ c.kind = "reset" /\ reset(c)
       \/ c.kind = "status" /\ status(c)
  /\ UNCHANGED <<faulty, load, starts, ladderUi, props, ticks>>

----------------------------------------------------------------------------
(* The panel.                                                              *)

(* The answer names no authority the rehearsal cannot have.  That its      *)
(* stages are a contiguous prefix is the meaning of the stage index.       *)
parseDeploymentLadderStatus(s) == s.state # "error" /\ ~s.promoted

isPassingSupervisorDecision(j) ==
  j.allow /\ j.command = "policy-advisory" /\ j.reasons = 0 /\ j.rates = <<50, 200>>

policy == {p \in props.policies : p.model = props.model /\ p.gate = "exportable"}
supervisorJob == {j \in props.jobs : j.done /\ isPassingSupervisorDecision(j)}

Issue(u, cmd) ==
  /\ ladderUi' = [u EXCEPT !.call = cmd]
  /\ orders' = Append(orders, cmd)
  /\ UNCHANGED <<session, faulty, response, load, props, ticks>>

refreshLadder == ~Waiting /\ Issue(ladderUi, [load |-> load, kind |-> "status"]) /\ UNCHANGED starts

AtRest == ladderUi.status # Nothing /\ ladderUi.status.state = "inactive"

startLadder ==
  /\ ~Waiting /\ AtRest /\ ladderUi.startOk
  /\ starts < MaxStarts /\ starts' = starts + 1
  /\ props.report = "admitted" /\ props.model # Nothing
  /\ \E p \in policy, j \in supervisorJob :
       Issue(ladderUi, [load |-> load, kind |-> "start", id |-> starts, confirm |-> 0,
                 ev |-> [rig |-> ladderUi.rig, model |-> props.model, policy |-> p.id,
                         gate |-> p.gate, job |-> j.id]])

nextDeploymentStage(s) == s + 1
confirmationForStage(s) == s

Rehearsing == ladderUi.status # Nothing /\ ladderUi.status.state = "rehearsing"

advanceLadder ==
  /\ ~Waiting /\ Rehearsing /\ ladderUi.stageOk
  /\ LET to == nextDeploymentStage(ladderUi.status.stage) IN
       Issue(ladderUi, [load |-> load, kind |-> "advance", id |-> ladderUi.status.id,
                 from |-> ladderUi.status.stage, to |-> to, confirm |-> confirmationForStage(to)])
  /\ UNCHANGED starts

resetLadder ==
  /\ ~Waiting /\ ladderUi.status # Nothing /\ ~AtRest
  /\ Issue(ladderUi, [load |-> load, kind |-> "reset", id |-> ladderUi.status.id,
                      confirm |-> "end"])
  /\ UNCHANGED starts

Settle(u) == ladderUi' = [u EXCEPT !.call = Nothing]

ladderReply ==
  IF parseDeploymentLadderStatus(response)
  THEN Settle([ladderUi EXCEPT !.status = response,
              !.rig = IF response.state = "inactive" THEN @ ELSE response.ev.rig])
  ELSE Settle(ladderUi)

startDeploymentLadder ==
  IF /\ parseDeploymentLadderStatus(response)
     /\ response.state = "rehearsing" /\ response.stage = 0
     /\ response.id = ladderUi.call.id /\ response.ev = ladderUi.call.ev
  THEN Settle([ladderUi EXCEPT !.status = response, !.startOk = FALSE])
  ELSE Settle(ladderUi)

advanceDeploymentLadder ==
  IF /\ parseDeploymentLadderStatus(response)
     /\ response.state # "inactive"
     /\ response.id = ladderUi.status.id /\ response.ev = ladderUi.status.ev
     /\ response.stage = ladderUi.call.to
  THEN Settle([ladderUi EXCEPT !.status = response, !.stageOk = FALSE])
  ELSE Settle(ladderUi)

resetDeploymentLadder ==
  IF parseDeploymentLadderStatus(response) /\ response.state = "inactive"
  THEN Settle([ladderUi EXCEPT !.status = response, !.stageOk = FALSE])
  ELSE Settle(ladderUi)

TakeAnswer ==
  /\ response # Nothing
  /\ response' = Nothing
  /\ \/ ladderUi.call.kind = "status" /\ ladderReply
     \/ ladderUi.call.kind = "start" /\ startDeploymentLadder
     \/ ladderUi.call.kind = "advance" /\ advanceDeploymentLadder
     \/ ladderUi.call.kind = "reset" /\ resetDeploymentLadder
  /\ UNCHANGED <<session, faulty, orders, load, starts, props, ticks>>

(* The rig is chosen, and a box ticked or cleared, while its control is on *)
(* the screen; only the rig's is closed while a handler waits.             *)
chooseRig ==
  /\ ~Waiting /\ AtRest
  /\ \E r \in Rigs : r # ladderUi.rig /\ ladderUi' = [ladderUi EXCEPT !.rig = r]
  /\ UNCHANGED <<session, faulty, orders, response, load, starts, props, ticks>>

tick ==
  /\ \/ AtRest /\ ladderUi' = [ladderUi EXCEPT !.startOk = ~@] /\ UNCHANGED ticks
     \/ /\ Rehearsing
        /\ ladderUi' = [ladderUi EXCEPT !.stageOk = ~@]
        /\ ticks' = IF ladderUi.stageOk THEN ticks
                    ELSE ticks \cup
                           {<<ladderUi.status.id, nextDeploymentStage(ladderUi.status.stage)>>}
  /\ UNCHANGED <<session, faulty, orders, response, load, starts, props>>

MountedPanel == [BlankPanel EXCEPT !.rig = CHOOSE r \in Rigs : TRUE,
                            !.call = [load |-> load', kind |-> "status"]]

LoadAgain ==
  /\ load < MaxLoads /\ load' = load + 1
  /\ response' = Nothing
  /\ ladderUi' = MountedPanel
  /\ orders' = Append(orders, ladderUi'.call)
  /\ UNCHANGED <<session, faulty, starts, props, ticks>>

(* The parent selects a model, loads a report, and lists artifacts, jobs.  *)
parentChanges ==
  /\ \/ \E m \in Pool : m # props.model /\ props' = [props EXCEPT !.model = m]
     \/ \E p \in Policies \ props.policies : props' = [props EXCEPT !.policies = @ \cup {p}]
     \/ \E j \in Jobs \ props.jobs : props' = [props EXCEPT !.jobs = @ \cup {j}]
     \/ props' = [props EXCEPT !.report = IF @ = "admitted" THEN "rejected" ELSE "admitted"]
  /\ UNCHANGED <<session, faulty, orders, response, load, starts, ladderUi, ticks>>

RehInit ==
  /\ session = Nothing /\ faulty \in BOOLEAN
  /\ response = Nothing /\ load = 0 /\ starts = 0 /\ ticks = {}
  /\ ladderUi = [BlankPanel EXCEPT !.rig = CHOOSE r \in Rigs : TRUE,
                                   !.call = [load |-> 0, kind |-> "status"]]
  /\ orders = <<ladderUi.call>>
  /\ props = [model |-> Nothing, report |-> "rejected", policies |-> {}, jobs |-> {}]

RehNext ==
  \/ LadderShell \/ TakeAnswer \/ LoadAgain
  \/ refreshLadder \/ startLadder \/ advanceLadder \/ resetLadder
  \/ chooseRig \/ tick \/ parentChanges

(* The shell and the page keep handling what they were sent.               *)
RehSpec == RehInit /\ [][RehNext]_rehVars /\ WF_rehVars(LadderShell) /\ WF_rehVars(TakeAnswer)

----------------------------------------------------------------------------
\* Types of the session, the panel and the queue of commands.
RehTypeOK ==
  /\ session # Nothing => session.stage \in Stages /\ session.id \in 0..MaxStarts
  /\ ladderUi.startOk \in BOOLEAN /\ ladderUi.stageOk \in BOOLEAN /\ ladderUi.rig \in Rigs
  /\ starts \in 0..MaxStarts /\ load \in 0..MaxLoads /\ Len(orders) <= MaxLoads + 1
  /\ ticks \subseteq (0..MaxStarts) \X Stages
  /\ response # Nothing => Waiting

(* No stage is reached on an old confirmation: for every stage a session   *)
(* has acknowledged past SITL the operator ticked the box of that stage    *)
(* in that session.  Boxes can be ticked while a transition is under way.  *)
EveryStageConfirmed ==
  session # Nothing => \A k \in 1..session.stage : <<session.id, k>> \in ticks

(* The session in the shell was started from a policy of its own model     *)
(* that is exportable and from a passing supervisor job, whatever the page *)
(* selected since.                                                         *)
EvidenceBound ==
  session # Nothing =>
    /\ \E p \in Policies : /\ p.id = session.ev.policy /\ p.model = session.ev.model
                           /\ p.gate = "exportable"
    /\ \E j \in Jobs : j.id = session.ev.job /\ isPassingSupervisorDecision(j)

(* With nothing under way, the panel shows the session the shell has, or   *)
(* nothing: after reloads, refused commands and answers that were dropped. *)
LadderInStep ==
  orders = <<>> /\ response = Nothing /\ ~Waiting /\ ladderUi.status # Nothing =>
    ladderUi.status = LadderStatus(session)
=============================================================================
