----------------------------- MODULE StudioStage -----------------------------
(***************************************************************************)
(* What the Studio page shows and lets the user act on: the live bake       *)
(* handle, the scene, the core session, the store's artifact, report and    *)
(* contract, and the saved model the page is bound to (App.tsx, store.ts,   *)
(* wasm.ts).  Loading, patching and saving are asynchronous functions that  *)
(* write these one after the other, and nothing but the model panel's busy  *)
(* flag keeps two of them apart.                                            *)
(*                                                                         *)
(* A document is the number of the operation that produced it; its hash is  *)
(* the same number.  An action is the code between two awaits.              *)
(***************************************************************************)
EXTENDS Naturals, FiniteSets, Sequences

CONSTANT MaxOps   \* operations started, the page's first load included

Empty == 0
Ops == 1..MaxOps

VARIABLES
    stage,   \* bakeRef, the scene, sessionRef, the store, the binding, jogTotals, modelBusy
    bake,    \* the document of each bake handle that has not been disposed, by its operation
    alive,   \* the core sessions that have not been disposed, by operation, with their jog
    ops,     \* the operations under way and done
    overlap  \* has an operation started while another was under way? (for the properties)

stageVars == <<stage, bake, alive, ops, overlap>>

Unused == [kind |-> "none", at |-> "unused", doc |-> Empty, hash |-> Empty,
           sources |-> <<>>, busy |-> FALSE]
NoSession == [doc |-> Empty, live |-> FALSE, jog |-> 0]

(* The boot effect: a share link, then the fragment, then the demo.         *)
Boot == [kind |-> "load", at |-> "fetch", doc |-> 1, hash |-> Empty,
         sources |-> <<"share", "fragment", "demo">>, busy |-> FALSE]

StageInit ==
    /\ stage = [bake |-> Empty, scene |-> Empty, session |-> NoSession, contract |-> Empty,
                artifact |-> Empty, report |-> [doc |-> Empty, refused |-> FALSE],
                binding |-> Empty, jog |-> 0, busy |-> FALSE]
    /\ bake = [o \in {} |-> Empty]
    /\ alive = {}
    /\ ops = [o \in Ops |-> IF o = 1 THEN Boot ELSE Unused]
    /\ overlap = FALSE

UnderWay(o) == ops[o].at \notin {"unused", "done"}
Started == Cardinality({o \in Ops : ops[o].at # "unused"})
NextOp == Started + 1

Start(operation) ==
    /\ NextOp \in Ops
    /\ ops' = [ops EXCEPT ![NextOp] = operation]
    /\ overlap' = (overlap \/ \E o \in Ops : UnderWay(o))

Goto(o, at) == ops' = [ops EXCEPT ![o].at = at]
End(o, s) == /\ stage' = [s EXCEPT !.busy = @ /\ ~ops[o].busy]
             /\ Goto(o, "done")

(* useStudio.setLoaded: artifact, report and contract change together.      *)
setLoaded(s, doc, report) == [s EXCEPT !.artifact = doc, !.contract = doc, !.report = report]
Judged(doc) == {[doc |-> doc, refused |-> r] : r \in BOOLEAN}

(* selectContractReport keeps the gateway's report, which knows the catalog, *)
(* only when it is about this very contract.                                *)
selectContractReport(local, override) == IF override.doc = local.doc THEN override ELSE local

(* A live bake handle; replacing the page's handle disposes the old one.    *)
CoreBake(o, doc) == [h \in {o} |-> doc]

(* dispose of the session the reference names; the reference stays.         *)
Disposed(session) == [session EXCEPT !.live = FALSE]
-----------------------------------------------------------------------------
(* loadContract, in four parts.  Its callers await something first: the     *)
(* demo's text, a share, a generated, patched or edited model.              *)
loadDemo == Start([Unused EXCEPT !.kind = "load", !.at = "fetch", !.doc = NextOp])
             /\ UNCHANGED <<stage, bake, alive>>

runGenerate(registered) ==
    /\ Start([Unused EXCEPT !.kind = "load", !.at = "fetch", !.doc = NextOp,
                            !.hash = IF registered THEN NextOp ELSE Empty])
    /\ UNCHANGED <<stage, bake, alive>>

(* saveCodesignCandidate and editActiveModel: the gateway answers with a    *)
(* saved model, which is then loaded.                                       *)
ModelOperation == [Unused EXCEPT !.kind = "load", !.at = "fetch", !.doc = NextOp,
                                 !.hash = NextOp, !.busy = TRUE]
editActiveModel ==
    /\ ~stage.busy
    /\ Start(ModelOperation)
    /\ stage' = [stage EXCEPT !.busy = TRUE]
    /\ UNCHANGED <<bake, alive>>

saveCodesignCandidate ==
    /\ stage.contract # Empty
    /\ Start(ModelOperation)
    /\ stage' = [stage EXCEPT !.busy = TRUE]
    /\ UNCHANGED <<bake, alive>>

(* selectActiveModel loads a model the page already holds: no await before. *)
selectActiveModel ==
    /\ ~stage.busy
    /\ Start([ModelOperation EXCEPT !.at = "bake"])
    /\ stage' = [stage EXCEPT !.busy = TRUE, !.binding = Empty]
    /\ UNCHANGED <<bake, alive>>

(* An operation whose fetch or bake fails: the boot tries the next source,  *)
(* every other one ends and leaves the stage as it is.                      *)
GiveUp(o) ==
    IF ops[o].sources # <<>> /\ Tail(ops[o].sources) # <<>>
      THEN /\ ops' = [ops EXCEPT ![o].sources = Tail(@), ![o].at = "fetch"]
           /\ UNCHANGED stage
      ELSE End(o, stage)

Fetched(o) ==
    /\ ops[o].at = "fetch"
    /\ \/ /\ Goto(o, "bake")
          /\ stage' = [stage EXCEPT !.binding = Empty]
       \/ GiveUp(o)
    /\ UNCHANGED <<bake, alive, overlap>>

(* The bake is ready: it replaces the old one, the scene shows it, and the  *)
(* session of the old document is disposed and forgotten.                   *)
BakeReady(o) ==
    /\ ops[o].at = "bake"
    /\ \/ /\ bake' = CoreBake(o, ops[o].doc)
          /\ alive' = alive \ {stage.session.doc}
          /\ stage' = [stage EXCEPT !.bake = o, !.scene = ops[o].doc, !.session = NoSession,
                                    !.jog = 0]
          /\ Goto(o, "session")
       \/ GiveUp(o) /\ UNCHANGED <<bake, alive>>
    /\ UNCHANGED overlap

(* CoreSession.create: an archetype without a driver stays static.          *)
SessionReady(o) ==
    /\ ops[o].at = "session"
    /\ \/ /\ stage' = [stage EXCEPT !.session = [doc |-> ops[o].doc, live |-> TRUE, jog |-> 0]]
          /\ alive' = alive \cup {ops[o].doc}
       \/ stage' = [stage EXCEPT !.session = NoSession] /\ UNCHANGED alive
    /\ Goto(o, "validate")
    /\ UNCHANGED <<bake, overlap>>

(* The store is set with the report of the page or of the gateway (an edit  *)
(* may have been answered with the report of the document before it).       *)
Validated(o) ==
    /\ ops[o].at = "validate"
    /\ \E local \in Judged(ops[o].doc), override \in Judged(ops[o].doc) \cup Judged(stage.contract) :
         End(o, [setLoaded(stage, ops[o].doc, selectContractReport(local, override))
                   EXCEPT !.binding = ops[o].hash])
    /\ UNCHANGED <<bake, alive, overlap>>
-----------------------------------------------------------------------------
(* applyPatch: the live handle is patched in place before the first await,  *)
(* or throws; the session follows after the report.                         *)
applyPatch ==
    /\ stage.bake # Empty
    /\ \/ /\ Start([Unused EXCEPT !.kind = "patch", !.at = "patchValidate", !.doc = NextOp])
          /\ bake' = [bake EXCEPT ![stage.bake] = NextOp]
          /\ stage' = [stage EXCEPT !.binding = Empty, !.scene = NextOp]
       \/ /\ Start([Unused EXCEPT !.kind = "patch", !.at = "done"])
          /\ stage' = [stage EXCEPT !.binding = Empty]
          /\ UNCHANGED bake
    /\ UNCHANGED alive

PatchValidated(o) ==
    /\ ops[o].at = "patchValidate"
    /\ \E report \in Judged(ops[o].doc) :
         stage' = [setLoaded(stage, ops[o].doc, report) EXCEPT !.session = Disposed(@)]
    /\ alive' = alive \ {stage.session.doc}
    /\ Goto(o, "patchSession")
    /\ UNCHANGED <<bake, overlap>>

(* The jog offsets are applied again to the new session.                    *)
PatchSessionReady(o) ==
    /\ ops[o].at = "patchSession"
    /\ \/ /\ End(o, [stage EXCEPT !.session = [doc |-> ops[o].doc, live |-> TRUE,
                                               jog |-> stage.jog]])
          /\ alive' = alive \cup {ops[o].doc}
       \/ End(o, [stage EXCEPT !.session = NoSession]) /\ UNCHANGED alive
    /\ UNCHANGED <<bake, overlap>>

(* The teach pendant: offsets add up beside the session and survive it.     *)
jogDrag ==
    /\ stage.session.doc # Empty /\ stage.jog < 1
    /\ stage' = [stage EXCEPT !.jog = @ + 1,
                              !.session.jog = IF stage.session.live THEN stage.jog + 1 ELSE @]
    /\ UNCHANGED <<bake, alive, ops, overlap>>

clearJog ==
    /\ stage.jog > 0
    /\ stage' = [stage EXCEPT !.jog = 0, !.session.jog = IF stage.session.live THEN 0 ELSE @]
    /\ UNCHANGED <<bake, alive, ops, overlap>>

(* saveCurrentModel: the contract of this moment is sent; the answer binds  *)
(* the page to it, whatever the page shows by then.                         *)
saveCurrentModel ==
    /\ ~stage.busy /\ stage.contract # Empty
    /\ Start([Unused EXCEPT !.kind = "save", !.at = "save", !.doc = stage.contract,
                            !.hash = stage.contract, !.busy = TRUE])
    /\ stage' = [stage EXCEPT !.busy = TRUE]
    /\ UNCHANGED <<bake, alive>>

Saved(o) ==
    /\ ops[o].at = "save"
    /\ \/ End(o, [stage EXCEPT !.binding = ops[o].hash])
       \/ End(o, stage)
    /\ UNCHANGED <<bake, alive, overlap>>

(* A dropped file is validated first: an admitted one is loaded, the report *)
(* of a refused one is shown beside what the page has.                      *)
onDrop == Start([Unused EXCEPT !.kind = "load", !.at = "drop", !.doc = NextOp])
           /\ UNCHANGED <<stage, bake, alive>>

DropValidated(o) ==
    /\ ops[o].at = "drop"
    /\ \/ Goto(o, "bake") /\ stage' = [stage EXCEPT !.binding = Empty]
       \/ End(o, IF stage.artifact = Empty THEN stage
                 ELSE [stage EXCEPT !.report = [doc |-> ops[o].doc, refused |-> TRUE]])
    /\ UNCHANGED <<bake, alive, overlap>>

StageNext ==
    \/ loadDemo \/ (\E r \in BOOLEAN : runGenerate(r)) \/ editActiveModel
    \/ saveCodesignCandidate \/ selectActiveModel \/ applyPatch \/ saveCurrentModel \/ onDrop
    \/ jogDrag \/ clearJog
    \/ \E o \in Ops :
         \/ Fetched(o) \/ BakeReady(o) \/ SessionReady(o) \/ Validated(o)
         \/ PatchValidated(o) \/ PatchSessionReady(o) \/ Saved(o) \/ DropValidated(o)

StageSpec == StageInit /\ [][StageNext]_stageVars
-----------------------------------------------------------------------------
StageQuiet == \A o \in Ops : ~UnderWay(o)

(* Even when operations overlap, the handle a patch is applied to is never  *)
(* a disposed one, it is the only one, and the scene shows its document;    *)
(* the page's session, if it is live, is one of the live ones               *)
(* (loadContract, applyPatch).                                              *)
HandleIsCurrent ==
    /\ stage.bake # Empty => DOMAIN bake = {stage.bake} /\ stage.scene = bake[stage.bake]
    /\ stage.artifact = stage.contract
    /\ stage.session.live => stage.session.doc \in alive

(* Operations that do not overlap leave the stage whole, whatever failed on *)
(* the way: handle, scene, session and store show one document, its session *)
(* is the only live one and carries the jog offsets, the report is its own  *)
(* unless it refuses a dropped file, and the binding names it               *)
(* ("Load a contract end to end: bake handle + scene + session + report").  *)
StageWhole ==
    StageQuiet /\ ~overlap =>
        /\ stage.contract = stage.scene
        /\ stage.binding \in {Empty, stage.contract}
        /\ stage.report.doc # stage.contract => stage.report.refused
        /\ alive = (IF stage.session.live THEN {stage.contract} ELSE {})
        /\ stage.session.live => stage.session.jog = stage.jog
        /\ ~stage.busy

StageSafe == HandleIsCurrent /\ StageWhole
=============================================================================
