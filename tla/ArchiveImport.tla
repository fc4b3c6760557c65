---------------------------- MODULE ArchiveImport ----------------------------
(***************************************************************************)
(* Importing a recorder archive from the studio's panel: inspect a         *)
(* directory on the desktop, prepare an upload plan, stage it at the       *)
(* gateway, let the desktop upload the files one by one, complete the      *)
(* materialization and admit it for the active model.  The three handlers  *)
(* (inspect, materialize, admit) run concurrently: each continues after an *)
(* await with what it captured when its button was pressed, while the user *)
(* types another path, selects another model, or replaces the directory.   *)
(* Any request to the gateway may be lost, and so may its answer after the *)
(* gateway has acted.                                                      *)
(*                                                                         *)
(* An archive is a content; Info is what an inspection or plan says of it  *)
(* (artifact, hashes, port, frame count), which two contents may share.    *)
(* The gateway's part is the outline of RecorderArchive.                   *)
(***************************************************************************)
EXTENDS Naturals, FiniteSets

CONSTANTS Folders, Contents,
          Info,          \* Info[c]: [art, hash, frames] of content c
          Files,         \* the files of an archive
          Candidates,
          HashOf,        \* HashOf[m]: contract hash of an admitted model
          MaxMoves,      \* replacements of a directory, bounded
          Absent

Answers == {"inspection", "plan", "receipt", "materialization", "admission"}

VARIABLES claims,      \* answers in which another release claims authority
          disk,        \* desktop: directory -> content, or Absent
          moves,
          verified,    \* contents an inspection of the desktop has reported
          objects,     \* object storage: the <<content, file>> stored
          rows,        \* gateway: artifact -> materialization row, or Absent
          admitted,    \* gateway: artifact -> model, or Absent
          path, inspection, materialization, admission, model,   \* panel
          hi, hm, ha   \* panel: the inspect, materialize and admit handlers

gateway == <<rows, admitted>>
panel == <<path, inspection, materialization, admission, model>>
impVars == <<claims, disk, moves, verified, objects, gateway, panel, hi, hm, ha>>

Recordings == {Info[c].art : c \in Contents}

ImpInit ==
  /\ claims \in {{}} \cup {{k} : k \in Answers}
  /\ disk \in [Folders -> Contents]
  /\ moves = 0 /\ verified = {} /\ objects = {}
  /\ rows = [a \in Recordings |-> Absent] /\ admitted = [a \in Recordings |-> Absent]
  /\ path \in Folders /\ model \in Candidates
  /\ inspection = Absent /\ materialization = Absent /\ admission = Absent
  /\ hi = Absent /\ hm = Absent /\ ha = Absent

----------------------------------------------------------------------------
(* The user and the file system.                                           *)

typePath ==
  /\ hi = Absent
  /\ path' \in Folders \ {path}
  /\ UNCHANGED <<claims, disk, moves, verified, objects, gateway, inspection, materialization,
                 admission, model, hi, hm, ha>>

changeModel ==
  /\ model' \in Candidates \ {model}
  /\ UNCHANGED <<claims, disk, moves, verified, objects, gateway, path, inspection, materialization,
                 admission, hi, hm, ha>>

ReplaceDirectory ==
  /\ moves < MaxMoves /\ moves' = moves + 1
  /\ \E d \in Folders, c \in Contents \cup {Absent} : c # disk[d] /\ disk' = [disk EXCEPT ![d] = c]
  /\ UNCHANGED <<claims, verified, objects, gateway, panel, hi, hm, ha>>

----------------------------------------------------------------------------
(* Inspection.                                                             *)

inspectArchive ==
  /\ hi = Absent
  /\ hi' = path
  /\ inspection' = Absent /\ materialization' = Absent /\ admission' = Absent
  /\ UNCHANGED <<claims, disk, moves, verified, objects, gateway, path, model, hm, ha>>

(* The parsers refuse an answer whose authority or privacy flags are not   *)
(* the frozen ones, and one that is about something else.                  *)
parseRecorderArchiveInspection == "inspection" \notin claims

inspectRecorderArchive ==
  /\ hi # Absent
  /\ hi' = Absent
  /\ IF disk[hi] # Absent /\ parseRecorderArchiveInspection
     THEN /\ inspection' = [dir |-> hi, content |-> disk[hi]]
          /\ verified' = verified \cup {disk[hi]}
          /\ path' = hi
     ELSE UNCHANGED <<inspection, verified, path>>
  /\ UNCHANGED <<claims, disk, moves, objects, gateway, materialization, admission, model, hm, ha>>

----------------------------------------------------------------------------
(* Materialization.                                                        *)

Step(pc) == hm' = [hm EXCEPT !.pc = pc]

Abort == hm' = Absent
HmUnchanged == <<claims, disk, moves, verified, path, inspection, admission, model, hi, ha>>

materializeArchive ==
  /\ hm = Absent /\ inspection # Absent
  /\ inspection.dir = path                    \* canMaterialize
  /\ hi = Absent
  /\ hm' = [pc |-> "prepare", dir |-> path, insp |-> inspection, plan |-> Absent, done |-> {}]
  /\ materialization' = Absent /\ admission' = Absent
  /\ UNCHANGED <<claims, disk, moves, verified, objects, gateway, path, inspection, model, hi, ha>>

\* Mutant: the plan is not compared with what was inspected.
PlanOfAnything(plan, insp) == Info[plan].art = Info[insp.content].art

PlanMatches(plan, insp) == Info[plan] = Info[insp.content]

parseRecorderUploadPlan == "plan" \notin claims

prepareRecorderArchiveUpload ==
  /\ hm # Absent /\ hm.pc = "prepare"
  /\ IF disk[hm.dir] = Absent THEN Abort
     ELSE IF parseRecorderUploadPlan /\ PlanMatches(disk[hm.dir], hm.insp)
          THEN hm' = [hm EXCEPT !.pc = "stage", !.plan = disk[hm.dir]]
          ELSE Abort
  /\ UNCHANGED <<HmUnchanged, objects, gateway, materialization>>

Row(plan) == rows[Info[plan].art]

parseRecorderMaterialization(row) ==
  "materialization" \notin claims /\ row.status \in {"staged", "materialized"}

(* What the client accepts as the answer of the staging request: a row     *)
(* still staged, with this plan.                                           *)
parseRecorderStageResponse(row, plan) ==
  parseRecorderMaterialization(row) /\ row.plan = plan /\ row.status = "staged"

(* The upload contracts handed to the desktop name the plan's files.       *)
validateRecorderObjectUploads(row, plan) == row.plan = plan

AfterStage(row) ==
  \/ /\ parseRecorderStageResponse(row, hm.plan) /\ validateRecorderObjectUploads(row, hm.plan)
     /\ Step("upload")
  \/ Abort                                             \* refused, or answer lost

stageRecorderArchive ==
  /\ hm # Absent /\ hm.pc = "stage"
  /\ \/ Abort /\ UNCHANGED rows                                  \* request lost
     \/ /\ Row(hm.plan) = Absent
        /\ rows' = [rows EXCEPT ![Info[hm.plan].art] = [plan |-> hm.plan, status |-> "staged"]]
        /\ AfterStage(rows'[Info[hm.plan].art])
     \/ /\ Row(hm.plan) # Absent
        /\ AfterStage(Row(hm.plan))
        /\ UNCHANGED rows
  /\ UNCHANGED <<HmUnchanged, objects, admitted, materialization>>

parseRecorderUploadReceipt(done) == "receipt" \notin claims /\ done = Files

(* The desktop plans the directory again and uploads a file only while its *)
(* bytes are those of the contract the studio handed over.                 *)
Planned(plan, dir) == disk[dir] = plan

uploadFile ==
  /\ hm # Absent /\ hm.pc = "upload"
  /\ \/ /\ Planned(hm.plan, hm.dir)
        /\ \E f \in Files \ hm.done :
             /\ objects' = objects \cup {<<disk[hm.dir], f>>}
             /\ IF hm.done \cup {f} # Files THEN hm' = [hm EXCEPT !.done = @ \cup {f}]
                ELSE IF parseRecorderUploadReceipt(hm.done \cup {f}) THEN Step("complete")
                ELSE Abort
     \/ Abort /\ UNCHANGED objects              \* a PUT fails, or the directory has changed
  /\ UNCHANGED <<HmUnchanged, gateway, materialization>>

Uploaded(plan) == \A f \in Files : <<plan, f>> \in objects

completeRecorderArchive ==
  /\ hm # Absent /\ hm.pc = "complete"
  /\ \/ Abort /\ UNCHANGED <<rows, materialization>>             \* request lost
     \/ /\ Uploaded(hm.plan)
        /\ rows' = [rows EXCEPT ![Info[hm.plan].art].status = "materialized"]
        /\ Abort
        /\ \/ parseRecorderMaterialization(rows'[Info[hm.plan].art]) /\ materialization' = hm.plan
           \/ UNCHANGED materialization                          \* refused, or answer lost
     \/ ~Uploaded(hm.plan) /\ Abort /\ UNCHANGED <<rows, materialization>>
  /\ UNCHANGED <<HmUnchanged, objects, admitted>>

----------------------------------------------------------------------------
(* Admission.                                                              *)

admitArchive ==
  /\ ha = Absent /\ materialization # Absent /\ admission = Absent      \* canAdmit
  /\ ha' = [plan |-> materialization, model |-> model]
  /\ admission' = Absent
  /\ UNCHANGED <<claims, disk, moves, verified, objects, gateway, path, inspection, materialization,
                 model, hi, hm>>

(* The gateway admits a materialized archive once, for a model of its      *)
(* contract; a repeated request gets the admission there is.               *)
Admissible(plan, m) ==
  /\ Row(plan).status = "materialized" /\ Row(plan).plan = plan
  /\ HashOf[m] = Info[plan].hash
  /\ admitted[Info[plan].art] \in {Absent, m}

parseRecorderAdmission(answer, m) == "admission" \notin claims /\ answer = m

admitRecorderArchive ==
  /\ ha # Absent
  /\ ha' = Absent
  /\ \/ UNCHANGED <<admitted, admission>>                         \* lost or refused
     \/ /\ Admissible(ha.plan, ha.model)
        /\ admitted' = [admitted EXCEPT ![Info[ha.plan].art] = ha.model]
        /\ \/ /\ parseRecorderAdmission(admitted'[Info[ha.plan].art], ha.model)
              /\ admission' = [plan |-> ha.plan, model |-> ha.model]
           \/ UNCHANGED admission                      \* refused, or answer lost
  /\ UNCHANGED <<claims, disk, moves, verified, objects, rows, path, inspection, materialization,
                 model, hi, hm>>

\* The steps of materializeArchive after the press of its button.
materialize ==
  prepareRecorderArchiveUpload \/ stageRecorderArchive \/ uploadFile \/ completeRecorderArchive

ImpNext ==
  \/ typePath \/ changeModel \/ ReplaceDirectory
  \/ inspectArchive \/ inspectRecorderArchive
  \/ materializeArchive \/ materialize
  \/ admitArchive \/ admitRecorderArchive

(* Handlers of the page and calls of the desktop run on; buttons need not  *)
(* be pressed.                                                             *)
ImpSpec == ImpInit /\ [][ImpNext]_impVars
        /\ WF_impVars(inspectRecorderArchive) /\ WF_impVars(admitRecorderArchive)
        /\ WF_impVars(materialize)

----------------------------------------------------------------------------
\* Types of the panel, the handlers and the gateway.
ImpTypeOK ==
  /\ disk \in [Folders -> Contents \cup {Absent}] /\ verified \subseteq Contents
  /\ objects \subseteq Contents \X Files
  /\ \A a \in Recordings : rows[a] # Absent =>
       rows[a].plan \in Contents /\ rows[a].status \in {"staged", "materialized"}
  /\ inspection # Absent => inspection.dir \in Folders /\ inspection.content \in Contents
  /\ hm # Absent => hm.pc \in {"prepare", "stage", "upload", "complete"} /\ hm.done \subseteq Files

(* Nothing becomes a row of the gateway that the user has not first seen   *)
(* verified: for every row the desktop has reported an archive of the same *)
(* artifact, hashes, port and frame count, although the directory may have *)
(* been replaced between the inspection, the plan and the upload.          *)
RowsWereVerified ==
  \A a \in Recordings : rows[a] # Absent => \E c \in verified : Info[c] = Info[rows[a].plan]

(* Object storage holds only files of a plan the gateway staged, and all   *)
(* of them once the row is materialized.                                   *)
OnlyPlannedUploaded ==
  /\ \A o \in objects : \E a \in Recordings : rows[a] # Absent /\ rows[a].plan = o[1]
  /\ \A a \in Recordings :
       (rows[a] # Absent /\ rows[a].status = "materialized") => Uploaded(rows[a].plan)

(* What the panel shows the gateway has: a materialization on display is a *)
(* materialized row with that very plan, and an admission on display is    *)
(* the gateway's, for a model of the archive's contract - whatever was     *)
(* inspected, selected or lost in between.  Nothing is shown from a        *)
(* release whose answer claims authority.                                  *)
DisplayBacked ==
  /\ inspection # Absent => "inspection" \notin claims
  /\ materialization # Absent =>
       claims \cap {"inspection", "plan", "receipt", "materialization"} = {}
  /\ admission # Absent => claims = {}
  /\ materialization # Absent =>
       /\ Row(materialization) # Absent
       /\ Row(materialization).status = "materialized"
       /\ Row(materialization).plan = materialization
  /\ admission # Absent =>
       /\ admitted[Info[admission.plan].art] = admission.model
       /\ HashOf[admission.model] = Info[admission.plan].hash
       /\ Row(admission.plan).status = "materialized"

(* The handlers under way.                                                 *)
Handling == [inspection |-> hi # Absent, materialization |-> hm # Absent, admission |-> ha # Absent]
=============================================================================
