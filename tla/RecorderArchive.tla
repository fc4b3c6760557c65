-------------------------- MODULE RecorderArchive --------------------------
(***************************************************************************)
(* A recorder archive on the gateway: its upload plan is staged as object  *)
(* blobs and one materialization row, the desktop uploads the files, a     *)
(* completion request verifies the objects one after the other and binds   *)
(* manifest and receipt to the plan, and an admission request streams the  *)
(* archive through the sovereign verifier and inserts the telemetry log    *)
(* and the admission.  Both requests await storage and the verifier        *)
(* between database statements, and run concurrently with each other, with *)
(* edits of the model, with single-blob completions and with account       *)
(* deletion (the actions of ObjectUpload).                                 *)
(*                                                                         *)
(* One owner, one artifact id.  The five files are roles; a plan assigns a *)
(* payload to each role and names a contract hash.                         *)
(***************************************************************************)
EXTENDS ObjectUpload, Sequences

CONSTANTS Roles,      \* the files of an archive, in FILES order
          Plans,      \* upload plans a desktop may send
          Models,     \* models of the owner
          Hashes,     \* contract hashes
          FileKey,    \* FileKey[r, c]: cache key of role r with payload c
          FileType,   \* FileType[r]: the content type FILES fixes for r
          Describes,  \* Describes[m]: the plan the metadata payload m states
          Sound,      \* payloads of which the verifier accepts the frames
          Completers, Admitters

(* A plan the validator of the route lets through: exactly one file per    *)
(* role, fixed content types, every authority flag at its frozen value.    *)
validateRecorderUploadPlan(p) == DOMAIN p.files = {Roles[i] : i \in 1..Len(Roles)}

VARIABLES mat,        \* the materialization row, or None
          comp,       \* completer -> [pc, plan, i, insp]
          models,     \* model -> [status, hash]
          adm,        \* admitter -> [pc, plan, model]
          admission,  \* the admission row, or None
          telemetry   \* telemetry logs inserted for the archive

recVars == <<mat, comp, models, adm, admission, telemetry>>
vars == <<upVars, recVars>>

IdleComp == [pc |-> "idle", plan |-> None, i |-> 1, insp |-> None]
IdleAdm == [pc |-> "idle", plan |-> None, model |-> None]

RecTypeOK ==
  /\ mat = None \/ (mat.plan \in Plans /\ mat.status \in {"staged", "materialized"}
                      /\ mat.err \in BOOLEAN)
  /\ \A c \in Completers : comp[c].pc \in {"idle", "next", "inspected", "bound"}
                             /\ comp[c].i \in 1..(Len(Roles) + 1)
  /\ \A a \in Admitters : adm[a].pc \in {"idle", "preflight", "streaming", "verified"}
  /\ models \in [Models -> [status : {"admitted", "draft"}, hash : Hashes]]
  /\ telemetry \in Nat

Init ==
  /\ UploadInit
  /\ mat = None
  /\ comp = [c \in Completers |-> IdleComp]
  /\ models \in [Models -> [status : {"admitted"}, hash : Hashes]]
  /\ adm = [a \in Admitters |-> IdleAdm]
  /\ admission = None
  /\ telemetry = 0

DeclOf(p, r) == [sha |-> p.files[r], size |-> SizeOf[p.files[r]], type |-> FileType[r]]
KeyOf(p, r) == FileKey[<<r, p.files[r]>>]
RoleSet == {Roles[i] : i \in 1..Len(Roles)}

(***************************************************************************)
(* POST /v1/recorder-archives: one serializable transaction registers the  *)
(* blobs and inserts the row, or finds the row of the same plan; a row of  *)
(* another plan is a 409 and the registrations roll back.                  *)
(***************************************************************************)
stageRecorderArchive(p) ==
  /\ account = "open"
  /\ validateRecorderUploadPlan(p)
  /\ mat # None => mat.plan = p
  /\ \A r \in RoleSet : blobs[KeyOf(p, r)] # None => blobs[KeyOf(p, r)].decl = DeclOf(p, r)
  /\ blobs' = [k \in Keys |->
                 IF \E r \in RoleSet : k = KeyOf(p, r)
                 THEN Declared(k, "recorder", DeclOf(p, CHOOSE r \in RoleSet : k = KeyOf(p, r)))
                 ELSE blobs[k]]
  /\ urls' = urls \cup {<<<<"recorder", p.files[r]>>, p.files[r]>> : r \in RoleSet}
  /\ mat' = IF mat = None THEN [plan |-> p, status |-> "staged", err |-> FALSE] ELSE mat
  /\ UNCHANGED <<store, req, policy, account, comp, models, adm, admission, telemetry>>

(***************************************************************************)
(* POST /v1/recorder-archives/:id/complete, file by file.  Any failure     *)
(* records an error code, on a staged row only.                            *)
(***************************************************************************)
completeBegin(c) ==
  /\ comp[c].pc = "idle" /\ mat # None
  /\ comp' = [comp EXCEPT ![c] = [IdleComp EXCEPT !.pc = "next", !.plan = mat.plan]]
  /\ UNCHANGED <<upVars, mat, models, adm, admission, telemetry>>

Fail(c) ==
  /\ ~DeletionRunning
  /\ mat' = IF mat # None /\ mat.status = "staged" THEN [mat EXCEPT !.err = TRUE] ELSE mat
  /\ comp' = [comp EXCEPT ![c] = IdleComp]

RoleKey(c) == KeyOf(comp[c].plan, Roles[comp[c].i])

completeInspect(c) ==
  /\ comp[c].pc = "next" /\ comp[c].i <= Len(Roles)
  /\ LET row == blobs[RoleKey(c)]
         o == IF row = None THEN None ELSE store[row.obj]
     IN  \/ /\ o # None
            /\ comp' = [comp EXCEPT ![c].pc = "inspected", ![c].insp = Inspect(o)]
            /\ UNCHANGED mat
         \/ o = None /\ Fail(c)
  /\ UNCHANGED <<upVars, models, adm, admission, telemetry>>

completeFile(c) ==
  /\ comp[c].pc = "inspected" /\ ~DeletionRunning
  /\ LET k == RoleKey(c)
         d == DeclOf(comp[c].plan, Roles[comp[c].i])
         ok == blobs[k] # None /\ Matches(comp[c].insp, d)
     IN  /\ blobs' = [blobs EXCEPT ![k] = Verified(@, comp[c].insp, d)]
         /\ \/ ok /\ comp' = [comp EXCEPT ![c].pc = "next", ![c].i = @ + 1] /\ UNCHANGED mat
            \/ ~ok /\ Fail(c)
  /\ UNCHANGED <<store, urls, req, policy, account, models, adm, admission, telemetry>>

(* readStoredObject returns only bytes of the declared digest; the         *)
(* metadata must state the staged plan, frame and replay digests included. *)
Readable(p, r) == LET o == store[<<"recorder", p.files[r]>>]
                  IN  o # None /\ o.content = p.files[r]

verifyManifestReceiptBindings(p) == Describes[p.files["manifest"]] = p

completeBind(c) ==
  /\ comp[c].pc = "next" /\ comp[c].i > Len(Roles)
  /\ LET ok == Readable(comp[c].plan, "manifest") /\ verifyManifestReceiptBindings(comp[c].plan)
     IN  \/ ok /\ comp' = [comp EXCEPT ![c].pc = "bound"] /\ UNCHANGED mat
         \/ ~ok /\ Fail(c)
  /\ UNCHANGED <<upVars, models, adm, admission, telemetry>>

completeRecorderArchive(c) ==
  /\ comp[c].pc = "bound" /\ ~DeletionRunning
  /\ mat' = IF mat = None THEN None ELSE [mat EXCEPT !.status = "materialized", !.err = FALSE]
  /\ comp' = [comp EXCEPT ![c] = IdleComp]
  /\ UNCHANGED <<upVars, models, adm, admission, telemetry>>

(***************************************************************************)
(* POST /v1/recorder-archives/:id/admit.                                   *)
(***************************************************************************)
requireAdmittedModelProof(m, h) == models[m].status = "admitted" /\ models[m].hash = h

admitBegin(a, m) ==
  /\ adm[a].pc = "idle"
  /\ mat # None /\ mat.status = "materialized"
  /\ admission = None
  /\ requireAdmittedModelProof(m, mat.plan.hash)
  /\ adm' = [adm EXCEPT ![a] = [pc |-> "preflight", plan |-> mat.plan, model |-> m]]
  /\ UNCHANGED <<upVars, mat, comp, models, admission, telemetry>>

(* streamPrivateArchive: every blob row must be complete as planned ...    *)
PlannedComplete(p) ==
  \A r \in RoleSet : LET row == blobs[KeyOf(p, r)]
                     IN  row # None /\ row.status = "complete" /\ row.decl = DeclOf(p, r)

admitCheckBlobs(a) ==
  /\ adm[a].pc = "preflight"
  /\ adm' = [adm EXCEPT ![a] = IF PlannedComplete(adm[a].plan)
                               THEN [@ EXCEPT !.pc = "streaming"] ELSE IdleAdm]
  /\ UNCHANGED <<upVars, mat, comp, models, admission, telemetry>>

(* ... then the files are streamed, digest checked, to a private directory *)
(* and the verifier judges what was streamed.                              *)
validateReport(p) == \A r \in RoleSet : Readable(p, r) /\ p.files[r] \in Sound

streamPrivateArchive(a) ==
  /\ adm[a].pc = "streaming"
  /\ adm' = [adm EXCEPT ![a] = IF validateReport(adm[a].plan)
                               THEN [@ EXCEPT !.pc = "verified"] ELSE IdleAdm]
  /\ UNCHANGED <<upVars, mat, comp, models, admission, telemetry>>

(* Mutant: the preflight's reading of the model is trusted.                *)
AdmissibleByPreflight(a) == mat # None /\ mat.status = "materialized" /\ admission = None

(* The serializable transaction: the row still materialized, no admission  *)
(* yet, the model still the admitted one of that contract.                 *)
Admissible(a) ==
  /\ mat # None /\ mat.status = "materialized"
  /\ admission = None
  /\ requireAdmittedModelProof(adm[a].model, adm[a].plan.hash)

admitRecorderArchive(a) ==
  /\ adm[a].pc = "verified" /\ ~DeletionRunning
  /\ admission' = IF Admissible(a) THEN [model |-> adm[a].model, hash |-> adm[a].plan.hash]
                  ELSE admission
  /\ telemetry' = IF Admissible(a) THEN telemetry + 1 ELSE telemetry
  /\ adm' = [adm EXCEPT ![a] = IdleAdm]
  /\ UNCHANGED <<upVars, mat, comp, models>>

(* PATCH of a model: a new contract, admitted or not (updateModelContract).*)
updateModelContract(m, h, s) ==
  /\ account = "open"
  /\ models' = [models EXCEPT ![m] = [status |-> s, hash |-> h]]
  /\ UNCHANGED <<upVars, mat, comp, adm, admission, telemetry>>

(* The purge of account deletion takes the archive's rows with the blobs.  *)
purgeCommit ==
  /\ deleteCommit
  /\ \/ /\ account' = "deleted"
        /\ mat' = None /\ admission' = None /\ telemetry' = 0
     \/ account' = "open" /\ UNCHANGED <<mat, admission, telemetry>>
  /\ UNCHANGED <<comp, models, adm>>

Uploads ==
  /\ \/ \E u \in urls, t \in Types : PutThroughUrl(u, u[2], t)
     \/ \E r \in Reqs : \/ inspectStoredObject(r)
                        \/ getOwnedObjectBlob(r)
                        \/ completeObjectBlobUpload(r)
                        \/ \E k \in Keys : completeFind(r, k)
     \/ deleteUserData
     \/ \E gone \in SUBSET BoundObjects : deleteStoredObjects(gone)
  /\ UNCHANGED recVars

Next ==
  \/ \E p \in Plans : stageRecorderArchive(p)
  \/ \E c \in Completers : \/ completeBegin(c)
                           \/ completeInspect(c)
                           \/ completeFile(c)
                           \/ completeBind(c)
                           \/ completeRecorderArchive(c)
  \/ \E a \in Admitters : \/ admitCheckBlobs(a)
                          \/ streamPrivateArchive(a)
                          \/ admitRecorderArchive(a)
                          \/ \E m \in Models : admitBegin(a, m)
  \/ \E m \in Models, h \in Hashes, s \in {"admitted", "draft"} : updateModelContract(m, h, s)
  \/ purgeCommit
  \/ Uploads

Spec == Init /\ [][Next]_vars

-----------------------------------------------------------------------------
(***************************************************************************)
(* A materialized archive is what its metadata says: the manifest states   *)
(* exactly the staged plan, and no object stored for it differs from the   *)
(* plan, although the completion awaited storage between the files and the *)
(* upload URLs are still usable (completeRecorderArchive).  The row then   *)
(* shows no error: a slower, failing completion leaves it alone.           *)
(***************************************************************************)
MaterializedTruthful ==
  mat # None /\ mat.status = "materialized" =>
    /\ Describes[mat.plan.files["manifest"]] = mat.plan
    /\ \A r \in RoleSet : LET o == store[<<"recorder", mat.plan.files[r]>>]
                          IN  o # None => o.content = mat.plan.files[r]

MaterializedShowsNoError == mat # None /\ mat.status = "materialized" => ~mat.err

(***************************************************************************)
(* An admission exists only for a materialized archive whose frames the    *)
(* sovereign verifier accepted, and with exactly one telemetry log, however*)
(* many admission requests ran at once (admitRecorderArchive).             *)
(***************************************************************************)
AdmissionTruthful ==
  /\ admission # None => /\ mat # None /\ mat.status = "materialized"
                         /\ mat.plan.hash = admission.hash
                         /\ \A r \in RoleSet : mat.plan.files[r] \in Sound
  /\ telemetry = IF admission = None THEN 0 ELSE 1

(***************************************************************************)
(* At the moment an archive is admitted, the model it is admitted for is   *)
(* the admitted model of the archive's contract: an edit of the model      *)
(* during the verifier's run refuses the admission.                        *)
(***************************************************************************)
AdmittedForCurrentModel ==
  admission = None /\ admission' # None =>
    /\ models[admission'.model].status = "admitted"
    /\ models[admission'.model].hash = admission'.hash

(***************************************************************************)
(* Materialization is one way: while the account stands, a staged plan is  *)
(* never replaced, a materialized row never becomes staged again and an    *)
(* admission is never replaced.                                            *)
(***************************************************************************)
ArchiveMonotone ==
  account' # "deleted" =>
    /\ mat # None => mat' # None /\ mat'.plan = mat.plan
    /\ mat # None /\ mat.status = "materialized" => mat'.status = "materialized"
    /\ admission # None => admission' = admission
=============================================================================
