--------------------------- MODULE GatewayProofs ----------------------------
(***************************************************************************)
(* The properties that the run of MCGateway checks, from the lemmas of its *)
(* components: each part keeps the inductive invariant of its component,   *)
(* whose lemmas hold for the parameters of the part (InstanceConstants).   *)
(***************************************************************************)
EXTENDS MCGateway, TLAPS

-----------------------------------------------------------------------------
(* Generation *)

GenerationInv ==
    /\ part = "generation" => First!GenInv
    /\ part = "loop" => Second!GenInv

LEMMA GenerationInit == Init => GenerationInv
<1>1. First!GenInit => First!GenInv
  BY InstanceConstants, First!GenInvInit
<1>2. Second!GenInit => Second!GenInv
  BY InstanceConstants, Second!GenInvInit
<1> QED
  BY <1>1, <1>2 DEF Init, GenerationInv

LEMMA GenerationStep == GenerationInv /\ [Next]_vars => GenerationInv'
<1> SUFFICES ASSUME GenerationInv, [Next]_vars PROVE GenerationInv'
  OBVIOUS
<1>1. First!GenInv /\ [First!GenNext]_(First!genVars) => First!GenInv'
  BY InstanceConstants, First!GenInvStep
<1>2. Second!GenInv /\ [Second!GenNext]_(Second!genVars) => Second!GenInv'
  BY InstanceConstants, Second!GenInvStep
<1>3. part' = part
  BY DEF Next, vars
<1>4. part = "generation" => [First!GenNext]_(First!genVars)
  BY DEF Next, vars, First!genVars
<1>5. part = "loop" => [Second!GenNext]_(Second!genVars)
  BY DEF Next, vars, Second!genVars
<1> QED
  BY <1>1, <1>2, <1>3, <1>4, <1>5 DEF GenerationInv

\* GenerationSafe: what is registered passed the validator or is marked a draft that did
\* not, and the history of attempts is the one that happened (runGeneration).
THEOREM GenerationIsSafe == Spec => []GenerationSafe
<1>1. First!GenInv => First!GenTypeOK /\ First!RegisteredTruthful
                         /\ First!DraftsWereRejected
  BY DEF First!GenInv
<1>2. Second!GenInv => Second!AttemptHistory
  BY InstanceConstants, Second!AttemptMeaning
<1>3. GenerationInv => GenerationSafe
  BY <1>1, <1>2 DEF GenerationInv, GenerationSafe
<1> QED
  BY <1>3, GenerationInit, GenerationStep, PTL DEF Spec

-----------------------------------------------------------------------------
(* Storage *)

StorageInv ==
    /\ part = "upload" => Upload!UploadInv
    /\ part = "types" => Typed!UploadInv
    /\ part = "plain" => Plain!UploadInv
    /\ part = "recorder" => Recorder!ArchiveInv
    /\ part = "races" => Races!ArchiveInv
    /\ part = "copies" => Copies!LifecycleInv

LEMMA StorageInit == Init => StorageInv
<1>1. Upload!UploadInit => Upload!UploadInv
  BY InstanceConstants, Upload!UploadInvInit
<1>2. Typed!UploadInit => Typed!UploadInv
  BY InstanceConstants, Typed!UploadInvInit
<1>3. Plain!UploadInit => Plain!UploadInv
  BY InstanceConstants, Plain!UploadInvInit
<1>4. Recorder!Init => Recorder!ArchiveInv
  BY InstanceConstants, Recorder!ArchiveInvInit
<1>5. Races!Init => Races!ArchiveInv
  BY InstanceConstants, Races!ArchiveInvInit
<1>6. Copies!LifInit => Copies!LifecycleInv
  BY InstanceConstants, Copies!LifecycleInductive
<1> QED
  BY <1>1, <1>2, <1>3, <1>4, <1>5, <1>6 DEF Init, StorageInv

LEMMA StorageStep == StorageInv /\ [Next]_vars => StorageInv'
<1> SUFFICES ASSUME StorageInv, [Next]_vars PROVE StorageInv'
  OBVIOUS
<1>0. part' = part
  BY DEF Next, vars
<1>1. part = "upload" => Upload!UploadInv'
  <2>1. part = "upload" => [Upload!UploadNext]_(Upload!upVars)
    BY DEF Next, vars, Upload!upVars
  <2> QED
    BY <2>1, InstanceConstants, Upload!UploadInvStep DEF StorageInv
<1>2. part = "types" => Typed!UploadInv'
  <2>1. part = "types" => [Typed!UploadNext]_(Typed!upVars)
    BY DEF Next, vars, Typed!upVars
  <2> QED
    BY <2>1, InstanceConstants, Typed!UploadInvStep DEF StorageInv
<1>3. part = "plain" => Plain!UploadInv'
  <2>1. part = "plain" => [Plain!UploadNext]_(Plain!upVars)
    BY DEF Next, vars, Plain!upVars
  <2> QED
    BY <2>1, InstanceConstants, Plain!UploadInvStep DEF StorageInv
<1>4. part = "recorder" => Recorder!ArchiveInv'
  <2>1. part = "recorder" => [Recorder!Next]_(Recorder!vars)
    BY DEF Next, vars, Recorder!vars, Recorder!upVars, Recorder!recVars
  <2> QED
    BY <2>1, InstanceConstants, Recorder!ArchiveInvStep DEF StorageInv
<1>5. part = "races" => Races!ArchiveInv'
  <2>1. part = "races" => [Races!Next]_(Races!vars)
    BY DEF Next, vars, Races!vars, Races!upVars, Races!recVars
  <2> QED
    BY <2>1, InstanceConstants, Races!ArchiveInvStep DEF StorageInv
<1>6. part = "copies" => Copies!LifecycleInv'
  <2>1. part = "copies" => [Copies!LifNext]_(Copies!lifVars)
    BY DEF Next, vars, Copies!lifVars, Copies!primaryVars, Copies!tombVars, Copies!backupVars,
           Copies!restoreVars, Copies!runnerVars
  <2> QED
    BY <2>1, InstanceConstants, Copies!LifecycleInductive DEF StorageInv
<1> QED
  BY <1>0, <1>1, <1>2, <1>3, <1>4, <1>5, <1>6 DEF StorageInv

\* StorageSafe: complete means verified, archives are materialized and admitted as
\* planned, and a deleted account neither returns from a copy nor is reported gone early
\* (completeObjectBlobUpload, completeRecorderArchive, dataLifecycle.ts).
THEOREM StorageIsSafe == Spec => []StorageSafe
<1>1. Upload!UploadInv => Upload!TypeOK /\ Upload!CompleteMeansVerified
  BY InstanceConstants, Upload!UploadRowsVerified DEF Upload!UploadInv
<1>2. Typed!UploadInv => Typed!TypeOK /\ Typed!CompleteMeansVerified
  BY InstanceConstants, Typed!UploadRowsVerified DEF Typed!UploadInv
<1>3. Plain!UploadInv => Plain!UnverifiedStaysStaged /\ Plain!RowsNameTheirDigest
  BY InstanceConstants, Plain!UploadRowsVerified DEF Plain!UploadInv
<1>4. Recorder!ArchiveInv => Recorder!RecTypeOK /\ Recorder!MaterializedTruthful
                             /\ Recorder!AdmissionTruthful
  BY InstanceConstants, Recorder!ArchiveMeaning
<1>5. Races!ArchiveInv => Races!MaterializedShowsNoError
  BY InstanceConstants, Races!ArchiveMeaning
<1>6. Copies!LifecycleInv => Copies!NoResurrection /\ Copies!BackupCompleteTruthful
                             /\ Copies!DeletedCopyIsGone
  BY InstanceConstants, Copies!LifecycleInductive
<1>7. StorageInv => StorageSafe
  BY <1>1, <1>2, <1>3, <1>4, <1>5, <1>6 DEF StorageInv, StorageSafe
<1> QED
  BY <1>7, StorageInit, StorageStep, PTL DEF Spec

-----------------------------------------------------------------------------
(* Jobs *)

JobsInv ==
    /\ part = "outputs" => First!OutputsInv
    /\ part = "others" => Second!OutputsInv
    /\ part = "cost" => First!CostInv
    /\ part = "crowd" => First!AdmissionInv

LEMMA JobsInit == Init => JobsInv
<1>1. First!OutInit => First!OutputsInv
  BY InstanceConstants, First!OutputsInvInit
<1>2. Second!OutInit => Second!OutputsInv
  BY InstanceConstants, Second!OutputsInvInit
<1>3. First!CostInit => First!CostInv
  BY InstanceConstants, First!CostInvInit
<1>4. First!Init => First!AdmissionInv
  BY InstanceConstants, First!AdmissionInductive
<1> QED
  BY <1>1, <1>2, <1>3, <1>4 DEF Init, JobsInv

LEMMA JobsStep == JobsInv /\ [Next]_vars => JobsInv'
<1> SUFFICES ASSUME JobsInv, [Next]_vars PROVE JobsInv'
  OBVIOUS
<1>0. part' = part
  BY DEF Next, vars
<1>1. part = "outputs" => First!OutputsInv'
  <2>1. part = "outputs" => [First!OutNext]_(First!outVars)
    BY DEF Next, vars, First!outVars
  <2> QED
    BY <2>1, InstanceConstants, First!OutputsInvStep DEF JobsInv
<1>2. part = "others" => Second!OutputsInv'
  <2>1. part = "others" => [Second!OutNext]_(Second!outVars)
    BY DEF Next, vars, Second!outVars
  <2> QED
    BY <2>1, InstanceConstants, Second!OutputsInvStep DEF JobsInv
<1>3. part = "cost" => First!CostInv'
  <2>1. part = "cost" => [First!CostNext]_(First!costVars)
    BY DEF Next, vars, First!costVars
  <2> QED
    BY <2>1, InstanceConstants, First!CostInvStep DEF JobsInv
<1>4. part = "crowd" => First!AdmissionInv'
  <2>1. part = "crowd" => [First!Next]_(First!vars)
    BY DEF Next, vars, First!vars, First!jobVars, First!creditVars, First!txVars
  <2> QED
    BY <2>1, InstanceConstants, First!AdmissionInductive DEF JobsInv
<1> QED
  BY <1>0, <1>1, <1>2, <1>3, <1>4 DEF JobsInv

\* JobsSafe: quotas, ledger, consents, artifacts and recorded costs agree with the jobs
\* (createJob, the materializers of platform.ts, modal-reconcile-cost.mjs).
THEOREM JobsAreSafe == Spec => []JobsSafe
<1>1. First!OutputsInv => First!OutTypeOK /\ First!OutputsSafe
  BY InstanceConstants, First!OutputsMeaning
<1>2. Second!OutputsInv => Second!OutTypeOK /\ Second!OutputsSafe
  BY InstanceConstants, Second!OutputsMeaning
<1>3. First!CostInv => First!CostTypeOK /\ First!EventPerReconciledCall
  BY DEF First!CostInv
<1>4. First!AdmissionInv => First!QuotaKept /\ First!WithdrawalStopsWork
                            /\ First!LedgerBalances
  BY InstanceConstants, First!AdmissionInductive
<1>5. JobsInv => JobsSafe
  BY <1>1, <1>2, <1>3, <1>4 DEF JobsInv, JobsSafe
<1> QED
  BY <1>5, JobsInit, JobsStep, PTL DEF Spec

-----------------------------------------------------------------------------
(* Steps *)

\* StepsSafe: no step rewrites a declaration, an archive, an admission or a recorded
\* cost, admits an archive for a model that changed, or takes an artifact from its owner.
THEOREM StepsAreSafe == Spec => StepsSafe
<1> DEFINE Kept == /\ part = "upload" => Upload!DeclarationsImmutable
                   /\ part = "types" => Typed!DeclarationsImmutable
                   /\ part = "recorder" => Recorder!AdmittedForCurrentModel
                                           /\ Recorder!ArchiveMonotone
                   /\ part = "generation" => First!OwnerNotLost
                   /\ part = "cost" => First!CallCostFinal
<1>1. StorageInv /\ GenerationInv /\ JobsInv /\ [Next]_vars => [Kept]_vars
  <2> SUFFICES ASSUME StorageInv, GenerationInv, JobsInv, Next PROVE [Kept]_vars
    OBVIOUS
  <2>1. part = "upload" => [Upload!DeclarationsImmutable]_(Upload!upVars)
    BY InstanceConstants, Upload!DeclarationStep DEF StorageInv, Next
  <2>2. part = "types" => [Typed!DeclarationsImmutable]_(Typed!upVars)
    BY InstanceConstants, Typed!DeclarationStep DEF StorageInv, Next
  <2>3. part = "recorder" => Recorder!AdmittedForCurrentModel /\ Recorder!ArchiveMonotone
    BY InstanceConstants, Recorder!ArchiveSteps DEF StorageInv, Next
  <2>4. part = "generation" => First!OwnerNotLost
    BY InstanceConstants, First!ArtifactsStep DEF GenerationInv, Next
  <2>5. part = "cost" => First!CallCostFinal
    BY InstanceConstants, First!CallCostStep DEF JobsInv, Next
  <2>6. part = "upload" /\ UNCHANGED Upload!upVars => UNCHANGED vars
    BY DEF Next, vars, Upload!upVars, Rest7, Rest13, Rest16
  <2>7. part = "types" /\ UNCHANGED Typed!upVars => UNCHANGED vars
    BY DEF Next, vars, Typed!upVars, Rest7, Rest13, Rest16
  <2> QED
    BY <2>1, <2>2, <2>3, <2>4, <2>5, <2>6, <2>7
<1> QED
  BY <1>1, StorageInit, StorageStep, GenerationInit, GenerationStep, JobsInit, JobsStep,
     PTL DEF Spec, StepsSafe
==============================================================================
