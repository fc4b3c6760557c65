------------------------------ MODULE MCGateway ------------------------------
(***************************************************************************)
(* Small instances of the gateway's storage, archive, generation and job   *)
(* components, checked side by side: a behaviour picks a part and runs     *)
(* that component alone.  The components declare their own variables; here *)
(* the variables of the part that runs are v1, v2, ... in their order.     *)
(* A component whose theorems are in a module of their own is instantiated *)
(* with them; a parameter that the part has no use for is empty.           *)
(***************************************************************************)
EXTENDS Naturals, Sequences, TLC

CONSTANTS None, c1, c2, kx, k1, k2, k3, bk1, bk2, ru1, bd1, rq1, rq2, kc1, kc2, r1, r2,
          m1, m2, f1, f2, h1, h2, km1, km2, kf1, kf2, g1, p1, p2, a1, a2, u1, u2, i1,
          bad, x1

\* The part that runs, and the variables of its component.
VARIABLES part, v1, v2, v3, v4, v5, v6, v7, v8, v9, v10, v11, v12, v13, v14, v15, v16,
          v17, v18, v19, v20

\* The variables a part has no use for: none has a value of its own.
Idle16 == v16 = 0 /\ v17 = 0 /\ v18 = 0 /\ v19 = 0 /\ v20 = 0
Idle13 == v13 = 0 /\ v14 = 0 /\ v15 = 0 /\ Idle16
Idle7 == v7 = 0 /\ v8 = 0 /\ v9 = 0 /\ v10 = 0 /\ v11 = 0 /\ v12 = 0 /\ Idle13
Idle5 == v5 = 0 /\ v6 = 0 /\ Idle7
Rest16 == <<v16, v17, v18, v19, v20>>
Rest13 == <<v13, v14, v15, Rest16>>
Rest7 == <<v7, v8, v9, v10, v11, v12, Rest13>>
Rest5 == <<v5, v6, Rest7>>

vars == <<part, v1, v2, v3, v4, v5, v6, v7, v8, v9, v10, v11, v12, v13, v14, v15, v16,
          v17, v18, v19, v20>>

-----------------------------------------------------------------------------
SizeOf == [c \in {c1, c2} |-> IF c = c1 THEN 1 ELSE 2]
DigestKey == [c \in {c1, c2} |-> IF c = c1 THEN kc1 ELSE kc2]

\* One payload, a custom key beside the digest key, two completion requests, a
\* store that enforces checksums.
Upload == INSTANCE StorageProofs WITH
    Keys <- {kc1, kx}, Contents <- {c1}, Types <- {"octet"},
    Purposes <- {"policy-onnx"}, SizeOf <- SizeOf, DigestKey <- DigestKey,
    PolicyType <- "octet", Reqs <- {r1, r2}, Enforces <- TRUE,
    Roles <- <<>>, Plans <- {}, Models <- {}, Hashes <- {}, FileKey <- <<>>,
    FileType <- <<>>, Describes <- <<>>, Sound <- {}, Completers <- {}, Admitters <- {},
    blobs <- v1, store <- v2, urls <- v3, req <- v4, policy <- v5, account <- v6,
    mat <- v7, comp <- v8, models <- v9, adm <- v10, admission <- v11, telemetry <- v12

-----------------------------------------------------------------------------
\* The same with one key and two media types.
Typed == INSTANCE StorageProofs WITH
    Keys <- {kc1}, Contents <- {c1}, Types <- {"octet", "image"},
    Purposes <- {"policy-onnx"}, SizeOf <- SizeOf, DigestKey <- DigestKey,
    PolicyType <- "octet", Reqs <- {r1, r2}, Enforces <- TRUE,
    Roles <- <<>>, Plans <- {}, Models <- {}, Hashes <- {}, FileKey <- <<>>,
    FileType <- <<>>, Describes <- <<>>, Sound <- {}, Completers <- {}, Admitters <- {},
    blobs <- v1, store <- v2, urls <- v3, req <- v4, policy <- v5, account <- v6,
    mat <- v7, comp <- v8, models <- v9, adm <- v10, admission <- v11, telemetry <- v12

-----------------------------------------------------------------------------
\* A store that ignores checksums; two payloads, one completion request.
Plain == INSTANCE StorageProofs WITH
    Keys <- {kc1, kc2}, Contents <- {c1, c2}, Types <- {"octet"},
    Purposes <- {"policy-onnx"}, SizeOf <- SizeOf, DigestKey <- DigestKey,
    PolicyType <- "octet", Reqs <- {r1}, Enforces <- FALSE,
    Roles <- <<>>, Plans <- {}, Models <- {}, Hashes <- {}, FileKey <- <<>>,
    FileType <- <<>>, Describes <- <<>>, Sound <- {}, Completers <- {}, Admitters <- {},
    blobs <- v1, store <- v2, urls <- v3, req <- v4, policy <- v5, account <- v6,
    mat <- v7, comp <- v8, models <- v9, adm <- v10, admission <- v11, telemetry <- v12

-----------------------------------------------------------------------------
\* Two roles stand for the five files: one the gateway reads itself, one only the
\* verifier reads.  m1 describes the plan <<m1, f1>>, the only consistent one; f2
\* is a payload the verifier refuses.
Payloads == {m1, m2, f1, f2}
Plan(m, f) == [files |-> [manifest |-> m, frame |-> f], hash |-> h1]
Describes == [c \in Payloads |-> IF c = m2 THEN Plan(m2, f2) ELSE Plan(m1, f1)]
ArchiveSize == [c \in Payloads |-> IF c \in {m1, m2} THEN 1 ELSE 2]
ArchiveKey == [c \in Payloads |-> CASE c = m1 -> km1 [] c = m2 -> km2
                                    [] c = f1 -> kf1 [] c = f2 -> kf2]
FileKey == [x \in {"manifest", "frame"} \X Payloads |-> ArchiveKey[x[2]]]
FileType == [r \in {"manifest", "frame"} |-> "json"]

\* One completion and two admissions, the model edited under them.
Recorder == INSTANCE StorageProofs WITH
    Keys <- {km1, km2, kf1, kf2}, Contents <- Payloads, Types <- {"json"},
    Purposes <- {"recorder", "policy-onnx"}, SizeOf <- ArchiveSize,
    DigestKey <- ArchiveKey, PolicyType <- "json", Reqs <- {}, Enforces <- TRUE,
    Roles <- <<"manifest", "frame">>,
    Plans <- {Plan(m1, f1), Plan(m1, f2), Plan(m2, f2)}, Models <- {g1},
    Hashes <- {h1, h2}, FileKey <- FileKey, FileType <- FileType,
    Describes <- Describes, Sound <- {m1, m2, f1}, Completers <- {p1},
    Admitters <- {a1, a2},
    blobs <- v1, store <- v2, urls <- v3, req <- v4, policy <- v5, account <- v6,
    mat <- v7, comp <- v8, models <- v9, adm <- v10, admission <- v11, telemetry <- v12

-----------------------------------------------------------------------------
\* Two completions of one plan beside a single-blob completion.
Races == INSTANCE StorageProofs WITH
    Keys <- {km1, kf1}, Contents <- {m1, f1}, Types <- {"json"},
    Purposes <- {"recorder", "policy-onnx"}, SizeOf <- ArchiveSize,
    DigestKey <- ArchiveKey, PolicyType <- "json", Reqs <- {r1}, Enforces <- TRUE,
    Roles <- <<"manifest", "frame">>, Plans <- {Plan(m1, f1)}, Models <- {},
    Hashes <- {h1}, FileKey <- FileKey, FileType <- FileType, Describes <- Describes,
    Sound <- {m1, m2, f1}, Completers <- {p1, p2}, Admitters <- {},
    blobs <- v1, store <- v2, urls <- v3, req <- v4, policy <- v5, account <- v6,
    mat <- v7, comp <- v8, models <- v9, adm <- v10, admission <- v11, telemetry <- v12

-----------------------------------------------------------------------------
JobRequest(u, kind, provider, key, model, subject, bounded, route) ==
    [user |-> u, kind |-> kind, provider |-> provider, key |-> key, model |-> model,
     subject |-> subject, bounded |-> bounded, route |-> route]
TrainingRequests ==
    {JobRequest(u1, "train.policy", "fixture", i1, m1, TRUE, TRUE, "jobs"),
     JobRequest(u2, "train.policy", "fixture", None, None, FALSE, TRUE, "policies"),
     JobRequest(u2, "train.policy", "fixture", i1, m1, FALSE, TRUE, "jobs"),
     JobRequest(u1, "train.policy", "modal", None, m1, TRUE, TRUE, "jobs"),
     JobRequest(u1, "train.policy", "modal", None, m1, FALSE, FALSE, "jobs")}
OtherRequests ==
    {JobRequest(u1, "photoscan.single", "fixture", i1, None, TRUE, TRUE, "jobs"),
     JobRequest(u1, "photoscan.single", "local", None, None, TRUE, TRUE, "jobs"),
     JobRequest(u1, "train.offline-bc", "local", None, m1, TRUE, TRUE, "jobs"),
     JobRequest(u1, "bridge.telemetry-ingest", "fixture", i1, None, FALSE, TRUE, "jobs"),
     JobRequest(u1, "bridge.telemetry-ingest", "local", None, None, FALSE, TRUE, "jobs"),
     JobRequest(u1, "maintenance.estimate-wear", "fixture", None, None, FALSE, TRUE, "jobs"),
     JobRequest(u1, "replay.verify", "fixture", None, None, FALSE, TRUE, "replays"),
     JobRequest(u1, "commerce.vendor-refresh", "local", i1, None, FALSE, TRUE, "vendor"),
     JobRequest(u1, "photoscan.single", "fixture", None, None, TRUE, TRUE, "photoscan")}

\* Jobs and generation: the variables of job admission, of generation, of what jobs leave
\* behind and of their cost are v1, v2, ... as well: one of the four runs.

\* Two requests for one brief, each signed in or anonymous; two users and the training
\* jobs; two provider calls over three attempts, two billing rows; three Modal jobs of two
\* users that compete for one active slot and two daily credits.
First == INSTANCE RequestProofs WITH
    Reqs <- {r1, r2}, SignedIn <- {u1}, Prompts <- {p1}, BadPrompts <- {bad},
    Providers <- {"template"}, Seeds <- {0}, Components <- {x1}, Models <- {m1, m2},
    Checks <- {"CTR-001", "MFG-004"}, MaxRepairs <- 1,
    reqs <- v1, review <- v2, refusals <- v3, artifacts <- v4, usage <- v5, models <- v6,
    Owners <- {u1, u2}, IdemKeys <- {i1}, ModelIds <- {m1},
    ModelOwner <- [m \in {m1} |-> u1], Admitted <- {m1}, Requests <- TrainingRequests,
    Uploaders <- {u1},
    Purposes <- [u \in {u1, u2} |-> IF u = u1 THEN {"training.reuse"} ELSE {}],
    ModalReady <- TRUE, LabReady <- TRUE, VendorReady <- TRUE, Slots <- {1, 2},
    MaxJobs <- 2, MaxOffers <- 0, Missing <- None,
    jobs <- v1, slot <- v2, granted <- v3, photoscans <- v4, policies <- v5, rows <- v6,
    shared <- v7, blob <- v8, stored <- v9, offers <- v10, counted <- v11, served <- v12,
    Calls <- {c1, c2}, Authorities <- {a1, a2}, MaxAttempts <- 3, Null <- None,
    job <- v1, calls <- v2, events <- v3, reply <- v4,
    Keys <- {k1, k2, k3}, Users <- {u1, u2},
    Owner <- [k \in {k1, k2, k3} |-> IF k = k3 THEN u2 ELSE u1], Modal <- {k1, k2, k3},
    Gated <- {k1}, Bodies <- {bd1}, Handlers <- {rq1, rq2}, MaxActive <- 1,
    DailyLimit <- 2, MaxDay <- 0, NoKey <- None, NoBody <- None,
    today <- v1, status <- v2, body <- v3, day <- v4, debited <- v5, refunded <- v6,
    balance <- v7, consent <- v8, reqKey <- v9, reqBody <- v10, begun <- v11,
    active <- v12, spent <- v13, agreed <- v14, doomed <- v15

-----------------------------------------------------------------------------
\* One request for generation, both providers, the whole repair budget; one user and the
\* jobs of every other kind.
Second == INSTANCE RequestProofs WITH
    Reqs <- {r1}, SignedIn <- {u1}, Prompts <- {p1}, BadPrompts <- {bad},
    Providers <- {"template", "anthropic"}, Seeds <- {0}, Components <- {x1},
    Models <- {m1}, Checks <- {"CTR-001", "MFG-004"}, MaxRepairs <- 3,
    reqs <- v1, review <- v2, refusals <- v3, artifacts <- v4, usage <- v5, models <- v6,
    Owners <- {u1}, IdemKeys <- {i1}, ModelIds <- {m1},
    ModelOwner <- [m \in {m1} |-> u1], Admitted <- {m1}, Requests <- OtherRequests,
    Uploaders <- {},
    Purposes <- [u \in {u1} |->
                   {"photoscan.processing", "training.reuse", "telemetry.sharing"}],
    ModalReady <- TRUE, LabReady <- TRUE, VendorReady <- TRUE, Slots <- {1, 2},
    MaxJobs <- 2, MaxOffers <- 1, Missing <- None,
    jobs <- v1, slot <- v2, granted <- v3, photoscans <- v4, policies <- v5, rows <- v6,
    shared <- v7, blob <- v8, stored <- v9, offers <- v10, counted <- v11, served <- v12,
    Calls <- {}, Authorities <- {}, MaxAttempts <- 0, Null <- None,
    job <- 0, calls <- 0, events <- 0, reply <- 0,
    Keys <- {}, Users <- {}, Owner <- <<>>, Modal <- {}, Gated <- {}, Bodies <- {},
    Handlers <- {}, MaxActive <- 1, DailyLimit <- 1, MaxDay <- 0, NoKey <- None,
    NoBody <- None,
    today <- 0, status <- 0, body <- 0, day <- 0, debited <- 0, refunded <- 0,
    balance <- 0, consent <- 0, reqKey <- 0, reqBody <- 0, begun <- 0, active <- 0,
    spent <- 0, agreed <- 0, doomed <- 0

-----------------------------------------------------------------------------
\* Two copies of one account: it is gone when both are.
Copies == INSTANCE BackgroundProofs WITH
    Users <- {u1}, Objects <- {}, Owner <- <<>>, Backups <- {bk1, bk2},
    Runners <- {ru1}, HoldKeys <- {}, Holdable <- {}, BackupMaxDays <- 1,
    TombstoneDays <- 2, HoldMaxDays <- 1, AuditDays <- 2, Horizon <- 3, NoBackup <- None,
    now <- v1, account <- v2, payload <- v3, deletion <- v4, held <- v5, tomb <- v6,
    deletedAt <- v7, hold <- v8, catalog <- v9, copy <- v10, captured <- v11,
    deleteAfter <- v12, deletedOn <- v13, covers <- v14, stale <- v15,
    evaluating <- v16, clear <- v17, verdict <- v18, rpc <- v19, target <- v20,
    Jobs <- {}, Modal <- {}, Consented <- {}, Workers <- {}, MaxAttempts <- 1, NoJob <- None,
    status <- 0, attempts <- 0, lease <- 0, live <- 0, due <- 0, callId <- 0, refunded <- 0,
    row <- 0, callRow <- 0, events <- 0, artifacts <- 0, remote <- 0, stored <- 0,
    pc <- 0, job <- 0, att <- 0, call <- 0, code <- 0

-----------------------------------------------------------------------------
\* What the theorems about each component ask of its parameters.
ASSUME InstanceConstants ==
    /\ Upload!UploadConstants /\ Typed!UploadConstants /\ Plain!UploadConstants
    /\ Recorder!ArchiveConstants /\ Races!ArchiveConstants
    /\ First!GenConstants /\ First!OutputsConstants /\ First!CostConstants
    /\ Second!GenConstants /\ Second!OutputsConstants
    /\ Copies!OwnerAssumption /\ Copies!DisjointAssumption /\ Copies!HoldableAssumption
    /\ Copies!WindowAssumption /\ Copies!DaysAssumption /\ Copies!NoBackupAssumption
    /\ Copies!ModalAssumption /\ Copies!ConsentedAssumption /\ Copies!AttemptsAssumption
    /\ Copies!NoJobAssumption
    /\ First!KeysAssumption /\ First!OwnerAssumption /\ First!SubsetAssumption
    /\ First!LimitAssumption /\ First!NoneAssumption
    /\ Second!KeysAssumption /\ Second!OwnerAssumption /\ Second!SubsetAssumption
    /\ Second!LimitAssumption /\ Second!NoneAssumption

-----------------------------------------------------------------------------
Init ==
    \/ part = "upload" /\ Upload!UploadInit /\ Idle7
    \/ part = "types" /\ Typed!UploadInit /\ Idle7
    \/ part = "plain" /\ Plain!UploadInit /\ Idle7
    \/ part = "recorder" /\ Recorder!Init /\ Idle13
    \/ part = "races" /\ Races!Init /\ Idle13
    \/ part = "generation" /\ First!GenInit /\ Idle7
    \/ part = "loop" /\ Second!GenInit /\ Idle7
    \/ part = "outputs" /\ First!OutInit /\ Idle13
    \/ part = "others" /\ Second!OutInit /\ Idle13
    \/ part = "cost" /\ First!CostInit /\ Idle5
    \/ part = "copies" /\ Copies!LifInit
    \/ part = "crowd" /\ First!Init /\ Idle16

Next ==
    \/ part = "upload" /\ Upload!UploadNext /\ UNCHANGED <<part, Rest7>>
    \/ part = "types" /\ Typed!UploadNext /\ UNCHANGED <<part, Rest7>>
    \/ part = "plain" /\ Plain!UploadNext /\ UNCHANGED <<part, Rest7>>
    \/ part = "recorder" /\ Recorder!Next /\ UNCHANGED <<part, Rest13>>
    \/ part = "races" /\ Races!Next /\ UNCHANGED <<part, Rest13>>
    \/ part = "generation" /\ First!GenNext /\ UNCHANGED <<part, Rest7>>
    \/ part = "loop" /\ Second!GenNext /\ UNCHANGED <<part, Rest7>>
    \/ part = "outputs" /\ First!OutNext /\ UNCHANGED <<part, Rest13>>
    \/ part = "others" /\ Second!OutNext /\ UNCHANGED <<part, Rest13>>
    \/ part = "cost" /\ First!CostNext /\ UNCHANGED <<part, Rest5>>
    \/ part = "copies" /\ Copies!LifNext /\ UNCHANGED part
    \/ part = "crowd" /\ First!Next /\ UNCHANGED <<part, Rest16>>

Spec == Init /\ [][Next]_vars

-----------------------------------------------------------------------------
(***************************************************************************)
(* An upload counts as complete only when the stored object was verified,  *)
(* a payload nobody verified stays staged, an archive is materialized and  *)
(* admitted only as its plan says, and a deleted account is neither        *)
(* restored from one of its copies nor reported gone while another         *)
(* remains, whatever requests and runners overlap (registerObjectBlob,     *)
(* completeObjectBlobUpload, completeRecorderArchive,                      *)
(* admitRecorderArchive, dataLifecycle.ts).                                *)
(***************************************************************************)
StorageSafe ==
    /\ part = "upload" => Upload!TypeOK /\ Upload!CompleteMeansVerified
    /\ part = "types" => Typed!TypeOK /\ Typed!CompleteMeansVerified
    /\ part = "plain" => Plain!UnverifiedStaysStaged /\ Plain!RowsNameTheirDigest
    /\ part = "recorder" => Recorder!RecTypeOK /\ Recorder!MaterializedTruthful
                            /\ Recorder!AdmissionTruthful
    /\ part = "races" => Races!MaterializedShowsNoError
    /\ part = "copies" => Copies!NoResurrection /\ Copies!BackupCompleteTruthful
                          /\ Copies!DeletedCopyIsGone

(***************************************************************************)
(* What generation registers passed the validator or is marked a draft     *)
(* that did not, and the attempts recorded are those that were made        *)
(* (runGeneration, recordGeneratedArtifact).                               *)
(***************************************************************************)
GenerationSafe ==
    /\ part = "generation" => First!GenTypeOK /\ First!RegisteredTruthful
                              /\ First!DraftsWereRejected
    /\ part = "loop" => Second!AttemptHistory

(***************************************************************************)
(* Jobs are admitted within the quotas, paid for once and stopped when     *)
(* consent is withdrawn; a job has one artifact and it is served to its    *)
(* owner under the consents it was made with; every reconciled provider    *)
(* call has one cost event (createJob, the fixture and worker              *)
(* materializers of platform.ts, modal-reconcile-cost.mjs).                *)
(***************************************************************************)
JobsSafe ==
    /\ part = "outputs" => First!OutTypeOK /\ First!OutputsSafe
    /\ part = "others" => Second!OutTypeOK /\ Second!OutputsSafe
    /\ part = "cost" => First!CostTypeOK /\ First!EventPerReconciledCall
    /\ part = "crowd" => First!QuotaKept /\ First!WithdrawalStopsWork
                         /\ First!LedgerBalances

(***************************************************************************)
(* No step rewrites what a declaration, an archive, an admission or a      *)
(* recorded cost says, admits an archive for a model that has changed      *)
(* since, or takes an artifact from its owner.                             *)
(***************************************************************************)
StepsSafe ==
    [][ /\ part = "upload" => Upload!DeclarationsImmutable
        /\ part = "types" => Typed!DeclarationsImmutable
        /\ part = "recorder" => Recorder!AdmittedForCurrentModel /\ Recorder!ArchiveMonotone
        /\ part = "generation" => First!OwnerNotLost
        /\ part = "cost" => First!CallCostFinal ]_vars
=============================================================================
