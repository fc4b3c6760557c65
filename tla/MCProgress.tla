------------------------------ MODULE MCProgress ------------------------------
(***************************************************************************)
(* What must happen in the end, in small instances of every component that *)
(* promises it.  A behaviour picks a part and runs that component alone,   *)
(* under the fairness that the component's module states; the variables of *)
(* the part that runs are v1, v2, ... in the order in which it declares    *)
(* them.                                                                   *)
(***************************************************************************)
EXTENDS Integers, Sequences

CONSTANTS Nil, j1, w1, w2, u1, b1, n1, k1, c1, usb, p1, p2, x1, h1, m1, m2, d1, bu, bw,
          r1, g1, bad

\* The part that runs, and the variables of its component.
VARIABLES part, v1, v2, v3, v4, v5, v6, v7, v8, v9, v10, v11, v12, v13, v14, v15, v16,
          v17, v18, v19, v20

\* The variables a part has no use for: none has a value of its own.
Idle19 == v19 = 0 /\ v20 = 0
Idle16 == v16 = 0 /\ v17 = 0 /\ v18 = 0 /\ Idle19
Idle15 == v15 = 0 /\ Idle16
Idle14 == v14 = 0 /\ Idle15
Idle13 == v13 = 0 /\ Idle14
Idle10 == v10 = 0 /\ v11 = 0 /\ v12 = 0 /\ Idle13
Idle7 == v7 = 0 /\ v8 = 0 /\ v9 = 0 /\ Idle10
Idle6 == v6 = 0 /\ Idle7
Rest19 == <<v19, v20>>
Rest16 == <<v16, v17, v18, Rest19>>
Rest15 == <<v15, Rest16>>
Rest14 == <<v14, Rest15>>
Rest13 == <<v13, Rest14>>
Rest10 == <<v10, v11, v12, Rest13>>
Rest7 == <<v7, v8, v9, Rest10>>
Rest6 == <<v6, Rest7>>

vars == <<part, v1, v2, v3, v4, v5, v6, v7, v8, v9, v10, v11, v12, v13, v14, v15, v16,
          v17, v18, v19, v20>>

-----------------------------------------------------------------------------
\* Two workers that may crash, one Modal job with two attempts.
Queue == INSTANCE JobQueue WITH
    Jobs <- {j1}, Modal <- {j1}, Consented <- {}, Workers <- {w1, w2}, MaxAttempts <- 2,
    NoJob <- Nil,
    status <- v1, attempts <- v2, lease <- v3, live <- v4, due <- v5, callId <- v6,
    refunded <- v7, row <- v8, callRow <- v9, events <- v10, artifacts <- v11,
    remote <- v12, stored <- v13, pc <- v14, job <- v15, att <- v16, call <- v17,
    code <- v18

-----------------------------------------------------------------------------
\* One copy of an account, deleted by one runner that may crash or fail.
Lifecycle == INSTANCE DataLifecycle WITH
    Users <- {u1}, Objects <- {}, Owner <- <<>>, Backups <- {b1}, Runners <- {n1},
    HoldKeys <- {k1}, Holdable <- {}, BackupMaxDays <- 1, TombstoneDays <- 2,
    HoldMaxDays <- 1, AuditDays <- 1, Horizon <- 4, NoBackup <- Nil,
    now <- v1, account <- v2, payload <- v3, deletion <- v4, held <- v5, tomb <- v6,
    deletedAt <- v7, hold <- v8, catalog <- v9, copy <- v10, captured <- v11,
    deleteAfter <- v12, deletedOn <- v13, covers <- v14, stale <- v15,
    evaluating <- v16, clear <- v17, verdict <- v18, rpc <- v19, target <- v20

-----------------------------------------------------------------------------
\* One request, both providers, the whole repair budget.
Generate == INSTANCE Generation WITH
    Reqs <- {r1}, SignedIn <- {u1}, Prompts <- {g1}, BadPrompts <- {bad},
    Providers <- {"template", "anthropic"}, Seeds <- {0}, Components <- {c1},
    Models <- {m1}, Checks <- {"CTR-001"}, MaxRepairs <- 3, None <- Nil,
    reqs <- v1, review <- v2, refusals <- v3, artifacts <- v4, usage <- v5, models <- v6

-----------------------------------------------------------------------------
Server ==
    [node |-> "production", dep |-> "sandbox", legacy |-> FALSE, revision |-> TRUE,
     secrets |-> "files", manifest |-> "authorizes", origin |-> "https", secret |-> TRUE,
     github |-> "both", dev |-> FALSE, review |-> "long"]
Reads(kind, body) == [ip |-> "a", kind |-> kind, safe |-> TRUE, origin |-> Nil,
                      cookie |-> "t1", dev |-> Nil, body |-> body]

\* Two requests, one of them without end, and a signal.
Access == INSTANCE HttpAccess WITH
    Configs <- {Server},
    Requests <- {Reads("auth", "unbounded"), Reads("public", "carries-key")},
    Tokens <- {"t1"}, SessionUsers <- {"u1"}, Window <- 2, Limit <- [job |-> 9, public |-> 9],
    MaxBuckets <- 4, MaxTime <- 2, MaxRequests <- 2, Absent <- Nil,
    env <- v1, proc <- v2, buckets <- v3, sessions <- v4, reqs <- v5, done <- v6,
    arrivals <- v7, now <- v8, sent <- v9

-----------------------------------------------------------------------------
\* One process, one batch, one fault.
Custody == INSTANCE ObservabilityCustody WITH
    Procs <- {p1}, MaxId <- 1, MaxRecords <- 1, Retention <- 1, MaxClock <- 1,
    MaxFaults <- 1, Nil <- Nil,
    vol <- v1, dur <- v2, left <- v3, lock <- v4, op <- v5, created <- v6, bad <- v7,
    used <- v8, returned <- v9, last <- v10, killed <- v11, clock <- v12, faults <- v13

-----------------------------------------------------------------------------
Segments == {<<"x", "n">>, <<"x", "x", "r", "n">>, <<"n">>, <<"z", "n">>, <<"x", "x", "x", "n">>}
Tails == {<<>>, <<"x">>, <<"x", "x", "r">>}
Loopback == [scheme |-> "http", host |-> "127.0.0.1", credentials |-> FALSE, query |-> FALSE,
             fragment |-> FALSE, port |-> 4318]

\* Every input of two lines, every command.
Delivery == INSTANCE ObservabilityDelivery WITH
    Streams <- {a \o b \o e : a, b \in Segments, e \in Tails}, Endpoints <- {Loopback},
    Commands <- {"deliver", "check", "other"}, MaxLine <- 2, MaxBatch <- 2,
    MaxBatchBytes <- 8, Envelope <- 3, Statuses <- {200, 500}, None <- Nil,
    command <- v1, endpoint <- v2, stream <- v3, read <- v4, pos <- v5, buffered <- v6,
    phase <- v7, wire <- v8, answer <- v9, accepted <- v10, batches <- v11,
    events <- v12, final <- v13, exit <- v14

-----------------------------------------------------------------------------
\* The controller c1, which the authorization binds, and the telemetry adapter usb.
DescOf == [d \in {c1, usb} |-> IF d = usb THEN "adapter" ELSE "controller"]
Auth == [id |-> "a1", art |-> x1, model |-> m1, hash |-> h1, port |-> p1, desc |-> "adapter",
         idPort |-> p2, idDesc |-> "controller", uid |-> c1, expires |-> 1]

\* One capture and one reload.
Capture == INSTANCE DesktopCapture WITH
    Artifacts <- {x1}, Dirs <- {d1}, Ports <- {p1, p2}, Devices <- {c1, usb},
    Hashes <- {h1}, Models <- {m1}, DescOf <- DescOf, Auths <- {Auth}, MaxTime <- 1,
    MaxReloads <- 1, MaxSwaps <- 0, None <- Nil,
    active <- v1, archives <- v2, proofFile <- v3, authFile <- v4, plugged <- v5,
    now <- v6, drift <- v7, cmds <- v8, inbox <- v9, page <- v10, ui <- v11,
    swaps <- v12

-----------------------------------------------------------------------------
Info == [c \in {bu, bw} |-> IF c = bw THEN [art |-> "a", hash |-> "h2", frames |-> 2]
                                      ELSE [art |-> "a", hash |-> "h1", frames |-> 1]]

\* One directory, replaced once.
Import == INSTANCE ArchiveImport WITH
    Folders <- {d1}, Contents <- {bu, bw}, Info <- Info, Files <- {"manifest"},
    Candidates <- {m1, m2}, HashOf <- [m \in {m1, m2} |-> IF m = m1 THEN "h1" ELSE "h2"],
    MaxMoves <- 1, Absent <- Nil,
    claims <- v1, disk <- v2, moves <- v3, verified <- v4, objects <- v5, rows <- v6,
    admitted <- v7, path <- v8, inspection <- v9, materialization <- v10,
    admission <- v11, model <- v12, hi <- v13, hm <- v14, ha <- v15

-----------------------------------------------------------------------------
Policies == {[id |-> "p1", model |-> m1, gate |-> "exportable"],
             [id |-> "p2", model |-> m2, gate |-> "blocked"]}
SupervisorJob(id, rates) ==
    [id |-> id, done |-> TRUE, allow |-> TRUE, command |-> "policy-advisory", reasons |-> 0,
     rates |-> rates]

\* One rehearsal, one reload.
Ladder == INSTANCE DeploymentLadder WITH
    Pool <- {m1, m2}, Rigs <- {"quad"}, Policies <- Policies,
    Jobs <- {SupervisorJob("j1", <<50, 200>>), SupervisorJob("j2", <<50, 100>>)},
    MaxStarts <- 1, MaxLoads <- 1, Nothing <- Nil,
    session <- v1, faulty <- v2, orders <- v3, response <- v4, load <- v5, starts <- v6,
    ladderUi <- v7, props <- v8, ticks <- v9

-----------------------------------------------------------------------------
\* Two controllers of one session, one fault.
Playback == INSTANCE PolicyPlayback WITH
    Controllers <- {1, 2}, Targets <- 1, Duration <- 1, Period <- 1, MaxFrames <- 1,
    MaxSessions <- 1, MaxFaults <- 1,
    facade <- v1, core <- v2, ctl <- v3, loop <- v4, count <- v5

-----------------------------------------------------------------------------
Init ==
    \/ part = "queue" /\ Queue!Init /\ Idle19
    \/ part = "lifecycle" /\ Lifecycle!LifInit
    \/ part = "generation" /\ Generate!GenInit /\ Idle7
    \/ part = "access" /\ Access!HttpInit /\ Idle10
    \/ part = "custody" /\ Custody!CusInit /\ Idle14
    \/ part = "delivery" /\ Delivery!Init /\ Idle15
    \/ part = "capture" /\ Capture!CapInit /\ Idle13
    \/ part = "import" /\ Import!ImpInit /\ Idle16
    \/ part = "ladder" /\ Ladder!RehInit /\ Idle10
    \/ part = "playback" /\ Playback!PlayInit /\ Idle6

Next ==
    \/ part = "queue" /\ Queue!Next /\ UNCHANGED <<part, Rest19>>
    \/ part = "lifecycle" /\ Lifecycle!LifNext /\ UNCHANGED part
    \/ part = "generation" /\ Generate!GenNext /\ UNCHANGED <<part, Rest7>>
    \/ part = "access" /\ Access!HttpNext /\ UNCHANGED <<part, Rest10>>
    \/ part = "custody" /\ Custody!CusNext /\ UNCHANGED <<part, Rest14>>
    \/ part = "delivery" /\ Delivery!Next /\ UNCHANGED <<part, Rest15>>
    \/ part = "capture" /\ Capture!CapNext /\ UNCHANGED <<part, Rest13>>
    \/ part = "import" /\ Import!ImpNext /\ UNCHANGED <<part, Rest16>>
    \/ part = "ladder" /\ Ladder!RehNext /\ UNCHANGED <<part, Rest10>>
    \/ part = "playback" /\ Playback!PlayNext /\ UNCHANGED <<part, Rest6>>

Fairness ==
    \* Workers keep polling and running, leases and backoffs elapse.
    /\ WF_vars(part = "queue" /\ Queue!Claims(w1) /\ UNCHANGED <<part, Rest19>>)
    /\ WF_vars(part = "queue" /\ Queue!Claims(w2) /\ UNCHANGED <<part, Rest19>>)
    /\ WF_vars(part = "queue" /\ Queue!Runs(w1) /\ UNCHANGED <<part, Rest19>>)
    /\ WF_vars(part = "queue" /\ Queue!Runs(w2) /\ UNCHANGED <<part, Rest19>>)
    /\ WF_vars(part = "queue" /\ Queue!LeaseExpires(j1) /\ UNCHANGED <<part, Rest19>>)
    /\ WF_vars(part = "queue" /\ Queue!BackoffElapses(j1) /\ UNCHANGED <<part, Rest19>>)
    \* Time passes, the sweep and the runner are invoked again and again, and a
    \* provider that is asked again and again does not refuse for ever.
    /\ WF_vars(part = "lifecycle" /\ Lifecycle!NextDay /\ UNCHANGED part)
    /\ WF_vars(part = "lifecycle" /\ Lifecycle!RetentionSweep /\ UNCHANGED part)
    /\ WF_vars(part = "lifecycle" /\ Lifecycle!LeaseElapses(b1) /\ UNCHANGED part)
    /\ WF_vars(part = "lifecycle" /\ Lifecycle!RunnerStep(n1) /\ UNCHANGED part)
    /\ SF_vars(part = "lifecycle" /\ Lifecycle!DeleteCopy(n1) /\ UNCHANGED part)
    /\ SF_vars(part = "lifecycle" /\ Lifecycle!CommitDeleted(n1) /\ UNCHANGED part)
    /\ SF_vars(part = "lifecycle" /\ Lifecycle!ClaimBackup(n1, b1) /\ UNCHANGED part)
    \* The validator and the provider call have timeouts.
    /\ WF_vars(part = "generation" /\ Generate!Handler(r1) /\ UNCHANGED <<part, Rest7>>)
    \* A started process comes up or exits, and its deadline fires.
    /\ WF_vars(part = "access" /\ Access!Start /\ UNCHANGED <<part, Rest10>>)
    /\ WF_vars(part = "access" /\ Access!Deadline /\ UNCHANGED <<part, Rest10>>)
    \* A process that is not killed goes on.
    /\ WF_vars(part = "custody" /\ Custody!Step(p1) /\ UNCHANGED <<part, Rest14>>)
    \* The input ends and the timer fires; the collector owes nothing.
    /\ WF_vars(part = "delivery" /\ Delivery!Reader /\ UNCHANGED <<part, Rest15>>)
    /\ WF_vars(part = "delivery" /\ Delivery!deadline /\ UNCHANGED <<part, Rest15>>)
    \* The shell and the page keep handling what they were sent; no button need be
    \* pressed.
    /\ WF_vars(part = "capture" /\ Capture!Shell /\ UNCHANGED <<part, Rest13>>)
    /\ WF_vars(part = "capture" /\ Capture!Deliver /\ UNCHANGED <<part, Rest13>>)
    /\ WF_vars(part = "ladder" /\ Ladder!LadderShell /\ UNCHANGED <<part, Rest10>>)
    /\ WF_vars(part = "ladder" /\ Ladder!TakeAnswer /\ UNCHANGED <<part, Rest10>>)
    /\ WF_vars(part = "import" /\ Import!inspectRecorderArchive /\ UNCHANGED <<part, Rest16>>)
    /\ WF_vars(part = "import" /\ Import!admitRecorderArchive /\ UNCHANGED <<part, Rest16>>)
    /\ WF_vars(part = "import" /\ Import!materialize /\ UNCHANGED <<part, Rest16>>)
    \* Observations are timed and ONNX Runtime answers.
    /\ WF_vars(part = "playback" /\ Playback!SnapshotTimesOut /\ UNCHANGED <<part, Rest6>>)
    /\ WF_vars(part = "playback" /\ Playback!Promises(1) /\ UNCHANGED <<part, Rest6>>)
    /\ WF_vars(part = "playback" /\ Playback!Promises(2) /\ UNCHANGED <<part, Rest6>>)

Spec == Init /\ [][Next]_vars /\ Fairness

-----------------------------------------------------------------------------
(***************************************************************************)
(* Every job ends, whatever crashes and however often a provider call does *)
(* not answer: the attempt ceiling and the sweep of exhausted leases bring *)
(* it to a terminal status; and no worker goes on polling a call of a job  *)
(* that was cancelled under it ("The waiting worker polls at most every    *)
(* five seconds, observes the revoked lease", docs/MODAL-OPERATIONS.md).   *)
(***************************************************************************)
JobsEnd ==
    /\ <>(part = "queue" => Queue!HasEnded(j1))
    /\ \A x \in {w1, w2} : (part = "queue" /\ Queue!PollsCancelled(x))
                              ~> (part = "queue" => ~Queue!Polls(x))

(***************************************************************************)
(* Every catalogued copy is deleted in the end, through adapter failures,  *)
(* crashed runners and leases that must be reclaimed, and every tombstone  *)
(* is dropped, so pseudonymous records do not pile up (dataLifecycle.ts).  *)
(***************************************************************************)
CopiesExpire ==
    /\ (part = "lifecycle" /\ Lifecycle!Available(b1))
         ~> (part = "lifecycle" => Lifecycle!CopyDeleted(b1))
    /\ (part = "lifecycle" /\ Lifecycle!Tombstoned(u1))
         ~> (part = "lifecycle" => ~Lifecycle!Tombstoned(u1))

\* A service that has something to bring to an end.
ServiceAtWork ==
    \/ part = "generation" /\ Generate!Unanswered(r1)
    \/ part = "access" /\ Access!Stopping
    \/ part = "custody" /\ Custody!Operating
    \/ part = "delivery" /\ Delivery!Delivering

(***************************************************************************)
(* Every accepted brief is answered, a signal ends the server with         *)
(* requests under way or not, a custody operation that is not killed ends  *)
(* and with it its lock, and the telemetry adapter ends whatever its       *)
(* collector does (runGeneration, gatewayProcess, observability-custody,   *)
(* observability-transport).                                               *)
(***************************************************************************)
ServicesEnd == ServiceAtWork ~> ~ServiceAtWork

\* What the page waits for: buttons, import handlers, controllers.
Waits(i) ==
    \/ i = 1 /\ part = "capture" /\ Capture!Busy
    \/ i = 1 /\ part = "ladder" /\ Ladder!Waiting
    \/ i = 1 /\ part = "import" /\ Import!Handling.inspection
    \/ i = 2 /\ part = "import" /\ Import!Handling.materialization
    \/ i = 3 /\ part = "import" /\ Import!Handling.admission
    \/ i \in 1..2 /\ part = "playback" /\ Playback!Chained(i)

(***************************************************************************)
(* No panel is left busy: every press of a button, every import handler    *)
(* and every controller's chain of promises ends, reloads and faults       *)
(* included, and so a disposed controller's runtime is released            *)
(* (desktopRecorder.ts, App.tsx, policyRuntime.ts).                       *)
(***************************************************************************)
PanelsSettle == \A i \in 1..3 : Waits(i) ~> ~Waits(i)
=============================================================================
