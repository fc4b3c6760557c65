------------------------------- MODULE MCStudio -------------------------------
(***************************************************************************)
(* Small instances of the courses and generated templates of the studio    *)
(* and of the observability pipeline, checked side by side: a behaviour    *)
(* picks a part and runs that component alone.  The variables of the part  *)
(* that runs are v1, v2, ... in the order in which the component declares  *)
(* them.                                                                   *)
(***************************************************************************)
EXTENDS Integers, Sequences

CONSTANTS Nil, u1, u2, crs, r1, tp1, a1

\* The part that runs, and the variables of its component.
VARIABLES part, v1, v2, v3, v4, v5, v6, v7, v8, v9, v10, v11, v12, v13, v14

\* The variables a part has no use for: none has a value of its own.
Idle9 == v9 = 0 /\ v10 = 0 /\ v11 = 0 /\ v12 = 0 /\ v13 = 0 /\ v14 = 0
Idle4 == v4 = 0 /\ v5 = 0 /\ v6 = 0 /\ v7 = 0 /\ v8 = 0 /\ Idle9
Rest9 == <<v9, v10, v11, v12, v13, v14>>
Rest4 == <<v4, v5, v6, v7, v8, Rest9>>

vars == <<part, v1, v2, v3, v4, v5, v6, v7, v8, v9, v10, v11, v12, v13, v14>>

-----------------------------------------------------------------------------
\* EnvSpec as buildTemplateEnvSpec and users write it; tapes that are and are not in order.
CourseTemplates == {"arm", "biped", "quadruped", "rover", "fixedwing", "multirotor"}
EnvSpecs == INSTANCE EnvSpec
OneSpec == {[EnvSpecs!buildTemplateEnvSpec("rover", 0) EXCEPT !.tasks = {}]}
Tapes == {[times |-> <<0, 1>>, hash |-> "h1", contract |-> "k1"],
          [times |-> <<1, 1>>, hash |-> "h2", contract |-> "k1"]}

\* Runs, replays, consent and account deletion on one course.
Course == INSTANCE Courses WITH
    Users <- {u1, u2}, CourseIds <- {crs}, RunIds <- {r1}, ReplayIds <- {tp1},
    AssignmentIds <- {}, SubmissionIds <- {}, Authored <- OneSpec, Templates <- {},
    Seeds <- {}, Tapes <- Tapes, Hashes <- {"h1", "k1"}, Contracts <- {"good", "bad"},
    Sound <- {"good"}, None <- Nil,
    alive <- v1, published <- v2, courses <- v3, runs <- v4, replays <- v5,
    assignments <- v6, submissions <- v7, refused <- v8

-----------------------------------------------------------------------------
\* An assignment on one course, submissions to it, account deletion.
School == INSTANCE Courses WITH
    Users <- {u1, u2}, CourseIds <- {crs}, RunIds <- {}, ReplayIds <- {},
    AssignmentIds <- {a1}, SubmissionIds <- {a1}, Authored <- OneSpec, Templates <- {},
    Seeds <- {}, Tapes <- {}, Hashes <- {"h1", "k1"}, Contracts <- {"good", "bad"},
    Sound <- {"good"}, None <- Nil,
    alive <- v1, published <- v2, courses <- v3, runs <- v4, replays <- v5,
    assignments <- v6, submissions <- v7, refused <- v8

-----------------------------------------------------------------------------
Spots == {-1000, 0, 1000}
Authored ==
    {[bounds |-> <<4000, 4000, 4000>>, tasks |-> {"reach"},
      spawns |-> {[p |-> <<sx, 0, 0>>, filter |-> f]},
      obstacles |-> {[c |-> <<ox, 0, oz>>, s |-> <<500, 500, 500>>]},
      gates |-> {[id |-> "g1", p |-> <<gx, 0, gz>>, w |-> 100]}, order |-> <<g>>, limit |-> 45] :
       sx, ox, oz \in Spots, gx \in {-1500, 2500}, gz \in Spots,
       f \in {"rover", "arm"}, g \in {"g1", "g2"}}

\* Every template, and hand-written courses around one obstacle.
Env == INSTANCE Courses WITH
    Users <- {u1}, CourseIds <- {crs}, RunIds <- {}, ReplayIds <- {},
    AssignmentIds <- {}, SubmissionIds <- {}, Authored <- Authored,
    Templates <- CourseTemplates, Seeds <- {0, 1, 2, 3, 4, 5, 6, 13}, Tapes <- {},
    Hashes <- {"h1", "k1"}, Contracts <- {"good", "bad"}, Sound <- {"good"},
    None <- Nil,
    alive <- v1, published <- v2, courses <- v3, runs <- v4, replays <- v5,
    assignments <- v6, submissions <- v7, refused <- v8

-----------------------------------------------------------------------------
\* Two motors of one model and a flight controller: a category offered twice, one
\* not mounted by every template.
Part(id, category, major) == [id |-> id, category |-> category, major |-> major]

\* Every template family, two repairs.
Template == INSTANCE TemplateContract WITH
    Components <- {Part("k1", "motor", 1), Part("k2", "motor", 2), Part("k3", "fc", 1)},
    Requested <- {Nil, "arm", "biped"}, Mentions <- {"rover", "fixedwing"},
    Flaggings <- {{}, {2}, {13, 14}, 1..20}, MaxRepairs <- 2, None <- Nil,
    request <- v1, contract <- v2, repairs <- v3

-----------------------------------------------------------------------------
\* Inputs of up to three lines: x a character of an event, n and r the line ends, z a
\* character that makes its line no event.
Segments == {<<"x", "n">>, <<"x", "x", "n">>, <<"x", "x", "r", "n">>, <<"x", "r", "n">>,
             <<"n">>, <<"z", "n">>, <<"x", "x", "x", "n">>}
Tails == {<<>>, <<"x">>, <<"x", "x", "r">>, <<"z">>}
Lines == {<<"x", "n">>, <<"x", "x", "n">>, <<"x", "x", "r", "n">>}
Streams == {a \o b \o c \o e : a \in Lines, b \in Segments, c \in Segments, e \in Tails}
             \cup {<<>>, <<"r">>, <<"x", "n", "x", "n", "x", "n", "x", "n", "x">>}
ShortStreams == {a \o e : a \in Segments, e \in Tails} \cup {<<>>, <<"x">>}
At(s, h, c, q, f, p) ==
    [scheme |-> s, host |-> h, credentials |-> c, query |-> q, fragment |-> f, port |-> p]
Loopback == At("http", "127.0.0.1", FALSE, FALSE, FALSE, 4318)
Endpoints ==
    {Loopback, At("http", "[::1]", FALSE, FALSE, FALSE, 65535),
     At("https", "127.0.0.1", FALSE, FALSE, FALSE, 4318),
     At("http", "collector.example", FALSE, FALSE, FALSE, 4318),
     At("http", "127.0.0.1", TRUE, FALSE, FALSE, 4318),
     At("http", "127.0.0.1", FALSE, TRUE, FALSE, 4318),
     At("http", "127.0.0.1", FALSE, FALSE, TRUE, 4318),
     At("http", "127.0.0.1", FALSE, FALSE, FALSE, 80),
     At("http", "127.0.0.1", FALSE, FALSE, FALSE, Nil)}

\* Every input of up to three lines.
Delivery == INSTANCE ObservabilityDelivery WITH
    Streams <- Streams, Endpoints <- {Loopback}, Commands <- {"deliver"}, MaxLine <- 2,
    MaxBatch <- 2, MaxBatchBytes <- 8, Envelope <- 3, Statuses <- {200, 307},
    None <- Nil,
    command <- v1, endpoint <- v2, stream <- v3, read <- v4, pos <- v5, buffered <- v6,
    phase <- v7, wire <- v8, answer <- v9, accepted <- v10, batches <- v11,
    events <- v12, final <- v13, exit <- v14

-----------------------------------------------------------------------------
\* Every command and collector address.
Cli == INSTANCE ObservabilityDelivery WITH
    Streams <- ShortStreams, Endpoints <- Endpoints,
    Commands <- {"deliver", "check", "other"}, MaxLine <- 2, MaxBatch <- 2,
    MaxBatchBytes <- 8, Envelope <- 3, Statuses <- {200, 500, 700}, None <- Nil,
    command <- v1, endpoint <- v2, stream <- v3, read <- v4, pos <- v5, buffered <- v6,
    phase <- v7, wire <- v8, answer <- v9, accepted <- v10, batches <- v11,
    events <- v12, final <- v13, exit <- v14

-----------------------------------------------------------------------------
Runtime(e, r, d) == [env |-> e, rev |-> r, dep |-> d]
Runtimes == {Runtime("local", Nil, Nil), Runtime("production", "rev", "dep"),
             Runtime("controlled-lab", "rev", Nil)}
Resp(m, r, s, d, h) == [method |-> m, route |-> r, status |-> s, dur |-> d, hash |-> h]
Responses ==
    {Resp("GET", "/a", 200, 4, FALSE), Resp("GET", "/a", 204, 15, TRUE),
     Resp("GET", "/a", 404, 30, FALSE), Resp("POST", "/auth", 500, 40, FALSE),
     Resp("HEAD", "/a", 200, 0, FALSE)}
Att(task, p, n, q, c, o, d, e, r, h) ==
    [job |-> "j", task |-> task, provider |-> p, n |-> n, request |-> q, call |-> c,
     outcome |-> o, dur |-> d, error |-> e, retry |-> r, hash |-> h]
Attempts ==
    {Att("train.policy", "modal", 1, "q", "call", "succeeded", 60, Nil, Nil, FALSE),
     Att("train.policy", "modal", 2, "q", Nil, "discarded", 20, "lease-not-current", Nil, FALSE),
     Att("sim", "local", 0, Nil, Nil, "retry-scheduled", 10, "busy", 2, FALSE),
     Att("sim", "local", 11, Nil, Nil, "failed", 10, "handler-failed", Nil, FALSE)}
Documented == {[method |-> "GET", path |-> "/a"], [method |-> "*", path |-> "/auth"]}

\* Batches of up to three gateway and worker events.
Signals == INSTANCE ObservabilitySignals WITH
    Runtimes <- Runtimes, Responses <- Responses, Attempts <- Attempts,
    Candidates <- {Nil}, Documented <- Documented, Tasks <- {"sim", "train.policy"},
    GatewayBuckets <- <<5, 20, 40>>, WorkerBuckets <- <<10, 60>>, GatewaySlow <- 20,
    WorkerSlow <- 60, GatewayMax <- 40, WorkerMax <- 60, RetryMax <- 2, MaxEvents <- 3,
    None <- Nil,
    batch <- v1, candidate <- v2, signals <- v3

-----------------------------------------------------------------------------
\* Candidates for the validators: an event of each kind with any two fields changed.
GatewayEvent(rt, status) ==
    Signals!createGatewayRequestObservation(rt, Resp("GET", "/a", status, 4, FALSE))
Started == Signals!create_worker_attempt_started_observation(Runtime("local", Nil, Nil),
               Att("sim", "local", 1, "q", Nil, Nil, 0, Nil, Nil, FALSE))
Completed(o, e, r) ==
    Signals!create_worker_attempt_completed_observation(Runtime("production", "rev", "dep"),
        Att("train.policy", "modal", 1, "q", "call", o, 5, e, r, FALSE))
Emitted == {GatewayEvent(Runtime("local", Nil, Nil), 200),
            GatewayEvent(Runtime("production", "rev", "dep"), 404), Started,
            Completed("succeeded", Nil, Nil), Completed("retry-scheduled", "busy", 2),
            Completed("failed", "e", Nil), Completed("discarded", "e", Nil)}
Values ==
    [name |-> {"gateway.request.completed", "worker.job.attempt.started",
               "worker.job.attempt.completed", "other"},
     service |-> {"gateway", "workers"}, level |-> {"info", "warn", "error"},
     env |-> {"ci", "staging", "elsewhere"}, rev |-> {Nil, "rev"}, dep |-> {Nil, "dep"},
     request |-> {Nil, "q"}, parent |-> {Nil, "q"}, job |-> {Nil, "j"},
     attempt |-> {Nil, "a"}, call |-> {Nil, "call"}, method |-> {Nil, "GET", "TRACE"},
     route |-> {Nil, "/a"}, status |-> {Nil, 99, 302, 404, 599, 600},
     outcome |-> Signals!WorkerOutcomes \cup {Nil, "success", "client-error"},
     dur |-> {Nil, 0, 40, 41, 60, 61}, task |-> {Nil, "sim", "train.policy"},
     provider |-> {Nil, "local", "modal"}, n |-> {Nil, 1, 10, 11}, error |-> {Nil, "e"},
     retry |-> {Nil, 0, 2, 3}]
Changed(e) == UNION {{[e EXCEPT ![f] = x] : x \in Values[f]} : f \in DOMAIN Values}
Candidates == UNION {UNION {Changed(d) : d \in Changed(e)} : e \in Emitted}

\* No batches: the candidates alone, one per initial state; the part takes no step.
Events == INSTANCE ObservabilitySignals WITH
    Runtimes <- {}, Responses <- {}, Attempts <- {}, Candidates <- Candidates,
    Documented <- Documented, Tasks <- {"sim", "train.policy"},
    GatewayBuckets <- <<5, 20, 40>>, WorkerBuckets <- <<10, 60>>, GatewaySlow <- 20,
    WorkerSlow <- 60, GatewayMax <- 40, WorkerMax <- 60, RetryMax <- 2, MaxEvents <- 3,
    None <- Nil,
    batch <- v1, candidate <- v2, signals <- v3

-----------------------------------------------------------------------------
Init ==
    \/ part = "courses" /\ Course!Init /\ Idle9
    \/ part = "school" /\ School!Init /\ Idle9
    \/ part = "env" /\ Env!Init /\ Idle9
    \/ part = "template" /\ Template!Init /\ Idle4
    \/ part = "delivery" /\ Delivery!Init
    \/ part = "cli" /\ Cli!Init
    \/ part = "signals" /\ Signals!Init /\ Idle4
    \/ part = "events" /\ Events!Init /\ Idle4

Next ==
    \/ part = "courses" /\ Course!Next /\ UNCHANGED <<part, Rest9>>
    \/ part = "school" /\ School!Next /\ UNCHANGED <<part, Rest9>>
    \/ part = "env" /\ Env!Next /\ UNCHANGED <<part, Rest9>>
    \/ part = "template" /\ Template!Next /\ UNCHANGED <<part, Rest4>>
    \/ part = "delivery" /\ Delivery!Next /\ UNCHANGED part
    \/ part = "cli" /\ Cli!Next /\ UNCHANGED part
    \/ part = "signals" /\ Signals!Next /\ UNCHANGED <<part, Rest4>>

Spec == Init /\ [][Next]_vars

-----------------------------------------------------------------------------
(***************************************************************************)
(* Runs are published under consent and verified ones have their tape,     *)
(* submissions pass only with an admitted contract, every template course  *)
(* is admitted, an admitted course can be driven; and every generated      *)
(* contract, repaired or not, resolves, keeps its slots locked, tiles its  *)
(* windows and stays within the collider budget (the course routes,        *)
(* runtime.rs, generation templates).                                      *)
(***************************************************************************)
CoursesSafe ==
    /\ part = "courses" => Course!TypeOK /\ Course!RunsConsented
                           /\ Course!VerifiedHasTape
    /\ part = "school" => School!TypeOK /\ School!PassedIsAdmitted
    /\ part = "env" => Env!TemplatesAdmitted /\ Env!AdmittedReachable
                       /\ Env!AdmittedInside
    /\ part = "template" => Template!TypeOK /\ Template!ContractResolves
                            /\ Template!SlotsLocked /\ Template!WindowsTile
                            /\ Template!SplitsFill /\ Template!WithinColliderBudget

(***************************************************************************)
(* The collector holds a prefix of the accepted events and the report says *)
(* how many, whatever is lost; the signals derived from a batch account    *)
(* for every event, a changed record is detected, and the two validators   *)
(* agree on every event (observability-transport.mjs,                      *)
(* observability-signals.mjs, observability.ts, observability.py).         *)
(***************************************************************************)
TelemetrySafe ==
    /\ part = "delivery" => Delivery!TypeOK /\ Delivery!CollectorHoldsPrefix
                            /\ Delivery!ReportTruthful /\ Delivery!RefusalHasReason
    /\ part = "cli" => Cli!LoopbackOnly
    /\ part = "signals" => Signals!TypeOK /\ Signals!ProjectionAccepted
                           /\ Signals!SeriesMatchBatch /\ Signals!FailuresTraced
                           /\ Signals!TamperDetected
    /\ part = "events" => Events!ValidatorsAgree
=============================================================================
