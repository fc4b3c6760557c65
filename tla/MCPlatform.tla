------------------------------ MODULE MCPlatform ------------------------------
(***************************************************************************)
(* Small instances of the model registry and marketplace, the server's     *)
(* access control, the custody store, the release tooling, the desktop     *)
(* panels and their shell and the studio page, checked side by side: a     *)
(* behaviour picks a part and runs that component alone.  The variables of *)
(* the part that runs are v1, v2, ... in the order in which the component  *)
(* declares them.                                                          *)
(***************************************************************************)
EXTENDS Integers, Sequences

CONSTANTS None, u1, u2, guest, curator, m1, m2, s1, good, other, bad, p1, l1, q1, i1,
          h1, h2, crs, a1, n1, n2, d1, d2, c1, c2, usb, p2, x1, bu, bv, bw

\* The part that runs, and the variables of its component.
VARIABLES part, v1, v2, v3, v4, v5, v6, v7, v8, v9, v10, v11, v12, v13, v14, v15, v16

\* The variables a part has no use for: none has a value of its own.
Idle16 == v16 = 0
Idle14 == v14 = 0 /\ v15 = 0 /\ Idle16
Idle13 == v13 = 0 /\ Idle14
Idle10 == v10 = 0 /\ v11 = 0 /\ v12 = 0 /\ Idle13
Idle9 == v9 = 0 /\ Idle10
Idle8 == v8 = 0 /\ Idle9
Idle7 == v7 = 0 /\ Idle8
Idle6 == v6 = 0 /\ Idle7
Idle5 == v5 = 0 /\ Idle6
Idle4 == v4 = 0 /\ Idle5
Rest16 == <<v16>>
Rest14 == <<v14, v15, Rest16>>
Rest13 == <<v13, Rest14>>
Rest10 == <<v10, v11, v12, Rest13>>
Rest9 == <<v9, Rest10>>
Rest8 == <<v8, Rest9>>
Rest7 == <<v7, Rest8>>
Rest6 == <<v6, Rest7>>
Rest5 == <<v5, Rest6>>
Rest4 == <<v4, Rest5>>

vars == <<part, v1, v2, v3, v4, v5, v6, v7, v8, v9, v10, v11, v12, v13, v14, v15, v16>>

-----------------------------------------------------------------------------
\* One owner, two requests in flight, one unsound contract.
Registry == INSTANCE PublishingProofs WITH
    Runners <- {}, Checkouts <- {}, MaxStarts <- 0, NoSession <- None, Components <- {},
    Revisions <- {}, MaxBuilds <- 0, NoRecord <- None, Deployables <- {}, Required <- {},
    SourceRevisions <- {}, Digests <- {}, SecretVersions <- {}, MaxManifests <- 0,
    lockHolder <- 0, rows <- 0, executed <- 0, runner <- 0, builds <- 0, attested <- 0,
    pulled <- 0, dir <- 0, publication <- 0, verified <- 0, manifests <- 0, running <- 0,
    everRan <- 0,
    Users <- {u1}, Models <- {m1, m2}, Shares <- {s1}, Contracts <- {good, other, bad},
    Sound <- {good, other}, Calls <- {p1, q1}, Listings <- {}, ReportIds <- {},
    Quotes <- {}, Kinds <- {}, MarketCalls <- {}, MaxSignoffs <- 0, MaxUsage <- 0,
    alive <- v1, models <- v2, spent <- v3, shares <- v4, patterns <- v5,
    consents <- v6, calls <- v7, gate <- v8, listings <- v9, signoffs <- v10,
    modReports <- v11, rollups <- v12, events <- v13, quotes <- v14, offers <- v15,
    mcalls <- v16

-----------------------------------------------------------------------------
\* Listings with edits, gate changes, curation and account deletion.
Market == INSTANCE PublishingProofs WITH
    Runners <- {}, Checkouts <- {}, MaxStarts <- 0, NoSession <- None, Components <- {},
    Revisions <- {}, MaxBuilds <- 0, NoRecord <- None, Deployables <- {}, Required <- {},
    SourceRevisions <- {}, Digests <- {}, SecretVersions <- {}, MaxManifests <- 0,
    lockHolder <- 0, rows <- 0, executed <- 0, runner <- 0, builds <- 0, attested <- 0,
    pulled <- 0, dir <- 0, publication <- 0, verified <- 0, manifests <- 0, running <- 0,
    everRan <- 0,
    Users <- {u1}, Models <- {m1}, Shares <- {}, Contracts <- {good, bad},
    Sound <- {good}, Calls <- {p1}, Listings <- {l1}, ReportIds <- {}, Quotes <- {q1},
    Kinds <- {"model", "policy"}, MarketCalls <- {h1, h2}, MaxSignoffs <- 1,
    MaxUsage <- 1,
    alive <- v1, models <- v2, spent <- v3, shares <- v4, patterns <- v5,
    consents <- v6, calls <- v7, gate <- v8, listings <- v9, signoffs <- v10,
    modReports <- v11, rollups <- v12, events <- v13, quotes <- v14, offers <- v15,
    mcalls <- v16

-----------------------------------------------------------------------------
\* Two users, moderation, and everything account deletion must reach; no usage.
Moderation == INSTANCE PublishingProofs WITH
    Runners <- {}, Checkouts <- {}, MaxStarts <- 0, NoSession <- None, Components <- {},
    Revisions <- {}, MaxBuilds <- 0, NoRecord <- None, Deployables <- {}, Required <- {},
    SourceRevisions <- {}, Digests <- {}, SecretVersions <- {}, MaxManifests <- 0,
    lockHolder <- 0, rows <- 0, executed <- 0, runner <- 0, builds <- 0, attested <- 0,
    pulled <- 0, dir <- 0, publication <- 0, verified <- 0, manifests <- 0, running <- 0,
    everRan <- 0,
    Users <- {u1, u2}, Models <- {m1}, Shares <- {}, Contracts <- {good, bad},
    Sound <- {good}, Calls <- {}, Listings <- {l1}, ReportIds <- {i1}, Quotes <- {},
    Kinds <- {"policy"}, MarketCalls <- {h1, h2}, MaxSignoffs <- 1, MaxUsage <- 0,
    alive <- v1, models <- v2, spent <- v3, shares <- v4, patterns <- v5,
    consents <- v6, calls <- v7, gate <- v8, listings <- v9, signoffs <- v10,
    modReports <- v11, rollups <- v12, events <- v13, quotes <- v14, offers <- v15,
    mcalls <- v16

-----------------------------------------------------------------------------
\* Environments: a production and a test base, and every one that differs from a base
\* in one setting.  Requests for the limiter differ in client and class only, requests
\* for access in all that access reads.
Settings ==
    [node |-> {"production", "test", "development"},
     dep |-> {None, "local", "sandbox", "production", "controlled-lab"},
     legacy |-> BOOLEAN, revision |-> BOOLEAN, secrets |-> {"env", "files", "ambiguous"},
     manifest |-> {"authorizes", "other"}, origin |-> {"none", "http", "https", "malformed"},
     secret |-> BOOLEAN, github |-> {"none", "half", "both"}, dev |-> BOOLEAN,
     review |-> {"none", "short", "long"}]
Base ==
    [node |-> "production", dep |-> "sandbox", legacy |-> FALSE, revision |-> TRUE,
     secrets |-> "files", manifest |-> "authorizes", origin |-> "https", secret |-> TRUE,
     github |-> "both", dev |-> FALSE, review |-> "long"]
Bases == {Base, [Base EXCEPT !.node = "test", !.dep = None, !.manifest = "other",
                             !.origin = "none"]}
Configs == UNION {{[b EXCEPT ![f] = v] : v \in Settings[f]} : b \in Bases, f \in DOMAIN Base}
Req(ip, kind, safe, origin, cookie, dev, body) ==
    [ip |-> ip, kind |-> kind, safe |-> safe, origin |-> origin, cookie |-> cookie,
     dev |-> dev, body |-> body]
Limited == {Req(ip, "job", TRUE, None, None, None, "unbounded") : ip \in {"a", "b"}}
           \cup {Req("c", "public", TRUE, None, None, None, "unbounded")}
AccessRequests ==
    {Req("a", "public", safe, o, c, d, "ok") :
       safe \in BOOLEAN, o \in {None, "own", "local", "foreign"},
       c \in {None, "t1"}, d \in {None, "u2"}}
    \cup {Req("a", kd, TRUE, None, "t1", None, b) :
            kd \in {"auth", "public"}, b \in {"unbounded", "carries-key"}}

\* The variables of the HTTP server, of the owners' rows and of the custody store are v1,
\* v2, ... as well: one of the three runs.

\* Every configuration, one request, limits out of reach; three rows, models and what
\* belongs to them, read by owners, strangers, guests and curators; two processes on one
\* batch, two faults.
First == INSTANCE AccessProofs WITH
    Configs <- Configs, Requests <- AccessRequests, Tokens <- {"t1"},
    SessionUsers <- {"u1", "u2"}, Window <- 2, Limit <- [job |-> 9, public |-> 9],
    MaxBuckets <- 4, MaxTime <- 1, MaxRequests <- 1, Absent <- None,
    env <- v1, proc <- v2, buckets <- v3, sessions <- v4, reqs <- v5, done <- v6,
    arrivals <- v7, now <- v8, sent <- v9,
    Users <- {u1, u2}, Guest <- guest, Curator <- curator,
    Datasets <- <<"model", "job", "event", "listing">>,
    Routes <- {"job", "listings", "mine"}, MaxRows <- 3,
    db <- v1, made <- v2, accounts <- v3, call <- v4, answer <- v5, export <- v6,
    Procs <- {n1, n2}, MaxId <- 1, MaxRecords <- 1, Retention <- 1, MaxClock <- 1,
    MaxFaults <- 2, Nil <- None,
    vol <- v1, dur <- v2, left <- v3, lock <- v4, op <- v5, created <- v6, bad <- v7,
    used <- v8, returned <- v9, last <- v10, killed <- v11, clock <- v12, faults <- v13

-----------------------------------------------------------------------------
\* Three clients, five requests, room for every bucket; two rows, courses, assignments,
\* quotes and what belongs to them; one process on two batches, one more than the store
\* may hold, one fault.
Second == INSTANCE AccessProofs WITH
    Configs <- {Base}, Requests <- Limited, Tokens <- {}, SessionUsers <- {"u1", "u2"},
    Window <- 2, Limit <- [job |-> 2, public |-> 1], MaxBuckets <- 3, MaxTime <- 4,
    MaxRequests <- 5, Absent <- None,
    env <- v1, proc <- v2, buckets <- v3, sessions <- v4, reqs <- v5, done <- v6,
    arrivals <- v7, now <- v8, sent <- v9,
    Users <- {u1, u2}, Guest <- guest, Curator <- curator,
    Datasets <- <<"blob", "course", "run", "assignment", "submission", "quote", "offer">>,
    Routes <- {"course", "leaderboards", "assignments", "submissions", "quotes", "access"},
    MaxRows <- 2,
    db <- v1, made <- v2, accounts <- v3, call <- v4, answer <- v5, export <- v6,
    Procs <- {n1}, MaxId <- 2, MaxRecords <- 1, Retention <- 1, MaxClock <- 1,
    MaxFaults <- 1, Nil <- None,
    vol <- v1, dur <- v2, left <- v3, lock <- v4, op <- v5, created <- v6, bad <- v7,
    used <- v8, returned <- v9, last <- v10, killed <- v11, clock <- v12, faults <- v13

-----------------------------------------------------------------------------
\* The same clients with room for two buckets; every table of the export and every route.
Third == INSTANCE AccessProofs WITH
    Configs <- {Base}, Requests <- Limited, Tokens <- {}, SessionUsers <- {"u1", "u2"},
    Window <- 2, Limit <- [job |-> 2, public |-> 1], MaxBuckets <- 2, MaxTime <- 3,
    MaxRequests <- 5, Absent <- None,
    env <- v1, proc <- v2, buckets <- v3, sessions <- v4, reqs <- v5, done <- v6,
    arrivals <- v7, now <- v8, sent <- v9,
    Users <- {u1, u2}, Guest <- guest, Curator <- curator,
    Datasets <- <<"credit", "model", "blob", "job", "event", "photoscan", "replay", "policy", "course", "run", "listing", "report", "assignment", "submission", "telemetry", "archive", "record", "quote", "offer", "consent">>,
    Routes <- {"models", "model", "blob", "access", "archives", "jobs", "job", "photoscans", "policies", "replays", "telemetry", "quotes", "credits", "consents", "records", "reports", "mine", "courses", "course", "leaderboards", "assignments", "submissions", "listings"},
    MaxRows <- 1,
    db <- v1, made <- v2, accounts <- v3, call <- v4, answer <- v5, export <- v6,
    Procs <- {}, MaxId <- 0, MaxRecords <- 0, Retention <- 0, MaxClock <- 0, MaxFaults <- 0,
    Nil <- None,
    vol <- 0, dur <- 0, left <- 0, lock <- 0, op <- 0, created <- 0, bad <- 0, used <- 0,
    returned <- 0, last <- 0, killed <- 0, clock <- 0, faults <- 0

-----------------------------------------------------------------------------
\* Migration directories: a prefix, a fork, an edited file, a reordering, all files.
File(name, checksum) == [filename |-> name, checksum |-> checksum]
Checkouts == {<<File(1, 1), File(2, 2)>>, <<File(1, 1), File(3, 3)>>,
              <<File(1, 1), File(2, 4), File(3, 3)>>, <<File(2, 2), File(1, 1)>>,
              <<File(1, 1), File(2, 2), File(3, 3)>>}

\* The release tools, of which one runs at a time: two runners started three times, from
\* any of five checkouts; one image built twice, from two revisions; three manifests of one
\* component over two artifacts.
Release == INSTANCE PublishingProofs WITH
    Runners <- {n1, n2}, Checkouts <- Checkouts, MaxStarts <- 3, NoSession <- None,
    lockHolder <- v1, rows <- v2, executed <- v3, runner <- v4,
    Components <- {crs}, Revisions <- {n1, n2}, MaxBuilds <- 2, NoRecord <- None,
    builds <- v1, attested <- v2, pulled <- v3, dir <- v4, publication <- v5,
    verified <- v6,
    Deployables <- {crs}, Required <- {crs}, SourceRevisions <- {n1}, Digests <- {1, 2},
    SecretVersions <- {1}, MaxManifests <- 3,
    manifests <- v1, running <- v2, everRan <- v3,
    Users <- {}, Models <- {}, Shares <- {}, Contracts <- {}, Sound <- {}, Calls <- {},
    Listings <- {}, ReportIds <- {}, Quotes <- {}, Kinds <- {}, MarketCalls <- {},
    MaxSignoffs <- 0, MaxUsage <- 0, alive <- 0, models <- 0, spent <- 0, shares <- 0,
    patterns <- 0, consents <- 0, calls <- 0, gate <- 0, listings <- 0, signoffs <- 0,
    modReports <- 0, rollups <- 0, events <- 0, quotes <- 0, offers <- 0, mcalls <- 0

-----------------------------------------------------------------------------
\* Two images.
Images == INSTANCE PublishingProofs WITH
    Components <- {crs, a1}, Revisions <- {n1, n2}, MaxBuilds <- 2, NoRecord <- None,
    builds <- v1, attested <- v2, pulled <- v3, dir <- v4, publication <- v5,
    verified <- v6,
    Runners <- {}, Checkouts <- {}, MaxStarts <- 0, NoSession <- None, Deployables <- {},
    Required <- {}, SourceRevisions <- {}, Digests <- {}, SecretVersions <- {},
    MaxManifests <- 0, lockHolder <- 0, rows <- 0, executed <- 0, runner <- 0,
    manifests <- 0, running <- 0, everRan <- 0,
    Users <- {}, Models <- {}, Shares <- {}, Contracts <- {}, Sound <- {}, Calls <- {},
    Listings <- {}, ReportIds <- {}, Quotes <- {}, Kinds <- {}, MarketCalls <- {},
    MaxSignoffs <- 0, MaxUsage <- 0, alive <- 0, models <- 0, spent <- 0, shares <- 0,
    patterns <- 0, consents <- 0, calls <- 0, gate <- 0, listings <- 0, signoffs <- 0,
    modReports <- 0, rollups <- 0, events <- 0, quotes <- 0, offers <- 0, mcalls <- 0

-----------------------------------------------------------------------------
\* Two ports and three units, two of which show the same OS descriptor: the controller
\* c1 and its twin c2; usb is the telemetry adapter.  Authorization a1 binds c1 at port
\* p1, a2 binds the twin.
DescOf == [d \in {c1, c2, usb} |-> IF d = usb THEN "adapter" ELSE "controller"]
Auth(id, uid, expires) ==
    [id |-> id, art |-> x1, model |-> m1, hash |-> h1, port |-> p1, desc |-> "adapter",
     idPort |-> p2, idDesc |-> "controller", uid |-> uid, expires |-> expires]

\* Contents bu and bv say the same of themselves and differ in their bytes; bw is another
\* recording of the same artifact under another contract.
Info == [c \in {bu, bv, bw} |-> IF c = bw THEN [art |-> "a", hash |-> "h2", frames |-> 2]
                                      ELSE [art |-> "a", hash |-> "h1", frames |-> 1]]
HashOf == [m \in {m1, m2} |-> IF m = m1 THEN "h1" ELSE "h2"]

\* One policy per model, the second not exportable; one supervisor job passes, one ran
\* at the wrong rate.
Policies == {[id |-> "p1", model |-> m1, gate |-> "exportable"],
             [id |-> "p2", model |-> m2, gate |-> "blocked"]}
Job(id, rates) == [id |-> id, done |-> TRUE, allow |-> TRUE, command |-> "policy-advisory",
                   reasons |-> 0, rates |-> rates]
Jobs == {Job("j1", <<50, 200>>), Job("j2", <<50, 100>>)}

\* Overlays of three traces whose seek indexes name any of their points, and a record
\* that has a failure window beside its overlay, or a window alone.
Pt(i) == [time |-> i, actual |-> i * i, predicted |-> i, divergence |-> i * i - i]
Entry(i, n) == [time |-> i, point |-> n]
Overlay(ts, ix) ==
    [unverified |-> TRUE, startS |-> ts[1], endS |-> ts[Len(ts)],
     durationS |-> ts[Len(ts)] - ts[1], sourceSampleCount |-> 3,
     points |-> [i \in DOMAIN ts |-> Pt(ts[i])], seekIndex |-> ix,
     divergence |-> [status |-> "tracking", maxM |-> 1, warnM |-> 2]]
SeekIndexes == {<<Entry(0, 1), Entry(2, i), Entry(4, j)>> : i \in 1..3, j \in 2..3}
               \cup {<<Entry(0, 1), Entry(4, j)>> : j \in 2..3}
Records ==
    {[window |-> None, overlay |-> Overlay(ts, ix)] :
       ts \in {<<0, 4>>, <<0, 1, 4>>, <<0, 3, 4>>}, ix \in SeekIndexes}
    \cup {[window |-> [startS |-> 0, impactS |-> 5, endS |-> 6], overlay |-> o] :
            o \in {None, Overlay(<<0, 2>>, <<Entry(0, 1), Entry(2, 2)>>)}}

\* The variables of the recorder, of the import of archives, of the deployment ladder and
\* of the parts of the studio page are v1, v2, ... as well: one of them runs.

\* Two captures and a reload; two directories with archives of two files each; two
\* rehearsals, two reloads; two controllers over two sessions; two overlapping
\* operations on the stage; two courses, two handlers at once; every record, played,
\* scrubbed and refreshed.
Desk == INSTANCE DesktopProofs WITH
    Artifacts <- {x1}, Dirs <- {d1, d2}, Ports <- {p1, p2}, Devices <- {c1, usb},
    Hashes <- {h1}, Models <- {m1, m2}, DescOf <- DescOf, Auths <- {Auth("a1", c1, 2)},
    MaxTime <- 2, MaxReloads <- 1, MaxSwaps <- 0, None <- None,
    active <- v1, archives <- v2, proofFile <- v3, authFile <- v4, plugged <- v5,
    now <- v6, drift <- v7, cmds <- v8, inbox <- v9, page <- v10, ui <- v11,
    swaps <- v12,
    Folders <- {d1, d2}, Contents <- {bu, bv, bw}, Info <- Info,
    Files <- {"manifest", "frames"}, Candidates <- {m1, m2}, HashOf <- HashOf,
    MaxMoves <- 0, Absent <- None,
    claims <- v1, disk <- v2, moves <- v3, verified <- v4, objects <- v5, rows <- v6,
    admitted <- v7, path <- v8, inspection <- v9, materialization <- v10,
    admission <- v11, model <- v12, hi <- v13, hm <- v14, ha <- v15,
    Pool <- {m1, m2}, Rigs <- {"quad", "rover"}, Policies <- Policies, Jobs <- Jobs,
    MaxStarts <- 2, MaxLoads <- 2, Nothing <- None,
    session <- v1, faulty <- v2, orders <- v3, response <- v4, load <- v5, starts <- v6,
    ladderUi <- v7, props <- v8, ticks <- v9,
    Controllers <- {1, 2}, Targets <- 1, Duration <- 2, Period <- 1, MaxFrames <- 2,
    MaxSessions <- 2, MaxFaults <- 0,
    facade <- v1, core <- v2, ctl <- v3, loop <- v4, count <- v5,
    MaxOps <- 2,
    stage <- v1, bake <- v2, alive <- v3, ops <- v4, overlap <- v5,
    Courses <- 2, Slots <- {1, 2}, MaxUser <- 1,
    server <- v1, panels <- v2, calls <- v3, effect <- v4, user <- v5,
    Payloads <- Records, TicksPerSecond <- 2, MaxElapsed <- 2, NoRecord <- None,
    records <- v1, selected <- v2, scrubS <- v3, playing <- v4

-----------------------------------------------------------------------------
\* One capture, two changes of devices or authorization; one directory, replaced twice
\* under the panel; one controller over two sessions and one fault, with frames enough for
\* time to add up behind a slow step.
Bench == INSTANCE DesktopProofs WITH
    Artifacts <- {x1}, Dirs <- {d1}, Ports <- {p1, p2}, Devices <- {c1, c2, usb},
    Hashes <- {h1}, Models <- {m1, m2}, DescOf <- DescOf,
    Auths <- {Auth("a1", c1, 2), Auth("a2", c2, 2)}, MaxTime <- 1, MaxReloads <- 0,
    MaxSwaps <- 2, None <- None,
    active <- v1, archives <- v2, proofFile <- v3, authFile <- v4, plugged <- v5,
    now <- v6, drift <- v7, cmds <- v8, inbox <- v9, page <- v10, ui <- v11,
    swaps <- v12,
    Folders <- {d1}, Contents <- {bu, bv, bw}, Info <- Info,
    Files <- {"manifest", "frames"}, Candidates <- {m1, m2}, HashOf <- HashOf,
    MaxMoves <- 2, Absent <- None,
    claims <- v1, disk <- v2, moves <- v3, verified <- v4, objects <- v5, rows <- v6,
    admitted <- v7, path <- v8, inspection <- v9, materialization <- v10,
    admission <- v11, model <- v12, hi <- v13, hm <- v14, ha <- v15,
    Pool <- {}, Rigs <- {}, Policies <- {}, Jobs <- {}, MaxStarts <- 0, MaxLoads <- 0,
    Nothing <- None,
    session <- 0, faulty <- 0, orders <- 0, response <- 0, load <- 0, starts <- 0,
    ladderUi <- 0, props <- 0, ticks <- 0,
    Controllers <- {1}, Targets <- 1, Duration <- 2, Period <- 1, MaxFrames <- 4,
    MaxSessions <- 2, MaxFaults <- 1,
    facade <- v1, core <- v2, ctl <- v3, loop <- v4, count <- v5,
    MaxOps <- 0, stage <- 0, bake <- 0, alive <- 0, ops <- 0, overlap <- 0,
    Courses <- 0, Slots <- {}, MaxUser <- 0,
    server <- 0, panels <- 0, calls <- 0, effect <- 0, user <- 0,
    Payloads <- {}, TicksPerSecond <- 0, MaxElapsed <- 0, NoRecord <- None,
    records <- 0, selected <- 0, scrubS <- 0, playing <- 0

-----------------------------------------------------------------------------
\* What the theorems about the parts ask of their parameters.
ASSUME InstanceConstants ==
    /\ Registry!RegConstants /\ Market!MarketConstants /\ Moderation!MarketConstants
    /\ Release!MigConstants /\ Release!PubConstants /\ Release!LadConstants
    /\ Images!PubConstants
    /\ First!HttpConstants /\ Second!HttpConstants /\ Third!HttpConstants
    /\ First!OwnConstants /\ Second!OwnConstants /\ Third!OwnConstants
    /\ First!CusConstants /\ Second!CusConstants
    /\ Desk!CaptureConstants /\ Desk!ImportConstants /\ Desk!RehearsalConstants
    /\ Bench!CaptureConstants /\ Bench!ImportConstants
    /\ Desk!PlayConstants /\ Desk!StageConstants /\ Desk!PanelsConstants
    /\ Desk!ReplayConstants /\ Bench!PlayConstants

-----------------------------------------------------------------------------
Init ==
    \/ part = "registry" /\ Registry!RegInit /\ Idle8
    \/ part = "market" /\ Market!Init
    \/ part = "moderation" /\ Moderation!Init
    \/ part = "access" /\ First!HttpInit /\ Idle10
    \/ part = "limiter" /\ Second!HttpInit /\ Idle10
    \/ part = "eviction" /\ Third!HttpInit /\ Idle10
    \/ part = "owners" /\ First!OwnInit /\ Idle7
    \/ part = "classes" /\ Second!OwnInit /\ Idle7
    \/ part = "tables" /\ Third!OwnInit /\ Idle7
    \/ part = "custody" /\ First!CusInit /\ Idle14
    \/ part = "records" /\ Second!CusInit /\ Idle14
    \/ part = "migrations" /\ Release!MigInit /\ Idle5
    \/ part = "publication" /\ Release!PubInit /\ Idle7
    \/ part = "images" /\ Images!PubInit /\ Idle7
    \/ part = "promotion" /\ Release!LadInit /\ Idle4
    \/ part = "capture" /\ Desk!CapInit /\ Idle13
    \/ part = "swaps" /\ Bench!CapInit /\ Idle13
    \/ part = "import" /\ Desk!ImpInit /\ Idle16
    \/ part = "moves" /\ Bench!ImpInit /\ Idle16
    \/ part = "ladder" /\ Desk!RehInit /\ Idle10
    \/ part = "playback" /\ Desk!PlayInit /\ Idle6
    \/ part = "faults" /\ Bench!PlayInit /\ Idle6
    \/ part = "stage" /\ Desk!StageInit /\ Idle6
    \/ part = "panels" /\ Desk!PanelsInit /\ Idle6
    \/ part = "replay" /\ Desk!ReplayInit /\ Idle5

Next ==
    \/ part = "registry" /\ Registry!RegNext /\ UNCHANGED <<part, Rest8>>
    \/ part = "market" /\ Market!Next /\ UNCHANGED part
    \/ part = "moderation" /\ Moderation!Next /\ UNCHANGED part
    \/ part = "access" /\ First!HttpNext /\ UNCHANGED <<part, Rest10>>
    \/ part = "limiter" /\ Second!HttpNext /\ UNCHANGED <<part, Rest10>>
    \/ part = "eviction" /\ Third!HttpNext /\ UNCHANGED <<part, Rest10>>
    \/ part = "owners" /\ First!OwnNext /\ UNCHANGED <<part, Rest7>>
    \/ part = "classes" /\ Second!OwnNext /\ UNCHANGED <<part, Rest7>>
    \/ part = "tables" /\ Third!OwnNext /\ UNCHANGED <<part, Rest7>>
    \/ part = "custody" /\ First!CusNext /\ UNCHANGED <<part, Rest14>>
    \/ part = "records" /\ Second!CusNext /\ UNCHANGED <<part, Rest14>>
    \/ part = "migrations" /\ Release!MigNext /\ UNCHANGED <<part, Rest5>>
    \/ part = "publication" /\ Release!PubNext /\ UNCHANGED <<part, Rest7>>
    \/ part = "images" /\ Images!PubNext /\ UNCHANGED <<part, Rest7>>
    \/ part = "promotion" /\ Release!LadNext /\ UNCHANGED <<part, Rest4>>
    \/ part = "capture" /\ Desk!CapNext /\ UNCHANGED <<part, Rest13>>
    \/ part = "swaps" /\ Bench!CapNext /\ UNCHANGED <<part, Rest13>>
    \/ part = "import" /\ Desk!ImpNext /\ UNCHANGED <<part, Rest16>>
    \/ part = "moves" /\ Bench!ImpNext /\ UNCHANGED <<part, Rest16>>
    \/ part = "ladder" /\ Desk!RehNext /\ UNCHANGED <<part, Rest10>>
    \/ part = "playback" /\ Desk!PlayNext /\ UNCHANGED <<part, Rest6>>
    \/ part = "faults" /\ Bench!PlayNext /\ UNCHANGED <<part, Rest6>>
    \/ part = "stage" /\ Desk!StageNext /\ UNCHANGED <<part, Rest6>>
    \/ part = "panels" /\ Desk!PanelsNext /\ UNCHANGED <<part, Rest6>>
    \/ part = "replay" /\ Desk!ReplayNext /\ UNCHANGED <<part, Rest5>>

Spec == Init /\ [][Next]_vars

-----------------------------------------------------------------------------
(***************************************************************************)
(* A model is admitted only with a sound contract, shares and patterns are *)
(* of admitted and consented models, a listing was admitted and gated when *)
(* it was listed, and nothing of a deleted account is left, whatever       *)
(* handlers overlap an edit or a deletion (modelRegistry and marketplace   *)
(* routes).                                                                *)
(***************************************************************************)
RegistrySafe ==
    /\ part = "registry" => Registry!RegTypeOK /\ Registry!StatusOfContract
                            /\ Registry!SharesAdmitted /\ Registry!PatternsConsented
                            /\ Registry!NothingOfDeleted
    /\ part = "market" => Market!MarketTypeOK /\ Market!ListingReportAdmitted
                          /\ Market!PolicyListingsGated /\ Market!OffersHaveRequest
                          /\ Market!RollupCountsEvents
    /\ part = "moderation" => Moderation!MarketNothingOfDeleted

(***************************************************************************)
(* Nobody acts in production under a name no session gave, every response  *)
(* is observed, no client exceeds its rate in any window nor is refused    *)
(* under it, the bucket store stays bounded; an export is one moment of    *)
(* its account and a deletion leaves no row of it (server.ts, rateLimit,   *)
(* accountData.ts).                                                        *)
(***************************************************************************)
AccessSafe ==
    /\ part = "access" => First!HttpTypeOK /\ First!ProductionIdentity
                          /\ First!EveryResponseObserved
    /\ part = "limiter" => Second!AnyWindowBounded /\ Second!RefusedOnlyOverLimit
    /\ part = "eviction" => Third!RefusedOnlyOverLimit /\ Third!StoreBounded
    /\ part = "owners" => First!OwnTypeOK /\ First!AccessSafe
    /\ part = "classes" => Second!OwnTypeOK /\ Second!AccessSafe
    /\ part = "tables" => Third!OwnTypeOK /\ Third!AccessSafe

(***************************************************************************)
(* No record is lost in silence, receipts are true, live records stay      *)
(* within the limit, an audit finds what a crash left, a deleted batch     *)
(* stays deleted and the lock has an owner (observability-custody.mjs).    *)
(***************************************************************************)
CustodySafe ==
    /\ part = "custody" => First!CusTypeOK /\ First!NothingLostInSilence
                           /\ First!ReceiptTruthful /\ First!LiveRecordsBounded
                           /\ First!AuditFindsEverything /\ First!DeletedStaysClosed
                           /\ First!LockHasOwner
    /\ part = "records" => Second!CusTypeOK /\ Second!NothingLostInSilence
                           /\ Second!ReceiptTruthful /\ Second!LiveRecordsBounded
                           /\ Second!AuditFindsEverything /\ Second!DeletedStaysClosed
                           /\ Second!LockHasOwner

(***************************************************************************)
(* The migration history says what ran and runners never fork it; a        *)
(* publication that verifies is of one revision, its evidence bound to its *)
(* images; no environment runs what its predecessor has not, and no secret *)
(* is shared between environments (db-migrate, registry publication,       *)
(* deployment promotion).                                                  *)
(***************************************************************************)
ReleaseSafe ==
    /\ part = "migrations" => Release!MigTypeOK /\ Release!MigrationsSafe
    /\ part = "publication" => Release!PubTypeOK /\ Release!PublicationSafe
    /\ part = "images" => Images!PubTypeOK /\ Images!PublicationSafe
    /\ part = "promotion" => Release!LadTypeOK /\ Release!LadderSafe

(***************************************************************************)
(* The capture, import and deployment panels show what the shell and the   *)
(* gateway hold: proofs follow each other, an offered archive is stopped,  *)
(* rows were verified, a rehearsal stage was confirmed by the operator and *)
(* bound to its evidence, through reloads and late answers                 *)
(* (desktopRecorder.ts, App.tsx, the desktop shell).                       *)
(***************************************************************************)
DesktopSafe ==
    /\ part = "capture" => Desk!CapTypeOK /\ Desk!PanelInStep
                           /\ Desk!ProofContinuity /\ Desk!OfferedArchiveIsStopped
    /\ part = "swaps" => Bench!CapTypeOK /\ Bench!PanelInStep /\ Bench!ProofContinuity
                         /\ Bench!OfferedArchiveIsStopped
    /\ part = "import" => Desk!ImpTypeOK /\ Desk!RowsWereVerified
                          /\ Desk!OnlyPlannedUploaded /\ Desk!DisplayBacked
    /\ part = "moves" => Bench!ImpTypeOK /\ Bench!RowsWereVerified
                         /\ Bench!OnlyPlannedUploaded /\ Bench!DisplayBacked
    /\ part = "ladder" => Desk!RehTypeOK /\ Desk!EveryStageConfirmed
                          /\ Desk!EvidenceBound /\ Desk!LadderInStep

(***************************************************************************)
(* Playback time, runtimes and sessions are accounted for, the stage shows *)
(* one document, a busy flag has a handler behind it and replay seeks land *)
(* on the right point, however loads, plays, answers and refreshes overlap *)
(* (App.tsx, wasm.ts, policyRuntime.ts, ghostReplay.ts).                   *)
(***************************************************************************)
StudioSafe ==
    /\ part = "playback" => Desk!PlayTypeOK /\ Desk!PlaybackSafe
    /\ part = "faults" => Bench!PlayTypeOK /\ Bench!PlaybackSafe
    /\ part = "stage" => Desk!StageSafe
    /\ part = "panels" => Desk!BusyMeansWork
    /\ part = "replay" => Desk!ReplayTypeOK /\ Desk!ReplaySafe

(***************************************************************************)
(* No answer shows a row to a caller who is not entitled to it, whatever   *)
(* other requests change between the check of the caller and the queries   *)
(* ("private courses stay owner-only", docs/TODO.md).                      *)
(***************************************************************************)
AnswersEntitled ==
    [][ /\ part = "owners" => First!AnswersEntitled
        /\ part = "classes" => Second!AnswersEntitled
        /\ part = "tables" => Third!AnswersEntitled ]_vars

(***************************************************************************)
(* A capture begun under custody is never ended by a plain stop, and a     *)
(* complete archive is never changed or deleted, whatever the panel's      *)
(* custody switch, a reload or a failing thread does (desktop recorder     *)
(* commands).                                                              *)
(***************************************************************************)
CaptureSteps ==
    [][ /\ part = "capture" => Desk!CustodyNotBypassed /\ Desk!CompletedArchiveKept
        /\ part = "swaps" => Bench!CustodyNotBypassed /\ Bench!CompletedArchiveKept ]_vars
=============================================================================
