# Verification of ForgedTTC

TLA+ specifications of ForgedTTC's own logic: the durable job queue and its GPU
provider, job admission, the lifecycle of deleted data, the gateway's storage, archive,
generation, registry, marketplace and course handlers, its access control, the desktop
and studio panels, the observability pipeline and the release tooling. Each module is
written from the source named in its header. TLC checks it on small instances; TLAPS
proves, for every instance, the safety properties of all of them but the courses and the
delivery and signals of the observability pipeline.

`tlc -config JobQueueSafety.cfg MCJobQueue` runs one model, `tlapm BackgroundProofs.tla`
checks one proof module. `PROJECT.json` lists runs, mutants, the definition-to-source
map, findings, hazards and theorems.

## 1. Inventory

| Component | State | Operations | Interacts through | What is hard |
|---|---|---|---|---|
| Job queue: `workers/forge_workers/queue.py` | `jobs`, `job_observability_attempts`, `job_provider_calls`, `job_events` | `claim_one`, `mark_succeeded`, `mark_failed`, `mark_retryable`, `record_event` | Postgres rows shared by all workers and the gateway | leases that expire under a working process, reclaims, crashes, late settlements |
| Modal adapter: `modal_adapter.py` | one provider call, its id in `jobs` | spawn, persist, reattach, poll, get, cancel | provider API, callbacks into the queue store | a paid call outlives the worker, ambiguous results, stop requests that fail |
| Job admission: `platform.ts` `createJob`, `assertModalJobQuota` | `jobs`, `credit_accounts`, `credit_ledger` | create, replay | one serializable transaction per request | counts read from a snapshot, duplicate and concurrent requests |
| Job outputs: `platform.ts` `materializeJobOutput`, routes of `server.ts` | policies, telemetry logs, photoscans, wear estimates, offers | materialize, share, align, deliver | object store, consents | an artifact made in a statement after its job |
| Owner cancellation: `cancelOwnedJob` | job rows | cancel, refund | the worker's fence | cancel against upload, commit and retry |
| Consent ledger: `consent.ts` | `user_consent_events` | grant, withdraw, check | admission, running jobs, published rows | withdrawal against a request that has passed the check |
| Data lifecycle: `dataLifecycle.ts` | holds, backups, tombstones, restore tests | hold, register, evaluate, delete copies, sweep | advisory locks, a deletion adapter | stale snapshots, overlapping runners, day boundaries |
| Account deletion and export: `accountData.ts` | every table of an owner, object storage | delete, export | lifecycle locks, object store | objects deleted before the commit, handlers under way |
| Object uploads: `objectStorage.ts`, `platform.ts` | `object_blobs`, the store | sign, complete, verify | presigned URLs | overwrite between verification and use |
| Recorder archives: `recorderArchives.ts`, `recorderAdmission.ts` | materialization and admission rows | stage, complete, admit | object store, verifier | several transactions around slow reads |
| Cost reconciliation: `scripts/modal-reconcile-cost.mjs` | cost columns of jobs and calls | reconcile | operator, retries | idempotence after a retry |
| Generation: `generation.ts`, `generatedArtifacts.ts`, `validator.ts` | artifacts, usage events, refusals | generate, repair, register | provider, validator process | bounded repair, three writes that are not one |
| Registry, marketplace, courses: `platform.ts`, `server.ts` | models, shares, patterns, listings, signoffs, quotes, courses, runs, submissions | the routes | each other, consents, account deletion | rows read in one statement and used in a later one |
| HTTP process: `server.ts`, `security.ts`, `auth.ts`, `deployment.ts`, `index.ts` | buckets, sessions, configuration | bootstrap, hooks, identity, shutdown | every route | full bucket store, window boundaries, shutdown under load |
| Desktop: `desktopRecorder.ts`, `deploymentLadder.ts`, `main.rs`, `custody.rs`, `ladder.rs` | recorder, archives, proofs, ladder session | start, stop, inspect, import, advance | commands and answers, the gateway | reloads, replaced devices and directories, late answers |
| Studio: `App.tsx`, `wasm.ts`, `policyRuntime.ts`, `session.worker.ts`, `ghostReplay.ts` | stage, sessions, playback, panel flags | load, patch, save, play, refresh, scrub | worker messages, the gateway | overlapping asynchronous handlers |
| Observability: `observability.ts`, `observability.py`, `scripts/observability-*.mjs` | event stream, signal sets, custody store | emit, validate, deliver, project, store, delete, audit | standard input, a collector, the file system | lost answers, crashes between system calls |
| Release: `postgres-migrations.mjs`, `hardened-runtime-registry.mjs`, `deployment-policy.mjs` | migration ledger, evidence directory, manifests | apply, publish, verify, promote | advisory lock, registry, operator | concurrent runners, files replaced between steps |
| Review queue, licence exports: `reviewQueue.ts`, `licenseExports.ts` | single rows | update, export | none | none of their own |
| Rust kernels: `crates/*`; training and co-design | none | validate, simulate, plan, train | wasm, command line | floating-point numerics |

What makes them correct, in one sentence each: a job is settled by the one worker that
holds its current lease, once, and published at most once; the provider is paid for at
most one running call the database knows of; concurrent requests share one quota and each
is debited once; a withdrawn consent leaves no job at work and no row published; a deleted
subject never comes back from a backup; what is marked verified, admitted or complete was
so at that moment, whatever ran in between; an answer shows a caller only what the caller may
see; a panel shows what the shell and the gateway hold; telemetry that is reported
delivered was delivered, and no custody record is lost without a trace.

## 2. Modules

| Module | Models | Uses |
|---|---|---|
| `JobLifecycle` | what the owner of a job may rely on: bounded attempts, one end, a refund only with a cancellation | |
| `JobQueue` | workers, Modal adapter, cancellation, consent withdrawal | refines `JobLifecycle` |
| `JobAdmission` | `createJob`, quota, ledger, cancellation, consents | |
| `JobOutputs` | fixture jobs, materializers, deliveries, sharing, vendor refresh, retention of artifacts | |
| `DataLifecycle` | account deletion, holds, backups, restore gate, sweep | |
| `ObjectUpload` | declarations, presigned uploads, completion, policy writer, deletion of payloads | |
| `RecorderArchive` | staging, completion and admission of archives | extends `ObjectUpload` |
| `CostReconcile` | the reconciliation command beside the workers' writes | |
| `Generation` | request, synthesis, validation, repair, the rows a generation writes | |
| `TemplateContract` | the six template contracts and their repairs | |
| `ModelRegistry` | models, edits, shares, patterns, deletion | |
| `Marketplace` | gates, listings, signoffs, moderation, rollups, quotes | extends `ModelRegistry` |
| `EnvSpec` | the course template and the checks of `forge-validate env` | |
| `Courses` | courses, runs, replays, assignments, submissions | extends `EnvSpec` |
| `HttpAccess` | bootstrap, hooks, limiter, identity, completion events, shutdown | |
| `OwnerAccess` | read routes, export, purge | |
| `Migrations`, `RegistryPublication`, `PromotionLadder` | the three release tools | |
| `DesktopCapture`, `ArchiveImport`, `DeploymentLadder` | the three desktop panels with the shell behind them | |
| `PolicyPlayback`, `StudioStage`, `StudioPanels`, `GhostReplay` | the studio page | |
| `ObservabilityDelivery`, `ObservabilitySignals`, `ObservabilityCustody` | the observability pipeline | |
| `MCJobQueue`, `MCJobAdmission`, `MCDataLifecycle` | constants and symmetry of the core runs | the module each is named after |
| `MCProgress`, `MCGateway`, `MCPlatform`, `MCStudio` | instances of several modules checked side by side | the modules they instantiate |
| `BackgroundProofs` | theorems on `JobQueue` and `DataLifecycle` | both |
| `RequestProofs` | theorems on `JobAdmission`, `Generation`, `JobOutputs` and `CostReconcile` | all four |
| `StorageProofs` | theorems on `ObjectUpload` and `RecorderArchive` | `RecorderArchive` |
| `PublishingProofs` | theorems on `ModelRegistry`, `Marketplace` and the release tools | `Marketplace`, `Migrations`, `RegistryPublication`, `PromotionLadder` |
| `AccessProofs` | theorems on `OwnerAccess`, `HttpAccess` and `ObservabilityCustody` | all three |
| `DesktopProofs` | theorems on the three desktop panels and the four modules of the studio page | all seven |
| `GatewayProofs`, `PlatformProofs` | the properties the side-by-side runs check, from the lemmas of the components | `MCGateway`, `MCPlatform` |

Modules that a proof module extends together have no name in common, so some are spelt
otherwise than in the code: the init and next-state relations carry a prefix (`LifInit`,
`CusNext`), and where two modules model the same thing twice the second has a synonym
(`JobOutputs` grants a "purpose", `DeploymentLadder` has `orders` and a `response` where
`DesktopCapture` has `cmds` and an `inbox`; `PolicyPlayback` calls the page's loop `loop` and the
session worker's proxy `facade`). The map of `PROJECT.json` gives the code's names.

In all modules an action is the code between two points where something else can run: a
database transaction, or the statements between two awaits. Where a handler keeps what
it read across an await, the model keeps it in the handler's record, so stale use is
possible in the model exactly where it is in the code.

### JobQueue

One database transaction is one action; `pc[w]` says where in `run_once` a worker is
between two of them, so expiry, crash, cancellation, provider and other workers
interleave at every such point.

- `live[j]` is `lease_expires_at > now()`, `due[j]` is `available_at <= now()`. Time is
  nothing more than these two predicates changing. The adapter's own deadline,
  min(timeout, 28,800 s), never precedes the lease's, and is met by the same steps.
- A lease token and a provider call are named by the attempt that created them, 0 is
  NULL. Tokens are random and fresh in the code, so this loses nothing.
- `claim_one` is `ClaimTransaction`: it fails every exhausted job, and then claims at
  most one, in one transaction. `ORDER BY` is dropped because `SKIP LOCKED` makes any
  eligible job possible.
- Output is the counter `artifacts[j]`, raised inside the success transaction where
  `_materialize_job_output` is called; the policy object is `stored[j]`, set before it.
- `RecordProviderCancelled` is not fenced, as in the code; `record_event` selects from
  `jobs`, so it never raises.
- A crash may happen at any `pc`. A database error ends `run_forever` and is a crash.
- `remote[j][a]` is what really happens at the provider; nothing makes it finish.

### JobAdmission

A job is named by its scoped idempotency key. `Begin` is the first query of the
serializable transaction: what it reads later (active Modal jobs, today's launches,
the consent) is what the snapshot shows. `CreateJob`, `Replay` and `RollBack` end it.
`doomed` is PostgreSQL's serializable snapshot isolation: a commit dooms the open
transactions with which it has read-write dependencies in both directions, or whose
row it has changed. A job that is neither Modal nor gated is inserted by a single statement
outside a transaction, which is the same insertion. The advisory lock of
`assertModalJobQuota` is left out on purpose. Because the snapshot is older than the lock,
the lock cannot refresh the counts, and the model without it has more behaviours; that the
quota holds there shows that it rests on the isolation level. A user has one consent,
standing for one subject of one purpose. `withGatewayTransaction` retries nothing, so a
doomed request is a `RollBack`. There is no overdraft check in the code, and none in the
model: the balance may go below zero. `WorkerEnds` stands for every settlement that ends a
job, a retry leaving it active.

### DataLifecycle

Days are the unit of time. `deleteUserData` and `evaluateRestoreCandidate` are split
where their snapshot and their locks part; `registerBackup` and `recordLegalHold` take
their snapshot with the lock query itself, and what a stale one decides equals an
earlier serial order or is undone by a write conflict, so each is one action. The
provider's copy is `copy[b]`, what the catalogue says of it is `catalog[b]`. The claim of
a copy may be stale at once (`stale'` is chosen), because `updated_at` is set to the
time the runner started. Capture times declared by the operator are taken to be true.
A transaction that is open at midnight fails. A hold on a backup stands for one on its
audit record or on one of its restore tests. The deletion of a copy is dated by the
commit; the code uses the runner's start, and when that violates the table's CHECK the
transaction fails, which is `DeletionRaises` from `"removed"`.

A payload is stored, removed, or returned: `PutThroughUrl` puts a removed one back through a URL
signed earlier, while the deletion runs, after it rolled back, or after the account is gone, on
the same day or the next, a URL lasting an hour at most. A repeated deletion finds what was put
back (`LockSubjects`), the running one does not look again. So the receipt can only speak of what
was in storage as the last purge began, which is what `ReceiptTruthful` says of it.

### Storage, archives, outputs and costs

`ObjectUpload` keeps the declared rows, the store and every presigned URL ever issued; a
URL outlives its request, so a payload may be replaced at any time, and a completion
judges what it inspected earlier. `Enforces` says whether the store checks the digest
of a PUT. Account deletion removes payloads one by one inside an open transaction.
`RecorderArchive` runs on that state: completions verify file after file, admissions hold
the plan and the model they read while the verifier streams. Two roles stand for the five
files, one the gateway reads itself and one only the verifier reads. `JobOutputs` has three ways
to commit: the consent transaction, the fixture policy with its object written in the middle
of it, and the plain row followed by its artifact. The bytes of a policy share their row and their key with
an upload its owner makes of the same digest: `RegisterBlob` leaves an existing row as it is and has
another PUT signed, `PutThroughUrl` may store the bytes under another media type (or other
bytes, where the store does not check digests), `completeObjectBlobUpload` judges the row by an
earlier inspection and sets a complete one back to staged on a mismatch, and `DeletionRollsBack`
is an account deletion that removed the object and left every row. `Uploaders` bounds who
does so: one of the two users in the part with policies and downloads, nobody in the parts about
other kinds of job. A policy may therefore stand on a staged row or a missing object;
`ArtifactBacked` says that its row exists and is the one of its object. `CostReconcile` is the operator's
transaction beside the three worker transactions that write the same columns.

### Generation and templates

`Generation` interleaves requests at every await. The adapters are nondeterministic: a
repair mends some checks and may break others, and the validator answers with a report,
fails, or is killed. `TemplateContract` models the template adapter itself: lengths are in
tenths of a millimetre and masses in sixths of a gram, so that every number is whole, and
any diagnostics may come back, so a repair follows any other.

### Registry, marketplace, courses

A route is as many actions as it has statements outside a transaction. `EnvSpec` is the
reachability check of `forge-sim`, with clipped segments as exact fractions; `Courses`
takes its verdicts from it. Account deletion is in each of these modules the part of the
purge that concerns its tables. The id of a listing is drawn at random by the database;
`NewId` says that it is new, also to handlers that still hold the id of a deleted listing.

### The HTTP process and owner access

`HttpAccess` starts from any configuration and either refuses it or serves: hooks,
identity and answer are three steps between which sessions, time and a signal change.
`OwnerAccess` keeps of a row its table, owner, parent and whether it is public; a route is one or two
queries after the caller was resolved. Tables whose routes filter in the same way
are told apart by their routes only.

### Release tooling

`Migrations`: two runners from different checkouts, a session lock, one transaction per
file, connections lost before or after a COMMIT. `RegistryPublication`: each evidence
file is what it was made from, and a step that is run again overwrites it. `PromotionLadder`:
manifests are approved against what the source environment runs, deployed later, rolled back.

### Desktop panels

The shell's commands run in order on its main thread; a panel's handler continues with
what it captured when its button was pressed. A reload drops the answers, not the commands.
Devices, authorization files, archive directories, models and policies change at any time.

### The studio page

`PolicyPlayback` has the session worker, its facade and the controller exchange messages;
an action is one task of the page. `StudioStage` keeps which operation produced each thing
the page shows. `StudioPanels` runs handlers as sequences of awaits with their flags.
`GhostReplay` is the parser and the seek of the crash scrubber.

### The observability pipeline

`ObservabilityDelivery` cuts any input into lines whatever its chunks, and the collector may
accept, answer late or not at all. `ObservabilitySignals` has the event builders and
validators of both languages and the projection with its own integrity check.
`ObservabilityCustody` separates what a directory shows from what was synced: after a power loss
any unsynced change may be gone.

## 3. Runs

| Run | Instances | Distinct states | Shows |
|---|---|---|---|
| `queue_modal` | 1 Modal job, 2 workers, 3 attempts | 240,836 | fencing, publication, refunds, rows, events and provider calls; refinement of `JobLifecycle` |
| `lifecycle_deletion` | 1 account, 1 object, 1 copy, 2 runners, 1 hold, 4 days | 938,402 | deletion, late cataloguing, holds, overlapping runners |
| `admission` | 2 keys, 2 bodies, 2 requests, both limits 1, 2 days | 69,270 | quota, ledger, replays, consent |
| `queue_local` | 2 jobs without provider calls, 2 workers, 2 attempts | 137,084 | one job swept, cancelled or retried in the transactions that claim the other |
| `progress` | 10 small instances with fairness | 55,000 | what must happen in the end |
| `gateway` | 12 instances of 7 modules | 926,000 | storage, copies, archives, generation, admission, outputs, costs |
| `platform` | 25 instances of 15 modules | 1,873,000 | registry, marketplace, access, custody, release, desktop panels, studio page |
| `studio` | 8 instances of 5 modules | 82,000 | courses, templates, delivery and signals |
| `queue_withdrawal`, `lifecycle_hold_race`, `lifecycle_restore_race`, `generation_killed` | 1 job, account or request | violation | findings 1 to 4 |

**Instances side by side.** `MCProgress`, `MCGateway`, `MCPlatform` and
`MCStudio` put many small instances into one model. `part` is chosen initially and never
changes; the variables `v1, v2, ...` are those of the part's module in the order in which
it declares them, and an instance of a module is `INSTANCE M WITH x <- v1, ...`; where one
proof module covers several components, one instance of it serves a part of each. The
state graph is the disjoint union of the parts' graphs, and a property such as `StorageSafe` is
the conjunction of what the modules state, each for the parts it concerns. A part is commented with
what it is for where it is instantiated.

What the conjunctions consist of:

- `JobsApart` (`queue_local`): `OneAuthority`, `AttemptRowsFollowJob`, `PublishedOnce`,
  `RefundedNeverPublishes`, `TerminalEventTruthful`.
- `StorageSafe`: `CompleteMeansVerified`, `UnverifiedStaysStaged`, `RowsNameTheirDigest`
  (`ObjectUpload`); `MaterializedTruthful`, `AdmissionTruthful`,
  `MaterializedShowsNoError` (`RecorderArchive`); `NoResurrection`,
  `BackupCompleteTruthful`, `DeletedCopyIsGone` for two copies (`DataLifecycle`).
- `GenerationSafe`: `RegisteredTruthful`, `DraftsWereRejected`, `AttemptHistory`.
- `JobsSafe`: `OutputsSafe` (`JobOutputs`), `EventPerReconciledCall` (`CostReconcile`);
  `QuotaKept`, `WithdrawalStopsWork`, `LedgerBalances` for three jobs of two users
  (`JobAdmission`).
- `StepsSafe`, about steps: `DeclarationsImmutable`, `AdmittedForCurrentModel`,
  `ArchiveMonotone`, `OwnerNotLost`, `CallCostFinal`.
- `RegistrySafe`, `AccessSafe`, `CustodySafe`, `ReleaseSafe`, `DesktopSafe`, `StudioSafe`: the
  safety properties of `ModelRegistry` and `Marketplace`; of `HttpAccess` and `OwnerAccess`; of
  `ObservabilityCustody`; of the three release modules; of the three desktop modules; of the
  four studio modules.
  `AnswersEntitled` is about the step in which a route answers, `CaptureSteps` about steps of
  `DesktopCapture`.
- `CoursesSafe`, `TelemetrySafe`: those of `Courses`, `EnvSpec` and `TemplateContract`; of
  `ObservabilityDelivery` and `ObservabilitySignals`.
- `JobsEnd`, `CopiesExpire`, `ServicesEnd`, `PanelsSettle`: liveness, see Fairness.

Each is stated where it is defined with the code behaviour it is about.

**Bounds.** Two workers, runners, requests, handlers or pages are what a race needs, and
the fence compares one token with one row; three attempts let a call be adopted by a
second attempt and fail in a third. Day counts are scaled: one day for the 30 of a copy, two for
the 45 of a tombstone, two for the 400 of audit rows, a horizon on which each of them can
expire after the latest start the guards allow. The `crowd` part of
`MCGateway` has one more Modal job than daily credits and more credits than active slots; the
admission run has both limits at one and a second day, so an active job of yesterday and a spent
credit of today each refuse alone. Stores and
limits are scaled to be reached: two or three buckets, one custody record, batches of two
events, lines of two characters, one repair beside the whole budget of three. `MaxTime`,
`MaxReloads`, `MaxFaults`, `MaxOps` and the like are guards on the environment. One of
the two playback parts has three frames or more: one whose step is outstanding, one held back
behind it and one added to that. The stage has two operations, the page's first load and one that
overlaps or follows it; `StageIsSafe` is about any number.
The theorems remove the bounds of the modules they are about. Symmetry is over workers, runners,
requests and bodies in the runs of the core; the side-by-side runs use none.
The admission and lifecycle runs check for deadlock, since their systems never stop; the others
do not: jobs end, bounded counters run out, and then nothing is left to do. The `events` part of
`MCStudio` is a set of initial states without steps, one per candidate event.

Every property of every passing run has a mutant in `PROJECT.json`, a definition with
a plausible mistake (a fence that only tests for a token, REPEATABLE READ instead of
SERIALIZABLE, a record that is not synced, a plan not compared with what was inspected) under
which TLC reports that property.

### Fairness

All in `MCProgress`, one group per part.

- Queue: weak fairness of each worker's claims and steps (`run_forever` loops and a crashed
  worker is restarted), of lease expiry and of backoff (the clock). None for cancellation,
  crashes or the provider.
- Lifecycle: weak fairness of the day, the sweep, the lease and a runner's steps (the operator
  schedules the commands); strong fairness of claiming, deleting and committing, meaning
  that an operator who keeps running the command gets to each copy and that the
  provider does not refuse for ever. The code retries `delete-failed` copies and stale leases for
  exactly this case.
- Generation: weak fairness of the handler; validator and provider calls have timeouts.
- Server: a started process comes up or exits, and the shutdown deadline of `index.ts` fires.
  Requests owe nothing.
- Delivery: the input ends and the two-second timer fires. The collector owes nothing.
- Custody: a process that is not killed goes on.
- Desktop panels: the shell handles its commands and the page its answers. No button need be
  pressed. Import handlers continue, since every request answers or fails.
- Playback: observations are timed, ONNX Runtime answers.

## 4. Findings

Each of the first four is a run of its own.

1. `applyWithdrawal` (`consent.ts:284`, `:315`) cancels a running job without closing its
   attempt row, and nothing closes it later; D72 says every attempt row closes.
   `AttemptRowsFollowJob` states what does hold, with this exception spelled out.
2. `deleteUserData` (`accountData.ts:565`) reads holds from a snapshot older than the
   subject locks; `DATA-LIFECYCLE.md:117` says holds cannot race the purge. What does
   hold, and is proved, is `EarlierHoldBlocks`: a hold recorded before the day
   of the purge blocks it.
3. `evaluateRestoreCandidate` (`dataLifecycle.ts:663`) does the same with tombstones and may
   record `eligible` after a deletion committed. `NoResurrection`, which is about the
   state any later evaluation reads, holds and is proved.
4. A validator killed at its time limit has no exit code; `validator.ts:49` turns that into
   0, the report is missing, and `verdictFromReport` answers "admitted".
   `generation-pipeline.md:38` says every pass runs the validator. `RegisteredTruthful` still holds:
   without a report no model is registered.

Further disagreements between documents and code, met while modelling. They follow from
the actions named; no run is kept for them.

- A PUT on a URL issued earlier may reach the store between `deleteObjects` and the commit
  of an account deletion (`accountData.ts:600`): the receipt says `objectPayloadsDeleted`
  and an object is there. `DECISIONS.md:80` says all payloads are deleted before the commit.
  `PutThroughUrl` of `DataLifecycle` and of `ObjectUpload` is that step.
- A reconciliation repeated after a retry is refused, since the retry cleared the job's cost
  (`modal-reconcile-cost.mjs:61`); `MODAL-OPERATIONS.md:181` calls the command idempotent.
  And the cost of an earlier call is written onto a job that names its successor (`:71`);
  `:171` of the document says it is bound to both job and call attempt.
- Two generations of one brief share an artifact id, and the upsert of the second erases the
  record of the first (`generatedArtifacts.ts:82`); migration 0005 says every generation
  can be replayed.
- An edit that fails validation leaves a public listing with the report of the earlier contract
  (`platform.ts:2104`); `platform.md:32` says listings are of admitted contracts only. A "skill" listing
  asks for neither gate nor signoff (`server.ts:3454`); `platform.md:50` says it does.
- Leaderboard rows without a verified tape are published (`server.ts:2600`), while the
  consent notice speaks of verified results (`consent.ts:48`).
- A 429 of the rate limiter carries `Retry-After` but no limit headers (`server.ts:841`);
  `THREAT-MODEL.md:545` says it has both.
- A temporary file left by a crash makes every later custody sweep fail
  (`observability-custody.mjs:364`), so expired records stay; `OPERATIONS.md:110` says they
  are expired after 24 hours. `AuditFindsEverything` holds: an audit reports the file.
- A failed refresh of the job list empties it and so ends the polling (`App.tsx`, `refreshJobs`);
  `learning-engine.md:442` says the page polls to a terminal state.
- `handleResponse` keeps the queued step after a step error (`wasm.ts:386`) and sends its
  older input with the next answer; `learning-engine.md:420` says a failure zeroes the command.
- Patches and loads may overlap, and a model saved meanwhile is bound to what the stage shows by then
  (`App.tsx:1250`); `platform.md:83` says a saved model is the one on the stage.
- The retention sweep deletes the job of a policy that is still listed (`dataLifecycle.ts:908`);
  the artifact's `job_id` becomes NULL, and its model is refused with 409 from then on
  (`server.ts:2058`). `DATA-LIFECYCLE.md:54` keeps user content for the account's lifetime.
- `promote` accepts a target with components its source never ran (`deployment-policy.mjs`);
  `OPERATIONS.md:237` says a promotion moves what was tested.

## 5. Proofs

The core modules name what they assume of their constants with ASSUME: finite or arbitrary
sets, at least one attempt, `BackupMaxDays < TombstoneDays` (a CHECK of migration 0017),
quota limits of at least one (enforced by `modalQuota`), an owner for each object and key.
The other proof modules state it as a hypothesis of their theorems (`GenConstants`,
`UploadConstants`, `ArchiveConstants`, `OutputsConstants`, `CostConstants`, `RegConstants`,
`MarketConstants`, `MigConstants`, `PubConstants`, `LadConstants`, `OwnConstants`,
`HttpConstants`, `CusConstants`, `CaptureConstants`, `ImportConstants`, `RehearsalConstants`,
`PlayConstants`, `StageConstants`, `PanelsConstants`, `ReplayConstants`):
an absent value is none of the rows or ids, counters and bounds are
natural numbers, handlers in flight are finitely many where they are counted, the key of a
payload is a key, there is a checkout, the policy requires only components it knows
(`validatePolicy` refuses others), rate windows and limits are positive and every limited class
has one, the export's tables are listed once, there is a rig, a runtime has a target, the times
and positions of a replay overlay are integers. `InstanceConstants` of `MCGateway` and of `MCPlatform` is an ASSUME that the
parameters of their parts meet these hypotheses; TLC evaluates it in every run of theirs.

Each argument is an inductive invariant: the initial states satisfy it, each action keeps
it (one lemma per action or group of actions), and it implies what the runs check.

**BackgroundProofs, job queue.** `QueueInv` strengthens the types by three facts: a job is live or
leased only while running, and its lease is its current attempt (`LeaseInv`); a working
worker's token is at most the job's attempt number, and two workers on one job have
different tokens (`TokenInv`); output exists exactly for succeeded jobs, is stored
first, and a worker past its upload has stored it (`PublishInv`). `OneAuthority` alone is
not inductive: it needs that a reclaim makes a token nobody holds. From the invariant
follow `Fencing`, `Publication`, `RefundExcludesOutput`, `Finality` and `AttemptRecord`,
and `Refinement`: each step is an abstract begin, finish or cancel of one or more jobs, or
leaves all phases as they are.

`EventRecord`, `ProviderRecord` and `JobsIndependent` stand on two more invariants relative to
`QueueInv`. `EventInv`: a worker that is about to report an end reports the job's status, nobody
else is about to and nobody has; logged starts and the workers about to log one are together no
more than the attempts (a count of a finite set, since a start may be logged after the job was
reclaimed). `CallInv`: an active call that is persisted is the job's current call, so two
active ones would be the same; a worker knows of its call what its place in the adapter says
(`CallKnown`, `CallReached`), also when it adopted the call of a dead worker.

**RequestProofs, admission.** `SnapshotInv` says that a Modal transaction that may still
commit has in its snapshot every job that counts against it: an insertion dooms the others,
and everything else only shrinks the active set. `QuotaIsShared` then compares
cardinalities. `ConsentInv` says that one that read a consent and may still commit
read one that stands, from which `WithdrawalIsEffective`. `LedgerIsConsistent` follows the
user's share of debited and refunded keys through each step. `RequestsStayBound` is an
action property.

**RequestProofs, generation.** `GenInv` says what a handler holds at each await (`ReqInv`): the contract
in hand, the verdict it got, and how many repairs it has spent. `GenerationTruthful` needs that the
contract that is registered is the one the last verdict was about, `BoundedLoop` that the
history of runs has the length the loop counter says. `OwnerKept` is an action property.

**BackgroundProofs, data lifecycle.** `WindowInv` bounds the deadline of a catalogued copy by its
capture, and the capture of a copy by the deletion of its subjects; with
`TombInv` (a deleted subject's tombstone is there until its expiry) and the assumption on the
windows this gives `NoDeletedSubjectRestored`. `BackupCompletion` and
`TombstoneRetention` rest on the reopening of tombstones by late copies, `DeletionIsReal`
on `RunnerInv` (a runner past the adapter has removed its copy, and nobody restores
one), `ReceiptStaysTrue` on `DeletionInv` (a deletion runs only while its account is there,
so no purge starts, and finds something to remove, once one has committed), `HoldsBlockDeletion` on `HoldInv` (what a deletion's snapshot did not show was
recorded on the day it runs).

**StorageProofs.** `UploadInv`: an inspection, however old, has the length of the payload whose
digest it reports (`RequestsSound`), and where the store enforces digests an object is the
payload its key names (`StoreAsNamed`). `ArchiveInv` extends it to archives: a completion
works on the staged plan and past the binding has checked the manifest (`CompletersSound`), an
admission works on the materialized plan and once verified has sound files (`AdmittersSound`),
and a staged row is gone only with its account (`RowLasts`), so neither meets another plan. `DeclarationsKept` and `ArchiveOneWay` are the action properties.

**RequestProofs, job outputs and costs.** `OutputsInv` has one part per way to lose, double or misplace an artifact:
a job has one handler that is about to write its row, and the row is not there yet
(`OneMaker`); a policy's row is that of its own object, staged or complete (`PoliciesBacked`);
usage and the offers that are inserted and not yet counted are together at most the offers
(`OffersCounted`). `CostInv` is the types and `EventPerReconciledCall` itself: a call's cost and
its event are written in one transaction.

**PublishingProofs, registry and marketplace.** `RegInv`: a handler holds a row that was sound when read and a model that,
if it still exists, is its user's (`Theirs`); this is what lets the foreign keys of an insert
stand for an ownership check. `MarketInv` adds that a handler past the gate leaves an acceptance
on record, that a signoff under way is for a listing of its user or of a deleted one, and
that events and pending events of a listing are together at most its rollup (`UsageCounted`,
again a cardinality). That last part is not inductive when a listing may take the id of a
deleted one while a usage call holds it: the proof attempt showed it with two users, which
is where `NewId` comes from.

**PublishingProofs, release tools.** `MigInv`: the rows and the executed SQL are a prefix of one
checkout (`Lineage`); a runner past the lock holds it, and one that has read the history is at the
file after the last one recorded (`RunnerSound`). `HistoryOf` shows that the rows read in the
order of their names are that prefix: the names of a checkout increase, and an order-preserving
map of `1..n` into itself is the identity, by the least element of a set of naturals. `PubInv`
adds to the types that a verification file names an attested build, so a verified record stays
true of a registry that only grows. `LadInv`: what an environment runs was deployed there, and
every manifest not from protected main was promoted, without a rebuild, from one that ran in the
environment before it (`LineageSound`); two such steps lead from production to sandbox.

**AccessProofs, rows of the owners.** `OwnInv`: every row's owner is an account, a row that hangs on
another (an event, an offer, a listing) has its parent there, with the same owner, and ids are unique
(`RowsSound`); the rows a route's first query returned were its caller's, and stay so because no id
is used twice (`FirstRowsOwn`); an export has read the datasets before the one it is at exactly as its
snapshot has them (`ReadSoFar`). `OwnerAnswersEntitled` is an action property: between the two
queries rows go and come, and the second returns none that is another's.

**AccessProofs, HTTP server.** `HttpInv`: a request whose user is known came from a trusted origin, and
with a session or, where the build allows it, a development header (`RequestsSound`). Each key has
one bucket at most, with a place of its own, within the cap, whose count is at most the hits of its
window (`BucketsSound`). As long as the keys ever seen fit the store, every key has its bucket, that bucket let
through at most the limit, and so did any stretch that reaches from the window before into
it (`WindowsSound`); that is why any window lets through twice the limit at most. Eviction at a full store takes another
client's bucket, and then only the per-bucket part holds. Buckets form a set with a place each, and
counts are cardinalities of the arrivals let through.

**AccessProofs, custody.** `CusInv` says at each system call of each command what is known of the id it
works on (`OpSound`), what the volatile directory shows and what a loss of power would leave of it
(`FilesSound`), and that only the lock's owner changes the directories, with a working owner unless a
process was killed (`LockSound`). It has to speak about both directories at once: a record reported to
a caller is in both, or its receipt is durable.

**DesktopProofs, desktop panels.** `CaptureInv`: the command awaited is the last one sent, and the earlier ones in the
queue are of earlier pages (`CommandsSound`); `CallsSound` and `ReplySound` say what holds while a
handler waits, by what it waits for: a panel that waits for a stop shows the directory of the capture
that runs, one that has its answer knows a complete archive there. `ImportInv` says what each
handler has captured, an inspection, a plan or a row, and that it is one the gateway or the desktop
has given. `RehearsalInv`: the command awaited is the last
in the queue and those before it are of earlier loads, every start carries bound evidence and every
advance was ticked (`QueueSound`); a panel that shows something has no command of an earlier load
under way, and shows the shell's session until a command of its own is answered (`DisplaySound`); an answer
is a refusal with nothing changed, or says what the command made (`AnswerSound`). `CaptureKeeps` is an action property.

**DesktopProofs, studio page.** `PlayInv` says where the step the page believes outstanding is: in the
worker's queue, among its answers, or nowhere, and that the time asked of the core is what it advanced,
what a failed step lost, and what waits at that place or behind it (`ClockInv`); that while no step has
failed time waits only behind an outstanding step, with a zero command once a playback ended
(`HeldInv`, `ZeroInv`); and where each controller's chain of promises may stand (`Sound`), with the
requests the page tracks exactly those of the waiting chains (`Tracked`). `EndedMeansZero` is not
inductive without the first two: a command that was queued before the end would be the last.
`StageInv` follows a lone operation through its awaits (`StandsSound`): which of scene,
session, report and binding are of its document already and which are of the one before; operations are
numbered as they start (`OpsSound`), so that one which starts while another is under way is seen
to overlap it. `PanelsInv` is `BusyMeansWork` with the shape of a handler's awaits: a request that
ends its handler by a refusal is awaited alone, so a handler's flags are lowered once. `ReplayInv`
is small; what takes the proof is the operator `seekGhostReplay`: the search's table is a
recursive function of the width that is left, shown correct by the least width at which it would
fail (the library's induction theorems take an operator as a parameter, a least counterexample does
not), and the two entries of the seek index around the time bound the points that are searched.

**GatewayProofs, PlatformProofs.** A side-by-side run checks a conjunction over parts. Each part keeps the
invariant of its component, by that component's lemmas at the part's parameters, and the others
do not move its variables. `StorageIsSafe`, `GenerationIsSafe`, `JobsAreSafe`, `StepsAreSafe`,
`RegistryIsSafe`, `ReleaseIsSafe`, `AccessIsSafe`, `AnswersAreEntitled`, `CustodyIsSafe`,
`DesktopIsSafe`, `StudioIsSafe` and `CaptureStepsKept` state all the properties of these two runs. For this
`MCGateway` and `MCPlatform` instantiate the proof modules; the variables and constants of a
component that a part has no use for get unused variables, 0 and empty sets.

Only model-checked: liveness, which is out of the prover's reach; and what `MCStudio` checks,
`CoursesSafe` and `TelemetrySafe`. `EnvSpec`, `TemplateContract`,
`ObservabilityDelivery` and `ObservabilitySignals` compute over sequences element by element, and what
they compute for every input would take induction over data.

## 6. Not modelled

- The Rust kernels, the training code and the co-design search compute with floating-point
  numbers. The one integer part that decides something, the reachability check of courses, is
  `EnvSpec`.
- Worker handlers other than Modal training are something that returns or raises.
- The review queue, licence exports and the policy fixture are single-statement updates,
  read-only exports and constants.
- Auth.js and its own limiter are a library; sessions appear and disappear in `HttpAccess`.
- Rendering, form state, wording, the physics worker, archive and SBOM byte formats, hashes and
  signatures: data that no property here tells apart.
- Scripts that assert, benchmark or package (`db-assert-migrations.mjs` and the like) are checks of
  other artifacts and keep no state.
- `worker.onerror` after a session worker was created: the page's answer to it is not
  in the source's control.

## 7. Plan

1. Done: all modules above, their runs, and the theorems of every component but those of
   `MCStudio`, down to the properties of `MCGateway` and `MCPlatform`.
2. Proofs of `Courses` without the computations of `EnvSpec`.
3. A composition of `JobQueue` with account deletion, for a worker that uploads while the
   account goes.
