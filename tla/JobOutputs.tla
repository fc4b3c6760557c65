----------------------------- MODULE JobOutputs -----------------------------
(***************************************************************************)
(* What a job leaves behind in the gateway: the admission checks of        *)
(* createJob in packages/gateway/src/platform.ts, the output a fixture job *)
(* is given at once (fixtureJobOutput) and the rows made from it           *)
(* (materializeJobOutput), with the routes of server.ts that start jobs,   *)
(* align a photoscan, share a telemetry log, record a consent, refresh     *)
(* vendor offers and stream a policy's bytes.                              *)
(*                                                                         *)
(* Three ways to commit matter.  Work that needs a consent, and fixture    *)
(* policies, run in one SERIALIZABLE transaction; the policy's object is   *)
(* written to storage in the middle of it, and stays when it is rolled     *)
(* back.  Every other fixture job is a succeeded row first and its         *)
(* artifact in a statement after it, with nothing between them to undo     *)
(* the first when the gateway stops.  withActiveConsents and recordConsent *)
(* both lock the user's row.                                               *)
(***************************************************************************)
EXTENDS Integers, FiniteSets

CONSTANTS
    Owners,
    IdemKeys,      \* idempotency keys, scoped to their user
    ModelIds,      \* model ids a request may name
    ModelOwner, Admitted,
    Requests,      \* the requests clients send, a subset of RequestType
    Uploaders,     \* the owners who upload an object of the policy's digest themselves
    Purposes,      \* the consent purposes each user may decide on
    ModalReady,    \* Modal tokens and deployment identity are configured
    LabReady,      \* the D30 signoff stands, lab mode is on, the rig is allowed
    VendorReady,   \* FORGE_VENDOR_REFRESH_CMD is set
    Slots,         \* gateway requests in flight
    MaxJobs,       \* job rows of the model
    MaxOffers,     \* offers of one refresh, and refreshes of the model
    Missing

Kinds == {"photoscan.single", "train.policy", "train.offline-bc", "replay.verify",
          "bridge.telemetry-ingest", "maintenance.estimate-wear", "commerce.vendor-refresh"}
Executors == {"fixture", "local", "modal"}
JobIds == 1..MaxJobs

\* Of a payload: whether it names its subject (source blob or telemetry log),
\* its model, and whether its fields are the ones the kind allows.
RequestType ==
    [user : Owners, kind : Kinds, provider : Executors, key : IdemKeys \cup {Missing},
     model : ModelIds \cup {Missing}, subject : BOOLEAN, bounded : BOOLEAN,
     route : {"jobs", "photoscan", "policies", "replays", "vendor"}]

VARIABLES
    jobs,          \* job rows by id; Missing: no such row
    slot,          \* request handlers
    granted,       \* the purposes each user has granted for the subject it owns
    photoscans, policies, rows,   \* artifacts by the job that made them
    shared,        \* users whose telemetry log is shared
    blob,          \* object_blobs row of the policy bytes' digest, by owner
    stored,        \* what is in storage under that row's key: nothing, the policy's
                   \* bytes, or what the owner put there under another media type, or
                   \* other bytes where the store does not check digests
    offers, counted,   \* vendor offers inserted; offers that usage events count
    served         \* <<user, policy>> pairs the model route has streamed

outVars == <<jobs, slot, granted, photoscans, policies, rows, shared, blob, stored,
             offers, counted, served>>
rest == <<shared, offers, counted, served>>

Idle == [phase |-> "idle"]
Exists(j) == jobs[j] # Missing

OutInit ==
    /\ jobs = [j \in JobIds |-> Missing]
    /\ slot = [s \in Slots |-> Idle]
    /\ granted = [u \in Owners |-> {}]
    /\ photoscans = {} /\ policies = [j \in JobIds |-> Missing]
    /\ rows = [j \in JobIds |-> 0]
    /\ shared = {}
    /\ blob = [u \in Owners |-> "none"]
    /\ stored = [u \in Owners |-> "absent"]
    /\ offers = 0 /\ counted = 0
    /\ served = {}

-----------------------------------------------------------------------------
(* Admission *)

\* A Modal job needs its tokens; a training payload only known, bounded fields.
assertModalProviderConfigured(r) == r.provider = "modal" => ModalReady
assertModalTrainingPayload(r) ==
    (r.provider = "modal" /\ r.kind = "train.policy") => r.bounded
assertCommerceVendorRefreshJob(r) ==
    r.kind = "commerce.vendor-refresh" =>
        r.provider = "local" /\ r.key # Missing /\ r.bounded /\ VendorReady
\* One owned log, a model, no gateway-owned field; never as a fixture.
assertOfflineTrainingJob(r) ==
    r.kind = "train.offline-bc" =>
        r.provider # "fixture" /\ r.subject /\ r.bounded /\ r.model # Missing

\* The reference must be to an admitted model of the user; live training has one.
assertAdmittedModelReference(r) ==
    r.kind \in {"train.policy", "train.offline-bc"} =>
        /\ r.model # Missing => r.model \in Admitted /\ ModelOwner[r.model] = r.user
        /\ r.provider # "fixture" => r.model # Missing

hardwareTouchingJob(r) ==
    r.provider # "fixture" /\ r.kind = "bridge.telemetry-ingest"
assertHardwareGateForJob(r) ==
    hardwareTouchingJob(r) => LabReady /\ r.provider = "local"

sourceBlobIdsFromPayload(r) == r.kind = "photoscan.single" => r.subject
\* The consents the work needs, on the subject its payload names.
telemetryLogIdsFromPayload(r) ==
    IF r.kind = "photoscan.single" THEN {"photoscan.processing"}
    ELSE IF r.kind \in {"train.policy", "train.offline-bc"} /\ r.subject
         THEN {"training.reuse"} ELSE {}

\* The routes that start one kind of job fix its provider and its key.
PhotoscanRoute(r) ==
    r.route = "photoscan" =>
        r.kind = "photoscan.single" /\ r.provider = "fixture" /\ r.key = Missing
PoliciesRoute(r) ==
    r.route = "policies" =>
        r.kind = "train.policy" /\ r.provider = "fixture" /\ r.key = Missing
ReplaysRoute(r) ==
    r.route = "replays" =>
        r.kind = "replay.verify" /\ r.provider = "fixture" /\ r.key = Missing
VendorRoute(r) ==
    r.route = "vendor" => r.kind = "commerce.vendor-refresh" /\ r.provider = "local"

Admissible(r) ==
    /\ PhotoscanRoute(r) /\ PoliciesRoute(r) /\ ReplaysRoute(r) /\ VendorRoute(r)
    /\ assertModalProviderConfigured(r) /\ assertModalTrainingPayload(r)
    /\ assertCommerceVendorRefreshJob(r) /\ assertOfflineTrainingJob(r)
    /\ assertAdmittedModelReference(r) /\ assertHardwareGateForJob(r)
    /\ sourceBlobIdsFromPayload(r)

withActiveConsents(u, purposes) == purposes \subseteq granted[u]

\* The user row a policy transaction holds until it ends.
Locked(u) ==
    \E s \in Slots : slot[s].phase = "written" /\ slot[s].req.user = u
                     /\ telemetryLogIdsFromPayload(slot[s].req) # {}

\* ON CONFLICT (idempotency_key): a row of the key is returned when it was made
\* for the same request and refused otherwise; either way nothing is written.
Unbound(r) ==
    r.key # Missing =>
        \A j \in JobIds : Exists(j) => <<jobs[j].user, jobs[j].key>> # <<r.user, r.key>>

NewId(j) == ~Exists(j) /\ rows[j] = 0 /\ policies[j] = Missing
            /\ (\A i \in 1..(j - 1) : Exists(i) \/ rows[i] > 0 \/ policies[i] # Missing)
            /\ (\A s \in Slots : slot[s].phase \in {"inserted", "replay"} => slot[s].job # j)
            /\ (\A p \in photoscans : p.made # j)

Row(r, status) ==
    [user |-> r.user, key |-> r.key, kind |-> r.kind, provider |-> r.provider,
     model |-> r.model, subject |-> r.subject, status |-> status]

-----------------------------------------------------------------------------
(* createJob *)

\* The kind of artifact a fixture output carries, and whether a row follows it.
fixtureJobOutput(kind) ==
    CASE kind = "photoscan.single" -> "photoscan"
      [] kind = "train.policy" -> "policy"
      [] kind = "bridge.telemetry-ingest" -> "telemetry-replay"
      [] kind = "maintenance.estimate-wear" -> "wear-estimate"
      [] OTHER -> "replay"
MakesRow(kind) == fixtureJobOutput(kind) \in {"telemetry-replay", "wear-estimate"}

\* A job for a worker: a queued row, under its consents in one transaction.
CreateQueued(r, j) ==
    /\ r.provider # "fixture" /\ Admissible(r) /\ Unbound(r) /\ NewId(j)
    /\ telemetryLogIdsFromPayload(r) # {} => ~Locked(r.user)
    /\ withActiveConsents(r.user, telemetryLogIdsFromPayload(r))
    /\ jobs' = [jobs EXCEPT ![j] = Row(r, "queued")]
    /\ UNCHANGED <<slot, granted, photoscans, policies, rows, blob, stored, rest>>

\* The blob row of a photoscan's mesh: one per owner and payload, updated when
\* the same photoscan is run again.
upsertArtifactBlob(r) == <<r.user, r.kind, r.subject>>

\* A fixture photoscan: consents, row, blob and artifact in one transaction.
CreatePhotoscan(r, j) ==
    /\ r.provider = "fixture" /\ r.kind = "photoscan.single"
    /\ Admissible(r) /\ Unbound(r) /\ NewId(j) /\ ~Locked(r.user)
    /\ withActiveConsents(r.user, telemetryLogIdsFromPayload(r))
    /\ jobs' = [jobs EXCEPT ![j] = Row(r, "succeeded")]
    /\ photoscans' = photoscans \cup {[made |-> j, job |-> j, owner |-> r.user,
                                     blob |-> upsertArtifactBlob(r), reviewer |-> Missing]}
    /\ UNCHANGED <<slot, granted, policies, rows, blob, stored, rest>>

\* Any other fixture job: the row alone.
InsertFixture(s, r, j) ==
    /\ slot[s] = Idle
    /\ r.provider = "fixture" /\ r.kind \notin {"photoscan.single", "train.policy"}
    /\ Admissible(r) /\ Unbound(r) /\ NewId(j)
    /\ jobs' = [jobs EXCEPT ![j] = Row(r, "succeeded")]
    /\ slot' = [slot EXCEPT ![s] =
          IF MakesRow(r.kind) THEN [phase |-> "inserted", job |-> j]
          ELSE IF r.route = "replays" THEN [phase |-> "replay", job |-> j] ELSE Idle]
    /\ UNCHANGED <<granted, photoscans, policies, rows, blob, stored, rest>>

\* ... and then the telemetry log or the maintenance record made from it.
MaterializeRow(s) ==
    /\ slot[s].phase = "inserted"
    /\ rows' = [rows EXCEPT ![slot[s].job] = @ + 1]
    /\ slot' = [slot EXCEPT ![s] = Idle]
    /\ UNCHANGED <<jobs, granted, photoscans, policies, blob, stored, rest>>

\* POST /v1/replays: the replay is stored after its job.
InsertReplayArtifact(s) ==
    /\ slot[s].phase = "replay"
    /\ rows' = [rows EXCEPT ![slot[s].job] = @ + 1]
    /\ slot' = [slot EXCEPT ![s] = Idle]
    /\ UNCHANGED <<jobs, granted, photoscans, policies, blob, stored, rest>>

\* A fixture policy: inside its transaction the bytes go to storage, which
\* confirms size, type and digest, before any row can be seen.
WritePolicyObject(s, r) ==
    /\ slot[s] = Idle
    /\ r.provider = "fixture" /\ r.kind = "train.policy"
    /\ Admissible(r) /\ Unbound(r)
    /\ telemetryLogIdsFromPayload(r) # {} => ~Locked(r.user)
    /\ withActiveConsents(r.user, telemetryLogIdsFromPayload(r))
    /\ stored' = [stored EXCEPT ![r.user] = "policy"]
    /\ slot' = [slot EXCEPT ![s] = [phase |-> "written", req |-> r, saw |-> blob[r.user]]]
    /\ UNCHANGED <<jobs, granted, photoscans, policies, rows, blob, rest>>

\* Mutant of upsertCompletedPolicyBlob: a row that binds another object is taken as it is.
upsertPolicyBlobOfAnyObject(u) ==
    blob' = [blob EXCEPT ![u] = IF @ = "foreign" THEN @ ELSE "complete"]

\* The blob row of the digest: made complete, unless it binds another object.
upsertCompletedPolicyBlob(u) ==
    /\ blob[u] # "foreign"
    /\ blob' = [blob EXCEPT ![u] = "complete"]

\* Job row, blob row and artifact appear together; a row another transaction
\* has changed since the snapshot fails this one.
CommitPolicy(s, j) ==
    /\ slot[s].phase = "written" /\ NewId(j)
    /\ LET r == slot[s].req IN
       /\ slot[s].saw = blob[r.user] /\ Unbound(r)
       /\ upsertCompletedPolicyBlob(r.user)
       /\ jobs' = [jobs EXCEPT ![j] = Row(r, "succeeded")]
       /\ policies' = [policies EXCEPT ![j] =
             [owner |-> r.user, job |-> j, delivery |-> j, model |-> r.model]]
    /\ slot' = [slot EXCEPT ![s] = Idle]
    /\ UNCHANGED <<granted, photoscans, rows, stored, rest>>

\* ROLLBACK: a refused conflict, a failed statement or a serialization failure.
AbortPolicy(s) ==
    /\ slot[s].phase = "written"
    /\ slot' = [slot EXCEPT ![s] = Idle]
    /\ UNCHANGED <<jobs, granted, photoscans, policies, rows, blob, stored, rest>>

\* The gateway stops: every handler and open transaction is gone.
Crash ==
    /\ slot # [s \in Slots |-> Idle]
    /\ slot' = [s \in Slots |-> Idle]
    /\ UNCHANGED <<jobs, granted, photoscans, policies, rows, blob, stored, rest>>

-----------------------------------------------------------------------------
(* Consents, sharing, alignment, uploads, retention, delivery *)

\* What the consent carried stops with it: waiting work is cancelled, the log
\* is private again.
applyWithdrawal(u, p) ==
    /\ jobs' = [j \in JobIds |->
          IF Exists(j) /\ jobs[j].user = u /\ jobs[j].status = "queued" /\ jobs[j].subject
                /\ p \in telemetryLogIdsFromPayload(jobs[j])
          THEN [jobs[j] EXCEPT !.status = "cancelled"] ELSE jobs[j]]
    /\ shared' = IF p = "telemetry.sharing" THEN shared \ {u} ELSE shared

\* POST /v1/consents, under the lock of the user's row.
GrantPurpose(u, p) ==
    /\ ~Locked(u) /\ p \notin granted[u]
    /\ granted' = [granted EXCEPT ![u] = @ \cup {p}]
    /\ UNCHANGED <<jobs, slot, photoscans, policies, rows, blob, stored, rest>>

WithdrawPurpose(u, p) ==
    /\ ~Locked(u) /\ p \in granted[u]
    /\ granted' = [granted EXCEPT ![u] = @ \ {p}]
    /\ applyWithdrawal(u, p)
    /\ UNCHANGED <<slot, photoscans, policies, rows, blob, stored, offers, counted, served>>

\* POST /v1/telemetry/logs/:id/share
ShareTelemetryLog(u) ==
    /\ ~Locked(u) /\ u \notin shared
    /\ withActiveConsents(u, {"telemetry.sharing"})
    /\ shared' = shared \cup {u}
    /\ UNCHANGED <<jobs, slot, granted, photoscans, policies, rows, blob, stored,
                   offers, counted, served>>

\* PATCH /v1/photoscan/artifacts/:id/alignment: the owner's review is merged in.
updatePhotoscanAlignment(u, p) ==
    /\ p \in photoscans /\ p.owner = u /\ p.reviewer # u
    /\ photoscans' = (photoscans \ {p}) \cup {[p EXCEPT !.reviewer = u]}
    /\ UNCHANGED <<jobs, slot, granted, policies, rows, blob, stored, rest>>

\* POST /v1/blobs with the policy's digest: the same object to be uploaded, or
\* a declaration whose purpose gives it another object key.  Registering it again leaves
\* the row as it is, complete or not, and signs another PUT.
RegisterBlob(u, how) ==
    /\ blob[u] = "none"
    /\ blob' = [blob EXCEPT ![u] = how]
    /\ UNCHANGED <<jobs, slot, granted, photoscans, policies, rows, stored, rest>>

\* The row of the policy's object is there, so its owner can have PUTs signed for it.
OwnObject(u) == blob[u] \in {"staged", "complete"}

PutThroughUrl(u) ==
    /\ OwnObject(u)
    /\ \E put \in {"policy", "altered"} : stored' = [stored EXCEPT ![u] = put]
    /\ UNCHANGED <<jobs, slot, granted, photoscans, policies, rows, blob, rest>>

\* POST /v1/blobs/:id/complete looks at the object ...
inspectStoredObject(s, u) ==
    /\ slot[s] = Idle /\ OwnObject(u) /\ stored[u] # "absent"
    /\ slot' = [slot EXCEPT ![s] =
          [phase |-> "inspected", owner |-> u, matches |-> stored[u] = "policy"]]
    /\ UNCHANGED <<jobs, granted, photoscans, policies, rows, blob, stored, rest>>

\* ... and then sets the row by what it saw: a complete row whose object no longer
\* matches is staged again.
completeObjectBlobUpload(s) ==
    /\ slot[s].phase = "inspected"
    /\ blob' = [blob EXCEPT ![slot[s].owner] = IF slot[s].matches THEN "complete" ELSE "staged"]
    /\ slot' = [slot EXCEPT ![s] = Idle]
    /\ UNCHANGED <<jobs, granted, photoscans, policies, rows, stored, rest>>

\* deleteUserData removes the objects and is then rolled back: every row stays.  A job
\* row in an open transaction keeps the account's lock from it.  (accountData.ts)
DeletionRollsBack(u) ==
    /\ OwnObject(u) /\ stored[u] # "absent"
    /\ \A s \in Slots : slot[s].phase = "written" => slot[s].req.user # u
    /\ stored' = [stored EXCEPT ![u] = "absent"]
    /\ UNCHANGED <<jobs, slot, granted, photoscans, policies, rows, blob, rest>>

\* retentionSweep: a terminal job goes, and ON DELETE SET NULL clears what
\* refers to it.  (dataLifecycle.ts)
RetireJob(j) ==
    /\ Exists(j) /\ jobs[j].status \in {"succeeded", "cancelled"}
    /\ jobs' = [jobs EXCEPT ![j] = Missing]
    /\ policies' = [policies EXCEPT ![j] =
          IF @ # Missing THEN [@ EXCEPT !.job = Missing] ELSE @]
    /\ photoscans' = {IF p.made = j THEN [p EXCEPT !.job = Missing] ELSE p : p \in photoscans}
    /\ UNCHANGED <<slot, granted, rows, blob, stored, rest>>

\* GET /v1/policies/:id/model: the owner's artifact, its complete blob, and
\* delivery metadata that names both and the job; the digest is checked on the way.
Deliverable(u, p) ==
    /\ policies[p] # Missing /\ policies[p].owner = u /\ policies[p].job # Missing
    /\ policies[p].delivery = policies[p].job /\ blob[u] = "complete"

DownloadPolicyModel(u, p) ==
    /\ Deliverable(u, p) /\ stored[policies[p].owner] # "absent"
    /\ <<u, p>> \notin served
    /\ served' = served \cup {<<u, p>>}
    /\ UNCHANGED <<jobs, slot, granted, photoscans, policies, rows, shared, blob, stored,
                   offers, counted>>

-----------------------------------------------------------------------------
(* POST /v1/commerce/vendor-offers/refresh, in the sandbox *)

BeginRefresh(s, n) ==
    /\ slot[s] = Idle /\ offers + n <= MaxOffers
    /\ slot' = [slot EXCEPT ![s] = [phase |-> "refresh", left |-> n, done |-> 0]]
    /\ UNCHANGED <<jobs, granted, photoscans, policies, rows, blob, stored, rest>>

InsertVendorOffer(s) ==
    /\ slot[s].phase = "refresh" /\ slot[s].left > 0 /\ offers < MaxOffers
    /\ offers' = offers + 1
    /\ slot' = [slot EXCEPT ![s].left = @ - 1, ![s].done = @ + 1]
    /\ UNCHANGED <<jobs, granted, photoscans, policies, rows, shared, blob, stored, counted,
                   served>>

\* An offer whose URL is refused ends the request; the offers before it stay.
RefuseVendorOffer(s) ==
    /\ slot[s].phase = "refresh" /\ slot[s].left > 0
    /\ slot' = [slot EXCEPT ![s] = Idle]
    /\ UNCHANGED <<jobs, granted, photoscans, policies, rows, blob, stored, rest>>

RecordRefreshUsage(s) ==
    /\ slot[s].phase = "refresh" /\ slot[s].left = 0
    /\ counted' = counted + slot[s].done
    /\ slot' = [slot EXCEPT ![s] = Idle]
    /\ UNCHANGED <<jobs, granted, photoscans, policies, rows, shared, blob, stored, offers, served>>

OutNext ==
    \/ \E r \in Requests, j \in JobIds : CreateQueued(r, j) \/ CreatePhotoscan(r, j)
    \/ \E s \in Slots, r \in Requests, j \in JobIds : InsertFixture(s, r, j)
    \/ \E s \in Slots, r \in Requests : WritePolicyObject(s, r)
    \/ \E s \in Slots, j \in JobIds : CommitPolicy(s, j)
    \/ \E s \in Slots : \/ MaterializeRow(s) \/ InsertReplayArtifact(s) \/ AbortPolicy(s)
                        \/ completeObjectBlobUpload(s)
                        \/ InsertVendorOffer(s) \/ RefuseVendorOffer(s) \/ RecordRefreshUsage(s)
    \/ \E s \in Slots, n \in 1..MaxOffers : BeginRefresh(s, n)
    \/ Crash
    \/ \E u \in Owners : \E p \in Purposes[u] : GrantPurpose(u, p) \/ WithdrawPurpose(u, p)
    \/ \E u \in Owners : ShareTelemetryLog(u)
    \/ \E u \in Owners : \E p \in photoscans : updatePhotoscanAlignment(u, p)
    \/ \E u \in Uploaders, how \in {"staged", "foreign"} : RegisterBlob(u, how)
    \/ \E u \in Uploaders : PutThroughUrl(u)
    \/ \E s \in Slots, u \in Uploaders : inspectStoredObject(s, u)
    \/ \E u \in Owners : DeletionRollsBack(u)
    \/ \E j \in JobIds : RetireJob(j)
    \/ \E u \in Owners, p \in JobIds : DownloadPolicyModel(u, p)

OutSpec == OutInit /\ [][OutNext]_outVars

-----------------------------------------------------------------------------
(* Properties *)

\* Every row has its shape.
OutTypeOK ==
    /\ \A j \in JobIds : Exists(j) =>
          jobs[j].user \in Owners /\ jobs[j].status \in {"queued", "succeeded", "cancelled"}
    /\ \A s \in Slots : slot[s].phase \in {"idle", "inserted", "replay", "written", "inspected",
                                          "refresh"}
    /\ (\A u \in Owners : granted[u] \subseteq Purposes[u]) /\ shared \subseteq Owners
    /\ blob \in [Owners -> {"none", "staged", "foreign", "complete"}]
    /\ stored \in [Owners -> {"absent", "policy", "altered"}]
    /\ rows \in [JobIds -> Nat] /\ Requests \subseteq RequestType

\* A job leaves at most one artifact, whatever is retried after whatever crash
\* ("retries/cancellation cannot duplicate or substitute output", docs/TODO.md).
OneArtifactPerJob ==
    /\ \A j \in JobIds : rows[j] <= 1
    /\ \A p, q \in photoscans : p.made = q.made => p = q

\* A succeeded photoscan or policy job is never without its artifact: they
\* commit together.
ArtifactWithJob ==
    \A j \in JobIds : Exists(j) /\ jobs[j].status = "succeeded" =>
        /\ jobs[j].kind = "train.policy" => policies[j] # Missing
        /\ jobs[j].kind = "photoscan.single" => \E p \in photoscans : p.job = j

\* A policy artifact stands on the row of its own digest and key, whoever declared the
\* digest before and under whatever key: its owner may stage that row again, or lose the
\* object, but no sequence of uploads, completions and deletions leaves the artifact
\* without a row, or on one for another object.  A photoscan stands on a blob of its owner.
ArtifactBacked ==
    /\ \A j \in JobIds : policies[j] # Missing => OwnObject(policies[j].owner)
    /\ \A p \in photoscans : p.blob[1] = p.owner

\* The bytes of a policy go to its owner only.
ServedToOwner == \A d \in served : policies[d[2]] # Missing /\ policies[d[2]].owner = d[1]

\* What a consent carries lasts no longer than the consent: shared logs, and
\* work that waits for a worker.
ConsentCarries ==
    /\ \A u \in shared : "telemetry.sharing" \in granted[u]
    /\ \A j \in JobIds : Exists(j) /\ jobs[j].status = "queued" =>
          telemetryLogIdsFromPayload(jobs[j]) \subseteq granted[jobs[j].user]

\* Usage events never count an offer that was not inserted.
UsageBacked == counted <= offers

OutputsSafe ==
    OneArtifactPerJob /\ ArtifactWithJob /\ ArtifactBacked /\ ServedToOwner
    /\ ConsentCarries /\ UsageBacked
=============================================================================
