-------------------------- MODULE RegistryPublication --------------------------
(***************************************************************************)
(* Publication of the hardened runtime images                              *)
(* (scripts/hardened-runtime-registry.mjs and the workflow that drives     *)
(* it).  Builds push images by digest and write a build record; scanners,  *)
(* the attestation step, the independent pull and the runtime smoke each   *)
(* write a file of their own into one evidence directory, and a step that  *)
(* is run again overwrites its file.  create binds the files by hash into  *)
(* one record and validates it; verify validates a stored record against   *)
(* the directory it is given.                                              *)
(*                                                                         *)
(* A build's number stands for its manifest digest, and for its config     *)
(* digest; a file is what it was made from, so equal files are files with  *)
(* equal hashes.                                                           *)
(***************************************************************************)
EXTENDS Naturals, Sequences

CONSTANTS
    Components,     \* the images that are published together
    Revisions,      \* source revisions the workflow is dispatched with
    MaxBuilds,      \* bound: image builds
    NoRecord

VARIABLES
    builds,         \* what the registry holds: one entry per pushed digest
    attested,       \* the digests that carry a GitHub provenance attestation
    pulled,         \* per component, the digest tagged locally by the last pull
    dir,            \* the evidence directory
    publication,    \* publication.json, or NoRecord
    verified        \* the record and directory of the last successful verify, or NoRecord

pubVars == <<builds, attested, pulled, dir, publication, verified>>

Missing == 0
BuildIds == 1..Len(builds)
NoFile == [c \in Components |-> Missing]
EmptyDir == [buildRecord |-> NoFile, registryManifest |-> NoFile, spdx |-> NoFile,
             trivy |-> NoFile, bundle |-> NoFile, verification |-> NoFile, smoke |-> NoRecord]

\* the per-component files a record binds by path and SHA-256
BoundFiles == {"buildRecord", "registryManifest", "spdx", "trivy", "bundle", "verification"}

\* a runtime-smoke.json: the revision it was told, the config digests it ran,
\* and whether the same artifacts came back after a restart
Smoke(revision, restart) ==
    [sourceRevision |-> revision, images |-> pulled, sameArtifactRestartReady |-> restart]

-------------------------------------------------------------------------------

\* validatePublicationEvidence: the record on its own
validRecord(record) ==
    /\ \A c \in Components : record.images[c] # Missing /\ record.configs[c] # Missing
    /\ \A c \in Components : record.reference[c] = record.images[c]
    /\ \A c \in Components : record.findings[c] = FALSE
    /\ record.sameArtifactRestartReady
    /\ ~record.promotedClaims

\* validateFileHash: the file exists and hashes to what the record bound
validFileHash(record, files, kind, c) ==
    files[kind][c] # Missing /\ files[kind][c] = record.files[kind][c]

\* the report scanned the exact reference and found nothing that has a fix
validTrivy(record, files, c) ==
    files.trivy[c] = record.reference[c] /\ builds[files.trivy[c]].clean

\* the build record is of the manifest, the revision and the target; its
\* config digest is compared only when BuildKit reported one
validBuildRecord(record, files, c) ==
    LET b == files.buildRecord[c] IN
    /\ b = record.images[c]
    /\ builds[b].reportsConfig => b = record.configs[c]
    /\ builds[b].revision = record.sourceRevision
    /\ builds[b].component = c

\* some verified statement has the image manifest as its subject
validAttestation(record, files, c) == files.verification[c] = record.images[c]

\* the smoke ran the recorded configs of the recorded revision
validSmoke(record, files) ==
    /\ files.smoke # NoRecord
    /\ files.smoke = record.smoke
    /\ files.smoke.sourceRevision = record.sourceRevision
    /\ files.smoke.sameArtifactRestartReady
    /\ files.smoke.images = record.configs

\* validatePublicationEvidenceFiles: the record, then every bound file
validEvidenceFiles(record, files) ==
    /\ validRecord(record)
    /\ \A c \in Components :
          /\ \A kind \in BoundFiles : validFileHash(record, files, kind, c)
          /\ files.registryManifest[c] = record.images[c]
          /\ validTrivy(record, files, c)
          /\ validBuildRecord(record, files, c)
          /\ validAttestation(record, files, c)
    /\ validSmoke(record, files)

\* createPublicationEvidence: digests come from the build records, config
\* digests from the smoke, hashes from the files that are there
publicationOf(revision) ==
    [sourceRevision |-> revision,
     images |-> dir.buildRecord,
     reference |-> dir.buildRecord,
     configs |-> dir.smoke.images,
     files |-> [kind \in BoundFiles |-> dir[kind]],
     findings |-> [c \in Components |-> ~builds[dir.trivy[c]].clean],
     smoke |-> dir.smoke,
     sameArtifactRestartReady |-> dir.smoke.sameArtifactRestartReady,
     promotedClaims |-> FALSE]

-------------------------------------------------------------------------------

PubInit ==
    /\ builds = <<>>
    /\ attested = {}
    /\ pulled = NoFile
    /\ dir = EmptyDir
    /\ publication = NoRecord
    /\ verified = NoRecord

\* docker buildx build --push by digest, --metadata-file: the build record
BuildImage(c) ==
    /\ Len(builds) < MaxBuilds
    /\ \E revision \in Revisions, reportsConfig \in BOOLEAN, clean \in BOOLEAN :
          builds' = Append(builds, [component |-> c, revision |-> revision,
                                    reportsConfig |-> reportsConfig, clean |-> clean])
    /\ dir' = [dir EXCEPT !.buildRecord[c] = Len(builds) + 1]
    /\ UNCHANGED <<attested, pulled, publication, verified>>

\* syft and then trivy over the reference of the build record; the step stops
\* after the first when the second cannot run
ScanImage(c) ==
    /\ dir.buildRecord[c] # Missing
    /\ \/ dir' = [dir EXCEPT !.spdx[c] = dir.buildRecord[c], !.trivy[c] = dir.buildRecord[c]]
       \/ dir' = [dir EXCEPT !.spdx[c] = dir.buildRecord[c]]
    /\ UNCHANGED <<builds, attested, pulled, publication, verified>>

\* attest-build-provenance and write-attestations
AttestImage(c) ==
    /\ dir.buildRecord[c] # Missing
    /\ attested' = attested \cup {dir.buildRecord[c]}
    /\ dir' = [dir EXCEPT !.bundle[c] = dir.buildRecord[c]]
    /\ UNCHANGED <<builds, pulled, publication, verified>>

\* the verify job: the digest it was handed is pulled and its attestation
\* verified against the dispatched revision; the digest may be of any build
\* of that component, for the jobs of two dispatches share the directory
PullImage(c) ==
    /\ \E b \in {x \in attested : builds[x].component = c} :
          /\ dir' = [dir EXCEPT !.registryManifest[c] = b, !.verification[c] = b]
          /\ pulled' = [pulled EXCEPT ![c] = b]
    /\ UNCHANGED <<builds, attested, publication, verified>>

\* hardened-runtime-smoke.mjs over the locally tagged images
RunSmoke ==
    /\ \A c \in Components : pulled[c] # Missing
    /\ \E revision \in Revisions, restart \in BOOLEAN :
          dir' = [dir EXCEPT !.smoke = Smoke(revision, restart)]
    /\ UNCHANGED <<builds, attested, pulled, publication, verified>>

\* hardened-runtime-registry.mjs create: a missing file throws, an invalid
\* record throws, otherwise publication.json is written
CreatePublication ==
    /\ dir.smoke # NoRecord
    /\ \A kind \in BoundFiles, c \in Components : dir[kind][c] # Missing
    /\ \E revision \in Revisions :
          /\ validEvidenceFiles(publicationOf(revision), dir)
          /\ publication' = publicationOf(revision)
    /\ UNCHANGED <<builds, attested, pulled, dir, verified>>

\* hardened-runtime-registry.mjs verify succeeds on the stored record
VerifyPublication ==
    /\ publication # NoRecord
    /\ validEvidenceFiles(publication, dir)
    /\ verified' = [record |-> publication, dir |-> dir]
    /\ UNCHANGED <<builds, attested, pulled, dir, publication>>

\* the stored record is edited before it is verified: a digest is replaced, or
\* a maturity claim is raised
EditRecord ==
    /\ publication # NoRecord
    /\ verified = NoRecord
    /\ \/ publication' = [publication EXCEPT !.promotedClaims = TRUE]
       \/ \E c \in Components, b \in BuildIds :
             publication' = [publication EXCEPT !.images[c] = b, !.reference[c] = b]
    /\ UNCHANGED <<builds, attested, pulled, dir, verified>>

PubNext ==
    \/ \E c \in Components : BuildImage(c) \/ ScanImage(c) \/ AttestImage(c) \/ PullImage(c)
    \/ RunSmoke \/ CreatePublication \/ VerifyPublication \/ EditRecord

PubSpec == PubInit /\ [][PubNext]_pubVars

-------------------------------------------------------------------------------

\* The variables hold values of their types.
PubTypeOK ==
    /\ Len(builds) <= MaxBuilds
    /\ attested \subseteq BuildIds
    /\ pulled \in [Components -> BuildIds \cup {Missing}]
    /\ \A kind \in BoundFiles : dir[kind] \in [Components -> BuildIds \cup {Missing}]

\* A verified publication is about one set of images: for every component the
\* digest it names was built for that component from the published revision,
\* is attested, was scanned clean, and was pulled from the registry; and where
\* the build reported its config digest, that very image ran in the smoke.
VerifiedIsOneRelease ==
    verified # NoRecord =>
        LET record == verified.record IN
        \A c \in Components :
            LET b == record.images[c] IN
            /\ builds[b].component = c
            /\ builds[b].revision = record.sourceRevision
            /\ builds[b].clean
            /\ b \in attested
            /\ verified.dir.registryManifest[c] = b
            /\ builds[b].reportsConfig => verified.dir.smoke.images[c] = b

\* What was verified is what was bound: a file overwritten by a repeated step
\* after create makes verify refuse, and no maturity claim survives.
VerifiedIsBound ==
    verified # NoRecord =>
        /\ \A kind \in BoundFiles : verified.dir[kind] = verified.record.files[kind]
        /\ verified.dir.smoke = verified.record.smoke
        /\ ~verified.record.promotedClaims

\* the publication's safety
PublicationSafe == VerifiedIsOneRelease /\ VerifiedIsBound
===============================================================================
