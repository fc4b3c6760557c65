---------------------------- MODULE PromotionLadder ----------------------------
(***************************************************************************)
(* Deployment manifests and their promotion (scripts/deployment-policy.mjs *)
(* over infra/deployment/deployment-policy.v1.json).  `validate` judges one *)
(* manifest; `promote` judges a target manifest against the bytes of its   *)
(* source manifest.  Deployment itself is the operator's and follows the   *)
(* runbook (docs/OPERATIONS.md 7.2, 7.3): a manifest is approved against   *)
(* the manifest its source environment runs, deployed at some later time,  *)
(* retired, or rolled back to.                                             *)
(*                                                                         *)
(* An approved manifest's number stands for the SHA-256 of its bytes.      *)
(***************************************************************************)
EXTENDS Naturals, Sequences

CONSTANTS
    Deployables,        \* deployable components
    Required,           \* those an active managed deployment must have
    SourceRevisions,    \* source revisions
    Digests,            \* artifact digests (SBOM and provenance go with them)
    SecretVersions,     \* versions of a secret reference
    MaxManifests        \* bound: approved manifests

VARIABLES
    manifests,          \* the approved manifests, in order
    running,            \* per environment, the manifest it runs, or 0
    everRan             \* the manifests that have been deployed

ladVars == <<manifests, running, everRan>>

Environments == {"sandbox", "staging", "production", "controlled-lab"}
Edges == {<<"protected-main", "sandbox">>, <<"sandbox", "staging">>,
          <<"staging", "production">>, <<"protected-main", "controlled-lab">>}
\* what a policy demands of an active managed manifest by name: required values
\* and secret references, accountable owners, evidence gates and signoffs
Demands == {"configuration", "owners", "gates", "signoffs"}
\* maximumAuthority of an environment; field authority is in none of them
MaximumAuthority(env) ==
    CASE env = "production" -> {"live"}
      [] env = "controlled-lab" -> {"hardware"}
      [] OTHER -> {}

Absent == 0
NoManifest == 0

-------------------------------------------------------------------------------

\* manifest.source and manifest.artifacts of a managed deployment: protected
\* main, clean tree, every URI bound to its digest, required components there
validSourceAndArtifacts(t) ==
    /\ t.protectedMain
    /\ t.immutableUris
    /\ \E c \in Deployables : t.artifacts[c] # Absent
    /\ t.status = "active" => \A c \in Required : t.artifacts[c] # Absent

\* manifest.configuration: a secret reference names its environment, and an
\* active manifest has everything the policy and its capabilities require
validConfiguration(t) ==
    /\ t.secretRef.environment = t.environment
    /\ t.status = "active" => "configuration" \in t.has

\* manifest.ownership, manifest.evidence and the promotion's signoffs
validOwnership(t) == t.status = "active" => {"owners", "gates", "signoffs"} \subseteq t.has

\* manifest.promotion: a direct edge, and a source manifest unless from main
validLineage(t) ==
    /\ <<t.sourceEnvironment, t.environment>> \in Edges
    /\ (t.sourceEnvironment = "protected-main") <=> (t.sourceManifest = NoManifest)

\* manifest.authority: within the environment's ceiling, and only when active
validAuthority(t) ==
    /\ t.authority \subseteq MaximumAuthority(t.environment)
    /\ t.status # "active" => t.authority = {}
    /\ "field" \notin t.authority

validManifest(t) ==
    /\ validSourceAndArtifacts(t)
    /\ validConfiguration(t)
    /\ validOwnership(t)
    /\ validLineage(t)
    /\ validAuthority(t)

\* validatePromotion(source, target, sourceDigest)
validPromotion(source, sourceDigest, t) ==
    /\ validManifest(source) /\ validManifest(t)
    /\ source.status = "active" /\ t.status = "active"
    /\ <<source.environment, t.environment>> \in Edges
    /\ t.sourceEnvironment = source.environment
    /\ t.sourceManifest = sourceDigest
    /\ t.revision = source.revision
    /\ \A c \in Deployables : source.artifacts[c] # Absent => t.artifacts[c] = source.artifacts[c]
    /\ t.secretRef # source.secretRef

-------------------------------------------------------------------------------

\* the manifests an operator may write: a careful one, or one with a flaw
CarefulDrafts(env) ==
    [environment : {env}, status : {"active"},
     revision : SourceRevisions, protectedMain : {TRUE}, immutableUris : {TRUE},
     artifacts : [Deployables -> Digests \cup {Absent}],
     secretRef : [environment : {"sandbox"} \cup {env}, version : SecretVersions],
     has : {Demands},
     sourceEnvironment : {e[1] : e \in Edges},
     sourceManifest : 0..Len(manifests),
     authority : {MaximumAuthority(env)}]
Flawed(t) ==
    {[t EXCEPT !.protectedMain = FALSE], [t EXCEPT !.immutableUris = FALSE],
     [t EXCEPT !.authority = {"field"}], [t EXCEPT !.status = "planned"]}
        \cup {[t EXCEPT !.has = Demands \ {d}] : d \in Demands}
Drafts(env) == CarefulDrafts(env) \cup UNION {Flawed(t) : t \in CarefulDrafts(env)}

LadInit ==
    /\ manifests = <<>>
    /\ running = [e \in Environments |-> NoManifest]
    /\ everRan = {}

\* `validate` on a manifest that comes from protected main
ApproveCandidate(env) ==
    /\ Len(manifests) < MaxManifests
    /\ <<"protected-main", env>> \in Edges
    /\ \E t \in Drafts(env) :
          /\ t.sourceEnvironment = "protected-main"
          /\ validManifest(t)
          /\ manifests' = Append(manifests, t)
    /\ UNCHANGED <<running, everRan>>

\* `promote` on the manifest the source environment runs and a target for env
ApprovePromotion(from, env) ==
    /\ Len(manifests) < MaxManifests
    /\ running[from] # NoManifest
    /\ \E t \in Drafts(env) :
          /\ validPromotion(manifests[running[from]], running[from], t)
          /\ manifests' = Append(manifests, t)
    /\ UNCHANGED <<running, everRan>>

\* the operator deploys an approved active manifest, now or long after its
\* approval; deploying one that ran before is a rollback
Deploy(n) ==
    /\ manifests[n].status = "active"
    /\ running[manifests[n].environment] # n
    /\ running' = [running EXCEPT ![manifests[n].environment] = n]
    /\ everRan' = everRan \cup {n}
    /\ UNCHANGED manifests

Retire(env) ==
    /\ running[env] # NoManifest
    /\ running' = [running EXCEPT ![env] = NoManifest]
    /\ UNCHANGED <<manifests, everRan>>

LadNext ==
    \/ \E env \in Environments : ApproveCandidate(env) \/ Retire(env)
    \/ \E edge \in Edges : edge[1] # "protected-main" /\ ApprovePromotion(edge[1], edge[2])
    \/ \E n \in DOMAIN manifests : Deploy(n)

LadSpec == LadInit /\ [][LadNext]_ladVars

-------------------------------------------------------------------------------

\* The variables hold values of their types.
LadTypeOK ==
    /\ Len(manifests) <= MaxManifests
    /\ running \in [Environments -> 0..Len(manifests)]
    /\ everRan \subseteq DOMAIN manifests

\* n was promoted from m without a rebuild
PromotedFrom(n, m) ==
    /\ manifests[n].sourceManifest = m
    /\ manifests[n].revision = manifests[m].revision
    /\ \A c \in Required : manifests[n].artifacts[c] = manifests[m].artifacts[c]

\* Nothing reaches production that did not run in staging and in sandbox with
\* the same revision and the same artifacts of every required component,
\* whatever was retired, replaced or rolled back between approval and deploy.
NoStageSkipped ==
    \A n \in everRan : manifests[n].environment = "production" =>
        \E m \in everRan, k \in everRan :
            /\ manifests[m].environment = "staging" /\ PromotedFrom(n, m)
            /\ manifests[k].environment = "sandbox" /\ PromotedFrom(m, k)

\* No two environments ever ran with one secret reference, also environments
\* that no promotion compares (sandbox and production, the lab and the rest).
SecretsNeverShared ==
    \A n, m \in everRan :
        manifests[n].secretRef = manifests[m].secretRef =>
            manifests[n].environment = manifests[m].environment

\* the ladder's safety
LadderSafe == NoStageSkipped /\ SecretsNeverShared
===============================================================================
