----------------------------- MODULE Generation -----------------------------
(***************************************************************************)
(* Brief to contract: executeGeneration and runGeneration, the two         *)
(* synthesis adapters, the validator subprocess, and the rows a generation *)
(* leaves behind (generated_artifacts, usage_events, model_registry).      *)
(* Every await is a step, so requests interleave.  A contract is its       *)
(* meta.id, the seed that went into it and the set of checks it fails; its *)
(* hash is the contract itself.                                            *)
(***************************************************************************)
EXTENDS Integers, Sequences, FiniteSets

CONSTANTS Reqs,        \* generation requests in flight
          SignedIn,    \* signed-in users; a request may also be anonymous
          Prompts,     \* allowed briefs; a template's meta.id is the prompt's hash
          BadPrompts,  \* briefs the platform exclusions refuse
          Providers,   \* subset of {"template", "anthropic"}
          Seeds, Components, Models,
          Checks,      \* validator checks a contract can fail
          MaxRepairs,  \* MAX_REPAIR_ITERATIONS
          None

(* EVAL-ARCHETYPE and CTR-001 make the template start over; the template   *)
(* mends the checks of Mendable in place.                                  *)
Restart  == Checks \cap {"EVAL-ARCHETYPE", "CTR-001"}
Mendable == Checks \cap {"PRV-001", "CTR-005", "CTR-004", "SIM-003", "MFG-004", "BEH-001"}

VARIABLES reqs,       \* request -> its progress through the handler
          review,     \* component -> review_queue row
          refusals,   \* generation_refusals, by prompt and user
          artifacts,  \* generated_artifacts: artifact_id -> row
          usage,      \* usage_events idempotency keys
          models      \* model_registry: id -> row

genVars == <<reqs, review, refusals, artifacts, usage, models>>

Contract == [id : Prompts, seed : Seeds, flaws : SUBSET Checks]
Verdicts == {"admitted", "draft", "rejected"}
Final    == {"done", "refused", "failed"}

Attempt  == [phase : {"synthesize", "repair", "draft"}, verdict : Verdicts,
             contract : Contract, diagnostics : SUBSET Checks]
ArtifactRow == [status : Verdicts, prompt : Prompts, seed : Seeds, contract : Contract,
                report : Verdicts \cup {None}, attempts : 0..MaxRepairs + 2,
                owner : SignedIn \cup {None}, share : BOOLEAN]
ModelRow == [owner : SignedIn, src : Prompts \cup {None}, status : Verdicts,
             visibility : {"private", "unlisted"}, contract : Contract]

Request == [st : {"idle", "context", "synthesize", "validate", "repair", "draft",
                  "record", "usage", "register"} \cup Final,
            user : SignedIn \cup {None}, prompt : Prompts \cup BadPrompts \cup {None},
            provider : Providers \cup {None}, seed : Seeds, base : Contract \cup {None},
            cand : Contract \cup {None}, repairIndex : 0..MaxRepairs,
            attempts : Seq(Attempt), verdict : Verdicts \cup {"blocked", None},
            report : Verdicts \cup {None}]

GenTypeOK ==
  /\ reqs \in [Reqs -> Request]
  /\ review \in [Components -> {"needs_review", "approved", "blocked", "rejected"}]
  /\ refusals \subseteq BadPrompts \X (SignedIn \cup {None})
  /\ artifacts \in [Prompts -> ArtifactRow \cup {None}]
  /\ usage \subseteq Prompts \X Contract
  /\ models \in [Models -> ModelRow \cup {None}]

GenInit ==
  /\ reqs = [r \in Reqs |-> [st |-> "idle", user |-> None, prompt |-> None, provider |-> None,
                             seed |-> CHOOSE s \in Seeds : TRUE, base |-> None, cand |-> None,
                             repairIndex |-> 0, attempts |-> <<>>, verdict |-> None, report |-> None]]
  /\ review = [c \in Components |-> "needs_review"]
  /\ refusals = {}
  /\ artifacts = [i \in Prompts |-> None]
  /\ usage = {}
  /\ models = [m \in Models |-> None]

-----------------------------------------------------------------------------
(***************************************************************************)
(* runValidator.  A spawn failure is exit code -1; a process ended by a    *)
(* signal (the 30 s timeout kills it) has error.code null, which runSub-   *)
(* command reads as exit code 0 with no report.                            *)
(***************************************************************************)
verdictOf(c, asDraft) ==
  IF c.flaws = {} THEN "admitted" ELSE IF asDraft THEN "draft" ELSE "rejected"

runValidator(c, asDraft) ==
  { [exitCode |-> -1, report |-> None, diagnostics |-> {}],
    [exitCode |-> 0, report |-> None, diagnostics |-> {}],
    [exitCode |-> IF c.flaws = {} THEN 0 ELSE IF asDraft THEN 3 ELSE 2, report |-> verdictOf(c, asDraft),
     diagnostics |-> c.flaws] }

verdictFromReport(result) ==
  IF result.report # None THEN result.report
  ELSE IF result.exitCode = 0 THEN "admitted" ELSE "rejected"

pushAttempt(r, phase, result) ==
  Append(reqs[r].attempts, [phase |-> phase, verdict |-> verdictFromReport(result),
                            contract |-> reqs[r].cand, diagnostics |-> result.diagnostics])

Goto(r, st) == reqs' = [reqs EXCEPT ![r].st = st]

(* A component is decided once: recordReviewDecision takes needs_review    *)
(* rows only; an approval may still carry the export policy 'blocked'.     *)
recordReviewDecision(c, decision) ==
  /\ review[c] = "needs_review"
  /\ review' = [review EXCEPT ![c] = decision]
  /\ UNCHANGED <<reqs, refusals, artifacts, usage, models>>

(* executeGeneration up to runGeneration: a refused brief leaves its audit *)
(* row and nothing else.                                                   *)
executeGeneration(r, u, p, provider, s) ==
  /\ reqs[r].st = "idle"
  /\ reqs' = [reqs EXCEPT ![r] = [@ EXCEPT !.user = u, !.prompt = p, !.provider = provider, !.seed = s,
                                           !.st = IF p \in BadPrompts THEN "refused" ELSE "context"]]
  /\ refusals' = IF p \in BadPrompts THEN refusals \cup {<<p, u>>} ELSE refusals
  /\ UNCHANGED <<review, artifacts, usage, models>>

retrieveApprovedComponents == {c \in Components : review[c] = "approved"}

(* buildGenerationContext: without an approved component the verdict is    *)
(* blocked, which records usage and nothing else.                          *)
buildGenerationContext(r) ==
  /\ reqs[r].st = "context"
  /\ reqs' = IF retrieveApprovedComponents = {}
             THEN [reqs EXCEPT ![r].st = "done", ![r].verdict = "blocked"]
             ELSE [reqs EXCEPT ![r].st = "synthesize"]
  /\ UNCHANGED <<review, refusals, artifacts, usage, models>>

(* The template's contract is a function of brief and context; the LLM may *)
(* answer with any contract, also one that names another prompt's id.      *)
synthesize(r, c) ==
  /\ reqs[r].st = "synthesize"
  /\ c.seed = reqs[r].seed
  /\ reqs[r].provider = "template" => c.id = reqs[r].prompt
  /\ reqs' = [reqs EXCEPT ![r] = [@ EXCEPT !.st = "validate", !.base = c, !.cand = c]]
  /\ UNCHANGED <<review, refusals, artifacts, usage, models>>

(* One pass of the loop, up to the decision what comes next.               *)
validatePass(r) ==
  /\ reqs[r].st = "validate"
  /\ \E result \in runValidator(reqs[r].cand, FALSE) :
       LET phase == IF reqs[r].repairIndex = 0 THEN "synthesize" ELSE "repair"
           pushed == [reqs[r] EXCEPT !.attempts = pushAttempt(r, phase, result)]
       IN reqs' = [reqs EXCEPT ![r] =
            IF result.exitCode = -1 THEN [@ EXCEPT !.st = "failed"]
            ELSE IF verdictFromReport(result) = "admitted"
                 THEN [pushed EXCEPT !.st = "record", !.verdict = "admitted", !.report = result.report]
            ELSE IF reqs[r].repairIndex = MaxRepairs THEN [pushed EXCEPT !.st = "draft"]
            ELSE [pushed EXCEPT !.st = "repair"]]
  /\ UNCHANGED <<review, refusals, artifacts, usage, models>>

(* TemplateSynthesisAdapter.repair: start over, mend what it can, or give  *)
(* up (null).  What was changed may still fail, or fail another check:     *)
(* TemplateContract has the repairs themselves.                            *)
templateRepair(r) ==
  LET checks == reqs[r].attempts[Len(reqs[r].attempts)].diagnostics
  IN IF checks \cap Restart # {} THEN {reqs[r].base}
     ELSE IF checks \cap Mendable = {} THEN {None}
     ELSE {c \in Contract : c.id = reqs[r].cand.id /\ c.seed = reqs[r].cand.seed}

(* AnthropicSynthesisAdapter.repair: another call, any contract, never     *)
(* null.                                                                   *)
anthropicRepair(r) == {c \in Contract : c.seed = reqs[r].seed}

repair(r) ==
  /\ reqs[r].st = "repair"
  /\ \E c \in IF reqs[r].provider = "template" THEN templateRepair(r) ELSE anthropicRepair(r) :
       reqs' = [reqs EXCEPT ![r] = IF c = None THEN [@ EXCEPT !.st = "draft"]
                                   ELSE [@ EXCEPT !.st = "validate", !.cand = c,
                                                  !.repairIndex = reqs[r].repairIndex + 1]]
  /\ UNCHANGED <<review, refusals, artifacts, usage, models>>

draftPass(r) ==
  /\ reqs[r].st = "draft"
  /\ \E result \in runValidator(reqs[r].cand, TRUE) :
       reqs' = [reqs EXCEPT ![r] =
         IF result.exitCode = -1 THEN [@ EXCEPT !.st = "failed"]
         ELSE [@ EXCEPT !.attempts = pushAttempt(r, "draft", result), !.st = "record",
                        !.report = result.report,
                        !.verdict = IF verdictFromReport(result) = "draft" THEN "draft" ELSE "rejected"]]
  /\ UNCHANGED <<review, refusals, artifacts, usage, models>>

(* recordGeneratedArtifact: an upsert by artifact_id that keeps the old    *)
(* owner only when the new generation is anonymous.                        *)
newRow(r) ==
  [status |-> reqs[r].verdict, prompt |-> reqs[r].prompt, seed |-> reqs[r].seed,
   contract |-> reqs[r].cand, report |-> reqs[r].report, attempts |-> Len(reqs[r].attempts),
   owner |-> reqs[r].user, share |-> reqs[r].verdict = "admitted"]

recordGeneratedArtifact(r) ==
  LET i == reqs[r].cand.id
      owner == IF reqs[r].user = None /\ artifacts[i] # None THEN artifacts[i].owner ELSE reqs[r].user
  IN /\ reqs[r].st = "record"
     /\ artifacts' = [artifacts EXCEPT ![i] = [newRow(r) EXCEPT !.owner = owner]]
     /\ Goto(r, IF reqs[r].user = None THEN "done" ELSE "usage")
     /\ UNCHANGED <<review, refusals, usage, models>>

(* The idempotency key is the artifact and its contract, not the user.     *)
recordUsageEvent(r) ==
  /\ reqs[r].st = "usage"
  /\ usage' = usage \cup {<<reqs[r].cand.id, reqs[r].cand>>}
  /\ Goto(r, "register")
  /\ UNCHANGED <<review, refusals, artifacts, models>>

insertModel(m, u, c, report, src) ==
  models' = [models EXCEPT ![m] = [owner |-> u, src |-> src, status |-> report,
                                   visibility |-> "private", contract |-> c]]

(* Mutant: the status is taken from the generation's verdict instead.      *)
insertFromVerdict(r, m) ==
  /\ reqs[r].st = "register" /\ models[m] = None
  /\ insertModel(m, reqs[r].user, reqs[r].cand, reqs[r].verdict, reqs[r].cand.id)
  /\ Goto(r, "done")
  /\ UNCHANGED <<review, refusals, artifacts, usage>>

(* insertModelFromGeneration: no report, no model.                         *)
insertModelFromGeneration(r, m) ==
  /\ reqs[r].st = "register" /\ models[m] = None
  /\ IF reqs[r].report = None THEN UNCHANGED models
     ELSE insertModel(m, reqs[r].user, reqs[r].cand, reqs[r].report, reqs[r].cand.id)
  /\ Goto(r, "done")
  /\ UNCHANGED <<review, refusals, artifacts, usage>>

(* A database, provider or network error ends the request where it is;     *)
(* what it wrote stays, the three writes are not one transaction.          *)
RequestError(r) ==
  /\ reqs[r].st \notin Final \cup {"idle"}
  /\ Goto(r, "failed")
  /\ UNCHANGED <<review, refusals, artifacts, usage, models>>

Handler(r) ==
  \/ buildGenerationContext(r)
  \/ \E c \in Contract : synthesize(r, c)
  \/ validatePass(r) \/ repair(r) \/ draftPass(r)
  \/ recordGeneratedArtifact(r) \/ recordUsageEvent(r)
  \/ \E m \in Models : insertModelFromGeneration(r, m)

GenNext ==
  \/ \E r \in Reqs : \/ Handler(r) \/ RequestError(r)
                     \/ \E u \in SignedIn \cup {None}, p \in Prompts \cup BadPrompts,
                           provider \in Providers, s \in Seeds : executeGeneration(r, u, p, provider, s)
  \/ \E c \in Components, d \in {"approved", "blocked", "rejected"} : recordReviewDecision(c, d)

GenSpec == GenInit /\ [][GenNext]_genVars

(* Every await of the handler settles: the validator and the provider call *)
(* have timeouts.                                                          *)
GenFairSpec == GenSpec /\ \A r \in Reqs : WF_genVars(Handler(r))

-----------------------------------------------------------------------------
(***************************************************************************)
(* A registered model's status is what the validator says of its contract, *)
(* whatever happened to the validator on the way: a generation without a   *)
(* report registers nothing (insertModelFromGeneration, reportVerdict).    *)
(***************************************************************************)
RegisteredTruthful ==
  \A m \in Models : models[m] # None =>
    (models[m].status = "admitted" <=> models[m].contract.flaws = {})

(***************************************************************************)
(* The attempt history is the history of one bounded loop: one synthesis,  *)
(* then repairs, a draft run at most once and last, nothing after an       *)
(* admission, and never more than the repair budget allows (runGeneration).*)
(***************************************************************************)
AttemptHistory ==
  \A r \in Reqs : LET a == reqs[r].attempts IN
    /\ Len(a) <= MaxRepairs + 2
    /\ Cardinality({i \in DOMAIN a : a[i].phase # "draft"}) <= MaxRepairs + 1
    /\ \A i \in DOMAIN a : /\ (i = 1) <=> (a[i].phase = "synthesize")
                           /\ a[i].phase = "draft" \/ a[i].verdict = "admitted" => i = Len(a)

(***************************************************************************)
(* A draft was refused admission: the row of a generated artifact says     *)
(* draft only of a contract that fails a check, with the report that says  *)
(* so (the draft run of runGeneration and the upsert that follows it).     *)
(***************************************************************************)
DraftsWereRejected ==
  \A i \in Prompts : artifacts[i] # None /\ artifacts[i].status = "draft" =>
    artifacts[i].contract.flaws # {} /\ artifacts[i].report = "draft"

(***************************************************************************)
(* An anonymous generation of the same brief does not take an artifact     *)
(* away from its owner (the COALESCE of recordGeneratedArtifact).          *)
(***************************************************************************)
OwnerNotLost ==
  \A i \in Prompts : artifacts[i] # None /\ artifacts[i].owner # None
                        => artifacts'[i] # None /\ artifacts'[i].owner # None

(* A request whose brief was accepted and that has no answer yet.          *)
Unanswered(r) == reqs[r].st \notin Final \cup {"idle"}

(***************************************************************************)
(* What docs/systems/generation-pipeline.md says of the loop: an admitted  *)
(* generation passed forge-validate.                                       *)
(***************************************************************************)
AdmittedMeansValidated ==
  \A r \in Reqs : reqs[r].verdict = "admitted" => reqs[r].cand.flaws = {}
=============================================================================
