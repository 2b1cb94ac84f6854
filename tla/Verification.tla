----------------------------- MODULE Verification -----------------------------
(***************************************************************************)
(* How an optimize job gets its policy and its evidence: the profile of    *)
(* the selected agent (repository_selection.py, registry_runtime.py), the  *)
(* narrowing of its policy by the issue (poc/config.py), the permission    *)
(* the issue's overrides need, and the choice between Foundry evaluation,  *)
(* repository checks and no evidence (poc/verification.py).                *)
(*                                                                         *)
(* A profile is what is read of .foundry-opt: the gate policy, the default *)
(* evaluation bundle, the checks, the bounds of the edit policy.  A        *)
(* request is the validated issue form.  Paths, models, evaluators, data   *)
(* sets and checks are values; patterns stand for the paths they match.    *)
(***************************************************************************)
EXTENDS Naturals

CONSTANTS Agents,      \* the agent ids a registry can have
          Paths,       \* the paths of the repository
          Models, Evaluators, DataSets, Checks,
          Protected,   \* paths no candidate may change, whatever the profile
          None         \* an optional input that is absent, a refusal

Gates == {"require_foundry_evaluation", "allow_repository_checks",
          "allow_no_evidence"}
Permissions == {"admin", "maintain", "write", "triage", "read", "none", None}

Profiles ==
    [gate : Gates, bundle : BOOLEAN, scoped : BOOLEAN,
     dev : SUBSET Evaluators, val : SUBSET Evaluators,
     checks : SUBSET Checks, guarded : BOOLEAN,
     aligned : BOOLEAN, activated : BOOLEAN,
     minCandidates : Nat, maxCandidates : Nat,
     editable : SUBSET Paths, models : SUBSET Models, baseline : Models]

\* A registry: the enabled agents with their profiles; None where the profile
\* is missing or names another agent.
IsRegistry(x) == \E A \in SUBSET Agents : x \in [A -> Profiles \cup {None}]

Requests ==
    [agent : Agents \cup {None}, budget : Nat \ {0},
     models : (SUBSET Models) \cup {None}, scope : (SUBSET Paths) \cup {None},
     evaluators : SUBSET Evaluators, data : DataSets \cup {None},
     checks : SUBSET Checks, ack : BOOLEAN]

-----------------------------------------------------------------------------
(* The agent and its policy.                                               *)

\* resolve_registry_selection: the named agent, or the only enabled one.
Selected(registry, r) ==
    IF r.agent \in DOMAIN registry THEN registry[r.agent]
    ELSE IF r.agent = None /\ \E a \in Agents : DOMAIN registry = {a}
    THEN registry[CHOOSE a \in Agents : DOMAIN registry = {a}]
    ELSE None

\* build_repository_policy_from_registry_selection and the two checks of the
\* edit scope that building the controller makes.
Policy(p) ==
    IF ~p.guarded \/ p.baseline \notin p.models THEN None
    ELSE [min |-> p.minCandidates, max |-> p.maxCandidates,
          editable |-> p.editable, models |-> p.models, baseline |-> p.baseline]

\* apply_issue_request: an issue may only narrow.  That it names observed
\* failures where the policy wants them is no condition here: no request is
\* made without (_string_sequence, _issue_request_from_body).
Narrow(policy, r) ==
    IF \/ r.budget < policy.min \/ r.budget > policy.max
       \/ r.models # None /\ ~(r.models \subseteq policy.models)
       \/ r.scope # None /\ ~(r.scope \subseteq policy.editable)
    THEN None
    ELSE [policy EXCEPT !.min = r.budget, !.max = r.budget,
                        !.models = IF r.models = None THEN @ ELSE r.models,
                        !.editable = IF r.scope = None THEN @ ELSE r.scope]

\* _narrow_runtime_settings keeps the baseline model, which the baseline draft
\* needs; _validate_candidate_handoff still holds candidates to the issue's.
RuntimePolicy(p, r) ==
    IF Policy(p) = None THEN None
    ELSE LET narrow == Narrow(Policy(p), r) IN
         IF narrow = None \/ narrow.editable \cap Protected # {} THEN None
         ELSE [narrow EXCEPT !.models = @ \cup {p.baseline}]

CandidateModels(policy, r) ==
    IF r.models = None THEN policy.models ELSE r.models

-----------------------------------------------------------------------------
(* The issue's overrides.                                                  *)

Overrides(r) == r.evaluators # {} \/ r.data # None \/ r.checks # {}

\* verify_issue_evaluator_authority, ..._dataset_..., ..._check_...
HasAuthority(permission, r) ==
    Overrides(r) => permission \in {"admin", "maintain", "write"}

\* _validate_issue_evaluator_compatibility
CompatibleEvaluators(p, r) == p.scoped => r.evaluators \subseteq p.dev \cap p.val

-----------------------------------------------------------------------------
(* DefaultVerificationResolver.resolve: one of these, in this order.       *)

\* The evaluators and the data set of the issue beside the merged ones, and
\* what of the issue was ignored with a warning, are part of what is recorded
\* and compared.
Resolutions ==
    [mode : {"foundry_evaluation", "repository_checks", "none"}, gate : Gates,
     source : {"issue", "repository_default_bundle", "repository",
               "explicit_no_evidence", "no_verification_inputs"},
     dev : SUBSET Evaluators, val : SUBSET Evaluators,
     asked : SUBSET Evaluators, data : DataSets \cup {None},
     checks : SUBSET Checks, ignored : SUBSET {"evaluators", "dataset"}]

Usable(p, r) == r.evaluators # {} /\ p.bundle
WithoutEffect(p, r) ==
    {x \in {"evaluators", "dataset"} :
        /\ ~Usable(p, r)
        /\ IF x = "evaluators" THEN r.evaluators # {} ELSE r.data # None}

Unused(p, r, mode, source) ==
    [mode |-> mode, gate |-> p.gate, source |-> source, dev |-> {}, val |-> {},
     asked |-> {}, data |-> None, checks |-> {}, ignored |-> WithoutEffect(p, r)]

NoEvidence(p, r, source) == Unused(p, r, "none", source)
ByChecks(p, r, source, checks) ==
    [Unused(p, r, "repository_checks", source) EXCEPT !.checks = checks]
ByFoundry(p, r, source) ==
    [Unused(p, r, "foundry_evaluation", source) EXCEPT
        !.dev = p.dev \cup r.evaluators, !.val = p.val \cup r.evaluators,
        !.asked = r.evaluators, !.data = r.data]

Resolve(p, r) ==
    IF Usable(p, r)
    THEN IF CompatibleEvaluators(p, r) THEN ByFoundry(p, r, "issue") ELSE None
    ELSE IF r.checks # {} THEN ByChecks(p, r, "issue", r.checks)
    ELSE IF r.ack THEN NoEvidence(p, r, "explicit_no_evidence")
    ELSE IF p.bundle /\ r.evaluators = {} /\ r.data = None
    THEN ByFoundry(p, r, "repository_default_bundle")
    ELSE IF p.checks # {} THEN ByChecks(p, r, "repository", p.checks)
    ELSE NoEvidence(p, r, "no_verification_inputs")

\* verification_mode_allowed
ModeAllowed(gate, mode) ==
    \/ mode = "foundry_evaluation"
    \/ mode = "repository_checks" /\ gate # "require_foundry_evaluation"
    \/ mode = "none" /\ gate = "allow_no_evidence"

-----------------------------------------------------------------------------
(* The evidence of a registered deployment.                                *)

\* _usable_deployment_bundle
UsableBundle(p) == p.bundle /\ (p.aligned => p.activated)

\* resolve_deployment_verification; no issue has a say in it.
DeploymentMode(p) ==
    IF p.gate = "require_foundry_evaluation"
    THEN IF p.bundle THEN "foundry_evaluation" ELSE None
    ELSE IF UsableBundle(p) THEN "foundry_evaluation"
    ELSE IF p.checks # {} THEN "repository_checks"
    ELSE IF p.gate = "allow_repository_checks" THEN None ELSE "none"
=============================================================================
