------------------------- MODULE Verification_proofs -------------------------
(***************************************************************************)
(* What the policy and the evidence of a job can be, for every profile and *)
(* every request: an issue never widens a policy, and what is resolved is  *)
(* backed by the inputs it claims to come from.                            *)
(***************************************************************************)
EXTENDS Verification, TLAPS

ProfilePolicies == [min : Nat, max : Nat, editable : SUBSET Paths,
                    models : SUBSET Models, baseline : Models]

LEMMA PolicyType ==
    ASSUME NEW p \in Profiles, Policy(p) # None
    PROVE  /\ Policy(p) \in ProfilePolicies
           /\ Policy(p).editable = p.editable /\ Policy(p).models = p.models
           /\ Policy(p).min = p.minCandidates /\ Policy(p).max = p.maxCandidates
           /\ p.baseline \in p.models
BY DEF Policy, Profiles, ProfilePolicies

\* apply_issue_request only narrows: every candidate the narrowed policy allows
\* is one that the repository's policy allows.
THEOREM NarrowNeverWidens ==
    ASSUME NEW policy \in ProfilePolicies, NEW r \in Requests,
           Narrow(policy, r) # None
    PROVE  LET n == Narrow(policy, r) IN
           /\ n \in ProfilePolicies
           /\ n.editable \subseteq policy.editable
           /\ n.models \subseteq policy.models
           /\ policy.min <= n.min /\ n.min <= n.max /\ n.max <= policy.max
<1> DEFINE n == [policy EXCEPT !.min = r.budget, !.max = r.budget,
                        !.models = IF r.models = None THEN @ ELSE r.models,
                        !.editable = IF r.scope = None THEN @ ELSE r.scope]
<1>1. /\ r.budget \in Nat
      /\ ~(r.budget < policy.min) /\ ~(r.budget > policy.max)
      /\ r.models # None => r.models \subseteq policy.models
      /\ r.scope # None => r.scope \subseteq policy.editable
    BY DEF Narrow, Requests
<1>2. Narrow(policy, r) = n
    BY DEF Narrow
<1>3. policy.models \in SUBSET Models /\ policy.editable \in SUBSET Paths
      /\ policy.min \in Nat /\ policy.max \in Nat
    BY DEF ProfilePolicies
<1>4. n.min = r.budget /\ n.max = r.budget
      /\ n.models = (IF r.models = None THEN policy.models ELSE r.models)
      /\ n.editable = (IF r.scope = None THEN policy.editable ELSE r.scope)
    BY DEF ProfilePolicies
<1>5. n.models \subseteq policy.models /\ n.editable \subseteq policy.editable
    BY <1>1, <1>4
<1>6. n \in ProfilePolicies
  <2>1. n.models \in SUBSET Models /\ n.editable \in SUBSET Paths
      BY <1>3, <1>5
  <2>2. \A m \in SUBSET Models, e \in SUBSET Paths, b \in Nat :
            [policy EXCEPT !.min = b, !.max = b, !.models = m, !.editable = e]
                \in ProfilePolicies
      BY DEF ProfilePolicies
  <2>3. n = [policy EXCEPT !.min = r.budget, !.max = r.budget, !.models = n.models,
                           !.editable = n.editable]
      BY <1>4
  <2>4. ASSUME NEW m \in SUBSET Models, NEW e \in SUBSET Paths,
               n = [policy EXCEPT !.min = r.budget, !.max = r.budget, !.models = m,
                                  !.editable = e]
        PROVE  n \in ProfilePolicies
    <3>1. r.budget \in Nat
        BY <1>1
    <3> HIDE DEF n
    <3> QED
        BY <2>2, <2>4, <3>1
  <2> QED
      BY <2>1, <2>3, <2>4
<1> QED
    BY <1>1, <1>2, <1>3, <1>4, <1>5, <1>6

\* The policy a job runs under stays within its profile: its paths are editable
\* and not protected, its models and those of its candidates are allowed, and
\* its budget is within the bounds.
THEOREM PolicyStaysInProfile ==
    ASSUME NEW p \in Profiles, NEW r \in Requests, RuntimePolicy(p, r) # None
    PROVE  LET policy == RuntimePolicy(p, r) IN
           /\ policy.editable \subseteq p.editable \ Protected
           /\ policy.models \subseteq p.models
           /\ CandidateModels(policy, r) \subseteq p.models
           /\ p.minCandidates <= policy.max /\ policy.max <= p.maxCandidates
<1> DEFINE n == Narrow(Policy(p), r)
           policy == [n EXCEPT !.models = @ \cup {p.baseline}]
<1>1. Policy(p) # None /\ n # None /\ n.editable \cap Protected = {}
      /\ RuntimePolicy(p, r) = policy
    BY DEF RuntimePolicy
<1>2. /\ Policy(p) \in ProfilePolicies
      /\ Policy(p).editable = p.editable /\ Policy(p).models = p.models
      /\ Policy(p).min = p.minCandidates /\ Policy(p).max = p.maxCandidates
      /\ p.baseline \in p.models
    BY <1>1, PolicyType
<1>3. /\ n \in ProfilePolicies
      /\ n.editable \subseteq p.editable /\ n.models \subseteq p.models
      /\ p.minCandidates <= n.min /\ n.min <= n.max /\ n.max <= p.maxCandidates
    BY <1>1, <1>2, NarrowNeverWidens
<1>4. r.models # None => r.models \subseteq p.models
    BY <1>1, <1>2 DEF Narrow
<1> HIDE DEF n
<1>5. policy.editable = n.editable /\ policy.max = n.max
      /\ policy.models = n.models \cup {p.baseline}
    BY <1>3 DEF ProfilePolicies
<1>6. n.min \in Nat /\ n.max \in Nat /\ p.minCandidates \in Nat
    BY <1>3 DEF ProfilePolicies, Profiles
<1> HIDE DEF policy
<1> QED
    BY <1>1, <1>2, <1>3, <1>4, <1>5, <1>6 DEF CandidateModels

\* What is resolved is of a known shape, for the gate of the profile.
THEOREM ResolutionType ==
    ASSUME NEW p \in Profiles, NEW r \in Requests, Resolve(p, r) # None
    PROVE  Resolve(p, r) \in Resolutions /\ Resolve(p, r).gate = p.gate
<1>1. /\ p.gate \in Gates /\ p.dev \in SUBSET Evaluators /\ p.val \in SUBSET Evaluators
      /\ p.checks \in SUBSET Checks
    BY DEF Profiles
<1>2. /\ r.evaluators \in SUBSET Evaluators /\ r.data \in DataSets \cup {None}
      /\ r.checks \in SUBSET Checks
    BY DEF Requests
<1>3. WithoutEffect(p, r) \in SUBSET {"evaluators", "dataset"}
    BY DEF WithoutEffect
<1>4. ASSUME NEW source \in {"issue", "repository_default_bundle"}
      PROVE  /\ ByFoundry(p, r, source) \in Resolutions
             /\ ByFoundry(p, r, source).gate = p.gate
  <2>1. p.dev \cup r.evaluators \in SUBSET Evaluators
        /\ p.val \cup r.evaluators \in SUBSET Evaluators
      BY <1>1, <1>2
  <2> QED
      BY <1>1, <1>2, <1>3, <1>4, <2>1 DEF ByFoundry, Unused, Resolutions
<1>5. ASSUME NEW checks \in SUBSET Checks, NEW source \in {"issue", "repository"}
      PROVE  /\ ByChecks(p, r, source, checks) \in Resolutions
             /\ ByChecks(p, r, source, checks).gate = p.gate
    BY <1>1, <1>3, <1>5 DEF ByChecks, Unused, Resolutions
<1>6. ASSUME NEW source \in {"explicit_no_evidence", "no_verification_inputs"}
      PROVE  /\ NoEvidence(p, r, source) \in Resolutions
             /\ NoEvidence(p, r, source).gate = p.gate
    BY <1>1, <1>3, <1>6 DEF NoEvidence, Unused, Resolutions
<1> QED
    BY <1>1, <1>2, <1>4, <1>5, <1>6 DEF Resolve

\* The resolution v is one the profile and the request account for.
Justified(v, p, r) ==
    /\ v.dev \subseteq p.dev \cup r.evaluators
    /\ v.val \subseteq p.val \cup r.evaluators
    /\ v.asked \in {{}, r.evaluators} /\ v.data \in {None, r.data}
    /\ v.source = "issue" => Overrides(r)
    /\ v.mode = "foundry_evaluation" =>
         /\ p.bundle /\ p.dev \subseteq v.dev /\ p.val \subseteq v.val
         /\ p.scoped => v.dev = p.dev /\ v.val = p.val
    /\ IF v.mode = "repository_checks"
       THEN /\ v.checks # {}
            /\ v.checks = IF v.source = "issue" THEN r.checks ELSE p.checks
       ELSE v.checks = {}
    /\ v.mode = "none" => r.ack \/ (r.checks = {} /\ p.checks = {})
    /\ "evaluators" \in v.ignored <=> r.evaluators # {} /\ v.asked = {}
    /\ "dataset" \in v.ignored <=> r.data # None /\ v.data = None

\* A resolution uses only what the profile or the issue gives: evaluators,
\* data set and checks.  Foundry evaluates only with a bundle, with all of its
\* evaluators, and with no others when the bundle is scoped; checks are those of
\* the source that is named; no evidence is asked for or the last resort.  The
\* evaluators and the data set of the issue are used, or said to be ignored,
\* and never both; of its checks no such thing is true, as evaluators of the
\* issue displace them without a word.
THEOREM ResolutionIsJustified ==
    ASSUME NEW p \in Profiles, NEW r \in Requests, Resolve(p, r) # None
    PROVE  Justified(Resolve(p, r), p, r)
<1> DEFINE v == Resolve(p, r)
<1>0. /\ "evaluators" \in WithoutEffect(p, r) <=> ~Usable(p, r) /\ r.evaluators # {}
      /\ "dataset" \in WithoutEffect(p, r) <=> ~Usable(p, r) /\ r.data # None
    BY DEF WithoutEffect
<1>1. ASSUME NEW source \in {"issue", "repository_default_bundle"},
             v = ByFoundry(p, r, source), p.bundle,
             CompatibleEvaluators(p, r) \/ r.evaluators = {},
             IF source = "issue" THEN Usable(p, r) ELSE r.evaluators = {} /\ r.data = None
      PROVE  Justified(v, p, r)
  <2>1. /\ v.dev = p.dev \cup r.evaluators /\ v.val = p.val \cup r.evaluators
        /\ v.mode = "foundry_evaluation" /\ v.source = source /\ v.checks = {}
        /\ v.asked = r.evaluators /\ v.data = r.data
        /\ v.ignored = WithoutEffect(p, r)
      BY <1>1 DEF ByFoundry, Unused
  <2>2. p.scoped => v.dev = p.dev /\ v.val = p.val
      BY <1>1, <2>1 DEF CompatibleEvaluators
  <2>3. source = "issue" => Overrides(r)
      BY <1>1 DEF Overrides, Usable
  <2>4. /\ "evaluators" \in v.ignored <=> r.evaluators # {} /\ v.asked = {}
        /\ "dataset" \in v.ignored <=> r.data # None /\ v.data = None
      BY <1>0, <1>1, <2>1
  <2> HIDE DEF v
  <2> QED
      BY <1>1, <2>1, <2>2, <2>3, <2>4 DEF Justified
<1>2. ASSUME NEW source, NEW checks, v = ByChecks(p, r, source, checks), ~Usable(p, r),
             checks # {}, IF source = "issue" THEN checks = r.checks ELSE checks = p.checks
      PROVE  Justified(v, p, r)
  <2>1. /\ v.dev = {} /\ v.val = {} /\ v.asked = {} /\ v.data = None
        /\ v.mode = "repository_checks" /\ v.source = source /\ v.checks = checks
        /\ v.ignored = WithoutEffect(p, r)
      BY <1>2 DEF ByChecks, Unused
  <2> HIDE DEF v
  <2> QED
      BY <1>0, <1>2, <2>1 DEF Justified, Overrides
<1>3. ASSUME NEW source, source # "issue", v = NoEvidence(p, r, source), ~Usable(p, r),
             r.ack \/ (r.checks = {} /\ p.checks = {})
      PROVE  Justified(v, p, r)
  <2>1. /\ v.dev = {} /\ v.val = {} /\ v.asked = {} /\ v.data = None
        /\ v.mode = "none" /\ v.source = source /\ v.checks = {}
        /\ v.ignored = WithoutEffect(p, r)
      BY <1>3 DEF NoEvidence, Unused
  <2> HIDE DEF v
  <2> QED
      BY <1>0, <1>3, <2>1 DEF Justified
<1>4. CASE Usable(p, r)
    BY <1>1, <1>4 DEF Resolve, Usable
<1>5. CASE ~Usable(p, r) /\ r.checks # {}
    BY <1>2, <1>5 DEF Resolve
<1>6. CASE ~Usable(p, r) /\ r.checks = {} /\ r.ack
    BY <1>3, <1>6 DEF Resolve
<1>7. CASE ~Usable(p, r) /\ r.checks = {} /\ ~r.ack
    BY <1>1, <1>2, <1>3, <1>7 DEF Resolve
<1> QED
    BY <1>4, <1>5, <1>6, <1>7

\* The evidence of a deployment is one its gate policy allows.
THEOREM DeploymentModeAllowed ==
    ASSUME NEW p \in Profiles, DeploymentMode(p) # None
    PROVE  ModeAllowed(p.gate, DeploymentMode(p))
BY DEF DeploymentMode, ModeAllowed, Profiles, Gates
=============================================================================
