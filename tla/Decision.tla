------------------------------ MODULE Decision ------------------------------
(***************************************************************************)
(* decide (poc/decision.py): which candidate wins, from the development   *)
(* evaluations of all candidates, the rules of the repository and, once it *)
(* ran, the validating evaluation of the best candidate.                  *)
(*                                                                         *)
(* Scores are decimals in the code; here they are integers in a fixed unit *)
(* (the code compares them as Decimal, so no rounding enters the order).   *)
(* Candidate ids are integers with the order of the ids.                   *)
(***************************************************************************)
EXTENDS Integers, FiniteSets

CONSTANTS
    CandidateIds,   \* the ids a job may hand to decide
    Evaluations,    \* the evaluation summaries that occur
    Paths,          \* the changed path counts that occur
    Guardrails,     \* guardrail names
    BaselineScore,  \* primary_score of the baseline control run
    Rules           \* DecisionRules

None == -1          \* Python's None, where a number may be missing

Scores == Nat \cup {None}

\* GuardrailResult by name; a name without a result is not in the domain.
\* EvaluationSummary without its links, names and versions.
Evaluation ==
    [successful: BOOLEAN, score: Scores, improved: Nat, regressed: Nat,
     tokens: Scores, latency: Scores, passed: SUBSET Guardrails,
     reported: SUBSET Guardrails, guardScore: Scores]

RuleSet ==
    [minDelta: Int, minImproved: Nat, maxRegressed: Nat,
     guardrails: SUBSET Guardrails, requirePass: BOOLEAN, minScore: Scores]

ASSUME IdsAssumption == CandidateIds \subseteq Nat
ASSUME PathsAssumption == Paths \subseteq Nat
ASSUME EvaluationsAssumption == Evaluations \subseteq Evaluation
ASSUME RulesAssumption == Rules \in RuleSet /\ BaselineScore \in Nat

\* CandidateDecisionInput: only an "ok" candidate carries an evaluation.
Inputs == [status: {"ok"}, eval: Evaluations, paths: Paths]
              \cup [status: {"invalid", "platform_failure"}, paths: Paths]

VARIABLES
    input,          \* the candidates of the call, by id
    todo,           \* ids the loop has not reached; it takes the smallest
    best,           \* provisional_best, its id
    outcome,        \* provisional_assessments: the outcome of each id so far
    decision        \* the Decision returned, or "pending" or "raised"

vars == <<input, todo, best, outcome, decision>>

-----------------------------------------------------------------------------
(* Pure part: assessment, order, validation.                               *)

FailedIgnoresMissing(e) ==
    {g \in Rules.guardrails \cap e.reported :
        \/ Rules.requirePass /\ g \notin e.passed
        \/ Rules.minScore # None
             /\ (e.guardScore = None \/ e.guardScore < Rules.minScore)}

\* _guardrail_failures
GuardrailFailures(e) ==
    {g \in Rules.guardrails :
        \/ g \notin e.reported
        \/ Rules.requirePass /\ g \notin e.passed
        \/ Rules.minScore # None
             /\ (e.guardScore = None \/ e.guardScore < Rules.minScore)}

MeetsRules(e) ==
    /\ GuardrailFailures(e) = {}
    /\ e.score - BaselineScore >= Rules.minDelta
    /\ e.improved >= Rules.minImproved
    /\ e.regressed <= Rules.maxRegressed

AssessStatusFirst(i) ==
    IF i.status # "ok" \/ ~i.eval.successful \/ i.eval.score = None THEN i.status
    ELSE IF MeetsRules(i.eval) THEN "keep" ELSE "discard"

\* _assess_candidate
Assess(i) ==
    IF i.status # "ok" THEN i.status
    ELSE IF ~i.eval.successful \/ i.eval.score = None THEN "platform_failure"
    ELSE IF MeetsRules(i.eval) THEN "keep" ELSE "discard"

Flag(b) == IF b THEN 1 ELSE 0

OrZero(x) == IF x = None THEN 0 ELSE x

KeyLength == 9

\* _rank_key without the two flags that are never set for a kept assessment
\* (its numbers of improved and regressed cases are never None).
RankKey(c) ==
    LET e == input[c].eval IN
    <<-e.score, e.regressed, -e.improved,
      Flag(e.tokens = None), OrZero(e.tokens),
      Flag(e.latency = None), OrZero(e.latency),
      input[c].paths, c>>

\* Python's order of tuples.
LexLess(a, b) ==
    \E i \in 1..KeyLength :
        a[i] < b[i] /\ \A j \in 1..(i - 1) : a[j] = b[j]

Before(c, d) == LexLess(RankKey(c), RankKey(d))

ValidatingPassesOnSuccess(e) == e.successful

\* _validating_passes
ValidatingPasses(e) == e.successful /\ GuardrailFailures(e) = {}

-----------------------------------------------------------------------------
(* decide: the loop over the sorted candidates, then the conclusion.       *)

NoDecision == [status |-> "pending"]

Raised == [status |-> "raised"]

Init ==
    /\ \E ids \in SUBSET CandidateIds : input \in [ids -> Inputs]
    /\ todo = DOMAIN input
    /\ best = None
    /\ outcome = [c \in {} |-> "keep"]
    /\ decision = NoDecision

With(c, o) == [x \in DOMAIN outcome \cup {c} |-> IF x = c THEN o ELSE outcome[x]]

IsNext(c) == c \in todo /\ \A d \in todo : c <= d

AssessStepForgetsOld(c) ==
    LET o == Assess(input[c])
        better == best = None \/ Before(c, best)
    IN
    /\ IsNext(c)
    /\ todo' = todo \ {c}
    /\ IF o = "keep" /\ better
       THEN /\ best' = c
            /\ outcome' = With(c, "keep")
       ELSE /\ UNCHANGED best
            /\ outcome' = With(c, IF o = "keep" THEN "discard" ELSE o)
    /\ UNCHANGED <<input, decision>>

AssessStepFirstStays(c) ==
    LET o == Assess(input[c]) IN
    /\ IsNext(c)
    /\ todo' = todo \ {c}
    /\ best' = IF o = "keep" /\ best = None THEN c ELSE best
    /\ outcome' = With(c, IF o = "keep" /\ best # None THEN "discard" ELSE o)
    /\ UNCHANGED <<input, decision>>

\* One turn of the loop.
AssessStep(c) ==
    LET o == Assess(input[c])
        better == best = None \/ Before(c, best)
    IN
    /\ IsNext(c)
    /\ todo' = todo \ {c}
    /\ IF o = "keep" /\ better
       THEN /\ best' = c
            /\ outcome' = [x \in DOMAIN outcome \cup {c} |->
                             IF x = c THEN "keep"
                             ELSE IF x = best THEN "discard" ELSE outcome[x]]
       ELSE /\ UNCHANGED best
            /\ outcome' = With(c, IF o = "keep" THEN "discard" ELSE o)
    /\ UNCHANGED <<input, decision>>

\* The Decision.  `run' holds the validating evaluation it was built from, if
\* decide was given one for this candidate.
Concluded(result, winner, validated, evaluations) ==
    [status |-> "decided", outcome |-> result, provisional |-> best,
     winner |-> winner, selected |-> winner, validating |-> validated,
     run |-> evaluations]

\* No candidate is left to assess and no validating run is known.
ConcludeWithoutValidating ==
    /\ todo = {} /\ decision = NoDecision
    /\ decision' = Concluded("no_winner", None, None, {})
    /\ UNCHANGED <<input, todo, best, outcome>>

\* The validating run `e' was made for candidate `target'.
ConcludeWithValidating(e, target) ==
    /\ todo = {} /\ decision = NoDecision /\ best # None
    /\ IF target # best THEN decision' = Raised /\ UNCHANGED outcome
       ELSE IF ValidatingPasses(e)
       THEN /\ decision' = Concluded("winner", best, best, {e})
            /\ outcome' = [outcome EXCEPT ![best] = "winner"]
       ELSE /\ decision' = Concluded("no_winner", None, best, {e})
            /\ outcome' = [outcome EXCEPT ![best] = "discard"]
    /\ UNCHANGED <<input, todo, best>>

Next ==
    \/ \E c \in DOMAIN input : AssessStep(c)
    \/ ConcludeWithoutValidating
    \/ \E e \in Evaluations, target \in DOMAIN input :
            ConcludeWithValidating(e, target)

Spec == Init /\ [][Next]_vars

-----------------------------------------------------------------------------
(* Properties.                                                             *)

Outcomes == {"keep", "discard", "invalid", "platform_failure", "winner"}

TypeOK ==
    /\ DOMAIN input \subseteq CandidateIds
    /\ \A c \in DOMAIN input : input[c] \in Inputs
    /\ todo \subseteq DOMAIN input
    /\ best \in DOMAIN input \cup {None}
    /\ DOMAIN outcome = DOMAIN input \ todo
    /\ \A c \in DOMAIN outcome : outcome[c] \in Outcomes

Eligible(c) == Assess(input[c]) = "keep"

\* The loop's result by its definition: of the candidates seen so far that
\* meet the rules, the one that precedes all the others in the ranking.
IsTop(c, seen) ==
    /\ c \in seen /\ Eligible(c)
    /\ \A d \in seen \ {c} : Eligible(d) => Before(c, d)

\* decide keeps the top ranked eligible candidate, whatever the order in which
\* scores, ties and missing token counts come, and one candidate is best
\* whenever any candidate is eligible.
BestIsTop ==
    IF \E c \in DOMAIN outcome : Eligible(c)
    THEN IsTop(best, DOMAIN outcome)
    ELSE best = None

\* At any moment of the loop exactly the best candidate is assessed "keep"; a
\* candidate that was overtaken later was rewritten to "discard".
OneKept ==
    decision = NoDecision =>
        {c \in DOMAIN outcome : outcome[c] = "keep"} = {best} \ {None}

\* What the rules ask of an evaluation, read off the rules: it succeeded, and
\* every guardrail has a result that passes and scores as required.
Clears(e) ==
    /\ e.successful
    /\ \A g \in Rules.guardrails :
          /\ g \in e.reported
          /\ Rules.requirePass => g \in e.passed
          /\ Rules.minScore # None =>
                e.guardScore # None /\ e.guardScore >= Rules.minScore

\* A winner meets the development rules, outranks every other eligible
\* candidate and passed its own validating run: the evaluation the decision
\* was built from was made for it, succeeded and clears every guardrail of the
\* rules.  A validating run that does not clear them leaves no winner.  The
\* winner is the only candidate assessed "winner", and the decision satisfies
\* Decision.validate_links.
WinnerIsEarned ==
    decision.status = "decided" =>
        /\ decision.winner # None =>
             /\ IsTop(decision.winner, DOMAIN input)
             /\ decision.validating = decision.winner
             /\ decision.outcome = "winner"
             /\ \E e \in decision.run : Clears(e)
        /\ decision.winner = None =>
             /\ decision.outcome = "no_winner"
             /\ \A e \in decision.run : ~Clears(e)
        /\ decision.run # {} => IsTop(decision.validating, DOMAIN input)
        /\ {c \in DOMAIN outcome : outcome[c] = "winner"}
               = {decision.winner} \ {None}
        /\ {decision.provisional, decision.winner, decision.validating}
               \subseteq DOMAIN input \cup {None}

\* Missing guardrail results count as failures: no candidate that lacks a
\* result of a guardrail the rules name is ever kept or wins.
NoUnreportedGuardrail ==
    \A c \in DOMAIN outcome :
        outcome[c] \in {"keep", "winner"} =>
            Rules.guardrails \subseteq input[c].eval.reported
=============================================================================
