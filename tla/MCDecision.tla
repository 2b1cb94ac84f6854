----------------------------- MODULE MCDecision -----------------------------
(* Decision on three candidates.  The evaluations are one of each kind the *)
(* rules and the ranking tell apart.                                       *)
EXTENDS Decision

E(score, improved, regressed, tokens, latency) ==
    [successful |-> TRUE, score |-> score, improved |-> improved,
     regressed |-> regressed, tokens |-> tokens, latency |-> latency,
     passed |-> {"g"}, reported |-> {"g"}, guardScore |-> 1]

MCEvaluations ==
    { E(3, 1, 0, 1, 1),     \* viable
      E(4, 1, 0, 1, 1),     \* a better score
      E(4, 1, 1, 0, 1),     \* ties on the score, one regression
      E(3, 2, 0, 1, 1),     \* ties on the score, more improvements
      E(3, 1, 0, None, 0),  \* ties, token count missing
      E(3, 1, 0, 1, None),  \* ties, latency missing
      E(2, 1, 0, 1, 1),     \* delta below the minimum
      E(4, 0, 0, 1, 1),     \* too few improvements
      E(4, 1, 2, 1, 1),     \* too many regressions
      E(None, 1, 0, 1, 1),  \* no score
      [E(4, 1, 0, 1, 1) EXCEPT !.successful = FALSE],
      [E(4, 1, 0, 1, 1) EXCEPT !.passed = {}],
      [E(4, 1, 0, 1, 1) EXCEPT !.reported = {}],
      [E(4, 1, 0, 1, 1) EXCEPT !.guardScore = 0] }

MCRules ==
    [minDelta |-> 1, minImproved |-> 1, maxRegressed |-> 1,
     guardrails |-> {"g"}, requirePass |-> TRUE, minScore |-> 1]
=============================================================================
