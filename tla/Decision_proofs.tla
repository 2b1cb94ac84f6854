--------------------------- MODULE Decision_proofs ---------------------------
(***************************************************************************)
(* Theorems about decide, for every set of candidates, evaluations and     *)
(* rules.  The ranking is a strict total order on the eligible candidates, *)
(* whatever ties and missing numbers there are, and the loop keeps its top.*)
(***************************************************************************)
EXTENDS Decision, TLAPS

-----------------------------------------------------------------------------
(* The order of keys.                                                      *)

Keys == [1..KeyLength -> Int]

\* No key is less than itself.
LEMMA LexIrreflexive == \A a \in Keys : ~LexLess(a, a)
  BY DEF Keys, KeyLength, LexLess

\* Python's order of tuples is transitive.
LEMMA LexTransitive ==
  ASSUME NEW a \in Keys, NEW b \in Keys, NEW d \in Keys,
         LexLess(a, b), LexLess(b, d)
  PROVE  LexLess(a, d)
<1>1. PICK i \in 1..KeyLength : a[i] < b[i] /\ \A m \in 1..(i - 1) : a[m] = b[m]
  BY DEF LexLess
<1>2. PICK j \in 1..KeyLength : b[j] < d[j] /\ \A m \in 1..(j - 1) : b[m] = d[m]
  BY DEF LexLess
<1> DEFINE k == IF i <= j THEN i ELSE j
<1>3. k \in 1..KeyLength
  BY <1>1, <1>2 DEF KeyLength
<1>4. a[k] < d[k]
  <2>1. CASE i < j
    <3>1. b[i] = d[i]
      BY <1>1, <1>2, <2>1 DEF KeyLength
    <3> QED BY <3>1, <1>1, <2>1 DEF KeyLength
  <2>2. CASE i = j
    BY <2>2, <1>1, <1>2 DEF Keys, KeyLength
  <2>3. CASE j < i
    <3>1. a[j] = b[j]
      BY <1>1, <1>2, <2>3 DEF KeyLength
    <3> QED BY <3>1, <1>2, <2>3 DEF KeyLength
  <2> QED BY <2>1, <2>2, <2>3 DEF KeyLength
<1>5. ASSUME NEW m \in 1..(k - 1) PROVE a[m] = d[m]
  BY <1>1, <1>2, <1>5 DEF KeyLength
<1> QED BY <1>3, <1>4, <1>5 DEF LexLess

\* Of two keys that differ in the last place one is less than the other.
LEMMA LexTotal ==
  ASSUME NEW a \in Keys, NEW b \in Keys, a[KeyLength] # b[KeyLength]
  PROVE  LexLess(a, b) \/ LexLess(b, a)
<1> SUFFICES ASSUME ~LexLess(a, b), ~LexLess(b, a) PROVE FALSE
  OBVIOUS
<1>0. ASSUME NEW i \in 1..KeyLength, \A j \in 1..(i - 1) : a[j] = b[j]
      PROVE  a[i] = b[i]
  BY <1>0 DEF Keys, KeyLength, LexLess
<1>1. a[1] = b[1]
  BY <1>0 DEF KeyLength
<1>2. a[2] = b[2]
  <2>1. \A j \in 1..(2 - 1) : a[j] = b[j]
    BY <1>1
  <2> QED BY <1>0, <2>1 DEF KeyLength
<1>3. a[3] = b[3]
  <2>1. \A j \in 1..(3 - 1) : a[j] = b[j]
    BY <1>1, <1>2
  <2> QED BY <1>0, <2>1 DEF KeyLength
<1>4. a[4] = b[4]
  <2>1. \A j \in 1..(4 - 1) : a[j] = b[j]
    BY <1>1, <1>2, <1>3
  <2> QED BY <1>0, <2>1 DEF KeyLength
<1>5. a[5] = b[5]
  <2>1. \A j \in 1..(5 - 1) : a[j] = b[j]
    BY <1>1, <1>2, <1>3, <1>4
  <2> QED BY <1>0, <2>1 DEF KeyLength
<1>6. a[6] = b[6]
  <2>1. \A j \in 1..(6 - 1) : a[j] = b[j]
    BY <1>1, <1>2, <1>3, <1>4, <1>5
  <2> QED BY <1>0, <2>1 DEF KeyLength
<1>7. a[7] = b[7]
  <2>1. \A j \in 1..(7 - 1) : a[j] = b[j]
    BY <1>1, <1>2, <1>3, <1>4, <1>5, <1>6
  <2> QED BY <1>0, <2>1 DEF KeyLength
<1>8. a[8] = b[8]
  <2>1. \A j \in 1..(8 - 1) : a[j] = b[j]
    BY <1>1, <1>2, <1>3, <1>4, <1>5, <1>6, <1>7
  <2> QED BY <1>0, <2>1 DEF KeyLength
<1>9. \A j \in 1..(KeyLength - 1) : a[j] = b[j]
  BY <1>1, <1>2, <1>3, <1>4, <1>5, <1>6, <1>7, <1>8 DEF KeyLength
<1> QED BY <1>0, <1>9 DEF KeyLength

-----------------------------------------------------------------------------
(* The ranking of the candidates.                                          *)

\* An eligible candidate ended "ok", and its key is a tuple of integers that
\* ends with its id.
LEMMA KeysOfEligible ==
  ASSUME TypeOK, NEW c \in DOMAIN input, Eligible(c)
  PROVE  RankKey(c) \in Keys /\ RankKey(c)[KeyLength] = c
<1> DEFINE e == input[c].eval
<1>1. input[c].status = "ok"
  BY DEF TypeOK, Inputs, Eligible, Assess
<1>2. input[c] \in [status: {"ok"}, eval: Evaluations, paths: Paths]
  BY <1>1 DEF TypeOK, Inputs
<1>3. e \in Evaluation /\ input[c].paths \in Nat
  BY <1>2, EvaluationsAssumption, PathsAssumption
<1>4. c \in Nat
  BY IdsAssumption DEF TypeOK
<1>5. /\ e.score \in Int /\ e.regressed \in Int /\ e.improved \in Int
      /\ e.tokens \in Int /\ e.latency \in Int
  BY <1>3 DEF Evaluation, Scores, None
<1>6. /\ Flag(e.tokens = None) \in Int /\ OrZero(e.tokens) \in Int
      /\ Flag(e.latency = None) \in Int /\ OrZero(e.latency) \in Int
  BY <1>5 DEF Flag, OrZero
<1>7. -e.score \in Int /\ -e.improved \in Int
  BY <1>5
<1> HIDE DEF e
<1>8. RankKey(c) =
        <<-e.score, e.regressed, -e.improved,
          Flag(e.tokens = None), OrZero(e.tokens),
          Flag(e.latency = None), OrZero(e.latency),
          input[c].paths, c>>
  BY DEF RankKey, e
<1> QED BY <1>3, <1>4, <1>5, <1>6, <1>7, <1>8 DEF Keys, KeyLength

\* The ranking orders any two eligible candidates, one way only, and orders
\* chains of them: the ids break every tie (_rank_key).
THEOREM RankingIsStrictOrder ==
  ASSUME TypeOK
  PROVE  \A c, d, f \in DOMAIN input :
             Eligible(c) /\ Eligible(d) /\ Eligible(f) =>
                 /\ c # d => Before(c, d) \/ Before(d, c)
                 /\ ~(Before(c, d) /\ Before(d, c))
                 /\ Before(c, d) /\ Before(d, f) => Before(c, f)
<1> SUFFICES ASSUME NEW c \in DOMAIN input, NEW d \in DOMAIN input,
                    NEW f \in DOMAIN input,
                    Eligible(c), Eligible(d), Eligible(f)
             PROVE  /\ c # d => Before(c, d) \/ Before(d, c)
                    /\ ~(Before(c, d) /\ Before(d, c))
                    /\ Before(c, d) /\ Before(d, f) => Before(c, f)
  OBVIOUS
<1>1. /\ RankKey(c) \in Keys /\ RankKey(c)[KeyLength] = c
      /\ RankKey(d) \in Keys /\ RankKey(d)[KeyLength] = d
      /\ RankKey(f) \in Keys
  BY KeysOfEligible
<1>2. c # d => Before(c, d) \/ Before(d, c)
  BY <1>1, LexTotal DEF Before
<1>3. ~(Before(c, d) /\ Before(d, c))
  BY <1>1, LexTransitive, LexIrreflexive DEF Before
<1>4. Before(c, d) /\ Before(d, f) => Before(c, f)
  BY <1>1, LexTransitive DEF Before
<1> QED BY <1>2, <1>3, <1>4

-----------------------------------------------------------------------------
(* What the loop knows between two of its turns.                           *)

\* Only eligible candidates are kept; as long as nothing is decided, one at
\* most is, and nobody has won; a decision is made when all are assessed.
OutcomesFit ==
    \A c \in DOMAIN outcome : outcome[c] \in {"keep", "winner"} => Eligible(c)
LoopFits ==
    decision = NoDecision =>
        \A c \in DOMAIN outcome :
            /\ outcome[c] # "winner"
            /\ outcome[c] = "keep" <=> c = best
DecisionFits == decision # NoDecision => todo = {}

Inv == /\ TypeOK /\ BestIsTop
       /\ OutcomesFit /\ LoopFits /\ DecisionFits /\ WinnerIsEarned

\* The best of the assessed candidates is one of them.
LEMMA BestAssessed ==
  ASSUME TypeOK, BestIsTop, best # None
  PROVE  best \in DOMAIN outcome /\ IsTop(best, DOMAIN outcome)
BY DEF BestIsTop, IsTop

LEMMA IdsAreNumbers == TypeOK => \A c \in DOMAIN input : c \in Nat /\ c # None
<1> SUFFICES ASSUME TypeOK, NEW c \in DOMAIN input PROVE c \in Nat /\ c # None
  OBVIOUS
<1>1. c \in Nat
  BY IdsAssumption DEF TypeOK
<1> QED BY <1>1 DEF None

\* The ranking and the rules look at the input only.
LEMMA InputKept ==
  ASSUME UNCHANGED input
  PROVE  /\ \A c : Eligible(c)' <=> Eligible(c)
         /\ \A c, d : Before(c, d)' <=> Before(c, d)
         /\ \A c, S : IsTop(c, S)' <=> IsTop(c, S)
BY DEF Eligible, Before, RankKey, IsTop

-----------------------------------------------------------------------------
(* One turn of the loop.                                                   *)

\* The candidates assessed after a turn on c, and what each has become.
LEMMA Turn ==
  ASSUME Inv, NEW c \in DOMAIN input, AssessStep(c)
  PROVE  /\ c \notin DOMAIN outcome /\ c # best /\ c # None
         /\ todo' = todo \ {c} /\ DOMAIN outcome' = DOMAIN outcome \cup {c}
         /\ decision = NoDecision /\ UNCHANGED <<input, decision>>
         /\ \/ /\ Eligible(c) /\ (best = None \/ Before(c, best))
               /\ best' = c /\ outcome'[c] = "keep"
               /\ \A d \in DOMAIN outcome :
                      outcome'[d] = IF d = best THEN "discard" ELSE outcome[d]
            \/ /\ ~Eligible(c) \/ (best # None /\ ~Before(c, best))
               /\ best' = best
               /\ outcome'[c] \in {"discard", "invalid", "platform_failure"}
               /\ \A d \in DOMAIN outcome : outcome'[d] = outcome[d]
<1>1. c \in todo /\ c \notin DOMAIN outcome /\ decision = NoDecision
  BY DEF AssessStep, IsNext, Inv, TypeOK, DecisionFits
<1>2. c # best /\ c # None
  <2>1. c # None
    BY IdsAreNumbers DEF Inv
  <2> QED BY <1>1, <2>1, BestAssessed DEF Inv
<1>3. Assess(input[c]) \in {"keep", "discard", "invalid", "platform_failure"}
  <2>1. input[c] \in Inputs
    BY DEF Inv, TypeOK
  <2> QED BY <2>1 DEF Inputs, Assess
<1>4. CASE Eligible(c) /\ (best = None \/ Before(c, best))
  <2>1. /\ best' = c /\ todo' = todo \ {c} /\ UNCHANGED <<input, decision>>
        /\ outcome' = [x \in DOMAIN outcome \cup {c} |->
                         IF x = c THEN "keep"
                         ELSE IF x = best THEN "discard" ELSE outcome[x]]
    BY <1>4 DEF AssessStep, Eligible
  <2> QED BY <1>1, <1>2, <1>4, <2>1
<1>5. CASE ~(Eligible(c) /\ (best = None \/ Before(c, best)))
  <2> DEFINE o == IF Assess(input[c]) = "keep" THEN "discard" ELSE Assess(input[c])
  <2>1. /\ best' = best /\ todo' = todo \ {c} /\ UNCHANGED <<input, decision>>
        /\ outcome' = [x \in DOMAIN outcome \cup {c} |->
                         IF x = c THEN o ELSE outcome[x]]
    BY <1>5 DEF AssessStep, Eligible, With
  <2>2. o \in {"discard", "invalid", "platform_failure"}
    BY <1>3
  <2> HIDE DEF o
  <2> QED BY <1>1, <1>2, <1>5, <2>1, <2>2
<1> QED BY <1>4, <1>5

LEMMA TurnKeeps ==
  ASSUME Inv, NEW c \in DOMAIN input, AssessStep(c)
  PROVE  Inv'
<1>1. /\ c \notin DOMAIN outcome /\ c # best /\ c # None
      /\ todo' = todo \ {c} /\ DOMAIN outcome' = DOMAIN outcome \cup {c}
      /\ decision = NoDecision /\ decision' = decision /\ input' = input
  BY Turn
<1>2. /\ \A d : Eligible(d)' <=> Eligible(d)
      /\ \A d, S : IsTop(d, S)' <=> IsTop(d, S)
  BY <1>1, InputKept
<1>3. DecisionFits' /\ WinnerIsEarned'
  BY <1>1 DEF DecisionFits, WinnerIsEarned, NoDecision
<1>4. CASE /\ Eligible(c) /\ (best = None \/ Before(c, best))
           /\ best' = c /\ outcome'[c] = "keep"
           /\ \A d \in DOMAIN outcome :
                  outcome'[d] = IF d = best THEN "discard" ELSE outcome[d]
  <2>1. TypeOK'
    BY <1>1, <1>4 DEF Inv, TypeOK, Outcomes
  <2>2. OutcomesFit'
    BY <1>1, <1>2, <1>4 DEF Inv, OutcomesFit
  <2>3. LoopFits'
    BY <1>1, <1>4 DEF Inv, LoopFits
  <2>4. ASSUME NEW d \in DOMAIN outcome, Eligible(d)
        PROVE  Before(c, d)
    <3>1. best # None /\ IsTop(best, DOMAIN outcome)
      <4>1. IsTop(best, DOMAIN outcome)
        BY <2>4 DEF Inv, BestIsTop
      <4>2. best \in DOMAIN input
        BY <4>1 DEF IsTop, Inv, TypeOK
      <4> QED BY <4>1, <4>2, IdsAreNumbers DEF Inv
    <3>2. Before(c, best)
      BY <1>4, <3>1
    <3>3. d = best \/ Before(best, d)
      BY <2>4, <3>1 DEF IsTop
    <3>4. /\ best \in DOMAIN input /\ Eligible(best) /\ d \in DOMAIN input
      BY <2>4, <3>1 DEF Inv, TypeOK, IsTop
    <3> QED BY <1>4, <2>4, <3>2, <3>3, <3>4, RankingIsStrictOrder DEF Inv
  <2>5. IsTop(c, DOMAIN outcome \cup {c})
    BY <1>4, <2>4 DEF IsTop
  <2>6. BestIsTop'
    BY <1>1, <1>2, <1>4, <2>5 DEF BestIsTop
  <2> QED BY <1>3, <2>1, <2>2, <2>3, <2>6 DEF Inv
<1>5. CASE /\ ~Eligible(c) \/ (best # None /\ ~Before(c, best))
           /\ best' = best
           /\ outcome'[c] \in {"discard", "invalid", "platform_failure"}
           /\ \A d \in DOMAIN outcome : outcome'[d] = outcome[d]
  <2>1. TypeOK'
    BY <1>1, <1>5 DEF Inv, TypeOK, Outcomes
  <2>2. OutcomesFit'
    BY <1>1, <1>2, <1>5 DEF Inv, OutcomesFit
  <2>3. LoopFits'
    BY <1>1, <1>5 DEF Inv, LoopFits
  <2>4. BestIsTop'
    <3>1. CASE best = None
      BY <1>1, <1>2, <1>5, <3>1 DEF Inv, BestIsTop, IsTop
    <3>2. CASE best # None
      <4>1. best \in DOMAIN outcome /\ IsTop(best, DOMAIN outcome)
        BY <3>2, BestAssessed DEF Inv
      <4>2. Eligible(best) /\ best \in DOMAIN input
        BY <4>1 DEF IsTop, Inv, TypeOK
      <4>3. Eligible(c) => Before(best, c)
        BY <1>1, <1>5, <3>2, <4>2, RankingIsStrictOrder DEF Inv
      <4>4. IsTop(best, DOMAIN outcome \cup {c})
        BY <4>1, <4>3 DEF IsTop
      <4> QED BY <1>1, <1>2, <1>5, <4>1, <4>2, <4>4 DEF BestIsTop
    <3> QED BY <3>1, <3>2
  <2> QED BY <1>3, <2>1, <2>2, <2>3, <2>4 DEF Inv
<1> QED BY <1>4, <1>5, Turn

-----------------------------------------------------------------------------
(* The two ends of the loop.                                               *)

\* Who is best when all candidates are assessed.
LEMMA BestOfAll ==
  ASSUME Inv, todo = {}
  PROVE  /\ DOMAIN outcome = DOMAIN input
         /\ best # None => best \in DOMAIN input /\ IsTop(best, DOMAIN input)
<1>1. DOMAIN outcome = DOMAIN input
  BY DEF Inv, TypeOK
<1> QED BY <1>1, BestAssessed DEF Inv

\* _validating_passes accepts a run exactly when it clears the rules, whatever
\* its guardrails report.
LEMMA PassesWhenCleared ==
  ASSUME NEW e \in Evaluations
  PROVE  ValidatingPasses(e) <=> Clears(e)
<1>1. e.guardScore \in Int
  BY EvaluationsAssumption DEF Evaluation, Scores, None
<1>2. Rules.minScore \in Int
  BY RulesAssumption DEF RuleSet, Scores, None
<1> QED BY <1>1, <1>2 DEF ValidatingPasses, GuardrailFailures, Clears

LEMMA EndWithoutKeeps ==
  ASSUME Inv, ConcludeWithoutValidating
  PROVE  Inv'
<1>1. /\ todo = {} /\ decision = NoDecision
      /\ decision' = Concluded("no_winner", None, None, {})
      /\ input' = input /\ todo' = todo /\ best' = best /\ outcome' = outcome
  BY DEF ConcludeWithoutValidating
<1>2. /\ \A d : Eligible(d)' <=> Eligible(d)
      /\ \A d, S : IsTop(d, S)' <=> IsTop(d, S)
  BY <1>1, InputKept
<1>3. TypeOK' /\ DecisionFits'
  BY <1>1 DEF Inv, TypeOK, DecisionFits
<1>4. BestIsTop' /\ OutcomesFit'
  BY <1>1, <1>2 DEF Inv, BestIsTop, OutcomesFit
<1>5. LoopFits'
  BY <1>1 DEF LoopFits, Concluded, NoDecision
<1>6. WinnerIsEarned'
  <2>1. /\ decision'.winner = None /\ decision'.outcome = "no_winner"
        /\ decision'.provisional = best /\ decision'.validating = None
        /\ decision'.run = {}
    BY <1>1 DEF Concluded
  <2>2. {d \in DOMAIN outcome : outcome[d] = "winner"} = {}
    BY <1>1 DEF Inv, LoopFits
  <2>3. best \in DOMAIN input \cup {None}
    BY DEF Inv, TypeOK
  <2> QED BY <1>1, <2>1, <2>2, <2>3 DEF WinnerIsEarned
<1> QED BY <1>3, <1>4, <1>5, <1>6 DEF Inv

LEMMA EndWithKeeps ==
  ASSUME Inv, NEW e \in Evaluations, NEW target \in DOMAIN input,
         ConcludeWithValidating(e, target)
  PROVE  Inv'
<1>1. /\ todo = {} /\ decision = NoDecision /\ best # None
      /\ input' = input /\ todo' = todo /\ best' = best
  BY DEF ConcludeWithValidating
<1>2. /\ \A d : Eligible(d)' <=> Eligible(d)
      /\ \A d, S : IsTop(d, S)' <=> IsTop(d, S)
  BY <1>1, InputKept
<1>3. /\ DOMAIN outcome = DOMAIN input /\ best \in DOMAIN input
      /\ IsTop(best, DOMAIN input) /\ Eligible(best)
  BY <1>1, BestOfAll DEF IsTop
<1>4. CASE decision' = Raised /\ outcome' = outcome
  <2>1. TypeOK' /\ DecisionFits'
    BY <1>1, <1>4 DEF Inv, TypeOK, DecisionFits
  <2>2. BestIsTop' /\ OutcomesFit'
    BY <1>1, <1>2, <1>4 DEF Inv, BestIsTop, OutcomesFit
  <2>3. LoopFits' /\ WinnerIsEarned'
    BY <1>4 DEF LoopFits, WinnerIsEarned, Raised, NoDecision
  <2> QED BY <2>1, <2>2, <2>3 DEF Inv
<1>5. ASSUME NEW o \in {"winner", "discard"},
             outcome' = [outcome EXCEPT ![best] = o]
      PROVE  TypeOK' /\ DecisionFits' /\ BestIsTop' /\ OutcomesFit'
  <2>1. TypeOK' /\ DecisionFits'
    BY <1>1, <1>3, <1>5 DEF Inv, TypeOK, DecisionFits, Outcomes
  <2>2. BestIsTop'
    BY <1>1, <1>2, <1>5 DEF Inv, BestIsTop
  <2>3. OutcomesFit'
    BY <1>1, <1>2, <1>3, <1>5 DEF Inv, OutcomesFit
  <2> QED BY <2>1, <2>2, <2>3
<1>6. CASE /\ ValidatingPasses(e)
           /\ decision' = Concluded("winner", best, best, {e})
           /\ outcome' = [outcome EXCEPT ![best] = "winner"]
  <2>1. /\ decision'.winner = best /\ decision'.outcome = "winner"
        /\ decision'.provisional = best /\ decision'.validating = best
        /\ decision'.run = {e}
    BY <1>6 DEF Concluded
  <2>2. {d \in DOMAIN outcome' : outcome'[d] = "winner"} = {best}
    BY <1>1, <1>3, <1>6 DEF Inv, LoopFits
  <2>3. WinnerIsEarned'
    <3>1. Clears(e)
      BY <1>6, PassesWhenCleared
    <3>2. best # None /\ ~({best} \ {None} = {})
      BY <1>1
    <3> QED BY <1>1, <1>2, <1>3, <2>1, <2>2, <3>1, <3>2 DEF WinnerIsEarned
  <2>4. LoopFits'
    BY <1>6 DEF LoopFits, Concluded, NoDecision
  <2> QED BY <1>5, <1>6, <2>3, <2>4 DEF Inv
<1>7. CASE /\ ~ValidatingPasses(e)
           /\ decision' = Concluded("no_winner", None, best, {e})
           /\ outcome' = [outcome EXCEPT ![best] = "discard"]
  <2>1. /\ decision'.winner = None /\ decision'.outcome = "no_winner"
        /\ decision'.provisional = best /\ decision'.validating = best
        /\ decision'.run = {e}
    BY <1>7 DEF Concluded
  <2>2. {d \in DOMAIN outcome' : outcome'[d] = "winner"} = {}
    BY <1>1, <1>3, <1>7 DEF Inv, LoopFits
  <2>3. WinnerIsEarned'
    <3>1. ~Clears(e)
      BY <1>7, PassesWhenCleared
    <3> QED BY <1>1, <1>2, <1>3, <2>1, <2>2, <3>1 DEF WinnerIsEarned
  <2>4. LoopFits'
    BY <1>7 DEF LoopFits, Concluded, NoDecision
  <2> QED BY <1>5, <1>7, <2>3, <2>4 DEF Inv
<1> QED BY <1>1, <1>4, <1>6, <1>7 DEF ConcludeWithValidating

-----------------------------------------------------------------------------
(* The theorems.                                                           *)

LEMMA InitFits == Init => Inv
<1> SUFFICES ASSUME Init PROVE Inv
  OBVIOUS
<1>1. PICK ids \in SUBSET CandidateIds : input \in [ids -> Inputs]
  BY DEF Init
<1>2. /\ todo = DOMAIN input /\ best = None /\ DOMAIN outcome = {}
      /\ decision = NoDecision
  BY DEF Init
<1>3. TypeOK
  BY <1>1, <1>2 DEF TypeOK
<1>4. BestIsTop /\ OutcomesFit /\ LoopFits /\ DecisionFits
  BY <1>2 DEF BestIsTop, OutcomesFit, LoopFits, DecisionFits
<1>5. WinnerIsEarned
  BY <1>2 DEF WinnerIsEarned, NoDecision
<1> QED BY <1>3, <1>4, <1>5 DEF Inv

LEMMA StepFits == Inv /\ [Next]_vars => Inv'
<1> SUFFICES ASSUME Inv, [Next]_vars PROVE Inv'
  OBVIOUS
<1>1. ASSUME NEW c \in DOMAIN input, AssessStep(c) PROVE Inv'
  BY <1>1, TurnKeeps
<1>2. CASE ConcludeWithoutValidating
  BY <1>2, EndWithoutKeeps
<1>3. ASSUME NEW e \in Evaluations, NEW target \in DOMAIN input,
             ConcludeWithValidating(e, target)
      PROVE Inv'
  BY <1>3, EndWithKeeps
<1>4. CASE UNCHANGED vars
  BY <1>4 DEF vars, Inv, TypeOK, BestIsTop, IsTop, OutcomesFit, LoopFits,
              DecisionFits, WinnerIsEarned, Eligible, Before, RankKey
<1> QED BY <1>1, <1>2, <1>3, <1>4 DEF Next

LEMMA InvHolds == Spec => []Inv
<1> QED BY InitFits, StepFits, PTL DEF Spec

\* The variables of decide have their types.
THEOREM TypeCorrect == Spec => []TypeOK
<1>1. Inv => TypeOK
  BY DEF Inv
<1> QED BY <1>1, InvHolds, PTL

\* The incremental loop of decide has, after every turn, the top ranked of
\* the eligible candidates it has seen.
THEOREM LoopKeepsTop == Spec => []BestIsTop
<1>1. Inv => BestIsTop
  BY DEF Inv
<1> QED BY <1>1, InvHolds, PTL

\* A candidate that was overtaken is rewritten: only the best is "keep".
THEOREM OnlyBestIsKept == Spec => []OneKept
<1>1. ASSUME Inv PROVE OneKept
  <2> SUFFICES ASSUME decision = NoDecision
               PROVE  {c \in DOMAIN outcome : outcome[c] = "keep"} = {best} \ {None}
    BY DEF OneKept
  <2>1. \A c \in DOMAIN outcome : outcome[c] = "keep" <=> c = best
    BY <1>1 DEF Inv, LoopFits
  <2>2. best # None => best \in DOMAIN outcome
    BY <1>1, BestAssessed DEF Inv
  <2>3. None \notin DOMAIN outcome
    BY <1>1, IdsAreNumbers DEF Inv, TypeOK
  <2> QED BY <2>1, <2>2, <2>3
<1> QED BY <1>1, InvHolds, PTL

\* Nobody is selected without being first in the ranking and without a
\* validating run of its own that succeeded and clears every guardrail.
THEOREM WinnersEarnIt == Spec => []WinnerIsEarned
<1>1. Inv => WinnerIsEarned
  BY DEF Inv
<1> QED BY <1>1, InvHolds, PTL

\* A guardrail of the rules without a result keeps a candidate from being kept.
THEOREM GuardrailsAreReported == Spec => []NoUnreportedGuardrail
<1>1. ASSUME Inv, NEW c \in DOMAIN outcome, outcome[c] \in {"keep", "winner"}
      PROVE  Rules.guardrails \subseteq input[c].eval.reported
  <2>1. Eligible(c)
    BY <1>1 DEF Inv, OutcomesFit
  <2>2. input[c] \in Inputs
    BY <1>1 DEF Inv, TypeOK
  <2>3. MeetsRules(input[c].eval)
    BY <2>1, <2>2 DEF Eligible, Assess, Inputs
  <2> QED BY <2>3 DEF MeetsRules, GuardrailFailures
<1>2. Inv => NoUnreportedGuardrail
  BY <1>1 DEF NoUnreportedGuardrail
<1> QED BY <1>2, InvHolds, PTL
=============================================================================
