------------------------- MODULE OptimizeJob_proofs -------------------------
(***************************************************************************)
(* What is proved of an optimize job, for any candidates, results and      *)
(* bounds, guided or not: the job calls its runtime as DraftRuntime        *)
(* allows, and what the state file says at its end is backed by what was   *)
(* evaluated, whatever fails or is interrupted in between.                 *)
(***************************************************************************)
EXTENDS OptimizeJob, FiniteSetTheorems, TLAPS

\* The runtime again, with what is proved of it.
RP == INSTANCE DraftRuntime_proofs

-----------------------------------------------------------------------------
(* What the state file may say.                                            *)

Quantitative(j) == j.mode = "foundry_evaluation"
Label(j) == IF j.mode = "repository_checks" THEN "recommended"
                                          ELSE "proposed_unverified"

\* Of any handed off candidates one is first, by any numbers and then by id.
First(f, c, S) ==
    c \in S /\ \A d \in S \ {c} : f[c] > f[d] \/ (f[c] = f[d] /\ c < d)
HasFirst(S) ==
    \A T \in SUBSET S : T # {} =>
        \A f \in [Candidates -> Nat] : \E c \in T : First(f, c, T)

HandedFits(j) ==
    /\ IsFiniteSet(Handed(j)) /\ Cardinality(Handed(j)) <= MinCandidates
    /\ HasFirst(Handed(j))

\* One candidate, by the mode of the job.
CandidateFits(mode, k) ==
    /\ k.assessment \notin {"none", "invalid"} \/ k.dev # None => k.finalized
    /\ IF mode = "foundry_evaluation"
       THEN /\ k.checks = "none"
            /\ k.assessment \in {"keep", "discard", "winner"} => k.dev # None
       ELSE /\ k.dev = None /\ k.val = None /\ k.draft = None
            /\ k.assessment \notin {"winner", "platform_failure"}
            /\ mode = "repository_checks" /\ k.assessment # "none"
                   /\ k.assessment # "invalid" => k.checks # "none"

AllCompleted(j) == Handed(j) \subseteq Completed(j)

\* The decision and the outcome, by the mode of the job.
ModeFits(j) ==
    IF Quantitative(j)
    THEN j.terminal \notin {"recommended", "proposed_unverified"}
    ELSE /\ j.terminal \in {"none", Label(j)}
         /\ j.decision.prov = None /\ j.decision.winner = None
         /\ j.decision.selected # None => j.decision.outcome = Label(j)

\* The selected candidate is the first acceptable one.
SelectionFits(j) ==
    Quantitative(j) \/ j.decision.selected = Least(Acceptable(j))

WinnerFits(j) ==
    j.terminal = "winner" /\ j.decision.winner # None =>
        LET w == j.decision.winner IN
        /\ j.cand[w].dev \in Viable
        /\ j.cand[w].val \in Passing
        /\ w = Best(j, Eligible(j))

JobFits(j) ==
    /\ j \in JobState
    /\ HandedFits(j)
    /\ \A c \in Candidates : CandidateFits(j.mode, j.cand[c])
    /\ ModeFits(j)
    /\ Accepted(j)
    /\ j.projection # None => j.terminal \in Positive
    /\ j.closure => j.terminal = "no_winner"
    /\ j.terminal # "none" => AllCompleted(j)
    /\ j.terminal \in Positive => SelectionFits(j)
    /\ WinnerFits(j)

-----------------------------------------------------------------------------
(* What a command knows at each of its steps.                              *)

Sweeping == {"sweep", "sweeping", "retryDecide"}
Resting == {"idle", "entry", "afterTry", "afterFailure"}
Commenting == {"postFinal", "sidecarFinal", "storeFinal"}
OnCandidate == {"finalize", "evaluate", "evaluating", "decide", "afterTry",
                "comment", "validating", "validated", "project",
                "storeProjection"}
ForFoundry == {"evaluating", "validating", "validated", "finalDecide",
               "sweeping", "retryDecide", "afterFailure", "storeClosure"}
Deciding == {"finDecide", "validating", "validated", "finalDecide"}
Finishing == Deciding \cup {"project", "storeProjection", "close", "storeClosure"}

ControlFits(j, p) ==
    /\ p \in Proc /\ p.todo \subseteq Handed(j)
    /\ p.pc \in Sweeping => p.next \in Resting
    /\ p.pc \in Commenting => p.next \in {"bind", "idle"}
    /\ p.pc = "sweeping" => p.todo # {}
    /\ (p.pc \in OnCandidate \/ (p.pc \in Sweeping /\ p.next = "afterTry"))
           => p.cand \in Handed(j)
    /\ (p.pc \in ForFoundry \/ (p.pc \in Sweeping /\ p.next = "afterFailure"))
           => Quantitative(j)
    /\ p.pc \in {"finalize", "evaluating"} =>
           /\ j.cand[p.cand].assessment = "none"
           /\ j.cand[p.cand].finalized <=> p.pc = "evaluating"

DecidingFits(j, p) ==
    /\ p.pc \in Deciding => j.terminal = "none"
    /\ p.pc \in Finishing => AllCompleted(j)
    /\ p.pc \in {"validating", "validated", "finalDecide"} =>
           j.decision.prov = p.cand /\ p.cand \in Handed(j)

EffectFits(j, p) ==
    /\ p.pc \in {"project", "storeProjection"} =>
           /\ j.projection = None /\ j.decision.selected = p.cand
           /\ SelectionFits(j)
           /\ j.terminal = "none" => ~Quantitative(j)
           /\ j.terminal \in Positive \cup {"none"}
    /\ p.pc \in {"close", "storeClosure"} =>
           ~j.closure /\ j.terminal \in {"none", "no_winner"}

\* What the checkout, the pull request and the sidecar file have to do with
\* it: w holds the three.
World == [applied |-> applied, pr |-> pr, sideFinal |-> sideFinal]

WorldRests(j, w) ==
    /\ j.projection # None => w.applied = j.projection
    /\ ~Quantitative(j) =>
           w.pr # "closed" /\ (w.sideFinal => j.projection # None)

WorldFits(j, p, w) ==
    /\ WorldRests(j, w)
    /\ p.pc = "storeProjection" => w.applied = p.cand
    /\ ~Quantitative(j) /\ p.pc \in Commenting => j.projection # None

CommandFits(j, p, w) ==
    /\ ControlFits(j, p) /\ DecidingFits(j, p) /\ EffectFits(j, p)
    /\ WorldFits(j, p, w)

\* The frame of the runtime belongs to the candidate of the command.
FrameFits(p, frame, files) ==
    /\ p.pc \in {"evaluating", "validated"} => frame.cand = p.cand
    /\ frame.step = "done" /\ frame.status = "ok" => frame.cand \in DOMAIN files

WorldTypes ==
    /\ sideFinal \in BOOLEAN /\ bound \in BOOLEAN
    /\ finalBody \in DecisionRecord
    /\ pr \in {"none", "open", "closed"}
    /\ applied \in Candidates \cup {None}
    /\ faults \in 0..MaxFaults /\ interrupts \in 0..MaxInterrupts

Fits == JobFits(job) /\ CommandFits(job, proc, World)

Inv == RP!IInv /\ FrameFits(proc, call, side) /\ Fits /\ WorldTypes

-----------------------------------------------------------------------------
(* The first of some candidates.                                           *)

\* None is a natural number that is neither a candidate nor a result.
LEMMA Numbers ==
    /\ None = 0
    /\ \A c \in Candidates : c \in Nat /\ c # None
    /\ \A s \in Summaries : s \in Nat /\ s # None
BY IdsAssumption, SummariesAssumption DEF None, R!None

LEMMA OneMoreHasFirst ==
    ASSUME NEW S \in SUBSET Candidates, NEW c \in Candidates, HasFirst(S)
    PROVE  HasFirst(S \cup {c})
<1> SUFFICES ASSUME NEW T \in SUBSET (S \cup {c}), T # {},
                    NEW f \in [Candidates -> Nat]
             PROVE  \E d \in T : First(f, d, T)
  BY DEF HasFirst
<1>1. CASE T \subseteq S
  BY <1>1 DEF HasFirst
<1>2. CASE T = {c}
  BY <1>2 DEF First
<1>3. CASE c \in T /\ T \ {c} # {}
  <2>1. PICK d \in T \ {c} : First(f, d, T \ {c})
    BY <1>3 DEF HasFirst
  <2>2. f[c] \in Nat /\ \A e \in T : f[e] \in Nat /\ e \in Nat
    BY Numbers
  <2>3. CASE f[c] > f[d] \/ (f[c] = f[d] /\ c < d)
    <3>1. First(f, c, T)
      BY <1>3, <2>1, <2>2, <2>3 DEF First
    <3>2. QED
      BY <1>3, <3>1
  <2>4. CASE ~(f[c] > f[d] \/ (f[c] = f[d] /\ c < d))
    <3>1. First(f, d, T)
      BY <1>3, <2>1, <2>2, <2>4 DEF First
    <3>2. QED
      BY <2>1, <3>1
  <2>5. QED
    BY <2>3, <2>4
<1>4. QED
  BY <1>1, <1>2, <1>3

LEMMA LeastIsMember ==
    ASSUME NEW S \in SUBSET Candidates, HasFirst(S), NEW T \in SUBSET S, T # {}
    PROVE  Least(T) \in T
<1> DEFINE f == [c \in Candidates |-> 0]
<1>1. PICK c \in T : First(f, c, T)
  BY DEF HasFirst
<1>2. c <= c /\ \A d \in T : c <= d
  BY <1>1, Numbers DEF First
<1>3. QED
  BY <1>2 DEF Least

LEMMA BestIsMember ==
    ASSUME NEW j \in JobState, HasFirst(Handed(j)),
           NEW T \in SUBSET Handed(j), T # {}
    PROVE  Best(j, T) \in T
<1> DEFINE f == [c \in Candidates |-> j.cand[c].dev]
<1>1. \A c \in Candidates : j.cand[c].dev \in Nat
  <2> TAKE c \in Candidates
  <2>1. j.cand[c] \in Candidate
    BY DEF JobState
  <2>2. j.cand[c].dev \in Summaries \cup {None}
    BY <2>1 DEF Candidate
  <2>3. QED
    BY <2>2, Numbers
<1>2. f \in [Candidates -> Nat]
  BY <1>1
<1> HIDE DEF f
<1>3. PICK c \in T : First(f, c, T)
  BY <1>2 DEF HasFirst
<1>4. \A d \in T \ {c} : \/ j.cand[c].dev > j.cand[d].dev
                         \/ j.cand[c].dev = j.cand[d].dev /\ c < d
  BY <1>3 DEF First, f, Handed
<1>5. QED
  BY <1>4 DEF Best

\* The best candidate depends on the results only.
LEMMA SameBest ==
    ASSUME NEW j, NEW n, NEW S,
           \A c \in S : n.cand[c].dev = j.cand[c].dev
    PROVE  Best(n, S) = Best(j, S)
<1> DEFINE Wins(m, c, d) ==
        m.cand[c].dev > m.cand[d].dev
          \/ (m.cand[c].dev = m.cand[d].dev /\ c < d)
<1>1. ASSUME NEW c \in S
      PROVE  (\A d \in S \ {c} : Wins(n, c, d))
               <=> (\A d \in S \ {c} : Wins(j, c, d))
  <2>1. \A d \in S \ {c} : Wins(n, c, d) = Wins(j, c, d)
    OBVIOUS
  <2>2. QED
    BY <2>1
<1>2. (CHOOSE c \in S : \A d \in S \ {c} : Wins(n, c, d))
        = (CHOOSE c \in S : \A d \in S \ {c} : Wins(j, c, d))
  <2> HIDE DEF Wins
  <2>1. QED
    BY <1>1
<1>3. CASE S = {}
  BY <1>3 DEF Best
<1>4. CASE S # {}
  <2>1. Best(n, S) = CHOOSE c \in S : \A d \in S \ {c} : Wins(n, c, d)
    BY <1>4, Zenon DEF Best
  <2>2. Best(j, S) = CHOOSE c \in S : \A d \in S \ {c} : Wins(j, c, d)
    BY <1>4, Zenon DEF Best
  <2>3. QED
    BY <1>2, <2>1, <2>2, Zenon
<1>5. QED
  BY <1>3, <1>4

\* Enough candidates are all candidates: the minimum is the budget.
LEMMA EnoughIsAll ==
    ASSUME NEW j, HandedFits(j), EnoughCompleted(j)
    PROVE  AllCompleted(j)
<1>1. Completed(j) \subseteq Handed(j)
  BY DEF Completed
<1>2. Cardinality(Completed(j)) <= Cardinality(Handed(j))
      /\ (Cardinality(Completed(j)) = Cardinality(Handed(j))
            => Completed(j) = Handed(j))
  BY <1>1, FS_Subset DEF HandedFits
<1>3. Cardinality(Completed(j)) \in Nat /\ Cardinality(Handed(j)) \in Nat
  BY <1>1, FS_Subset, FS_CardinalityType DEF HandedFits
<1>4. QED
  BY <1>2, <1>3, BoundsAssumption DEF EnoughCompleted, AllCompleted, HandedFits

-----------------------------------------------------------------------------
(* The saves of the state file.                                            *)

\* What a save may never take back.
Kept(j, n) ==
    /\ j.projection # None => n.projection = j.projection
    /\ j.closure => n.closure
    /\ j.projection # None \/ j.closure => n.terminal = j.terminal

Follows(j, n) == JobFits(n) /\ Kept(j, n) /\ n.mode = j.mode

SameEvidence(j, n) ==
    \A c \in Candidates :
        /\ n.cand[c].handed = j.cand[c].handed
        /\ n.cand[c].finalized = j.cand[c].finalized
        /\ n.cand[c].dev = j.cand[c].dev
        /\ n.cand[c].val = j.cand[c].val
        /\ n.cand[c].checks = j.cand[c].checks
        /\ n.cand[c].assessment = j.cand[c].assessment

\* Everything but the candidates stays.
SameEnd(j, n) ==
    /\ n.mode = j.mode /\ n.decision = j.decision /\ n.terminal = j.terminal
    /\ n.projection = j.projection /\ n.closure = j.closure

LEMMA OneChanged ==
    ASSUME NEW j \in JobState, NEW c \in Candidates, NEW k \in Candidate
    PROVE  LET n == [j EXCEPT !.cand[c] = k] IN
           /\ n \in JobState /\ n.cand[c] = k
           /\ \A d \in Candidates \ {c} : n.cand[d] = j.cand[d]
           /\ SameEnd(j, n)
BY DEF JobState, SameEnd

LEMMA SameSets ==
    ASSUME NEW j \in JobState, NEW n \in JobState, n.mode = j.mode, SameEvidence(j, n)
    PROVE  /\ Handed(n) = Handed(j) /\ Completed(n) = Completed(j)
           /\ Eligible(n) = Eligible(j) /\ Acceptable(n) = Acceptable(j)
           /\ Best(n, Eligible(n)) = Best(j, Eligible(j))
<1>1. Handed(n) = Handed(j)
  BY DEF SameEvidence, Handed
<1>2. Completed(n) = Completed(j)
  BY <1>1 DEF SameEvidence, Completed, Handed
<1>3. Eligible(n) = Eligible(j)
  BY <1>1 DEF SameEvidence, Eligible, Handed
<1>4. Acceptable(n) = Acceptable(j)
  BY <1>1 DEF SameEvidence, Acceptable, Handed
<1>5. \A c \in Eligible(j) : n.cand[c].dev = j.cand[c].dev
  BY DEF SameEvidence, Eligible, Handed
<1>6. Best(n, Eligible(j)) = Best(j, Eligible(j))
  BY <1>5, SameBest
<1>7. QED
  BY <1>1, <1>2, <1>3, <1>4, <1>6

\* A save that changes no evidence.
LEMMA SameEvidenceFits ==
    ASSUME NEW j, JobFits(j), NEW n \in JobState, Accepted(n),
           n.mode = j.mode, SameEvidence(j, n), ModeFits(n),
           \A c \in Candidates : \/ Quantitative(j)
                               \/ n.cand[c].draft = j.cand[c].draft,
           n.projection # None => n.terminal \in Positive,
           n.closure => n.terminal = "no_winner",
           n.terminal # "none" => AllCompleted(j),
           n.terminal \in Positive /\ ~Quantitative(j) =>
               n.decision.selected = Least(Acceptable(j)),
           n.terminal = "winner" /\ n.decision.winner # None =>
               j.terminal = "winner" /\ n.decision.winner = j.decision.winner
    PROVE  JobFits(n)
<1>1. j \in JobState
  BY DEF JobFits
<1>2. /\ Handed(n) = Handed(j) /\ Completed(n) = Completed(j)
      /\ Eligible(n) = Eligible(j) /\ Acceptable(n) = Acceptable(j)
      /\ Best(n, Eligible(n)) = Best(j, Eligible(j))
  BY <1>1, SameSets
<1>3. HandedFits(n)
  BY <1>2 DEF JobFits, HandedFits
<1>4. ASSUME NEW c \in Candidates PROVE CandidateFits(n.mode, n.cand[c])
  <2>1. CandidateFits(j.mode, j.cand[c])
    BY DEF JobFits
  <2>2. QED
    BY <2>1 DEF SameEvidence, CandidateFits, Quantitative
<1>5. n.terminal # "none" => AllCompleted(n)
  BY <1>2 DEF AllCompleted
<1>6. n.terminal \in Positive => SelectionFits(n)
  BY <1>2 DEF SelectionFits, Quantitative
<1>7. WinnerFits(n)
  <2> SUFFICES ASSUME n.terminal = "winner", n.decision.winner # None
               PROVE  LET w == n.decision.winner IN
                      /\ n.cand[w].dev \in Viable
                      /\ n.cand[w].val \in Passing
                      /\ w = Best(n, Eligible(n))
    BY DEF WinnerFits
  <2>1. /\ j.cand[n.decision.winner].dev \in Viable
        /\ j.cand[n.decision.winner].val \in Passing
        /\ n.decision.winner = Best(j, Eligible(j))
    BY DEF JobFits, WinnerFits
  <2>2. n.decision.winner \in Candidates
    BY DEF JobState, DecisionRecord
  <2>3. QED
    BY <1>2, <2>1, <2>2 DEF SameEvidence
<1>8. QED
  BY <1>3, <1>4, <1>5, <1>6, <1>7 DEF JobFits

\* A save that leaves the job open.
LEMMA OpenFits ==
    ASSUME NEW j, JobFits(j), NEW n \in JobState, Accepted(n),
           n.mode = j.mode, HandedFits(n),
           \A c \in Candidates : CandidateFits(n.mode, n.cand[c]),
           n.terminal = "none", ModeFits(n), n.projection = None, ~n.closure
    PROVE  JobFits(n)
<1>1. WinnerFits(n) /\ n.terminal \notin Positive
  BY DEF WinnerFits, Positive
<1>2. QED
  BY <1>1 DEF JobFits

\* An open job has neither a patch nor a closure to keep.
LEMMA OpenKept ==
    ASSUME NEW j, JobFits(j), j.terminal \in {"none", "platform_failure"}, NEW n
    PROVE  j.projection = None /\ ~j.closure /\ Kept(j, n)
BY DEF JobFits, Kept, Positive

-----------------------------------------------------------------------------
(* One lemma per way the commands change the state.                        *)

\* Handoff.
LEMMA HandoffSaved ==
    ASSUME NEW j, JobFits(j), NEW c \in Candidates, c \notin Handed(j),
           j.terminal = "none", Cardinality(Handed(j)) < MinCandidates,
           NEW k \in Candidate, k.handed, CandidateFits(j.mode, k),
           NEW n, n = [j EXCEPT !.cand[c] = k], Accepted(n)
    PROVE  Follows(j, n)
<1>1. j \in JobState
  BY DEF JobFits
<1>3. /\ n \in JobState /\ n.cand[c] = k
      /\ \A d \in Candidates \ {c} : n.cand[d] = j.cand[d]
      /\ SameEnd(j, n)
  BY <1>1, OneChanged
<1>4. Handed(n) = Handed(j) \cup {c}
  BY <1>1, <1>3 DEF Handed, JobState, Candidate
<1>5. HandedFits(n)
  <2>1. IsFiniteSet(Handed(j)) /\ Cardinality(Handed(j)) \in Nat
    BY FS_CardinalityType DEF JobFits, HandedFits
  <2>2. /\ IsFiniteSet(Handed(n))
        /\ Cardinality(Handed(n)) = Cardinality(Handed(j)) + 1
    <3>1. /\ IsFiniteSet(Handed(j) \cup {c})
          /\ Cardinality(Handed(j) \cup {c}) =
               IF c \in Handed(j) THEN Cardinality(Handed(j))
                                 ELSE Cardinality(Handed(j)) + 1
      BY <2>1, FS_AddElement
    <3>2. QED
      BY <1>4, <3>1
  <2>3. HasFirst(Handed(n))
    <3>1. HasFirst(Handed(j)) /\ Handed(j) \subseteq Candidates
      BY DEF JobFits, HandedFits, Handed
    <3>2. QED
      BY <1>4, <3>1, OneMoreHasFirst
  <2>4. QED
    BY <2>1, <2>2, <2>3, BoundsAssumption DEF HandedFits
<1>6. ASSUME NEW d \in Candidates PROVE CandidateFits(n.mode, n.cand[d])
  BY <1>3 DEF JobFits, SameEnd
<1>7. ModeFits(n)
  BY <1>3 DEF JobFits, ModeFits, SameEnd, Quantitative, Label
<1>8. j.projection = None /\ ~j.closure /\ Kept(j, n)
  BY OpenKept
<1>9. JobFits(n)
  BY <1>3, <1>5, <1>6, <1>7, <1>8, OpenFits DEF SameEnd
<1>10. QED
  BY <1>3, <1>8, <1>9 DEF Follows, SameEnd

\* A result of one candidate while the job is open.
LEMMA ResultSaved ==
    ASSUME NEW j, JobFits(j), j.terminal = "none",
           NEW c \in Candidates, NEW k \in Candidate,
           k.handed = j.cand[c].handed, CandidateFits(j.mode, k),
           NEW n, n = [j EXCEPT !.cand[c] = k], Accepted(n)
    PROVE  Follows(j, n) /\ Handed(n) = Handed(j) /\ SameEnd(j, n)
<1>1. /\ n \in JobState /\ n.cand[c] = k
      /\ \A d \in Candidates \ {c} : n.cand[d] = j.cand[d]
      /\ SameEnd(j, n)
  BY OneChanged DEF JobFits
<1>2. Handed(n) = Handed(j)
  BY <1>1 DEF Handed
<1>3. HandedFits(n)
  BY <1>2 DEF JobFits, HandedFits
<1>4. ASSUME NEW d \in Candidates PROVE CandidateFits(n.mode, n.cand[d])
  BY <1>1 DEF JobFits, SameEnd
<1>5. ModeFits(n)
  BY <1>1 DEF JobFits, ModeFits, SameEnd, Quantitative, Label
<1>6. j.projection = None /\ ~j.closure /\ Kept(j, n)
  BY OpenKept
<1>7. JobFits(n)
  BY <1>1, <1>3, <1>4, <1>5, <1>6, OpenFits DEF SameEnd
<1>8. QED
  BY <1>1, <1>2, <1>6, <1>7 DEF Follows, SameEnd

\* A receipt of one candidate, at any time.
LEMMA ReceiptSaved ==
    ASSUME NEW j, JobFits(j), NEW c \in Candidates, NEW k \in Candidate,
           \/ k = [j.cand[c] EXCEPT !.comment = TRUE]
           \/ k = [j.cand[c] EXCEPT !.cleaned = TRUE],
           NEW n, n = [j EXCEPT !.cand[c] = k], Accepted(n)
    PROVE  Follows(j, n) /\ SameEvidence(j, n) /\ SameEnd(j, n)
<1>1. j \in JobState /\ j.cand[c] \in Candidate
  BY DEF JobFits, JobState
<1>2. /\ n \in JobState /\ n.cand[c] = k
      /\ \A d \in Candidates \ {c} : n.cand[d] = j.cand[d]
      /\ SameEnd(j, n)
  BY <1>1, OneChanged
<1>3. /\ k.handed = j.cand[c].handed /\ k.finalized = j.cand[c].finalized
      /\ k.dev = j.cand[c].dev /\ k.val = j.cand[c].val
      /\ k.checks = j.cand[c].checks /\ k.assessment = j.cand[c].assessment
      /\ k.draft = j.cand[c].draft
  BY <1>1 DEF Candidate
<1>4. SameEvidence(j, n)
  BY <1>2, <1>3 DEF SameEvidence
<1>5. \A d \in Candidates : n.cand[d].draft = j.cand[d].draft
  BY <1>2, <1>3
<1>6. ModeFits(n)
  BY <1>2 DEF JobFits, ModeFits, SameEnd, Quantitative, Label
<1>7. n.terminal \in Positive /\ ~Quantitative(j) =>
        n.decision.selected = Least(Acceptable(j))
  BY <1>2 DEF JobFits, SelectionFits, SameEnd
<1>8. /\ n.projection # None => n.terminal \in Positive
      /\ n.closure => n.terminal = "no_winner"
      /\ n.terminal # "none" => AllCompleted(j)
  BY <1>2 DEF JobFits, SameEnd
<1>9. JobFits(n)
  BY <1>2, <1>4, <1>5, <1>6, <1>7, <1>8, SameEvidenceFits DEF SameEnd
<1>10. Kept(j, n)
  BY <1>2 DEF Kept, SameEnd
<1>11. QED
  BY <1>2, <1>4, <1>9, <1>10 DEF Follows, SameEnd

\* The state that a decision has assessed: n differs from j in assessments and
\* in the decision only.
Reassessed(j, n, outcome) ==
    /\ \A c \in Candidates :
         n.cand[c] = [j.cand[c] EXCEPT !.assessment = outcome[c]]
    /\ n.mode = j.mode /\ n.terminal = j.terminal
    /\ n.projection = j.projection /\ n.closure = j.closure

LEMMA AssessedFields ==
    ASSUME NEW j \in JobState, NEW n \in JobState,
           NEW outcome \in [Candidates -> Assessments], Reassessed(j, n, outcome),
           NEW c \in Candidates
    PROVE  /\ n.cand[c].handed = j.cand[c].handed
           /\ n.cand[c].finalized = j.cand[c].finalized
           /\ n.cand[c].dev = j.cand[c].dev /\ n.cand[c].val = j.cand[c].val
           /\ n.cand[c].checks = j.cand[c].checks
           /\ n.cand[c].draft = j.cand[c].draft
           /\ n.cand[c].assessment = outcome[c]
<1>1. j.cand[c] \in Candidate
  BY DEF JobState
<1>2. QED
  BY <1>1 DEF Candidate, Reassessed

\* What decide makes of a candidate without a validating run.
Provisional(j) ==
    [c \in Candidates |->
       LET k == j.cand[c] IN
       IF k.assessment \in Rejected \/ k.dev = None THEN k.assessment
       ELSE IF k.dev \in Unsuccessful THEN "platform_failure"
       ELSE IF c = Best(j, Eligible(j)) THEN "keep" ELSE "discard"]

LEMMA ProvisionalShape ==
    ASSUME NEW j, JobFits(j), NEW n, n = WithProvisional(j)
    PROVE  /\ j \in JobState /\ n \in JobState
           /\ Provisional(j) \in [Candidates -> Assessments]
           /\ Reassessed(j, n, Provisional(j))
           /\ Best(j, Eligible(j)) \in Handed(j) \cup {None}
           /\ n.decision = [NoDecision EXCEPT !.outcome = "no_winner",
                                              !.prov = Best(j, Eligible(j))]
           /\ n.finalReceipt = j.finalReceipt
<1>1. j \in JobState /\ \A c \in Candidates : j.cand[c] \in Candidate
  BY DEF JobFits, JobState
<1>2. Best(j, Eligible(j)) \in Handed(j) \cup {None}
  <2>1. CASE Eligible(j) = {}
    BY <2>1 DEF Best
  <2>2. CASE Eligible(j) # {}
    <3>1. Eligible(j) \subseteq Handed(j) /\ HasFirst(Handed(j))
      BY DEF Eligible, JobFits, HandedFits
    <3>2. QED
      BY <1>1, <2>2, <3>1, BestIsMember
  <2>3. QED
    BY <2>1, <2>2
<1>3. Provisional(j) \in [Candidates -> Assessments]
  BY <1>1 DEF Provisional, Candidate, Assessments
<1> DEFINE cand == [c \in Candidates |->
                      [j.cand[c] EXCEPT !.assessment = Provisional(j)[c]]]
           decision == [NoDecision EXCEPT !.outcome = "no_winner",
                                          !.prov = Best(j, Eligible(j))]
<1>4. n = [j EXCEPT !.cand = cand, !.decision = decision]
  BY <1>1 DEF WithProvisional, Assess, Provisional, JobState
<1>5. cand \in [Candidates -> Candidate]
  BY <1>1, <1>3 DEF Candidate
<1>6. decision \in DecisionRecord
  BY <1>2 DEF DecisionRecord, NoDecision, Outcomes, Handed
<1>7. \A c \in Candidates :
        cand[c] = [j.cand[c] EXCEPT !.assessment = Provisional(j)[c]]
  OBVIOUS
<1> HIDE DEF cand, decision
<1>8. /\ n \in JobState /\ n.cand = cand /\ n.decision = decision
      /\ n.mode = j.mode /\ n.terminal = j.terminal
      /\ n.projection = j.projection /\ n.closure = j.closure
      /\ n.finalReceipt = j.finalReceipt
  BY <1>1, <1>4, <1>5, <1>6 DEF JobState
<1>9. QED
  BY <1>1, <1>2, <1>3, <1>7, <1>8 DEF Reassessed, decision

LEMMA ProvisionalSets ==
    ASSUME NEW j, JobFits(j), NEW n, n = WithProvisional(j)
    PROVE  /\ Handed(n) = Handed(j) /\ Eligible(n) = Eligible(j)
           /\ Best(n, Eligible(n)) = Best(j, Eligible(j))
           /\ \A c \in Candidates : /\ n.cand[c].dev = j.cand[c].dev
                                    /\ n.cand[c].val = j.cand[c].val
<1>1. /\ j \in JobState /\ n \in JobState
      /\ Provisional(j) \in [Candidates -> Assessments]
      /\ Reassessed(j, n, Provisional(j))
  BY ProvisionalShape
<1>2. \A c \in Candidates :
           /\ n.cand[c].handed = j.cand[c].handed
           /\ n.cand[c].dev = j.cand[c].dev /\ n.cand[c].val = j.cand[c].val
           /\ n.cand[c].assessment = Provisional(j)[c]
  BY <1>1, AssessedFields
<1>3. Handed(n) = Handed(j)
  BY <1>2 DEF Handed
<1>4. ASSUME NEW c \in Candidates, j.cand[c].dev \in Viable
      PROVE  Provisional(j)[c] \in Rejected <=> j.cand[c].assessment \in Rejected
  <2>1. j.cand[c].dev # None /\ j.cand[c].dev \notin Unsuccessful
    BY <1>4, Numbers, ResultsAssumption
  <2>2. QED
    BY <2>1 DEF Provisional, Rejected
<1>5. Eligible(n) = Eligible(j)
  BY <1>2, <1>3, <1>4 DEF Eligible, Handed
<1>6. Best(n, Eligible(j)) = Best(j, Eligible(j))
  <2>1. \A c \in Eligible(j) : n.cand[c].dev = j.cand[c].dev
    BY <1>2 DEF Eligible, Handed
  <2>2. QED
    BY <2>1, SameBest
<1>7. QED
  BY <1>2, <1>3, <1>5, <1>6

\* The decision of a finish, or of a completed candidate.
LEMMA ProvisionalSaved ==
    ASSUME NEW j, JobFits(j), Quantitative(j),
           NEW n, n = WithProvisional(j), Accepted(n)
    PROVE  /\ Follows(j, n) /\ Handed(n) = Handed(j)
           /\ n.terminal = j.terminal /\ n.projection = j.projection
           /\ n.closure = j.closure
           /\ n.decision.prov \in Handed(n) \cup {None}
           /\ n.decision.prov = Best(n, Eligible(n))
           /\ n.decision.selected = None
           /\ AllCompleted(j) => AllCompleted(n)
<1>1. /\ j \in JobState /\ n \in JobState
      /\ Provisional(j) \in [Candidates -> Assessments]
      /\ Reassessed(j, n, Provisional(j))
      /\ Best(j, Eligible(j)) \in Handed(j) \cup {None}
      /\ n.decision = [NoDecision EXCEPT !.outcome = "no_winner",
                                         !.prov = Best(j, Eligible(j))]
  BY ProvisionalShape
<1>2. /\ Handed(n) = Handed(j) /\ Eligible(n) = Eligible(j)
      /\ Best(n, Eligible(n)) = Best(j, Eligible(j))
  BY ProvisionalSets
<1>3. /\ n.decision.outcome = "no_winner" /\ n.decision.winner = None
      /\ n.decision.selected = None /\ n.decision.prov = Best(j, Eligible(j))
  BY <1>1 DEF NoDecision
<1>4. \A c \in Candidates :
           /\ n.cand[c].handed = j.cand[c].handed
           /\ n.cand[c].finalized = j.cand[c].finalized
           /\ n.cand[c].dev = j.cand[c].dev /\ n.cand[c].val = j.cand[c].val
           /\ n.cand[c].checks = j.cand[c].checks
           /\ n.cand[c].draft = j.cand[c].draft
           /\ n.cand[c].assessment = Provisional(j)[c]
  BY <1>1, AssessedFields
<1>5. /\ n.mode = j.mode /\ n.terminal = j.terminal
      /\ n.projection = j.projection /\ n.closure = j.closure
  BY <1>1 DEF Reassessed
<1>6. ASSUME NEW c \in Candidates
      PROVE  \/ Provisional(j)[c] = j.cand[c].assessment
             \/ /\ j.cand[c].dev # None
                /\ Provisional(j)[c] \in {"platform_failure", "keep", "discard"}
  BY DEF Provisional
<1>7. ASSUME NEW c \in Candidates PROVE CandidateFits(n.mode, n.cand[c])
  <2>1. CandidateFits(j.mode, j.cand[c])
    BY DEF JobFits
  <2>2. QED
    BY <1>4, <1>5, <1>6, <2>1 DEF CandidateFits, Quantitative
<1>8. AllCompleted(j) => AllCompleted(n)
  <2>1. Completed(j) \subseteq Completed(n)
    BY <1>2, <1>4, <1>6 DEF Completed, Handed
  <2>2. QED
    BY <1>2, <2>1 DEF AllCompleted
<1>9. HandedFits(n)
  BY <1>2 DEF JobFits, HandedFits
<1>10. ModeFits(n) /\ SelectionFits(n) /\ WinnerFits(n)
  BY <1>3, <1>5 DEF JobFits, ModeFits, SelectionFits, WinnerFits, Quantitative
<1>11. JobFits(n)
  BY <1>1, <1>5, <1>7, <1>8, <1>9, <1>10 DEF JobFits
<1>12. QED
  BY <1>1, <1>2, <1>3, <1>5, <1>8, <1>11 DEF Follows, Kept

\* What a job without Foundry evaluation makes of a candidate.
Selection(j) ==
    [c \in Candidates |->
       LET a == j.cand[c].assessment IN
       IF a \in Rejected \cup {"none"} THEN a
       ELSE IF c = Least(Acceptable(j)) THEN "keep" ELSE "discard"]

LEMMA SelectionShape ==
    ASSUME NEW j, JobFits(j), ~Quantitative(j), NEW n, n = WithSelection(j)
    PROVE  /\ j \in JobState /\ n \in JobState
           /\ Selection(j) \in [Candidates -> Assessments]
           /\ Reassessed(j, n, Selection(j))
           /\ Least(Acceptable(j)) \in Handed(j) \cup {None}
           /\ n.decision.prov = None /\ n.decision.winner = None
           /\ n.decision.selected = Least(Acceptable(j))
           /\ n.decision.selected # None => n.decision.outcome = Label(j)
           /\ n.decision.selected = None => n.decision.outcome = "no_winner"
           /\ n.finalReceipt = j.finalReceipt
<1>1. j \in JobState /\ \A c \in Candidates : j.cand[c] \in Candidate
  BY DEF JobFits, JobState
<1>2. Least(Acceptable(j)) \in Handed(j) \cup {None}
  <2>1. CASE Acceptable(j) = {}
    BY <2>1 DEF Least
  <2>2. CASE Acceptable(j) # {}
    <3>1. /\ Acceptable(j) \subseteq Handed(j) /\ HasFirst(Handed(j))
          /\ Handed(j) \subseteq Candidates
      BY DEF Acceptable, JobFits, HandedFits, Handed
    <3>2. QED
      BY <2>2, <3>1, LeastIsMember
  <2>3. QED
    BY <2>1, <2>2
<1>3. Selection(j) \in [Candidates -> Assessments]
  BY <1>1 DEF Selection, Candidate, Assessments
<1> DEFINE cand == [c \in Candidates |->
                      [j.cand[c] EXCEPT !.assessment = Selection(j)[c]]]
           outcome == IF Least(Acceptable(j)) = None THEN "no_winner" ELSE Label(j)
           decision == [NoDecision EXCEPT !.outcome = outcome,
                                          !.selected = Least(Acceptable(j))]
<1>4. n = [j EXCEPT !.cand = cand, !.decision = decision]
  BY <1>1 DEF WithSelection, Assess, Selection, JobState, Label
<1>5. cand \in [Candidates -> Candidate]
  BY <1>1, <1>3 DEF Candidate
<1>6. decision \in DecisionRecord
  BY <1>2 DEF DecisionRecord, NoDecision, Outcomes, Positive, Handed, Label
<1>7. \A c \in Candidates :
        cand[c] = [j.cand[c] EXCEPT !.assessment = Selection(j)[c]]
  OBVIOUS
<1>8. /\ decision.prov = None /\ decision.winner = None
      /\ decision.selected = Least(Acceptable(j))
      /\ decision.selected # None => decision.outcome = Label(j)
      /\ decision.selected = None => decision.outcome = "no_winner"
  BY DEF NoDecision
<1> HIDE DEF cand, decision
<1>9. /\ n \in JobState /\ n.cand = cand /\ n.decision = decision
      /\ n.mode = j.mode /\ n.terminal = j.terminal
      /\ n.projection = j.projection /\ n.closure = j.closure
      /\ n.finalReceipt = j.finalReceipt
  BY <1>1, <1>4, <1>5, <1>6 DEF JobState
<1>10. QED
  BY <1>1, <1>2, <1>3, <1>7, <1>8, <1>9 DEF Reassessed

LEMMA SelectionSaved ==
    ASSUME NEW j, JobFits(j), ~Quantitative(j),
           NEW n, n = WithSelection(j), Accepted(n)
    PROVE  /\ Follows(j, n) /\ Handed(n) = Handed(j)
           /\ n.terminal = j.terminal /\ n.projection = j.projection
           /\ n.closure = j.closure
           /\ n.decision.selected \in Handed(n) \cup {None}
           /\ SelectionFits(n)
           /\ AllCompleted(j) => AllCompleted(n)
<1>1. /\ j \in JobState /\ n \in JobState
      /\ Selection(j) \in [Candidates -> Assessments]
      /\ Reassessed(j, n, Selection(j))
      /\ Least(Acceptable(j)) \in Handed(j) \cup {None}
      /\ n.decision.prov = None /\ n.decision.winner = None
      /\ n.decision.selected = Least(Acceptable(j))
      /\ n.decision.selected # None => n.decision.outcome = Label(j)
  BY SelectionShape
<1>2. \A c \in Candidates :
           /\ n.cand[c].handed = j.cand[c].handed
           /\ n.cand[c].finalized = j.cand[c].finalized
           /\ n.cand[c].dev = j.cand[c].dev /\ n.cand[c].val = j.cand[c].val
           /\ n.cand[c].checks = j.cand[c].checks
           /\ n.cand[c].draft = j.cand[c].draft
           /\ n.cand[c].assessment = Selection(j)[c]
  BY <1>1, AssessedFields
<1>3. /\ n.mode = j.mode /\ n.terminal = j.terminal
      /\ n.projection = j.projection /\ n.closure = j.closure
  BY <1>1 DEF Reassessed
<1>4. ASSUME NEW c \in Candidates
      PROVE  \/ Selection(j)[c] = j.cand[c].assessment
             \/ /\ j.cand[c].assessment \notin Rejected \cup {"none"}
                /\ Selection(j)[c] \in {"keep", "discard"}
  BY DEF Selection
<1>5. Handed(n) = Handed(j)
  BY <1>2 DEF Handed
<1>6. Acceptable(n) = Acceptable(j)
  BY <1>2, <1>3, <1>4, <1>5 DEF Acceptable, Handed, Rejected
<1>7. ASSUME NEW c \in Candidates PROVE CandidateFits(n.mode, n.cand[c])
  <2>1. CandidateFits(j.mode, j.cand[c])
    BY DEF JobFits
  <2>2. QED
    BY <1>2, <1>3, <1>4, <2>1 DEF CandidateFits, Quantitative, Rejected
<1>8. AllCompleted(j) => AllCompleted(n)
  <2>1. Completed(j) \subseteq Completed(n)
    BY <1>2, <1>4, <1>5 DEF Completed, Handed
  <2>2. QED
    BY <1>5, <2>1 DEF AllCompleted
<1>9. HandedFits(n)
  BY <1>5 DEF JobFits, HandedFits
<1>10. SelectionFits(n)
  BY <1>1, <1>6 DEF SelectionFits
<1>11. ModeFits(n) /\ WinnerFits(n)
  BY <1>1, <1>3 DEF JobFits, ModeFits, WinnerFits, Quantitative, Label
<1>12. JobFits(n)
  BY <1>1, <1>3, <1>7, <1>8, <1>9, <1>10, <1>11 DEF JobFits
<1>13. QED
  BY <1>1, <1>3, <1>5, <1>8, <1>10, <1>12 DEF Follows, Kept

\* The decision of a job in any mode.
LEMMA DecisionSaved ==
    ASSUME NEW j, JobFits(j),
           NEW n, n = WithDevelopmentDecision(j), Accepted(n)
    PROVE  /\ Follows(j, n) /\ Handed(n) = Handed(j)
           /\ n.terminal = j.terminal /\ n.projection = j.projection
           /\ n.closure = j.closure
           /\ IF Quantitative(j)
              THEN /\ n.decision.prov \in Handed(n) \cup {None}
                   /\ n.decision.prov = Best(n, Eligible(n))
                   /\ n.decision.selected = None
              ELSE /\ n.decision.selected \in Handed(n) \cup {None}
                   /\ SelectionFits(n)
           /\ AllCompleted(j) => AllCompleted(n)
<1>1. CASE Quantitative(j)
  BY <1>1, ProvisionalSaved DEF WithDevelopmentDecision, Quantitative
<1>2. CASE ~Quantitative(j)
  BY <1>2, SelectionSaved DEF WithDevelopmentDecision, Quantitative
<1>3. QED
  BY <1>1, <1>2

\* The reset of a retry.
LEMMA RetrySaved ==
    ASSUME NEW j, JobFits(j), Quantitative(j),
           j.terminal \in {"none", "platform_failure"},
           NEW c \in Candidates, NEW phase,
           NEW n, n = WithRetry(j, c, phase), Accepted(n)
    PROVE  Follows(j, n) /\ Handed(n) = Handed(j)
<1> DEFINE reset == IF phase = "candidate"
                    THEN [j.cand[c] EXCEPT !.dev = None, !.val = None,
                            !.assessment = "none", !.comment = FALSE]
                    ELSE [j.cand[c] EXCEPT !.val = None]
           k == [reset EXCEPT !.draft = None, !.cleaned = FALSE]
<1>1. j \in JobState /\ j.cand[c] \in Candidate
  BY DEF JobFits, JobState
<1>2. k \in Candidate /\ k.handed = j.cand[c].handed
      /\ k.finalized = j.cand[c].finalized /\ k.checks = j.cand[c].checks
      /\ \/ k.assessment = "none" /\ k.dev = None
         \/ k.assessment = j.cand[c].assessment /\ k.dev = j.cand[c].dev
  BY <1>1 DEF Candidate, Assessments
<1>3. n = [j EXCEPT !.cand[c] = k, !.decision = NoDecision,
                    !.finalReceipt = FALSE, !.projection = None,
                    !.closure = FALSE, !.terminal = "none"]
  BY <1>1 DEF WithRetry, JobState
<1> HIDE DEF k
<1>4. NoDecision \in DecisionRecord
  BY DEF NoDecision, DecisionRecord
<1>5. /\ n \in JobState /\ n.cand[c] = k
      /\ \A d \in Candidates \ {c} : n.cand[d] = j.cand[d]
      /\ n.mode = j.mode /\ n.decision = NoDecision /\ n.terminal = "none"
      /\ n.projection = None /\ ~n.closure
  <2> DEFINE cand == [j.cand EXCEPT ![c] = k]
  <2>1. cand \in [Candidates -> Candidate] /\ cand[c] = k
        /\ \A d \in Candidates \ {c} : cand[d] = j.cand[d]
    BY <1>1, <1>2 DEF JobState
  <2>2. n = [j EXCEPT !.cand = cand, !.decision = NoDecision,
                      !.finalReceipt = FALSE, !.projection = None,
                      !.closure = FALSE, !.terminal = "none"]
    BY <1>1, <1>3 DEF JobState
  <2> HIDE DEF cand
  <2>3. QED
    BY <1>1, <1>4, <2>1, <2>2 DEF JobState
<1>6. Handed(n) = Handed(j)
  BY <1>2, <1>5 DEF Handed
<1>7. HandedFits(n)
  BY <1>6 DEF JobFits, HandedFits
<1>8. ASSUME NEW d \in Candidates PROVE CandidateFits(n.mode, n.cand[d])
  <2>1. CandidateFits(j.mode, j.cand[d])
    BY DEF JobFits
  <2>2. CASE d = c
    BY <1>2, <1>5, <2>1, <2>2 DEF CandidateFits, Quantitative
  <2>3. CASE d # c
    BY <1>5, <2>1, <2>3
  <2>4. QED
    BY <2>2, <2>3
<1>9. ModeFits(n)
  BY <1>5 DEF ModeFits, NoDecision, Quantitative
<1>10. Kept(j, n)
  BY OpenKept
<1>11. JobFits(n)
  BY <1>5, <1>7, <1>8, <1>9, OpenFits
<1>12. QED
  BY <1>5, <1>6, <1>10, <1>11 DEF Follows

\* A validating run that failed.
LEMMA FailureSaved ==
    ASSUME NEW j, JobFits(j), Quantitative(j), j.terminal = "none",
           AllCompleted(j), j.decision.prov \in Candidates,
           NEW draft \in R!Versions \cup {None},
           NEW n, n = WithValidatingFailure(j, draft), Accepted(n)
    PROVE  Follows(j, n) /\ Handed(n) = Handed(j)
           /\ n.terminal = "platform_failure"
<1> DEFINE p == j.decision.prov
           k == [j.cand[p] EXCEPT !.draft = IF draft = None THEN @ ELSE draft]
           decision == [j.decision EXCEPT !.outcome = "platform_failure",
                                          !.winner = None, !.selected = None]
<1>1. j \in JobState /\ j.cand[p] \in Candidate /\ j.decision \in DecisionRecord
  BY DEF JobFits, JobState
<1>2. k \in Candidate /\ k.handed = j.cand[p].handed
      /\ k.finalized = j.cand[p].finalized /\ k.checks = j.cand[p].checks
      /\ k.assessment = j.cand[p].assessment
      /\ k.dev = j.cand[p].dev /\ k.val = j.cand[p].val
  BY <1>1 DEF Candidate
<1>3. decision \in DecisionRecord /\ decision.winner = None
  BY <1>1 DEF DecisionRecord, Outcomes
<1>4. n = [j EXCEPT !.cand[p] = k, !.decision = decision,
                    !.terminal = "platform_failure"]
  BY <1>1 DEF WithValidatingFailure, JobState, DecisionRecord
<1> HIDE DEF k, decision
<1>5. /\ n \in JobState /\ n.cand[p] = k
      /\ \A d \in Candidates \ {p} : n.cand[d] = j.cand[d]
      /\ n.mode = j.mode /\ n.decision = decision
      /\ n.terminal = "platform_failure"
      /\ n.projection = j.projection /\ n.closure = j.closure
  <2> DEFINE cand == [j.cand EXCEPT ![p] = k]
  <2>1. cand \in [Candidates -> Candidate] /\ cand[p] = k
        /\ \A d \in Candidates \ {p} : cand[d] = j.cand[d]
    BY <1>1, <1>2 DEF JobState
  <2>2. n = [j EXCEPT !.cand = cand, !.decision = decision,
                      !.terminal = "platform_failure"]
    BY <1>1, <1>4 DEF JobState
  <2> HIDE DEF cand
  <2>3. QED
    BY <1>1, <1>3, <2>1, <2>2 DEF JobState, Outcomes
<1>6. SameEvidence(j, n)
  BY <1>2, <1>5 DEF SameEvidence
<1>7. Handed(n) = Handed(j)
  BY <1>6 DEF SameEvidence, Handed
<1>8. j.projection = None /\ ~j.closure /\ Kept(j, n)
  BY OpenKept
<1>9. ModeFits(n) /\ n.terminal \notin Positive
  BY <1>5 DEF ModeFits, Quantitative, Positive
<1>10. JobFits(n)
  BY <1>5, <1>6, <1>8, <1>9, SameEvidenceFits DEF Positive
<1>11. QED
  BY <1>5, <1>7, <1>8, <1>10 DEF Follows

\* The final decision.
LEMMA FinalSaved ==
    ASSUME NEW j, JobFits(j), Quantitative(j), j.terminal = "none",
           AllCompleted(j), j.decision.prov \in Candidates,
           Best(j, Eligible(j)) = j.decision.prov,
           NEW n, n = WithFinalDecision(j), Accepted(n)
    PROVE  /\ Follows(j, n) /\ Handed(n) = Handed(j)
           /\ AllCompleted(n) /\ n.projection = None /\ ~n.closure
           /\ n.terminal \in {"winner", "no_winner"}
           /\ n.terminal = "winner" =>
                n.decision.selected = j.decision.prov
<1> DEFINE p == j.decision.prov
           wins == j.cand[p].val \in Passing
           d == WithProvisional(j)
           k == [d.cand[p] EXCEPT
                   !.assessment = IF wins THEN "winner" ELSE "discard"]
           winner == IF wins THEN p ELSE None
           decision == [d.decision EXCEPT
                          !.outcome = IF wins THEN "winner" ELSE "no_winner",
                          !.winner = winner, !.selected = winner]
           terminal == IF wins THEN "winner" ELSE "no_winner"
<1>1. /\ j \in JobState /\ d \in JobState
      /\ Provisional(j) \in [Candidates -> Assessments]
      /\ Reassessed(j, d, Provisional(j))
      /\ d.decision = [NoDecision EXCEPT !.outcome = "no_winner", !.prov = p]
  BY ProvisionalShape, ZenonT(40)
<1>2. j.projection = None /\ ~j.closure /\ Kept(j, n)
  BY OpenKept
<1>3. /\ d.mode = j.mode /\ d.terminal = "none"
      /\ d.projection = None /\ ~d.closure
      /\ d.decision.prov = p /\ d.decision.winner = None
      /\ d.decision.selected = None
  BY <1>1, <1>2 DEF Reassessed, NoDecision
<1>4. \A c \in Candidates : /\ d.cand[c].draft = j.cand[c].draft
                            /\ d.cand[c].cleaned = j.cand[c].cleaned
  <2>1. \A c \in Candidates : j.cand[c] \in Candidate
    BY <1>1 DEF JobState
  <2>2. QED
    BY <1>1, <2>1, ZenonT(40) DEF Reassessed, Candidate
<1>5. Accepted(d)
  BY <1>3, <1>4 DEF Accepted, JobFits, Positive
<1>6. /\ Follows(j, d) /\ Handed(d) = Handed(j) /\ AllCompleted(d)
  BY <1>5, ProvisionalSaved
<1>7. /\ Eligible(d) = Eligible(j)
      /\ Best(d, Eligible(d)) = p
      /\ d.cand[p].dev = j.cand[p].dev /\ d.cand[p].val = j.cand[p].val
  BY ProvisionalSets
<1>8. p \in Eligible(d)
  <2>1. Eligible(d) # {}
    BY <1>7, Numbers DEF Best
  <2>2. /\ Eligible(d) \subseteq Handed(d) /\ HasFirst(Handed(d))
    BY <1>6 DEF Eligible, Follows, JobFits, HandedFits
  <2>3. QED
    BY <1>1, <1>7, <2>1, <2>2, BestIsMember
<1>9. n = [d EXCEPT !.cand[p] = k, !.decision = decision, !.terminal = terminal]
  BY <1>3 DEF WithFinalDecision
<1>10. /\ decision \in DecisionRecord /\ decision.prov = p
       /\ decision.winner = winner /\ decision.selected = winner
  <2>1. d.decision \in DecisionRecord
    BY <1>1 DEF JobState
  <2>2. QED
    BY <1>3, <2>1 DEF DecisionRecord, Outcomes, Positive
<1>11. /\ k \in Candidate /\ k.handed = d.cand[p].handed
       /\ k.finalized = d.cand[p].finalized /\ k.checks = d.cand[p].checks
       /\ k.assessment \in {"winner", "discard"}
       /\ k.dev = d.cand[p].dev /\ k.val = d.cand[p].val
  <2>1. d.cand[p] \in Candidate
    BY <1>1 DEF JobState
  <2>2. QED
    BY <2>1 DEF Candidate, Assessments
<1>12. /\ terminal \in {"winner", "no_winner"}
       /\ terminal = "winner" <=> d.cand[p].val \in Passing
       /\ winner = IF terminal = "winner" THEN p ELSE None
  BY <1>7
<1> HIDE DEF k, decision, terminal, winner, d
<1>13. /\ n \in JobState /\ n.cand[p] = k
       /\ \A c \in Candidates \ {p} : n.cand[c] = d.cand[c]
       /\ n.mode = d.mode /\ n.decision = decision /\ n.terminal = terminal
       /\ n.projection = d.projection /\ n.closure = d.closure
  <2> DEFINE cand == [d.cand EXCEPT ![p] = k]
  <2>1. cand \in [Candidates -> Candidate] /\ cand[p] = k
        /\ \A c \in Candidates \ {p} : cand[c] = d.cand[c]
    BY <1>1, <1>11 DEF JobState
  <2>2. n = [d EXCEPT !.cand = cand, !.decision = decision,
                      !.terminal = terminal]
    BY <1>1, <1>9 DEF JobState
  <2> HIDE DEF cand
  <2>3. terminal \in Outcomes \cup {"none"}
    BY <1>12 DEF Outcomes, Positive
  <2>4. d \in JobState /\ decision \in DecisionRecord
    BY <1>1, <1>10
  <2>5. QED
    BY <2>1, <2>2, <2>3, <2>4 DEF JobState
<1>14. /\ \A c \in Candidates : /\ n.cand[c].handed = d.cand[c].handed
                                /\ n.cand[c].dev = d.cand[c].dev
                                /\ n.cand[c].val = d.cand[c].val
       /\ Handed(n) = Handed(d) /\ Eligible(n) = Eligible(d)
  <2>1. \A c \in Candidates : /\ n.cand[c].handed = d.cand[c].handed
                              /\ n.cand[c].dev = d.cand[c].dev
                              /\ n.cand[c].val = d.cand[c].val
    BY <1>11, <1>13
  <2>2. Handed(n) = Handed(d)
    BY <2>1 DEF Handed
  <2>3. Eligible(n) = Eligible(d)
    BY <1>8, <1>11, <1>13, <2>1, <2>2 DEF Eligible, Handed, Rejected
  <2>4. QED
    BY <2>1, <2>2, <2>3
<1>15. Best(n, Eligible(n)) = p
  <2>1. \A c \in Eligible(d) : n.cand[c].dev = d.cand[c].dev
    BY <1>14 DEF Eligible, Handed
  <2>2. QED
    BY <1>7, <1>14, <2>1, SameBest
<1>16. d.cand[p].dev \in Viable /\ d.cand[p].dev # None
  BY <1>8, Numbers, ResultsAssumption DEF Eligible
<1>17. ASSUME NEW c \in Candidates PROVE CandidateFits(n.mode, n.cand[c])
  <2>1. CandidateFits(d.mode, d.cand[c])
    BY <1>6 DEF Follows, JobFits
  <2>2. CASE c = p
    BY <1>3, <1>11, <1>13, <1>16, <2>1, <2>2 DEF CandidateFits, Quantitative
  <2>3. CASE c # p
    BY <1>13, <2>1, <2>3
  <2>4. QED
    BY <2>2, <2>3
<1>18. AllCompleted(n)
  <2>1. Completed(d) \subseteq Completed(n)
    BY <1>11, <1>13, <1>14 DEF Completed, Handed
  <2>2. QED
    BY <1>6, <1>14, <2>1 DEF AllCompleted
<1>19. HandedFits(n)
  BY <1>6, <1>14 DEF Follows, JobFits, HandedFits
<1>20. ModeFits(n) /\ SelectionFits(n)
  BY <1>3, <1>12, <1>13 DEF ModeFits, SelectionFits, Quantitative
<1>21. WinnerFits(n)
  <2> SUFFICES ASSUME n.terminal = "winner"
               PROVE  LET w == n.decision.winner IN
                      /\ n.cand[w].dev \in Viable /\ n.cand[w].val \in Passing
                      /\ w = Best(n, Eligible(n))
    BY DEF WinnerFits
  <2>1. n.decision.winner = p /\ d.cand[p].val \in Passing
    BY <1>10, <1>12, <1>13
  <2>2. n.cand[p].dev \in Viable /\ n.cand[p].val \in Passing
    BY <1>11, <1>13, <1>16, <2>1
  <2>3. QED
    BY <1>15, <2>1, <2>2
<1>22. JobFits(n)
  BY <1>3, <1>13, <1>17, <1>18, <1>19, <1>20, <1>21, <1>12 DEF JobFits
<1>23. QED
  BY <1>2, <1>3, <1>6, <1>10, <1>12, <1>13, <1>14, <1>18, <1>22 DEF Follows

\* The receipt of the final comment.
LEMMA CommentSaved ==
    ASSUME NEW j, JobFits(j), NEW n, n = [j EXCEPT !.finalReceipt = TRUE],
           Accepted(n)
    PROVE  Follows(j, n) /\ SameEvidence(j, n) /\ SameEnd(j, n)
<1>1. j \in JobState
  BY DEF JobFits
<1>2. /\ n \in JobState /\ n.cand = j.cand /\ SameEnd(j, n)
  BY <1>1 DEF JobState, SameEnd
<1>3. SameEvidence(j, n) /\ \A c \in Candidates : n.cand[c].draft = j.cand[c].draft
  BY <1>2 DEF SameEvidence
<1>4. ModeFits(n)
  BY <1>2 DEF JobFits, ModeFits, SameEnd, Quantitative, Label
<1>5. n.terminal \in Positive /\ ~Quantitative(j) =>
        n.decision.selected = Least(Acceptable(j))
  BY <1>2 DEF JobFits, SelectionFits, SameEnd
<1>6. /\ n.projection # None => n.terminal \in Positive
      /\ n.closure => n.terminal = "no_winner"
      /\ n.terminal # "none" => AllCompleted(j)
  BY <1>2 DEF JobFits, SameEnd
<1>7. JobFits(n)
  BY <1>2, <1>3, <1>4, <1>5, <1>6, SameEvidenceFits DEF SameEnd
<1>8. QED
  BY <1>2, <1>3, <1>7 DEF Follows, Kept, SameEnd

\* The receipt of the patch, and that of the closure.
LEMMA EndSaved ==
    ASSUME NEW j, JobFits(j), AllCompleted(j), j.projection = None, ~j.closure,
           NEW n \in JobState, Accepted(n),
           n.cand = j.cand, n.mode = j.mode, n.decision = j.decision,
           IF n.closure THEN n.terminal = "no_winner" /\ n.projection = None
                        ELSE n.terminal \in Positive,
           IF Quantitative(j)
           THEN /\ n.terminal \in {"winner", "no_winner"}
                /\ n.terminal = "winner" => j.terminal = "winner"
           ELSE n.terminal = Label(j) /\ SelectionFits(j)
    PROVE  Follows(j, n) /\ Handed(n) = Handed(j)
<1>1. SameEvidence(j, n) /\ \A c \in Candidates : n.cand[c].draft = j.cand[c].draft
  BY DEF SameEvidence
<1>2. ModeFits(n)
  BY DEF JobFits, ModeFits, Quantitative, Label
<1>3. n.terminal \in Positive /\ ~Quantitative(j) =>
        n.decision.selected = Least(Acceptable(j))
  BY DEF SelectionFits
<1>4. n.terminal = "winner" => j.terminal = "winner"
  BY DEF Label
<1>5. /\ n.projection # None => n.terminal \in Positive
      /\ n.closure => n.terminal = "no_winner"
  BY DEF Positive
<1>6. JobFits(n)
  BY <1>1, <1>2, <1>3, <1>4, <1>5, SameEvidenceFits
<1>7. Handed(n) = Handed(j)
  BY DEF Handed
<1>8. QED
  BY <1>6, <1>7 DEF Follows, Kept

-----------------------------------------------------------------------------
(* Where a command goes.                                                   *)

LEMMA CommandsFit ==
    ASSUME Fits
    PROVE  /\ job \in JobState /\ proc \in Proc /\ proc.todo \subseteq Handed(job)
           /\ WorldRests(job, World) /\ HandedFits(job)
BY DEF Fits, JobFits, CommandFits, ControlFits, WorldFits

\* Places that ask for nothing.
LEMMA RestingFits ==
    ASSUME NEW n, NEW p \in Proc, NEW w, WorldRests(n, w),
           p.todo \subseteq Handed(n),
           p.pc \in {"idle", "entry", "bind", "bindVerify", "evaluate",
                     "decide", "afterTry", "comment", "afterFailure"},
           p.pc \in OnCandidate => p.cand \in Handed(n),
           p.pc \in ForFoundry => Quantitative(n)
    PROVE  CommandFits(n, p, w)
BY DEF CommandFits, ControlFits, DecidingFits, EffectFits, WorldFits, Sweeping,
       Commenting, OnCandidate, ForFoundry, Deciding, Finishing

LEMMA EndedFits ==
    ASSUME NEW n, NEW w, WorldRests(n, w)
    PROVE  CommandFits(n, Ended, w)
<1>1. Ended \in Proc /\ Ended.pc = "idle" /\ Ended.todo = {}
  BY DEF Ended, Proc, Pcs
<1>2. QED
  BY <1>1, RestingFits DEF OnCandidate, ForFoundry

LEMMA SweepFits ==
    ASSUME NEW n, NEW p \in Proc, NEW w, WorldRests(n, w),
           p.todo \subseteq Handed(n), p.pc \in Sweeping, p.next \in Resting,
           p.pc \in ForFoundry => Quantitative(n),
           p.pc = "sweeping" => p.todo # {},
           p.next = "afterTry" => p.cand \in Handed(n),
           p.next = "afterFailure" => Quantitative(n)
    PROVE  CommandFits(n, p, w)
BY DEF CommandFits, ControlFits, DecidingFits, EffectFits, WorldFits, Sweeping,
       Commenting, OnCandidate, ForFoundry, Deciding, Finishing, Resting

\* The two steps of a save: the new state and where to go, or the end.
LEMMA SavingFits ==
    ASSUME Fits, World' = World, NEW n, NEW p,
           IF Accepted(n) THEN job' = n /\ proc' = p
                          ELSE job' = job /\ proc' = Ended,
           Accepted(n) => Follows(job, n) /\ CommandFits(n, p, World)
    PROVE  Fits' /\ Kept(job, job') /\ job'.mode = job.mode
<1>1. CASE Accepted(n)
  BY <1>1 DEF Fits, Follows
<1>2. CASE ~Accepted(n)
  <2>1. CommandFits(job, Ended, World)
    BY EndedFits, CommandsFit
  <2>2. QED
    BY <1>2, <2>1 DEF Fits, Kept
<1>3. QED
  BY <1>1, <1>2

\* A step that saves nothing.
LEMMA MovingFits ==
    ASSUME Fits, World' = World, job' = job, CommandFits(job, proc', World)
    PROVE  Fits' /\ Kept(job, job') /\ job'.mode = job.mode
BY DEF Fits, Kept

LEMMA ToFields ==
    ASSUME proc \in Proc, NEW pc \in Pcs
    PROVE  /\ To(pc) \in Proc /\ To(pc).pc = pc /\ To(pc).by = proc.by
           /\ To(pc).cand = proc.cand /\ To(pc).todo = proc.todo
           /\ To(pc).next = proc.next
BY DEF To, Proc

LEMMA SweepFields ==
    ASSUME proc \in Proc, NEW ids \in SUBSET Candidates, NEW next \in Pcs
    PROVE  LET p == Sweep(ids, next) IN
           /\ p \in Proc /\ p.pc = "sweep" /\ p.todo = ids
           /\ p.next = next /\ p.cand = proc.cand
BY ZenonT(40) DEF Sweep, Proc, Pcs

LEMMA LastSweepFits ==
    ASSUME proc \in Proc, NEW n, NEW w, WorldRests(n, w)
    PROVE  CommandFits(n, LastSweep(n), w)
<1>1. Handed(n) \in SUBSET Candidates /\ "idle" \in Pcs /\ "idle" \in Resting
  BY DEF Handed, Pcs, Resting
<1>2. LET p == LastSweep(n) IN
        p \in Proc /\ p.pc = "sweep" /\ p.todo = Handed(n) /\ p.next = "idle"
  BY <1>1, SweepFields DEF LastSweep
<1>3. QED
  BY <1>1, <1>2, SweepFits DEF Sweeping, ForFoundry

LEMMA ControllerFinishFits ==
    ASSUME proc \in Proc, NEW n, NEW w, WorldRests(n, w)
    PROVE  CommandFits(n, ControllerFinish(n), w)
<1>1. Handed(n) \in SUBSET Candidates
  BY DEF Handed
<1>2. LET p == ControllerFinish(n) IN
        /\ p \in Proc /\ p.pc = "sweep" /\ p.todo = Handed(n)
        /\ p.next = "entry"
  BY <1>1 DEF ControllerFinish, Proc, Pcs
<1>3. QED
  BY <1>2, SweepFits DEF Resting, Sweeping, ForFoundry

LEMMA FinalCommentFits ==
    ASSUME proc \in Proc, NEW n, NEW w, WorldRests(n, w),
           proc.todo \subseteq Handed(n),
           NEW next \in {"bind", "idle"}, Quantitative(n) \/ n.projection # None
    PROVE  CommandFits(n, FinalComment(n, next), w)
<1>1. CASE n.finalReceipt /\ next = "bind"
  <2>1. CommandFits(n, To("bind"), w)
    BY ToFields, RestingFits DEF Pcs, OnCandidate, ForFoundry
  <2>2. QED
    BY <1>1, <2>1 DEF FinalComment
<1>2. CASE n.finalReceipt /\ next # "bind"
  BY <1>2, LastSweepFits DEF FinalComment
<1>3. CASE ~n.finalReceipt
  <2> DEFINE p == [proc EXCEPT !.pc = "postFinal", !.next = next]
  <2>1. p \in Proc /\ p.pc = "postFinal" /\ p.next = next /\ p.todo = proc.todo
    BY DEF Proc, Pcs
  <2> HIDE DEF p
  <2>2. CommandFits(n, p, w)
    BY <2>1 DEF CommandFits, ControlFits, DecidingFits, EffectFits, WorldFits,
                Sweeping, Commenting, OnCandidate, ForFoundry, Deciding, Finishing
  <2>3. QED
    BY <1>3, <2>2 DEF FinalComment, p
<1>4. QED
  BY <1>1, <1>2, <1>3

-----------------------------------------------------------------------------
(* Every step keeps what the state file and the command say.               *)

StepFits == Fits' /\ Kept(job, job') /\ job'.mode = job.mode

\* The command is at work on a candidate that was handed off.
LEMMA AtCandidate ==
    ASSUME Fits, proc.pc \in OnCandidate
    PROVE  /\ proc.cand \in Handed(job) /\ proc.cand \in Candidates
           /\ job.cand[proc.cand] \in Candidate
           /\ CandidateFits(job.mode, job.cand[proc.cand])
<1>1. proc.cand \in Handed(job)
  BY DEF Fits, CommandFits, ControlFits
<1>2. proc.cand \in Candidates
  BY <1>1 DEF Handed
<1>3. QED
  BY <1>1, <1>2 DEF Fits, JobFits, JobState

LEMMA HandoffFits ==
    ASSUME Fits, NEW c \in Candidates, Handoff(c)
    PROVE  StepFits
<1> DEFINE k == [job.cand[c] EXCEPT !.handed = TRUE]
           n == [job EXCEPT !.cand[c] = k]
<1>1. /\ c \notin Handed(job) /\ Cardinality(Handed(job)) < MinCandidates
      /\ job.terminal = "none"
      /\ IF Accepted(n) THEN job' = n /\ proc' = Ended
                        ELSE job' = job /\ proc' = Ended
      /\ World' = World
  BY DEF Handoff, Save, github, World
<1>2. job \in JobState /\ job.cand[c] \in Candidate
      /\ CandidateFits(job.mode, job.cand[c])
  BY DEF Fits, JobFits, JobState
<1>3. k \in Candidate /\ k.handed /\ CandidateFits(job.mode, k)
  BY <1>2 DEF Candidate, CandidateFits
<1> HIDE DEF k
<1>4. Accepted(n) => Follows(job, n)
  BY <1>1, <1>3, HandoffSaved DEF Fits
<1>5. WorldRests(n, World)
  <2>1. n.mode = job.mode /\ n.projection = job.projection
    BY <1>2 DEF JobState
  <2>2. QED
    BY <2>1, CommandsFit DEF WorldRests, Quantitative
<1> HIDE DEF n
<1>6. QED
  BY <1>1, <1>4, <1>5, EndedFits, SavingFits DEF StepFits

LEMMA StartCompleteFits ==
    ASSUME Fits, NEW c \in Candidates, StartComplete(c)
    PROVE  StepFits
<1> DEFINE k == job.cand[c]
           at(pc) == [Ended EXCEPT !.pc = pc, !.cand = c]
           p == IF k.assessment # "none" /\ k.comment
                THEN [at("sweep") EXCEPT !.todo = {c}]
                ELSE IF ~k.finalized /\ k.assessment # "invalid"
                     THEN at("finalize")
                ELSE at("evaluate")
<1>1. c \in Handed(job) /\ proc' = p /\ job' = job /\ World' = World
  BY DEF StartComplete, PendingCandidates, Continue, github, World
<1>2. CandidateFits(job.mode, k) /\ k \in Candidate
  BY DEF Fits, JobFits, JobState
<1>3. /\ p \in Proc /\ p.cand = c /\ p.todo \subseteq {c} /\ p.next = "idle"
      /\ \/ p.pc = "sweep" \/ p.pc = "evaluate"
         \/ p.pc = "finalize" /\ ~k.finalized /\ k.assessment = "none"
  BY <1>2 DEF Ended, Proc, Pcs, CandidateFits
<1> HIDE DEF p
<1>4. WorldRests(job, World)
  BY CommandsFit
<1>5. CASE p.pc = "sweep"
  BY <1>1, <1>3, <1>4, <1>5, SweepFits, MovingFits
  DEF Resting, Sweeping, ForFoundry, StepFits
<1>6. CASE p.pc = "evaluate"
  BY <1>1, <1>3, <1>4, <1>6, RestingFits, MovingFits
  DEF OnCandidate, ForFoundry, StepFits
<1>7. CASE p.pc = "finalize" /\ ~k.finalized /\ k.assessment = "none"
  <2>1. CommandFits(job, p, World)
    BY <1>1, <1>3, <1>4, <1>7
    DEF CommandFits, ControlFits, DecidingFits, EffectFits, WorldFits,
        Sweeping, Commenting, OnCandidate, ForFoundry, Deciding, Finishing
  <2>2. QED
    BY <1>1, <2>1, MovingFits DEF StepFits
<1>8. QED
  BY <1>3, <1>5, <1>6, <1>7

LEMMA StartFinishFits == Fits /\ StartFinish => StepFits
<1> SUFFICES ASSUME Fits, StartFinish PROVE StepFits
  OBVIOUS
<1> DEFINE p == [Ended EXCEPT !.pc = "sweep", !.todo = Handed(job),
                              !.next = "entry"]
<1>1. proc' = p /\ job' = job /\ World' = World
  BY DEF StartFinish, Continue, github, World
<1>2. /\ p \in Proc /\ p.pc = "sweep" /\ p.todo = Handed(job)
      /\ p.next = "entry"
  BY DEF Ended, Proc, Pcs, Handed
<1> HIDE DEF p
<1>3. QED
  BY <1>1, <1>2, CommandsFit, SweepFits, MovingFits
  DEF Resting, Sweeping, ForFoundry, StepFits

\* Saving one result of the candidate at work, while the job is open.
LEMMA ResultFits ==
    ASSUME Fits, proc.pc \in OnCandidate, World' = World, job.terminal = "none",
           NEW k \in Candidate, k.handed = job.cand[proc.cand].handed,
           CandidateFits(job.mode, k),
           NEW n, n = [job EXCEPT !.cand[proc.cand] = k], NEW p,
           IF Accepted(n) THEN job' = n /\ proc' = p
                          ELSE job' = job /\ proc' = Ended,
           WorldRests(n, World) /\ Handed(n) = Handed(job) /\ SameEnd(job, n)
               => CommandFits(n, p, World)
    PROVE  StepFits
<1>1. proc.cand \in Candidates
  BY AtCandidate
<1>2. Accepted(n) =>
        Follows(job, n) /\ Handed(n) = Handed(job) /\ SameEnd(job, n)
  BY <1>1, ResultSaved DEF Fits
<1>3. WorldRests(job, World)
  BY CommandsFit
<1>4. SameEnd(job, n) => WorldRests(n, World)
  BY <1>3 DEF SameEnd, WorldRests, Quantitative
<1>5. Accepted(n) => CommandFits(n, p, World)
  BY <1>2, <1>4
<1>6. QED
  BY <1>2, <1>5, SavingFits DEF StepFits

\* A candidate without an assessment was handed off to an open job.
LEMMA UnassessedIsOpen ==
    ASSUME Fits, NEW c \in Handed(job), job.cand[c].assessment = "none"
    PROVE  job.terminal = "none"
BY DEF Fits, JobFits, AllCompleted, Completed

LEMMA FinalizeFits == Fits /\ Finalize => StepFits
<1> SUFFICES ASSUME Fits, Finalize PROVE StepFits
  OBVIOUS
<1> DEFINE c == proc.cand
           k == job.cand[c]
           p == To("evaluate")
<1>1. proc.pc = "finalize" /\ World' = World
  BY DEF Finalize, Pc, Save, github, World
<1>2. /\ c \in Handed(job) /\ c \in Candidates /\ k \in Candidate
      /\ CandidateFits(job.mode, k) /\ proc.pc \in OnCandidate
  BY <1>1, AtCandidate DEF OnCandidate
<1>3. k.assessment = "none" /\ ~k.finalized /\ job.terminal = "none"
  <2>1. k.assessment = "none" /\ ~k.finalized
    BY <1>1 DEF Fits, CommandFits, ControlFits
  <2>2. QED
    BY <1>2, <2>1, UnassessedIsOpen
<1>4. /\ p \in Proc /\ p.pc = "evaluate" /\ p.cand = c
      /\ p.todo \subseteq Handed(job)
  BY CommandsFit, ToFields DEF Pcs
<1> DEFINE accepted == [k EXCEPT !.finalized = TRUE]
           rejected == [k EXCEPT !.assessment = "invalid"]
<1>5. \E x \in {accepted, rejected} :
        LET n == [job EXCEPT !.cand[proc.cand] = x] IN
        IF Accepted(n) THEN job' = n /\ proc' = p
                       ELSE job' = job /\ proc' = Ended
  BY DEF Finalize, Save
<1>6. PICK x \in {accepted, rejected} :
        LET n == [job EXCEPT !.cand[proc.cand] = x] IN
        IF Accepted(n) THEN job' = n /\ proc' = p
                       ELSE job' = job /\ proc' = Ended
  BY <1>5
<1>7. x \in Candidate /\ x.handed = k.handed /\ CandidateFits(job.mode, x)
  BY <1>2, <1>3 DEF Candidate, CandidateFits, Assessments
<1> HIDE DEF p, accepted, rejected
<1>8. ASSUME NEW n, WorldRests(n, World), Handed(n) = Handed(job)
      PROVE  CommandFits(n, p, World)
  BY <1>2, <1>4, <1>8, RestingFits DEF ForFoundry
<1> DEFINE n == [job EXCEPT !.cand[proc.cand] = x]
<1>9. n = [job EXCEPT !.cand[proc.cand] = x]
      /\ IF Accepted(n) THEN job' = n /\ proc' = p
                        ELSE job' = job /\ proc' = Ended
  BY <1>6
<1> HIDE DEF n, k
<1>10. WorldRests(n, World) /\ Handed(n) = Handed(job)
         => CommandFits(n, p, World)
  BY <1>8
<1>11. x \in Candidate /\ x.handed = job.cand[proc.cand].handed
  BY <1>7 DEF k
<1>12. QED
  BY <1>1, <1>2, <1>3, <1>7, <1>9, <1>10, <1>11, ResultFits

LEMMA EvaluateFits == Fits /\ Evaluate => StepFits
<1> SUFFICES ASSUME Fits, Evaluate PROVE StepFits
  OBVIOUS
<1> DEFINE c == proc.cand
           k == job.cand[c]
<1>1. proc.pc = "evaluate" /\ proc.pc \in OnCandidate
  BY DEF Evaluate, Pc, OnCandidate
<1>2. /\ c \in Handed(job) /\ c \in Candidates /\ k \in Candidate
      /\ CandidateFits(job.mode, k)
  BY <1>1, AtCandidate
<1>3. /\ job \in JobState /\ proc \in Proc /\ proc.todo \subseteq Handed(job)
      /\ WorldRests(job, World)
  BY CommandsFit
<1>4. \A n : WorldRests(n, World) /\ Handed(n) = Handed(job)
               => CommandFits(n, To("decide"), World)
  <2>1. LET p == To("decide") IN p \in Proc /\ p.pc = "decide"
          /\ p.cand = c /\ p.todo = proc.todo
    BY <1>3, ToFields DEF Pcs
  <2>2. QED
    BY <1>2, <1>3, <2>1, RestingFits DEF ForFoundry
<1>5. CASE k.assessment # "none"
  <2>1. Continue(To("decide"))
    BY <1>5 DEF Evaluate
  <2>2. job' = job /\ World' = World /\ proc' = To("decide")
    BY <2>1 DEF Continue, github, World
  <2>3. QED
    BY <1>3, <1>4, <2>2, MovingFits DEF StepFits
<1>6. CASE k.assessment = "none" /\ ~k.finalized
  <2>1. Continue(Ended)
    BY <1>6 DEF Evaluate
  <2>2. job' = job /\ World' = World /\ proc' = Ended
    BY <2>1 DEF Continue, github, World
  <2>3. QED
    BY <1>3, <2>2, EndedFits, MovingFits DEF StepFits
<1>7. CASE k.assessment = "none" /\ k.finalized /\ Quantitative(job)
  <2>1. Invoke(R!EnterCandidate(c), To("evaluating"))
    BY <1>7 DEF Evaluate, Quantitative
  <2>2. job' = job /\ World' = World /\ proc' = To("evaluating")
    BY <2>1 DEF Invoke, github, World
  <2>3. LET p == To("evaluating") IN p \in Proc /\ p.pc = "evaluating"
          /\ p.cand = c /\ p.todo = proc.todo
    BY <1>3, ToFields DEF Pcs
  <2>4. CommandFits(job, To("evaluating"), World)
    BY <1>2, <1>3, <1>7, <2>3
    DEF CommandFits, ControlFits, DecidingFits, EffectFits, WorldFits,
        Sweeping, Commenting, OnCandidate, ForFoundry, Deciding, Finishing
  <2>5. QED
    BY <2>2, <2>4, MovingFits DEF StepFits
<1>8. CASE k.assessment = "none" /\ k.finalized /\ ~Quantitative(job)
  <2>1. /\ World' = World
        /\ \E checks \in {"passed", "failed", k.checks},
              assessment \in {"keep", "discard"} :
             LET n == [job EXCEPT !.cand[c].checks = checks,
                                  !.cand[c].assessment = assessment] IN
             /\ job.mode = "repository_checks" => checks # "none"
             /\ IF Accepted(n) THEN job' = n /\ proc' = To("decide")
                               ELSE job' = job /\ proc' = Ended
    <3>1. CASE job.mode = "repository_checks"
      <4>1. PICK passed \in BOOLEAN :
              Save([job EXCEPT
                      !.cand[c].checks = IF passed THEN "passed" ELSE "failed",
                      !.cand[c].assessment =
                         IF passed THEN "keep" ELSE "discard"],
                   To("decide"))
        BY <1>8, <3>1 DEF Evaluate
      <4>2. CASE passed
        BY <4>1, <4>2 DEF Save, github, World
      <4>3. CASE ~passed
        BY <4>1, <4>3 DEF Save, github, World
      <4>4. QED
        BY <4>2, <4>3
    <3>2. CASE job.mode # "repository_checks"
      <4>1. job.mode = "none"
        BY <1>3, <1>8, <3>2, ModeAssumption DEF JobState, Modes, Quantitative
      <4>2. Save([job EXCEPT !.cand[c].assessment = "keep"], To("decide"))
        BY <1>8, <4>1 DEF Evaluate
      <4>3. [job EXCEPT !.cand[c].assessment = "keep"]
              = [job EXCEPT !.cand[c].checks = k.checks,
                            !.cand[c].assessment = "keep"]
        BY <1>2, <1>3 DEF JobState, Candidate
      <4>4. QED
        BY <4>1, <4>2, <4>3 DEF Save, github, World
    <3>3. QED
      BY <3>1, <3>2
  <2>2. PICK checks \in {"passed", "failed", k.checks},
             assessment \in {"keep", "discard"} :
             LET n == [job EXCEPT !.cand[c].checks = checks,
                                  !.cand[c].assessment = assessment] IN
             /\ job.mode = "repository_checks" => checks # "none"
             /\ IF Accepted(n) THEN job' = n /\ proc' = To("decide")
                               ELSE job' = job /\ proc' = Ended
    BY <2>1
  <2> DEFINE x == [k EXCEPT !.checks = checks, !.assessment = assessment]
             n == [job EXCEPT !.cand[proc.cand] = x]
  <2>3. x \in Candidate /\ x.handed = k.handed /\ CandidateFits(job.mode, x)
    BY <1>2, <1>8, <2>2 DEF Candidate, CandidateFits, Assessments, Quantitative
  <2>4. n = [job EXCEPT !.cand[c].checks = checks,
                        !.cand[c].assessment = assessment]
    BY <1>2, <1>3 DEF JobState, Candidate
  <2>5. IF Accepted(n) THEN job' = n /\ proc' = To("decide")
                       ELSE job' = job /\ proc' = Ended
    BY <2>2, <2>4
  <2>6. job.terminal = "none"
    BY <1>2, <1>8, UnassessedIsOpen
  <2>7. n = [job EXCEPT !.cand[proc.cand] = x] /\ World' = World
        /\ x.handed = job.cand[proc.cand].handed
    BY <2>1, <2>3
  <2> HIDE DEF n, x, k
  <2>8. WorldRests(n, World) /\ Handed(n) = Handed(job)
          => CommandFits(n, To("decide"), World)
    BY <1>4
  <2>9. QED
    BY <1>1, <2>3, <2>5, <2>6, <2>7, <2>8, ResultFits
<1>9. QED
  BY <1>5, <1>6, <1>7, <1>8, <1>2 DEF Candidate

\* What the runtime returns has the types of the state file.
LEMMA ResultTypes ==
    ASSUME Inv
    PROVE  /\ call.draft \in R!Versions \cup {None}
           /\ proc.pc \in {"evaluating", "validated"} /\ R!At("done")
                /\ call.status = "ok"
              => /\ side[proc.cand].dev \in Summaries \cup {None}
                 /\ side[proc.cand].val \in Summaries \cup {None}
<1>1. call \in RP!Call /\ \A c \in DOMAIN side : side[c] \in RP!Sidecar
  BY DEF Inv, RP!IInv, RP!CallFits, RP!FilesFit, RP!StoredFits
<1>2. RP!Versions = R!Versions /\ RP!None = None /\ R!None = None
  BY DEF RP!Versions, R!Versions, RP!None, R!None, None
<1>3. call.draft \in RP!Versions \cup {RP!None}
  BY <1>1 DEF RP!Call
<1>4. \A c \in DOMAIN side : /\ side[c].dev \in Summaries \cup {RP!None}
                             /\ side[c].val \in Summaries \cup {RP!None}
  BY <1>1 DEF RP!Sidecar
<1>5. proc.pc \in {"evaluating", "validated"} /\ call.step = "done"
        /\ call.status = "ok" => proc.cand \in DOMAIN side
  BY DEF Inv, FrameFits
<1>6. QED
  BY <1>2, <1>3, <1>4, <1>5 DEF R!At

LEMMA EvaluatedFits == Inv /\ Evaluated => StepFits
<1> SUFFICES ASSUME Inv, Evaluated PROVE StepFits
  OBVIOUS
<1> DEFINE c == proc.cand
           k == job.cand[c]
<1>1. Fits /\ proc.pc = "evaluating" /\ proc.pc \in OnCandidate
  BY DEF Inv, Evaluated, Pc, OnCandidate
<1>2. /\ c \in Handed(job) /\ c \in Candidates /\ k \in Candidate
      /\ CandidateFits(job.mode, k)
  BY <1>1, AtCandidate
<1>3. /\ job \in JobState /\ proc \in Proc /\ proc.todo \subseteq Handed(job)
      /\ WorldRests(job, World)
  BY <1>1, CommandsFit
<1>4. /\ k.assessment = "none" /\ k.finalized /\ Quantitative(job)
      /\ job.terminal = "none"
  <2>1. k.assessment = "none" /\ k.finalized /\ Quantitative(job)
    BY <1>1, <1>2 DEF Fits, CommandFits, ControlFits, ForFoundry
  <2>2. QED
    BY <1>1, <1>2, <2>1, UnassessedIsOpen
<1>5. CASE DropResult(Ended)
  <2>1. job' = job /\ World' = World /\ proc' = Ended
    BY <1>5 DEF DropResult, github, World
  <2>2. QED
    BY <1>1, <1>3, <2>1, EndedFits, MovingFits DEF StepFits
<1>6. CASE SaveResult(WithRetry(job, c, "candidate"),
                      [To("retryDecide") EXCEPT !.next = "idle"])
  <2> DEFINE n == WithRetry(job, c, "candidate")
             p == [To("retryDecide") EXCEPT !.next = "idle"]
  <2>1. /\ IF Accepted(n) THEN job' = n /\ proc' = p
                          ELSE job' = job /\ proc' = Ended
        /\ World' = World
    BY <1>6 DEF SaveResult, github, World
  <2>2. /\ p \in Proc /\ p.pc = "retryDecide" /\ p.todo = proc.todo
        /\ p.next = "idle"
    <3>1. "retryDecide" \in Pcs /\ "idle" \in Pcs
      BY DEF Pcs
    <3>2. LET q == To("retryDecide") IN
            q \in Proc /\ q.pc = "retryDecide" /\ q.todo = proc.todo
      BY <1>3, <3>1, ToFields
    <3>3. QED
      BY <3>1, <3>2 DEF Proc
  <2>3. Accepted(n) => Follows(job, n) /\ Handed(n) = Handed(job)
    BY <1>1, <1>2, <1>4, RetrySaved DEF Fits
  <2>4. n.projection = None
    BY <1>3 DEF WithRetry, JobState
  <2> HIDE DEF n, p
  <2>5. Accepted(n) => WorldRests(n, World) /\ Quantitative(n)
    BY <1>4, <2>3, <2>4 DEF WorldRests, Quantitative, Follows
  <2>6. Accepted(n) => CommandFits(n, p, World)
    BY <1>3, <2>2, <2>3, <2>5, SweepFits DEF Sweeping, Resting
  <2>7. QED
    BY <1>1, <2>1, <2>3, <2>6, SavingFits DEF StepFits
<1>7. CASE SaveResult([job EXCEPT !.cand[c].assessment = "platform_failure",
                                  !.cand[c].draft = call.draft],
                      [Sweep({c}, "afterTry") EXCEPT !.tried = TRUE])
  <2> DEFINE x == [k EXCEPT !.assessment = "platform_failure",
                            !.draft = call.draft]
             n == [job EXCEPT !.cand[proc.cand] = x]
             p == [Sweep({c}, "afterTry") EXCEPT !.tried = TRUE]
  <2>1. x \in Candidate /\ x.handed = k.handed /\ CandidateFits(job.mode, x)
    BY <1>2, <1>4, ResultTypes
    DEF Candidate, CandidateFits, Assessments, Quantitative
  <2>2. n = [job EXCEPT !.cand[c].assessment = "platform_failure",
                        !.cand[c].draft = call.draft]
    BY <1>2, <1>3 DEF JobState, Candidate
  <2>3. /\ IF Accepted(n) THEN job' = n /\ proc' = p
                          ELSE job' = job /\ proc' = Ended
        /\ World' = World
    BY <1>7, <2>2 DEF SaveResult, github, World
  <2>4. p \in Proc /\ p.pc = "sweep" /\ p.todo = {c} /\ p.next = "afterTry"
        /\ p.cand = c
    BY <1>2, <1>3 DEF Sweep, Proc, Pcs
  <2>5. n = [job EXCEPT !.cand[proc.cand] = x]
        /\ x.handed = job.cand[proc.cand].handed
    BY <2>1
  <2> HIDE DEF n, x, p, k
  <2>6. WorldRests(n, World) /\ Handed(n) = Handed(job)
          => CommandFits(n, p, World)
    BY <1>2, <2>4, SweepFits DEF Sweeping, Resting, ForFoundry
  <2>7. QED
    BY <1>1, <1>4, <2>1, <2>3, <2>5, <2>6, ResultFits
<1>8. CASE Returned("ok")
           /\ SaveResult([job EXCEPT !.cand[c].dev = side[c].dev,
                                     !.cand[c].draft = call.draft],
                         To("decide"))
  <2> DEFINE x == [k EXCEPT !.dev = side[c].dev, !.draft = call.draft]
             n == [job EXCEPT !.cand[proc.cand] = x]
             p == To("decide")
  <2>1. x \in Candidate /\ x.handed = k.handed /\ CandidateFits(job.mode, x)
    <3>1. /\ call.draft \in R!Versions \cup {None}
          /\ side[c].dev \in Summaries \cup {None}
      BY <1>1, <1>8, ResultTypes DEF Returned, R!At
    <3>2. QED
      BY <1>2, <1>4, <3>1 DEF Candidate, CandidateFits, Quantitative
  <2>2. n = [job EXCEPT !.cand[c].dev = side[c].dev,
                        !.cand[c].draft = call.draft]
    BY <1>2, <1>3 DEF JobState, Candidate
  <2>3. /\ IF Accepted(n) THEN job' = n /\ proc' = p
                          ELSE job' = job /\ proc' = Ended
        /\ World' = World
    BY <1>8, <2>2 DEF SaveResult, github, World
  <2>4. p \in Proc /\ p.pc = "decide" /\ p.todo = proc.todo /\ p.cand = c
    BY <1>3, ToFields DEF Pcs
  <2>5. n = [job EXCEPT !.cand[proc.cand] = x]
        /\ x.handed = job.cand[proc.cand].handed
    BY <2>1
  <2> HIDE DEF n, x, p, k
  <2>6. WorldRests(n, World) /\ Handed(n) = Handed(job)
          => CommandFits(n, p, World)
    BY <1>2, <1>3, <2>4, RestingFits DEF ForFoundry
  <2>7. QED
    BY <1>1, <1>4, <2>1, <2>3, <2>5, <2>6, ResultFits
<1>9. QED
  BY <1>5, <1>6, <1>7, <1>8 DEF Evaluated

LEMMA DecideFits == Fits /\ Decide => StepFits
<1> SUFFICES ASSUME Fits, Decide PROVE StepFits
  OBVIOUS
<1> DEFINE n == WithDevelopmentDecision(job)
<1>1. /\ IF Accepted(n) THEN job' = n /\ proc' = AfterDecision(n)
                        ELSE job' = job /\ proc' = Ended
      /\ World' = World /\ proc.pc = "decide" /\ proc.pc \in OnCandidate
  BY DEF Decide, Save, github, World, Pc, OnCandidate
<1>2. Accepted(n) => /\ Follows(job, n) /\ Handed(n) = Handed(job)
                     /\ n.projection = job.projection
  BY DecisionSaved DEF Fits
<1>3. /\ job \in JobState /\ proc \in Proc /\ proc.todo \subseteq Handed(job)
      /\ WorldRests(job, World)
      /\ proc.cand \in Handed(job) /\ proc.cand \in Candidates
  BY <1>1, CommandsFit, AtCandidate
<1> HIDE DEF n
<1>4. ASSUME Accepted(n) PROVE CommandFits(n, AfterDecision(n), World)
  <2>1. WorldRests(n, World)
    BY <1>2, <1>3, <1>4 DEF WorldRests, Follows, Quantitative
  <2>2. CommandFits(n, Ended, World)
    BY <2>1, EndedFits
  <2>3. CommandFits(n, To("comment"), World)
    <3>1. LET p == To("comment") IN p \in Proc /\ p.pc = "comment"
            /\ p.cand = proc.cand /\ p.todo = proc.todo
      BY <1>3, ToFields DEF Pcs
    <3>2. QED
      BY <1>2, <1>3, <1>4, <2>1, <3>1, RestingFits DEF ForFoundry
  <2>4. CommandFits(n, Sweep({proc.cand}, "idle"), World)
    <3>1. LET p == Sweep({proc.cand}, "idle") IN p \in Proc /\ p.pc = "sweep"
            /\ p.todo = {proc.cand} /\ p.next = "idle"
      BY <1>3, SweepFields DEF Pcs
    <3>2. QED
      BY <1>2, <1>3, <1>4, <2>1, <3>1, SweepFits
      DEF Sweeping, Resting, ForFoundry
  <2>5. QED
    BY <2>2, <2>3, <2>4 DEF AfterDecision
<1>5. QED
  BY <1>1, <1>2, <1>4, SavingFits DEF StepFits

LEMMA AfterTryFits == Fits /\ AfterTry => StepFits
<1> SUFFICES ASSUME Fits, AfterTry PROVE StepFits
  OBVIOUS
<1>1. /\ job' = job /\ World' = World /\ proc' \in {Ended, To("comment")}
      /\ proc.pc \in OnCandidate
  BY DEF AfterTry, Continue, github, World, Pc, OnCandidate
<1>2. /\ proc \in Proc /\ proc.todo \subseteq Handed(job)
      /\ WorldRests(job, World) /\ proc.cand \in Handed(job)
  BY <1>1, CommandsFit, AtCandidate
<1>3. CommandFits(job, Ended, World)
  BY <1>2, EndedFits
<1>4. LET p == To("comment") IN p \in Proc /\ p.pc = "comment"
        /\ p.cand = proc.cand /\ p.todo = proc.todo
  BY <1>2, ToFields DEF Pcs
<1>5. CommandFits(job, To("comment"), World)
  BY <1>2, <1>4, RestingFits DEF ForFoundry
<1>6. QED
  BY <1>1, <1>3, <1>5, MovingFits DEF StepFits

\* Saving one receipt of the candidate at work.
LEMMA ReceiptFits ==
    ASSUME Fits, World' = World, NEW c \in Candidates, NEW k \in Candidate,
           \/ k = [job.cand[c] EXCEPT !.comment = TRUE]
           \/ k = [job.cand[c] EXCEPT !.cleaned = TRUE],
           NEW n, n = [job EXCEPT !.cand[c] = k], NEW p,
           IF Accepted(n) THEN job' = n /\ proc' = p
                          ELSE job' = job /\ proc' = Ended,
           WorldRests(n, World) /\ Handed(n) = Handed(job) /\ n.mode = job.mode
               => CommandFits(n, p, World)
    PROVE  StepFits
<1>1. Accepted(n) =>
        Follows(job, n) /\ SameEvidence(job, n) /\ SameEnd(job, n)
  BY ReceiptSaved DEF Fits
<1>2. WorldRests(job, World)
  BY CommandsFit
<1>3. SameEnd(job, n) => WorldRests(n, World) /\ n.mode = job.mode
  BY <1>2 DEF SameEnd, WorldRests, Quantitative
<1>4. SameEvidence(job, n) => Handed(n) = Handed(job)
  BY DEF SameEvidence, Handed
<1>5. QED
  BY <1>1, <1>3, <1>4, SavingFits DEF StepFits

LEMMA CommentFits == Fits /\ Comment => StepFits
<1> SUFFICES ASSUME Fits, Comment PROVE StepFits
  OBVIOUS
<1> DEFINE c == proc.cand
           k == [job.cand[c] EXCEPT !.comment = TRUE]
           n == [job EXCEPT !.cand[c] = k]
           p == IF proc.tried THEN Ended ELSE Sweep({proc.cand}, "idle")
<1>1. /\ IF Accepted(n) THEN job' = n /\ proc' = p
                        ELSE job' = job /\ proc' = Ended
      /\ World' = World /\ proc.pc \in OnCandidate
  BY DEF Comment, Save, github, World, Pc, OnCandidate
<1>2. /\ proc \in Proc /\ c \in Handed(job) /\ c \in Candidates
      /\ job.cand[c] \in Candidate
  BY <1>1, CommandsFit, AtCandidate
<1>3. k \in Candidate
  BY <1>2 DEF Candidate
<1>4. k = [job.cand[c] EXCEPT !.comment = TRUE]
      /\ n = [job EXCEPT !.cand[c] = k]
  OBVIOUS
<1>5. LET s == Sweep({proc.cand}, "idle") IN s \in Proc /\ s.pc = "sweep"
        /\ s.todo = {proc.cand} /\ s.next = "idle"
  BY <1>2, SweepFields DEF Pcs
<1> HIDE DEF n, k
<1>6. ASSUME WorldRests(n, World), Handed(n) = Handed(job)
      PROVE  CommandFits(n, p, World)
  <2>1. CommandFits(n, Ended, World)
    BY <1>6, EndedFits
  <2>2. CommandFits(n, Sweep({proc.cand}, "idle"), World)
    BY <1>2, <1>5, <1>6, SweepFits DEF Sweeping, Resting, ForFoundry
  <2>3. QED
    BY <2>1, <2>2
<1> HIDE DEF p
<1>7. QED
  BY <1>1, <1>2, <1>3, <1>4, <1>6, ReceiptFits

\* What holds in the middle of a sweep.
LEMMA InSweep ==
    ASSUME Fits, proc.pc \in Sweeping
    PROVE  /\ proc.next \in Resting
           /\ proc.next = "afterTry" => proc.cand \in Handed(job)
           /\ proc.next = "afterFailure" => Quantitative(job)
           /\ proc.pc \in ForFoundry => Quantitative(job)
           /\ proc.pc = "sweeping" => proc.todo # {}
           /\ proc.todo # {} => Least(proc.todo) \in proc.todo
<1>1. ControlFits(job, proc)
  BY DEF Fits, CommandFits
<1>2. HasFirst(Handed(job)) /\ Handed(job) \subseteq Candidates
  BY DEF Fits, JobFits, HandedFits, Handed
<1>3. proc.todo # {} => Least(proc.todo) \in proc.todo
  BY <1>1, <1>2, LeastIsMember DEF ControlFits
<1>4. QED
  BY <1>1, <1>3 DEF ControlFits

\* A sweep goes on, in a state with the same candidates.
LEMMA SweepGoesOn ==
    ASSUME Fits, proc.pc \in Sweeping, NEW n, WorldRests(n, World),
           Handed(n) = Handed(job), n.mode = job.mode,
           NEW pc \in {"sweep", "sweeping", "retryDecide"},
           NEW todo \in SUBSET proc.todo,
           pc # "sweep" => Quantitative(job), pc = "sweeping" => todo # {}
    PROVE  CommandFits(n, [proc EXCEPT !.pc = pc, !.todo = todo], World)
<1> DEFINE p == [proc EXCEPT !.pc = pc, !.todo = todo]
<1>1. proc \in Proc /\ proc.todo \subseteq Handed(job)
  BY CommandsFit
<1>2. /\ p \in Proc /\ p.pc = pc /\ p.todo = todo /\ p.next = proc.next
      /\ p.cand = proc.cand
  BY <1>1 DEF Proc, Pcs
<1> HIDE DEF p
<1>3. CommandFits(n, p, World)
  BY <1>1, <1>2, InSweep, SweepFits DEF Sweeping, ForFoundry, Quantitative
<1>4. QED
  BY <1>3 DEF p

LEMMA SweepStepFits == Fits /\ SweepStep => StepFits
<1> SUFFICES ASSUME Fits, SweepStep PROVE StepFits
  OBVIOUS
<1> DEFINE c == Least(proc.todo)
<1>1. proc.pc = "sweep" /\ proc.pc \in Sweeping
  BY DEF SweepStep, Pc, Sweeping
<1>2. /\ job \in JobState /\ proc \in Proc /\ proc.todo \subseteq Handed(job)
      /\ WorldRests(job, World)
  BY CommandsFit
<1>3. CASE proc.todo = {}
  <2> DEFINE p == [proc EXCEPT !.pc = proc.next]
  <2>1. job' = job /\ World' = World /\ proc' = p
    BY <1>3 DEF SweepStep, Continue, github, World
  <2>2. /\ p \in Proc /\ p.pc = proc.next /\ p.todo = proc.todo
        /\ p.cand = proc.cand
    BY <1>2 DEF Proc
  <2> HIDE DEF p
  <2>3. CommandFits(job, p, World)
    BY <1>1, <1>2, <2>2, InSweep, RestingFits
    DEF Resting, OnCandidate, ForFoundry
  <2>4. QED
    BY <2>1, <2>3, MovingFits DEF StepFits
<1>4. CASE proc.todo # {} /\ c \in PendingCleanups(job)
  <2>1. job' = job /\ World' = World /\ proc' = To("sweeping")
    BY <1>4 DEF SweepStep, Invoke, github, World
  <2>2. To("sweeping") = [proc EXCEPT !.pc = "sweeping", !.todo = proc.todo]
    BY <1>2 DEF To, Proc
  <2>3. Quantitative(job)
    <3>1. c \in Candidates /\ job.cand[c].draft # None
      BY <1>4 DEF PendingCleanups, Handed
    <3>2. CandidateFits(job.mode, job.cand[c])
      BY <3>1 DEF Fits, JobFits
    <3>3. QED
      BY <3>1, <3>2 DEF CandidateFits, Quantitative
  <2>4. CommandFits(job, To("sweeping"), World)
    BY <1>1, <1>2, <1>4, <2>2, <2>3, SweepGoesOn
  <2>5. QED
    BY <2>1, <2>4, MovingFits DEF StepFits
<1>5. CASE proc.todo # {} /\ c \notin PendingCleanups(job)
  <2>1. /\ job' = job /\ World' = World
        /\ proc' = [proc EXCEPT !.todo = @ \ {c}]
    BY <1>5 DEF SweepStep, Continue, github, World
  <2>2. [proc EXCEPT !.todo = @ \ {c}]
          = [proc EXCEPT !.pc = "sweep", !.todo = proc.todo \ {c}]
    BY <1>1, <1>2 DEF Proc
  <2>3. proc.todo \ {c} \in SUBSET proc.todo
    OBVIOUS
  <2>4. CommandFits(job, [proc EXCEPT !.pc = "sweep",
                                      !.todo = proc.todo \ {c}], World)
    BY <1>1, <1>2, <2>3, SweepGoesOn
  <2>5. QED
    BY <2>1, <2>2, <2>4, MovingFits DEF StepFits
<1>6. QED
  BY <1>3, <1>4, <1>5

LEMMA SweptFits == Fits /\ Swept => StepFits
<1> SUFFICES ASSUME Fits, Swept PROVE StepFits
  OBVIOUS
<1> DEFINE c == Least(proc.todo)
           left == proc.todo \ {c}
           rest == [To("sweep") EXCEPT !.todo = @ \ {c}]
           phase == side[call.cand].retry
<1>1. proc.pc = "sweeping" /\ proc.pc \in Sweeping
  BY DEF Swept, Pc, Sweeping
<1>2. /\ job \in JobState /\ proc \in Proc /\ proc.todo \subseteq Handed(job)
      /\ WorldRests(job, World) /\ Quantitative(job)
      /\ c \in Handed(job) /\ c \in Candidates /\ left \in SUBSET proc.todo
  BY <1>1, CommandsFit, InSweep DEF ForFoundry, Handed
<1>3. /\ rest = [proc EXCEPT !.pc = "sweep", !.todo = left]
      /\ [rest EXCEPT !.pc = "retryDecide"]
           = [proc EXCEPT !.pc = "retryDecide", !.todo = left]
  BY <1>2 DEF To, Proc
<1>4. ASSUME NEW n, WorldRests(n, World), Handed(n) = Handed(job),
             n.mode = job.mode
      PROVE  /\ CommandFits(n, rest, World)
             /\ CommandFits(n, [rest EXCEPT !.pc = "retryDecide"], World)
  <2>1. CommandFits(n, [proc EXCEPT !.pc = "sweep", !.todo = left], World)
    BY <1>1, <1>2, <1>4, SweepGoesOn
  <2>2. CommandFits(n, [proc EXCEPT !.pc = "retryDecide", !.todo = left], World)
    BY <1>1, <1>2, <1>4, SweepGoesOn
  <2>3. QED
    BY <1>3, <2>1, <2>2
<1> HIDE DEF rest
<1>5. CASE DropResult(Ended) \/ DropResult(rest)
  <2>1. job' = job /\ World' = World /\ proc' \in {Ended, rest}
    BY <1>5 DEF DropResult, github, World
  <2>2. CommandFits(job, Ended, World) /\ CommandFits(job, rest, World)
    BY <1>2, <1>4, EndedFits
  <2>3. QED
    BY <2>1, <2>2, MovingFits DEF StepFits
<1>6. CASE /\ job.terminal \in {"none", "platform_failure"}
           /\ SaveResult(WithRetry(job, c, phase),
                         [rest EXCEPT !.pc = "retryDecide"])
  <2> DEFINE n == WithRetry(job, c, phase)
             p == [rest EXCEPT !.pc = "retryDecide"]
  <2>1. /\ IF Accepted(n) THEN job' = n /\ proc' = p
                          ELSE job' = job /\ proc' = Ended
        /\ World' = World
    BY <1>6 DEF SaveResult, github, World
  <2>2. Accepted(n) => Follows(job, n) /\ Handed(n) = Handed(job)
    BY <1>2, <1>6, RetrySaved DEF Fits
  <2>3. n.projection = None
    BY <1>2 DEF WithRetry, JobState
  <2> HIDE DEF n
  <2>4. Accepted(n) => WorldRests(n, World) /\ n.mode = job.mode
    BY <1>2, <2>2, <2>3 DEF WorldRests, Quantitative, Follows
  <2>5. Accepted(n) => CommandFits(n, p, World)
    BY <1>4, <2>2, <2>4
  <2> HIDE DEF p
  <2>6. QED
    BY <2>1, <2>2, <2>5, SavingFits DEF StepFits
<1>7. CASE SaveResult([job EXCEPT !.cand[c].cleaned = TRUE], rest)
  <2> DEFINE k == [job.cand[c] EXCEPT !.cleaned = TRUE]
             n == [job EXCEPT !.cand[c] = k]
  <2>1. /\ IF Accepted(n) THEN job' = n /\ proc' = rest
                          ELSE job' = job /\ proc' = Ended
        /\ World' = World
    BY <1>7 DEF SaveResult, github, World
  <2>2. k \in Candidate
    <3>1. job.cand[c] \in Candidate
      BY <1>2 DEF JobState
    <3>2. QED
      BY <3>1 DEF Candidate
  <2>3. k = [job.cand[c] EXCEPT !.cleaned = TRUE]
        /\ n = [job EXCEPT !.cand[c] = k]
    OBVIOUS
  <2> HIDE DEF n, k
  <2>4. WorldRests(n, World) /\ Handed(n) = Handed(job) /\ n.mode = job.mode
          => CommandFits(n, rest, World)
    BY <1>4
  <2>5. QED
    BY <1>2, <2>1, <2>2, <2>3, <2>4, ReceiptFits
<1>8. QED
  BY <1>5, <1>6, <1>7 DEF Swept, rest

LEMMA RetryDecideFits == Fits /\ RetryDecide => StepFits
<1> SUFFICES ASSUME Fits, RetryDecide PROVE StepFits
  OBVIOUS
<1> DEFINE n == WithDevelopmentDecision(job)
<1>1. /\ IF Accepted(n) THEN job' = n /\ proc' = To("sweep")
                        ELSE job' = job /\ proc' = Ended
      /\ World' = World /\ proc.pc \in Sweeping
  BY DEF RetryDecide, Save, github, World, Pc, Sweeping
<1>2. Accepted(n) => /\ Follows(job, n) /\ Handed(n) = Handed(job)
                     /\ n.projection = job.projection
  BY DecisionSaved DEF Fits
<1>3. proc \in Proc /\ WorldRests(job, World)
  BY CommandsFit
<1>4. To("sweep") = [proc EXCEPT !.pc = "sweep", !.todo = proc.todo]
  BY <1>3 DEF To, Proc
<1> HIDE DEF n
<1>5. ASSUME Accepted(n) PROVE CommandFits(n, To("sweep"), World)
  <2>1. WorldRests(n, World) /\ n.mode = job.mode
    BY <1>2, <1>3, <1>5 DEF WorldRests, Follows, Quantitative
  <2>2. Handed(n) = Handed(job) /\ proc.todo \in SUBSET proc.todo
    BY <1>2, <1>5
  <2>3. CommandFits(n, [proc EXCEPT !.pc = "sweep", !.todo = proc.todo], World)
    BY <1>1, <2>1, <2>2, SweepGoesOn
  <2>4. QED
    BY <1>4, <2>3
<1>6. QED
  BY <1>1, <1>2, <1>5, SavingFits DEF StepFits

\* To the patch, and to the closure.
LEMMA ProjectFits ==
    ASSUME NEW n, NEW p \in Proc, NEW w, WorldRests(n, w),
           p.todo \subseteq Handed(n), p.pc = "project", p.cand \in Handed(n),
           AllCompleted(n), n.projection = None, n.decision.selected = p.cand,
           SelectionFits(n), n.terminal \in Positive \cup {"none"},
           n.terminal = "none" => ~Quantitative(n)
    PROVE  CommandFits(n, p, w)
BY DEF CommandFits, ControlFits, DecidingFits, EffectFits, WorldFits, Sweeping,
       Commenting, OnCandidate, ForFoundry, Deciding, Finishing

LEMMA CloseFits ==
    ASSUME NEW n, NEW p \in Proc, NEW w, WorldRests(n, w),
           p.todo \subseteq Handed(n), p.pc = "close",
           AllCompleted(n), ~n.closure, n.terminal \in {"none", "no_winner"}
    PROVE  CommandFits(n, p, w)
BY DEF CommandFits, ControlFits, DecidingFits, EffectFits, WorldFits, Sweeping,
       Commenting, OnCandidate, ForFoundry, Deciding, Finishing

\* A decision that has selected a candidate has selected one handed off.
LEMMA SelectedIsHanded ==
    ASSUME Fits, job.terminal \in Positive
    PROVE  /\ AllCompleted(job) /\ SelectionFits(job) /\ ~job.closure
           /\ Quantitative(job) => job.terminal = "winner"
           /\ job.decision.selected # None /\ ~Quantitative(job)
                => job.decision.selected \in Handed(job)
           /\ job.terminal = "winner" /\ job.decision.winner # None =>
                /\ job.decision.selected = job.decision.winner
                /\ job.decision.selected \in Handed(job)
<1>1. /\ AllCompleted(job) /\ SelectionFits(job) /\ ~job.closure
      /\ Quantitative(job) => job.terminal = "winner"
      /\ HasFirst(Handed(job)) /\ job \in JobState /\ WinnerFits(job)
      /\ Accepted(job)
  BY DEF Fits, JobFits, HandedFits, ModeFits, Positive
<1>2. job.decision.selected # None /\ ~Quantitative(job)
        => job.decision.selected \in Handed(job)
  <2>1. Acceptable(job) \subseteq Handed(job) /\ Handed(job) \subseteq Candidates
    BY DEF Acceptable, Handed
  <2>2. Acceptable(job) # {} => Least(Acceptable(job)) \in Handed(job)
    BY <1>1, <2>1, LeastIsMember
  <2>3. Acceptable(job) = {} => Least(Acceptable(job)) = None
    BY DEF Least
  <2>4. QED
    BY <1>1, <2>2, <2>3 DEF SelectionFits
<1>3. job.terminal = "winner" /\ job.decision.winner # None =>
        /\ job.decision.selected = job.decision.winner
        /\ job.decision.selected \in Handed(job)
  <2> SUFFICES ASSUME job.terminal = "winner", job.decision.winner # None
               PROVE  /\ job.decision.selected = job.decision.winner
                      /\ job.decision.selected \in Handed(job)
    OBVIOUS
  <2>1. job.decision.selected = job.decision.winner
    BY <1>1 DEF Accepted
  <2>2. job.decision.winner = Best(job, Eligible(job))
    BY <1>1 DEF WinnerFits
  <2>3. Eligible(job) \subseteq Handed(job)
    BY DEF Eligible
  <2>4. Eligible(job) # {}
    BY <2>2 DEF Best
  <2>5. QED
    BY <1>1, <2>1, <2>2, <2>3, <2>4, BestIsMember
<1>4. QED
  BY <1>1, <1>2, <1>3

LEMMA EntryOfCliFits == Fits /\ EntryOfCli => StepFits
<1> SUFFICES ASSUME Fits, EntryOfCli PROVE StepFits
  OBVIOUS
<1>1. /\ job' = job /\ World' = World
      /\ \/ proc' = Ended
         \/ job.terminal = "no_winner" /\ proc' = FinalComment(job, "bind")
         \/ proc' = To("bindVerify")
         \/ proc' = ControllerFinish(job)
         \/ /\ proc' = To("finDecide")
            /\ job.terminal = "none" /\ EnoughCompleted(job)
  BY DEF EntryOfCli, Continue, github, World
<1>2. /\ proc \in Proc /\ proc.todo \subseteq Handed(job)
      /\ WorldRests(job, World) /\ HandedFits(job)
  BY CommandsFit
<1>3. CommandFits(job, Ended, World)
  BY <1>2, EndedFits
<1>4. CASE job.terminal = "no_winner" /\ proc' = FinalComment(job, "bind")
  <2>1. Quantitative(job)
    BY <1>4 DEF Fits, JobFits, ModeFits, Label
  <2>2. CommandFits(job, FinalComment(job, "bind"), World)
    BY <1>2, <2>1, FinalCommentFits
  <2>3. QED
    BY <1>1, <1>4, <2>2, MovingFits DEF StepFits
<1>5. CommandFits(job, To("bindVerify"), World)
  BY <1>2, ToFields, RestingFits DEF Pcs, OnCandidate, ForFoundry
<1>6. CommandFits(job, ControllerFinish(job), World)
  BY <1>2, ControllerFinishFits
<1>7. CASE /\ proc' = To("finDecide")
           /\ job.terminal = "none" /\ EnoughCompleted(job)
  <2>1. AllCompleted(job)
    BY <1>2, <1>7, EnoughIsAll
  <2>2. LET p == To("finDecide") IN
          p \in Proc /\ p.pc = "finDecide" /\ p.todo = proc.todo
    BY <1>2, ToFields DEF Pcs
  <2>3. CommandFits(job, To("finDecide"), World)
    BY <1>2, <1>7, <2>1, <2>2
    DEF CommandFits, ControlFits, DecidingFits, EffectFits, WorldFits,
        Sweeping, Commenting, OnCandidate, ForFoundry, Deciding, Finishing
  <2>4. QED
    BY <1>1, <1>7, <2>3, MovingFits DEF StepFits
<1>8. QED
  BY <1>1, <1>3, <1>4, <1>5, <1>6, <1>7, MovingFits DEF StepFits

LEMMA EntryOfControllerFits == Fits /\ EntryOfController => StepFits
<1> SUFFICES ASSUME Fits, EntryOfController PROVE StepFits
  OBVIOUS
<1> DEFINE selected == job.decision.selected
           toProject == [To("project") EXCEPT !.cand = selected]
<1>1. /\ job' = job /\ World' = World
      /\ \/ proc' = Ended
         \/ /\ job.terminal \in Positive /\ selected # None
            /\ job.terminal = "winner" => job.decision.winner # None
            /\ job.projection = None /\ proc' = toProject
         \/ /\ job.terminal \in Positive => job.projection # None
            /\ job.terminal # "none" /\ proc' = FinalComment(job, "idle")
         \/ job.terminal = "no_winner" /\ ~job.closure /\ proc' = To("close")
         \/ /\ proc' = To("finDecide")
            /\ job.terminal = "none" /\ EnoughCompleted(job)
  BY DEF EntryOfController, ResumeTerminal, Continue, github, World
<1>2. /\ proc \in Proc /\ proc.todo \subseteq Handed(job) /\ job \in JobState
      /\ WorldRests(job, World) /\ HandedFits(job)
  BY CommandsFit
<1>3. CommandFits(job, Ended, World)
  BY <1>2, EndedFits
<1>4. CASE /\ job.terminal \in Positive /\ selected # None
           /\ job.terminal = "winner" => job.decision.winner # None
           /\ job.projection = None /\ proc' = toProject
  <2>1. selected \in Handed(job) /\ selected \in Candidates
        /\ AllCompleted(job) /\ SelectionFits(job)
    BY <1>4, SelectedIsHanded DEF Handed
  <2>2. /\ toProject \in Proc /\ toProject.pc = "project"
        /\ toProject.cand = selected /\ toProject.todo = proc.todo
    BY <1>2, <2>1 DEF To, Proc, Pcs
  <2>3. job.terminal # "none"
    BY <1>4 DEF Positive
  <2> HIDE DEF toProject
  <2>4. CommandFits(job, toProject, World)
    BY <1>2, <1>4, <2>1, <2>2, <2>3, ProjectFits
  <2>5. QED
    BY <1>1, <1>4, <2>4, MovingFits DEF StepFits
<1>5. CASE /\ job.terminal \in Positive => job.projection # None
           /\ job.terminal # "none" /\ proc' = FinalComment(job, "idle")
  <2>1. Quantitative(job) \/ job.projection # None
    BY <1>5 DEF Fits, JobFits, ModeFits, Label, Positive
  <2>2. CommandFits(job, FinalComment(job, "idle"), World)
    BY <1>2, <2>1, FinalCommentFits
  <2>3. QED
    BY <1>1, <1>5, <2>2, MovingFits DEF StepFits
<1>6. CASE job.terminal = "no_winner" /\ ~job.closure /\ proc' = To("close")
  <2>1. AllCompleted(job)
    BY <1>6 DEF Fits, JobFits
  <2>2. LET p == To("close") IN
          p \in Proc /\ p.pc = "close" /\ p.todo = proc.todo
    BY <1>2, ToFields DEF Pcs
  <2>3. CommandFits(job, To("close"), World)
    BY <1>2, <1>6, <2>1, <2>2, CloseFits
  <2>4. QED
    BY <1>1, <1>6, <2>3, MovingFits DEF StepFits
<1>7. CASE /\ proc' = To("finDecide")
           /\ job.terminal = "none" /\ EnoughCompleted(job)
  <2>1. AllCompleted(job)
    BY <1>2, <1>7, EnoughIsAll
  <2>2. LET p == To("finDecide") IN
          p \in Proc /\ p.pc = "finDecide" /\ p.todo = proc.todo
    BY <1>2, ToFields DEF Pcs
  <2>3. CommandFits(job, To("finDecide"), World)
    BY <1>2, <1>7, <2>1, <2>2
    DEF CommandFits, ControlFits, DecidingFits, EffectFits, WorldFits,
        Sweeping, Commenting, OnCandidate, ForFoundry, Deciding, Finishing
  <2>4. QED
    BY <1>1, <1>7, <2>3, MovingFits DEF StepFits
<1> HIDE DEF toProject
<1>8. QED
  BY <1>1, <1>3, <1>4, <1>5, <1>6, <1>7, MovingFits DEF StepFits

\* What a finish knows when it decides.
LEMMA AtDeciding ==
    ASSUME Fits, proc.pc \in Deciding
    PROVE  /\ job.terminal = "none" /\ AllCompleted(job)
           /\ job.projection = None /\ ~job.closure
           /\ proc.pc # "finDecide" =>
                /\ job.decision.prov = proc.cand /\ proc.cand \in Handed(job)
                /\ Quantitative(job)
<1>1. /\ job.terminal = "none" /\ AllCompleted(job)
      /\ proc.pc # "finDecide" =>
           /\ job.decision.prov = proc.cand /\ proc.cand \in Handed(job)
           /\ Quantitative(job)
  BY DEF Fits, CommandFits, ControlFits, DecidingFits, Deciding, Finishing,
         ForFoundry
<1>2. job.projection = None /\ ~job.closure
  BY <1>1, OpenKept DEF Fits
<1>3. QED
  BY <1>1, <1>2

\* The next step of a finish that decides about Foundry results.
LEMMA DecidingGoesOn ==
    ASSUME NEW n, NEW p \in Proc, NEW w, WorldRests(n, w),
           p.todo \subseteq Handed(n),
           p.pc \in {"validating", "validated", "finalDecide"},
           n.terminal = "none", AllCompleted(n), Quantitative(n),
           n.decision.prov = p.cand, p.cand \in Handed(n)
    PROVE  CommandFits(n, p, w)
BY DEF CommandFits, ControlFits, DecidingFits, EffectFits, WorldFits, Sweeping,
       Commenting, OnCandidate, ForFoundry, Deciding, Finishing

LEMMA FinDecideFits == Fits /\ FinDecide => StepFits
<1> SUFFICES ASSUME Fits, FinDecide PROVE StepFits
  OBVIOUS
<1> DEFINE n == WithDevelopmentDecision(job)
<1>1. /\ IF Accepted(n) THEN job' = n /\ proc' = AfterFinDecide(n)
                        ELSE job' = job /\ proc' = Ended
      /\ World' = World /\ proc.pc = "finDecide" /\ proc.pc \in Deciding
  BY DEF FinDecide, Save, github, World, Pc, Deciding
<1>2. /\ proc \in Proc /\ proc.todo \subseteq Handed(job)
      /\ WorldRests(job, World)
      /\ job.terminal = "none" /\ AllCompleted(job)
      /\ job.projection = None /\ ~job.closure
  BY <1>1, CommandsFit, AtDeciding
<1>3. Accepted(n) =>
        /\ Follows(job, n) /\ Handed(n) = Handed(job) /\ AllCompleted(n)
        /\ n.terminal = "none" /\ n.projection = None /\ ~n.closure
        /\ IF Quantitative(n)
           THEN n.decision.prov \in Handed(n) \cup {None}
           ELSE n.decision.selected \in Handed(n) \cup {None} /\ SelectionFits(n)
  BY <1>2, DecisionSaved DEF Fits, Follows, Quantitative
<1> HIDE DEF n
<1>4. ASSUME Accepted(n) PROVE CommandFits(n, AfterFinDecide(n), World)
  <2> DEFINE prov == n.decision.prov
             selected == n.decision.selected
             goOn(pc) == [proc EXCEPT !.cand = prov, !.pc = pc]
             toProject == [To("project") EXCEPT !.cand = selected]
  <2>1. WorldRests(n, World)
    BY <1>2, <1>3, <1>4 DEF WorldRests, Follows, Quantitative
  <2>2. \/ /\ Quantitative(n) /\ prov # None
           /\ \/ AfterFinDecide(n) = goOn("validating")
              \/ AfterFinDecide(n) = goOn("finalDecide")
        \/ Quantitative(n) /\ AfterFinDecide(n) = FinalComment(n, "bind")
        \/ AfterFinDecide(n) \in {To("bindVerify"), To("bind"), To("close")}
        \/ /\ ~Quantitative(n) /\ selected # None
           /\ AfterFinDecide(n) = toProject
    BY DEF AfterFinDecide, Quantitative
  <2>3. ASSUME Quantitative(n), prov # None,
               NEW pc \in {"validating", "finalDecide"}
        PROVE  CommandFits(n, goOn(pc), World)
    <3>1. prov \in Handed(n) /\ prov \in Candidates
      BY <1>3, <1>4, <2>3 DEF Handed
    <3>2. /\ goOn(pc) \in Proc /\ goOn(pc).pc = pc /\ goOn(pc).cand = prov
          /\ goOn(pc).todo = proc.todo
      BY <1>2, <3>1 DEF Proc, Pcs
    <3> HIDE DEF goOn
    <3>3. QED
      BY <1>2, <1>3, <1>4, <2>1, <2>3, <3>1, <3>2, DecidingGoesOn
  <2>4. Quantitative(n) => CommandFits(n, FinalComment(n, "bind"), World)
    BY <1>2, <1>3, <1>4, <2>1, FinalCommentFits
  <2>5. /\ CommandFits(n, To("bindVerify"), World)
        /\ CommandFits(n, To("bind"), World)
    BY <1>2, <1>3, <1>4, <2>1, ToFields, RestingFits
    DEF Pcs, OnCandidate, ForFoundry
  <2>6. CommandFits(n, To("close"), World)
    BY <1>2, <1>3, <1>4, <2>1, ToFields, CloseFits DEF Pcs
  <2>7. ~Quantitative(n) /\ selected # None => CommandFits(n, toProject, World)
    <3> SUFFICES ASSUME ~Quantitative(n), selected # None
                 PROVE  CommandFits(n, toProject, World)
      OBVIOUS
    <3>1. selected \in Handed(n) /\ selected \in Candidates
      BY <1>3, <1>4 DEF Handed
    <3>2. /\ toProject \in Proc /\ toProject.pc = "project"
          /\ toProject.cand = selected /\ toProject.todo = proc.todo
      BY <1>2, <3>1 DEF To, Proc, Pcs
    <3> HIDE DEF toProject
    <3>3. QED
      BY <1>2, <1>3, <1>4, <2>1, <3>1, <3>2, ProjectFits
  <2> HIDE DEF goOn, toProject
  <2>8. QED
    BY <2>2, <2>3, <2>4, <2>5, <2>6, <2>7
<1>5. QED
  BY <1>1, <1>3, <1>4, SavingFits DEF StepFits

LEMMA ValidateFits == Fits /\ Validate => StepFits
<1> SUFFICES ASSUME Fits, Validate PROVE StepFits
  OBVIOUS
<1>1. /\ job' = job /\ World' = World /\ proc' = To("validated")
      /\ proc.pc = "validating" /\ proc.pc \in Deciding
  BY DEF Validate, Invoke, github, World, Pc, Deciding
<1>2. LET p == To("validated") IN p \in Proc /\ p.pc = "validated"
        /\ p.cand = proc.cand /\ p.todo = proc.todo
  BY CommandsFit, ToFields DEF Pcs
<1>3. CommandFits(job, To("validated"), World)
  BY <1>1, <1>2, CommandsFit, AtDeciding, DecidingGoesOn
<1>4. QED
  BY <1>1, <1>3, MovingFits DEF StepFits

\* The validating run is over: its result is stored.
LEMMA ValidatingResultFits ==
    ASSUME Fits, World' = World, proc.pc = "validated",
           NEW k \in Candidate, NEW val \in Summaries \cup {None},
           NEW draft \in R!Versions \cup {None},
           k = [job.cand[proc.cand] EXCEPT !.val = val, !.draft = draft],
           NEW n, n = [job EXCEPT !.cand[proc.cand] = k],
           IF Accepted(n) THEN job' = n /\ proc' = To("finalDecide")
                          ELSE job' = job /\ proc' = Ended
    PROVE  StepFits
<1>1. proc.pc \in OnCandidate /\ proc.pc \in Deciding
  BY DEF OnCandidate, Deciding
<1>2. /\ job \in JobState /\ proc \in Proc /\ proc.todo \subseteq Handed(job)
      /\ proc.cand \in Candidates /\ proc.cand \in Handed(job)
      /\ job.cand[proc.cand] \in Candidate
      /\ CandidateFits(job.mode, job.cand[proc.cand])
      /\ job.terminal = "none" /\ AllCompleted(job)
      /\ job.decision.prov = proc.cand /\ Quantitative(job)
  BY <1>1, CommandsFit, AtCandidate, AtDeciding
<1>3. /\ k.handed = job.cand[proc.cand].handed
      /\ k.finalized = job.cand[proc.cand].finalized
      /\ k.checks = job.cand[proc.cand].checks
      /\ k.assessment = job.cand[proc.cand].assessment
      /\ k.dev = job.cand[proc.cand].dev
  BY <1>2 DEF Candidate
<1>4. CandidateFits(job.mode, k)
  BY <1>2, <1>3 DEF CandidateFits, Quantitative
<1>5. AllCompleted(n)
  <2>1. n.cand[proc.cand] = k
        /\ \A d \in Candidates \ {proc.cand} : n.cand[d] = job.cand[d]
    BY <1>2, OneChanged
  <2>2. \A d \in Candidates :
           /\ n.cand[d].handed = job.cand[d].handed
           /\ n.cand[d].dev = job.cand[d].dev
           /\ n.cand[d].checks = job.cand[d].checks
           /\ n.cand[d].assessment = job.cand[d].assessment
    BY <1>3, <2>1
  <2>3. Handed(n) = Handed(job)
    BY <2>2 DEF Handed
  <2>4. Completed(n) = Completed(job)
    BY <2>2, <2>3 DEF Completed, Handed
  <2>5. QED
    BY <1>2, <2>3, <2>4 DEF AllCompleted
<1>6. LET p == To("finalDecide") IN p \in Proc /\ p.pc = "finalDecide"
        /\ p.cand = proc.cand /\ p.todo = proc.todo
  BY <1>2, ToFields DEF Pcs
<1>7. WorldRests(n, World) /\ Handed(n) = Handed(job) /\ SameEnd(job, n)
        => CommandFits(n, To("finalDecide"), World)
  BY <1>2, <1>5, <1>6, DecidingGoesOn DEF SameEnd, Quantitative
<1>8. QED
  BY <1>1, <1>2, <1>3, <1>4, <1>7, ResultFits

\* The state when the validating run failed.
LEMMA FailureLeaves ==
    ASSUME Fits, proc.pc = "validated",
           NEW draft \in R!Versions \cup {None},
           NEW n, n = WithValidatingFailure(job, draft), Accepted(n)
    PROVE  /\ Follows(job, n) /\ Handed(n) = Handed(job) /\ Quantitative(n)
           /\ WorldRests(n, World)
<1>1. /\ Quantitative(job) /\ job.terminal = "none" /\ AllCompleted(job)
      /\ job.decision.prov \in Candidates
      /\ job \in JobState /\ WorldRests(job, World)
  BY CommandsFit, AtDeciding DEF Deciding, Handed
<1>2. Follows(job, n) /\ Handed(n) = Handed(job)
  BY <1>1, FailureSaved DEF Fits
<1>3. n.projection = job.projection
  BY <1>1 DEF WithValidatingFailure, JobState
<1>4. Quantitative(n) /\ WorldRests(n, World)
  BY <1>1, <1>2, <1>3 DEF WorldRests, Follows, Quantitative
<1>5. QED
  BY <1>2, <1>4

LEMMA ValidatedByCliFits == Inv /\ ValidatedByCli => StepFits
<1> SUFFICES ASSUME Inv, ValidatedByCli PROVE StepFits
  OBVIOUS
<1> DEFINE c == proc.cand
<1>1. Fits /\ proc.pc = "validated" /\ proc.pc \in OnCandidate
  BY DEF Inv, ValidatedByCli, Pc, OnCandidate
<1>2. /\ job \in JobState /\ proc \in Proc /\ proc.todo \subseteq Handed(job)
      /\ WorldRests(job, World) /\ c \in Candidates
      /\ job.cand[c] \in Candidate
  BY <1>1, CommandsFit, AtCandidate
<1>3. CASE DropResult(Ended)
  <2>1. job' = job /\ World' = World /\ proc' = Ended
    BY <1>3 DEF DropResult, github, World
  <2>2. QED
    BY <1>1, <1>2, <2>1, EndedFits, MovingFits DEF StepFits
<1>4. CASE Returned("ok")
           /\ SaveResult([job EXCEPT !.cand[proc.cand].val = side[proc.cand].val],
                         To("finalDecide"))
  <2> DEFINE val == side[c].val
             draft == job.cand[c].draft
             k == [job.cand[c] EXCEPT !.val = val, !.draft = draft]
             n == [job EXCEPT !.cand[proc.cand] = k]
  <2>1. val \in Summaries \cup {None} /\ draft \in R!Versions \cup {None}
    BY <1>1, <1>2, <1>4, ResultTypes DEF Returned, R!At, Candidate
  <2>2. k \in Candidate
    BY <1>2, <2>1 DEF Candidate
  <2>3. n = [job EXCEPT !.cand[c].val = val]
    BY <1>2 DEF JobState, Candidate
  <2>4. /\ IF Accepted(n) THEN job' = n /\ proc' = To("finalDecide")
                          ELSE job' = job /\ proc' = Ended
        /\ World' = World
    BY <1>4, <2>3 DEF SaveResult, github, World
  <2>5. k = [job.cand[proc.cand] EXCEPT !.val = val, !.draft = draft]
        /\ n = [job EXCEPT !.cand[proc.cand] = k]
    OBVIOUS
  <2> HIDE DEF n, k, val, draft
  <2>6. QED
    BY <1>1, <2>1, <2>2, <2>4, <2>5, ValidatingResultFits
<1>5. CASE LET j == WithValidatingFailure(job, None)
           IN SaveResult(j, FinalComment(j, "idle"))
  <2> DEFINE n == WithValidatingFailure(job, None)
             p == FinalComment(n, "idle")
  <2>1. /\ IF Accepted(n) THEN job' = n /\ proc' = p
                          ELSE job' = job /\ proc' = Ended
        /\ World' = World
    BY <1>5 DEF SaveResult, github, World
  <2>2. Accepted(n) =>
          /\ Follows(job, n) /\ Handed(n) = Handed(job) /\ Quantitative(n)
          /\ WorldRests(n, World)
    BY <1>1, FailureLeaves
  <2> HIDE DEF n
  <2>3. Accepted(n) => CommandFits(n, p, World)
    BY <1>2, <2>2, FinalCommentFits
  <2> HIDE DEF p
  <2>4. QED
    BY <1>1, <2>1, <2>2, <2>3, SavingFits DEF StepFits
<1>6. QED
  BY <1>3, <1>4, <1>5 DEF ValidatedByCli

LEMMA ValidatedByControllerFits == Inv /\ ValidatedByController => StepFits
<1> SUFFICES ASSUME Inv, ValidatedByController PROVE StepFits
  OBVIOUS
<1> DEFINE c == proc.cand
<1>1. Fits /\ proc.pc = "validated" /\ proc.pc \in OnCandidate
      /\ proc.pc \in Deciding
  BY DEF Inv, ValidatedByController, Pc, OnCandidate, Deciding
<1>2. /\ job \in JobState /\ proc \in Proc /\ proc.todo \subseteq Handed(job)
      /\ WorldRests(job, World) /\ c \in Candidates /\ c \in Handed(job)
      /\ job.cand[c] \in Candidate
      /\ job.terminal = "none" /\ Quantitative(job)
  BY <1>1, CommandsFit, AtCandidate, AtDeciding
<1>3. CASE DropResult(Ended)
  <2>1. job' = job /\ World' = World /\ proc' = Ended
    BY <1>3 DEF DropResult, github, World
  <2>2. QED
    BY <1>1, <1>2, <2>1, EndedFits, MovingFits DEF StepFits
<1>4. CASE Returned("ok")
           /\ SaveResult([job EXCEPT !.cand[c].val = side[c].val,
                                     !.cand[c].draft = call.draft],
                         To("finalDecide"))
  <2> DEFINE val == side[c].val
             draft == call.draft
             k == [job.cand[c] EXCEPT !.val = val, !.draft = draft]
             n == [job EXCEPT !.cand[proc.cand] = k]
  <2>1. val \in Summaries \cup {None} /\ draft \in R!Versions \cup {None}
    BY <1>1, <1>4, ResultTypes DEF Returned, R!At
  <2>2. k \in Candidate
    BY <1>2, <2>1 DEF Candidate
  <2>3. n = [job EXCEPT !.cand[c].val = val, !.cand[c].draft = draft]
    BY <1>2 DEF JobState, Candidate
  <2>4. /\ IF Accepted(n) THEN job' = n /\ proc' = To("finalDecide")
                          ELSE job' = job /\ proc' = Ended
        /\ World' = World
    BY <1>4, <2>3 DEF SaveResult, github, World
  <2>5. k = [job.cand[proc.cand] EXCEPT !.val = val, !.draft = draft]
        /\ n = [job EXCEPT !.cand[proc.cand] = k]
    OBVIOUS
  <2> HIDE DEF n, k, val, draft
  <2>6. QED
    BY <1>1, <2>1, <2>2, <2>4, <2>5, ValidatingResultFits
<1>5. CASE SaveResult(WithRetry(job, c, "validating"),
                      [To("retryDecide") EXCEPT !.todo = Handed(job),
                                                !.next = "idle"])
  <2> DEFINE n == WithRetry(job, c, "validating")
             p == [To("retryDecide") EXCEPT !.todo = Handed(job),
                                            !.next = "idle"]
  <2>1. /\ IF Accepted(n) THEN job' = n /\ proc' = p
                          ELSE job' = job /\ proc' = Ended
        /\ World' = World
    BY <1>5 DEF SaveResult, github, World
  <2>2. /\ p \in Proc /\ p.pc = "retryDecide" /\ p.todo = Handed(job)
        /\ p.next = "idle"
    BY <1>2 DEF To, Proc, Pcs, Handed
  <2>3. Accepted(n) => Follows(job, n) /\ Handed(n) = Handed(job)
    BY <1>1, <1>2, RetrySaved DEF Fits
  <2>4. n.projection = None
    BY <1>2 DEF WithRetry, JobState
  <2> HIDE DEF n, p
  <2>5. Accepted(n) => WorldRests(n, World) /\ Quantitative(n)
    BY <1>2, <2>3, <2>4 DEF WorldRests, Quantitative, Follows
  <2>6. Accepted(n) => CommandFits(n, p, World)
    BY <1>2, <2>2, <2>3, <2>5, SweepFits DEF Sweeping, Resting
  <2>7. QED
    BY <1>1, <2>1, <2>3, <2>6, SavingFits DEF StepFits
<1>6. CASE SaveResult(WithValidatingFailure(job, call.draft),
                      Sweep({c}, "afterFailure"))
  <2> DEFINE n == WithValidatingFailure(job, call.draft)
             p == Sweep({c}, "afterFailure")
  <2>1. /\ IF Accepted(n) THEN job' = n /\ proc' = p
                          ELSE job' = job /\ proc' = Ended
        /\ World' = World
    BY <1>6 DEF SaveResult, github, World
  <2>2. Accepted(n) =>
          /\ Follows(job, n) /\ Handed(n) = Handed(job) /\ Quantitative(n)
          /\ WorldRests(n, World)
    BY <1>1, ResultTypes, FailureLeaves
  <2>3. p \in Proc /\ p.pc = "sweep" /\ p.todo = {c} /\ p.next = "afterFailure"
    BY <1>2, SweepFields DEF Pcs
  <2> HIDE DEF n, p
  <2>4. Accepted(n) => CommandFits(n, p, World)
    BY <1>2, <2>2, <2>3, SweepFits DEF Sweeping, Resting
  <2>5. QED
    BY <1>1, <2>1, <2>2, <2>4, SavingFits DEF StepFits
<1>7. QED
  BY <1>3, <1>4, <1>5, <1>6 DEF ValidatedByController

LEMMA AfterFailureFits == Fits /\ AfterFailure => StepFits
<1> SUFFICES ASSUME Fits, AfterFailure PROVE StepFits
  OBVIOUS
<1>1. /\ job' = job /\ World' = World /\ proc.pc = "afterFailure"
      /\ proc' \in {LastSweep(job), FinalComment(job, "idle")}
  BY DEF AfterFailure, Continue, github, World, Pc
<1>2. /\ proc \in Proc /\ WorldRests(job, World) /\ Quantitative(job)
      /\ proc.todo \subseteq Handed(job)
  BY <1>1, CommandsFit DEF Fits, CommandFits, ControlFits, ForFoundry
<1>3. /\ CommandFits(job, LastSweep(job), World)
      /\ CommandFits(job, FinalComment(job, "idle"), World)
  BY <1>2, LastSweepFits, FinalCommentFits
<1>4. QED
  BY <1>1, <1>3, MovingFits DEF StepFits

LEMMA FinalDecideFits == Fits /\ FinalDecide => StepFits
<1> SUFFICES ASSUME Fits, FinalDecide PROVE StepFits
  OBVIOUS
<1> DEFINE n == WithFinalDecision(job)
           p == IF proc.by = "cli"
                THEN IF n.terminal = "winner" THEN To("bindVerify")
                     ELSE FinalComment(n, "bind")
                ELSE IF n.terminal = "winner" THEN To("project") ELSE To("close")
<1>1. proc.pc = "finalDecide" /\ proc.pc \in Deciding
  BY DEF FinalDecide, Pc, Deciding
<1>2. /\ proc \in Proc /\ proc.todo \subseteq Handed(job) /\ job \in JobState
      /\ WorldRests(job, World)
      /\ job.terminal = "none" /\ AllCompleted(job)
      /\ job.projection = None /\ ~job.closure
      /\ job.decision.prov = proc.cand /\ proc.cand \in Handed(job)
      /\ proc.cand \in Candidates /\ Quantitative(job)
  BY <1>1, CommandsFit, AtDeciding DEF Handed
<1>3. CASE Best(job, Eligible(job)) # job.decision.prov
  <2>1. Continue(Ended)
    BY <1>3 DEF FinalDecide
  <2>2. job' = job /\ World' = World /\ proc' = Ended
    BY <2>1 DEF Continue, github, World
  <2>3. QED
    BY <1>2, <2>2, EndedFits, MovingFits DEF StepFits
<1>4. CASE Best(job, Eligible(job)) = job.decision.prov
  <2>1. /\ IF Accepted(n) THEN job' = n /\ proc' = p
                          ELSE job' = job /\ proc' = Ended
        /\ World' = World
    BY <1>4 DEF FinalDecide, Save, github, World
  <2>2. Accepted(n) =>
          /\ Follows(job, n) /\ Handed(n) = Handed(job)
          /\ AllCompleted(n) /\ n.projection = None /\ ~n.closure
          /\ n.terminal \in {"winner", "no_winner"}
          /\ n.terminal = "winner" => n.decision.selected = proc.cand
    BY <1>2, <1>4, FinalSaved DEF Fits
  <2> HIDE DEF n
  <2>3. ASSUME Accepted(n) PROVE CommandFits(n, p, World)
    <3>1. Quantitative(n) /\ WorldRests(n, World) /\ proc.todo \subseteq Handed(n)
      BY <1>2, <2>2, <2>3 DEF WorldRests, Follows, Quantitative
    <3>2. CommandFits(n, To("bindVerify"), World)
      BY <1>2, <3>1, ToFields, RestingFits DEF Pcs, OnCandidate, ForFoundry
    <3>3. CommandFits(n, FinalComment(n, "bind"), World)
      BY <1>2, <3>1, FinalCommentFits
    <3>4. n.terminal = "winner" => CommandFits(n, To("project"), World)
      <4>1. LET q == To("project") IN q \in Proc /\ q.pc = "project"
              /\ q.cand = proc.cand /\ q.todo = proc.todo
        BY <1>2, ToFields DEF Pcs
      <4>2. SelectionFits(n)
        BY <3>1 DEF SelectionFits
      <4>3. QED
        BY <1>2, <2>2, <2>3, <3>1, <4>1, <4>2, ProjectFits DEF Positive
    <3>5. n.terminal = "no_winner" => CommandFits(n, To("close"), World)
      <4>1. LET q == To("close") IN q \in Proc /\ q.pc = "close"
              /\ q.todo = proc.todo
        BY <1>2, ToFields DEF Pcs
      <4>2. QED
        BY <2>2, <2>3, <3>1, <4>1, CloseFits
    <3>6. QED
      BY <2>2, <2>3, <3>2, <3>3, <3>4, <3>5
  <2> HIDE DEF p
  <2>4. QED
    BY <2>1, <2>2, <2>3, SavingFits DEF StepFits
<1>5. QED
  BY <1>3, <1>4

\* What holds at the effects of a finish.
LEMMA AtProject ==
    ASSUME Fits, proc.pc \in {"project", "storeProjection"}
    PROVE  /\ job.projection = None /\ ~job.closure
           /\ job.decision.selected = proc.cand /\ proc.cand # None
           /\ SelectionFits(job) /\ AllCompleted(job)
           /\ ProjectedOutcome \in Positive
           /\ IF Quantitative(job) THEN job.terminal = "winner"
                                   ELSE ProjectedOutcome = Label(job)
<1>1. /\ job.projection = None /\ job.decision.selected = proc.cand
      /\ SelectionFits(job) /\ AllCompleted(job)
      /\ job.terminal = "none" => ~Quantitative(job)
      /\ job.terminal \in Positive \cup {"none"}
  BY DEF Fits, CommandFits, EffectFits, DecidingFits, Finishing
<1>2. proc.cand \in Candidates /\ proc.cand # None
  BY AtCandidate, Numbers DEF OnCandidate
<1>3. ModeFits(job) /\ ~job.closure
  BY <1>1 DEF Fits, JobFits, Positive
<1>4. CASE Quantitative(job)
  BY <1>1, <1>2, <1>3, <1>4 DEF ModeFits, Positive, ProjectedOutcome
<1>5. CASE ~Quantitative(job)
  BY <1>1, <1>2, <1>3, <1>5 DEF ModeFits, Positive, ProjectedOutcome, Label
<1>6. QED
  BY <1>4, <1>5

LEMMA AtClose ==
    ASSUME Fits, proc.pc \in {"close", "storeClosure"}
    PROVE  /\ job.projection = None /\ ~job.closure /\ AllCompleted(job)
           /\ job.terminal \in {"none", "no_winner"}
           /\ proc.pc = "storeClosure" => Quantitative(job)
           /\ sideFinal => Quantitative(job)
<1>1. /\ ~job.closure /\ AllCompleted(job)
      /\ job.terminal \in {"none", "no_winner"}
      /\ proc.pc = "storeClosure" => Quantitative(job)
  BY DEF Fits, CommandFits, ControlFits, EffectFits, DecidingFits, Finishing,
         ForFoundry
<1>2. job.projection = None
  BY <1>1 DEF Fits, JobFits, Positive
<1>3. sideFinal => Quantitative(job)
  BY <1>2, CommandsFit DEF WorldRests, World
<1>4. QED
  BY <1>1, <1>2, <1>3

LEMMA AtComment ==
    ASSUME Fits, proc.pc \in Commenting
    PROVE  /\ proc.next \in {"bind", "idle"}
           /\ Quantitative(job) \/ job.projection # None
BY DEF Fits, CommandFits, ControlFits, WorldFits

LEMMA PostFinalFits == Fits /\ PostFinal => StepFits
<1> SUFFICES ASSUME Fits, PostFinal PROVE StepFits
  OBVIOUS
<1>1. /\ job' = job /\ World' = World /\ proc' = To("sidecarFinal")
      /\ proc.pc \in Commenting
  BY DEF PostFinal, World, Pc, Commenting
<1>2. LET p == To("sidecarFinal") IN p \in Proc /\ p.pc = "sidecarFinal"
        /\ p.todo = proc.todo /\ p.next = proc.next
  BY CommandsFit, ToFields DEF Pcs
<1>3. CommandFits(job, To("sidecarFinal"), World)
  BY <1>1, <1>2, CommandsFit, AtComment
  DEF CommandFits, ControlFits, DecidingFits, EffectFits, WorldFits, Sweeping,
      Commenting, OnCandidate, ForFoundry, Deciding, Finishing
<1>4. QED
  BY <1>1, <1>3, MovingFits DEF StepFits

LEMMA SidecarFinalFits == Fits /\ SidecarFinal => StepFits
<1> SUFFICES ASSUME Fits, SidecarFinal PROVE StepFits
  OBVIOUS
<1>1. /\ job' = job /\ proc' = To("storeFinal") /\ proc.pc \in Commenting
      /\ World'.applied = World.applied /\ World'.pr = World.pr
  BY DEF SidecarFinal, World, Pc, Commenting
<1>2. LET p == To("storeFinal") IN p \in Proc /\ p.pc = "storeFinal"
        /\ p.todo = proc.todo /\ p.next = proc.next
  BY CommandsFit, ToFields DEF Pcs
<1>3. WorldRests(job, World')
  BY <1>1, CommandsFit, AtComment DEF WorldRests
<1>4. CommandFits(job, To("storeFinal"), World')
  BY <1>1, <1>2, <1>3, CommandsFit, AtComment
  DEF CommandFits, ControlFits, DecidingFits, EffectFits, WorldFits, Sweeping,
      Commenting, OnCandidate, ForFoundry, Deciding, Finishing
<1>5. QED
  BY <1>1, <1>4 DEF StepFits, Fits, Kept

LEMMA StoreFinalFits == Fits /\ StoreFinal => StepFits
<1> SUFFICES ASSUME Fits, StoreFinal PROVE StepFits
  OBVIOUS
<1> DEFINE n == [job EXCEPT !.finalReceipt = TRUE]
           p == FinalComment(n, proc.next)
<1>1. /\ IF Accepted(n) THEN job' = n /\ proc' = p
                        ELSE job' = job /\ proc' = Ended
      /\ World' = World /\ proc.pc \in Commenting
  BY DEF StoreFinal, Save, github, World, Pc, Commenting
<1>2. Accepted(n) =>
        Follows(job, n) /\ SameEvidence(job, n) /\ SameEnd(job, n)
  BY CommentSaved DEF Fits
<1> HIDE DEF n
<1>3. ASSUME Accepted(n) PROVE CommandFits(n, p, World)
  <2>1. /\ WorldRests(n, World) /\ Handed(n) = Handed(job)
        /\ Quantitative(n) \/ n.projection # None
    BY <1>1, <1>2, <1>3, CommandsFit, AtComment
    DEF SameEvidence, SameEnd, Handed, WorldRests, Quantitative
  <2>2. QED
    BY <1>1, <2>1, CommandsFit, AtComment, FinalCommentFits
<1> HIDE DEF p
<1>4. QED
  BY <1>1, <1>2, <1>3, SavingFits DEF StepFits

LEMMA BindFits == Fits /\ Bind => StepFits
<1> SUFFICES ASSUME Fits, Bind PROVE StepFits
  OBVIOUS
<1>1. job' = job /\ World' = World /\ proc' \in {ControllerFinish(job), Ended}
  BY DEF Bind, World
<1>2. /\ CommandFits(job, ControllerFinish(job), World)
      /\ CommandFits(job, Ended, World)
  BY CommandsFit, ControllerFinishFits, EndedFits
<1>3. QED
  BY <1>1, <1>2, MovingFits DEF StepFits

LEMMA ProjectStepFits == Fits /\ Project => StepFits
<1> SUFFICES ASSUME Fits, Project PROVE StepFits
  OBVIOUS
<1>1. proc.pc = "project" /\ job.projection = None
  BY AtProject DEF Project, Pc
<1>2. CASE applied # None
  <2>1. Continue(Ended)
    BY <1>1, <1>2 DEF Project
  <2>2. job' = job /\ World' = World /\ proc' = Ended
    BY <2>1 DEF Continue, github, World
  <2>3. QED
    BY <2>2, CommandsFit, EndedFits, MovingFits DEF StepFits
<1>3. CASE applied = None
  <2>1. /\ applied' = proc.cand /\ proc' = To("storeProjection")
        /\ UNCHANGED <<job, github>>
    BY <1>1, <1>3 DEF Project
  <2>2. /\ job' = job /\ World'.applied = proc.cand /\ World'.pr = World.pr
        /\ World'.sideFinal = World.sideFinal
    BY <2>1 DEF World, github
  <2>3. LET p == To("storeProjection") IN
          /\ p \in Proc /\ p.pc = "storeProjection" /\ p.todo = proc.todo
          /\ p.cand = proc.cand
    BY CommandsFit, ToFields DEF Pcs
  <2>4. WorldRests(job, World')
    BY <1>1, <2>2, CommandsFit DEF WorldRests
  <2>5. /\ job.decision.selected = proc.cand /\ SelectionFits(job)
        /\ AllCompleted(job) /\ proc.cand \in Handed(job)
        /\ job.terminal = "none" => ~Quantitative(job)
        /\ job.terminal \in Positive \cup {"none"}
    BY <1>1, AtProject, AtCandidate
    DEF OnCandidate, Fits, CommandFits, EffectFits
  <2>6. CommandFits(job, To("storeProjection"), World')
    BY <1>1, <2>2, <2>3, <2>4, <2>5, CommandsFit
    DEF CommandFits, ControlFits, DecidingFits, EffectFits, WorldFits, Sweeping,
        Commenting, OnCandidate, ForFoundry, Deciding, Finishing
  <2>7. QED
    BY <2>1, <2>2, <2>6 DEF StepFits, Fits, Kept
<1>4. QED
  BY <1>2, <1>3

LEMMA StoreProjectionFits == Fits /\ StoreProjection => StepFits
<1> SUFFICES ASSUME Fits, StoreProjection PROVE StepFits
  OBVIOUS
<1> DEFINE n == [job EXCEPT !.projection = proc.cand, !.terminal = ProjectedOutcome]
           p == FinalComment(n, "idle")
<1>1. /\ IF Accepted(n) THEN job' = n /\ proc' = p
                        ELSE job' = job /\ proc' = Ended
      /\ World' = World /\ proc.pc = "storeProjection"
  BY DEF StoreProjection, Save, github, World, Pc
<1>2. /\ job \in JobState /\ proc \in Proc /\ proc.todo \subseteq Handed(job)
      /\ WorldRests(job, World) /\ proc.cand \in Candidates
      /\ World.applied = proc.cand
  BY <1>1, CommandsFit, AtCandidate
  DEF OnCandidate, Fits, CommandFits, WorldFits
<1>3. ProjectedOutcome \in Positive /\ job.projection = None /\ ~job.closure
  BY <1>1, AtProject
<1>4. /\ n \in JobState /\ n.cand = job.cand /\ n.mode = job.mode
      /\ n.decision = job.decision /\ n.closure = job.closure
      /\ n.terminal = ProjectedOutcome /\ n.projection = proc.cand
  <2> HIDE DEF ProjectedOutcome
  <2>1. QED
    BY <1>2, <1>3 DEF JobState, Outcomes
<1> HIDE DEF n
<1>5. Accepted(n) => Follows(job, n) /\ Handed(n) = Handed(job)
  <2>1. /\ job.projection = None /\ ~job.closure /\ AllCompleted(job)
        /\ ProjectedOutcome \in Positive
        /\ IF Quantitative(job)
           THEN ProjectedOutcome = "winner" /\ job.terminal = "winner"
           ELSE ProjectedOutcome = Label(job) /\ SelectionFits(job)
    BY <1>1, AtProject DEF ProjectedOutcome
  <2>2. QED
    BY <1>2, <1>3, <1>4, <2>1, EndSaved DEF Fits, Positive
<1>6. ASSUME Accepted(n) PROVE CommandFits(n, p, World)
  <2>1. WorldRests(n, World) /\ n.projection # None
    BY <1>2, <1>4, <1>5, <1>6, Numbers DEF WorldRests, Follows, Quantitative
  <2>2. QED
    BY <1>2, <1>5, <1>6, <2>1, FinalCommentFits
<1> HIDE DEF p
<1>7. QED
  BY <1>1, <1>5, <1>6, SavingFits DEF StepFits

LEMMA CloseStepFits == Fits /\ Close => StepFits
<1> SUFFICES ASSUME Fits, Close PROVE StepFits
  OBVIOUS
<1>1. /\ proc.pc = "close" /\ job.projection = None /\ ~job.closure
      /\ AllCompleted(job) /\ job.terminal \in {"none", "no_winner"}
      /\ sideFinal => Quantitative(job)
  BY AtClose DEF Close, Pc
<1>2. CASE ~sideFinal \/ ~bound
  <2>1. Continue(Ended)
    BY <1>1, <1>2 DEF Close
  <2>2. job' = job /\ World' = World /\ proc' = Ended
    BY <2>1 DEF Continue, github, World
  <2>3. QED
    BY <2>2, CommandsFit, EndedFits, MovingFits DEF StepFits
<1>3. CASE sideFinal /\ bound
  <2>1. /\ proc' = To("storeClosure") /\ job' = job
        /\ World'.applied = World.applied
    BY <1>1, <1>3 DEF Close, World
  <2>2. LET p == To("storeClosure") IN
          p \in Proc /\ p.pc = "storeClosure" /\ p.todo = proc.todo
    BY CommandsFit, ToFields DEF Pcs
  <2>3. Quantitative(job) /\ WorldRests(job, World')
    BY <1>1, <1>3, <2>1, CommandsFit DEF WorldRests
  <2>4. CommandFits(job, To("storeClosure"), World')
    BY <1>1, <2>2, <2>3, CommandsFit
    DEF CommandFits, ControlFits, DecidingFits, EffectFits, WorldFits, Sweeping,
        Commenting, OnCandidate, ForFoundry, Deciding, Finishing
  <2>5. QED
    BY <2>1, <2>4 DEF StepFits, Fits, Kept
<1>4. QED
  BY <1>2, <1>3

LEMMA StoreClosureFits == Fits /\ StoreClosure => StepFits
<1> SUFFICES ASSUME Fits, StoreClosure PROVE StepFits
  OBVIOUS
<1> DEFINE n == [job EXCEPT !.closure = TRUE, !.terminal = "no_winner"]
           p == FinalComment(n, "idle")
<1>1. /\ IF Accepted(n) THEN job' = n /\ proc' = p
                        ELSE job' = job /\ proc' = Ended
      /\ World' = World /\ proc.pc = "storeClosure"
  BY DEF StoreClosure, Save, github, World, Pc
<1>2. /\ job \in JobState /\ proc \in Proc /\ proc.todo \subseteq Handed(job)
      /\ WorldRests(job, World)
      /\ job.projection = None /\ ~job.closure /\ AllCompleted(job)
      /\ Quantitative(job)
  BY <1>1, CommandsFit, AtClose
<1>3. /\ n \in JobState /\ n.cand = job.cand /\ n.mode = job.mode
      /\ n.decision = job.decision /\ n.closure
      /\ n.terminal = "no_winner" /\ n.projection = None
  BY <1>2 DEF JobState, Outcomes
<1> HIDE DEF n
<1>4. Accepted(n) => Follows(job, n) /\ Handed(n) = Handed(job)
  BY <1>2, <1>3, EndSaved DEF Fits
<1>5. ASSUME Accepted(n) PROVE CommandFits(n, p, World)
  <2>1. WorldRests(n, World) /\ Quantitative(n)
    BY <1>2, <1>3, <1>4, <1>5 DEF WorldRests, Follows, Quantitative
  <2>2. QED
    BY <1>2, <1>4, <1>5, <2>1, FinalCommentFits
<1> HIDE DEF p
<1>6. QED
  BY <1>1, <1>4, <1>5, SavingFits DEF StepFits

\* A command that is cut, the runtime, and what others do on GitHub.
LEMMA OutsideFits ==
    ASSUME Fits,
           \/ RuntimeWork \/ RuntimeFault \/ Interrupt
           \/ OpenPullRequest \/ BindPr
    PROVE  StepFits
<1>1. CASE RuntimeWork \/ RuntimeFault \/ BindPr
  <2>1. job' = job /\ proc' = proc /\ World' = World
    BY <1>1 DEF RuntimeWork, RuntimeFault, BindPr, github, World
  <2>2. QED
    BY <2>1 DEF StepFits, Fits, Kept
<1>2. CASE Interrupt
  <2>1. job' = job /\ proc' = Ended /\ World' = World
    BY <1>2 DEF Interrupt, github, World
  <2>2. QED
    BY <2>1, CommandsFit, EndedFits, MovingFits DEF StepFits
<1>3. CASE OpenPullRequest
  <2>1. /\ job' = job /\ proc' = proc /\ World'.applied = World.applied
        /\ World'.sideFinal = World.sideFinal /\ World'.pr = "open"
    BY <1>3 DEF OpenPullRequest, World
  <2>2. CommandFits(job, proc, World')
    BY <2>1 DEF Fits, CommandFits, WorldFits, WorldRests
  <2>3. QED
    BY <2>1, <2>2 DEF StepFits, Fits, Kept
<1>4. QED
  BY <1>1, <1>2, <1>3

-----------------------------------------------------------------------------
(* The runtime, as the commands use it.                                    *)

\* The two instances of the runtime are one.
LEMMA SameRuntime ==
    /\ R!Init <=> RP!Init
    /\ [R!Next]_R!vars <=> [RP!Next]_RP!vars
    /\ R!TypeOK <=> RP!TypeOK
    /\ R!Idle = RP!Idle /\ R!Call = RP!Call
<1>1. R!Init <=> RP!Init
  BY DEF R!Init, RP!Init, R!Idle, RP!Idle, R!None, RP!None,
         R!FreshSidecar, RP!FreshSidecar
<1>2. R!TypeOK <=> RP!TypeOK
  BY DEF R!TypeOK, RP!TypeOK, R!Sidecar, RP!Sidecar, R!Versions,
         RP!Versions, R!Retries, RP!Retries, R!Call, RP!Call, R!Ops,
         RP!Ops, R!Steps, RP!Steps, R!Statuses, RP!Statuses, R!None,
         RP!None
<1>3. R!Idle = RP!Idle /\ R!Call = RP!Call
  BY DEF R!Idle, RP!Idle, R!Versions, RP!Versions, R!Call, RP!Call, R!Ops, RP!Ops, R!Steps,
         RP!Steps, R!Statuses, RP!Statuses, R!None, RP!None
<1>4. [R!Next]_R!vars <=> [RP!Next]_RP!vars
  <2>1. (R!vars' = R!vars) <=> (RP!vars' = RP!vars)
    BY DEF R!vars, RP!vars
  <2>2. R!Next <=> RP!Next
    BY DEF R!None, RP!None, R!Idle, RP!Idle, R!FreshSidecar, RP!FreshSidecar,
         R!Cleaned, RP!Cleaned, R!Obliged, RP!Obliged, R!WithCandidate,
         RP!WithCandidate, R!HasVerifiedReference, RP!HasVerifiedReference,
         R!At, RP!At, R!Frame, RP!Frame, R!Finished, RP!Finished, R!Goto,
         RP!Goto, R!Return, RP!Return, R!ReturnNoDraft, RP!ReturnNoDraft,
         R!EnterCandidate, RP!EnterCandidate, R!EnterValidating,
         RP!EnterValidating, R!Owners, RP!Owners, R!EnterCleanup,
         RP!EnterCleanup, R!Begin, RP!Begin, R!Create, RP!Create, R!Verify,
         RP!Verify, R!Run, RP!Run, R!Delete, RP!Delete, R!SaveReference,
         RP!SaveReference, R!SaveVerified, RP!SaveVerified, R!SaveSummary,
         RP!SaveSummary, R!SaveFailCleaned, RP!SaveFailCleaned,
         R!SaveFailRequired, RP!SaveFailRequired, R!SaveRetryCleaned,
         RP!SaveRetryCleaned, R!SaveCleaned, RP!SaveCleaned, R!VerifyFails,
         RP!VerifyFails, R!RunFails, RP!RunFails, R!DraftIsGone,
         RP!DraftIsGone, R!Work, RP!Work, R!CreateFails, RP!CreateFails,
         R!CreateLosesAnswer, RP!CreateLosesAnswer, R!DeleteFails,
         RP!DeleteFails, R!Fault, RP!Fault, R!Abort, RP!Abort, R!Consume,
         RP!Consume, R!CallCandidate, RP!CallCandidate, R!CallValidating,
         RP!CallValidating, R!CallCleanup, RP!CallCleanup, R!Next, RP!Next,
         R!Versions, RP!Versions
  <2>3. QED
    BY <2>1, <2>2
<1>5. QED
  BY <1>1, <1>2, <1>3, <1>4

LEMMA RuntimeParameters ==
    /\ Candidates \subseteq Nat \ {RP!None} /\ Summaries \subseteq Nat \ {RP!None}
    /\ MaxVersion \in Nat
BY IdsAssumption, SummariesAssumption, BoundsAssumption DEF None, R!None, RP!None

LEMMA RuntimeFits ==
    ASSUME RP!IInv
    PROVE  R!TypeOK /\ call \in R!Call /\ DOMAIN side \subseteq Candidates
<1>1. RP!TypeOK
  BY RuntimeParameters, RP!Consequences
<1>2. QED
  BY <1>1, SameRuntime DEF R!TypeOK

LEMMA RuntimeStepKeeps == RP!IInv /\ [R!Next]_R!vars => RP!IInv'
BY SameRuntime, RuntimeParameters, RP!StepKeeps

LEMMA RuntimeInitFits == R!Init => RP!IInv
BY SameRuntime, RuntimeParameters, RP!InitFits

Waiting == {"evaluating", "validated"}

\* A step calls the runtime as it may be called, and minds its frame.
FrameStep == [R!Next]_R!vars /\ FrameFits(proc, call, side)'

LEMMA QuietStep ==
    ASSUME Inv, UNCHANGED <<runtime, call>>,
           proc'.pc \notin Waiting \/ proc' = proc
    PROVE  FrameStep
BY DEF FrameStep, Inv, FrameFits, Waiting, runtime, R!vars

LEMMA ConsumingStep ==
    ASSUME Inv, call.step = "done", call' = R!Idle, UNCHANGED runtime,
           proc'.pc \notin Waiting
    PROVE  FrameStep
<1>1. R!Next
  BY DEF R!Next, R!Consume, R!At, runtime
<1>2. call'.step = "idle"
  BY DEF R!Idle
<1>3. QED
  BY <1>1, <1>2 DEF FrameStep, FrameFits, Waiting

LEMMA InvokingStep ==
    ASSUME Inv, NEW frame, R!Begin(frame),
           R!CallCandidate \/ R!CallValidating \/ R!CallCleanup,
           proc'.pc \in Waiting => frame.cand = proc'.cand,
           frame.step = "done" /\ frame.status = "ok" => frame.cand \in DOMAIN side
    PROVE  FrameStep
<1>1. R!Next
  BY DEF R!Next
<1>2. call' = frame /\ side' = side
  BY DEF R!Begin
<1>3. QED
  BY <1>1, <1>2 DEF FrameStep, FrameFits, Waiting

\* What the runtime does by itself leaves the candidate of the frame alone,
\* and it is only successful with a record of that candidate.
LEMMA WorkingStep ==
    ASSUME Inv, R!Work \/ R!Fault, proc' = proc
    PROVE  FrameStep
<1>1. R!Next
  BY DEF R!Next
<1>2. call \in R!Call
  BY RuntimeFits DEF Inv
<1>3. /\ call'.cand = call.cand
      /\ call'.step = "done" /\ call'.status = "ok" => call.cand \in DOMAIN side'
  <2>1. CASE R!Create \/ R!Verify \/ R!Run
    BY <1>2, <2>1 DEF R!Create, R!Verify, R!Run, R!Goto, R!Call
  <2>2. CASE R!VerifyFails \/ R!RunFails
    BY <1>2, <2>2 DEF R!VerifyFails, R!RunFails, R!Goto, R!Return, R!Call
  <2>3. ASSUME NEW from, NEW to \in {"saveFailCleaned", "saveRetryCleaned",
                                     "saveCleaned"}, R!Delete(from, to)
        PROVE  call'.cand = call.cand /\ call'.step # "done"
    BY <1>2, <2>3 DEF R!Delete, R!Goto, R!Call
  <2>4. CASE R!SaveReference \/ R!SaveVerified
    BY <1>2, <2>4 DEF R!SaveReference, R!SaveVerified, R!Goto, R!Call
  <2>5. CASE R!SaveSummary
    BY <1>2, <2>5 DEF R!SaveSummary, R!Return, R!WithCandidate, R!Call
  <2>6. CASE \/ R!SaveFailCleaned \/ R!SaveFailRequired \/ R!SaveRetryCleaned
             \/ R!SaveCleaned
    BY <1>2, <2>6
    DEF R!SaveFailCleaned, R!SaveFailRequired, R!SaveRetryCleaned,
        R!SaveCleaned, R!Return, R!Call
  <2>7. CASE R!CreateFails \/ R!CreateLosesAnswer
    BY <1>2, <2>7 DEF R!CreateFails, R!CreateLosesAnswer, R!ReturnNoDraft, R!Call
  <2>8. CASE R!DeleteFails
    BY <1>2, <2>8 DEF R!DeleteFails, R!At, R!Goto, R!Return, R!Call
  <2>9. CASE R!Fault
    BY <2>2, <2>7, <2>8, <2>9 DEF R!Fault
  <2>10. CASE R!Work
    BY <2>1, <2>2, <2>3, <2>4, <2>5, <2>6, <2>10 DEF R!Work, R!DraftIsGone
  <2>11. QED
    BY <2>9, <2>10
<1>4. QED
  BY <1>1, <1>3 DEF FrameStep, FrameFits, Inv

\* Where the commands go without the runtime.
LEMMA Elsewhere ==
    ASSUME proc \in Proc
    PROVE  /\ Ended.pc \notin Waiting
           /\ \A pc : To(pc).pc = pc
           /\ \A ids, next : Sweep(ids, next).pc \notin Waiting
           /\ \A j : ControllerFinish(j).pc \notin Waiting
           /\ \A j, next : FinalComment(j, next).pc \notin Waiting
           /\ \A j : AfterDecision(j).pc \notin Waiting
           /\ \A j : AfterFinDecide(j).pc \notin Waiting
           /\ \A j : ResumeTerminal(j).pc \notin Waiting
<1> USE DEF Proc, Waiting
<1>1. /\ Ended.pc \notin Waiting
      /\ \A pc : To(pc).pc = pc
      /\ \A ids, next : Sweep(ids, next).pc \notin Waiting
      /\ \A j : ControllerFinish(j).pc \notin Waiting
  BY DEF Ended, To, Sweep, ControllerFinish
<1>2. \A j, next : FinalComment(j, next).pc \notin Waiting
  BY <1>1 DEF FinalComment, LastSweep
<1>3. \A j : AfterDecision(j).pc \notin Waiting
  BY <1>1 DEF AfterDecision
<1>4. \A j : AfterFinDecide(j).pc \notin Waiting
  BY <1>1, <1>2 DEF AfterFinDecide
<1>5. \A j : ResumeTerminal(j).pc \notin Waiting
  BY <1>1, <1>2 DEF ResumeTerminal, To
<1>6. QED
  BY <1>1, <1>2, <1>3, <1>4, <1>5

\* A save, or a move, that goes to no waiting place.
LEMMA SavingStep ==
    ASSUME Inv, NEW j, NEW p, Save(j, p) \/ Continue(p), p.pc \notin Waiting
    PROVE  FrameStep
<1>1. Ended.pc \notin Waiting
  BY DEF Ended, Waiting
<1>2. QED
  BY <1>1, QuietStep DEF Save, Continue

LEMMA ResultStep ==
    ASSUME Inv, call.step = "done", NEW j, NEW p,
           SaveResult(j, p) \/ DropResult(p), p.pc \notin Waiting
    PROVE  FrameStep
<1>1. Ended.pc \notin Waiting
  BY DEF Ended, Waiting
<1>2. QED
  BY <1>1, ConsumingStep DEF SaveResult, DropResult

LEMMA CommandStarts == Inv /\ Command => FrameStep
<1> SUFFICES ASSUME Inv, Command PROVE FrameStep
  OBVIOUS
<1>1. Ended.pc \notin Waiting /\ Ended \in Proc
  BY DEF Ended, Waiting, Proc, Pcs
<1>2. ASSUME NEW c \in Candidates, Handoff(c) PROVE FrameStep
  BY <1>1, <1>2, SavingStep DEF Handoff
<1>3. ASSUME NEW c \in Candidates, StartComplete(c) PROVE FrameStep
  <2> DEFINE p == IF job.cand[c].assessment # "none" /\ job.cand[c].comment
                  THEN [[Ended EXCEPT !.pc = "sweep", !.cand = c] EXCEPT !.todo = {c}]
                  ELSE IF ~job.cand[c].finalized /\ job.cand[c].assessment # "invalid"
                       THEN [Ended EXCEPT !.pc = "finalize", !.cand = c]
                       ELSE [Ended EXCEPT !.pc = "evaluate", !.cand = c]
  <2>1. Continue(p)
    BY <1>3 DEF StartComplete
  <2>2. p.pc \notin Waiting
    BY <1>1 DEF Proc, Waiting
  <2>3. QED
    BY <2>1, <2>2, SavingStep
<1>4. CASE StartFinish
  <2>1. [Ended EXCEPT !.pc = "sweep", !.todo = Handed(job), !.next = "entry"].pc
            \notin Waiting
    BY <1>1 DEF Proc, Waiting
  <2>2. QED
    BY <1>4, <2>1, SavingStep DEF StartFinish
<1>5. QED
  BY <1>2, <1>3, <1>4 DEF Command

LEMMA QuietSteps ==
    ASSUME Inv,
           \/ Finalize \/ Decide \/ AfterTry \/ Comment \/ RetryDecide
           \/ EntryOfCli \/ EntryOfController \/ FinDecide \/ AfterFailure
           \/ FinalDecide
    PROVE  FrameStep
<1>1. proc \in Proc
  BY CommandsFit DEF Inv
<1>2. /\ Ended.pc \notin Waiting
      /\ \A pc : To(pc).pc = pc
      /\ \A ids, next : Sweep(ids, next).pc \notin Waiting
      /\ \A j : ControllerFinish(j).pc \notin Waiting
      /\ \A j, next : FinalComment(j, next).pc \notin Waiting
      /\ \A j : AfterDecision(j).pc \notin Waiting
      /\ \A j : AfterFinDecide(j).pc \notin Waiting
      /\ \A j : ResumeTerminal(j).pc \notin Waiting
  BY <1>1, Elsewhere
<1>3. /\ To("evaluate").pc \notin Waiting /\ To("comment").pc \notin Waiting
      /\ To("sweep").pc \notin Waiting /\ To("finDecide").pc \notin Waiting
      /\ To("bindVerify").pc \notin Waiting /\ To("project").pc \notin Waiting
      /\ To("close").pc \notin Waiting
  BY <1>2 DEF Waiting
<1>4. CASE Finalize
  BY <1>3, <1>4, SavingStep DEF Finalize
<1>5. CASE Decide
  BY <1>2, <1>5, SavingStep DEF Decide
<1>6. CASE AfterTry
  BY <1>2, <1>3, <1>6, SavingStep DEF AfterTry
<1>7. CASE Comment
  BY <1>2, <1>7, SavingStep DEF Comment
<1>8. CASE RetryDecide
  BY <1>3, <1>8, SavingStep DEF RetryDecide
<1>9. CASE EntryOfCli
  BY <1>2, <1>3, <1>9, SavingStep DEF EntryOfCli
<1>10. CASE EntryOfController
  BY <1>2, <1>3, <1>10, SavingStep DEF EntryOfController
<1>11. CASE FinDecide
  BY <1>2, <1>11, SavingStep DEF FinDecide
<1>12. CASE AfterFailure
  BY <1>2, <1>12, SavingStep DEF AfterFailure, LastSweep
<1>13. CASE FinalDecide
  BY <1>2, <1>3, <1>13, SavingStep DEF FinalDecide
<1>14. QED
  BY <1>4, <1>5, <1>6, <1>7, <1>8, <1>9, <1>10, <1>11, <1>12, <1>13

LEMMA EffectSteps == Inv /\ EffectStep => FrameStep
<1> SUFFICES ASSUME Inv, EffectStep PROVE FrameStep
  OBVIOUS
<1>1. proc \in Proc
  BY CommandsFit DEF Inv
<1>2. /\ Ended.pc \notin Waiting
      /\ \A pc : To(pc).pc = pc
      /\ \A j : ControllerFinish(j).pc \notin Waiting
      /\ \A j, next : FinalComment(j, next).pc \notin Waiting
  BY <1>1, Elsewhere
<1>3. /\ To("sidecarFinal").pc \notin Waiting /\ To("storeFinal").pc \notin Waiting
      /\ To("storeProjection").pc \notin Waiting
      /\ To("storeClosure").pc \notin Waiting
  BY <1>2 DEF Waiting
<1>4. CASE PostFinal \/ SidecarFinal \/ Bind
  <2>1. UNCHANGED <<runtime, call>> /\ proc'.pc \notin Waiting
    BY <1>2, <1>3, <1>4 DEF PostFinal, SidecarFinal, Bind
  <2>2. QED
    BY <2>1, QuietStep
<1>5. CASE StoreFinal
  BY <1>2, <1>5, SavingStep DEF StoreFinal
<1>6. CASE Project
  <2>1. \/ \E j : Save(j, FinalComment(j, "idle"))
        \/ Continue(Ended)
        \/ UNCHANGED <<runtime, call>> /\ proc' = To("storeProjection")
    BY <1>6 DEF Project
  <2>2. QED
    BY <1>2, <1>3, <2>1, SavingStep, QuietStep
<1>7. CASE StoreProjection
  BY <1>2, <1>7, SavingStep DEF StoreProjection
<1>8. CASE Close
  <2>1. \/ \E j : Save(j, FinalComment(j, "idle"))
        \/ Continue(Ended)
        \/ UNCHANGED <<runtime, call>> /\ proc' = To("storeClosure")
    BY <1>8 DEF Close
  <2>2. QED
    BY <1>2, <1>3, <2>1, SavingStep, QuietStep
<1>9. CASE StoreClosure
  BY <1>2, <1>9, SavingStep DEF StoreClosure
<1>10. QED
  BY <1>4, <1>5, <1>6, <1>7, <1>8, <1>9 DEF EffectStep

\* The frames of the three methods.
LEMMA EvaluationFrames ==
    ASSUME NEW c \in Candidates,
           NEW frame \in {R!EnterCandidate(c), R!EnterValidating(c)}
    PROVE  /\ frame.cand = c
           /\ frame.step = "done" /\ frame.status = "ok" => c \in DOMAIN side
<1>1. \A op, d, step : LET f == R!Frame(op, c, step, d) IN
        f.cand = c /\ f.status = "none"
  BY DEF R!Frame
<1>2. \A op, d, s : LET f == R!Finished(op, c, d, s) IN f.cand = c /\ f.status = s
  BY DEF R!Finished, R!Frame
<1>3. CASE frame = R!EnterCandidate(c)
  BY <1>1, <1>2, <1>3 DEF R!EnterCandidate
<1>4. CASE frame = R!EnterValidating(c)
  BY <1>1, <1>2, <1>4 DEF R!EnterValidating
<1>5. QED
  BY <1>3, <1>4

LEMMA CleanupFrames ==
    ASSUME DOMAIN side \subseteq Candidates, NEW draft, NEW retained
    PROVE  LET frame == R!EnterCleanup(draft, retained) IN
           /\ \E S \in {{}, Candidates} : frame = R!EnterCleanup(draft, S)
           /\ frame.status # "ok"
<1> DEFINE x == CHOOSE x \in R!Owners(draft) : TRUE
<1>1. R!Owners(draft) # {} => x \in Candidates
  BY DEF R!Owners
<1>2. R!EnterCleanup(draft, retained) =
        IF x \in retained THEN R!EnterCleanup(draft, Candidates)
                          ELSE R!EnterCleanup(draft, {})
  BY <1>1 DEF R!EnterCleanup
<1>3. R!EnterCleanup(draft, retained).status # "ok"
  <2>1. \A op, c, d, step : R!Frame(op, c, step, d).status = "none"
    BY DEF R!Frame
  <2>2. \A op, c, d, s : R!Finished(op, c, d, s).status = s
    BY DEF R!Finished, R!Frame
  <2>3. QED
    BY <2>1, <2>2 DEF R!EnterCleanup
<1>4. QED
  BY <1>2, <1>3

LEMMA EvaluateStep == Inv /\ Evaluate => FrameStep
<1> SUFFICES ASSUME Inv, Evaluate PROVE FrameStep
  OBVIOUS
<1> DEFINE c == proc.cand
<1>1. proc \in Proc /\ proc.pc = "evaluate" /\ c \in Candidates
  BY AtCandidate, CommandsFit DEF Inv, Evaluate, Pc, OnCandidate
<1>2. /\ Ended.pc \notin Waiting /\ To("decide").pc \notin Waiting
      /\ To("evaluating").cand = c
  BY <1>1, Elsewhere DEF Waiting, To, Proc
<1>3. CASE job.cand[c].assessment = "none" /\ job.cand[c].finalized
                /\ job.mode = "foundry_evaluation"
  <2>1. Invoke(R!EnterCandidate(c), To("evaluating"))
    BY <1>3 DEF Evaluate
  <2>2. R!Begin(R!EnterCandidate(c)) /\ proc' = To("evaluating")
    BY <2>1 DEF Invoke
  <2>3. R!CallCandidate
    BY <1>1, <2>2 DEF R!CallCandidate
  <2>4. QED
    BY <1>1, <1>2, <2>2, <2>3, EvaluationFrames, InvokingStep
<1>4. CASE \/ job.cand[c].assessment # "none" \/ ~job.cand[c].finalized
           \/ job.mode # "foundry_evaluation"
  <2>1. job.mode \in Modes
    BY CommandsFit, ModeAssumption DEF JobState, Inv
  <2>2. (\E j : Save(j, To("decide"))) \/ Continue(To("decide")) \/ Continue(Ended)
    BY <1>4, <2>1 DEF Evaluate, Modes
  <2>3. QED
    BY <1>2, <2>2, SavingStep
<1>5. QED
  BY <1>3, <1>4

LEMMA ValidateStep == Inv /\ Validate => FrameStep
<1> SUFFICES ASSUME Inv, Validate PROVE FrameStep
  OBVIOUS
<1>1. proc \in Proc /\ proc.cand \in Candidates
  BY AtCandidate, CommandsFit DEF Inv, Validate, Pc, OnCandidate
<1>2. R!Begin(R!EnterValidating(proc.cand)) /\ proc' = To("validated")
  BY DEF Validate, Invoke
<1>3. R!CallValidating /\ To("validated").cand = proc.cand
  BY <1>1, <1>2 DEF R!CallValidating, To, Proc
<1>4. QED
  BY <1>1, <1>2, <1>3, EvaluationFrames, InvokingStep

LEMMA SweepStepStep == Inv /\ SweepStep => FrameStep
<1> SUFFICES ASSUME Inv, SweepStep PROVE FrameStep
  OBVIOUS
<1> DEFINE c == Least(proc.todo)
<1>1. proc \in Proc /\ job \in JobState /\ proc.pc = "sweep" /\ proc.next \in Resting
  BY CommandsFit DEF Inv, SweepStep, Pc, Fits, CommandFits, ControlFits, Sweeping
<1>2. CASE proc.todo = {}
  <2>1. [proc EXCEPT !.pc = proc.next].pc \notin Waiting
    BY <1>1 DEF Proc, Resting, Waiting
  <2>2. QED
    BY <1>2, <2>1, SavingStep DEF SweepStep
<1>3. CASE proc.todo # {} /\ c \in PendingCleanups(job)
  <2>1. /\ R!Begin(R!EnterCleanup(job.cand[c].draft, Retained))
        /\ proc' = To("sweeping")
    BY <1>3 DEF SweepStep, Invoke
  <2>2. job.cand[c].draft \in R!Versions
    BY <1>1, <1>3 DEF PendingCleanups, Handed, JobState, Candidate
  <2>3. DOMAIN side \subseteq Candidates
    BY RuntimeFits DEF Inv
  <2>4. R!CallCleanup
    BY <2>1, <2>2, <2>3, CleanupFrames DEF R!CallCleanup
  <2>5. proc'.pc \notin Waiting
    BY <1>1, <2>1, Elsewhere DEF Waiting
  <2>6. QED
    BY <2>1, <2>3, <2>4, <2>5, CleanupFrames, InvokingStep
<1>4. CASE proc.todo # {} /\ c \notin PendingCleanups(job)
  <2>1. [proc EXCEPT !.todo = @ \ {c}].pc \notin Waiting
    BY <1>1 DEF Proc, Waiting
  <2>2. QED
    BY <1>4, <2>1, SavingStep DEF SweepStep
<1>5. QED
  BY <1>2, <1>3, <1>4

LEMMA ResultSteps ==
    ASSUME Inv, Evaluated \/ Swept \/ ValidatedByCli \/ ValidatedByController
    PROVE  FrameStep
<1>1. proc \in Proc
  BY CommandsFit DEF Inv
<1>2. /\ Ended.pc \notin Waiting /\ To("decide").pc \notin Waiting
      /\ To("finalDecide").pc \notin Waiting
      /\ \A j, next : FinalComment(j, next).pc \notin Waiting
      /\ \A ids, next : Sweep(ids, next).pc \notin Waiting
  BY <1>1, Elsewhere DEF Waiting
<1>3. CASE Evaluated
  <2> DEFINE retry == [To("retryDecide") EXCEPT !.next = "idle"]
             failed == [Sweep({proc.cand}, "afterTry") EXCEPT !.tried = TRUE]
  <2>1. /\ call.step = "done"
        /\ \/ DropResult(Ended)
           \/ \E j : SaveResult(j, retry)
           \/ \E j : SaveResult(j, failed)
           \/ \E j : SaveResult(j, To("decide"))
    BY <1>3 DEF Evaluated, Returned
  <2>2. retry.pc \notin Waiting /\ failed.pc \notin Waiting
    BY <1>1 DEF Waiting, To, Sweep, Proc
  <2> HIDE DEF retry, failed
  <2>3. QED
    BY <1>2, <2>1, <2>2, ResultStep
<1>4. CASE Swept
  <2> DEFINE c == Least(proc.todo)
             rest == [To("sweep") EXCEPT !.todo = @ \ {c}]
             again == [rest EXCEPT !.pc = "retryDecide"]
  <2>1. /\ call.step = "done"
        /\ \/ DropResult(Ended)
           \/ DropResult(rest)
           \/ \E j : SaveResult(j, again)
           \/ \E j : SaveResult(j, rest)
    BY <1>4 DEF Swept, Returned
  <2>2. rest.pc \notin Waiting /\ again.pc \notin Waiting
    BY <1>1 DEF Waiting, To, Proc
  <2> HIDE DEF rest, again
  <2>3. QED
    BY <1>2, <2>1, <2>2, ResultStep
<1>5. CASE ValidatedByCli
  <2>1. /\ call.step = "done"
        /\ \/ DropResult(Ended)
           \/ \E j : SaveResult(j, To("finalDecide"))
           \/ \E j : SaveResult(j, FinalComment(j, "idle"))
    BY <1>5 DEF ValidatedByCli, Returned
  <2>2. QED
    BY <1>2, <2>1, ResultStep
<1>6. CASE ValidatedByController
  <2> DEFINE retry == [To("retryDecide") EXCEPT !.todo = Handed(job), !.next = "idle"]
  <2>1. /\ call.step = "done"
        /\ \/ DropResult(Ended)
           \/ \E j : SaveResult(j, To("finalDecide"))
           \/ \E j : SaveResult(j, retry)
           \/ \E j : SaveResult(j, Sweep({proc.cand}, "afterFailure"))
    BY <1>6 DEF ValidatedByController, Returned
  <2>2. retry.pc \notin Waiting
    BY <1>1 DEF Waiting, To, Proc
  <2> HIDE DEF retry
  <2>3. QED
    BY <1>2, <2>1, <2>2, ResultStep
<1>7. QED
  BY <1>3, <1>4, <1>5, <1>6

LEMMA OutsideSteps ==
    ASSUME Inv,
           \/ RuntimeWork \/ RuntimeFault \/ Interrupt
           \/ OpenPullRequest \/ BindPr
    PROVE  FrameStep
<1>1. CASE RuntimeWork \/ RuntimeFault
  BY <1>1, WorkingStep DEF RuntimeWork, RuntimeFault
<1>2. CASE OpenPullRequest \/ BindPr
  BY <1>2, QuietStep DEF OpenPullRequest, BindPr
<1>3. CASE Interrupt
  <2>1. Ended.pc \notin Waiting /\ proc' = Ended
    BY <1>3 DEF Interrupt, Ended, Waiting
  <2>2. CASE R!Abort
    <3>1. R!Next /\ call'.step = "idle"
      BY <2>2 DEF R!Next, R!Abort, R!Idle
    <3>2. QED
      BY <2>1, <3>1 DEF FrameStep, FrameFits, Waiting
  <2>3. CASE UNCHANGED <<runtime, call>>
    BY <2>1, <2>3, QuietStep
  <2>4. QED
    BY <1>3, <2>2, <2>3 DEF Interrupt
<1>4. QED
  BY <1>1, <1>2, <1>3

-----------------------------------------------------------------------------
(* The invariant.                                                          *)

LEMMA InitialFits == Init => Fits
<1> SUFFICES ASSUME Init PROVE Fits
  OBVIOUS
<1>1. PICK mode \in JobModes :
        job = [mode |-> mode, cand |-> [c \in Candidates |-> NewCandidate],
               decision |-> NoDecision, terminal |-> "none",
               finalReceipt |-> FALSE, projection |-> None, closure |-> FALSE]
  BY DEF Init
<1>2. NewCandidate \in Candidate
  BY DEF NewCandidate, Candidate, Assessments
<1>3. NoDecision \in DecisionRecord
  BY DEF NoDecision, DecisionRecord
<1>4. job \in JobState
  BY <1>1, <1>2, <1>3 DEF JobState
<1>5. Handed(job) = {}
  BY <1>1 DEF Handed, NewCandidate
<1>6. HandedFits(job)
  <2>1. IsFiniteSet({}) /\ Cardinality({}) = 0
    BY FS_EmptySet
  <2>2. 0 <= MinCandidates
    BY BoundsAssumption
  <2>3. HasFirst({})
    BY DEF HasFirst
  <2>4. QED
    BY <1>5, <2>1, <2>2, <2>3 DEF HandedFits
<1>7. \A c \in Candidates : CandidateFits(job.mode, job.cand[c])
  BY <1>1 DEF CandidateFits, NewCandidate
<1>8. ModeFits(job) /\ Accepted(job) /\ WinnerFits(job)
  BY <1>1 DEF ModeFits, Quantitative, Accepted, WinnerFits, NewCandidate,
              NoDecision
<1>9. JobFits(job)
  BY <1>1, <1>4, <1>6, <1>7, <1>8 DEF JobFits, Positive
<1>10. WorldRests(job, World)
  BY <1>1 DEF Init, WorldRests, World
<1>11. CommandFits(job, proc, World)
  BY <1>10, EndedFits DEF Init
<1>12. QED
  BY <1>9, <1>11 DEF Fits

LEMMA InitFits == Init => Inv
<1> SUFFICES ASSUME Init PROVE Inv
  OBVIOUS
<1>1. RP!IInv
  BY RuntimeInitFits DEF Init
<1>2. FrameFits(proc, call, side)
  BY DEF Init, R!Init, R!Idle, Ended, FrameFits
<1>3. WorldTypes
  <2>1. NoDecision \in DecisionRecord
    BY DEF NoDecision, DecisionRecord
  <2>2. faults \in 0..MaxFaults /\ interrupts \in 0..MaxInterrupts
    BY BoundsAssumption DEF Init
  <2>3. QED
    BY <2>1, <2>2 DEF Init, WorldTypes
<1>4. QED
  BY <1>1, <1>2, <1>3, InitialFits DEF Inv

\* Each action, by what it does to the state file and to the runtime.
LEMMA NextFits == Inv /\ Next => StepFits
<1> SUFFICES ASSUME Inv, Next PROVE StepFits
  OBVIOUS
<1>1. Fits
  BY DEF Inv
<1>2. CASE Command
  BY <1>1, <1>2, HandoffFits, StartCompleteFits, StartFinishFits DEF Command
<1>3. CASE CompleteStep
  BY <1>1, <1>3, FinalizeFits, EvaluateFits, EvaluatedFits, DecideFits,
     AfterTryFits, CommentFits DEF CompleteStep
<1>4. CASE SweepSteps
  BY <1>1, <1>4, SweepStepFits, SweptFits, RetryDecideFits DEF SweepSteps
<1>5. CASE FinishStep
  BY <1>1, <1>5, EntryOfCliFits, EntryOfControllerFits, FinDecideFits,
     ValidateFits, ValidatedByCliFits, ValidatedByControllerFits,
     AfterFailureFits, FinalDecideFits DEF FinishStep
<1>6. CASE EffectStep
  BY <1>1, <1>6, PostFinalFits, SidecarFinalFits, StoreFinalFits, BindFits,
     ProjectStepFits, StoreProjectionFits, CloseStepFits, StoreClosureFits
  DEF EffectStep
<1>7. CASE RuntimeWork \/ RuntimeFault \/ Interrupt \/ OpenPullRequest \/ BindPr
  BY <1>1, <1>7, OutsideFits
<1>8. QED
  BY <1>2, <1>3, <1>4, <1>5, <1>6, <1>7 DEF Next, CommandStep

LEMMA NextFrame == Inv /\ Next => FrameStep
<1> SUFFICES ASSUME Inv, Next PROVE FrameStep
  OBVIOUS
<1>1. CASE Command
  BY <1>1, CommandStarts
<1>2. CASE CompleteStep
  BY <1>2, QuietSteps, EvaluateStep, ResultSteps DEF CompleteStep
<1>3. CASE SweepSteps
  BY <1>3, QuietSteps, SweepStepStep, ResultSteps DEF SweepSteps
<1>4. CASE FinishStep
  BY <1>4, QuietSteps, ValidateStep, ResultSteps DEF FinishStep
<1>5. CASE EffectStep
  BY <1>5, EffectSteps
<1>6. CASE RuntimeWork \/ RuntimeFault \/ Interrupt \/ OpenPullRequest \/ BindPr
  BY <1>6, OutsideSteps
<1>7. QED
  BY <1>1, <1>2, <1>3, <1>4, <1>5, <1>6 DEF Next, CommandStep

\* What the commands do to GitHub, the checkout and the counters.
Unmoved == UNCHANGED <<github, applied, budgets>>

LEMMA NextTypes == Inv /\ Next => WorldTypes'
<1> SUFFICES ASSUME Inv, Next PROVE WorldTypes'
  OBVIOUS
<1>1. WorldTypes /\ job \in JobState /\ proc \in Proc
  BY CommandsFit DEF Inv
<1>2. CASE Unmoved
  BY <1>1, <1>2 DEF Unmoved, github, budgets, WorldTypes
<1>3. CASE Command
  BY <1>2, <1>3 DEF Command, Handoff, StartComplete, StartFinish, Save, Continue,
                    Unmoved
<1>4. CASE CompleteStep
  <2>1. CASE Finalize \/ Decide \/ AfterTry \/ Comment
    BY <1>2, <2>1 DEF Finalize, Decide, AfterTry, Comment, Save, Continue, Unmoved
  <2>2. CASE Evaluate
    <3>1. job.mode \in Modes
      BY <1>1, ModeAssumption DEF JobState
    <3>2. \/ \E j, p : Save(j, p)
          \/ \E p : Continue(p)
          \/ \E f, p : Invoke(f, p)
      BY <2>2, <3>1 DEF Evaluate, Modes
    <3>3. QED
      BY <1>2, <3>2 DEF Save, Continue, Invoke, Unmoved
  <2>3. CASE Evaluated
    BY <1>2, <2>3 DEF Evaluated, SaveResult, DropResult, Unmoved
  <2>4. QED
    BY <1>4, <2>1, <2>2, <2>3 DEF CompleteStep
<1>5. CASE SweepSteps
  BY <1>2, <1>5 DEF SweepSteps, SweepStep, Swept, RetryDecide, Save, Continue,
                    Invoke, SaveResult, DropResult, Unmoved
<1>6. CASE FinishStep
  <2>1. CASE EntryOfCli \/ EntryOfController \/ FinDecide \/ AfterFailure
                \/ FinalDecide
    <3>1. (\E j, p : Save(j, p)) \/ (\E p : Continue(p))
      BY <2>1 DEF EntryOfCli, EntryOfController, FinDecide, AfterFailure,
                  FinalDecide
    <3>2. QED
      BY <1>2, <3>1 DEF Save, Continue, Unmoved
  <2>2. CASE Validate
    BY <1>2, <2>2 DEF Validate, Invoke, Unmoved
  <2>3. CASE ValidatedByCli \/ ValidatedByController
    <3>1. (\E j, p : SaveResult(j, p)) \/ (\E p : DropResult(p))
      BY <2>3 DEF ValidatedByCli, ValidatedByController
    <3>2. QED
      BY <1>2, <3>1 DEF SaveResult, DropResult, Unmoved
  <2>4. QED
    BY <1>6, <2>1, <2>2, <2>3 DEF FinishStep
<1>7. CASE EffectStep
  <2>1. CASE PostFinal \/ SidecarFinal \/ Bind
    BY <1>1, <2>1 DEF PostFinal, SidecarFinal, Bind, JobState, WorldTypes, budgets
  <2>2. CASE StoreFinal \/ StoreProjection \/ StoreClosure
    BY <1>2, <2>2 DEF StoreFinal, StoreProjection, StoreClosure, Save, Unmoved
  <2>3. CASE Project
    <3>1. \/ \E j, p : Save(j, p)
          \/ \E p : Continue(p)
          \/ applied' = proc.cand /\ UNCHANGED <<github, budgets>>
      BY <2>3 DEF Project
    <3>2. CASE applied' = proc.cand /\ UNCHANGED <<github, budgets>>
      BY <1>1, <3>2 DEF WorldTypes, github, budgets, Proc
    <3>3. QED
      BY <1>2, <3>1, <3>2 DEF Save, Continue, Unmoved
  <2>4. CASE Close
    <3>1. \/ \E j, p : Save(j, p)
          \/ \E p : Continue(p)
          \/ /\ pr' = "closed"
             /\ UNCHANGED <<sideFinal, finalBody, bound, applied, budgets>>
      BY <2>4 DEF Close
    <3>2. CASE /\ pr' = "closed"
               /\ UNCHANGED <<sideFinal, finalBody, bound, applied, budgets>>
      BY <1>1, <3>2 DEF WorldTypes, budgets
    <3>3. QED
      BY <1>2, <3>1, <3>2 DEF Save, Continue, Unmoved
  <2>5. QED
    BY <1>7, <2>1, <2>2, <2>3, <2>4 DEF EffectStep
<1>8. CASE RuntimeWork
  BY <1>2, <1>8 DEF RuntimeWork, Unmoved
<1>9. CASE OpenPullRequest \/ BindPr
  BY <1>1, <1>9 DEF OpenPullRequest, BindPr, WorldTypes, budgets
<1>10. CASE RuntimeFault \/ Interrupt
  BY <1>1, <1>10, BoundsAssumption
  DEF RuntimeFault, Interrupt, WorldTypes, github
<1>11. QED
  BY <1>3, <1>4, <1>5, <1>6, <1>7, <1>8, <1>9, <1>10 DEF Next, CommandStep

LEMMA StepKeeps ==
    ASSUME Inv, [Next]_vars
    PROVE  /\ Inv' /\ [R!Next]_R!vars
           /\ Kept(job, job') /\ job'.mode = job.mode
<1>1. CASE Next
  <2>1. StepFits /\ FrameStep /\ WorldTypes'
    BY <1>1, NextFits, NextFrame, NextTypes
  <2>2. RP!IInv'
    BY <2>1, RuntimeStepKeeps DEF Inv, FrameStep
  <2>3. QED
    BY <2>1, <2>2 DEF Inv, StepFits, FrameStep
<1>2. CASE UNCHANGED vars
  <2>1. /\ UNCHANGED <<runtime, call>> /\ proc' = proc /\ job' = job
        /\ World' = World /\ UNCHANGED <<github, applied, budgets>>
    BY <1>2 DEF vars, github, World
  <2>2. FrameStep
    BY <2>1, QuietStep
  <2>3. RP!IInv'
    BY <2>2, RuntimeStepKeeps DEF Inv, FrameStep
  <2>4. Fits' /\ WorldTypes'
    BY <2>1 DEF Inv, Fits, WorldTypes, github, budgets
  <2>5. QED
    BY <2>1, <2>2, <2>3, <2>4 DEF Inv, FrameStep, Kept
<1>3. QED
  BY <1>1, <1>2

LEMMA Inductive == Spec => []Inv
<1>1. Inv /\ [Next]_vars => Inv'
  BY StepKeeps
<1>2. QED
  BY <1>1, InitFits, PTL DEF Spec

-----------------------------------------------------------------------------
(* The two files, and the drafts at Foundry.                               *)

Settling(j) == j.terminal \in {"winner", "no_winner"}

\* Whatever the state file says of a candidate, the sidecar file has it; a
\* draft is only stored with a result, and a cleanup with nothing owed.
Matches(j, files, c) ==
    LET k == j.cand[c] IN
    /\ k.dev # None => c \in DOMAIN files /\ files[c].dev = k.dev
    /\ k.val # None => c \in DOMAIN files /\ files[c].val = k.val
    /\ k.draft # None => c \in DOMAIN files /\ files[c].draft = k.draft
    /\ k.cleaned => files[c].receipt
    /\ k.cleaned /\ ~Settling(j) => files[c].retry = "none"
    /\ k.assessment = "none" /\ k.dev = None => k.draft = None

Agree(j, files) == \A c \in Candidates : Matches(j, files, c)

\* A retry is owed to a draft that was deleted for it.
Owed(j, files, c) ==
    j.cand[c].draft # None /\ files[c].receipt /\ files[c].retry # "none"

\* A sweep on the way to a finish leaves no retry owed behind it.
Swept1(j, p, files) ==
    ~Settling(j) =>
    /\ p.pc \in Sweeping /\ p.next = "entry" =>
           \A c \in Handed(j) \ p.todo : ~Owed(j, files, c)
    /\ p.pc \in {"entry", "finDecide", "validating"} =>
           \A c \in Handed(j) : ~Owed(j, files, c)

Calling == {"evaluating", "sweeping", "validated"}

\* The frame of the runtime is the one the command has asked for.
CallingFits(p, frame) ==
    /\ p.pc \notin Calling => frame = R!Idle
    /\ p.pc = "evaluating" => frame.op = "candidate"
    /\ p.pc = "validated" => frame.op = "validating"
    /\ p.pc = "sweeping" =>
           frame.op = "cleanup" /\ frame.cand = Least(p.todo)

\* A draft is only created for a candidate whose state names none.
CreatesFit(j, frame) ==
    frame.step \in {"create", "saveReference"} =>
        j.cand[frame.cand].draft = None

\* What a method returns is what the sidecar file says.
ReturnsFit(frame, files) ==
    frame.step = "done" =>
        /\ frame.status \in {"ok", "platform_failure"} =>
               \/ frame.cand \in DOMAIN files
                      /\ frame.draft = files[frame.cand].draft
               \/ frame.draft = None /\ frame.status # "ok"
        /\ frame.status = "ok" =>
               IF frame.op = "candidate" THEN files[frame.cand].dev # None
                                         ELSE files[frame.cand].val # None
        /\ frame.status = "failed" => ~files[frame.cand].receipt
        /\ frame.status = "cleaned" =>
               frame.cand \in DOMAIN files /\ files[frame.cand].receipt

\* A draft that is gone while its reference is stored is never run again.
GoneFits(j, files, drafts) ==
    \A c \in DOMAIN files :
        files[c].ref /\ files[c].draft \notin drafts =>
            \/ files[c].cleanupRequired \/ ~files[c].verified
            \/ files[c].dev # None \/ j.cand[c].assessment # "none"

DraftFits(j, frame, files, drafts) ==
    /\ frame.op = "candidate" =>
         /\ frame.step \in {"verify", "saveVerified", "failDelete",
                            "saveFailCleaned", "saveFailRequired"} =>
              ~files[frame.cand].verified
         /\ frame.step \in {"retryDelete", "saveRetryCleaned"} =>
              files[frame.cand].cleanupRequired
    /\ frame.op = "validating" /\ frame.step # "done" =>
           files[frame.cand].dev # None
    /\ frame.step \in {"delete", "saveCleaned"} =>
           \/ files[frame.cand].dev # None
           \/ j.cand[frame.cand].assessment # "none"
    /\ frame.step \in {"saveVerified", "run"} => frame.draft \in drafts

HoldFits(j, frame, files, drafts) ==
    /\ CreatesFit(j, frame) /\ ReturnsFit(frame, files)
    /\ GoneFits(j, files, drafts) /\ DraftFits(j, frame, files, drafts)

Files ==
    /\ Agree(job, side) /\ Swept1(job, proc, side)
    /\ CallingFits(proc, call) /\ HoldFits(job, call, side, live)

\* What is proved of the runtime, in the job's words.
LEMMA RuntimeFacts ==
    ASSUME RP!IInv
    PROVE  /\ DOMAIN side \subseteq Candidates
           /\ call \in R!Call /\ live \subseteq R!Versions
           /\ \A c \in DOMAIN side :
                LET r == side[c] IN
                /\ r \in R!Sidecar
                /\ r.val # None => r.dev # None
                /\ r.retry = "candidate" => r.dev = None
                /\ r.retry # "none" => r.val = None
                /\ ~(r.receipt /\ r.ref)
                /\ r.cleanupRequired => r.ref
           /\ \A c, d \in DOMAIN side : side[c].draft = side[d].draft => c = d
<1>1. R!TypeOK
  BY RuntimeFits
<1>2. RP!SidecarsRevalidate
  BY RuntimeParameters, RP!Consequences
<1>3. RP!None = None
  BY DEF RP!None, None, R!None
<1>4. QED
  BY <1>1, <1>2, <1>3 DEF R!TypeOK, RP!SidecarsRevalidate, RP!ValidCandidate

Saving == {"saveVerified", "saveSummary", "saveFailCleaned",
           "saveFailRequired", "saveRetryCleaned", "saveCleaned"}
Working == Saving \cup {"verify", "run", "failDelete", "retryDelete", "delete"}

LEMMA FrameFacts ==
    ASSUME RP!IInv
    PROVE  /\ call.step \in {"create", "saveReference"} =>
                /\ call.cand \in Candidates
                /\ call.op \in {"candidate", "validating"}
                /\ call.op = "validating" => call.cand \in DOMAIN side
                /\ call.cand \in DOMAIN side => ~side[call.cand].ref
           /\ call.step = "saveReference" => call.draft \in live
           /\ call.step \in Working =>
                /\ call.cand \in DOMAIN side /\ side[call.cand].ref
                /\ call.draft = side[call.cand].draft
                /\ call.step \notin {"delete", "saveCleaned"} =>
                     call.op \in {"candidate", "validating"}
           /\ call.step = "saveSummary" => call.summary # None
<1>1. RP!CreatingFits /\ RP!HoldsNewDraft /\ RP!WorkingFits
  BY DEF RP!IInv, RP!CallFits
<1>2. \A step \in Working : step \in RP!OnDraft
  BY DEF Working, Saving, RP!OnDraft, RP!Steps
<1>3. RP!None = None
  BY DEF RP!None, None, R!None
<1>4. /\ call.step \in {"create", "saveReference"} =>
                /\ call.cand \in Candidates
                /\ call.op \in {"candidate", "validating"}
                /\ call.op = "validating" => call.cand \in DOMAIN side
                /\ call.cand \in DOMAIN side => ~side[call.cand].ref
      /\ call.step = "saveReference" => call.draft \in live
  BY <1>1 DEF RP!CreatingFits, RP!HoldsNewDraft, RP!At
<1>5. QED
  BY <1>1, <1>2, <1>3, <1>4 DEF RP!WorkingFits, RP!At, RP!Deleting, Working, Saving

\* A save of one record keeps the others.
LEMMA RecordSaved ==
    ASSUME NEW c, NEW r, side' = R!WithCandidate(c, r)
    PROVE  /\ DOMAIN side' = DOMAIN side \cup {c}
           /\ side'[c] = r
           /\ \A d \in DOMAIN side \ {c} : side'[d] = side[d]
BY DEF R!WithCandidate

\* What the state file and the command say when the runtime is at work.
LEMMA AtWork ==
    ASSUME Inv, Files, call.step # "idle"
    PROVE  /\ \A c \in Candidates :
                /\ Matches(job, side, c)
                /\ job.cand[c].cleaned => job.cand[c].draft # None
           /\ proc.pc \in Calling
           /\ proc.pc = "sweeping" =>
                proc.todo \in SUBSET Candidates /\ call.cand \in proc.todo
           /\ proc.pc = "sweeping" => call.op = "cleanup"
<1>1. proc.pc \in Calling
  BY DEF Files, CallingFits, R!Idle
<1>2. ASSUME proc.pc = "sweeping"
      PROVE  /\ proc.todo \in SUBSET Candidates /\ call.cand \in proc.todo
             /\ call.op = "cleanup"
  <2>1. call.op = "cleanup" /\ call.cand = Least(proc.todo)
    BY <1>2 DEF Files, CallingFits
  <2>2. /\ proc.todo # {} /\ proc.todo \in SUBSET Handed(job)
        /\ HasFirst(Handed(job)) /\ Handed(job) \in SUBSET Candidates
    BY <1>2 DEF Inv, Fits, JobFits, HandedFits, CommandFits, ControlFits, Handed
  <2>3. Least(proc.todo) \in proc.todo
    BY <2>2, LeastIsMember
  <2>4. QED
    BY <2>1, <2>2, <2>3
<1>3. QED
  BY <1>1, <1>2 DEF Files, Agree, Inv, Fits, JobFits, Accepted

\* A save of the sidecar file changes one record.
LEMMA OtherFilesKept ==
    ASSUME Inv, Files, call.step # "idle", NEW files,
           \A d \in DOMAIN side \ {call.cand} :
               d \in DOMAIN files /\ files[d] = side[d],
           call.cand \in Candidates => Matches(job, files, call.cand)
    PROVE  Agree(job, files) /\ Swept1(job, proc, files)
<1>1. /\ \A c \in Candidates : Matches(job, side, c)
      /\ \A c \in Candidates : job.cand[c].cleaned => job.cand[c].draft # None
      /\ proc.pc \in Calling
      /\ proc.pc = "sweeping" => call.cand \in proc.todo
  BY AtWork
<1>2. ASSUME NEW d \in Candidates, d # call.cand
      PROVE  /\ Matches(job, files, d)
             /\ Owed(job, files, d) => Owed(job, side, d)
  <2>1. Matches(job, side, d) /\ (job.cand[d].cleaned => job.cand[d].draft # None)
    BY <1>1
  <2>2. d \in DOMAIN side => d \in DOMAIN files /\ files[d] = side[d]
    BY <1>2
  <2>3. QED
    BY <2>1, <2>2 DEF Matches, Owed
<1>3. Agree(job, files)
  BY <1>2 DEF Agree
<1>4. Swept1(job, proc, files)
  <2>1. proc.pc \notin {"entry", "finDecide", "validating"}
    BY <1>1 DEF Calling
  <2>2. proc.pc \in Sweeping => proc.pc = "sweeping"
    BY <1>1 DEF Calling, Sweeping
  <2>3. \A d \in Handed(job) : d \in Candidates
    BY DEF Handed
  <2>4. QED
    BY <1>1, <1>2, <2>1, <2>2, <2>3 DEF Files, Swept1
<1>5. QED
  BY <1>3, <1>4

\* The record under work, as the state file knows it.
LEMMA RecordMatches ==
    ASSUME Inv, Files, call.step \in Working, NEW r,
           LET o == side[call.cand] IN
           /\ r.draft = o.draft
           /\ o.dev # None => r.dev = o.dev
           /\ o.val # None => r.val = o.val,
           side' = R!WithCandidate(call.cand, r)
    PROVE  Agree(job, side') /\ Swept1(job, proc, side')
<1>1. call.step # "idle"
  BY DEF Working, Saving
<1>2. /\ call.cand \in DOMAIN side /\ side[call.cand].ref
      /\ call.cand \in Candidates /\ ~side[call.cand].receipt
  BY FrameFacts, RuntimeFacts DEF Inv
<1>3. /\ call.cand \in DOMAIN side' /\ side'[call.cand] = r
      /\ \A d \in DOMAIN side \ {call.cand} :
           d \in DOMAIN side' /\ side'[d] = side[d]
  BY RecordSaved, ZenonT(40)
<1>4. Matches(job, side, call.cand)
  BY <1>1, <1>2, AtWork
<1>5. Matches(job, side', call.cand)
  BY <1>2, <1>3, <1>4 DEF Matches
<1>6. QED
  BY <1>1, <1>3, <1>5, OtherFilesKept

LEMMA CreateKeepsFiles ==
    ASSUME Inv, Files, UNCHANGED <<job, proc>>,
           R!Create \/ R!CreateFails \/ R!CreateLosesAnswer
    PROVE  Files'
<1>1. call \in R!Call /\ call.step = "create"
  BY RuntimeFacts DEF Inv, R!Create, R!CreateFails, R!CreateLosesAnswer, R!At
<1>2. /\ call.op \in {"candidate", "validating"}
      /\ call.op = "validating" => side[call.cand].dev # None
      /\ job.cand[call.cand].draft = None
  BY <1>1, FrameFacts DEF Inv, Files, HoldFits, DraftFits, CreatesFit
<1>3. side' = side /\ live \subseteq live'
  BY DEF R!Create, R!CreateFails, R!CreateLosesAnswer
<1>4. /\ call'.op = call.op /\ call'.cand = call.cand
      /\ call'.step \in {"saveReference", "done"}
      /\ call'.step = "done" =>
           call'.status = "platform_failure" /\ call'.draft = None
  BY <1>1 DEF R!Create, R!CreateFails, R!CreateLosesAnswer, R!ReturnNoDraft,
              R!Call, None
<1>5. CreatesFit(job, call)' /\ ReturnsFit(call, side)'
  BY <1>2, <1>4 DEF CreatesFit, ReturnsFit
<1>6. GoneFits(job, side, live)'
  BY <1>3 DEF Files, HoldFits, GoneFits
<1>7. DraftFits(job, call, side, live)'
  BY <1>2, <1>3, <1>4 DEF DraftFits
<1>8. CallingFits(proc, call)'
  BY <1>1, <1>4, AtWork DEF Files, CallingFits
<1>9. QED
  BY <1>3, <1>5, <1>6, <1>7, <1>8 DEF Files, HoldFits

\* Calls to Foundry that change no draft.
LEMMA VerifyKeepsFiles ==
    ASSUME Inv, Files, UNCHANGED <<job, proc>>,
           R!Verify \/ R!VerifyFails \/ R!Run \/ R!RunFails
    PROVE  Files'
<1>1. /\ call \in R!Call /\ call.step \in {"verify", "run"}
      /\ call'.op = call.op /\ call'.cand = call.cand /\ call'.draft = call.draft
      /\ side' = side /\ live' = live
  BY RuntimeFacts
  DEF Inv, R!Verify, R!VerifyFails, R!Run, R!RunFails, R!At, R!Goto, R!Return,
      R!Call
<1>2. /\ call.op \in {"candidate", "validating"}
      /\ call.cand \in DOMAIN side /\ call.draft = side[call.cand].draft
  BY <1>1, FrameFacts DEF Inv, Working, Saving
<1>3. /\ call.step = "run" => call'.step \in {"saveSummary", "done"}
      /\ call.step = "verify" =>
           \/ call'.step = "failDelete"
           \/ /\ call.draft \in live
              /\ call'.step = IF call.op = "candidate" THEN "saveVerified"
                                                       ELSE "run"
      /\ call'.step = "done" => call'.status = "platform_failure"
  BY <1>1 DEF R!Verify, R!VerifyFails, R!Run, R!RunFails, R!At, R!Goto,
              R!Return, R!Call
<1>4. DraftFits(job, call, side, live)
  BY DEF Files, HoldFits
<1>5. DraftFits(job, call, side, live)'
  BY <1>1, <1>2, <1>3, <1>4 DEF DraftFits
<1>6. CreatesFit(job, call)' /\ ReturnsFit(call, side)' /\ GoneFits(job, side, live)'
  BY <1>1, <1>2, <1>3 DEF CreatesFit, ReturnsFit, Files, HoldFits, GoneFits
<1>7. CallingFits(proc, call)'
  BY <1>1, AtWork DEF Files, CallingFits
<1>8. QED
  BY <1>1, <1>5, <1>6, <1>7 DEF Files, HoldFits

\* A deletion: the draft may be gone, with or without an answer.
LEMMA DeleteKeepsFiles ==
    ASSUME Inv, Files, UNCHANGED <<job, proc>>,
           \/ R!Delete("failDelete", "saveFailCleaned")
           \/ R!Delete("retryDelete", "saveRetryCleaned")
           \/ R!Delete("delete", "saveCleaned")
           \/ R!DeleteFails
    PROVE  Files'
<1>1. /\ call \in R!Call /\ call.step \in {"failDelete", "retryDelete", "delete"}
      /\ call'.op = call.op /\ call'.cand = call.cand /\ call'.draft = call.draft
      /\ side' = side /\ live \ {call.draft} \subseteq live'
  BY RuntimeFacts DEF Inv, R!Delete, R!DeleteFails, R!At, R!Goto, R!Return, R!Call
<1>2. /\ call.step = "failDelete" =>
           call'.step \in {"saveFailCleaned", "saveFailRequired"}
      /\ call.step = "retryDelete" =>
           \/ call'.step = "saveRetryCleaned"
           \/ call'.step = "done" /\ call'.status = "platform_failure"
      /\ call.step = "delete" =>
           \/ call'.step = "saveCleaned"
           \/ call'.step = "done" /\ call'.status = "failed"
  BY <1>1 DEF R!Delete, R!DeleteFails, R!At, R!Goto, R!Return, R!Call
<1>3. /\ call.cand \in DOMAIN side /\ call.draft = side[call.cand].draft
      /\ side[call.cand].ref /\ ~side[call.cand].receipt
      /\ call.step # "delete" => call.op \in {"candidate", "validating"}
  BY <1>1, FrameFacts, RuntimeFacts DEF Inv, Working, Saving
<1>4. DraftFits(job, call, side, live)
  BY DEF Files, HoldFits
<1>5. DraftFits(job, call, side, live)'
  BY <1>1, <1>2, <1>4 DEF DraftFits
<1>6. GoneFits(job, side, live)'
  <2>1. \A d \in DOMAIN side \ {call.cand} : side[d].draft # call.draft
    BY <1>3, RuntimeFacts DEF Inv
  <2>2. \/ side[call.cand].cleanupRequired \/ ~side[call.cand].verified
        \/ side[call.cand].dev # None \/ job.cand[call.cand].assessment # "none"
    BY <1>1, <1>3, <1>4 DEF DraftFits
  <2>3. QED
    BY <1>1, <2>1, <2>2 DEF Files, HoldFits, GoneFits
<1>7. CreatesFit(job, call)' /\ ReturnsFit(call, side)'
  BY <1>1, <1>2, <1>3 DEF CreatesFit, ReturnsFit
<1>8. CallingFits(proc, call)'
  BY <1>1, AtWork DEF Files, CallingFits
<1>9. QED
  BY <1>1, <1>5, <1>6, <1>7, <1>8 DEF Files, HoldFits

\* The reference to a new draft.
LEMMA ReferenceKeepsFiles ==
    ASSUME Inv, Files, UNCHANGED <<job, proc>>, R!SaveReference
    PROVE  Files'
<1> DEFINE c == call.cand
           r == IF call.op = "candidate" THEN R!FreshSidecar(call.draft)
                ELSE [side[c] EXCEPT !.draft = call.draft,
                        !.ref = TRUE, !.verified = FALSE,
                        !.cleanupRequired = FALSE, !.retry = "none",
                        !.receipt = FALSE]
<1>1. /\ call \in R!Call /\ call.step = "saveReference"
      /\ side' = R!WithCandidate(c, r) /\ live' = live
      /\ call'.op = call.op /\ c' = c /\ call'.step = "verify"
  BY RuntimeFacts DEF Inv, R!SaveReference, R!At, R!Goto, R!Call
<1>2. /\ c \in Candidates /\ call.op \in {"candidate", "validating"}
      /\ call.op = "validating" =>
           c \in DOMAIN side /\ side[c] \in R!Sidecar /\ side[c].dev # None
      /\ c \in DOMAIN side => ~side[c].ref
      /\ call.draft \in live
      /\ job.cand[c].draft = None
  BY <1>1, FrameFacts, RuntimeFacts DEF Inv, Files, HoldFits, CreatesFit, DraftFits
<1>3. r.ref /\ r.draft = call.draft /\ ~r.verified
  BY <1>2 DEF R!FreshSidecar, R!Sidecar
<1>4. call.op = "validating" => r.dev = side[c].dev /\ r.val = side[c].val
  BY <1>2 DEF R!Sidecar
<1>5. call.op = "candidate" /\ c \in DOMAIN side =>
        side[c].dev = None /\ side[c].val = None
  <2>1. RP!CreatingFits /\ RP!None = None
    BY DEF Inv, RP!IInv, RP!CallFits, RP!None, None, R!None
  <2>2. QED
    BY <1>1, <2>1, RuntimeFacts DEF Inv, RP!CreatingFits, RP!EvaluationFits, RP!At
<1> HIDE DEF r
<1>6. /\ DOMAIN side' = DOMAIN side \cup {c} /\ side'[c] = r
      /\ \A d \in DOMAIN side \ {c} : side'[d] = side[d]
  BY <1>1, RecordSaved
<1>7. Matches(job, side', c)
  <2>1. Matches(job, side, c) /\ (job.cand[c].cleaned => job.cand[c].draft # None)
    BY <1>1, <1>2, AtWork
  <2>2. QED
    BY <1>2, <1>4, <1>5, <1>6, <2>1 DEF Matches
<1>8. Agree(job, side') /\ Swept1(job, proc, side')
  BY <1>1, <1>6, <1>7, OtherFilesKept
<1>9. GoneFits(job, side, live)'
  BY <1>1, <1>2, <1>3, <1>6 DEF Files, HoldFits, GoneFits
<1>10. /\ CreatesFit(job, call)' /\ ReturnsFit(call, side)'
       /\ DraftFits(job, call, side, live)'
  BY <1>1, <1>2, <1>3, <1>4, <1>6 DEF CreatesFit, ReturnsFit, DraftFits
<1>11. CallingFits(proc, call)'
  BY <1>1, AtWork DEF Files, CallingFits
<1>12. QED
  BY <1>8, <1>9, <1>10, <1>11 DEF Files, HoldFits

\* The flags of a verified draft, and the result of a run.
LEMMA ResultKeepsFiles ==
    ASSUME Inv, Files, UNCHANGED <<job, proc>>, R!SaveVerified \/ R!SaveSummary
    PROVE  Files'
<1> DEFINE c == call.cand
           o == side[c]
<1>1. /\ call \in R!Call /\ call.step \in {"saveVerified", "saveSummary"}
      /\ live' = live
      /\ call'.op = call.op /\ c' = c /\ call'.draft = call.draft
      /\ call.step = "saveVerified" => call'.step = "run"
      /\ call.step = "saveSummary" => call'.step = "done" /\ call'.status = "ok"
  BY RuntimeFacts
  DEF Inv, R!SaveVerified, R!SaveSummary, R!At, R!Goto, R!Return, R!Call
<1>2. /\ c \in DOMAIN side /\ o \in R!Sidecar /\ o.ref /\ call.draft = o.draft
      /\ call.op \in {"candidate", "validating"}
      /\ call.step = "saveSummary" => call.summary # None
      /\ call.op = "validating" => o.dev # None
      /\ call.step = "saveVerified" => call.draft \in live
  BY <1>1, FrameFacts, RuntimeFacts
  DEF Inv, Working, Saving, Files, HoldFits, DraftFits
<1>3. call.step = "saveSummary" =>
        IF call.op = "candidate" THEN o.dev = None ELSE o.val = None
  <2>1. RP!WorkingFits /\ RP!None = None
    BY DEF Inv, RP!IInv, RP!CallFits, RP!None, None, R!None
  <2>2. "saveSummary" \in RP!OnDraft \ RP!Deleting
    BY DEF RP!OnDraft, RP!Deleting, RP!Steps
  <2>3. QED
    BY <1>2, <2>1, <2>2 DEF RP!WorkingFits, RP!EvaluationFits
<1>4. PICK r : /\ side' = R!WithCandidate(c, r)
               /\ r.draft = o.draft /\ r.ref
               /\ o.dev # None => r.dev = o.dev
               /\ o.val # None => r.val = o.val
               /\ call.step = "saveSummary" =>
                    /\ call.op = "candidate" => r.dev # None
                    /\ call.op = "validating" => r.dev # None /\ r.val # None
  <2>1. CASE call.step = "saveVerified"
    <3> DEFINE r == [o EXCEPT !.ref = TRUE, !.verified = TRUE,
                       !.cleanupRequired = FALSE, !.retry = "none",
                       !.receipt = FALSE]
    <3>1. side' = R!WithCandidate(c, r)
      BY <2>1 DEF R!SaveVerified, R!SaveSummary, R!At
    <3>2. r.draft = o.draft /\ r.ref /\ r.dev = o.dev /\ r.val = o.val
      BY <1>2 DEF R!Sidecar
    <3>3. QED
      BY <2>1, <3>1, <3>2
  <2>2. CASE call.step = "saveSummary" /\ call.op = "candidate"
    <3> DEFINE r == [o EXCEPT !.dev = call.summary]
    <3>1. side' = R!WithCandidate(c, r)
      BY <2>2 DEF R!SaveVerified, R!SaveSummary, R!At
    <3>2. r.draft = o.draft /\ r.ref /\ r.dev = call.summary /\ r.val = o.val
      BY <1>2 DEF R!Sidecar
    <3>3. QED
      BY <1>2, <1>3, <2>2, <3>1, <3>2
  <2>3. CASE call.step = "saveSummary" /\ call.op = "validating"
    <3> DEFINE r == [o EXCEPT !.ref = TRUE, !.verified = TRUE,
                       !.cleanupRequired = FALSE, !.retry = "none",
                       !.val = call.summary]
    <3>1. side' = R!WithCandidate(c, r)
      BY <2>3 DEF R!SaveVerified, R!SaveSummary, R!At
    <3>2. r.draft = o.draft /\ r.ref /\ r.dev = o.dev /\ r.val = call.summary
      BY <1>2 DEF R!Sidecar
    <3>3. QED
      BY <1>2, <1>3, <2>3, <3>1, <3>2
  <2>4. QED
    BY <1>1, <1>2, <2>1, <2>2, <2>3
<1> HIDE DEF o
<1>5. /\ DOMAIN side' = DOMAIN side \cup {c} /\ side'[c] = r
      /\ \A d \in DOMAIN side \ {c} : side'[d] = side[d]
  BY <1>4, RecordSaved
<1>6. Agree(job, side') /\ Swept1(job, proc, side')
  <2>1. call.step \in Working
    BY <1>1 DEF Working, Saving
  <2>2. QED
    BY <1>4, <2>1, RecordMatches DEF o
<1>7. GoneFits(job, side, live)'
  <2>1. r.draft \in live \/ r.dev # None
    BY <1>1, <1>2, <1>4
  <2>2. QED
    BY <1>1, <1>5, <2>1 DEF Files, HoldFits, GoneFits
<1>8. /\ CreatesFit(job, call)' /\ ReturnsFit(call, side)'
      /\ DraftFits(job, call, side, live)'
  BY <1>1, <1>2, <1>4, <1>5 DEF CreatesFit, ReturnsFit, DraftFits
<1>9. CallingFits(proc, call)'
  BY <1>1, AtWork DEF Files, CallingFits
<1>10. QED
  BY <1>6, <1>7, <1>8, <1>9 DEF Files, HoldFits

\* The outcome of a deletion.
LEMMA OutcomeKeepsFiles ==
    ASSUME Inv, Files, UNCHANGED <<job, proc>>,
           \/ R!SaveFailCleaned \/ R!SaveFailRequired \/ R!SaveRetryCleaned
           \/ R!SaveCleaned
    PROVE  Files'
<1> DEFINE c == call.cand
           o == side[c]
<1>1. /\ call \in R!Call /\ call.step \in Working
      /\ call.step \in {"saveFailCleaned", "saveFailRequired",
                        "saveRetryCleaned", "saveCleaned"}
      /\ live' = live
      /\ call'.op = call.op /\ c' = c /\ call'.draft = call.draft
      /\ call'.step = "done"
      /\ call'.status \in {"retry", "platform_failure", "cleaned"}
      /\ call'.status = "cleaned" => call.step = "saveCleaned"
  BY RuntimeFacts
  DEF Inv, R!SaveFailCleaned, R!SaveFailRequired, R!SaveRetryCleaned,
      R!SaveCleaned, R!At, R!Return, R!Call, Working, Saving
<1>2. c \in DOMAIN side /\ o \in R!Sidecar /\ call.draft = o.draft
  BY <1>1, FrameFacts, RuntimeFacts DEF Inv
<1>3. PICK r : /\ side' = R!WithCandidate(c, r)
               /\ r.draft = o.draft /\ r.dev = o.dev /\ r.val = o.val
               /\ r.ref => r.cleanupRequired
               /\ call.step = "saveCleaned" => r.receipt
  <2>1. \A phase : LET r == R!Cleaned(o, phase) IN
          /\ r.draft = o.draft /\ r.dev = o.dev /\ r.val = o.val
          /\ ~r.ref /\ r.receipt
    BY <1>2 DEF R!Cleaned, R!Sidecar
  <2>2. \A phase : LET r == R!Obliged(o, phase) IN
          /\ r.draft = o.draft /\ r.dev = o.dev /\ r.val = o.val
          /\ r.cleanupRequired
    BY <1>2 DEF R!Obliged, R!Sidecar
  <2>3. CASE call.step # "saveFailRequired"
    <3>1. \E phase : side' = R!WithCandidate(c, R!Cleaned(o, phase))
      BY <2>3 DEF R!SaveFailCleaned, R!SaveFailRequired, R!SaveRetryCleaned,
                  R!SaveCleaned, R!At
    <3>2. QED
      BY <2>1, <3>1
  <2>4. CASE call.step = "saveFailRequired"
    <3>1. \E phase : side' = R!WithCandidate(c, R!Obliged(o, phase))
      BY <2>4 DEF R!SaveFailCleaned, R!SaveFailRequired, R!SaveRetryCleaned,
                  R!SaveCleaned, R!At
    <3>2. QED
      BY <2>2, <2>4, <3>1
  <2>5. QED
    BY <2>3, <2>4
<1> HIDE DEF o
<1>4. /\ DOMAIN side' = DOMAIN side \cup {c} /\ side'[c] = r
      /\ \A d \in DOMAIN side \ {c} : side'[d] = side[d]
  BY <1>3, RecordSaved
<1>5. Agree(job, side') /\ Swept1(job, proc, side')
  BY <1>1, <1>3, RecordMatches DEF o
<1>6. GoneFits(job, side, live)'
  BY <1>1, <1>3, <1>4 DEF Files, HoldFits, GoneFits
<1>7. /\ CreatesFit(job, call)' /\ ReturnsFit(call, side)'
      /\ DraftFits(job, call, side, live)'
  BY <1>1, <1>2, <1>3, <1>4 DEF CreatesFit, ReturnsFit, DraftFits, o
<1>8. CallingFits(proc, call)'
  BY <1>1, AtWork DEF Files, CallingFits, Working, Saving
<1>9. QED
  BY <1>5, <1>6, <1>7, <1>8 DEF Files, HoldFits

LEMMA WorkKeepsFiles ==
    ASSUME Inv, Files, UNCHANGED <<job, proc>>, R!Work \/ R!Fault
    PROVE  Files'
<1>1. CASE R!Fault
  BY <1>1, CreateKeepsFiles, VerifyKeepsFiles, DeleteKeepsFiles DEF R!Fault
<1>2. CASE R!Work
  BY <1>2, CreateKeepsFiles, VerifyKeepsFiles, DeleteKeepsFiles,
     ReferenceKeepsFiles, ResultKeepsFiles, OutcomeKeepsFiles
  DEF R!Work, R!DraftIsGone
<1>3. QED
  BY <1>1, <1>2

-----------------------------------------------------------------------------
(* What the commands do to the two files.                                  *)

\* A save that leaves what the sidecar file backs, and drops no assessment.
Retains(j, n) ==
    /\ \A c \in Candidates :
         /\ n.cand[c].dev = j.cand[c].dev /\ n.cand[c].val = j.cand[c].val
         /\ n.cand[c].draft = j.cand[c].draft
         /\ n.cand[c].cleaned = j.cand[c].cleaned
         /\ j.cand[c].assessment # "none" => n.cand[c].assessment # "none"
    /\ Settling(j) => Settling(n)

\* A place that knows nothing of a sweep, nor of a result.
Aside(p) ==
    /\ p.pc \notin Calling \cup {"entry", "finDecide", "validating"}
    /\ p.pc \in Sweeping => p.next # "entry"

LEMMA RetainedAgree ==
    ASSUME NEW j, NEW n, NEW files, Agree(j, files), Retains(j, n)
    PROVE  /\ Agree(n, files)
           /\ \A c \in Candidates : Owed(n, files, c) => Owed(j, files, c)
BY DEF Agree, Matches, Retains, Owed

LEMMA AsideFits ==
    ASSUME NEW j, NEW p, NEW files, Aside(p)
    PROVE  Swept1(j, p, files) /\ CallingFits(p, R!Idle)
BY DEF Swept1, CallingFits, Aside, Calling

\* Between two calls there is nothing to say of a frame.
LEMMA IdleFits ==
    ASSUME NEW j, NEW files, NEW drafts, GoneFits(j, files, drafts)
    PROVE  HoldFits(j, R!Idle, files, drafts)
<1>1. R!Idle.step = "idle" /\ R!Idle.op = "none"
  BY DEF R!Idle
<1>2. QED
  BY <1>1 DEF HoldFits, CreatesFit, ReturnsFit, DraftFits

\* A save, or a move, between two calls.
LEMMA SaveKeepsFiles ==
    ASSUME Inv, Files, UNCHANGED runtime, call' = R!Idle,
           Retains(job, job'), CallingFits(proc', R!Idle),
           Swept1(job, proc, side) => Swept1(job', proc', side)
    PROVE  Files'
<1>1. side' = side /\ live' = live
  BY DEF runtime
<1>2. Agree(job', side)
  BY RetainedAgree DEF Files
<1>3. GoneFits(job', side, live)
  <2>1. GoneFits(job, side, live)
    BY DEF Files, HoldFits
  <2>2. DOMAIN side \subseteq Candidates
    BY RuntimeFacts DEF Inv
  <2>3. QED
    BY <2>1, <2>2 DEF GoneFits, Retains
<1>4. HoldFits(job', R!Idle, side, live)
  BY <1>3, IdleFits
<1>5. QED
  BY <1>1, <1>2, <1>4 DEF Files

\* The saves that leave what the sidecar file backs.
LEMMA RecordRetained ==
    ASSUME NEW j \in JobState, NEW c \in Candidates, NEW k \in Candidate,
           LET o == j.cand[c] IN
           /\ k.dev = o.dev /\ k.val = o.val
           /\ k.draft = o.draft /\ k.cleaned = o.cleaned
           /\ o.assessment # "none" => k.assessment # "none"
    PROVE  Retains(j, [j EXCEPT !.cand[c] = k])
<1> DEFINE n == [j EXCEPT !.cand[c] = k]
<1>1. /\ n.cand[c] = k /\ n.terminal = j.terminal
      /\ \A d \in Candidates \ {c} : n.cand[d] = j.cand[d]
  BY OneChanged DEF SameEnd
<1> HIDE DEF n
<1>2. Retains(j, n)
  BY <1>1 DEF Retains, Settling
<1>3. QED
  BY <1>2 DEF n

LEMMA ReassessedRetained ==
    ASSUME NEW j \in JobState, NEW n, NEW outcome, Reassessed(j, n, outcome),
           \A c \in Candidates :
               j.cand[c].assessment # "none" => outcome[c] # "none"
    PROVE  Retains(j, n)
<1>1. \A c \in Candidates : j.cand[c] \in Candidate
  BY DEF JobState
<1>2. \A c \in Candidates :
        /\ n.cand[c].dev = j.cand[c].dev /\ n.cand[c].val = j.cand[c].val
        /\ n.cand[c].draft = j.cand[c].draft
        /\ n.cand[c].cleaned = j.cand[c].cleaned
        /\ n.cand[c].assessment = outcome[c]
  BY <1>1 DEF Reassessed, Candidate
<1>3. QED
  BY <1>2 DEF Reassessed, Retains, Settling

LEMMA DecisionRetained ==
    ASSUME NEW j, JobFits(j)
    PROVE  Retains(j, WithDevelopmentDecision(j))
<1>1. CASE Quantitative(j)
  <2>1. j \in JobState /\ Reassessed(j, WithProvisional(j), Provisional(j))
    BY ProvisionalShape
  <2>2. \A c \in Candidates :
          j.cand[c].assessment # "none" => Provisional(j)[c] # "none"
    BY DEF Provisional
  <2>3. Retains(j, WithProvisional(j))
    BY <2>1, <2>2, ReassessedRetained
  <2>4. QED
    BY <1>1, <2>3 DEF WithDevelopmentDecision, Quantitative
<1>2. CASE ~Quantitative(j)
  <2>1. j \in JobState /\ Reassessed(j, WithSelection(j), Selection(j))
    BY <1>2, SelectionShape
  <2>2. \A c \in Candidates :
          j.cand[c].assessment # "none" => Selection(j)[c] # "none"
    BY DEF Selection
  <2>3. Retains(j, WithSelection(j))
    BY <2>1, <2>2, ReassessedRetained
  <2>4. QED
    BY <1>2, <2>3 DEF WithDevelopmentDecision, Quantitative
<1>3. QED
  BY <1>1, <1>2

LEMMA FinalRetained ==
    ASSUME NEW j, JobFits(j), j.decision.prov \in Candidates, j.terminal = "none",
           Best(j, Eligible(j)) = j.decision.prov
    PROVE  Retains(j, WithFinalDecision(j))
<1> DEFINE d == WithProvisional(j)
           p == j.decision.prov
           a == IF j.cand[p].val \in Passing THEN "winner" ELSE "discard"
           k == [d.cand[p] EXCEPT !.assessment = a]
           n == WithFinalDecision(j)
<1>1. /\ j \in JobState /\ d \in JobState
      /\ Reassessed(j, d, Provisional(j)) /\ d.decision.prov = p
  <2>1. /\ j \in JobState /\ d \in JobState /\ Reassessed(j, d, Provisional(j))
        /\ d.decision = [NoDecision EXCEPT !.outcome = "no_winner", !.prov = p]
    BY ProvisionalShape, ZenonT(40)
  <2>2. QED
    BY <2>1 DEF NoDecision
<1>2. \A c \in Candidates :
        j.cand[c].assessment # "none" => Provisional(j)[c] # "none"
  BY DEF Provisional
<1>3. Retains(j, d)
  BY <1>1, <1>2, ReassessedRetained
<1>4. d.cand[p] \in Candidate
  BY <1>1 DEF JobState
<1>5. /\ k.dev = d.cand[p].dev /\ k.val = d.cand[p].val
      /\ k.draft = d.cand[p].draft /\ k.cleaned = d.cand[p].cleaned
      /\ k.assessment # "none"
  BY <1>4 DEF Candidate
<1>6. n.cand = [d.cand EXCEPT ![p] = k]
  BY <1>1 DEF WithFinalDecision, JobState
<1> HIDE DEF k, d, n
<1>7. n.cand[p] = k /\ \A c \in Candidates \ {p} : n.cand[c] = d.cand[c]
  BY <1>1, <1>6 DEF JobState
<1>8. ~Settling(j)
  BY DEF Settling
<1>9. Retains(j, n)
  BY <1>3, <1>5, <1>7, <1>8 DEF Retains
<1>10. QED
  BY <1>9 DEF n

LEMMA EndRetained ==
    ASSUME NEW j, NEW n, n.cand = j.cand, Settling(j) => Settling(n)
    PROVE  Retains(j, n)
BY DEF Retains

\* The places that know nothing of a sweep, nor of a result.
LEMMA Asides ==
    ASSUME proc \in Proc
    PROVE  /\ Aside(Ended)
           /\ \A pc : pc \notin Calling \cup Sweeping
                        \cup {"entry", "finDecide", "validating"} => Aside(To(pc))
           /\ \A ids, next : next # "entry" => Aside(Sweep(ids, next))
           /\ \A j : Aside(LastSweep(j))
           /\ \A j, next : Aside(FinalComment(j, next))
           /\ \A j : Aside(AfterDecision(j))
           /\ \A j : Aside(ResumeTerminal(j))
<1> USE DEF Proc, Aside, Calling, Sweeping
<1>1. Aside(Ended)
  BY DEF Ended
<1>2. ASSUME NEW pc, pc \notin Calling \cup Sweeping
                       \cup {"entry", "finDecide", "validating"}
      PROVE  Aside(To(pc))
  BY <1>2 DEF To
<1>3. ASSUME NEW ids, NEW next, next # "entry" PROVE Aside(Sweep(ids, next))
  BY <1>3 DEF Sweep
<1>4. \A j : Aside(LastSweep(j))
  BY <1>3 DEF LastSweep
<1>5. ASSUME NEW j, NEW next PROVE Aside(FinalComment(j, next))
  <2>1. Aside([proc EXCEPT !.pc = "postFinal", !.next = next])
    OBVIOUS
  <2>2. QED
    BY <1>2, <1>4, <2>1 DEF FinalComment
<1>6. ASSUME NEW j PROVE Aside(AfterDecision(j))
  BY <1>1, <1>2, <1>3 DEF AfterDecision
<1>7. ASSUME NEW j PROVE Aside(ResumeTerminal(j))
  <2>1. \A c : Aside([To("project") EXCEPT !.cand = c])
    BY DEF To
  <2>2. QED
    BY <1>1, <1>2, <1>5, <2>1 DEF ResumeTerminal
<1>8. QED
  BY <1>1, <1>2, <1>3, <1>4, <1>5, <1>6, <1>7

\* A save, or a move, to such a place.
LEMMA AsideKeepsFiles ==
    ASSUME Inv, Files, proc.pc \notin Calling,
           NEW j, NEW p, Aside(p),
           Continue(p) \/ (Save(j, p) /\ (Accepted(j) => Retains(job, j)))
    PROVE  Files'
<1>1. UNCHANGED runtime /\ call' = R!Idle
  BY DEF Continue, Save, Files, CallingFits
<1>2. Aside(Ended)
  BY DEF Ended, Aside, Calling, Sweeping
<1>3. Aside(proc') /\ Retains(job, job')
  BY <1>2 DEF Continue, Save, Retains
<1>4. QED
  BY <1>1, <1>3, AsideFits, SaveKeepsFiles

LEMMA CommandKeepsFiles ==
    ASSUME Inv, Files, Command
    PROVE  Files'
<1>1. job \in JobState /\ proc \in Proc
  BY CommandsFit DEF Inv
<1>2. ASSUME NEW c \in Candidates, Handoff(c) PROVE Files'
  <2> DEFINE k == [job.cand[c] EXCEPT !.handed = TRUE]
             n == [job EXCEPT !.cand[c] = k]
  <2>1. job.cand[c] \in Candidate
    BY <1>1 DEF JobState
  <2>2. k \in Candidate /\ k.dev = job.cand[c].dev /\ k.val = job.cand[c].val
        /\ k.draft = job.cand[c].draft /\ k.cleaned = job.cand[c].cleaned
        /\ k.assessment = job.cand[c].assessment
    BY <2>1 DEF Candidate
  <2>3. Save(n, Ended) /\ proc.pc = "idle"
    BY <1>2 DEF Handoff, Pc
  <2> HIDE DEF k
  <2>4. Retains(job, n)
    BY <1>1, <2>2, RecordRetained
  <2> HIDE DEF n
  <2>5. proc.pc \notin Calling
    BY <2>3 DEF Calling
  <2>6. QED
    BY <1>1, <2>3, <2>4, <2>5, Asides, AsideKeepsFiles
<1>3. ASSUME NEW c \in Candidates, StartComplete(c) PROVE Files'
  <2> DEFINE at(pc) == [Ended EXCEPT !.pc = pc, !.cand = c]
             p == IF job.cand[c].assessment # "none" /\ job.cand[c].comment
                  THEN [at("sweep") EXCEPT !.todo = {c}]
                  ELSE IF ~job.cand[c].finalized
                              /\ job.cand[c].assessment # "invalid"
                       THEN at("finalize") ELSE at("evaluate")
  <2>1. Continue(p) /\ proc.pc \notin Calling
    BY <1>3 DEF StartComplete, Pc, Calling
  <2>2. Aside(p)
    BY DEF Ended, Aside, Calling, Sweeping
  <2> HIDE DEF p
  <2>3. QED
    BY <2>1, <2>2, AsideKeepsFiles
<1>4. CASE StartFinish
  <2> DEFINE p == [Ended EXCEPT !.pc = "sweep", !.todo = Handed(job),
                                !.next = "entry"]
  <2>1. proc' = p /\ job' = job /\ UNCHANGED runtime /\ call' = call
        /\ proc.pc \notin Calling
    BY <1>4 DEF StartFinish, Continue, Pc, Calling
  <2>2. p.pc = "sweep" /\ p.todo = Handed(job)
    BY DEF Ended
  <2> HIDE DEF p
  <2>3. CallingFits(p, R!Idle) /\ Swept1(job, p, side)
    BY <2>2 DEF CallingFits, Calling, Swept1
  <2>4. Retains(job, job') /\ call' = R!Idle
    BY <2>1 DEF Retains, Files, CallingFits
  <2>5. QED
    BY <2>1, <2>3, <2>4, SaveKeepsFiles
<1>5. QED
  BY <1>2, <1>3, <1>4 DEF Command

LEMMA CompleteKeepsFiles ==
    ASSUME Inv, Files,
           Finalize \/ Decide \/ AfterTry \/ Comment
    PROVE  Files'
<1> DEFINE c == proc.cand
<1>1. job \in JobState /\ proc \in Proc /\ JobFits(job)
  BY CommandsFit DEF Inv, Fits
<1>2. /\ proc.pc \notin Calling /\ c \in Candidates /\ job.cand[c] \in Candidate
  BY AtCandidate
  DEF Inv, Finalize, Decide, AfterTry, Comment, Pc, Calling, OnCandidate
<1>3. /\ Aside(To("evaluate")) /\ Aside(To("comment")) /\ Aside(Ended)
      /\ Aside(Sweep({c}, "idle")) /\ \A j : Aside(AfterDecision(j))
  BY <1>1, Asides DEF Calling, Sweeping
<1>4. CASE Finalize
  <2> DEFINE k == [job.cand[c] EXCEPT !.finalized = TRUE]
             l == [job.cand[c] EXCEPT !.assessment = "invalid"]
             n == [job EXCEPT !.cand[c] = k]
             m == [job EXCEPT !.cand[c] = l]
  <2>1. Save(n, To("evaluate")) \/ Save(m, To("evaluate"))
    BY <1>4 DEF Finalize
  <2>2. /\ k \in Candidate /\ k.dev = job.cand[c].dev /\ k.val = job.cand[c].val
        /\ k.draft = job.cand[c].draft /\ k.cleaned = job.cand[c].cleaned
        /\ k.assessment = job.cand[c].assessment
    BY <1>2 DEF Candidate
  <2>3. /\ l \in Candidate /\ l.dev = job.cand[c].dev /\ l.val = job.cand[c].val
        /\ l.draft = job.cand[c].draft /\ l.cleaned = job.cand[c].cleaned
        /\ l.assessment = "invalid"
    BY <1>2 DEF Candidate, Assessments
  <2> HIDE DEF k, l
  <2>4. Retains(job, n) /\ Retains(job, m)
    BY <1>1, <1>2, <2>2, <2>3, RecordRetained
  <2> HIDE DEF n, m
  <2>5. QED
    BY <1>2, <1>3, <2>1, <2>4, AsideKeepsFiles
<1>5. CASE Decide
  BY <1>1, <1>2, <1>3, <1>5, DecisionRetained, AsideKeepsFiles DEF Decide
<1>6. CASE AfterTry
  BY <1>2, <1>3, <1>6, AsideKeepsFiles DEF AfterTry
<1>7. CASE Comment
  <2> DEFINE k == [job.cand[c] EXCEPT !.comment = TRUE]
             n == [job EXCEPT !.cand[c] = k]
             p == IF proc.tried THEN Ended ELSE Sweep({c}, "idle")
  <2>1. Save(n, p)
    BY <1>7 DEF Comment
  <2>2. /\ k \in Candidate /\ k.dev = job.cand[c].dev /\ k.val = job.cand[c].val
        /\ k.draft = job.cand[c].draft /\ k.cleaned = job.cand[c].cleaned
        /\ k.assessment = job.cand[c].assessment
    BY <1>2 DEF Candidate
  <2> HIDE DEF k
  <2>3. Retains(job, n) /\ Aside(p)
    BY <1>1, <1>2, <1>3, <2>2, RecordRetained
  <2> HIDE DEF n, p
  <2>4. QED
    BY <1>2, <2>1, <2>3, AsideKeepsFiles
<1>8. QED
  BY <1>4, <1>5, <1>6, <1>7

LEMMA EffectKeepsFiles ==
    ASSUME Inv, Files, EffectStep, ~Bind
    PROVE  Files'
<1>1. job \in JobState /\ proc \in Proc
  BY CommandsFit DEF Inv
<1>2. /\ Aside(To("sidecarFinal")) /\ Aside(To("storeFinal")) /\ Aside(Ended)
      /\ Aside(To("storeProjection")) /\ Aside(To("storeClosure"))
      /\ \A j, next : Aside(FinalComment(j, next))
  BY <1>1, Asides DEF Calling, Sweeping
<1>3. ASSUME proc.pc \notin Calling, job' = job, Aside(proc'),
             UNCHANGED <<runtime, call>>
      PROVE  Files'
  BY <1>3, AsideFits, SaveKeepsFiles DEF Files, CallingFits, Retains
<1>4. CASE PostFinal \/ SidecarFinal
  BY <1>2, <1>3, <1>4 DEF PostFinal, SidecarFinal, Pc, Calling
<1>5. CASE StoreFinal
  <2>1. Retains(job, [job EXCEPT !.finalReceipt = TRUE])
    BY <1>1, EndRetained DEF JobState, Settling
  <2>2. proc.pc \notin Calling
    BY <1>5 DEF StoreFinal, Pc, Calling
  <2>3. QED
    BY <1>2, <1>5, <2>1, <2>2, AsideKeepsFiles DEF StoreFinal
<1>6. Settling(job) => ProjectedOutcome = job.terminal
  BY DEF Settling, ProjectedOutcome
<1>7. CASE Project
  <2> DEFINE n == [job EXCEPT !.terminal = ProjectedOutcome]
  <2>1. proc.pc \notin Calling
    BY <1>7 DEF Project, Pc, Calling
  <2>2. Retains(job, n)
    <3>1. n.cand = job.cand /\ n.terminal = ProjectedOutcome
      BY <1>1 DEF JobState
    <3> HIDE DEF n
    <3>2. QED
      BY <1>6, <3>1, EndRetained DEF Settling
  <2>3. \/ Save(n, FinalComment(n, "idle")) \/ Continue(Ended)
        \/ /\ UNCHANGED <<runtime, call>> /\ job' = job
           /\ proc' = To("storeProjection")
    BY <1>7 DEF Project
  <2> HIDE DEF n
  <2>4. QED
    BY <1>2, <1>3, <2>1, <2>2, <2>3, AsideKeepsFiles
<1>8. CASE StoreProjection
  <2> DEFINE n == [job EXCEPT !.projection = proc.cand,
                              !.terminal = ProjectedOutcome]
  <2>1. proc.pc \notin Calling /\ Save(n, FinalComment(n, "idle"))
    BY <1>8 DEF StoreProjection, Pc, Calling
  <2>2. Retains(job, n)
    <3>1. n.cand = job.cand /\ n.terminal = ProjectedOutcome
      BY <1>1 DEF JobState
    <3> HIDE DEF n
    <3>2. QED
      BY <1>6, <3>1, EndRetained DEF Settling
  <2> HIDE DEF n
  <2>3. QED
    BY <1>2, <2>1, <2>2, AsideKeepsFiles
<1>9. CASE Close
  <2> DEFINE n == [job EXCEPT !.terminal = "no_winner"]
  <2>1. proc.pc \notin Calling
    BY <1>9 DEF Close, Pc, Calling
  <2>2. Retains(job, n)
    BY <1>1, EndRetained DEF JobState, Settling
  <2>3. \/ Save(n, FinalComment(n, "idle")) \/ Continue(Ended)
        \/ /\ UNCHANGED <<runtime, call>> /\ job' = job
           /\ proc' = To("storeClosure")
    BY <1>9 DEF Close
  <2> HIDE DEF n
  <2>4. QED
    BY <1>2, <1>3, <2>1, <2>2, <2>3, AsideKeepsFiles
<1>10. CASE StoreClosure
  <2> DEFINE n == [job EXCEPT !.closure = TRUE, !.terminal = "no_winner"]
  <2>1. proc.pc \notin Calling /\ Save(n, FinalComment(n, "idle"))
    BY <1>10 DEF StoreClosure, Pc, Calling
  <2>2. Retains(job, n)
    <3>1. n.cand = job.cand /\ n.terminal = "no_winner"
      BY <1>1 DEF JobState
    <3> HIDE DEF n
    <3>2. QED
      BY <3>1, EndRetained DEF Settling
  <2> HIDE DEF n
  <2>3. QED
    BY <1>2, <2>1, <2>2, AsideKeepsFiles
<1>11. QED
  BY <1>4, <1>5, <1>7, <1>8, <1>9, <1>10 DEF EffectStep

\* A sweep of all candidates on the way to a finish.
LEMMA FinishSweepFits ==
    ASSUME proc \in Proc, NEW j, NEW files
    PROVE  LET p == ControllerFinish(j) IN
           CallingFits(p, R!Idle) /\ Swept1(j, p, files)
<1>1. /\ ControllerFinish(j).pc = "sweep"
      /\ ControllerFinish(j).todo = Handed(j)
  BY DEF ControllerFinish, Proc
<1>2. QED
  BY <1>1 DEF CallingFits, Calling, Swept1

LEMMA BindKeepsFiles ==
    ASSUME Inv, Files, Bind
    PROVE  Files'
<1>1. proc \in Proc /\ job' = job /\ UNCHANGED runtime /\ call' = R!Idle
      /\ Aside(Ended)
  BY CommandsFit, Asides DEF Inv, Bind, Files, CallingFits, Pc, Calling
<1>2. proc' = ControllerFinish(job) \/ proc' = Ended
  BY DEF Bind
<1>3. CallingFits(proc', R!Idle) /\ Swept1(job', proc', side)
  BY <1>1, <1>2, FinishSweepFits, AsideFits
<1>4. QED
  BY <1>1, <1>3, SaveKeepsFiles DEF Retains

LEMMA EntryKeepsFiles ==
    ASSUME Inv, Files, EntryOfCli \/ EntryOfController
    PROVE  Files'
<1>1. /\ proc \in Proc /\ job' = job /\ UNCHANGED runtime /\ call' = R!Idle
      /\ proc.pc = "entry"
  BY CommandsFit
  DEF Inv, EntryOfCli, EntryOfController, Continue, Files, CallingFits, Pc, Calling
<1>2. /\ Aside(Ended) /\ Aside(To("bindVerify"))
      /\ \A j, next : Aside(FinalComment(j, next))
      /\ \A j : Aside(ResumeTerminal(j))
  BY <1>1, Asides DEF Calling, Sweeping
<1>3. Aside(proc') \/ proc' = ControllerFinish(job) \/ proc' = To("finDecide")
  BY <1>2 DEF EntryOfCli, EntryOfController, Continue
<1>4. CASE proc' = To("finDecide")
  <2>1. To("finDecide").pc = "finDecide"
    BY <1>1 DEF To, Proc
  <2>2. CallingFits(proc', R!Idle)
    BY <1>4, <2>1 DEF CallingFits, Calling
  <2>3. Swept1(job, proc, side) => Swept1(job', proc', side)
    BY <1>1, <1>4, <2>1 DEF Swept1, Sweeping
  <2>4. QED
    BY <1>1, <2>2, <2>3, SaveKeepsFiles DEF Retains
<1>5. CASE Aside(proc') \/ proc' = ControllerFinish(job)
  <2>1. CallingFits(proc', R!Idle) /\ Swept1(job', proc', side)
    BY <1>1, <1>5, FinishSweepFits, AsideFits
  <2>2. QED
    BY <1>1, <2>1, SaveKeepsFiles DEF Retains
<1>6. QED
  BY <1>3, <1>4, <1>5

LEMMA FinDecideKeepsFiles ==
    ASSUME Inv, Files, FinDecide
    PROVE  Files'
<1> DEFINE n == WithDevelopmentDecision(job)
<1>1. /\ proc \in Proc /\ JobFits(job) /\ proc.pc = "finDecide"
      /\ Save(n, AfterFinDecide(n)) /\ call' = R!Idle /\ UNCHANGED runtime
  BY CommandsFit DEF Inv, Fits, FinDecide, Save, Pc, Files, CallingFits, Calling
<1>2. /\ Retains(job, n)
      /\ Accepted(n) => Handed(n) = Handed(job) /\ n.terminal = job.terminal
  BY <1>1, DecisionRetained, DecisionSaved
<1> HIDE DEF n
<1>3. Aside(AfterFinDecide(n)) \/ AfterFinDecide(n).pc = "validating"
  <2>1. \A c : /\ [proc EXCEPT !.cand = c, !.pc = "validating"].pc = "validating"
               /\ Aside([proc EXCEPT !.cand = c, !.pc = "finalDecide"])
               /\ Aside([To("project") EXCEPT !.cand = c])
    BY <1>1 DEF Proc, Aside, To, Calling, Sweeping
  <2>2. /\ Aside(To("bindVerify")) /\ Aside(To("bind")) /\ Aside(To("close"))
        /\ \A j, next : Aside(FinalComment(j, next))
    BY <1>1, Asides DEF Calling, Sweeping
  <2>3. QED
    BY <2>1, <2>2 DEF AfterFinDecide
<1>4. Aside(Ended)
  BY <1>1, Asides
<1>5. CASE Aside(proc')
  BY <1>1, <1>2, <1>5, AsideFits, SaveKeepsFiles DEF Save, Retains
<1>6. CASE proc'.pc = "validating" /\ job' = n /\ Accepted(n)
  <2>1. CallingFits(proc', R!Idle)
    BY <1>6 DEF CallingFits, Calling
  <2>2. Retains(job, job') /\ Handed(job') = Handed(job)
        /\ job'.terminal = job.terminal
    BY <1>2, <1>6
  <2>3. Handed(job) \subseteq Candidates
    BY DEF Handed
  <2>4. \A c \in Candidates : Owed(job', side, c) => Owed(job, side, c)
    BY <2>2, RetainedAgree DEF Files
  <2>5. Swept1(job, proc, side) => Swept1(job', proc', side)
    BY <1>1, <1>6, <2>2, <2>3, <2>4 DEF Swept1, Sweeping, Settling
  <2>6. QED
    BY <1>1, <2>1, <2>2, <2>5, SaveKeepsFiles
<1>7. QED
  BY <1>1, <1>3, <1>4, <1>5, <1>6 DEF Save

LEMMA RetryDecideKeepsFiles ==
    ASSUME Inv, Files, RetryDecide
    PROVE  Files'
<1> DEFINE n == WithDevelopmentDecision(job)
<1>1. /\ proc \in Proc /\ JobFits(job) /\ proc.pc = "retryDecide"
      /\ Save(n, To("sweep")) /\ call' = R!Idle /\ UNCHANGED runtime
  BY CommandsFit DEF Inv, Fits, RetryDecide, Save, Pc, Files, CallingFits, Calling
<1>2. /\ Retains(job, n)
      /\ Accepted(n) => Handed(n) = Handed(job) /\ n.terminal = job.terminal
  BY <1>1, DecisionRetained, DecisionSaved
<1> HIDE DEF n
<1>3. Aside(Ended)
  BY <1>1, Asides
<1>4. CASE Accepted(n)
  <2>1. /\ proc'.pc = "sweep" /\ proc'.next = proc.next /\ proc'.todo = proc.todo
        /\ job' = n
    BY <1>1, <1>4 DEF Save, To, Proc
  <2>2. CallingFits(proc', R!Idle)
    BY <2>1 DEF CallingFits, Calling
  <2>3. Handed(job) \subseteq Candidates
    BY DEF Handed
  <2>4. \A c \in Candidates : Owed(n, side, c) => Owed(job, side, c)
    BY <1>2, RetainedAgree DEF Files
  <2>5. Swept1(job, proc, side) => Swept1(job', proc', side)
    BY <1>1, <1>2, <1>4, <2>1, <2>3, <2>4 DEF Swept1, Sweeping, Settling
  <2>6. QED
    BY <1>1, <1>2, <2>1, <2>2, <2>5, SaveKeepsFiles
<1>5. CASE ~Accepted(n)
  BY <1>1, <1>3, <1>5, AsideFits, SaveKeepsFiles DEF Save, Retains
<1>6. QED
  BY <1>4, <1>5

LEMMA FinishKeepsFiles ==
    ASSUME Inv, Files, AfterFailure \/ FinalDecide
    PROVE  Files'
<1>1. /\ proc \in Proc /\ JobFits(job) /\ proc.pc \notin Calling
  BY CommandsFit DEF Inv, Fits, AfterFailure, FinalDecide, Pc, Calling
<1>2. /\ Aside(Ended) /\ Aside(To("bindVerify")) /\ Aside(To("project"))
      /\ Aside(To("close")) /\ \A j : Aside(LastSweep(j))
      /\ \A j, next : Aside(FinalComment(j, next))
  BY <1>1, Asides DEF Calling, Sweeping
<1>3. CASE AfterFailure
  BY <1>1, <1>2, <1>3, AsideKeepsFiles DEF AfterFailure
<1>4. CASE FinalDecide
  <2> DEFINE n == WithFinalDecision(job)
  <2>1. CASE Best(job, Eligible(job)) # job.decision.prov
    BY <1>1, <1>2, <1>4, <2>1, AsideKeepsFiles DEF FinalDecide
  <2>2. CASE Best(job, Eligible(job)) = job.decision.prov
    <3>1. job.decision.prov \in Candidates /\ job.terminal = "none"
      BY <1>4, AtDeciding DEF FinalDecide, Pc, Deciding, Inv, Handed
    <3>2. Retains(job, n)
      BY <1>1, <2>2, <3>1, FinalRetained
    <3>3. \E p : Aside(p) /\ Save(n, p)
      BY <1>2, <1>4, <2>2 DEF FinalDecide
    <3> HIDE DEF n
    <3>4. QED
      BY <1>1, <3>2, <3>3, AsideKeepsFiles
  <2>3. QED
    BY <2>1, <2>2
<1>5. QED
  BY <1>3, <1>4

\* A method is entered.
LEMMA InvokeKeepsFiles ==
    ASSUME Inv, Files, NEW frame, R!Begin(frame), job' = job,
           CallingFits(proc', frame), Swept1(job, proc', side),
           CreatesFit(job, frame), ReturnsFit(frame, side),
           DraftFits(job, frame, side, live)
    PROVE  Files'
<1>1. call' = frame /\ side' = side /\ live' = live
  BY DEF R!Begin
<1>2. Agree(job, side) /\ GoneFits(job, side, live)
  BY DEF Files, HoldFits
<1>3. QED
  BY <1>1, <1>2 DEF Files, HoldFits

LEMMA FrameFields ==
    \A op, c, step, draft, status :
        LET f == R!Frame(op, c, step, draft)
            g == R!Finished(op, c, draft, status)
        IN /\ f.op = op /\ f.cand = c /\ f.step = step /\ f.draft = draft
           /\ f.status = "none"
           /\ g.op = op /\ g.cand = c /\ g.step = "done" /\ g.draft = draft
           /\ g.status = status
BY DEF R!Frame, R!Finished

\* Where a candidate evaluation starts.
LEMMA CandidateEntry ==
    ASSUME Inv, Files, NEW c \in Candidates, job.cand[c].assessment = "none"
    PROVE  LET f == R!EnterCandidate(c) IN
           /\ f.op = "candidate" /\ f.cand = c
           /\ CreatesFit(job, f) /\ ReturnsFit(f, side)
           /\ DraftFits(job, f, side, live)
<1> DEFINE f == R!EnterCandidate(c)
           r == side[c]
<1>1. /\ Matches(job, side, c) /\ GoneFits(job, side, live)
      /\ c \in DOMAIN side => (r.val # None => r.dev # None)
  BY RuntimeFacts DEF Inv, Files, Agree, HoldFits
<1>2. f.op = "candidate" /\ f.cand = c
  BY FrameFields DEF R!EnterCandidate
<1>3. CASE c \notin DOMAIN side
  <2>1. f.step = "create"
    BY <1>3, FrameFields DEF R!EnterCandidate
  <2>2. job.cand[c].draft = None
    BY <1>1, <1>3 DEF Matches
  <2> HIDE DEF f
  <2>3. QED
    BY <1>2, <2>1, <2>2 DEF CreatesFit, ReturnsFit, DraftFits, f
<1>4. CASE c \in DOMAIN side /\ r.dev # None
  <2>1. f.step = "done" /\ f.status = "ok" /\ f.draft = r.draft
    BY <1>4, FrameFields DEF R!EnterCandidate, None
  <2> HIDE DEF f, r
  <2>2. QED
    BY <1>2, <1>4, <2>1 DEF CreatesFit, ReturnsFit, DraftFits, f, r
<1>5. CASE c \in DOMAIN side /\ r.dev = None
  <2>1. \/ f.step = "done" /\ f.status = "raised"
        \/ f.step = "create"
        \/ f.step = "retryDelete" /\ r.cleanupRequired
        \/ f.step = "run" /\ r.ref /\ ~r.cleanupRequired /\ r.verified
             /\ f.draft = r.draft
        \/ f.step = "verify" /\ ~r.verified
    BY <1>1, <1>5, FrameFields DEF R!EnterCandidate, R!HasVerifiedReference, None
  <2>2. job.cand[c].draft = None
    BY <1>1, <1>5 DEF Matches
  <2>3. f.step = "run" => f.draft \in live
    BY <1>1, <1>5, <2>1 DEF GoneFits
  <2> HIDE DEF f, r
  <2>4. QED
    BY <1>2, <2>1, <2>2, <2>3 DEF CreatesFit, ReturnsFit, DraftFits, f, r
<1>6. QED
  BY <1>2, <1>3, <1>4, <1>5

\* Where a validating evaluation starts, with nothing owed.
LEMMA ValidatingEntry ==
    ASSUME Inv, Files, NEW c \in Candidates, ~Owed(job, side, c)
    PROVE  LET f == R!EnterValidating(c) IN
           /\ f.op = "validating" /\ f.cand = c
           /\ CreatesFit(job, f) /\ ReturnsFit(f, side)
           /\ DraftFits(job, f, side, live)
<1> DEFINE f == R!EnterValidating(c)
           r == side[c]
<1>1. f.op = "validating" /\ f.cand = c
  BY FrameFields DEF R!EnterValidating
<1>2. \/ f.step = "done" /\ f.status = "raised"
      \/ /\ c \in DOMAIN side /\ r.val # None
         /\ f.step = "done" /\ f.status = "ok" /\ f.draft = r.draft
      \/ /\ c \in DOMAIN side /\ r.dev # None
         /\ \/ f.step = "create" /\ r.receipt /\ r.retry = "validating"
            \/ f.step \in {"retryDelete", "verify"}
  BY FrameFields DEF R!EnterValidating, None
<1>3. f.step = "create" => job.cand[c].draft = None
  BY <1>2 DEF Owed
<1> HIDE DEF f, r
<1>4. QED
  BY <1>1, <1>2, <1>3 DEF CreatesFit, ReturnsFit, DraftFits, f, r

\* Where the cleanup of a stored draft starts.
LEMMA CleanupEntry ==
    ASSUME Inv, Files, NEW c \in Candidates, job.cand[c].draft # None, NEW retained
    PROVE  LET f == R!EnterCleanup(job.cand[c].draft, retained) IN
           /\ f.op = "cleanup" /\ f.cand = c
           /\ CreatesFit(job, f) /\ ReturnsFit(f, side)
           /\ DraftFits(job, f, side, live)
<1> DEFINE draft == job.cand[c].draft
           f == R!EnterCleanup(draft, retained)
           r == side[c]
<1>1. /\ Matches(job, side, c)
      /\ \A d, e \in DOMAIN side : side[d].draft = side[e].draft => d = e
  BY RuntimeFacts DEF Inv, Files, Agree
<1>2. c \in DOMAIN side /\ r.draft = draft
  BY <1>1 DEF Matches
<1>3. R!Owners(draft) = {c}
  BY <1>1, <1>2 DEF R!Owners
<1>4. (CHOOSE x \in R!Owners(draft) : TRUE) = c
  BY <1>3
<1>5. f = IF r.receipt THEN R!Finished("cleanup", c, draft, "cleaned")
          ELSE IF c \in retained THEN R!Finished("cleanup", c, draft, "failed")
          ELSE IF ~r.ref THEN R!Finished("cleanup", c, draft, "raised")
          ELSE R!Frame("cleanup", c, "delete", draft)
  BY <1>3, <1>4 DEF R!EnterCleanup
<1> HIDE DEF f
<1>6. /\ f.op = "cleanup" /\ f.cand = c
      /\ \/ f.step = "done" /\ f.status = "cleaned" /\ r.receipt
         \/ f.step = "done" /\ f.status = "failed" /\ ~r.receipt
         \/ f.step = "done" /\ f.status = "raised"
         \/ f.step = "delete"
  BY <1>5, FrameFields
<1>7. r.dev # None \/ job.cand[c].assessment # "none"
  BY <1>1 DEF Matches
<1>8. QED
  BY <1>2, <1>6, <1>7 DEF CreatesFit, ReturnsFit, DraftFits, f

LEMMA EvaluateKeepsFiles ==
    ASSUME Inv, Files, Evaluate
    PROVE  Files'
<1> DEFINE c == proc.cand
           k == job.cand[c]
<1>1. /\ job \in JobState /\ proc \in Proc /\ proc.pc = "evaluate"
      /\ c \in Candidates /\ k \in Candidate
  BY CommandsFit, AtCandidate DEF Inv, Evaluate, Pc, OnCandidate
<1>2. /\ Aside(Ended) /\ Aside(To("decide")) /\ proc.pc \notin Calling
      /\ To("evaluating").pc = "evaluating"
  BY <1>1, Asides DEF Calling, Sweeping, To, Proc
<1>3. CASE k.assessment = "none" /\ k.finalized /\ job.mode = "foundry_evaluation"
  <2>1. Invoke(R!EnterCandidate(c), To("evaluating"))
    BY <1>3 DEF Evaluate
  <2>2. R!Begin(R!EnterCandidate(c)) /\ proc' = To("evaluating") /\ job' = job
    BY <2>1 DEF Invoke
  <2>3. LET f == R!EnterCandidate(c) IN
        /\ f.op = "candidate" /\ f.cand = c
        /\ CreatesFit(job, f) /\ ReturnsFit(f, side)
        /\ DraftFits(job, f, side, live)
    BY <1>1, <1>3, CandidateEntry
  <2>4. CallingFits(proc', R!EnterCandidate(c))
    BY <1>2, <2>2, <2>3 DEF CallingFits, Calling
  <2>5. Swept1(job, proc', side)
    BY <1>2, <2>2 DEF Swept1, Sweeping
  <2>6. QED
    BY <2>2, <2>3, <2>4, <2>5, InvokeKeepsFiles
<1>4. CASE k.assessment # "none" \/ ~k.finalized
  <2>1. Continue(To("decide")) \/ Continue(Ended)
    BY <1>4 DEF Evaluate
  <2>2. QED
    BY <1>2, <2>1, AsideKeepsFiles
<1>5. CASE k.assessment = "none" /\ k.finalized /\ job.mode # "foundry_evaluation"
  <2> DEFINE checked(b) == [k EXCEPT !.checks = IF b THEN "passed" ELSE "failed",
                                     !.assessment = IF b THEN "keep" ELSE "discard"]
             kept == [k EXCEPT !.assessment = "keep"]
  <2>1. job.mode \in Modes
    BY <1>1, ModeAssumption DEF JobState
  <2>2. \A b \in BOOLEAN :
          [job EXCEPT !.cand[c].checks = IF b THEN "passed" ELSE "failed",
                      !.cand[c].assessment = IF b THEN "keep" ELSE "discard"]
            = [job EXCEPT !.cand[c] = checked(b)]
    BY <1>1, ZenonT(40) DEF JobState, Candidate
  <2>3. \/ \E b \in BOOLEAN :
             Save([job EXCEPT !.cand[c] = checked(b)], To("decide"))
        \/ Save([job EXCEPT !.cand[c] = kept], To("decide"))
    BY <1>5, <2>1, <2>2 DEF Evaluate, Modes
  <2>4. ASSUME NEW l \in {checked(TRUE), checked(FALSE), kept}
        PROVE  /\ l \in Candidate /\ l.dev = k.dev /\ l.val = k.val
               /\ l.draft = k.draft /\ l.cleaned = k.cleaned
               /\ l.assessment # "none"
    BY <1>1 DEF Candidate, Assessments
  <2>5. ASSUME NEW l \in {checked(TRUE), checked(FALSE), kept}
        PROVE  Retains(job, [job EXCEPT !.cand[c] = l])
    <3> HIDE DEF checked, kept
    <3>1. QED
      BY <1>1, <2>4, RecordRetained
  <2> HIDE DEF checked, kept
  <2>6. QED
    BY <1>2, <2>3, <2>5, AsideKeepsFiles
<1>6. QED
  BY <1>3, <1>4, <1>5

LEMMA ValidateKeepsFiles ==
    ASSUME Inv, Files, Validate
    PROVE  Files'
<1>1. /\ proc \in Proc /\ proc.pc = "validating"
      /\ R!Begin(R!EnterValidating(proc.cand)) /\ proc' = To("validated")
      /\ job' = job
  BY CommandsFit DEF Inv, Validate, Invoke, Pc
<1>2. /\ proc.cand \in Handed(job) /\ proc.cand \in Candidates
      /\ job.terminal = "none"
  BY <1>1, AtDeciding DEF Inv, Deciding, Handed
<1>3. ~Owed(job, side, proc.cand)
  BY <1>1, <1>2 DEF Files, Swept1, Settling
<1>4. LET f == R!EnterValidating(proc.cand) IN
        /\ f.op = "validating" /\ f.cand = proc.cand
        /\ CreatesFit(job, f) /\ ReturnsFit(f, side)
        /\ DraftFits(job, f, side, live)
  BY <1>2, <1>3, ValidatingEntry
<1>5. To("validated").pc = "validated"
  BY <1>1 DEF To, Proc
<1>6. CallingFits(proc', R!EnterValidating(proc.cand)) /\ Swept1(job, proc', side)
  BY <1>1, <1>4, <1>5 DEF CallingFits, Calling, Swept1, Sweeping
<1>7. QED
  BY <1>1, <1>4, <1>6, InvokeKeepsFiles

LEMMA SweepStepKeepsFiles ==
    ASSUME Inv, Files, SweepStep
    PROVE  Files'
<1> DEFINE c == Least(proc.todo)
<1>1. /\ proc \in Proc /\ proc.pc = "sweep" /\ proc.next \in Resting
      /\ proc.todo \in SUBSET Handed(job) /\ HasFirst(Handed(job))
      /\ Handed(job) \in SUBSET Candidates /\ job \in JobState
      /\ \A d \in Candidates : job.cand[d].cleaned => job.cand[d].draft # None
  BY CommandsFit
  DEF Inv, SweepStep, Pc, Fits, CommandFits, ControlFits, Sweeping, HandedFits,
      Handed, JobFits, Accepted
<1>2. proc.pc \notin Calling /\ call = R!Idle /\ Swept1(job, proc, side)
  BY <1>1 DEF Calling, Files, CallingFits
<1>3. CASE proc.todo = {}
  <2> DEFINE p == [proc EXCEPT !.pc = proc.next]
  <2>1. Continue(p)
    BY <1>3 DEF SweepStep
  <2>2. p.pc = proc.next
    BY <1>1 DEF Proc
  <2> HIDE DEF p
  <2>3. CallingFits(p, R!Idle)
    BY <1>1, <2>2 DEF CallingFits, Calling, Resting
  <2>4. Swept1(job, p, side)
    BY <1>1, <1>2, <1>3, <2>2 DEF Swept1, Sweeping, Resting
  <2>5. QED
    BY <1>2, <2>1, <2>3, <2>4, SaveKeepsFiles DEF Continue, Retains
<1>4. CASE proc.todo # {} /\ c \in PendingCleanups(job)
  <2>1. /\ R!Begin(R!EnterCleanup(job.cand[c].draft, Retained))
        /\ proc' = To("sweeping") /\ job' = job
    BY <1>4 DEF SweepStep, Invoke
  <2>2. c \in Candidates /\ job.cand[c].draft # None
    BY <1>4 DEF PendingCleanups, Handed
  <2>3. LET f == R!EnterCleanup(job.cand[c].draft, Retained) IN
        /\ f.op = "cleanup" /\ f.cand = c
        /\ CreatesFit(job, f) /\ ReturnsFit(f, side)
        /\ DraftFits(job, f, side, live)
    BY <2>2, CleanupEntry
  <2>4. /\ proc'.pc = "sweeping" /\ proc'.todo = proc.todo
        /\ proc'.next = proc.next
    BY <1>1, <2>1 DEF To, Proc
  <2>5. CallingFits(proc', R!EnterCleanup(job.cand[c].draft, Retained))
    BY <2>3, <2>4 DEF CallingFits, Calling
  <2>6. Swept1(job, proc', side)
    BY <1>1, <1>2, <2>4 DEF Swept1, Sweeping
  <2>7. QED
    BY <2>1, <2>3, <2>5, <2>6, InvokeKeepsFiles
<1>5. CASE proc.todo # {} /\ c \notin PendingCleanups(job)
  <2> DEFINE p == [proc EXCEPT !.todo = @ \ {c}]
  <2>1. Continue(p)
    BY <1>5 DEF SweepStep
  <2>2. p.pc = "sweep" /\ p.todo = proc.todo \ {c} /\ p.next = proc.next
    BY <1>1 DEF Proc
  <2> HIDE DEF p
  <2>3. c \in Handed(job)
    BY <1>1, <1>5, LeastIsMember
  <2>4. ~Settling(job) => ~Owed(job, side, c)
    <3>1. Matches(job, side, c)
      BY <1>1, <2>3 DEF Files, Agree
    <3>2. job.cand[c] \in Candidate
      BY <1>1, <2>3 DEF JobState
    <3>3. QED
      BY <1>5, <2>3, <3>1, <3>2 DEF PendingCleanups, Matches, Owed, Candidate
  <2>5. Swept1(job, p, side)
    BY <1>1, <1>2, <2>2, <2>4 DEF Swept1, Sweeping
  <2>6. CallingFits(p, R!Idle)
    BY <2>2 DEF CallingFits, Calling
  <2>7. QED
    BY <1>2, <2>1, <2>5, <2>6, SaveKeepsFiles DEF Continue, Retains
<1>6. QED
  BY <1>3, <1>4, <1>5

\* The fields a retry resets.
LEMMA RetryFields ==
    ASSUME NEW j \in JobState, NEW c \in Candidates, NEW phase
    PROVE  LET n == WithRetry(j, c, phase) IN
           /\ n.cand[c].draft = None /\ n.cand[c].cleaned = FALSE
           /\ n.cand[c].val = None
           /\ IF phase = "candidate"
              THEN n.cand[c].dev = None /\ n.cand[c].assessment = "none"
              ELSE /\ n.cand[c].dev = j.cand[c].dev
                   /\ n.cand[c].assessment = j.cand[c].assessment
           /\ \A d \in Candidates \ {c} : n.cand[d] = j.cand[d]
           /\ n.terminal = "none"
<1> DEFINE reset == IF phase = "candidate"
                    THEN [j.cand[c] EXCEPT !.dev = None, !.val = None,
                            !.assessment = "none", !.comment = FALSE]
                    ELSE [j.cand[c] EXCEPT !.val = None]
           k == [reset EXCEPT !.draft = None, !.cleaned = FALSE]
           n == WithRetry(j, c, phase)
<1>1. j.cand[c] \in Candidate
  BY DEF JobState
<1>2. /\ k.draft = None /\ k.cleaned = FALSE /\ k.val = None
      /\ IF phase = "candidate"
         THEN k.dev = None /\ k.assessment = "none"
         ELSE k.dev = j.cand[c].dev /\ k.assessment = j.cand[c].assessment
  BY <1>1 DEF Candidate
<1>3. n.cand = [j.cand EXCEPT ![c] = k] /\ n.terminal = "none"
  BY DEF WithRetry, JobState
<1> HIDE DEF k, n
<1>4. n.cand[c] = k /\ \A d \in Candidates \ {c} : n.cand[d] = j.cand[d]
  BY <1>3 DEF JobState
<1>5. QED
  BY <1>2, <1>3, <1>4 DEF n

\* A retry of a candidate leaves the files in agreement.
LEMMA RetryAgrees ==
    ASSUME Inv, Files, ~Settling(job), NEW c \in Candidates, NEW phase,
           phase = "candidate" /\ c \in DOMAIN side /\ side[c].ref =>
               job.cand[c].assessment = "none"
    PROVE  LET n == WithRetry(job, c, phase) IN
           /\ Agree(n, side) /\ GoneFits(n, side, live)
           /\ Handed(job) \subseteq Candidates /\ ~Owed(n, side, c)
           /\ \A d \in Candidates : Owed(n, side, d) => Owed(job, side, d)
<1> DEFINE n == WithRetry(job, c, phase)
<1>1. /\ n.cand[c].draft = None /\ n.cand[c].cleaned = FALSE
      /\ n.cand[c].val = None
      /\ IF phase = "candidate"
         THEN n.cand[c].dev = None /\ n.cand[c].assessment = "none"
         ELSE /\ n.cand[c].dev = job.cand[c].dev
              /\ n.cand[c].assessment = job.cand[c].assessment
      /\ \A d \in Candidates \ {c} : n.cand[d] = job.cand[d]
      /\ n.terminal = "none"
  BY CommandsFit, RetryFields, ZenonT(40) DEF Inv
<1> HIDE DEF n
<1>2. \A d \in Candidates : Matches(job, side, d)
  BY DEF Files, Agree
<1>3. Matches(n, side, c)
  BY <1>1, <1>2 DEF Matches
<1>4. \A d \in Candidates \ {c} : Matches(n, side, d)
  BY <1>1, <1>2 DEF Matches
<1>5. GoneFits(n, side, live)
  <2>1. DOMAIN side \subseteq Candidates
    BY RuntimeFacts DEF Inv
  <2>2. QED
    BY <1>1, <2>1 DEF Files, HoldFits, GoneFits
<1>6. \A d \in Candidates : Owed(n, side, d) => d # c /\ Owed(job, side, d)
  BY <1>1 DEF Owed
<1>7. Handed(job) \subseteq Candidates
  BY DEF Handed
<1>8. QED
  BY <1>3, <1>4, <1>5, <1>6, <1>7 DEF Agree, n

\* The state file after the result of a method.
LEMMA ResultKeepsAgree ==
    ASSUME Inv, Files, NEW n, NEW p, SaveResult(n, p),
           Accepted(n) =>
               /\ Agree(n, side) /\ GoneFits(n, side, live)
               /\ CallingFits(p, R!Idle) /\ Swept1(n, p, side)
    PROVE  Files'
<1>1. /\ UNCHANGED runtime /\ call' = R!Idle
      /\ IF Accepted(n) THEN job' = n /\ proc' = p
                        ELSE job' = job /\ proc' = Ended
  BY DEF SaveResult
<1>2. side' = side /\ live' = live
  BY <1>1 DEF runtime
<1>3. CASE Accepted(n)
  <2>1. HoldFits(n, R!Idle, side, live)
    BY <1>3, IdleFits
  <2>2. QED
    BY <1>1, <1>2, <1>3, <2>1 DEF Files
<1>4. CASE ~Accepted(n)
  <2>1. Aside(Ended)
    BY DEF Ended, Aside, Calling, Sweeping
  <2>2. QED
    BY <1>1, <1>4, <2>1, AsideFits, SaveKeepsFiles DEF Retains
<1>5. QED
  BY <1>3, <1>4

LEMMA DropKeepsFiles ==
    ASSUME Inv, Files, NEW p, DropResult(p),
           CallingFits(p, R!Idle), Swept1(job, p, side)
    PROVE  Files'
BY SaveKeepsFiles DEF DropResult, Retains

\* A result stored for one candidate.
LEMMA StoredAgrees ==
    ASSUME Inv, Files, NEW c \in Candidates, NEW n,
           \A d \in Candidates \ {c} : n.cand[d] = job.cand[d],
           Settling(n) <=> Settling(job),
           n.cand[c].cleaned = job.cand[c].cleaned,
           job.cand[c].assessment # "none" => n.cand[c].assessment # "none",
           n.cand[c].dev # None => c \in DOMAIN side /\ side[c].dev = n.cand[c].dev,
           n.cand[c].val # None => c \in DOMAIN side /\ side[c].val = n.cand[c].val,
           n.cand[c].draft # None =>
               /\ c \in DOMAIN side /\ side[c].draft = n.cand[c].draft
               /\ n.cand[c].assessment # "none" \/ n.cand[c].dev # None
    PROVE  Agree(n, side) /\ GoneFits(n, side, live)
<1>1. \A d \in Candidates : Matches(job, side, d)
  BY DEF Files, Agree
<1>2. Matches(n, side, c)
  BY <1>1 DEF Matches
<1>3. \A d \in Candidates \ {c} : Matches(n, side, d)
  BY <1>1 DEF Matches
<1>4. GoneFits(n, side, live)
  <2>1. DOMAIN side \subseteq Candidates
    BY RuntimeFacts DEF Inv
  <2>2. QED
    BY <2>1 DEF Files, HoldFits, GoneFits
<1>5. QED
  BY <1>2, <1>3, <1>4 DEF Agree

LEMMA EvaluatedKeepsFiles ==
    ASSUME Inv, Files, Evaluated
    PROVE  Files'
<1> DEFINE c == proc.cand
           k == job.cand[c]
           failed == [k EXCEPT !.assessment = "platform_failure",
                               !.draft = call.draft]
           passed == [k EXCEPT !.dev = side[c].dev, !.draft = call.draft]
<1>1. /\ job \in JobState /\ proc \in Proc /\ proc.pc = "evaluating"
      /\ c \in Candidates /\ k \in Candidate /\ k.assessment = "none"
      /\ call.step = "done" /\ call.cand = c /\ call.op = "candidate"
  BY CommandsFit, AtCandidate
  DEF Inv, Evaluated, Pc, OnCandidate, Returned, FrameFits, Files, CallingFits,
      Fits, CommandFits, ControlFits
<1>2. /\ Aside(Ended) /\ Aside(To("decide"))
      /\ Aside([To("retryDecide") EXCEPT !.next = "idle"])
      /\ Aside([Sweep({c}, "afterTry") EXCEPT !.tried = TRUE])
  BY <1>1, Asides DEF Aside, Calling, Sweeping, To, Sweep, Proc
<1>3. /\ call.status \in {"ok", "platform_failure"} /\ call.draft # None =>
           c \in DOMAIN side /\ call.draft = side[c].draft
      /\ call.status = "ok" => c \in DOMAIN side /\ side[c].dev # None
  BY <1>1 DEF Files, HoldFits, ReturnsFit, Inv, FrameFits
<1>4. Matches(job, side, c)
  BY <1>1 DEF Files, Agree
<1>5. \/ DropResult(Ended)
      \/ /\ ~Settling(job)
         /\ SaveResult(WithRetry(job, c, "candidate"),
                       [To("retryDecide") EXCEPT !.next = "idle"])
      \/ /\ call.status = "platform_failure"
         /\ SaveResult([job EXCEPT !.cand[c].assessment = "platform_failure",
                                   !.cand[c].draft = call.draft],
                       [Sweep({c}, "afterTry") EXCEPT !.tried = TRUE])
      \/ /\ call.status = "ok"
         /\ SaveResult([job EXCEPT !.cand[c].dev = side[c].dev,
                                   !.cand[c].draft = call.draft], To("decide"))
  BY DEF Evaluated, Returned, Settling
<1>6. CASE DropResult(Ended)
  BY <1>2, <1>6, AsideFits, DropKeepsFiles
<1>7. CASE /\ ~Settling(job)
           /\ SaveResult(WithRetry(job, c, "candidate"),
                         [To("retryDecide") EXCEPT !.next = "idle"])
  BY <1>1, <1>2, <1>7, RetryAgrees, AsideFits, ResultKeepsAgree
<1>8. CASE /\ call.status = "platform_failure"
           /\ SaveResult([job EXCEPT !.cand[c].assessment = "platform_failure",
                                     !.cand[c].draft = call.draft],
                         [Sweep({c}, "afterTry") EXCEPT !.tried = TRUE])
  <2> DEFINE n == [job EXCEPT !.cand[c].assessment = "platform_failure",
                              !.cand[c].draft = call.draft]
  <2>1. n.cand = [job.cand EXCEPT ![c] = failed] /\ n.terminal = job.terminal
    BY <1>1 DEF JobState, Candidate
  <2>2. /\ failed.dev = k.dev /\ failed.val = k.val /\ failed.cleaned = k.cleaned
        /\ failed.draft = call.draft /\ failed.assessment = "platform_failure"
    BY <1>1 DEF Candidate
  <2> HIDE DEF n, failed
  <2>3. /\ n.cand[c] = failed /\ (Settling(n) <=> Settling(job))
        /\ \A d \in Candidates \ {c} : n.cand[d] = job.cand[d]
    BY <1>1, <2>1 DEF JobState, Settling
  <2>4. /\ n.cand[c].dev # None =>
               c \in DOMAIN side /\ side[c].dev = n.cand[c].dev
        /\ n.cand[c].val # None =>
               c \in DOMAIN side /\ side[c].val = n.cand[c].val
    BY <1>4, <2>2, <2>3 DEF Matches
  <2>5. /\ n.cand[c].assessment # "none"
        /\ n.cand[c].draft # None =>
               c \in DOMAIN side /\ side[c].draft = n.cand[c].draft
        /\ n.cand[c].cleaned = job.cand[c].cleaned
    BY <1>3, <1>8, <2>2, <2>3
  <2>6. Agree(n, side) /\ GoneFits(n, side, live)
    BY <1>1, <2>3, <2>4, <2>5, StoredAgrees
  <2>7. QED
    BY <1>2, <1>8, <2>6, AsideFits, ResultKeepsAgree DEF n
<1>9. CASE /\ call.status = "ok"
           /\ SaveResult([job EXCEPT !.cand[c].dev = side[c].dev,
                                     !.cand[c].draft = call.draft], To("decide"))
  <2> DEFINE n == [job EXCEPT !.cand[c].dev = side[c].dev,
                              !.cand[c].draft = call.draft]
  <2>1. n.cand = [job.cand EXCEPT ![c] = passed] /\ n.terminal = job.terminal
    BY <1>1 DEF JobState, Candidate
  <2>2. /\ passed.dev = side[c].dev /\ passed.val = k.val
        /\ passed.cleaned = k.cleaned /\ passed.draft = call.draft
        /\ passed.assessment = k.assessment
    BY <1>1 DEF Candidate
  <2> HIDE DEF n, passed
  <2>3. /\ n.cand[c] = passed /\ (Settling(n) <=> Settling(job))
        /\ \A d \in Candidates \ {c} : n.cand[d] = job.cand[d]
    BY <1>1, <2>1 DEF JobState, Settling
  <2>4. /\ c \in DOMAIN side /\ side[c].dev = n.cand[c].dev
        /\ n.cand[c].dev # None
        /\ n.cand[c].val # None => side[c].val = n.cand[c].val
    BY <1>3, <1>4, <1>9, <2>2, <2>3 DEF Matches
  <2>5. /\ n.cand[c].assessment = job.cand[c].assessment
        /\ n.cand[c].draft # None => side[c].draft = n.cand[c].draft
        /\ n.cand[c].cleaned = job.cand[c].cleaned
    BY <1>3, <1>9, <2>2, <2>3
  <2>6. Agree(n, side) /\ GoneFits(n, side, live)
    BY <1>1, <2>3, <2>4, <2>5, StoredAgrees
  <2>7. QED
    BY <1>2, <1>9, <2>6, AsideFits, ResultKeepsAgree DEF n
<1>10. QED
  BY <1>5, <1>6, <1>7, <1>8, <1>9

\* The next candidate of a sweep.
LEMMA SweptGoesOn ==
    ASSUME proc \in Proc, Swept1(job, proc, side), proc.pc \in Sweeping,
           NEW n, Settling(n) <=> Settling(job), Handed(n) = Handed(job),
           NEW c, ~Settling(n) => ~Owed(n, side, c),
           \A d \in Handed(job) \ {c} : Owed(n, side, d) => Owed(job, side, d),
           NEW p, p.pc \in {"sweep", "retryDecide"}, p.next = proc.next,
           p.todo = proc.todo \ {c}
    PROVE  CallingFits(p, R!Idle) /\ Swept1(n, p, side)
BY DEF CallingFits, Calling, Swept1, Sweeping

LEMMA SweptKeepsFiles ==
    ASSUME Inv, Files, Swept
    PROVE  Files'
<1> DEFINE c == Least(proc.todo)
           k == job.cand[c]
           rest == [To("sweep") EXCEPT !.todo = @ \ {c}]
           again == [rest EXCEPT !.pc = "retryDecide"]
           phase == side[call.cand].retry
           cleaned == [k EXCEPT !.cleaned = TRUE]
<1>1. /\ job \in JobState /\ JobFits(job) /\ proc \in Proc
      /\ proc.pc = "sweeping" /\ Quantitative(job)
      /\ call.step = "done" /\ Swept1(job, proc, side)
      /\ call.cand = c
      /\ proc.todo # {} /\ proc.todo \in SUBSET Handed(job)
      /\ HasFirst(Handed(job)) /\ Handed(job) \in SUBSET Candidates
  BY CommandsFit
  DEF Inv, Swept, Pc, Returned, Files, CallingFits, Fits, CommandFits,
      ControlFits, ForFoundry, HandedFits, Handed
<1>2. c \in Candidates /\ k \in Candidate /\ c \in Handed(job)
  <2>1. c \in proc.todo
    BY <1>1, LeastIsMember
  <2>2. QED
    BY <1>1, <2>1 DEF JobState
<1>3. /\ rest.pc = "sweep" /\ rest.next = proc.next /\ rest.todo = proc.todo \ {c}
      /\ again.pc = "retryDecide" /\ again.next = proc.next
      /\ again.todo = proc.todo \ {c}
  BY <1>1 DEF To, Proc
<1>4. /\ call.status = "failed" => ~side[c].receipt
      /\ call.status = "cleaned" => c \in DOMAIN side /\ side[c].receipt
  BY <1>1 DEF Files, HoldFits, ReturnsFit
<1>5. \/ DropResult(Ended)
      \/ call.status = "failed" /\ DropResult(rest)
      \/ /\ call.status = "cleaned" /\ phase # "none"
         /\ job.terminal \in {"none", "platform_failure"}
         /\ SaveResult(WithRetry(job, c, phase), again)
      \/ /\ call.status = "cleaned"
         /\ phase = "none" \/ job.terminal \notin {"none", "platform_failure"}
         /\ SaveResult([job EXCEPT !.cand[c].cleaned = TRUE], rest)
  BY DEF Swept, Returned
<1> HIDE DEF rest, again
<1>6. CASE DropResult(Ended)
  <2>1. Aside(Ended)
    BY <1>1, Asides
  <2>2. QED
    BY <1>6, <2>1, AsideFits, DropKeepsFiles
<1>7. CASE call.status = "failed" /\ DropResult(rest)
  <2>1. ~Owed(job, side, c)
    BY <1>4, <1>7 DEF Owed
  <2>2. CallingFits(rest, R!Idle) /\ Swept1(job, rest, side)
    BY <1>1, <1>3, <2>1, SweptGoesOn DEF Sweeping
  <2>3. QED
    BY <1>7, <2>2, DropKeepsFiles
<1>8. CASE /\ call.status = "cleaned" /\ phase # "none"
           /\ job.terminal \in {"none", "platform_failure"}
           /\ SaveResult(WithRetry(job, c, phase), again)
  <2> DEFINE n == WithRetry(job, c, phase)
  <2>1. ~Settling(job) /\ (c \in DOMAIN side => ~side[c].ref)
    BY <1>4, <1>8, RuntimeFacts DEF Settling, Inv
  <2>2. /\ Agree(n, side) /\ GoneFits(n, side, live) /\ ~Owed(n, side, c)
        /\ \A d \in Candidates : Owed(n, side, d) => Owed(job, side, d)
    BY <1>2, <2>1, RetryAgrees
  <2>3. ~Settling(n)
    BY <1>1, <1>2, RetryFields DEF Settling
  <2>4. Accepted(n) => Handed(n) = Handed(job)
    BY <1>1, <1>2, <1>8, RetrySaved
  <2> HIDE DEF n
  <2>5. Accepted(n) => CallingFits(again, R!Idle) /\ Swept1(n, again, side)
    BY <1>1, <1>3, <2>1, <2>2, <2>3, <2>4, SweptGoesOn DEF Sweeping
  <2>6. QED
    BY <1>8, <2>2, <2>5, ResultKeepsAgree DEF n
<1>9. CASE /\ call.status = "cleaned"
           /\ phase = "none" \/ job.terminal \notin {"none", "platform_failure"}
           /\ SaveResult([job EXCEPT !.cand[c].cleaned = TRUE], rest)
  <2> DEFINE n == [job EXCEPT !.cand[c].cleaned = TRUE]
  <2>1. n.cand = [job.cand EXCEPT ![c] = cleaned] /\ n.terminal = job.terminal
    BY <1>1 DEF JobState, Candidate
  <2>2. /\ cleaned.dev = k.dev /\ cleaned.val = k.val /\ cleaned.cleaned
        /\ cleaned.draft = k.draft /\ cleaned.assessment = k.assessment
        /\ cleaned.handed = k.handed
    BY <1>2 DEF Candidate
  <2> HIDE DEF n, cleaned
  <2>3. /\ n.cand[c] = cleaned /\ (Settling(n) <=> Settling(job))
        /\ \A d \in Candidates \ {c} : n.cand[d] = job.cand[d]
    BY <1>1, <1>2, <2>1 DEF JobState, Settling
  <2>4. ~Settling(job) => side[c].retry = "none"
    <3>1. job.terminal \in Outcomes \cup {"none"}
      BY <1>1 DEF JobState
    <3>2. ModeFits(job)
      BY <1>1 DEF JobFits
    <3>3. QED
      BY <1>1, <1>9, <3>1, <3>2 DEF ModeFits, Settling, Outcomes, Positive
  <2>5. Agree(n, side)
    <3>1. \A d \in Candidates : Matches(job, side, d)
      BY DEF Files, Agree
    <3>2. Matches(n, side, c)
      BY <1>2, <1>4, <1>9, <2>2, <2>3, <2>4, <3>1 DEF Matches
    <3>3. \A d \in Candidates \ {c} : Matches(n, side, d)
      BY <2>3, <3>1 DEF Matches
    <3>4. QED
      BY <3>2, <3>3 DEF Agree
  <2>6. GoneFits(n, side, live)
    <3>1. DOMAIN side \subseteq Candidates
      BY RuntimeFacts DEF Inv
    <3>2. QED
      BY <2>2, <2>3, <3>1 DEF Files, HoldFits, GoneFits
  <2>7. Handed(n) = Handed(job)
    BY <2>2, <2>3 DEF Handed
  <2>8. ~Settling(n) => ~Owed(n, side, c)
    BY <2>3, <2>4 DEF Owed
  <2>9. \A d \in Handed(job) \ {c} : Owed(n, side, d) => Owed(job, side, d)
    BY <2>3 DEF Owed, Handed
  <2>10. CallingFits(rest, R!Idle) /\ Swept1(n, rest, side)
    BY <1>1, <1>3, <2>3, <2>7, <2>8, <2>9, SweptGoesOn DEF Sweeping
  <2>11. QED
    BY <1>9, <2>5, <2>6, <2>10, ResultKeepsAgree DEF n
<1>10. QED
  BY <1>5, <1>6, <1>7, <1>8, <1>9

\* The fields a failed validating run changes.
LEMMA FailureFields ==
    ASSUME NEW j \in JobState, NEW c \in Candidates, j.decision.prov = c,
           NEW draft
    PROVE  LET n == WithValidatingFailure(j, draft) IN
           /\ n.cand[c].draft = IF draft = None THEN j.cand[c].draft ELSE draft
           /\ n.cand[c].dev = j.cand[c].dev /\ n.cand[c].val = j.cand[c].val
           /\ n.cand[c].cleaned = j.cand[c].cleaned
           /\ n.cand[c].assessment = j.cand[c].assessment
           /\ \A d \in Candidates \ {c} : n.cand[d] = j.cand[d]
           /\ n.terminal = "platform_failure"
<1> DEFINE k == [j.cand[c] EXCEPT !.draft = IF draft = None THEN @ ELSE draft]
           n == WithValidatingFailure(j, draft)
<1>1. j.cand[c] \in Candidate
  BY DEF JobState
<1>2. /\ k.draft = IF draft = None THEN j.cand[c].draft ELSE draft
      /\ k.dev = j.cand[c].dev /\ k.val = j.cand[c].val
      /\ k.cleaned = j.cand[c].cleaned /\ k.assessment = j.cand[c].assessment
  BY <1>1 DEF Candidate
<1>3. n.cand = [j.cand EXCEPT ![c] = k] /\ n.terminal = "platform_failure"
  BY DEF WithValidatingFailure, JobState
<1> HIDE DEF k, n
<1>4. n.cand[c] = k /\ \A d \in Candidates \ {c} : n.cand[d] = j.cand[d]
  BY <1>3 DEF JobState
<1>5. QED
  BY <1>2, <1>3, <1>4 DEF n

\* What is known when a validating run has returned.
LEMMA AtValidated ==
    ASSUME Inv, Files, proc.pc = "validated", call.step = "done"
    PROVE  /\ job \in JobState /\ proc \in Proc /\ proc.cand \in Candidates
           /\ job.cand[proc.cand] \in Candidate
           /\ job.cand[proc.cand].assessment # "none"
           /\ job.decision.prov = proc.cand /\ ~Settling(job)
           /\ Matches(job, side, proc.cand)
           /\ call.status \in {"ok", "platform_failure"} /\ call.draft # None =>
                    /\ proc.cand \in DOMAIN side
                    /\ call.draft = side[proc.cand].draft
           /\ call.status = "ok" =>
                proc.cand \in DOMAIN side /\ side[proc.cand].val # None
<1>1. /\ proc.pc \in OnCandidate /\ proc.pc \in Deciding
      /\ proc.pc \notin {"evaluating"} /\ Fits
  BY DEF OnCandidate, Deciding, Inv
<1>2. /\ job \in JobState /\ proc \in Proc /\ proc.cand \in Candidates
      /\ job.cand[proc.cand] \in Candidate
      /\ job.decision.prov = proc.cand /\ proc.cand \in Handed(job)
      /\ job.terminal = "none" /\ AllCompleted(job)
  BY <1>1, CommandsFit, AtCandidate, AtDeciding
<1>3. job.cand[proc.cand].assessment # "none"
  BY <1>2 DEF AllCompleted, Completed
<1>4. ~Settling(job) /\ Matches(job, side, proc.cand)
  BY <1>2 DEF Settling, Files, Agree
<1>5. call.cand = proc.cand /\ call.op = "validating"
  BY DEF Inv, FrameFits, Files, CallingFits
<1>6. ReturnsFit(call, side) /\ (call.status = "ok" => call.cand \in DOMAIN side)
  BY DEF Files, HoldFits, Inv, FrameFits
<1>7. QED
  BY <1>2, <1>3, <1>4, <1>5, <1>6 DEF ReturnsFit

LEMMA ValidatedByCliKeepsFiles ==
    ASSUME Inv, Files, ValidatedByCli
    PROVE  Files'
<1> DEFINE c == proc.cand
           k == job.cand[c]
<1>1. proc.pc = "validated" /\ call.step = "done"
  BY DEF ValidatedByCli, Pc, Returned
<1>2. /\ job \in JobState /\ proc \in Proc /\ c \in Candidates
      /\ k \in Candidate /\ k.assessment # "none"
      /\ job.decision.prov = c /\ ~Settling(job) /\ Matches(job, side, c)
      /\ call.status = "ok" => c \in DOMAIN side /\ side[c].val # None
  BY <1>1, AtValidated
<1>3. /\ Aside(Ended) /\ Aside(To("finalDecide"))
      /\ \A j : Aside(FinalComment(j, "idle"))
  BY <1>2, Asides DEF Calling, Sweeping
<1>4. CASE DropResult(Ended)
  BY <1>3, <1>4, AsideFits, DropKeepsFiles
<1>5. CASE /\ call.status = "ok"
           /\ SaveResult([job EXCEPT !.cand[c].val = side[c].val],
                         To("finalDecide"))
  <2> DEFINE n == [job EXCEPT !.cand[c].val = side[c].val]
             valid == [k EXCEPT !.val = side[c].val]
  <2>1. n.cand = [job.cand EXCEPT ![c] = valid] /\ n.terminal = job.terminal
    BY <1>2 DEF JobState, Candidate
  <2>2. /\ valid.dev = k.dev /\ valid.val = side[c].val
        /\ valid.cleaned = k.cleaned /\ valid.draft = k.draft
        /\ valid.assessment = k.assessment
    BY <1>2 DEF Candidate
  <2> HIDE DEF n, valid
  <2>3. /\ n.cand[c] = valid /\ (Settling(n) <=> Settling(job))
        /\ \A d \in Candidates \ {c} : n.cand[d] = job.cand[d]
    BY <1>2, <2>1 DEF JobState, Settling
  <2>4. /\ c \in DOMAIN side /\ side[c].val = n.cand[c].val
        /\ n.cand[c].dev # None => side[c].dev = n.cand[c].dev
        /\ n.cand[c].draft # None => side[c].draft = n.cand[c].draft
    BY <1>2, <1>5, <2>2, <2>3 DEF Matches
  <2>5. /\ n.cand[c].assessment # "none"
        /\ n.cand[c].cleaned = job.cand[c].cleaned
    BY <1>2, <2>2, <2>3
  <2>6. Agree(n, side) /\ GoneFits(n, side, live)
    BY <1>2, <2>3, <2>4, <2>5, StoredAgrees
  <2>7. QED
    BY <1>3, <1>5, <2>6, AsideFits, ResultKeepsAgree DEF n
<1>6. CASE SaveResult(WithValidatingFailure(job, None),
                      FinalComment(WithValidatingFailure(job, None), "idle"))
  <2> DEFINE n == WithValidatingFailure(job, None)
  <2>1. /\ n.cand[c].draft = k.draft /\ n.cand[c].dev = k.dev
        /\ n.cand[c].val = k.val /\ n.cand[c].cleaned = k.cleaned
        /\ n.cand[c].assessment = k.assessment
        /\ \A d \in Candidates \ {c} : n.cand[d] = job.cand[d]
        /\ n.terminal = "platform_failure"
    BY <1>2, FailureFields
  <2> HIDE DEF n
  <2>2. Settling(n) <=> Settling(job)
    BY <1>2, <2>1 DEF Settling
  <2>3. /\ n.cand[c].dev # None =>
               c \in DOMAIN side /\ side[c].dev = n.cand[c].dev
        /\ n.cand[c].val # None =>
               c \in DOMAIN side /\ side[c].val = n.cand[c].val
        /\ n.cand[c].draft # None =>
               c \in DOMAIN side /\ side[c].draft = n.cand[c].draft
    BY <1>2, <2>1 DEF Matches
  <2>4. Agree(n, side) /\ GoneFits(n, side, live)
    BY <1>2, <2>1, <2>2, <2>3, StoredAgrees
  <2>5. QED
    BY <1>3, <1>6, <2>4, AsideFits, ResultKeepsAgree DEF n
<1>7. QED
  BY <1>4, <1>5, <1>6 DEF ValidatedByCli, Returned

LEMMA ValidatedByControllerKeepsFiles ==
    ASSUME Inv, Files, ValidatedByController
    PROVE  Files'
<1> DEFINE c == proc.cand
           k == job.cand[c]
           again == [To("retryDecide") EXCEPT !.todo = Handed(job),
                                              !.next = "idle"]
<1>1. proc.pc = "validated" /\ call.step = "done"
  BY DEF ValidatedByController, Pc, Returned
<1>2. /\ job \in JobState /\ proc \in Proc /\ c \in Candidates
      /\ k \in Candidate /\ k.assessment # "none"
      /\ job.decision.prov = c /\ ~Settling(job) /\ Matches(job, side, c)
      /\ call.status \in {"ok", "platform_failure"} /\ call.draft # None =>
               c \in DOMAIN side /\ call.draft = side[c].draft
      /\ call.status = "ok" => c \in DOMAIN side /\ side[c].val # None
  BY <1>1, AtValidated
<1>3. /\ Aside(Ended) /\ Aside(To("finalDecide")) /\ Aside(again)
      /\ Aside(Sweep({c}, "afterFailure"))
  BY <1>2, Asides DEF Aside, Calling, Sweeping, To, Proc
<1>4. CASE DropResult(Ended)
  BY <1>3, <1>4, AsideFits, DropKeepsFiles
<1>5. CASE /\ call.status = "ok"
           /\ SaveResult([job EXCEPT !.cand[c].val = side[c].val,
                                     !.cand[c].draft = call.draft],
                         To("finalDecide"))
  <2> DEFINE n == [job EXCEPT !.cand[c].val = side[c].val,
                              !.cand[c].draft = call.draft]
             valid == [k EXCEPT !.val = side[c].val, !.draft = call.draft]
  <2>1. n.cand = [job.cand EXCEPT ![c] = valid] /\ n.terminal = job.terminal
    BY <1>2 DEF JobState, Candidate
  <2>2. /\ valid.dev = k.dev /\ valid.val = side[c].val
        /\ valid.cleaned = k.cleaned /\ valid.draft = call.draft
        /\ valid.assessment = k.assessment
    BY <1>2 DEF Candidate
  <2> HIDE DEF n, valid
  <2>3. /\ n.cand[c] = valid /\ (Settling(n) <=> Settling(job))
        /\ \A d \in Candidates \ {c} : n.cand[d] = job.cand[d]
    BY <1>2, <2>1 DEF JobState, Settling
  <2>4. /\ c \in DOMAIN side /\ side[c].val = n.cand[c].val
        /\ n.cand[c].dev # None => side[c].dev = n.cand[c].dev
        /\ n.cand[c].draft # None => side[c].draft = n.cand[c].draft
    BY <1>2, <1>5, <2>2, <2>3 DEF Matches
  <2>5. /\ n.cand[c].assessment # "none"
        /\ n.cand[c].cleaned = job.cand[c].cleaned
    BY <1>2, <2>2, <2>3
  <2>6. Agree(n, side) /\ GoneFits(n, side, live)
    BY <1>2, <2>3, <2>4, <2>5, StoredAgrees
  <2>7. QED
    BY <1>3, <1>5, <2>6, AsideFits, ResultKeepsAgree DEF n
<1>6. CASE SaveResult(WithRetry(job, c, "validating"), again)
  <2> HIDE DEF again
  <2>1. QED
    BY <1>2, <1>3, <1>6, RetryAgrees, AsideFits, ResultKeepsAgree
<1>7. CASE /\ call.status = "platform_failure"
           /\ SaveResult(WithValidatingFailure(job, call.draft),
                         Sweep({c}, "afterFailure"))
  <2> DEFINE n == WithValidatingFailure(job, call.draft)
  <2>1. /\ n.cand[c].draft = IF call.draft = None THEN k.draft ELSE call.draft
        /\ n.cand[c].dev = k.dev
        /\ n.cand[c].val = k.val /\ n.cand[c].cleaned = k.cleaned
        /\ n.cand[c].assessment = k.assessment
        /\ \A d \in Candidates \ {c} : n.cand[d] = job.cand[d]
        /\ n.terminal = "platform_failure"
    BY <1>2, FailureFields
  <2> HIDE DEF n
  <2>2. Settling(n) <=> Settling(job)
    BY <1>2, <2>1 DEF Settling
  <2>3. /\ n.cand[c].dev # None =>
               c \in DOMAIN side /\ side[c].dev = n.cand[c].dev
        /\ n.cand[c].val # None =>
               c \in DOMAIN side /\ side[c].val = n.cand[c].val
        /\ n.cand[c].draft # None =>
               c \in DOMAIN side /\ side[c].draft = n.cand[c].draft
    BY <1>2, <1>7, <2>1 DEF Matches
  <2>4. Agree(n, side) /\ GoneFits(n, side, live)
    BY <1>2, <2>1, <2>2, <2>3, StoredAgrees
  <2>5. QED
    BY <1>3, <1>7, <2>4, AsideFits, ResultKeepsAgree DEF n
<1>8. QED
  BY <1>4, <1>5, <1>6, <1>7 DEF ValidatedByController, Returned

LEMMA OutsideKeepsFiles ==
    ASSUME Inv, Files,
           \/ RuntimeWork \/ RuntimeFault \/ Interrupt
           \/ OpenPullRequest \/ BindPr \/ UNCHANGED vars
    PROVE  Files'
<1>1. CASE RuntimeWork \/ RuntimeFault
  BY <1>1, WorkKeepsFiles DEF RuntimeWork, RuntimeFault
<1>2. CASE OpenPullRequest \/ BindPr \/ UNCHANGED vars
  <2>1. UNCHANGED <<runtime, call, job, proc>>
    BY <1>2 DEF OpenPullRequest, BindPr, vars
  <2>2. QED
    BY <2>1 DEF Files, runtime
<1>3. CASE Interrupt
  <2>1. /\ side' = side /\ live' = live /\ call' = R!Idle
        /\ job' = job /\ proc' = Ended
    BY <1>3 DEF Interrupt, R!Abort, runtime
  <2>2. Aside(Ended)
    BY DEF Ended, Aside, Calling, Sweeping
  <2>3. HoldFits(job, R!Idle, side, live)
    BY IdleFits DEF Files, HoldFits
  <2>4. QED
    BY <2>1, <2>2, <2>3, AsideFits DEF Files
<1>4. QED
  BY <1>1, <1>2, <1>3

LEMMA NextKeepsFiles ==
    ASSUME Inv, Files, [Next]_vars
    PROVE  Files'
<1>1. CASE Command
  BY <1>1, CommandKeepsFiles
<1>2. CASE CompleteStep
  BY <1>2, CompleteKeepsFiles, EvaluateKeepsFiles, EvaluatedKeepsFiles
  DEF CompleteStep
<1>3. CASE SweepSteps
  BY <1>3, SweepStepKeepsFiles, SweptKeepsFiles, RetryDecideKeepsFiles
  DEF SweepSteps
<1>4. CASE FinishStep
  BY <1>4, EntryKeepsFiles, FinDecideKeepsFiles, ValidateKeepsFiles,
     ValidatedByCliKeepsFiles, ValidatedByControllerKeepsFiles, FinishKeepsFiles
  DEF FinishStep
<1>5. CASE EffectStep
  BY <1>5, EffectKeepsFiles, BindKeepsFiles
<1>6. QED
  BY <1>1, <1>2, <1>3, <1>4, <1>5, OutsideKeepsFiles DEF Next, CommandStep

LEMMA InitialFiles == Init => Files
<1> SUFFICES ASSUME Init PROVE Files
  OBVIOUS
<1>1. call = R!Idle /\ proc = Ended /\ DOMAIN side = {}
  BY DEF Init, R!Init
<1>2. Aside(Ended)
  BY DEF Ended, Aside, Calling, Sweeping
<1>3. Swept1(job, proc, side) /\ CallingFits(proc, call)
  BY <1>1, <1>2, AsideFits
<1>4. GoneFits(job, side, live)
  BY <1>1 DEF GoneFits
<1>5. HoldFits(job, call, side, live)
  BY <1>1, <1>4, IdleFits
<1>6. \A c \in Candidates : job.cand[c] = NewCandidate
  BY DEF Init
<1>7. Agree(job, side)
  <2>1. /\ NewCandidate.dev = None /\ NewCandidate.val = None
        /\ NewCandidate.draft = None /\ NewCandidate.cleaned = FALSE
    BY DEF NewCandidate
  <2>2. QED
    BY <1>6, <2>1 DEF Agree, Matches
<1>8. QED
  BY <1>3, <1>5, <1>7 DEF Files

LEMMA FilesInductive == Spec => []Files
<1>1. Inv /\ Files /\ [Next]_vars => Files'
  BY NextKeepsFiles
<1>2. QED
  BY <1>1, InitialFiles, Inductive, PTL DEF Spec

-----------------------------------------------------------------------------
(* The best candidate stays the best once all candidates are completed.    *)

BestOf(j) == Best(j, Eligible(j))

\* All candidates are completed and the best of them, if any, has failed its
\* validating run.
NoWinner(j) ==
    /\ EnoughCompleted(j)
    /\ BestOf(j) # None => j.cand[BestOf(j)].val \notin Passing \cup {None}

\* Only the best one is ever validated.
TestedFits(j, files) ==
    \A c \in DOMAIN files : files[c].val # None =>
        Quantitative(j) /\ EnoughCompleted(j) /\ c = BestOf(j)

\* What the end of a job, the checkout and the pull request stand for.
EndingFits(j, w) ==
    Quantitative(j) =>
    /\ Settling(j) => EnoughCompleted(j)
    /\ j.terminal = "no_winner" => NoWinner(j)
    /\ w.applied # None => j.terminal = "winner"
    /\ w.pr = "closed" => NoWinner(j) /\ j.terminal \in {"none", "no_winner"}

\* What a finish knows of the best candidate at its steps.
RoundFits(j, p) ==
    Quantitative(j) =>
    /\ p.pc \in Finishing => EnoughCompleted(j)
    /\ p.pc \in {"validating", "validated", "finalDecide"} => p.cand = BestOf(j)
    /\ p.pc \in {"validating", "validated"} => j.cand[p.cand].val = None
    /\ p.pc = "finalDecide" => j.cand[p.cand].val # None
    /\ p.pc \in {"close", "storeClosure"} => NoWinner(j)

Bests == /\ TestedFits(job, side) /\ EndingFits(job, World)
         /\ RoundFits(job, proc)

\* A save after which the best candidate is the same.
Steady(j, n) ==
    /\ n.mode = j.mode
    /\ Quantitative(j) /\ EnoughCompleted(j) =>
           /\ EnoughCompleted(n) /\ BestOf(n) = BestOf(j)
           /\ \A c \in Candidates : n.cand[c].val = j.cand[c].val

\* The outcome stays, or a failure is taken back.
SameOutcome(j, n) ==
    \/ n.terminal = j.terminal
    \/ j.terminal = "platform_failure" /\ n.terminal = "none"

\* Of enough completed candidates every one is completed.
LEMMA EnoughMeansAll ==
    ASSUME NEW j, JobFits(j), EnoughCompleted(j), NEW c \in Handed(j)
    PROVE  /\ c \in Completed(j) /\ j.cand[c].assessment \notin {"none", "invalid"}
           /\ Quantitative(j) => j.cand[c].dev # None
<1>1. c \in Completed(j)
  BY EnoughIsAll DEF JobFits, AllCompleted
<1>2. CandidateFits(j.mode, j.cand[c]) /\ j.cand[c] \in Candidate
  BY DEF JobFits, Handed, JobState
<1>3. j.cand[c].assessment \notin {"none", "invalid"}
  BY <1>1 DEF Completed
<1>4. Quantitative(j) => j.cand[c].dev # None
  BY <1>1, <1>2 DEF Completed, CandidateFits, Quantitative, Candidate, Assessments
<1>5. QED
  BY <1>1, <1>3, <1>4

\* The best candidate, if there is one, is a handed off candidate.
LEMMA BestIsHanded ==
    ASSUME NEW j, JobFits(j)
    PROVE  BestOf(j) \in Handed(j) \cup {None}
BY ProvisionalShape DEF BestOf

\* All completed, before and after a save that keeps those handed off.
LEMMA StillEnough ==
    ASSUME NEW j, JobFits(j), EnoughCompleted(j), NEW n,
           Handed(n) = Handed(j), AllCompleted(j) => AllCompleted(n)
    PROVE  EnoughCompleted(n)
<1>1. AllCompleted(j) /\ Completed(j) = Handed(j)
  BY EnoughIsAll DEF JobFits, AllCompleted, Completed
<1>2. Completed(n) = Handed(n)
  BY <1>1 DEF AllCompleted, Completed
<1>3. QED
  BY <1>1, <1>2 DEF EnoughCompleted

LEMMA EvidenceSteady ==
    ASSUME NEW j, JobFits(j), NEW n \in JobState, n.mode = j.mode,
           SameEvidence(j, n)
    PROVE  Steady(j, n)
<1>1. Completed(n) = Completed(j) /\ BestOf(n) = BestOf(j)
  BY SameSets DEF JobFits, BestOf
<1>2. \A c \in Candidates : n.cand[c].val = j.cand[c].val
  BY DEF SameEvidence
<1>3. QED
  BY <1>1, <1>2 DEF Steady, EnoughCompleted

LEMMA DecisionSteady ==
    ASSUME NEW j, JobFits(j),
           NEW n, n = WithDevelopmentDecision(j), Accepted(n)
    PROVE  Steady(j, n) /\ SameOutcome(j, n)
<1>1. /\ Follows(j, n) /\ Handed(n) = Handed(j) /\ n.terminal = j.terminal
      /\ AllCompleted(j) => AllCompleted(n)
  BY DecisionSaved
<1>2. CASE Quantitative(j)
  <2>1. n = WithProvisional(j)
    BY <1>2 DEF WithDevelopmentDecision, Quantitative
  <2>2. /\ BestOf(n) = BestOf(j)
        /\ \A c \in Candidates : n.cand[c].val = j.cand[c].val
    BY <2>1, ProvisionalSets DEF BestOf
  <2>3. EnoughCompleted(j) => EnoughCompleted(n)
    BY <1>1, StillEnough
  <2>4. QED
    BY <1>1, <2>2, <2>3 DEF Steady, SameOutcome, Follows
<1>3. CASE ~Quantitative(j)
  BY <1>1, <1>3 DEF Steady, SameOutcome, Follows
<1>4. QED
  BY <1>2, <1>3

\* A steady save leaves what is known of the end of the job.
LEMMA SteadyKeeps ==
    ASSUME Inv, Bests, NEW n, Steady(job, n), SameOutcome(job, n)
    PROVE  TestedFits(n, side) /\ EndingFits(n, World)
<1>1. TestedFits(n, side)
  BY DEF Bests, TestedFits, Steady, Quantitative
<1>2. NoWinner(job) /\ Quantitative(job) => NoWinner(n)
  <2>1. BestOf(job) \in Candidates \cup {None}
    BY BestIsHanded DEF Inv, Fits, Handed
  <2>2. QED
    BY <2>1 DEF NoWinner, Steady
<1>3. EndingFits(n, World)
  BY <1>2 DEF Bests, EndingFits, Steady, SameOutcome, Quantitative, Settling
<1>4. QED
  BY <1>1, <1>3

\* A place that knows nothing of the best candidate.
Apart(p) == p.pc \notin Finishing

LEMMA ApartFits ==
    ASSUME NEW j, NEW p, Apart(p)
    PROVE  RoundFits(j, p)
BY DEF RoundFits, Apart, Finishing, Deciding

LEMMA Aparts ==
    ASSUME proc \in Proc
    PROVE  /\ Apart(Ended)
           /\ \A pc \in Pcs \ Finishing : Apart(To(pc))
           /\ \A ids, next : Apart(Sweep(ids, next))
           /\ \A j : Apart(LastSweep(j))
           /\ \A j : Apart(ControllerFinish(j))
           /\ \A j, next : Apart(FinalComment(j, next))
           /\ \A j : Apart(AfterDecision(j))
<1> USE DEF Proc, Apart, Finishing, Deciding
<1>1. Apart(Ended)
  BY DEF Ended
<1>2. \A pc \in Pcs \ Finishing : Apart(To(pc))
  BY DEF To
<1>3. \A ids, next : Apart(Sweep(ids, next))
  BY DEF Sweep
<1>4. \A j : Apart(LastSweep(j)) /\ Apart(ControllerFinish(j))
  BY <1>3 DEF LastSweep, ControllerFinish
<1>5. ASSUME NEW j, NEW next PROVE Apart(FinalComment(j, next))
  <2>1. Apart([proc EXCEPT !.pc = "postFinal", !.next = next])
    OBVIOUS
  <2>2. Apart(To("bind"))
    BY DEF To
  <2>3. QED
    BY <1>4, <2>1, <2>2 DEF FinalComment
<1>6. ASSUME NEW j PROVE Apart(AfterDecision(j))
  <2>1. Apart(To("comment"))
    BY DEF To
  <2>2. QED
    BY <1>1, <1>3, <2>1 DEF AfterDecision
<1>7. QED
  BY <1>1, <1>2, <1>3, <1>4, <1>5, <1>6

\* A save, by a command or of the result of a method.
LEMMA SaveKeepsBests ==
    ASSUME Inv, Bests, NEW n, NEW p, Save(n, p) \/ SaveResult(n, p),
           Accepted(n) => /\ TestedFits(n, side) /\ EndingFits(n, World)
                          /\ RoundFits(n, p)
    PROVE  Bests'
<1>1. /\ side' = side /\ World' = World
      /\ IF Accepted(n) THEN job' = n /\ proc' = p
                        ELSE job' = job /\ proc' = Ended
  BY DEF Save, SaveResult, runtime, github, World
<1>2. Apart(Ended)
  BY DEF Ended, Apart, Finishing, Deciding
<1>3. RoundFits(job, Ended)
  BY <1>2, ApartFits
<1>4. QED
  BY <1>1, <1>3 DEF Bests

\* A save that is steady, on the way to such a place.
LEMMA SteadySave ==
    ASSUME Inv, Bests, NEW n, NEW p, Save(n, p) \/ SaveResult(n, p), Apart(p),
           Accepted(n) => Steady(job, n) /\ SameOutcome(job, n)
    PROVE  Bests'
BY SteadyKeeps, ApartFits, SaveKeepsBests

\* A move that saves nothing.
LEMMA MoveKeepsBests ==
    ASSUME Inv, Bests, RoundFits(job, proc'), job' = job, side' = side,
           World' = World
    PROVE  Bests'
BY DEF Bests

\* A step of the runtime.
LEMMA ValuesKept ==
    ASSUME Inv, Files, R!Work \/ R!Fault
    PROVE  \A c \in DOMAIN side' : side'[c].val # None =>
               \/ c \in DOMAIN side /\ side[c].val # None
               \/ call.op = "validating" /\ c = call.cand
<1> DEFINE c == call.cand
           o == side[c]
           Tells(r) == r.val # None =>
                           \/ c \in DOMAIN side /\ o.val # None
                           \/ call.op = "validating"
<1>1. call \in R!Call
  BY RuntimeFacts DEF Inv
<1>2. \/ side' = side
      \/ R!SaveReference \/ R!SaveVerified \/ R!SaveSummary
      \/ \E phase : side' = R!WithCandidate(c, R!Cleaned(o, phase))
      \/ \E phase : side' = R!WithCandidate(c, R!Obliged(o, phase))
  BY DEF R!Work, R!Fault, R!Create, R!Verify, R!Run, R!DraftIsGone,
         R!VerifyFails, R!RunFails, R!Delete, R!SaveFailCleaned,
         R!SaveFailRequired, R!SaveRetryCleaned, R!SaveCleaned, R!CreateFails,
         R!CreateLosesAnswer, R!DeleteFails
<1>3. ASSUME side' # side
      PROVE  \E r : side' = R!WithCandidate(c, r) /\ Tells(r)
  <2>1. CASE R!SaveReference
    <3>1. call.step = "saveReference"
      BY <2>1 DEF R!SaveReference, R!At
    <3>2. call.op \in {"candidate", "validating"}
      BY <3>1, FrameFacts DEF Inv
    <3>3. call.op = "candidate" => side' = R!WithCandidate(c, R!FreshSidecar(call.draft))
      BY <2>1 DEF R!SaveReference
    <3>4. Tells(R!FreshSidecar(call.draft))
      BY DEF R!FreshSidecar, None
    <3>5. \E r : side' = R!WithCandidate(c, r)
      BY <2>1 DEF R!SaveReference
    <3>6. QED
      BY <3>2, <3>3, <3>4, <3>5
  <2>2. ASSUME ~R!SaveReference
        PROVE  c \in DOMAIN side /\ o \in R!Sidecar
    <3>1. call.step \in Working
      BY <1>3, <2>2
      DEF R!Work, R!Fault, R!Create, R!Verify, R!Run, R!DraftIsGone,
         R!VerifyFails, R!RunFails, R!Delete, R!SaveFailCleaned,
         R!SaveFailRequired, R!SaveRetryCleaned, R!SaveCleaned, R!CreateFails,
         R!CreateLosesAnswer, R!DeleteFails, R!SaveVerified, R!SaveSummary,
         R!At, Working, Saving
    <3>2. QED
      BY <3>1, FrameFacts, RuntimeFacts DEF Inv
  <2>3. CASE R!SaveVerified
    <3> DEFINE r == [o EXCEPT !.ref = TRUE, !.verified = TRUE,
                       !.cleanupRequired = FALSE, !.retry = "none",
                       !.receipt = FALSE]
    <3>1. side' = R!WithCandidate(c, r)
      BY <2>3 DEF R!SaveVerified
    <3>2. o \in R!Sidecar /\ c \in DOMAIN side
      BY <2>2, <2>3 DEF R!SaveVerified, R!SaveReference, R!At
    <3>3. r.val = o.val
      BY <3>2 DEF R!Sidecar
    <3>4. QED
      BY <3>1, <3>2, <3>3
  <2>4. CASE R!SaveSummary
    <3>1. o \in R!Sidecar /\ c \in DOMAIN side
      BY <2>2, <2>4 DEF R!SaveSummary, R!SaveReference, R!At
    <3>2. call.op \in {"candidate", "validating"}
      BY <2>4, FrameFacts DEF R!SaveSummary, R!At, Inv, Working, Saving
    <3>3. call.op = "candidate" =>
            side' = R!WithCandidate(c, [o EXCEPT !.dev = call.summary])
      BY <2>4 DEF R!SaveSummary
    <3>4. [o EXCEPT !.dev = call.summary].val = o.val
      BY <3>1 DEF R!Sidecar
    <3>5. \E r : side' = R!WithCandidate(c, r)
      BY <2>4 DEF R!SaveSummary
    <3>6. QED
      BY <3>1, <3>2, <3>3, <3>4, <3>5
  <2>5. CASE /\ ~R!SaveReference
             /\ \E phase : \/ side' = R!WithCandidate(c, R!Cleaned(o, phase))
                           \/ side' = R!WithCandidate(c, R!Obliged(o, phase))
    <3>1. o \in R!Sidecar /\ c \in DOMAIN side
      BY <2>2, <2>5
    <3>2. \A phase : /\ R!Cleaned(o, phase).val = o.val
                     /\ R!Obliged(o, phase).val = o.val
      BY <3>1 DEF R!Sidecar, R!Cleaned, R!Obliged
    <3>3. QED
      BY <2>5, <3>1, <3>2
  <2>6. QED
    BY <1>2, <1>3, <2>1, <2>3, <2>4, <2>5
<1>4. CASE side' = side
  BY <1>4
<1>5. CASE side' # side
  <2>1. PICK r : side' = R!WithCandidate(c, r) /\ Tells(r)
    BY <1>3, <1>5
  <2>2. /\ DOMAIN side' = DOMAIN side \cup {c} /\ side'[c] = r
        /\ \A d \in DOMAIN side \ {c} : side'[d] = side[d]
    BY <2>1, RecordSaved
  <2>3. QED
    BY <2>1, <2>2
<1>6. QED
  BY <1>4, <1>5

LEMMA WorkKeepsBests ==
    ASSUME Inv, Files, Bests, RuntimeWork \/ RuntimeFault
    PROVE  Bests'
<1>1. /\ R!Work \/ R!Fault
      /\ job' = job /\ proc' = proc /\ World' = World
  BY DEF RuntimeWork, RuntimeFault, github, World
<1>2. ASSUME call.op = "validating"
      PROVE  Quantitative(job) /\ EnoughCompleted(job) /\ call.cand = BestOf(job)
  <2>1. proc.pc = "validated"
    BY <1>2 DEF Files, CallingFits, Calling, R!Idle
  <2>2. call.cand = proc.cand
    BY <2>1 DEF Inv, FrameFits
  <2>3. Quantitative(job)
    BY <2>1 DEF Inv, Fits, CommandFits, ControlFits, ForFoundry
  <2>4. QED
    BY <2>1, <2>2, <2>3 DEF Bests, RoundFits, Finishing, Deciding
<1>3. TestedFits(job, side')
  BY <1>1, <1>2, ValuesKept DEF Bests, TestedFits
<1>4. QED
  BY <1>1, <1>3 DEF Bests


\* A move to a place apart.
LEMMA ApartMove ==
    ASSUME Inv, Bests, job' = job, side' = side, World' = World, Apart(proc')
    PROVE  Bests'
BY ApartFits, MoveKeepsBests

LEMMA ApartContinues ==
    ASSUME Inv, Bests, NEW p, Apart(p),
           Continue(p) \/ DropResult(p) \/ (\E frame : Invoke(frame, p))
    PROVE  Bests'
<1>1. job' = job /\ side' = side /\ World' = World /\ proc' = p
  BY DEF Continue, DropResult, Invoke, R!Begin, runtime, github, World
<1>2. QED
  BY <1>1, ApartMove

\* While a candidate is not completed, any save is steady.
LEMMA OpenSteady ==
    ASSUME Inv, NEW c \in Handed(job),
           \/ job.cand[c].assessment \in {"none", "invalid"}
           \/ Quantitative(job) /\ job.cand[c].dev = None,
           NEW n, n.mode = job.mode
    PROVE  Steady(job, n)
<1>1. Quantitative(job) => ~EnoughCompleted(job)
  BY EnoughMeansAll DEF Inv, Fits
<1>2. QED
  BY <1>1 DEF Steady

LEMMA HandoffKeepsBests ==
    ASSUME Inv, Bests, NEW c \in Candidates, Handoff(c)
    PROVE  Bests'
<1> DEFINE n == [job EXCEPT !.cand[c].handed = TRUE]
<1>1. Save(n, Ended) /\ Cardinality(Handed(job)) < MinCandidates
  BY DEF Handoff
<1>2. n.mode = job.mode /\ n.terminal = job.terminal
  BY CommandsFit DEF Inv, JobState
<1> HIDE DEF n
<1>3. ~EnoughCompleted(job)
  <2>1. Completed(job) \subseteq Handed(job) /\ IsFiniteSet(Handed(job))
    BY DEF Completed, Inv, Fits, JobFits, HandedFits
  <2>2. /\ Cardinality(Completed(job)) <= Cardinality(Handed(job))
        /\ Cardinality(Completed(job)) \in Nat /\ Cardinality(Handed(job)) \in Nat
    BY <2>1, FS_Subset, FS_CardinalityType
  <2>3. QED
    BY <1>1, <2>2, BoundsAssumption DEF EnoughCompleted
<1>4. Steady(job, n) /\ SameOutcome(job, n) /\ Apart(Ended)
  BY <1>2, <1>3 DEF Steady, SameOutcome, Ended, Apart, Finishing, Deciding
<1>5. QED
  BY <1>1, <1>4, SteadySave

LEMMA CommandKeepsBests ==
    ASSUME Inv, Bests, Command
    PROVE  Bests'
<1>1. ASSUME NEW c \in Candidates, StartComplete(c) PROVE Bests'
  <2>1. /\ job' = job /\ side' = side /\ World' = World
        /\ proc'.pc \in {"sweep", "finalize", "evaluate"}
    BY <1>1 DEF StartComplete, Continue, runtime, github, World, Ended
  <2>2. QED
    BY <2>1, ApartMove DEF Apart, Finishing, Deciding
<1>2. CASE StartFinish
  <2>1. job' = job /\ side' = side /\ World' = World /\ proc'.pc = "sweep"
    BY <1>2 DEF StartFinish, Continue, runtime, github, World, Ended
  <2>2. QED
    BY <2>1, ApartMove DEF Apart, Finishing, Deciding
<1>3. QED
  BY <1>1, <1>2, HandoffKeepsBests DEF Command

\* A candidate is completed: its change, its evidence, its comment.
LEMMA FinalizeKeepsBests ==
    ASSUME Inv, Bests, Finalize
    PROVE  Bests'
<1> DEFINE c == proc.cand
           n == [job EXCEPT !.cand[c].finalized = TRUE]
           m == [job EXCEPT !.cand[c].assessment = "invalid"]
<1>1. Save(n, To("evaluate")) \/ Save(m, To("evaluate"))
  BY DEF Finalize
<1>2. /\ job \in JobState /\ proc \in Proc /\ c \in Handed(job)
      /\ job.cand[c].assessment = "none"
  BY CommandsFit
  DEF Inv, Finalize, Pc, OnCandidate, Fits, CommandFits, ControlFits
<1>3. /\ n.mode = job.mode /\ n.terminal = job.terminal
      /\ m.mode = job.mode /\ m.terminal = job.terminal
  BY <1>2 DEF JobState
<1> HIDE DEF n, m
<1>4. /\ Steady(job, n) /\ SameOutcome(job, n)
      /\ Steady(job, m) /\ SameOutcome(job, m)
  BY <1>2, <1>3, OpenSteady DEF SameOutcome
<1>5. Apart(To("evaluate"))
  BY <1>2, Aparts DEF Pcs, Finishing, Deciding
<1>6. QED
  BY <1>1, <1>4, <1>5, SteadySave

LEMMA EvaluateKeepsBests ==
    ASSUME Inv, Bests, Evaluate
    PROVE  Bests'
<1> DEFINE c == proc.cand
           n(checks, assessment) ==
               [job EXCEPT !.cand[c].checks = checks,
                           !.cand[c].assessment = assessment]
           m == [job EXCEPT !.cand[c].assessment = "keep"]
<1>1. job \in JobState /\ proc \in Proc /\ c \in Handed(job)
  BY CommandsFit, AtCandidate DEF Inv, Evaluate, Pc, OnCandidate
<1>2. Apart(To("decide")) /\ Apart(To("evaluating")) /\ Apart(Ended)
  BY <1>1, Aparts DEF Pcs, Finishing, Deciding
<1>3. \/ Continue(To("decide")) \/ Continue(Ended)
      \/ \E frame : Invoke(frame, To("evaluating"))
      \/ /\ job.cand[c].assessment = "none"
         /\ \/ \E checks, assessment : Save(n(checks, assessment), To("decide"))
            \/ Save(m, To("decide"))
  <2>0. job.mode \in {"foundry_evaluation", "repository_checks", "none"}
    BY <1>1, ModeAssumption DEF JobState, Modes
  <2>1. CASE job.cand[c].assessment # "none" \/ ~job.cand[c].finalized
    BY <2>1 DEF Evaluate
  <2>2. CASE /\ job.cand[c].assessment = "none" /\ job.cand[c].finalized
             /\ job.mode = "foundry_evaluation"
    BY <2>2 DEF Evaluate
  <2>3. CASE /\ job.cand[c].assessment = "none" /\ job.cand[c].finalized
             /\ job.mode = "repository_checks"
    <3>1. \E passed \in BOOLEAN :
            Save(n(IF passed THEN "passed" ELSE "failed",
                   IF passed THEN "keep" ELSE "discard"), To("decide"))
      BY <2>3 DEF Evaluate
    <3> HIDE DEF n
    <3>2. QED
      BY <2>3, <3>1
  <2>4. CASE /\ job.cand[c].assessment = "none" /\ job.cand[c].finalized
             /\ job.mode = "none"
    BY <2>4 DEF Evaluate
  <2>5. QED
    BY <2>0, <2>1, <2>2, <2>3, <2>4
<1>4. /\ \A checks, assessment :
             /\ n(checks, assessment).mode = job.mode
             /\ n(checks, assessment).terminal = job.terminal
      /\ m.mode = job.mode /\ m.terminal = job.terminal
  BY <1>1 DEF JobState
<1> HIDE DEF n, m
<1>5. ASSUME job.cand[c].assessment = "none", NEW k,
             k.mode = job.mode, k.terminal = job.terminal, Save(k, To("decide"))
      PROVE  Bests'
  <2>1. Steady(job, k) /\ SameOutcome(job, k)
    BY <1>1, <1>5, OpenSteady DEF SameOutcome
  <2>2. QED
    BY <1>2, <1>5, <2>1, SteadySave
<1>6. CASE Continue(To("decide")) \/ Continue(Ended)
           \/ \E frame : Invoke(frame, To("evaluating"))
  BY <1>2, <1>6, ApartContinues
<1>7. QED
  BY <1>3, <1>4, <1>5, <1>6

LEMMA EvaluatedKeepsBests ==
    ASSUME Inv, Bests, Evaluated
    PROVE  Bests'
<1> DEFINE c == proc.cand
           n == WithRetry(job, c, "candidate")
           f == [job EXCEPT !.cand[c].assessment = "platform_failure",
                            !.cand[c].draft = call.draft]
           e == [job EXCEPT !.cand[c].dev = side[c].dev,
                            !.cand[c].draft = call.draft]
           p == [To("retryDecide") EXCEPT !.next = "idle"]
           q == [Sweep({c}, "afterTry") EXCEPT !.tried = TRUE]
<1>1. /\ job \in JobState /\ proc \in Proc /\ c \in Handed(job)
      /\ job.cand[c].assessment = "none" /\ Quantitative(job)
      /\ c \in Candidates
  BY CommandsFit, AtCandidate
  DEF Inv, Evaluated, Pc, OnCandidate, ForFoundry, Fits, CommandFits, ControlFits
<1>2. Apart(To("decide")) /\ Apart(p) /\ Apart(q) /\ Apart(Ended)
  BY <1>1, Aparts DEF Pcs, To, Sweep, Proc, Apart, Finishing, Deciding
<1>3. \/ DropResult(Ended)
      \/ job.terminal \notin {"winner", "no_winner"} /\ SaveResult(n, p)
      \/ SaveResult(f, q) \/ SaveResult(e, To("decide"))
  BY DEF Evaluated
<1>4. job.terminal = "none"
  BY <1>1, UnassessedIsOpen DEF Inv
<1>5. /\ n.mode = job.mode /\ n.terminal = "none"
      /\ f.mode = job.mode /\ f.terminal = job.terminal
      /\ e.mode = job.mode /\ e.terminal = job.terminal
  BY <1>1 DEF JobState, WithRetry
<1> HIDE DEF n, f, e, p, q
<1>6. /\ Steady(job, n) /\ Steady(job, f) /\ Steady(job, e)
      /\ SameOutcome(job, n) /\ SameOutcome(job, f) /\ SameOutcome(job, e)
  BY <1>1, <1>4, <1>5, OpenSteady DEF SameOutcome
<1>7. CASE DropResult(Ended)
  BY <1>2, <1>7, ApartContinues
<1>8. QED
  BY <1>2, <1>3, <1>6, <1>7, SteadySave

LEMMA CompleteKeepsBests ==
    ASSUME Inv, Bests, Decide \/ AfterTry \/ Comment \/ RetryDecide
    PROVE  Bests'
<1> DEFINE c == proc.cand
<1>1. job \in JobState /\ proc \in Proc /\ JobFits(job)
  BY CommandsFit DEF Inv, Fits
<1>2. /\ Apart(To("comment")) /\ Apart(To("sweep")) /\ Apart(Ended)
      /\ Apart(Sweep({c}, "idle")) /\ \A j : Apart(AfterDecision(j))
  BY <1>1, Aparts DEF Pcs, Finishing, Deciding
<1>3. CASE Decide \/ RetryDecide
  <2> DEFINE n == WithDevelopmentDecision(job)
  <2>1. Save(n, AfterDecision(n)) \/ Save(n, To("sweep"))
    BY <1>3 DEF Decide, RetryDecide
  <2>2. Accepted(n) => Steady(job, n) /\ SameOutcome(job, n)
    BY <1>1, DecisionSteady
  <2> HIDE DEF n
  <2>3. QED
    BY <1>2, <2>1, <2>2, SteadySave
<1>4. CASE AfterTry
  BY <1>2, <1>4, ApartContinues DEF AfterTry
<1>5. CASE Comment
  <2> DEFINE k == [job.cand[c] EXCEPT !.comment = TRUE]
             n == [job EXCEPT !.cand[c] = k]
             p == IF proc.tried THEN Ended ELSE Sweep({c}, "idle")
  <2>1. Save(n, p)
    BY <1>5 DEF Comment
  <2>2. c \in Candidates /\ job.cand[c] \in Candidate
    BY <1>5, AtCandidate DEF Inv, Comment, Pc, OnCandidate
  <2>3. k \in Candidate /\ Apart(p)
    BY <1>2, <2>2 DEF Candidate
  <2>4. n \in JobState
    BY <1>1, <2>2, <2>3, OneChanged
  <2>5. k = [job.cand[c] EXCEPT !.comment = TRUE] /\ n = [job EXCEPT !.cand[c] = k]
    OBVIOUS
  <2> HIDE DEF k, n, p
  <2>6. Accepted(n) => SameEvidence(job, n) /\ SameEnd(job, n)
    BY <1>1, <2>2, <2>3, <2>5, ReceiptSaved
  <2>7. Accepted(n) => Steady(job, n) /\ SameOutcome(job, n)
    BY <1>1, <2>4, <2>6, EvidenceSteady DEF SameEnd, SameOutcome
  <2>8. QED
    BY <2>1, <2>3, <2>7, SteadySave
<1>6. QED
  BY <1>3, <1>4, <1>5

LEMMA SweepStepKeepsBests ==
    ASSUME Inv, Bests, SweepStep
    PROVE  Bests'
<1>1. proc \in Proc /\ proc.pc = "sweep" /\ proc.next \in Resting
  BY CommandsFit, InSweep DEF Inv, SweepStep, Pc, Sweeping
<1>2. /\ Apart([proc EXCEPT !.pc = proc.next]) /\ Apart(To("sweeping"))
      /\ Apart([proc EXCEPT !.todo = @ \ {Least(proc.todo)}])
  BY <1>1 DEF Proc, To, Resting, Apart, Finishing, Deciding
<1>3. \/ Continue([proc EXCEPT !.pc = proc.next])
      \/ \E frame : Invoke(frame, To("sweeping"))
      \/ Continue([proc EXCEPT !.todo = @ \ {Least(proc.todo)}])
  BY DEF SweepStep
<1>4. QED
  BY <1>2, <1>3, ApartContinues


LEMMA SameBestOf ==
    ASSUME NEW j, NEW n, Handed(n) = Handed(j),
           \A c \in Handed(j) : /\ n.cand[c].dev = j.cand[c].dev
                                /\ n.cand[c].assessment = j.cand[c].assessment
    PROVE  BestOf(n) = BestOf(j)
<1>1. Eligible(n) = Eligible(j)
  BY DEF Eligible
<1>2. \A c \in Eligible(j) : n.cand[c].dev = j.cand[c].dev
  BY DEF Eligible
<1>3. QED
  BY <1>1, <1>2, SameBest DEF BestOf

\* A retry, of a candidate whose result the state file does not have.
LEMMA RetrySteady ==
    ASSUME Inv, Quantitative(job), job.terminal \in {"none", "platform_failure"},
           NEW c \in Candidates, c \in Handed(job), NEW phase,
           phase = "candidate" => job.cand[c].dev = None,
           phase # "candidate" => job.cand[c].val = None
    PROVE  LET n == WithRetry(job, c, phase) IN
           Accepted(n) => Steady(job, n) /\ SameOutcome(job, n)
<1> DEFINE n == WithRetry(job, c, phase)
<1> SUFFICES ASSUME Accepted(n) PROVE Steady(job, n) /\ SameOutcome(job, n)
  OBVIOUS
<1>1. job \in JobState /\ c \in Candidates /\ JobFits(job)
  BY CommandsFit DEF Inv, Handed, Fits
<1>2. /\ n.cand[c].val = None
      /\ phase # "candidate" =>
           /\ n.cand[c].dev = job.cand[c].dev
           /\ n.cand[c].assessment = job.cand[c].assessment
      /\ \A d \in Candidates \ {c} : n.cand[d] = job.cand[d]
      /\ n.terminal = "none"
  <2>1. /\ n.cand[c].draft = None /\ n.cand[c].cleaned = FALSE
        /\ n.cand[c].val = None
        /\ IF phase = "candidate"
           THEN n.cand[c].dev = None /\ n.cand[c].assessment = "none"
           ELSE /\ n.cand[c].dev = job.cand[c].dev
                /\ n.cand[c].assessment = job.cand[c].assessment
        /\ \A d \in Candidates \ {c} : n.cand[d] = job.cand[d]
        /\ n.terminal = "none"
    BY <1>1, RetryFields
  <2> HIDE DEF n
  <2>2. QED
    BY <2>1
<1>3. n.mode = job.mode /\ Handed(n) = Handed(job)
  BY <1>1, RetrySaved DEF Follows
<1> HIDE DEF n
<1>4. CASE phase = "candidate"
  BY <1>2, <1>3, <1>4, OpenSteady DEF SameOutcome
<1>5. CASE phase # "candidate"
  <2>1. BestOf(n) = BestOf(job)
    BY <1>2, <1>3, <1>5, SameBestOf DEF Handed
  <2>2. \A d \in Candidates : n.cand[d].val = job.cand[d].val
    BY <1>2, <1>5
  <2>3. ASSUME EnoughCompleted(job) PROVE EnoughCompleted(n)
    <3>1. \A d \in Handed(job) : /\ job.cand[d].assessment \notin {"none", "invalid"}
                                 /\ job.cand[d].dev # None
      BY <1>1, <2>3, EnoughMeansAll
    <3>2. \A d \in Handed(job) : /\ n.cand[d].assessment \notin {"none", "invalid"}
                                 /\ n.cand[d].dev # None
      BY <1>2, <1>5, <3>1 DEF Handed
    <3>3. AllCompleted(n)
      BY <1>3, <3>2 DEF AllCompleted, Completed
    <3>4. QED
      BY <1>1, <1>3, <2>3, <3>3, StillEnough
  <2>4. QED
    BY <1>2, <1>3, <2>1, <2>2, <2>3 DEF Steady, SameOutcome
<1>6. QED
  BY <1>4, <1>5

LEMMA SweptKeepsBests ==
    ASSUME Inv, Files, Bests, Swept
    PROVE  Bests'
<1> DEFINE c == Least(proc.todo)
           rest == [To("sweep") EXCEPT !.todo = @ \ {c}]
           again == [rest EXCEPT !.pc = "retryDecide"]
           phase == side[call.cand].retry
           k == [job.cand[c] EXCEPT !.cleaned = TRUE]
           n == [job EXCEPT !.cand[c] = k]
           m == WithRetry(job, c, phase)
<1>1. /\ job \in JobState /\ JobFits(job) /\ proc \in Proc
      /\ proc.pc = "sweeping" /\ Quantitative(job) /\ call.step = "done"
      /\ proc.todo \subseteq Handed(job) /\ c \in proc.todo
      /\ call.cand = c
  BY CommandsFit, InSweep
  DEF Inv, Swept, Pc, Returned, Files, CallingFits, Fits, Sweeping, ForFoundry,
      Calling
<1>2. c \in Handed(job) /\ c \in Candidates /\ job.cand[c] \in Candidate
  BY <1>1 DEF Handed, JobState
<1>3. k \in Candidate
  BY <1>2 DEF Candidate
<1>4. n \in JobState
  BY <1>1, <1>2, <1>3, OneChanged
<1>5. Apart(rest) /\ Apart(again) /\ Apart(Ended)
  BY <1>1 DEF To, Proc, Apart, Finishing, Deciding, Ended
<1>6. \/ DropResult(Ended) \/ DropResult(rest)
      \/ /\ call.status = "cleaned" /\ phase # "none"
         /\ job.terminal \in {"none", "platform_failure"}
         /\ SaveResult(m, again)
      \/ SaveResult(n, rest)
  BY DEF Swept, Returned
<1>7. k = [job.cand[c] EXCEPT !.cleaned = TRUE] /\ n = [job EXCEPT !.cand[c] = k]
  OBVIOUS
<1> HIDE DEF n, k, rest, again
<1>8. CASE DropResult(Ended) \/ DropResult(rest)
  BY <1>5, <1>8, ApartContinues
<1>9. CASE SaveResult(n, rest)
  <2>1. Accepted(n) => SameEvidence(job, n) /\ SameEnd(job, n)
    BY <1>1, <1>2, <1>3, <1>7, ReceiptSaved
  <2>2. Accepted(n) => Steady(job, n) /\ SameOutcome(job, n)
    BY <1>1, <1>4, <2>1, EvidenceSteady DEF SameEnd, SameOutcome
  <2>3. QED
    BY <1>5, <1>9, <2>2, SteadySave
<1>10. CASE /\ call.status = "cleaned" /\ phase # "none"
            /\ job.terminal \in {"none", "platform_failure"}
            /\ SaveResult(m, again)
  <2>1. c \in DOMAIN side
    BY <1>1, <1>10 DEF Files, HoldFits, ReturnsFit
  <2>2. /\ phase = "candidate" => side[c].dev = None
        /\ side[c].val = None
    BY <1>1, <1>10, <2>1, RuntimeFacts DEF Inv
  <2>3. Matches(job, side, c)
    BY <1>2 DEF Files, Agree
  <2>4. IF phase = "candidate" THEN job.cand[c].dev = None
                               ELSE job.cand[c].val = None
    BY <2>2, <2>3 DEF Matches
  <2> HIDE DEF phase
  <2>5. Accepted(m) => Steady(job, m) /\ SameOutcome(job, m)
    BY <1>1, <1>2, <1>10, <2>4, RetrySteady
  <2> HIDE DEF m
  <2>6. QED
    BY <1>5, <1>10, <2>5, SteadySave
<1>11. QED
  BY <1>6, <1>8, <1>9, <1>10

LEMMA EntryKeepsBests ==
    ASSUME Inv, Bests, EntryOfCli \/ EntryOfController
    PROVE  Bests'
<1> DEFINE toProject == [To("project") EXCEPT !.cand = job.decision.selected]
<1>1. job' = job /\ side' = side /\ World' = World /\ proc \in Proc
  BY CommandsFit DEF Inv, EntryOfCli, EntryOfController, Continue, runtime, github, World
<1>2. /\ Apart(Ended) /\ Apart(To("bindVerify")) /\ Apart(ControllerFinish(job))
      /\ \A next : Apart(FinalComment(job, next))
  BY <1>1, Aparts DEF Pcs, Finishing, Deciding
<1>3. /\ To("finDecide").pc = "finDecide" /\ To("close").pc = "close"
      /\ toProject.pc = "project"
  BY <1>1 DEF To, Proc
<1>4. \/ Apart(proc')
      \/ proc' = To("finDecide") /\ EnoughCompleted(job)
      \/ proc' = To("close") /\ job.terminal = "no_winner"
      \/ proc' = toProject /\ job.terminal \in Positive
  <2>1. CASE EntryOfCli
    BY <1>2, <2>1 DEF EntryOfCli, Continue
  <2>2. CASE EntryOfController
    BY <1>2, <2>2 DEF EntryOfController, ResumeTerminal, Continue
  <2>3. QED
    BY <2>1, <2>2
<1> HIDE DEF toProject
<1>5. Quantitative(job) /\ job.terminal \in Positive => job.terminal = "winner"
  BY DEF Inv, Fits, JobFits, ModeFits, Positive
<1>6. RoundFits(job, proc')
  BY <1>3, <1>4, <1>5, ApartFits
  DEF RoundFits, Finishing, Deciding, Bests, EndingFits, Settling, NoWinner
<1>7. QED
  BY <1>1, <1>6, MoveKeepsBests

LEMMA FinDecideKeepsBests ==
    ASSUME Inv, Bests, FinDecide
    PROVE  Bests'
<1> DEFINE n == WithDevelopmentDecision(job)
           prov == n.decision.prov
           goOn(pc) == [proc EXCEPT !.cand = prov, !.pc = pc]
           toProject == [To("project") EXCEPT !.cand = n.decision.selected]
<1>1. /\ proc \in Proc /\ JobFits(job) /\ proc.pc = "finDecide"
      /\ Save(n, AfterFinDecide(n))
  BY CommandsFit DEF Inv, Fits, FinDecide, Pc
<1>2. Accepted(n) => Steady(job, n) /\ SameOutcome(job, n)
  BY <1>1, DecisionSteady
<1>3. /\ Accepted(n) /\ Quantitative(job) => prov = BestOf(n)
      /\ Accepted(n) => n.mode = job.mode
  BY <1>1, DecisionSaved DEF BestOf, Follows
<1>4. Quantitative(job) => EnoughCompleted(job)
  BY <1>1 DEF Bests, RoundFits, Finishing, Deciding
<1>5. \/ /\ prov # None /\ n.cand[prov].val = None
         /\ AfterFinDecide(n) = goOn("validating")
      \/ /\ prov # None /\ n.cand[prov].val # None
         /\ AfterFinDecide(n) = goOn("finalDecide")
      \/ AfterFinDecide(n) = FinalComment(n, "bind")
      \/ AfterFinDecide(n) \in {To("bindVerify"), To("bind")}
      \/ Quantitative(n) /\ prov = None /\ AfterFinDecide(n) = To("close")
      \/ ~Quantitative(n)
  BY DEF AfterFinDecide, Quantitative
<1>6. /\ \A pc : goOn(pc).pc = pc /\ goOn(pc).cand = prov
      /\ To("close").pc = "close"
      /\ Apart(To("bindVerify")) /\ Apart(To("bind"))
      /\ Apart(FinalComment(n, "bind"))
  BY <1>1, Aparts DEF Proc, To, Pcs, Finishing, Deciding
<1> HIDE DEF n, prov, goOn
<1>7. ASSUME Accepted(n) PROVE RoundFits(n, AfterFinDecide(n))
  <2>1. CASE ~Quantitative(n)
    BY <2>1 DEF RoundFits
  <2>2. CASE Quantitative(n)
    <3>1. EnoughCompleted(n) /\ prov = BestOf(n)
      BY <1>2, <1>3, <1>4, <1>7, <2>2 DEF Steady, Quantitative
    <3>2. CASE Apart(AfterFinDecide(n))
      BY <3>2, ApartFits
    <3>3. CASE AfterFinDecide(n) = To("close") /\ prov = None
      <4>1. NoWinner(n)
        BY <3>1, <3>3 DEF NoWinner
      <4>2. QED
        BY <1>6, <3>1, <3>3, <4>1 DEF RoundFits
    <3>4. CASE \/ n.cand[prov].val = None /\ AfterFinDecide(n) = goOn("validating")
               \/ n.cand[prov].val # None /\ AfterFinDecide(n) = goOn("finalDecide")
      BY <1>6, <3>1, <3>4 DEF RoundFits
    <3>5. QED
      BY <1>5, <1>6, <2>2, <3>2, <3>3, <3>4
  <2>3. QED
    BY <2>1, <2>2
<1>8. Accepted(n) => TestedFits(n, side) /\ EndingFits(n, World)
  BY <1>2, SteadyKeeps
<1>9. QED
  BY <1>1, <1>7, <1>8, SaveKeepsBests

LEMMA ValidateKeepsBests ==
    ASSUME Inv, Bests, Validate \/ AfterFailure
    PROVE  Bests'
<1>1. proc \in Proc
  BY CommandsFit DEF Inv
<1>2. CASE Validate
  <2>1. /\ job' = job /\ side' = side /\ World' = World
        /\ proc.pc = "validating" /\ proc' = To("validated")
    BY <1>2 DEF Validate, Pc, Invoke, R!Begin, runtime, github, World
  <2>2. proc'.pc = "validated" /\ proc'.cand = proc.cand
    BY <1>1, <2>1 DEF To, Proc
  <2>3. RoundFits(job, proc')
    BY <2>1, <2>2 DEF Bests, RoundFits, Finishing, Deciding
  <2>4. QED
    BY <2>1, <2>3, MoveKeepsBests
<1>3. CASE AfterFailure
  <2>1. /\ Apart(LastSweep(job)) /\ Apart(FinalComment(job, "idle"))
    BY <1>1, Aparts
  <2>2. QED
    BY <1>3, <2>1, ApartContinues DEF AfterFailure
<1>4. QED
  BY <1>2, <1>3


\* What a finish knows when the validating run has returned.
LEMMA AtResult ==
    ASSUME Inv, Files, Bests, proc.pc = "validated"
    PROVE  /\ job \in JobState /\ JobFits(job) /\ proc \in Proc
           /\ proc.cand \in Candidates /\ proc.cand \in Handed(job)
           /\ job.cand[proc.cand] \in Candidate
           /\ Quantitative(job) /\ EnoughCompleted(job)
           /\ proc.cand = BestOf(job) /\ proc.cand # None
           /\ job.cand[proc.cand].val = None
           /\ job.terminal = "none" /\ job.decision.prov = proc.cand
           /\ applied = None /\ pr # "closed" /\ AllCompleted(job)
<1>1. /\ proc.pc \in OnCandidate /\ proc.pc \in Deciding /\ proc.pc \in ForFoundry
      /\ proc.pc \in Finishing /\ proc.pc # "finDecide" /\ Fits
  BY DEF OnCandidate, Deciding, ForFoundry, Finishing, Inv
<1>2. /\ job \in JobState /\ JobFits(job) /\ proc \in Proc
      /\ proc.cand \in Candidates /\ proc.cand \in Handed(job)
      /\ job.cand[proc.cand] \in Candidate
      /\ job.terminal = "none" /\ job.decision.prov = proc.cand
      /\ Quantitative(job) /\ AllCompleted(job)
  BY <1>1, CommandsFit, AtCandidate, AtDeciding
  DEF Fits
<1>3. /\ EnoughCompleted(job) /\ proc.cand = BestOf(job)
      /\ job.cand[proc.cand].val = None
  BY <1>1, <1>2 DEF Bests, RoundFits
<1>4. proc.cand # None
  BY <1>2, Numbers
<1>5. applied = None /\ pr # "closed"
  BY <1>2, <1>3, <1>4 DEF Bests, EndingFits, World, NoWinner
<1>6. QED
  BY <1>2, <1>3, <1>4, <1>5

\* A save in that place that leaves the development results and assessments.
LEMMA ResultEnds ==
    ASSUME Inv, Files, Bests, proc.pc = "validated",
           NEW n, n.mode = job.mode, Handed(n) = Handed(job), AllCompleted(n),
           \A c \in Handed(job) : /\ n.cand[c].dev = job.cand[c].dev
                                  /\ n.cand[c].assessment = job.cand[c].assessment,
           n.terminal \in {"none", "platform_failure"}
    PROVE  /\ TestedFits(n, side) /\ EndingFits(n, World)
           /\ EnoughCompleted(n) /\ BestOf(n) = BestOf(job)
<1>1. BestOf(n) = BestOf(job)
  BY SameBestOf
<1>2. EnoughCompleted(n)
  BY AtResult, StillEnough
<1>3. TestedFits(n, side)
  BY <1>1, <1>2 DEF Bests, TestedFits, Quantitative
<1>4. World.applied = None /\ World.pr # "closed"
  BY AtResult DEF World
<1>5. EndingFits(n, World)
  BY <1>2, <1>4 DEF EndingFits, Settling
<1>6. QED
  BY <1>1, <1>2, <1>3, <1>5

\* The result of the validating run is stored.
LEMMA ResultKeepsBests ==
    ASSUME Inv, Files, Bests, proc.pc = "validated",
           NEW val, val # None,
           NEW k, k.val = val, LET o == job.cand[proc.cand] IN
               /\ k.dev = o.dev /\ k.assessment = o.assessment
               /\ k.handed = o.handed /\ k.checks = o.checks,
           NEW n, n.cand = [job.cand EXCEPT ![proc.cand] = k],
           n.mode = job.mode, n.terminal = job.terminal,
           SaveResult(n, To("finalDecide"))
    PROVE  Bests'
<1> DEFINE c == proc.cand
<1>1. /\ job \in JobState /\ c \in Candidates /\ proc \in Proc
      /\ AllCompleted(job) /\ c = BestOf(job) /\ job.terminal = "none"
  BY AtResult
<1>2. n.cand[c] = k /\ \A d \in Candidates \ {c} : n.cand[d] = job.cand[d]
  BY <1>1 DEF JobState
<1>3. \A d \in Candidates :
        /\ n.cand[d].dev = job.cand[d].dev
        /\ n.cand[d].assessment = job.cand[d].assessment
        /\ n.cand[d].handed = job.cand[d].handed
        /\ n.cand[d].checks = job.cand[d].checks
  BY <1>2
<1>4. Handed(n) = Handed(job)
  BY <1>3 DEF Handed
<1>5. AllCompleted(n)
  BY <1>1, <1>3, <1>4 DEF AllCompleted, Completed, Handed
<1>6. /\ TestedFits(n, side) /\ EndingFits(n, World)
      /\ EnoughCompleted(n) /\ BestOf(n) = BestOf(job)
  BY <1>1, <1>3, <1>4, <1>5, ResultEnds DEF Handed
<1>7. To("finalDecide").pc = "finalDecide" /\ To("finalDecide").cand = c
  BY <1>1 DEF To, Proc
<1>8. RoundFits(n, To("finalDecide"))
  BY <1>1, <1>2, <1>6, <1>7 DEF RoundFits
<1>9. QED
  BY <1>6, <1>8, SaveKeepsBests

\* The validating run has failed.
LEMMA FailureKeepsBests ==
    ASSUME Inv, Files, Bests, proc.pc = "validated",
           NEW draft \in R!Versions \cup {None}, NEW p, Apart(p),
           SaveResult(WithValidatingFailure(job, draft), p)
    PROVE  Bests'
<1> DEFINE n == WithValidatingFailure(job, draft)
           c == proc.cand
<1>1. /\ job \in JobState /\ c \in Candidates /\ job.decision.prov = c
      /\ Handed(job) \subseteq Candidates
  BY AtResult DEF Handed
<1>2. /\ n.cand[c].draft = IF draft = None THEN job.cand[c].draft ELSE draft
      /\ n.cand[c].dev = job.cand[c].dev /\ n.cand[c].val = job.cand[c].val
      /\ n.cand[c].cleaned = job.cand[c].cleaned
      /\ n.cand[c].assessment = job.cand[c].assessment
      /\ \A d \in Candidates \ {c} : n.cand[d] = job.cand[d]
      /\ n.terminal = "platform_failure"
  BY <1>1, FailureFields
<1>3. Accepted(n) => Follows(job, n) /\ Handed(n) = Handed(job)
  BY AtResult, FailureSaved
<1> HIDE DEF n
<1>4. Accepted(n) => n.mode = job.mode /\ AllCompleted(n)
  BY <1>2, <1>3 DEF Follows, JobFits
<1>5. Accepted(n) => TestedFits(n, side) /\ EndingFits(n, World)
  BY <1>1, <1>2, <1>3, <1>4, ResultEnds
<1>6. RoundFits(n, p)
  BY ApartFits
<1>7. SaveResult(n, p)
  BY DEF n
<1>8. QED
  BY <1>5, <1>6, <1>7, SaveKeepsBests

LEMMA ValidatedKeepsBests ==
    ASSUME Inv, Files, Bests, ValidatedByCli \/ ValidatedByController
    PROVE  Bests'
<1> DEFINE c == proc.cand
           o == job.cand[c]
           k == [o EXCEPT !.val = side[c].val]
           l == [o EXCEPT !.val = side[c].val, !.draft = call.draft]
           n == [job EXCEPT !.cand[c].val = side[c].val]
           m == [job EXCEPT !.cand[c].val = side[c].val, !.cand[c].draft = call.draft]
           again == [To("retryDecide") EXCEPT !.todo = Handed(job), !.next = "idle"]
<1>1. proc.pc = "validated" /\ call.step = "done"
  BY DEF ValidatedByCli, ValidatedByController, Pc, Returned
<1>2. /\ job \in JobState /\ proc \in Proc /\ c \in Candidates /\ o \in Candidate
      /\ c \in Handed(job) /\ o.val = None /\ Quantitative(job)
      /\ job.terminal = "none"
  BY <1>1, AtResult
<1>3. call.status = "ok" => side[c].val # None
  BY <1>1, AtValidated
<1>4. call.draft \in R!Versions \cup {None} /\ None \in R!Versions \cup {None}
  BY ResultTypes
<1>5. /\ Apart(Ended) /\ Apart(FinalComment(job, "idle")) /\ Apart(again)
      /\ Apart(Sweep({c}, "afterFailure"))
      /\ \A j, next : Apart(FinalComment(j, next))
  BY <1>2, Aparts DEF To, Proc, Apart, Finishing, Deciding
<1>6. \/ DropResult(Ended)
      \/ call.status = "ok" /\ SaveResult(n, To("finalDecide"))
      \/ call.status = "ok" /\ SaveResult(m, To("finalDecide"))
      \/ SaveResult(WithRetry(job, c, "validating"), again)
      \/ \E draft \in R!Versions \cup {None} : \E p :
            Apart(p) /\ SaveResult(WithValidatingFailure(job, draft), p)
  <2> HIDE DEF n, m, again
  <2>1. CASE ValidatedByCli
    BY <1>4, <1>5, <2>1 DEF ValidatedByCli, Returned, n
  <2>2. CASE ValidatedByController
    BY <1>4, <1>5, <2>2 DEF ValidatedByController, Returned, m, again
  <2>3. QED
    BY <2>1, <2>2
<1>7. /\ n.cand = [job.cand EXCEPT ![c] = k] /\ n.mode = job.mode
      /\ n.terminal = job.terminal
      /\ m.cand = [job.cand EXCEPT ![c] = l] /\ m.mode = job.mode
      /\ m.terminal = job.terminal
  BY <1>2 DEF JobState, Candidate
<1>8. /\ k.val = side[c].val /\ k.dev = o.dev /\ k.assessment = o.assessment
      /\ k.handed = o.handed /\ k.checks = o.checks
      /\ l.val = side[c].val /\ l.dev = o.dev /\ l.assessment = o.assessment
      /\ l.handed = o.handed /\ l.checks = o.checks
  BY <1>2 DEF Candidate
<1> HIDE DEF k, l, n, m, again
<1>9. CASE DropResult(Ended)
  BY <1>5, <1>9, ApartContinues
<1>10. CASE call.status = "ok" /\ SaveResult(n, To("finalDecide"))
  BY <1>1, <1>3, <1>7, <1>8, <1>10, ResultKeepsBests
<1>11. CASE call.status = "ok" /\ SaveResult(m, To("finalDecide"))
  BY <1>1, <1>3, <1>7, <1>8, <1>11, ResultKeepsBests
<1>12. CASE SaveResult(WithRetry(job, c, "validating"), again)
  <2> DEFINE r == WithRetry(job, c, "validating")
  <2>1. Accepted(r) => Steady(job, r) /\ SameOutcome(job, r)
    BY <1>2, RetrySteady
  <2>2. SaveResult(r, again)
    BY <1>12
  <2> HIDE DEF r
  <2>3. QED
    BY <1>5, <2>1, <2>2, SteadySave
<1>13. CASE \E draft \in R!Versions \cup {None} : \E p :
              Apart(p) /\ SaveResult(WithValidatingFailure(job, draft), p)
  BY <1>1, <1>13, FailureKeepsBests
<1>14. QED
  BY <1>6, <1>9, <1>10, <1>11, <1>12, <1>13

\* The final decision leaves the best candidate.
LEMMA FinalSets ==
    ASSUME NEW j, JobFits(j), BestOf(j) = j.decision.prov, BestOf(j) # None
    PROVE  LET n == WithFinalDecision(j) IN
           /\ Handed(n) = Handed(j) /\ BestOf(n) = BestOf(j)
           /\ \A c \in Candidates : n.cand[c].val = j.cand[c].val
           /\ n.terminal = IF j.cand[BestOf(j)].val \in Passing
                           THEN "winner" ELSE "no_winner"
<1> DEFINE p == j.decision.prov
           wins == j.cand[p].val \in Passing
           d == WithProvisional(j)
           k == [d.cand[p] EXCEPT
                   !.assessment = IF wins THEN "winner" ELSE "discard"]
           n == WithFinalDecision(j)
<1>1. /\ j \in JobState /\ d \in JobState /\ p \in Candidates
      /\ d.decision = [NoDecision EXCEPT !.outcome = "no_winner", !.prov = p]
  BY ProvisionalShape, BestIsHanded DEF BestOf, Handed
<1>2. /\ Handed(d) = Handed(j) /\ Eligible(d) = Eligible(j)
      /\ Best(d, Eligible(d)) = p
      /\ \A c \in Candidates : /\ d.cand[c].dev = j.cand[c].dev
                               /\ d.cand[c].val = j.cand[c].val
  BY ProvisionalSets DEF BestOf
<1>3. d.decision.prov = p
  BY <1>1 DEF NoDecision
<1>4. p \in Eligible(d)
  <2>1. Eligible(j) # {}
    BY DEF BestOf, Best
  <2>2. Eligible(j) \subseteq Handed(j) /\ HasFirst(Handed(j))
    BY DEF Eligible, JobFits, HandedFits
  <2>3. QED
    BY <1>1, <1>2, <2>1, <2>2, BestIsMember DEF BestOf
<1>5. /\ n.cand = [d.cand EXCEPT ![p] = k]
      /\ n.terminal = IF wins THEN "winner" ELSE "no_winner"
  BY <1>1, <1>3 DEF WithFinalDecision, JobState
<1>6. /\ k.handed = d.cand[p].handed /\ k.dev = d.cand[p].dev
      /\ k.val = d.cand[p].val /\ k.assessment \in {"winner", "discard"}
  BY <1>1 DEF JobState, Candidate
<1> HIDE DEF n, k, d
<1>7. n.cand[p] = k /\ \A c \in Candidates \ {p} : n.cand[c] = d.cand[c]
  BY <1>1, <1>5 DEF JobState
<1>8. \A c \in Candidates : /\ n.cand[c].handed = d.cand[c].handed
                            /\ n.cand[c].dev = d.cand[c].dev
                            /\ n.cand[c].val = d.cand[c].val
  BY <1>6, <1>7
<1>9. Handed(n) = Handed(d)
  BY <1>8 DEF Handed
<1>10. Eligible(n) = Eligible(d)
  BY <1>4, <1>6, <1>7, <1>8, <1>9 DEF Eligible, Handed, Rejected
<1>11. Best(n, Eligible(n)) = p
  <2>1. \A c \in Eligible(d) : n.cand[c].dev = d.cand[c].dev
    BY <1>8 DEF Eligible, Handed
  <2>2. QED
    BY <1>2, <1>10, <2>1, SameBest
<1>12. /\ Handed(n) = Handed(j) /\ BestOf(n) = BestOf(j)
       /\ \A c \in Candidates : n.cand[c].val = j.cand[c].val
  BY <1>2, <1>8, <1>9, <1>11 DEF BestOf
<1>13. QED
  BY <1>5, <1>12 DEF n


LEMMA FinalDecideKeepsBests ==
    ASSUME Inv, Bests, FinalDecide
    PROVE  Bests'
<1> DEFINE n == WithFinalDecision(job)
           p == IF proc.by = "cli"
                THEN IF n.terminal = "winner" THEN To("bindVerify")
                     ELSE FinalComment(n, "bind")
                ELSE IF n.terminal = "winner" THEN To("project") ELSE To("close")
<1>1. proc.pc = "finalDecide" /\ proc.pc \in Deciding /\ proc.pc \in Finishing
  BY DEF FinalDecide, Pc, Deciding, Finishing
<1>2. /\ proc \in Proc /\ JobFits(job) /\ job.terminal = "none"
      /\ AllCompleted(job) /\ Quantitative(job)
      /\ job.decision.prov = proc.cand /\ proc.cand \in Candidates
      /\ proc.cand # None
  BY <1>1, CommandsFit, AtDeciding, Numbers DEF Inv, Fits, Handed
<1>3. /\ EnoughCompleted(job) /\ proc.cand = BestOf(job)
      /\ job.cand[proc.cand].val # None
  BY <1>1, <1>2 DEF Bests, RoundFits
<1>4. Save(n, p)
  BY <1>2, <1>3 DEF FinalDecide, BestOf
<1>5. Accepted(n) => /\ AllCompleted(n) /\ n.mode = job.mode
  BY <1>2, <1>3, FinalSaved DEF Follows, BestOf
<1>6. /\ Handed(n) = Handed(job) /\ BestOf(n) = BestOf(job)
      /\ \A c \in Candidates : n.cand[c].val = job.cand[c].val
      /\ n.terminal = IF job.cand[BestOf(job)].val \in Passing
                      THEN "winner" ELSE "no_winner"
  BY <1>2, <1>3, FinalSets
<1> HIDE DEF n
<1>7. ASSUME Accepted(n)
      PROVE  /\ EnoughCompleted(n) /\ Quantitative(n)
             /\ n.terminal # "winner" => n.terminal = "no_winner" /\ NoWinner(n)
  <2>1. EnoughCompleted(n)
    BY <1>2, <1>3, <1>5, <1>6, <1>7, StillEnough
  <2>2. n.terminal # "winner" => n.terminal = "no_winner" /\ NoWinner(n)
    BY <1>2, <1>3, <1>6, <2>1 DEF NoWinner
  <2>3. QED
    BY <1>2, <1>5, <1>7, <2>1, <2>2 DEF Quantitative
<1>8. ASSUME Accepted(n) PROVE TestedFits(n, side) /\ EndingFits(n, World)
  <2>1. TestedFits(n, side)
    BY <1>6, <1>7, <1>8, <1>2 DEF Bests, TestedFits
  <2>2. World.applied = None
    BY <1>2 DEF Bests, EndingFits
  <2>3. World.pr = "closed" => n.terminal # "winner"
    BY <1>2, <1>3, <1>6 DEF Bests, EndingFits, NoWinner
  <2>4. EndingFits(n, World)
    BY <1>7, <1>8, <2>2, <2>3 DEF EndingFits
  <2>5. QED
    BY <2>1, <2>4
<1>9. /\ Apart(To("bindVerify")) /\ Apart(FinalComment(n, "bind"))
      /\ To("project").pc = "project" /\ To("close").pc = "close"
  BY <1>2, Aparts DEF Pcs, Finishing, Deciding, To, Proc
<1>10. ASSUME Accepted(n) PROVE RoundFits(n, p)
  <2>1. CASE Apart(p)
    BY <2>1, ApartFits
  <2>2. CASE p = To("project")
    BY <1>7, <1>9, <1>10, <2>2 DEF RoundFits
  <2>3. CASE p = To("close") /\ n.terminal # "winner"
    BY <1>7, <1>9, <1>10, <2>3 DEF RoundFits
  <2>4. QED
    BY <1>9, <2>1, <2>2, <2>3
<1> HIDE DEF p
<1>11. QED
  BY <1>4, <1>8, <1>10, SaveKeepsBests

\* The effects of a finish.
LEMMA CommentKeepsBests ==
    ASSUME Inv, Bests, PostFinal \/ SidecarFinal \/ StoreFinal \/ Bind
    PROVE  Bests'
<1>1. job \in JobState /\ proc \in Proc /\ JobFits(job)
  BY CommandsFit DEF Inv, Fits
<1>2. /\ Apart(To("sidecarFinal")) /\ Apart(To("storeFinal")) /\ Apart(Ended)
      /\ \A j, next : Apart(FinalComment(j, next))
      /\ Apart(ControllerFinish(job))
  BY <1>1, Aparts DEF Pcs, Finishing, Deciding
<1>3. CASE PostFinal \/ SidecarFinal \/ Bind
  <2>1. /\ job' = job /\ side' = side /\ Apart(proc')
        /\ World'.applied = World.applied /\ World'.pr = World.pr
    BY <1>2, <1>3 DEF PostFinal, SidecarFinal, Bind, runtime, World
  <2>2. RoundFits(job, proc')
    BY <2>1, ApartFits
  <2>3. QED
    BY <2>1, <2>2 DEF Bests, EndingFits
<1>4. CASE StoreFinal
  <2> DEFINE n == [job EXCEPT !.finalReceipt = TRUE]
  <2>1. Save(n, FinalComment(n, proc.next))
    BY <1>4 DEF StoreFinal
  <2>2. n \in JobState
    BY <1>1 DEF JobState
  <2>3. n = [job EXCEPT !.finalReceipt = TRUE]
    OBVIOUS
  <2> HIDE DEF n
  <2>4. Accepted(n) => SameEvidence(job, n) /\ SameEnd(job, n)
    BY <1>1, <2>3, CommentSaved
  <2>5. Accepted(n) => Steady(job, n) /\ SameOutcome(job, n)
    BY <1>1, <2>2, <2>4, EvidenceSteady DEF SameEnd, SameOutcome
  <2>6. QED
    BY <1>2, <2>1, <2>5, SteadySave
<1>5. QED
  BY <1>3, <1>4

LEMMA SameCandidates ==
    ASSUME NEW j \in JobState, NEW n, n.cand = j.cand, n.mode = j.mode
    PROVE  /\ Steady(j, n) /\ BestOf(n) = BestOf(j)
           /\ NoWinner(j) => NoWinner(n)
<1>1. Handed(n) = Handed(j)
  BY DEF Handed
<1>2. BestOf(n) = BestOf(j)
  BY <1>1, SameBestOf
<1>3. Completed(n) = Completed(j)
  BY <1>1 DEF Completed
<1>4. QED
  BY <1>2, <1>3 DEF Steady, NoWinner, EnoughCompleted

LEMMA ProjectKeepsBests ==
    ASSUME Inv, Bests, Project \/ StoreProjection
    PROVE  Bests'
<1> DEFINE n == [job EXCEPT !.projection = proc.cand, !.terminal = ProjectedOutcome]
<1>1. /\ job \in JobState /\ proc \in Proc /\ Fits
      /\ proc.pc \in {"project", "storeProjection"} /\ proc.pc \in Finishing
  BY CommandsFit DEF Inv, Project, StoreProjection, Pc, Finishing
<1>2. /\ job.projection = None
      /\ Quantitative(job) => job.terminal = "winner"
  BY <1>1, AtProject
<1>3. Quantitative(job) => EnoughCompleted(job)
  BY <1>1 DEF Bests, RoundFits
<1>4. /\ Apart(Ended) /\ \A j, next : Apart(FinalComment(j, next))
      /\ To("storeProjection").pc = "storeProjection"
  BY <1>1, Aparts DEF To, Proc
<1>5. CASE Project
  <2>1. CASE Continue(Ended)
    BY <1>4, <2>1, ApartContinues
  <2>2. CASE ~Continue(Ended)
    <3>1. /\ job' = job /\ side' = side /\ proc' = To("storeProjection")
          /\ World'.pr = World.pr
      BY <1>2, <1>5, <2>2 DEF Project, runtime, github, World
    <3>2. EndingFits(job, World')
      BY <1>2, <3>1 DEF Bests, EndingFits
    <3>3. RoundFits(job, proc')
      BY <1>3, <1>4, <3>1 DEF RoundFits
    <3>4. QED
      BY <3>1, <3>2, <3>3 DEF Bests
  <2>3. QED
    BY <2>1, <2>2
<1>6. CASE StoreProjection
  <2>1. Save(n, FinalComment(n, "idle"))
    BY <1>6 DEF StoreProjection
  <2>2. /\ n.cand = job.cand /\ n.mode = job.mode
        /\ n.terminal = ProjectedOutcome
    BY <1>1 DEF JobState
  <2> HIDE DEF n
  <2>3. Steady(job, n)
    BY <1>1, <2>2, SameCandidates
  <2>4. CASE Quantitative(job)
    <3>1. SameOutcome(job, n)
      BY <1>2, <2>2, <2>4 DEF ProjectedOutcome, SameOutcome
    <3>2. QED
      BY <1>4, <2>1, <2>3, <3>1, SteadySave
  <2>5. CASE ~Quantitative(job)
    <3>1. ~Quantitative(n)
      BY <2>2, <2>5 DEF Quantitative
    <3>2. TestedFits(n, side)
      BY <2>5 DEF Bests, TestedFits
    <3>3. EndingFits(n, World) /\ RoundFits(n, FinalComment(n, "idle"))
      BY <3>1 DEF EndingFits, RoundFits
    <3>4. QED
      BY <2>1, <3>2, <3>3, SaveKeepsBests
  <2>6. QED
    BY <2>4, <2>5
<1>7. QED
  BY <1>5, <1>6

LEMMA CloseKeepsBests ==
    ASSUME Inv, Bests, Close \/ StoreClosure
    PROVE  Bests'
<1> DEFINE n == [job EXCEPT !.closure = TRUE, !.terminal = "no_winner"]
<1>1. /\ job \in JobState /\ proc \in Proc /\ Fits
      /\ proc.pc \in {"close", "storeClosure"} /\ proc.pc \in Finishing
  BY CommandsFit DEF Inv, Close, StoreClosure, Pc, Finishing
<1>2. /\ ~job.closure /\ job.terminal \in {"none", "no_winner"}
      /\ proc.pc = "storeClosure" => Quantitative(job)
  BY <1>1, AtClose
<1>3. Quantitative(job) => EnoughCompleted(job) /\ NoWinner(job)
  BY <1>1 DEF Bests, RoundFits
<1>4. /\ Apart(Ended) /\ \A j, next : Apart(FinalComment(j, next))
      /\ To("storeClosure").pc = "storeClosure"
  BY <1>1, Aparts DEF To, Proc
<1>5. CASE Close
  <2>1. CASE Continue(Ended)
    BY <1>4, <2>1, ApartContinues
  <2>2. CASE ~Continue(Ended)
    <3>1. /\ job' = job /\ side' = side /\ proc' = To("storeClosure")
          /\ World'.applied = World.applied
      BY <1>2, <1>5, <2>2 DEF Close, runtime, World
    <3>2. EndingFits(job, World')
      BY <1>2, <1>3, <3>1 DEF Bests, EndingFits
    <3>3. RoundFits(job, proc')
      BY <1>3, <1>4, <3>1 DEF RoundFits
    <3>4. QED
      BY <3>1, <3>2, <3>3 DEF Bests
  <2>3. QED
    BY <2>1, <2>2
<1>6. CASE StoreClosure
  <2>1. Save(n, FinalComment(n, "idle")) /\ Quantitative(job)
    BY <1>2, <1>6 DEF StoreClosure, Pc
  <2>2. /\ n.cand = job.cand /\ n.mode = job.mode /\ n.terminal = "no_winner"
    BY <1>1 DEF JobState
  <2> HIDE DEF n
  <2>3. Steady(job, n) /\ NoWinner(n) /\ BestOf(n) = BestOf(job)
    BY <1>1, <1>3, <2>1, <2>2, SameCandidates
  <2>4. EnoughCompleted(n) /\ Quantitative(n)
    BY <1>3, <2>1, <2>2, <2>3 DEF Steady, Quantitative
  <2>5. TestedFits(n, side)
    BY <2>3, <2>4 DEF Bests, TestedFits
  <2>6. World.applied = None
    BY <1>2, <2>1 DEF Bests, EndingFits
  <2>7. EndingFits(n, World)
    BY <2>2, <2>3, <2>4, <2>6 DEF EndingFits
  <2>8. RoundFits(n, FinalComment(n, "idle"))
    BY <1>4, ApartFits
  <2>9. QED
    BY <2>1, <2>5, <2>7, <2>8, SaveKeepsBests
<1>7. QED
  BY <1>5, <1>6

LEMMA OutsideKeepsBests ==
    ASSUME Inv, Files, Bests,
           \/ RuntimeWork \/ RuntimeFault \/ Interrupt
           \/ OpenPullRequest \/ BindPr \/ UNCHANGED vars
    PROVE  Bests'
<1>1. CASE RuntimeWork \/ RuntimeFault
  BY <1>1, WorkKeepsBests
<1>2. CASE Interrupt
  <2>1. job' = job /\ side' = side /\ World' = World /\ proc' = Ended
    BY <1>2 DEF Interrupt, R!Abort, runtime, github, World
  <2>2. Apart(Ended)
    BY DEF Ended, Apart, Finishing, Deciding
  <2>3. QED
    BY <2>1, <2>2, ApartMove
<1>3. CASE OpenPullRequest \/ BindPr \/ UNCHANGED vars
  <2>1. /\ job' = job /\ side' = side /\ proc' = proc
        /\ World'.applied = World.applied
        /\ World'.pr = "closed" => World.pr = "closed"
    BY <1>3 DEF OpenPullRequest, BindPr, vars, runtime, github, World
  <2>2. QED
    BY <2>1 DEF Bests, EndingFits
<1>4. QED
  BY <1>1, <1>2, <1>3

LEMMA NextKeepsBests ==
    ASSUME Inv, Files, Bests, [Next]_vars
    PROVE  Bests'
<1>1. CASE Command
  BY <1>1, CommandKeepsBests
<1>2. CASE CompleteStep
  BY <1>2, FinalizeKeepsBests, EvaluateKeepsBests, EvaluatedKeepsBests,
     CompleteKeepsBests DEF CompleteStep
<1>3. CASE SweepSteps
  BY <1>3, SweepStepKeepsBests, SweptKeepsBests, CompleteKeepsBests
  DEF SweepSteps
<1>4. CASE FinishStep
  BY <1>4, EntryKeepsBests, FinDecideKeepsBests, ValidateKeepsBests,
     ValidatedKeepsBests, FinalDecideKeepsBests DEF FinishStep
<1>5. CASE EffectStep
  BY <1>5, CommentKeepsBests, ProjectKeepsBests, CloseKeepsBests DEF EffectStep
<1>6. QED
  BY <1>1, <1>2, <1>3, <1>4, <1>5, OutsideKeepsBests DEF Next, CommandStep

LEMMA InitialBests == Init => Bests
<1> SUFFICES ASSUME Init PROVE Bests
  OBVIOUS
<1>1. /\ proc = Ended /\ DOMAIN side = {} /\ job.terminal = "none"
      /\ applied = None /\ pr # "closed"
  BY DEF Init, R!Init
<1>2. TestedFits(job, side)
  BY <1>1 DEF TestedFits
<1>3. EndingFits(job, World)
  BY <1>1 DEF EndingFits, Settling, World
<1>4. RoundFits(job, proc)
  BY <1>1, ApartFits DEF Ended, Apart, Finishing, Deciding
<1>5. QED
  BY <1>2, <1>3, <1>4 DEF Bests

LEMMA BestsInductive == Spec => []Bests
<1>1. Inv /\ Files /\ Bests /\ [Next]_vars => Bests'
  BY NextKeepsBests
<1>2. QED
  BY <1>1, InitialBests, Inductive, FilesInductive, PTL DEF Spec

-----------------------------------------------------------------------------
(* The theorems.                                                           *)

\* The commands call the runtime only as it may be called: what the commands
\* do, as the runtime sees it, is a behaviour of DraftRuntime, whatever fails
\* or is interrupted.
THEOREM JobUsesRuntime == Spec => R!Spec
<1>1. Init => R!Init
  BY DEF Init
<1>2. Inv /\ [Next]_vars => [R!Next]_R!vars
  BY StepKeeps
<1>3. QED
  BY <1>1, <1>2, Inductive, PTL DEF Spec, R!Spec

\* Every variable keeps its type; no save writes a state of the wrong shape.
THEOREM TypeCorrect == Spec => []TypeOK
<1>1. Inv => TypeOK
  BY RuntimeFits, CommandsFit DEF Inv, TypeOK, WorldTypes
<1>2. QED
  BY <1>1, Inductive, PTL

\* A job only ends with "winner" for a candidate that met the development
\* rules, outranked the others and passed its own validating run.
THEOREM WinnersAreValidated == Spec => []WinnerIsValidated
<1>1. Inv => WinnerIsValidated
  BY DEF Inv, Fits, JobFits, WinnerFits, WinnerIsValidated
<1>2. QED
  BY <1>1, Inductive, PTL

\* The patch in the checkout is the selected candidate's once the receipt of
\* its projection is stored.
THEOREM AppliedSelected == Spec => []AppliedIsSelected
<1>1. Inv => AppliedIsSelected
  BY CommandsFit DEF Inv, Fits, JobFits, Accepted, WorldRests, World,
                     AppliedIsSelected
<1>2. QED
  BY <1>1, Inductive, PTL

\* How the deadlock of run NoWinnerDeadlock looks in every job without Foundry
\* evaluation: the pull request stays open and no closure is ever recorded,
\* although finish is to close a job that has nothing to propose.
ClosureNeverComes ==
    job.mode # "foundry_evaluation" =>
        pr # "closed" /\ ~job.closure /\ job.terminal # "no_winner"

\* The deadlock between closure and final comment needs no particular
\* instance: with checks or without evidence the closure never comes.
THEOREM ClosureDeadlocks == Spec => []ClosureNeverComes
<1>1. Inv => ClosureNeverComes
  <2> SUFFICES ASSUME Inv, ~Quantitative(job)
               PROVE   ClosureNeverComes
    BY DEF ClosureNeverComes, Quantitative
  <2>1. job.terminal \in {"none", Label(job)}
    BY DEF Inv, Fits, JobFits, ModeFits
  <2>2. job.terminal # "no_winner"
    BY <2>1 DEF Label
  <2>3. ~job.closure
    BY <2>2 DEF Inv, Fits, JobFits
  <2>4. pr # "closed"
    BY CommandsFit DEF Inv, WorldRests, World
  <2>5. QED
    BY <2>2, <2>3, <2>4 DEF ClosureNeverComes
<1>2. QED
  BY <1>1, Inductive, PTL

\* Each evidence label of a terminal outcome is backed by the evidence of the
\* job's mode, and the selected candidate is the first that has it.
THEOREM LabelsAreHonest == Spec => []HonestLabels
<1>1. Inv => HonestLabels
  <2> SUFFICES ASSUME Inv PROVE HonestLabels
    OBVIOUS
  <2>1. /\ job \in JobState /\ HandedFits(job) /\ ModeFits(job) /\ Accepted(job)
        /\ job.terminal \in Positive => SelectionFits(job)
    BY DEF Inv, Fits, JobFits
  <2>2. job.mode \in Modes
    BY <2>1, ModeAssumption DEF JobState
  <2>3. job.terminal = "winner" => job.mode = "foundry_evaluation"
    BY <2>1 DEF ModeFits, Label, Quantitative
  <2>4. job.terminal = "proposed_unverified" => job.mode = "none"
    BY <2>1, <2>2 DEF ModeFits, Label, Quantitative, Modes
  <2>5. job.terminal \in Positive /\ job.mode # "foundry_evaluation" =>
          job.decision.selected = Least(Acceptable(job))
    BY <2>1 DEF SelectionFits, Quantitative
  <2>6. ASSUME job.terminal = "recommended"
        PROVE  /\ job.mode = "repository_checks"
               /\ job.cand[job.decision.selected].checks = "passed"
    <3>1. job.mode = "repository_checks"
      BY <2>1, <2>6 DEF ModeFits, Label, Quantitative
    <3>2. /\ job.decision.selected = Least(Acceptable(job))
          /\ job.decision.selected # None
      BY <2>1, <2>5, <2>6, <3>1 DEF Positive, Accepted
    <3>3. Acceptable(job) # {}
      BY <3>2 DEF Least
    <3>4. /\ Handed(job) \in SUBSET Candidates
          /\ Acceptable(job) \in SUBSET Handed(job)
      BY DEF Handed, Acceptable
    <3>5. job.decision.selected \in Acceptable(job)
      BY <2>1, <3>2, <3>3, <3>4, LeastIsMember DEF HandedFits
    <3>6. QED
      BY <3>1, <3>5 DEF Acceptable
  <2>7. QED
    BY <2>3, <2>4, <2>5, <2>6 DEF HonestLabels
<1>2. QED
  BY <1>1, Inductive, PTL

\* Nothing takes back a patch or a closure that is recorded.
THEOREM OutcomesAreFinal == Spec => OutcomeIsFinal
<1> DEFINE Final ==
      /\ job.projection # None =>
           /\ job'.projection = job.projection
           /\ job'.decision.selected = job.decision.selected
      /\ job.closure => job'.closure
      /\ job.projection # None \/ job.closure => job'.terminal = job.terminal
<1>1. ASSUME Inv, [Next]_vars PROVE Final
  <2>1. Inv' /\ Kept(job, job')
    BY <1>1, StepKeeps
  <2>2. Accepted(job) /\ Accepted(job)'
    BY <1>1, <2>1 DEF Inv, Fits, JobFits
  <2>3. QED
    BY <2>1, <2>2 DEF Kept, Accepted
<1>2. Inv /\ [Next]_vars => [Final]_vars
  BY <1>1
<1>3. QED
  BY <1>2, Inductive, PTL DEF Spec, OutcomeIsFinal

\* What is proved of the runtime alone holds in the job: no draft is forgotten
\* but those of a creation that was cut short, a cleanup receipt is true, and
\* no code is evaluated that was not compared with the source ZIP.
THEOREM JobOwnsItsDrafts ==
    Spec => [](/\ R!DraftsAccounted /\ R!ReceiptMeansDeleted
               /\ R!EvaluatesOnlyProvenCode /\ R!SidecarsRevalidate)
<1>1. ASSUME Inv
      PROVE  /\ RP!DraftsAccounted /\ RP!ReceiptMeansDeleted
             /\ RP!EvaluatesOnlyProvenCode /\ RP!SidecarsRevalidate
  BY <1>1, RuntimeParameters, RP!Consequences DEF Inv
<1>2. /\ R!DraftsAccounted <=> RP!DraftsAccounted
      /\ R!ReceiptMeansDeleted <=> RP!ReceiptMeansDeleted
      /\ R!EvaluatesOnlyProvenCode <=> RP!EvaluatesOnlyProvenCode
  BY DEF R!DraftsAccounted, RP!DraftsAccounted, R!At, RP!At,
         R!ReceiptMeansDeleted, RP!ReceiptMeansDeleted, R!None, RP!None,
         R!EvaluatesOnlyProvenCode, RP!EvaluatesOnlyProvenCode
<1>3. R!SidecarsRevalidate <=> RP!SidecarsRevalidate
  BY DEF R!SidecarsRevalidate, RP!SidecarsRevalidate, R!ValidCandidate,
         RP!ValidCandidate, R!None, RP!None
<1>4. Inv => /\ R!DraftsAccounted /\ R!ReceiptMeansDeleted
             /\ R!EvaluatesOnlyProvenCode /\ R!SidecarsRevalidate
  BY <1>1, <1>2, <1>3
<1>5. QED
  BY <1>4, Inductive, PTL

\* The state file and the sidecar file never disagree about the evidence or
\* the draft of a candidate, whichever of the two the last command wrote first.
THEOREM TheFilesAgree == Spec => []FilesAgree
<1>1. Files => FilesAgree
  BY DEF Files, Agree, Matches, FilesAgree, Handed
<1>2. QED
  BY <1>1, FilesInductive, PTL

\* A draft that was deleted, by the job or by the runtime, is never run again:
\* no reference to it survives a retry.
THEOREM NeverOnADeletedDraft == Spec => []NoRunOnDeletedDraft
<1>1. Files => NoRunOnDeletedDraft
  BY DEF Files, HoldFits, DraftFits, NoRunOnDeletedDraft
<1>2. QED
  BY <1>1, FilesInductive, PTL

\* Only the provisional winner is ever run on the validating dataset, and it
\* stays the one whatever fails and is retried in between.
THEOREM OneIsValidated == Spec => []OneValidated
<1>1. Inv /\ Files /\ Bests => OneValidated
  <2> SUFFICES ASSUME Inv, Files, Bests PROVE OneValidated
    OBVIOUS
  <2> DEFINE tested == {c \in DOMAIN side : side[c].val # None}
  <2>1. tested \subseteq {BestOf(job)}
    BY DEF Bests, TestedFits
  <2>2. /\ IsFiniteSet({BestOf(job)}) /\ Cardinality({BestOf(job)}) = 1
    BY FS_Singleton
  <2>3. /\ Cardinality(tested) <= Cardinality({BestOf(job)})
        /\ Cardinality(tested) \in Nat
    BY <2>1, <2>2, FS_Subset, FS_CardinalityType
  <2>4. Cardinality(tested) <= 1
    BY <2>2, <2>3
  <2>5. call.op = "validating" => call.cand = job.decision.prov
    <3> SUFFICES ASSUME call.op = "validating"
                 PROVE  call.cand = job.decision.prov
      OBVIOUS
    <3>1. proc.pc = "validated"
      BY DEF Files, CallingFits, Calling, R!Idle
    <3>2. call.cand = proc.cand /\ job.decision.prov = proc.cand
      BY <3>1 DEF Inv, FrameFits, Fits, CommandFits, DecidingFits
    <3>3. QED
      BY <3>2
  <2>6. QED
    BY <2>4, <2>5 DEF OneValidated
<1>2. QED
  BY <1>1, Inductive, FilesInductive, BestsInductive, PTL

\* The pull request is closed only when the rules were met by no candidate, or
\* the best one has failed its validating run.
THEOREM ClosedWithoutWinner == Spec => []ClosedOnlyWithoutWinner
<1>1. Inv /\ Bests => ClosedOnlyWithoutWinner
  <2> SUFFICES ASSUME Inv, Bests, pr = "closed"
               PROVE  IF job.mode = "foundry_evaluation"
                      THEN LET best == Best(job, Eligible(job)) IN
                           best # None =>
                             job.cand[best].val \notin Passing \cup {None}
                      ELSE Acceptable(job) = {}
    BY DEF ClosedOnlyWithoutWinner
  <2>1. Quantitative(job)
    BY CommandsFit DEF Inv, WorldRests, World
  <2>2. NoWinner(job)
    BY <2>1 DEF Bests, EndingFits, World
  <2>3. QED
    BY <2>1, <2>2 DEF NoWinner, BestOf, Quantitative
<1>2. QED
  BY <1>1, Inductive, BestsInductive, PTL

\* A job whose patch is in the checkout is never closed as one without a
\* winner, whatever crashed before.
THEOREM ProjectedOrClosed == Spec => []NeverProjectedAndClosed
<1>1. Inv /\ Bests => NeverProjectedAndClosed
  <2> SUFFICES ASSUME Inv, Bests, applied # None, pr = "closed" PROVE FALSE
    BY DEF NeverProjectedAndClosed
  <2>1. Quantitative(job)
    BY CommandsFit DEF Inv, WorldRests, World
  <2>2. job.terminal = "winner" /\ job.terminal \in {"none", "no_winner"}
    BY <2>1 DEF Bests, EndingFits, World
  <2>3. QED
    BY <2>2
<1>2. QED
  BY <1>1, Inductive, BestsInductive, PTL
=============================================================================
