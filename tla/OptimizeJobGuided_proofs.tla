---------------------- MODULE OptimizeJobGuided_proofs ----------------------
(***************************************************************************)
(* What is proved of an optimize job whose agent gives the commands that   *)
(* next_action asks for, for any candidates, results and bounds: the       *)
(* final comment on the issue is true, and the runtime refuses no call.    *)
(*                                                                         *)
(* Each rests on an invariant of its own.  Tells is about what the issue   *)
(* is told: no candidate with a result is left without its comment, and a  *)
(* decision is only told when no later step can change it.  Holding is     *)
(* about what is kept: the draft of the best candidate is there until its  *)
(* validating run, because the decision protects it from every sweep.      *)
(***************************************************************************)
EXTENDS OptimizeJob_proofs

-----------------------------------------------------------------------------
(* What a guided agent is told: the final comment.                         *)

\* A candidate without its comment is one without a result.
Commented(j) ==
    \A c \in Handed(j) :
        \/ j.cand[c].comment
        \/ j.cand[c].assessment = "none" /\ j.cand[c].dev = None

\* The job has an outcome, or the issue has been told of one.
Over(j) == j.terminal # "none" \/ j.finalReceipt

\* Nothing is left to select from.
Hopeless(j) ==
    /\ Quantitative(j) /\ BestOf(j) = None
    /\ j.decision = [NoDecision EXCEPT !.outcome = "no_winner", !.prov = BestOf(j)]

Completing == {"finalize", "evaluate", "evaluating", "decide", "afterTry",
               "comment"}

\* Where a complete is still to store something, and where a finish is.
InComplete(p) ==
    \/ p.pc \in Completing \cup {"retryDecide"}
    \/ p.pc \in Sweeping /\ p.next = "afterTry"

InFinish(p) ==
    \/ p.pc \in Finishing \cup Commenting
                  \cup {"entry", "bind", "bindVerify", "afterFailure"}
    \/ p.pc \in Sweeping /\ p.next \in {"entry", "afterFailure"}

\* What the state file says of an outcome is what the issue was told.
Told(j, body) ==
    /\ Over(j) => Commented(j) /\ EnoughCompleted(j)
    /\ j.finalReceipt => body = j.decision
    /\ j.terminal # "none" => j.decision.outcome = j.terminal
    /\ j.terminal = "none" /\ j.finalReceipt => Hopeless(j)

\* What a command knows of it: only a finish tells, once every candidate is
\* completed and commented; a complete runs in an open job.
ToldAt(j, p, body) ==
    /\ InFinish(p) => Commented(j)
    /\ InComplete(p) => ~Over(j)
    /\ p.pc \in Finishing \cup Commenting \cup {"bind", "bindVerify"} =>
           EnoughCompleted(j)
    /\ p.pc \in {"sidecarFinal", "storeFinal"} => body = j.decision
    /\ p.pc \in {"close", "storeClosure"} => j.decision.outcome = "no_winner"
    /\ p.pc \in Commenting /\ j.terminal = "none" => Hopeless(j)

Tells == Told(job, finalBody) /\ ToldAt(job, proc, finalBody)

\* In an open job there is nothing to tell.
LEMMA OpenTold ==
    ASSUME NEW j, NEW body, ~Over(j)
    PROVE  Told(j, body)
BY DEF Told, Over

\* The places a finish goes through.
LEMMA SilentTold ==
    ASSUME NEW j, NEW p, NEW body, ~InFinish(p), InComplete(p) => ~Over(j)
    PROVE  ToldAt(j, p, body)
BY DEF ToldAt, InFinish, Finishing, Commenting, Deciding

LEMMA OngoingTold ==
    ASSUME NEW j, NEW p, NEW body, Commented(j), EnoughCompleted(j),
           p.pc \in Deciding \cup {"project", "storeProjection", "bind", "bindVerify"}
    PROVE  ToldAt(j, p, body)
BY DEF ToldAt, InComplete, Completing, Deciding, Commenting, Sweeping

LEMMA ClosingTold ==
    ASSUME NEW j, NEW p, NEW body, Commented(j), EnoughCompleted(j),
           p.pc \in {"close", "storeClosure"}, j.decision.outcome = "no_winner"
    PROVE  ToldAt(j, p, body)
BY DEF ToldAt, InComplete, Completing, Commenting, Sweeping

LEMMA FinalCommentTold ==
    ASSUME proc \in Proc, NEW j, NEW body, NEW next,
           Commented(j), EnoughCompleted(j), j.terminal = "none" => Hopeless(j)
    PROVE  ToldAt(j, FinalComment(j, next), body)
<1> DEFINE p == FinalComment(j, next)
<1>1. \/ p.pc = "bind" \/ p.pc = "postFinal"
      \/ p.pc = "sweep" /\ p.next = "idle"
  BY DEF FinalComment, LastSweep, Sweep, To, Proc
<1> HIDE DEF p
<1>2. ToldAt(j, p, body)
  BY <1>1 DEF ToldAt, InFinish, InComplete, Completing, Finishing, Deciding, Commenting,
              Sweeping
<1>3. QED
  BY <1>2 DEF p

LEMMA ControllerFinishTold ==
    ASSUME proc \in Proc, NEW j, NEW body, Commented(j)
    PROVE  ToldAt(j, ControllerFinish(j), body)
<1> DEFINE p == ControllerFinish(j)
<1>1. p.pc = "sweep" /\ p.next = "entry"
  BY DEF ControllerFinish, Proc
<1> HIDE DEF p
<1>2. ToldAt(j, p, body)
  BY <1>1 DEF ToldAt, InComplete, Completing, Finishing, Deciding, Commenting, Sweeping
<1>3. QED
  BY <1>2 DEF p

\* The places without a finish.
LEMMA Silents ==
    ASSUME proc \in Proc
    PROVE  /\ ~InFinish(Ended) /\ ~InComplete(Ended)
           /\ \A pc \in Completing : ~InFinish(To(pc))
           /\ \A ids : /\ ~InFinish(Sweep(ids, "idle"))
                       /\ ~InComplete(Sweep(ids, "idle"))
           /\ \A j : /\ ~InFinish(LastSweep(j)) /\ ~InComplete(LastSweep(j))
                     /\ ~InFinish(AfterDecision(j))
<1>1. /\ Ended.pc = "idle"
      /\ \A pc : To(pc).pc = pc
      /\ \A ids, next : Sweep(ids, next).pc = "sweep" /\ Sweep(ids, next).next = next
  BY DEF Ended, To, Sweep, Proc
<1>2. ~InFinish(Ended) /\ ~InComplete(Ended)
  BY <1>1 DEF InFinish, InComplete, Finishing, Deciding, Commenting, Completing, Sweeping
<1>3. \A pc \in Completing : ~InFinish(To(pc))
  BY <1>1 DEF InFinish, Finishing, Deciding, Commenting, Completing, Sweeping
<1>4. \A ids : ~InFinish(Sweep(ids, "idle")) /\ ~InComplete(Sweep(ids, "idle"))
  BY <1>1 DEF InFinish, InComplete, Finishing, Deciding, Commenting, Completing, Sweeping
<1>5. \A j : ~InFinish(LastSweep(j)) /\ ~InComplete(LastSweep(j))
  BY <1>4 DEF LastSweep
<1>6. \A j : AfterDecision(j) \in {Ended, To("comment"), Sweep({proc.cand}, "idle")}
  BY DEF AfterDecision
<1>7. QED
  BY <1>2, <1>3, <1>4, <1>5, <1>6 DEF Completing

\* A save, and a move.
LEMMA SaveTells ==
    ASSUME Tells, proc \in Proc, NEW n, NEW p, Save(n, p) \/ SaveResult(n, p),
           Accepted(n) => Told(n, finalBody) /\ ToldAt(n, p, finalBody)
    PROVE  Tells'
<1>1. /\ finalBody' = finalBody
      /\ IF Accepted(n) THEN job' = n /\ proc' = p
                        ELSE job' = job /\ proc' = Ended
  BY DEF Save, SaveResult, github
<1>2. ToldAt(job, Ended, finalBody)
  BY Silents, SilentTold
<1>3. QED
  BY <1>1, <1>2 DEF Tells

LEMMA MoveTells ==
    ASSUME Tells, NEW p,
           Continue(p) \/ DropResult(p) \/ (\E frame : Invoke(frame, p)),
           ToldAt(job, p, finalBody)
    PROVE  Tells'
BY DEF Tells, Continue, DropResult, Invoke, github

\* A step of a complete: the job is open and stays so.
LEMMA CompletingTells ==
    ASSUME Tells, proc \in Proc, InComplete(proc), NEW p, ~InFinish(p), NEW n,
           \/ Continue(p) \/ DropResult(p) \/ (\E frame : Invoke(frame, p))
           \/ Save(n, p) \/ SaveResult(n, p),
           n.terminal = job.terminal \/ n.terminal = "none",
           n.finalReceipt = job.finalReceipt \/ ~n.finalReceipt
    PROVE  Tells'
<1>1. ~Over(job)
  BY DEF Tells, ToldAt
<1>2. ~Over(n)
  BY <1>1 DEF Over
<1>3. ToldAt(job, p, finalBody) /\ ToldAt(n, p, finalBody) /\ Told(n, finalBody)
  BY <1>1, <1>2, SilentTold, OpenTold
<1>4. QED
  BY <1>3, SaveTells, MoveTells

\* A save that drops no comment, and no result without its comment.
LEMMA CommentedSteady ==
    ASSUME NEW j, NEW n, Handed(n) = Handed(j), Commented(j),
           \A c \in Handed(j) :
             /\ j.cand[c].comment => \/ n.cand[c].comment
                                     \/ n.cand[c].assessment = "none"
                                        /\ n.cand[c].dev = None
             /\ j.cand[c].assessment = "none" /\ j.cand[c].dev = None =>
                    n.cand[c].assessment = "none" /\ n.cand[c].dev = None
    PROVE  Commented(n)
BY DEF Commented

\* A receipt leaves what was told.
LEMMA ReceiptTold ==
    ASSUME NEW j \in JobState, NEW n \in JobState, NEW body, Told(j, body),
           SameEvidence(j, n), SameEnd(j, n), n.finalReceipt = j.finalReceipt,
           \A c \in Candidates : j.cand[c].comment => n.cand[c].comment
    PROVE  /\ Told(n, body)
           /\ \A p : ToldAt(j, p, body) => ToldAt(n, p, body)
<1>1. /\ Handed(n) = Handed(j) /\ Completed(n) = Completed(j)
      /\ BestOf(n) = BestOf(j)
  BY SameSets DEF SameEnd, BestOf
<1>2. Commented(j) => Commented(n)
  BY <1>1, CommentedSteady DEF SameEvidence, Handed
<1>3. (EnoughCompleted(j) <=> EnoughCompleted(n)) /\ (Hopeless(j) => Hopeless(n))
  BY <1>1 DEF EnoughCompleted, Hopeless, SameEnd, Quantitative
<1>4. QED
  BY <1>2, <1>3 DEF Told, ToldAt, Over, SameEnd

\* A retry reopens the job, and takes a comment only with its result.
LEMMA RetryTold ==
    ASSUME NEW j \in JobState, NEW c \in Candidates, NEW phase
    PROVE  LET n == WithRetry(j, c, phase) IN
           /\ ~Over(n) /\ (Commented(j) => Commented(n))
<1> DEFINE reset == IF phase = "candidate"
                    THEN [j.cand[c] EXCEPT !.dev = None, !.val = None,
                            !.assessment = "none", !.comment = FALSE]
                    ELSE [j.cand[c] EXCEPT !.val = None]
           k == [reset EXCEPT !.draft = None, !.cleaned = FALSE]
           n == WithRetry(j, c, phase)
<1>1. n.cand = [j.cand EXCEPT ![c] = k] /\ n.terminal = "none" /\ ~n.finalReceipt
  BY DEF WithRetry, JobState
<1>2. /\ k.handed = j.cand[c].handed
      /\ IF phase = "candidate"
         THEN k.dev = None /\ k.assessment = "none"
         ELSE /\ k.dev = j.cand[c].dev /\ k.assessment = j.cand[c].assessment
              /\ k.comment = j.cand[c].comment
  <2>1. j.cand[c] \in Candidate
    BY DEF JobState
  <2>2. QED
    BY <2>1 DEF Candidate
<1> HIDE DEF k, n
<1>3. n.cand[c] = k /\ \A d \in Candidates \ {c} : n.cand[d] = j.cand[d]
  BY <1>1 DEF JobState
<1>4. Handed(n) = Handed(j)
  BY <1>2, <1>3 DEF Handed
<1>5. Commented(j) => Commented(n)
  <2> SUFFICES ASSUME Commented(j) PROVE Commented(n)
    OBVIOUS
  <2>1. \A d \in Handed(j) : d \in Candidates
    BY DEF Handed
  <2>2. QED
    BY <1>2, <1>3, <1>4, <2>1, CommentedSteady
<1>6. QED
  BY <1>1, <1>5 DEF Over, n

\* A reassessment leaves comments, and candidates without a result.
LEMMA ReassessedTold ==
    ASSUME NEW j \in JobState, NEW n \in JobState,
           NEW outcome \in [Candidates -> Assessments], Reassessed(j, n, outcome),
           \A c \in Candidates :
               j.cand[c].assessment = "none" /\ j.cand[c].dev = None =>
                   outcome[c] = "none",
           Commented(j)
    PROVE  Commented(n)
<1>1. \A c \in Candidates :
        /\ n.cand[c].handed = j.cand[c].handed /\ n.cand[c].dev = j.cand[c].dev
        /\ n.cand[c].assessment = outcome[c]
  BY AssessedFields
<1>2. ASSUME NEW c \in Candidates PROVE n.cand[c].comment = j.cand[c].comment
  <2>1. j.cand[c] \in Candidate
    BY DEF JobState
  <2>2. QED
    BY <2>1 DEF Reassessed, Candidate
<1>3. Handed(n) = Handed(j)
  BY <1>1 DEF Handed
<1>4. \A c \in Handed(j) : c \in Candidates
  BY DEF Handed
<1>5. QED
  BY <1>1, <1>2, <1>3, <1>4, CommentedSteady

\* The development decision: what it leaves, and what it says.
LEMMA DecisionTold ==
    ASSUME NEW j, JobFits(j), NEW n, n = WithDevelopmentDecision(j)
    PROVE  /\ Commented(j) => Commented(n)
           /\ n.finalReceipt = j.finalReceipt /\ n.terminal = j.terminal
           /\ n.mode = j.mode
           /\ IF Quantitative(j)
              THEN /\ BestOf(n) = BestOf(j)
                   /\ n.decision = [NoDecision EXCEPT !.outcome = "no_winner",
                                                      !.prov = BestOf(j)]
              ELSE n.decision.selected = None => n.decision.outcome = "no_winner"
<1>1. CASE Quantitative(j)
  <2>1. n = WithProvisional(j)
    BY <1>1 DEF WithDevelopmentDecision, Quantitative
  <2>2. /\ j \in JobState /\ n \in JobState
        /\ Provisional(j) \in [Candidates -> Assessments]
        /\ Reassessed(j, n, Provisional(j))
        /\ n.decision = [NoDecision EXCEPT !.outcome = "no_winner",
                                           !.prov = Best(j, Eligible(j))]
        /\ n.finalReceipt = j.finalReceipt
    BY <2>1, ProvisionalShape
  <2>3. BestOf(n) = BestOf(j)
    BY <2>1, ProvisionalSets DEF BestOf
  <2>4. \A c \in Candidates :
          j.cand[c].assessment = "none" /\ j.cand[c].dev = None =>
              Provisional(j)[c] = "none"
    BY DEF Provisional
  <2>5. Commented(j) => Commented(n)
    BY <2>2, <2>4, ReassessedTold
  <2>6. n.terminal = j.terminal /\ n.mode = j.mode
    BY <2>2 DEF Reassessed
  <2>7. QED
    BY <1>1, <2>2, <2>3, <2>5, <2>6 DEF BestOf
<1>2. CASE ~Quantitative(j)
  <2>1. n = WithSelection(j)
    BY <1>2 DEF WithDevelopmentDecision, Quantitative
  <2>2. /\ j \in JobState /\ n \in JobState
        /\ Selection(j) \in [Candidates -> Assessments]
        /\ Reassessed(j, n, Selection(j))
        /\ n.decision.selected = None => n.decision.outcome = "no_winner"
        /\ n.finalReceipt = j.finalReceipt
    BY <1>2, <2>1, SelectionShape
  <2>3. \A c \in Candidates :
          j.cand[c].assessment = "none" => Selection(j)[c] = "none"
    BY DEF Selection
  <2>4. Commented(j) => Commented(n)
    BY <2>2, <2>3, ReassessedTold
  <2>5. n.terminal = j.terminal /\ n.mode = j.mode
    BY <2>2 DEF Reassessed
  <2>6. QED
    BY <1>2, <2>2, <2>4, <2>5
<1>3. QED
  BY <1>1, <1>2

\* Once the job is over no candidate is pending.
LEMMA OverIsDone ==
    ASSUME Inv, Tells, Over(job)
    PROVE  /\ PendingCandidates(job) = {} /\ EnoughCompleted(job)
           /\ Commented(job)
<1>1. Commented(job) /\ EnoughCompleted(job)
  BY DEF Tells, Told
<1>2. JobFits(job)
  BY DEF Inv, Fits
<1>3. \A c \in Handed(job) : job.cand[c].assessment # "none" /\ job.cand[c].comment
  BY <1>1, <1>2, EnoughMeansAll DEF Commented
<1>4. QED
  BY <1>1, <1>3 DEF PendingCandidates

\* A guided agent hands candidates off, and completes them, in an open job,
\* and it finishes when each candidate has its comment.
LEMMA CommandTells ==
    ASSUME Inv, Tells, Guided, Command
    PROVE  Tells'
<1>0. job \in JobState /\ proc \in Proc
  BY CommandsFit DEF Inv
<1>1. ASSUME NEW c \in Candidates, Handoff(c) PROVE Tells'
  <2> DEFINE n == [job EXCEPT !.cand[c].handed = TRUE]
  <2>1. Save(n, Ended) /\ NextAction = "handoff-candidate" /\ job.terminal = "none"
    BY <1>1 DEF Handoff, Advised
  <2>2. ~EnoughCompleted(job)
    BY <2>1 DEF NextAction
  <2>3. ~Over(job)
    BY <2>2, OverIsDone
  <2>4. ~Over(n)
    BY <1>0, <2>3 DEF Over, JobState
  <2> HIDE DEF n
  <2>5. QED
    BY <1>0, <2>1, <2>4, OpenTold, SilentTold, Silents, SaveTells
<1>2. ASSUME NEW c \in Candidates, StartComplete(c) PROVE Tells'
  <2>1. c \in PendingCandidates(job)
    BY <1>2 DEF StartComplete
  <2>2. ~Over(job)
    BY <2>1, OverIsDone
  <2> DEFINE at(pc) == [Ended EXCEPT !.pc = pc, !.cand = c]
             clean == [at("sweep") EXCEPT !.todo = {c}]
  <2>3. Continue(clean) \/ Continue(at("finalize")) \/ Continue(at("evaluate"))
    BY <1>2 DEF StartComplete
  <2>4. /\ clean.pc = "sweep" /\ clean.next = "idle"
        /\ at("finalize").pc = "finalize" /\ at("evaluate").pc = "evaluate"
    BY DEF Ended
  <2> HIDE DEF at, clean
  <2>5. ~InFinish(clean) /\ ~InFinish(at("finalize")) /\ ~InFinish(at("evaluate"))
    BY <2>4 DEF InFinish, Finishing, Deciding, Commenting, Sweeping
  <2>6. QED
    BY <2>2, <2>3, <2>5, SilentTold, MoveTells
<1>3. CASE StartFinish
  <2> DEFINE p == [Ended EXCEPT !.pc = "sweep", !.todo = Handed(job), !.next = "entry"]
  <2>1. Continue(p) /\ p.pc = "sweep" /\ p.next = "entry"
    BY <1>3 DEF StartFinish, Ended
  <2>2. PendingCandidates(job) = {}
    BY <1>3 DEF StartFinish, Advised, NextAction
  <2>3. Commented(job)
    BY <2>2 DEF PendingCandidates, Commented
  <2> HIDE DEF p
  <2>4. ToldAt(job, p, finalBody)
    BY <2>1, <2>3
    DEF ToldAt, InComplete, Completing, Finishing, Deciding, Commenting, Sweeping
  <2>5. QED
    BY <2>1, <2>4, MoveTells
<1>4. QED
  BY <1>1, <1>2, <1>3 DEF Command

\* The steps of a complete.
LEMMA CompleteTells ==
    ASSUME Inv, Tells, CompleteStep
    PROVE  Tells'
<1> DEFINE c == proc.cand
<1>0. /\ job \in JobState /\ proc \in Proc /\ JobFits(job)
      /\ InComplete(proc) /\ c \in Handed(job) /\ c \in Candidates
  <2>1. /\ proc.pc \in Completing /\ proc.pc \in OnCandidate
    BY DEF CompleteStep, Finalize, Evaluate, Evaluated, Decide, AfterTry, Comment,
           Pc, Completing, OnCandidate
  <2>2. QED
    BY <2>1, CommandsFit, AtCandidate DEF Inv, Fits, InComplete
<1>1. /\ ~InFinish(Ended) /\ \A pc \in Completing : ~InFinish(To(pc))
      /\ ~InFinish(Sweep({c}, "idle")) /\ \A j : ~InFinish(AfterDecision(j))
  BY <1>0, Silents
<1>2. CASE Finalize
  <2> DEFINE n == [job EXCEPT !.cand[c].finalized = TRUE]
             m == [job EXCEPT !.cand[c].assessment = "invalid"]
  <2>1. Save(n, To("evaluate")) \/ Save(m, To("evaluate"))
    BY <1>2 DEF Finalize
  <2>2. /\ n.terminal = job.terminal /\ n.finalReceipt = job.finalReceipt
        /\ m.terminal = job.terminal /\ m.finalReceipt = job.finalReceipt
    BY <1>0 DEF JobState
  <2> HIDE DEF n, m
  <2>3. ~InFinish(To("evaluate"))
    BY <1>1 DEF Completing
  <2>4. QED
    BY <1>0, <2>1, <2>2, <2>3, CompletingTells
<1>3. CASE Evaluate
  <2> DEFINE n(checks, assessment) ==
               [job EXCEPT !.cand[c].checks = checks,
                           !.cand[c].assessment = assessment]
             m == [job EXCEPT !.cand[c].assessment = "keep"]
  <2>1. \/ Continue(To("decide")) \/ Continue(Ended)
        \/ \E frame : Invoke(frame, To("evaluating"))
        \/ \E checks, assessment : Save(n(checks, assessment), To("decide"))
        \/ Save(m, To("decide"))
    <3>0. job.mode \in {"foundry_evaluation", "repository_checks", "none"}
      BY <1>0, ModeAssumption DEF JobState, Modes
    <3>1. CASE job.cand[c].assessment # "none" \/ ~job.cand[c].finalized
      BY <1>3, <3>1 DEF Evaluate
    <3>2. CASE /\ job.cand[c].assessment = "none" /\ job.cand[c].finalized
               /\ job.mode = "foundry_evaluation"
      BY <1>3, <3>2 DEF Evaluate
    <3>3. CASE /\ job.cand[c].assessment = "none" /\ job.cand[c].finalized
               /\ job.mode = "repository_checks"
      <4>1. \E passed \in BOOLEAN :
              Save(n(IF passed THEN "passed" ELSE "failed",
                     IF passed THEN "keep" ELSE "discard"), To("decide"))
        BY <1>3, <3>3 DEF Evaluate
      <4> HIDE DEF n
      <4>2. QED
        BY <4>1
    <3>4. CASE /\ job.cand[c].assessment = "none" /\ job.cand[c].finalized
               /\ job.mode = "none"
      BY <1>3, <3>4 DEF Evaluate
    <3>5. QED
      BY <3>0, <3>1, <3>2, <3>3, <3>4
  <2>2. /\ \A checks, assessment :
               /\ n(checks, assessment).terminal = job.terminal
               /\ n(checks, assessment).finalReceipt = job.finalReceipt
        /\ m.terminal = job.terminal /\ m.finalReceipt = job.finalReceipt
    BY <1>0 DEF JobState
  <2> HIDE DEF n, m
  <2>3. ~InFinish(To("decide")) /\ ~InFinish(To("evaluating"))
    BY <1>1 DEF Completing
  <2>4. CASE Continue(To("decide")) \/ Continue(Ended)
             \/ \E frame : Invoke(frame, To("evaluating"))
    BY <1>0, <1>1, <2>3, <2>4, CompletingTells
  <2>5. QED
    BY <1>0, <2>1, <2>2, <2>3, <2>4, CompletingTells
<1>4. CASE Evaluated
  <2> DEFINE n == WithRetry(job, c, "candidate")
             f == [job EXCEPT !.cand[c].assessment = "platform_failure",
                              !.cand[c].draft = call.draft]
             e == [job EXCEPT !.cand[c].dev = side[c].dev,
                              !.cand[c].draft = call.draft]
             p == [To("retryDecide") EXCEPT !.next = "idle"]
             q == [Sweep({c}, "afterTry") EXCEPT !.tried = TRUE]
  <2>1. \/ DropResult(Ended) \/ SaveResult(n, p)
        \/ SaveResult(f, q) \/ SaveResult(e, To("decide"))
    BY <1>4 DEF Evaluated
  <2>2. /\ n.terminal = "none" /\ ~n.finalReceipt
        /\ f.terminal = job.terminal /\ f.finalReceipt = job.finalReceipt
        /\ e.terminal = job.terminal /\ e.finalReceipt = job.finalReceipt
    BY <1>0 DEF JobState, WithRetry
  <2>3. /\ p.pc = "retryDecide" /\ p.next = "idle"
        /\ q.pc = "sweep" /\ q.next = "afterTry"
    BY <1>0 DEF To, Sweep, Proc
  <2> HIDE DEF n, f, e, p, q
  <2>4. ~InFinish(p) /\ ~InFinish(q) /\ ~InFinish(To("decide"))
    BY <1>1, <2>3 DEF InFinish, Finishing, Deciding, Commenting, Sweeping, Completing
  <2>5. QED
    BY <1>0, <1>1, <2>1, <2>2, <2>4, CompletingTells
<1>5. CASE Decide
  <2> DEFINE n == WithDevelopmentDecision(job)
  <2>1. Save(n, AfterDecision(n))
    BY <1>5 DEF Decide
  <2>2. n.finalReceipt = job.finalReceipt /\ n.terminal = job.terminal
    BY <1>0, DecisionTold
  <2> HIDE DEF n
  <2>3. QED
    BY <1>0, <1>1, <2>1, <2>2, CompletingTells
<1>6. CASE AfterTry
  <2>1. Continue(Ended) \/ Continue(To("comment"))
    BY <1>6 DEF AfterTry
  <2>2. ~InFinish(To("comment"))
    BY <1>1 DEF Completing
  <2>3. QED
    BY <1>0, <1>1, <2>1, <2>2, CompletingTells
<1>7. CASE Comment
  <2> DEFINE n == [job EXCEPT !.cand[c].comment = TRUE]
             p == IF proc.tried THEN Ended ELSE Sweep({c}, "idle")
  <2>1. Save(n, p)
    BY <1>7 DEF Comment
  <2>2. n.finalReceipt = job.finalReceipt /\ n.terminal = job.terminal
    BY <1>0 DEF JobState
  <2>3. ~InFinish(p)
    BY <1>1
  <2> HIDE DEF n, p
  <2>4. QED
    BY <1>0, <2>1, <2>2, <2>3, CompletingTells
<1>8. QED
  BY <1>2, <1>3, <1>4, <1>5, <1>6, <1>7 DEF CompleteStep

\* A sweep goes on for whom it was started.
LEMMA SweepTold ==
    ASSUME NEW j, NEW n, NEW body, ToldAt(j, proc, body), proc.pc \in Sweeping,
           Commented(j) => Commented(n), Over(n) => Over(j), NEW p,
           (p.pc \in Sweeping /\ p.next = proc.next) \/ p.pc = proc.next,
           p.pc = proc.next => p.pc \in Resting,
           p.pc = "retryDecide" => ~Over(n)
    PROVE  ToldAt(n, p, body)
<1>1. InFinish(p) => Commented(n)
  BY DEF ToldAt, InFinish, Sweeping, Resting, Finishing, Deciding, Commenting
<1>2. InComplete(p) => ~Over(n)
  BY DEF ToldAt, InComplete, Sweeping, Resting, Completing
<1>3. p.pc \notin Finishing \cup Commenting \cup {"bind", "bindVerify"}
  BY DEF Sweeping, Resting, Finishing, Deciding, Commenting
<1>4. QED
  BY <1>1, <1>2, <1>3 DEF ToldAt, Finishing, Commenting

LEMMA SweepStepTells ==
    ASSUME Inv, Tells, SweepStep
    PROVE  Tells'
<1> DEFINE p == [proc EXCEPT !.pc = proc.next]
           q == [proc EXCEPT !.todo = @ \ {Least(proc.todo)}]
<1>1. proc \in Proc /\ proc.pc = "sweep" /\ proc.next \in Resting
  BY CommandsFit, InSweep DEF Inv, SweepStep, Pc, Sweeping
<1>2. \/ Continue(p) \/ (\E frame : Invoke(frame, To("sweeping"))) \/ Continue(q)
  BY DEF SweepStep
<1>3. /\ p.pc = proc.next
      /\ To("sweeping").pc = "sweeping" /\ To("sweeping").next = proc.next
      /\ q.pc = "sweep" /\ q.next = proc.next
  BY <1>1 DEF Proc, To
<1> HIDE DEF p, q
<1>4. /\ ToldAt(job, p, finalBody) /\ ToldAt(job, To("sweeping"), finalBody)
      /\ ToldAt(job, q, finalBody)
  BY <1>1, <1>3, SweepTold DEF Tells, Sweeping, Resting
<1>5. QED
  BY <1>2, <1>4, MoveTells

LEMMA SweptTells ==
    ASSUME Inv, Tells, Swept
    PROVE  Tells'
<1> DEFINE c == Least(proc.todo)
           rest == [To("sweep") EXCEPT !.todo = @ \ {c}]
           again == [rest EXCEPT !.pc = "retryDecide"]
           phase == side[call.cand].retry
           k == [job.cand[c] EXCEPT !.cleaned = TRUE]
           n == [job EXCEPT !.cand[c] = k]
           m == WithRetry(job, c, phase)
<1>1. /\ job \in JobState /\ JobFits(job) /\ proc \in Proc
      /\ proc.pc = "sweeping" /\ proc.todo \subseteq Handed(job)
      /\ c \in proc.todo /\ proc.next \in Resting
  BY CommandsFit, InSweep DEF Inv, Swept, Pc, Fits, Sweeping
<1>2. c \in Candidates /\ job.cand[c] \in Candidate
  BY <1>1 DEF Handed, JobState
<1>3. k \in Candidate /\ k.comment = job.cand[c].comment
  BY <1>2 DEF Candidate
<1>4. /\ n \in JobState /\ n.cand[c] = k
      /\ \A d \in Candidates \ {c} : n.cand[d] = job.cand[d]
      /\ SameEnd(job, n)
  BY <1>1, <1>2, <1>3, OneChanged
<1>5. n.finalReceipt = job.finalReceipt
  BY <1>1 DEF JobState
<1>6. /\ rest.pc = "sweep" /\ rest.next = proc.next
      /\ again.pc = "retryDecide" /\ again.next = proc.next
  BY <1>1 DEF To, Proc
<1>7. \/ DropResult(Ended) \/ DropResult(rest)
      \/ SaveResult(m, again) \/ SaveResult(n, rest)
  BY DEF Swept
<1>8. k = [job.cand[c] EXCEPT !.cleaned = TRUE] /\ n = [job EXCEPT !.cand[c] = k]
  OBVIOUS
<1> HIDE DEF n, k, rest, again, phase
<1>9. ToldAt(job, proc, finalBody) /\ Told(job, finalBody)
  BY DEF Tells
<1>10. ToldAt(job, rest, finalBody)
  BY <1>1, <1>6, <1>9, SweepTold DEF Sweeping, Resting
<1>11. ~Over(m) /\ (Commented(job) => Commented(m))
  BY <1>1, <1>2, RetryTold
<1> HIDE DEF m
<1>12. ToldAt(m, again, finalBody) /\ Told(m, finalBody)
  BY <1>1, <1>6, <1>9, <1>11, SweepTold, OpenTold DEF Sweeping, Resting
<1>13. ASSUME Accepted(n)
       PROVE  Told(n, finalBody) /\ ToldAt(n, rest, finalBody)
  <2>1. SameEvidence(job, n)
    BY <1>1, <1>2, <1>3, <1>8, <1>13, ReceiptSaved
  <2>2. \A d \in Candidates : job.cand[d].comment => n.cand[d].comment
    BY <1>3, <1>4
  <2>3. QED
    BY <1>1, <1>4, <1>5, <1>9, <1>10, <2>1, <2>2, ReceiptTold
<1>14. ToldAt(job, Ended, finalBody)
  BY <1>1, Silents, SilentTold
<1>15. QED
  BY <1>1, <1>7, <1>10, <1>12, <1>13, <1>14, SaveTells, MoveTells

LEMMA RetryDecideTells ==
    ASSUME Inv, Tells, RetryDecide
    PROVE  Tells'
<1> DEFINE n == WithDevelopmentDecision(job)
<1>1. /\ JobFits(job) /\ proc \in Proc /\ proc.pc = "retryDecide"
      /\ proc.next \in Resting /\ Save(n, To("sweep"))
  BY CommandsFit, InSweep DEF Inv, Fits, RetryDecide, Pc, Sweeping
<1>2. ~Over(job) /\ ToldAt(job, proc, finalBody)
  BY <1>1 DEF Tells, ToldAt, InComplete
<1>3. /\ Commented(job) => Commented(n)
      /\ n.finalReceipt = job.finalReceipt /\ n.terminal = job.terminal
  BY <1>1, DecisionTold
<1>4. To("sweep").pc = "sweep" /\ To("sweep").next = proc.next
  BY <1>1 DEF To, Proc
<1> HIDE DEF n
<1>5. ~Over(n)
  BY <1>2, <1>3 DEF Over
<1>6. ToldAt(n, To("sweep"), finalBody) /\ Told(n, finalBody)
  BY <1>1, <1>2, <1>3, <1>4, <1>5, SweepTold, OpenTold DEF Sweeping, Resting
<1>7. QED
  BY <1>1, <1>6, SaveTells

\* Candidates that are completed before a save and after it.
LEMMA SameCompleted ==
    ASSUME NEW j, NEW n, Handed(n) = Handed(j),
           \A c \in Handed(j) : /\ n.cand[c].assessment = j.cand[c].assessment
                                /\ n.cand[c].dev = j.cand[c].dev
                                /\ n.cand[c].checks = j.cand[c].checks
    PROVE  /\ Completed(n) = Completed(j)
           /\ EnoughCompleted(n) <=> EnoughCompleted(j)
BY DEF Completed, EnoughCompleted

LEMMA SameCandidatesTold ==
    ASSUME NEW j, NEW n, n.cand = j.cand
    PROVE  /\ Commented(n) <=> Commented(j)
           /\ EnoughCompleted(n) <=> EnoughCompleted(j)
<1>1. Handed(n) = Handed(j)
  BY DEF Handed
<1>2. QED
  BY <1>1, SameCompleted DEF Commented

\* What is known at the steps of a finish.
LEMMA InFinishing ==
    ASSUME Tells, InFinish(proc)
    PROVE  /\ Commented(job) /\ Told(job, finalBody)
           /\ job.terminal # "none" =>
                EnoughCompleted(job) /\ job.decision.outcome = job.terminal
           /\ proc.pc \in Finishing \cup Commenting \cup {"bind", "bindVerify"} =>
                EnoughCompleted(job)
BY DEF Tells, Told, ToldAt, Over

LEMMA EntryTells ==
    ASSUME Inv, Tells, EntryOfCli \/ EntryOfController
    PROVE  Tells'
<1> DEFINE toProject == [To("project") EXCEPT !.cand = job.decision.selected]
<1>1. /\ proc \in Proc /\ proc.pc = "entry"
  BY CommandsFit DEF Inv, EntryOfCli, EntryOfController, Pc
<1>2. /\ Commented(job)
      /\ job.terminal # "none" =>
           EnoughCompleted(job) /\ job.decision.outcome = job.terminal
  BY <1>1, InFinishing DEF InFinish
<1>3. /\ To("finDecide").pc = "finDecide" /\ To("close").pc = "close"
      /\ toProject.pc = "project" /\ To("bindVerify").pc = "bindVerify"
  BY <1>1 DEF To, Proc
<1>4. \/ Continue(Ended) \/ Continue(ControllerFinish(job))
      \/ EnoughCompleted(job) /\ Continue(To("finDecide"))
      \/ /\ job.terminal # "none"
         /\ \/ Continue(To("bindVerify")) \/ Continue(toProject)
            \/ \E next : Continue(FinalComment(job, next))
            \/ job.terminal = "no_winner" /\ Continue(To("close"))
  <2>1. CASE EntryOfCli
    BY <2>1 DEF EntryOfCli, Positive
  <2>2. CASE EntryOfController
    BY <2>2 DEF EntryOfController, ResumeTerminal, Positive
  <2>3. QED
    BY <2>1, <2>2
<1> HIDE DEF toProject
<1>5. CASE Continue(Ended) \/ Continue(ControllerFinish(job))
  BY <1>1, <1>2, <1>5, Silents, SilentTold, ControllerFinishTold, MoveTells
<1>6. CASE EnoughCompleted(job) /\ Continue(To("finDecide"))
  BY <1>2, <1>3, <1>6, OngoingTold, MoveTells DEF Deciding
<1>7. CASE /\ job.terminal # "none"
           /\ Continue(To("bindVerify")) \/ Continue(toProject)
  BY <1>2, <1>3, <1>7, OngoingTold, MoveTells
<1>8. CASE job.terminal # "none" /\ \E next : Continue(FinalComment(job, next))
  BY <1>1, <1>2, <1>8, FinalCommentTold, MoveTells
<1>9. CASE job.terminal = "no_winner" /\ Continue(To("close"))
  BY <1>2, <1>3, <1>9, ClosingTold, MoveTells
<1>10. QED
  BY <1>4, <1>5, <1>6, <1>7, <1>8, <1>9

LEMMA FinDecideTells ==
    ASSUME Inv, Tells, FinDecide
    PROVE  Tells'
<1> DEFINE n == WithDevelopmentDecision(job)
           prov == n.decision.prov
           goOn(pc) == [proc EXCEPT !.cand = prov, !.pc = pc]
           toProject(c) == [To("project") EXCEPT !.cand = c]
<1>1. /\ proc \in Proc /\ JobFits(job) /\ proc.pc = "finDecide"
      /\ Save(n, AfterFinDecide(n)) /\ job.terminal = "none"
  BY CommandsFit, AtDeciding DEF Inv, Fits, FinDecide, Pc, Deciding
<1>2. Commented(job) /\ Told(job, finalBody) /\ EnoughCompleted(job)
  BY <1>1, InFinishing DEF InFinish, Finishing, Deciding
<1>3. /\ Commented(n) /\ n.finalReceipt = job.finalReceipt
      /\ n.terminal = "none" /\ n.mode = job.mode
      /\ IF Quantitative(job)
         THEN /\ BestOf(n) = BestOf(job)
              /\ n.decision = [NoDecision EXCEPT !.outcome = "no_winner",
                                                 !.prov = BestOf(job)]
         ELSE n.decision.selected = None => n.decision.outcome = "no_winner"
  BY <1>1, <1>2, DecisionTold
<1>4. Accepted(n) => EnoughCompleted(n)
  BY <1>1, <1>2, DecisionSaved, StillEnough
<1>5. \/ AfterFinDecide(n) \in {goOn("validating"), goOn("finalDecide")}
      \/ AfterFinDecide(n) = FinalComment(n, "bind") /\ Quantitative(n) /\ prov = None
      \/ AfterFinDecide(n) \in {To("bindVerify"), To("bind")}
      \/ /\ AfterFinDecide(n) = To("close")
         /\ IF Quantitative(n) THEN prov = None ELSE n.decision.selected = None
      \/ \E c : AfterFinDecide(n) = toProject(c)
  BY DEF AfterFinDecide, Quantitative
<1>6. /\ \A pc : goOn(pc).pc = pc
      /\ To("close").pc = "close" /\ To("bind").pc = "bind"
      /\ To("bindVerify").pc = "bindVerify"
      /\ \A c : toProject(c).pc = "project"
  BY <1>1 DEF Proc, To
<1> HIDE DEF n, goOn, toProject
<1>7. Quantitative(n) /\ prov = None => Hopeless(n)
  <2> SUFFICES ASSUME Quantitative(n), prov = None PROVE Hopeless(n)
    OBVIOUS
  <2>1. /\ BestOf(n) = BestOf(job)
        /\ n.decision = [NoDecision EXCEPT !.outcome = "no_winner",
                                           !.prov = BestOf(job)]
    BY <1>3 DEF Quantitative
  <2>2. BestOf(job) = None
    BY <2>1 DEF NoDecision
  <2>3. QED
    BY <2>1, <2>2 DEF Hopeless
<1>8. n.finalReceipt => Hopeless(n) /\ n.decision = job.decision
  <2> SUFFICES ASSUME n.finalReceipt PROVE Hopeless(n) /\ n.decision = job.decision
    OBVIOUS
  <2>1. Hopeless(job)
    BY <1>1, <1>2, <1>3 DEF Told
  <2>2. Quantitative(n) /\ BestOf(n) = None
    BY <1>3, <2>1 DEF Hopeless, Quantitative
  <2>3. prov = None
    BY <1>3, <2>1 DEF Hopeless, NoDecision
  <2>4. QED
    BY <1>7, <2>1, <2>2, <2>3 DEF Hopeless
<1>9. ASSUME Accepted(n) PROVE Told(n, finalBody)
  BY <1>2, <1>3, <1>4, <1>8, <1>9 DEF Told
<1>10. ASSUME Accepted(n) PROVE ToldAt(n, AfterFinDecide(n), finalBody)
  <2>1. CASE AfterFinDecide(n) = FinalComment(n, "bind") /\ Hopeless(n)
    BY <1>1, <1>3, <1>4, <1>10, <2>1, FinalCommentTold
  <2>2. CASE AfterFinDecide(n) = To("close") /\ n.decision.outcome = "no_winner"
    BY <1>3, <1>4, <1>6, <1>10, <2>2, ClosingTold
  <2>3. CASE AfterFinDecide(n).pc \in Deciding \cup {"project", "bind", "bindVerify"}
    BY <1>3, <1>4, <1>10, <2>3, OngoingTold
  <2>4. Hopeless(n) => n.decision.outcome = "no_winner"
    BY DEF Hopeless, NoDecision
  <2>5. QED
    BY <1>3, <1>5, <1>6, <1>7, <2>1, <2>2, <2>3, <2>4 DEF Deciding, Quantitative
<1>11. QED
  BY <1>1, <1>9, <1>10, SaveTells

LEMMA ValidateTells ==
    ASSUME Inv, Tells, Validate \/ AfterFailure
    PROVE  Tells'
<1>1. /\ proc \in Proc /\ proc.pc \in {"validating", "afterFailure"}
  BY CommandsFit DEF Inv, Validate, AfterFailure, Pc
<1>2. /\ Commented(job)
      /\ proc.pc = "validating" \/ job.terminal # "none" => EnoughCompleted(job)
  BY <1>1, InFinishing DEF InFinish, Finishing, Deciding
<1>3. CASE Validate
  <2>1. \E frame : Invoke(frame, To("validated"))
    BY <1>3 DEF Validate
  <2>2. To("validated").pc = "validated" /\ proc.pc = "validating"
    BY <1>1, <1>3 DEF To, Proc, Validate, Pc
  <2>3. QED
    BY <1>2, <2>1, <2>2, OngoingTold, MoveTells DEF Deciding
<1>4. CASE AfterFailure
  <2>1. \/ Continue(LastSweep(job))
        \/ job.terminal # "none" /\ Continue(FinalComment(job, "idle"))
    BY <1>4 DEF AfterFailure
  <2>2. ToldAt(job, LastSweep(job), finalBody)
    BY <1>1, Silents, SilentTold
  <2>3. QED
    BY <1>1, <1>2, <2>1, <2>2, FinalCommentTold, MoveTells
<1>5. QED
  BY <1>3, <1>4

\* When the validating run returns the issue has not been told of an outcome.
LEMMA UntoldResult ==
    ASSUME Inv, Tells, Bests, proc.pc \in {"validated", "finalDecide"}
    PROVE  /\ Commented(job) /\ EnoughCompleted(job)
           /\ job.terminal = "none" /\ ~job.finalReceipt
           /\ proc.cand \in Handed(job) /\ proc.cand \in Candidates
           /\ job.decision.prov = proc.cand /\ proc.cand = BestOf(job)
<1>1. Commented(job) /\ Told(job, finalBody) /\ EnoughCompleted(job)
  BY InFinishing DEF InFinish, Finishing, Deciding
<1>2. /\ job.terminal = "none" /\ proc.cand \in Handed(job) /\ Quantitative(job)
      /\ job.decision.prov = proc.cand /\ proc.cand \in Candidates
  BY AtDeciding DEF Inv, Deciding, Handed
<1>3. proc.cand = BestOf(job) /\ proc.cand # None
  BY <1>2, Numbers DEF Bests, RoundFits
<1>4. ~job.finalReceipt
  BY <1>1, <1>2, <1>3 DEF Told, Hopeless
<1>5. QED
  BY <1>1, <1>2, <1>3, <1>4

LEMMA ValidatedTells ==
    ASSUME Inv, Files, Bests, Tells, ValidatedByCli \/ ValidatedByController
    PROVE  Tells'
<1> DEFINE c == proc.cand
           o == job.cand[c]
           n == [job EXCEPT !.cand[c].val = side[c].val]
           m == [job EXCEPT !.cand[c].val = side[c].val, !.cand[c].draft = call.draft]
           again == [To("retryDecide") EXCEPT !.todo = Handed(job), !.next = "idle"]
           sweep == Sweep({c}, "afterFailure")
           r == WithRetry(job, c, "validating")
           f(draft) == WithValidatingFailure(job, draft)
<1>1. proc.pc = "validated"
  BY DEF ValidatedByCli, ValidatedByController, Pc
<1>2. /\ job \in JobState /\ proc \in Proc /\ c \in Candidates /\ o \in Candidate
      /\ c \in Handed(job) /\ JobFits(job) /\ Quantitative(job) /\ AllCompleted(job)
      /\ job.decision.prov = c
  BY <1>1, AtResult
<1>3. /\ Commented(job) /\ EnoughCompleted(job)
      /\ job.terminal = "none" /\ ~job.finalReceipt
  BY <1>1, UntoldResult
<1>4. call.draft \in R!Versions \cup {None} /\ None \in R!Versions \cup {None}
  BY ResultTypes
<1>5. \/ DropResult(Ended)
      \/ SaveResult(n, To("finalDecide")) \/ SaveResult(m, To("finalDecide"))
      \/ SaveResult(r, again)
      \/ \E draft \in R!Versions \cup {None} :
            \/ SaveResult(f(draft), FinalComment(f(draft), "idle"))
            \/ SaveResult(f(draft), sweep)
  <2> HIDE DEF n, m, again, r, f, sweep
  <2>1. CASE ValidatedByCli
    BY <1>4, <2>1 DEF ValidatedByCli, n, f
  <2>2. CASE ValidatedByController
    BY <1>4, <2>2 DEF ValidatedByController, m, again, r, f, sweep
  <2>3. QED
    BY <2>1, <2>2
<1>6. /\ To("finalDecide").pc = "finalDecide"
      /\ again.pc = "retryDecide" /\ again.next = "idle"
      /\ sweep.pc = "sweep" /\ sweep.next = "afterFailure"
  BY <1>2 DEF To, Sweep, Proc
<1> HIDE DEF again, sweep
<1>7. ~Over(r)
  BY <1>2, RetryTold
<1>8. Told(r, finalBody) /\ ToldAt(r, again, finalBody)
  BY <1>6, <1>7, OpenTold, SilentTold
  DEF InFinish, Finishing, Deciding, Commenting, Sweeping
<1>9. ASSUME NEW l, l \in {n, m}
      PROVE  Told(l, finalBody) /\ ToldAt(l, To("finalDecide"), finalBody)
  <2>1. l.terminal = "none" /\ ~l.finalReceipt
    BY <1>2, <1>3, <1>9 DEF JobState
  <2>2. /\ l.cand[c].handed = o.handed /\ l.cand[c].dev = o.dev
        /\ l.cand[c].assessment = o.assessment /\ l.cand[c].checks = o.checks
        /\ l.cand[c].comment = o.comment
        /\ \A d \in Candidates \ {c} : l.cand[d] = job.cand[d]
    <3> DEFINE k == [o EXCEPT !.val = side[c].val]
               k2 == [o EXCEPT !.val = side[c].val, !.draft = call.draft]
    <3>1. n.cand = [job.cand EXCEPT ![c] = k] /\ m.cand = [job.cand EXCEPT ![c] = k2]
      BY <1>2 DEF JobState
    <3>2. \A e \in {k, k2} : /\ e.handed = o.handed /\ e.dev = o.dev
                            /\ e.assessment = o.assessment /\ e.checks = o.checks
                            /\ e.comment = o.comment
      BY <1>2 DEF Candidate
    <3> HIDE DEF n, m, o, k, k2
    <3>3. PICK e \in {k, k2} : l.cand = [job.cand EXCEPT ![c] = e]
      BY <1>9, <3>1
    <3>4. l.cand[c] = e /\ \A d \in Candidates \ {c} : l.cand[d] = job.cand[d]
      BY <1>2, <3>3 DEF JobState
    <3>5. QED
      BY <3>2, <3>4
  <2>3. Handed(l) = Handed(job)
    BY <2>2 DEF Handed
  <2>4. \A d \in Handed(job) :
          /\ l.cand[d].assessment = job.cand[d].assessment
          /\ l.cand[d].dev = job.cand[d].dev
          /\ l.cand[d].checks = job.cand[d].checks
          /\ l.cand[d].comment = job.cand[d].comment
    BY <2>2 DEF Handed
  <2>5. Commented(l) /\ EnoughCompleted(l)
    BY <1>3, <2>3, <2>4, CommentedSteady, SameCompleted
  <2>6. QED
    BY <1>6, <2>1, <2>5, OpenTold, OngoingTold DEF Over, Deciding
<1>10. ASSUME NEW draft \in R!Versions \cup {None}, Accepted(f(draft))
       PROVE  LET l == f(draft) IN
              /\ Told(l, finalBody) /\ ToldAt(l, FinalComment(l, "idle"), finalBody)
              /\ ToldAt(l, sweep, finalBody)
  <2> DEFINE l == f(draft)
  <2>1. Follows(job, l) /\ Handed(l) = Handed(job) /\ l.terminal = "platform_failure"
    BY <1>2, <1>3, <1>10, FailureSaved
  <2>2. ~l.finalReceipt /\ l.decision.outcome = "platform_failure"
    BY <1>2, <1>3 DEF WithValidatingFailure, JobState, DecisionRecord
  <2>3. /\ l.cand[c].dev = o.dev /\ l.cand[c].assessment = o.assessment
        /\ \A d \in Candidates \ {c} : l.cand[d] = job.cand[d]
    BY <1>2, FailureFields
  <2>4. l.cand[c].comment = o.comment
    BY <1>2 DEF WithValidatingFailure, JobState, Candidate
  <2> HIDE DEF l
  <2>5. Commented(l)
    <3>1. \A d \in Handed(job) :
            /\ l.cand[d].assessment = job.cand[d].assessment
            /\ l.cand[d].dev = job.cand[d].dev
            /\ l.cand[d].comment = job.cand[d].comment
      BY <2>3, <2>4 DEF Handed
    <3>2. QED
      BY <1>3, <2>1, <3>1, CommentedSteady
  <2>6. EnoughCompleted(l)
    BY <1>2, <1>3, <2>1, StillEnough DEF Follows, JobFits
  <2>7. Told(l, finalBody)
    BY <2>1, <2>2, <2>5, <2>6 DEF Told
  <2>8. ToldAt(l, FinalComment(l, "idle"), finalBody)
    BY <1>2, <2>1, <2>5, <2>6, FinalCommentTold
  <2>9. ToldAt(l, sweep, finalBody)
    BY <1>6, <2>5
    DEF ToldAt, InComplete, Completing, Finishing, Deciding, Commenting, Sweeping
  <2>10. QED
    BY <2>7, <2>8, <2>9 DEF l
<1>11. ToldAt(job, Ended, finalBody)
  BY <1>2, Silents, SilentTold
<1> HIDE DEF n, m, r, f
<1>12. CASE SaveResult(n, To("finalDecide")) \/ SaveResult(m, To("finalDecide"))
  BY <1>2, <1>9, <1>12, SaveTells
<1>13. CASE SaveResult(r, again)
  BY <1>2, <1>8, <1>13, SaveTells
<1>14. CASE \E draft \in R!Versions \cup {None} :
            \/ SaveResult(f(draft), FinalComment(f(draft), "idle"))
            \/ SaveResult(f(draft), sweep)
  BY <1>2, <1>10, <1>14, SaveTells
<1>15. QED
  BY <1>5, <1>11, <1>12, <1>13, <1>14, MoveTells

\* The final decision explains the outcome, and keeps the comments.
LEMMA FinalTold ==
    ASSUME NEW j, JobFits(j), BestOf(j) = j.decision.prov, BestOf(j) # None
    PROVE  LET n == WithFinalDecision(j) IN
           /\ n.finalReceipt = j.finalReceipt
           /\ n.decision.outcome = n.terminal
           /\ n.terminal \in {"winner", "no_winner"}
           /\ (Commented(j) => Commented(n))
           /\ \A c \in Candidates :
                /\ n.cand[c].finalized = j.cand[c].finalized
                /\ j.cand[c].dev = None =>
                     n.cand[c].assessment = j.cand[c].assessment
<1> DEFINE p == j.decision.prov
           wins == j.cand[p].val \in Passing
           d == WithProvisional(j)
           k == [d.cand[p] EXCEPT
                   !.assessment = IF wins THEN "winner" ELSE "discard"]
           n == WithFinalDecision(j)
<1>1. /\ j \in JobState /\ d \in JobState /\ p \in Candidates
      /\ Provisional(j) \in [Candidates -> Assessments]
      /\ Reassessed(j, d, Provisional(j))
      /\ d.decision = [NoDecision EXCEPT !.outcome = "no_winner", !.prov = p]
      /\ d.finalReceipt = j.finalReceipt
  BY ProvisionalShape, BestIsHanded DEF BestOf, Handed
<1>2. \A c \in Candidates : /\ d.cand[c].dev = j.cand[c].dev
                            /\ d.cand[c].val = j.cand[c].val
  BY ProvisionalSets
<1>3. d.decision.prov = p
  BY <1>1 DEF NoDecision
<1>4. j.cand[p].dev # None
  <2>1. Eligible(j) # {}
    BY DEF BestOf, Best
  <2>2. Eligible(j) \subseteq Handed(j) /\ HasFirst(Handed(j))
    BY DEF Eligible, JobFits, HandedFits
  <2>3. p \in Eligible(j)
    BY <1>1, <2>1, <2>2, BestIsMember DEF BestOf
  <2>4. j.cand[p].dev \in Viable
    BY <2>3 DEF Eligible
  <2>5. QED
    BY <2>4, Numbers, ResultsAssumption
<1>5. n.cand = [d.cand EXCEPT ![p] = k] /\ n.finalReceipt = d.finalReceipt
  BY <1>1, <1>3 DEF WithFinalDecision, JobState
<1>6. /\ n.terminal = IF wins THEN "winner" ELSE "no_winner"
      /\ n.decision.outcome = IF wins THEN "winner" ELSE "no_winner"
  <2>1. d.decision \in DecisionRecord
    BY <1>1 DEF JobState
  <2>2. QED
    BY <1>1, <1>2, <1>3, <2>1 DEF WithFinalDecision, JobState, DecisionRecord
<1>7. /\ k.handed = d.cand[p].handed /\ k.dev = d.cand[p].dev
      /\ k.comment = d.cand[p].comment /\ k.finalized = d.cand[p].finalized
  BY <1>1 DEF JobState, Candidate
<1>8. Commented(j) => Commented(d)
  <2>1. \A c \in Candidates : j.cand[c].assessment = "none" /\ j.cand[c].dev = None =>
                                Provisional(j)[c] = "none"
    BY DEF Provisional
  <2>2. QED
    BY <1>1, <2>1, ReassessedTold
<1>9. d.cand[p].dev # None
  BY <1>1, <1>2, <1>4
<1>10. \A c \in Candidates :
         /\ d.cand[c].finalized = j.cand[c].finalized
         /\ j.cand[c].dev = None => d.cand[c].assessment = j.cand[c].assessment
  <2>1. \A c \in Candidates : /\ d.cand[c].finalized = j.cand[c].finalized
                              /\ d.cand[c].assessment = Provisional(j)[c]
    BY <1>1, AssessedFields
  <2>2. QED
    BY <2>1 DEF Provisional
<1> HIDE DEF n, k, d, wins, p
<1>11. n.cand[p] = k /\ \A c \in Candidates \ {p} : n.cand[c] = d.cand[c]
  BY <1>1, <1>5 DEF JobState
<1>12. Handed(n) = Handed(d)
  BY <1>7, <1>11 DEF Handed
<1>13. \A c \in Handed(d) :
         /\ d.cand[c].comment => n.cand[c].comment
         /\ d.cand[c].assessment = "none" /\ d.cand[c].dev = None =>
              n.cand[c].assessment = "none" /\ n.cand[c].dev = None
  BY <1>7, <1>9, <1>11 DEF Handed
<1>14. Commented(d) => Commented(n)
  BY <1>12, <1>13, CommentedSteady
<1>15. \A c \in Candidates :
         /\ n.cand[c].finalized = j.cand[c].finalized
         /\ j.cand[c].dev = None => n.cand[c].assessment = j.cand[c].assessment
  BY <1>4, <1>7, <1>11, <1>10 DEF p
<1>16. QED
  BY <1>1, <1>5, <1>6, <1>8, <1>14, <1>15 DEF n

LEMMA FinalDecideTells ==
    ASSUME Inv, Bests, Tells, FinalDecide
    PROVE  Tells'
<1> DEFINE n == WithFinalDecision(job)
           p == IF proc.by = "cli"
                THEN IF n.terminal = "winner" THEN To("bindVerify")
                     ELSE FinalComment(n, "bind")
                ELSE IF n.terminal = "winner" THEN To("project") ELSE To("close")
<1>1. proc.pc = "finalDecide" /\ proc.pc \in Deciding
  BY DEF FinalDecide, Pc, Deciding
<1>2. /\ proc \in Proc /\ JobFits(job) /\ AllCompleted(job) /\ Quantitative(job)
      /\ proc.cand # None
  BY <1>1, CommandsFit, AtDeciding, Numbers DEF Inv, Fits, Handed
<1>3. /\ Commented(job) /\ EnoughCompleted(job)
      /\ job.terminal = "none" /\ ~job.finalReceipt
      /\ job.decision.prov = proc.cand /\ proc.cand = BestOf(job)
      /\ proc.cand \in Candidates
  BY <1>1, UntoldResult
<1>4. Save(n, p)
  BY <1>3 DEF FinalDecide, BestOf
<1>5. /\ ~n.finalReceipt /\ n.decision.outcome = n.terminal
      /\ n.terminal \in {"winner", "no_winner"} /\ Commented(n)
  BY <1>2, <1>3, FinalTold
<1>6. /\ To("bindVerify").pc = "bindVerify" /\ To("project").pc = "project"
      /\ To("close").pc = "close"
  BY <1>2 DEF To, Proc
<1>7. Accepted(n) => Handed(n) = Handed(job) /\ AllCompleted(n)
  BY <1>2, <1>3, FinalSaved DEF BestOf
<1> HIDE DEF n
<1>8. ASSUME Accepted(n) PROVE Told(n, finalBody) /\ ToldAt(n, p, finalBody)
  <2>1. EnoughCompleted(n)
    BY <1>2, <1>3, <1>7, <1>8, StillEnough
  <2>2. Told(n, finalBody)
    BY <1>5, <2>1 DEF Told
  <2>3. ToldAt(n, FinalComment(n, "bind"), finalBody)
    BY <1>2, <1>5, <2>1, FinalCommentTold
  <2>4. /\ ToldAt(n, To("bindVerify"), finalBody)
        /\ ToldAt(n, To("project"), finalBody)
    BY <1>5, <1>6, <2>1, OngoingTold
  <2>5. n.terminal # "winner" => ToldAt(n, To("close"), finalBody)
    BY <1>5, <1>6, <2>1, ClosingTold
  <2>6. QED
    BY <2>2, <2>3, <2>4, <2>5
<1> HIDE DEF p
<1>9. QED
  BY <1>2, <1>4, <1>8, SaveTells

\* A save that leaves the candidates and the decision.
LEMMA EndTold ==
    ASSUME NEW j \in JobState, NEW n, n.cand = j.cand, n.mode = j.mode,
           n.decision = j.decision, Commented(j), EnoughCompleted(j)
    PROVE  /\ Commented(n) /\ EnoughCompleted(n)
           /\ Hopeless(j) => Hopeless(n)
<1>1. BestOf(n) = BestOf(j)
  BY SameCandidates
<1>2. QED
  BY <1>1, SameCandidatesTold DEF Hopeless, Quantitative

\* The issue is told of the decision, and its receipts are stored.
LEMMA CommentingTells ==
    ASSUME Inv, Tells, PostFinal \/ SidecarFinal \/ StoreFinal
    PROVE  Tells'
<1>1. /\ job \in JobState /\ proc \in Proc
      /\ proc.pc \in {"postFinal", "sidecarFinal", "storeFinal"}
  BY CommandsFit DEF Inv, Fits, JobFits, PostFinal, SidecarFinal, StoreFinal, Pc
<1>2. /\ Commented(job) /\ Told(job, finalBody) /\ EnoughCompleted(job)
      /\ job.terminal # "none" => job.decision.outcome = job.terminal
      /\ job.terminal = "none" => Hopeless(job)
      /\ proc.pc \in {"sidecarFinal", "storeFinal"} => finalBody = job.decision
  <2>1. InFinish(proc) /\ proc.pc \in Commenting
    BY <1>1 DEF InFinish, Commenting
  <2>2. QED
    BY <2>1, InFinishing DEF Tells, ToldAt
<1>3. /\ To("sidecarFinal").pc = "sidecarFinal" /\ To("storeFinal").pc = "storeFinal"
  BY <1>1 DEF To, Proc
<1>4. ASSUME PostFinal \/ SidecarFinal PROVE Tells'
  <2>1. /\ job' = job /\ finalBody' = job.decision
        /\ proc'.pc \in {"sidecarFinal", "storeFinal"}
    BY <1>2, <1>3, <1>4 DEF PostFinal, SidecarFinal, Pc
  <2>2. Told(job, finalBody')
    BY <1>2, <2>1 DEF Told
  <2>3. ToldAt(job, proc', finalBody')
    BY <1>2, <2>1
    DEF ToldAt, InComplete, Completing, Sweeping, Commenting
  <2>4. QED
    BY <2>1, <2>2, <2>3 DEF Tells
<1>5. CASE StoreFinal
  <2> DEFINE n == [job EXCEPT !.finalReceipt = TRUE]
  <2>1. Save(n, FinalComment(n, proc.next)) /\ finalBody = job.decision
    BY <1>2, <1>5 DEF StoreFinal, Pc
  <2>2. /\ n.cand = job.cand /\ n.mode = job.mode /\ n.decision = job.decision
        /\ n.terminal = job.terminal
    BY <1>1 DEF JobState
  <2> HIDE DEF n
  <2>3. Commented(n) /\ EnoughCompleted(n) /\ (n.terminal = "none" => Hopeless(n))
    BY <1>1, <1>2, <2>2, EndTold
  <2>4. Told(n, finalBody)
    BY <1>2, <2>1, <2>2, <2>3 DEF Told
  <2>5. ToldAt(n, FinalComment(n, proc.next), finalBody)
    BY <1>1, <2>3, FinalCommentTold
  <2>6. QED
    BY <1>1, <2>1, <2>4, <2>5, SaveTells
<1>6. QED
  BY <1>4, <1>5

LEMMA BindTells ==
    ASSUME Inv, Tells, Bind
    PROVE  Tells'
<1>1. proc \in Proc /\ proc.pc \in {"bind", "bindVerify"}
  BY CommandsFit DEF Inv, Bind, Pc
<1>2. /\ job' = job /\ finalBody' = finalBody
      /\ proc' = ControllerFinish(job) \/ proc' = Ended
  BY DEF Bind
<1>3. Commented(job)
  BY <1>1, InFinishing DEF InFinish
<1>4. /\ ToldAt(job, ControllerFinish(job), finalBody)
      /\ ToldAt(job, Ended, finalBody)
  BY <1>1, <1>3, ControllerFinishTold, Silents, SilentTold
<1>5. QED
  BY <1>2, <1>4 DEF Tells

\* The patch, and the closure.
LEMMA EndingTells ==
    ASSUME Inv, Tells, Project \/ StoreProjection \/ Close \/ StoreClosure
    PROVE  Tells'
<1> DEFINE n == [job EXCEPT !.projection = proc.cand, !.terminal = ProjectedOutcome]
           m == [job EXCEPT !.closure = TRUE, !.terminal = "no_winner"]
<1>1. /\ job \in JobState /\ proc \in Proc /\ Fits
      /\ proc.pc \in {"project", "storeProjection", "close", "storeClosure"}
  BY CommandsFit DEF Inv, Fits, JobFits, Project, StoreProjection, Close, StoreClosure, Pc
<1>2. /\ Commented(job) /\ Told(job, finalBody) /\ EnoughCompleted(job)
      /\ job.terminal # "none" => job.decision.outcome = job.terminal
  BY <1>1, InFinishing DEF InFinish, Finishing
<1>3. /\ To("storeProjection").pc = "storeProjection"
      /\ To("storeClosure").pc = "storeClosure"
  BY <1>1 DEF To, Proc
<1>4. ToldAt(job, Ended, finalBody)
  BY <1>1, Silents, SilentTold
<1>5. ASSUME NEW l, l.cand = job.cand, l.mode = job.mode, l.decision = job.decision,
             l.finalReceipt = job.finalReceipt,
             l.terminal # "none", l.terminal = job.decision.outcome
      PROVE  Told(l, finalBody) /\ ToldAt(l, FinalComment(l, "idle"), finalBody)
  <2>1. Commented(l) /\ EnoughCompleted(l)
    BY <1>1, <1>2, <1>5, EndTold
  <2>2. Told(l, finalBody)
    BY <1>2, <1>5, <2>1 DEF Told
  <2>3. QED
    BY <1>1, <1>5, <2>1, <2>2, FinalCommentTold
<1>6. CASE Project
  <2>1. job.projection = None
    BY <1>1, <1>6, AtProject DEF Project, Pc
  <2>2. CASE Continue(Ended)
    BY <1>4, <2>2, MoveTells
  <2>3. CASE ~Continue(Ended)
    <3>1. job' = job /\ finalBody' = finalBody /\ proc' = To("storeProjection")
      BY <1>6, <2>1, <2>3 DEF Project, github
    <3>2. ToldAt(job, To("storeProjection"), finalBody)
      BY <1>2, <1>3, OngoingTold
    <3>3. QED
      BY <3>1, <3>2 DEF Tells
  <2>4. QED
    BY <2>2, <2>3
<1>7. CASE StoreProjection
  <2>1. Save(n, FinalComment(n, "idle"))
    BY <1>7 DEF StoreProjection
  <2>2. ProjectedOutcome \in Positive
    BY <1>1, <1>7, AtProject DEF StoreProjection, Pc
  <2>3. ProjectedOutcome = job.decision.outcome /\ ProjectedOutcome # "none"
    BY <1>2, <2>2 DEF ProjectedOutcome, Positive
  <2>4. /\ n.cand = job.cand /\ n.mode = job.mode /\ n.decision = job.decision
        /\ n.finalReceipt = job.finalReceipt /\ n.terminal = ProjectedOutcome
    BY <1>1 DEF JobState
  <2> HIDE DEF n
  <2>5. QED
    BY <1>1, <1>5, <2>1, <2>3, <2>4, SaveTells
<1>8. CASE Close \/ StoreClosure
  <2>1. ~job.closure /\ proc.pc \in {"close", "storeClosure"}
    BY <1>1, <1>8, AtClose DEF Close, StoreClosure, Pc
  <2>2. job.decision.outcome = "no_winner"
    BY <2>1 DEF Tells, ToldAt
  <2>3. CASE Close
    <3>1. CASE Continue(Ended)
      BY <1>4, <3>1, MoveTells
    <3>2. CASE ~Continue(Ended)
      <4>1. job' = job /\ finalBody' = finalBody /\ proc' = To("storeClosure")
        BY <2>1, <2>3, <3>2 DEF Close
      <4>2. ToldAt(job, To("storeClosure"), finalBody)
        BY <1>2, <1>3, <2>2, ClosingTold
      <4>3. QED
        BY <4>1, <4>2 DEF Tells
    <3>3. QED
      BY <3>1, <3>2
  <2>4. CASE StoreClosure
    <3>1. Save(m, FinalComment(m, "idle"))
      BY <2>4 DEF StoreClosure
    <3>2. /\ m.cand = job.cand /\ m.mode = job.mode /\ m.decision = job.decision
          /\ m.finalReceipt = job.finalReceipt /\ m.terminal = "no_winner"
      BY <1>1 DEF JobState
    <3> HIDE DEF m
    <3>3. QED
      BY <1>1, <1>5, <2>2, <3>1, <3>2, SaveTells
  <2>5. QED
    BY <1>8, <2>3, <2>4
<1>9. QED
  BY <1>6, <1>7, <1>8

LEMMA OutsideTells ==
    ASSUME Inv, Tells,
           \/ RuntimeWork \/ RuntimeFault \/ Interrupt
           \/ OpenPullRequest \/ BindPr \/ UNCHANGED vars
    PROVE  Tells'
<1>1. /\ job' = job /\ finalBody' = finalBody
      /\ proc' = proc \/ proc' = Ended
  BY DEF RuntimeWork, RuntimeFault, Interrupt, OpenPullRequest, BindPr, vars, github
<1>2. ToldAt(job, Ended, finalBody)
  BY CommandsFit, Silents, SilentTold DEF Inv
<1>3. QED
  BY <1>1, <1>2 DEF Tells

LEMMA NextTells ==
    ASSUME Guided, Inv, Files, Bests, Tells, [Next]_vars
    PROVE  Tells'
<1>1. CASE Command
  BY <1>1, CommandTells
<1>2. CASE CompleteStep
  BY <1>2, CompleteTells
<1>3. CASE SweepSteps
  BY <1>3, SweepStepTells, SweptTells, RetryDecideTells DEF SweepSteps
<1>4. CASE FinishStep
  BY <1>4, EntryTells, FinDecideTells, ValidateTells, ValidatedTells,
     FinalDecideTells DEF FinishStep
<1>5. CASE EffectStep
  BY <1>5, CommentingTells, BindTells, EndingTells DEF EffectStep
<1>6. QED
  BY <1>1, <1>2, <1>3, <1>4, <1>5, OutsideTells DEF Next, CommandStep

LEMMA InitialTells == Init => Tells
<1> SUFFICES ASSUME Init PROVE Tells
  OBVIOUS
<1>1. proc = Ended /\ ~Over(job)
  <2>1. job.terminal = "none" /\ ~job.finalReceipt
    BY DEF Init
  <2>2. QED
    BY <2>1 DEF Init, Over
<1>2. ~InFinish(Ended) /\ ~InComplete(Ended)
  BY DEF Ended, InFinish, InComplete, Finishing, Deciding, Commenting, Completing,
         Sweeping
<1>3. QED
  BY <1>1, <1>2, OpenTold, SilentTold DEF Tells

LEMMA TellsInductive == Guided => (Spec => []Tells)
<1> SUFFICES ASSUME Guided PROVE Spec => []Tells
  OBVIOUS
<1>1. Inv /\ Files /\ Bests /\ Tells /\ [Next]_vars => Tells'
  BY NextTells
<1>2. QED
  BY <1>1, InitialTells, Inductive, FilesInductive, BestsInductive, PTL DEF Spec

-----------------------------------------------------------------------------
(* What is kept for the runtime: the draft of the best candidate.          *)

\* Each record of the sidecar file, by what the state file says.
RecordHeld(j, r, c) ==
    /\ j.cand[c].finalized
    /\ r.dev # None /\ j.cand[c].dev = None => r.ref /\ j.cand[c].assessment = "none"
    /\ r.dev = None /\ r.receipt =>
           r.retry = "candidate" \/ j.cand[c].assessment # "none"
    /\ r.retry = "validating" => EnoughCompleted(j) /\ c = BestOf(j)

RecordsHeld(j, files) == \A c \in DOMAIN files : RecordHeld(j, files[c], c)

\* While the job is open the best candidate can be validated: it has a draft,
\* or a new one is owed to it.
BestHeld(j, files) ==
    j.terminal = "none" /\ BestOf(j) # None =>
        LET r == files[BestOf(j)] IN
        /\ BestOf(j) \in DOMAIN files
        /\ r.val = None => r.ref \/ r.retry = "validating"

\* The best candidate has a draft that its validating run still needs.
Needed(j) ==
    /\ j.terminal = "none" /\ BestOf(j) # None
    /\ j.cand[BestOf(j)].val = None /\ j.cand[BestOf(j)].draft # None

Fresh(j) == j.decision.prov = BestOf(j)

\* The decision protects that draft, once all candidates are completed.
Guarded(j) ==
    /\ \A c \in Candidates \ Handed(j) : j.cand[c].dev = None
    /\ Needed(j) /\ AllCompleted(j) => Fresh(j)

\* No sweep meets it unprotected.
HeldAt(j, p) ==
    /\ Needed(j) /\ p.pc \in {"sweep", "sweeping"} /\ BestOf(j) \in p.todo =>
           Fresh(j)
    /\ p.pc = "comment" /\ ~p.tried => Fresh(j)
    /\ p.pc = "afterTry" \/ (p.pc \in Sweeping /\ p.next = "afterTry") => p.tried
    /\ p.pc = "afterFailure" \/ (p.pc \in Sweeping /\ p.next = "afterFailure")
           => EnoughCompleted(j)

\* What the runtime is doing, and what it answers.
FrameHeld(j, frame, files) ==
    /\ frame.step \in {"delete", "saveCleaned"} =>
           /\ frame.op = "cleanup" /\ j.cand[frame.cand].draft # None
           /\ j.terminal = "none" /\ frame.cand = BestOf(j) =>
                  files[frame.cand].val # None
    /\ frame.step \in {"retryDelete", "saveRetryCleaned"} =>
           files[frame.cand].cleanupRequired
    /\ frame.step = "done" =>
           /\ frame.status # "raised"
           /\ frame.status = "retry" =>
                /\ frame.cand \in DOMAIN files
                /\ files[frame.cand].receipt
                /\ files[frame.cand].retry = frame.op
           /\ frame.op = "candidate" /\ frame.status # "ok"
                /\ frame.cand \in DOMAIN files => files[frame.cand].dev = None

Holds(j, files) == RecordsHeld(j, files) /\ BestHeld(j, files) /\ Guarded(j)

Holding ==
    Quantitative(job) =>
        Holds(job, side) /\ HeldAt(job, proc) /\ FrameHeld(job, call, side)

\* What is proved of the records and of the frame, in the job's words.
LEMMA RecordFacts ==
    ASSUME RP!IInv, NEW c \in DOMAIN side
    PROVE  /\ side[c].ref \/ side[c].receipt
           /\ side[c].cleanupRequired => side[c].ref /\ side[c].retry # "none"
           /\ side[c].retry = "validating" => side[c].dev # None
           /\ side[c].retry = "candidate" => side[c].dev = None
           /\ side[c].retry # "none" => side[c].val = None
           /\ side[c] \in R!Sidecar /\ c \in Candidates
<1>1. RP!StoredFits(side[c]) /\ RP!None = None
  BY DEF RP!IInv, RP!FilesFit, RP!None, None, R!None
<1>2. side[c] \in R!Sidecar /\ c \in Candidates
  BY RuntimeFacts
<1>3. QED
  BY <1>1, <1>2 DEF RP!StoredFits, RP!ValidCandidate

\* Steps of an evaluation.
Evaluating == {"create", "saveReference"} \cup (Working \ {"delete", "saveCleaned"})

LEMMA EvaluationFacts ==
    ASSUME RP!IInv, call.step \in Evaluating
    PROVE  /\ call.op \in {"candidate", "validating"}
           /\ call.cand \in DOMAIN side =>
                IF call.op = "candidate" THEN side[call.cand].dev = None
                                         ELSE side[call.cand].dev # None
           /\ call.step = "saveVerified" => call.op = "candidate"
<1>1. RP!CreatingFits /\ RP!WorkingFits /\ RP!None = None
  BY DEF RP!IInv, RP!CallFits, RP!None, None, R!None
<1>2. CASE call.step \in {"create", "saveReference"}
  BY <1>1, <1>2 DEF RP!CreatingFits, RP!EvaluationFits, RP!At
<1>3. CASE call.step \notin {"create", "saveReference"}
  <2>1. call.step \in RP!OnDraft \ RP!Deleting
    BY <1>3 DEF Evaluating, Working, Saving, RP!OnDraft, RP!Deleting, RP!Steps
  <2>2. QED
    BY <1>1, <2>1 DEF RP!WorkingFits, RP!EvaluationFits, RP!At
<1>4. QED
  BY <1>2, <1>3

\* The best candidate is one of the eligible ones.
LEMMA BestResult ==
    ASSUME NEW j, JobFits(j), BestOf(j) # None
    PROVE  /\ BestOf(j) \in Eligible(j) /\ BestOf(j) \in Handed(j)
           /\ BestOf(j) \in Candidates /\ j.cand[BestOf(j)].dev # None
<1>1. Eligible(j) # {}
  BY DEF BestOf, Best
<1>2. Eligible(j) \subseteq Handed(j) /\ HasFirst(Handed(j)) /\ j \in JobState
  BY DEF Eligible, JobFits, HandedFits
<1>3. BestOf(j) \in Eligible(j)
  BY <1>1, <1>2, BestIsMember DEF BestOf
<1>4. j.cand[BestOf(j)].dev \in Viable
  BY <1>3 DEF Eligible
<1>5. QED
  BY <1>2, <1>3, <1>4, Numbers, ResultsAssumption DEF Handed

\* Whose the frame is, and what the state file says of it.
LEMMA AtRuntime ==
    ASSUME Inv, Files, Bests, call.step # "idle"
    PROVE  /\ Quantitative(job)
           /\ call.op = "candidate" =>
                /\ call.cand \in Handed(job) /\ call.cand \in Candidates
                /\ job.cand[call.cand].assessment = "none"
                /\ job.cand[call.cand].finalized
                /\ ~EnoughCompleted(job)
           /\ call.op = "validating" =>
                /\ call.cand = BestOf(job) /\ EnoughCompleted(job)
                /\ call.cand \in Candidates /\ job.cand[call.cand].dev # None
<1>1. /\ proc.pc \in Calling
      /\ proc.pc = "evaluating" => call.op = "candidate"
      /\ proc.pc = "validated" => call.op = "validating"
      /\ proc.pc = "sweeping" => call.op = "cleanup"
  BY AtWork DEF Files, CallingFits
<1>2. Quantitative(job) /\ JobFits(job)
  BY <1>1 DEF Inv, Fits, CommandFits, ControlFits, Calling, ForFoundry
<1>3. ASSUME call.op = "candidate"
      PROVE  /\ call.cand \in Handed(job) /\ call.cand \in Candidates
             /\ job.cand[call.cand].assessment = "none"
             /\ job.cand[call.cand].finalized
             /\ ~EnoughCompleted(job)
  <2>1. proc.pc = "evaluating"
    BY <1>1, <1>3 DEF Calling
  <2>2. /\ call.cand = proc.cand /\ proc.cand \in Handed(job)
        /\ job.cand[proc.cand].assessment = "none" /\ job.cand[proc.cand].finalized
    BY <2>1 DEF Inv, FrameFits, Fits, CommandFits, ControlFits, OnCandidate
  <2>3. QED
    BY <1>2, <2>2, EnoughMeansAll DEF Handed
<1>4. ASSUME call.op = "validating"
      PROVE  /\ call.cand = BestOf(job) /\ EnoughCompleted(job)
             /\ call.cand \in Candidates /\ job.cand[call.cand].dev # None
  <2>1. proc.pc = "validated"
    BY <1>1, <1>4 DEF Calling
  <2>2. call.cand = proc.cand
    BY <2>1 DEF Inv, FrameFits
  <2>3. /\ proc.cand = BestOf(job) /\ EnoughCompleted(job)
        /\ proc.cand \in Candidates /\ proc.cand \in Handed(job)
    BY <2>1, AtResult
  <2>4. QED
    BY <1>2, <2>2, <2>3, EnoughMeansAll
<1>5. QED
  BY <1>2, <1>3, <1>4

\* A save of one record.
LEMMA RecordSavedHolds ==
    ASSUME Inv, Holding, Quantitative(job), NEW c, NEW r,
           side' = R!WithCandidate(c, r), RecordHeld(job, r, c),
           job.terminal = "none" /\ BestOf(job) = c /\ r.val = None =>
               r.ref \/ r.retry = "validating"
    PROVE  Holds(job, side')
<1>1. /\ DOMAIN side' = DOMAIN side \cup {c} /\ side'[c] = r
      /\ \A d \in DOMAIN side \ {c} : side'[d] = side[d]
  BY RecordSaved
<1>2. Holds(job, side)
  BY DEF Holding
<1>3. RecordsHeld(job, side')
  BY <1>1, <1>2 DEF Holds, RecordsHeld
<1>4. BestHeld(job, side')
  BY <1>1, <1>2 DEF Holds, BestHeld
<1>5. QED
  BY <1>2, <1>3, <1>4 DEF Holds

\* Steps of the runtime that save no record.
LEMMA CallKeepsHolding ==
    ASSUME Inv, Files, Bests, Holding, UNCHANGED <<job, proc, side>>,
           \/ R!Create \/ R!CreateFails \/ R!CreateLosesAnswer
           \/ R!Verify \/ R!VerifyFails \/ R!Run \/ R!RunFails
           \/ R!Delete("failDelete", "saveFailCleaned")
           \/ R!Delete("retryDelete", "saveRetryCleaned")
           \/ R!Delete("delete", "saveCleaned")
           \/ R!DeleteFails
    PROVE  Holding'
<1>1. /\ call \in R!Call
      /\ call.step \in {"create", "verify", "run", "failDelete", "retryDelete", "delete"}
      /\ call'.op = call.op /\ call'.cand = call.cand
      /\ \/ call'.step \in {"saveReference", "saveVerified", "run", "saveSummary",
                            "failDelete", "saveFailCleaned", "saveFailRequired"}
         \/ call.step = "retryDelete" /\ call'.step = "saveRetryCleaned"
         \/ call.step = "delete" /\ call'.step = "saveCleaned"
         \/ /\ call'.step = "done" /\ call'.status \in {"platform_failure", "failed"}
  <2>1. call \in R!Call
    BY RuntimeFacts DEF Inv
  <2>2. QED
    BY <2>1
    DEF R!Create, R!CreateFails, R!CreateLosesAnswer, R!Verify, R!VerifyFails, R!Run,
        R!RunFails, R!Delete, R!DeleteFails, R!At, R!Goto, R!Return, R!ReturnNoDraft,
        R!Call
<1>2. Quantitative(job) /\ Holds(job, side) /\ HeldAt(job, proc)
      /\ FrameHeld(job, call, side)
  BY <1>1, AtRuntime DEF Holding
<1>3. call.step # "delete" /\ call.op = "candidate" /\ call.cand \in DOMAIN side =>
        side[call.cand].dev = None
  <2>1. call.step # "delete" => call.step \in Evaluating
    BY <1>1 DEF Evaluating, Working, Saving
  <2>2. QED
    BY <2>1, EvaluationFacts DEF Inv
<1>4. call.step = "delete" => call.op = "cleanup"
  BY <1>2 DEF FrameHeld
<1>5. FrameHeld(job, call', side)
  BY <1>1, <1>2, <1>3, <1>4 DEF FrameHeld
<1>6. QED
  BY <1>2, <1>5 DEF Holding

\* The saves of the runtime, by what they make of the record.
LEMMA EvaluationKeepsHolding ==
    ASSUME Inv, Files, Bests, Holding, UNCHANGED <<job, proc>>,
           call.step \in Evaluating, NEW r, side' = R!WithCandidate(call.cand, r),
           call.op = "candidate" =>
               \/ r.dev = None /\ (r.receipt => r.retry = "candidate")
               \/ r.dev # None /\ r.ref,
           call.op = "validating" => r.dev # None,
           r.retry = "validating" => call.op = "validating",
           r.ref \/ call.op = "candidate" \/ r.retry = "validating",
           FrameHeld(job, call', side')
    PROVE  Holding'
<1> DEFINE c == call.cand
<1>1. /\ call.op \in {"candidate", "validating"} /\ call.step # "idle"
      /\ c \in DOMAIN side => IF call.op = "candidate" THEN side[c].dev = None
                                                       ELSE side[c].dev # None
  BY EvaluationFacts DEF Inv, Evaluating, Working, Saving
<1>2. /\ Quantitative(job)
      /\ call.op = "candidate" =>
           /\ c \in Handed(job) /\ c \in Candidates
           /\ job.cand[c].assessment = "none" /\ job.cand[c].finalized
           /\ ~EnoughCompleted(job)
      /\ call.op = "validating" =>
           /\ c = BestOf(job) /\ EnoughCompleted(job)
           /\ c \in Candidates /\ job.cand[c].dev # None
  BY <1>1, AtRuntime
<1>3. HeldAt(job, proc) /\ RecordsHeld(job, side) /\ JobFits(job)
  BY <1>2 DEF Holding, Holds, Inv, Fits
<1>4. call.op = "validating" => job.cand[c].finalized
  <2>1. /\ CandidateFits(job.mode, job.cand[c]) \/ c \notin Candidates
    BY <1>3 DEF JobFits
  <2>2. QED
    BY <1>2, <2>1 DEF CandidateFits
<1>5. RecordHeld(job, r, c)
  BY <1>1, <1>2, <1>4 DEF RecordHeld
<1>6. job.terminal = "none" /\ BestOf(job) = c /\ r.val = None =>
        r.ref \/ r.retry = "validating"
  <2>1. ASSUME call.op = "candidate", BestOf(job) = c PROVE FALSE
    <3>1. job.cand[c].dev # None
      BY <1>2, <1>3, <2>1, BestResult, Numbers
    <3>2. Matches(job, side, c)
      BY <1>2, <2>1 DEF Files, Agree
    <3>3. QED
      BY <1>1, <2>1, <3>1, <3>2 DEF Matches
  <2>2. QED
    BY <1>1, <2>1
<1>7. Holds(job, side')
  BY <1>2, <1>5, <1>6, RecordSavedHolds
<1>8. QED
  BY <1>2, <1>3, <1>7 DEF Holding

LEMMA ReferenceKeepsHolding ==
    ASSUME Inv, Files, Bests, Holding, UNCHANGED <<job, proc>>, R!SaveReference
    PROVE  Holding'
<1> DEFINE c == call.cand
           fresh == R!FreshSidecar(call.draft)
           again == [side[c] EXCEPT !.draft = call.draft,
                         !.ref = TRUE, !.verified = FALSE,
                         !.cleanupRequired = FALSE, !.retry = "none",
                         !.receipt = FALSE]
           r == IF call.op = "candidate" THEN fresh ELSE again
<1>1. call \in R!Call /\ call.step = "saveReference" /\ call.step \in Evaluating
  BY RuntimeFacts DEF Inv, R!SaveReference, R!At, Evaluating
<1>2. side' = R!WithCandidate(c, r) /\ call'.step = "verify"
  BY <1>1 DEF R!SaveReference, R!Goto, R!Call
<1>3. call.op = "candidate" => r.dev = None /\ r.ref /\ ~r.receipt /\ r.retry = "none"
  BY DEF R!FreshSidecar, None
<1>4. call.op # "candidate" => r.dev # None /\ r.ref /\ r.retry = "none"
  <2>1. call.op # "candidate" =>
          call.op = "validating" /\ c \in DOMAIN side /\ side[c].dev # None
    BY <1>1, EvaluationFacts, FrameFacts DEF Inv
  <2>2. c \in DOMAIN side => side[c] \in R!Sidecar
    BY RuntimeFacts DEF Inv
  <2>3. QED
    BY <2>1, <2>2 DEF R!Sidecar
<1>5. FrameHeld(job, call', side')
  BY <1>2 DEF FrameHeld
<1> HIDE DEF r
<1>6. QED
  BY <1>1, <1>2, <1>3, <1>4, <1>5, EvaluationKeepsHolding

LEMMA ResultKeepsHolding ==
    ASSUME Inv, Files, Bests, Holding, UNCHANGED <<job, proc>>,
           R!SaveVerified \/ R!SaveSummary
    PROVE  Holding'
<1> DEFINE c == call.cand
           o == side[c]
           verified == [o EXCEPT !.ref = TRUE, !.verified = TRUE,
                          !.cleanupRequired = FALSE, !.retry = "none",
                          !.receipt = FALSE]
           found == [o EXCEPT !.dev = call.summary]
           passed == [o EXCEPT !.ref = TRUE, !.verified = TRUE,
                        !.cleanupRequired = FALSE, !.retry = "none",
                        !.val = call.summary]
<1>1. /\ call \in R!Call /\ call.step \in {"saveVerified", "saveSummary"}
      /\ call.step \in Evaluating /\ call.step \in Working
  BY RuntimeFacts
  DEF Inv, R!SaveVerified, R!SaveSummary, R!At, Evaluating, Working, Saving
<1>2. /\ call'.op = call.op /\ call'.cand = c
      /\ call.step = "saveVerified" => call'.step = "run"
      /\ call.step = "saveSummary" => call'.step = "done" /\ call'.status = "ok"
  BY <1>1 DEF R!SaveVerified, R!SaveSummary, R!At, R!Goto, R!Return, R!Call
<1>3. FrameHeld(job, call', side')
  BY <1>2, <1>1 DEF FrameHeld
<1>4. /\ call.op \in {"candidate", "validating"} /\ c \in DOMAIN side
      /\ IF call.op = "candidate" THEN o.dev = None ELSE o.dev # None
      /\ call.step = "saveVerified" => call.op = "candidate"
      /\ call.step = "saveSummary" => call.summary # None
      /\ o.ref /\ o \in R!Sidecar
      /\ o.retry = "validating" => o.dev # None
  BY <1>1, EvaluationFacts, FrameFacts, RecordFacts DEF Inv
<1>5. PICK r : /\ side' = R!WithCandidate(c, r) /\ r.ref
               /\ call.op = "candidate" => r.retry # "validating"
               /\ call.op = "validating" => r.dev # None
               /\ call.op = "candidate" => r.dev # None \/ ~r.receipt
  <2>1. CASE call.step = "saveVerified"
    <3>1. side' = R!WithCandidate(c, verified)
      BY <2>1 DEF R!SaveVerified, R!SaveSummary, R!At
    <3>2. verified.ref /\ verified.retry = "none" /\ ~verified.receipt
      BY <1>4 DEF R!Sidecar
    <3>3. QED
      BY <1>4, <2>1, <3>1, <3>2
  <2>2. CASE call.step = "saveSummary" /\ call.op = "candidate"
    <3>1. side' = R!WithCandidate(c, found)
      BY <2>2 DEF R!SaveVerified, R!SaveSummary, R!At
    <3>2. found.ref /\ found.retry = o.retry /\ found.dev = call.summary
      BY <1>4 DEF R!Sidecar
    <3>3. QED
      BY <1>4, <2>2, <3>1, <3>2
  <2>3. CASE call.step = "saveSummary" /\ call.op = "validating"
    <3>1. side' = R!WithCandidate(c, passed)
      BY <2>3 DEF R!SaveVerified, R!SaveSummary, R!At
    <3>2. passed.ref /\ passed.retry = "none" /\ passed.dev = o.dev
      BY <1>4 DEF R!Sidecar
    <3>3. QED
      BY <1>4, <2>3, <3>1, <3>2
  <2>4. QED
    BY <1>1, <1>4, <2>1, <2>2, <2>3
<1> HIDE DEF verified, found, passed
<1>6. QED
  BY <1>1, <1>3, <1>4, <1>5, EvaluationKeepsHolding

\* A failed verification: the draft is deleted, or owed.
LEMMA FailureKeepsHolding ==
    ASSUME Inv, Files, Bests, Holding, UNCHANGED <<job, proc>>,
           R!SaveFailCleaned \/ R!SaveFailRequired \/ R!SaveRetryCleaned
    PROVE  Holding'
<1> DEFINE c == call.cand
           o == side[c]
<1>1. /\ call \in R!Call
      /\ call.step \in {"saveFailCleaned", "saveFailRequired", "saveRetryCleaned"}
      /\ call.step \in Evaluating /\ call.step \in Working
  BY RuntimeFacts
  DEF Inv, R!SaveFailCleaned, R!SaveFailRequired, R!SaveRetryCleaned, R!At,
      Evaluating, Working, Saving
<1>2. /\ call'.op = call.op /\ call'.cand = c /\ call'.step = "done"
      /\ call.step = "saveFailRequired" => call'.status = "platform_failure"
      /\ call.step # "saveFailRequired" => call'.status = "retry"
  BY <1>1
  DEF R!SaveFailCleaned, R!SaveFailRequired, R!SaveRetryCleaned, R!At, R!Return, R!Call
<1>3. /\ call.op \in {"candidate", "validating"} /\ c \in DOMAIN side
      /\ IF call.op = "candidate" THEN o.dev = None ELSE o.dev # None
      /\ o \in R!Sidecar
      /\ o.retry = "validating" => o.dev # None
      /\ o.retry = "candidate" => o.dev = None
      /\ o.cleanupRequired => o.retry # "none"
  BY <1>1, EvaluationFacts, FrameFacts, RecordFacts DEF Inv
<1>4. call.step = "saveRetryCleaned" => o.retry = call.op
  <2>1. call.step = "saveRetryCleaned" => o.cleanupRequired
    BY <1>1, AtRuntime DEF Holding, FrameHeld
  <2>2. QED
    BY <1>3, <2>1 DEF R!Sidecar, R!Retries
<1>5. PICK r : /\ side' = R!WithCandidate(c, r) /\ r.dev = o.dev
               /\ r.retry = call.op
               /\ IF call.step = "saveFailRequired" THEN r.ref ELSE r.receipt
  <2>1. CASE call.step = "saveFailRequired"
    <3>1. side' = R!WithCandidate(c, R!Obliged(o, call.op))
      BY <2>1 DEF R!SaveFailCleaned, R!SaveFailRequired, R!SaveRetryCleaned, R!At
    <3>2. LET r == R!Obliged(o, call.op) IN r.dev = o.dev /\ r.retry = call.op /\ r.ref
      BY <1>3 DEF R!Obliged, R!Sidecar
    <3>3. QED
      BY <2>1, <3>1, <3>2
  <2>2. CASE call.step # "saveFailRequired"
    <3>1. side' = R!WithCandidate(c, R!Cleaned(o, call.op))
      BY <1>1, <1>4, <2>2
      DEF R!SaveFailCleaned, R!SaveFailRequired, R!SaveRetryCleaned, R!At
    <3>2. LET r == R!Cleaned(o, call.op) IN
          r.dev = o.dev /\ r.retry = call.op /\ r.receipt
      BY <1>3 DEF R!Cleaned, R!Sidecar
    <3>3. QED
      BY <2>2, <3>1, <3>2
  <2>3. QED
    BY <2>1, <2>2
<1>6. c \in DOMAIN side' /\ side'[c] = r
  BY <1>5, RecordSaved
<1>7. FrameHeld(job, call', side')
  BY <1>2, <1>3, <1>5, <1>6 DEF FrameHeld
<1>8. QED
  BY <1>1, <1>3, <1>5, <1>7, EvaluationKeepsHolding

\* The receipt of a cleanup: the draft of the best candidate is not its draft.
LEMMA CleanedKeepsHolding ==
    ASSUME Inv, Files, Bests, Holding, UNCHANGED <<job, proc>>, R!SaveCleaned
    PROVE  Holding'
<1> DEFINE c == call.cand
           o == side[c]
           r == R!Cleaned(o, o.retry)
<1>1. /\ call \in R!Call /\ call.step = "saveCleaned" /\ call.step \in Working
      /\ side' = R!WithCandidate(c, r)
      /\ call'.op = call.op /\ call'.cand = c
      /\ call'.step = "done" /\ call'.status = "cleaned"
  BY RuntimeFacts DEF Inv, R!SaveCleaned, R!At, R!Return, R!Call, Working, Saving
<1>2. /\ Quantitative(job) /\ Holds(job, side) /\ HeldAt(job, proc)
      /\ FrameHeld(job, call, side)
  BY <1>1, AtRuntime DEF Holding
<1>3. /\ c \in DOMAIN side /\ o \in R!Sidecar /\ c \in Candidates
  BY <1>1, FrameFacts, RecordFacts DEF Inv
<1>4. /\ r.dev = o.dev /\ r.val = o.val /\ r.retry = o.retry /\ r.receipt /\ ~r.ref
  BY <1>3 DEF R!Cleaned, R!Sidecar
<1>5. /\ call.op = "cleanup" /\ job.cand[c].draft # None
      /\ job.terminal = "none" /\ c = BestOf(job) => o.val # None
      /\ RecordHeld(job, o, c)
  BY <1>1, <1>2, <1>3 DEF FrameHeld, Holds, RecordsHeld
<1>6. o.dev # None \/ job.cand[c].assessment # "none"
  BY <1>1 DEF Files, HoldFits, DraftFits
<1>7. job.cand[c].dev # None \/ job.cand[c].assessment # "none"
  BY <1>3, <1>5 DEF Files, Agree, Matches
<1> HIDE DEF r
<1>8. RecordHeld(job, r, c)
  BY <1>4, <1>5, <1>6, <1>7 DEF RecordHeld
<1>9. Holds(job, side')
  BY <1>1, <1>2, <1>4, <1>5, <1>8, RecordSavedHolds
<1>10. FrameHeld(job, call', side')
  BY <1>1, <1>5 DEF FrameHeld
<1>11. QED
  BY <1>2, <1>9, <1>10 DEF Holding

LEMMA WorkKeepsHolding ==
    ASSUME Inv, Files, Bests, Holding, UNCHANGED <<job, proc>>, R!Work \/ R!Fault
    PROVE  Holding'
<1>1. CASE \/ R!Create \/ R!CreateFails \/ R!CreateLosesAnswer
           \/ R!Verify \/ R!VerifyFails \/ R!Run \/ R!RunFails
           \/ R!Delete("failDelete", "saveFailCleaned")
           \/ R!Delete("retryDelete", "saveRetryCleaned")
           \/ R!Delete("delete", "saveCleaned")
           \/ R!DeleteFails
  <2>1. UNCHANGED side
    BY <1>1
    DEF R!Create, R!CreateFails, R!CreateLosesAnswer, R!Verify, R!VerifyFails, R!Run,
        R!RunFails, R!Delete, R!DeleteFails
  <2>2. QED
    BY <1>1, <2>1, CallKeepsHolding
<1>2. CASE \/ R!SaveReference \/ R!SaveVerified \/ R!SaveSummary \/ R!SaveFailCleaned
           \/ R!SaveFailRequired \/ R!SaveRetryCleaned \/ R!SaveCleaned
  BY <1>2, ReferenceKeepsHolding, ResultKeepsHolding, FailureKeepsHolding,
     CleanedKeepsHolding
<1>3. QED
  BY <1>1, <1>2 DEF R!Work, R!Fault, R!DraftIsGone

\* Between two calls nothing is to be said of a frame.
LEMMA SaveHolds ==
    ASSUME Inv, Files, Holding, NEW n, NEW p,
           (Save(n, p) /\ proc.pc \notin Calling) \/ SaveResult(n, p),
           Accepted(n) => n.mode = job.mode,
           Quantitative(job) /\ Accepted(n) => Holds(n, side) /\ HeldAt(n, p)
    PROVE  Holding'
<1>1. /\ side' = side /\ call' = R!Idle
      /\ IF Accepted(n) THEN job' = n /\ proc' = p
                        ELSE job' = job /\ proc' = Ended
  BY DEF Save, SaveResult, runtime, Files, CallingFits
<1>2. \A j : FrameHeld(j, R!Idle, side) /\ HeldAt(j, Ended)
  BY DEF FrameHeld, HeldAt, R!Idle, Ended, Sweeping
<1>3. Accepted(n) => (Quantitative(n) <=> Quantitative(job))
  BY DEF Quantitative
<1>4. QED
  BY <1>1, <1>2, <1>3 DEF Holding

LEMMA MoveHolds ==
    ASSUME Inv, Files, Holding, NEW p,
           (Continue(p) /\ proc.pc \notin Calling) \/ DropResult(p),
           Quantitative(job) => HeldAt(job, p)
    PROVE  Holding'
<1>1. side' = side /\ call' = R!Idle /\ job' = job /\ proc' = p
  BY DEF Continue, DropResult, runtime, Files, CallingFits
<1>2. FrameHeld(job, R!Idle, side)
  BY DEF FrameHeld, R!Idle
<1>3. QED
  BY <1>1, <1>2 DEF Holding

LEMMA InvokeHolds ==
    ASSUME Inv, Files, Holding, NEW frame, NEW p, Invoke(frame, p),
           Quantitative(job) => HeldAt(job, p) /\ FrameHeld(job, frame, side)
    PROVE  Holding'
<1>1. side' = side /\ call' = frame /\ job' = job /\ proc' = p
  BY DEF Invoke, R!Begin
<1>2. QED
  BY <1>1 DEF Holding

\* The places that meet no draft of the best candidate.
LEMMA PlainHeld ==
    ASSUME NEW j, NEW p,
           p.pc \notin Sweeping \cup {"comment", "afterTry", "afterFailure"}
    PROVE  HeldAt(j, p)
BY DEF HeldAt, Sweeping

LEMMA SweepHeld ==
    ASSUME NEW j, NEW p, p.pc = "sweep", p.next \in {"idle", "entry"},
           Needed(j) => Fresh(j)
    PROVE  HeldAt(j, p)
BY DEF HeldAt

LEMMA NeededFresh ==
    ASSUME NEW j, JobFits(j), Guarded(j), j.terminal # "none" \/ EnoughCompleted(j)
    PROVE  Needed(j) => Fresh(j)
BY EnoughIsAll DEF Guarded, Needed, JobFits

LEMMA FinishHeld ==
    ASSUME proc \in Proc, NEW j, Needed(j) => Fresh(j)
    PROVE  /\ \A next : HeldAt(j, FinalComment(j, next))
           /\ HeldAt(j, ControllerFinish(j)) /\ HeldAt(j, LastSweep(j))
<1>1. /\ ControllerFinish(j).pc = "sweep" /\ ControllerFinish(j).next = "entry"
      /\ LastSweep(j).pc = "sweep" /\ LastSweep(j).next = "idle"
  BY DEF ControllerFinish, LastSweep, Sweep, Proc
<1>2. HeldAt(j, ControllerFinish(j)) /\ HeldAt(j, LastSweep(j))
  BY <1>1, SweepHeld
<1>3. ASSUME NEW next PROVE HeldAt(j, FinalComment(j, next))
  <2> DEFINE p == FinalComment(j, next)
  <2>1. p.pc \in {"bind", "postFinal"} \/ p = LastSweep(j)
    BY DEF FinalComment, To, Proc
  <2>2. QED
    BY <1>2, <2>1, PlainHeld DEF Sweeping
<1>4. QED
  BY <1>2, <1>3

LEMMA PlacesHeld ==
    ASSUME proc \in Proc, NEW j
    PROVE  /\ HeldAt(j, Ended)
           /\ \A pc : pc \notin Sweeping \cup {"comment", "afterTry", "afterFailure"}
                => HeldAt(j, To(pc))
<1>1. Ended.pc = "idle" /\ \A pc : To(pc).pc = pc
  BY DEF Ended, To, Proc
<1>2. QED
  BY <1>1, PlainHeld DEF Sweeping

\* The best candidate depends on the eligible ones and their results.
LEMMA SameEligible ==
    ASSUME NEW j, NEW n, Eligible(n) = Eligible(j),
           \A c \in Eligible(j) : n.cand[c].dev = j.cand[c].dev
    PROVE  BestOf(n) = BestOf(j)
BY SameBest DEF BestOf

\* One candidate that is not completed changes, and is not among the best.
LEMMA OpenHolds ==
    ASSUME Inv, Holding, Quantitative(job), ~EnoughCompleted(job),
           job.terminal = "none", NEW c \in Candidates, NEW n,
           \A d \in Candidates \ {c} : n.cand[d] = job.cand[d],
           c \notin Eligible(job), c \notin Eligible(n), ~AllCompleted(n),
           c \notin Handed(n) => n.cand[c].dev = None,
           c \in DOMAIN side => RecordHeld(n, side[c], c)
    PROVE  Holds(n, side) /\ BestOf(n) = BestOf(job) /\ BestOf(n) # c
<1>1. Eligible(n) = Eligible(job)
  <2>1. \A d \in Candidates \ {c} : d \in Eligible(n) <=> d \in Eligible(job)
    BY DEF Eligible, Handed
  <2>2. QED
    BY <2>1 DEF Eligible, Handed
<1>2. BestOf(n) = BestOf(job)
  <2>1. \A d \in Eligible(job) : n.cand[d].dev = job.cand[d].dev
    BY DEF Eligible, Handed
  <2>2. QED
    BY <1>1, <2>1, SameEligible
<1>3. BestOf(job) # c
  <2>1. c # None /\ JobFits(job)
    BY Numbers DEF Inv, Fits
  <2>2. QED
    BY <2>1, BestResult
<1>4. Holds(job, side) /\ DOMAIN side \subseteq Candidates
  BY RuntimeFacts DEF Inv, Holding
<1>5. RecordsHeld(n, side)
  BY <1>4 DEF Holds, RecordsHeld, RecordHeld
<1>6. BestHeld(n, side)
  BY <1>2, <1>4 DEF Holds, BestHeld
<1>7. Guarded(n)
  BY <1>4 DEF Holds, Guarded, Handed
<1>8. QED
  BY <1>2, <1>3, <1>5, <1>6, <1>7 DEF Holds

\* A save that leaves the results, and with them the best candidate.
LEMMA SteadyHolds ==
    ASSUME Inv, Holding, Quantitative(job), NEW n,
           Handed(n) = Handed(job), BestOf(n) = BestOf(job),
           EnoughCompleted(job) => EnoughCompleted(n),
           \A c \in Candidates :
             /\ n.cand[c].finalized = job.cand[c].finalized
             /\ n.cand[c].dev = job.cand[c].dev
             /\ job.cand[c].dev = None => n.cand[c].assessment = job.cand[c].assessment
             /\ job.cand[c].assessment # "none" => n.cand[c].assessment # "none",
           n.terminal = "none" => job.terminal = "none" \/ BestHeld(n, side),
           Needed(n) /\ AllCompleted(n) => Fresh(n)
    PROVE  Holds(n, side)
<1>1. Holds(job, side) /\ DOMAIN side \subseteq Candidates
  BY RuntimeFacts DEF Inv, Holding
<1>2. RecordsHeld(n, side)
  BY <1>1 DEF Holds, RecordsHeld, RecordHeld
<1>3. BestHeld(n, side)
  BY <1>1 DEF Holds, BestHeld
<1>4. Guarded(n)
  BY <1>1 DEF Holds, Guarded
<1>5. QED
  BY <1>2, <1>3, <1>4 DEF Holds

\* A fresh development decision protects the best candidate.
LEMMA DecisionHolds ==
    ASSUME Inv, Holding, Quantitative(job),
           NEW n, n = WithDevelopmentDecision(job), Accepted(n)
    PROVE  /\ Holds(n, side) /\ Fresh(n) /\ BestOf(n) = BestOf(job)
           /\ n.mode = job.mode /\ Steady(job, n)
<1>1. JobFits(job) /\ job \in JobState /\ n = WithProvisional(job)
  BY DEF Inv, Fits, JobFits, WithDevelopmentDecision, Quantitative
<1>2. /\ n \in JobState /\ Provisional(job) \in [Candidates -> Assessments]
      /\ Reassessed(job, n, Provisional(job))
  BY <1>1, ProvisionalShape
<1>3. /\ n.terminal = job.terminal /\ n.mode = job.mode /\ BestOf(n) = BestOf(job)
      /\ n.decision = [NoDecision EXCEPT !.outcome = "no_winner", !.prov = BestOf(job)]
  BY <1>1, DecisionTold
<1>4. Fresh(n)
  BY <1>3 DEF Fresh, NoDecision
<1>5. Steady(job, n)
  BY <1>1, DecisionSteady
<1>6. \A c \in Candidates :
        /\ n.cand[c].handed = job.cand[c].handed
        /\ n.cand[c].finalized = job.cand[c].finalized
        /\ n.cand[c].dev = job.cand[c].dev
        /\ n.cand[c].assessment = Provisional(job)[c]
  BY <1>1, <1>2, AssessedFields
<1>7. Handed(n) = Handed(job)
  BY <1>6 DEF Handed
<1>8. \A c \in Candidates :
        /\ job.cand[c].dev = None => Provisional(job)[c] = job.cand[c].assessment
        /\ job.cand[c].assessment # "none" => Provisional(job)[c] # "none"
  BY DEF Provisional
<1>9. Holds(n, side)
  BY <1>3, <1>4, <1>5, <1>6, <1>7, <1>8, SteadyHolds DEF Steady
<1>10. QED
  BY <1>3, <1>4, <1>5, <1>9

\* A candidate without a result keeps its job open.
LEMMA NotCompleted ==
    ASSUME NEW n, NEW c \in Candidates, c \in Handed(n), n.cand[c].dev = None,
           n.cand[c].checks = "none",
           n.cand[c].assessment \in {"none", "invalid", "platform_failure"}
    PROVE  ~AllCompleted(n) /\ c \notin Eligible(n)
BY Numbers, ResultsAssumption DEF AllCompleted, Completed, Eligible

LEMMA StillOpen ==
    ASSUME Inv, Quantitative(job), NEW c \in Handed(job),
           job.cand[c].assessment = "none" \/ job.cand[c].dev = None
    PROVE  /\ ~EnoughCompleted(job) /\ job.terminal = "none"
           /\ c \in Candidates /\ job.cand[c] \in Candidate
           /\ CandidateFits(job.mode, job.cand[c])
<1>1. JobFits(job) /\ job \in JobState /\ c \in Candidates
  BY DEF Inv, Fits, JobFits, Handed
<1>2. job.cand[c] \in Candidate /\ CandidateFits(job.mode, job.cand[c])
  BY <1>1 DEF JobFits, JobState
<1>3. ~EnoughCompleted(job)
  BY <1>1, EnoughMeansAll
<1>4. c \notin Completed(job)
  BY <1>1, <1>2 DEF Completed, CandidateFits, Quantitative, Candidate, Assessments
<1>5. job.terminal = "none"
  BY <1>1, <1>4 DEF JobFits, AllCompleted
<1>6. QED
  BY <1>1, <1>2, <1>3, <1>5

LEMMA UndevelopedHolds ==
    ASSUME Inv, Holding, Quantitative(job), ~EnoughCompleted(job),
           job.terminal = "none", NEW c \in Candidates, NEW n,
           \A d \in Candidates \ {c} : n.cand[d] = job.cand[d],
           job.cand[c].dev = None, c \in Handed(n), n.cand[c].dev = None,
           n.cand[c].checks = "none",
           n.cand[c].assessment \in {"none", "invalid", "platform_failure"},
           c \in DOMAIN side => RecordHeld(n, side[c], c)
    PROVE  Holds(n, side) /\ BestOf(n) = BestOf(job) /\ BestOf(n) # c
<1>1. ~AllCompleted(n) /\ c \notin Eligible(n)
  BY NotCompleted
<1>2. c \notin Eligible(job)
  BY Numbers, ResultsAssumption DEF Eligible
<1>3. QED
  BY <1>1, <1>2, OpenHolds

LEMMA CommandHolds ==
    ASSUME Inv, Files, Holding, Guided, Command
    PROVE  Holding'
<1>0. /\ job \in JobState /\ proc \in Proc /\ proc.pc = "idle"
      /\ proc.pc \notin Calling /\ JobFits(job)
  BY CommandsFit
  DEF Inv, Fits, Command, Handoff, StartComplete, StartFinish, Pc, Calling
<1>1. ASSUME NEW c \in Candidates, Handoff(c) PROVE Holding'
  <2> DEFINE n == [job EXCEPT !.cand[c].handed = TRUE]
  <2>1. /\ Save(n, Ended) /\ NextAction = "handoff-candidate"
        /\ job.terminal = "none" /\ c \notin Handed(job)
    BY <1>1 DEF Handoff, Advised
  <2>2. ~EnoughCompleted(job)
    BY <2>1 DEF NextAction
  <2>3. job.cand[c] \in Candidate
    BY <1>0 DEF JobState
  <2>4. /\ \A d \in Candidates \ {c} : n.cand[d] = job.cand[d]
        /\ n.mode = job.mode
        /\ n.cand[c].handed /\ n.cand[c].dev = job.cand[c].dev
        /\ n.cand[c].checks = job.cand[c].checks
        /\ n.cand[c].assessment = job.cand[c].assessment
        /\ n.cand[c].finalized = job.cand[c].finalized
    BY <1>0, <2>3 DEF JobState, Candidate
  <2> HIDE DEF n
  <2>5. ASSUME Quantitative(job) PROVE Holds(n, side)
    <3>1. Holds(job, side)
      BY <2>5 DEF Holding
    <3>2. job.cand[c].dev = None
      BY <2>1, <3>1 DEF Holds, Guarded
    <3>3. CandidateFits(job.mode, job.cand[c])
      BY <1>0 DEF JobFits
    <3>4. /\ job.cand[c].checks = "none"
          /\ job.cand[c].assessment \in {"none", "invalid", "platform_failure"}
      BY <2>3, <2>5, <3>2, <3>3 DEF CandidateFits, Quantitative, Candidate, Assessments
    <3>5. c \in DOMAIN side => RecordHeld(n, side[c], c)
      BY <2>2, <2>4, <3>1, <3>2 DEF Holds, RecordsHeld, RecordHeld
    <3>6. c \in Handed(n)
      BY <2>4 DEF Handed
    <3>7. QED
      BY <2>1, <2>2, <2>4, <2>5, <3>2, <3>4, <3>5, <3>6, UndevelopedHolds
  <2>6. HeldAt(n, Ended)
    BY <1>0, PlacesHeld
  <2>7. QED
    BY <1>0, <2>1, <2>4, <2>5, <2>6, SaveHolds
<1>2. ASSUME NEW c \in Candidates, StartComplete(c) PROVE Holding'
  <2> DEFINE at(pc) == [Ended EXCEPT !.pc = pc, !.cand = c]
  <2>1. c \in PendingCandidates(job)
    BY <1>2 DEF StartComplete
  <2>2. ~(job.cand[c].assessment # "none" /\ job.cand[c].comment)
    BY <2>1 DEF PendingCandidates
  <2>3. Continue(at("finalize")) \/ Continue(at("evaluate"))
    BY <1>2, <2>2 DEF StartComplete
  <2>4. at("finalize").pc = "finalize" /\ at("evaluate").pc = "evaluate"
    BY DEF Ended
  <2> HIDE DEF at
  <2>5. HeldAt(job, at("finalize")) /\ HeldAt(job, at("evaluate"))
    BY <2>4, PlainHeld DEF Sweeping
  <2>6. QED
    BY <1>0, <2>3, <2>5, MoveHolds
<1>3. CASE StartFinish
  <2> DEFINE p == [Ended EXCEPT !.pc = "sweep", !.todo = Handed(job), !.next = "entry"]
  <2>1. Continue(p) /\ p.pc = "sweep" /\ p.next = "entry"
    BY <1>3 DEF StartFinish, Ended
  <2>2. NextAction = "finish"
    BY <1>3 DEF StartFinish, Advised
  <2>3. job.terminal # "none" \/ EnoughCompleted(job)
    BY <2>2 DEF NextAction
  <2> HIDE DEF p
  <2>4. ASSUME Quantitative(job) PROVE HeldAt(job, p)
    <3>1. Guarded(job)
      BY <2>4 DEF Holding, Holds
    <3>2. QED
      BY <1>0, <2>1, <2>3, <3>1, NeededFresh, SweepHeld
  <2>5. QED
    BY <1>0, <2>1, <2>4, MoveHolds
<1>4. QED
  BY <1>1, <1>2, <1>3 DEF Command

LEMMA FinalizeHolds ==
    ASSUME Inv, Files, Holding, Finalize
    PROVE  Holding'
<1> DEFINE c == proc.cand
           n == [job EXCEPT !.cand[c].finalized = TRUE]
           m == [job EXCEPT !.cand[c].assessment = "invalid"]
<1>1. /\ job \in JobState /\ proc \in Proc /\ c \in Candidates /\ c \in Handed(job)
      /\ job.cand[c] \in Candidate /\ job.cand[c].assessment = "none"
      /\ ~job.cand[c].finalized /\ proc.pc \notin Calling
      /\ CandidateFits(job.mode, job.cand[c])
  BY CommandsFit, AtCandidate
  DEF Inv, Finalize, Pc, OnCandidate, Fits, CommandFits, ControlFits, Calling
<1>2. Save(n, To("evaluate")) \/ Save(m, To("evaluate"))
  BY DEF Finalize
<1>3. ASSUME NEW l, l \in {n, m}
      PROVE  /\ \A d \in Candidates \ {c} : l.cand[d] = job.cand[d]
             /\ l.mode = job.mode /\ l.cand[c].handed = job.cand[c].handed
             /\ l.cand[c].dev = job.cand[c].dev
             /\ l.cand[c].checks = job.cand[c].checks
             /\ l.cand[c].assessment \in {"none", "invalid"}
  BY <1>1, <1>3 DEF JobState, Candidate
<1> HIDE DEF n, m
<1>4. ASSUME Quantitative(job), NEW l, l \in {n, m} PROVE Holds(l, side)
  <2>1. Holds(job, side)
    BY <1>4 DEF Holding
  <2>2. c \notin DOMAIN side
    BY <1>1, <2>1 DEF Holds, RecordsHeld, RecordHeld
  <2>3. job.cand[c].dev = None /\ job.cand[c].checks = "none"
    BY <1>1, <1>4 DEF CandidateFits, Quantitative
  <2>4. ~EnoughCompleted(job) /\ job.terminal = "none"
    BY <1>1, <1>4, StillOpen
  <2>5. c \in Handed(l)
    BY <1>1, <1>3, <1>4 DEF Handed
  <2>6. QED
    BY <1>1, <1>3, <1>4, <2>2, <2>3, <2>4, <2>5, UndevelopedHolds
<1>5. \A l : HeldAt(l, To("evaluate"))
  BY <1>1, PlacesHeld DEF Sweeping
<1>6. QED
  BY <1>1, <1>2, <1>3, <1>4, <1>5, SaveHolds

LEMMA EvaluateHolds ==
    ASSUME Inv, Files, Holding, Evaluate
    PROVE  Holding'
<1> DEFINE c == proc.cand
           f == R!EnterCandidate(c)
           n(checks, assessment) == [job EXCEPT !.cand[c].checks = checks,
                                                !.cand[c].assessment = assessment]
           m == [job EXCEPT !.cand[c].assessment = "keep"]
<1>1. /\ job \in JobState /\ proc \in Proc /\ c \in Candidates /\ c \in Handed(job)
      /\ proc.pc \notin Calling
  BY CommandsFit, AtCandidate
  DEF Inv, Evaluate, Pc, OnCandidate, Fits, Calling
<1>2. \A j : /\ HeldAt(j, To("decide")) /\ HeldAt(j, Ended)
             /\ HeldAt(j, To("evaluating"))
  BY <1>1, PlacesHeld DEF Sweeping
<1>3. job.mode \in {"foundry_evaluation", "repository_checks", "none"}
  BY <1>1, ModeAssumption DEF JobState, Modes
<1>4. CASE job.cand[c].assessment # "none" \/ ~job.cand[c].finalized
  <2>1. Continue(To("decide")) \/ Continue(Ended)
    BY <1>4 DEF Evaluate
  <2>2. QED
    BY <1>1, <1>2, <2>1, MoveHolds
<1>5. CASE /\ job.cand[c].assessment = "none" /\ job.cand[c].finalized
           /\ Quantitative(job)
  <2>1. Invoke(f, To("evaluating"))
    BY <1>5 DEF Evaluate, Quantitative
  <2>2. Holds(job, side)
    BY <1>5 DEF Holding
  <2>3. job.cand[c].dev = None /\ c \in DOMAIN side => RecordHeld(job, side[c], c)
    BY <2>2 DEF Holds, RecordsHeld
  <2>4. f.op = "candidate" /\ f.cand = c
    BY CandidateEntry, <1>1, <1>5
  <2>5. FrameHeld(job, f, side)
    <3>1. CASE c \in DOMAIN side /\ side[c].dev # None
      <4>1. f.step = "done" /\ f.status = "ok"
        BY <3>1, FrameFields DEF R!EnterCandidate, None
      <4> HIDE DEF f
      <4>2. QED
        BY <4>1, <2>4 DEF FrameHeld
    <3>2. CASE c \in DOMAIN side /\ side[c].dev = None
      <4>1. \/ /\ side[c].receipt /\ side[c].retry # "candidate"
            \/ f.step = "create"
            \/ f.step = "retryDelete" /\ side[c].cleanupRequired
            \/ f.step \in {"run", "verify"}
        BY <3>2, FrameFields DEF R!EnterCandidate, R!HasVerifiedReference, None
      <4>2. ~(side[c].receipt /\ side[c].retry # "candidate")
        BY <1>5, <2>2, <3>2 DEF Holds, RecordsHeld, RecordHeld
      <4> HIDE DEF f
      <4>3. QED
        BY <2>4, <4>1, <4>2 DEF FrameHeld
    <3>3. CASE c \notin DOMAIN side
      <4>1. f.step = "create"
        BY <3>3, FrameFields DEF R!EnterCandidate
      <4> HIDE DEF f
      <4>2. QED
        BY <4>1, <2>4 DEF FrameHeld
    <3>4. QED
      BY <3>1, <3>2, <3>3
  <2> HIDE DEF f
  <2>6. QED
    BY <1>2, <2>1, <2>5, InvokeHolds
<1>6. CASE /\ job.cand[c].assessment = "none" /\ job.cand[c].finalized
           /\ ~Quantitative(job)
  <2>1. \/ \E checks, assessment : Save(n(checks, assessment), To("decide"))
        \/ Save(m, To("decide"))
    <3>1. CASE job.mode = "repository_checks"
      <4>1. \E passed \in BOOLEAN :
              Save(n(IF passed THEN "passed" ELSE "failed",
                     IF passed THEN "keep" ELSE "discard"), To("decide"))
        BY <1>6, <3>1 DEF Evaluate
      <4> HIDE DEF n
      <4>2. QED
        BY <4>1
    <3>2. CASE job.mode = "none"
      BY <1>6, <3>2 DEF Evaluate
    <3>3. QED
      BY <1>3, <1>6, <3>1, <3>2 DEF Quantitative
  <2>2. /\ \A checks, assessment : n(checks, assessment).mode = job.mode
        /\ m.mode = job.mode
    BY <1>1 DEF JobState
  <2> HIDE DEF n, m
  <2>3. QED
    BY <1>1, <1>6, <2>1, <2>2, SaveHolds
<1>7. QED
  BY <1>4, <1>5, <1>6

\* A retry: what it leaves, and why the best candidate is still held.
LEMMA RetryLeaves ==
    ASSUME NEW j \in JobState, NEW c \in Candidates, NEW phase,
           NEW n, n = WithRetry(j, c, phase)
    PROVE  /\ n.cand[c].draft = None /\ n.terminal = "none"
           /\ phase = "candidate" =>
                n.cand[c].dev = None /\ n.cand[c].assessment = "none"
           /\ phase # "candidate" =>
                /\ n.cand[c].dev = j.cand[c].dev
                /\ n.cand[c].assessment = j.cand[c].assessment
           /\ \A d \in Candidates \ {c} : n.cand[d] = j.cand[d]
           /\ n.cand[c].handed = j.cand[c].handed
           /\ n.cand[c].finalized = j.cand[c].finalized
           /\ n.cand[c].checks = j.cand[c].checks
           /\ n.mode = j.mode
<1> DEFINE reset == IF phase = "candidate"
                    THEN [j.cand[c] EXCEPT !.dev = None, !.val = None,
                            !.assessment = "none", !.comment = FALSE]
                    ELSE [j.cand[c] EXCEPT !.val = None]
           k == [reset EXCEPT !.draft = None, !.cleaned = FALSE]
<1>1. j.cand[c] \in Candidate
  BY DEF JobState
<1>2. /\ k.handed = j.cand[c].handed /\ k.finalized = j.cand[c].finalized
      /\ k.checks = j.cand[c].checks /\ k.draft = None
      /\ phase = "candidate" => k.dev = None /\ k.assessment = "none"
      /\ phase # "candidate" =>
           k.dev = j.cand[c].dev /\ k.assessment = j.cand[c].assessment
  BY <1>1 DEF Candidate
<1>3. n.cand = [j.cand EXCEPT ![c] = k] /\ n.mode = j.mode /\ n.terminal = "none"
  BY DEF WithRetry, JobState
<1> HIDE DEF k
<1>4. n.cand[c] = k /\ \A d \in Candidates \ {c} : n.cand[d] = j.cand[d]
  BY <1>3 DEF JobState
<1>5. QED
  BY <1>2, <1>3, <1>4

LEMMA RetryHolds ==
    ASSUME Inv, Files, Holding, Quantitative(job),
           job.terminal \in {"none", "platform_failure"},
           NEW c \in DOMAIN side, c \in Handed(job),
           NEW phase, phase = side[c].retry, phase \in {"candidate", "validating"},
           NEW n, n = WithRetry(job, c, phase), Accepted(n)
    PROVE  /\ Holds(n, side) /\ n.mode = job.mode
           /\ EnoughCompleted(job) => EnoughCompleted(n)
<1>1. /\ job \in JobState /\ JobFits(job) /\ c \in Candidates
      /\ Holds(job, side) /\ RecordHeld(job, side[c], c) /\ Matches(job, side, c)
  BY CommandsFit
  DEF Inv, Fits, Handed, Holding, Holds, RecordsHeld, Files, Agree
<1>2. /\ phase = "validating" => side[c].dev # None
      /\ phase = "candidate" => side[c].dev = None
      /\ side[c].val = None
  BY RecordFacts DEF Inv
<1>3. /\ n.cand[c].draft = None
      /\ phase = "candidate" =>
           n.cand[c].dev = None /\ n.cand[c].assessment = "none"
      /\ phase # "candidate" =>
           /\ n.cand[c].dev = job.cand[c].dev
           /\ n.cand[c].assessment = job.cand[c].assessment
      /\ \A d \in Candidates \ {c} : n.cand[d] = job.cand[d]
      /\ n.terminal = "none"
  BY <1>1, RetryLeaves
<1>4. /\ n.cand[c].handed = job.cand[c].handed
      /\ n.cand[c].finalized = job.cand[c].finalized
      /\ n.cand[c].checks = job.cand[c].checks
      /\ n.mode = job.mode
  BY <1>1, RetryLeaves
<1>5. CASE phase = "candidate"
  <2>1. job.cand[c].dev = None
    BY <1>1, <1>2, <1>5 DEF Matches
  <2>2. /\ ~EnoughCompleted(job) /\ job.terminal = "none"
        /\ job.cand[c].checks = "none"
    BY <2>1, StillOpen DEF CandidateFits, Quantitative
  <2>3. RecordHeld(n, side[c], c)
    BY <1>1, <1>2, <1>4, <1>5 DEF RecordHeld
  <2>4. c \in Handed(n)
    BY <1>1, <1>4 DEF Handed
  <2>5. QED
    BY <1>1, <1>3, <1>4, <1>5, <2>1, <2>2, <2>3, <2>4, UndevelopedHolds
<1>6. CASE phase = "validating"
  <2>1. EnoughCompleted(job) /\ c = BestOf(job)
    BY <1>1, <1>6 DEF RecordHeld
  <2>2. job.cand[c].val = None
    BY <1>1, <1>2 DEF Matches
  <2>3. Steady(job, n)
    BY <1>1, <1>6, <2>2, RetrySteady
  <2>4. EnoughCompleted(n) /\ BestOf(n) = c
    BY <2>1, <2>3 DEF Steady
  <2>5. ~Needed(n) /\ BestHeld(n, side)
    BY <1>3, <1>6, <2>4 DEF Needed, BestHeld
  <2>6. Handed(n) = Handed(job)
    BY <1>1, RetrySaved
  <2>7. Holds(n, side)
    BY <1>1, <1>3, <1>4, <1>6, <2>1, <2>4, <2>5, <2>6, SteadyHolds
  <2>8. QED
    BY <1>4, <2>4, <2>7
<1>7. QED
  BY <1>5, <1>6

\* One more eligible candidate: it is the best, or the best stays.
LEMMA BestGrows ==
    ASSUME NEW j \in JobState, NEW n \in JobState, HasFirst(Handed(n)),
           NEW c \in Candidates, c \notin Eligible(j),
           \A d \in Candidates \ {c} : n.cand[d] = j.cand[d]
    PROVE  BestOf(n) \in {BestOf(j), c}
<1>1. Eligible(n) \ {c} = Eligible(j) /\ Eligible(n) \subseteq Handed(n)
  BY DEF Eligible, Handed
<1>2. \A d \in Eligible(j) : n.cand[d].dev = j.cand[d].dev
  BY DEF Eligible, Handed
<1>3. CASE c \notin Eligible(n)
  BY <1>1, <1>2, <1>3, SameEligible
<1>4. CASE c \in Eligible(n) /\ BestOf(n) # c
  <2> DEFINE S == Eligible(n)
             f == [d \in Candidates |-> n.cand[d].dev]
             b == BestOf(n)
             Beats(k, x, y) == \/ k.cand[x].dev > k.cand[y].dev
                               \/ k.cand[x].dev = k.cand[y].dev /\ x < y
  <2>1. /\ S \subseteq Candidates
        /\ \A d \in Candidates : d \in Nat /\ n.cand[d].dev \in Nat
    <3>1. \A d \in Candidates : n.cand[d].dev \in Summaries \cup {None}
      BY DEF JobState, Candidate
    <3>2. QED
      BY <1>1, <3>1, Numbers DEF Handed
  <2>2. f \in [Candidates -> Nat]
    BY <2>1
  <2> HIDE DEF f
  <2>3. PICK x \in S : First(f, x, S)
    BY <1>1, <1>4, <2>2 DEF HasFirst
  <2>4. \A d \in S \ {x} : Beats(n, x, d)
    BY <2>1, <2>3 DEF First, f
  <2>5. b \in S /\ \A d \in S \ {b} : Beats(n, b, d)
    BY <1>4, <2>4 DEF BestOf, Best
  <2>6. b \in Eligible(j) /\ \A d \in Eligible(j) \ {b} : Beats(j, b, d)
    BY <1>1, <1>2, <1>4, <2>5
  <2>7. /\ BestOf(j) \in Eligible(j)
        /\ \A d \in Eligible(j) \ {BestOf(j)} : Beats(j, BestOf(j), d)
    BY <2>6 DEF BestOf, Best
  <2>8. \A d \in Eligible(j) : d \in Nat /\ j.cand[d].dev \in Nat
    BY <1>1, <1>2, <2>1
  <2>9. BestOf(j) = b
    BY <2>6, <2>7, <2>8
  <2>10. QED
    BY <2>9
<1>5. QED
  BY <1>3, <1>4

\* The result of a candidate is stored while its job is open.
LEMMA StoredHolds ==
    ASSUME Inv, Files, Holding, Quantitative(job),
           NEW c \in Handed(job), job.cand[c].assessment = "none",
           c \in DOMAIN side, side[c].dev # None,
           NEW n \in JobState, n.terminal = job.terminal,
           \A d \in Candidates \ {c} : n.cand[d] = job.cand[d],
           n.cand[c].handed = job.cand[c].handed,
           n.cand[c].finalized = job.cand[c].finalized,
           n.cand[c].assessment = job.cand[c].assessment,
           n.cand[c].dev = side[c].dev
    PROVE  Holds(n, side)
<1>1. /\ job \in JobState /\ JobFits(job) /\ c \in Candidates
      /\ Holds(job, side) /\ RecordHeld(job, side[c], c) /\ Matches(job, side, c)
      /\ DOMAIN side \subseteq Candidates
  BY CommandsFit, RuntimeFacts
  DEF Inv, Fits, Handed, Holding, Holds, RecordsHeld, Files, Agree
<1>2. ~EnoughCompleted(job) /\ job.terminal = "none"
  BY StillOpen
<1>3. Handed(n) = Handed(job)
  BY <1>1 DEF Handed
<1>4. /\ BestOf(n) \in {BestOf(job), c}
      /\ job.cand[c].dev # None => BestOf(n) = BestOf(job)
  <2>1. CASE job.cand[c].dev = None
    <3>1. c \notin Eligible(job)
      BY <2>1, Numbers, ResultsAssumption DEF Eligible
    <3>2. HasFirst(Handed(n))
      BY <1>1, <1>3 DEF JobFits, HandedFits
    <3>3. QED
      BY <1>1, <2>1, <3>1, <3>2, BestGrows
  <2>2. CASE job.cand[c].dev # None
    <3>1. \A d \in Handed(job) : /\ n.cand[d].dev = job.cand[d].dev
                                 /\ n.cand[d].assessment = job.cand[d].assessment
      BY <1>1, <2>2 DEF Matches, Handed
    <3>2. QED
      BY <1>3, <3>1, SameBestOf
  <2>3. QED
    BY <2>1, <2>2
<1>5. RecordsHeld(n, side)
  BY <1>1, <1>2 DEF Holds, RecordsHeld, RecordHeld
<1>6. BestHeld(n, side)
  <2>1. CASE BestOf(n) = BestOf(job)
    BY <1>1, <1>2, <2>1 DEF Holds, BestHeld
  <2>2. CASE BestOf(n) = c /\ job.cand[c].dev = None
    BY <1>1, <2>2 DEF BestHeld, RecordHeld
  <2>3. QED
    BY <1>4, <2>1, <2>2
<1>7. Guarded(n)
  <2>1. ~AllCompleted(n)
    BY <1>3 DEF AllCompleted, Completed
  <2>2. QED
    BY <1>1, <1>3, <2>1 DEF Holds, Guarded
<1>8. QED
  BY <1>5, <1>6, <1>7 DEF Holds

LEMMA EvaluatedHolds ==
    ASSUME Inv, Files, Holding, Evaluated
    PROVE  Holding'
<1> DEFINE c == proc.cand
           o == job.cand[c]
           k == [o EXCEPT !.assessment = "platform_failure", !.draft = call.draft]
           x == [o EXCEPT !.dev = side[c].dev, !.draft = call.draft]
           n == WithRetry(job, c, "candidate")
           f == [job EXCEPT !.cand[c].assessment = "platform_failure",
                            !.cand[c].draft = call.draft]
           e == [job EXCEPT !.cand[c].dev = side[c].dev,
                            !.cand[c].draft = call.draft]
           p == [To("retryDecide") EXCEPT !.next = "idle"]
           q == [Sweep({c}, "afterTry") EXCEPT !.tried = TRUE]
<1>1. /\ job \in JobState /\ proc \in Proc /\ c \in Handed(job) /\ c \in Candidates
      /\ o \in Candidate /\ o.assessment = "none" /\ o.finalized
      /\ Quantitative(job) /\ proc.pc = "evaluating" /\ call.step = "done"
      /\ call.cand = c /\ call.op = "candidate"
  BY CommandsFit, AtCandidate
  DEF Inv, Evaluated, Pc, OnCandidate, ForFoundry, Fits, CommandFits, ControlFits,
      Returned, FrameFits, Files, CallingFits
<1>2. /\ Holds(job, side) /\ FrameHeld(job, call, side) /\ Matches(job, side, c)
      /\ c \in DOMAIN side => RecordHeld(job, side[c], c)
  BY <1>1 DEF Holding, Holds, RecordsHeld, Files, Agree
<1>3. ~EnoughCompleted(job) /\ job.terminal = "none" /\ o.checks = "none"
  BY <1>1, StillOpen DEF CandidateFits, Quantitative
<1>4. /\ f.cand = [job.cand EXCEPT ![c] = k] /\ f.mode = job.mode
      /\ f.terminal = job.terminal
      /\ e.cand = [job.cand EXCEPT ![c] = x] /\ e.mode = job.mode
      /\ e.terminal = job.terminal
  BY <1>1 DEF JobState
<1>5. /\ k.handed = o.handed /\ k.finalized = o.finalized /\ k.dev = o.dev
      /\ k.checks = o.checks /\ k.assessment = "platform_failure"
      /\ x.handed = o.handed /\ x.finalized = o.finalized
      /\ x.dev = side[c].dev /\ x.assessment = o.assessment
  BY <1>1 DEF Candidate
<1>6. /\ p.pc = "retryDecide" /\ p.next = "idle"
      /\ q.pc = "sweep" /\ q.todo = {c} /\ q.next = "afterTry" /\ q.tried
  BY <1>1 DEF To, Sweep, Proc
<1>7. \/ DropResult(Ended)
      \/ call.status = "retry" /\ SaveResult(n, p)
      \/ call.status = "platform_failure" /\ SaveResult(f, q)
      \/ call.status = "ok" /\ SaveResult(e, To("decide"))
  BY DEF Evaluated, Returned
<1> HIDE DEF n, f, e, p, q, k, x
<1>8. /\ f.cand[c] = k /\ e.cand[c] = x
      /\ \A d \in Candidates \ {c} : f.cand[d] = job.cand[d] /\ e.cand[d] = job.cand[d]
  BY <1>1, <1>4 DEF JobState
<1>9. CASE DropResult(Ended)
  BY <1>1, <1>9, PlacesHeld, MoveHolds
<1>10. CASE call.status = "retry" /\ SaveResult(n, p)
  <2>1. c \in DOMAIN side /\ side[c].retry = "candidate"
    BY <1>1, <1>2, <1>10 DEF FrameHeld
  <2>2. Accepted(n) => Holds(n, side) /\ n.mode = job.mode
    BY <1>1, <1>3, <2>1, RetryHolds DEF n
  <2>3. HeldAt(n, p)
    BY <1>6 DEF HeldAt
  <2>4. QED
    BY <1>10, <2>2, <2>3, SaveHolds
<1>11. CASE call.status = "platform_failure" /\ SaveResult(f, q)
  <2>1. c \in DOMAIN side => side[c].dev = None
    BY <1>1, <1>2, <1>11 DEF FrameHeld
  <2>2. o.dev = None
    BY <1>2, <2>1 DEF Matches
  <2>3. c \in DOMAIN side => RecordHeld(f, side[c], c)
    BY <1>1, <1>2, <1>3, <1>5, <1>8, <2>1 DEF RecordHeld
  <2>4. c \in Handed(f)
    BY <1>1, <1>5, <1>8 DEF Handed
  <2>5. Holds(f, side) /\ BestOf(f) # c
    BY <1>1, <1>3, <1>5, <1>8, <2>2, <2>3, <2>4, UndevelopedHolds
  <2>6. HeldAt(f, q)
    BY <1>6, <2>5 DEF HeldAt
  <2>7. QED
    BY <1>4, <1>11, <2>5, <2>6, SaveHolds
<1>12. CASE call.status = "ok" /\ SaveResult(e, To("decide"))
  <2>1. c \in DOMAIN side /\ side[c].dev # None
    BY <1>1, <1>12 DEF Files, HoldFits, ReturnsFit, Inv, FrameFits
  <2>2. e \in JobState
    <3>1. x \in Candidate /\ e = [job EXCEPT !.cand[c] = x]
      <4>1. call.draft \in R!Versions \cup {None} /\ side[c].dev \in Summaries \cup {None}
        BY <1>1, <1>12, ResultTypes DEF R!At
      <4>2. QED
        BY <1>1, <4>1, ZenonT(40) DEF x, e, Candidate, JobState
    <3>2. QED
      BY <1>1, <3>1, OneChanged
  <2>3. Holds(e, side)
    BY <1>1, <1>4, <1>5, <1>8, <2>1, <2>2, StoredHolds
  <2>4. HeldAt(e, To("decide"))
    BY <1>1, PlacesHeld DEF Sweeping
  <2>5. QED
    BY <1>4, <1>12, <2>3, <2>4, SaveHolds
<1>13. QED
  BY <1>7, <1>9, <1>10, <1>11, <1>12

\* A save that leaves the evidence, the drafts and the decision.
LEMMA EvidenceHolds ==
    ASSUME Inv, Holding, Quantitative(job), NEW n \in JobState, n.mode = job.mode,
           SameEvidence(job, n), n.decision = job.decision,
           n.terminal = "none" => job.terminal = "none",
           \A c \in Candidates : n.cand[c].draft = job.cand[c].draft
    PROVE  /\ Holds(n, side) /\ BestOf(n) = BestOf(job)
           /\ Needed(n) => Needed(job)
           /\ Fresh(n) <=> Fresh(job)
           /\ EnoughCompleted(n) <=> EnoughCompleted(job)
<1>1. job \in JobState /\ JobFits(job) /\ Guarded(job)
  BY CommandsFit DEF Inv, Fits, Holding, Holds
<1>2. /\ Handed(n) = Handed(job) /\ Completed(n) = Completed(job)
      /\ BestOf(n) = BestOf(job)
  BY <1>1, SameSets DEF BestOf
<1>3. EnoughCompleted(n) <=> EnoughCompleted(job)
  BY <1>2 DEF EnoughCompleted
<1>4. AllCompleted(n) <=> AllCompleted(job)
  BY <1>2 DEF AllCompleted
<1>5. Fresh(n) <=> Fresh(job)
  BY <1>2 DEF Fresh
<1>6. Needed(n) => Needed(job)
  <2>1. SUFFICES ASSUME Needed(n) PROVE Needed(job)
    OBVIOUS
  <2>2. BestOf(job) # None /\ BestOf(job) \in Candidates
    BY <1>1, <1>2, <2>1, BestResult DEF Needed
  <2>3. /\ n.cand[BestOf(job)].val = job.cand[BestOf(job)].val
        /\ n.cand[BestOf(job)].draft = job.cand[BestOf(job)].draft
    BY <2>2 DEF SameEvidence
  <2>4. QED
    BY <1>2, <2>1, <2>2, <2>3 DEF Needed
<1>7. Needed(n) /\ AllCompleted(n) => Fresh(n)
  BY <1>1, <1>4, <1>5, <1>6 DEF Guarded
<1>8. \A c \in Candidates :
        /\ n.cand[c].finalized = job.cand[c].finalized
        /\ n.cand[c].dev = job.cand[c].dev
        /\ n.cand[c].assessment = job.cand[c].assessment
  BY DEF SameEvidence
<1>9. Holds(n, side)
  BY <1>2, <1>3, <1>7, <1>8, SteadyHolds
<1>10. QED
  BY <1>2, <1>3, <1>5, <1>6, <1>9

LEMMA DecidesHold ==
    ASSUME Inv, Files, Holding, Decide \/ RetryDecide \/ FinDecide
    PROVE  Holding'
<1> DEFINE n == WithDevelopmentDecision(job)
<1>1. /\ proc \in Proc /\ JobFits(job) /\ proc.pc \notin Calling
  BY CommandsFit DEF Inv, Fits, Decide, RetryDecide, FinDecide, Pc, Calling
<1>2. Accepted(n) => n.mode = job.mode
  BY <1>1, DecisionSaved DEF Follows
<1>3. \/ Decide /\ Save(n, AfterDecision(n))
      \/ RetryDecide /\ Save(n, To("sweep"))
      \/ FinDecide /\ Save(n, AfterFinDecide(n))
  BY DEF Decide, RetryDecide, FinDecide
<1>4. ASSUME Quantitative(job), Accepted(n)
      PROVE  /\ Holds(n, side) /\ Fresh(n) /\ n.mode = job.mode
             /\ EnoughCompleted(job) => EnoughCompleted(n)
  BY <1>4, DecisionHolds DEF Steady
<1> HIDE DEF n
<1>5. CASE Save(n, AfterDecision(n))
  <2> DEFINE p == AfterDecision(n)
  <2>1. p.pc = "idle" \/ p.pc = "comment" \/ (p.pc = "sweep" /\ p.next = "idle")
    BY <1>1 DEF AfterDecision, Ended, To, Sweep, Proc
  <2> HIDE DEF p
  <2>2. Fresh(n) => HeldAt(n, p)
    BY <2>1 DEF HeldAt, Sweeping
  <2>3. QED
    BY <1>1, <1>2, <1>4, <1>5, <2>2, SaveHolds DEF p
<1>6. CASE RetryDecide /\ Save(n, To("sweep"))
  <2>1. /\ To("sweep").pc = "sweep" /\ To("sweep").next = proc.next
        /\ To("sweep").tried = proc.tried /\ proc.pc = "retryDecide"
    BY <1>1, <1>6 DEF To, Proc, RetryDecide, Pc
  <2>2. Quantitative(job) => HeldAt(job, proc)
    BY DEF Holding
  <2>3. Quantitative(job) /\ Accepted(n) => HeldAt(n, To("sweep"))
    BY <1>4, <2>1, <2>2 DEF HeldAt, Sweeping
  <2>4. QED
    BY <1>1, <1>2, <1>4, <1>6, <2>3, SaveHolds
<1>7. CASE Save(n, AfterFinDecide(n))
  <2> DEFINE prov == n.decision.prov
             known == [proc EXCEPT !.cand = prov,
                         !.pc = IF n.cand[prov].val = None THEN "validating"
                                                           ELSE "finalDecide"]
             project == [To("project") EXCEPT !.cand = prov]
  <2>1. known.pc \in {"validating", "finalDecide"} /\ project.pc = "project"
    BY <1>1 DEF To, Proc
  <2>2. Quantitative(n) => \/ AfterFinDecide(n) = known
                           \/ AfterFinDecide(n) = FinalComment(n, "bind")
                           \/ AfterFinDecide(n) = To("close")
                           \/ AfterFinDecide(n) = project
    BY DEF AfterFinDecide, Quantitative
  <2> HIDE DEF known, project
  <2>3. HeldAt(n, known) /\ HeldAt(n, project) /\ HeldAt(n, To("close"))
    BY <1>1, <2>1, PlainHeld, PlacesHeld DEF Sweeping
  <2>4. Fresh(n) => HeldAt(n, FinalComment(n, "bind"))
    BY <1>1, FinishHeld
  <2>5. Quantitative(job) /\ Accepted(n) => HeldAt(n, AfterFinDecide(n))
    BY <1>4, <2>2, <2>3, <2>4 DEF Quantitative
  <2>6. QED
    BY <1>1, <1>2, <1>4, <1>7, <2>5, SaveHolds
<1>8. QED
  BY <1>3, <1>5, <1>6, <1>7

LEMMA CommentHolds ==
    ASSUME Inv, Files, Holding, AfterTry \/ Comment
    PROVE  Holding'
<1>1. /\ job \in JobState /\ proc \in Proc /\ JobFits(job)
      /\ proc.pc \notin Calling /\ proc.pc \in {"afterTry", "comment"}
      /\ proc.cand \in Candidates /\ job.cand[proc.cand] \in Candidate
  BY CommandsFit, AtCandidate
  DEF Inv, Fits, AfterTry, Comment, Pc, Calling, OnCandidate
<1>2. Quantitative(job) => HeldAt(job, proc)
  BY DEF Holding
<1>3. CASE AfterTry
  <2>1. Continue(Ended) \/ Continue(To("comment"))
    BY <1>3 DEF AfterTry
  <2>2. To("comment").pc = "comment" /\ To("comment").tried = proc.tried
    BY <1>1 DEF To, Proc
  <2>3. Quantitative(job) => HeldAt(job, To("comment"))
    BY <1>2, <1>3, <2>2 DEF HeldAt, AfterTry, Pc, Sweeping
  <2>4. HeldAt(job, Ended)
    BY <1>1, PlacesHeld
  <2>5. QED
    BY <1>1, <2>1, <2>3, <2>4, MoveHolds
<1>4. CASE Comment
  <2> DEFINE c == proc.cand
             k == [job.cand[c] EXCEPT !.comment = TRUE]
             n == [job EXCEPT !.cand[c] = k]
             sweep == Sweep({c}, "idle")
             p == IF proc.tried THEN Ended ELSE sweep
  <2>1. Save(n, p) /\ proc.pc = "comment"
    BY <1>4 DEF Comment, Pc
  <2>2. k \in Candidate /\ k.draft = job.cand[c].draft
    BY <1>1 DEF Candidate
  <2>3. k = [job.cand[c] EXCEPT !.comment = TRUE] /\ n = [job EXCEPT !.cand[c] = k]
    OBVIOUS
  <2>4. sweep.pc = "sweep" /\ sweep.next = "idle"
    BY <1>1 DEF Sweep, Proc
  <2> HIDE DEF k, n, sweep
  <2>5. /\ n \in JobState /\ n.cand[c] = k /\ SameEnd(job, n)
        /\ \A d \in Candidates \ {c} : n.cand[d] = job.cand[d]
    BY <1>1, <2>2, <2>3, OneChanged
  <2>6. ASSUME Quantitative(job), Accepted(n) PROVE Holds(n, side) /\ HeldAt(n, p)
    <3>1. SameEvidence(job, n)
      BY <1>1, <2>2, <2>3, <2>6, ReceiptSaved
    <3>2. Holds(n, side) /\ (Fresh(job) => Fresh(n))
      BY <2>2, <2>5, <2>6, <3>1, EvidenceHolds DEF SameEnd
    <3>3. ~proc.tried => Fresh(n)
      BY <1>2, <2>1, <2>6, <3>2 DEF HeldAt
    <3>4. HeldAt(n, Ended)
      BY <1>1, PlacesHeld
    <3>5. QED
      BY <2>4, <3>2, <3>3, <3>4, SweepHeld
  <2>7. QED
    BY <1>1, <2>1, <2>5, <2>6, SaveHolds DEF SameEnd
<1>5. QED
  BY <1>3, <1>4

\* A sweep that goes on meets no more than it was to meet.
LEMMA OnwardHeld ==
    ASSUME NEW j, NEW n, HeldAt(j, proc), proc.pc \in {"sweep", "sweeping"},
           BestOf(n) = BestOf(j), Needed(n) => Needed(j), Fresh(j) => Fresh(n),
           EnoughCompleted(j) => EnoughCompleted(n),
           NEW p, p.tried = proc.tried, p.todo \subseteq proc.todo,
           \/ p.pc \in {"sweep", "sweeping"} /\ p.next = proc.next
           \/ p.pc = proc.next /\ proc.next \in Resting
    PROVE  HeldAt(n, p)
BY DEF HeldAt, Sweeping, Resting

LEMMA SweepStepHolds ==
    ASSUME Inv, Files, Holding, SweepStep
    PROVE  Holding'
<1> DEFINE c == Least(proc.todo)
           r == side[c]
           draft == job.cand[c].draft
           f == R!EnterCleanup(draft, Retained)
<1>1. /\ proc \in Proc /\ proc.pc = "sweep" /\ proc.next \in Resting
      /\ proc.pc \notin Calling
      /\ proc.todo # {} => c \in proc.todo
  BY CommandsFit, InSweep DEF Inv, SweepStep, Pc, Sweeping, Calling
<1>2. Quantitative(job) => HeldAt(job, proc) /\ Holds(job, side)
  BY DEF Holding
<1>3. CASE proc.todo = {}
  <2> DEFINE p == [proc EXCEPT !.pc = proc.next]
  <2>1. Continue(p)
    BY <1>3 DEF SweepStep
  <2>2. p.pc = proc.next /\ p.todo = proc.todo /\ p.tried = proc.tried
    BY <1>1 DEF Proc
  <2> HIDE DEF p
  <2>3. QED
    BY <1>1, <1>2, <2>1, <2>2, OnwardHeld, MoveHolds
<1>4. CASE proc.todo # {} /\ c \notin PendingCleanups(job)
  <2> DEFINE p == [proc EXCEPT !.todo = @ \ {c}]
  <2>1. Continue(p)
    BY <1>4 DEF SweepStep
  <2>2. /\ p.pc = "sweep" /\ p.todo \subseteq proc.todo /\ p.next = proc.next
        /\ p.tried = proc.tried
    BY <1>1 DEF Proc
  <2> HIDE DEF p
  <2>3. QED
    BY <1>1, <1>2, <2>1, <2>2, OnwardHeld, MoveHolds
<1>5. CASE proc.todo # {} /\ c \in PendingCleanups(job)
  <2>1. Invoke(f, To("sweeping"))
    BY <1>5 DEF SweepStep
  <2>2. c \in Candidates /\ draft # None
    BY <1>5 DEF PendingCleanups, Handed
  <2>3. /\ To("sweeping").pc = "sweeping" /\ To("sweeping").todo = proc.todo
        /\ To("sweeping").next = proc.next /\ To("sweeping").tried = proc.tried
    BY <1>1 DEF To, Proc
  <2>4. Quantitative(job) => HeldAt(job, To("sweeping"))
    BY <1>1, <1>2, <2>3, OnwardHeld
  <2>5. ASSUME Quantitative(job) PROVE FrameHeld(job, f, side)
    <3>1. /\ Matches(job, side, c)
          /\ \A d, e \in DOMAIN side : side[d].draft = side[e].draft => d = e
      BY <2>2, RuntimeFacts DEF Inv, Files, Agree
    <3>2. c \in DOMAIN side /\ r.draft = draft
      BY <2>2, <3>1 DEF Matches
    <3>3. R!Owners(draft) = {c}
      BY <3>1, <3>2 DEF R!Owners
    <3>4. (CHOOSE x \in R!Owners(draft) : TRUE) = c
      BY <3>3
    <3>5. f = IF r.receipt THEN R!Finished("cleanup", c, draft, "cleaned")
              ELSE IF c \in Retained THEN R!Finished("cleanup", c, draft, "failed")
              ELSE IF ~r.ref THEN R!Finished("cleanup", c, draft, "raised")
              ELSE R!Frame("cleanup", c, "delete", draft)
      BY <3>3, <3>4 DEF R!EnterCleanup
    <3>6. r.receipt \/ r.ref
      BY <3>2, RecordFacts DEF Inv
    <3> HIDE DEF f
    <3>7. /\ f.op = "cleanup" /\ f.cand = c
          /\ \/ f.step = "done" /\ f.status \in {"cleaned", "failed"}
             \/ f.step = "delete" /\ c \notin Retained
      BY <3>5, <3>6, FrameFields
    <3>8. ASSUME job.terminal = "none", c = BestOf(job), c \notin Retained
          PROVE  r.val # None
      <4>1. c # None
        BY <2>2, Numbers
      <4>2. r.val = None => Needed(job)
        BY <2>2, <3>1, <3>8, <4>1 DEF Needed, Matches
      <4>3. Needed(job) => Fresh(job)
        BY <1>1, <1>2, <1>5, <2>5, <3>8 DEF HeldAt
      <4>4. Fresh(job) => c \in Retained
        BY <3>8, <4>1 DEF Fresh, Retained
      <4>5. QED
        BY <3>8, <4>2, <4>3, <4>4
    <3>9. QED
      BY <2>2, <3>7, <3>8 DEF FrameHeld
  <2> HIDE DEF f
  <2>6. QED
    BY <2>1, <2>4, <2>5, InvokeHolds
<1>6. QED
  BY <1>3, <1>4, <1>5

LEMMA SweptHolds ==
    ASSUME Inv, Files, Holding, Swept
    PROVE  Holding'
<1> DEFINE c == Least(proc.todo)
           rest == [To("sweep") EXCEPT !.todo = @ \ {c}]
           again == [rest EXCEPT !.pc = "retryDecide"]
           phase == side[call.cand].retry
           k == [job.cand[c] EXCEPT !.cleaned = TRUE]
           n == [job EXCEPT !.cand[c] = k]
           m == WithRetry(job, c, phase)
<1>1. /\ job \in JobState /\ JobFits(job) /\ proc \in Proc
      /\ proc.pc = "sweeping" /\ Quantitative(job) /\ call.step = "done"
      /\ proc.todo \subseteq Handed(job) /\ c \in proc.todo
      /\ call.cand = c
  BY CommandsFit, InSweep
  DEF Inv, Swept, Pc, Returned, Files, CallingFits, Fits, Sweeping, ForFoundry,
      Calling
<1>2. c \in Handed(job) /\ c \in Candidates /\ job.cand[c] \in Candidate
  BY <1>1 DEF Handed, JobState
<1>3. k \in Candidate /\ k.draft = job.cand[c].draft
  BY <1>2 DEF Candidate
<1>4. /\ rest.pc = "sweep" /\ rest.todo \subseteq proc.todo
      /\ rest.next = proc.next /\ rest.tried = proc.tried
      /\ again.pc = "retryDecide" /\ again.next = proc.next
      /\ again.tried = proc.tried
  BY <1>1 DEF To, Proc
<1>5. \/ DropResult(Ended) \/ DropResult(rest)
      \/ /\ call.status = "cleaned" /\ phase # "none"
         /\ job.terminal \in {"none", "platform_failure"}
         /\ SaveResult(m, again)
      \/ SaveResult(n, rest)
  BY DEF Swept, Returned
<1>6. k = [job.cand[c] EXCEPT !.cleaned = TRUE] /\ n = [job EXCEPT !.cand[c] = k]
  OBVIOUS
<1>7. HeldAt(job, proc)
  BY <1>1 DEF Holding
<1> HIDE DEF n, k, rest, again
<1>8. CASE DropResult(Ended) \/ DropResult(rest)
  BY <1>1, <1>4, <1>7, <1>8, PlacesHeld, OnwardHeld, MoveHolds
<1>9. CASE SaveResult(n, rest)
  <2>1. /\ n \in JobState /\ n.cand[c] = k /\ SameEnd(job, n)
        /\ \A d \in Candidates \ {c} : n.cand[d] = job.cand[d]
    BY <1>1, <1>2, <1>3, <1>6, OneChanged
  <2>2. ASSUME Accepted(n) PROVE Holds(n, side) /\ HeldAt(n, rest)
    <3>1. SameEvidence(job, n)
      BY <1>1, <1>2, <1>3, <1>6, <2>2, ReceiptSaved
    <3>2. /\ Holds(n, side) /\ BestOf(n) = BestOf(job)
          /\ Needed(n) => Needed(job)
          /\ Fresh(n) <=> Fresh(job)
          /\ EnoughCompleted(n) <=> EnoughCompleted(job)
      BY <1>1, <1>3, <2>1, <3>1, EvidenceHolds DEF SameEnd
    <3>3. HeldAt(n, rest)
      BY <1>1, <1>4, <1>7, <3>2, OnwardHeld
    <3>4. QED
      BY <3>2, <3>3
  <2>3. QED
    BY <1>9, <2>1, <2>2, SaveHolds DEF SameEnd
<1>10. CASE /\ call.status = "cleaned" /\ phase # "none"
            /\ job.terminal \in {"none", "platform_failure"}
            /\ SaveResult(m, again)
  <2>1. c \in DOMAIN side
    BY <1>1, <1>10 DEF Files, HoldFits, ReturnsFit
  <2>2. phase = side[c].retry /\ phase \in {"candidate", "validating"}
    BY <1>1, <1>10, <2>1, RecordFacts DEF Inv, R!Sidecar, R!Retries
  <2> HIDE DEF phase
  <2>3. Accepted(m) => /\ Holds(m, side) /\ m.mode = job.mode
                       /\ EnoughCompleted(job) => EnoughCompleted(m)
    BY <1>1, <1>2, <1>10, <2>1, <2>2, RetryHolds
  <2> HIDE DEF m
  <2>4. Accepted(m) => HeldAt(m, again)
    BY <1>1, <1>4, <1>7, <2>3 DEF HeldAt, Sweeping
  <2>5. QED
    BY <1>10, <2>3, <2>4, SaveHolds
<1>11. QED
  BY <1>5, <1>8, <1>9, <1>10

LEMMA EntryHolds ==
    ASSUME Inv, Files, Holding, EntryOfCli \/ EntryOfController
    PROVE  Holding'
<1> DEFINE project == [To("project") EXCEPT !.cand = job.decision.selected]
<1>1. proc \in Proc /\ proc.pc \notin Calling
  BY CommandsFit DEF Inv, EntryOfCli, EntryOfController, Pc, Calling
<1>2. project.pc = "project"
  BY <1>1 DEF To, Proc
<1>3. \/ \E pc \in {"bindVerify", "finDecide", "close"} : Continue(To(pc))
      \/ Continue(Ended) \/ Continue(project)
      \/ /\ job.terminal # "none"
         /\ \/ Continue(ControllerFinish(job))
            \/ \E next : Continue(FinalComment(job, next))
  <2>1. CASE EntryOfCli
    BY <2>1 DEF EntryOfCli
  <2>2. CASE EntryOfController
    BY <2>2 DEF EntryOfController, ResumeTerminal
  <2>3. QED
    BY <2>1, <2>2
<1> HIDE DEF project
<1>4. /\ HeldAt(job, project) /\ HeldAt(job, Ended)
      /\ \A pc \in {"bindVerify", "finDecide", "close"} : HeldAt(job, To(pc))
  BY <1>1, <1>2, PlainHeld, PlacesHeld DEF Sweeping
<1>5. job.terminal # "none" =>
        /\ HeldAt(job, ControllerFinish(job))
        /\ \A next : HeldAt(job, FinalComment(job, next))
  BY <1>1, FinishHeld DEF Needed
<1>6. QED
  BY <1>1, <1>3, <1>4, <1>5, MoveHolds

LEMMA ValidateHolds ==
    ASSUME Inv, Files, Bests, Holding, Validate \/ AfterFailure
    PROVE  Holding'
<1>1. /\ proc \in Proc /\ JobFits(job) /\ Quantitative(job)
      /\ proc.pc \notin Calling
      /\ Holds(job, side) /\ HeldAt(job, proc)
  BY CommandsFit
  DEF Inv, Fits, CommandFits, ControlFits, ForFoundry, Validate, AfterFailure, Pc,
      Calling, Holding
<1>2. CASE Validate
  <2> DEFINE c == proc.cand
             r == side[c]
             f == R!EnterValidating(c)
  <2>1. Invoke(f, To("validated")) /\ proc.pc = "validating"
    BY <1>2 DEF Validate, Pc
  <2>2. /\ job.terminal = "none" /\ c \in Candidates /\ c = BestOf(job)
        /\ c # None
    BY <1>1, <2>1, AtDeciding, Numbers
    DEF Inv, Deciding, Handed, Bests, RoundFits
  <2>3. job.cand[c].dev # None /\ Matches(job, side, c)
    BY <1>1, <2>2, BestResult DEF Files, Agree
  <2>4. /\ c \in DOMAIN side /\ r.dev # None
        /\ r.val = None => r.ref \/ r.retry = "validating"
    BY <1>1, <2>2, <2>3 DEF Matches, Holds, BestHeld
  <2>5. r.ref \/ r.receipt
    BY <2>4, RecordFacts DEF Inv
  <2>6. /\ f.op = "validating" /\ f.cand = c
        /\ \/ f.step = "done" /\ f.status = "ok"
           \/ f.step \in {"create", "verify"}
           \/ f.step = "retryDelete" /\ r.cleanupRequired
    BY <2>4, <2>5, FrameFields DEF R!EnterValidating, None
  <2> HIDE DEF f
  <2>7. FrameHeld(job, f, side)
    BY <2>6 DEF FrameHeld
  <2>8. HeldAt(job, To("validated"))
    BY <1>1, PlacesHeld DEF Sweeping
  <2>9. QED
    BY <2>1, <2>7, <2>8, InvokeHolds
<1>3. CASE AfterFailure
  <2>1. /\ Continue(LastSweep(job)) \/ Continue(FinalComment(job, "idle"))
        /\ proc.pc = "afterFailure"
    BY <1>3 DEF AfterFailure, Pc
  <2>2. Needed(job) => Fresh(job)
    BY <1>1, <2>1, NeededFresh DEF HeldAt, Holds
  <2>3. QED
    BY <1>1, <2>1, <2>2, FinishHeld, MoveHolds
<1>4. QED
  BY <1>2, <1>3

\* The end of a validating run: its result, or its failure, is stored.
LEMMA ValidatedHolds ==
    ASSUME Inv, Files, Bests, Holding, ValidatedByCli \/ ValidatedByController
    PROVE  Holding'
<1> DEFINE c == proc.cand
           o == job.cand[c]
           n == [job EXCEPT !.cand[c].val = side[c].val]
           m == [job EXCEPT !.cand[c].val = side[c].val, !.cand[c].draft = call.draft]
           again == [To("retryDecide") EXCEPT !.todo = Handed(job), !.next = "idle"]
           sweep == Sweep({c}, "afterFailure")
           r == WithRetry(job, c, "validating")
           f(draft) == WithValidatingFailure(job, draft)
<1>1. proc.pc = "validated" /\ call.step = "done"
  BY DEF ValidatedByCli, ValidatedByController, Pc, Returned
<1>2. /\ job \in JobState /\ proc \in Proc /\ c \in Candidates /\ o \in Candidate
      /\ c \in Handed(job) /\ JobFits(job) /\ Quantitative(job) /\ AllCompleted(job)
      /\ job.decision.prov = c /\ c = BestOf(job) /\ EnoughCompleted(job)
      /\ job.terminal = "none"
  BY <1>1, AtResult
<1>3. call.draft \in R!Versions \cup {None} /\ None \in R!Versions \cup {None}
  BY ResultTypes
<1>4. /\ call.status = "ok" => side[c].val # None
      /\ call.status = "retry" => c \in DOMAIN side /\ side[c].retry = "validating"
  <2>1. FrameHeld(job, call, side) /\ call.cand = c /\ call.op = "validating"
    BY <1>1, <1>2 DEF Holding, Inv, FrameFits, Files, CallingFits
  <2>2. QED
    BY <1>1, <2>1, AtValidated DEF FrameHeld
<1>5. \/ DropResult(Ended)
      \/ /\ call.status = "ok"
         /\ SaveResult(n, To("finalDecide")) \/ SaveResult(m, To("finalDecide"))
      \/ call.status = "retry" /\ SaveResult(r, again)
      \/ \E draft \in R!Versions \cup {None} :
            \/ SaveResult(f(draft), FinalComment(f(draft), "idle"))
            \/ SaveResult(f(draft), sweep)
  <2> HIDE DEF n, m, again, r, f, sweep
  <2>1. CASE ValidatedByCli
    BY <1>3, <2>1 DEF ValidatedByCli, Returned, n, f
  <2>2. CASE ValidatedByController
    BY <1>3, <2>2 DEF ValidatedByController, Returned, m, again, r, f, sweep
  <2>3. QED
    BY <2>1, <2>2
<1>6. /\ again.pc = "retryDecide" /\ again.next = "idle"
      /\ sweep.pc = "sweep" /\ sweep.next = "afterFailure"
  BY <1>2 DEF To, Sweep, Proc
<1> HIDE DEF again, sweep
<1>7. ASSUME NEW l, l \in {n, m}, side[c].val # None
      PROVE  l.mode = job.mode /\ Holds(l, side)
  <2> DEFINE k == [o EXCEPT !.val = side[c].val]
             k2 == [o EXCEPT !.val = side[c].val, !.draft = call.draft]
  <2>1. /\ n.cand = [job.cand EXCEPT ![c] = k] /\ m.cand = [job.cand EXCEPT ![c] = k2]
        /\ l.mode = job.mode /\ l.terminal = job.terminal
    BY <1>2, <1>7 DEF JobState
  <2>2. \A e \in {k, k2} : /\ e.handed = o.handed /\ e.dev = o.dev
                          /\ e.assessment = o.assessment /\ e.checks = o.checks
                          /\ e.finalized = o.finalized /\ e.val = side[c].val
    BY <1>2 DEF Candidate
  <2> HIDE DEF n, m, o, k, k2
  <2>3. PICK e \in {k, k2} : l.cand = [job.cand EXCEPT ![c] = e]
    BY <1>7, <2>1
  <2>4. l.cand[c] = e /\ \A d \in Candidates \ {c} : l.cand[d] = job.cand[d]
    BY <1>2, <2>3 DEF JobState
  <2>5. \A d \in Candidates :
          /\ l.cand[d].handed = job.cand[d].handed
          /\ l.cand[d].finalized = job.cand[d].finalized
          /\ l.cand[d].assessment = job.cand[d].assessment
          /\ l.cand[d].dev = job.cand[d].dev
          /\ l.cand[d].checks = job.cand[d].checks
    BY <2>2, <2>4 DEF o
  <2>6. Handed(l) = Handed(job)
    BY <2>5 DEF Handed
  <2>7. BestOf(l) = BestOf(job) /\ EnoughCompleted(l)
    BY <1>2, <2>5, <2>6, SameBestOf, SameCompleted DEF Handed
  <2>8. ~Needed(l)
    BY <1>2, <1>7, <2>2, <2>4, <2>7 DEF Needed
  <2>9. Holds(l, side)
    BY <1>2, <2>1, <2>5, <2>6, <2>7, <2>8, SteadyHolds
  <2>10. QED
    BY <2>1, <2>9
<1>8. ASSUME NEW draft \in R!Versions \cup {None}, Accepted(f(draft))
      PROVE  LET l == f(draft) IN
             /\ l.mode = job.mode /\ Holds(l, side)
             /\ HeldAt(l, FinalComment(l, "idle")) /\ HeldAt(l, sweep)
  <2> DEFINE l == f(draft)
  <2>1. Follows(job, l) /\ Handed(l) = Handed(job) /\ l.terminal = "platform_failure"
    BY <1>2, <1>8, FailureSaved
  <2>2. AllCompleted(l) /\ l.mode = job.mode
    BY <2>1 DEF Follows, JobFits
  <2>3. /\ l.cand[c].dev = o.dev /\ l.cand[c].assessment = o.assessment
        /\ \A d \in Candidates \ {c} : l.cand[d] = job.cand[d]
    BY <1>2, FailureFields
  <2>4. l.cand[c].finalized = o.finalized
    BY <1>2 DEF WithValidatingFailure, JobState, Candidate
  <2> HIDE DEF l
  <2>5. \A d \in Candidates :
          /\ l.cand[d].finalized = job.cand[d].finalized
          /\ l.cand[d].assessment = job.cand[d].assessment
          /\ l.cand[d].dev = job.cand[d].dev
    BY <2>3, <2>4
  <2>6. EnoughCompleted(l) /\ BestOf(l) = BestOf(job)
    BY <1>1, <2>1, <2>2, <2>5, ResultEnds DEF Handed
  <2>7. ~Needed(l)
    BY <2>1 DEF Needed
  <2>8. Holds(l, side)
    BY <1>2, <2>1, <2>5, <2>6, <2>7, SteadyHolds
  <2>9. HeldAt(l, FinalComment(l, "idle")) /\ HeldAt(l, sweep)
    BY <1>2, <1>6, <2>6, <2>7, FinishHeld DEF HeldAt
  <2>10. QED
    BY <2>2, <2>8, <2>9 DEF l
<1>9. HeldAt(job, Ended) /\ \A j : HeldAt(j, To("finalDecide"))
  BY <1>2, PlacesHeld DEF Sweeping
<1>10. CASE DropResult(Ended)
  BY <1>9, <1>10, MoveHolds
<1>11. CASE /\ call.status = "ok"
            /\ SaveResult(n, To("finalDecide")) \/ SaveResult(m, To("finalDecide"))
  <2> HIDE DEF n, m
  <2>1. QED
    BY <1>4, <1>7, <1>9, <1>11, SaveHolds
<1>12. CASE call.status = "retry" /\ SaveResult(r, again)
  <2>1. c \in DOMAIN side /\ side[c].retry = "validating"
    BY <1>4, <1>12
  <2>2. Accepted(r) => Holds(r, side) /\ r.mode = job.mode
    BY <1>2, <2>1, RetryHolds
  <2> HIDE DEF r
  <2>3. HeldAt(r, again)
    BY <1>6 DEF HeldAt
  <2>4. QED
    BY <1>12, <2>2, <2>3, SaveHolds
<1>13. ASSUME NEW draft \in R!Versions \cup {None},
              \/ SaveResult(f(draft), FinalComment(f(draft), "idle"))
              \/ SaveResult(f(draft), sweep)
       PROVE  Holding'
  <2> HIDE DEF f
  <2>1. QED
    BY <1>8, <1>13, SaveHolds
<1>14. QED
  BY <1>5, <1>10, <1>11, <1>12, <1>13

LEMMA FinalDecideHolds ==
    ASSUME Inv, Files, Bests, Tells, Holding, FinalDecide
    PROVE  Holding'
<1> DEFINE n == WithFinalDecision(job)
           p == IF proc.by = "cli"
                THEN IF n.terminal = "winner" THEN To("bindVerify")
                     ELSE FinalComment(n, "bind")
                ELSE IF n.terminal = "winner" THEN To("project") ELSE To("close")
<1>1. proc.pc = "finalDecide" /\ proc.pc \in Deciding /\ proc.pc \notin Calling
  BY DEF FinalDecide, Pc, Deciding, Calling
<1>2. /\ proc \in Proc /\ JobFits(job) /\ AllCompleted(job) /\ Quantitative(job)
      /\ proc.cand # None
  BY <1>1, CommandsFit, AtDeciding, Numbers DEF Inv, Fits, Handed
<1>3. /\ EnoughCompleted(job) /\ job.terminal = "none"
      /\ job.decision.prov = proc.cand /\ proc.cand = BestOf(job)
      /\ proc.cand \in Candidates
  BY <1>1, UntoldResult
<1>4. Save(n, p)
  BY <1>3 DEF FinalDecide, BestOf
<1>5. n.terminal # "none" /\ BestOf(n) = BestOf(job) /\ Handed(n) = Handed(job)
  BY <1>2, <1>3, FinalSets
<1>6. \A c \in Candidates :
        /\ n.cand[c].finalized = job.cand[c].finalized
        /\ job.cand[c].dev = None => n.cand[c].assessment = job.cand[c].assessment
  BY <1>2, <1>3, FinalTold
<1>7. Retains(job, n)
  BY <1>2, <1>3, FinalRetained DEF BestOf
<1>8. Accepted(n) => AllCompleted(n) /\ n.mode = job.mode
  BY <1>2, <1>3, FinalSaved DEF BestOf, Follows
<1> HIDE DEF n
<1>9. ~Needed(n)
  BY <1>5 DEF Needed
<1>10. ASSUME Accepted(n) PROVE Holds(n, side)
  <2>1. EnoughCompleted(n)
    BY <1>2, <1>3, <1>5, <1>8, <1>10, StillEnough
  <2>2. QED
    BY <1>2, <1>5, <1>6, <1>7, <1>9, <2>1, SteadyHolds DEF Retains
<1>11. HeldAt(n, p)
  <2>1. /\ HeldAt(n, To("bindVerify")) /\ HeldAt(n, To("project"))
        /\ HeldAt(n, To("close"))
    BY <1>2, PlacesHeld DEF Sweeping
  <2>2. HeldAt(n, FinalComment(n, "bind"))
    BY <1>2, <1>9, FinishHeld
  <2>3. QED
    BY <2>1, <2>2
<1> HIDE DEF p
<1>12. QED
  BY <1>1, <1>4, <1>8, <1>10, <1>11, SaveHolds

\* A save that leaves the candidates and the decision.
LEMMA EndHolds ==
    ASSUME Inv, Holding, Quantitative(job), NEW n, n.cand = job.cand,
           n.mode = job.mode, n.decision = job.decision,
           n.terminal = "none" => job.terminal = "none",
           Needed(job) => Fresh(job)
    PROVE  /\ Holds(n, side) /\ HeldAt(n, LastSweep(n))
           /\ \A next : HeldAt(n, FinalComment(n, next))
<1>1. job \in JobState /\ proc \in Proc
  BY CommandsFit DEF Inv, Fits, JobFits
<1>2. Handed(n) = Handed(job) /\ BestOf(n) = BestOf(job)
  BY <1>1, SameCandidates DEF Handed
<1>3. EnoughCompleted(job) => EnoughCompleted(n)
  BY <1>2 DEF EnoughCompleted, Completed
<1>4. Needed(n) => Fresh(n)
  BY <1>2 DEF Needed, Fresh
<1>5. Holds(n, side)
  BY <1>2, <1>3, <1>4, SteadyHolds
<1>6. QED
  BY <1>1, <1>4, <1>5, FinishHeld

\* The effects outside the two files, and their receipts.
LEMMA EffectsHold ==
    ASSUME Inv, Files, Bests, Tells, Holding, EffectStep
    PROVE  Holding'
<1> DEFINE n == [job EXCEPT !.finalReceipt = TRUE]
           m == [job EXCEPT !.projection = proc.cand, !.terminal = ProjectedOutcome]
           l == [job EXCEPT !.closure = TRUE, !.terminal = "no_winner"]
           commenting == PostFinal \/ SidecarFinal \/ StoreFinal
<1>1. /\ proc \in Proc /\ job \in JobState /\ JobFits(job) /\ Fits
      /\ proc.pc \notin Calling /\ InFinish(proc)
      /\ proc.pc \in Finishing \cup Commenting \cup {"bind", "bindVerify"}
  BY CommandsFit
  DEF Inv, Fits, JobFits, EffectStep, PostFinal, SidecarFinal, StoreFinal, Bind,
      Project, StoreProjection, Close, StoreClosure, Pc, Calling, InFinish,
      Finishing, Deciding, Commenting
<1>2. EnoughCompleted(job)
  BY <1>1, InFinishing
<1>3. Quantitative(job) => (Needed(job) => Fresh(job))
  BY <1>1, <1>2, NeededFresh DEF Holding, Holds
<1>4. /\ \A pc \in {"sidecarFinal", "storeFinal", "storeProjection", "storeClosure"} :
           HeldAt(job, To(pc))
      /\ HeldAt(job, Ended)
  BY <1>1, PlacesHeld DEF Sweeping
<1>5. Quantitative(job) => HeldAt(job, ControllerFinish(job))
  BY <1>1, <1>3, FinishHeld
<1>6. ASSUME UNCHANGED <<side, call, job>>, Quantitative(job) => HeldAt(job, proc')
      PROVE  Holding'
  BY <1>6 DEF Holding
<1>7. ASSUME NEW k \in {n, m, l}, k.terminal = "none" => job.terminal = "none",
             NEW next, Save(k, FinalComment(k, next))
      PROVE  Holding'
  <2>1. k.cand = job.cand /\ k.mode = job.mode /\ k.decision = job.decision
    BY <1>1, <1>7 DEF JobState
  <2> HIDE DEF n, m, l
  <2>2. Quantitative(job) => Holds(k, side) /\ HeldAt(k, FinalComment(k, next))
    BY <1>3, <1>7, <2>1, EndHolds
  <2>3. QED
    BY <1>1, <1>7, <2>1, <2>2, SaveHolds
<1>8. n.terminal = job.terminal /\ l.terminal = "no_winner"
  BY <1>1 DEF JobState
<1>9. CASE PostFinal \/ SidecarFinal
  BY <1>4, <1>6, <1>9 DEF PostFinal, SidecarFinal, runtime
<1>10. CASE StoreFinal
  BY <1>7, <1>8, <1>10 DEF StoreFinal
<1>11. CASE Bind
  BY <1>4, <1>5, <1>6, <1>11 DEF Bind, runtime
<1>12. CASE Project
  <2>1. job.projection = None
    BY <1>1, <1>12, AtProject DEF Project, Pc
  <2>2. Continue(Ended) \/ (UNCHANGED <<side, call, job>> /\ proc' = To("storeProjection"))
    BY <1>12, <2>1 DEF Project, runtime
  <2>3. QED
    BY <1>1, <1>4, <1>6, <2>2, MoveHolds
<1>13. CASE StoreProjection
  <2>1. m.terminal # "none"
    <3>1. ProjectedOutcome \in Positive
      BY <1>1, <1>13, AtProject DEF StoreProjection, Pc
    <3>2. QED
      BY <1>1, <3>1 DEF JobState, Positive
  <2>2. Save(m, FinalComment(m, "idle"))
    BY <1>13 DEF StoreProjection
  <2> HIDE DEF m
  <2>3. QED
    BY <1>7, <2>1, <2>2
<1>14. CASE Close
  <2>1. ~job.closure
    BY <1>1, <1>14, AtClose DEF Close, Pc
  <2>2. Continue(Ended) \/ (UNCHANGED <<side, call, job>> /\ proc' = To("storeClosure"))
    BY <1>14, <2>1 DEF Close, runtime
  <2>3. QED
    BY <1>1, <1>4, <1>6, <2>2, MoveHolds
<1>15. CASE StoreClosure
  BY <1>7, <1>8, <1>15 DEF StoreClosure
<1>16. QED
  BY <1>9, <1>10, <1>11, <1>12, <1>13, <1>14, <1>15 DEF EffectStep

\* The steps of the runtime, and those of the world.
LEMMA OutsideHolds ==
    ASSUME Inv, Files, Bests, Holding,
           \/ RuntimeWork \/ RuntimeFault \/ Interrupt
           \/ OpenPullRequest \/ BindPr \/ UNCHANGED vars
    PROVE  Holding'
<1>1. CASE RuntimeWork \/ RuntimeFault
  BY <1>1, WorkKeepsHolding DEF RuntimeWork, RuntimeFault
<1>2. CASE Interrupt
  <2>1. side' = side /\ call' = R!Idle /\ job' = job /\ proc' = Ended
    BY <1>2 DEF Interrupt, R!Abort, runtime
  <2>2. HeldAt(job, Ended) /\ FrameHeld(job, R!Idle, side)
    BY DEF HeldAt, FrameHeld, R!Idle, Ended, Sweeping
  <2>3. QED
    BY <2>1, <2>2 DEF Holding
<1>3. CASE OpenPullRequest \/ BindPr \/ UNCHANGED vars
  <2>1. UNCHANGED <<side, call, job, proc>>
    BY <1>3 DEF OpenPullRequest, BindPr, vars, runtime
  <2>2. QED
    BY <2>1 DEF Holding
<1>4. QED
  BY <1>1, <1>2, <1>3

LEMMA NextHolds ==
    ASSUME Guided, Inv, Files, Bests, Tells, Holding, [Next]_vars
    PROVE  Holding'
<1>1. CASE Command
  BY <1>1, CommandHolds
<1>2. CASE CompleteStep
  BY <1>2, FinalizeHolds, EvaluateHolds, EvaluatedHolds, DecidesHold, CommentHolds
  DEF CompleteStep
<1>3. CASE SweepSteps
  BY <1>3, SweepStepHolds, SweptHolds, DecidesHold DEF SweepSteps
<1>4. CASE FinishStep
  BY <1>4, EntryHolds, DecidesHold, ValidateHolds, ValidatedHolds, FinalDecideHolds
  DEF FinishStep
<1>5. CASE EffectStep
  BY <1>5, EffectsHold
<1>6. QED
  BY <1>1, <1>2, <1>3, <1>4, <1>5, OutsideHolds DEF Next, CommandStep

LEMMA InitialHolding == Init => Holding
<1> SUFFICES ASSUME Init PROVE Holding
  OBVIOUS
<1>1. side = [c \in {} |-> R!FreshSidecar(1)] /\ call = R!Idle /\ proc = Ended
  BY DEF Init, R!Init
<1>2. HeldAt(job, proc) /\ FrameHeld(job, call, side)
  BY <1>1 DEF HeldAt, FrameHeld, R!Idle, Ended, Sweeping
<1>3. \A c \in Candidates : ~job.cand[c].handed /\ job.cand[c].dev = None
  BY DEF Init, NewCandidate
<1>4. BestOf(job) = None
  BY <1>3 DEF BestOf, Best, Eligible, Handed
<1>5. Holds(job, side)
  BY <1>1, <1>3, <1>4 DEF Holds, RecordsHeld, BestHeld, Guarded, Needed
<1>6. QED
  BY <1>2, <1>5 DEF Holding

LEMMA HoldingInductive == Guided => (Spec => []Holding)
<1> SUFFICES ASSUME Guided PROVE Spec => []Holding
  OBVIOUS
<1>1. Inv /\ Files /\ Bests /\ Tells /\ Holding /\ [Next]_vars => Holding'
  BY NextHolds
<1>2. QED
  BY <1>1, InitialHolding, Inductive, FilesInductive, BestsInductive, TellsInductive,
     PTL DEF Spec

-----------------------------------------------------------------------------
(* The theorems.                                                           *)

\* A guided agent's settled job: the final comment on the issue shows the
\* recorded decision, and that decision explains the terminal outcome.
THEOREM FinalCommentTrue == Guided => (Spec => []FinalCommentIsTrue)
<1> SUFFICES ASSUME Guided PROVE Spec => []FinalCommentIsTrue
  OBVIOUS
<1>1. Tells => FinalCommentIsTrue
  BY DEF Tells, Told, FinalCommentIsTrue, Settled, SideEffectsComplete
<1>2. QED
  BY <1>1, TellsInductive, PTL

\* No call the controller makes for a guided agent is refused by the runtime:
\* each finds the draft and the record it needs, the validating run included.
THEOREM NeverRefused == Guided => (Spec => []RuntimeNeverRefuses)
<1> SUFFICES ASSUME Guided PROVE Spec => []RuntimeNeverRefuses
  OBVIOUS
<1>1. Inv /\ Files /\ Bests /\ Holding => RuntimeNeverRefuses
  BY AtRuntime DEF Holding, FrameHeld, RuntimeNeverRefuses
<1>2. QED
  BY <1>1, HoldingInductive, Inductive, FilesInductive, BestsInductive, PTL
=============================================================================
