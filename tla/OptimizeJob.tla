----------------------------- MODULE OptimizeJob -----------------------------
(***************************************************************************)
(* An optimize job after `job start': the commands handoff, complete and  *)
(* finish (cli.py) over OptimizeJobController (poc/controller.py), its    *)
(* state file (poc/state.py), the Foundry runtime (DraftRuntime), the     *)
(* issue and the pull request behind the broker, and the checkout the     *)
(* winning patch is applied to.                                           *)
(*                                                                         *)
(* The state file, the sidecar file, Foundry, the issue, the pull request *)
(* and the checkout are six places no transaction spans.  A command is a  *)
(* sequence of steps, each of which changes one of them, and it can end   *)
(* between any two: a crash, or an exception that ends the command, loses *)
(* `proc' and `call' and nothing else.                                     *)
(***************************************************************************)
EXTENDS Integers, FiniteSets

CONSTANTS
    Candidates,     \* candidate ids the agent may hand off
    Summaries,      \* evaluation results: a higher one ranks better
    Viable,         \* development results that meet the decision rules
    Unsuccessful,   \* development results of a run that did not succeed
    Passing,        \* validating results that pass
    JobModes,       \* verification modes a job may have been started with
    MinCandidates,  \* identity.min_candidates, which is also the budget
    Guided,         \* does the agent follow next_action?
    MaxVersion,     \* bound: drafts Foundry creates
    MaxFaults,      \* bound: failed calls and interruptions, together
    MaxInterrupts   \* bound: commands that end between two steps

VARIABLES
    side, live, nextVersion, call, orphans, proven,     \* of DraftRuntime
    job,            \* the state file: JobState
    proc,           \* the running command: where it is, what it holds
    sideFinal,      \* does the sidecar file hold a receipt of the final comment?
    finalBody,      \* the final comment on the issue
    pr,             \* the early pull request
    bound,          \* is the pull request in the binding file?
    applied,        \* the candidate whose patch is in the checkout
    faults, interrupts

R == INSTANCE DraftRuntime

None == R!None

Modes == {"foundry_evaluation", "repository_checks", "none"}

ASSUME IdsAssumption == Candidates \subseteq Nat \ {None}
ASSUME SummariesAssumption == Summaries \subseteq Nat \ {None}
ASSUME ModeAssumption == JobModes \subseteq Modes
ASSUME GuidedAssumption == Guided \in BOOLEAN
ASSUME ResultsAssumption ==
    /\ Viable \subseteq Summaries \ Unsuccessful
    /\ Unsuccessful \subseteq Summaries
    /\ Passing \subseteq Summaries
ASSUME BoundsAssumption ==
    /\ MinCandidates \in Nat \ {0}
    /\ MaxVersion \in Nat /\ MaxFaults \in Nat /\ MaxInterrupts \in Nat

runtime == <<side, live, nextVersion, orphans, proven>>
github == <<sideFinal, finalBody, pr, bound>>
budgets == <<faults, interrupts>>
vars == <<runtime, call, job, proc, github, applied, budgets>>

-----------------------------------------------------------------------------
(* The state file.                                                         *)

Assessments == {"none", "keep", "discard", "invalid", "platform_failure",
                "winner"}

Positive == {"winner", "recommended", "proposed_unverified"}

Outcomes == Positive \cup {"no_winner", "platform_failure"}

\* CandidateState; `comment' and `cleaned' say that a receipt is stored.
Candidate ==
    [handed: BOOLEAN, finalized: BOOLEAN, dev: Summaries \cup {None},
     val: Summaries \cup {None}, checks: {"none", "passed", "failed"},
     assessment: Assessments, comment: BOOLEAN,
     draft: R!Versions \cup {None}, cleaned: BOOLEAN]

\* Decision, and with it the three ids JobState repeats (with_decision sets
\* all four together); outcome "none" stands for no decision.
DecisionRecord ==
    [outcome: Outcomes \cup {"none"}, prov: Candidates \cup {None},
     winner: Candidates \cup {None}, selected: Candidates \cup {None}]

JobState ==
    [mode: JobModes, cand: [Candidates -> Candidate], decision: DecisionRecord,
     terminal: Outcomes \cup {"none"}, finalReceipt: BOOLEAN,
     projection: Candidates \cup {None}, closure: BOOLEAN]

NoDecision ==
    [outcome |-> "none", prov |-> None, winner |-> None, selected |-> None]

NewCandidate ==
    [handed |-> FALSE, finalized |-> FALSE, dev |-> None, val |-> None,
     checks |-> "none", assessment |-> "none", comment |-> FALSE,
     draft |-> None, cleaned |-> FALSE]

Handed(j) == {c \in Candidates : j.cand[c].handed}

\* CandidateState.completed
Completed(j) ==
    {c \in Handed(j) :
        LET k == j.cand[c] IN
        /\ k.assessment \notin {"none", "invalid"}
        /\ k.assessment = "platform_failure" =>
               k.dev # None \/ k.checks # "none"}

EnoughCompleted(j) == Cardinality(Completed(j)) >= MinCandidates

AcceptedWithoutProjection(j) ==
    /\ \A c \in Candidates : j.cand[c].cleaned => j.cand[c].draft # None
    /\ j.decision.winner # None =>
         /\ j.terminal = "winner"
         /\ j.decision.selected = j.decision.winner
    /\ j.closure => j.terminal \notin Positive

\* What model_validate accepts of a state about to be saved (validate_state,
\* validate_consistency); the rest of it holds by the types above.
Accepted(j) ==
    /\ \A c \in Candidates : j.cand[c].cleaned => j.cand[c].draft # None
    /\ j.decision.winner # None =>
         /\ j.terminal = "winner"
         /\ j.decision.selected = j.decision.winner
    /\ j.projection # None => j.decision.selected = j.projection
    /\ j.closure => j.terminal \notin Positive
    /\ j.terminal \in {"recommended", "proposed_unverified"} =>
         j.decision.selected # None /\ j.decision.winner = None

-----------------------------------------------------------------------------
(* Decisions over the state.                                               *)

Rejected == {"invalid", "platform_failure"}

\* The best of a set of eligible candidates: the highest result, then the
\* smallest id (module Decision has the rules in full).
Best(j, eligible) ==
    IF eligible = {} THEN None
    ELSE CHOOSE c \in eligible :
           \A d \in eligible \ {c} :
             \/ j.cand[c].dev > j.cand[d].dev
             \/ j.cand[c].dev = j.cand[d].dev /\ c < d

EligibleUntilFailed(j) ==
    {c \in Handed(j) : /\ j.cand[c].assessment \notin Rejected
                       /\ j.cand[c].dev \in Viable
                       /\ j.cand[c].val \in Passing \cup {None}}

Eligible(j) ==
    {c \in Handed(j) : /\ j.cand[c].assessment \notin Rejected
                       /\ j.cand[c].dev \in Viable}

Least(ids) == IF ids = {} THEN None
              ELSE CHOOSE c \in ids : \A d \in ids : c <= d

AcceptableUnchecked(j) ==
    {c \in Handed(j) :
        /\ j.cand[c].assessment \notin Rejected \cup {"none"}
        /\ j.cand[c].finalized}

\* Candidates that passed all checks, or (mode "none") that can be proposed.
Acceptable(j) ==
    {c \in Handed(j) :
        /\ j.cand[c].assessment \notin Rejected \cup {"none"}
        /\ IF j.mode = "repository_checks" THEN j.cand[c].checks = "passed"
                                         ELSE j.cand[c].finalized}

Assess(j, outcome) ==
    [j EXCEPT !.cand = [c \in Candidates |->
        [j.cand[c] EXCEPT !.assessment = outcome[c]]]]

\* decide(...) without a validating run, merged into the state.
WithProvisional(j) ==
    LET best == Best(j, Eligible(j))
        outcome == [c \in Candidates |->
          LET k == j.cand[c] IN
          IF k.assessment \in Rejected \/ k.dev = None THEN k.assessment
          ELSE IF k.dev \in Unsuccessful THEN "platform_failure"
          ELSE IF c = best THEN "keep" ELSE "discard"]
    IN [Assess(j, outcome) EXCEPT
          !.decision = [NoDecision EXCEPT !.outcome = "no_winner",
                                          !.prov = best]]

\* _repository_checks_decision and _unverified_decision, merged.
WithSelection(j) ==
    LET chosen == Least(Acceptable(j))
        outcome == [c \in Candidates |->
          LET a == j.cand[c].assessment IN
          IF a \in Rejected \cup {"none"} THEN a
          ELSE IF c = chosen THEN "keep" ELSE "discard"]
    IN [Assess(j, outcome) EXCEPT
          !.decision = [NoDecision EXCEPT
             !.outcome = IF chosen = None THEN "no_winner"
                         ELSE IF j.mode = "repository_checks"
                              THEN "recommended" ELSE "proposed_unverified",
             !.selected = chosen]]

\* _apply_development_decision
WithDevelopmentDecision(j) ==
    IF j.mode = "foundry_evaluation" THEN WithProvisional(j) ELSE WithSelection(j)

WithAnyValidating(j) ==
    LET d == WithProvisional(j)
        p == d.decision.prov
    IN [d EXCEPT
          !.cand[p].assessment = "winner", !.decision.outcome = "winner",
          !.decision.winner = p, !.decision.selected = p,
          !.terminal = "winner"]

\* decide(..., validating) for the provisional winner, merged, with the
\* terminal outcome: _apply_final_decision.
WithFinalDecision(j) ==
    LET d == WithProvisional(j)
        p == d.decision.prov
        wins == j.cand[p].val \in Passing
    IN [d EXCEPT
          !.cand[p].assessment = IF wins THEN "winner" ELSE "discard",
          !.decision.outcome = IF wins THEN "winner" ELSE "no_winner",
          !.decision.winner = IF wins THEN p ELSE None,
          !.decision.selected = IF wins THEN p ELSE None,
          !.terminal = IF wins THEN "winner" ELSE "no_winner"]

\* _record_validating_platform_failure; the CLI passes no draft id.
WithValidatingFailure(j, draft) ==
    LET p == j.decision.prov IN
    [j EXCEPT !.decision.outcome = "platform_failure",
              !.decision.winner = None, !.decision.selected = None,
              !.cand[p].draft = IF draft = None THEN @ ELSE draft,
              !.terminal = "platform_failure"]

WithRetryKeepingComment(j, c, phase) ==
    LET k == j.cand[c]
        reset == IF phase = "candidate"
                 THEN [k EXCEPT !.dev = None, !.val = None,
                                !.assessment = "none", !.comment = FALSE]
                 ELSE [k EXCEPT !.val = None]
    IN [j EXCEPT
          !.cand[c] = [reset EXCEPT !.draft = None, !.cleaned = FALSE],
          !.decision = NoDecision,
          !.projection = None, !.closure = FALSE, !.terminal = "none"]

WithRetryKeepingDraft(j, c, phase) ==
    LET k == j.cand[c]
        reset == IF phase = "candidate"
                 THEN [k EXCEPT !.dev = None, !.val = None,
                                !.assessment = "none", !.comment = FALSE]
                 ELSE [k EXCEPT !.val = None]
    IN [j EXCEPT
          !.cand[c] = [reset EXCEPT !.cleaned = FALSE],
          !.decision = NoDecision, !.finalReceipt = FALSE,
          !.projection = None, !.closure = FALSE, !.terminal = "none"]

\* The mutation of _prepare_candidate_retry.
WithRetry(j, c, phase) ==
    LET k == j.cand[c]
        reset == IF phase = "candidate"
                 THEN [k EXCEPT !.dev = None, !.val = None,
                                !.assessment = "none", !.comment = FALSE]
                 ELSE [k EXCEPT !.val = None]
    IN [j EXCEPT
          !.cand[c] = [reset EXCEPT !.draft = None, !.cleaned = FALSE],
          !.decision = NoDecision, !.finalReceipt = FALSE,
          !.projection = None, !.closure = FALSE, !.terminal = "none"]

-----------------------------------------------------------------------------
(* The running command.                                                    *)

\* What next_action tells the agent (_next_action and the predicates it uses).

PendingCandidates(j) ==
    {c \in Handed(j) : j.cand[c].assessment = "none" \/ ~j.cand[c].comment}

PendingCleanups(j) ==
    {c \in Handed(j) : j.cand[c].draft # None /\ ~j.cand[c].cleaned}

SideEffectsComplete(j) ==
    /\ j.finalReceipt
    /\ j.terminal \in Positive => j.projection # None
    /\ j.terminal = "no_winner" => j.closure
    /\ PendingCleanups(j) = {}

ClosureRequired(j) ==
    /\ ~j.closure
    /\ \/ j.terminal = "no_winner"
       \/ /\ j.decision # NoDecision
          /\ IF j.mode # "foundry_evaluation" THEN j.decision.selected = None
             ELSE \/ j.decision.prov = None
                  \/ /\ j.cand[j.decision.prov].val # None
                     /\ j.decision.outcome = "no_winner"

BindingRequired(j) ==
    /\ j.terminal # "platform_failure"
    /\ IF j.terminal \in Positive THEN j.projection = None
       ELSE \/ ClosureRequired(j)
            \/ /\ j.decision.outcome \notin {"none", "platform_failure"}
               /\ EnoughCompleted(j)
               /\ j.mode = "foundry_evaluation" \/ j.decision.selected # None

NextAction ==
    IF PendingCandidates(job) # {} THEN "complete-candidate"
    ELSE IF job.terminal # "none" /\ SideEffectsComplete(job) THEN "terminal"
    ELSE IF job.terminal = "none" /\ ~EnoughCompleted(job)
         THEN IF Cardinality(Handed(job)) < MinCandidates
              THEN "handoff-candidate" ELSE "blocked"
    ELSE IF BindingRequired(job) /\ ~bound THEN "blocked" ELSE "finish"

Advised(action) == Guided => NextAction = action

Pcs == {"idle", "finalize", "evaluate", "evaluating", "decide", "afterTry",
        "comment", "sweep", "sweeping", "retryDecide", "entry", "finDecide",
        "validating", "validated", "afterFailure", "finalDecide",
        "postFinal", "sidecarFinal", "storeFinal", "bind", "bindVerify",
        "project", "storeProjection", "close", "storeClosure"}

\* by: whose finish is running, the command's or the controller's
\* todo: candidates whose cleanup the running sweep has yet to retry
\* tried: attempted_platform_failure_cleanup
\* next: where the running sweep, or the final comment, continues
Proc == [pc: Pcs, by: {"cli", "controller"}, cand: Candidates \cup {None},
         todo: SUBSET Candidates, tried: BOOLEAN, next: Pcs]

Ended == [pc |-> "idle", by |-> "cli", cand |-> None, todo |-> {},
          tried |-> FALSE, next |-> "idle"]

Init ==
    /\ R!Init
    /\ \E mode \in JobModes :
         job = [mode |-> mode, cand |-> [c \in Candidates |-> NewCandidate],
                decision |-> NoDecision, terminal |-> "none",
                finalReceipt |-> FALSE, projection |-> None,
                closure |-> FALSE]
    /\ proc = Ended
    /\ sideFinal = FALSE
    /\ finalBody = NoDecision
    /\ pr \in {"none", "open"}
    /\ bound = FALSE
    /\ applied = None
    /\ faults = 0 /\ interrupts = 0

Pc(pc) == proc.pc = pc

\* Where a command continues.
To(pc) == [proc EXCEPT !.pc = pc]

Sweep(ids, next) == [proc EXCEPT !.pc = "sweep", !.todo = ids, !.next = next]

\* Every command that gets that far ends with a sweep of all candidates.
LastSweep(j) == Sweep(Handed(j), "idle")

FinalComment(j, next) ==
    IF j.finalReceipt
    THEN IF next = "bind" THEN To("bind") ELSE LastSweep(j)
    ELSE [proc EXCEPT !.pc = "postFinal", !.next = next]

ControllerFinish(j) ==
    [proc EXCEPT !.by = "controller", !.pc = "sweep", !.todo = Handed(j),
                 !.next = "entry"]

\* A step of the command that changes nothing but where it is.
Continue(p) ==
    /\ proc' = p
    /\ UNCHANGED <<runtime, call, job, github, applied, budgets>>

\* JobStateStore.update: the new state is validated, then replaces the old
\* one; a state that is not accepted raises, and the command ends.
Save(j, p) ==
    /\ IF Accepted(j) THEN job' = j /\ proc' = p
                      ELSE job' = job /\ proc' = Ended
    /\ UNCHANGED <<runtime, call, github, applied, budgets>>

\* The same, when the result of a runtime method has just been consumed.
SaveResult(j, p) ==
    /\ IF Accepted(j) THEN job' = j /\ proc' = p
                      ELSE job' = job /\ proc' = Ended
    /\ call' = R!Idle
    /\ UNCHANGED <<runtime, github, applied, budgets>>

DropResult(p) ==
    /\ proc' = p
    /\ call' = R!Idle
    /\ UNCHANGED <<runtime, job, github, applied, budgets>>

\* A method of the runtime is entered.
Invoke(frame, p) ==
    /\ R!Begin(frame)
    /\ proc' = p
    /\ UNCHANGED <<job, github, applied, budgets>>

Returned(status) == call.step = "done" /\ call.status = status

-----------------------------------------------------------------------------
(* job handoff, and job complete.                                          *)

Handoff(c) ==
    /\ Pc("idle") /\ Advised("handoff-candidate")
    /\ c \notin Handed(job)
    /\ Cardinality(Handed(job)) < MinCandidates
    /\ job.terminal = "none"
    /\ Save([job EXCEPT !.cand[c].handed = TRUE], Ended)

StartComplete(c) ==
    /\ Pc("idle") /\ Advised("complete-candidate")
    /\ c \in IF Guided THEN PendingCandidates(job) ELSE Handed(job)
    /\ LET k == job.cand[c]
           at(pc) == [Ended EXCEPT !.pc = pc, !.cand = c]
       IN Continue(
            IF k.assessment # "none" /\ k.comment
            THEN [at("sweep") EXCEPT !.todo = {c}]
            ELSE IF ~k.finalized /\ k.assessment # "invalid" THEN at("finalize")
            ELSE at("evaluate"))

\* CandidateWorkspaceManager.finalize accepts the change or rejects it by policy.
Finalize ==
    /\ Pc("finalize")
    /\ \/ Save([job EXCEPT !.cand[proc.cand].finalized = TRUE], To("evaluate"))
       \/ Save([job EXCEPT !.cand[proc.cand].assessment = "invalid"],
               To("evaluate"))

\* Where complete_candidate goes once the assessment is stored.
AfterDecision(j) ==
    LET k == j.cand[proc.cand] IN
    IF k.assessment = "none" THEN Ended
    ELSE IF ~k.comment THEN To("comment")
    ELSE Sweep({proc.cand}, "idle")

Evaluate ==
    /\ Pc("evaluate")
    /\ LET c == proc.cand
           k == job.cand[c]
       IN CASE k.assessment # "none" -> Continue(To("decide"))
            [] k.assessment = "none" /\ ~k.finalized -> Continue(Ended)
            [] OTHER ->
                 CASE job.mode = "foundry_evaluation" ->
                        Invoke(R!EnterCandidate(c), To("evaluating"))
                   [] job.mode = "repository_checks" ->
                        \E passed \in BOOLEAN :
                          Save([job EXCEPT
                                  !.cand[c].checks =
                                     IF passed THEN "passed" ELSE "failed",
                                  !.cand[c].assessment =
                                     IF passed THEN "keep" ELSE "discard"],
                               To("decide"))
                   [] job.mode = "none" ->
                        Save([job EXCEPT !.cand[c].assessment = "keep"],
                             To("decide"))

EvaluatedLeavesOpen ==
    /\ Pc("evaluating")
    /\ LET c == proc.cand IN
       \/ /\ Returned("platform_failure")
          /\ SaveResult([job EXCEPT !.cand[c].draft = call.draft],
                        [Sweep({c}, "afterTry") EXCEPT !.tried = TRUE])
       \/ /\ Returned("ok")
          /\ SaveResult([job EXCEPT !.cand[c].dev = side[c].dev,
                                    !.cand[c].draft = call.draft],
                        To("decide"))

\* The result of evaluate_candidate.
Evaluated ==
    /\ Pc("evaluating")
    /\ LET c == proc.cand IN
       \/ Returned("raised") /\ DropResult(Ended)
       \/ /\ Returned("retry")
          /\ IF job.terminal \in {"winner", "no_winner"} THEN DropResult(Ended)
             ELSE SaveResult(WithRetry(job, c, "candidate"),
                             [To("retryDecide") EXCEPT !.next = "idle"])
       \/ /\ Returned("platform_failure")
          /\ SaveResult([job EXCEPT !.cand[c].assessment = "platform_failure",
                                    !.cand[c].draft = call.draft],
                        [Sweep({c}, "afterTry") EXCEPT !.tried = TRUE])
       \/ /\ Returned("ok")
          /\ SaveResult([job EXCEPT !.cand[c].dev = side[c].dev,
                                    !.cand[c].draft = call.draft],
                        To("decide"))

Decide ==
    /\ Pc("decide")
    /\ LET j == WithDevelopmentDecision(job) IN Save(j, AfterDecision(j))

\* After the cleanup that follows a platform failure at once.
AfterTry ==
    /\ Pc("afterTry")
    /\ Continue(IF job.cand[proc.cand].assessment = "none"
                     \/ job.cand[proc.cand].comment
                THEN Ended ELSE To("comment"))

\* The candidate's comment is written and its receipt stored.
Comment ==
    /\ Pc("comment")
    /\ Save([job EXCEPT !.cand[proc.cand].comment = TRUE],
            IF proc.tried THEN Ended ELSE Sweep({proc.cand}, "idle"))

-----------------------------------------------------------------------------
(* _retry_pending_cleanups and _retry_candidate_cleanup.                   *)

RetainedNever == {}

Retained == IF job.terminal = "none" THEN {job.decision.prov} \ {None} ELSE {}

SweepStep ==
    /\ Pc("sweep")
    /\ IF proc.todo = {} THEN Continue([proc EXCEPT !.pc = proc.next])
       ELSE LET c == Least(proc.todo) IN
            IF c \in PendingCleanups(job)
            THEN Invoke(R!EnterCleanup(job.cand[c].draft, Retained),
                        To("sweeping"))
            ELSE Continue([proc EXCEPT !.todo = @ \ {c}])

Swept ==
    /\ Pc("sweeping")
    /\ LET c == Least(proc.todo)
           rest == [To("sweep") EXCEPT !.todo = @ \ {c}]
           phase == side[call.cand].retry
       IN \/ Returned("raised") /\ DropResult(Ended)
          \/ Returned("failed") /\ DropResult(rest)
          \/ /\ Returned("cleaned")
             /\ IF phase # "none"
                     /\ job.terminal \in {"none", "platform_failure"}
                THEN SaveResult(WithRetry(job, c, phase),
                                [rest EXCEPT !.pc = "retryDecide"])
                ELSE SaveResult([job EXCEPT !.cand[c].cleaned = TRUE], rest)

\* The last step of _prepare_candidate_retry.
RetryDecide ==
    /\ Pc("retryDecide")
    /\ Save(WithDevelopmentDecision(job), To("sweep"))

-----------------------------------------------------------------------------
(* job finish: _finish_runtime_job (by "cli") and the controller's finish, *)
(* which it calls (by "controller").  Both sweep first and then look at the *)
(* state.                                                                  *)

StartFinish ==
    /\ Pc("idle") /\ Advised("finish")
    /\ Continue([Ended EXCEPT !.pc = "sweep", !.todo = Handed(job),
                              !.next = "entry"])

EntryOfCli ==
    /\ Pc("entry") /\ proc.by = "cli"
    /\ Continue(
         IF job.terminal = "no_winner" /\ ~job.closure
         THEN IF ~job.finalReceipt /\ job.decision = NoDecision THEN Ended
              ELSE FinalComment(job, "bind")
         ELSE IF job.terminal \in Positive /\ job.projection = None
         THEN To("bindVerify")
         ELSE IF job.terminal # "none" THEN ControllerFinish(job)
         ELSE IF ~EnoughCompleted(job) THEN Ended
         ELSE To("finDecide"))

ResumeTerminalFallsThrough(j) ==
    LET d == j.decision IN
    IF d = NoDecision THEN Ended
    ELSE IF j.terminal \in Positive /\ j.projection = None
    THEN [To("project") EXCEPT !.cand = d.selected]
    ELSE IF ~j.closure THEN To("close")
    ELSE FinalComment(j, "idle")

\* _resume_terminal_state
ResumeTerminal(j) ==
    LET d == j.decision IN
    IF d = NoDecision THEN Ended
    ELSE IF j.terminal \in Positive
    THEN IF d.selected = None \/ (j.terminal = "winner" /\ d.winner = None)
         THEN Ended
         ELSE IF j.projection = None
         THEN [To("project") EXCEPT !.cand = d.selected]
         ELSE FinalComment(j, "idle")
    ELSE IF j.terminal = "no_winner" /\ ~j.closure THEN To("close")
    ELSE FinalComment(j, "idle")

EntryOfController ==
    /\ Pc("entry") /\ proc.by = "controller"
    /\ Continue(IF job.terminal # "none" THEN ResumeTerminal(job)
                ELSE IF EnoughCompleted(job) THEN To("finDecide") ELSE Ended)

AfterFinDecideUnvalidated(j) ==
    LET d == j.decision IN
    IF d.prov # None THEN [proc EXCEPT !.cand = d.prov, !.pc = "finalDecide"]
    ELSE IF proc.by = "cli" THEN FinalComment(j, "bind")
    ELSE To("close")

\* What both finishes do with a fresh development decision.
AfterFinDecide(j) ==
    LET d == j.decision
        quantitative == j.mode = "foundry_evaluation"
        target == IF quantitative THEN d.prov ELSE d.selected
    IN
    IF quantitative /\ d.prov # None
    THEN [proc EXCEPT !.cand = d.prov,
            !.pc = IF j.cand[d.prov].val = None THEN "validating"
                                                ELSE "finalDecide"]
    ELSE IF proc.by = "cli"
    THEN IF quantitative THEN FinalComment(j, "bind")
         ELSE To(IF d.selected # None THEN "bindVerify" ELSE "bind")
    ELSE IF target = None THEN To("close")
    ELSE [To("project") EXCEPT !.cand = target]

FinDecide ==
    /\ Pc("finDecide")
    /\ LET j == WithDevelopmentDecision(job) IN Save(j, AfterFinDecide(j))

Validate ==
    /\ Pc("validating")
    /\ Invoke(R!EnterValidating(proc.cand), To("validated"))

ValidatedByCli ==
    /\ Pc("validated") /\ proc.by = "cli"
    /\ \/ Returned("raised") /\ DropResult(Ended)
       \/ /\ Returned("ok")
          /\ SaveResult([job EXCEPT !.cand[proc.cand].val = side[proc.cand].val],
                        To("finalDecide"))
       \/ /\ Returned("retry") \/ Returned("platform_failure")
          /\ LET j == WithValidatingFailure(job, None)
             IN SaveResult(j, FinalComment(j, "idle"))

ValidatedByController ==
    /\ Pc("validated") /\ proc.by = "controller"
    /\ LET c == proc.cand IN
       \/ Returned("raised") /\ DropResult(Ended)
       \/ /\ Returned("ok")
          /\ SaveResult([job EXCEPT !.cand[c].val = side[c].val,
                                    !.cand[c].draft = call.draft],
                        To("finalDecide"))
       \/ /\ Returned("retry")
          /\ SaveResult(WithRetry(job, c, "validating"),
                        [To("retryDecide") EXCEPT !.todo = Handed(job),
                                                  !.next = "idle"])
       \/ /\ Returned("platform_failure")
          /\ SaveResult(WithValidatingFailure(job, call.draft),
                        Sweep({c}, "afterFailure"))

AfterFailure ==
    /\ Pc("afterFailure")
    /\ Continue(IF job.terminal = "none" THEN LastSweep(job)
                ELSE FinalComment(job, "idle"))

\* _apply_final_decision; decide raises when the provisional winner changed.
FinalDecide ==
    /\ Pc("finalDecide")
    /\ IF Best(job, Eligible(job)) # job.decision.prov THEN Continue(Ended)
       ELSE LET j == WithFinalDecision(job)
                wins == j.terminal = "winner"
            IN Save(j,
                 IF proc.by = "cli"
                 THEN IF wins THEN To("bindVerify") ELSE FinalComment(j, "bind")
                 ELSE IF wins THEN To("project") ELSE To("close"))

-----------------------------------------------------------------------------
(* The effects of a finish: the final comment, the binding, the patch in   *)
(* the checkout, the closed pull request.  Each is followed by the save of *)
(* its receipt.                                                            *)

\* The comment has one marker, so a second one replaces the first.
PostFinal ==
    /\ Pc("postFinal")
    /\ finalBody' = job.decision
    /\ proc' = To("sidecarFinal")
    /\ UNCHANGED <<runtime, call, job, sideFinal, pr, bound, applied, budgets>>

SidecarFinal ==
    /\ Pc("sidecarFinal")
    /\ sideFinal' = TRUE
    /\ proc' = To("storeFinal")
    /\ UNCHANGED <<runtime, call, job, finalBody, pr, bound, applied, budgets>>

StoreFinalForgets ==
    /\ Pc("storeFinal")
    /\ Continue(FinalComment([job EXCEPT !.finalReceipt = TRUE], proc.next))

StoreFinal ==
    /\ Pc("storeFinal")
    /\ LET j == [job EXCEPT !.finalReceipt = TRUE]
       IN Save(j, FinalComment(j, proc.next))

\* _ensure_runtime_pull_request_binding: the broker finds the open pull
\* request; without verify_checkout a binding that is there already is enough.
Bind ==
    /\ Pc("bind") \/ Pc("bindVerify")
    /\ bound' = (bound \/ pr = "open")
    /\ proc' = IF pr = "open" \/ (Pc("bind") /\ bound)
               THEN ControllerFinish(job) ELSE Ended
    /\ UNCHANGED <<runtime, call, job, sideFinal, finalBody, pr, applied,
                   budgets>>

\* The outcome with which _project_selected_candidate ends the job.
ProjectedOutcome ==
    IF job.terminal # "none" THEN job.terminal ELSE job.decision.outcome

ProjectFirst ==
    /\ Pc("project")
    /\ applied = None
    /\ applied' = Least(Handed(job))
    /\ proc' = To("storeProjection")
    /\ UNCHANGED <<runtime, call, job, github, budgets>>

\* `git apply --check' refuses a patch in a checkout that is no longer clean.
Project ==
    /\ Pc("project")
    /\ IF job.projection # None
       THEN LET j == [job EXCEPT !.terminal = ProjectedOutcome]
            IN Save(j, FinalComment(j, "idle"))
       ELSE IF applied # None THEN Continue(Ended)
       ELSE /\ applied' = proc.cand
            /\ proc' = To("storeProjection")
            /\ UNCHANGED <<runtime, call, job, github, budgets>>

StoreProjection ==
    /\ Pc("storeProjection")
    /\ LET j == [job EXCEPT !.projection = proc.cand,
                            !.terminal = ProjectedOutcome]
       IN Save(j, FinalComment(j, "idle"))

\* _ensure_no_winner: the closure needs the final comment's sidecar receipt
\* and, at the broker, the bound pull request.
Close ==
    /\ Pc("close")
    /\ IF job.closure
       THEN LET j == [job EXCEPT !.terminal = "no_winner"]
            IN Save(j, FinalComment(j, "idle"))
       ELSE IF ~sideFinal \/ ~bound THEN Continue(Ended)
       ELSE /\ pr' = "closed"
            /\ proc' = To("storeClosure")
            /\ UNCHANGED <<runtime, call, job, sideFinal, finalBody, bound,
                           applied, budgets>>

StoreClosure ==
    /\ Pc("storeClosure")
    /\ LET j == [job EXCEPT !.closure = TRUE, !.terminal = "no_winner"]
       IN Save(j, FinalComment(j, "idle"))

-----------------------------------------------------------------------------
(* The environment, faults, and the specification.                         *)

\* The agent's session opens its early pull request.
OpenPullRequest ==
    /\ pr = "none"
    /\ pr' = "open"
    /\ UNCHANGED <<runtime, call, job, proc, sideFinal, finalBody, bound,
                   applied, budgets>>

\* foundry-opt broker bind-pr
BindPr ==
    /\ Pc("idle") /\ pr = "open" /\ ~bound
    /\ bound' = TRUE
    /\ UNCHANGED <<runtime, call, job, proc, sideFinal, finalBody, pr,
                   applied, budgets>>

RuntimeWork ==
    /\ R!Work
    /\ UNCHANGED <<job, proc, github, applied, budgets>>

RuntimeFault ==
    /\ faults + interrupts < MaxFaults
    /\ faults' = faults + 1
    /\ R!Fault
    /\ UNCHANGED <<job, proc, github, applied, interrupts>>

\* A crash, or an exception that ends the command.
Interrupt ==
    /\ ~Pc("idle")
    /\ interrupts < MaxInterrupts /\ faults + interrupts < MaxFaults
    /\ interrupts' = interrupts + 1
    /\ proc' = Ended
    /\ \/ R!Abort
       \/ call = R!Idle /\ UNCHANGED <<runtime, call>>
    /\ UNCHANGED <<job, github, applied, faults>>

Command ==
    \/ \E c \in Candidates : Handoff(c)
    \/ \E c \in Candidates : StartComplete(c)
    \/ StartFinish

CompleteStep == Finalize \/ Evaluate \/ Evaluated \/ Decide \/ AfterTry \/ Comment

SweepSteps == SweepStep \/ Swept \/ RetryDecide

FinishStep ==
    \/ EntryOfCli \/ EntryOfController \/ FinDecide \/ Validate
    \/ ValidatedByCli \/ ValidatedByController \/ AfterFailure \/ FinalDecide

EffectStep ==
    \/ PostFinal \/ SidecarFinal \/ StoreFinal \/ Bind
    \/ Project \/ StoreProjection \/ Close \/ StoreClosure

CommandStep ==
    CompleteStep \/ SweepSteps \/ FinishStep \/ EffectStep \/ RuntimeWork

Next ==
    \/ Command \/ CommandStep \/ RuntimeFault \/ Interrupt
    \/ OpenPullRequest \/ BindPr

Spec == Init /\ [][Next]_vars

\* A running command goes on; the agent gives the command next_action asks
\* for, opens its pull request and binds it.
Fairness ==
    /\ WF_vars(CommandStep) /\ WF_vars(Command)
    /\ WF_vars(OpenPullRequest) /\ WF_vars(BindPr)

FairSpec == Spec /\ Fairness

-----------------------------------------------------------------------------
(* Properties.                                                             *)

TypeOK ==
    /\ R!TypeOK
    /\ job \in JobState
    /\ proc \in Proc
    /\ sideFinal \in BOOLEAN /\ bound \in BOOLEAN
    /\ finalBody \in DecisionRecord
    /\ pr \in {"none", "open", "closed"}
    /\ applied \in Candidates \cup {None}
    /\ faults \in 0..MaxFaults /\ interrupts \in 0..MaxInterrupts

\* The terminal outcome "winner" is only ever stored for a candidate that met
\* the development rules, outranked every other eligible candidate and passed
\* its own validating run.
WinnerIsValidated ==
    job.terminal = "winner" /\ job.decision.winner # None =>
        LET w == job.decision.winner IN
        /\ job.cand[w].dev \in Viable
        /\ job.cand[w].val \in Passing
        /\ w = Best(job, Eligible(job))

\* The checkout and the pull request never contradict each other: a job whose
\* patch was applied is not closed as "no winner", whatever crashed before.
NeverProjectedAndClosed == ~(applied # None /\ pr = "closed")

\* The patch in the checkout is the one the recorded decision selects.
AppliedIsSelected ==
    applied # None /\ job.projection # None =>
        applied = job.projection /\ applied = job.decision.selected

\* The pull request is only closed when no candidate met the rules, or the one
\* that met them best has failed its validating run.
ClosedOnlyWithoutWinner ==
    pr = "closed" =>
        IF job.mode = "foundry_evaluation"
        THEN LET best == Best(job, Eligible(job)) IN
             best # None => job.cand[best].val \notin Passing \cup {None}
        ELSE Acceptable(job) = {}

\* When the job is settled the final comment on the issue shows the recorded
\* decision, and that decision explains the terminal outcome.
Settled == job.terminal # "none" /\ SideEffectsComplete(job) /\ Pc("idle")

FinalCommentIsTrue ==
    Settled => finalBody = job.decision /\ finalBody.outcome = job.terminal

\* "Exact draft ownership and cleanup": a settled job leaves no draft whose
\* reference it stored.
SettledLeavesNoDraft == Settled => \A c \in DOMAIN side : ~side[c].ref

\* An evaluation never runs on a draft this job has deleted.
NoRunOnDeletedDraft == call.step = "run" => call.draft \in live

\* The runtime never refuses a call the controller makes: a refusal ends the
\* command, and nothing changes that would let the next one get further.  In
\* particular the draft of the provisional winner is kept for its validating
\* run, and the drafts the state file names are those the sidecar file knows.
RuntimeNeverRefuses == call.step = "done" => call.status # "raised"

\* "Validating dataset used only for the provisional winner": one candidate at
\* most is ever validated, whatever fails and is retried in between.
OneValidated ==
    /\ Cardinality({c \in DOMAIN side : side[c].val # None}) <= 1
    /\ call.op = "validating" => call.cand = job.decision.prov

\* The state file runs ahead of nothing: every result, draft and receipt it
\* has of a candidate is the one the sidecar file has, although each is saved
\* there first and a command may end, or be repeated, between the two saves.
\* The other direction fails: the sidecar file can own a draft the state file
\* lacks (SettledLeavesNoDraft).
FilesAgree ==
    \A c \in Handed(job) :
        LET k == job.cand[c] IN
        /\ k.dev # None => c \in DOMAIN side /\ side[c].dev = k.dev
        /\ k.val # None => side[c].val = k.val
        /\ k.draft # None => side[c].draft = k.draft
        /\ k.cleaned => side[c].receipt

\* Once a patch or a closure is recorded nothing takes it back: the receipt,
\* the selected candidate and the outcome stay.
OutcomeIsFinal ==
    [][/\ job.projection # None =>
            /\ job'.projection = job.projection
            /\ job'.decision.selected = job.decision.selected
       /\ job.closure => job'.closure
       /\ job.projection # None \/ job.closure =>
            job'.terminal = job.terminal]_vars

\* "Honest evidence labels": each label is backed by the evidence its mode
\* collects, and the selected candidate is the first that has it.
HonestLabels ==
    LET j == job IN
    /\ j.terminal = "winner" => j.mode = "foundry_evaluation"
    /\ j.terminal = "recommended" =>
         /\ j.mode = "repository_checks"
         /\ j.cand[j.decision.selected].checks = "passed"
    /\ j.terminal = "proposed_unverified" => j.mode = "none"
    /\ j.terminal \in Positive /\ j.mode # "foundry_evaluation" =>
         j.decision.selected = Least(Acceptable(j))

\* Liveness.  An agent that follows next_action brings the job to its end: all
\* side effects of a terminal outcome done, or the budget of candidates used up
\* by candidates that never completed.
OutOfCandidates ==
    /\ job.terminal = "none" /\ Pc("idle")
    /\ PendingCandidates(job) = {}
    /\ Cardinality(Handed(job)) >= MinCandidates
    /\ ~EnoughCompleted(job)

JobEnds == <>[](Settled \/ OutOfCandidates)

\* The same for jobs none of whose commands is cut short, whatever calls to
\* Foundry fail: of a command that is, ProjectionCrash shows how it can leave
\* a job that never ends.
UninterruptedJobEnds == <>[](Settled \/ OutOfCandidates \/ interrupts > 0)

\* A job that has its candidates and none to propose ends by closing the pull
\* request unchanged.
NothingToPropose ==
    /\ EnoughCompleted(job) /\ PendingCandidates(job) = {}
    /\ IF job.mode = "foundry_evaluation" THEN Eligible(job) = {}
                                          ELSE Acceptable(job) = {}

NoWinnerIsClosed == NothingToPropose ~> job.closure
=============================================================================
