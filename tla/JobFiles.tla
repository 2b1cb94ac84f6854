------------------------------ MODULE JobFiles ------------------------------
(***************************************************************************)
(* The files an optimize job lives in, and the commands that write them:   *)
(* job start, job handoff and the part of job complete that finalizes a    *)
(* candidate (cli.py, poc/controller.py).  The state file is StateFile,    *)
(* the candidates' files are CandidateFiles, the policy and the evidence   *)
(* of the job come from Verification.                                      *)
(*                                                                         *)
(* job start writes the state file first and the issue request last; every *)
(* other command needs both.  The agent runs one command at a time.        *)
(* Between two steps the issue may be edited, the command may die, and     *)
(* another process, which runs a command of its own on the same job, may   *)
(* use the state file.                                                     *)
(***************************************************************************)
EXTENDS StateFile, CandidateFiles, FiniteSets

CONSTANTS Agents, Models, Evaluators, DataSets, Checks,
          Protected,   \* of Verification, with Paths and None
          Parents,     \* bound: the parents that are asked for, per candidate
          Setups,      \* bound: the jobs; one that works keeps its issue
          IssueEdits   \* bound: what an issue is edited into

V == INSTANCE Verification

Mark(w) == [is |-> w]
Marks == [is : {"evaluated", "announced", "handoff", "finalized", "invalid",
                "decided"}]

\* The identity of a job: its budget and the digests of its narrowed policy.
\* The rest of it is the same for every start of the job.
IdentityOf(registry, r) ==
    [job |-> r.budget, digests |-> V!RuntimePolicy(V!Selected(registry, r), r)]

ASSUME SetupsAssumption ==
    /\ \A s \in Setups :
           V!IsRegistry(s.registry) /\ s.issue \in V!Requests
    /\ IssueEdits \subseteq V!Requests
    /\ Parents \in [Candidates -> SUBSET (Candidates \cup {None})]
ASSUME PartsAssumption ==
    /\ Procs = {"job", "other"}
    /\ Keys = {"identity", "verification", "baseline", "decision"} \cup Candidates
    /\ \A s \in Setups : \A r \in IssueEdits \cup {s.issue} :
           V!Selected(s.registry, r) # None =>
               LET id == IdentityOf(s.registry, r) IN
               id \in Identities /\ ~NoDigests(id)
    /\ Values = {Empty} \cup Identities \cup V!Resolutions \cup Marks
ASSUME DistinctAssumption ==
    /\ Candidates \cap {"identity", "verification", "baseline", "decision"} = {}
    /\ None \notin V!Requests /\ None \notin Manifests
    /\ Empty \notin V!Resolutions \cup Marks
ASSUME OptionalAssumption ==
    None \notin Agents \cup Models \cup Evaluators \cup DataSets \cup Checks

VARIABLES
    setup,     \* the registry, the author's permission, the kind of session
    issue,     \* the request in the body of the issue
    request,   \* issue-request.json, or None
    temp,      \* the requests whose temporary file was left behind
    cmd,       \* the running command
    broken     \* ghost: a start ended between its first and its last write

env == <<setup, issue, request, temp, broken>>
vars == <<fvars, cvars, env, cmd>>

IdleCmd == [op |-> "none", pc |-> "idle", next |-> "idle", cand |-> None,
            req |-> None]

Init ==
    /\ FileInit
    /\ WorkInit
    /\ setup \in Setups
    /\ issue = setup.issue
    /\ request = None /\ temp = {} /\ broken = FALSE
    /\ cmd = IdleCmd

State(k) == file.body[k]
Pc(op_, pc) == cmd.op = op_ /\ cmd.pc = pc
To(pc) == cmd' = [cmd EXCEPT !.pc = pc]
KeepFiles == UNCHANGED <<fvars, cvars>>

\* What the registry and a request make of the job.
Profile(r) == V!Selected(setup.registry, r)
RuntimePolicy(r) == V!RuntimePolicy(Profile(r), r)
Resolved(r) == V!Resolve(Profile(r), r)
Runs(r) == /\ Profile(r) # None
           /\ RuntimePolicy(r) # None
           /\ Resolved(r) # None
Identity(r) == IdentityOf(setup.registry, r)

\* A command that is refused or fails ends; what it has written stays.
End == cmd' = IdleCmd
Fail ==
    /\ End
    /\ broken' = (broken \/ (cmd.op = "start" /\ request = None))
    /\ UNCHANGED <<setup, issue, request, temp>>

\* The command calls the store and goes on when the call returns.
Store(k, v, next) ==
    /\ Update("job", k, v)
    /\ cmd' = [cmd EXCEPT !.pc = "store", !.next = next]
    /\ UNCHANGED <<cvars, env>>

StoreRuns ==
    /\ cmd.pc = "store"
    /\ FileStep("job")
    /\ UNCHANGED <<cvars, env, cmd>>

StoreReturns ==
    /\ cmd.pc = "store"
    /\ ReturnOp("job")
    /\ IF op["job"].at = "failed" THEN Fail
       ELSE /\ IF cmd.next = "idle" THEN End ELSE To(cmd.next)
            /\ UNCHANGED env
    /\ UNCHANGED cvars

-----------------------------------------------------------------------------
(* job start.                                                              *)

\* _prepare_start_runtime: a request without a state file is deleted; in a
\* Copilot session a job that has a state file must have the same request.
SameRequest ==
    setup.dynamic /\ file.gen # 0 => request = issue

StartJob ==
    /\ cmd.pc = "idle"
    /\ setup.works => request = None
    /\ Profile(issue) # None /\ RuntimePolicy(issue) # None
    /\ V!HasAuthority(setup.permission, issue)
    /\ SameRequest
    /\ request' = IF file.gen = 0 THEN None ELSE request
    /\ IF Resolved(issue) # None
       THEN /\ Initialize("job", Identity(issue))
            /\ cmd' = [cmd EXCEPT !.op = "start", !.pc = "store",
                                  !.next = "verify", !.req = issue]
       ELSE UNCHANGED <<fvars, cmd>>
    /\ UNCHANGED <<cvars, setup, issue, temp, broken>>

\* Mutant: the recorded resolution is not compared.
RecordedVerificationUnread(r) == TRUE

\* OptimizeJobController.start: the mode must be allowed, and a resolution
\* that was recorded must be the same again.
RecordedVerification(r) == State("verification") \in {Empty, Resolved(r)}

Verify ==
    /\ Pc("start", "verify")
    /\ IF \/ ~V!ModeAllowed(Resolved(cmd.req).gate, Resolved(cmd.req).mode)
          \/ ~RecordedVerification(cmd.req)
       THEN Fail /\ KeepFiles
       ELSE Store("verification", Resolved(cmd.req), "baseline")

\* Mutant: a baseline that is to be retried ends the start.
BaselineEndsStart ==
    /\ Pc("start", "baseline")
    /\ IF State("baseline") # Empty THEN To("announce") /\ UNCHANGED env /\ KeepFiles
       ELSE \/ Store("baseline", Mark("evaluated"), "announce")
            \/ /\ Resolved(cmd.req).mode = "foundry_evaluation"
               /\ (End /\ UNCHANGED env) \/ Fail
               /\ KeepFiles

\* The baseline evaluation succeeds, is to be retried or fails.
Baseline ==
    /\ Pc("start", "baseline")
    /\ IF State("baseline") # Empty THEN To("announce") /\ UNCHANGED env /\ KeepFiles
       ELSE \/ Store("baseline", Mark("evaluated"), "announce")
            \/ /\ Resolved(cmd.req).mode = "foundry_evaluation"
               /\ (To("persist") /\ UNCHANGED env) \/ Fail
               /\ KeepFiles

\* The baseline comment is recorded unless the broker fails.
Announce ==
    /\ Pc("start", "announce")
    /\ \/ Store("baseline", Mark("announced"), "persist")
       \/ Fail /\ KeepFiles

\* _persist_issue_request: the temporary file is opened with "xb" under a name
\* that only depends on the request.
Persist ==
    /\ Pc("start", "persist")
    /\ KeepFiles
    /\ IF request # None
       THEN IF request = cmd.req THEN End /\ UNCHANGED env ELSE Fail
       ELSE IF cmd.req \in temp THEN Fail
       ELSE /\ temp' = temp \cup {cmd.req}
            /\ To("rename")
            /\ UNCHANGED <<setup, issue, request, broken>>

Rename ==
    /\ Pc("start", "rename")
    /\ request' = cmd.req
    /\ temp' = temp \ {cmd.req}
    /\ End
    /\ KeepFiles /\ UNCHANGED <<setup, issue, broken>>

-----------------------------------------------------------------------------
(* job handoff and the finalization in job complete.                       *)

\* _load_existing_runtime: the persisted request must be that of the issue and
\* still give the recorded identity and verification.
Loads ==
    /\ cmd.pc = "idle" /\ setup.works
    /\ request # None /\ file.gen # 0
    /\ setup.dynamic => request = issue
    /\ Runs(request)
    /\ State("identity") = Identity(request)
    /\ RecordedVerification(request)

Handed == {c \in Candidates : State(c) # Empty}

\* Another handoff of a recorded candidate returns what is recorded or is
\* refused.  Bound: a handoff that is repeated names the same model.
Handoff(c, parent, model) ==
    /\ Loads
    /\ State("baseline") # Empty /\ State(c) = Empty
    /\ Cardinality(Handed) < request.budget
    /\ model \in V!CandidateModels(RuntimePolicy(request), request)
    /\ EnterPrepare(c, parent)
    /\ cmd' = [cmd EXCEPT !.op = "handoff", !.pc = "call", !.cand = c]
    /\ UNCHANGED <<fvars, files, disturbed, env>>

Scope(r) == RuntimePolicy(r).editable \ Protected

Complete(c) ==
    /\ Loads
    /\ State(c) = Mark("handoff")
    /\ EnterFinalize(c, Scope(request))
    /\ cmd' = [cmd EXCEPT !.op = "complete", !.pc = "call", !.cand = c]
    /\ UNCHANGED <<fvars, files, disturbed, env>>

Workspace ==
    /\ cmd.pc = "call"
    /\ WorkspaceStep
    /\ UNCHANGED <<fvars, env, cmd>>

Recorded(status) ==
    IF cmd.op = "handoff" THEN Mark("handoff")
    ELSE IF status = "policy" THEN Mark("invalid") ELSE Mark("finalized")

\* Mutant: a call that raised is recorded like any other.
WorkspaceReturnsAnyhow ==
    /\ cmd.pc = "call" /\ call.step = "done"
    /\ Leave
    /\ UNCHANGED <<files, disturbed, env>>
    /\ Update("job", cmd.cand, Recorded(call.status))
    /\ cmd' = [cmd EXCEPT !.pc = "store", !.next = "idle"]

WorkspaceReturns ==
    /\ cmd.pc = "call" /\ call.step = "done"
    /\ Leave
    /\ UNCHANGED <<files, disturbed, env>>
    /\ IF call.status = "raised" THEN End /\ UNCHANGED fvars
       ELSE /\ Update("job", cmd.cand, Recorded(call.status))
            /\ cmd' = [cmd EXCEPT !.pc = "store", !.next = "idle"]

-----------------------------------------------------------------------------
(* The rest of the world.  The commands, the agent and the other process   *)
(* meet at the workfiles, the state file and the issue; a step that does   *)
(* not touch what the running step reads can as well come after it, and is *)
(* only taken then.                                                        *)

BetweenCalls == call.step = "idle"

\* Bound: what comes between the steps of a start is explored in the setups in
\* which the job does not go on to its candidates.
Interruptible == setup.works => request # None

Agent ==
    /\ cmd.pc \in {"idle", "call"} /\ op["other"].at = "idle"
    /\ AgentActs
    /\ UNCHANGED <<fvars, env, cmd>>

EditIssue(r) ==
    /\ cmd.pc = "idle" /\ ~setup.works /\ r # issue /\ Interruptible
    /\ Elsewhere
    /\ issue' = r
    /\ UNCHANGED <<fvars, setup, request, temp, broken, cmd>>

Crash ==
    /\ cmd.pc # "idle" /\ Interruptible
    /\ Die("job")
    /\ CrashCall
    /\ Fail

\* Another process starts the job too and dies after its first write, or runs
\* a command that records a decision.
OtherProcess ==
    /\ op["other"].at = "idle" /\ BetweenCalls /\ Interruptible
    /\ Elsewhere
    /\ \/ /\ Initialize("other", Identity(issue))
          /\ Runs(issue) /\ V!HasAuthority(setup.permission, issue)
          /\ SameRequest
          /\ broken' = (broken \/ request = None)
       \/ /\ file.gen # 0
          /\ Update("other", "decision", Mark("decided"))
          /\ UNCHANGED broken
    /\ UNCHANGED <<setup, issue, request, temp, cmd>>

OtherRuns ==
    /\ BetweenCalls
    /\ FileStep("other") \/ ReturnOp("other")
    /\ UNCHANGED <<cvars, env, cmd>>

Next ==
    \/ StartJob \/ Verify \/ Baseline \/ Announce \/ Persist \/ Rename
    \/ \E c \in Candidates :
           \/ \E parent \in Parents[c], model \in Models :
                  Handoff(c, parent, model)
           \/ Complete(c)
    \/ Workspace \/ WorkspaceReturns \/ StoreRuns \/ StoreReturns
    \/ Agent \/ Crash \/ OtherProcess \/ OtherRuns
    \/ \E r \in IssueEdits : EditIssue(r)

Spec == Init /\ [][Next]_vars

-----------------------------------------------------------------------------
(* Properties.                                                             *)

TypeOK ==
    /\ FileTypeOK /\ WorkTypeOK
    /\ issue \in V!Requests /\ request \in V!Requests \cup {None}
    /\ temp \subseteq V!Requests
    /\ broken \in BOOLEAN
    /\ cmd.req \in V!Requests \cup {None}
    /\ cmd.cand \in Candidates \cup {None}

\* UpdatesSurvive (StateFile) and EvaluatedIsMerged (CandidateFiles) must hold
\* here as well.

\* Records are only made of what is there: a candidate that is finalized in
\* the state file has a finalized manifest, and a finalized manifest has the
\* patch and the ZIP of its hashes beside it.
RecordsAreBacked ==
    /\ ArtifactsMatchManifest
    /\ \A c \in Candidates :
           /\ State(c) # Empty => manifest[c] # None
           /\ State(c) = Mark("finalized") => Finalized(c)

\* "Optimize-job candidates remain inside allowed editable paths" is true of
\* what they create and rewrite.  What they delete can lie outside, the
\* protected paths included, when git reports it as the old name of a file
\* they add inside.
OutsideOnlyDeletes == request # None => DeletesAtMost(Scope(request))

\* The two files of a start agree, however many starts it took and whatever the
\* issue said in between: the persisted request gives the identity, with its
\* narrowed policy, and the evidence that the state file has, and the gate of
\* the profile allows that evidence and the author of the issue may ask for it.
RequestExplainsState ==
    request # None /\ ~raced =>
        LET v == State("verification") IN
        /\ State("identity") = Identity(request)
        /\ v = Resolved(request)
        /\ V!ModeAllowed(Profile(request).gate, v.mode)
        /\ v.source = "issue" => setup.permission \in {"admin", "maintain", "write"}

\* In a Copilot session a job with a state file and no request can never be
\* started again; that only happens to a job of which one start was broken.
LockedOutOnlyByBreak ==
    setup.dynamic /\ file.gen # 0 /\ request = None /\ cmd.pc = "idle"
        => broken
=============================================================================
