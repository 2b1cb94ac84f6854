---------------------------- MODULE DraftRuntime ----------------------------
(***************************************************************************)
(* FoundryRuntime (poc/runtime.py): the candidate and validating          *)
(* evaluations and the cleanup of candidate drafts, over the sidecar file *)
(* that remembers which Foundry draft belongs to which candidate.         *)
(*                                                                         *)
(* A method is a sequence of calls to Foundry and of saves of the sidecar *)
(* file.  Each of those is one step here, so that a crash, an exception   *)
(* that nobody catches (RouteDriftError) or a failed call can fall        *)
(* between any two.  The record `call' is the frame of the method that is *)
(* running: the step it is about to perform and the draft it holds in a   *)
(* local variable.                                                         *)
(*                                                                         *)
(* One process runs these methods.  Between the load of a record and its  *)
(* save nobody else writes the file, so the copy of the record a method    *)
(* keeps is the record in the file, which the steps below save anew.  What *)
(* a second process would do between the two is not modelled.              *)
(***************************************************************************)
EXTENDS Integers

CONSTANTS
    Candidates,     \* candidate ids; their order is the order of the ids
    Summaries,      \* evaluation summaries, as far as the model tells them apart
    MaxVersion      \* bound: how many drafts Foundry creates in a behaviour

None == 0           \* Python's None, for a draft, a candidate or a summary

ASSUME CandidatesAssumption == Candidates \subseteq Nat \ {None}
ASSUME SummariesAssumption == Summaries \subseteq Nat \ {None}
ASSUME MaxVersionAssumption == MaxVersion \in Nat

VARIABLES
    side,           \* the candidate records of the sidecar file, by candidate
    live,           \* the draft versions that exist at Foundry
    nextVersion,    \* the version Foundry gives to the next draft
    call,           \* the frame of the running method
    orphans,        \* history: drafts created whose reference no save recorded
    proven          \* history: drafts whose downloaded code matched the upload

vars == <<side, live, nextVersion, call, orphans, proven>>

Versions == 1..MaxVersion

Retries == {"none", "candidate", "validating"}

\* _CandidateSidecar. `ref' and `receipt' say that a reference, or a cleanup
\* receipt, is stored: both are bound to `draft'.
Sidecar == [draft: Versions, ref: BOOLEAN, verified: BOOLEAN,
            cleanupRequired: BOOLEAN, retry: Retries, receipt: BOOLEAN,
            dev: Summaries \cup {None}, val: Summaries \cup {None}]

FreshSidecar(draft) ==
    [draft |-> draft, ref |-> TRUE, verified |-> FALSE,
     cleanupRequired |-> FALSE, retry |-> "none", receipt |-> FALSE,
     dev |-> None, val |-> None]

CleanedKeepsObligation(r, phase) ==
    [r EXCEPT !.ref = FALSE, !.verified = FALSE,
              !.retry = phase, !.receipt = TRUE]

\* The record after its draft was deleted.
Cleaned(r, phase) ==
    [r EXCEPT !.ref = FALSE, !.verified = FALSE, !.cleanupRequired = FALSE,
              !.retry = phase, !.receipt = TRUE]

\* The record after its draft failed verification and could not be deleted.
Obliged(r, phase) ==
    [r EXCEPT !.ref = TRUE, !.verified = FALSE, !.cleanupRequired = TRUE,
              !.retry = phase, !.receipt = FALSE]

WithCandidate(c, r) ==
    [x \in DOMAIN side \cup {c} |-> IF x = c THEN r ELSE side[x]]

VerifiedWhenReferenced(r) == r.ref \/ r.dev # None \/ r.val # None

HasVerifiedReference(r) == r.verified \/ r.dev # None \/ r.val # None

Ops == {"none", "candidate", "validating", "cleanup"}

Steps == {"idle", "create", "saveReference", "verify", "saveVerified", "run",
          "saveSummary", "failDelete", "saveFailCleaned", "saveFailRequired",
          "retryDelete", "saveRetryCleaned", "delete", "saveCleaned", "done"}

\* RunResult.status, the two outcomes of CleanupResult, and "raised".
Statuses == {"none", "ok", "retry", "platform_failure",
             "cleaned", "failed", "raised"}

Call == [op: Ops, cand: Candidates \cup {None}, step: Steps,
         draft: Versions \cup {None}, summary: Summaries \cup {None},
         status: Statuses]

Idle == [op |-> "none", cand |-> None, step |-> "idle", draft |-> None,
         summary |-> None, status |-> "none"]

Init ==
    /\ side = [c \in {} |-> FreshSidecar(1)]
    /\ live = {}
    /\ nextVersion = 1
    /\ call = Idle
    /\ orphans = {}
    /\ proven = {}

At(step) == call.step = step

Frame(op, c, step, draft) ==
    [op |-> op, cand |-> c, step |-> step, draft |-> draft,
     summary |-> None, status |-> "none"]

Finished(op, c, draft, status) ==
    [Frame(op, c, "done", draft) EXCEPT !.status = status]

Goto(step) == call' = [call EXCEPT !.step = step]

Return(status) == call' = [call EXCEPT !.step = "done", !.status = status]

\* `except (...) : return RunResult(status="platform_failure")' of a creation
\* that failed: no draft id is returned.
ReturnNoDraft ==
    call' = [call EXCEPT !.step = "done", !.status = "platform_failure",
                         !.draft = None]

-----------------------------------------------------------------------------
(* Entry of the three methods: what the sidecar says decides where they   *)
(* start.                                                                  *)

EnterCandidateAgain(c) ==
    IF c \notin DOMAIN side \/ ~side[c].ref
    THEN Frame("candidate", c, "create", None)
    ELSE Frame("candidate", c,
               IF side[c].cleanupRequired THEN "retryDelete"
               ELSE IF HasVerifiedReference(side[c]) THEN "run" ELSE "verify",
               side[c].draft)

EnterCandidate(c) ==
    IF c \notin DOMAIN side THEN Frame("candidate", c, "create", None)
    ELSE LET r == side[c] IN
         IF r.dev # None THEN Finished("candidate", c, r.draft, "ok")
         ELSE IF ~r.ref /\ r.receipt /\ r.retry # "candidate"
              THEN Finished("candidate", c, None, "raised")
         ELSE IF ~r.ref THEN Frame("candidate", c, "create", None)
         ELSE Frame("candidate", c,
                    IF r.cleanupRequired THEN "retryDelete"
                    ELSE IF HasVerifiedReference(r) THEN "run" ELSE "verify",
                    r.draft)

EnterValidating(c) ==
    IF c \notin DOMAIN side THEN Finished("validating", c, None, "raised")
    ELSE LET r == side[c] IN
         IF r.val # None THEN Finished("validating", c, r.draft, "ok")
         ELSE IF r.dev = None THEN Finished("validating", c, None, "raised")
         ELSE IF ~r.ref
              THEN IF r.receipt /\ r.retry = "validating"
                   THEN Frame("validating", c, "create", None)
                   ELSE Finished("validating", c, None, "raised")
         ELSE Frame("validating", c,
                    IF r.cleanupRequired THEN "retryDelete" ELSE "verify",
                    r.draft)

Owners(draft) == {c \in DOMAIN side : side[c].draft = draft}

\* cleanup_draft(draft): `retained' holds the candidate, if any, for which
\* _should_defer_cleanup answers yes; it reads the job state.
EnterCleanup(draft, retained) ==
    IF Owners(draft) = {} THEN Finished("cleanup", None, draft, "raised")
    ELSE LET c == CHOOSE x \in Owners(draft) : TRUE
             r == side[c]
         IN
         IF r.receipt THEN Finished("cleanup", c, draft, "cleaned")
         ELSE IF c \in retained THEN Finished("cleanup", c, draft, "failed")
         ELSE IF ~r.ref THEN Finished("cleanup", c, draft, "raised")
         ELSE Frame("cleanup", c, "delete", draft)

Begin(frame) ==
    /\ At("idle")
    /\ call' = frame
    /\ UNCHANGED <<side, live, nextVersion, orphans, proven>>

-----------------------------------------------------------------------------
(* The calls to Foundry that succeed.                                      *)

Create ==
    /\ At("create")
    /\ nextVersion <= MaxVersion
    /\ live' = live \cup {nextVersion}
    /\ nextVersion' = nextVersion + 1
    /\ call' = [call EXCEPT !.step = "saveReference", !.draft = nextVersion]
    /\ UNCHANGED <<side, orphans, proven>>

Verify ==
    /\ At("verify")
    /\ call.draft \in live
    /\ proven' = proven \cup {call.draft}
    /\ Goto(IF call.op = "candidate" THEN "saveVerified" ELSE "run")
    /\ UNCHANGED <<side, live, nextVersion, orphans>>

Run ==
    /\ At("run")
    /\ call.draft \in live
    /\ \E s \in Summaries :
         call' = [call EXCEPT !.step = "saveSummary", !.summary = s]
    /\ UNCHANGED <<side, live, nextVersion, orphans, proven>>

\* _cleanup_reference: the exact owned version is deleted (a version that is
\* gone already counts as deleted) and the route is checked.
Delete(from, to) ==
    /\ At(from)
    /\ live' = live \ {call.draft}
    /\ Goto(to)
    /\ UNCHANGED <<side, nextVersion, orphans, proven>>

-----------------------------------------------------------------------------
(* The saves of the sidecar file.                                          *)

SaveReferenceKeepsReceipt ==
    /\ At("saveReference")
    /\ side' = WithCandidate(call.cand,
                 IF call.op = "candidate" THEN FreshSidecar(call.draft)
                 ELSE [side[call.cand] EXCEPT !.draft = call.draft,
                         !.ref = TRUE, !.verified = FALSE,
                         !.cleanupRequired = FALSE, !.retry = "none"])
    /\ Goto("verify")
    /\ UNCHANGED <<live, nextVersion, orphans, proven>>

SaveReference ==
    /\ At("saveReference")
    /\ side' = WithCandidate(call.cand,
                 IF call.op = "candidate" THEN FreshSidecar(call.draft)
                 ELSE [side[call.cand] EXCEPT !.draft = call.draft,
                         !.ref = TRUE, !.verified = FALSE,
                         !.cleanupRequired = FALSE, !.retry = "none",
                         !.receipt = FALSE])
    /\ Goto("verify")
    /\ UNCHANGED <<live, nextVersion, orphans, proven>>

SaveVerified ==
    /\ At("saveVerified")
    /\ side' = WithCandidate(call.cand,
                 [side[call.cand] EXCEPT !.ref = TRUE, !.verified = TRUE,
                    !.cleanupRequired = FALSE, !.retry = "none",
                    !.receipt = FALSE])
    /\ Goto("run")
    /\ UNCHANGED <<live, nextVersion, orphans, proven>>

\* The code updates the copy it took before the run; so does SaveCleaned with
\* the copy from before the deletion.
SaveSummary ==
    /\ At("saveSummary")
    /\ side' = WithCandidate(call.cand,
                 IF call.op = "candidate"
                 THEN [side[call.cand] EXCEPT !.dev = call.summary]
                 ELSE [side[call.cand] EXCEPT !.ref = TRUE, !.verified = TRUE,
                         !.cleanupRequired = FALSE, !.retry = "none",
                         !.val = call.summary])
    /\ Return("ok")
    /\ UNCHANGED <<live, nextVersion, orphans, proven>>

SaveFailCleaned ==
    /\ At("saveFailCleaned")
    /\ side' = WithCandidate(call.cand, Cleaned(side[call.cand], call.op))
    /\ Return("retry")
    /\ UNCHANGED <<live, nextVersion, orphans, proven>>

SaveFailRequired ==
    /\ At("saveFailRequired")
    /\ side' = WithCandidate(call.cand, Obliged(side[call.cand], call.op))
    /\ Return("platform_failure")
    /\ UNCHANGED <<live, nextVersion, orphans, proven>>

SaveRetryCleaned ==
    /\ At("saveRetryCleaned")
    /\ side' = WithCandidate(call.cand,
                 Cleaned(side[call.cand], side[call.cand].retry))
    /\ Return("retry")
    /\ UNCHANGED <<live, nextVersion, orphans, proven>>

SaveCleaned ==
    /\ At("saveCleaned")
    /\ side' = WithCandidate(call.cand,
                 Cleaned(side[call.cand], side[call.cand].retry))
    /\ Return("cleaned")
    /\ UNCHANGED <<live, nextVersion, orphans, proven>>

\* A draft that is gone can neither be verified nor evaluated.
VerifyFails ==
    /\ At("verify")
    /\ Goto("failDelete")
    /\ UNCHANGED <<side, live, nextVersion, orphans, proven>>

RunFails ==
    /\ At("run")
    /\ Return("platform_failure")
    /\ UNCHANGED <<side, live, nextVersion, orphans, proven>>

DraftIsGone == call.draft \notin live /\ (VerifyFails \/ RunFails)

Work ==
    \/ Create \/ Verify \/ Run \/ DraftIsGone
    \/ Delete("failDelete", "saveFailCleaned")
    \/ Delete("retryDelete", "saveRetryCleaned")
    \/ Delete("delete", "saveCleaned")
    \/ SaveReference \/ SaveVerified \/ SaveSummary \/ SaveFailCleaned
    \/ SaveFailRequired \/ SaveRetryCleaned \/ SaveCleaned

-----------------------------------------------------------------------------
(* The calls to Foundry that fail: a rejected request, a lost answer, a   *)
(* deadline, code that does not match.  A lost answer leaves its effect.   *)

CreateFailureIgnored ==
    /\ At("create")
    /\ Goto("saveReference")
    /\ UNCHANGED <<side, live, nextVersion, orphans, proven>>

CreateFails ==
    /\ At("create")
    /\ ReturnNoDraft
    /\ UNCHANGED <<side, live, nextVersion, orphans, proven>>

CreateLosesAnswer ==
    /\ At("create")
    /\ nextVersion <= MaxVersion
    /\ live' = live \cup {nextVersion}
    /\ orphans' = orphans \cup {nextVersion}
    /\ nextVersion' = nextVersion + 1
    /\ ReturnNoDraft
    /\ UNCHANGED <<side, proven>>

DeleteFailureIgnored ==
    /\ call.step \in {"failDelete", "retryDelete", "delete"}
    /\ live' \in {live, live \ {call.draft}}
    /\ CASE At("failDelete")  -> Goto("saveFailCleaned")
         [] At("retryDelete") -> Return("platform_failure")
         [] At("delete")      -> Return("failed")
    /\ UNCHANGED <<side, nextVersion, orphans, proven>>

\* The delete failed, or succeeded and the check of the route after it failed.
DeleteFails ==
    /\ call.step \in {"failDelete", "retryDelete", "delete"}
    /\ live' \in {live, live \ {call.draft}}
    /\ CASE At("failDelete")  -> Goto("saveFailRequired")
         [] At("retryDelete") -> Return("platform_failure")
         [] At("delete")      -> Return("failed")
    /\ UNCHANGED <<side, nextVersion, orphans, proven>>

Fault ==
    CreateFails \/ CreateLosesAnswer \/ VerifyFails \/ RunFails \/ DeleteFails

\* The process dies, or an exception no handler catches ends the command
\* (RouteDriftError after a creation, a deletion or a run).
Abort ==
    /\ ~At("idle")
    /\ call' = Idle
    /\ orphans' = IF At("saveReference") THEN orphans \cup {call.draft}
                                         ELSE orphans
    /\ UNCHANGED <<side, live, nextVersion, proven>>

-----------------------------------------------------------------------------
(* The runtime under a caller that calls any method at any time.           *)

Consume ==
    /\ At("done")
    /\ call' = Idle
    /\ UNCHANGED <<side, live, nextVersion, orphans, proven>>

CallCandidate == \E c \in Candidates : Begin(EnterCandidate(c))

CallValidating == \E c \in Candidates : Begin(EnterValidating(c))

CallCleanup ==
    \E draft \in Versions, retained \in {{}, Candidates} :
        Begin(EnterCleanup(draft, retained))

Next == CallCandidate \/ CallValidating \/ CallCleanup
            \/ Work \/ Fault \/ Abort \/ Consume

Spec == Init /\ [][Next]_vars

-----------------------------------------------------------------------------
(* Properties.                                                             *)

\* Every variable keeps its type; the file never holds a record of the wrong
\* shape.
TypeOK ==
    /\ DOMAIN side \subseteq Candidates
    /\ \A c \in DOMAIN side : side[c] \in Sidecar
    /\ live \subseteq Versions
    /\ nextVersion \in 1..(MaxVersion + 1)
    /\ call \in Call
    /\ orphans \subseteq Versions
    /\ proven \subseteq Versions

\* _CandidateSidecar.validate_candidate, as far as the types
\* leave it open.
ValidCandidate(r) ==
    /\ r.val # None => r.dev # None
    /\ r.retry = "candidate" => r.dev = None
    /\ r.retry = "validating" => r.dev # None
    /\ r.retry # "none" => r.val = None
    /\ r.ref \/ r.receipt \/ r.dev # None
    /\ ~(r.receipt /\ r.ref)
    /\ r.cleanupRequired => r.ref /\ ~r.receipt

\* The validators that RuntimeSidecarStore.save runs again on every save
\* (runtime.py 361-385 and 405-412) accept every record the methods build, in
\* whatever order they are called, interrupted and called again: a save never
\* raises after a call to Foundry took effect.
SidecarsRevalidate ==
    /\ \A c \in DOMAIN side : ValidCandidate(side[c])
    /\ \A c, d \in DOMAIN side : side[c].draft = side[d].draft => c = d

\* "exact draft ownership": each draft that exists at Foundry is the one a
\* stored reference names, the one the running method holds, or an orphan of a
\* creation that was cut before its reference was saved.  No overwrite of a
\* record, and no retry, ever forgets a draft.
DraftsAccounted ==
    \A v \in live :
        \/ \E c \in DOMAIN side : side[c].ref /\ side[c].draft = v
        \/ At("saveReference") /\ call.draft = v
        \/ v \in orphans

\* A cleanup receipt is only stored once the draft it names is gone, and a
\* draft that is gone never comes back under the receipt.
ReceiptMeansDeleted ==
    \A c \in DOMAIN side : side[c].receipt => side[c].draft \notin live

\* An evaluation runs, and its summary is stored, only on a draft whose
\* downloaded code was compared with the finalized source ZIP, also when the
\* evaluation resumes in a later process that trusts the stored flags.
EvaluatesOnlyProvenCode ==
    /\ call.step \in {"run", "saveSummary"} => call.draft \in proven
    /\ \A c \in DOMAIN side :
         side[c].verified \/ side[c].val # None => side[c].draft \in proven

\* A step that leaves every stored summary as it is.
SummariesKept ==
    \A c \in DOMAIN side :
        /\ c \in DOMAIN side'
        /\ side[c].dev # None => side'[c].dev = side[c].dev
        /\ side[c].val # None => side'[c].val = side[c].val

\* A stored development summary is evidence: no later call, retry or cleanup
\* replaces or drops it, nor the validating summary.
SummariesAreFinal == [][SummariesKept]_vars

=============================================================================
