------------------------- MODULE DraftRuntime_proofs -------------------------
(***************************************************************************)
(* Theorems about DraftRuntime, for every set of candidates and summaries *)
(* and any number of versions.  They rest on one inductive invariant: what *)
(* holds of the stored records and of the drafts between any two steps,   *)
(* and what the frame of the running method may rely on at each step.      *)
(***************************************************************************)
EXTENDS DraftRuntime, TLAPS

\* One stored record, the drafts it names and the drafts that exist.
StoredFits(r) ==
    /\ r \in Sidecar
    /\ ValidCandidate(r)
    /\ r.draft < nextVersion
    /\ r.ref /\ r.retry # "none" <=> r.cleanupRequired
    /\ r.ref \/ r.receipt
    /\ r.receipt => r.draft \notin live
    /\ r.verified \/ r.val # None => r.draft \in proven

\* Foundry numbers drafts upwards, so a new one is never known yet.
FilesFit ==
    /\ DOMAIN side \subseteq Candidates
    /\ \A c \in DOMAIN side : StoredFits(side[c])
    /\ \A c, d \in DOMAIN side : side[c].draft = side[d].draft => c = d
    /\ nextVersion \in 1..(MaxVersion + 1)
    /\ \A v \in live \cup orphans \cup proven : v \in Versions /\ v < nextVersion

\* Steps at which the method works on the draft its candidate's record names.
OnDraft == Steps \ {"idle", "create", "saveReference", "done"}

Deleting == {"delete", "saveCleaned"}

\* Steps at which that draft was deleted a moment ago.
JustDeleted == {"saveFailCleaned", "saveRetryCleaned", "saveCleaned"}

\* What the record of the candidate under evaluation looks like.
EvaluationFits(r, op) ==
    /\ op = "candidate" => r.dev = None
    /\ op = "validating" => r.dev # None
    /\ r.val = None

CreatingFits ==
    At("create") \/ At("saveReference") =>
        /\ call.cand \in Candidates
        /\ call.op \in {"candidate", "validating"}
        /\ call.op = "validating" => call.cand \in DOMAIN side
        /\ call.cand \in DOMAIN side =>
             EvaluationFits(side[call.cand], call.op) /\ ~side[call.cand].ref

HoldsNewDraft ==
    At("saveReference") =>
        /\ call.draft \in live /\ call.draft \notin orphans
        /\ \A c \in DOMAIN side : side[c].draft # call.draft

WorkingFits ==
    call.step \in OnDraft =>
        /\ call.cand \in DOMAIN side
        /\ side[call.cand].ref
        /\ call.draft = side[call.cand].draft
        /\ call.step \notin Deleting =>
             /\ call.op \in {"candidate", "validating"}
             /\ EvaluationFits(side[call.cand], call.op)
        /\ call.step \in {"verify", "saveVerified", "run", "saveSummary"} =>
             ~side[call.cand].cleanupRequired
        /\ call.step \in {"saveVerified", "run", "saveSummary"} =>
             call.draft \in proven
        /\ call.step \in JustDeleted => call.draft \notin live
        /\ At("saveVerified") => call.op = "candidate"
        /\ At("saveSummary") => call.summary # None

CallFits ==
    /\ call \in Call
    /\ CreatingFits /\ HoldsNewDraft /\ WorkingFits

IInv == FilesFit /\ CallFits /\ DraftsAccounted

\* The invariant has the invariants of DraftRuntime as consequences.
LEMMA Consequences ==
    ASSUME IInv
    PROVE  /\ TypeOK
           /\ SidecarsRevalidate
           /\ DraftsAccounted
           /\ ReceiptMeansDeleted
           /\ EvaluatesOnlyProvenCode
<1> USE DEF IInv, FilesFit, CallFits, StoredFits
<1>1. TypeOK
  BY DEF TypeOK
<1>2. SidecarsRevalidate
  BY DEF SidecarsRevalidate
<1>3. ReceiptMeansDeleted
  BY DEF ReceiptMeansDeleted
<1>4. EvaluatesOnlyProvenCode
  BY DEF EvaluatesOnlyProvenCode, WorkingFits, OnDraft, Steps
<1>5. QED
  BY <1>1, <1>2, <1>3, <1>4

-----------------------------------------------------------------------------
(* The files.                                                              *)

\* Replacing one record keeps the others.
LEMMA Replaced ==
    ASSUME NEW c, NEW r, side' = WithCandidate(c, r)
    PROVE  /\ DOMAIN side' = DOMAIN side \cup {c}
           /\ side'[c] = r
           /\ \A d \in DOMAIN side \ {c} : side'[d] = side[d]
BY DEF WithCandidate

\* A save that replaces one record by a sound one keeps the files sound, and
\* forgets no draft when the new record names what the old one and the frame
\* named.
LEMMA SaveKeepsFiles ==
    ASSUME FilesFit, DraftsAccounted,
           NEW c \in Candidates, NEW r,
           side' = WithCandidate(c, r),
           UNCHANGED <<live, nextVersion, orphans, proven>>,
           StoredFits(r),
           \A d \in DOMAIN side \ {c} : side[d].draft # r.draft,
           c \in DOMAIN side /\ side[c].ref /\ side[c].draft \in live =>
               r.ref /\ r.draft = side[c].draft,
           At("saveReference") => r.ref /\ r.draft = call.draft
    PROVE  FilesFit' /\ DraftsAccounted'
<1>1. /\ DOMAIN side' = DOMAIN side \cup {c}
      /\ side'[c] = r
      /\ \A d \in DOMAIN side \ {c} : side'[d] = side[d]
  BY Replaced
<1>2. \A d \in DOMAIN side' : StoredFits(side[d])'
  <2> TAKE d \in DOMAIN side'
  <2>1. StoredFits(side'[d])
    BY <1>1 DEF FilesFit
  <2>2. QED
    BY <2>1 DEF StoredFits
<1>3. \A d, e \in DOMAIN side' : side'[d].draft = side'[e].draft => d = e
  BY <1>1 DEF FilesFit
<1>4. FilesFit'
  BY <1>1, <1>2, <1>3 DEF FilesFit
<1>5. DraftsAccounted'
  <2> SUFFICES ASSUME NEW v \in live
               PROVE  \/ \E d \in DOMAIN side' :
                           side'[d].ref /\ side'[d].draft = v
                      \/ v \in orphans
    BY DEF DraftsAccounted
  <2>1. CASE v \in orphans
    BY <2>1
  <2>2. CASE At("saveReference") /\ call.draft = v
    BY <2>2, <1>1
  <2>3. CASE \E d \in DOMAIN side : side[d].ref /\ side[d].draft = v
    BY <2>3, <1>1
  <2>4. QED
    BY <2>1, <2>2, <2>3 DEF DraftsAccounted
<1>6. QED
  BY <1>4, <1>5

-----------------------------------------------------------------------------
(* Entering a method.                                                      *)

\* A frame that entering a method builds is one the steps may rely on.
LEMMA EnteringKeeps ==
    ASSUME IInv, NEW frame, Begin(frame),
           frame \in Call,
           frame.step \in {"create", "retryDelete", "run", "verify", "delete",
                           "done"},
           (call' = frame) => CreatingFits' /\ WorkingFits'
    PROVE  IInv'
<1> USE DEF IInv, Begin
<1>1. FilesFit'
  BY DEF FilesFit, StoredFits
<1>2. CallFits'
  BY DEF CallFits, HoldsNewDraft, At
<1>3. DraftsAccounted'
  BY DEF DraftsAccounted, At
<1>4. QED
  BY <1>1, <1>2, <1>3

LEMMA EnterCandidateKeeps ==
    ASSUME IInv, NEW c \in Candidates, Begin(EnterCandidate(c))
    PROVE  IInv'
<1> DEFINE f == EnterCandidate(c)
<1>1. /\ f \in Call
      /\ f.op = "candidate" /\ f.cand = c
      /\ f.step \in {"create", "retryDelete", "run", "verify", "done"}
  BY DEF EnterCandidate, Frame, Finished, Call, Ops, Steps, Statuses, None,
         IInv, FilesFit, StoredFits, Sidecar
<1>2. CreatingFits' /\ WorkingFits'
  BY <1>1 DEF EnterCandidate, Frame, Finished, Begin, CreatingFits, WorkingFits,
         EvaluationFits, IInv, FilesFit, StoredFits, ValidCandidate, Sidecar,
         HasVerifiedReference, At, OnDraft, Deleting, JustDeleted, Steps
<1>3. QED
  BY <1>1, <1>2, EnteringKeeps

LEMMA EnterValidatingKeeps ==
    ASSUME IInv, NEW c \in Candidates, Begin(EnterValidating(c))
    PROVE  IInv'
<1> DEFINE f == EnterValidating(c)
<1>1. /\ f \in Call
      /\ f.op = "validating" /\ f.cand = c
      /\ f.step \in {"create", "retryDelete", "verify", "done"}
  BY DEF EnterValidating, Frame, Finished, Call, Ops, Steps, Statuses, None,
         IInv, FilesFit, StoredFits, Sidecar
<1>2. CreatingFits' /\ WorkingFits'
  BY <1>1 DEF EnterValidating, Frame, Finished, Begin, CreatingFits, WorkingFits,
         EvaluationFits, IInv, FilesFit, StoredFits, ValidCandidate, Sidecar,
         At, OnDraft, Deleting, JustDeleted, Steps
<1>3. QED
  BY <1>1, <1>2, EnteringKeeps

LEMMA EnterCleanupKeeps ==
    ASSUME IInv, NEW draft \in Versions, NEW retained,
           Begin(EnterCleanup(draft, retained))
    PROVE  IInv'
<1> DEFINE f == EnterCleanup(draft, retained)
           owner == CHOOSE x \in Owners(draft) : TRUE
<1>1. Owners(draft) # {} =>
        owner \in DOMAIN side /\ side[owner].draft = draft
  BY DEF Owners
<1> HIDE DEF owner
<1>2. \/ f = Finished("cleanup", None, draft, "raised")
      \/ /\ Owners(draft) # {}
         /\ f \in {Finished("cleanup", owner, draft, "cleaned"),
                  Finished("cleanup", owner, draft, "failed"),
                  Finished("cleanup", owner, draft, "raised")}
      \/ /\ Owners(draft) # {} /\ side[owner].ref
         /\ f = Frame("cleanup", owner, "delete", draft)
  BY DEF EnterCleanup, owner
<1>3. /\ f \in Call
      /\ f.step \in {"delete", "done"}
  BY <1>1, <1>2 DEF Frame, Finished, Call, Ops, Steps, Statuses, None, IInv, FilesFit
<1>4. CreatingFits' /\ WorkingFits'
  BY <1>1, <1>2 DEF Frame, Finished, Begin, CreatingFits, WorkingFits, At, OnDraft,
         Deleting, JustDeleted, Steps
<1>5. QED
  BY <1>3, <1>4, EnteringKeeps

-----------------------------------------------------------------------------
(* Calls to Foundry, and the ends of a method.                             *)

\* Only the frame changes, and it holds no new draft.
LEMMA MovingKeeps ==
    ASSUME IInv, UNCHANGED <<side, live, nextVersion, orphans>>,
           ~At("saveReference"), ~At("saveReference")',
           proven \subseteq proven',
           \A v \in proven' \ proven : v \in Versions /\ v < nextVersion,
           call' \in Call, CreatingFits', WorkingFits'
    PROVE  IInv'
<1>1. FilesFit'
  BY DEF IInv, FilesFit, StoredFits
<1>2. DraftsAccounted'
  BY DEF IInv, DraftsAccounted
<1>3. QED
  BY <1>1, <1>2 DEF IInv, CallFits, HoldsNewDraft

LEMMA CreateKeeps ==
    ASSUME IInv, Create \/ CreateLosesAnswer
    PROVE  IInv'
<1> USE DEF IInv, CallFits, FilesFit
<1>1. /\ At("create")
      /\ nextVersion \in Versions /\ nextVersion \notin live
      /\ live' = live \cup {nextVersion} /\ nextVersion' = nextVersion + 1
      /\ UNCHANGED <<side, proven>>
      /\ orphans' \subseteq orphans \cup {nextVersion}
      /\ \A c \in DOMAIN side : side[c].draft # nextVersion
  BY MaxVersionAssumption DEF Create, CreateLosesAnswer, Versions, StoredFits, Sidecar
<1>2. FilesFit'
  <2>1. \A c \in DOMAIN side' : StoredFits(side[c])'
    BY <1>1 DEF StoredFits, Sidecar, Versions
  <2>2. \A v \in live' \cup orphans' \cup proven' :
          v \in Versions /\ v < nextVersion'
    BY <1>1 DEF Versions
  <2>3. nextVersion' \in 1..(MaxVersion + 1)
    BY <1>1, MaxVersionAssumption DEF Versions
  <2>4. QED
    BY <1>1, <2>1, <2>2, <2>3
<1>3. CASE Create
  <2>1. call' = [call EXCEPT !.step = "saveReference", !.draft = nextVersion]
    BY <1>3 DEF Create
  <2>2. /\ call' \in Call /\ At("saveReference")' /\ call'.draft = nextVersion
        /\ call'.op = call.op /\ call'.cand = call.cand
    BY <1>1, <2>1 DEF Call, Steps, At
  <2>3. CreatingFits' /\ WorkingFits'
    BY <1>1, <2>2 DEF CreatingFits, WorkingFits, OnDraft, EvaluationFits, At
  <2>4. HoldsNewDraft'
    BY <1>1, <1>3, <2>2 DEF Create, HoldsNewDraft
  <2>5. DraftsAccounted'
    BY <1>1, <1>3, <2>2 DEF Create, DraftsAccounted, At
  <2>6. QED
    BY <1>2, <2>2, <2>3, <2>4, <2>5
<1>4. CASE CreateLosesAnswer
  <2>1. CallFits'
    BY <1>1, <1>4 DEF CreateLosesAnswer, ReturnNoDraft, Call, Steps, Statuses,
           CreatingFits, HoldsNewDraft, WorkingFits, OnDraft, At
  <2>2. DraftsAccounted'
    BY <1>1, <1>4 DEF CreateLosesAnswer, DraftsAccounted, At
  <2>3. QED
    BY <1>2, <2>1, <2>2
<1>5. QED
  BY <1>3, <1>4

LEMMA VerifyKeeps ==
    ASSUME IInv, Verify
    PROVE  IInv'
<1>1. /\ call' \in Call /\ CreatingFits' /\ WorkingFits'
  BY DEF IInv, CallFits, Verify, Goto, Call, Steps, CreatingFits, WorkingFits,
         OnDraft, Deleting, JustDeleted, EvaluationFits, At
<1>2. call.draft \in Versions /\ call.draft < nextVersion
  BY DEF IInv, FilesFit, Verify
<1>3. QED
  BY <1>1, <1>2, MovingKeeps DEF Verify, Goto, At, IInv, CallFits, Call

LEMMA RunKeeps ==
    ASSUME IInv, Run
    PROVE  IInv'
<1>1. /\ call' \in Call /\ CreatingFits' /\ WorkingFits'
  BY SummariesAssumption, ZenonT(40)
     DEF IInv, CallFits, Run, Call, Steps, CreatingFits, WorkingFits,
         OnDraft, Deleting, JustDeleted, EvaluationFits, At
<1>2. QED
  BY <1>1, MovingKeeps DEF Run, At, IInv, CallFits, Call

LEMMA FailuresKeep ==
    ASSUME IInv, CreateFails \/ VerifyFails \/ RunFails
    PROVE  IInv'
<1>1. /\ call' \in Call /\ CreatingFits' /\ WorkingFits'
  BY ZenonT(40) DEF IInv, CallFits, CreateFails, ReturnNoDraft, VerifyFails, RunFails,
         Goto, Return, Call, Steps, Statuses, CreatingFits, WorkingFits,
         OnDraft, Deleting, JustDeleted, EvaluationFits, At
<1>2. QED
  BY <1>1, MovingKeeps DEF CreateFails, ReturnNoDraft, VerifyFails, RunFails,
         Goto, Return, At, IInv, CallFits, Call

\* A draft that is deleted takes no promise of the files with it.
LEMMA DeletingKeeps ==
    ASSUME IInv, call.step \in {"failDelete", "retryDelete", "delete"},
           live' \in {live, live \ {call.draft}},
           UNCHANGED <<side, nextVersion, orphans, proven>>,
           ~At("saveReference")',
           call' \in Call, CreatingFits', WorkingFits'
    PROVE  IInv'
<1>1. FilesFit'
  BY DEF IInv, FilesFit, StoredFits
<1>2. DraftsAccounted'
  BY DEF IInv, DraftsAccounted, At
<1>3. QED
  BY <1>1, <1>2 DEF IInv, CallFits, HoldsNewDraft

LEMMA DeleteKeeps ==
    ASSUME IInv,
           \/ Delete("failDelete", "saveFailCleaned")
           \/ Delete("retryDelete", "saveRetryCleaned")
           \/ Delete("delete", "saveCleaned")
           \/ DeleteFails
    PROVE  IInv'
<1>1. CASE \/ Delete("failDelete", "saveFailCleaned")
           \/ Delete("retryDelete", "saveRetryCleaned")
           \/ Delete("delete", "saveCleaned")
  <2>1. PICK to \in JustDeleted :
          /\ call' = [call EXCEPT !.step = to]
          /\ live' = live \ {call.draft}
          /\ call.step \in {"failDelete", "retryDelete", "delete"}
          /\ to \in Deleting <=> call.step \in Deleting
    BY <1>1 DEF Delete, Goto, At, JustDeleted, Deleting
  <2>2. /\ call' \in Call /\ call'.step = to
        /\ call'.op = call.op /\ call'.cand = call.cand
        /\ call'.draft = call.draft
    BY <2>1 DEF IInv, CallFits, Call, Steps, JustDeleted
  <2>3. UNCHANGED <<side, nextVersion, orphans, proven>>
    BY <1>1 DEF Delete
  <2>4. CreatingFits' /\ WorkingFits'
    BY <2>1, <2>2, <2>3 DEF IInv, CallFits, Steps, CreatingFits,
           WorkingFits, OnDraft, Deleting, JustDeleted, EvaluationFits, At
  <2>5. QED
    BY <2>1, <2>2, <2>3, <2>4, DeletingKeeps DEF At, JustDeleted
<1>2. CASE DeleteFails
  <2> USE DEF IInv, CallFits
  <2>1. CASE At("failDelete")
    <3>1. call' = [call EXCEPT !.step = "saveFailRequired"]
      BY <1>2, <2>1 DEF DeleteFails, Goto, At
    <3>2. call' \in Call /\ CreatingFits' /\ WorkingFits' /\ ~At("saveReference")'
      BY <1>2, <2>1, <3>1 DEF DeleteFails, Call, Steps, CreatingFits, WorkingFits,
             OnDraft, Deleting, JustDeleted, EvaluationFits, At
    <3>3. QED
      BY <1>2, <3>2, DeletingKeeps DEF DeleteFails
  <2>2. CASE ~At("failDelete")
    <3>1. PICK status \in {"platform_failure", "failed"} :
            call' = [call EXCEPT !.step = "done", !.status = status]
      BY <1>2, <2>2 DEF DeleteFails, Return, At
    <3>2. call' \in Call /\ CreatingFits' /\ WorkingFits' /\ ~At("saveReference")'
      BY <3>1 DEF Call, Steps, Statuses, CreatingFits, WorkingFits, OnDraft, At
    <3>3. QED
      BY <1>2, <3>2, DeletingKeeps DEF DeleteFails
  <2>3. QED
    BY <2>1, <2>2
<1>3. QED
  BY <1>1, <1>2

LEMMA AbortKeeps ==
    ASSUME IInv, Abort \/ Consume
    PROVE  IInv'
<1>1. call' = Idle /\ call' \in Call
  BY DEF Abort, Consume, Idle, Call, Ops, Steps, Statuses, None
<1>2. CallFits'
  BY <1>1 DEF CallFits, Idle, CreatingFits, HoldsNewDraft, WorkingFits,
         OnDraft, At
<1>3. FilesFit'
  BY DEF IInv, CallFits, FilesFit, HoldsNewDraft, StoredFits, Abort, Consume
<1>4. DraftsAccounted'
  BY <1>1 DEF IInv, DraftsAccounted, Abort, Consume, At, Idle
<1>5. QED
  BY <1>2, <1>3, <1>4 DEF IInv

-----------------------------------------------------------------------------
(* Saves.                                                                  *)

\* A save of the running method's record that leaves the frame at a step
\* where the record fits it.
LEMMA SavingKeeps ==
    ASSUME IInv, NEW r,
           call.step \in OnDraft \ Deleting \/ At("saveCleaned"),
           side' = WithCandidate(call.cand, r),
           UNCHANGED <<live, nextVersion, orphans, proven>>,
           StoredFits(r),
           r.draft = call.draft,
           r.ref \/ call.draft \notin live,
           ~At("saveReference")', ~At("create")',
           call' \in Call, WorkingFits'
    PROVE  IInv'
<1>1. /\ call.cand \in DOMAIN side /\ call.cand \in Candidates
      /\ call.draft = side[call.cand].draft
      /\ ~At("saveReference")
  BY DEF IInv, CallFits, FilesFit, WorkingFits, OnDraft, Deleting, Steps, At
<1>2. \A d \in DOMAIN side \ {call.cand} : side[d].draft # r.draft
  BY <1>1 DEF IInv, FilesFit
<1>3. FilesFit' /\ DraftsAccounted'
  BY <1>1, <1>2, SaveKeepsFiles DEF IInv
<1>4. QED
  BY <1>3 DEF IInv, CallFits, CreatingFits, HoldsNewDraft

LEMMA SaveReferenceKeeps ==
    ASSUME IInv, SaveReference
    PROVE  IInv'
<1> USE DEF IInv, CallFits
<1> DEFINE c == call.cand
           r == IF call.op = "candidate" THEN FreshSidecar(call.draft)
                ELSE [side[c] EXCEPT !.draft = call.draft,
                        !.ref = TRUE, !.verified = FALSE,
                        !.cleanupRequired = FALSE, !.retry = "none",
                        !.receipt = FALSE]
<1>1. /\ At("saveReference") /\ side' = WithCandidate(c, r)
      /\ UNCHANGED <<live, nextVersion, orphans, proven>>
      /\ call' = [call EXCEPT !.step = "verify"]
  BY DEF SaveReference, Goto
<1>2. /\ c \in Candidates /\ call.op \in {"candidate", "validating"}
      /\ call.draft \in live /\ call.draft \in Versions
      /\ call.draft < nextVersion
      /\ \A d \in DOMAIN side : side[d].draft # call.draft
      /\ c \in DOMAIN side => ~side[c].ref
      /\ call.op = "validating" => c \in DOMAIN side /\ EvaluationFits(side[c], call.op)
  BY <1>1 DEF CreatingFits, HoldsNewDraft, FilesFit
<1>3. /\ StoredFits(r) /\ r.ref /\ r.draft = call.draft
      /\ ~r.cleanupRequired /\ EvaluationFits(r, call.op)
  <2>1. CASE call.op = "candidate"
    BY <1>2, <2>1 DEF StoredFits, ValidCandidate, FreshSidecar, Sidecar,
           Retries, EvaluationFits, None
  <2>2. CASE call.op = "validating"
    <3>1. side[c] \in Sidecar /\ side[c].dev # None /\ side[c].val = None
      BY <1>2, <2>2 DEF FilesFit, StoredFits, EvaluationFits
    <3>2. r = [side[c] EXCEPT !.draft = call.draft,
                 !.ref = TRUE, !.verified = FALSE,
                 !.cleanupRequired = FALSE, !.retry = "none",
                 !.receipt = FALSE]
      BY <2>2
    <3>3. /\ r \in Sidecar /\ r.draft = call.draft
          /\ r.ref /\ ~r.verified /\ ~r.cleanupRequired /\ ~r.receipt
          /\ r.retry = "none" /\ r.dev = side[c].dev /\ r.val = None
      BY <1>2, <3>1, <3>2 DEF Sidecar, Retries
    <3> HIDE DEF r
    <3>4. QED
      BY <1>2, <3>1, <3>3, <2>2 DEF StoredFits, ValidCandidate, EvaluationFits
  <2>3. QED
    BY <1>2, <2>1, <2>2
<1> HIDE DEF r
<1>4. FilesFit' /\ DraftsAccounted'
  BY <1>1, <1>2, <1>3, SaveKeepsFiles
<1>5. /\ side'[c] = r /\ c \in DOMAIN side'
      /\ call' \in Call /\ At("verify")' /\ call'.draft = call.draft
      /\ call'.cand = c /\ call'.op = call.op
  <2>1. side'[c] = r /\ c \in DOMAIN side'
    BY <1>1, Replaced
  <2>2. call \in Call
    OBVIOUS
  <2>3. QED
    BY <1>1, <2>1, <2>2 DEF Call, Steps, At
<1>6. CallFits'
  BY <1>2, <1>3, <1>5 DEF CreatingFits, HoldsNewDraft, WorkingFits, OnDraft,
         Deleting, JustDeleted, At
<1>7. QED
  BY <1>4, <1>6

LEMMA SaveVerifiedKeeps ==
    ASSUME IInv, SaveVerified
    PROVE  IInv'
<1> USE DEF IInv, CallFits
<1> DEFINE c == call.cand
           r == [side[c] EXCEPT !.ref = TRUE, !.verified = TRUE,
                   !.cleanupRequired = FALSE, !.retry = "none",
                   !.receipt = FALSE]
<1>1. /\ At("saveVerified") /\ side' = WithCandidate(c, r)
      /\ UNCHANGED <<live, nextVersion, orphans, proven>>
      /\ call' = [call EXCEPT !.step = "run"]
  BY DEF SaveVerified, Goto
<1>2. /\ c \in DOMAIN side /\ side[c] \in Sidecar /\ StoredFits(side[c])
      /\ call.draft = side[c].draft /\ call.draft \in proven
      /\ call.op = "candidate" /\ EvaluationFits(side[c], call.op)
  BY <1>1 DEF WorkingFits, FilesFit, StoredFits, OnDraft, Deleting, Steps, At
<1>3. /\ r \in Sidecar /\ r.draft = call.draft
      /\ r.ref /\ r.verified /\ ~r.cleanupRequired /\ ~r.receipt
      /\ r.retry = "none" /\ r.dev = side[c].dev /\ r.val = side[c].val
  BY <1>2 DEF Sidecar, Retries
<1> HIDE DEF r
<1>4. StoredFits(r) /\ EvaluationFits(r, call.op)
  BY <1>2, <1>3 DEF StoredFits, ValidCandidate, EvaluationFits
<1>5. /\ side'[c] = r /\ c \in DOMAIN side'
      /\ call' \in Call /\ At("run")' /\ call'.draft = call.draft
      /\ call'.cand = c /\ call'.op = call.op
  <2>1. side'[c] = r /\ c \in DOMAIN side'
    BY <1>1, Replaced
  <2>2. call \in Call
    OBVIOUS
  <2>3. QED
    BY <1>1, <2>1, <2>2 DEF Call, Steps, At
<1>6. WorkingFits' /\ ~At("saveReference")' /\ ~At("create")'
  BY <1>1, <1>2, <1>3, <1>4, <1>5 DEF WorkingFits, OnDraft, Deleting, JustDeleted, At
<1>7. QED
  BY <1>1, <1>3, <1>4, <1>5, <1>6, SavingKeeps DEF OnDraft, Deleting, Steps, At

LEMMA SaveSummaryKeeps ==
    ASSUME IInv, SaveSummary
    PROVE  IInv'
<1> USE DEF IInv, CallFits
<1> DEFINE c == call.cand
           r == IF call.op = "candidate"
                THEN [side[c] EXCEPT !.dev = call.summary]
                ELSE [side[c] EXCEPT !.ref = TRUE, !.verified = TRUE,
                        !.cleanupRequired = FALSE, !.retry = "none",
                        !.val = call.summary]
<1>1. /\ At("saveSummary") /\ side' = WithCandidate(c, r)
      /\ UNCHANGED <<live, nextVersion, orphans, proven>>
      /\ call' = [call EXCEPT !.step = "done", !.status = "ok"]
  BY DEF SaveSummary, Return
<1>2. /\ c \in DOMAIN side /\ side[c] \in Sidecar /\ StoredFits(side[c])
      /\ side[c].ref /\ ~side[c].cleanupRequired
      /\ call.draft = side[c].draft /\ call.draft \in proven
      /\ call.op \in {"candidate", "validating"}
      /\ EvaluationFits(side[c], call.op)
      /\ call.summary \in Summaries /\ call.summary # None
  BY <1>1 DEF WorkingFits, FilesFit, StoredFits, OnDraft, Deleting, Steps, At, Call
<1>3. /\ r \in Sidecar /\ r.draft = call.draft
      /\ r.ref /\ ~r.cleanupRequired
      /\ r.receipt = side[c].receipt
      /\ r.retry \in {"none", side[c].retry} /\ r.dev # None
      /\ call.op = "validating" => r.retry = "none"
      /\ call.op = "candidate" => r.val = None
  BY <1>2 DEF Sidecar, Retries, EvaluationFits
<1> HIDE DEF r
<1>4. StoredFits(r)
  BY <1>2, <1>3 DEF StoredFits, ValidCandidate, EvaluationFits
<1>5. /\ call' \in Call /\ At("done")'
  BY <1>1 DEF Call, Steps, Statuses, At
<1>6. WorkingFits' /\ ~At("saveReference")' /\ ~At("create")'
  BY <1>5 DEF WorkingFits, OnDraft, At
<1>7. QED
  BY <1>1, <1>3, <1>4, <1>5, <1>6, SavingKeeps DEF OnDraft, Deleting, Steps, At

\* A record whose draft is gone, and one whose draft could not be deleted.
LEMMA CleanedFits ==
    ASSUME NEW r, NEW phase, StoredFits(r), r.draft \notin live,
           \/ phase = r.retry
           \/ /\ phase \in {"candidate", "validating"}
              /\ EvaluationFits(r, phase)
    PROVE  /\ StoredFits(Cleaned(r, phase))
           /\ Cleaned(r, phase).draft = r.draft
<1> DEFINE n == Cleaned(r, phase)
<1>1. /\ n \in Sidecar /\ n.draft = r.draft
      /\ ~n.ref /\ ~n.verified /\ ~n.cleanupRequired /\ n.receipt
      /\ n.retry = phase /\ n.dev = r.dev /\ n.val = r.val
  BY DEF Cleaned, StoredFits, Sidecar, Retries
<1> HIDE DEF n
<1>2. StoredFits(n)
  BY <1>1 DEF StoredFits, ValidCandidate, EvaluationFits
<1>3. QED
  BY <1>1, <1>2 DEF n

LEMMA ObligedFits ==
    ASSUME NEW r, NEW phase \in {"candidate", "validating"}, StoredFits(r),
           EvaluationFits(r, phase)
    PROVE  /\ StoredFits(Obliged(r, phase))
           /\ Obliged(r, phase).draft = r.draft
           /\ Obliged(r, phase).ref
<1> DEFINE n == Obliged(r, phase)
<1>1. /\ n \in Sidecar /\ n.draft = r.draft
      /\ n.ref /\ ~n.verified /\ n.cleanupRequired /\ ~n.receipt
      /\ n.retry = phase /\ n.dev = r.dev /\ n.val = r.val
  BY DEF Obliged, StoredFits, Sidecar, Retries
<1> HIDE DEF n
<1>2. StoredFits(n)
  BY <1>1 DEF StoredFits, ValidCandidate, EvaluationFits
<1>3. QED
  BY <1>1, <1>2 DEF n

LEMMA SaveOutcomeKeeps ==
    ASSUME IInv,
           \/ SaveFailCleaned \/ SaveFailRequired
           \/ SaveRetryCleaned \/ SaveCleaned
    PROVE  IInv'
<1> USE DEF IInv, CallFits
<1> DEFINE c == call.cand
<1>1. /\ call.step \in {"saveFailCleaned", "saveFailRequired",
                        "saveRetryCleaned", "saveCleaned"}
      /\ UNCHANGED <<live, nextVersion, orphans, proven>>
      /\ \E status \in Statuses :
           call' = [call EXCEPT !.step = "done", !.status = status]
  BY DEF SaveFailCleaned, SaveFailRequired, SaveRetryCleaned, SaveCleaned,
         Return, At, Statuses
<1>2. /\ c \in DOMAIN side /\ StoredFits(side[c])
      /\ call.draft = side[c].draft
      /\ ~At("saveCleaned") => /\ call.op \in {"candidate", "validating"}
                               /\ EvaluationFits(side[c], call.op)
      /\ ~At("saveFailRequired") => call.draft \notin live
  BY <1>1 DEF WorkingFits, FilesFit, OnDraft, Deleting, JustDeleted, Steps, At
<1>3. /\ call' \in Call /\ At("done")'
  BY <1>1 DEF Call, Steps, At
<1>4. WorkingFits' /\ ~At("saveReference")' /\ ~At("create")'
  BY <1>3 DEF WorkingFits, OnDraft, At
<1>5. PICK r : /\ side' = WithCandidate(c, r) /\ StoredFits(r)
               /\ r.draft = call.draft /\ (r.ref \/ call.draft \notin live)
  <2>1. CASE SaveFailCleaned
    BY <1>2, <2>1, CleanedFits DEF SaveFailCleaned, At
  <2>2. CASE SaveFailRequired
    BY <1>2, <2>2, ObligedFits DEF SaveFailRequired, At
  <2>3. CASE SaveRetryCleaned
    BY <1>2, <2>3, CleanedFits DEF SaveRetryCleaned, At
  <2>4. CASE SaveCleaned
    BY <1>2, <2>4, CleanedFits DEF SaveCleaned, At
  <2>5. QED
    BY <2>1, <2>2, <2>3, <2>4
<1>6. QED
  BY <1>1, <1>3, <1>4, <1>5, SavingKeeps DEF OnDraft, Deleting, Steps, At

-----------------------------------------------------------------------------
(* The theorems.                                                           *)

LEMMA InitFits == Init => IInv
<1> SUFFICES ASSUME Init PROVE IInv
  OBVIOUS
<1>1. FilesFit
  BY MaxVersionAssumption DEF Init, FilesFit
<1>2. call = Idle /\ call \in Call
  BY DEF Init, Idle, Call, Ops, Steps, Statuses, None
<1>3. CallFits
  BY <1>2 DEF CallFits, CreatingFits, HoldsNewDraft, WorkingFits, Idle,
         OnDraft, At
<1>4. DraftsAccounted
  BY DEF Init, DraftsAccounted
<1>5. QED
  BY <1>1, <1>3, <1>4 DEF IInv

LEMMA StepKeeps == IInv /\ [Next]_vars => IInv'
<1> SUFFICES ASSUME IInv, [Next]_vars PROVE IInv'
  OBVIOUS
<1>1. CASE UNCHANGED vars
  BY <1>1 DEF vars, IInv, FilesFit, StoredFits, CallFits, CreatingFits,
         HoldsNewDraft, WorkingFits, DraftsAccounted, At
<1>2. CASE CallCandidate
  BY <1>2, EnterCandidateKeeps DEF CallCandidate
<1>3. CASE CallValidating
  BY <1>3, EnterValidatingKeeps DEF CallValidating
<1>4. CASE CallCleanup
  BY <1>4, EnterCleanupKeeps DEF CallCleanup
<1>5. CASE Work
  BY <1>5, CreateKeeps, VerifyKeeps, RunKeeps, FailuresKeep, DeleteKeeps,
     SaveReferenceKeeps, SaveVerifiedKeeps, SaveSummaryKeeps, SaveOutcomeKeeps
     DEF Work, DraftIsGone
<1>6. CASE Fault
  BY <1>6, CreateKeeps, FailuresKeep, DeleteKeeps DEF Fault
<1>7. CASE Abort \/ Consume
  BY <1>7, AbortKeeps
<1>8. QED
  BY <1>1, <1>2, <1>3, <1>4, <1>5, <1>6, <1>7 DEF Next

LEMMA Inductive == Spec => []IInv
BY InitFits, StepKeeps, PTL DEF Spec

\* Whatever is called, fails or is interrupted, the sidecar file holds records
\* of the right shape and the running method works on a draft it may work on.
THEOREM TypeCorrect == Spec => []TypeOK
<1>1. IInv => TypeOK
  BY Consequences
<1>2. QED
  BY <1>1, Inductive, PTL

\* No save of the sidecar file is ever refused by its validators.
THEOREM SavesAreAccepted == Spec => []SidecarsRevalidate
<1>1. IInv => SidecarsRevalidate
  BY Consequences
<1>2. QED
  BY <1>1, Inductive, PTL

\* Exact draft ownership: no draft is forgotten but the orphans of a creation
\* that was cut short.
THEOREM NoDraftForgotten == Spec => []DraftsAccounted
<1>1. IInv => DraftsAccounted
  BY Consequences
<1>2. QED
  BY <1>1, Inductive, PTL

\* A cleanup receipt is true: its draft is gone for good.
THEOREM ReceiptsAreTrue == Spec => []ReceiptMeansDeleted
<1>1. IInv => ReceiptMeansDeleted
  BY Consequences
<1>2. QED
  BY <1>1, Inductive, PTL

\* No evaluation runs on code that was not compared with the source ZIP.
THEOREM OnlyProvenCodeEvaluated == Spec => []EvaluatesOnlyProvenCode
<1>1. IInv => EvaluatesOnlyProvenCode
  BY Consequences
<1>2. QED
  BY <1>1, Inductive, PTL

\* A save of another record, or one that keeps the summaries that are there.
LEMMA SaveKeepsSummaries ==
    ASSUME NEW c, NEW r, side' = WithCandidate(c, r),
           c \in DOMAIN side => /\ side[c].dev # None => r.dev = side[c].dev
                                /\ side[c].val # None => r.val = side[c].val
    PROVE  SummariesKept
<1>1. /\ DOMAIN side' = DOMAIN side \cup {c}
      /\ side'[c] = r
      /\ \A d \in DOMAIN side \ {c} : side'[d] = side[d]
  BY Replaced
<1>2. SUFFICES ASSUME NEW d \in DOMAIN side
               PROVE  /\ d \in DOMAIN side'
                      /\ side[d].dev # None => side'[d].dev = side[d].dev
                      /\ side[d].val # None => side'[d].val = side[d].val
  BY DEF SummariesKept
<1>3. CASE d = c
  BY <1>1, <1>3
<1>4. CASE d # c
  BY <1>1, <1>4
<1>5. QED
  BY <1>3, <1>4

LEMMA StepKeepsSummaries == IInv /\ [Next]_vars => [SummariesKept]_vars
<1> SUFFICES ASSUME IInv, Next, side' # side PROVE SummariesKept
  BY DEF vars, SummariesKept
<1> USE DEF IInv, CallFits
<1> DEFINE c == call.cand
<1>1. c \in DOMAIN side => side[c] \in Sidecar
  BY DEF FilesFit, StoredFits
<1>2. call.step \in OnDraft \ Deleting => EvaluationFits(side[c], call.op)
  BY DEF WorkingFits
<1>3. CASE SaveReference
  <2>1. c \in DOMAIN side => EvaluationFits(side[c], call.op)
    BY <1>3 DEF SaveReference, CreatingFits
  <2>2. CASE call.op = "candidate"
    <3>1. side' = WithCandidate(c, FreshSidecar(call.draft))
      BY <1>3, <2>2 DEF SaveReference
    <3>2. c \in DOMAIN side => side[c].dev = None /\ side[c].val = None
      BY <2>1, <2>2 DEF EvaluationFits
    <3>3. QED
      BY <3>1, <3>2, SaveKeepsSummaries
  <2>3. CASE call.op = "validating"
    <3>1. c \in DOMAIN side
      BY <1>3, <2>3 DEF SaveReference, CreatingFits
    <3> DEFINE r == [side[c] EXCEPT !.draft = call.draft,
                       !.ref = TRUE, !.verified = FALSE,
                       !.cleanupRequired = FALSE, !.retry = "none",
                       !.receipt = FALSE]
    <3>2. side' = WithCandidate(c, r)
      BY <1>3, <2>3 DEF SaveReference
    <3>3. r.dev = side[c].dev /\ r.val = side[c].val
      BY <1>1, <3>1 DEF Sidecar
    <3> HIDE DEF r
    <3>4. QED
      BY <3>2, <3>3, SaveKeepsSummaries
  <2>4. QED
    BY <1>3, <2>2, <2>3 DEF SaveReference, CreatingFits
<1>4. CASE SaveVerified
  <2>1. c \in DOMAIN side
    BY <1>4 DEF SaveVerified, WorkingFits, OnDraft, Steps, At
  <2> DEFINE r == [side[c] EXCEPT !.ref = TRUE, !.verified = TRUE,
                     !.cleanupRequired = FALSE, !.retry = "none",
                     !.receipt = FALSE]
  <2>2. side' = WithCandidate(c, r)
    BY <1>4 DEF SaveVerified
  <2>3. r.dev = side[c].dev /\ r.val = side[c].val
    BY <1>1, <2>1 DEF Sidecar
  <2> HIDE DEF r
  <2>4. QED
    BY <2>2, <2>3, SaveKeepsSummaries
<1>5. CASE SaveSummary
  <2>1. /\ c \in DOMAIN side /\ EvaluationFits(side[c], call.op)
        /\ call.op \in {"candidate", "validating"}
    BY <1>5 DEF SaveSummary, WorkingFits, OnDraft, Deleting, Steps, At
  <2> DEFINE r == [side[c] EXCEPT !.ref = TRUE, !.verified = TRUE,
                     !.cleanupRequired = FALSE, !.retry = "none",
                     !.val = call.summary]
  <2>2. side[c].val = None
    BY <2>1 DEF EvaluationFits
  <2>3. CASE call.op = "candidate"
    <3>1. side[c].dev = None
      BY <2>1, <2>3 DEF EvaluationFits
    <3>2. side' = WithCandidate(c, [side[c] EXCEPT !.dev = call.summary])
      BY <1>5, <2>3 DEF SaveSummary
    <3>3. QED
      BY <2>2, <3>1, <3>2, SaveKeepsSummaries
  <2>4. CASE call.op = "validating"
    <3>1. side' = WithCandidate(c, r)
      BY <1>5, <2>4 DEF SaveSummary
    <3>2. r.dev = side[c].dev
      BY <1>1, <2>1 DEF Sidecar
    <3> HIDE DEF r
    <3>3. QED
      BY <2>2, <3>1, <3>2, SaveKeepsSummaries
  <2>5. QED
    BY <2>1, <2>3, <2>4
<1>6. CASE SaveFailCleaned \/ SaveFailRequired \/ SaveRetryCleaned \/ SaveCleaned
  <2>1. c \in DOMAIN side
    BY <1>6 DEF SaveFailCleaned, SaveFailRequired, SaveRetryCleaned, SaveCleaned,
           WorkingFits, OnDraft, Steps, At
  <2>2. \A phase : /\ Cleaned(side[c], phase).dev = side[c].dev
                   /\ Cleaned(side[c], phase).val = side[c].val
                   /\ Obliged(side[c], phase).dev = side[c].dev
                   /\ Obliged(side[c], phase).val = side[c].val
    BY <1>1, <2>1 DEF Cleaned, Obliged, Sidecar
  <2>3. \E phase : \/ side' = WithCandidate(c, Cleaned(side[c], phase))
                   \/ side' = WithCandidate(c, Obliged(side[c], phase))
    BY <1>6 DEF SaveFailCleaned, SaveFailRequired, SaveRetryCleaned, SaveCleaned
  <2>4. QED
    BY <2>2, <2>3, SaveKeepsSummaries
<1>7. QED
  BY <1>3, <1>4, <1>5, <1>6
     DEF Next, CallCandidate, CallValidating, CallCleanup, Begin, Work, Fault,
         Abort, Consume, Create, Verify, Run, DraftIsGone, VerifyFails, RunFails,
         Delete, CreateFails, CreateLosesAnswer, DeleteFails

\* A development or validating summary that is stored is never replaced.
THEOREM SummariesFinal == Spec => SummariesAreFinal
BY Inductive, StepKeepsSummaries, PTL DEF Spec, SummariesAreFinal
=============================================================================
