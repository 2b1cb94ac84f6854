--------------------------- MODULE JobFiles_proofs ---------------------------
(***************************************************************************)
(* What is proved of a job's files: first of its two stores, each by       *)
(* itself, then of the job that uses both.                                 *)
(*                                                                         *)
(* StateFile: its types, that no update undoes another unless one          *)
(* overtakes it between comparison and replacement, and that the file of a *)
(* single process is the atomic register.                                  *)
(*                                                                         *)
(* CandidateFiles: for any repository, any candidates and any number of    *)
(* edits, crashes and other interruptions, what a finalized manifest       *)
(* says of the files beside it.                                            *)
(*                                                                         *)
(* JobFiles: for any setups, edits of the issue, repository and            *)
(* candidates.  The commands use the state file and the workspaces as      *)
(* those modules allow, so that what is proved of them there holds here;   *)
(* the rest follows from what a command knows at each of its steps.        *)
(***************************************************************************)
EXTENDS JobFiles, TLAPS


-----------------------------------------------------------------------------
(* The state file.                                                         *)

\* A call that has been made and not been answered holds a copy of the file.
\* Without an overtaking write the copy is no newer than the file, it is the
\* file when the generations are equal, and it still is the file after the
\* comparison; a process that has found no file is right.
CopyIsOld(p) ==
    /\ op[p].at = "loaded" =>
           /\ op[p].seen.gen <= file.gen
           /\ op[p].seen.gen = file.gen => op[p].seen = file
    /\ op[p].at = "compared" => op[p].seen = file
    /\ op[p].at = "absent" => file = NoFile
FileInv ==
    /\ FileTypeOK
    /\ ~raced => UpdatesSurvive /\ \A p \in Procs : CopyIsOld(p)
    /\ file.gen = 0 => file = NoFile

-----------------------------------------------------------------------------
(* Types.                                                                  *)

LEMMA BlankType == Blank \in [Keys -> Values]
BY ValuesAssumption DEF Blank

LEMMA NoFileType == NoFile \in FileStates
BY BlankType DEF NoFile, FileStates

LEMMA IdleType == Idle \in Ops
BY NoFileType, KeysAssumption, ValuesAssumption DEF Idle, Ops

LEMMA FileTypeInit == FileInit => FileTypeOK
BY NoFileType, IdleType, BlankType DEF FileInit, FileTypeOK

LEMMA FileTypeStep == FileTypeOK /\ [FileNext]_fvars => FileTypeOK'
<1> SUFFICES ASSUME FileTypeOK, [FileNext]_fvars PROVE FileTypeOK'
    OBVIOUS
<1> USE DEF FileTypeOK
<1>1. ASSUME NEW p \in Procs, NEW id \in Identities, Initialize(p, id)
      PROVE FileTypeOK'
  <2>1. id \in Values
      BY ValuesAssumption
  <2> QED
      BY <1>1, <2>1, KeysAssumption DEF Initialize, Quiet, Ops
<1>2. ASSUME NEW p \in Procs, NEW k \in Keys, NEW v \in Values, Update(p, k, v)
      PROVE FileTypeOK'
    BY <1>2 DEF Update, Quiet, Ops
<1>3. ASSUME NEW p \in Procs, Create(p)
      PROVE FileTypeOK'
  <2>1. op[p].value \in Values /\ op[p] \in Ops
      BY DEF Ops
  <2>2. [Blank EXCEPT !["identity"] = op[p].value] \in [Keys -> Values]
      BY <2>1, BlankType, KeysAssumption
  <2>3. file' \in FileStates
      BY <1>3, <2>2 DEF Create, FileStates
  <2>4. register' \in [Keys -> Values]
      BY <1>3, <2>1, KeysAssumption DEF Create
  <2>5. raced' \in BOOLEAN
      BY <1>3 DEF Create
  <2>6. op' \in [Procs -> Ops]
      BY <1>3 DEF Create, Reach, Ops
  <2> QED
      BY <2>3, <2>4, <2>5, <2>6
<1>4. ASSUME NEW p \in Procs, CompareGenerations(p)
      PROVE FileTypeOK'
    BY <1>4 DEF CompareGenerations, Reach, Quiet, Ops
<1>5. ASSUME NEW p \in Procs, Replace(p)
      PROVE FileTypeOK'
  <2>1. op[p].value \in Values /\ op[p].key \in Keys /\ op[p].seen \in FileStates
      BY DEF Ops
  <2>2. file' \in FileStates
      BY <1>5, <2>1 DEF Replace, NewBody, FileStates
  <2>3. register' \in [Keys -> Values]
      BY <1>5, <2>1 DEF Replace
  <2>4. raced' \in BOOLEAN
      BY <1>5 DEF Replace
  <2>5. op' \in [Procs -> Ops]
      BY <1>5 DEF Replace, Reach, Ops
  <2> QED
      BY <2>2, <2>3, <2>4, <2>5
<1>6. ASSUME NEW p \in Procs, ReturnOp(p) \/ Die(p)
      PROVE FileTypeOK'
    BY <1>6, IdleType DEF ReturnOp, Die, Quiet
<1>7. CASE UNCHANGED fvars
    BY <1>7 DEF fvars
<1> QED
    BY <1>1, <1>2, <1>3, <1>4, <1>5, <1>6, <1>7 DEF FileNext, FileStep

-----------------------------------------------------------------------------
(* Updates survive.                                                        *)

LEMMA FileInvInit == FileInit => FileInv
<1> SUFFICES ASSUME FileInit PROVE FileInv
    OBVIOUS
<1>1. FileTypeOK
    BY FileTypeInit
<1>2. UpdatesSurvive
    BY DEF FileInit, UpdatesSurvive, NoFile
<1>3. \A p \in Procs : op[p].at = "idle"
    BY DEF FileInit, Idle
<1> QED
    BY <1>1, <1>2, <1>3 DEF FileInv, CopyIsOld, FileInit

\* A write by p that overtakes nobody: the other processes have at most loaded
\* the file, and what they loaded is older than what is written.
LEMMA WriteKeepsCopies ==
    ASSUME FileInv, FileTypeOK', NEW p \in Procs,
           ~raced', raced' = (raced \/ Overtakes(p)),
           op' = [op EXCEPT ![p].at = "done"],
           file'.gen = file.gen + 1
    PROVE  \A q \in Procs : CopyIsOld(q)'
<1> SUFFICES ASSUME NEW q \in Procs PROVE CopyIsOld(q)'
    OBVIOUS
<1>1. ~raced /\ ~Overtakes(p) /\ CopyIsOld(q)
    BY DEF FileInv
<1>2. CASE q = p
  <2>1. op'[q].at = "done"
      BY <1>2 DEF FileInv, FileTypeOK, Ops
  <2> QED
      BY <2>1 DEF CopyIsOld
<1>3. CASE q # p
  <2>1. op'[q] = op[q] /\ op[q].at \notin {"absent", "compared"}
      BY <1>1, <1>3 DEF FileInv, FileTypeOK, Overtakes
  <2>2. file.gen \in Nat /\ op[q].seen.gen \in Nat
      BY DEF FileInv, FileTypeOK, FileStates, Ops
  <2>3. op[q].at = "loaded" => op[q].seen.gen < file'.gen
      BY <1>1, <2>2 DEF CopyIsOld
  <2> QED
      BY <2>1, <2>2, <2>3 DEF CopyIsOld
<1> QED
    BY <1>2, <1>3

LEMMA FileInvStep == FileInv /\ [FileNext]_fvars => FileInv'
<1> SUFFICES ASSUME FileInv, [FileNext]_fvars PROVE FileInv'
    OBVIOUS
<1>0. FileTypeOK /\ FileTypeOK'
    BY FileTypeStep DEF FileInv
<1>1. ASSUME NEW p \in Procs, NEW k \in Keys, NEW v \in Values, NEW at,
             Quiet, op' = [op EXCEPT ![p] =
                 [at |-> at, key |-> k, value |-> v, seen |-> file]],
             at = "absent" => file.gen = 0,
             at # "compared"
      PROVE FileInv'
  <2>1. ASSUME NEW q \in Procs, CopyIsOld(q) PROVE CopyIsOld(q)'
    <3>1. CASE q = p
      <4>1. op'[q] = [at |-> at, key |-> k, value |-> v, seen |-> file]
          BY <1>0, <1>1, <3>1 DEF FileTypeOK
      <4>2. file.gen \in Nat /\ file' = file
          BY <1>0, <1>1 DEF FileTypeOK, FileStates, Quiet
      <4> QED
          BY <1>1, <4>1, <4>2 DEF CopyIsOld, FileInv
    <3>2. CASE q # p
        BY <1>0, <1>1, <2>1, <3>2 DEF FileTypeOK, CopyIsOld, Quiet
    <3> QED
        BY <3>1, <3>2
  <2> QED
      BY <1>0, <1>1, <2>1 DEF FileInv, Quiet, UpdatesSurvive
<1>2. ASSUME NEW p \in Procs, NEW id \in Identities, Initialize(p, id)
      PROVE FileInv'
  <2> DEFINE at == op'[p].at
  <2>1. id \in Values /\ "identity" \in Keys
      BY KeysAssumption, ValuesAssumption
  <2>2. /\ op' = [op EXCEPT ![p] =
              [at |-> at, key |-> "identity", value |-> id, seen |-> file]]
        /\ at = "absent" => file.gen = 0
        /\ at # "compared"
      BY <1>0, <1>2 DEF Initialize, FileTypeOK
  <2>3. Quiet
      BY <1>2 DEF Initialize
  <2> HIDE DEF at
  <2> QED
      BY <1>1, <2>1, <2>2, <2>3
<1>3. ASSUME NEW p \in Procs, NEW k \in Keys, NEW v \in Values, Update(p, k, v)
      PROVE FileInv'
  <2> DEFINE at == op'[p].at
  <2>1. /\ op' = [op EXCEPT ![p] =
              [at |-> at, key |-> k, value |-> v, seen |-> file]]
        /\ at \notin {"absent", "compared"}
      BY <1>0, <1>3 DEF Update, FileTypeOK
  <2>2. Quiet
      BY <1>3 DEF Update
  <2> HIDE DEF at
  <2> QED
      BY <1>1, <2>1, <2>2
<1>4. ASSUME NEW p \in Procs, Create(p)
      PROVE FileInv'
  <2>1. op' = [op EXCEPT ![p].at = "done"] /\ op[p].at = "absent"
      BY <1>4 DEF Create, Reach
  <2>2. /\ raced' = (raced \/ Overtakes(p)) /\ file'.gen = 1
        /\ file'.body = [Blank EXCEPT !["identity"] = op[p].value]
        /\ register' = [register EXCEPT !["identity"] = op[p].value]
      BY <1>4 DEF Create
  <2>3. ASSUME ~raced'
        PROVE UpdatesSurvive' /\ file'.gen = file.gen + 1
    <3>1. ~raced /\ CopyIsOld(p) /\ UpdatesSurvive
        BY <2>2, <2>3 DEF FileInv
    <3>2. file = NoFile /\ register = Blank
        BY <2>1, <3>1 DEF CopyIsOld, UpdatesSurvive, NoFile
    <3> QED
        BY <2>2, <3>2 DEF UpdatesSurvive, NoFile
  <2>4. ASSUME ~raced' PROVE \A q \in Procs : CopyIsOld(q)'
      BY <1>0, <2>1, <2>2, <2>3, <2>4, WriteKeepsCopies
  <2> QED
      BY <1>0, <2>2, <2>3, <2>4 DEF FileInv
<1>5. ASSUME NEW p \in Procs, CompareGenerations(p)
      PROVE FileInv'
  <2>1. PICK at \in {"compared", "done", "failed"} :
            /\ op[p].at = "loaded" /\ op' = [op EXCEPT ![p].at = at] /\ Quiet
            /\ at = "compared" => file.gen = op[p].seen.gen
      BY <1>5 DEF CompareGenerations, Reach
  <2>2. ASSUME NEW q \in Procs, CopyIsOld(q) PROVE CopyIsOld(q)'
    <3>1. CASE q = p
      <4>1. op'[q].at = at /\ op'[q].seen = op[q].seen
          BY <1>0, <2>1, <3>1 DEF FileTypeOK, Ops
      <4> QED
          BY <2>1, <2>2, <3>1, <4>1 DEF CopyIsOld, Quiet
    <3>2. CASE q # p
        BY <1>0, <2>1, <2>2, <3>2 DEF FileTypeOK, CopyIsOld, Quiet
    <3> QED
        BY <3>1, <3>2
  <2> QED
      BY <1>0, <2>1, <2>2 DEF FileInv, Quiet, UpdatesSurvive
<1>6. ASSUME NEW p \in Procs, Replace(p)
      PROVE FileInv'
  <2>1. op' = [op EXCEPT ![p].at = "done"] /\ op[p].at = "compared"
      BY <1>6 DEF Replace, Reach
  <2>2. /\ raced' = (raced \/ Overtakes(p))
        /\ file'.gen = op[p].seen.gen + 1
        /\ file'.body = [op[p].seen.body EXCEPT ![op[p].key] = op[p].value]
        /\ register' = [register EXCEPT ![op[p].key] = op[p].value]
      BY <1>6 DEF Replace, NewBody
  <2>3. ASSUME ~raced'
        PROVE UpdatesSurvive' /\ file'.gen = file.gen + 1
    <3>1. ~raced /\ CopyIsOld(p) /\ UpdatesSurvive
        BY <2>2, <2>3 DEF FileInv
    <3>2. op[p].seen = file
        BY <2>1, <3>1 DEF CopyIsOld
    <3> QED
        BY <2>2, <3>1, <3>2 DEF UpdatesSurvive
  <2>4. ASSUME ~raced' PROVE \A q \in Procs : CopyIsOld(q)'
      BY <1>0, <2>1, <2>2, <2>3, <2>4, WriteKeepsCopies
  <2>5. file'.gen # 0
      BY <1>0, <2>2 DEF FileTypeOK, Ops, FileStates
  <2> QED
      BY <1>0, <2>3, <2>4, <2>5 DEF FileInv
<1>7. ASSUME NEW p \in Procs, ReturnOp(p) \/ Die(p)
      PROVE FileInv'
  <2>1. op' = [op EXCEPT ![p] = Idle] /\ Quiet
      BY <1>7 DEF ReturnOp, Die
  <2>2. ASSUME NEW q \in Procs, CopyIsOld(q) PROVE CopyIsOld(q)'
    <3>1. op'[q] = op[q] \/ op'[q].at = "idle"
        BY <1>0, <2>1 DEF FileTypeOK, Idle
    <3> QED
        BY <2>1, <2>2, <3>1 DEF CopyIsOld, Quiet
  <2> QED
      BY <1>0, <2>1, <2>2 DEF FileInv, Quiet, UpdatesSurvive
<1>8. CASE UNCHANGED fvars
    BY <1>0, <1>8 DEF fvars, FileInv, CopyIsOld, UpdatesSurvive
<1> QED
    BY <1>2, <1>3, <1>4, <1>5, <1>6, <1>7, <1>8 DEF FileNext, FileStep

\* The store keeps its types.
THEOREM FileTypesCorrect == FileSpec => []FileTypeOK
<1>1. FileInit => FileTypeOK
    BY FileTypeInit
<1>2. FileTypeOK /\ [FileNext]_fvars => FileTypeOK'
    BY FileTypeStep
<1> QED
    BY <1>1, <1>2, PTL DEF FileSpec

\* No update of the state file undoes another, for any number of processes,
\* unless one writes between the comparison and the replacement of another.
THEOREM UpdatesAreKept == FileSpec => []UpdatesSurvive
<1>1. FileInit => FileInv
    BY FileInvInit
<1>2. FileInv /\ [FileNext]_fvars => FileInv'
    BY FileInvStep
<1>3. FileInv => UpdatesSurvive
    BY DEF FileInv, UpdatesSurvive
<1> QED
    BY <1>1, <1>2, <1>3, PTL DEF FileSpec

-----------------------------------------------------------------------------
(* Without a race the file is an atomic register.                          *)

Register == INSTANCE StateRegister WITH register <- file.body

LEMMA RegisterStep ==
    ASSUME FileInv, [FileNext]_fvars, ~raced, ~raced'
    PROVE  [Register!Next]_(file.body)
<1>0. FileTypeOK /\ FileInv'
    BY FileInvStep DEF FileInv
<1>1. ASSUME NEW p \in Procs, Create(p)
      PROVE Register!Next
  <2>1. file = NoFile
      BY <1>1 DEF FileInv, CopyIsOld, Create
  <2>2. op[p].value \in Values
      BY <1>0 DEF FileTypeOK, Ops
  <2>3. file'.body = [file.body EXCEPT !["identity"] = op[p].value]
      BY <1>1, <2>1 DEF Create, NoFile
  <2> QED
      BY <2>2, <2>3, KeysAssumption DEF Register!Next, Register!Put
<1>2. ASSUME NEW p \in Procs, Replace(p)
      PROVE Register!Next
  <2>1. op[p].seen = file
      BY <1>2 DEF FileInv, CopyIsOld, Replace
  <2>2. op[p].value \in Values /\ op[p].key \in Keys
      BY <1>0 DEF FileTypeOK, Ops
  <2>3. file'.body = [file.body EXCEPT ![op[p].key] = op[p].value]
      BY <1>2, <2>1 DEF Replace, NewBody
  <2> QED
      BY <2>2, <2>3 DEF Register!Next, Register!Put
<1>3. ASSUME NEW p \in Procs, ~Create(p), ~Replace(p), FileStep(p)
      PROVE file' = file
    BY <1>3 DEF FileStep, CompareGenerations, Quiet
<1> QED
    BY <1>1, <1>2, <1>3 DEF FileNext, fvars, FileStep, Initialize, Update,
        ReturnOp, Die, Quiet

\* As long as no process writes between the comparison and the replacement of
\* another, the processes together have what poc/state.py promises: the file is
\* a register whose parts are put one after another, each in one step that
\* starts from the value that is there, whatever calls overlap or die where.
THEOREM AtomicUnlessRaced == FileSpec /\ []~raced => Register!Spec
<1>1. FileInit => FileInv /\ Register!Init
    BY FileInvInit DEF FileInit, NoFile, Blank, Register!Init
<1>2. FileInv /\ [FileNext]_fvars => FileInv'
    BY FileInvStep
<1>3. FileInv /\ ~raced /\ ~raced' /\ [FileNext]_fvars => [Register!Next]_(file.body)
    BY RegisterStep
<1> QED
    BY <1>1, <1>2, <1>3, PTL DEF FileSpec, Register!Spec

-----------------------------------------------------------------------------
(* The candidates' files.                                                  *)

\* The finalize that is running, by the step it is at.
Finalizing(steps) == call.op = "finalize" /\ call.step \in steps

Passes == {"before", "select", "pack", "after"}
Replacing == {"patch", "zip", "finish"}
Staging == {"open", "stage", "names", "diff"}

\* The candidate of the call is not finalized, and a prepare that goes on has
\* found no manifest.
CallFits ==
    /\ call.op # "none" => Me \in Candidates
    /\ call.op = "none" <=> call.step = "idle"
    /\ call.op = "prepare" => call.step \in {"check", "worktree", "manifest", "done"}
    /\ call.op = "finalize" =>
           call.step \in Staging \cup Passes \cup {"compare", "done"} \cup Replacing
    /\ At("prepare", "worktree") \/ At("prepare", "manifest") =>
           manifest[Me] = None /\ (call.parent = None \/ Finalized(call.parent))
    /\ Finalizing((Staging \ {"open"}) \cup Passes \cup {"compare"} \cup Replacing) =>
           manifest[Me] # None /\ ~manifest[Me].final /\ tree[Me] # None

\* The passes over the source tree: one that runs has a file to read; nothing
\* is read before its pass; a file that was selected and not written since is
\* as it was; what is packed is what was selected.
PassFits ==
    /\ Finalizing(Passes) => call.todo # {}
    /\ Finalizing(Staging) => call.before = NothingRead
    /\ Finalizing(Staging \cup {"before"}) => call.chosen = NothingRead
    /\ Finalizing(Staging \cup {"before", "select"}) => call.packed = NothingRead
    /\ Finalizing({"select", "pack"}) =>
           \A f \in DOMAIN call.chosen \ call.stale : tree[Me][f] = call.chosen[f]
    /\ Finalizing({"pack"}) =>
           /\ DOMAIN call.packed \cup call.todo = DOMAIN call.chosen
           /\ \A f \in DOMAIN call.packed : call.packed[f] = call.chosen[f]
    /\ Finalizing({"after", "compare"} \cup Replacing) => call.packed = call.chosen

\* A reading of the source tree agrees with a tree, up to what git ignores.
Matches(reading, t) ==
    \A f \in SourcePaths \ Ignored :
        t[f] = IF f \in DOMAIN reading THEN reading[f] ELSE Absent

\* While nobody edited what was staged: the index is what is in the worktree,
\* then what the first fingerprint has read or has yet to read, then what it
\* has read, then what is in the archive.
CalmFits ==
    call.calm =>
    /\ Finalizing({"names", "diff"}) => call.index = Staged(tree[Me])
    /\ Finalizing(Passes \cup {"compare"} \cup Replacing) => call.patch = call.index
    /\ Finalizing({"before"}) =>
           \A f \in SourcePaths \ Ignored :
               call.index[f] = IF f \in call.todo THEN tree[Me][f]
                               ELSE IF f \in DOMAIN call.before THEN call.before[f]
                               ELSE Absent
    /\ Finalizing({"select", "pack", "after", "compare"}) =>
           Matches(call.before, call.index)
    /\ Finalizing(Replacing) => Matches(call.chosen, call.index)

\* The artifacts are replaced before the manifest.
ArtifactsFit ==
    /\ Finalizing({"zip", "finish"}) => patch[Me] = call.patch
    /\ Finalizing({"finish"}) => zip[Me] = call.packed

Inv == /\ WorkTypeOK /\ CallFits /\ PassFits /\ CalmFits /\ ArtifactsFit
       /\ ArtifactsMatchManifest /\ EvaluatedIsMerged

-----------------------------------------------------------------------------
(* Readings.                                                               *)

LEMMA ReadingShape ==
    ASSUME NEW r \in Reading
    PROVE  /\ DOMAIN r \subseteq SourcePaths
           /\ r = [f \in DOMAIN r |-> r[f]]
           /\ \A f \in DOMAIN r : r[f] \in Contents
BY DEF Reading

LEMMA ReadingIntro ==
    ASSUME NEW F \in SUBSET SourcePaths, NEW r \in [F -> Contents]
    PROVE  r \in Reading
BY DEF Reading

LEMMA NothingReadType == NothingRead \in Reading /\ DOMAIN NothingRead = {}
<1>1. NothingRead \in [{} -> Contents]
    BY DEF NothingRead
<1> QED
    BY <1>1, ReadingIntro DEF NothingRead

LEMMA SameReading ==
    ASSUME NEW r \in Reading, NEW q \in Reading, DOMAIN r = DOMAIN q,
           \A f \in DOMAIN r : r[f] = q[f]
    PROVE  r = q
BY ReadingShape

LEMMA ReadType ==
    ASSUME WorkTypeOK, Me \in Candidates, tree[Me] # None,
           NEW r \in Reading, NEW f \in SourcePaths, ~Gone(f)
    PROVE  /\ Read(r, f) \in Reading
           /\ DOMAIN Read(r, f) = DOMAIN r \cup {f}
           /\ Read(r, f)[f] = tree[Me][f]
           /\ \A g \in DOMAIN r \ {f} : Read(r, f)[g] = r[g]
<1> DEFINE F == DOMAIN r \cup {f}
<1>1. F \in SUBSET SourcePaths
    BY ReadingShape
<1>2. tree[Me] \in Trees /\ f \in Paths
    BY SourcesAssumption DEF WorkTypeOK
<1>3. tree[Me][f] \in Contents
    BY <1>2 DEF Trees, Gone
<1>4. Read(r, f) \in [F -> Contents]
    BY <1>3, ReadingShape DEF Read
<1>5. Read(r, f) \in Reading
    BY <1>1, <1>4, ReadingIntro
<1> QED
    BY <1>4, <1>5 DEF Read

LEMMA ListingType == Listing \in SUBSET SourcePaths
BY DEF Listing

LEMMA StagedType ==
    ASSUME NEW t \in Trees
    PROVE  Staged(t) \in Trees
BY DEF Staged, Trees

LEMMA NoCallType == NoCall \in Calls
BY NothingReadType, BaseAssumption DEF NoCall, Calls, Steps

-----------------------------------------------------------------------------
(* Types.                                                                  *)

LEMMA TypeInit == WorkInit => WorkTypeOK
<1>1. MaxDisturbed \in Nat => 0 \in 0..MaxDisturbed
    OBVIOUS
<1> QED
    BY <1>1, NoCallType, BoundAssumption DEF WorkInit, WorkTypeOK

\* A step that only moves the call on.
LEMMA TypeGo ==
    ASSUME WorkTypeOK, NEW step \in Steps,
           Go(step) \/ \E status \in {"none", "ok", "raised", "policy"} : Return(status)
    PROVE  call' \in Calls
<1>1. \A status \in {"none", "ok", "raised", "policy"} :
          [call EXCEPT !.step = "done", !.status = status] \in Calls
    BY DEF WorkTypeOK, Calls, Steps
<1>2. [call EXCEPT !.step = step] \in Calls
    BY DEF WorkTypeOK, Calls
<1> QED
    BY <1>1, <1>2 DEF Go, Return

LEMMA TypeSetup ==
    ASSUME WorkTypeOK, NEW c \in Candidates,
           \/ \E parent \in Candidates \cup {None} : EnterPrepare(c, parent)
           \/ \E scope \in SUBSET Paths : EnterFinalize(c, scope)
           \/ Leave
    PROVE  call' \in Calls
<1>1. ASSUME NEW parent \in Candidates \cup {None}
      PROVE [NoCall EXCEPT !.op = "prepare", !.cand = c, !.parent = parent,
                           !.step = "check"] \in Calls
    BY NoCallType DEF Calls, Steps
<1>2. ASSUME NEW scope \in SUBSET Paths
      PROVE [NoCall EXCEPT !.op = "finalize", !.cand = c, !.scope = scope,
                           !.step = "open"] \in Calls
    BY NoCallType DEF Calls, Steps
<1> QED
    BY <1>1, <1>2, NoCallType DEF EnterPrepare, EnterFinalize, Leave

\* A pass that has read one file more.
LEMMA TypePass ==
    ASSUME WorkTypeOK, Me \in Candidates, tree[Me] # None,
           NEW f \in SourcePaths,
           Before(f) \/ Select(f) \/ Pack(f) \/ After(f)
    PROVE  call' \in Calls
<1>0. /\ call \in Calls /\ Listing \in SUBSET SourcePaths
      /\ call.before \in Reading /\ call.chosen \in Reading
      /\ call.packed \in Reading /\ call.after \in Reading
      /\ call.todo \in SUBSET SourcePaths
    BY ListingType DEF WorkTypeOK, Calls
<1>1. ASSUME Return("raised") PROVE call' \in Calls
    BY <1>1, TypeGo DEF Steps
<1>2. ASSUME ~Gone(f), Before(f), ~Return("raised") PROVE call' \in Calls
  <2>1. Read(call.before, f) \in Reading
      BY <1>0, <1>2, ReadType
  <2>2. \E todo \in SUBSET SourcePaths, step \in Steps :
            call' = [call EXCEPT !.before = Read(call.before, f),
                                 !.todo = todo, !.step = step]
    <3>1. "select" \in Steps /\ call.step \in Steps
        BY <1>0 DEF Steps, Calls
    <3>2. (IF Last(f) THEN Listing ELSE call.todo \ {f}) \in SUBSET SourcePaths
        BY <1>0
    <3> QED
        BY <1>2, <3>1, <3>2 DEF Before
  <2> QED
      BY <1>0, <2>1, <2>2 DEF Calls
<1>3. ASSUME ~Gone(f), Select(f), ~Return("raised") PROVE call' \in Calls
  <2>1. Read(call.chosen, f) \in Reading /\ DOMAIN Read(call.chosen, f) \in SUBSET SourcePaths
      BY <1>0, <1>3, ReadType, ReadingShape
  <2>2. \E todo \in SUBSET SourcePaths, step \in Steps :
            call' = [call EXCEPT !.chosen = Read(call.chosen, f),
                                 !.todo = todo, !.step = step]
    <3>1. "pack" \in Steps /\ call.step \in Steps
        BY <1>0 DEF Steps, Calls
    <3>2. (IF Last(f) THEN DOMAIN Read(call.chosen, f) ELSE call.todo \ {f})
              \in SUBSET SourcePaths
        BY <1>0, <2>1
    <3> QED
        BY <1>3, <3>1, <3>2 DEF Select
  <2> QED
      BY <1>0, <2>1, <2>2 DEF Calls
<1>4. ASSUME ~Gone(f), Pack(f), ~Return("raised") PROVE call' \in Calls
  <2>1. Read(call.packed, f) \in Reading
      BY <1>0, <1>4, ReadType
  <2>2. \E todo \in SUBSET SourcePaths, step \in Steps :
            call' = [call EXCEPT !.packed = Read(call.packed, f),
                                 !.todo = todo, !.step = step]
    <3>1. "after" \in Steps /\ call.step \in Steps
        BY <1>0 DEF Steps, Calls
    <3>2. (IF Last(f) THEN Listing ELSE call.todo \ {f}) \in SUBSET SourcePaths
        BY <1>0
    <3> QED
        BY <1>4, <3>1, <3>2 DEF Pack
  <2> QED
      BY <1>0, <2>1, <2>2, ZenonT(40) DEF Calls
<1>5. ASSUME ~Gone(f), After(f), ~Return("raised") PROVE call' \in Calls
  <2>1. Read(call.after, f) \in Reading
      BY <1>0, <1>5, ReadType
  <2>2. \E todo \in SUBSET SourcePaths, step \in Steps :
            call' = [call EXCEPT !.after = Read(call.after, f),
                                 !.todo = todo, !.step = step]
    <3>1. "compare" \in Steps /\ call.step \in Steps
        BY <1>0 DEF Steps, Calls
    <3>2. call.todo \ {f} \in SUBSET SourcePaths
        BY <1>0
    <3> QED
        BY <1>5, <3>1, <3>2 DEF After
  <2> QED
      BY <1>0, <2>1, <2>2 DEF Calls
<1> QED
    BY <1>1, <1>2, <1>3, <1>4, <1>5 DEF Before, Select, Pack, After

LEMMA TypeStep == WorkTypeOK /\ CallFits /\ [WorkNext]_cvars => WorkTypeOK'
<1> SUFFICES ASSUME WorkTypeOK, CallFits, [WorkNext]_cvars PROVE WorkTypeOK'
    OBVIOUS
<1>0. /\ tree \in [Candidates -> Trees \cup {None}]
      /\ manifest \in [Candidates -> Manifests \cup {None}]
      /\ patch \in [Candidates -> Trees \cup {None}]
      /\ zip \in [Candidates -> Reading \cup {None}]
      /\ call \in Calls /\ disturbed \in 0..MaxDisturbed
    BY DEF WorkTypeOK
<1>1. ASSUME call' \in Calls, UNCHANGED <<files, disturbed>> PROVE WorkTypeOK'
    BY <1>0, <1>1 DEF WorkTypeOK, files
<1>2. ASSUME NEW c \in Candidates, UNCHANGED <<files, disturbed>>,
             \/ \E parent \in Candidates \cup {None} : EnterPrepare(c, parent)
             \/ \E scope \in SUBSET Paths : EnterFinalize(c, scope)
      PROVE WorkTypeOK'
    BY <1>1, <1>2, TypeSetup
<1>3. ASSUME Leave, UNCHANGED <<files, disturbed>> PROVE WorkTypeOK'
    BY <1>1, <1>3, NoCallType DEF Leave
<1>4. ASSUME CheckPrepare \/ Open \/ CheckNames \/ Compare PROVE WorkTypeOK'
  <2>1. \E step \in Steps, status \in {"none", "ok", "raised", "policy"} :
            Go(step) \/ Return(status)
      BY <1>4 DEF CheckPrepare, Open, CheckNames, Compare, Steps
  <2>2. UNCHANGED <<files, disturbed>>
      BY <1>4 DEF CheckPrepare, Open, CheckNames, Compare
  <2> QED
      BY <1>1, <2>1, <2>2, TypeGo
<1>5. CASE AddWorktree
  <2>1. call' \in Calls
      BY <1>5, TypeGo DEF AddWorktree, Steps
  <2>2. Me \in Candidates /\ Origin(call.parent) \in Trees
    <3>1. Me \in Candidates
        BY <1>5 DEF AddWorktree, At, CallFits
    <3>2. call.parent = None \/ Finalized(call.parent)
        BY <1>5 DEF AddWorktree, CallFits
    <3>3. call.parent \in Candidates \cup {None}
        BY <1>0 DEF Calls
    <3>4. ASSUME Finalized(call.parent), call.parent # None
          PROVE manifest[call.parent] \in Manifests
        BY <1>0, <3>3, <3>4 DEF Finalized
    <3> QED
        BY <3>1, <3>2, <3>3, <3>4, BaseAssumption DEF Origin, Manifests
  <2> QED
      BY <1>0, <1>5, <2>1, <2>2 DEF AddWorktree, WorkTypeOK
<1>6. CASE WriteManifest
  <2>1. call' \in Calls
      BY <1>6, TypeGo DEF WriteManifest, Steps
  <2>2. Me \in Candidates
      BY <1>6 DEF WriteManifest, At, CallFits
  <2>3. [parent |-> call.parent, final |-> FALSE, patch |-> Base,
         zip |-> NothingRead, entries |-> NothingRead, commit |-> Base,
         calm |-> TRUE] \in Manifests
    <3>1. call.parent \in Candidates \cup {None}
        BY <1>0 DEF Calls
    <3> QED
        BY <3>1, NothingReadType, BaseAssumption DEF Manifests
  <2> QED
      BY <1>0, <1>6, <2>1, <2>2, <2>3 DEF WriteManifest, WorkTypeOK
<1>7. CASE Stage
  <2>1. Me \in Candidates /\ tree[Me] \in Trees
      BY <1>0, <1>7 DEF Stage, At, CallFits, Finalizing, Staging
  <2>2. Staged(tree[Me]) \in Trees
      BY <2>1, StagedType
  <2>3. call' \in Calls
      BY <1>0, <1>7, <2>2 DEF Stage, Calls, Steps
  <2> QED
      BY <1>1, <1>7, <2>3 DEF Stage
<1>8. CASE Diff
  <2>1. ASSUME NEW status \in {"policy", "raised"}, Return(status) PROVE call' \in Calls
      BY <2>1, TypeGo DEF Steps
  <2>2. ASSUME call' = [call EXCEPT !.patch = call.index, !.step = "before",
                                    !.todo = Listing]
        PROVE call' \in Calls
      BY <1>0, <2>2, ListingType DEF Calls, Steps
  <2> QED
      BY <1>1, <1>8, <2>1, <2>2 DEF Diff
<1>9. ASSUME NEW f \in SourcePaths, Before(f) \/ Select(f) \/ Pack(f) \/ After(f)
      PROVE WorkTypeOK'
  <2>1. UNCHANGED <<files, disturbed>>
      BY <1>9 DEF Before, Select, Pack, After, Opened
  <2>2. Me \in Candidates /\ tree[Me] # None
      BY <1>9 DEF Before, Select, Pack, After, Opened, At, CallFits, Finalizing, Passes
  <2> QED
      BY <1>1, <1>9, <2>1, <2>2, TypePass
<1>10. CASE ReplacePatch
  <2>1. call' \in Calls
      BY <1>10, TypeGo DEF ReplacePatch, Steps
  <2>2. call.patch \in Trees
      BY <1>0 DEF Calls
  <2> QED
      BY <1>0, <1>10, <2>1, <2>2 DEF ReplacePatch, WorkTypeOK
<1>11. CASE ReplaceZip
  <2>1. call' \in Calls
      BY <1>11, TypeGo DEF ReplaceZip, Steps
  <2>2. call.packed \in Reading
      BY <1>0 DEF Calls
  <2> QED
      BY <1>0, <1>11, <2>1, <2>2 DEF ReplaceZip, WorkTypeOK
<1>12. CASE Finish
  <2>1. call' \in Calls
      BY <1>12, TypeGo DEF Finish, Steps
  <2>2. Me \in Candidates /\ manifest[Me] \in Manifests
      BY <1>0, <1>12 DEF Finish, At, CallFits, Finalizing, Replacing
  <2>3. [manifest[Me] EXCEPT !.final = TRUE, !.patch = call.patch, !.zip = call.packed,
             !.entries = call.chosen, !.commit = call.index, !.calm = call.calm]
            \in Manifests
    <3>1. /\ call.patch \in Trees /\ call.index \in Trees /\ call.calm \in BOOLEAN
          /\ call.packed \in Reading /\ call.chosen \in Reading
        BY <1>0 DEF Calls
    <3> QED
        BY <2>2, <3>1 DEF Manifests
  <2> QED
      BY <1>0, <1>12, <2>1, <2>2, <2>3 DEF Finish, WorkTypeOK
<1>13. ASSUME Disturb PROVE disturbed' \in 0..MaxDisturbed
    BY <1>0, <1>13, BoundAssumption DEF Disturb
<1>14. ASSUME NEW c \in Candidates, NEW f \in Paths, NEW v \in Contents \cup {Absent},
              Edit(c, f, v)
       PROVE WorkTypeOK'
  <2>1. tree[c] \in Trees
      BY <1>0, <1>14 DEF Edit
  <2>2. tree' \in [Candidates -> Trees \cup {None}]
    <3>1. [tree[c] EXCEPT ![f] = v] \in Trees
        BY <2>1 DEF Trees
    <3> QED
        BY <1>0, <1>14, <3>1 DEF Edit
  <2>3. call' \in Calls /\ disturbed' \in 0..MaxDisturbed
    <3>1. CASE Running(c)
      <4>1. \A s \in SUBSET SourcePaths, k \in BOOLEAN :
                [call EXCEPT !.stale = s, !.calm = k] \in Calls
          BY <1>0 DEF Calls
      <4>2. DOMAIN call.chosen \subseteq SourcePaths /\ call.stale \in SUBSET SourcePaths
          BY <1>0, ReadingShape DEF Calls
      <4>3. (IF f \in DOMAIN call.chosen THEN call.stale \cup {f} ELSE call.stale)
                \in SUBSET SourcePaths
          BY <4>2
      <4>4. (call.calm /\ ~Unseen(f)) \in BOOLEAN
          OBVIOUS
      <4>5. call' = [call EXCEPT
                !.stale = IF f \in DOMAIN call.chosen THEN call.stale \cup {f}
                          ELSE call.stale,
                !.calm = call.calm /\ ~Unseen(f)]
          BY <1>14, <3>1 DEF Edit
      <4>6. Disturb
          BY <1>14, <3>1 DEF Edit
      <4> QED
          BY <1>13, <4>1, <4>3, <4>4, <4>5, <4>6
    <3>2. CASE ~Running(c)
        BY <1>0, <1>14, <3>2 DEF Edit
    <3> QED
        BY <3>1, <3>2
  <2> QED
      BY <1>0, <1>14, <2>2, <2>3 DEF Edit, WorkTypeOK
<1>15. CASE Restage
  <2>1. Me \in Candidates /\ tree[Me] \in Trees
      BY <1>0, <1>15 DEF Restage, Running, CallFits, Finalizing, Staging, Passes,
          Replacing, Calls, Steps
  <2>2. Staged(tree[Me]) \in Trees
      BY <2>1, StagedType
  <2>3. call' \in Calls
      BY <1>0, <1>15, <2>2 DEF Restage, Calls
  <2> QED
      BY <1>0, <1>13, <1>15, <2>3 DEF Restage, WorkTypeOK, files
<1>16. CASE CrashCall
    BY <1>0, <1>13, <1>16, NoCallType DEF CrashCall, WorkTypeOK, files
<1>17. CASE Elsewhere
    BY <1>0, <1>13, <1>17 DEF Elsewhere, WorkTypeOK, files
<1>18. CASE UNCHANGED cvars
    BY <1>0, <1>18 DEF cvars, WorkTypeOK
<1> QED
    BY <1>2, <1>3, <1>4, <1>5, <1>6, <1>7, <1>8, <1>9, <1>10, <1>11, <1>12, <1>14,
       <1>15, <1>16, <1>17, <1>18 DEF WorkNext, WorkspaceStep, AgentActs

-----------------------------------------------------------------------------
(* What the steps do to the call.                                          *)

\* A pass reads the next file, or the call ends with an exception.
PassReads(f) ==
    /\ f \in call.todo /\ ~Gone(f)
    /\ call'.op = "finalize" /\ Me' = Me
    /\ call'.index = call.index /\ call'.patch = call.patch
    /\ call'.stale = call.stale /\ call'.calm = call.calm
    /\ ~Last(f) => call'.step = call.step /\ call'.todo = call.todo \ {f}
    /\ call'.before = IF call.step = "before" THEN Read(call.before, f) ELSE call.before
    /\ call'.chosen = IF call.step = "select" THEN Read(call.chosen, f) ELSE call.chosen
    /\ call'.packed = IF call.step = "pack" THEN Read(call.packed, f) ELSE call.packed
    /\ \/ call.step = "before" /\ (Last(f) => call'.step = "select" /\ call'.todo = Listing /\ Listing # {})
       \/ /\ call.step = "select"
          /\ Last(f) => call'.step = "pack" /\ call'.todo = DOMAIN call'.chosen
       \/ /\ call.step = "pack" /\ SameFile(f)
          /\ Last(f) => call'.step = "after" /\ call'.todo = Listing /\ Listing # {}
       \/ call.step = "after" /\ (Last(f) => call'.step = "compare")

LEMMA PassEffect ==
    ASSUME WorkTypeOK, CallFits, PassFits, NEW f \in SourcePaths,
           Before(f) \/ Select(f) \/ Pack(f) \/ After(f)
    PROVE  /\ call.op = "finalize" /\ call.step \in Passes
           /\ Me \in Candidates /\ tree[Me] # None
           /\ UNCHANGED <<files, disturbed>>
           /\ Return("raised") \/ PassReads(f)
<1>1. /\ call.op = "finalize" /\ call.step \in Passes
      /\ UNCHANGED <<files, disturbed>> /\ f = CHOOSE g \in call.todo : TRUE
    BY DEF Before, Select, Pack, After, Opened, At, Passes
<1>2. f \in call.todo
    BY <1>1 DEF PassFits, Finalizing
<1>3. Me \in Candidates /\ tree[Me] # None
    BY <1>1 DEF CallFits, Finalizing
<1>4. call \in Calls
    BY DEF WorkTypeOK
<1>5. CASE Return("raised")
    BY <1>1, <1>3, <1>5
<1>6. CASE ~Return("raised") /\ Before(f)
    BY <1>1, <1>2, <1>3, <1>4, <1>6 DEF Before, Opened, At, PassReads, Me, Calls
<1>7. CASE ~Return("raised") /\ Select(f)
  <2>1. /\ At("finalize", "select") /\ ~Gone(f)
        /\ call' = [call EXCEPT
               !.chosen = Read(call.chosen, f),
               !.todo = IF Last(f) THEN DOMAIN Read(call.chosen, f) ELSE call.todo \ {f},
               !.step = IF Last(f) THEN "pack" ELSE call.step]
      BY <1>7 DEF Select, Opened
  <2>2. call'.chosen = Read(call.chosen, f)
      BY <1>4, <2>1 DEF Calls
  <2>3. Last(f) => call'.todo = DOMAIN call'.chosen
      BY <1>4, <2>1, <2>2 DEF Calls
  <2>4. /\ call'.op = call.op /\ Me' = Me /\ call'.index = call.index
        /\ call'.patch = call.patch /\ call'.stale = call.stale
        /\ call'.calm = call.calm /\ call'.before = call.before
        /\ call'.packed = call.packed
        /\ ~Last(f) => call'.step = call.step /\ call'.todo = call.todo \ {f}
        /\ Last(f) => call'.step = "pack"
      BY <1>4, <2>1 DEF Calls, Me
  <2> QED
      BY <1>1, <1>2, <1>3, <2>1, <2>2, <2>3, <2>4 DEF At, PassReads
<1>8. CASE ~Return("raised") /\ Pack(f)
    BY <1>1, <1>2, <1>3, <1>4, <1>8 DEF Pack, Opened, At, PassReads, Me, Calls
<1>9. CASE ~Return("raised") /\ After(f)
    BY <1>1, <1>2, <1>3, <1>4, <1>9 DEF After, Opened, At, PassReads, Me, Calls
<1> QED
    BY <1>5, <1>6, <1>7, <1>8, <1>9

\* A step at which the call ends or only its step changes.
Moves ==
    /\ call'.op = call.op /\ Me' = Me /\ call'.parent = call.parent
    /\ call'.index = call.index /\ call'.patch = call.patch
    /\ call'.before = call.before /\ call'.chosen = call.chosen
    /\ call'.packed = call.packed /\ call'.todo = call.todo
    /\ call'.stale = call.stale /\ call'.calm = call.calm

LEMMA GoMoves ==
    ASSUME WorkTypeOK, NEW step, Go(step)
    PROVE  Moves /\ call'.step = step
BY DEF WorkTypeOK, Go, Calls, Moves, Me

LEMMA ReturnMoves ==
    ASSUME WorkTypeOK, NEW status, Return(status)
    PROVE  Moves /\ call'.step = "done"
BY DEF WorkTypeOK, Return, Calls, Moves, Me

\* A call that has ended, or not begun, has nothing to fit.
LEMMA DoneFits ==
    ASSUME WorkTypeOK, CallFits, call'.step \in {"done", "idle", "check"}
    PROVE  PassFits' /\ CalmFits' /\ ArtifactsFit'
BY DEF PassFits, CalmFits, ArtifactsFit, Finalizing, Passes, Replacing, Staging

\* An edit while finalize runs.
LEMMA EditEffect ==
    ASSUME WorkTypeOK, CallFits, NEW c \in Candidates, NEW f \in Paths,
           NEW v \in Contents \cup {Absent}, Edit(c, f, v), call.step # "idle"
    PROVE  /\ c = Me /\ call.op = "finalize"
           /\ call'.op = call.op /\ Me' = Me /\ call'.step = call.step
           /\ call'.parent = call.parent /\ call'.index = call.index
           /\ call'.patch = call.patch /\ call'.before = call.before
           /\ call'.chosen = call.chosen /\ call'.packed = call.packed
           /\ call'.todo = call.todo
           /\ call.stale \subseteq call'.stale
           /\ f \in DOMAIN call.chosen => f \in call'.stale
           /\ call'.calm => call.calm /\ ~Unseen(f)
           /\ \A g \in Paths \ {f} : tree'[Me][g] = tree[Me][g]
           /\ tree'[Me] \in Trees
           /\ UNCHANGED <<manifest, patch, zip>>
<1>1. Running(c) /\ call \in Calls /\ tree[c] \in Trees
    BY DEF Edit, WorkTypeOK
<1>2. c = Me /\ call.op = "finalize"
    BY <1>1 DEF Running
<1>3. call' = [call EXCEPT
           !.stale = IF f \in DOMAIN call.chosen THEN call.stale \cup {f} ELSE call.stale,
           !.calm = call.calm /\ ~Unseen(f)]
    BY <1>1 DEF Edit
<1>4. tree' = [tree EXCEPT ![c][f] = v] /\ UNCHANGED <<manifest, patch, zip>>
    BY DEF Edit
<1>5. tree'[c] = [tree[c] EXCEPT ![f] = v]
    BY <1>4 DEF WorkTypeOK
<1>6. tree'[c] \in Trees /\ \A g \in Paths \ {f} : tree'[c][g] = tree[c][g]
    BY <1>1, <1>5 DEF Trees
<1> QED
    BY <1>1, <1>2, <1>3, <1>4, <1>6 DEF Calls, Me

-----------------------------------------------------------------------------
(* The invariant, action by action.                                        *)

Steady == CallFits /\ PassFits /\ CalmFits /\ ArtifactsFit
Results == ArtifactsMatchManifest /\ EvaluatedIsMerged

LEMMA ResultsKept ==
    ASSUME Results, UNCHANGED <<manifest, patch, zip>>
    PROVE  Results'
BY DEF Results, ArtifactsMatchManifest, EvaluatedIsMerged, Finalized

LEMMA SteadyKept ==
    ASSUME Steady, UNCHANGED <<files, call>>
    PROVE  Steady'
BY DEF Steady, CallFits, PassFits, CalmFits, ArtifactsFit, Finalizing, files, At,
    Finalized, Me, Staged, Matches

\* Only the step of a finalize goes on, or the call ends.
LEMMA EnterStep ==
    ASSUME NEW c \in Candidates, UNCHANGED files,
           \/ \E parent : EnterPrepare(c, parent)
           \/ \E scope : EnterFinalize(c, scope)
           \/ call' = NoCall
    PROVE  Steady'
<1>1. ASSUME NEW parent, EnterPrepare(c, parent) PROVE Steady'
  <2>1. call'.op = "prepare" /\ call'.step = "check" /\ Me' = c
      BY <1>1 DEF EnterPrepare, NoCall, Me
  <2> QED
      BY <2>1 DEF Steady, CallFits, PassFits, CalmFits, ArtifactsFit, Finalizing, At
<1>2. ASSUME NEW scope, EnterFinalize(c, scope) PROVE Steady'
  <2>1. /\ call'.op = "finalize" /\ call'.step = "open" /\ Me' = c
        /\ call'.before = NothingRead /\ call'.chosen = NothingRead
        /\ call'.packed = NothingRead
      BY <1>2 DEF EnterFinalize, NoCall, Me
  <2> QED
      BY <2>1 DEF Steady, CallFits, PassFits, CalmFits, ArtifactsFit, Finalizing, At,
          Staging, Passes, Replacing
<1>3. ASSUME call' = NoCall PROVE Steady'
  <2>1. call'.op = "none" /\ call'.step = "idle"
      BY <1>3 DEF NoCall
  <2> QED
      BY <2>1 DEF Steady, CallFits, PassFits, CalmFits, ArtifactsFit, Finalizing, At
<1> QED
    BY <1>1, <1>2, <1>3

LEMMA ReturnStep ==
    ASSUME WorkTypeOK, Steady, call.op # "none", NEW status, Return(status)
    PROVE  Steady'
<1>1. Moves /\ call'.step = "done"
    BY ReturnMoves
<1>2. PassFits' /\ CalmFits' /\ ArtifactsFit'
    BY <1>1, DoneFits DEF Steady
<1>3. CallFits'
    BY <1>1 DEF Steady, CallFits, Moves, Finalizing, At, Staging, Passes, Replacing
<1> QED
    BY <1>2, <1>3 DEF Steady

\* A prepare has nothing to do with the passes.
LEMMA PrepareFits ==
    ASSUME WorkTypeOK, Moves, call.op = "prepare"
    PROVE  PassFits' /\ CalmFits' /\ ArtifactsFit'
BY DEF Moves, PassFits, CalmFits, ArtifactsFit, Finalizing

LEMMA PrepareStep ==
    ASSUME Inv, CheckPrepare \/ AddWorktree \/ WriteManifest
    PROVE  Steady' /\ Results'
<1>0. WorkTypeOK /\ Steady /\ Results /\ call.op = "prepare"
    BY DEF Inv, Steady, Results, CheckPrepare, AddWorktree, WriteManifest, At
<1>1. CASE CheckPrepare
  <2>1. Results'
      BY <1>0, <1>1, ResultsKept DEF CheckPrepare, files
  <2>2. CASE \E status : Return(status)
      BY <1>0, <2>1, <2>2, ReturnStep
  <2>3. CASE Go("worktree")
    <3>1. Moves /\ call'.step = "worktree"
        BY <1>0, <2>3, GoMoves
    <3>2. manifest[Me] = None /\ (call.parent = None \/ Finalized(call.parent))
      <4>1. CASE Return("raised") \/ Return("ok")
        <5>1. call'.step = "done"
            BY <1>0, <4>1, ReturnMoves
        <5> QED
            BY <3>1, <5>1
      <4>2. CASE ~Return("raised") /\ ~Return("ok")
          BY <1>1, <4>2 DEF CheckPrepare
      <4> QED
          BY <4>1, <4>2
    <3>3. CallFits'
        BY <1>0, <1>1, <3>1, <3>2 DEF Steady, CallFits, Moves, Finalizing, At,
            CheckPrepare, files, Finalized
    <3> QED
        BY <1>0, <2>1, <3>1, <3>3, PrepareFits DEF Steady
  <2> QED
      BY <1>1, <2>2, <2>3 DEF CheckPrepare
<1>2. CASE AddWorktree
  <2>1. Moves /\ call'.step = "manifest" /\ At("prepare", "worktree")
      BY <1>0, <1>2, GoMoves DEF AddWorktree
  <2>2. CallFits'
      BY <1>0, <1>2, <2>1 DEF Steady, CallFits, Moves, Finalizing, At, AddWorktree,
          Finalized
  <2> QED
      BY <1>0, <1>2, <2>1, <2>2, PrepareFits, ResultsKept DEF Steady, AddWorktree
<1>3. CASE WriteManifest
  <2>1. Moves /\ call'.step = "done" /\ Steady'
      BY <1>0, <1>3, ReturnMoves, ReturnStep DEF WriteManifest
  <2>2. Me \in Candidates /\ manifest[Me] = None
      BY <1>0, <1>3 DEF WriteManifest, Steady, CallFits, At
  <2>3. \A c \in Candidates :
            /\ c = Me => ~Finalized(c)'
            /\ c # Me => manifest'[c] = manifest[c]
      BY <1>0, <1>3, <2>2 DEF WriteManifest, WorkTypeOK, Finalized
  <2>4. patch' = patch /\ zip' = zip
      BY <1>3 DEF WriteManifest
  <2>5. Results'
      BY <1>0, <2>3, <2>4 DEF Results, ArtifactsMatchManifest, EvaluatedIsMerged, Finalized
  <2> QED
      BY <2>1, <2>5
<1> QED
    BY <1>1, <1>2, <1>3

LEMMA StagingStep ==
    ASSUME Inv, Open \/ Stage \/ CheckNames \/ Diff
    PROVE  Steady' /\ Results'
<1>0. WorkTypeOK /\ Steady /\ Results /\ call.op = "finalize" /\ call \in Calls
      /\ Me \in Candidates
    BY DEF Inv, Steady, Results, CallFits, Open, Stage, CheckNames, Diff, At, WorkTypeOK
<1>1. UNCHANGED files /\ Results'
    BY <1>0, ResultsKept DEF Open, Stage, CheckNames, Diff, files
<1>2. CASE \E status : Return(status)
    BY <1>0, <1>1, <1>2, ReturnStep
<1>3. CASE Open /\ Go("stage")
  <2>1. Moves /\ call'.step = "stage" /\ call.step = "open"
      BY <1>0, <1>3, GoMoves DEF Open, At
  <2>2. ~Return("raised") /\ ~Return("ok")
      BY <1>0, <2>1, ReturnMoves
  <2>3. manifest[Me] # None /\ ~manifest[Me].final /\ tree[Me] # None
      BY <1>3, <2>2 DEF Open
  <2>4. CallFits'
      BY <1>0, <1>1, <2>1, <2>3 DEF Steady, CallFits, Moves, Finalizing, At, files,
          Staging, Finalized
  <2>5. PassFits' /\ CalmFits' /\ ArtifactsFit'
      BY <1>0, <2>1 DEF Steady, Moves, PassFits, CalmFits, ArtifactsFit, Finalizing,
          Staging, Passes, Replacing
  <2> QED
      BY <1>1, <2>4, <2>5 DEF Steady
<1>4. CASE Stage
  <2>1. /\ call.step = "stage" /\ call'.step = "names"
        /\ call'.index = Staged(tree[Me])
        /\ call'.op = call.op /\ Me' = Me /\ call'.parent = call.parent
        /\ call'.before = call.before
        /\ call'.chosen = call.chosen /\ call'.packed = call.packed
      BY <1>0, <1>4 DEF Stage, At, Calls, Me
  <2>2. CallFits'
      BY <1>0, <1>1, <2>1 DEF Steady, CallFits, Finalizing, At, files, Staging, Finalized
  <2>3. PassFits' /\ ArtifactsFit'
      BY <1>0, <2>1 DEF Steady, PassFits, ArtifactsFit, Finalizing, Staging, Passes,
          Replacing
  <2>4. CalmFits'
      BY <1>0, <1>1, <2>1 DEF CalmFits, Finalizing, Passes, Replacing, files, Staged
  <2> QED
      BY <1>1, <2>2, <2>3, <2>4 DEF Steady
<1>5. CASE CheckNames /\ Go("diff")
  <2>1. Moves /\ call'.step = "diff" /\ call.step = "names"
      BY <1>0, <1>5, GoMoves DEF CheckNames, At
  <2>2. CallFits'
      BY <1>0, <1>1, <2>1 DEF Steady, CallFits, Moves, Finalizing, At, files,
          Staging, Finalized
  <2>3. PassFits' /\ CalmFits' /\ ArtifactsFit'
      BY <1>0, <1>1, <2>1 DEF Steady, Moves, PassFits, CalmFits, ArtifactsFit, Finalizing,
          Staging, Passes, Replacing, files, Staged
  <2> QED
      BY <1>1, <2>2, <2>3 DEF Steady
<1>6. CASE Diff /\ ~\E status : Return(status)
  <2>1. /\ call.step = "diff" /\ Listing # {}
        /\ call' = [call EXCEPT !.patch = call.index, !.step = "before",
                                !.todo = Listing]
      BY <1>6 DEF Diff, At
  <2>2. /\ call'.step = "before" /\ call'.todo = Listing
        /\ call'.index = call.index /\ call'.patch = call.index
        /\ call'.op = call.op /\ Me' = Me /\ call'.parent = call.parent
        /\ call'.before = call.before /\ call'.calm = call.calm
        /\ call'.chosen = call.chosen /\ call'.packed = call.packed
      BY <1>0, <2>1 DEF Calls, Me
  <2>3. CallFits'
      BY <1>0, <1>1, <2>1, <2>2 DEF Steady, CallFits, Finalizing, At, files, Staging,
          Passes, Finalized
  <2>4. PassFits' /\ ArtifactsFit'
      BY <1>0, <2>1, <2>2 DEF Steady, PassFits, ArtifactsFit, Finalizing, Staging, Passes,
          Replacing
  <2>5. CalmFits'
    <3> SUFFICES ASSUME call.calm PROVE CalmFits'
        BY <2>2 DEF CalmFits
    <3>1. call.index = Staged(tree[Me]) /\ call.before = NothingRead
        BY <1>0, <2>1 DEF Steady, CalmFits, PassFits, Finalizing, Staging
    <3>2. \A f \in SourcePaths \ Ignored :
              call.index[f] = IF f \in Listing THEN tree[Me][f] ELSE Absent
        BY <3>1, SourcesAssumption DEF Staged, Listing
    <3> QED
        BY <1>1, <2>2, <3>1, <3>2, NothingReadType DEF CalmFits, Finalizing, Passes,
            Replacing, files
  <2> QED
      BY <1>1, <2>3, <2>4, <2>5 DEF Steady
<1> QED
    BY <1>2, <1>3, <1>4, <1>5, <1>6 DEF Open, CheckNames

LEMMA PassStep ==
    ASSUME Inv, NEW f \in SourcePaths, Before(f) \/ Select(f) \/ Pack(f) \/ After(f)
    PROVE  Steady' /\ Results'
<1>0. /\ WorkTypeOK /\ Steady /\ Results
      /\ CallFits /\ PassFits /\ CalmFits
      /\ call.op = "finalize" /\ call.step \in Passes
      /\ Me \in Candidates /\ tree[Me] # None /\ UNCHANGED files
      /\ Return("raised") \/ PassReads(f)
    BY PassEffect DEF Inv, Steady, Results, files
<1>1. Results'
    BY <1>0, ResultsKept DEF files
<1>2. CASE Return("raised")
    BY <1>0, <1>1, <1>2, ReturnStep
<1>3. CASE PassReads(f)
  <2>0. /\ call.before \in Reading /\ call.chosen \in Reading /\ call.packed \in Reading
        /\ call.todo \in SUBSET SourcePaths /\ tree' = tree
        /\ call'.op = "finalize" /\ Me' = Me /\ f \in call.todo /\ ~Gone(f)
        /\ call'.step \in Passes \cup {"compare"}
        /\ call'.step = "compare" => call.step = "after"
        /\ call'.step = "after" => call.step \in {"pack", "after"}
        /\ call'.step = "pack" => call.step \in {"select", "pack"}
        /\ call'.step = "select" => call.step \in {"before", "select"}
        /\ call'.step = "before" => call.step = "before" /\ ~Last(f)
      BY <1>0, <1>3 DEF WorkTypeOK, Calls, PassReads, files, Passes
  <2>r. ASSUME NEW r \in Reading
        PROVE  /\ Read(r, f) \in Reading /\ DOMAIN Read(r, f) = DOMAIN r \cup {f}
               /\ Read(r, f)[f] = tree[Me][f]
               /\ \A g \in DOMAIN r \ {f} : Read(r, f)[g] = r[g]
      BY <1>0, <2>0, ReadType
  <2>1. CallFits'
      BY <1>0, <2>0 DEF CallFits, Finalizing, At, files, Staging, Passes, Finalized
  <2>2. call'.step \in Passes => call'.todo # {}
    <3>1. ~Last(f) => call.todo \ {f} # {}
        BY <2>0 DEF Last
    <3>2. CASE Last(f) /\ call.step = "select"
      <4>1. call'.todo = DOMAIN Read(call.chosen, f)
          BY <1>3, <3>2 DEF PassReads
      <4>2. f \in DOMAIN Read(call.chosen, f)
          BY <2>0, <2>r
      <4> QED
          BY <4>1, <4>2
    <3> QED
        BY <1>0, <1>3, <2>0, <3>1, <3>2 DEF PassReads, Passes
  <2>3. PassFits'
    <3>1. CASE call.step = "before"
      <4>1. /\ call'.chosen = NothingRead /\ call'.packed = NothingRead
            /\ call'.step \in {"before", "select"}
          BY <1>0, <1>3, <2>0, <3>1 DEF PassReads, PassFits, Finalizing
      <4> QED
          BY <2>0, <2>2, <4>1, NothingReadType DEF PassFits, Finalizing, Staging, Passes,
              Replacing
    <3>2. CASE call.step = "select"
      <4>1. /\ call'.chosen = Read(call.chosen, f) /\ call'.packed = NothingRead
            /\ call'.stale = call.stale /\ call'.step \in {"select", "pack"}
            /\ call'.step = "pack" => call'.todo = DOMAIN call'.chosen
          BY <1>0, <1>3, <2>0, <3>2 DEF PassReads, PassFits, Finalizing
      <4>2. \A g \in DOMAIN call'.chosen \ call'.stale : tree[Me][g] = call'.chosen[g]
        <5>1. \A g \in DOMAIN call.chosen \ call.stale : tree[Me][g] = call.chosen[g]
            BY <1>0, <3>2 DEF PassFits, Finalizing
        <5>2. /\ DOMAIN Read(call.chosen, f) = DOMAIN call.chosen \cup {f}
              /\ Read(call.chosen, f)[f] = tree[Me][f]
              /\ \A g \in DOMAIN call.chosen \ {f} : Read(call.chosen, f)[g] = call.chosen[g]
            BY <2>0, <2>r
        <5> QED
            BY <4>1, <5>1, <5>2
      <4>3. /\ DOMAIN call'.packed = {}
            /\ call'.step = "pack" => DOMAIN call'.packed \cup call'.todo = DOMAIN call'.chosen
          BY <4>1, NothingReadType
      <4> QED
          BY <2>0, <2>2, <4>1, <4>2, <4>3 DEF PassFits, Finalizing, Staging, Passes, Replacing
    <3>3. CASE call.step = "pack"
      <4>1. /\ call'.chosen = call.chosen /\ call'.packed = Read(call.packed, f)
            /\ call'.stale = call.stale /\ f \notin call.stale
            /\ call'.step \in {"pack", "after"}
            /\ ~Last(f) => call'.step = "pack" /\ call'.todo = call.todo \ {f}
            /\ Last(f) => call'.step = "after"
          BY <1>0, <1>3, <2>0, <3>3 DEF PassReads, SameFile
      <4>2. /\ DOMAIN call.packed \cup call.todo = DOMAIN call.chosen
            /\ \A g \in DOMAIN call.packed : call.packed[g] = call.chosen[g]
            /\ \A g \in DOMAIN call.chosen \ call.stale : tree[Me][g] = call.chosen[g]
          BY <1>0, <3>3 DEF PassFits, Finalizing
      <4>3. /\ DOMAIN call'.packed = DOMAIN call.packed \cup {f}
            /\ call'.packed \in Reading
            /\ \A g \in DOMAIN call'.packed : call'.packed[g] = call.chosen[g]
        <5>1. /\ Read(call.packed, f) \in Reading
              /\ DOMAIN Read(call.packed, f) = DOMAIN call.packed \cup {f}
              /\ Read(call.packed, f)[f] = tree[Me][f]
              /\ \A g \in DOMAIN call.packed \ {f} : Read(call.packed, f)[g] = call.packed[g]
            BY <2>0, <2>r
        <5>2. tree[Me][f] = call.chosen[f]
            BY <2>0, <4>1, <4>2
        <5> QED
            BY <4>1, <4>2, <5>1, <5>2
      <4>4. CASE Last(f)
        <5>1. DOMAIN call'.packed = DOMAIN call.chosen
            BY <2>0, <4>2, <4>3, <4>4 DEF Last
        <5>2. call'.packed = call'.chosen
            BY <2>0, <4>1, <4>3, <5>1, SameReading
        <5> QED
            BY <2>0, <2>2, <4>1, <4>4, <5>2 DEF PassFits, Finalizing, Staging, Passes,
                Replacing
      <4>5. CASE ~Last(f)
        <5>1. DOMAIN call'.packed \cup call'.todo = DOMAIN call'.chosen
            BY <2>0, <4>1, <4>2, <4>3, <4>5
        <5> QED
            BY <2>0, <2>2, <4>1, <4>2, <4>3, <4>5, <5>1 DEF PassFits, Finalizing, Staging,
                Passes, Replacing
      <4> QED
          BY <4>4, <4>5
    <3>4. CASE call.step = "after"
      <4>1. /\ call'.chosen = call.chosen /\ call'.packed = call.packed
            /\ call.packed = call.chosen /\ call'.step \in {"after", "compare"}
          BY <1>0, <1>3, <2>0, <3>4 DEF PassReads, PassFits, Finalizing
      <4> QED
          BY <2>0, <2>2, <4>1 DEF PassFits, Finalizing, Staging, Passes, Replacing
    <3> QED
        BY <1>0, <3>1, <3>2, <3>3, <3>4 DEF Passes
  <2>4. CalmFits'
    <3> SUFFICES ASSUME call.calm PROVE CalmFits'
        BY <1>3 DEF CalmFits, PassReads
    <3>0. /\ call'.index = call.index /\ call'.patch = call.patch
          /\ call.patch = call.index
        BY <1>0, <1>3 DEF CalmFits, Finalizing, PassReads
    <3>1. CASE call.step = "before"
      <4>1. \A g \in SourcePaths \ Ignored :
                call.index[g] = IF g \in call.todo THEN tree[Me][g]
                                ELSE IF g \in DOMAIN call.before THEN call.before[g]
                                ELSE Absent
          BY <1>0, <3>1 DEF CalmFits, Finalizing
      <4>2. /\ call'.before = Read(call.before, f)
            /\ call'.step \in {"before", "select"}
            /\ ~Last(f) => call'.todo = call.todo \ {f} /\ call'.step = "before"
            /\ Last(f) => call'.step = "select"
          BY <1>0, <1>3, <2>0, <3>1 DEF PassReads
      <4>3. /\ DOMAIN call'.before = DOMAIN call.before \cup {f}
            /\ call'.before[f] = tree[Me][f]
            /\ \A g \in DOMAIN call.before \ {f} : call'.before[g] = call.before[g]
        <5>1. /\ DOMAIN Read(call.before, f) = DOMAIN call.before \cup {f}
              /\ Read(call.before, f)[f] = tree[Me][f]
              /\ \A g \in DOMAIN call.before \ {f} : Read(call.before, f)[g] = call.before[g]
            BY <2>0, <2>r
        <5> QED
            BY <4>2, <5>1
      <4>4. CASE Last(f)
        <5>1. call.todo = {f}
            BY <4>4 DEF Last
        <5>2. Matches(call'.before, call.index)
            BY <2>0, <4>1, <4>3, <5>1 DEF Matches
        <5> QED
            BY <2>0, <3>0, <4>2, <4>4, <5>2 DEF CalmFits, Finalizing, Replacing, Matches
      <4>5. CASE ~Last(f)
        <5>1. \A g \in SourcePaths \ Ignored :
                  call.index[g] = IF g \in call'.todo THEN tree[Me][g]
                                  ELSE IF g \in DOMAIN call'.before THEN call'.before[g]
                                  ELSE Absent
            BY <2>0, <4>1, <4>2, <4>3, <4>5
        <5> QED
            BY <2>0, <3>0, <4>2, <4>5, <5>1 DEF CalmFits, Finalizing, Replacing
      <4> QED
          BY <4>4, <4>5
    <3>2. CASE call.step # "before"
      <4>1. /\ Matches(call.before, call.index) /\ call'.before = call.before
            /\ call'.step \notin {"before", "names", "diff"} \cup Replacing
          BY <1>0, <1>3, <2>0, <3>2 DEF CalmFits, Finalizing, PassReads, Passes, Replacing
      <4> QED
          BY <2>0, <3>0, <4>1 DEF CalmFits, Finalizing, Matches
    <3> QED
        BY <3>1, <3>2
  <2>5. ArtifactsFit'
      BY <2>0 DEF ArtifactsFit, Finalizing, Passes
  <2> QED
      BY <1>1, <2>1, <2>3, <2>4, <2>5 DEF Steady
<1> QED
    BY <1>0, <1>2, <1>3

LEMMA CompareStep ==
    ASSUME Inv, Compare
    PROVE  Steady' /\ Results'
<1>0. /\ WorkTypeOK /\ Steady /\ Results
      /\ call.op = "finalize" /\ call.step = "compare" /\ UNCHANGED files
    BY DEF Inv, Steady, Results, Compare, At, files
<1>1. Results'
    BY <1>0, ResultsKept DEF files
<1>2. CASE Return("raised")
    BY <1>0, <1>1, <1>2, ReturnStep
<1>3. CASE ~Return("raised")
  <2>1. /\ Moves /\ call'.step = "patch" /\ call.before = call.chosen
      BY <1>0, <1>3, GoMoves DEF Compare
  <2>2. CallFits'
      BY <1>0, <2>1 DEF Steady, CallFits, Moves, Finalizing, At, files, Staging,
          Replacing, Finalized
  <2>3. PassFits' /\ ArtifactsFit'
      BY <1>0, <2>1 DEF Steady, Moves, PassFits, ArtifactsFit, Finalizing, Staging,
          Passes, Replacing
  <2>4. CalmFits'
      BY <1>0, <2>1 DEF Steady, Moves, CalmFits, Finalizing, Passes, Replacing, Matches
  <2> QED
      BY <1>1, <2>2, <2>3, <2>4 DEF Steady
<1> QED
    BY <1>2, <1>3

LEMMA ReplaceStep ==
    ASSUME Inv, ReplacePatch \/ ReplaceZip
    PROVE  Steady' /\ Results'
<1>0. /\ WorkTypeOK /\ Steady /\ Results /\ call.op = "finalize"
      /\ call.step \in {"patch", "zip"} /\ Me \in Candidates
      /\ tree' = tree /\ manifest' = manifest
      /\ ~Finalized(Me)
    BY DEF Inv, Steady, Results, CallFits, ReplacePatch, ReplaceZip, At, Finalizing,
        Replacing, Finalized
<1>1. Moves /\ \/ call.step = "patch" /\ call'.step = "zip"
               \/ call.step = "zip" /\ call'.step = "finish"
    BY <1>0, GoMoves DEF ReplacePatch, ReplaceZip, At
<1>2. /\ \A c \in Candidates \ {Me} : patch'[c] = patch[c] /\ zip'[c] = zip[c]
      /\ call.step = "patch" => patch'[Me] = call.patch
      /\ call.step = "zip" => patch' = patch /\ zip'[Me] = call.packed
    BY <1>0 DEF ReplacePatch, ReplaceZip, At, WorkTypeOK
<1>3. Results'
    BY <1>0, <1>2 DEF Results, ArtifactsMatchManifest, EvaluatedIsMerged, Finalized
<1>4. CallFits'
    BY <1>0, <1>1 DEF Steady, CallFits, Moves, Finalizing, At, Staging, Replacing,
        Finalized
<1>5. PassFits'
    BY <1>0, <1>1 DEF Steady, Moves, PassFits, Finalizing, Staging, Passes, Replacing
<1>6. CalmFits'
    BY <1>0, <1>1 DEF Steady, Moves, CalmFits, Finalizing, Passes, Replacing, Matches
<1>7. ArtifactsFit'
    BY <1>0, <1>1, <1>2 DEF Steady, Moves, ArtifactsFit, Finalizing
<1> QED
    BY <1>3, <1>4, <1>5, <1>6, <1>7 DEF Steady

LEMMA FinishStep ==
    ASSUME Inv, Finish
    PROVE  Steady' /\ Results'
<1>0. /\ WorkTypeOK /\ Steady /\ Results /\ call.op = "finalize"
      /\ call.step = "finish" /\ Me \in Candidates /\ manifest[Me] \in Manifests
      /\ tree' = tree /\ patch' = patch /\ zip' = zip
    BY DEF Inv, Steady, Results, CallFits, Finish, At, Finalizing, Replacing, WorkTypeOK
<1>1. Moves /\ call'.step = "done"
    BY <1>0, ReturnMoves DEF Finish
<1>2. /\ \A c \in Candidates \ {Me} : manifest'[c] = manifest[c]
      /\ manifest'[Me].patch = call.patch /\ manifest'[Me].zip = call.packed
      /\ manifest'[Me].entries = call.chosen /\ manifest'[Me].commit = call.index
      /\ manifest'[Me].calm = call.calm
    BY <1>0 DEF Finish, WorkTypeOK, Manifests
<1>3. /\ patch[Me] = call.patch /\ zip[Me] = call.packed /\ call.packed = call.chosen
      /\ call.calm => call.patch = call.index /\ Matches(call.chosen, call.index)
    BY <1>0 DEF Steady, PassFits, CalmFits, ArtifactsFit, Finalizing, Replacing
<1>4. ArtifactsMatchManifest'
    BY <1>0, <1>2, <1>3 DEF Results, ArtifactsMatchManifest, Finalized
<1>5. EvaluatedIsMerged'
    BY <1>0, <1>2, <1>3 DEF Results, EvaluatedIsMerged, Finalized, Matches
<1>6. PassFits' /\ CalmFits' /\ ArtifactsFit'
    BY <1>0, <1>1, DoneFits DEF Steady
<1>7. CallFits'
    BY <1>0, <1>1 DEF Steady, CallFits, Moves, Finalizing, At, Staging, Passes, Replacing
<1> QED
    BY <1>4, <1>5, <1>6, <1>7 DEF Steady, Results

LEMMA EditStep ==
    ASSUME Inv, NEW c \in Candidates, NEW f \in Paths, NEW v \in Contents \cup {Absent},
           Edit(c, f, v)
    PROVE  Steady' /\ Results'
<1>0. WorkTypeOK /\ Steady /\ Results /\ UNCHANGED <<manifest, patch, zip>>
    BY DEF Inv, Steady, Results, Edit
<1>1. Results'
    BY <1>0, ResultsKept
<1>2. CASE call.step = "idle"
  <2>1. UNCHANGED call
      BY <1>0, <1>2 DEF Edit, Running, Steady, CallFits
  <2> QED
      BY <1>0, <1>1, <1>2, <2>1 DEF Steady, CallFits, PassFits, CalmFits, ArtifactsFit,
          Finalizing, At, Me, Staging, Passes, Replacing
<1>3. CASE call.step # "idle"
  <2>0. /\ call'.op = "finalize" /\ call.op = "finalize" /\ Me' = Me
        /\ call'.step = call.step
        /\ call'.parent = call.parent /\ call'.index = call.index
        /\ call'.patch = call.patch /\ call'.before = call.before
        /\ call'.chosen = call.chosen /\ call'.packed = call.packed
        /\ call'.todo = call.todo /\ call.stale \subseteq call'.stale
        /\ f \in DOMAIN call.chosen => f \in call'.stale
        /\ call'.calm => call.calm /\ ~Unseen(f)
        /\ \A g \in Paths \ {f} : tree'[Me][g] = tree[Me][g]
        /\ tree'[Me] \in Trees
      BY <1>0, <1>3, EditEffect DEF Steady
  <2>1. CallFits'
    <3>1. tree'[Me] # None
        BY <2>0, NoneAssumption
    <3> QED
        BY <1>0, <2>0, <3>1 DEF Steady, CallFits, Finalizing, At, Staging, Passes,
            Replacing
  <2>2. PassFits'
    <3>1. DOMAIN call.chosen \subseteq Paths
        BY <1>0, ReadingShape, SourcesAssumption DEF WorkTypeOK, Calls
    <3> QED
        BY <1>0, <2>0, <3>1 DEF Steady, PassFits, Finalizing
  <2>3. CalmFits'
    <3> SUFFICES ASSUME call'.calm PROVE CalmFits'
        BY DEF CalmFits
    <3>1. call.calm /\ call.step \notin {"names", "diff"}
          /\ (call.step = "before" => f \notin call.todo)
        BY <2>0 DEF Unseen
    <3> QED
        BY <1>0, <2>0, <3>1, SourcesAssumption DEF Steady, CalmFits, Finalizing, Passes,
            Replacing, Matches
  <2>4. ArtifactsFit'
      BY <1>0, <2>0 DEF Steady, ArtifactsFit, Finalizing
  <2> QED
      BY <1>1, <2>1, <2>2, <2>3, <2>4 DEF Steady
<1> QED
    BY <1>2, <1>3

LEMMA RestageStep ==
    ASSUME Inv, Restage
    PROVE  Steady' /\ Results'
<1>0. /\ WorkTypeOK /\ Steady /\ Results /\ UNCHANGED files
      /\ call.op = "finalize" /\ call \in Calls
    BY DEF Inv, Steady, Results, Restage, WorkTypeOK
<1>1. Results'
    BY <1>0, ResultsKept DEF files
<1>2. /\ call'.op = call.op /\ Me' = Me /\ call'.step = call.step
      /\ call'.parent = call.parent /\ call'.patch = call.patch
      /\ call'.before = call.before /\ call'.chosen = call.chosen
      /\ call'.packed = call.packed /\ call'.todo = call.todo
      /\ call'.stale = call.stale /\ call'.calm = FALSE
    BY <1>0 DEF Restage, Calls, Me
<1>3. CallFits' /\ PassFits' /\ ArtifactsFit'
    BY <1>0, <1>2 DEF Steady, CallFits, PassFits, ArtifactsFit, Finalizing, At, files,
        Finalized
<1>4. CalmFits'
    BY <1>2 DEF CalmFits
<1> QED
    BY <1>1, <1>3, <1>4 DEF Steady

LEMMA InvInit == WorkInit => Inv
<1> SUFFICES ASSUME WorkInit PROVE Inv
    OBVIOUS
<1>1. call.op = "none" /\ call.step = "idle"
    BY DEF WorkInit, NoCall
<1>2. \A c \in Candidates : ~Finalized(c)
    BY DEF WorkInit, Finalized
<1> QED
    BY <1>1, <1>2, TypeInit DEF Inv, CallFits, PassFits, CalmFits, ArtifactsFit,
        Finalizing, At, ArtifactsMatchManifest, EvaluatedIsMerged

LEMMA InvStep == Inv /\ [WorkNext]_cvars => Inv'
<1> SUFFICES ASSUME Inv, [WorkNext]_cvars PROVE Inv'
    OBVIOUS
<1>0. WorkTypeOK' /\ Steady /\ Results
    BY TypeStep DEF Inv, Steady, Results
<1> SUFFICES Steady' /\ Results'
    BY <1>0 DEF Inv, Steady, Results
<1>1. ASSUME NEW c \in Candidates, UNCHANGED files,
             \/ \E parent : EnterPrepare(c, parent)
             \/ \E scope : EnterFinalize(c, scope)
             \/ call' = NoCall
      PROVE  Steady' /\ Results'
    BY <1>0, <1>1, EnterStep, ResultsKept DEF files
<1>2. ASSUME call' = NoCall, UNCHANGED files PROVE Steady' /\ Results'
  <2>1. call'.op = "none" /\ call'.step = "idle"
      BY <1>2 DEF NoCall
  <2> QED
      BY <1>0, <1>2, <2>1, ResultsKept DEF Steady, CallFits, PassFits, CalmFits,
          ArtifactsFit, Finalizing, At, files
<1>3. CASE WorkspaceStep
    BY <1>3, PrepareStep, StagingStep, PassStep, CompareStep, ReplaceStep, FinishStep
       DEF WorkspaceStep
<1>4. CASE AgentActs
    BY <1>4, EditStep, RestageStep DEF AgentActs
<1>5. ASSUME UNCHANGED <<files, call>> PROVE Steady' /\ Results'
    BY <1>0, <1>5, SteadyKept, ResultsKept DEF files
<1>6. CASE UNCHANGED cvars
    BY <1>5, <1>6 DEF cvars, files
<1>7. CASE CrashCall \/ Elsewhere
    BY <1>2, <1>5, <1>7 DEF CrashCall, Elsewhere
<1>8. CASE /\ call.step = "idle"
           /\ \/ \E c \in Candidates, parent \in Candidates \cup {None} :
                    EnterPrepare(c, parent)
              \/ \E c \in Candidates, scope \in SUBSET Paths : EnterFinalize(c, scope)
           /\ UNCHANGED <<files, disturbed>>
    BY <1>1, <1>8
<1>9. CASE call.step = "done" /\ Leave /\ UNCHANGED <<files, disturbed>>
    BY <1>2, <1>9 DEF Leave
<1> QED
    BY <1>3, <1>4, <1>6, <1>7, <1>8, <1>9 DEF WorkNext

-----------------------------------------------------------------------------
(* The theorems.                                                           *)

LEMMA Invariant == WorkSpec => []Inv
BY InvInit, InvStep, PTL DEF WorkSpec

\* The workspaces keep their types.
THEOREM WorkTypesCorrect == WorkSpec => []WorkTypeOK
BY Invariant, PTL DEF Inv

\* A finalized manifest has the patch and the archive of its hashes beside it,
\* whatever was edited, and wherever the calls died.
THEOREM ManifestsAreTrue == WorkSpec => []ArtifactsMatchManifest
BY Invariant, PTL DEF Inv

\* Without an edit between staging and the first fingerprint, the archive that
\* is evaluated, the patch that is applied and the commit have the same source
\* files.
THEOREM EvaluatedAndMerged == WorkSpec => []EvaluatedIsMerged
BY Invariant, PTL DEF Inv

-----------------------------------------------------------------------------
(* The job and its files.                                                  *)

VP == INSTANCE Verification_proofs

\* The requests an issue of this job can hold, and those a start goes on with.
Reqs == IssueEdits \cup {setup.issue}
Starts(r) == r \in Reqs /\ Runs(r) /\ V!HasAuthority(setup.permission, r)
JobIdentities == {id \in Identities : ~NoDigests(id)}

EnvFits ==
    /\ setup \in Setups
    /\ issue \in Reqs
    /\ request \in Reqs \cup {None}
    /\ temp \subseteq Reqs
    /\ broken \in BOOLEAN

StartSteps == {"verify", "baseline", "announce", "persist"}
Cmds ==
    [op : {"none", "start", "handoff", "complete"},
     pc : {"idle", "store", "rename", "call"} \cup StartSteps,
     next : {"idle"} \cup StartSteps,
     cand : Candidates \cup {None}, req : Reqs \cup {None}]

\* What the running command is at, and that it alone uses the workspaces.
CmdFits ==
    /\ cmd \in Cmds
    /\ cmd.op = "none" => cmd = IdleCmd
    /\ cmd.pc = "idle" => cmd = IdleCmd
    /\ cmd.op = "start" =>
           /\ Starts(cmd.req)
           /\ cmd.pc \in {"store", "rename"} \cup StartSteps
           /\ cmd.next \in StartSteps
    /\ cmd.op \in {"handoff", "complete"} =>
           /\ cmd.cand \in Candidates
           /\ cmd.pc \in {"call", "store"}
           /\ cmd.next = "idle"
           /\ request # None /\ Runs(request)

CallOfCmd ==
    /\ cmd.pc # "call" => call = NoCall
    /\ cmd.pc = "call" =>
           /\ call.step # "idle"
           /\ Me = cmd.cand
           /\ cmd.op = "handoff" => call.op = "prepare"
           /\ cmd.op = "complete" => call.op = "finalize" /\ call.scope = Scope(request)

-----------------------------------------------------------------------------
(* What the registry and a request make of the job.                        *)

LEMMA SameVerification ==
    ASSUME NEW p, NEW r
    PROVE  /\ VP!Resolve(p, r) = V!Resolve(p, r)
           /\ VP!RuntimePolicy(p, r) = V!RuntimePolicy(p, r)
           /\ VP!Profiles = V!Profiles /\ VP!Requests = V!Requests
           /\ VP!Resolutions = V!Resolutions
           /\ VP!Overrides(r) = V!Overrides(r)
<1>1. VP!Gates = V!Gates
    BY DEF VP!Gates, V!Gates
<1>2. /\ VP!Profiles = V!Profiles /\ VP!Requests = V!Requests
      /\ VP!Resolutions = V!Resolutions
    BY <1>1 DEF VP!Profiles, V!Profiles, VP!Requests, V!Requests, VP!Resolutions,
        V!Resolutions
<1>3. VP!Overrides(r) = V!Overrides(r)
    BY DEF VP!Overrides, V!Overrides
<1>4. VP!Resolve(p, r) = V!Resolve(p, r)
    BY DEF VP!Resolve, V!Resolve, VP!Usable, V!Usable, VP!CompatibleEvaluators,
        V!CompatibleEvaluators, VP!ByFoundry, V!ByFoundry, VP!ByChecks, V!ByChecks,
        VP!NoEvidence, V!NoEvidence, VP!Unused, V!Unused, VP!WithoutEffect,
        V!WithoutEffect
<1>5. VP!RuntimePolicy(p, r) = V!RuntimePolicy(p, r)
    BY DEF VP!RuntimePolicy, V!RuntimePolicy, VP!Policy, V!Policy, VP!Narrow, V!Narrow
<1> QED
    BY <1>2, <1>3, <1>4, <1>5

LEMMA RequestFacts ==
    ASSUME EnvFits, NEW r \in Reqs
    PROVE  /\ r \in V!Requests /\ r # None
           /\ Profile(r) # None => Profile(r) \in V!Profiles /\ Identity(r) \in JobIdentities
<1>1. r \in V!Requests
    BY SetupsAssumption DEF EnvFits, Reqs
<1>2. ASSUME Profile(r) # None PROVE Profile(r) \in V!Profiles
  <2>1. PICK A \in SUBSET Agents : setup.registry \in [A -> V!Profiles \cup {None}]
      BY SetupsAssumption DEF EnvFits, V!IsRegistry
  <2>2. CASE r.agent \in DOMAIN setup.registry
      BY <1>2, <2>1, <2>2 DEF Profile, V!Selected
  <2>3. CASE r.agent \notin DOMAIN setup.registry
    <3>1. \E a \in Agents : DOMAIN setup.registry = {a}
        BY <1>2, <2>3 DEF Profile, V!Selected
    <3> DEFINE a == CHOOSE b \in Agents : DOMAIN setup.registry = {b}
    <3>2. DOMAIN setup.registry = {a}
        BY <3>1
    <3>3. Profile(r) \in {setup.registry[a], None}
        BY <2>3 DEF Profile, V!Selected
    <3> QED
        BY <1>2, <2>1, <3>2, <3>3
  <2> QED
      BY <2>2, <2>3
<1>3. ASSUME Profile(r) # None PROVE Identity(r) \in JobIdentities
    BY <1>3, PartsAssumption DEF EnvFits, Reqs, Profile, Identity, JobIdentities
<1> QED
    BY <1>1, <1>2, <1>3, DistinctAssumption

LEMMA RunFacts ==
    ASSUME EnvFits, NEW r \in Reqs, Runs(r)
    PROVE  /\ Resolved(r) \in V!Resolutions /\ Resolved(r) # Empty
           /\ Resolved(r).gate = Profile(r).gate
           /\ Resolved(r).source = "issue" => V!Overrides(r)
           /\ Scope(r) \subseteq Paths
           /\ Identity(r) \in JobIdentities
<1> DEFINE p == Profile(r)
<1>1. p \in V!Profiles /\ r \in V!Requests /\ Identity(r) \in JobIdentities
    BY RequestFacts DEF Runs
<1>2. V!Resolve(p, r) # None /\ V!RuntimePolicy(p, r) # None
    BY DEF Runs, Resolved, RuntimePolicy
<1> HIDE DEF p
<1>3. /\ VP!Resolve(p, r) = V!Resolve(p, r)
      /\ VP!RuntimePolicy(p, r) = V!RuntimePolicy(p, r)
      /\ VP!Profiles = V!Profiles /\ VP!Requests = V!Requests
      /\ VP!Resolutions = V!Resolutions
      /\ VP!Overrides(r) = V!Overrides(r)
    BY SameVerification
<1>4. V!Resolve(p, r) \in V!Resolutions /\ V!Resolve(p, r).gate = p.gate
    BY <1>1, <1>2, <1>3, VP!ResolutionType DEF VP!ResolutionType
<1>5. V!Resolve(p, r).source = "issue" => V!Overrides(r)
  <2>1. VP!Justified(VP!Resolve(p, r), p, r)
    BY <1>1, <1>2, <1>3, VP!ResolutionIsJustified DEF VP!ResolutionIsJustified
  <2> QED
    BY <2>1, <1>3 DEF VP!Justified
<1>6. V!RuntimePolicy(p, r).editable \subseteq p.editable
    BY <1>1, <1>2, <1>3, VP!PolicyStaysInProfile DEF VP!PolicyStaysInProfile
<1>7. p.editable \subseteq Paths
    BY <1>1 DEF V!Profiles
<1> QED
    BY <1>1, <1>4, <1>5, <1>6, <1>7, DistinctAssumption
       DEF p, Resolved, Scope, RuntimePolicy

-----------------------------------------------------------------------------
(* What a step does to the running call of the workspaces.                 *)

CallKept == call'.op = call.op /\ Me' = Me /\ call'.scope = call.scope

LEMMA WorkspaceKeepsCall ==
    ASSUME WorkTypeOK, WorkspaceStep
    PROVE  CallKept /\ call.step # "idle" /\ call'.step # "idle"
<1>0. call \in Calls
    BY DEF WorkTypeOK
<1>1. ASSUME NEW step \in Steps \ {"idle"}, Go(step)
      PROVE CallKept /\ call'.step # "idle"
    BY <1>0, <1>1 DEF Go, CallKept, Calls, Me
<1>2. ASSUME NEW status, Return(status) PROVE CallKept /\ call'.step # "idle"
    BY <1>0, <1>2 DEF Return, CallKept, Calls, Me
<1>3. ASSUME CheckPrepare \/ AddWorktree \/ WriteManifest \/ Open \/ CheckNames
             \/ Compare \/ ReplacePatch \/ ReplaceZip \/ Finish
      PROVE /\ call.step # "idle"
            /\ \/ \E step \in Steps \ {"idle"} : Go(step)
               \/ \E status : Return(status)
    BY <1>3 DEF CheckPrepare, AddWorktree, WriteManifest, Open, CheckNames, Compare,
        ReplacePatch, ReplaceZip, Finish, At, Steps
<1>4. CASE Stage \/ Diff
    BY <1>0, <1>2, <1>4 DEF Stage, Diff, At, CallKept, Calls, Me
<1>5. ASSUME NEW f \in SourcePaths, Before(f) \/ Select(f) \/ Pack(f) \/ After(f)
      PROVE CallKept /\ call.step # "idle" /\ call'.step # "idle"
  <2>1. call.step # "idle"
      BY <1>5 DEF Before, Select, Pack, After, Opened, At
  <2>2. CASE \E status : Return(status)
      BY <1>2, <2>1, <2>2
  <2>3. CASE ~\E status : Return(status)
      BY <1>0, <1>5, <2>1, <2>3, ZenonT(40) DEF Before, Select, Pack, After, CallKept, Calls, Me
  <2> QED
      BY <2>2, <2>3
<1> QED
    BY <1>1, <1>2, <1>3, <1>4, <1>5 DEF WorkspaceStep

LEMMA AgentKeepsCall ==
    ASSUME WorkTypeOK, AgentActs
    PROVE  /\ CallKept /\ call'.step = call.step /\ call'.status = call.status
           /\ call = NoCall => call' = NoCall
           /\ UNCHANGED manifest
<1>0. call \in Calls
    BY DEF WorkTypeOK
<1>1. call = NoCall => call.op = "none"
    BY DEF NoCall
<1>2. ASSUME NEW c \in Candidates, NEW f \in Paths, NEW v, Edit(c, f, v)
      PROVE  /\ UNCHANGED manifest
             /\ \/ UNCHANGED call
                \/ /\ call.op = "finalize"
                   /\ \E stale, calm : call' = [call EXCEPT !.stale = stale, !.calm = calm]
    BY <1>2 DEF Edit, Running
<1>3. CASE Restage
  <2>1. /\ call' = [call EXCEPT !.index = Staged(tree[Me]), !.calm = FALSE]
        /\ call.op = "finalize" /\ UNCHANGED manifest
      BY <1>3 DEF Restage, files
  <2> QED
      BY <1>0, <1>1, <2>1 DEF CallKept, Calls, Me
<1>4. ASSUME NEW stale, NEW calm, call' = [call EXCEPT !.stale = stale, !.calm = calm]
      PROVE CallKept /\ call'.step = call.step /\ call'.status = call.status
    BY <1>0, <1>4 DEF CallKept, Calls, Me
<1>5. ASSUME UNCHANGED call
      PROVE CallKept /\ call'.step = call.step /\ call'.status = call.status
    BY <1>5 DEF CallKept, Me
<1> QED
    BY <1>1, <1>2, <1>3, <1>4, <1>5 DEF AgentActs

\* A manifest stays, and a finalized one stays finalized.
ManifestsGrow ==
    \A c \in Candidates :
        /\ manifest[c] # None => manifest'[c] # None
        /\ Finalized(c) => Finalized(c)'

LEMMA ManifestStep ==
    ASSUME Inv, Inv', [WorkNext]_cvars
    PROVE  ManifestsGrow
<1>0. /\ call \in Calls
      /\ manifest \in [Candidates -> Manifests \cup {None}]
      /\ CallFits /\ None \notin Manifests
    BY DistinctAssumption DEF Inv, WorkTypeOK
<1>1. ASSUME UNCHANGED manifest PROVE ManifestsGrow
    BY <1>1 DEF ManifestsGrow, Finalized
<1>2. CASE WriteManifest
  <2>1. Me \in Candidates /\ manifest[Me] = None
      BY <1>0, <1>2 DEF WriteManifest, At, CallFits
  <2>2. \A c \in Candidates \ {Me} : manifest'[c] = manifest[c]
      BY <1>0, <1>2 DEF WriteManifest
  <2> QED
      BY <2>1, <2>2 DEF ManifestsGrow, Finalized
<1>3. CASE Finish
  <2>1. Me \in Candidates /\ manifest[Me] # None
      BY <1>0, <1>3 DEF Finish, At, CallFits, Finalizing, Replacing
  <2>2. /\ \A c \in Candidates \ {Me} : manifest'[c] = manifest[c]
        /\ manifest'[Me].final
    <3>1. manifest[Me] \in Manifests
        BY <1>0, <2>1
    <3> QED
        BY <1>0, <1>3, <2>1, <3>1 DEF Finish, Manifests
  <2>3. manifest'[Me] # None
    <3>1. manifest[Me] \in Manifests
        BY <1>0, <2>1
    <3>2. manifest'[Me] = [manifest[Me] EXCEPT !.final = TRUE, !.patch = call.patch,
              !.zip = call.packed, !.entries = call.chosen,
              !.commit = call.index, !.calm = call.calm]
        BY <1>0, <1>3, <2>1 DEF Finish
    <3>3. manifest'[Me] \in Manifests
        BY <1>0, <3>1, <3>2 DEF Manifests, Calls
    <3> QED
        BY <1>0, <3>3
  <2> QED
      BY <2>2, <2>3 DEF ManifestsGrow, Finalized
<1>4. ASSUME WorkNext, ~WriteManifest, ~Finish PROVE UNCHANGED manifest
    BY <1>4 DEF WorkNext, WorkspaceStep, CheckPrepare, AddWorktree, Open, Stage,
        CheckNames, Diff, Before, Select, Pack, After, Opened, Compare, ReplacePatch,
        ReplaceZip, AgentActs, Edit, Restage, CrashCall, Elsewhere, files
<1> QED
    BY <1>1, <1>2, <1>3, <1>4 DEF cvars

-----------------------------------------------------------------------------
(* Every step is one the state file and the workspaces allow.              *)

Fits == EnvFits /\ CmdFits /\ CallOfCmd
Allowed == [FileNext]_fvars /\ [WorkNext]_cvars /\ Fits'

LEMMA FitsInit == Init => Fits
<1> SUFFICES ASSUME Init PROVE Fits
    OBVIOUS
<1>1. EnvFits
    BY DEF Init, EnvFits, Reqs
<1>2. CmdFits
    BY DEF Init, CmdFits, IdleCmd, Cmds
<1>3. CallOfCmd
    BY DEF Init, CallOfCmd, WorkInit, IdleCmd
<1> QED
    BY <1>1, <1>2, <1>3 DEF Fits

LEMMA EnvKept ==
    ASSUME EnvFits, setup' = setup, issue' \in Reqs, request' \in Reqs \cup {None},
           temp' \subseteq Reqs, broken' \in BOOLEAN
    PROVE  EnvFits' /\ Reqs' = Reqs /\ Cmds' = Cmds
BY DEF EnvFits, Reqs, Cmds

LEMMA EnvUnchanged ==
    ASSUME Fits, UNCHANGED env
    PROVE  EnvFits' /\ UNCHANGED <<setup, request>>
BY EnvKept DEF Fits, EnvFits, env

\* A command that ends, and one that goes on with its start or its record.
LEMMA EndFits ==
    ASSUME EnvFits', cmd' = IdleCmd, call' = NoCall
    PROVE  Fits'
BY DEF Fits, CmdFits, CallOfCmd, Cmds, IdleCmd

LEMMA StartGoesOn ==
    ASSUME Fits, setup' = setup, EnvFits', Cmds' = Cmds, call' = call,
           cmd.op = "start",
           NEW pc \in {"store", "rename"} \cup StartSteps, NEW next \in StartSteps,
           cmd' = [cmd EXCEPT !.pc = pc, !.next = next]
    PROVE  Fits'
<1>1. /\ cmd' \in Cmds /\ cmd'.op = "start" /\ cmd'.req = cmd.req
      /\ cmd'.pc = pc /\ cmd'.next = next
    BY DEF Fits, CmdFits, Cmds
<1>2. Starts(cmd.req)'
    BY <1>1 DEF Fits, CmdFits, Starts, Runs, Profile, RuntimePolicy, Resolved, Reqs
<1>3. cmd.pc # "call" /\ pc \notin {"call", "idle"}
    BY DEF Fits, CmdFits, StartSteps
<1>4. CmdFits'
    BY <1>1, <1>2, <1>3 DEF CmdFits
<1>5. CallOfCmd'
    BY <1>1, <1>3 DEF CallOfCmd, Fits
<1> QED
    BY <1>4, <1>5 DEF Fits

LEMMA KeepsCandidates == UNCHANGED cvars => [WorkNext]_cvars /\ call' = call
BY DEF cvars

LEMMA JobMayUpdate ==
    ASSUME NEW k \in Keys \ {"identity"}, NEW v \in Values, Update("job", k, v)
    PROVE  [FileNext]_fvars
BY PartsAssumption DEF FileNext

LEMMA KeyFacts ==
    /\ {"verification", "baseline", "decision"} \cup Candidates \subseteq Keys \ {"identity"}
    /\ V!Resolutions \cup Marks \cup {Empty} \subseteq Values
    /\ \A w \in {"evaluated", "announced", "handoff", "finalized", "invalid", "decided"} :
           Mark(w) \in Marks
BY PartsAssumption, DistinctAssumption DEF Mark, Marks

LEMMA StartJobAllowed ==
    ASSUME Fits, StartJob
    PROVE  Allowed
<1>1. cmd = IdleCmd /\ call = NoCall /\ UNCHANGED cvars
    BY DEF Fits, CmdFits, CallOfCmd, StartJob
<1>2. EnvFits' /\ Reqs' = Reqs /\ Cmds' = Cmds
  <2>1. /\ setup' = setup /\ issue' = issue /\ temp' = temp /\ broken' = broken
        /\ request' \in {None, request}
      BY DEF StartJob
  <2> QED
      BY <2>1, EnvKept DEF Fits, EnvFits
<1>3. CASE Resolved(issue) = None
  <2>1. UNCHANGED <<fvars, cmd>>
      BY <1>3 DEF StartJob
  <2> QED
      BY <1>1, <1>2, <2>1, EndFits, KeepsCandidates DEF Allowed
<1>4. CASE Resolved(issue) # None
  <2>1. issue \in Reqs /\ Starts(issue) /\ Identity(issue) \in Identities
    <3>1. issue \in Reqs /\ EnvFits
        BY DEF Fits, EnvFits
    <3>2. Starts(issue)
        BY <1>4, <3>1 DEF StartJob, Starts, Runs
    <3> QED
        BY <3>1, <3>2, RequestFacts DEF StartJob, JobIdentities
  <2>2. [FileNext]_fvars
      BY <1>4, <2>1, PartsAssumption DEF StartJob, FileNext
  <2>3. /\ cmd' = [op |-> "start", pc |-> "store", next |-> "verify", cand |-> None,
                   req |-> issue]
        /\ setup' = setup
      BY <1>1, <1>4 DEF StartJob, IdleCmd
  <2>4. cmd' \in Cmds'
      BY <1>2, <2>1, <2>3 DEF Cmds, StartSteps
  <2>5. Starts(cmd.req)'
      BY <2>1, <2>3 DEF Starts, Runs, Profile, RuntimePolicy, Resolved, Reqs
  <2>6. CmdFits' /\ CallOfCmd'
      BY <1>1, <2>3, <2>4, <2>5, KeepsCandidates DEF CmdFits, CallOfCmd, StartSteps
  <2> QED
      BY <1>1, <1>2, <2>2, <2>6, KeepsCandidates DEF Allowed, Fits
<1> QED
    BY <1>3, <1>4

LEMMA FailFits ==
    ASSUME Fits, Fail, call' = NoCall
    PROVE  Fits'
<1>1. EnvFits'
    BY EnvKept DEF Fits, EnvFits, Fail
<1> QED
    BY <1>1, EndFits DEF Fail, End

LEMMA GoOnFits ==
    ASSUME Fits, call' = call, cmd.pc # "call", setup' = setup, EnvFits', Cmds' = Cmds,
           \/ End
           \/ cmd.op = "start" /\ \E pc \in {"rename"} \cup StartSteps : To(pc)
    PROVE  Fits'
<1>1. call' = NoCall
    BY DEF Fits, CallOfCmd
<1>2. CASE End
    BY <1>1, <1>2, EndFits DEF End
<1>3. ASSUME cmd.op = "start", NEW pc \in {"rename"} \cup StartSteps, To(pc) PROVE Fits'
  <2>1. cmd' = [cmd EXCEPT !.pc = pc, !.next = cmd.next] /\ cmd.next \in StartSteps
      BY <1>3 DEF To, Fits, CmdFits, Cmds
  <2> QED
      BY <1>3, <2>1, StartGoesOn
<1> QED
    BY <1>2, <1>3

\* A step of a start: it stores, goes on, ends or fails.
LEMMA FailAllowed ==
    ASSUME Fits, Fail, KeepFiles, cmd.pc # "call"
    PROVE  Allowed
<1>1. call' = NoCall /\ [WorkNext]_cvars /\ [FileNext]_fvars
    BY KeepsCandidates DEF KeepFiles, Fits, CallOfCmd
<1> QED
    BY <1>1, FailFits DEF Allowed

LEMMA GoOnAllowed ==
    ASSUME Fits, KeepFiles, cmd.op = "start", cmd.pc # "call", setup' = setup,
           EnvFits', Cmds' = Cmds,
           End \/ \E pc \in {"rename"} \cup StartSteps : To(pc)
    PROVE  Allowed
<1>1. call' = call /\ [WorkNext]_cvars /\ [FileNext]_fvars
    BY KeepsCandidates DEF KeepFiles
<1> QED
    BY <1>1, GoOnFits DEF Allowed

LEMMA StoreAllowed ==
    ASSUME Fits, cmd.op = "start", NEW k \in Keys \ {"identity"}, NEW v \in Values,
           NEW next \in StartSteps, Store(k, v, next)
    PROVE  Allowed
<1>1. [FileNext]_fvars /\ [WorkNext]_cvars /\ call' = call
    BY JobMayUpdate, KeepsCandidates DEF Store
<1>2. EnvFits' /\ Reqs' = Reqs /\ Cmds' = Cmds /\ setup' = setup
    BY EnvKept DEF Fits, EnvFits, Store, env
<1>3. cmd' = [cmd EXCEPT !.pc = "store", !.next = next]
    BY DEF Store
<1> QED
    BY <1>1, <1>2, <1>3, StartGoesOn DEF Allowed

LEMMA StartStepAllowed ==
    ASSUME Fits, Verify \/ Baseline \/ Announce \/ Persist \/ Rename
    PROVE  Allowed
<1>1. /\ cmd.op = "start" /\ cmd.pc # "call" /\ Starts(cmd.req)
      /\ cmd.req \in Reqs /\ EnvFits
    BY DEF Verify, Baseline, Announce, Persist, Rename, Pc, Fits, CmdFits, Starts
<1>2. /\ \A k \in {"verification", "baseline"} : k \in Keys \ {"identity"}
      /\ Resolved(cmd.req) \in Values
      /\ Mark("evaluated") \in Values /\ Mark("announced") \in Values
    BY <1>1, KeyFacts, RunFacts DEF Starts
<1>3. ASSUME NEW request0 \in {request, cmd.req}, request' = request0,
             temp' \subseteq temp \cup {cmd.req}, setup' = setup, issue' = issue,
             broken' = broken
      PROVE EnvFits' /\ Reqs' = Reqs /\ Cmds' = Cmds
    BY <1>1, <1>3, EnvKept DEF EnvFits
<1>4. ASSUME UNCHANGED env PROVE EnvFits' /\ Cmds' = Cmds /\ setup' = setup
    BY <1>3, <1>4 DEF env
<1>5. CASE Verify
  <2>1. CASE Fail /\ KeepFiles
      BY <1>1, <2>1, FailAllowed
  <2>2. CASE Store("verification", Resolved(cmd.req), "baseline")
      BY <1>1, <1>2, <2>2, StoreAllowed DEF StartSteps
  <2> QED
      BY <1>5, <2>1, <2>2 DEF Verify
<1>6. CASE Baseline
  <2>1. CASE Fail /\ KeepFiles
      BY <1>1, <2>1, FailAllowed
  <2>2. CASE Store("baseline", Mark("evaluated"), "announce")
      BY <1>1, <1>2, <2>2, StoreAllowed DEF StartSteps
  <2>3. CASE (To("announce") \/ To("persist")) /\ UNCHANGED env /\ KeepFiles
      BY <1>1, <1>4, <2>3, GoOnAllowed DEF StartSteps
  <2> QED
      BY <1>6, <2>1, <2>2, <2>3 DEF Baseline
<1>7. CASE Announce
  <2>1. CASE Fail /\ KeepFiles
      BY <1>1, <2>1, FailAllowed
  <2>2. CASE Store("baseline", Mark("announced"), "persist")
      BY <1>1, <1>2, <2>2, StoreAllowed DEF StartSteps
  <2> QED
      BY <1>7, <2>1, <2>2 DEF Announce
<1>8. CASE Persist
  <2>1. CASE Fail
      BY <1>1, <1>8, <2>1, FailAllowed DEF Persist
  <2>2. CASE End /\ UNCHANGED env
      BY <1>1, <1>4, <1>8, <2>2, GoOnAllowed DEF Persist
  <2>3. CASE /\ temp' = temp \cup {cmd.req}
             /\ To("rename")
             /\ UNCHANGED <<setup, issue, request, broken>>
      BY <1>1, <1>3, <1>8, <2>3, GoOnAllowed DEF Persist
  <2> QED
      BY <1>8, <2>1, <2>2, <2>3 DEF Persist
<1>9. CASE Rename
  <2>1. EnvFits' /\ Cmds' = Cmds /\ setup' = setup
      BY <1>3, <1>9 DEF Rename
  <2> QED
      BY <1>1, <1>9, <2>1, GoOnAllowed DEF Rename
<1> QED
    BY <1>5, <1>6, <1>7, <1>8, <1>9

LEMMA EnterAllowed ==
    ASSUME Fits, Inv, NEW c \in Candidates,
           \/ \E parent \in Parents[c], model \in Models : Handoff(c, parent, model)
           \/ Complete(c)
    PROVE  Allowed
<1>1. /\ cmd = IdleCmd /\ call = NoCall /\ request # None /\ Runs(request)
      /\ UNCHANGED <<fvars, files, disturbed, env>>
    BY DEF Handoff, Complete, Loads, Fits, CmdFits, CallOfCmd
<1>2. /\ EnvFits' /\ Reqs' = Reqs /\ Cmds' = Cmds /\ setup' = setup
      /\ request' = request /\ request \in Reqs /\ EnvFits
    BY <1>1, EnvKept DEF Fits, EnvFits, env
<1>3. Runs(request)'
    BY <1>1, <1>2 DEF Runs, Profile, RuntimePolicy, Resolved
<1>4. PICK op1 \in {"handoff", "complete"} :
          cmd' = [op |-> op1, pc |-> "call", next |-> "idle", cand |-> c, req |-> None]
    BY <1>1 DEF Handoff, Complete, IdleCmd
<1>5. CmdFits'
    BY <1>1, <1>2, <1>3, <1>4 DEF CmdFits, Cmds
<1>6. call.step = "idle"
    BY <1>1 DEF NoCall
<1>7. CASE Complete(c)
  <2>1. /\ call'.step = "open" /\ Me' = c /\ call'.op = "finalize"
        /\ call'.scope = Scope(request)
      BY <1>7 DEF Complete, EnterFinalize, NoCall, Me
  <2>2. Scope(request)' = Scope(request)
      BY <1>2 DEF Scope, RuntimePolicy, Profile
  <2>3. cmd'.op = "complete" /\ cmd'.pc = "call" /\ cmd'.cand = c
      BY <1>1, <1>7 DEF Complete, IdleCmd
  <2>4. CallOfCmd'
      BY <2>1, <2>2, <2>3 DEF CallOfCmd
  <2>5. Scope(request) \in SUBSET Paths
      BY <1>1, <1>2, RunFacts
  <2>6. [WorkNext]_cvars
      BY <1>1, <1>6, <1>7, <2>5 DEF Complete, WorkNext
  <2> QED
      BY <1>1, <1>2, <1>5, <2>4, <2>6 DEF Allowed, Fits
<1>8. ASSUME NEW parent \in Parents[c], NEW model \in Models, Handoff(c, parent, model)
      PROVE Allowed
  <2>1. call'.step = "check" /\ Me' = c /\ call'.op = "prepare"
      BY <1>8 DEF Handoff, EnterPrepare, NoCall, Me
  <2>2. cmd'.op = "handoff" /\ cmd'.pc = "call" /\ cmd'.cand = c
      BY <1>1, <1>8 DEF Handoff, IdleCmd
  <2>3. CallOfCmd'
      BY <2>1, <2>2 DEF CallOfCmd
  <2>4. parent \in Candidates \cup {None}
      BY SetupsAssumption
  <2>5. [WorkNext]_cvars
      BY <1>1, <1>6, <1>8, <2>4 DEF Handoff, WorkNext
  <2> QED
      BY <1>1, <1>2, <1>5, <2>3, <2>5 DEF Allowed, Fits
<1> QED
    BY <1>7, <1>8

\* Steps of the call, and of the agent between or beside them.
LEMMA CallKeptFits ==
    ASSUME Fits, EnvFits', CallKept, UNCHANGED <<setup, request, cmd>>,
           call = NoCall => call' = NoCall \/ cmd.pc = "call",
           cmd.pc = "call" => call'.step # "idle"
    PROVE  Fits'
<1>1. Reqs' = Reqs /\ Cmds' = Cmds /\ setup' = setup /\ request' = request
      /\ cmd' = cmd
    BY DEF Reqs, Cmds
<1>2. cmd.op = "start" => Starts(cmd.req)'
    BY <1>1 DEF Fits, CmdFits, Starts, Runs, Profile, RuntimePolicy, Resolved, Reqs
<1>3. Runs(request) => Runs(request)'
    BY <1>1 DEF Runs, Profile, RuntimePolicy, Resolved
<1>4. CmdFits'
    BY <1>1, <1>2, <1>3 DEF Fits, CmdFits
<1>5. Scope(request)' = Scope(request)
    BY <1>1 DEF Scope, RuntimePolicy, Profile
<1>6. CallOfCmd'
    BY <1>1, <1>5 DEF Fits, CallOfCmd, CallKept
<1> QED
    BY <1>1, <1>4, <1>6 DEF Fits

LEMMA WorkspaceAllowed ==
    ASSUME Fits, Inv, Workspace \/ Agent
    PROVE  Allowed
<1>0. WorkTypeOK
    BY DEF Inv
<1>1. CASE Workspace
  <2>1. CallKept /\ call'.step # "idle" /\ cmd.pc = "call"
      BY <1>0, <1>1, WorkspaceKeepsCall DEF Workspace
  <2> QED
      BY <1>1, <2>1, EnvUnchanged, CallKeptFits DEF Workspace, Allowed, WorkNext
<1>2. CASE Agent
  <2>1. CallKept /\ call'.step = call.step /\ (call = NoCall => call' = NoCall)
      BY <1>0, <1>2, AgentKeepsCall DEF Agent
  <2>2. cmd.pc = "call" => call'.step # "idle"
      BY <2>1 DEF Fits, CallOfCmd
  <2> QED
      BY <1>2, <2>1, <2>2, EnvUnchanged, CallKeptFits DEF Agent, Allowed, WorkNext
<1> QED
    BY <1>1, <1>2

LEMMA CallUnchanged ==
    ASSUME UNCHANGED call
    PROVE  CallKept /\ call'.step = call.step
BY DEF CallKept, Me

LEMMA ReturnsAllowed ==
    ASSUME Fits, WorkspaceReturns
    PROVE  Allowed
<1>1. cmd.pc = "call" /\ cmd.op \in {"handoff", "complete"} /\ cmd.cand \in Candidates
  <2>1. cmd.pc = "call" /\ CmdFits
      BY DEF WorkspaceReturns, Fits
  <2>2. cmd.op # "none" /\ cmd.op # "start"
      BY <2>1 DEF CmdFits, IdleCmd, StartSteps
  <2> QED
      BY <2>1, <2>2 DEF CmdFits, Cmds
<1>2. EnvFits' /\ Reqs' = Reqs /\ Cmds' = Cmds /\ setup' = setup /\ request' = request
    BY EnvKept DEF Fits, EnvFits, WorkspaceReturns, env
<1>3. [WorkNext]_cvars /\ call' = NoCall
    BY DEF WorkspaceReturns, WorkNext, Leave
<1>4. CASE call.status = "raised"
    BY <1>2, <1>3, <1>4, EndFits DEF WorkspaceReturns, Allowed, End
<1>5. CASE call.status # "raised"
  <2>1. /\ Update("job", cmd.cand, Recorded(call.status))
        /\ cmd' = [cmd EXCEPT !.pc = "store", !.next = "idle"]
      BY <1>5 DEF WorkspaceReturns
  <2>2. cmd.cand \in Keys \ {"identity"} /\ Recorded(call.status) \in Values
      BY <1>1, KeyFacts DEF Recorded
  <2>3. [FileNext]_fvars
      BY <2>1, <2>2, JobMayUpdate
  <2>4. Runs(request)'
      BY <1>1, <1>2 DEF Fits, CmdFits, Runs, Profile, RuntimePolicy, Resolved
  <2>5. CmdFits' /\ CallOfCmd'
    <3>1. /\ cmd' \in Cmds /\ cmd'.pc = "store" /\ cmd'.next = "idle"
          /\ cmd'.op = cmd.op /\ cmd'.cand = cmd.cand
        BY <2>1 DEF Fits, CmdFits, Cmds
    <3> QED
        BY <1>1, <1>2, <1>3, <2>4, <3>1 DEF CmdFits, CallOfCmd, Fits
  <2> QED
      BY <1>2, <1>3, <2>3, <2>5 DEF Allowed, Fits
<1> QED
    BY <1>4, <1>5

LEMMA StoreReturnsAllowed ==
    ASSUME Fits, StoreReturns
    PROVE  Allowed
<1>1. /\ cmd.pc = "store" /\ [FileNext]_fvars /\ [WorkNext]_cvars
      /\ call' = call /\ call' = NoCall
    BY PartsAssumption, KeepsCandidates
       DEF StoreReturns, FileNext, Fits, CallOfCmd
<1>2. CASE Fail
    BY <1>1, <1>2, FailFits DEF Allowed
<1>3. ASSUME UNCHANGED env, IF cmd.next = "idle" THEN End ELSE To(cmd.next)
      PROVE Allowed
  <2>1. EnvFits' /\ setup' = setup /\ Cmds' = Cmds
      BY <1>3, EnvUnchanged, EnvKept DEF Cmds, Reqs
  <2>2. CASE End
      BY <1>1, <2>1, <2>2, GoOnFits DEF Allowed
  <2>3. CASE cmd.next # "idle"
    <3>1. cmd.op = "start" /\ cmd.next \in StartSteps /\ To(cmd.next)
      <4>1. CmdFits
          BY DEF Fits
      <4>2. cmd.op # "none"
          BY <1>1, <4>1 DEF CmdFits, IdleCmd
      <4>3. cmd.op \notin {"handoff", "complete"}
          BY <2>3, <4>1 DEF CmdFits
      <4>4. cmd.op = "start"
          BY <4>1, <4>2, <4>3 DEF CmdFits, Cmds
      <4> QED
          BY <1>3, <2>3, <4>1, <4>4 DEF CmdFits
    <3> QED
        BY <1>1, <2>1, <3>1, GoOnFits DEF Allowed
  <2> QED
      BY <1>3, <2>2, <2>3
<1> QED
    BY <1>2, <1>3 DEF StoreReturns

LEMMA WorldAllowed ==
    ASSUME Fits, \/ StoreRuns \/ Crash \/ OtherProcess \/ OtherRuns
                 \/ \E r \in IssueEdits : EditIssue(r)
    PROVE  Allowed
<1>1. ASSUME UNCHANGED <<call, setup, request, cmd>>, EnvFits' PROVE Fits'
  <2>1. cmd.pc = "call" => call.step # "idle"
      BY DEF Fits, CallOfCmd
  <2> QED
      BY <1>1, <2>1, CallUnchanged, CallKeptFits
<1>2. CASE StoreRuns \/ OtherRuns
  <2>1. /\ UNCHANGED cvars /\ UNCHANGED env /\ UNCHANGED cmd
        /\ FileStep("job") \/ FileStep("other") \/ ReturnOp("other")
      BY <1>2 DEF StoreRuns, OtherRuns
  <2>2. [FileNext]_fvars
      BY <2>1, PartsAssumption DEF FileNext
  <2> QED
      BY <1>1, <2>1, <2>2, EnvUnchanged, KeepsCandidates DEF Allowed
<1>3. CASE Crash
  <2>1. [FileNext]_fvars /\ [WorkNext]_cvars /\ call' = NoCall /\ Fail
      BY <1>3, PartsAssumption DEF Crash, FileNext, WorkNext, CrashCall
  <2> QED
      BY <2>1, FailFits DEF Allowed
<1>4. CASE OtherProcess
  <2>1. [WorkNext]_cvars /\ UNCHANGED <<call, setup, request, cmd>>
      BY <1>4 DEF OtherProcess, Elsewhere, WorkNext
  <2>2. EnvFits'
    <3>1. issue' = issue /\ temp' = temp /\ setup' = setup /\ request' = request
        BY <1>4 DEF OtherProcess
    <3>2. broken' \in BOOLEAN
        BY <1>4 DEF OtherProcess, Fits, EnvFits
    <3> QED
        BY <3>1, <3>2, EnvKept DEF Fits, EnvFits
  <2>3. [FileNext]_fvars
    <3>1. CASE Initialize("other", Identity(issue)) /\ Runs(issue)
      <4>1. Identity(issue) \in Identities
          BY <3>1, RequestFacts DEF Fits, EnvFits, Runs, JobIdentities
      <4> QED
          BY <3>1, <4>1, PartsAssumption DEF FileNext
    <3>2. CASE Update("other", "decision", Mark("decided"))
        BY <3>2, KeyFacts, PartsAssumption DEF FileNext
    <3> QED
        BY <1>4, <3>1, <3>2 DEF OtherProcess
  <2> QED
      BY <1>1, <2>1, <2>2, <2>3 DEF Allowed
<1>5. ASSUME NEW r \in IssueEdits, EditIssue(r) PROVE Allowed
  <2>1. /\ [WorkNext]_cvars /\ UNCHANGED <<call, setup, request, cmd>>
        /\ UNCHANGED fvars /\ issue' = r /\ temp' = temp /\ broken' = broken
      BY <1>5 DEF EditIssue, Elsewhere, WorkNext
  <2>2. EnvFits'
      BY <2>1, EnvKept DEF Fits, EnvFits, Reqs
  <2> QED
      BY <1>1, <2>1, <2>2 DEF Allowed
<1> QED
    BY <1>2, <1>3, <1>4, <1>5

LEMMA StepAllowed ==
    ASSUME Fits, Inv, [Next]_vars
    PROVE  Allowed
<1>1. CASE UNCHANGED vars
  <2>1. UNCHANGED <<fvars, cvars, env, cmd>>
      BY <1>1 DEF vars
  <2>2. EnvFits' /\ CallKept /\ call'.step = call.step /\ call' = call
      BY <2>1, EnvUnchanged, CallUnchanged DEF cvars
  <2>3. cmd.pc = "call" => call'.step # "idle"
      BY <2>2 DEF Fits, CallOfCmd
  <2> QED
      BY <2>1, <2>2, <2>3, CallKeptFits DEF Allowed, env
<1>2. CASE Next
    BY <1>2, StartJobAllowed, StartStepAllowed, EnterAllowed, WorkspaceAllowed,
       ReturnsAllowed, StoreReturnsAllowed, WorldAllowed DEF Next
<1> QED
    BY <1>1, <1>2
-----------------------------------------------------------------------------
(* The job keeps what is proved of its files.                              *)

Core == Fits /\ FileInv /\ Inv

LEMMA CoreInit == Init => Core
BY FitsInit, FileInvInit, InvInit DEF Init, Core

LEMMA CoreStep == Core /\ [Next]_vars => Core' /\ [FileNext]_fvars /\ [WorkNext]_cvars
BY StepAllowed, FileInvStep, InvStep DEF Core, Allowed

LEMMA CoreInvariant == Spec => []Core
BY CoreInit, CoreStep, PTL DEF Spec

\* The job uses its state file as StateFile allows: what is proved there of
\* any processes holds of the job's commands and the other process.
THEOREM JobUsesStateFile == Spec => FileSpec
<1>1. Init => FileInit
    BY DEF Init
<1>2. Core /\ [Next]_vars => [FileNext]_fvars
    BY CoreStep
<1> QED
    BY <1>1, <1>2, CoreInvariant, PTL DEF Spec, FileSpec

\* The commands and the agent use the candidates' files as CandidateFiles
\* allows.
THEOREM JobUsesWorkspaces == Spec => WorkSpec
<1>1. Init => WorkInit
    BY DEF Init
<1>2. Core /\ [Next]_vars => [WorkNext]_cvars
    BY CoreStep
<1> QED
    BY <1>1, <1>2, CoreInvariant, PTL DEF Spec, WorkSpec

\* The files of the job and its command keep their types.
THEOREM JobTypesCorrect == Spec => []TypeOK
<1>1. Core => TypeOK
  <2> SUFFICES ASSUME Core PROVE TypeOK
      OBVIOUS
  <2>1. FileTypeOK /\ WorkTypeOK /\ EnvFits /\ cmd \in Cmds
      BY DEF Core, FileInv, Inv, Fits, CmdFits
  <2>2. Reqs \subseteq V!Requests
      BY <2>1, SetupsAssumption DEF EnvFits, Reqs
  <2> QED
      BY <2>1, <2>2 DEF TypeOK, EnvFits, Cmds
<1> QED
    BY <1>1, CoreInvariant, PTL

\* No update of a job's state file is lost while no process writes it between
\* the comparison and the replacement of another one.
THEOREM JobUpdatesSurvive == Spec => []UpdatesSurvive
BY JobUsesStateFile, UpdatesAreKept, PTL

\* Of every candidate of the job whose finalization was not disturbed, the
\* archive, the patch and the commit have the same source files.
THEOREM JobEvaluatesWhatItMerges == Spec => []EvaluatedIsMerged
BY JobUsesWorkspaces, EvaluatedAndMerged, PTL

-----------------------------------------------------------------------------
(* Records are backed.                                                     *)

\* A call that did not raise has left what is recorded of it.
ResultFits ==
    call.step = "done" /\ call.status # "raised" =>
        /\ manifest[Me] # None
        /\ call.op = "finalize" /\ call.status # "policy" => Finalized(Me)

LEMMA ResultStep ==
    ASSUME Inv, Inv', [WorkNext]_cvars, ResultFits
    PROVE  ResultFits'
<1>0. WorkTypeOK /\ call \in Calls /\ CallFits /\ ManifestsGrow
      /\ manifest \in [Candidates -> Manifests \cup {None}]
    BY ManifestStep DEF Inv, WorkTypeOK
<1>1. ASSUME call'.step # "done" PROVE ResultFits'
    BY <1>1 DEF ResultFits
<1>2. ASSUME call'.step = call.step, call'.status = call.status, call'.op = call.op,
             Me' = Me
      PROVE ResultFits'
  <2>1. call.step = "done" => Me \in Candidates
      BY <1>0 DEF CallFits
  <2> QED
      BY <1>0, <1>2, <2>1 DEF ResultFits, ManifestsGrow
<1>3. ASSUME NEW status, Return(status), UNCHANGED manifest,
             status # "raised" => manifest[Me] # None,
             call.op = "finalize" /\ status \notin {"raised", "policy"} => Finalized(Me)
      PROVE ResultFits'
  <2>1. call'.status = status /\ Me' = Me /\ call'.op = call.op
      BY <1>0, <1>3 DEF Return, Calls, Me
  <2>2. Finalized(Me)' <=> Finalized(Me)
      BY <1>3, <2>1 DEF Finalized
  <2> QED
      BY <1>3, <2>1, <2>2 DEF ResultFits
<1>4. ASSUME NEW step \in Steps \ {"done"}, Go(step) PROVE ResultFits'
    BY <1>0, <1>1, <1>4 DEF Go, Calls
<1>5. CASE CheckPrepare
    BY <1>3, <1>4, <1>5 DEF CheckPrepare, At, files, Steps
<1>6. CASE AddWorktree \/ Compare \/ ReplacePatch \/ ReplaceZip
    BY <1>3, <1>4, <1>6 DEF AddWorktree, Compare, ReplacePatch, ReplaceZip, files, Steps
<1>7. CASE WriteManifest
  <2>1. Me \in Candidates /\ Me' = Me /\ call'.op = "prepare"
      BY <1>0, <1>7 DEF WriteManifest, At, CallFits, Return, Calls, Me
  <2>2. manifest'[Me] \in Manifests
      BY <1>0, <1>7, <2>1, NothingReadType, BaseAssumption DEF WriteManifest, Manifests, Calls
  <2> QED
      BY <2>1, <2>2, DistinctAssumption DEF ResultFits
<1>8. CASE Finish
  <2>1. Me \in Candidates /\ Me' = Me /\ manifest[Me] # None
      BY <1>0, <1>8 DEF Finish, At, CallFits, Return, Calls, Me, Finalizing, Replacing
  <2>2. manifest'[Me].final
    <3>1. manifest[Me] \in Manifests
        BY <1>0, <2>1
    <3> QED
        BY <1>0, <1>8, <2>1, <3>1 DEF Finish, Manifests
  <2>3. manifest'[Me] # None
      BY <1>0, <2>1 DEF ManifestsGrow
  <2> QED
      BY <2>1, <2>2, <2>3 DEF ResultFits, Finalized
<1>9. CASE Open
    BY <1>3, <1>4, <1>9 DEF Open, files, Steps, Finalized
<1>10. CASE Stage
    BY <1>0, <1>1, <1>10 DEF Stage, Calls
<1>11. CASE CheckNames \/ Diff
  <2>1. manifest[Me] # None /\ UNCHANGED manifest
      BY <1>0, <1>11 DEF CheckNames, Diff, At, CallFits, Finalizing, Staging, files
  <2>2. CASE Return("policy") \/ Return("raised")
      BY <1>3, <2>1, <2>2
  <2>3. CASE Go("diff")
      BY <1>4, <2>3 DEF Steps
  <2>4. CASE call' = [call EXCEPT !.patch = call.index, !.step = "before",
                                  !.todo = Listing]
      BY <1>0, <1>1, <2>4 DEF Calls
  <2> QED
      BY <1>11, <2>2, <2>3, <2>4 DEF CheckNames, Diff
<1>12. ASSUME NEW f \in SourcePaths, Before(f) \/ Select(f) \/ Pack(f) \/ After(f)
       PROVE ResultFits'
  <2>1. CASE Return("raised")
      BY <1>3, <1>12, <2>1 DEF Before, Select, Pack, After, Opened, files
  <2>2. CASE ~Return("raised")
    <3>1. call'.step \in Passes \cup {"compare"}
        BY <1>0, <1>12, <2>2 DEF Before, Select, Pack, After, Opened, At, Passes, Calls
    <3> QED
        BY <1>1, <3>1 DEF Passes
  <2> QED
      BY <2>1, <2>2
<1>13. CASE AgentActs
    BY <1>0, <1>2, <1>13, AgentKeepsCall DEF CallKept
<1>14. CASE UNCHANGED cvars \/ Elsewhere
    BY <1>2, <1>14 DEF cvars, Elsewhere, Me
<1>15. CASE CrashCall \/ Leave
    BY <1>1, <1>15 DEF CrashCall, Leave, NoCall
<1>16. ASSUME NEW c, NEW x, EnterPrepare(c, x) \/ EnterFinalize(c, x) PROVE ResultFits'
    BY <1>1, <1>16 DEF EnterPrepare, EnterFinalize, NoCall
<1> QED
    BY <1>5, <1>6, <1>7, <1>8, <1>9, <1>10, <1>11, <1>12, <1>13, <1>14, <1>15, <1>16
       DEF WorkNext, WorkspaceStep

BackedBy(body, m) ==
    \A c \in Candidates :
        /\ body[c] # Empty => m[c] # None
        /\ body[c] = Mark("finalized") => m[c] # None /\ m[c].final

\* The file is backed, and so is every copy that may replace it.
RecordsFit ==
    /\ BackedBy(file.body, manifest)
    /\ \A p \in Procs :
           op[p].at \in {"loaded", "compared"} => BackedBy(NewBody(p), manifest)

\* What a step does to the state file, with the candidate a record is about.
RecordStep(p) ==
    \/ \E id \in Values : Initialize(p, id)
    \/ \E k \in Keys \ {"identity"}, v \in Values :
           /\ Update(p, k, v)
           /\ k \in Candidates => manifest[k] # None
           /\ k \in Candidates /\ v = Mark("finalized") => Finalized(k)
    \/ FileStep(p) \/ ReturnOp(p) \/ Die(p)

LEMMA StillBacked ==
    ASSUME NEW body, BackedBy(body, manifest), ManifestsGrow
    PROVE  BackedBy(body, manifest')
BY DEF BackedBy, ManifestsGrow, Finalized

LEMMA RecordsKept ==
    ASSUME FileTypeOK, RecordsFit, ManifestsGrow,
           UNCHANGED fvars \/ \E p \in Procs : RecordStep(p)
    PROVE  RecordsFit'
<1>0. BackedBy(file.body, manifest')
    BY StillBacked DEF RecordsFit
<1>1. CASE UNCHANGED fvars
  <2>1. /\ file' = file
        /\ \A p \in Procs : op'[p].at = op[p].at /\ NewBody(p)' = NewBody(p)
      BY <1>1 DEF fvars, NewBody
  <2>2. \A p \in Procs : op[p].at \in {"loaded", "compared"} =>
            BackedBy(NewBody(p), manifest')
      BY StillBacked DEF RecordsFit
  <2> QED
      BY <1>0, <2>1, <2>2 DEF RecordsFit
<1>2. ASSUME NEW p \in Procs, RecordStep(p) PROVE RecordsFit'
  <2>1. \A q \in Procs \ {p} : op'[q] = op[q]
      BY <1>2 DEF FileTypeOK, RecordStep, Initialize, Update, FileStep, Create,
          CompareGenerations, Replace, ReturnOp, Die, Reach
  <2>2. \A q \in Procs \ {p} : op'[q].at \in {"loaded", "compared"} =>
            BackedBy(NewBody(q)', manifest')
    <3> SUFFICES ASSUME NEW q \in Procs \ {p}, op[q].at \in {"loaded", "compared"}
                 PROVE  BackedBy(NewBody(q)', manifest')
        BY <2>1
    <3>1. BackedBy(NewBody(q), manifest)
        BY DEF RecordsFit
    <3>2. BackedBy(NewBody(q), manifest')
        BY <3>1, StillBacked
    <3>3. NewBody(q)' = NewBody(q)
        BY <2>1 DEF NewBody
    <3> QED
        BY <3>2, <3>3
  <2>3. ASSUME BackedBy(file'.body, manifest'),
               op'[p].at \in {"loaded", "compared"} => BackedBy(NewBody(p)', manifest')
        PROVE RecordsFit'
      BY <2>2, <2>3 DEF RecordsFit
  <2>4. ASSUME NEW k \in Keys, NEW v \in Values, NEW at, Quiet,
               op' = [op EXCEPT ![p] = [at |-> at, key |-> k, value |-> v, seen |-> file]],
               k \in Candidates => manifest[k] # None,
               k \in Candidates /\ v = Mark("finalized") => Finalized(k)
        PROVE RecordsFit'
    <3>1. NewBody(p)' = [file.body EXCEPT ![k] = v]
        BY <2>4 DEF FileTypeOK, NewBody
    <3>2. file.body \in [Keys -> Values] /\ Candidates \subseteq Keys
        BY PartsAssumption DEF FileTypeOK, FileStates
    <3>3. BackedBy([file.body EXCEPT ![k] = v], manifest)
      <4>1. \A c \in Candidates :
                [file.body EXCEPT ![k] = v][c] = IF c = k THEN v ELSE file.body[c]
          BY <3>2
      <4> QED
          BY <2>4, <4>1 DEF BackedBy, RecordsFit, Finalized
    <3>4. BackedBy(NewBody(p)', manifest')
        BY <3>1, <3>3, StillBacked
    <3>5. file' = file
        BY <2>4 DEF Quiet
    <3> QED
        BY <1>0, <2>3, <3>4, <3>5
  <2>5. ASSUME NEW id \in Values, Initialize(p, id) PROVE RecordsFit'
      BY <2>4, <2>5, KeysAssumption, DistinctAssumption DEF Initialize
  <2>6. ASSUME NEW k \in Keys \ {"identity"}, NEW v \in Values, Update(p, k, v),
               k \in Candidates => manifest[k] # None,
               k \in Candidates /\ v = Mark("finalized") => Finalized(k)
        PROVE RecordsFit'
      BY <2>4, <2>6 DEF Update
  <2>7. CASE ReturnOp(p) \/ Die(p)
    <3>1. op'[p].at = "idle" /\ file' = file
        BY <2>7 DEF ReturnOp, Die, Quiet, Idle, FileTypeOK
    <3> QED
        BY <1>0, <2>3, <3>1
  <2>8. CASE Create(p)
    <3>1. op'[p].at = "done" /\ file'.body = [Blank EXCEPT !["identity"] = op[p].value]
        BY <2>8 DEF Create, Reach, FileTypeOK
    <3>2. \A c \in Candidates : file'.body[c] = Empty
        BY <3>1, PartsAssumption, DistinctAssumption DEF Blank
    <3>3. Empty # Mark("finalized")
        BY KeyFacts, DistinctAssumption
    <3>4. BackedBy(file'.body, manifest')
        BY <3>2, <3>3 DEF BackedBy
    <3> QED
        BY <2>3, <3>1, <3>4
  <2>9. CASE CompareGenerations(p)
    <3>1. op[p].at = "loaded" /\ file' = file /\ NewBody(p)' = NewBody(p)
        BY <2>9 DEF CompareGenerations, Reach, Quiet, NewBody, FileTypeOK, Ops
    <3>2. BackedBy(NewBody(p), manifest)
        BY <3>1 DEF RecordsFit
    <3>3. BackedBy(NewBody(p), manifest')
        BY <3>2, StillBacked
    <3> QED
        BY <1>0, <2>3, <3>1, <3>3
  <2>10. CASE Replace(p)
    <3>1. /\ op[p].at = "compared" /\ file'.body = NewBody(p)
          /\ op'[p].at = "done"
        BY <2>10 DEF Replace, Reach, FileTypeOK
    <3>2. BackedBy(NewBody(p), manifest)
        BY <3>1 DEF RecordsFit
    <3>3. BackedBy(NewBody(p), manifest')
        BY <3>2, StillBacked
    <3> QED
        BY <2>3, <3>1, <3>3
  <2> QED
      BY <1>2, <2>5, <2>6, <2>7, <2>8, <2>9, <2>10 DEF RecordStep, FileStep
<1> QED
    BY <1>1, <1>2

LEMMA EveryRecordStep ==
    ASSUME Core, ResultFits, [Next]_vars
    PROVE  UNCHANGED fvars \/ \E p \in Procs : RecordStep(p)
<1>0. Fits /\ EnvFits /\ "job" \in Procs /\ "other" \in Procs
    BY PartsAssumption DEF Core, Fits
<1>1. ASSUME NEW r \in Reqs, Runs(r) PROVE Identity(r) \in Values /\ Resolved(r) \in Values
    BY <1>0, <1>1, RunFacts, KeyFacts, ValuesAssumption DEF JobIdentities
<1>2. /\ {"verification", "baseline", "decision"} \subseteq Keys \ {"identity"}
      /\ {"verification", "baseline", "decision"} \cap Candidates = {}
      /\ Candidates \subseteq Keys \ {"identity"}
      /\ \A w \in {"evaluated", "announced", "handoff", "finalized", "invalid",
                    "decided"} : Mark(w) \in Values
    BY KeyFacts, DistinctAssumption
<1>3. ASSUME NEW p \in Procs, NEW k \in {"verification", "baseline", "decision"},
             NEW v \in Values, Update(p, k, v)
      PROVE RecordStep(p)
    BY <1>2, <1>3 DEF RecordStep
<1>4. CASE StartJob
  <2>1. issue \in Reqs
      BY <1>0 DEF EnvFits
  <2>2. CASE Initialize("job", Identity(issue)) /\ Resolved(issue) # None
      BY <1>0, <1>1, <1>4, <2>1, <2>2 DEF StartJob, Runs, RecordStep
  <2> QED
      BY <1>4, <2>2 DEF StartJob
<1>5. CASE Verify \/ Baseline \/ Announce \/ Persist \/ Rename
  <2>1. cmd.req \in Reqs /\ Runs(cmd.req)
      BY <1>0, <1>5 DEF Verify, Baseline, Announce, Persist, Rename, Pc, Fits, CmdFits,
          Starts
  <2>2. ASSUME NEW k \in {"verification", "baseline"},
               NEW v \in {Resolved(cmd.req), Mark("evaluated"), Mark("announced")},
               NEW next, Store(k, v, next)
        PROVE RecordStep("job")
      BY <1>0, <1>1, <1>2, <1>3, <2>1, <2>2 DEF Store
  <2>3. \/ UNCHANGED fvars
        \/ \E k \in {"verification", "baseline"},
             v \in {Resolved(cmd.req), Mark("evaluated"), Mark("announced")},
             next \in StartSteps : Store(k, v, next)
      BY <1>5 DEF Verify, Baseline, Announce, Persist, Rename, KeepFiles, StartSteps
  <2> QED
      BY <1>0, <2>2, <2>3
<1>6. CASE WorkspaceReturns
  <2>1. /\ cmd.pc = "call" /\ CmdFits /\ CallOfCmd /\ call.step = "done"
      BY <1>0, <1>6 DEF WorkspaceReturns, Fits
  <2>2. cmd.op \in {"handoff", "complete"} /\ cmd.cand \in Candidates /\ Me = cmd.cand
    <3>1. cmd.op # "none" /\ cmd.op # "start"
        BY <2>1 DEF CmdFits, IdleCmd, StartSteps
    <3> QED
        BY <2>1, <3>1 DEF CmdFits, CallOfCmd, Cmds
  <2>3. CASE Update("job", cmd.cand, Recorded(call.status)) /\ call.status # "raised"
    <3>1. manifest[cmd.cand] # None
        BY <2>1, <2>2, <2>3 DEF ResultFits
    <3>2. Recorded(call.status) = Mark("finalized") => Finalized(cmd.cand)
      <4>1. Recorded(call.status) = Mark("finalized") =>
                cmd.op = "complete" /\ call.status # "policy"
        <5>1. \A w, x : Mark(w) = Mark(x) => w = x
          <6> SUFFICES ASSUME NEW w, NEW x, Mark(w) = Mark(x) PROVE w = x
              OBVIOUS
          <6>1. Mark(w).is = w /\ Mark(x).is = x
              BY DEF Mark
          <6> QED
              BY <6>1
        <5>2. /\ Mark("finalized") # Mark("handoff")
              /\ Mark("finalized") # Mark("invalid")
            BY <5>1
        <5> QED
            BY <2>2, <5>2 DEF Recorded
      <4> QED
          BY <2>1, <2>2, <2>3, <4>1 DEF ResultFits, CallOfCmd
    <3>3. Recorded(call.status) \in Values
        BY <1>2 DEF Recorded
    <3> QED
        BY <1>0, <1>2, <2>2, <2>3, <3>1, <3>2, <3>3 DEF RecordStep
  <2> QED
      BY <1>6, <2>3 DEF WorkspaceReturns
<1>7. CASE StoreRuns \/ StoreReturns \/ Crash \/ OtherRuns
    BY <1>0, <1>7 DEF StoreRuns, StoreReturns, Crash, OtherRuns, RecordStep
<1>8. CASE OtherProcess
  <2>1. CASE Initialize("other", Identity(issue)) /\ Runs(issue)
      BY <1>0, <1>1, <2>1 DEF EnvFits, RecordStep
  <2>2. CASE Update("other", "decision", Mark("decided"))
      BY <1>0, <1>2, <1>3, <2>2
  <2> QED
      BY <1>0, <1>8, <2>1, <2>2 DEF OtherProcess
<1>9. ASSUME \/ Workspace \/ Agent \/ UNCHANGED vars
             \/ \E r \in IssueEdits : EditIssue(r)
             \/ \E c \in Candidates :
                    \/ \E parent \in Parents[c], model \in Models :
                           Handoff(c, parent, model)
                    \/ Complete(c)
      PROVE UNCHANGED fvars
    BY <1>9 DEF Workspace, Agent, EditIssue, Handoff, Complete, vars
<1> QED
    BY <1>4, <1>5, <1>6, <1>7, <1>8, <1>9 DEF Next

\* A candidate the state file has a record of has a manifest, and one it has
\* as finalized is finalized, with its patch and its archive beside the
\* manifest, wherever a command died and whoever else wrote the state file.
THEOREM JobRecordsAreBacked == Spec => []RecordsAreBacked
<1>1. Init => RecordsFit /\ ResultFits
  <2> SUFFICES ASSUME Init PROVE RecordsFit /\ ResultFits
      OBVIOUS
  <2>1. \A c \in Candidates : file.body[c] = Empty
      BY PartsAssumption DEF Init, FileInit, NoFile, Blank
  <2>2. Empty # Mark("finalized")
      BY KeyFacts, DistinctAssumption
  <2>3. \A p \in Procs : op[p].at = "idle"
      BY DEF Init, FileInit, Idle
  <2>4. call.step = "idle"
      BY DEF Init, WorkInit, NoCall
  <2> QED
      BY <2>1, <2>2, <2>3, <2>4 DEF RecordsFit, ResultFits, BackedBy
<1>2. Core /\ RecordsFit /\ ResultFits /\ [Next]_vars => RecordsFit' /\ ResultFits'
  <2> SUFFICES ASSUME Core, RecordsFit, ResultFits, [Next]_vars
               PROVE  RecordsFit' /\ ResultFits'
      OBVIOUS
  <2>1. Core' /\ [WorkNext]_cvars
      BY CoreStep
  <2>2. ManifestsGrow /\ ResultFits'
      BY <2>1, ManifestStep, ResultStep DEF Core
  <2> QED
      BY <2>2, EveryRecordStep, RecordsKept DEF Core, FileInv
<1>3. Core /\ RecordsFit => RecordsAreBacked
    BY DEF Core, Inv, RecordsFit, BackedBy, RecordsAreBacked, State, Finalized
<1> QED
    BY <1>1, <1>2, <1>3, CoreInvariant, PTL DEF Spec
-----------------------------------------------------------------------------
(* A job is only locked out by a start that was broken.                    *)

GenFits ==
    \A p \in Procs : op[p].at \in {"loaded", "compared", "done"} => file.gen # 0

\* A file stays, and only Create makes one.
LEMMA GenStep ==
    ASSUME FileTypeOK, GenFits, [FileNext]_fvars
    PROVE  /\ GenFits'
           /\ file.gen # 0 => file'.gen # 0
           /\ file'.gen # 0 => file.gen # 0 \/ \E p \in Procs : Create(p)
<1>1. CASE UNCHANGED fvars
    BY <1>1 DEF fvars, GenFits
<1>2. ASSUME NEW p \in Procs, Quiet, \E new \in Ops : op' = [op EXCEPT ![p] = new],
             op'[p].at \in {"loaded", "compared", "done"} => file.gen # 0
      PROVE  GenFits' /\ file'.gen = file.gen
    BY <1>2 DEF GenFits, Quiet, FileTypeOK
<1>3. ASSUME NEW p \in Procs, NEW id \in Identities, Initialize(p, id)
      PROVE  GenFits' /\ file'.gen = file.gen
  <2>1. id \in Values /\ file \in FileStates
      BY ValuesAssumption DEF FileTypeOK
  <2> QED
      BY <1>3, <2>1, KeysAssumption DEF Initialize, Quiet, GenFits, FileTypeOK
<1>4. ASSUME NEW p \in Procs, NEW k \in Keys \ {"identity"}, NEW v \in Values,
             Update(p, k, v)
      PROVE  GenFits' /\ file'.gen = file.gen
    BY <1>4 DEF Update, Quiet, GenFits, FileTypeOK
<1>5. ASSUME NEW p \in Procs, Create(p) PROVE GenFits' /\ file'.gen = 1
    BY <1>5 DEF Create, Reach, GenFits, FileTypeOK
<1>6. ASSUME NEW p \in Procs, CompareGenerations(p)
      PROVE  GenFits' /\ file'.gen = file.gen
    BY <1>6 DEF CompareGenerations, Reach, Quiet, GenFits, FileTypeOK, Ops
<1>7. ASSUME NEW p \in Procs, Replace(p) PROVE GenFits' /\ file'.gen # 0 /\ file.gen # 0
  <2>1. file'.gen = op[p].seen.gen + 1 /\ op[p].seen.gen \in Nat /\ file.gen # 0
      BY <1>7 DEF Replace, FileTypeOK, Ops, FileStates, GenFits
  <2> QED
      BY <1>7, <2>1 DEF Replace, Reach, GenFits, FileTypeOK
<1>8. ASSUME NEW p \in Procs, ReturnOp(p) \/ Die(p)
      PROVE  GenFits' /\ file'.gen = file.gen
    BY <1>8 DEF ReturnOp, Die, Idle, Quiet, GenFits, FileTypeOK
<1> QED
    BY <1>1, <1>3, <1>4, <1>5, <1>6, <1>7, <1>8 DEF FileNext, FileStep

LockFits ==
    /\ GenFits
    /\ cmd.pc # "store" => op["job"].at = "idle"
    /\ op["job"].at = "absent" => cmd.op = "start"
    /\ op["other"].at = "absent" /\ request = None => broken
    /\ request # None => file.gen # 0
    /\ cmd.op = "start" /\ cmd.pc # "store" => file.gen # 0
    /\ file.gen # 0 /\ request = None => broken \/ cmd.op = "start"

LEMMA OpFrame ==
    ASSUME FileTypeOK, NEW p \in Procs,
           \/ \E k, v : Update(p, k, v)
           \/ \E id : Initialize(p, id)
           \/ FileStep(p) \/ ReturnOp(p) \/ Die(p)
    PROVE  /\ \A q \in Procs \ {p} : op'[q] = op[q]
           /\ (\E k, v : Update(p, k, v)) => op'[p].at # "absent" /\ op[p].at = "idle"
           /\ FileStep(p) => op'[p].at \in {"done", "failed", "compared"}
           /\ ReturnOp(p) \/ Die(p) => op'[p] = Idle
           /\ (\E id : Initialize(p, id)) /\ op'[p].at = "absent" => file.gen = 0
<1>1. ASSUME NEW k, NEW v, Update(p, k, v)
      PROVE op'[p].at # "absent" /\ \A q \in Procs \ {p} : op'[q] = op[q]
    BY <1>1 DEF Update, FileTypeOK
<1>2. ASSUME NEW id, Initialize(p, id)
      PROVE /\ op'[p].at = "absent" => file.gen = 0
            /\ \A q \in Procs \ {p} : op'[q] = op[q]
    BY <1>2 DEF Initialize, FileTypeOK
<1>3. ASSUME FileStep(p)
      PROVE /\ op'[p].at \in {"done", "failed", "compared"}
            /\ \A q \in Procs \ {p} : op'[q] = op[q]
  <2>1. ASSUME NEW at, Reach(p, at)
        PROVE op'[p].at = at /\ \A q \in Procs \ {p} : op'[q] = op[q]
      BY <2>1 DEF Reach, FileTypeOK, Ops
  <2>2. \E at \in {"done", "failed", "compared"} : Reach(p, at)
      BY <1>3 DEF FileStep, Create, CompareGenerations, Replace
  <2> QED
      BY <2>1, <2>2
<1>4. ASSUME ReturnOp(p) \/ Die(p)
      PROVE op'[p] = Idle /\ \A q \in Procs \ {p} : op'[q] = op[q]
    BY <1>4 DEF ReturnOp, Die, FileTypeOK
<1>5. (\E k, v : Update(p, k, v)) => op[p].at = "idle"
    BY DEF Update
<1> QED
    BY <1>1, <1>2, <1>3, <1>4, <1>5

LEMMA LockStep ==
    ASSUME Core, LockFits, [Next]_vars
    PROVE  LockFits'
<1>0. /\ Fits /\ EnvFits /\ CmdFits /\ FileTypeOK /\ GenFits
      /\ "job" \in Procs /\ "other" \in Procs /\ "job" # "other"
    BY PartsAssumption DEF Core, Fits, FileInv, LockFits
<1>1. /\ GenFits'
      /\ file.gen # 0 => file'.gen # 0
      /\ file'.gen # 0 => file.gen # 0 \/ \E p \in Procs : Create(p)
    BY <1>0, CoreStep, GenStep
<1>2. Fits' /\ CmdFits' /\ EnvFits'
    BY CoreStep DEF Core, Fits
\* Steps of a command that leave the store alone.
<1>3. ASSUME UNCHANGED <<fvars, request>>, cmd'.pc # "store", cmd.pc # "store",
             broken => broken',
             file.gen # 0 /\ request = None =>
                 broken' \/ (cmd.op = "start" => cmd'.op = "start"),
             cmd'.op = "start" => cmd.op = "start"
      PROVE LockFits'
  <2>1. op' = op /\ file' = file
      BY <1>3 DEF fvars
  <2> QED
      BY <1>1, <1>3, <2>1 DEF LockFits
<1>4. ASSUME NEW k, NEW v, Update("job", k, v), cmd'.pc = "store", cmd'.op = cmd.op,
             UNCHANGED <<request, broken>>
      PROVE LockFits'
  <2>1. op'["other"] = op["other"] /\ op'["job"].at # "absent" /\ file' = file
      BY <1>0, <1>4, OpFrame DEF Update, Quiet
  <2> QED
      BY <1>1, <1>4, <2>1 DEF LockFits
<1>5. CASE StartJob
  <2>1. /\ cmd = IdleCmd /\ broken' = broken
        /\ cmd.op = "none" /\ cmd.pc = "idle"
      BY <1>0, <1>5 DEF StartJob, CmdFits, IdleCmd
  <2>2. request' = request
      BY <1>5 DEF StartJob, LockFits
  <2>3. CASE Resolved(issue) = None
      BY <1>3, <1>5, <2>1, <2>2, <2>3 DEF StartJob
  <2>4. CASE Resolved(issue) # None
    <3>1. /\ Initialize("job", Identity(issue)) /\ cmd'.op = "start" /\ cmd'.pc = "store"
        BY <1>5, <2>1, <2>4 DEF StartJob, IdleCmd
    <3>2. op'["other"] = op["other"] /\ file' = file
        BY <1>0, <3>1, OpFrame DEF Initialize, Quiet
    <3> QED
        BY <1>1, <2>1, <2>2, <3>1, <3>2 DEF LockFits
  <2> QED
      BY <2>3, <2>4
<1>6. ASSUME Fail, UNCHANGED fvars, cmd.pc # "store" PROVE LockFits'
    BY <1>3, <1>6 DEF Fail, End, IdleCmd
<1>7. ASSUME End, cmd.pc # "store", UNCHANGED <<fvars, request, broken>>, request # None
      PROVE LockFits'
    BY <1>3, <1>7 DEF End, IdleCmd
<1>8. CASE Verify \/ Baseline \/ Announce
  <2>1. cmd.op = "start" /\ cmd.pc # "store" /\ cmd \in Cmds
      BY <1>0, <1>8 DEF Verify, Baseline, Announce, Pc, CmdFits
  <2>2. ASSUME NEW k, NEW v, NEW next, Store(k, v, next) PROVE LockFits'
    <3>1. cmd'.pc = "store" /\ cmd'.op = cmd.op
        BY <2>1, <2>2 DEF Store, Cmds
    <3> QED
        BY <1>4, <2>2, <3>1 DEF Store, env
  <2>3. CASE Fail /\ KeepFiles
      BY <1>6, <2>1, <2>3 DEF KeepFiles
  <2>4. ASSUME NEW pc \in {"announce", "persist"}, To(pc), UNCHANGED env, KeepFiles
        PROVE LockFits'
    <3>1. cmd'.op = cmd.op /\ cmd'.pc = pc
        BY <2>1, <2>4 DEF To, Cmds
    <3> QED
        BY <1>3, <2>1, <2>4, <3>1 DEF env, KeepFiles
  <2> QED
      BY <1>8, <2>2, <2>3, <2>4 DEF Verify, Baseline, Announce
<1>9. CASE Persist
  <2>1. cmd.op = "start" /\ cmd.pc # "store" /\ cmd \in Cmds /\ UNCHANGED fvars
      BY <1>0, <1>9 DEF Persist, Pc, CmdFits, KeepFiles
  <2>2. CASE Fail
      BY <1>6, <2>1, <2>2
  <2>3. CASE End /\ UNCHANGED env /\ request # None
      BY <1>7, <2>1, <2>3 DEF env
  <2>4. CASE To("rename") /\ UNCHANGED <<setup, issue, request, broken>>
    <3>1. cmd'.op = cmd.op /\ cmd'.pc = "rename"
        BY <2>1, <2>4 DEF To, Cmds
    <3> QED
        BY <1>3, <2>1, <2>4, <3>1
  <2> QED
      BY <1>9, <2>2, <2>3, <2>4 DEF Persist
<1>10. CASE Rename
  <2>1. /\ cmd.op = "start" /\ cmd.pc # "store" /\ cmd' = IdleCmd
        /\ op' = op /\ file' = file /\ request' = cmd.req
      BY <1>10 DEF Rename, Pc, KeepFiles, fvars, End
  <2>2. request' # None
      BY <1>0, <2>1, RequestFacts DEF CmdFits, Starts
  <2> QED
      BY <1>1, <2>1, <2>2 DEF LockFits, IdleCmd
<1>11. ASSUME NEW c \in Candidates,
              \/ \E parent \in Parents[c], model \in Models : Handoff(c, parent, model)
              \/ Complete(c)
       PROVE LockFits'
  <2>1. /\ cmd = IdleCmd /\ UNCHANGED <<fvars, env>> /\ request # None
        /\ cmd.op = "none" /\ cmd.pc = "idle"
      BY <1>0, <1>11 DEF Handoff, Complete, Loads, CmdFits, IdleCmd
  <2>2. cmd'.pc = "call" /\ cmd'.op # "start"
      BY <1>11, <2>1 DEF Handoff, Complete, IdleCmd
  <2> QED
      BY <1>3, <2>1, <2>2 DEF env
<1>12. CASE WorkspaceReturns
  <2>1. cmd.pc = "call" /\ cmd \in Cmds /\ UNCHANGED <<request, broken>>
      BY <1>0, <1>12 DEF WorkspaceReturns, CmdFits, env
  <2>2. cmd.op # "start" /\ cmd.op # "none"
      BY <1>0, <2>1 DEF CmdFits, StartSteps, IdleCmd
  <2>3. CASE End /\ UNCHANGED fvars
      BY <1>3, <2>1, <2>2, <2>3 DEF End, IdleCmd
  <2>4. CASE /\ Update("job", cmd.cand, Recorded(call.status))
             /\ cmd' = [cmd EXCEPT !.pc = "store", !.next = "idle"]
    <3>1. cmd'.pc = "store" /\ cmd'.op = cmd.op
        BY <2>1, <2>4 DEF Cmds
    <3> QED
        BY <1>4, <2>1, <2>4, <3>1
  <2> QED
      BY <1>12, <2>3, <2>4 DEF WorkspaceReturns
<1>13. CASE Workspace \/ Agent \/ (\E r \in IssueEdits : EditIssue(r)) \/ UNCHANGED vars
  <2>1. UNCHANGED <<fvars, request, broken, cmd>>
      BY <1>13 DEF Workspace, Agent, EditIssue, vars, env
  <2>2. op' = op /\ file' = file
      BY <2>1 DEF fvars
  <2> QED
      BY <1>1, <2>1, <2>2 DEF LockFits
<1>14. CASE StoreRuns
  <2>1. /\ cmd.pc = "store" /\ cmd' = cmd /\ request' = request /\ broken' = broken
        /\ FileStep("job")
      BY <1>14 DEF StoreRuns, env
  <2>2. /\ op'["other"] = op["other"] /\ op'["job"].at # "absent"
        /\ op["job"].at # "absent" => \A p \in Procs : ~Create(p) \/ p = "other"
      BY <1>0, <2>1, OpFrame, PartsAssumption DEF Create
  <2>3. file'.gen # 0 => file.gen # 0 \/ op["job"].at = "absent"
    <3>1. CASE CompareGenerations("job")
        BY <3>1 DEF CompareGenerations, Quiet
    <3>2. CASE Create("job")
        BY <3>2 DEF Create
    <3>3. CASE Replace("job")
        BY <1>0, <3>3 DEF Replace, GenFits
    <3> QED
        BY <2>1, <3>1, <3>2, <3>3 DEF FileStep
  <2> QED
      BY <1>1, <2>1, <2>2, <2>3 DEF LockFits
<1>15. CASE OtherRuns
  <2>1. /\ cmd' = cmd /\ request' = request /\ broken' = broken
        /\ FileStep("other") \/ ReturnOp("other")
      BY <1>15 DEF OtherRuns, env
  <2>2. op'["job"] = op["job"] /\ op'["other"].at # "absent"
      BY <1>0, <2>1, OpFrame DEF Idle
  <2>3. file'.gen # 0 => file.gen # 0 \/ op["other"].at = "absent"
    <3>1. CASE CompareGenerations("other") \/ ReturnOp("other")
        BY <3>1 DEF CompareGenerations, ReturnOp, Quiet
    <3>2. CASE Create("other")
        BY <3>2 DEF Create
    <3>3. CASE Replace("other")
        BY <1>0, <3>3 DEF Replace, GenFits
    <3> QED
        BY <2>1, <3>1, <3>2, <3>3 DEF FileStep
  <2> QED
      BY <1>1, <2>1, <2>2, <2>3 DEF LockFits
<1>16. CASE StoreReturns
  <2>1. /\ cmd.pc = "store" /\ ReturnOp("job") /\ file' = file /\ cmd \in Cmds
        /\ op["job"].at \in {"done", "failed"}
      BY <1>0, <1>16 DEF StoreReturns, ReturnOp, Quiet, CmdFits
  <2>2. op'["other"] = op["other"] /\ op'["job"].at = "idle"
      BY <1>0, <2>1, OpFrame DEF Idle
  <2>3. CASE Fail
      BY <1>1, <2>1, <2>2, <2>3 DEF LockFits, Fail, End, IdleCmd
  <2>4. CASE op["job"].at = "done" /\ UNCHANGED env /\ cmd.next = "idle" /\ End
    <3>1. cmd.op # "start" /\ request' = request /\ broken' = broken
        BY <1>0, <2>4 DEF CmdFits, env, StartSteps
    <3> QED
        BY <1>1, <2>1, <2>2, <2>4, <3>1 DEF LockFits, End, IdleCmd
  <2>5. CASE op["job"].at = "done" /\ UNCHANGED env /\ To(cmd.next)
    <3>1. /\ cmd'.op = cmd.op /\ request' = request /\ broken' = broken
          /\ file.gen # 0
        BY <1>0, <2>1, <2>5 DEF To, Cmds, env, GenFits
    <3> QED
        BY <1>1, <2>1, <2>2, <3>1 DEF LockFits
  <2> QED
      BY <1>16, <2>1, <2>3, <2>4, <2>5 DEF StoreReturns
<1>17. CASE Crash
  <2>1. Die("job") /\ Fail /\ file' = file
      BY <1>17 DEF Crash, Die, Quiet
  <2>2. op'["other"] = op["other"] /\ op'["job"].at = "idle"
      BY <1>0, <2>1, OpFrame DEF Idle
  <2> QED
      BY <1>1, <2>1, <2>2 DEF LockFits, Fail, End, IdleCmd
<1>18. CASE OtherProcess
  <2>1. cmd' = cmd /\ request' = request
      BY <1>18 DEF OtherProcess
  <2>2. CASE Initialize("other", Identity(issue)) /\ broken' = (broken \/ request = None)
    <3>1. op'["job"] = op["job"] /\ file' = file
        BY <1>0, <2>2, OpFrame DEF Initialize, Quiet
    <3> QED
        BY <1>1, <2>1, <2>2, <3>1 DEF LockFits
  <2>3. CASE Update("other", "decision", Mark("decided")) /\ UNCHANGED broken
    <3>1. op'["job"] = op["job"] /\ file' = file /\ op'["other"].at # "absent"
        BY <1>0, <2>3, OpFrame DEF Update, Quiet
    <3> QED
        BY <1>1, <2>1, <2>3, <3>1 DEF LockFits
  <2> QED
      BY <1>18, <2>2, <2>3 DEF OtherProcess
<1> QED
    BY <1>5, <1>8, <1>9, <1>10, <1>11, <1>12, <1>13, <1>14, <1>15, <1>16, <1>17, <1>18
       DEF Next

LEMMA LockInvariant == Spec => []LockFits
<1>1. Init => LockFits
  <2> SUFFICES ASSUME Init PROVE LockFits
      OBVIOUS
  <2>1. \A p \in Procs : op[p].at = "idle"
      BY DEF Init, FileInit, Idle
  <2> QED
      BY <2>1, PartsAssumption DEF Init, FileInit, NoFile, IdleCmd, LockFits, GenFits
<1>2. Core /\ LockFits /\ [Next]_vars => LockFits'
    BY LockStep
<1> QED
    BY <1>1, <1>2, CoreInvariant, PTL DEF Spec

\* In a Copilot session a job that has a state file and no request, which can
\* never be started again, has seen a start that ended between its first write
\* and its last.
THEOREM LockedOutByBrokenStart == Spec => []LockedOutOnlyByBreak
<1>1. Core /\ LockFits => LockedOutOnlyByBreak
    BY DEF Core, Fits, CmdFits, IdleCmd, LockFits, LockedOutOnlyByBreak
<1> QED
    BY <1>1, CoreInvariant, LockInvariant, PTL
-----------------------------------------------------------------------------
(* Only moved files leave the scope.                                       *)

\* The request is written once.
RequestOnce == cmd.pc = "rename" => request = None

LEMMA RequestStep ==
    ASSUME Core, LockFits, RequestOnce, [Next]_vars
    PROVE  /\ RequestOnce' /\ setup' = setup
           /\ request # None => request' = request
           /\ request' # request => Rename
<1>0. CmdFits
    BY DEF Core, Fits
<1>1. CASE StartJob
  <2>1. request' = request
      BY <1>1 DEF StartJob, LockFits
  <2>2. cmd'.pc # "rename"
      BY <1>0, <1>1 DEF StartJob, CmdFits, IdleCmd
  <2> QED
      BY <1>1, <2>1, <2>2 DEF StartJob, RequestOnce
<1>2. CASE Rename
  <2>1. cmd' = IdleCmd /\ request = None /\ setup' = setup
      BY <1>2 DEF Rename, Pc, End, RequestOnce
  <2> QED
      BY <1>2, <2>1 DEF RequestOnce, IdleCmd
<1>3. CASE Persist
  <2>1. cmd \in Cmds /\ request' = request /\ setup' = setup
      BY <1>0, <1>3 DEF Persist, CmdFits, Fail, End, env
  <2>2. cmd'.pc = "rename" => request = None
      BY <1>3, <2>1 DEF Persist, Fail, End, IdleCmd
  <2> QED
      BY <2>1, <2>2 DEF RequestOnce
<1>4. ASSUME UNCHANGED <<setup, request>>, cmd'.pc # "rename" \/ UNCHANGED cmd
      PROVE  /\ RequestOnce' /\ setup' = setup /\ request' = request
    BY <1>4 DEF RequestOnce
<1>5. cmd \in Cmds
    BY <1>0 DEF CmdFits
<1>6. ASSUME NEW k, NEW v, NEW next, Store(k, v, next)
      PROVE UNCHANGED <<setup, request>> /\ cmd'.pc # "rename"
    BY <1>5, <1>6 DEF Store, env, Cmds
<1>7. ASSUME Fail PROVE UNCHANGED <<setup, request>> /\ cmd'.pc # "rename"
    BY <1>7 DEF Fail, End, IdleCmd
<1>8. ASSUME UNCHANGED env, End \/ \E pc \in StartSteps : To(pc)
      PROVE UNCHANGED <<setup, request>> /\ cmd'.pc # "rename"
    BY <1>5, <1>8 DEF env, End, IdleCmd, To, Cmds, StartSteps
<1>9. CASE Verify \/ Baseline \/ Announce
    BY <1>4, <1>6, <1>7, <1>8, <1>9 DEF Verify, Baseline, Announce, StartSteps
<1>10. CASE StoreReturns
  <2>1. cmd.next \in {"idle"} \cup StartSteps
      BY <1>5 DEF Cmds
  <2> QED
      BY <1>4, <1>7, <1>8, <1>10, <2>1 DEF StoreReturns
<1>11. CASE WorkspaceReturns
  <2>1. UNCHANGED env
      BY <1>11 DEF WorkspaceReturns
  <2>2. CASE End
      BY <1>4, <2>1, <2>2 DEF env, End, IdleCmd
  <2>3. CASE cmd' = [cmd EXCEPT !.pc = "store", !.next = "idle"]
    <3>1. cmd'.pc # "rename"
        BY <1>5, <2>3 DEF Cmds
    <3> QED
        BY <1>4, <2>1, <3>1 DEF env
  <2> QED
      BY <1>11, <2>2, <2>3 DEF WorkspaceReturns
<1>12. ASSUME NEW c \in Candidates,
              \/ \E parent \in Parents[c], model \in Models : Handoff(c, parent, model)
              \/ Complete(c)
       PROVE UNCHANGED <<setup, request>> /\ cmd'.pc # "rename"
    BY <1>5, <1>12 DEF Handoff, Complete, env, Cmds
<1>13. CASE StoreRuns \/ Workspace \/ Agent \/ OtherProcess \/ OtherRuns \/ UNCHANGED vars
            \/ \E r \in IssueEdits : EditIssue(r)
  <2>1. UNCHANGED <<setup, request, cmd>>
      BY <1>13 DEF StoreRuns, Workspace, Agent, OtherProcess, OtherRuns, vars, env, EditIssue
  <2> QED
      BY <1>4, <2>1
<1>14. CASE Crash
    BY <1>4, <1>7, <1>14 DEF Crash
<1> QED
    BY <1>1, <1>2, <1>3, <1>4, <1>9, <1>10, <1>11, <1>12, <1>13, <1>14 DEF Next

\* A finalize that has checked the names of what it staged.
Checked == {"diff", "compare"} \cup Passes \cup Replacing
NamesInScope ==
    Finalizing(Checked) /\ call.calm =>
        \E found \in Renames(call.index, Base) :
            Named(call.index, Base, found) \subseteq call.scope

LEMMA NamesStep ==
    ASSUME Inv, [WorkNext]_cvars, NamesInScope
    PROVE  NamesInScope'
<1>0. WorkTypeOK /\ CallFits /\ call \in Calls
    BY DEF Inv, WorkTypeOK
<1>1. ASSUME call'.index = call.index, call'.scope = call.scope, call'.op = call.op,
             call'.calm => call.calm, call'.step \in Checked => call.step \in Checked
      PROVE NamesInScope'
    BY <1>1 DEF NamesInScope, Finalizing
<1>2. ASSUME ~(call'.op = "finalize" /\ call'.step \in Checked /\ call'.calm)
      PROVE NamesInScope'
    BY <1>2 DEF NamesInScope, Finalizing
<1>3. ASSUME NEW step, Go(step)
      PROVE /\ call'.step = step /\ call'.index = call.index /\ call'.scope = call.scope
            /\ call'.op = call.op /\ call'.calm = call.calm
    BY <1>0, <1>3 DEF Go, Calls
<1>4. ASSUME NEW status, Return(status) PROVE NamesInScope'
  <2>1. call'.step = "done"
      BY <1>0, <1>4 DEF Return, Calls
  <2> QED
      BY <1>2, <2>1 DEF Checked, Passes, Replacing
<1>5. CASE CheckPrepare \/ AddWorktree \/ WriteManifest
  <2>1. call.op = "prepare" /\ call'.op = call.op
      BY <1>0, <1>5 DEF CheckPrepare, AddWorktree, WriteManifest, At, Go, Return, Calls
  <2> QED
      BY <1>2, <2>1
<1>6. CASE Open \/ Stage
  <2>1. call'.step \in {"stage", "done", "names"}
      BY <1>0, <1>6 DEF Open, Stage, Go, Return, Calls
  <2> QED
      BY <1>2, <2>1 DEF Checked, Passes, Replacing
<1>7. CASE CheckNames
  <2>1. CASE Return("policy")
      BY <1>4, <2>1
  <2>2. CASE /\ Go("diff")
             /\ \E found \in Renames(call.index, Base) :
                    Named(call.index, Base, found) \subseteq call.scope
    <3>1. call'.index = call.index /\ call'.scope = call.scope
        BY <1>3, <2>2
    <3> QED
        BY <2>2, <3>1 DEF NamesInScope
  <2> QED
      BY <1>7, <2>1, <2>2 DEF CheckNames, Acceptable
<1>8. CASE Diff
  <2>1. CASE call' = [call EXCEPT !.patch = call.index, !.step = "before",
                                  !.todo = Listing]
    <3>1. /\ call'.index = call.index /\ call'.scope = call.scope
          /\ call'.op = call.op /\ call'.calm = call.calm /\ call.step = "diff"
        BY <1>0, <1>8, <2>1 DEF Calls, Diff, At
    <3> QED
        BY <1>1, <3>1 DEF Checked
  <2> QED
      BY <1>4, <1>8, <2>1 DEF Diff
<1>9. ASSUME NEW f \in SourcePaths, Before(f) \/ Select(f) \/ Pack(f) \/ After(f)
      PROVE NamesInScope'
  <2>1. CASE Return("raised")
      BY <1>4, <2>1
  <2>2. CASE ~Return("raised")
    <3>1. /\ call'.index = call.index /\ call'.scope = call.scope
          /\ call'.op = call.op /\ call'.calm = call.calm
        BY <1>0, <1>9, <2>2 DEF Before, Select, Pack, After, Calls
    <3>2. call.step \in Checked
        BY <1>9 DEF Before, Select, Pack, After, Opened, At, Checked, Passes
    <3> QED
        BY <1>1, <3>1, <3>2
  <2> QED
      BY <2>1, <2>2
<1>10. CASE Compare \/ ReplacePatch \/ ReplaceZip
  <2>1. call.step \in Checked
      BY <1>10 DEF Compare, ReplacePatch, ReplaceZip, At, Checked, Replacing
  <2>2. ASSUME NEW step, Go(step) PROVE NamesInScope'
      BY <1>1, <1>3, <2>1, <2>2
  <2> QED
      BY <1>4, <1>10, <2>2 DEF Compare, ReplacePatch, ReplaceZip
<1>11. CASE Finish
    BY <1>4, <1>11 DEF Finish
<1>12. CASE AgentActs
  <2>1. CallKept /\ call'.step = call.step
      BY <1>0, <1>12, AgentKeepsCall
  <2>2. CASE Restage
    <3>1. ~call'.calm
        BY <1>0, <2>2 DEF Restage, Calls
    <3> QED
        BY <1>2, <3>1
  <2>3. ASSUME NEW c \in Candidates, NEW f \in Paths, NEW v \in Contents \cup {Absent},
               Edit(c, f, v)
        PROVE NamesInScope'
    <3>1. CASE call.step = "idle"
        BY <1>2, <2>1, <3>1 DEF Checked, Passes, Replacing
    <3>2. CASE call.step # "idle"
      <4>1. call'.index = call.index /\ (call'.calm => call.calm)
          BY <1>0, <2>3, <3>2, EditEffect
      <4> QED
          BY <1>1, <2>1, <4>1 DEF CallKept
    <3> QED
        BY <3>1, <3>2
  <2> QED
      BY <1>12, <2>2, <2>3 DEF AgentActs
<1>13. CASE UNCHANGED cvars \/ Elsewhere
    BY <1>1, <1>13 DEF cvars, Elsewhere
<1>14. CASE CrashCall \/ Leave
    BY <1>2, <1>14 DEF CrashCall, Leave, NoCall
<1>15. ASSUME NEW c, NEW x, EnterPrepare(c, x) \/ EnterFinalize(c, x) PROVE NamesInScope'
  <2>1. call'.step \in {"check", "open"}
      BY <1>15 DEF EnterPrepare, EnterFinalize, NoCall
  <2> QED
      BY <1>2, <2>1 DEF Checked, Passes, Replacing
<1> QED
    BY <1>5, <1>6, <1>7, <1>8, <1>9, <1>10, <1>11, <1>12, <1>13, <1>14, <1>15
       DEF WorkNext, WorkspaceStep

\* A file that is reported under its new name only: where it went is named.
LEMMA RenameTarget ==
    ASSUME NEW t, NEW from, NEW scope, NEW found \in Renames(t, from),
           Named(t, from, found) \subseteq scope,
           NEW f \in Changed(t, from) \ scope
    PROVE  \E g \in scope : <<f, g>> \in found
<1>1. PICK pair \in found : pair[1] = f
    BY DEF Named
<1>2. /\ pair \in Paths \X Paths /\ from[pair[2]] = Absent /\ t[pair[2]] # Absent
      /\ \A x \in found : t[x[1]] = Absent
    BY <1>1 DEF Renames, Renamed
<1>3. pair[2] \in Named(t, from, found)
    BY <1>2 DEF Named, Changed
<1>4. pair = <<f, pair[2]>>
    BY <1>1, <1>2
<1> QED
    BY <1>1, <1>3, <1>4

\* DeletesAtMost, of one manifest.
DeletesOnly(mine, scope) ==
    mine # None /\ mine.final /\ mine.calm =>
        \E found \in Renames(mine.patch, Base) :
            \A f \in Changed(mine.patch, Base) \ scope :
                \E g \in scope : <<f, g>> \in found

\* Of what was staged and checked, only deletions escape.
LEMMA FinishEscape ==
    ASSUME Inv, NamesInScope, Finish
    PROVE  DeletesOnly(manifest'[Me], call.scope)
<1>0. /\ call \in Calls /\ Me \in Candidates /\ manifest[Me] \in Manifests
      /\ CalmFits /\ Finalizing({"finish"})
    BY DEF Inv, WorkTypeOK, Finish, At, CallFits, Finalizing, Replacing
<1>1. manifest'[Me].patch = call.patch /\ manifest'[Me].calm = call.calm
    BY <1>0 DEF Finish, Inv, WorkTypeOK, Manifests
<1>2. ASSUME call.calm
      PROVE  \E found \in Renames(call.patch, Base) :
                 \A f \in Changed(call.patch, Base) \ call.scope :
                     \E g \in call.scope : <<f, g>> \in found
  <2>1. /\ call.patch = call.index
        /\ \E found \in Renames(call.index, Base) :
               Named(call.index, Base, found) \subseteq call.scope
      BY <1>0, <1>2 DEF CalmFits, Finalizing, Replacing, NamesInScope, Checked
  <2>2. PICK found \in Renames(call.patch, Base) :
               Named(call.patch, Base, found) \subseteq call.scope
      BY <2>1
  <2>3. \A f \in Changed(call.patch, Base) \ call.scope :
            \E g \in call.scope : <<f, g>> \in found
      BY <2>2, RenameTarget
  <2> QED
      BY <2>2, <2>3
<1> QED
    BY <1>1, <1>2 DEF DeletesOnly

LEMMA ManifestChange ==
    ASSUME Inv, [WorkNext]_cvars, NEW c \in Candidates
    PROVE  \/ manifest'[c] = manifest[c]
           \/ ~manifest'[c].final
           \/ Finish /\ c = Me
<1>0. /\ WorkTypeOK /\ CallFits /\ manifest \in [Candidates -> Manifests \cup {None}]
    BY DEF Inv, WorkTypeOK
<1>1. CASE UNCHANGED manifest
    BY <1>1
<1>2. CASE WriteManifest
    BY <1>0, <1>2 DEF WriteManifest
<1>3. CASE Finish
    BY <1>0, <1>3 DEF Finish
<1>4. ASSUME WorkNext, ~WriteManifest, ~Finish PROVE UNCHANGED manifest
    BY <1>4 DEF WorkNext, WorkspaceStep, CheckPrepare, AddWorktree, Open, Stage,
        CheckNames, Diff, Before, Select, Pack, After, Opened, Compare, ReplacePatch,
        ReplaceZip, AgentActs, Edit, Restage, CrashCall, Elsewhere, files
<1> QED
    BY <1>1, <1>2, <1>3, <1>4 DEF cvars

EscapeFits ==
    /\ RequestOnce /\ NamesInScope
    /\ request = None => \A c \in Candidates : ~Finalized(c)
    /\ request # None =>
           \A c \in Candidates : DeletesOnly(manifest[c], Scope(request))

LEMMA EscapeStep ==
    ASSUME Core, LockFits, EscapeFits, [Next]_vars
    PROVE  EscapeFits'
<1>0. Inv /\ CmdFits /\ CallOfCmd /\ [WorkNext]_cvars
    BY CoreStep DEF Core, Fits
<1>1. /\ RequestOnce' /\ setup' = setup
      /\ request # None => request' = request
      /\ request' # request => Rename
    BY RequestStep DEF EscapeFits
<1>2. NamesInScope'
    BY <1>0, NamesStep DEF EscapeFits
<1>3. ASSUME Finish PROVE request # None /\ call.scope = Scope(request)
  <2>1. call.op = "finalize" /\ call.step = "finish"
      BY <1>3 DEF Finish, At
  <2>2. cmd.pc = "call"
      BY <1>0, <2>1 DEF CallOfCmd, NoCall
  <2>3. cmd.op # "none" /\ cmd.op # "start" /\ cmd.op # "handoff"
      BY <1>0, <2>1, <2>2 DEF CallOfCmd, CmdFits, IdleCmd, StartSteps
  <2>4. cmd.op = "complete"
      BY <1>0, <2>3 DEF CmdFits, Cmds
  <2> QED
      BY <1>0, <2>2, <2>4 DEF CallOfCmd, CmdFits
<1>4. CASE request = None
  <2>1. \A c \in Candidates : ~Finalized(c)'
      BY <1>0, <1>3, <1>4, ManifestChange DEF EscapeFits, Finalized
  <2>2. \A c \in Candidates : DeletesOnly(manifest'[c], Scope(request)')
      BY <2>1 DEF DeletesOnly, Finalized
  <2> QED
      BY <1>1, <1>2, <2>1, <2>2 DEF EscapeFits
<1>5. CASE request # None
  <2>1. Scope(request)' = Scope(request) /\ request' = request
      BY <1>1, <1>5 DEF Scope, RuntimePolicy, Profile
  <2>2. ASSUME NEW c \in Candidates PROVE DeletesOnly(manifest'[c], Scope(request))
    <3>1. CASE manifest'[c] = manifest[c]
        BY <1>5, <3>1 DEF EscapeFits
    <3>2. CASE ~manifest'[c].final
        BY <3>2 DEF DeletesOnly
    <3>3. CASE Finish /\ c = Me
        BY <1>0, <1>3, <3>3, FinishEscape DEF EscapeFits
    <3> QED
        BY <1>0, <3>1, <3>2, <3>3, ManifestChange
  <2> QED
      BY <1>1, <1>2, <1>5, <2>1, <2>2 DEF EscapeFits
<1> QED
    BY <1>4, <1>5

\* Outside of the editable paths, less the protected ones, a candidate of a job
\* whose finalization was not disturbed creates and rewrites nothing, and
\* deletes only against similar files it adds inside, one for each.
THEOREM NothingWrittenOutside == Spec => []OutsideOnlyDeletes
<1>1. Init => EscapeFits
    BY DEF Init, IdleCmd, WorkInit, NoCall, EscapeFits, RequestOnce, NamesInScope,
        Finalizing, Checked, Passes, Replacing, Finalized
<1>2. Core /\ LockFits /\ EscapeFits /\ [Next]_vars => EscapeFits'
    BY EscapeStep
<1>3. EscapeFits => OutsideOnlyDeletes
    BY DEF EscapeFits, DeletesOnly, OutsideOnlyDeletes, DeletesAtMost, Finalized
<1> QED
    BY <1>1, <1>2, <1>3, CoreInvariant, LockInvariant, PTL DEF Spec
-----------------------------------------------------------------------------
(* The two files of a start agree.                                         *)

\* What is in the file, and what the calls of the store are about, as long as
\* no two processes raced: an identity has its digests and is written once.
OpsFit ==
    /\ file.gen # 0 => State("identity") \in JobIdentities
    /\ \A p \in Procs :
           /\ op[p].at \in {"loaded", "compared"} => op[p].key # "identity"
           /\ op[p].at = "absent" => op[p].key = "identity" /\ op[p].value \in JobIdentities
    /\ op["other"].at # "idle" => op["other"].key \in {"identity", "decision"}
    /\ op["job"].at = "done" =>
           file.gen # 0 /\ file.body[op["job"].key] = op["job"].value

LEMMA NeverUnraced == [FileNext]_fvars /\ ~raced' => ~raced
BY DEF FileNext, fvars, Initialize, Update, FileStep, Create, CompareGenerations,
    Replace, ReturnOp, Die, Quiet

LEMMA TwoProcs == "job" \in Procs /\ "other" \in Procs /\ "job" # "other"
BY PartsAssumption

LEMMA UpdateOps ==
    ASSUME FileTypeOK, OpsFit, NEW p \in Procs,
           NEW k \in Keys \ {"identity"}, NEW v \in Values,
           p = "other" => k = "decision", Update(p, k, v)
    PROVE  /\ OpsFit' /\ file' = file
           /\ op'[p].key = k /\ op'[p].value = v
           /\ \A q \in Procs \ {p} : op'[q] = op[q]
<1> DEFINE at == IF file.gen = 0 THEN "failed"
                 ELSE IF file.body[k] = v THEN "done" ELSE "loaded"
<1>1. /\ op'[p] = [at |-> at, key |-> k, value |-> v, seen |-> file]
      /\ \A q \in Procs \ {p} : op'[q] = op[q]
      /\ file' = file
    BY DEF Update, FileTypeOK, Quiet
<1>2. op'[p].at = at /\ op'[p].key = k /\ op'[p].value = v
    BY <1>1
<1>3. at \in {"failed", "done", "loaded"} /\ (at = "done" => file.gen # 0 /\ file.body[k] = v)
    OBVIOUS
<1> HIDE DEF at
<1>4. OpsFit'
    BY <1>1, <1>2, <1>3, TwoProcs DEF OpsFit, State
<1> QED
    BY <1>1, <1>2, <1>4

LEMMA InitializeOps ==
    ASSUME FileTypeOK, OpsFit, NEW p \in Procs, NEW id \in JobIdentities,
           Initialize(p, id)
    PROVE  /\ OpsFit' /\ file' = file
           /\ op'[p].key = "identity" /\ op'[p].value = id
           /\ \A q \in Procs \ {p} : op'[q] = op[q]
<1> DEFINE at == IF file.gen = 0 THEN "absent"
                 ELSE IF ~Compatible(file.body["identity"], id) THEN "failed"
                 ELSE IF file.body["identity"] # id /\ NoDigests(file.body["identity"])
                 THEN "loaded" ELSE "done"
<1>1. /\ op'[p] = [at |-> at, key |-> "identity", value |-> id, seen |-> file]
      /\ \A q \in Procs \ {p} : op'[q] = op[q]
      /\ file' = file
    BY DEF Initialize, FileTypeOK, Quiet
<1>2. op'[p].at = at /\ op'[p].key = "identity" /\ op'[p].value = id
    BY <1>1
<1>3. ~NoDigests(id) /\ (file.gen # 0 => ~NoDigests(file.body["identity"]))
    BY DEF OpsFit, State, JobIdentities
<1>4. /\ at \in {"absent", "failed", "done"}
      /\ at = "done" => file.gen # 0 /\ file.body["identity"] = id
    BY <1>3 DEF Compatible
<1> HIDE DEF at
<1>5. OpsFit'
    BY <1>1, <1>2, <1>4, TwoProcs DEF OpsFit, State
<1> QED
    BY <1>1, <1>2, <1>5

LEMMA ReturnOps ==
    ASSUME FileTypeOK, OpsFit, NEW p \in Procs, ReturnOp(p) \/ Die(p)
    PROVE  /\ OpsFit' /\ file' = file
           /\ \A q \in Procs \ {p} : op'[q] = op[q]
<1>1. /\ op'[p].at = "idle" /\ \A q \in Procs \ {p} : op'[q] = op[q]
      /\ file' = file
    BY DEF ReturnOp, Die, Idle, FileTypeOK, Quiet
<1>2. OpsFit'
    BY <1>1, TwoProcs DEF OpsFit, State
<1> QED
    BY <1>1, <1>2

\* A file that is there keeps its identity, and only the owner of a key
\* changes it.
LEMMA FileStepOps ==
    ASSUME FileInv, GenFits, OpsFit, ~raced', NEW p \in Procs, FileStep(p),
           op["job"].at # "idle" => op["job"].key # "decision"
    PROVE  /\ OpsFit'
           /\ op'[p].key = op[p].key /\ op'[p].value = op[p].value
           /\ \A q \in Procs \ {p} : op'[q] = op[q]
           /\ file.gen # 0 => State("identity")' = State("identity")
           /\ file.gen # 0 =>
                  \/ State("verification")' = State("verification")
                  \/ /\ op[p].key = "verification"
                     /\ State("verification")' = op[p].value
<1>0. /\ FileTypeOK /\ op[p] \in Ops /\ {"identity", "verification"} \subseteq Keys
      /\ file \in FileStates
    BY PartsAssumption DEF FileInv, FileTypeOK
<1>1. ~raced /\ CopyIsOld(p)
  <2>1. FileNext
      BY DEF FileNext
  <2> QED
      BY <2>1, NeverUnraced DEF FileInv
<1>2. ASSUME NEW at, Reach(p, at)
      PROVE /\ op'[p].at = at /\ op'[p].key = op[p].key /\ op'[p].value = op[p].value
            /\ \A q \in Procs \ {p} : op'[q] = op[q]
    BY <1>0, <1>2 DEF Reach, FileTypeOK, Ops
<1>3. CASE Create(p)
  <2>1. /\ file.gen = 0 /\ op[p].key = "identity" /\ op[p].value \in JobIdentities
        /\ file'.gen = 1 /\ file'.body = [Blank EXCEPT !["identity"] = op[p].value]
        /\ op[p].at = "absent"
      BY <1>1, <1>3 DEF Create, CopyIsOld, NoFile, OpsFit
  <2>2. State("identity")' = op[p].value /\ file'.gen # 0
      BY <1>0, <2>1 DEF State, Blank
  <2>3. op["job"].at # "done"
      BY <2>1 DEF OpsFit
  <2>4. Reach(p, "done")
      BY <1>3 DEF Create
  <2>5. OpsFit'
    <3>1. CASE p = "job"
        BY <1>2, <2>1, <2>2, <2>4, <3>1, TwoProcs DEF OpsFit, State
    <3>2. CASE p # "job"
        BY <1>2, <2>1, <2>2, <2>3, <2>4, <3>2, TwoProcs DEF OpsFit, State
    <3> QED
        BY <3>1, <3>2
  <2> QED
      BY <1>2, <2>1, <2>4, <2>5
<1>4. CASE CompareGenerations(p)
  <2>1. /\ op[p].at = "loaded" /\ file' = file /\ file.gen # 0
        /\ \E at \in {"failed", "done", "compared"} :
               Reach(p, at) /\ (at = "done" => NewBody(p) = file.body)
      BY <1>4 DEF CompareGenerations, Quiet, GenFits
  <2>2. NewBody(p)[op[p].key] = op[p].value
      BY <1>0 DEF NewBody, Ops, FileStates
  <2>3. OpsFit'
      BY <1>2, <2>1, <2>2, TwoProcs DEF OpsFit, State
  <2> QED
      BY <1>2, <2>1, <2>3 DEF State
<1>5. CASE Replace(p)
  <2>1. /\ op[p].at = "compared" /\ op[p].seen = file /\ op[p].key # "identity"
        /\ file.gen # 0 /\ Reach(p, "done")
        /\ file' = [gen |-> op[p].seen.gen + 1, body |-> NewBody(p)]
      BY <1>1, <1>5 DEF Replace, CopyIsOld, OpsFit, GenFits
  <2>2. /\ file'.gen # 0
        /\ \A k \in Keys : file'.body[k] = IF k = op[p].key THEN op[p].value
                                            ELSE file.body[k]
      BY <1>0, <2>1 DEF NewBody, FileStates
  <2>3. OpsFit'
    <3>1. CASE p = "job"
        BY <1>0, <1>2, <2>1, <2>2, <3>1, TwoProcs DEF OpsFit, State, Ops
    <3>2. CASE p = "other"
      <4>1. op["other"].key = "decision"
          BY <2>1, <3>2 DEF OpsFit
      <4>2. op["job"].at = "done" => /\ op["job"].key \in Keys
                                     /\ op["job"].key # "decision"
          BY <1>0, TwoProcs DEF FileTypeOK, Ops
      <4> QED
          BY <1>0, <1>2, <2>1, <2>2, <3>2, <4>1, <4>2, TwoProcs DEF OpsFit, State
    <3> QED
        BY <3>1, <3>2, PartsAssumption
  <2> QED
      BY <1>0, <1>2, <2>1, <2>2, <2>3 DEF State
<1> QED
    BY <1>3, <1>4, <1>5 DEF FileStep

\* What the verification of a request must be for the job to go on with it.
Explained(r) ==
    /\ State("identity") = Identity(r)
    /\ State("verification") = Resolved(r)
    /\ V!ModeAllowed(Resolved(r).gate, Resolved(r).mode)

\* What a start knows of the file at each of its steps.
Past(steps) ==
    cmd.op = "start" /\ (cmd.pc \in steps \/ (cmd.pc = "store" /\ cmd.next \in steps))
CmdKnows ==
    /\ cmd.pc = "store" /\ cmd.op # "start" => op["job"].key \in Candidates
    /\ cmd.pc = "store" /\ cmd.op = "start" =>
           \/ /\ cmd.next = "verify"
              /\ op["job"].key = "identity" /\ op["job"].value = Identity(cmd.req)
           \/ /\ cmd.next = "baseline"
              /\ op["job"].key = "verification" /\ op["job"].value = Resolved(cmd.req)
           \/ cmd.next \in {"announce", "persist"} /\ op["job"].key = "baseline"
    /\ cmd.pc = "verify" /\ cmd.op = "start" =>
           file.gen # 0 /\ State("identity") = Identity(cmd.req)
    /\ Past({"baseline", "announce", "persist", "rename"}) =>
           /\ file.gen # 0 /\ State("identity") = Identity(cmd.req)
           /\ V!ModeAllowed(Resolved(cmd.req).gate, Resolved(cmd.req).mode)
           /\ RecordedVerification(cmd.req)
    /\ Past({"announce", "persist", "rename"}) \/ (cmd.op = "start" /\ cmd.pc = "baseline") =>
           State("verification") = Resolved(cmd.req)
    /\ request # None => Explained(request) /\ Starts(request)

\* A step that changes nothing CmdKnows speaks of.
LEMMA KnowsKept ==
    ASSUME CmdKnows, UNCHANGED <<setup, request, cmd>>,
           cmd.pc = "store" => op'["job"].key = op["job"].key
                               /\ op'["job"].value = op["job"].value,
           file.gen # 0 => /\ file'.gen # 0
                           /\ State("identity")' = State("identity")
                           /\ State("verification")' = State("verification"),
           request # None => file.gen # 0
    PROVE  CmdKnows'
<1>1. \A r : /\ Identity(r)' = Identity(r) /\ Resolved(r)' = Resolved(r)
             /\ Starts(r)' = Starts(r)
    BY DEF Identity, Resolved, Profile, Starts, Runs, RuntimePolicy, Reqs
<1> QED
    BY <1>1 DEF CmdKnows, Past, Explained, RecordedVerification

LEMMA StoreKnows ==
    ASSUME Fits, FileTypeOK, OpsFit, CmdKnows, cmd.op = "start",
           NEW k \in {"verification", "baseline"}, NEW v \in Values,
           NEW next \in {"baseline", "announce", "persist"}, Store(k, v, next),
           next = "baseline" <=> k = "verification",
           k = "verification" => v = Resolved(cmd.req),
           file.gen # 0, State("identity") = Identity(cmd.req),
           V!ModeAllowed(Resolved(cmd.req).gate, Resolved(cmd.req).mode),
           RecordedVerification(cmd.req),
           k = "baseline" => State("verification") = Resolved(cmd.req)
    PROVE  OpsFit' /\ CmdKnows'
<1>1. k \in Keys \ {"identity"} /\ cmd \in Cmds
    BY KeyFacts DEF Fits, CmdFits
<1>2. OpsFit' /\ file' = file /\ op'["job"].key = k /\ op'["job"].value = v
    BY <1>1, UpdateOps, TwoProcs DEF Store
<1>3. /\ cmd'.op = "start" /\ cmd'.pc = "store" /\ cmd'.next = next
      /\ cmd'.req = cmd.req /\ setup' = setup /\ request' = request
    BY <1>1 DEF Store, Cmds, env
<1>4. \A r : /\ Identity(r)' = Identity(r) /\ Resolved(r)' = Resolved(r)
             /\ Starts(r)' = Starts(r)
    BY <1>3 DEF Identity, Resolved, Profile, Starts, Runs, RuntimePolicy, Reqs
<1>5. CmdKnows'
    BY <1>2, <1>3, <1>4 DEF CmdKnows, Past, Explained, RecordedVerification, State
<1> QED
    BY <1>2, <1>5

\* A start goes from a step to a later one, or the command is at its end or
\* begins: the file and the calls of the store are left alone.
LEMMA GoOnKnows ==
    ASSUME CmdKnows, UNCHANGED <<setup, file>>, cmd'.pc # "store",
           \/ request' = request
           \/ Starts(request') /\ Explained(request'),
           \/ cmd'.op # "start"
           \/ /\ cmd'.req = cmd.req /\ cmd'.pc \in {"announce", "persist", "rename"}
              /\ Past({"announce", "persist", "rename"})
                 \/ (cmd.op = "start" /\ cmd.pc = "baseline")
    PROVE  CmdKnows'
<1>1. \A r : /\ Identity(r)' = Identity(r) /\ Resolved(r)' = Resolved(r)
             /\ Starts(r)' = Starts(r)
    BY DEF Identity, Resolved, Profile, Starts, Runs, RuntimePolicy, Reqs
<1>2. State("identity")' = State("identity") /\ State("verification")' = State("verification")
    BY DEF State
<1>3. (request # None => Explained(request) /\ Starts(request))'
    BY <1>1, <1>2 DEF CmdKnows, Explained
<1>4. CASE cmd'.op # "start"
    BY <1>3, <1>4 DEF CmdKnows, Past
<1>5. CASE cmd'.op = "start"
  <2>1. Past({"baseline", "announce", "persist", "rename"})
      BY <1>5 DEF Past
  <2> QED
      BY <1>1, <1>2, <1>3, <1>5, <2>1 DEF CmdKnows, Past, RecordedVerification
<1> QED
    BY <1>4, <1>5

LEMMA StartKnows ==
    ASSUME Core, LockFits, OpsFit, CmdKnows,
           StartJob \/ Verify \/ Baseline \/ Announce \/ Persist \/ Rename
    PROVE  OpsFit' /\ CmdKnows'
<1>0. /\ Fits /\ EnvFits /\ CmdFits /\ cmd \in Cmds /\ FileTypeOK
    BY DEF Core, Fits, CmdFits, FileInv
<1>1. ASSUME UNCHANGED fvars PROVE OpsFit' /\ file' = file
    BY <1>1 DEF fvars, OpsFit, State
<1>2. ASSUME UNCHANGED <<fvars, setup, request>>, cmd' = IdleCmd PROVE OpsFit' /\ CmdKnows'
    BY <1>1, <1>2, GoOnKnows DEF IdleCmd
<1>3. ASSUME Fail \/ (End /\ UNCHANGED env), KeepFiles PROVE OpsFit' /\ CmdKnows'
    BY <1>2, <1>3 DEF Fail, End, env, KeepFiles
<1>4. ASSUME NEW pc \in {"announce", "persist", "rename"}, To(pc), KeepFiles,
             UNCHANGED <<setup, request>>, cmd.op = "start",
             cmd.pc \in {"baseline", "announce", "persist"}
      PROVE OpsFit' /\ CmdKnows'
  <2>1. cmd'.req = cmd.req /\ cmd'.pc = pc /\ cmd'.op = "start"
      BY <1>0, <1>4 DEF To, Cmds
  <2>2. UNCHANGED fvars
      BY <1>4 DEF KeepFiles
  <2> QED
      BY <1>1, <1>4, <2>1, <2>2, GoOnKnows DEF Past
<1>5. CASE StartJob
  <2>1. request' = request /\ setup' = setup /\ cmd = IdleCmd
      BY <1>0, <1>5 DEF StartJob, LockFits, CmdFits
  <2>2. CASE Resolved(issue) = None
    <3>1. UNCHANGED <<fvars, cmd>>
        BY <1>5, <2>2 DEF StartJob
    <3> QED
        BY <1>2, <2>1, <3>1
  <2>3. CASE Resolved(issue) # None
    <3>1. /\ Initialize("job", Identity(issue))
          /\ cmd'.op = "start" /\ cmd'.pc = "store" /\ cmd'.next = "verify"
          /\ cmd'.req = issue
        BY <1>5, <2>1, <2>3 DEF StartJob, IdleCmd
    <3>2. Identity(issue) \in JobIdentities
        BY <1>0, <1>5, RequestFacts DEF StartJob, EnvFits
    <3>3. /\ OpsFit' /\ file' = file
          /\ op'["job"].key = "identity" /\ op'["job"].value = Identity(issue)
        BY <1>0, <3>1, <3>2, InitializeOps, TwoProcs
    <3>4. \A r : /\ Identity(r)' = Identity(r) /\ Resolved(r)' = Resolved(r)
                 /\ Starts(r)' = Starts(r)
        BY <2>1 DEF Identity, Resolved, Profile, Starts, Runs, RuntimePolicy, Reqs
    <3>5. CmdKnows'
        BY <2>1, <3>1, <3>3, <3>4 DEF CmdKnows, Past, Explained, State
    <3> QED
        BY <3>3, <3>5
  <2> QED
      BY <2>2, <2>3
<1>6. CASE Verify
  <2>1. /\ cmd.op = "start" /\ cmd.pc = "verify" /\ Starts(cmd.req)
        /\ file.gen # 0 /\ State("identity") = Identity(cmd.req)
      BY <1>0, <1>6 DEF Verify, Pc, CmdKnows, CmdFits
  <2>2. Resolved(cmd.req) \in Values
      BY <1>0, <2>1, RunFacts, KeyFacts DEF Starts
  <2>3. CASE Fail /\ KeepFiles
      BY <1>3, <2>3
  <2>4. CASE /\ Store("verification", Resolved(cmd.req), "baseline")
             /\ V!ModeAllowed(Resolved(cmd.req).gate, Resolved(cmd.req).mode)
             /\ RecordedVerification(cmd.req)
      BY <1>0, <2>1, <2>2, <2>4, StoreKnows
  <2> QED
      BY <1>6, <2>3, <2>4 DEF Verify
<1>7. CASE Baseline \/ Announce
  <2>1. /\ cmd.op = "start" /\ cmd.pc \in {"baseline", "announce"}
        /\ file.gen # 0 /\ State("identity") = Identity(cmd.req)
        /\ V!ModeAllowed(Resolved(cmd.req).gate, Resolved(cmd.req).mode)
        /\ RecordedVerification(cmd.req) /\ State("verification") = Resolved(cmd.req)
      BY <1>7 DEF Baseline, Announce, Pc, CmdKnows, Past
  <2>2. Mark("evaluated") \in Values /\ Mark("announced") \in Values
      BY KeyFacts
  <2>3. CASE \/ Store("baseline", Mark("evaluated"), "announce")
             \/ Store("baseline", Mark("announced"), "persist")
      BY <1>0, <2>1, <2>2, <2>3, StoreKnows
  <2>4. CASE KeepFiles /\ (Fail \/ (End /\ UNCHANGED env))
      BY <1>3, <2>4
  <2>5. CASE (To("announce") \/ To("persist")) /\ UNCHANGED env /\ KeepFiles
      BY <1>4, <2>1, <2>5 DEF env
  <2> QED
      BY <1>7, <2>3, <2>4, <2>5 DEF Baseline, Announce
<1>8. CASE Persist
  <2>1. cmd.op = "start" /\ cmd.pc = "persist" /\ KeepFiles
      BY <1>8 DEF Persist, Pc
  <2>2. CASE Fail \/ (End /\ UNCHANGED env)
      BY <1>3, <2>1, <2>2
  <2>3. CASE To("rename") /\ UNCHANGED <<setup, issue, request, broken>>
      BY <1>4, <2>1, <2>3
  <2> QED
      BY <1>8, <2>2, <2>3 DEF Persist
<1>9. CASE Rename
  <2>1. /\ Explained(cmd.req) /\ Starts(cmd.req) /\ cmd'.op # "start"
        /\ cmd'.pc # "store" /\ request' = cmd.req /\ setup' = setup /\ UNCHANGED fvars
      BY <1>0, <1>9 DEF Rename, Pc, CmdKnows, Past, Explained, CmdFits, End, IdleCmd,
          KeepFiles
  <2>2. file' = file /\ OpsFit'
      BY <1>1, <2>1
  <2>3. Starts(request') /\ Explained(request')
      BY <2>1
  <2> QED
      BY <2>1, <2>2, <2>3, GoOnKnows
<1> QED
    BY <1>5, <1>6, <1>7, <1>8, <1>9

LEMMA ReturnsKnow ==
    ASSUME Core, LockFits, OpsFit, CmdKnows, StoreReturns \/ Crash
    PROVE  OpsFit' /\ CmdKnows'
<1>0. cmd \in Cmds /\ FileTypeOK /\ CmdFits
    BY DEF Core, Fits, CmdFits, FileInv
<1>1. OpsFit' /\ file' = file
    BY <1>0, ReturnOps, TwoProcs DEF StoreReturns, Crash
<1>2. CASE cmd' = IdleCmd /\ UNCHANGED <<setup, request>>
    BY <1>1, <1>2, GoOnKnows DEF IdleCmd
<1>3. CASE Crash
    BY <1>2, <1>3 DEF Crash, Fail, End
<1>4. CASE StoreReturns
  <2>1. cmd.pc = "store" /\ UNCHANGED <<setup, request>> /\ op["job"].at \in {"done", "failed"}
      BY <1>4 DEF StoreReturns, Fail, env, ReturnOp
  <2>2. CASE Fail \/ End
      BY <1>2, <2>1, <2>2 DEF Fail, End
  <2>3. CASE op["job"].at = "done" /\ cmd.next # "idle" /\ To(cmd.next)
    <3>1. /\ cmd'.op = cmd.op /\ cmd'.pc = cmd.next /\ cmd'.req = cmd.req
          /\ cmd.next \in StartSteps
        BY <1>0, <2>3 DEF To, Cmds
    <3>2. cmd.op = "start"
      <4>1. cmd.op # "none" /\ cmd.op \notin {"handoff", "complete"}
          BY <1>0, <2>1, <2>3 DEF CmdFits, IdleCmd
      <4> QED
          BY <1>0, <4>1 DEF Cmds
    <3>3. file.gen # 0 /\ file.body[op["job"].key] = op["job"].value
        BY <2>3 DEF OpsFit
    <3>4. \A r : /\ Identity(r)' = Identity(r) /\ Resolved(r)' = Resolved(r)
                 /\ Starts(r)' = Starts(r)
        BY <2>1 DEF Identity, Resolved, Profile, Starts, Runs, RuntimePolicy, Reqs
    <3>5. (request # None => Explained(request) /\ Starts(request))'
        BY <1>1, <2>1, <3>4 DEF CmdKnows, Explained, State
    <3>6. CASE cmd.next = "verify"
      <4>1. State("identity") = Identity(cmd.req)
          BY <2>1, <3>2, <3>3, <3>6 DEF CmdKnows, State
      <4> QED
          BY <1>1, <3>1, <3>2, <3>3, <3>4, <3>5, <3>6, <4>1 DEF CmdKnows, Past, State
    <3>7. CASE cmd.next = "baseline"
      <4>1. /\ State("verification") = Resolved(cmd.req)
            /\ State("identity") = Identity(cmd.req)
            /\ V!ModeAllowed(Resolved(cmd.req).gate, Resolved(cmd.req).mode)
          BY <2>1, <3>2, <3>3, <3>7 DEF CmdKnows, State, Past
      <4> QED
          BY <1>1, <3>1, <3>2, <3>3, <3>4, <3>5, <3>7, <4>1
             DEF CmdKnows, Past, State, RecordedVerification
    <3>8. CASE cmd.next \in {"announce", "persist"}
      <4>1. Past({"announce", "persist", "rename"}) /\ cmd'.pc # "store"
          BY <2>1, <3>1, <3>2, <3>8 DEF Past
      <4> QED
          BY <1>1, <2>1, <3>1, <3>8, <4>1, GoOnKnows
    <3> QED
        BY <3>1, <3>6, <3>7, <3>8 DEF StartSteps
  <2> QED
      BY <1>4, <2>1, <2>2, <2>3 DEF StoreReturns
<1> QED
    BY <1>3, <1>4

LEMMA FileStepKnows ==
    ASSUME Core, LockFits, OpsFit, CmdKnows, ~raced', StoreRuns \/ OtherRuns
    PROVE  OpsFit' /\ CmdKnows'
<1>0. /\ FileInv /\ GenFits /\ CmdFits /\ EnvFits /\ FileTypeOK /\ cmd \in Cmds
      /\ UNCHANGED <<setup, request, cmd>>
    BY DEF Core, Fits, LockFits, StoreRuns, OtherRuns, env, FileInv, CmdFits
<1>1. op["job"].at # "idle" => op["job"].key # "decision"
  <2>1. ASSUME op["job"].at # "idle" PROVE cmd.pc = "store"
      BY <2>1 DEF LockFits
  <2> QED
      BY <2>1, DistinctAssumption DEF CmdKnows
<1>2. file.gen # 0 => file'.gen # 0
    BY <1>0, CoreStep, GenStep DEF Next
<1>3. CASE OtherRuns /\ ReturnOp("other")
  <2>1. OpsFit' /\ file' = file /\ op'["job"] = op["job"]
      BY <1>0, <1>3, ReturnOps, TwoProcs
  <2> QED
      BY <1>0, <2>1, KnowsKept DEF State, LockFits
<1>4. CASE OtherRuns /\ FileStep("other")
  <2>1. /\ OpsFit' /\ op'["job"] = op["job"]
        /\ file.gen # 0 => State("identity")' = State("identity")
        /\ file.gen # 0 => \/ State("verification")' = State("verification")
                           \/ op["other"].key = "verification"
      BY <1>0, <1>1, <1>4, FileStepOps, TwoProcs
  <2>2. op["other"].at # "idle"
      BY <1>4 DEF FileStep, Create, CompareGenerations, Replace
  <2>3. op["other"].key # "verification"
      BY <2>2 DEF OpsFit
  <2> QED
      BY <1>0, <1>2, <2>1, <2>3, KnowsKept DEF LockFits
<1>5. CASE StoreRuns
  <2>1. /\ OpsFit' /\ op'["job"].key = op["job"].key /\ op'["job"].value = op["job"].value
        /\ file.gen # 0 => State("identity")' = State("identity")
        /\ file.gen # 0 => \/ State("verification")' = State("verification")
                           \/ /\ op["job"].key = "verification"
                              /\ State("verification")' = op["job"].value
      BY <1>0, <1>1, <1>5, FileStepOps, TwoProcs DEF StoreRuns
  <2>2. cmd.pc = "store"
      BY <1>5 DEF StoreRuns
  <2>3. CASE op["job"].key # "verification"
      BY <1>0, <1>2, <2>1, <2>3, KnowsKept DEF LockFits
  <2>4. CASE op["job"].key = "verification"
    <3>1. cmd.op = "start" /\ cmd.next = "baseline" /\ op["job"].value = Resolved(cmd.req)
        BY <2>2, <2>4, DistinctAssumption DEF CmdKnows
    <3>2. file.gen # 0 /\ State("verification") \in {Empty, Resolved(cmd.req)}
        BY <2>2, <3>1 DEF CmdKnows, Past, RecordedVerification
    <3>3. State("verification")' \in {State("verification"), Resolved(cmd.req)}
        BY <2>1, <3>1, <3>2
    <3>4. request # None => Resolved(request) # Empty
        BY <1>0, RunFacts DEF CmdKnows, Starts
    <3>5. \A r : /\ Identity(r)' = Identity(r) /\ Resolved(r)' = Resolved(r)
                 /\ Starts(r)' = Starts(r)
        BY <1>0 DEF Identity, Resolved, Profile, Starts, Runs, RuntimePolicy, Reqs
    <3>6. request # None => State("verification")' = State("verification")
        BY <3>2, <3>3, <3>4 DEF CmdKnows, Explained
    <3>7. (request # None => Explained(request) /\ Starts(request))'
        BY <1>0, <2>1, <3>2, <3>5, <3>6 DEF CmdKnows, Explained
    <3>8. RecordedVerification(cmd.req)'
        BY <1>0, <3>2, <3>3, <3>5 DEF RecordedVerification
    <3> QED
        BY <1>0, <1>2, <2>1, <2>2, <3>1, <3>2, <3>5, <3>7, <3>8 DEF CmdKnows, Past
  <2> QED
      BY <2>3, <2>4
<1> QED
    BY <1>3, <1>4, <1>5 DEF OtherRuns

LEMMA KnowsStep ==
    ASSUME Core, LockFits, OpsFit, CmdKnows, ~raced', [Next]_vars
    PROVE  OpsFit' /\ CmdKnows'
<1>0. /\ Fits /\ EnvFits /\ CmdFits /\ cmd \in Cmds /\ FileTypeOK
    BY DEF Core, Fits, CmdFits, FileInv
<1>1. ASSUME UNCHANGED fvars PROVE OpsFit' /\ file' = file /\ op' = op
    BY <1>1 DEF fvars, OpsFit, State
<1>2. CASE \/ Workspace \/ Agent \/ UNCHANGED vars
           \/ \E r \in IssueEdits : EditIssue(r)
  <2>1. UNCHANGED <<fvars, setup, request, cmd>>
      BY <1>2 DEF Workspace, Agent, EditIssue, vars, env
  <2> QED
      BY <1>1, <2>1, KnowsKept DEF State, LockFits
<1>3. ASSUME NEW c \in Candidates,
             \/ \E parent \in Parents[c], model \in Models : Handoff(c, parent, model)
             \/ Complete(c)
      PROVE OpsFit' /\ CmdKnows'
  <2>1. UNCHANGED fvars /\ UNCHANGED env /\ cmd'.pc = "call" /\ cmd'.op # "start"
      BY <1>0, <1>3 DEF Handoff, Complete, Cmds
  <2> QED
      BY <1>1, <2>1, GoOnKnows DEF env
<1>4. CASE WorkspaceReturns
  <2>1. cmd.pc = "call" /\ UNCHANGED env
      BY <1>4 DEF WorkspaceReturns
  <2>2. cmd.op \in {"handoff", "complete"} /\ cmd.cand \in Candidates
    <3>1. cmd.op # "none" /\ cmd.op # "start"
        BY <1>0, <2>1 DEF CmdFits, IdleCmd, StartSteps
    <3> QED
        BY <1>0, <3>1 DEF CmdFits, Cmds
  <2>3. CASE End /\ UNCHANGED fvars
      BY <1>1, <2>1, <2>3, GoOnKnows DEF End, IdleCmd, env
  <2>4. CASE /\ Update("job", cmd.cand, Recorded(call.status))
             /\ cmd' = [cmd EXCEPT !.pc = "store", !.next = "idle"]
    <3>1. cmd.cand \in Keys \ {"identity"} /\ Recorded(call.status) \in Values
        BY <2>2, KeyFacts DEF Recorded
    <3>2. OpsFit' /\ file' = file /\ op'["job"].key = cmd.cand
        BY <1>0, <2>4, <3>1, UpdateOps, TwoProcs
    <3>3. cmd'.op = cmd.op /\ cmd'.pc = "store" /\ setup' = setup /\ request' = request
        BY <1>0, <2>1, <2>4 DEF Cmds, env
    <3>4. \A r : /\ Identity(r)' = Identity(r) /\ Resolved(r)' = Resolved(r)
                 /\ Starts(r)' = Starts(r)
        BY <3>3 DEF Identity, Resolved, Profile, Starts, Runs, RuntimePolicy, Reqs
    <3>5. CmdKnows'
        BY <2>2, <3>2, <3>3, <3>4 DEF CmdKnows, Past, Explained, State
    <3> QED
        BY <3>2, <3>5
  <2> QED
      BY <1>4, <2>3, <2>4 DEF WorkspaceReturns
<1>5. CASE OtherProcess
  <2>1. UNCHANGED <<setup, request, cmd>>
      BY <1>5 DEF OtherProcess
  <2>2. CASE Initialize("other", Identity(issue)) /\ Runs(issue)
    <3>1. Identity(issue) \in JobIdentities
        BY <1>0, <2>2, RequestFacts DEF EnvFits, Runs
    <3>2. OpsFit' /\ file' = file /\ op'["job"] = op["job"]
        BY <1>0, <2>2, <3>1, InitializeOps, TwoProcs
    <3> QED
        BY <2>1, <3>2, KnowsKept DEF State, LockFits
  <2>3. CASE Update("other", "decision", Mark("decided"))
    <3>1. OpsFit' /\ file' = file /\ op'["job"] = op["job"]
        BY <1>0, <2>3, UpdateOps, TwoProcs, KeyFacts
    <3> QED
        BY <2>1, <3>1, KnowsKept DEF State, LockFits
  <2> QED
      BY <1>5, <2>2, <2>3 DEF OtherProcess
<1> QED
    BY <1>2, <1>3, <1>4, <1>5, StartKnows, ReturnsKnow, FileStepKnows DEF Next

\* As long as no two processes raced for the state file, the persisted request
\* gives the identity, with its narrowed policy, and the evidence the state
\* file has; the gate of the profile allows that evidence, and the author of
\* the issue may ask for it.
THEOREM RequestAgreesWithState == Spec => []RequestExplainsState
<1> DEFINE Story == ~raced => OpsFit /\ CmdKnows
<1>1. Init => Story
  <2> SUFFICES ASSUME Init PROVE OpsFit /\ CmdKnows
      OBVIOUS
  <2>1. file.gen = 0 /\ \A p \in Procs : op[p].at = "idle"
      BY DEF Init, FileInit, NoFile, Idle
  <2>2. cmd.pc = "idle" /\ cmd.op = "none" /\ request = None
      BY DEF Init, IdleCmd
  <2> QED
      BY <2>1, <2>2, TwoProcs DEF OpsFit, CmdKnows, Past
<1>2. Core /\ LockFits /\ Story /\ [Next]_vars => Story'
  <2> SUFFICES ASSUME Core, LockFits, Story, [Next]_vars, ~raced'
               PROVE  OpsFit' /\ CmdKnows'
      OBVIOUS
  <2>1. ~raced
      BY CoreStep, NeverUnraced
  <2> QED
      BY <2>1, KnowsStep
<1>3. Core /\ Story => RequestExplainsState
  <2> SUFFICES ASSUME Core, Story, request # None, ~raced
               PROVE  LET v == State("verification") IN
                      /\ State("identity") = Identity(request)
                      /\ v = Resolved(request)
                      /\ V!ModeAllowed(Profile(request).gate, v.mode)
                      /\ v.source = "issue" => setup.permission \in {"admin", "maintain", "write"}
      BY DEF RequestExplainsState
  <2>1. Explained(request) /\ Starts(request) /\ EnvFits
      BY DEF CmdKnows, Core, Fits
  <2>2. /\ Resolved(request).gate = Profile(request).gate
        /\ Resolved(request).source = "issue" => V!Overrides(request)
      BY <2>1, RunFacts DEF Starts
  <2> QED
      BY <2>1, <2>2 DEF Explained, Starts, V!HasAuthority
<1> QED
    BY <1>1, <1>2, <1>3, CoreInvariant, LockInvariant, PTL DEF Spec

=============================================================================
