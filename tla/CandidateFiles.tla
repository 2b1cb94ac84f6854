--------------------------- MODULE CandidateFiles ---------------------------
(***************************************************************************)
(* The files of a job's candidates: CandidateWorkspace of poc/candidate.py *)
(* with the archive builder of packaging/deterministic_zip.py.             *)
(*                                                                         *)
(* A candidate has a git worktree, which the agent edits at any time, and  *)
(* three files outside of it: the manifest, the patch and the source ZIP.  *)
(* prepare makes the worktree and then the manifest.  finalize stages the  *)
(* worktree, checks the names of what changed, takes the patch from the    *)
(* index, reads the source tree three times file by file (a fingerprint,   *)
(* the archive, a second fingerprint), compares, replaces the two          *)
(* artifacts, commits the index and at last writes the manifest.  A crash  *)
(* forgets the call and keeps the files; every replacement is atomic.      *)
(*                                                                         *)
(* A tree maps every path to its content or Absent.  A patch stands for    *)
(* the tree it makes of the base, a commit for its tree, a hash for what   *)
(* is hashed.                                                              *)
(***************************************************************************)
EXTENDS Naturals

CONSTANTS Candidates,
          Paths,        \* the paths of the repository
          SourcePaths,  \* those under source_root
          Ignored,      \* the untracked paths git ignores
          Contents, Absent,
          Similar,      \* pairs of contents git can take for one file
          Base,         \* the tree of the base commit
          Writable,     \* bound: what the agent may write, per candidate and path
          None,
          MaxDisturbed  \* bound: edits during a finalize, crashes, ...

Trees == [Paths -> Contents \cup {Absent}]

ASSUME NoneAssumption == None \notin Candidates /\ None \notin Trees
ASSUME BaseAssumption ==
    /\ Base \in Trees
    /\ \A f \in Ignored : Base[f] = Absent
ASSUME SimilarAssumption == Similar \subseteq Contents \X Contents
ASSUME BoundAssumption == MaxDisturbed \in Nat
ASSUME SourcesAssumption == SourcePaths \subseteq Paths
ASSUME WritableAssumption ==
    Writable \in [Candidates -> [Paths -> SUBSET (Contents \cup {Absent})]]

VARIABLES
    tree,       \* per candidate: its worktree, or None
    manifest,   \* per candidate: candidate.json, or None
    patch,      \* per candidate: candidate.patch, or None
    zip,        \* per candidate: source.zip, or None
    call,       \* the running prepare or finalize, with its local variables
    disturbed   \* how often something came between; bounded

cvars == <<tree, manifest, patch, zip, call, disturbed>>
files == <<tree, manifest, patch, zip>>

\* What a pass over the source tree has read: a partial map.
Reading == UNION {[F -> Contents] : F \in SUBSET SourcePaths}
NothingRead == [f \in {} |-> Absent]

NoCall ==
    [op |-> "none", cand |-> None, parent |-> None, scope |-> {},
     step |-> "idle", status |-> "none", index |-> Base, patch |-> Base,
     before |-> NothingRead, chosen |-> NothingRead, packed |-> NothingRead,
     after |-> NothingRead, todo |-> {}, stale |-> {}, calm |-> TRUE]

WorkInit ==
    /\ tree = [c \in Candidates |-> None]
    /\ manifest = [c \in Candidates |-> None]
    /\ patch = [c \in Candidates |-> None]
    /\ zip = [c \in Candidates |-> None]
    /\ call = NoCall
    /\ disturbed = 0

Finalized(c) == manifest[c] # None /\ manifest[c].final
At(op, step) == call.op = op /\ call.step = step
Go(step) == call' = [call EXCEPT !.step = step]
Return(status) == call' = [call EXCEPT !.step = "done", !.status = status]
Me == call.cand

-----------------------------------------------------------------------------
(* prepare.                                                                *)

EnterPrepare(c, parent) ==
    call' = [NoCall EXCEPT !.op = "prepare", !.cand = c, !.parent = parent,
                           !.step = "check"]

\* The parent must be finalized; a prepared candidate is returned when it was
\* prepared with the same inputs, a worktree without a manifest is refused.
CheckPrepare ==
    /\ At("prepare", "check")
    /\ LET parent == call.parent IN
       IF parent = Me \/ (parent # None /\ ~Finalized(parent))
       THEN Return("raised")
       ELSE IF manifest[Me] # None
       THEN Return(IF manifest[Me].parent = parent THEN "ok" ELSE "raised")
       ELSE IF tree[Me] # None THEN Return("raised")
       ELSE Go("worktree")
    /\ UNCHANGED <<files, disturbed>>

\* git worktree add --detach
Origin(parent) == IF parent = None THEN Base ELSE manifest[parent].commit

AddWorktree ==
    /\ At("prepare", "worktree")
    /\ tree' = [tree EXCEPT ![Me] = Origin(call.parent)]
    /\ Go("manifest")
    /\ UNCHANGED <<manifest, patch, zip, disturbed>>

WriteManifest ==
    /\ At("prepare", "manifest")
    /\ manifest' = [manifest EXCEPT ![Me] =
           [parent |-> call.parent, final |-> FALSE, patch |-> Base,
            zip |-> NothingRead, entries |-> NothingRead, commit |-> Base,
            calm |-> TRUE]]
    /\ Return("ok")
    /\ UNCHANGED <<tree, patch, zip, disturbed>>

-----------------------------------------------------------------------------
(* finalize: the worktree is staged and checked.                           *)

EnterFinalize(c, scope) ==
    call' = [NoCall EXCEPT !.op = "finalize", !.cand = c, !.scope = scope,
                           !.step = "open"]

\* A finalized candidate is returned as it is.  The agent may have moved HEAD.
Open ==
    /\ At("finalize", "open")
    /\ IF manifest[Me] = None \/ tree[Me] = None THEN Return("raised")
       ELSE IF manifest[Me].final THEN Return("ok")
       ELSE Go("stage") \/ Return("raised")
    /\ UNCHANGED <<files, disturbed>>

\* git add -A leaves out what git ignores.
Staged(t) == [f \in Paths |-> IF f \in Ignored THEN Absent ELSE t[f]]

Stage ==
    /\ At("finalize", "stage")
    /\ call' = [call EXCEPT !.index = Staged(tree[Me]), !.step = "names"]
    /\ UNCHANGED <<files, disturbed>>

\* git diff --cached --name-only detects renames, as git does by default: a
\* deleted and an added file of similar content can be one renamed file, of
\* which only the new name is listed.  Which pairs git finds is left open, but
\* no file is in two of them.
Changed(t, from) == {f \in Paths : t[f] # from[f]}
Renamed(t, from) ==
    {pair \in Paths \X Paths :
        /\ t[pair[1]] = Absent /\ from[pair[1]] # Absent
        /\ from[pair[2]] = Absent /\ t[pair[2]] # Absent
        /\ <<from[pair[1]], t[pair[2]]>> \in Similar}
Renames(t, from) ==
    {found \in SUBSET Renamed(t, from) :
        \A x, y \in found : x[1] = y[1] <=> x[2] = y[2]}
Named(t, from, found) == Changed(t, from) \ {pair[1] : pair \in found}

\* Mutant: the names are not held against the scope.
AcceptableAnywhere(names, new, scope) ==
    names # {} /\ new \cap SourcePaths # {}

\* _validate_changed_paths for what changed since the base and what is new
\* since the origin commit, and the two requirements on them.
Acceptable(names, new, scope) ==
    /\ names \subseteq scope /\ new \subseteq scope
    /\ names # {}
    /\ new \cap SourcePaths # {}

CheckNames ==
    /\ At("finalize", "names")
    /\ LET origin == Origin(manifest[Me].parent) IN
       \E found \in Renames(call.index, Base), since \in Renames(call.index, origin) :
          IF Acceptable(Named(call.index, Base, found),
                        Named(call.index, origin, since), call.scope)
          THEN Go("diff") ELSE Return("policy")
    /\ UNCHANGED <<files, disturbed>>

-----------------------------------------------------------------------------
(* finalize: the patch and the archive.                                    *)

\* os.scandir lists the files before _select opens the first of them.
Listing == {f \in SourcePaths : tree[Me][f] # Absent}
Read(so_far, f) == [g \in DOMAIN so_far \cup {f} |->
                       IF g = f THEN tree[Me][f] ELSE so_far[g]]

\* git diff --cached --binary --no-renames; then fingerprint lists the files,
\* and there must be one.
Diff ==
    /\ At("finalize", "diff")
    /\ IF call.index = Base THEN Return("policy")
       ELSE IF Listing = {} THEN Return("raised")
       ELSE call' = [call EXCEPT !.patch = call.index, !.step = "before",
                                 !.todo = Listing]
    /\ UNCHANGED <<files, disturbed>>

\* One file of a pass that goes on: it was listed and must still be there.
\* A pass takes the files in one fixed order.
Opened(pass, f) ==
    /\ At("finalize", pass)
    /\ f = CHOOSE g \in call.todo : TRUE
    /\ UNCHANGED <<files, disturbed>>
Last(f) == call.todo = {f}

\* Mutant: a file that vanished is read as nothing.
GoneUnnoticed(f) == FALSE
Gone(f) == tree[Me][f] = Absent

Before(f) ==
    /\ Opened("before", f)
    /\ IF Gone(f) \/ (Last(f) /\ Listing = {}) THEN Return("raised")
       ELSE call' = [call EXCEPT
                !.before = Read(@, f),
                !.todo = IF Last(f) THEN Listing ELSE @ \ {f},
                !.step = IF Last(f) THEN "select" ELSE @]

\* The pass of build also keeps inode, size and modification time.
Select(f) ==
    /\ Opened("select", f)
    /\ IF Gone(f) THEN Return("raised")
       ELSE call' = [call EXCEPT
                !.chosen = Read(@, f),
                !.todo = IF Last(f) THEN DOMAIN Read(call.chosen, f) ELSE @ \ {f},
                !.step = IF Last(f) THEN "pack" ELSE @]

\* _serialize_selected refuses a file that was written since it was selected.
SameFile(f) == f \notin call.stale

Pack(f) ==
    /\ Opened("pack", f)
    /\ IF Gone(f) \/ ~SameFile(f) \/ (Last(f) /\ Listing = {}) THEN Return("raised")
       ELSE call' = [call EXCEPT
                !.packed = Read(@, f),
                !.todo = IF Last(f) THEN Listing ELSE @ \ {f},
                !.step = IF Last(f) THEN "after" ELSE @]

After(f) ==
    /\ Opened("after", f)
    /\ IF Gone(f) THEN Return("raised")
       ELSE call' = [call EXCEPT
                !.after = Read(@, f), !.todo = @ \ {f},
                !.step = IF Last(f) THEN "compare" ELSE @]

\* Mutant: only the two fingerprints are compared.
CompareEnds ==
    /\ At("finalize", "compare")
    /\ IF call.before = call.after THEN Go("patch") ELSE Return("raised")
    /\ UNCHANGED <<files, disturbed>>

\* _assert_fingerprint_matches
Compare ==
    /\ At("finalize", "compare")
    /\ IF call.before = call.after /\ call.before = call.chosen
       THEN Go("patch") ELSE Return("raised")
    /\ UNCHANGED <<files, disturbed>>

-----------------------------------------------------------------------------
(* finalize: the artifacts, the commit, the manifest.                      *)

ReplacePatch ==
    /\ At("finalize", "patch")
    /\ patch' = [patch EXCEPT ![Me] = call.patch]
    /\ Go("zip")
    /\ UNCHANGED <<tree, manifest, zip, disturbed>>

ReplaceZip ==
    /\ At("finalize", "zip")
    /\ zip' = [zip EXCEPT ![Me] = call.packed]
    /\ Go("finish")
    /\ UNCHANGED <<tree, manifest, patch, disturbed>>

\* git write-tree and commit-tree take the index as it is now; the manifest
\* has the hashes of the patch, of the archive and of the entries it was built
\* from.
Finish ==
    /\ At("finalize", "finish")
    /\ manifest' = [manifest EXCEPT ![Me] =
           [@ EXCEPT !.final = TRUE, !.patch = call.patch, !.zip = call.packed,
                     !.entries = call.chosen, !.commit = call.index,
                     !.calm = call.calm]]
    /\ Return("ok")
    /\ UNCHANGED <<tree, patch, zip, disturbed>>

-----------------------------------------------------------------------------
(* The agent and crashes.                                                  *)

Running(c) == /\ call.op = "finalize" /\ Me = c
              /\ call.step \notin {"open", "stage", "finish", "done"}
Disturb == /\ disturbed < MaxDisturbed
           /\ disturbed' = disturbed + 1

\* Not seen by any later step: an edit before the first fingerprint has read
\* the file, when the file is in the index already.
Unseen(f) == \/ call.step \in {"names", "diff"}
             \/ call.step = "before" /\ f \in call.todo

\* Nobody reads the worktree of a finalized candidate any more, and an edit of
\* a worktree no call is running on can as well come before the call.
Edit(c, f, v) ==
    /\ tree[c] # None /\ ~Finalized(c)
    /\ Running(c) \/ call.step = "idle"
    /\ v \in Writable[c][f] /\ tree[c][f] # v
    /\ tree' = [tree EXCEPT ![c][f] = v]
    /\ IF Running(c)
       THEN /\ Disturb
            /\ call' = [call EXCEPT
                   !.stale = IF f \in DOMAIN call.chosen THEN @ \cup {f} ELSE @,
                   !.calm = @ /\ ~Unseen(f)]
       ELSE UNCHANGED <<call, disturbed>>
    /\ UNCHANGED <<manifest, patch, zip>>

\* The agent stages its worktree while finalize uses the index.
Restage ==
    /\ call.op = "finalize" /\ Me # None
    /\ Running(Me) \/ call.step = "finish"
    /\ call.index # Staged(tree[Me])
    /\ Disturb
    /\ call' = [call EXCEPT !.index = Staged(tree[Me]), !.calm = FALSE]
    /\ UNCHANGED files

CrashCall ==
    /\ Disturb
    /\ call' = NoCall
    /\ UNCHANGED files

\* What comes between and leaves these files alone.
Elsewhere == Disturb /\ UNCHANGED <<files, call>>

Leave == call' = NoCall

WorkspaceStep ==
    \/ CheckPrepare \/ AddWorktree \/ WriteManifest
    \/ Open \/ Stage \/ CheckNames \/ Diff
    \/ \E f \in SourcePaths : Before(f) \/ Select(f) \/ Pack(f) \/ After(f)
    \/ Compare \/ ReplacePatch \/ ReplaceZip \/ Finish

AgentActs ==
    \/ \E c \in Candidates, f \in Paths, v \in Contents \cup {Absent} : Edit(c, f, v)
    \/ Restage

WorkNext ==
    \/ /\ call.step = "idle"
       /\ \/ \E c \in Candidates, parent \in Candidates \cup {None} :
                EnterPrepare(c, parent)
          \/ \E c \in Candidates, scope \in SUBSET Paths : EnterFinalize(c, scope)
       /\ UNCHANGED <<files, disturbed>>
    \/ call.step = "done" /\ Leave /\ UNCHANGED <<files, disturbed>>
    \/ WorkspaceStep \/ AgentActs \/ CrashCall \/ Elsewhere

WorkSpec == WorkInit /\ [][WorkNext]_cvars

-----------------------------------------------------------------------------
(* Properties.                                                             *)

Steps == {"idle", "check", "worktree", "manifest", "open", "stage", "names",
          "diff", "before", "select", "pack", "after", "compare", "patch",
          "zip", "finish", "done"}
Calls ==
    [op : {"none", "prepare", "finalize"}, cand : Candidates \cup {None},
     parent : Candidates \cup {None}, scope : SUBSET Paths, step : Steps,
     status : {"none", "ok", "raised", "policy"}, index : Trees, patch : Trees,
     before : Reading, chosen : Reading, packed : Reading, after : Reading,
     todo : SUBSET SourcePaths, stale : SUBSET SourcePaths, calm : BOOLEAN]
Manifests ==
    [parent : Candidates \cup {None}, final : BOOLEAN, patch : Trees,
     zip : Reading, entries : Reading, commit : Trees, calm : BOOLEAN]

WorkTypeOK ==
    /\ tree \in [Candidates -> Trees \cup {None}]
    /\ manifest \in [Candidates -> Manifests \cup {None}]
    /\ patch \in [Candidates -> Trees \cup {None}]
    /\ zip \in [Candidates -> Reading \cup {None}]
    /\ call \in Calls
    /\ disturbed \in 0..MaxDisturbed

\* A finalized manifest tells the truth about the two artifacts beside it,
\* whatever crashed between the replacements of the three files: the patch and
\* the ZIP are the ones it has the hashes of, and the ZIP holds exactly the
\* entries of its tree hash.
ArtifactsMatchManifest ==
    \A c \in Candidates : Finalized(c) =>
        /\ patch[c] = manifest[c].patch
        /\ zip[c] = manifest[c].zip
        /\ manifest[c].entries = manifest[c].zip

\* What is evaluated is what is merged: unless the agent edited the worktree
\* between `git add' and the first fingerprint, or staged it again, the
\* source ZIP, the patch and the commit have the same source files, except
\* for those git ignores.
EvaluatedIsMerged ==
    \A c \in Candidates : Finalized(c) /\ manifest[c].calm =>
        LET mine == manifest[c] IN
        /\ mine.commit = mine.patch
        /\ \A f \in SourcePaths \ Ignored :
               mine.patch[f] = IF f \in DOMAIN mine.zip THEN mine.zip[f] ELSE Absent

\* What the check of names leaves of "inside allowed editable paths": outside
\* of its scope a finalized candidate creates and rewrites nothing.  It can
\* still delete a file there, but only against a similar file which it adds
\* inside, one for each.
DeletesAtMost(scope) ==
    \A c \in Candidates : Finalized(c) /\ manifest[c].calm =>
        LET mine == manifest[c].patch IN
        \E found \in Renames(mine, Base) :
            \A f \in Changed(mine, Base) \ scope :
                \E g \in scope : <<f, g>> \in found
=============================================================================
