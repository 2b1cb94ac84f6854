------------------------------ MODULE StateFile ------------------------------
(***************************************************************************)
(* The job's state file, JobStateStore of poc/state.py: one JSON document  *)
(* with a generation, replaced as a whole by os.replace.  No lock is held: *)
(* a process loads the file, changes its copy, loads the file again to     *)
(* compare the generations, and then replaces it, and each of those is a   *)
(* step between which another process can take its own.                    *)
(*                                                                         *)
(* The document is a function from parts to values; the part "identity" is *)
(* the job's identity, and every with_... function of JobState changes one *)
(* part.                                                                   *)
(***************************************************************************)
EXTENDS Naturals

CONSTANTS Procs,       \* the processes that use the file
          Keys,        \* the parts of the document
          Values,      \* what a part can be
          Empty,       \* a part that has not been set
          Identities   \* the identities of jobs, [job |-> ..., digests |-> ...]

ASSUME KeysAssumption == "identity" \in Keys
ASSUME ValuesAssumption == Empty \in Values /\ Identities \subseteq Values

VARIABLES
    file,      \* the file; generation 0: there is none
    op,        \* per process: its call of the store, with what it has loaded
    raced,     \* ghost: the file was written while another process was past
               \* its comparison
    register   \* ghost: the state when the updates so far are done in order

fvars == <<file, op, raced, register>>

Blank == [k \in Keys |-> Empty]
NoFile == [gen |-> 0, body |-> Blank]
FileStates == [gen : Nat, body : [Keys -> Values]]

\* _identities_compatible: the same job, and no two different digests.
NoDigests(a) == a.digests = Empty
Compatible(a, b) == a = b \/ (a.job = b.job /\ (NoDigests(a) \/ NoDigests(b)))

Idle == [at |-> "idle", key |-> "identity", value |-> Empty, seen |-> NoFile]
Ops == [at : {"idle", "loaded", "compared", "absent", "done", "failed"},
        key : Keys, value : Values, seen : FileStates]

FileInit ==
    /\ file = NoFile
    /\ op = [p \in Procs |-> Idle]
    /\ raced = FALSE
    /\ register = Blank

Reach(p, at) == op' = [op EXCEPT ![p].at = at]

\* Another process has seen that there is no file, or that the file is still
\* the one it loaded, and is about to write.
Overtakes(p) == \E q \in Procs \ {p} : op[q].at \in {"absent", "compared"}
Quiet == UNCHANGED <<file, raced, register>>

\* initialize: a missing file is created, an existing one must be of the same
\* job, and one without digests is given those of the caller.
Initialize(p, id) ==
    /\ op[p].at = "idle"
    /\ op' = [op EXCEPT ![p] =
           [at    |-> IF file.gen = 0 THEN "absent"
                      ELSE IF ~Compatible(file.body["identity"], id) THEN "failed"
                      ELSE IF file.body["identity"] # id
                              /\ NoDigests(file.body["identity"])
                      THEN "loaded" ELSE "done",
            key |-> "identity", value |-> id, seen |-> file]]
    /\ Quiet

\* _write_new, after initialize found no file.  When another process has made
\* one since, it is overwritten.
Create(p) ==
    /\ op[p].at = "absent"
    /\ file' = [gen |-> 1, body |-> [Blank EXCEPT !["identity"] = op[p].value]]
    /\ register' = [register EXCEPT !["identity"] = op[p].value]
    /\ raced' = (raced \/ Overtakes(p))
    /\ Reach(p, "done")

\* update: load and mutate.  An update that changes nothing writes nothing.
Update(p, k, v) ==
    /\ op[p].at = "idle"
    /\ op' = [op EXCEPT ![p] =
           [at   |-> IF file.gen = 0 THEN "failed"
                     ELSE IF file.body[k] = v THEN "done" ELSE "loaded",
            key |-> k, value |-> v, seen |-> file]]
    /\ Quiet

\* The copy with the update in it.
NewBody(p) == [op[p].seen.body EXCEPT ![op[p].key] = op[p].value]

\* Mutant: save trusts the copy it was given.
CompareNothing(p) ==
    /\ op[p].at = "loaded"
    /\ Reach(p, "compared")
    /\ Quiet

\* save: load again, compare the generations and then the identities; a file
\* that already is the changed copy is left alone.
CompareGenerations(p) ==
    /\ op[p].at = "loaded"
    /\ Reach(p, IF \/ file.gen # op[p].seen.gen
                   \/ ~Compatible(NewBody(p)["identity"], file.body["identity"])
                THEN "failed"
                ELSE IF NewBody(p) = file.body THEN "done" ELSE "compared")
    /\ Quiet

\* _write_existing: the changed copy, with the next generation.
Replace(p) ==
    /\ op[p].at = "compared"
    /\ file' = [gen |-> op[p].seen.gen + 1, body |-> NewBody(p)]
    /\ register' = [register EXCEPT ![op[p].key] = op[p].value]
    /\ raced' = (raced \/ Overtakes(p))
    /\ Reach(p, "done")

\* The caller goes on after its call, or dies in it.
ReturnOp(p) ==
    /\ op[p].at \in {"done", "failed"}
    /\ op' = [op EXCEPT ![p] = Idle]
    /\ Quiet

Die(p) ==
    /\ op' = [op EXCEPT ![p] = Idle]
    /\ Quiet

FileStep(p) == Create(p) \/ CompareGenerations(p) \/ Replace(p)

FileNext ==
    \E p \in Procs :
        \/ \E id \in Identities : Initialize(p, id)
        \/ \E k \in Keys \ {"identity"}, v \in Values : Update(p, k, v)
        \/ FileStep(p) \/ ReturnOp(p) \/ Die(p)

FileSpec == FileInit /\ [][FileNext]_fvars

-----------------------------------------------------------------------------
(* Properties.                                                             *)

FileTypeOK ==
    /\ file \in FileStates
    /\ op \in [Procs -> Ops]
    /\ raced \in BOOLEAN
    /\ register \in [Keys -> Values]

\* "Atomic compare-and-swap": as long as no process writes the file between
\* the comparison and the replacement of another one, every update that was
\* carried out is in the file, and no older one undoes a newer.
UpdatesSurvive == ~raced => file.body = register
=============================================================================
