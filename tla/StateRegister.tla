---------------------------- MODULE StateRegister ----------------------------
(***************************************************************************)
(* What poc/state.py promises of the job's state file: "Atomic             *)
(* compare-and-swap JSON state".  The state is one value with named parts, *)
(* and every update changes one part of the value that is there.           *)
(***************************************************************************)
CONSTANTS Keys,     \* the parts of the state: identity, baseline, candidates
          Values,   \* what a part can be
          Empty     \* a part that has not been set

VARIABLE register

Init == register = [k \in Keys |-> Empty]

Put(k, v) == register' = [register EXCEPT ![k] = v]

Next == \E k \in Keys, v \in Values : Put(k, v)

Spec == Init /\ [][Next]_register
=============================================================================
