----------------------------- MODULE ReleaseLog -----------------------------
(***************************************************************************)
(* What a registered deployment promises (docs/decisions/0010): each       *)
(* commit of the default branch is released as one regular version at      *)
(* most, only after its gate let it pass, and never after a later commit,  *)
(* so that the highest version is the newest release.                      *)
(***************************************************************************)
EXTENDS Integers

CONSTANTS
    Commits,        \* commits of the default branch, in its order
    Versions        \* version numbers, in the order Foundry gives them

VARIABLES
    verified,       \* commits the gate let pass
    released        \* pairs of a commit and the version that releases it

vars == <<verified, released>>

Init ==
    /\ verified = {}
    /\ released = {}

Verify(c) ==
    /\ verified' = verified \cup {c}
    /\ UNCHANGED released

Release(c, v) ==
    /\ c \in verified
    /\ \A r \in released : r.commit < c /\ r.version < v
    /\ released' = released \cup {[commit |-> c, version |-> v]}
    /\ UNCHANGED verified

Next ==
    \/ \E c \in Commits : Verify(c)
    \/ \E c \in Commits, v \in Versions : Release(c, v)

Spec == Init /\ [][Next]_vars
=============================================================================
