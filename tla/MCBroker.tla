------------------------------ MODULE MCBroker ------------------------------
(* The baseline comment says one thing, the final comment one of two.       *)
EXTENDS Broker, TLC

MCBodies == [k \in Kinds |-> IF k = "final" THEN {1, 2} ELSE {1}]

\* Pull requests differ in nothing but their identity.
Symmetry == Permutations(PullRequests)
=============================================================================
