---------------------------- MODULE MCDeployment ----------------------------
(* Deployment of sources with one ZIP and two sets of fingerprints (a       *)
(* changed profile).                                                        *)
EXTENDS Deployment

MCContents == {[zip |-> 1, prints |-> 1], [zip |-> 1, prints |-> 2]}
=============================================================================
