---------------------------- MODULE MCLastChange ----------------------------
(* Instances of LastChange for TLC.                                        *)
EXTENDS LastChange, MCHost, TLC

Symmetry == Permutations(Proc) \cup Permutations(Ids)
=============================================================================
