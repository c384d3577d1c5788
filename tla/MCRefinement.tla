---------------------------- MODULE MCRefinement ----------------------------
(* Instances of ManagerRefinement for TLC.                                 *)
EXTENDS ManagerRefinement, MCHost, TLC

(* Sound: contract and manager treat processes and IDs alike.              *)
Symmetry == Permutations(Proc) \cup Permutations(Ids)
=============================================================================
