----------------------------- MODULE MCManager -----------------------------
(* Instances of Manager for TLC.                                           *)
EXTENDS Manager, MCHost, TLC

(* Sound for the safety runs: processes are alike, and an ID is only ever  *)
(* compared with another.                                                  *)
Symmetry == Permutations(Proc) \cup Permutations(Ids)
=============================================================================
