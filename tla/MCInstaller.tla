----------------------------- MODULE MCInstaller -----------------------------
(* Instances of Installer for TLC.                                         *)
EXTENDS Installer, TLC

Symmetry == Permutations(Proc)
=============================================================================
