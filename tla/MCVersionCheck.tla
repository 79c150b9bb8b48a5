---------------------------- MODULE MCVersionCheck ----------------------------
(***************************************************************************)
(* Instances of VersionCheck for TLC.                                      *)
(***************************************************************************)
EXTENDS VersionCheck, TLC

Symmetry == Permutations(Conns) \cup Permutations(Images)
=============================================================================
