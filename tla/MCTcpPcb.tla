------------------------------- MODULE MCTcpPcb -------------------------------
(***************************************************************************)
(* Instances of TcpPcb for TLC.                                            *)
(***************************************************************************)
EXTENDS TcpPcb, TLC

Symmetry == Permutations(Pcbs)
===============================================================================
