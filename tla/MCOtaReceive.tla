----------------------------- MODULE MCOtaReceive -----------------------------
(***************************************************************************)
(* Instances of OtaReceive for TLC: a one-word image and one that starts   *)
(* with it and fills the buffer.                                           *)
(***************************************************************************)
EXTENDS OtaReceive, TLC

CONSTANTS a, b, w1, w2

MCContent == [v \in Images |-> IF v = a THEN <<w1>> ELSE <<w1, w2, w2, w1>>]
=============================================================================
