----------------------------- MODULE MCBootloader -----------------------------
(***************************************************************************)
(* Instances of Bootloader for TLC: two sectors, a one-sector and a        *)
(* two-sector image.                                                       *)
(***************************************************************************)
EXTENDS Bootloader, TLC

CONSTANTS short, long

MCUnits == (short :> 1) @@ (long :> 2)

=============================================================================
