------------------------------ MODULE MCTimers -------------------------------
(* IP reassembly and ARP every second, TCP every 250 ms; the counter wraps *)
(* in the middle of a step, as it does on the board.                       *)
EXTENDS Timers

CONSTANTS reass, arp

MCCyclic == <<reass, arp>>
MCInterval == [t \in Timers |-> IF t = Tcp THEN 1 ELSE Second]
=============================================================================
