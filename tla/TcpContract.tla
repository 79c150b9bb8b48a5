----------------------------- MODULE TcpContract -----------------------------
(***************************************************************************)
(* What lwIP promises the callbacks of ota.c and version_check.c about one *)
(* connection, whichever of its timers, segments or shortages ends it.     *)
(* OtaReceive and VersionCheck assume this; TcpPcb implements it.          *)
(***************************************************************************)
CONSTANT Pcbs

VARIABLES
    phase,   \* phase[p]: what the application may expect of connection p
    call     \* call[p]: the callbacks of p made in the last step

Idle == {"idle", "syn"}   \* a slot that is free may be taken again at once

Init == phase = [p \in Pcbs |-> "idle"] /\ call = [p \in Pcbs |-> {}]

\* An attempt to connect, which ends without a callback, or connected.
Attempt(a, b, c) ==
    \/ a \in Idle /\ b \in Idle /\ c = {}
    \/ a = "syn" /\ b = "open" /\ c = {"connected"}

\* A new client, with the data and the end of file that came along; the
\* application may refuse it.
Accepted(a, b, c) ==
    /\ a = "idle" /\ "accept" \in c /\ c \subseteq {"accept", "recv", "eof"}
    /\ \/ b = "idle" /\ c = {"accept"}
       \/ b = "open" /\ "eof" \notin c
       \/ b = "closing" /\ "eof" \in c

\* Data, then end of file; the application may close in either callback.
Delivered(a, b, c) ==
    /\ a = "open"
    /\ \/ c \in {{}, {"recv"}} /\ b = "open"
       \/ c = {"recv"} /\ b = "closing"
       \/ c = {"eof"} /\ b \in {"closewait", "closing"}
       \/ c = {"recv", "eof"} /\ b \in {"closewait", "closing", "idle"}

\* No data once the peer or the application has closed.
Closed(a, b, c) ==
    \/ a = "closewait" /\ b = "closewait" /\ c = {}
    \/ a = "closing" /\ b = "closing" /\ c \in {{}, {"eof"}}
    \/ a = "closing" /\ b \in Idle /\ c = {}

\* The error callback: once, and it is the last.
Failed(a, b, c) ==
    a \in {"open", "closewait", "closing"} /\ b \in Idle /\ c = {"err"}

\* One step of a connection, from phase a to phase b, with the callbacks c.
Step(a, b, c) ==
    \/ Attempt(a, b, c) \/ Accepted(a, b, c) \/ Delivered(a, b, c)
    \/ Closed(a, b, c) \/ Failed(a, b, c)

Phases == {"idle", "syn", "open", "closewait", "closing"}
Callbacks == {"connected", "accept", "recv", "eof", "err"}
Steps == {s \in Phases \X Phases \X SUBSET Callbacks : Step(s[1], s[2], s[3])}

Next ==
    /\ DOMAIN phase' = Pcbs /\ DOMAIN call' = Pcbs
    /\ \A p \in Pcbs : <<phase[p], phase'[p], call'[p]>> \in Steps

Spec == Init /\ [][Next]_<<phase, call>>

=============================================================================
