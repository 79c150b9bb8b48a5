----------------------------- MODULE VersionCheck -----------------------------
(***************************************************************************)
(* The version check of version_check.c, a TCP client whose callbacks lwIP *)
(* runs from the program's wait loops, and the part of Firmware_Update     *)
(* that uses it: wait, ask, "up to date", or "return / retry".             *)
(*                                                                         *)
(* Abstractions.                                                           *)
(*  - The version, length and CRC of a response are one image; a response  *)
(*    that arrives in pieces is one step, its last piece.                  *)
(*  - lwIP and the version server are external.  tcp_connect reports a     *)
(*    refusal only through the error callback, which the code registers    *)
(*    once connected: a refused or timed-out attempt is silent.            *)
(*  - What follows the answer y is module OtaReceive; here the program     *)
(*    polls lwIP at "updating" until the update is over.                   *)
(***************************************************************************)
EXTENDS Integers

CONSTANTS
    Images,   \* versions a server can announce
    Conns,    \* connections: a bound on those the program opens
    None,     \* no image, no connection
    LateErr   \* whether a connection the program closed can be reset

ASSUME VersionAssumption ==
    /\ None \notin Images \cup Conns
    /\ LateErr \in BOOLEAN

VARIABLES
    v_pcb, v_done, v_ok, v_connected,  \* as in version_check.c
    v_info,       \* v_version, v_length and v_crc
    crc,          \* Firmware_Update's copy of v_crc
    pc,           \* where the program polls lwIP
    conn,         \* conn[c]: what lwIP knows of connection c
    published,    \* what the server announces: an image, or no update
    answer        \* history: the last response of the server

checkVars == <<v_pcb, v_done, v_ok, v_connected, v_info>>
vars == <<v_pcb, v_done, v_ok, v_connected, v_info, crc, pc, conn, published, answer>>

TypeOK ==
    /\ v_pcb \in Conns \cup {None}
    /\ v_done \in BOOLEAN /\ v_ok \in BOOLEAN /\ v_connected \in BOOLEAN
    /\ v_info \in Images \cup {None} /\ crc \in Images \cup {None}
    /\ pc \in {"menu", "wait", "ask", "uptodate", "failed", "updating"}
    /\ conn \in [Conns -> {"unused", "syn", "open", "closewait", "finwait", "refused", "gone"}]
    /\ published \in Images \cup {None}
    /\ answer \in Images \cup {"none", "no update"}

-----------------------------------------------------------------------------
(* lwIP and the server                                                     *)

Becomes(c, phase) == conn' = [conn EXCEPT ![c] = phase]

Publish ==
    /\ published' \in Images \cup {None}
    /\ UNCHANGED <<checkVars, crc, pc, conn, answer>>

\* v_connect_cb: the callbacks are registered, the request is sent.
Connect(c) ==
    /\ conn[c] = "syn" /\ Becomes(c, "open")
    /\ UNCHANGED <<checkVars, crc, pc, published, answer>>

\* Refused or timed out: no callback is registered yet.
Refuse(c) ==
    /\ conn[c] = "syn" /\ Becomes(c, "refused")
    /\ UNCHANGED <<checkVars, crc, pc, published, answer>>

\* v_recv_cb, the response is complete: parse it and close.
Respond(c) ==
    /\ conn[c] = "open" /\ Becomes(c, "finwait")
    /\ v_connected' = TRUE /\ v_done' = TRUE /\ v_pcb' = None
    /\ IF published = None
       THEN v_ok' = FALSE /\ UNCHANGED v_info /\ answer' = "no update"
       ELSE v_ok' = TRUE /\ v_info' = published /\ answer' = published
    /\ UNCHANGED <<crc, pc, published>>

\* v_recv_cb without data: the server closes, before or after its response.
\* The program does not close its side.
Fin(c) ==
    /\ \/ conn[c] = "open" /\ Becomes(c, "closewait")
       \/ conn[c] = "finwait" /\ Becomes(c, "gone")
    /\ v_done' = TRUE
    /\ UNCHANGED <<v_pcb, v_ok, v_connected, v_info, crc, pc, published, answer>>

\* Mutant: the error callback does not forget the pcb.
MutErr(c) ==
    /\ conn[c] \in {"open", "closewait"} \/ (LateErr /\ conn[c] = "finwait")
    /\ Becomes(c, "gone")
    /\ v_done' = TRUE /\ v_ok' = FALSE
    /\ UNCHANGED <<v_pcb, v_connected, v_info, crc, pc, published, answer>>

\* v_err_cb.
Err(c) ==
    /\ conn[c] \in {"open", "closewait"} \/ (LateErr /\ conn[c] = "finwait")
    /\ Becomes(c, "gone")
    /\ v_pcb' = None /\ v_done' = TRUE /\ v_ok' = FALSE
    /\ UNCHANGED <<v_connected, v_info, crc, pc, published, answer>>

Network ==
    \/ Publish
    \/ \E c \in Conns : Connect(c) \/ Refuse(c) \/ Respond(c) \/ Fin(c) \/ Err(c)

-----------------------------------------------------------------------------
(* Version_Check_Start and Firmware_Update                                 *)

\* Mutant: a check that is running is not noticed.
MutRunning == FALSE

\* A check is running, or what the program takes for one.
Running == v_pcb # None

\* Mutant: v_connected is not cleared when a check starts.
MutVersion_Check_Start ==
    \/ Running /\ UNCHANGED <<checkVars, conn>>
    \/ /\ ~Running
       /\ v_ok' = FALSE /\ UNCHANGED <<v_connected, v_info>>
       /\ \/ \E c \in Conns :
               /\ conn[c] = "unused" /\ Becomes(c, "syn")
               /\ v_pcb' = c /\ v_done' = FALSE
          \/ v_pcb' = None /\ v_done' = TRUE /\ UNCHANGED conn

\* Version_Check_Start: nothing while a check runs; otherwise the results are
\* cleared and a connection is opened, unless lwIP has no memory for it.
Version_Check_Start ==
    \/ Running /\ UNCHANGED <<checkVars, conn>>
    \/ /\ ~Running
       /\ v_ok' = FALSE /\ v_connected' = FALSE /\ UNCHANGED v_info
       /\ \/ \E c \in Conns :
               /\ conn[c] = "unused" /\ Becomes(c, "syn")
               /\ v_pcb' = c /\ v_done' = FALSE
          \/ v_pcb' = None /\ v_done' = TRUE /\ UNCHANGED conn

KeyUpdate ==
    /\ pc = "menu" /\ pc' = "wait"
    /\ Version_Check_Start /\ UNCHANGED <<crc, published, answer>>

\* Mutant: a failed check goes to a place nobody serves.
MutWaitEnds ==
    /\ pc = "wait"
    /\ IF v_ok THEN pc' = "ask" /\ crc' = v_info
       ELSE pc' = (IF v_connected THEN "uptodate" ELSE "retry") /\ UNCHANGED crc
    /\ UNCHANGED <<checkVars, conn, published, answer>>

\* The wait ends when the check is done or after six seconds.
WaitEnds ==
    /\ pc = "wait"
    /\ IF v_ok THEN pc' = "ask" /\ crc' = v_info
       ELSE pc' = (IF v_connected THEN "uptodate" ELSE "failed") /\ UNCHANGED crc
    /\ UNCHANGED <<checkVars, conn, published, answer>>

\* An answer of the operator, and the end of an update.
Goes(from, to) ==
    /\ pc \in from /\ pc' = to
    /\ UNCHANGED <<checkVars, crc, conn, published, answer>>

AnswerYes == Goes({"ask"}, "updating")
BackToMenu == Goes({"ask", "uptodate", "failed", "updating"}, "menu")

KeyRetry ==
    /\ pc = "failed" /\ pc' = "wait"
    /\ Version_Check_Start /\ UNCHANGED <<crc, published, answer>>

Firmware_Update == KeyUpdate \/ WaitEnds \/ AnswerYes \/ BackToMenu \/ KeyRetry

Init ==
    /\ v_pcb = None /\ v_done = FALSE /\ v_ok = FALSE /\ v_connected = FALSE
    /\ v_info = None /\ crc = None
    /\ pc = "menu" /\ conn = [c \in Conns |-> "unused"]
    /\ published \in Images \cup {None} /\ answer = "none"

Next == Network \/ Firmware_Update

Spec == Init /\ [][Next]_vars

-----------------------------------------------------------------------------
(* Properties                                                              *)

\* From the question to the end of the update, the version that will be
\* recorded (v_version, read again by OTA_Flash_Write) belongs to the CRC the
\* image is checked against, whatever the server publishes meanwhile.
OfferIsStable == pc \in {"ask", "updating"} => crc # None /\ v_info = crc

\* "Firmware is already up-to-date" is what the server answered ("Connected
\* but already up-to-date", menu.c 609).
UpToDateIsTrue == pc = "uptodate" => answer = "no update"

\* The check waits for a connection that ended where no callback clears v_pcb:
\* refused before v_connect_cb, or closed by the server without a response.
Forgotten == v_pcb # None /\ conn[v_pcb] \in {"refused", "closewait"}

\* A retry opens a connection, or waits for one that is still being tried
\* ("(2)Retry connection", menu.c 621), whatever ended the last one, unless
\* lwIP has no memory; the two endings of Forgotten are the exception.
RetryConnects ==
    [][pc = "failed" /\ pc' = "wait" /\ ~Forgotten =>
         v_pcb' = None \/ \E c \in Conns : conn'[c] \in {"syn", "open"}]_vars

=============================================================================
