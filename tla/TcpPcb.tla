------------------------------- MODULE TcpPcb -------------------------------
(***************************************************************************)
(* lwIP's TCP control blocks (tcp.c, tcp_in.c, timeouts.c) under the two   *)
(* applications of the bootloader: the firmware server of ota.c and the    *)
(* client of version_check.c.  One action per segment that arrives, call   *)
(* of the program and run of the TCP timer.                                *)
(*                                                                         *)
(* Abstractions.                                                           *)
(*  - Sequence numbers, windows and payloads are left out: a segment that  *)
(*    is accepted acknowledges all, some or nothing of what is outstanding *)
(*    and carries data, a FIN, both or neither.  The peer's window is open.*)
(*  - tmr is an age in slow ticks, up to MaxAge; a tick retransmits the    *)
(*    segments of any set of connections (the RTO is left out).            *)
(*  - Memory for a segment (MEMP_TCP_SEG, mem.c) may be there or not.      *)
(*  - All connections have TCP_PRIO_NORMAL, as in the program.             *)
(***************************************************************************)
EXTENDS Integers, FiniteSets

CONSTANTS
    Pcbs,        \* the pool MEMP_TCP_PCB
    None,        \* NULL
    SynMaxRtx, MaxRtx,    \* TCP_SYNMAXRTX, TCP_MAXRTX
    FinWait, TwoMsl       \* TCP_FIN_WAIT_TIMEOUT (and SYN_RCVD), 2 * TCP_MSL

ASSUME TcpAssumption ==
    /\ Pcbs # {} /\ None \notin Pcbs /\ IsFiniteSet(Pcbs)
    /\ SynMaxRtx \in Nat /\ MaxRtx \in Nat /\ SynMaxRtx <= MaxRtx
    /\ FinWait \in Nat /\ TwoMsl \in Nat /\ FinWait <= TwoMsl

VARIABLES
    pcb,             \* pcb[p]: the control block p
    listening,       \* ota_server_pcb # NULL
    ota_client_pcb, v_pcb,   \* the applications' handles
    timer,           \* tcpip_tcp_timer_active
    quiet,           \* the peers have fallen silent (a cable, a power cut)
    call             \* callbacks made in the last step

vars == <<pcb, listening, ota_client_pcb, v_pcb, timer, quiet, call>>

MaxAge == TwoMsl
States == {"FREE", "SYN_SENT", "SYN_RCVD", "ESTABLISHED", "FIN_WAIT_1", "FIN_WAIT_2",
           "CLOSE_WAIT", "CLOSING", "LAST_ACK", "TIME_WAIT"}

\* cb: whose callbacks are registered; rxclosed: TF_RXCLOSED, the application
\* closed it; una: something is outstanding; rtx: nrtx.
Record == [st : States, cb : {"none", "listener", "ota", "ver"}, rxclosed : BOOLEAN,
           una : BOOLEAN, rtx : 0..MaxRtx, age : 0..MaxAge]

TypeOK ==
    /\ pcb \in [Pcbs -> Record]
    /\ listening \in BOOLEAN /\ timer \in BOOLEAN /\ quiet \in BOOLEAN
    /\ ota_client_pcb \in Pcbs \cup {None} /\ v_pcb \in Pcbs \cup {None}
    /\ call \in [Pcbs -> SUBSET {"connected", "accept", "recv", "eof", "err"}]

Block(st, cb, rxclosed, una, rtx, age) ==
    [st |-> st, cb |-> cb, rxclosed |-> rxclosed, una |-> una, rtx |-> rtx, age |-> age]
Free == Block("FREE", "none", FALSE, FALSE, 0, 0)

Is(p, S) == pcb[p].st \in S
Frees == {p \in Pcbs : Is(p, {"FREE"})}
tcp_tw_pcbs == {p \in Pcbs : Is(p, {"TIME_WAIT"})}
tcp_active_pcbs == Pcbs \ (Frees \cup tcp_tw_pcbs)

-----------------------------------------------------------------------------
(* Pieces of the calls                                                     *)

\* tcp_err has registered an error callback.
HasErrf(p) == pcb[p].cb \in {"ota", "ver"}

\* Mutant: ota_err_cb keeps the handle.
MutForgets(S) ==
    /\ ota_client_pcb' = ota_client_pcb
    /\ v_pcb' = IF \E p \in S : pcb[p].cb = "ver" THEN None ELSE v_pcb

\* The error callbacks of the connections in S: ota_err_cb and v_err_cb clear
\* the application's handle, whichever connection it is.
Forgets(S) ==
    /\ ota_client_pcb' = IF \E p \in S : pcb[p].cb = "ota" THEN None ELSE ota_client_pcb
    /\ v_pcb' = IF \E p \in S : pcb[p].cb = "ver" THEN None ELSE v_pcb
Calls(f) == call' = [p \in Pcbs |-> IF p \in DOMAIN f THEN f[p] ELSE {}]
Errs(S) == Calls([p \in {q \in S : HasErrf(q)} |-> {"err"}])

\* tcp_close of a connection the application has read to the end: a FIN, or
\* TF_CLOSEPEND (the state stays, RXCLOSED is set) when there is no memory.
Finned(r, mem) ==
    IF mem
    THEN Block(IF r.st = "ESTABLISHED" THEN "FIN_WAIT_1" ELSE "LAST_ACK",
               r.cb, TRUE, TRUE, r.rtx, r.age)
    ELSE Block(r.st, r.cb, TRUE, r.una, r.rtx, r.age)

\* TCP_REG: tcp_timer_needed starts the timer.
TCP_REG == timer' = TRUE

\* The oldest of a set of connections.
Oldest(S) == {p \in S : \A q \in S : pcb[q].age <= pcb[p].age}

\* Mutant: only connections of a lower priority are killed.
TCP_PRIO_NORMAL == 64
MutKillable == {p \in tcp_active_pcbs : TCP_PRIO_NORMAL < TCP_PRIO_NORMAL}

\* tcp_kill_prio: the active connections tcp_alloc may abort.
Killable == {p \in tcp_active_pcbs : TCP_PRIO_NORMAL <= TCP_PRIO_NORMAL}

\* tcp_alloc: the slots it may return; one that is taken is killed first.
Slots ==
    LET In(st) == {p \in Pcbs : Is(p, {st})}
    IN CASE Frees # {} -> Frees
         [] Frees = {} /\ tcp_tw_pcbs # {} -> Oldest(tcp_tw_pcbs)
         [] Frees = {} /\ tcp_tw_pcbs = {} /\ In("LAST_ACK") # {} -> Oldest(In("LAST_ACK"))
         [] Frees = {} /\ tcp_tw_pcbs = {} /\ In("LAST_ACK") = {} /\ In("CLOSING") # {} ->
                Oldest(In("CLOSING"))
         [] OTHER -> Oldest(Killable)

\* tcp_abandon of p: the error callback, unless the connection is in TIME_WAIT.
Abandoned(p) == IF Is(p, {"TIME_WAIT"}) THEN {} ELSE {p}

-----------------------------------------------------------------------------
(* The program                                                             *)

\* Version_Check_Start: tcp_new, tcp_connect; without memory for the SYN the
\* block is closed again.
Version_Check_Start ==
    /\ v_pcb = None /\ Slots # {}
    /\ \E p \in Slots :
          /\ Errs(Abandoned(p))
          /\ ota_client_pcb' = IF p \in Abandoned(p) /\ pcb[p].cb = "ota" THEN None
                               ELSE ota_client_pcb
          /\ \/ /\ pcb' = [pcb EXCEPT ![p] = Block("SYN_SENT", "none", FALSE, TRUE, 0, 0)]
                /\ v_pcb' = p /\ TCP_REG
             \/ pcb' = [pcb EXCEPT ![p] = Free] /\ v_pcb' = None /\ UNCHANGED timer
    /\ UNCHANGED <<listening, quiet>>

\* The blocks once the listener is closed (tcp_listen_closed) and C aborted.
Stopped(C) ==
    [p \in Pcbs |-> IF p \in C THEN Free
                    ELSE IF pcb[p].cb # "listener" THEN pcb[p]
                    ELSE Block(pcb[p].st, "none", FALSE, pcb[p].una, pcb[p].rtx, pcb[p].age)]
Client == {ota_client_pcb} \ {None}

\* OTA_Server_Stop: abort the client, close the listener.
OTA_Server_Stop ==
    /\ listening
    /\ pcb' = Stopped(Client) /\ listening' = FALSE
    /\ Errs(Client) /\ Forgets(Client)
    /\ UNCHANGED <<timer, quiet>>

\* tcp_bind without SO_REUSE: any connection on the port refuses it, the ones
\* the application has already let go of included.
PortTaken(t) == \E p \in Pcbs : t[p].st = "SYN_RCVD" \/ t[p].cb = "ota"

\* OTA_Server_Start from the idle state: tcp_new (which may kill a
\* connection), tcp_bind, tcp_listen (which frees the block).  A start while
\* listening is OTA_Server_Stop and then this.
OTA_Server_Start ==
    /\ ~listening /\ Slots # {}
    /\ \E p \in Slots :
          LET t == [pcb EXCEPT ![p] = Free] IN
          /\ pcb' = t
          /\ Errs(Abandoned(p)) /\ Forgets(Abandoned(p))
          /\ listening' = ~PortTaken(t)
    /\ UNCHANGED <<timer, quiet>>

-----------------------------------------------------------------------------
(* Segments                                                                *)

\* tcp_listen_input: a SYN takes a block, from another connection if need be;
\* without memory for the SYN-ACK the block is dropped again.  (No action
\* calls ota_accept_cb with NULL: see AllocSucceeds.)
tcp_listen_input ==
    /\ ~quiet /\ listening
    /\ \E p \in Slots :
          /\ Errs(Abandoned(p)) /\ Forgets(Abandoned(p))
          /\ \/ /\ pcb' = [pcb EXCEPT ![p] = Block("SYN_RCVD", "listener", FALSE, TRUE, 0, 0)]
                /\ TCP_REG
             \/ pcb' = [pcb EXCEPT ![p] = Free] /\ TCP_REG
    /\ UNCHANGED <<listening, quiet>>

\* v_connect_cb registers the callbacks and sends the request, if it can.
SynAck(p) ==
    /\ ~quiet /\ Is(p, {"SYN_SENT"})
    /\ \E sent \in BOOLEAN :
          pcb' = [pcb EXCEPT ![p] = Block("ESTABLISHED", "ver", FALSE, sent, pcb[p].rtx, 0)]
    /\ Calls([q \in {p} |-> {"connected"}])
    /\ UNCHANGED <<listening, ota_client_pcb, v_pcb, timer, quiet>>

\* A handshake the application does not want: the listener is gone, or
\* ota_accept_cb is busy.  Both abort the block.
Rejected(p) ==
    /\ ~quiet /\ Is(p, {"SYN_RCVD"})
    /\ \/ pcb[p].cb = "none" /\ Calls(<<>>)
       \/ /\ pcb[p].cb = "listener" /\ ota_client_pcb # None
          /\ Calls([q \in {p} |-> {"accept"}])
    /\ pcb' = [pcb EXCEPT ![p] = Free]
    /\ UNCHANGED <<listening, ota_client_pcb, v_pcb, timer, quiet>>

\* tcp_receive: what the acknowledgement does to the block.
Acked(r, ack) ==
    Block(r.st, r.cb, r.rxclosed, r.una /\ ack # "all",
          IF r.una /\ ack # "none" THEN 0 ELSE r.rtx, IF r.rxclosed THEN r.age ELSE 0)

\* tcp_process: the state after the acknowledgement and the FIN.
Processed(r, fin) ==
    LET st == CASE r.st = "ESTABLISHED" /\ fin -> "CLOSE_WAIT"
                [] r.st = "FIN_WAIT_1" /\ fin -> (IF r.una THEN "CLOSING" ELSE "TIME_WAIT")
                [] r.st = "FIN_WAIT_1" /\ ~fin -> (IF r.una THEN "FIN_WAIT_1" ELSE "FIN_WAIT_2")
                [] r.st = "FIN_WAIT_2" /\ fin -> "TIME_WAIT"
                [] r.st = "CLOSING" /\ ~r.una -> "TIME_WAIT"
                [] r.st = "LAST_ACK" /\ ~r.una -> "FREE"
                [] OTHER -> r.st
    IN IF st = "FREE" THEN Free
       ELSE Block(st, r.cb, r.rxclosed, r.una, r.rtx, r.age)

\* What the callbacks of tcp_input leave of a block: ota_recv_cb closes at the
\* end of file, v_recv_cb after the response.  A close in v_recv_cb when the
\* FIN came with the data finds the window short of one byte: the block is
\* reset and freed.
Served(r, data, fin, close, mem) ==
    IF r.cb = "ota" /\ fin THEN Finned(r, mem)
    ELSE IF ~(r.cb = "ver" /\ data /\ close) THEN r
    ELSE IF fin THEN Free ELSE Finned(r, mem)

\* Mutant: TF_RXCLOSED is not tested.
MutLate(r, data) == FALSE

\* Data for a connection that the application has closed: tcp_abort.
Late(r, data) == data /\ r.rxclosed

\* tcp_input for a connection, from ota_accept_cb on.
tcp_input(p, ack, data, fin, close, mem) ==
    LET new  == Is(p, {"SYN_RCVD"})
        r    == IF new THEN Block("ESTABLISHED", "ota", FALSE, FALSE, 0, 0)
                ELSE Acked(pcb[p], ack)
        text == r.st \in {"ESTABLISHED", "FIN_WAIT_1", "FIN_WAIT_2"}
        q    == Processed(r, text /\ fin)
        late == Late(r, text /\ data)
        got  == (IF new THEN {"accept"} ELSE {}) \cup
                (IF text /\ data THEN {"recv"} ELSE {}) \cup (IF text /\ fin THEN {"eof"} ELSE {})
        end  == IF late THEN Free ELSE Served(q, text /\ data, text /\ fin, close, mem)
        closed == ~r.rxclosed /\ (end.rxclosed \/ end.st = "FREE")
    IN /\ pcb' = [pcb EXCEPT ![p] = end]
       /\ Calls([x \in {p} |-> IF ~late THEN got
                              ELSE IF q.st = "TIME_WAIT" THEN {} ELSE {"err"}])
       /\ ota_client_pcb' = IF r.cb = "ota" /\ {"eof", "err"} \cap call'[p] # {} THEN None
                            ELSE IF new THEN p ELSE ota_client_pcb
       /\ v_pcb' = IF r.cb = "ver" /\ (closed \/ "err" \in call'[p]) THEN None ELSE v_pcb
       /\ timer' = (timer \/ q.st = "TIME_WAIT")

Segment(p) ==
    /\ ~quiet
    /\ \/ p \in tcp_active_pcbs /\ ~Is(p, {"SYN_SENT", "SYN_RCVD"})
       \/ Is(p, {"SYN_RCVD"}) /\ pcb[p].cb = "listener" /\ ota_client_pcb = None
    /\ \E ack \in {"all", "some", "none"}, data, fin, close, mem \in BOOLEAN :
          /\ ack # "all" => pcb[p].una
          /\ close => data /\ pcb[p].cb = "ver" /\ ~pcb[p].rxclosed
          /\ mem => close \/ fin
          /\ tcp_input(p, ack, data, fin, close, mem)
    /\ UNCHANGED <<listening, quiet>>

\* An acceptable RST.
Reset(p) ==
    /\ ~quiet /\ p \in tcp_active_pcbs
    /\ pcb' = [pcb EXCEPT ![p] = Free]
    /\ Errs({p}) /\ Forgets({p})
    /\ UNCHANGED <<listening, timer, quiet>>

\* tcp_timewait_input: a FIN starts the wait again.
TimeWaitFin(p) ==
    /\ ~quiet /\ p \in tcp_tw_pcbs
    /\ pcb' = [pcb EXCEPT ![p] = Block("TIME_WAIT", pcb[p].cb, TRUE, FALSE, 0, 0)]
    /\ Calls(<<>>)
    /\ UNCHANGED <<listening, ota_client_pcb, v_pcb, timer, quiet>>

Silence == ~quiet /\ quiet' = TRUE /\ Calls(<<>>)
           /\ UNCHANGED <<pcb, listening, ota_client_pcb, v_pcb, timer>>

-----------------------------------------------------------------------------
(* The timer                                                               *)

ClosePending == {p \in Pcbs : Is(p, {"ESTABLISHED", "CLOSE_WAIT"}) /\ pcb[p].rxclosed}

\* Mutant: nothing ends a connection that waits for the peer's FIN.
MutExpired(r) ==
    \/ r.st = "SYN_SENT" /\ r.rtx >= SynMaxRtx
    \/ r.st # "TIME_WAIT" /\ r.rtx >= MaxRtx
    \/ r.st = "SYN_RCVD" /\ r.age + 1 > FinWait
    \/ r.st \in {"LAST_ACK", "TIME_WAIT"} /\ r.age + 1 > TwoMsl

\* Mutant: TCP_MAXRTX is not looked at.
MutOutlives(r) ==
    \/ r.st = "SYN_SENT" /\ r.rtx >= SynMaxRtx
    \/ r.st = "FIN_WAIT_2" /\ r.rxclosed /\ r.age + 1 > FinWait
    \/ r.st = "SYN_RCVD" /\ r.age + 1 > FinWait
    \/ r.st \in {"LAST_ACK", "TIME_WAIT"} /\ r.age + 1 > TwoMsl

\* tcp_slowtmr, in this tick: a block to be removed.
Expired(r) ==
    \/ r.st = "SYN_SENT" /\ r.rtx >= SynMaxRtx
    \/ r.st # "TIME_WAIT" /\ r.rtx >= MaxRtx
    \/ r.st = "FIN_WAIT_2" /\ r.rxclosed /\ r.age + 1 > FinWait
    \/ r.st = "SYN_RCVD" /\ r.age + 1 > FinWait
    \/ r.st \in {"LAST_ACK", "TIME_WAIT"} /\ r.age + 1 > TwoMsl

\* One block after a slow tick, in which it is retransmitted or not.
Ticked(r, again) ==
    IF r.st = "FREE" \/ Expired(r) THEN Free
    ELSE Block(r.st, r.cb, r.rxclosed, r.una, IF again THEN r.rtx + 1 ELSE r.rtx,
               IF r.age < MaxAge THEN r.age + 1 ELSE r.age)

\* Mutant: the timer stops while a block is in TIME_WAIT.
MutStillNeeded(t) == \E p \in Pcbs : t[p].st \notin {"FREE", "TIME_WAIT"}

\* tcpip_tcp_timer: the timer goes on while a list is not empty.
StillNeeded(t) == \E p \in Pcbs : t[p].st # "FREE"

\* tcpip_tcp_timer: tcp_fasttmr sends the pending FINs there is memory for (M);
\* every other time tcp_slowtmr follows, which retransmits for R and removes.
tcpip_tcp_timer(M, slow, R) ==
    LET fast == [p \in Pcbs |-> IF p \in M THEN Finned(pcb[p], TRUE) ELSE pcb[p]]
        t == IF slow THEN [p \in Pcbs |-> Ticked(fast[p], p \in R)] ELSE fast
        removed == {p \in tcp_active_pcbs : t[p].st = "FREE"}
    IN /\ timer
       /\ pcb' = t /\ timer' = StillNeeded(t)
       /\ Errs(removed) /\ Forgets(removed)
       /\ UNCHANGED <<listening, quiet>>

Outstanding == {p \in Pcbs : pcb[p].una}
Tick ==
    \E M \in SUBSET ClosePending :
       \/ tcpip_tcp_timer(M, FALSE, {})
       \/ \E R \in SUBSET Outstanding : tcpip_tcp_timer(M, TRUE, R)

\* The tick of a silent network in which nothing is held up: memory for every
\* FIN, every RTO over.
FullTick == quiet /\ tcpip_tcp_timer(ClosePending, TRUE, Outstanding)

Init ==
    /\ pcb = [p \in Pcbs |-> Free]
    /\ listening = FALSE /\ ota_client_pcb = None /\ v_pcb = None
    /\ timer = FALSE /\ quiet = FALSE
    /\ call = [p \in Pcbs |-> {}]

Next ==
    \/ Version_Check_Start \/ OTA_Server_Start \/ OTA_Server_Stop
    \/ tcp_listen_input \/ Tick \/ Silence
    \/ \E p \in Pcbs : SynAck(p) \/ Rejected(p) \/ Segment(p) \/ Reset(p) \/ TimeWaitFin(p)

\* The main loop runs the timer; a retransmission timeout is bounded and the
\* memory other connections hold comes back.
Spec == Init /\ [][Next]_vars /\ WF_vars(FullTick)

-----------------------------------------------------------------------------
(* Properties                                                              *)

\* tcp_alloc never fails: ota_accept_cb is not called with NULL, which it does
\* not expect, however many connections are open or closing (ota.c 159).
AllocSucceeds == Slots # {}

\* ota_client_pcb is an open connection of the server's, so OTA_Server_Stop
\* may abort it (ota.c 133): lwIP reports every end of an accepted connection
\* before the block is used again.
Held(r) == r.st = "ESTABLISHED" /\ r.cb = "ota" /\ ~r.rxclosed
HandleIsLive == ota_client_pcb # None => Held(pcb[ota_client_pcb])

\* While there is a block that only the timer can free, the timer runs.
TimerRuns == (\E p \in Pcbs : pcb[p].st # "FREE") => timer

Ending(p) == pcb[p].rxclosed \/ Is(p, {"SYN_RCVD", "SYN_SENT"})

\* A connection that was closed, or never came about, gives its block back
\* although its peer has fallen silent.
BlocksComeBack == \A p \in Pcbs : quiet /\ Ending(p) ~> ~Ending(p)

\* What the application may expect of a block.
Phase(r) ==
    CASE r.st \in {"FREE", "SYN_RCVD"} -> "idle"
      [] r.st = "SYN_SENT" -> "syn"
      [] r.rxclosed /\ r.st \notin {"FREE", "SYN_RCVD", "SYN_SENT"} -> "closing"
      [] ~r.rxclosed /\ r.st = "ESTABLISHED" -> "open"
      [] OTHER -> "closewait"
phase == [p \in Pcbs |-> Phase(pcb[p])]

Contract == INSTANCE TcpContract

\* Every callback sequence is one the applications were written for.
ImplementsContract == Contract!Spec

=============================================================================
