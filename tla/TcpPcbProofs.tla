---------------------------- MODULE TcpPcbProofs ----------------------------
(***************************************************************************)
(* For every size of the pool and every timeout: tcp_alloc never fails, the*)
(* server's handle is live, the timer runs while a block is in use, and the*)
(* callbacks of the blocks keep the contract of TcpContract.               *)
(***************************************************************************)
EXTENDS TcpPcb, WellFoundedInduction, TLAPS

\* What the invariants need of a block: nothing is outstanding once the FIN is
\* acknowledged, so that TIME_WAIT and FIN_WAIT_2 never retransmit.
Good(r) == r \in Record /\ (r.st \in {"FIN_WAIT_2", "TIME_WAIT", "FREE"} => ~r.una)

\* The inductive invariant.
PInv == TypeOK /\ (\A p \in Pcbs : Good(pcb[p])) /\ TimerRuns /\ HandleIsLive

\* A set of naturals has a least element.
LEMMA LeastNatural ==
    ASSUME NEW T, T \subseteq Nat, T # {}
    PROVE  \E x \in T : \A y \in T : x <= y
<1>1. \E x \in T : \A y \in T : ~(<<y, x>> \in OpToRel(<, Nat))
  BY NatLessThanWellFounded, WFMin, Zenon
<1>2. ASSUME NEW x \in T, NEW y \in T, ~(<<y, x>> \in OpToRel(<, Nat))
      PROVE  x <= y
  <2>1. ~(y < x)
    BY <1>2 DEF OpToRel
  <2> QED BY <2>1
<1> QED BY <1>1, <1>2, Zenon

\* The scan for the oldest connection of a list finds one unless the list is
\* empty (tcp_kill_timewait, tcp_kill_state, tcp_kill_prio).
LEMMA OldestExists ==
    ASSUME TypeOK, NEW S \in SUBSET Pcbs, S # {}
    PROVE  Oldest(S) # {}
<1> DEFINE T == {MaxAge - pcb[p].age : p \in S}
<1>1. \A p \in Pcbs : pcb[p].age \in 0..MaxAge
  BY DEF TypeOK, Record
<1>2. MaxAge \in Nat
  BY TcpAssumption DEF MaxAge
<1>3. T \subseteq Nat /\ T # {}
  BY <1>1, <1>2
<1>4. \E x \in T : \A y \in T : x <= y
  BY <1>3, LeastNatural
<1>5. PICK p \in S : \A q \in S : MaxAge - pcb[p].age <= MaxAge - pcb[q].age
  BY <1>4
<1>6. \A q \in S : pcb[q].age <= pcb[p].age
  BY <1>5, <1>1, <1>2
<1> QED BY <1>6 DEF Oldest

\* tcp_alloc returns a block whatever the states of the connections.
LEMMA AllocReturns ==
    ASSUME TypeOK
    PROVE  AllocSucceeds
<1>1. Frees \subseteq Pcbs /\ tcp_tw_pcbs \subseteq Pcbs /\ Killable \subseteq Pcbs
  BY DEF Frees, tcp_tw_pcbs, Killable, tcp_active_pcbs
<1>2. \A st : {p \in Pcbs : Is(p, {st})} \subseteq Pcbs
  OBVIOUS
<1>3. Frees = {} /\ tcp_tw_pcbs = {} => Killable # {}
  BY TcpAssumption DEF Killable, tcp_active_pcbs, TCP_PRIO_NORMAL
<1> QED BY <1>1, <1>2, <1>3, OldestExists DEF AllocSucceeds, Slots

-----------------------------------------------------------------------------
(* The blocks                                                              *)

\* The timeouts are naturals, and zero is in their ranges.
LEMMA Bounds ==
    MaxRtx \in Nat /\ MaxAge \in Nat /\ FinWait \in Nat /\ 0 \in 0..MaxRtx /\ 0 \in 0..MaxAge
  BY TcpAssumption DEF MaxAge

\* A free block.
LEMMA FreeBlock == Good(Free) /\ Free.st = "FREE"
<1>1. Free \in Record /\ Free.st = "FREE" /\ Free.una = FALSE
  BY Bounds DEF Free, Block, Record, States
<1> QED BY <1>1 DEF Good

\* The fields of a record have their types.
LEMMA Fields ==
    ASSUME NEW r, r \in Record
    PROVE  /\ r.st \in States /\ r.cb \in {"none", "listener", "ota", "ver"}
           /\ r.rxclosed \in BOOLEAN /\ r.una \in BOOLEAN
           /\ r.rtx \in 0..MaxRtx /\ r.age \in 0..MaxAge
  BY DEF Record

\* A connection of a listener that is gone keeps its state (tcp_listen_closed).
LEMMA OrphanFields ==
    ASSUME NEW r
    PROVE  LET b == Block(r.st, "none", FALSE, r.una, r.rtx, r.age)
           IN /\ b.st = r.st /\ b.cb = "none" /\ b.rxclosed = FALSE
              /\ b.una = r.una /\ b.rtx = r.rtx /\ b.age = r.age
  BY SMT DEF Block

\* A FIN that is sent is outstanding (tcp_close_shutdown_fin).
LEMMA FinFields ==
    ASSUME NEW r
    PROVE  /\ Finned(r, TRUE).st \in {"FIN_WAIT_1", "LAST_ACK"} /\ Finned(r, TRUE).cb = r.cb
           /\ Finned(r, TRUE).rxclosed = TRUE /\ Finned(r, TRUE).una = TRUE
           /\ Finned(r, TRUE).rtx = r.rtx
  BY SMT DEF Finned, Block

\* A FIN keeps the block well formed (tcp_close_shutdown_fin).
LEMMA FinnedGood ==
    ASSUME NEW r, Good(r), NEW mem \in BOOLEAN
    PROVE  Good(Finned(r, mem))
<1> DEFINE st == IF r.st = "ESTABLISHED" THEN "FIN_WAIT_1" ELSE "LAST_ACK"
<1>1. r \in Record /\ (r.st \in {"FIN_WAIT_2", "TIME_WAIT", "FREE"} => ~r.una)
  BY DEF Good
<1>2. st \in States /\ st \notin {"FIN_WAIT_2", "TIME_WAIT", "FREE"}
  BY DEF States
<1>3. CASE mem
  <2> DEFINE b == Block(st, r.cb, TRUE, TRUE, r.rtx, r.age)
  <2>1. b \in Record /\ b.st = st
    BY <1>1, <1>2, Fields, SMT DEF Block, Record
  <2>2. Finned(r, mem) = b
    BY <1>3 DEF Finned
  <2> QED BY <2>1, <2>2, <1>2 DEF Good
<1>4. CASE ~mem
  <2> DEFINE b == Block(r.st, r.cb, TRUE, r.una, r.rtx, r.age)
  <2>1. b \in Record /\ b.st = r.st /\ b.una = r.una
    BY <1>1, Fields, SMT DEF Block, Record
  <2>2. Finned(r, mem) = b
    BY <1>4 DEF Finned
  <2> QED BY <2>1, <2>2, <1>1 DEF Good
<1> QED BY <1>3, <1>4

\* An acknowledgement keeps the block well formed and its connection
\* (tcp_receive).
LEMMA AckedGood ==
    ASSUME NEW r, Good(r), NEW ack
    PROVE  /\ Good(Acked(r, ack)) /\ Acked(r, ack).st = r.st /\ Acked(r, ack).cb = r.cb
           /\ Acked(r, ack).rxclosed = r.rxclosed
<1> DEFINE una == r.una /\ ack # "all"
           rtx == IF r.una /\ ack # "none" THEN 0 ELSE r.rtx
           age == IF r.rxclosed THEN r.age ELSE 0
           b == Block(r.st, r.cb, r.rxclosed, una, rtx, age)
<1>1. r \in Record /\ (r.st \in {"FIN_WAIT_2", "TIME_WAIT", "FREE"} => ~r.una)
  BY DEF Good
<1>2. rtx \in 0..MaxRtx /\ age \in 0..MaxAge
  BY <1>1, Fields, Bounds
<1>3. una \in BOOLEAN
  OBVIOUS
<1> HIDE DEF una, rtx, age
<1>4. b \in Record /\ b.st = r.st /\ b.cb = r.cb /\ b.rxclosed = r.rxclosed /\ b.una = una
  BY <1>1, <1>2, <1>3, Fields, SMT DEF Block, Record
<1>5. Acked(r, ack) = b
  BY DEF Acked, una, rtx, age
<1>6. r.st \in {"FIN_WAIT_2", "TIME_WAIT", "FREE"} => ~una
  BY <1>1 DEF una
<1> HIDE DEF b
<1> QED BY <1>4, <1>5, <1>6 DEF Good

\* The state machine keeps the block well formed, and leaves the connection of
\* a client that has not closed (tcp_process).
LEMMA ProcessedGood ==
    ASSUME NEW r, Good(r), NEW fin \in BOOLEAN
    PROVE  /\ Good(Processed(r, fin))
           /\ Held(r) /\ ~fin => Held(Processed(r, fin))
           /\ Processed(r, fin).cb \in {r.cb, "none"}
<1> DEFINE st == CASE r.st = "ESTABLISHED" /\ fin -> "CLOSE_WAIT"
                [] r.st = "FIN_WAIT_1" /\ fin -> (IF r.una THEN "CLOSING" ELSE "TIME_WAIT")
                [] r.st = "FIN_WAIT_1" /\ ~fin -> (IF r.una THEN "FIN_WAIT_1" ELSE "FIN_WAIT_2")
                [] r.st = "FIN_WAIT_2" /\ fin -> "TIME_WAIT"
                [] r.st = "CLOSING" /\ ~r.una -> "TIME_WAIT"
                [] r.st = "LAST_ACK" /\ ~r.una -> "FREE"
                [] OTHER -> r.st
           b == Block(st, r.cb, r.rxclosed, r.una, r.rtx, r.age)
<1>1. r \in Record /\ (r.st \in {"FIN_WAIT_2", "TIME_WAIT", "FREE"} => ~r.una)
  BY DEF Good
<1>2. st \in States /\ (st \in {"FIN_WAIT_2", "TIME_WAIT", "FREE"} => ~r.una)
  BY <1>1, Fields DEF States
<1>3. r.st = "ESTABLISHED" /\ ~fin => st = "ESTABLISHED"
  OBVIOUS
<1>4. Processed(r, fin) = IF st = "FREE" THEN Free ELSE b
  BY DEF Processed
<1> HIDE DEF st
<1>5. /\ b \in Record /\ b.st = st /\ b.cb = r.cb
      /\ b.rxclosed = r.rxclosed /\ b.una = r.una
  BY <1>1, <1>2, Fields, SMT DEF Block, Record
<1>6. Good(b)
  BY <1>2, <1>5 DEF Good
<1>7. Free.cb = "none"
  BY SMT DEF Free, Block
<1> HIDE DEF b
<1>8. CASE st = "FREE"
  BY <1>3, <1>4, <1>7, <1>8, FreeBlock DEF Held
<1>9. CASE st # "FREE"
  BY <1>3, <1>4, <1>5, <1>6, <1>9 DEF Held
<1> QED BY <1>8, <1>9

\* So do the callbacks (ota_recv_cb, v_recv_cb).
LEMMA ServedGood ==
    ASSUME NEW r, Good(r), NEW data \in BOOLEAN, NEW fin \in BOOLEAN,
           NEW close \in BOOLEAN, NEW mem \in BOOLEAN
    PROVE  /\ Good(Served(r, data, fin, close, mem))
           /\ Held(r) /\ ~fin => Held(Served(r, data, fin, close, mem))
  BY FinnedGood, FreeBlock DEF Served, Held

\* A slow tick retransmits at most TCP_MAXRTX times, and removes a client's
\* connection or leaves it as it is (tcp_slowtmr).
LEMMA TickedGood ==
    ASSUME NEW r, Good(r), NEW again \in BOOLEAN, again => r.una
    PROVE  /\ Good(Ticked(r, again))
           /\ Held(r) /\ Ticked(r, again).st # "FREE" => Held(Ticked(r, again))
           /\ r.st = "FREE" => Ticked(r, again).st = "FREE"
<1> DEFINE rtx == IF again THEN r.rtx + 1 ELSE r.rtx
           age == IF r.age < MaxAge THEN r.age + 1 ELSE r.age
           b == Block(r.st, r.cb, r.rxclosed, r.una, rtx, age)
<1>1. r \in Record /\ (r.st \in {"FIN_WAIT_2", "TIME_WAIT", "FREE"} => ~r.una)
  BY DEF Good
<1>2. CASE r.st = "FREE" \/ Expired(r)
  BY <1>2, FreeBlock DEF Ticked
<1>3. CASE ~(r.st = "FREE" \/ Expired(r))
  <2>1. r.st = "TIME_WAIT" \/ ~(r.rtx >= MaxRtx)
    BY <1>3 DEF Expired
  <2>2. rtx \in 0..MaxRtx
    BY <2>1, <1>1, Fields, Bounds
  <2>3. age \in 0..MaxAge
    BY <1>1, Fields, Bounds
  <2>4. Ticked(r, again) = b
    BY <1>3 DEF Ticked
  <2> HIDE DEF rtx, age
  <2>5. /\ b \in Record /\ b.st = r.st /\ b.cb = r.cb
        /\ b.rxclosed = r.rxclosed /\ b.una = r.una
    BY <1>1, <2>2, <2>3, Fields, SMT DEF Block, Record
  <2> HIDE DEF b
  <2> QED BY <2>4, <2>5, <1>1, <1>3 DEF Good, Held
<1> QED BY <1>2, <1>3

-----------------------------------------------------------------------------
(* The steps                                                               *)

\* A step that replaces one block keeps the invariant if the new block is well
\* formed and timed, and the handle does not point at what is gone.
LEMMA OneBlock ==
    ASSUME PInv, NEW p \in Pcbs, NEW b, Good(b), pcb' = [pcb EXCEPT ![p] = b],
           listening' \in BOOLEAN, timer' \in BOOLEAN, quiet' \in BOOLEAN,
           v_pcb' \in Pcbs \cup {None},
           call' \in [Pcbs -> SUBSET {"connected", "accept", "recv", "eof", "err"}],
           b.st # "FREE" => timer', timer => timer',
           \/ ota_client_pcb' = None
           \/ ota_client_pcb' = ota_client_pcb /\ (ota_client_pcb = p => Held(b))
           \/ ota_client_pcb' = p /\ Held(b)
    PROVE  PInv'
<1>1. \A q \in Pcbs : pcb'[q] = IF q = p THEN b ELSE pcb[q]
  BY DEF PInv, TypeOK
<1>2. \A q \in Pcbs : Good(pcb'[q])
  BY <1>1 DEF PInv
<1>3. (\A q \in Pcbs : Good(pcb[q]))'
  BY <1>2 DEF Good, Record, MaxAge
<1>4. pcb' \in [Pcbs -> Record]
  BY DEF PInv, TypeOK, Good
<1>5. ota_client_pcb' \in Pcbs \cup {None}
  BY DEF PInv, TypeOK
<1>6. TypeOK'
  BY <1>4, <1>5 DEF TypeOK
<1>7. TimerRuns'
  BY <1>1 DEF PInv, TimerRuns
<1>8. HandleIsLive'
  BY <1>1 DEF PInv, TypeOK, HandleIsLive
<1> QED BY <1>3, <1>6, <1>7, <1>8 DEF PInv

\* Calls gives call its type.
LEMMA CallsType ==
    ASSUME NEW f, Calls(f),
           \A p \in DOMAIN f : f[p] \subseteq {"connected", "accept", "recv", "eof", "err"}
    PROVE  call' \in [Pcbs -> SUBSET {"connected", "accept", "recv", "eof", "err"}]
  BY DEF Calls

\* Errs too.
LEMMA ErrsType ==
    ASSUME NEW S, Errs(S)
    PROVE  call' \in [Pcbs -> SUBSET {"connected", "accept", "recv", "eof", "err"}]
  BY DEF Calls, Errs

\* tcp_alloc takes a block of the pool.
LEMMA SlotsArePcbs == Slots \subseteq Pcbs
<1>1. \A S \in SUBSET Pcbs : Oldest(S) \subseteq Pcbs
  BY DEF Oldest
<1>2. \A st : {p \in Pcbs : Is(p, {st})} \subseteq Pcbs
  OBVIOUS
<1>3. Frees \subseteq Pcbs /\ tcp_tw_pcbs \subseteq Pcbs /\ Killable \subseteq Pcbs
  BY DEF Frees, tcp_tw_pcbs, Killable, tcp_active_pcbs
<1> QED BY <1>1, <1>2, <1>3 DEF Slots

\* A block newly taken from the pool is well formed.
LEMMA NewBlock ==
    ASSUME NEW st \in States, st \notin {"FIN_WAIT_2", "TIME_WAIT", "FREE"},
           NEW cb \in {"none", "listener", "ota", "ver"}, NEW una \in BOOLEAN,
           NEW rtx \in 0..MaxRtx
    PROVE  /\ Good(Block(st, cb, FALSE, una, rtx, 0))
           /\ Block(st, cb, FALSE, una, rtx, 0).st = st
           /\ Block(st, cb, FALSE, una, rtx, 0).cb = cb
           /\ Block(st, cb, FALSE, una, rtx, 0).rxclosed = FALSE
  BY Bounds, SMT DEF Good, Block, Record

\* A handle is not the block of a connection that is aborted and reported.
LEMMA AbortedHandle ==
    ASSUME PInv, NEW p \in Pcbs, ota_client_pcb = p
    PROVE  pcb[p].cb = "ota" /\ pcb[p].st = "ESTABLISHED" /\ p # None
  BY TcpAssumption DEF PInv, HandleIsLive, Held

\* Version_Check_Start keeps the invariant.
LEMMA StepConnect ==
    ASSUME PInv, Version_Check_Start
    PROVE  PInv'
<1>1. PICK p \in Slots :
          /\ Errs(Abandoned(p))
          /\ ota_client_pcb' = IF p \in Abandoned(p) /\ pcb[p].cb = "ota" THEN None
                               ELSE ota_client_pcb
          /\ \/ /\ pcb' = [pcb EXCEPT ![p] = Block("SYN_SENT", "none", FALSE, TRUE, 0, 0)]
                /\ v_pcb' = p /\ TCP_REG
             \/ pcb' = [pcb EXCEPT ![p] = Free] /\ v_pcb' = None /\ UNCHANGED timer
  BY DEF Version_Check_Start
<1>2. p \in Pcbs
  BY SlotsArePcbs
<1>3. call' \in [Pcbs -> SUBSET {"connected", "accept", "recv", "eof", "err"}]
  BY <1>1, ErrsType
<1>8. ota_client_pcb = p => p \in Abandoned(p) /\ pcb[p].cb = "ota"
  BY <1>2, AbortedHandle DEF Abandoned, Is
<1>4. ota_client_pcb' = None \/ (ota_client_pcb' = ota_client_pcb /\ ota_client_pcb # p)
  BY <1>1, <1>8
<1>5. listening' \in BOOLEAN /\ quiet' \in BOOLEAN
  BY DEF Version_Check_Start, PInv, TypeOK
<1>6. CASE pcb' = [pcb EXCEPT ![p] = Block("SYN_SENT", "none", FALSE, TRUE, 0, 0)]
           /\ v_pcb' = p /\ TCP_REG
  <2>1. timer' = TRUE
    BY <1>6 DEF TCP_REG
  <2>2. timer' \in BOOLEAN
    BY <2>1, Zenon
  <2>3. Good(Block("SYN_SENT", "none", FALSE, TRUE, 0, 0))
    BY Bounds, SMT DEF Good, Block, Record, States
  <2> QED BY <1>2, <1>3, <1>4, <1>5, <1>6, <2>1, <2>2, <2>3, OneBlock
<1>7. CASE pcb' = [pcb EXCEPT ![p] = Free] /\ v_pcb' = None /\ UNCHANGED timer
  <2>1. timer' \in BOOLEAN
    BY <1>7 DEF PInv, TypeOK
  <2> QED BY <1>2, <1>3, <1>4, <1>5, <1>7, <2>1, FreeBlock, OneBlock
<1> QED BY <1>1, <1>6, <1>7

\* The error callbacks clear a handle whose connection is aborted, and leave
\* the version client's handle in its type.
LEMMA ForgetsHandles ==
    ASSUME PInv, NEW S \in SUBSET Pcbs, Forgets(S)
    PROVE  /\ ota_client_pcb' = None \/ (ota_client_pcb' = ota_client_pcb /\ ota_client_pcb \notin S)
           /\ v_pcb' \in Pcbs \cup {None}
<1>1. v_pcb' \in Pcbs \cup {None}
  BY DEF Forgets, PInv, TypeOK
<1>2. ota_client_pcb \in S => pcb[ota_client_pcb].cb = "ota"
  BY TcpAssumption DEF PInv, HandleIsLive, Held
<1>3. ota_client_pcb' = None \/ (ota_client_pcb' = ota_client_pcb /\ ota_client_pcb \notin S)
  BY <1>2 DEF Forgets
<1> QED BY <1>1, <1>3

\* A killed block is not the client's unless it is reported.
LEMMA KilledHandle ==
    ASSUME PInv, NEW p \in Pcbs, Forgets(Abandoned(p))
    PROVE  /\ ota_client_pcb' = None \/ (ota_client_pcb' = ota_client_pcb /\ ota_client_pcb # p)
           /\ v_pcb' \in Pcbs \cup {None}
<1>1. Abandoned(p) \in SUBSET Pcbs
  BY DEF Abandoned
<1>2. ota_client_pcb = p => p \in Abandoned(p)
  BY AbortedHandle DEF Abandoned, Is
<1> QED BY <1>1, <1>2, ForgetsHandles

\* A start of the server keeps the invariant.
LEMMA StepListen ==
    ASSUME PInv, OTA_Server_Start
    PROVE  PInv'
<1>1. PICK p \in Slots :
          /\ pcb' = [pcb EXCEPT ![p] = Free]
          /\ Errs(Abandoned(p)) /\ Forgets(Abandoned(p))
          /\ listening' = ~PortTaken([pcb EXCEPT ![p] = Free])
  BY DEF OTA_Server_Start
<1>2. p \in Pcbs
  BY SlotsArePcbs
<1>3. call' \in [Pcbs -> SUBSET {"connected", "accept", "recv", "eof", "err"}]
  BY <1>1, ErrsType
<1>4. listening' \in BOOLEAN
  BY <1>1, Zenon DEF PortTaken
<1>5. timer' = timer /\ timer \in BOOLEAN /\ quiet' \in BOOLEAN
  BY DEF OTA_Server_Start, PInv, TypeOK
<1>6. /\ ota_client_pcb' = None \/ (ota_client_pcb' = ota_client_pcb /\ ota_client_pcb # p)
      /\ v_pcb' \in Pcbs \cup {None}
  BY <1>1, <1>2, KilledHandle
<1> QED BY <1>1, <1>2, <1>3, <1>4, <1>5, <1>6, FreeBlock, OneBlock

\* A SYN keeps the invariant.
LEMMA StepSyn ==
    ASSUME PInv, tcp_listen_input
    PROVE  PInv'
<1> DEFINE b == Block("SYN_RCVD", "listener", FALSE, TRUE, 0, 0)
<1>1. PICK p \in Slots :
          /\ Errs(Abandoned(p)) /\ Forgets(Abandoned(p))
          /\ pcb' = [pcb EXCEPT ![p] = b] \/ pcb' = [pcb EXCEPT ![p] = Free]
          /\ timer' = TRUE
  BY DEF tcp_listen_input, TCP_REG
<1>2. p \in Pcbs
  BY SlotsArePcbs
<1>3. call' \in [Pcbs -> SUBSET {"connected", "accept", "recv", "eof", "err"}]
  BY <1>1, ErrsType
<1>4. timer' \in BOOLEAN
  BY <1>1, Zenon
<1>5. listening' \in BOOLEAN /\ quiet' \in BOOLEAN
  BY DEF tcp_listen_input, PInv, TypeOK
<1>6. /\ ota_client_pcb' = None \/ (ota_client_pcb' = ota_client_pcb /\ ota_client_pcb # p)
      /\ v_pcb' \in Pcbs \cup {None}
  BY <1>1, <1>2, KilledHandle
<1>7. Good(b)
  BY Bounds, SMT DEF Good, Block, Record, States
<1> HIDE DEF b
<1> QED BY <1>1, <1>2, <1>3, <1>4, <1>5, <1>6, <1>7, FreeBlock, OneBlock

\* A step that leaves the handles alone and replaces a block that is not the
\* client's keeps the invariant.
LEMMA OtherBlock ==
    ASSUME PInv, NEW p \in Pcbs, ~Held(pcb[p]), pcb[p].st # "FREE", NEW b, Good(b),
           pcb' = [pcb EXCEPT ![p] = b],
           call' \in [Pcbs -> SUBSET {"connected", "accept", "recv", "eof", "err"}],
           UNCHANGED <<listening, ota_client_pcb, v_pcb, timer, quiet>>
    PROVE  PInv'
<1>1. ota_client_pcb # p
  BY TcpAssumption DEF PInv, HandleIsLive
<1>2. listening' \in BOOLEAN /\ timer' \in BOOLEAN /\ quiet' \in BOOLEAN
  BY DEF PInv, TypeOK
<1>3. v_pcb' \in Pcbs \cup {None} /\ timer' = timer /\ ota_client_pcb' = ota_client_pcb
  BY DEF PInv, TypeOK
<1>4. timer
  BY DEF PInv, TimerRuns
<1> QED BY <1>1, <1>2, <1>3, <1>4, OneBlock

\* The rest of a handshake keeps the invariant.
LEMMA StepSynAck ==
    ASSUME PInv, NEW p \in Pcbs, SynAck(p)
    PROVE  PInv'
<1> DEFINE b(sent) == Block("ESTABLISHED", "ver", FALSE, sent, pcb[p].rtx, 0)
<1>1. PICK sent \in BOOLEAN : pcb' = [pcb EXCEPT ![p] = b(sent)]
  BY DEF SynAck
<1>2. call' \in [Pcbs -> SUBSET {"connected", "accept", "recv", "eof", "err"}]
  BY DEF SynAck, Calls
<1>3. pcb[p].rtx \in 0..MaxRtx
  BY DEF PInv, TypeOK, Record
<1>4. Good(b(sent))
  BY <1>3, Bounds, SMT DEF Good, Block, Record, States
<1>5. ~Held(pcb[p]) /\ pcb[p].st # "FREE"
  BY DEF SynAck, Is, Held
<1>6. UNCHANGED <<listening, ota_client_pcb, v_pcb, timer, quiet>>
  BY DEF SynAck
<1> HIDE DEF b
<1> QED BY <1>1, <1>2, <1>4, <1>5, <1>6, OtherBlock

\* So does its rejection.
LEMMA StepRejected ==
    ASSUME PInv, NEW p \in Pcbs, Rejected(p)
    PROVE  PInv'
<1>1. call' \in [Pcbs -> SUBSET {"connected", "accept", "recv", "eof", "err"}]
  BY DEF Rejected, Calls
<1>2. ~Held(pcb[p]) /\ pcb[p].st # "FREE"
  BY DEF Rejected, Is, Held
<1>3. /\ pcb' = [pcb EXCEPT ![p] = Free]
      /\ UNCHANGED <<listening, ota_client_pcb, v_pcb, timer, quiet>>
  BY DEF Rejected
<1> QED BY <1>1, <1>2, <1>3, FreeBlock, OtherBlock

\* A repeated FIN keeps the invariant.
LEMMA StepTimeWait ==
    ASSUME PInv, NEW p \in Pcbs, TimeWaitFin(p)
    PROVE  PInv'
<1> DEFINE b == Block("TIME_WAIT", pcb[p].cb, TRUE, FALSE, 0, 0)
<1>1. call' \in [Pcbs -> SUBSET {"connected", "accept", "recv", "eof", "err"}]
  BY DEF TimeWaitFin, Calls
<1>2. ~Held(pcb[p]) /\ pcb[p].st # "FREE"
  BY DEF TimeWaitFin, tcp_tw_pcbs, Is, Held
<1>3. pcb[p].cb \in {"none", "listener", "ota", "ver"}
  BY DEF PInv, TypeOK, Record
<1>4. Good(b)
  BY <1>3, Bounds, SMT DEF Good, Block, Record, States
<1>5. /\ pcb' = [pcb EXCEPT ![p] = b]
      /\ UNCHANGED <<listening, ota_client_pcb, v_pcb, timer, quiet>>
  BY DEF TimeWaitFin
<1> HIDE DEF b
<1> QED BY <1>1, <1>2, <1>4, <1>5, OtherBlock

\* A reset keeps the invariant.
LEMMA StepReset ==
    ASSUME PInv, NEW p \in Pcbs, Reset(p)
    PROVE  PInv'
<1>1. call' \in [Pcbs -> SUBSET {"connected", "accept", "recv", "eof", "err"}]
  BY ErrsType DEF Reset
<1>2. Forgets({p}) /\ {p} \in SUBSET Pcbs
  BY DEF Reset
<1>3. /\ ota_client_pcb' = None \/ (ota_client_pcb' = ota_client_pcb /\ ota_client_pcb # p)
      /\ v_pcb' \in Pcbs \cup {None}
  BY <1>2, ForgetsHandles
<1>4. /\ listening' \in BOOLEAN /\ timer' = timer /\ timer' \in BOOLEAN /\ quiet' \in BOOLEAN
      /\ pcb' = [pcb EXCEPT ![p] = Free]
  BY DEF Reset, PInv, TypeOK
<1> QED BY <1>1, <1>3, <1>4, FreeBlock, OneBlock

\* A segment for a connection keeps the invariant: the only one after which a
\* client's connection is not open is one that ends with ota_client_pcb = NULL.
LEMMA StepInput ==
    ASSUME PInv, NEW p \in Pcbs, NEW ack, NEW data \in BOOLEAN, NEW fin \in BOOLEAN,
           NEW close \in BOOLEAN, NEW mem \in BOOLEAN,
           pcb[p].st # "FREE", tcp_input(p, ack, data, fin, close, mem),
           UNCHANGED <<listening, quiet>>
    PROVE  PInv'
<1> DEFINE new  == Is(p, {"SYN_RCVD"})
           r    == IF new THEN Block("ESTABLISHED", "ota", FALSE, FALSE, 0, 0)
                   ELSE Acked(pcb[p], ack)
           text == r.st \in {"ESTABLISHED", "FIN_WAIT_1", "FIN_WAIT_2"}
           q    == Processed(r, text /\ fin)
           late == Late(r, text /\ data)
           got  == (IF new THEN {"accept"} ELSE {}) \cup
                   (IF text /\ data THEN {"recv"} ELSE {}) \cup
                   (IF text /\ fin THEN {"eof"} ELSE {})
           end  == IF late THEN Free ELSE Served(q, text /\ data, text /\ fin, close, mem)
           told == IF ~late THEN got ELSE IF q.st = "TIME_WAIT" THEN {} ELSE {"err"}
           closed == ~r.rxclosed /\ (end.rxclosed \/ end.st = "FREE")
<1>1. /\ pcb' = [pcb EXCEPT ![p] = end]
      /\ Calls([x \in {p} |-> told])
      /\ ota_client_pcb' = IF r.cb = "ota" /\ {"eof", "err"} \cap call'[p] # {} THEN None
                           ELSE IF new THEN p ELSE ota_client_pcb
      /\ v_pcb' = IF r.cb = "ver" /\ (closed \/ "err" \in call'[p]) THEN None ELSE v_pcb
      /\ timer' = (timer \/ q.st = "TIME_WAIT")
  BY DEF tcp_input
<1>2. call'[p] = told /\ call' \in [Pcbs -> SUBSET {"connected", "accept", "recv", "eof", "err"}]
  <2>1. told \subseteq {"connected", "accept", "recv", "eof", "err"}
    OBVIOUS
  <2> HIDE DEF told
  <2> QED BY <1>1, <2>1 DEF Calls
<1>3. Good(r) /\ (new => Held(r)) /\ (Held(pcb[p]) => Held(r))
  <2>1. CASE new
    <3>1. Good(Block("ESTABLISHED", "ota", FALSE, FALSE, 0, 0))
      BY Bounds, SMT DEF Good, Block, Record, States
    <3>2. Held(Block("ESTABLISHED", "ota", FALSE, FALSE, 0, 0))
      BY SMT DEF Held, Block
    <3> QED BY <2>1, <3>1, <3>2
  <2>2. CASE ~new
    <3>1. Good(pcb[p])
      BY DEF PInv
    <3> QED BY <2>2, <3>1, AckedGood DEF Held
  <2> QED BY <2>1, <2>2
<1> DEFINE f == text /\ fin
           d == text /\ data
<1>4. f \in BOOLEAN /\ d \in BOOLEAN
  OBVIOUS
<1> HIDE DEF r
<1>5. Good(q) /\ (Held(r) /\ ~f => Held(q))
  <2> HIDE DEF f
  <2>1. Good(Processed(r, f)) /\ (Held(r) /\ ~f => Held(Processed(r, f)))
    BY <1>3, <1>4, ProcessedGood
  <2> QED BY <2>1 DEF f
<1>6. Good(Served(q, d, f, close, mem)) /\ (Held(q) /\ ~f => Held(Served(q, d, f, close, mem)))
  <2> HIDE DEF q, f, d
  <2> QED BY <1>4, <1>5, ServedGood
<1>7. Good(end)
  BY <1>6, FreeBlock
<1>8. Held(r) => ~late
  BY DEF Late, Held
<1>9. Held(r) /\ {"eof", "err"} \cap told = {} => Held(end)
  <2> SUFFICES ASSUME Held(r), {"eof", "err"} \cap told = {}
               PROVE  Held(end)
    OBVIOUS
  <2>1. ~late /\ told = got
    BY <1>8
  <2>2. ~f
    BY <2>1
  <2> HIDE DEF q, late, told, got
  <2> QED BY <1>5, <1>6, <2>1, <2>2
<1>10. Held(r) => r.cb = "ota"
  BY DEF Held
<1>11. timer /\ timer' \in BOOLEAN /\ (timer => timer')
  BY <1>1, Zenon DEF PInv, TimerRuns
<1>12. listening' \in BOOLEAN /\ quiet' \in BOOLEAN
  BY DEF PInv, TypeOK
<1>13. v_pcb' \in Pcbs \cup {None}
  BY <1>1 DEF PInv, TypeOK
<1> HIDE DEF end, told, closed, q, late, got, text, new
<1>14. ota_client_pcb = p => Held(pcb[p])
  BY TcpAssumption DEF PInv, HandleIsLive
<1>15. \/ ota_client_pcb' = None
       \/ ota_client_pcb' = ota_client_pcb /\ (ota_client_pcb = p => Held(end))
       \/ ota_client_pcb' = p /\ Held(end)
  BY <1>1, <1>2, <1>3, <1>9, <1>10, <1>14
<1> QED BY <1>1, <1>2, <1>7, <1>11, <1>12, <1>13, <1>15, OneBlock

\* Every segment keeps the invariant.
LEMMA StepSegment ==
    ASSUME PInv, NEW p \in Pcbs, Segment(p)
    PROVE  PInv'
<1>1. pcb[p].st # "FREE"
  BY DEF Segment, tcp_active_pcbs, Frees, Is
<1>2. PICK ack \in {"all", "some", "none"}, data \in BOOLEAN, fin \in BOOLEAN,
           close \in BOOLEAN, mem \in BOOLEAN : tcp_input(p, ack, data, fin, close, mem)
  BY DEF Segment
<1>3. UNCHANGED <<listening, quiet>>
  BY DEF Segment
<1> QED BY <1>1, <1>2, <1>3, StepInput

\* A step of all blocks keeps the invariant under the same conditions.
LEMMA AllBlocks ==
    ASSUME PInv, NEW t, t = [p \in Pcbs |-> t[p]], \A p \in Pcbs : Good(t[p]), pcb' = t,
           listening' \in BOOLEAN, timer' \in BOOLEAN, quiet' \in BOOLEAN,
           v_pcb' \in Pcbs \cup {None},
           call' \in [Pcbs -> SUBSET {"connected", "accept", "recv", "eof", "err"}],
           (\E p \in Pcbs : t[p].st # "FREE") => timer',
           \/ ota_client_pcb' = None
           \/ ota_client_pcb' = ota_client_pcb /\ Held(t[ota_client_pcb])
    PROVE  PInv'
<1>1. \A p \in Pcbs : Good(pcb'[p])
  OBVIOUS
<1>2. (\A p \in Pcbs : Good(pcb[p]))'
  BY <1>1 DEF Good, Record, MaxAge
<1>3. pcb' \in [Pcbs -> Record]
  BY DEF Good
<1>4. ota_client_pcb' \in Pcbs \cup {None}
  BY DEF PInv, TypeOK
<1>5. TypeOK'
  BY <1>3, <1>4 DEF TypeOK
<1>6. TimerRuns' /\ HandleIsLive'
  BY DEF TimerRuns, HandleIsLive
<1> QED BY <1>2, <1>5, <1>6 DEF PInv

\* Stopping the server keeps the invariant: the handle is cleared.
LEMMA StepStop ==
    ASSUME PInv, OTA_Server_Stop
    PROVE  PInv'
<1> DEFINE t == Stopped(Client)
<1>1. \A p \in Pcbs : Good(t[p]) /\ (t[p].st # "FREE" => pcb[p].st # "FREE")
  <2> SUFFICES ASSUME NEW p \in Pcbs
               PROVE  Good(t[p]) /\ (t[p].st # "FREE" => pcb[p].st # "FREE")
    OBVIOUS
  <2> DEFINE b == Block(pcb[p].st, "none", FALSE, pcb[p].una, pcb[p].rtx, pcb[p].age)
  <2>1. Good(pcb[p]) /\ pcb[p] \in Record
    BY DEF PInv, Good
  <2>2. Good(b) /\ b.st = pcb[p].st
    BY <2>1, Fields, SMT DEF Good, Block, Record
  <2> HIDE DEF b
  <2>3. t[p] = IF p \in Client THEN Free ELSE IF pcb[p].cb # "listener" THEN pcb[p] ELSE b
    BY DEF Stopped, b
  <2> QED BY <2>1, <2>2, <2>3, FreeBlock
<1>2. call' \in [Pcbs -> SUBSET {"connected", "accept", "recv", "eof", "err"}]
  BY ErrsType DEF OTA_Server_Stop
<1>3. Client \in SUBSET Pcbs /\ Forgets(Client)
  BY DEF PInv, TypeOK, Client, OTA_Server_Stop
<1>4. ota_client_pcb' = None /\ v_pcb' \in Pcbs \cup {None}
  BY <1>3, ForgetsHandles DEF Client
<1>5. pcb' = t /\ t = [p \in Pcbs |-> t[p]]
  BY DEF OTA_Server_Stop, Stopped
<1>6. listening' = FALSE /\ timer' = timer /\ quiet' = quiet
  BY DEF OTA_Server_Stop
<1>7. listening' \in BOOLEAN
  BY <1>6, Zenon
<1>8. timer' \in BOOLEAN /\ quiet' \in BOOLEAN
  BY <1>6 DEF PInv, TypeOK
<1>9. (\E p \in Pcbs : t[p].st # "FREE") => timer'
  BY <1>1, <1>6 DEF PInv, TimerRuns
<1> HIDE DEF t
<1> QED BY <1>1, <1>2, <1>4, <1>5, <1>7, <1>8, <1>9, AllBlocks

\* A run of the TCP timer keeps the invariant: a client's connection that it
\* removes is reported.
LEMMA StepTimer ==
    ASSUME PInv, NEW M \in SUBSET ClosePending, NEW slow \in BOOLEAN,
           NEW R \in SUBSET Outstanding, tcpip_tcp_timer(M, slow, R)
    PROVE  PInv'
<1> DEFINE fast == [p \in Pcbs |-> IF p \in M THEN Finned(pcb[p], TRUE) ELSE pcb[p]]
           t == IF slow THEN [p \in Pcbs |-> Ticked(fast[p], p \in R)] ELSE fast
           removed == {p \in tcp_active_pcbs : t[p].st = "FREE"}
<1>1. /\ timer /\ pcb' = t /\ timer' = StillNeeded(t) /\ Errs(removed) /\ Forgets(removed)
      /\ UNCHANGED <<listening, quiet>>
  BY DEF tcpip_tcp_timer
<1>2. ASSUME NEW p \in Pcbs
      PROVE  /\ Good(t[p])
             /\ Held(pcb[p]) /\ t[p].st # "FREE" => Held(t[p])
  <2>1. Good(pcb[p]) /\ Good(Finned(pcb[p], TRUE))
    BY FinnedGood DEF PInv
  <2>2. fast[p] = IF p \in M THEN Finned(pcb[p], TRUE) ELSE pcb[p]
    OBVIOUS
  <2>3. Held(pcb[p]) => p \notin M
    BY DEF ClosePending, Held
  <2>4. p \in R => fast[p].una
    <3>1. CASE p \in M
      <4>1. Finned(pcb[p], TRUE).una
        BY SMT DEF Finned, Block
      <4> QED BY <3>1, <4>1, <2>2
    <3>2. CASE p \notin M
      BY <3>2, <2>2 DEF Outstanding
    <3> QED BY <3>1, <3>2
  <2>5. Good(fast[p]) /\ (Held(pcb[p]) => Held(fast[p]))
    BY <2>1, <2>2, <2>3
  <2>6. t[p] = IF slow THEN Ticked(fast[p], p \in R) ELSE fast[p]
    OBVIOUS
  <2>7. (p \in R) \in BOOLEAN
    OBVIOUS
  <2> HIDE DEF fast, t
  <2> QED BY <2>4, <2>5, <2>6, <2>7, TickedGood
<1>3. t = [p \in Pcbs |-> t[p]]
  OBVIOUS
<1>4. removed \in SUBSET Pcbs
  BY DEF tcp_active_pcbs
<1>5. call' \in [Pcbs -> SUBSET {"connected", "accept", "recv", "eof", "err"}]
  BY <1>1, ErrsType
<1>6. timer' \in BOOLEAN /\ ((\E p \in Pcbs : t[p].st # "FREE") => timer')
  BY <1>1, Zenon DEF StillNeeded
<1>7. listening' \in BOOLEAN /\ quiet' \in BOOLEAN
  BY <1>1 DEF PInv, TypeOK
<1>8. /\ ota_client_pcb' = None \/ (ota_client_pcb' = ota_client_pcb /\ ota_client_pcb \notin removed)
      /\ v_pcb' \in Pcbs \cup {None}
  BY <1>1, <1>4, ForgetsHandles
<1>9. ota_client_pcb \notin removed /\ ota_client_pcb # None =>
          ota_client_pcb \in Pcbs /\ Held(t[ota_client_pcb])
  <2> SUFFICES ASSUME ota_client_pcb \notin removed, ota_client_pcb # None
               PROVE  ota_client_pcb \in Pcbs /\ Held(t[ota_client_pcb])
    OBVIOUS
  <2>1. ota_client_pcb \in Pcbs /\ Held(pcb[ota_client_pcb])
    BY DEF PInv, TypeOK, HandleIsLive
  <2>2. ota_client_pcb \in tcp_active_pcbs
    BY <2>1 DEF tcp_active_pcbs, Frees, tcp_tw_pcbs, Is, Held
  <2>3. t[ota_client_pcb].st # "FREE"
    BY <2>2
  <2> HIDE DEF t, removed
  <2> QED BY <1>2, <2>1, <2>3
<1> HIDE DEF t, removed
<1> QED BY <1>1, <1>2, <1>3, <1>5, <1>6, <1>7, <1>8, <1>9, AllBlocks

-----------------------------------------------------------------------------
(* The theorems                                                            *)

\* Every step keeps the invariant.
LEMMA StepKeeps ==
    ASSUME PInv, [Next]_vars
    PROVE  PInv'
<1>1. CASE Next
  <2>1. CASE Version_Check_Start
    BY <2>1, StepConnect
  <2>2. CASE OTA_Server_Start
    BY <2>2, StepListen
  <2>3. CASE OTA_Server_Stop
    BY <2>3, StepStop
  <2>4. CASE tcp_listen_input
    BY <2>4, StepSyn
  <2>5. CASE Tick
    <3>1. PICK M \in SUBSET ClosePending :
              \/ tcpip_tcp_timer(M, FALSE, {})
              \/ \E R \in SUBSET Outstanding : tcpip_tcp_timer(M, TRUE, R)
      BY <2>5 DEF Tick
    <3>2. {} \in SUBSET Outstanding /\ TRUE \in BOOLEAN /\ FALSE \in BOOLEAN
      BY Zenon
    <3> QED BY <3>1, <3>2, StepTimer
  <2>6. CASE Silence
    <3>1. call' \in [Pcbs -> SUBSET {"connected", "accept", "recv", "eof", "err"}]
      BY <2>6 DEF Silence, Calls
    <3>2. quiet' = TRUE
      BY <2>6 DEF Silence
    <3>3. quiet' \in BOOLEAN
      BY <3>2, Zenon
    <3>4. UNCHANGED <<pcb, listening, ota_client_pcb, v_pcb, timer>>
      BY <2>6 DEF Silence
    <3> QED BY <3>1, <3>3, <3>4 DEF PInv, TypeOK, Good, TimerRuns, HandleIsLive, Held, Record, MaxAge
  <2>7. ASSUME NEW p \in Pcbs,
               SynAck(p) \/ Rejected(p) \/ Segment(p) \/ Reset(p) \/ TimeWaitFin(p)
        PROVE  PInv'
    BY <2>7, StepSynAck, StepRejected, StepSegment, StepReset, StepTimeWait
  <2> QED BY <1>1, <2>1, <2>2, <2>3, <2>4, <2>5, <2>6, <2>7 DEF Next
<1>2. CASE UNCHANGED vars
  BY <1>2 DEF vars, PInv, TypeOK, Good, TimerRuns, HandleIsLive, Held, Record, MaxAge
<1> QED BY <1>1, <1>2

\* The program starts with a free pool and no timer.
LEMMA InitKeeps == Init => PInv
<1> SUFFICES ASSUME Init
             PROVE  PInv
  OBVIOUS
<1>1. \A p \in Pcbs : pcb[p] = Free
  BY DEF Init
<1>2. (\A p \in Pcbs : Good(pcb[p])) /\ pcb \in [Pcbs -> Record]
  BY FreeBlock DEF Init, Good
<1>3. listening \in BOOLEAN /\ timer \in BOOLEAN /\ quiet \in BOOLEAN
  BY Zenon DEF Init
<1>4. TypeOK
  BY <1>2, <1>3 DEF Init, TypeOK
<1>5. TimerRuns
  BY <1>1, FreeBlock DEF TimerRuns
<1>6. HandleIsLive
  BY DEF HandleIsLive, Init
<1> QED BY <1>2, <1>4, <1>5, <1>6 DEF PInv

\* The invariant holds for every pool and every timeout.
THEOREM PcbsInvariant == Spec => []PInv
<1> QED BY InitKeeps, StepKeeps, PTL DEF Spec

\* Every block is well formed: no retransmission beyond TCP_MAXRTX.
THEOREM PcbTypes == Spec => []TypeOK
<1>1. PInv => TypeOK
  BY DEF PInv
<1> QED BY <1>1, PcbsInvariant, PTL

\* tcp_alloc never fails, so ota_accept_cb never gets a NULL pcb.
THEOREM AllocNeverFails == Spec => []AllocSucceeds
<1>1. PInv => AllocSucceeds
  BY AllocReturns DEF PInv
<1> QED BY <1>1, PcbsInvariant, PTL

\* ota_client_pcb is an open connection whenever it is not NULL.
THEOREM HandleStaysLive == Spec => []HandleIsLive
<1>1. PInv => HandleIsLive
  BY DEF PInv
<1> QED BY <1>1, PcbsInvariant, PTL

\* The TCP timer is armed as long as a block is in use.
THEOREM TimerNeverStalls == Spec => []TimerRuns
<1>1. PInv => TimerRuns
  BY DEF PInv
<1> QED BY <1>1, PcbsInvariant, PTL

-----------------------------------------------------------------------------
(* The blocks implement the contract of the callbacks                      *)

Early == {"FREE", "SYN_SENT", "SYN_RCVD"}

\* The callbacks are registered exactly on the connections that came about,
\* and what has sent a FIN was closed by the application.
Shape(r) ==
    /\ r.st \in Early => ~r.rxclosed /\ r.cb \in {"none", "listener"}
    /\ r.st \notin Early => r.cb \in {"ota", "ver"}
    /\ r.st \in {"FIN_WAIT_1", "FIN_WAIT_2", "CLOSING", "LAST_ACK", "TIME_WAIT"} => r.rxclosed

CInv == PInv /\ \A p \in Pcbs : Shape(pcb[p])

Moves(r, b, c) == <<Phase(r), Phase(b), c>> \in Contract!Steps

\* A step of the contract.
LEMMA InSteps ==
    ASSUME NEW a \in Contract!Phases, NEW b \in Contract!Phases,
           NEW c \in SUBSET Contract!Callbacks, Contract!Step(a, b, c)
    PROVE  <<a, b, c>> \in Contract!Steps
  BY DEF Contract!Steps

\* The phases of the states.
LEMMA PhaseOf ==
    ASSUME NEW r
    PROVE  /\ Phase(r) \in Contract!Phases
           /\ r.st \in {"FREE", "SYN_RCVD"} => Phase(r) = "idle"
           /\ r.st = "SYN_SENT" => Phase(r) = "syn"
           /\ r.st \notin Early /\ r.rxclosed => Phase(r) = "closing"
           /\ r.st = "ESTABLISHED" /\ ~r.rxclosed => Phase(r) = "open"
           /\ r.st \notin Early /\ ~r.rxclosed /\ r.st # "ESTABLISHED" => Phase(r) = "closewait"
  BY DEF Phase, Contract!Phases, Early

\* A block that does not change makes no step.
LEMMA Stays ==
    ASSUME NEW r
    PROVE  Moves(r, r, {})
<1>1. Contract!Step(Phase(r), Phase(r), {})
  BY PhaseOf DEF Contract!Step, Contract!Attempt, Contract!Delivered, Contract!Closed,
                 Contract!Idle, Contract!Phases
<1> QED BY <1>1, PhaseOf, InSteps DEF Moves

\* A block that is taken away, reported if a callback is registered and the
\* connection not in TIME_WAIT.
LEMMA Goes ==
    ASSUME NEW r, Good(r), Shape(r), NEW b, b.st \in Early,
           NEW c, c = IF r.cb \in {"ota", "ver"} /\ r.st # "TIME_WAIT" THEN {"err"} ELSE {}
    PROVE  Moves(r, b, c)
<1>1. Phase(b) \in {"idle", "syn"}
  BY PhaseOf DEF Early
<1>2. CASE r.st \in Early
  <2>1. c = {} /\ Phase(r) \in {"idle", "syn"}
    BY <1>2, PhaseOf DEF Shape, Early
  <2>2. Contract!Step(Phase(r), Phase(b), c)
    BY <1>1, <2>1 DEF Contract!Step, Contract!Attempt, Contract!Idle
  <2> QED BY <2>1, <2>2, PhaseOf, InSteps DEF Moves
<1>3. CASE r.st \notin Early
  <2>1. Phase(r) \in {"open", "closewait", "closing"}
    BY <1>3, PhaseOf
  <2>2. r.st = "TIME_WAIT" => Phase(r) = "closing"
    BY <1>3, PhaseOf DEF Shape
  <2>3. c = {"err"} \/ (c = {} /\ r.st = "TIME_WAIT")
    BY <1>3 DEF Shape
  <2>4. Contract!Step(Phase(r), Phase(b), c)
    BY <1>1, <2>1, <2>2, <2>3 DEF Contract!Step, Contract!Failed, Contract!Closed, Contract!Idle
  <2>5. c \in SUBSET Contract!Callbacks
    BY <2>3 DEF Contract!Callbacks
  <2> QED BY <2>4, <2>5, PhaseOf, InSteps DEF Moves
<1> QED BY <1>2, <1>3

-----------------------------------------------------------------------------
(* A segment                                                               *)

\* A free block.
LEMMA FreeShape == Shape(Free) /\ Free.st = "FREE"
  BY SMT DEF Shape, Free, Block, Early

\* What is closed by the application is closing.
LEMMA FinnedShape ==
    ASSUME NEW r, Good(r), Shape(r), r.st \notin Early, NEW mem \in BOOLEAN
    PROVE  /\ Shape(Finned(r, mem)) /\ Finned(r, mem).st \notin Early
           /\ Finned(r, mem).rxclosed
<1>1. CASE mem
  <2>1. /\ Finned(r, mem).st \in {"FIN_WAIT_1", "LAST_ACK"} /\ Finned(r, mem).cb = r.cb
        /\ Finned(r, mem).rxclosed = TRUE
    BY <1>1, SMT DEF Finned, Block
  <2> QED BY <2>1 DEF Shape, Early
<1>2. CASE ~mem
  <2>1. /\ Finned(r, mem).st = r.st /\ Finned(r, mem).cb = r.cb
        /\ Finned(r, mem).rxclosed = TRUE
    BY <1>2, SMT DEF Finned, Block
  <2> QED BY <2>1 DEF Shape, Early
<1> QED BY <1>1, <1>2

\* The state machine moves an open connection only on a FIN, and ends one only
\* in LAST_ACK.
LEMMA ProcessedShape ==
    ASSUME NEW r, Good(r), Shape(r), r.st \notin Early, NEW fin \in BOOLEAN
    PROVE  \/ Processed(r, fin) = Free /\ r.st = "LAST_ACK"
           \/ /\ Processed(r, fin).st \notin Early
              /\ Processed(r, fin).cb = r.cb /\ Processed(r, fin).rxclosed = r.rxclosed
              /\ Shape(Processed(r, fin))
              /\ r.st = "ESTABLISHED" =>
                    Processed(r, fin).st = IF fin THEN "CLOSE_WAIT" ELSE "ESTABLISHED"
              /\ r.st = "CLOSE_WAIT" => Processed(r, fin).st = "CLOSE_WAIT"
<1> DEFINE st == CASE r.st = "ESTABLISHED" /\ fin -> "CLOSE_WAIT"
                [] r.st = "FIN_WAIT_1" /\ fin -> (IF r.una THEN "CLOSING" ELSE "TIME_WAIT")
                [] r.st = "FIN_WAIT_1" /\ ~fin -> (IF r.una THEN "FIN_WAIT_1" ELSE "FIN_WAIT_2")
                [] r.st = "FIN_WAIT_2" /\ fin -> "TIME_WAIT"
                [] r.st = "CLOSING" /\ ~r.una -> "TIME_WAIT"
                [] r.st = "LAST_ACK" /\ ~r.una -> "FREE"
                [] OTHER -> r.st
           b == Block(st, r.cb, r.rxclosed, r.una, r.rtx, r.age)
<1>1. /\ st = "FREE" => r.st = "LAST_ACK"
      /\ st \notin {"SYN_SENT", "SYN_RCVD"}
      /\ r.st = "ESTABLISHED" => st = IF fin THEN "CLOSE_WAIT" ELSE "ESTABLISHED"
      /\ r.st = "CLOSE_WAIT" => st = "CLOSE_WAIT"
      /\ st \in {"FIN_WAIT_1", "FIN_WAIT_2", "CLOSING", "LAST_ACK", "TIME_WAIT"} =>
            r.st \in {"FIN_WAIT_1", "FIN_WAIT_2", "CLOSING", "LAST_ACK", "TIME_WAIT"}
  BY DEF Early
<1>2. Processed(r, fin) = IF st = "FREE" THEN Free ELSE b
  BY DEF Processed
<1> HIDE DEF st
<1>3. b.st = st /\ b.cb = r.cb /\ b.rxclosed = r.rxclosed
  BY SMT DEF Block
<1> HIDE DEF b
<1>4. CASE st = "FREE"
  BY <1>1, <1>2, <1>4
<1>5. CASE st # "FREE"
  BY <1>1, <1>2, <1>3, <1>5 DEF Shape, Early
<1> QED BY <1>4, <1>5

\* The callbacks of a segment with the data d and the FIN f: what they leave of
\* a connection that the application had not closed.
LEMMA ServedOpen ==
    ASSUME NEW q, Good(q), Shape(q), NEW d \in BOOLEAN, NEW f \in BOOLEAN,
           NEW close \in BOOLEAN, NEW mem \in BOOLEAN,
           ~q.rxclosed, q.st = IF f THEN "CLOSE_WAIT" ELSE "ESTABLISHED"
    PROVE  LET e == Served(q, d, f, close, mem)
           IN /\ Shape(e)
              /\ \/ ~f /\ Phase(e) = "open"
                 \/ f /\ q.cb = "ver" /\ Phase(e) = "closewait"
                 \/ (f \/ d) /\ Phase(e) = "closing" /\ (q.cb = "ota" => f)
                 \/ f /\ d /\ q.cb = "ver" /\ Phase(e) = "idle"
<1>1. q.st \notin Early /\ q.cb \in {"ota", "ver"}
  BY DEF Early, Shape
<1>2. /\ Shape(Finned(q, mem)) /\ Phase(Finned(q, mem)) = "closing"
  BY <1>1, FinnedShape, PhaseOf
<1>3. Phase(Free) = "idle"
  BY FreeShape, PhaseOf
<1>4. Phase(q) = IF f THEN "closewait" ELSE "open"
  BY <1>1, PhaseOf
<1> QED BY <1>1, <1>2, <1>3, <1>4, FreeShape DEF Served

\* A segment for a connection the application has not closed, with the
\* callbacks c it makes: a step from open, or from idle with accept.
LEMMA OpenMoves ==
    ASSUME NEW e, NEW cb \in {"ota", "ver"}, NEW d \in BOOLEAN, NEW f \in BOOLEAN,
           \/ ~f /\ Phase(e) = "open"
           \/ f /\ cb = "ver" /\ Phase(e) = "closewait"
           \/ (f \/ d) /\ Phase(e) = "closing" /\ (cb = "ota" => f)
           \/ f /\ d /\ cb = "ver" /\ Phase(e) = "idle"
    PROVE  LET c == (IF d THEN {"recv"} ELSE {}) \cup (IF f THEN {"eof"} ELSE {})
           IN /\ <<"open", Phase(e), c>> \in Contract!Steps
              /\ cb = "ota" => <<"idle", Phase(e), {"accept"} \cup c>> \in Contract!Steps
<1> DEFINE c == (IF d THEN {"recv"} ELSE {}) \cup (IF f THEN {"eof"} ELSE {})
<1>1. Contract!Step("open", Phase(e), c)
  BY DEF Contract!Step, Contract!Delivered
<1>2. cb = "ota" => Contract!Step("idle", Phase(e), {"accept"} \cup c)
  <2> SUFFICES ASSUME cb = "ota"
               PROVE  Contract!Accepted("idle", Phase(e), {"accept"} \cup c)
    BY DEF Contract!Step
  <2>1. CASE f
    BY <2>1 DEF Contract!Accepted
  <2>2. CASE ~f
    BY <2>2 DEF Contract!Accepted
  <2> QED BY <2>1, <2>2
<1>3. /\ c \in SUBSET Contract!Callbacks /\ {"accept"} \cup c \in SUBSET Contract!Callbacks
      /\ "open" \in Contract!Phases /\ "idle" \in Contract!Phases /\ Phase(e) \in Contract!Phases
  BY PhaseOf DEF Contract!Callbacks, Contract!Phases
<1> HIDE DEF c
<1>4. <<"open", Phase(e), c>> \in Contract!Steps
  BY <1>1, <1>3, InSteps
<1>5. cb = "ota" => <<"idle", Phase(e), {"accept"} \cup c>> \in Contract!Steps
  BY <1>2, <1>3, InSteps
<1> QED BY <1>4, <1>5 DEF c

\* A segment for one that the application has closed.
LEMMA ClosedMoves ==
    ASSUME NEW r, Good(r), Shape(r), r.st \notin Early, r.rxclosed, NEW e, NEW c,
           \/ e.st = "FREE" /\ c \in {{}, {"err"}}
           \/ e.st \notin Early /\ e.rxclosed /\ c \in {{}, {"eof"}}
    PROVE  Moves(r, e, c)
<1>1. Phase(r) = "closing"
  BY PhaseOf
<1>2. Contract!Step(Phase(r), Phase(e), c)
  BY <1>1, PhaseOf DEF Contract!Step, Contract!Closed, Contract!Failed, Contract!Idle
<1>3. c \in SUBSET Contract!Callbacks
  BY DEF Contract!Callbacks
<1> QED BY <1>2, <1>3, PhaseOf, InSteps DEF Moves

\* tcp_input after the acknowledgement, for the connection r: what is left of
\* the block, and the callbacks.
Text(r) == r.st \in {"ESTABLISHED", "FIN_WAIT_1", "FIN_WAIT_2"}
Got(r, data, fin) ==
    (IF Text(r) /\ data THEN {"recv"} ELSE {}) \cup (IF Text(r) /\ fin THEN {"eof"} ELSE {})
Left(r, data, fin, close, mem) ==
    IF Late(r, Text(r) /\ data) THEN Free
    ELSE Served(Processed(r, Text(r) /\ fin), Text(r) /\ data, Text(r) /\ fin, close, mem)
Told(r, data, fin) ==
    IF ~Late(r, Text(r) /\ data) THEN Got(r, data, fin)
    ELSE IF Processed(r, Text(r) /\ fin).st = "TIME_WAIT" THEN {} ELSE {"err"}

\* They are a step of the contract.
LEMMA InputMoves ==
    ASSUME NEW r, Good(r), Shape(r), r.st \notin Early, NEW data \in BOOLEAN,
           NEW fin \in BOOLEAN, NEW close \in BOOLEAN, NEW mem \in BOOLEAN
    PROVE  /\ Shape(Left(r, data, fin, close, mem))
           /\ Moves(r, Left(r, data, fin, close, mem), Told(r, data, fin))
           /\ Held(r) => /\ ~Late(r, Text(r) /\ data)
                         /\ <<"idle", Phase(Left(r, data, fin, close, mem)),
                              {"accept"} \cup Got(r, data, fin)>> \in Contract!Steps
<1> DEFINE text == r.st \in {"ESTABLISHED", "FIN_WAIT_1", "FIN_WAIT_2"}
           d == text /\ data
           f == text /\ fin
           q == Processed(r, f)
           late == Late(r, d)
           got == (IF d THEN {"recv"} ELSE {}) \cup (IF f THEN {"eof"} ELSE {})
           end  == IF late THEN Free ELSE Served(q, d, f, close, mem)
           told == IF ~late THEN got ELSE IF q.st = "TIME_WAIT" THEN {} ELSE {"err"}
<1>1. d \in BOOLEAN /\ f \in BOOLEAN
  OBVIOUS
<1>2. (d \/ f) => r.st \in {"ESTABLISHED", "FIN_WAIT_1", "FIN_WAIT_2"}
  OBVIOUS
<1>3. late <=> d /\ r.rxclosed
  BY DEF Late
<1> SUFFICES /\ Shape(end) /\ Moves(r, end, told)
             /\ Held(r) => ~late /\ <<"idle", Phase(end), {"accept"} \cup got>> \in Contract!Steps
  BY DEF Left, Told, Got, Text
<1> HIDE DEF text, d, f, late
<1>4. Good(q)
  BY <1>1, ProcessedGood
<1>5. \/ q = Free /\ r.st = "LAST_ACK"
      \/ /\ q.st \notin Early /\ q.cb = r.cb /\ q.rxclosed = r.rxclosed /\ Shape(q)
         /\ r.st = "ESTABLISHED" => q.st = IF f THEN "CLOSE_WAIT" ELSE "ESTABLISHED"
         /\ r.st = "CLOSE_WAIT" => q.st = "CLOSE_WAIT"
  BY <1>1, ProcessedShape
<1> HIDE DEF q
<1>6. CASE r.rxclosed
  <2>1. ~Held(r)
    BY <1>6 DEF Held
  <2>2. CASE d
    <3>1. end = Free /\ told \in {{}, {"err"}}
      BY <1>3, <1>6, <2>2
    <3> HIDE DEF end, told
    <3> QED BY <1>6, <2>1, <3>1, FreeShape, ClosedMoves
  <2>3. CASE ~d
    <3>1. end = Served(q, d, f, close, mem) /\ told = IF f THEN {"eof"} ELSE {}
      BY <1>3, <2>3
    <3>2. CASE q = Free /\ r.st = "LAST_ACK"
      <4>1. ~f
        BY <1>2, <3>2
      <4>2. end = Free /\ told = {}
        BY <2>3, <3>1, <3>2, <4>1 DEF Served
      <4> HIDE DEF end, told
      <4> QED BY <1>6, <2>1, <4>2, FreeShape, ClosedMoves
    <3>3. CASE q.st \notin Early /\ q.cb = r.cb /\ q.rxclosed = r.rxclosed /\ Shape(q)
      <4>1. end = q \/ end = Finned(q, mem)
        BY <2>3, <3>1 DEF Served
      <4>2. end.st \notin Early /\ end.rxclosed /\ Shape(end)
        BY <1>4, <1>6, <3>3, <4>1, FinnedShape
      <4> HIDE DEF end
      <4> QED BY <1>6, <2>1, <3>1, <4>2, ClosedMoves
    <3> QED BY <1>5, <3>2, <3>3
  <2> QED BY <1>1, <2>2, <2>3
<1>7. CASE ~r.rxclosed
  <2>1. r.st \in {"ESTABLISHED", "CLOSE_WAIT"}
    <3>1. r.st \in States /\ r.st \notin {"FIN_WAIT_1", "FIN_WAIT_2", "CLOSING", "LAST_ACK", "TIME_WAIT"}
      BY <1>7, Fields DEF Good, Shape
    <3> QED BY <3>1 DEF States, Early
  <2>2. ~late /\ told = got /\ end = Served(q, d, f, close, mem)
    BY <1>3, <1>7
  <2>3. q.st \notin Early /\ q.cb = r.cb /\ ~q.rxclosed /\ Shape(q)
    BY <1>5, <1>7, <2>1
  <2>4. CASE r.st = "ESTABLISHED"
    <3>1. q.st = IF f THEN "CLOSE_WAIT" ELSE "ESTABLISHED"
      BY <1>5, <2>4
    <3>2. Shape(end) /\ \/ ~f /\ Phase(end) = "open"
                        \/ f /\ q.cb = "ver" /\ Phase(end) = "closewait"
                        \/ (f \/ d) /\ Phase(end) = "closing" /\ (q.cb = "ota" => f)
                        \/ f /\ d /\ q.cb = "ver" /\ Phase(end) = "idle"
      BY <1>1, <1>4, <2>2, <2>3, <3>1, ServedOpen
    <3>3. q.cb \in {"ota", "ver"}
      BY <2>3 DEF Shape
    <3> HIDE DEF end, told
    <3>4. /\ <<"open", Phase(end), got>> \in Contract!Steps
          /\ q.cb = "ota" => <<"idle", Phase(end), {"accept"} \cup got>> \in Contract!Steps
      BY <1>1, <3>2, <3>3, OpenMoves
    <3>5. Phase(r) = "open"
      BY <1>7, <2>4, PhaseOf
    <3>6. Held(r) => q.cb = "ota"
      BY <2>3 DEF Held
    <3> HIDE DEF got
    <3> QED BY <2>2, <3>2, <3>4, <3>5, <3>6 DEF Moves
  <2>5. CASE r.st = "CLOSE_WAIT"
    <3>1. ~d /\ ~f
      BY <1>2, <2>5
    <3>2. end = q /\ told = {}
      BY <2>2, <3>1 DEF Served
    <3>3. Phase(q) = Phase(r)
      BY <1>5, <1>7, <2>3, <2>5, PhaseOf DEF Early
    <3>4. Moves(r, r, {})
      BY Stays
    <3>5. ~Held(r)
      BY <2>5 DEF Held
    <3> QED BY <2>3, <3>2, <3>3, <3>4, <3>5 DEF Moves
  <2> QED BY <2>1, <2>4, <2>5
<1> QED BY <1>6, <1>7

-----------------------------------------------------------------------------
(* The steps                                                               *)

Follows == \A p \in Pcbs : Shape(pcb'[p]) /\ Moves(pcb[p], pcb'[p], call'[p])

\* A step of one block.
LEMMA OneFollows ==
    ASSUME CInv, NEW p \in Pcbs, NEW b, pcb' = [pcb EXCEPT ![p] = b],
           \A q \in Pcbs \ {p} : call'[q] = {},
           Shape(b), Moves(pcb[p], b, call'[p])
    PROVE  Follows
<1>1. \A q \in Pcbs : pcb'[q] = IF q = p THEN b ELSE pcb[q]
  BY DEF CInv, PInv, TypeOK
<1>2. \A q \in Pcbs : Shape(pcb[q])
  BY DEF CInv
<1> SUFFICES ASSUME NEW q \in Pcbs
             PROVE  Shape(pcb'[q]) /\ Moves(pcb[q], pcb'[q], call'[q])
  BY DEF Follows
<1>3. CASE q = p
  BY <1>1, <1>3
<1>4. CASE q # p
  BY <1>1, <1>2, <1>4, Stays
<1> QED BY <1>3, <1>4

\* Who is told of an error.
LEMMA ErrsTells ==
    ASSUME NEW S, Errs(S), NEW p \in Pcbs
    PROVE  call'[p] = IF p \in S /\ pcb[p].cb \in {"ota", "ver"} THEN {"err"} ELSE {}
  BY DEF Errs, Calls, HasErrf

\* tcp_alloc takes a block away from its connection.
LEMMA KillFollows ==
    ASSUME CInv, NEW p \in Pcbs, Errs(Abandoned(p)), NEW b, b.st \in Early, Shape(b),
           pcb' = [pcb EXCEPT ![p] = b]
    PROVE  Follows
<1>1. \A q \in Pcbs \ {p} : call'[q] = {}
  BY ErrsTells DEF Abandoned
<1>2. call'[p] = IF pcb[p].cb \in {"ota", "ver"} /\ pcb[p].st # "TIME_WAIT" THEN {"err"} ELSE {}
  BY ErrsTells DEF Abandoned, Is
<1>3. Good(pcb[p]) /\ Shape(pcb[p])
  BY DEF CInv, PInv
<1>4. Moves(pcb[p], b, call'[p])
  BY <1>2, <1>3, Goes
<1> QED BY <1>1, <1>4, OneFollows

\* The calls of the program and a SYN.
LEMMA AllocFollows ==
    ASSUME CInv, Version_Check_Start \/ OTA_Server_Start \/ tcp_listen_input
    PROVE  Follows
<1> DEFINE syn == Block("SYN_SENT", "none", FALSE, TRUE, 0, 0)
           rcvd == Block("SYN_RCVD", "listener", FALSE, TRUE, 0, 0)
<1>1. /\ Shape(syn) /\ syn.st \in Early /\ Shape(rcvd) /\ rcvd.st \in Early
  BY SMT DEF Shape, Block, Early
<1>2. Shape(Free) /\ Free.st \in Early
  BY FreeShape DEF Early
<1>3. \E p \in Slots : Errs(Abandoned(p)) /\ \E b \in {syn, rcvd, Free} : pcb' = [pcb EXCEPT ![p] = b]
  BY DEF Version_Check_Start, OTA_Server_Start, tcp_listen_input
<1> HIDE DEF syn, rcvd
<1> QED BY <1>1, <1>2, <1>3, SlotsArePcbs, KillFollows

\* A reset.
LEMMA ResetFollows ==
    ASSUME CInv, NEW p \in Pcbs, Reset(p)
    PROVE  Follows
<1>1. pcb[p].st # "TIME_WAIT" /\ Good(pcb[p]) /\ Shape(pcb[p])
  BY DEF Reset, tcp_active_pcbs, tcp_tw_pcbs, Is, CInv, PInv
<1>2. \A q \in Pcbs \ {p} : call'[q] = {}
  BY ErrsTells DEF Reset
<1>3. call'[p] = IF pcb[p].cb \in {"ota", "ver"} /\ pcb[p].st # "TIME_WAIT" THEN {"err"} ELSE {}
  BY <1>1, ErrsTells DEF Reset
<1>4. Moves(pcb[p], Free, call'[p])
  BY SMTT(30), <1>1, <1>3, FreeShape, Goes DEF Early
<1>5. pcb' = [pcb EXCEPT ![p] = Free]
  BY DEF Reset
<1> QED BY <1>2, <1>4, <1>5, FreeShape, OneFollows

\* The end of a handshake of the version client.
LEMMA SynAckFollows ==
    ASSUME CInv, NEW p \in Pcbs, SynAck(p)
    PROVE  Follows
<1> DEFINE b(sent) == Block("ESTABLISHED", "ver", FALSE, sent, pcb[p].rtx, 0)
<1>1. PICK sent \in BOOLEAN : pcb' = [pcb EXCEPT ![p] = b(sent)]
  BY DEF SynAck
<1>2. call'[p] = {"connected"} /\ \A q \in Pcbs \ {p} : call'[q] = {}
  BY DEF SynAck, Calls
<1>3. Shape(b(sent)) /\ b(sent).st = "ESTABLISHED" /\ ~b(sent).rxclosed
  BY SMT DEF Shape, Block, Early
<1> HIDE DEF b
<1>4. Phase(pcb[p]) = "syn" /\ Phase(b(sent)) = "open"
  BY <1>3, PhaseOf DEF SynAck, Is
<1>5. Contract!Step("syn", "open", {"connected"})
  BY DEF Contract!Step, Contract!Attempt
<1>6. "syn" \in Contract!Phases /\ "open" \in Contract!Phases /\ {"connected"} \in SUBSET Contract!Callbacks
  BY DEF Contract!Phases, Contract!Callbacks
<1>7. Moves(pcb[p], b(sent), call'[p])
  BY <1>2, <1>4, <1>5, <1>6, InSteps DEF Moves
<1> QED BY <1>1, <1>2, <1>3, <1>7, OneFollows

\* A handshake of a client that is not wanted.
LEMMA RejectedFollows ==
    ASSUME CInv, NEW p \in Pcbs, Rejected(p)
    PROVE  Follows
<1>1. call'[p] \in {{}, {"accept"}} /\ \A q \in Pcbs \ {p} : call'[q] = {}
  BY DEF Rejected, Calls
<1>2. Phase(pcb[p]) = "idle" /\ Phase(Free) = "idle"
  BY FreeShape, PhaseOf DEF Rejected, Is
<1>3. Contract!Step("idle", "idle", call'[p])
  BY <1>1 DEF Contract!Step, Contract!Attempt, Contract!Accepted, Contract!Idle
<1>4. "idle" \in Contract!Phases /\ call'[p] \in SUBSET Contract!Callbacks
  BY <1>1 DEF Contract!Phases, Contract!Callbacks
<1>5. Moves(pcb[p], Free, call'[p])
  BY <1>2, <1>3, <1>4, InSteps DEF Moves
<1>6. pcb' = [pcb EXCEPT ![p] = Free]
  BY DEF Rejected
<1> QED BY <1>1, <1>5, <1>6, FreeShape, OneFollows

\* A repeated FIN.
LEMMA TimeWaitFollows ==
    ASSUME CInv, NEW p \in Pcbs, TimeWaitFin(p)
    PROVE  Follows
<1> DEFINE b == Block("TIME_WAIT", pcb[p].cb, TRUE, FALSE, 0, 0)
<1>1. \A q \in Pcbs : call'[q] = {}
  BY DEF TimeWaitFin, Calls
<1>2. pcb[p].st = "TIME_WAIT" /\ Good(pcb[p]) /\ Shape(pcb[p])
  BY DEF TimeWaitFin, tcp_tw_pcbs, Is, CInv, PInv
<1>3. pcb[p].st \notin Early /\ pcb[p].rxclosed /\ pcb[p].cb \in {"ota", "ver"}
  BY <1>2 DEF Early, Shape
<1>4. b.st = "TIME_WAIT" /\ b.rxclosed /\ b.cb = pcb[p].cb
  BY SMT DEF Block
<1>5. pcb' = [pcb EXCEPT ![p] = b]
  BY DEF TimeWaitFin
<1> HIDE DEF b
<1>6. Shape(b) /\ b.st \notin Early
  BY <1>3, <1>4 DEF Shape, Early
<1>7. Moves(pcb[p], b, {})
  BY <1>2, <1>3, <1>4, <1>6, ClosedMoves
<1> QED BY <1>1, <1>5, <1>6, <1>7, OneFollows

\* A segment for a connection.
LEMMA SegmentFollows ==
    ASSUME CInv, NEW p \in Pcbs, Segment(p)
    PROVE  Follows
<1>1. PICK ack \in {"all", "some", "none"}, data \in BOOLEAN, fin \in BOOLEAN,
           close \in BOOLEAN, mem \in BOOLEAN : tcp_input(p, ack, data, fin, close, mem)
  BY DEF Segment
<1> DEFINE new == Is(p, {"SYN_RCVD"})
           r   == IF new THEN Block("ESTABLISHED", "ota", FALSE, FALSE, 0, 0)
                  ELSE Acked(pcb[p], ack)
           end == Left(r, data, fin, close, mem)
           told == IF ~Late(r, Text(r) /\ data)
                   THEN (IF new THEN {"accept"} ELSE {}) \cup
                        (IF Text(r) /\ data THEN {"recv"} ELSE {}) \cup
                        (IF Text(r) /\ fin THEN {"eof"} ELSE {})
                   ELSE IF Processed(r, Text(r) /\ fin).st = "TIME_WAIT" THEN {} ELSE {"err"}
<1>2. pcb' = [pcb EXCEPT ![p] = end] /\ Calls([x \in {p} |-> told])
  BY <1>1 DEF tcp_input, Left, Text
<1> HIDE DEF r, end
<1>3. /\ ~new => call'[p] = Told(r, data, fin)
      /\ new /\ ~Late(r, Text(r) /\ data) => call'[p] = {"accept"} \cup Got(r, data, fin)
      /\ \A x \in Pcbs \ {p} : call'[x] = {}
  <2>1. call'[p] = told /\ \A x \in Pcbs \ {p} : call'[x] = {}
    <3> HIDE DEF told
    <3> QED BY <1>2 DEF Calls
  <2>2. ~new => told = Told(r, data, fin)
    BY DEF Told, Got
  <2>3. new /\ ~Late(r, Text(r) /\ data) => told = {"accept"} \cup Got(r, data, fin)
    BY DEF Got
  <2> QED BY <2>1, <2>2, <2>3
<1> HIDE DEF told
<1>4. Good(pcb[p]) /\ Shape(pcb[p])
  BY DEF CInv, PInv
<1>5. /\ Good(r) /\ Shape(r) /\ r.st \notin Early
      /\ new => Held(r) /\ Phase(pcb[p]) = "idle"
      /\ ~new => Phase(pcb[p]) = Phase(r)
  <2>1. CASE new
    <3> DEFINE b == Block("ESTABLISHED", "ota", FALSE, FALSE, 0, 0)
    <3>1. Good(b)
      BY Bounds, SMT DEF Good, Block, Record, States
    <3>2. Shape(b) /\ Held(b) /\ b.st \notin Early
      BY SMT DEF Held, Block, Shape, Early
    <3>3. r = b /\ Phase(pcb[p]) = "idle"
      BY <2>1, PhaseOf DEF r, Is
    <3> HIDE DEF b, new
    <3> QED BY <2>1, <3>1, <3>2, <3>3
  <2>2. CASE ~new
    <3>1. r = Acked(pcb[p], ack)
      BY <2>2 DEF r
    <3>2. /\ Good(r) /\ r.st = pcb[p].st /\ r.cb = pcb[p].cb /\ r.rxclosed = pcb[p].rxclosed
      BY <1>4, <3>1, AckedGood
    <3>3. pcb[p].st \notin Early
      BY <2>2 DEF Segment, tcp_active_pcbs, Frees, Is, Early
    <3>4. Phase(r) = Phase(pcb[p])
      BY <3>2, <3>3, PhaseOf
    <3> HIDE DEF new
    <3> QED BY <1>4, <2>2, <3>2, <3>3, <3>4 DEF Shape
  <2> QED BY <2>1, <2>2
<1>6. /\ Shape(end) /\ Moves(r, end, Told(r, data, fin))
      /\ Held(r) => /\ ~Late(r, Text(r) /\ data)
                    /\ <<"idle", Phase(end), {"accept"} \cup Got(r, data, fin)>> \in Contract!Steps
  BY <1>5, InputMoves DEF end
<1> HIDE DEF new
<1>7. Moves(pcb[p], end, call'[p])
  BY <1>3, <1>5, <1>6 DEF Moves
<1> QED BY <1>2, <1>3, <1>6, <1>7, OneFollows

\* Stopping the server.
LEMMA StopFollows ==
    ASSUME CInv, OTA_Server_Stop
    PROVE  Follows
<1> SUFFICES ASSUME NEW p \in Pcbs
             PROVE  Shape(pcb'[p]) /\ Moves(pcb[p], pcb'[p], call'[p])
  BY DEF Follows
<1> DEFINE b == Block(pcb[p].st, "none", FALSE, pcb[p].una, pcb[p].rtx, pcb[p].age)
<1>1. Good(pcb[p]) /\ Shape(pcb[p])
  BY DEF CInv, PInv
<1>2. pcb'[p] = IF p \in Client THEN Free ELSE IF pcb[p].cb # "listener" THEN pcb[p] ELSE b
  BY DEF OTA_Server_Stop, Stopped
<1>3. call'[p] = IF p \in Client /\ pcb[p].cb \in {"ota", "ver"} THEN {"err"} ELSE {}
  BY ErrsTells DEF OTA_Server_Stop
<1>4. p \in Client => pcb[p].st = "ESTABLISHED"
  BY DEF Client, CInv, PInv, HandleIsLive, Held
<1>5. CASE p \in Client
  <2>1. call'[p] = IF pcb[p].cb \in {"ota", "ver"} /\ pcb[p].st # "TIME_WAIT" THEN {"err"} ELSE {}
    BY <1>3, <1>4, <1>5
  <2> QED BY SMTT(30), <1>1, <1>2, <1>5, <2>1, FreeShape, Goes DEF Early
<1>6. CASE p \notin Client /\ pcb[p].cb # "listener"
  BY <1>1, <1>2, <1>3, <1>6, Stays
<1>7. CASE p \notin Client /\ pcb[p].cb = "listener"
  <2>1. pcb[p].st \in Early /\ call'[p] = {}
    BY <1>1, <1>3, <1>7 DEF Shape
  <2>2. b.st = pcb[p].st /\ b.cb = "none" /\ b.rxclosed = FALSE
    BY OrphanFields
  <2> HIDE DEF b
  <2>3. Shape(b)
    BY <2>1, <2>2 DEF Shape, Early
  <2>4. Moves(pcb[p], b, {})
    <3>1. {} = IF pcb[p].cb \in {"ota", "ver"} /\ pcb[p].st # "TIME_WAIT" THEN {"err"} ELSE {}
      BY <1>7
    <3> QED BY <1>1, <2>1, <2>2, <3>1, Goes
  <2> QED BY <1>2, <1>7, <2>1, <2>3, <2>4
<1> QED BY <1>5, <1>6, <1>7

\* A slow tick removes a block or leaves its connection as it is.
LEMMA TickedShape ==
    ASSUME NEW r, Good(r), Shape(r), NEW again \in BOOLEAN
    PROVE  \/ Ticked(r, again) = Free
           \/ /\ r.st # "FREE" /\ Ticked(r, again).st = r.st
              /\ Shape(Ticked(r, again)) /\ Phase(Ticked(r, again)) = Phase(r)
<1> DEFINE rtx == IF again THEN r.rtx + 1 ELSE r.rtx
           age == IF r.age < MaxAge THEN r.age + 1 ELSE r.age
           b == Block(r.st, r.cb, r.rxclosed, r.una, rtx, age)
<1>1. Ticked(r, again) = IF r.st = "FREE" \/ Expired(r) THEN Free ELSE b
  BY DEF Ticked
<1> HIDE DEF rtx, age
<1>2. b.st = r.st /\ b.cb = r.cb /\ b.rxclosed = r.rxclosed
  BY SMT DEF Block
<1> HIDE DEF b
<1>3. Shape(b)
  BY <1>2 DEF Shape
<1>4. Phase(b) = Phase(r)
  BY <1>2 DEF Phase
<1> QED BY <1>1, <1>2, <1>3, <1>4

\* A run of the TCP timer.
LEMMA TimerFollows ==
    ASSUME CInv, NEW M \in SUBSET ClosePending, NEW slow \in BOOLEAN,
           NEW R \in SUBSET Outstanding, tcpip_tcp_timer(M, slow, R)
    PROVE  Follows
<1> DEFINE fast == [p \in Pcbs |-> IF p \in M THEN Finned(pcb[p], TRUE) ELSE pcb[p]]
           t == IF slow THEN [p \in Pcbs |-> Ticked(fast[p], p \in R)] ELSE fast
           removed == {p \in tcp_active_pcbs : t[p].st = "FREE"}
<1>1. pcb' = t /\ Errs(removed)
  BY DEF tcpip_tcp_timer
<1> SUFFICES ASSUME NEW p \in Pcbs
             PROVE  Shape(pcb'[p]) /\ Moves(pcb[p], pcb'[p], call'[p])
  BY DEF Follows
<1>2. Good(pcb[p]) /\ Shape(pcb[p])
  BY DEF CInv, PInv
<1>3. fast[p] = IF p \in M THEN Finned(pcb[p], TRUE) ELSE pcb[p]
  OBVIOUS
<1>4. t[p] = IF slow THEN Ticked(fast[p], p \in R) ELSE fast[p]
  OBVIOUS
<1>5. call'[p] = IF p \in removed /\ pcb[p].cb \in {"ota", "ver"} THEN {"err"} ELSE {}
  BY <1>1, ErrsTells
<1>6. p \in removed <=> pcb[p].st \notin {"FREE", "TIME_WAIT"} /\ t[p].st = "FREE"
  BY DEF tcp_active_pcbs, Frees, tcp_tw_pcbs, Is
<1> HIDE DEF fast, t, removed
<1>7. /\ Good(fast[p]) /\ Shape(fast[p]) /\ Phase(fast[p]) = Phase(pcb[p])
      /\ fast[p].st = "FREE" <=> pcb[p].st = "FREE"
  <2>1. CASE p \in M
    <3>1. pcb[p].st \notin Early /\ pcb[p].rxclosed
      BY <2>1 DEF ClosePending, Is, Early
    <3>2. /\ Good(Finned(pcb[p], TRUE)) /\ Shape(Finned(pcb[p], TRUE))
          /\ Finned(pcb[p], TRUE).st \notin Early /\ Finned(pcb[p], TRUE).rxclosed
      BY <1>2, <3>1, FinnedGood, FinnedShape
    <3>3. Phase(pcb[p]) = "closing" /\ Phase(Finned(pcb[p], TRUE)) = "closing"
      BY <3>1, <3>2, PhaseOf
    <3> QED BY <1>3, <2>1, <3>1, <3>2, <3>3 DEF Early
  <2>2. CASE p \notin M
    BY <1>2, <1>3, <2>2
  <2> QED BY <2>1, <2>2
<1>8. \/ t[p] = Free
      \/ t[p].st # "FREE" /\ Shape(t[p]) /\ Phase(t[p]) = Phase(pcb[p])
      \/ t[p] = pcb[p]
  <2>1. CASE slow
    <3>1. (p \in R) \in BOOLEAN
      OBVIOUS
    <3> QED BY <1>4, <1>7, <2>1, <3>1, TickedShape
  <2>2. CASE ~slow
    <3>1. t[p] = fast[p]
      BY <1>4, <2>2
    <3>2. CASE pcb[p].st = "FREE"
      <4>1. p \notin M
        BY <3>2 DEF ClosePending, Is
      <4> QED BY <1>3, <3>1, <4>1
    <3>3. CASE pcb[p].st # "FREE"
      <4>1. t[p].st # "FREE"
        BY <1>7, <3>1, <3>3
      <4> QED BY <1>7, <3>1, <4>1, Zenon
    <3> QED BY <3>2, <3>3
  <2> QED BY <2>1, <2>2
<1>9. pcb'[p] = t[p]
  BY <1>1
<1>10. CASE t[p].st = "FREE"
  <2>1. Shape(t[p]) /\ t[p].st \in Early
    BY <1>2, <1>8, <1>10, FreeShape DEF Early
  <2>2. call'[p] = IF pcb[p].cb \in {"ota", "ver"} /\ pcb[p].st # "TIME_WAIT" THEN {"err"} ELSE {}
    <3>1. pcb[p].st = "FREE" => pcb[p].cb \notin {"ota", "ver"}
      BY <1>2 DEF Shape, Early
    <3> QED BY <1>5, <1>6, <1>10, <3>1
  <2>3. Moves(pcb[p], t[p], call'[p])
    BY <1>2, <2>1, <2>2, Goes
  <2> QED BY <1>9, <2>1, <2>3
<1>11. CASE t[p].st # "FREE"
  <2>1. Shape(t[p]) /\ Phase(t[p]) = Phase(pcb[p])
    BY <1>2, <1>8, <1>11, FreeShape
  <2>2. call'[p] = {}
    BY <1>5, <1>6, <1>11
  <2>3. Moves(pcb[p], pcb[p], {})
    BY Stays
  <2> QED BY <1>9, <2>1, <2>2, <2>3 DEF Moves
<1> QED BY <1>10, <1>11

-----------------------------------------------------------------------------
(* The theorem                                                             *)

\* Every step follows the contract.
LEMMA NextFollows ==
    ASSUME CInv, Next
    PROVE  Follows
<1>1. CASE Version_Check_Start \/ OTA_Server_Start \/ tcp_listen_input
  BY <1>1, AllocFollows
<1>2. CASE OTA_Server_Stop
  BY <1>2, StopFollows
<1>3. CASE Tick
  <2>1. PICK M \in SUBSET ClosePending :
            \/ tcpip_tcp_timer(M, FALSE, {})
            \/ \E R \in SUBSET Outstanding : tcpip_tcp_timer(M, TRUE, R)
    BY <1>3 DEF Tick
  <2>2. {} \in SUBSET Outstanding /\ TRUE \in BOOLEAN /\ FALSE \in BOOLEAN
    BY Zenon
  <2> QED BY <2>1, <2>2, TimerFollows
<1>4. CASE Silence
  <2>1. \A p \in Pcbs : call'[p] = {} /\ pcb'[p] = pcb[p] /\ Shape(pcb[p])
    BY <1>4 DEF Silence, Calls, CInv
  <2> QED BY <2>1, Stays DEF Follows
<1>5. ASSUME NEW p \in Pcbs,
             SynAck(p) \/ Rejected(p) \/ Segment(p) \/ Reset(p) \/ TimeWaitFin(p)
      PROVE  Follows
  BY <1>5, SynAckFollows, RejectedFollows, SegmentFollows, ResetFollows, TimeWaitFollows
<1> QED BY <1>1, <1>2, <1>3, <1>4, <1>5 DEF Next

\* Every block keeps its shape, and every step is one of the contract.
LEMMA StepFollows ==
    ASSUME CInv, [Next]_vars
    PROVE  CInv' /\ [Contract!Next]_<<phase, call>>
<1>1. PInv'
  BY StepKeeps DEF CInv
<1>2. CASE Next
  <2>1. Follows
    BY <1>2, NextFollows
  <2>2. CInv'
    BY <1>1, <2>1 DEF CInv, Follows, Shape, Early
  <2>3. \A p \in Pcbs : <<phase[p], phase'[p], call'[p]>> \in Contract!Steps
    <3>1. \A p \in Pcbs : phase[p] = Phase(pcb[p])
      BY DEF phase
    <3>2. \A p \in Pcbs : phase'[p] = Phase(pcb'[p])
      BY DEF phase, Phase
    <3> QED BY <2>1, <3>1, <3>2 DEF Follows, Moves
  <2>4. DOMAIN phase' = Pcbs /\ DOMAIN call' = Pcbs
    BY <1>1 DEF phase, PInv, TypeOK
  <2> QED BY <2>2, <2>3, <2>4 DEF Contract!Next
<1>3. CASE UNCHANGED vars
  <2>1. CInv'
    BY <1>1, <1>3 DEF CInv, vars, Shape, Early
  <2>2. UNCHANGED <<phase, call>>
    BY <1>3 DEF vars, phase, Phase
  <2> QED BY <2>1, <2>2
<1> QED BY <1>2, <1>3

\* The initial states.
LEMMA InitFollows ==
    ASSUME Init
    PROVE  CInv /\ Contract!Init
<1>1. \A p \in Pcbs : pcb[p] = Free
  BY DEF Init
<1>2. CInv
  BY <1>1, InitKeeps, FreeShape DEF CInv
<1>3. phase = [p \in Pcbs |-> "idle"]
  BY <1>1, FreeShape, PhaseOf DEF phase
<1> QED BY <1>2, <1>3 DEF Contract!Init, Init

\* lwIP's control blocks implement the contract that ota.c and version_check.c
\* are written for: accept or connected first, no data after the end of file or
\* a close, one error callback as the last (TCP_EVENT_* of tcp_priv.h).
THEOREM PcbsKeepContract == Spec => ImplementsContract
<1> QED BY InitFollows, StepFollows, PTL DEF Spec, ImplementsContract, Contract!Spec

-----------------------------------------------------------------------------
(* The blocks of silent peers come back                                    *)

\* A handshake or a FIN that is not acknowledged is outstanding, so that
\* tcp_slowtmr retransmits it and counts.
Unacked == {"SYN_SENT", "SYN_RCVD", "FIN_WAIT_1", "CLOSING", "LAST_ACK"}
Waiting(r) == r.st \in Unacked => r.una

AInv == CInv /\ \A p \in Pcbs : Waiting(pcb[p])

\* What tcp_slowtmr has still to count before it removes a block: a pending FIN is
\* sent first, then the retransmissions are counted, or the ticks.
Wait(r) ==
    CASE r.st \in {"ESTABLISHED", "CLOSE_WAIT"} -> MaxRtx + 2
      [] r.st \in {"FIN_WAIT_2", "TIME_WAIT"} -> MaxAge - r.age
      [] OTHER -> MaxRtx - r.rtx

Ends(r) == r.rxclosed \/ r.st \in {"SYN_RCVD", "SYN_SENT"}

\* tcp_alloc gives the block of p to the version client.
GivenAway(p) == Version_Check_Start /\ p \in Slots /\ v_pcb' = p

\* Once the peers are silent, a block whose connection is to end is given back, or
\* no step puts its removal off and every full tick brings it closer.
BlocksAge ==
    [][quiet => \A p \in Pcbs : Ending(p) =>
          \/ ~Ending(p)' \/ GivenAway(p)
          \/ /\ Wait(pcb'[p]) <= Wait(pcb[p])
             /\ FullTick => Wait(pcb'[p]) < Wait(pcb[p])]_vars

\* The count is a natural.
Counted == \A p \in Pcbs : Ending(p) => Wait(pcb[p]) \in Nat

\* A count that stays is not raised.
LEMMA NotRaised == ASSUME NEW m \in Nat, NEW n, n = m PROVE n <= m
  OBVIOUS

\* A free block waits for nothing.
LEMMA FreeWaits == Waiting(Free) /\ ~Ends(Free)
  BY SMT DEF Waiting, Unacked, Ends, Free, Block

\* A FIN is outstanding (tcp_close_shutdown_fin).
LEMMA FinnedWaits ==
    ASSUME NEW r, Waiting(r), NEW mem \in BOOLEAN
    PROVE  Waiting(Finned(r, mem))
<1>1. CASE mem
  <2>1. Finned(r, mem).una
    BY <1>1, SMT DEF Finned, Block
  <2> QED BY <2>1 DEF Waiting
<1>2. CASE ~mem
  <2>1. Finned(r, mem).una = r.una /\ Finned(r, mem).st = r.st
    BY <1>2, SMT DEF Finned, Block
  <2> QED BY <2>1 DEF Waiting
<1> QED BY <1>1, <1>2

\* An acknowledgement of the FIN moves the state on (tcp_process).
LEMMA ProcessedWaits ==
    ASSUME NEW r, Good(r), r.st \notin Early, NEW fin \in BOOLEAN
    PROVE  Waiting(Processed(r, fin))
<1> DEFINE st == CASE r.st = "ESTABLISHED" /\ fin -> "CLOSE_WAIT"
                [] r.st = "FIN_WAIT_1" /\ fin -> (IF r.una THEN "CLOSING" ELSE "TIME_WAIT")
                [] r.st = "FIN_WAIT_1" /\ ~fin -> (IF r.una THEN "FIN_WAIT_1" ELSE "FIN_WAIT_2")
                [] r.st = "FIN_WAIT_2" /\ fin -> "TIME_WAIT"
                [] r.st = "CLOSING" /\ ~r.una -> "TIME_WAIT"
                [] r.st = "LAST_ACK" /\ ~r.una -> "FREE"
                [] OTHER -> r.st
           b == Block(st, r.cb, r.rxclosed, r.una, r.rtx, r.age)
<1>1. st \in Unacked => r.una
  BY DEF Unacked, Early
<1>2. Processed(r, fin) = IF st = "FREE" THEN Free ELSE b
  BY DEF Processed
<1> HIDE DEF st
<1>3. b.st = st /\ b.una = r.una
  BY SMT DEF Block
<1> HIDE DEF b
<1> QED BY <1>1, <1>2, <1>3, FreeWaits DEF Waiting

\* So does what the callbacks leave (ota_recv_cb, v_recv_cb).
LEMMA LeftWaits ==
    ASSUME NEW r, Good(r), r.st \notin Early, NEW data \in BOOLEAN, NEW fin \in BOOLEAN,
           NEW close \in BOOLEAN, NEW mem \in BOOLEAN
    PROVE  Waiting(Left(r, data, fin, close, mem))
<1>1. (Text(r) /\ fin) \in BOOLEAN
  OBVIOUS
<1>2. Waiting(Processed(r, Text(r) /\ fin))
  BY <1>1, ProcessedWaits, Zenon
<1>3. Waiting(Finned(Processed(r, Text(r) /\ fin), mem))
  BY <1>2, FinnedWaits
<1> QED BY <1>2, <1>3, FreeWaits DEF Left, Served

\* A slow tick removes a block or changes only its counters (tcp_slowtmr).
LEMMA TickedFields ==
    ASSUME NEW r, NEW again
    PROVE  \/ Ticked(r, again) = Free
           \/ /\ r.st # "FREE" /\ ~Expired(r)
              /\ Ticked(r, again).st = r.st /\ Ticked(r, again).una = r.una
              /\ Ticked(r, again).rxclosed = r.rxclosed
              /\ Ticked(r, again).rtx = IF again THEN r.rtx + 1 ELSE r.rtx
              /\ Ticked(r, again).age = IF r.age < MaxAge THEN r.age + 1 ELSE r.age
<1> DEFINE rtx == IF again THEN r.rtx + 1 ELSE r.rtx
           age == IF r.age < MaxAge THEN r.age + 1 ELSE r.age
           b == Block(r.st, r.cb, r.rxclosed, r.una, rtx, age)
<1>1. Ticked(r, again) = IF r.st = "FREE" \/ Expired(r) THEN Free ELSE b
  BY DEF Ticked
<1> HIDE DEF rtx, age
<1>2. b.st = r.st /\ b.una = r.una /\ b.rxclosed = r.rxclosed /\ b.rtx = rtx /\ b.age = age
  BY SMT DEF Block
<1> HIDE DEF b
<1> QED BY <1>1, <1>2 DEF rtx, age

\* A step that replaces one block keeps the others waiting.
LEMMA OneWaits ==
    ASSUME AInv, NEW p \in Pcbs, NEW b, Waiting(b), pcb' = [pcb EXCEPT ![p] = b]
    PROVE  \A q \in Pcbs : Waiting(pcb'[q])
<1>1. \A q \in Pcbs : pcb'[q] = IF q = p THEN b ELSE pcb[q]
  BY DEF AInv, CInv, PInv, TypeOK
<1> QED BY <1>1 DEF AInv

\* So do the calls of tcp_alloc: a handshake starts with a SYN outstanding.
LEMMA AllocWaits ==
    ASSUME AInv, Version_Check_Start \/ OTA_Server_Start \/ tcp_listen_input
    PROVE  \A q \in Pcbs : Waiting(pcb'[q])
<1> DEFINE syn == Block("SYN_SENT", "none", FALSE, TRUE, 0, 0)
           rcvd == Block("SYN_RCVD", "listener", FALSE, TRUE, 0, 0)
<1>1. Waiting(syn) /\ Waiting(rcvd)
  BY SMT DEF Waiting, Block
<1>2. \E p \in Slots : \E b \in {syn, rcvd, Free} : pcb' = [pcb EXCEPT ![p] = b]
  BY DEF Version_Check_Start, OTA_Server_Start, tcp_listen_input
<1> HIDE DEF syn, rcvd
<1> QED BY <1>1, <1>2, FreeWaits, SlotsArePcbs, OneWaits

\* A segment.
LEMMA SegmentWaits ==
    ASSUME AInv, NEW p \in Pcbs, Segment(p)
    PROVE  \A q \in Pcbs : Waiting(pcb'[q])
<1>1. PICK ack \in {"all", "some", "none"}, data \in BOOLEAN, fin \in BOOLEAN,
           close \in BOOLEAN, mem \in BOOLEAN : tcp_input(p, ack, data, fin, close, mem)
  BY DEF Segment
<1> DEFINE new == Is(p, {"SYN_RCVD"})
           r   == IF new THEN Block("ESTABLISHED", "ota", FALSE, FALSE, 0, 0)
                  ELSE Acked(pcb[p], ack)
<1>2. pcb' = [pcb EXCEPT ![p] = Left(r, data, fin, close, mem)]
  BY <1>1 DEF tcp_input, Left, Text
<1>3. Good(r) /\ r.st \notin Early
  <2>1. CASE new
    <3>1. Good(Block("ESTABLISHED", "ota", FALSE, FALSE, 0, 0))
      BY Bounds, SMT DEF Good, Block, Record, States
    <3>2. Block("ESTABLISHED", "ota", FALSE, FALSE, 0, 0).st \notin Early
      BY SMT DEF Block, Early
    <3> QED BY <2>1, <3>1, <3>2
  <2>2. CASE ~new
    <3>1. Good(pcb[p])
      BY DEF AInv, CInv, PInv
    <3>2. pcb[p].st \notin Early
      BY <2>2 DEF Segment, tcp_active_pcbs, Frees, Is, Early
    <3>3. r = Acked(pcb[p], ack)
      BY <2>2
    <3> HIDE DEF r, new
    <3> QED BY <3>1, <3>2, <3>3, AckedGood
  <2> QED BY <2>1, <2>2
<1> HIDE DEF r
<1>4. Waiting(Left(r, data, fin, close, mem))
  BY <1>3, LeftWaits
<1> QED BY <1>2, <1>4, OneWaits

\* The other events of one block.
LEMMA EventWaits ==
    ASSUME AInv, NEW p \in Pcbs, SynAck(p) \/ Rejected(p) \/ Reset(p) \/ TimeWaitFin(p)
    PROVE  \A q \in Pcbs : Waiting(pcb'[q])
<1> DEFINE b(sent) == Block("ESTABLISHED", "ver", FALSE, sent, pcb[p].rtx, 0)
           w == Block("TIME_WAIT", pcb[p].cb, TRUE, FALSE, 0, 0)
<1>1. Waiting(b(TRUE)) /\ Waiting(b(FALSE)) /\ Waiting(w)
  BY SMT DEF Waiting, Unacked, Block
<1>2. \E x \in {b(TRUE), b(FALSE), w, Free} : pcb' = [pcb EXCEPT ![p] = x]
  BY DEF SynAck, Rejected, Reset, TimeWaitFin
<1> HIDE DEF b, w
<1> QED BY <1>1, <1>2, FreeWaits, OneWaits

\* Stopping the server changes whose callbacks are registered.
LEMMA StopFields ==
    ASSUME AInv, OTA_Server_Stop, NEW p \in Pcbs
    PROVE  \/ pcb'[p] = Free \/ pcb'[p] = pcb[p]
           \/ /\ pcb[p].cb = "listener" /\ pcb'[p].st = pcb[p].st /\ pcb'[p].una = pcb[p].una
              /\ pcb'[p].rtx = pcb[p].rtx /\ pcb'[p].age = pcb[p].age
<1> DEFINE b == Block(pcb[p].st, "none", FALSE, pcb[p].una, pcb[p].rtx, pcb[p].age)
<1>1. /\ b.st = pcb[p].st /\ b.una = pcb[p].una /\ b.rtx = pcb[p].rtx /\ b.age = pcb[p].age
  BY OrphanFields
<1>2. pcb'[p] = IF p \in Client THEN Free ELSE IF pcb[p].cb # "listener" THEN pcb[p] ELSE b
  BY DEF OTA_Server_Stop, Stopped
<1> HIDE DEF b
<1> QED BY <1>1, <1>2

\* A tick is a run of the timer.
LEMMA TimerRun ==
    ASSUME Tick
    PROVE  \E M \in SUBSET ClosePending, slow \in BOOLEAN, R \in SUBSET Outstanding :
              tcpip_tcp_timer(M, slow, R)
<1>1. PICK M \in SUBSET ClosePending :
          \/ tcpip_tcp_timer(M, FALSE, {})
          \/ \E R \in SUBSET Outstanding : tcpip_tcp_timer(M, TRUE, R)
  BY DEF Tick
<1>2. {} \in SUBSET Outstanding /\ TRUE \in BOOLEAN /\ FALSE \in BOOLEAN
  BY Zenon
<1> QED BY <1>1, <1>2, Zenon

\* Every step keeps what is not acknowledged outstanding.
LEMMA StepWaits ==
    ASSUME AInv, [Next]_vars
    PROVE  AInv'
<1>1. CInv'
  BY StepFollows DEF AInv
<1>2. \A q \in Pcbs : Waiting(pcb'[q])
  <2>1. CASE Version_Check_Start \/ OTA_Server_Start \/ tcp_listen_input
    BY <2>1, AllocWaits
  <2>2. CASE OTA_Server_Stop
    BY <2>2, StopFields, FreeWaits DEF AInv, Waiting
  <2>3. CASE Tick
    <3>1. PICK M \in SUBSET ClosePending, slow \in BOOLEAN, R \in SUBSET Outstanding :
              tcpip_tcp_timer(M, slow, R)
      BY <2>3, TimerRun
    <3> SUFFICES ASSUME NEW q \in Pcbs PROVE Waiting(pcb'[q])
      OBVIOUS
    <3> DEFINE f == IF q \in M THEN Finned(pcb[q], TRUE) ELSE pcb[q]
    <3>2. pcb'[q] = IF slow THEN Ticked(f, q \in R) ELSE f
      BY <3>1 DEF tcpip_tcp_timer
    <3>3. Waiting(f)
      BY FinnedWaits DEF AInv
    <3> HIDE DEF f
    <3>4. Waiting(Ticked(f, q \in R))
      BY <3>3, TickedFields, FreeWaits DEF Waiting
    <3> QED BY <3>2, <3>3, <3>4
  <2>4. CASE Silence \/ UNCHANGED vars
    BY <2>4 DEF Silence, vars, AInv
  <2>5. ASSUME NEW p \in Pcbs,
               SynAck(p) \/ Rejected(p) \/ Segment(p) \/ Reset(p) \/ TimeWaitFin(p)
        PROVE  \A q \in Pcbs : Waiting(pcb'[q])
    BY <2>5, SegmentWaits, EventWaits
  <2> QED BY <2>1, <2>2, <2>3, <2>4, <2>5 DEF Next
<1>3. (\A q \in Pcbs : Waiting(pcb[q]))'
  BY <1>2 DEF Waiting, Unacked
<1> QED BY <1>1, <1>3 DEF AInv

\* The blocks that are to end.
LEMMA EndingStates ==
    ASSUME NEW r, Good(r), Shape(r), Ends(r)
    PROVE  /\ r.st \in Unacked \cup {"FIN_WAIT_2", "TIME_WAIT", "ESTABLISHED", "CLOSE_WAIT"}
           /\ r.st \in {"SYN_RCVD", "SYN_SENT"} \/ r.rxclosed
           /\ r.rtx \in 0..MaxRtx /\ r.age \in 0..MaxAge
           /\ Wait(r) \in Nat
<1>1. r.st \in States /\ r.rtx \in 0..MaxRtx /\ r.age \in 0..MaxAge
  BY Fields DEF Good
<1>2. r.st # "FREE"
  BY DEF Shape, Early, Ends
<1>3. Wait(r) \in Nat
  BY <1>1, Bounds DEF Wait
<1> QED BY <1>1, <1>2, <1>3 DEF States, Unacked, Ends

\* A slow tick does not put the removal off, and one that retransmits brings it closer.
LEMMA TickAges ==
    ASSUME NEW r, Good(r), Shape(r), Waiting(r), Ends(r), NEW again \in BOOLEAN
    PROVE  \/ ~Ends(Ticked(r, again))
           \/ /\ Wait(Ticked(r, again)) <= Wait(r)
              /\ r.st \notin {"ESTABLISHED", "CLOSE_WAIT"} /\ (r.una => again) =>
                    Wait(Ticked(r, again)) < Wait(r)
<1> DEFINE t == Ticked(r, again)
<1>1. CASE t = Free
  BY <1>1, FreeWaits
<1>2. CASE t # Free
  <2>1. /\ ~Expired(r) /\ t.st = r.st
        /\ t.rtx = IF again THEN r.rtx + 1 ELSE r.rtx
        /\ t.age = IF r.age < MaxAge THEN r.age + 1 ELSE r.age
    BY <1>2, TickedFields
  <2>2. /\ r.st \in Unacked \cup {"FIN_WAIT_2", "TIME_WAIT", "ESTABLISHED", "CLOSE_WAIT"}
        /\ r.st \in {"SYN_RCVD", "SYN_SENT"} \/ r.rxclosed
        /\ r.rtx \in 0..MaxRtx /\ r.age \in 0..MaxAge
    BY EndingStates
  <2> HIDE DEF t
  <2>3. CASE r.st \in {"ESTABLISHED", "CLOSE_WAIT"}
    <3>1. Wait(t) = MaxRtx + 2 /\ Wait(r) = MaxRtx + 2
      BY <2>1, <2>3 DEF Wait
    <3> QED BY <2>3, <3>1, Bounds DEF t
  <2>4. CASE r.st \in {"FIN_WAIT_2", "TIME_WAIT"}
    <3>1. Wait(t) = MaxAge - t.age /\ Wait(r) = MaxAge - r.age
      BY <2>1, <2>4 DEF Wait
    <3>2. r.age < MaxAge
      BY <2>1, <2>2, <2>4, TcpAssumption DEF Expired, MaxAge
    <3> QED BY <2>1, <2>2, <3>1, <3>2, Bounds DEF t
  <2>5. CASE r.st \in Unacked
    <3>1. Wait(t) = MaxRtx - t.rtx /\ Wait(r) = MaxRtx - r.rtx
      BY <2>1, <2>5 DEF Wait, Unacked
    <3>2. r.una
      BY <2>5 DEF Waiting
    <3> QED BY <2>1, <2>2, <3>1, <3>2, Bounds DEF t
  <2> QED BY <2>2, <2>3, <2>4, <2>5
<1> QED BY <1>1, <1>2

\* A run of the timer: sending the pending FIN brings the removal closer too.
LEMMA TimerAges ==
    ASSUME AInv, NEW M \in SUBSET ClosePending, NEW slow \in BOOLEAN,
           NEW R \in SUBSET Outstanding, tcpip_tcp_timer(M, slow, R),
           NEW p \in Pcbs, Ends(pcb[p])
    PROVE  \/ ~Ends(pcb'[p])
           \/ /\ Wait(pcb'[p]) <= Wait(pcb[p])
              /\ M = ClosePending /\ slow /\ R = Outstanding => Wait(pcb'[p]) < Wait(pcb[p])
<1> DEFINE r == pcb[p]
           f == IF p \in M THEN Finned(r, TRUE) ELSE r
           t == Ticked(f, p \in R)
<1>1. pcb'[p] = IF slow THEN t ELSE f
  BY DEF tcpip_tcp_timer
<1>2. Good(r) /\ Shape(r) /\ Waiting(r)
  BY DEF AInv, CInv, PInv
<1>3. r.rtx \in 0..MaxRtx /\ Wait(r) \in Nat
  BY <1>2, EndingStates
<1>4. (p \in R) \in BOOLEAN
  OBVIOUS
<1>5. CASE p \in M
  <2>1. r.st \in {"ESTABLISHED", "CLOSE_WAIT"} /\ r.st \notin Early
    BY <1>5 DEF ClosePending, Is, Early
  <2>2. Wait(r) = MaxRtx + 2
    BY <2>1 DEF Wait
  <2>3. f = Finned(r, TRUE)
    BY <1>5
  <2>4. f.st \in {"FIN_WAIT_1", "LAST_ACK"} /\ f.rtx = r.rtx /\ f.rxclosed
    BY <2>3, FinFields
  <2> HIDE DEF f, r
  <2>5. Good(f) /\ Shape(f) /\ Waiting(f) /\ Ends(f)
    BY <1>2, <2>1, <2>3, <2>4, FinnedGood, FinnedShape, FinnedWaits DEF Ends
  <2>6. Wait(f) = MaxRtx - r.rtx /\ Wait(f) \in Nat
    BY <2>4, <2>5, EndingStates DEF Wait
  <2>7. Wait(f) < Wait(r)
    BY <1>3, <2>2, <2>6, Bounds
  <2>8. ~Ends(t) \/ Wait(t) <= Wait(f)
    BY <1>4, <2>5, TickAges
  <2>9. Ends(t) => Wait(t) < Wait(r) /\ Wait(t) <= Wait(r)
    <3>1. Ends(t) => Wait(t) \in Nat
      <4>1. Good(t)
        <5>1. (p \in R) => f.una
          BY <2>4, <2>5 DEF Waiting, Unacked
        <5> QED BY <1>4, <2>5, <5>1, TickedGood
      <4>2. Shape(t)
        BY <1>4, <2>5, TickedShape, FreeShape
      <4> HIDE DEF t
      <4> QED BY <4>1, <4>2, EndingStates
    <3> HIDE DEF t
    <3> QED BY <1>3, <2>6, <2>7, <2>8, <3>1
  <2> HIDE DEF t
  <2>10. Wait(f) <= Wait(r)
    BY <1>3, <2>6, <2>7
  <2>11. CASE slow
    <3>1. pcb'[p] = t
      BY <1>1, <2>11
    <3> QED BY <2>9, <3>1 DEF r
  <2>12. CASE ~slow
    <3>1. pcb'[p] = f
      BY <1>1, <2>12
    <3> QED BY <2>10, <2>12, <3>1, Zenon DEF r
  <2> QED BY <2>11, <2>12
<1>6. CASE p \notin M
  <2>1. f = r
    BY <1>6
  <2>2. M = ClosePending => r.st \notin {"ESTABLISHED", "CLOSE_WAIT"}
    BY <1>6 DEF ClosePending, Is, Ends
  <2>3. R = Outstanding => (r.una => p \in R)
    BY DEF Outstanding
  <2>4. CASE slow
    <3>1. pcb'[p] = Ticked(r, p \in R)
      BY <1>1, <2>1, <2>4
    <3> HIDE DEF r, f, t
    <3>2. Ends(r)
      BY DEF r
    <3>3. \/ ~Ends(Ticked(r, p \in R))
          \/ /\ Wait(Ticked(r, p \in R)) <= Wait(r)
             /\ r.st \notin {"ESTABLISHED", "CLOSE_WAIT"} /\ (r.una => p \in R) =>
                    Wait(Ticked(r, p \in R)) < Wait(r)
      BY <1>2, <1>4, <3>2, TickAges, Zenon
    <3> QED BY <2>2, <2>3, <3>1, <3>3, Zenon DEF r
  <2>5. CASE ~slow
    <3>1. pcb'[p] = pcb[p]
      BY <1>1, <2>1, <2>5
    <3>2. Wait(pcb[p]) <= Wait(pcb[p])
      BY <1>3
    <3> QED BY <2>5, <3>1, <3>2, Zenon
  <2> QED BY <2>4, <2>5
<1> QED BY <1>5, <1>6

\* A connection that is closed or never came about gives its block back although its
\* peer is silent, for every size of the pool and every timeout of tcp_slowtmr: each
\* full tick lowers a count of naturals, and nothing else raises it.  The safety part
\* of BlocksComeBack.
THEOREM SilentBlocksAge == Spec => BlocksAge /\ []Counted
<1> DEFINE Ages == quiet => \A p \in Pcbs : Ending(p) =>
                      \/ ~Ending(p)' \/ GivenAway(p)
                      \/ /\ Wait(pcb'[p]) <= Wait(pcb[p])
                         /\ FullTick => Wait(pcb'[p]) < Wait(pcb[p])
<1>1. Init => AInv
  BY InitFollows, FreeWaits DEF AInv, Init
<1>2. AInv /\ [Next]_vars => AInv'
  BY StepWaits
<1>3. AInv => Counted
  BY EndingStates DEF AInv, CInv, PInv, Counted, Ending, Ends, Is
<1>4. AInv /\ [Next]_vars => [Ages]_vars
  <2> SUFFICES ASSUME AInv, Next, quiet, NEW p \in Pcbs, Ending(p), Ending(p)'
               PROVE  \/ GivenAway(p)
                      \/ /\ Wait(pcb'[p]) <= Wait(pcb[p])
                         /\ FullTick => Wait(pcb'[p]) < Wait(pcb[p])
    OBVIOUS
  <2>1. Ends(pcb[p]) /\ Ends(pcb'[p]) /\ Wait(pcb[p]) \in Nat
    BY <1>3 DEF Ending, Ends, Is, Counted
  <2>2. FullTick => Wait(pcb'[p]) < Wait(pcb[p])
    <3> SUFFICES ASSUME FullTick PROVE Wait(pcb'[p]) < Wait(pcb[p])
      OBVIOUS
    <3>1. ClosePending \in SUBSET ClosePending /\ Outstanding \in SUBSET Outstanding /\ TRUE \in BOOLEAN
      BY Zenon
    <3>2. tcpip_tcp_timer(ClosePending, TRUE, Outstanding)
      BY DEF FullTick
    <3> QED BY <2>1, <3>1, <3>2, TimerAges, Zenon
  <2>3. GivenAway(p) \/ Wait(pcb'[p]) <= Wait(pcb[p])
    <3>1. CASE Version_Check_Start
      <4>1. PICK q \in Slots :
                \/ pcb' = [pcb EXCEPT ![q] = Block("SYN_SENT", "none", FALSE, TRUE, 0, 0)] /\ v_pcb' = q
                \/ pcb' = [pcb EXCEPT ![q] = Free]
        BY <3>1 DEF Version_Check_Start
      <4>2. CASE q = p
        <5>1. pcb'[p] # Free
          BY <2>1, FreeWaits
        <5> QED BY <3>1, <4>1, <4>2, <5>1 DEF GivenAway, AInv, CInv, PInv, TypeOK
      <4>3. CASE q # p
        <5>1. pcb'[p] = pcb[p]
          BY <4>1, <4>3 DEF AInv, CInv, PInv, TypeOK
        <5> QED BY <2>1, <5>1
      <4> QED BY <4>2, <4>3
    <3>2. CASE OTA_Server_Start
      <4>1. pcb'[p] = Free \/ pcb'[p] = pcb[p]
        BY <3>2 DEF OTA_Server_Start, AInv, CInv, PInv, TypeOK
      <4> QED BY <2>1, <4>1, FreeWaits
    <3>3. CASE OTA_Server_Stop
      <4>1. \/ pcb'[p] = pcb[p]
            \/ /\ pcb'[p].st = pcb[p].st
               /\ pcb'[p].rtx = pcb[p].rtx /\ pcb'[p].age = pcb[p].age
        BY <2>1, <3>3, StopFields, FreeWaits
      <4>2. Wait(pcb'[p]) = Wait(pcb[p])
        BY <4>1 DEF Wait
      <4> QED BY <2>1, <4>2, NotRaised, Zenon
    <3>4. CASE Tick
      BY <2>1, <3>4, TimerRun, TimerAges
    <3> QED BY <3>1, <3>2, <3>3, <3>4 DEF Next, tcp_listen_input, Silence, SynAck, Rejected,
               Segment, Reset, TimeWaitFin
  <2> QED BY <2>2, <2>3
<1> QED BY <1>1, <1>2, <1>3, <1>4, PTL DEF Spec, BlocksAge

=============================================================================
