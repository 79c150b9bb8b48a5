-------------------------------- MODULE EthRx --------------------------------
(***************************************************************************)
(* Reception of frames (ethernetif.c): the ring of DMA descriptors, the    *)
(* interrupt that sets flag, the loop that clears it and empties the ring, *)
(* and the pool of custom pbufs that hand the buffers to lwIP.             *)
(*                                                                         *)
(* ethernetif_input gives a descriptor back before the stack has seen the  *)
(* frame, so the DMA may write the buffer of a frame that is being read,   *)
(* or that IP reassembly keeps.  The DMA, the interrupt and the loop run   *)
(* concurrently.  A frame is the number of frames received so far.         *)
(***************************************************************************)
EXTENDS Integers, FiniteSets

CONSTANTS
    ETH_RX_DESC_CNT,
    Pool,          \* of LWIP_MEMPOOL_DECLARE(RX_POOL, ...)
    MaxReass,      \* IP_REASS_MAX_PBUFS
    MaxFrames      \* bound on the frames received

Ring == 0..(ETH_RX_DESC_CNT - 1)

\* The pool is larger than what reassembly may keep (20 and 10).
ASSUME EthRxAssumption ==
    /\ ETH_RX_DESC_CNT \in Nat \ {0} /\ MaxReass \in Nat /\ MaxFrames \in Nat
    /\ Pool \in Nat /\ Pool > MaxReass

VARIABLES
    own,        \* per descriptor: whose it is, "dma" or "app"
    Rx_Buff,    \* per descriptor: the frame in its buffer
    dma,        \* the descriptor the DMA fills next
    cur,        \* the one the application looks at next
    irq,        \* the receive interrupt is pending
    flag,
    pc,         \* of the loop
    p,          \* the pbuf of ethernetif_input: none or one
    reass,      \* the pbufs that IP reassembly keeps
    RX_POOL,    \* free elements
    frames,     \* frames received
    taken       \* frames handed to the stack

vars == <<own, Rx_Buff, dma, cur, irq, flag, pc, p, reass, RX_POOL, frames, taken>>

TypeOK ==
    /\ own \in [Ring -> {"dma", "app"}] /\ Rx_Buff \in [Ring -> 0..MaxFrames]
    /\ dma \in Ring /\ cur \in Ring /\ irq \in BOOLEAN /\ flag \in BOOLEAN
    /\ pc \in {"loop", "seen", "input", "stack"}
    /\ p \subseteq [buffer : Ring, frame : 1..MaxFrames]
    /\ reass \subseteq [buffer : Ring, frame : 1..MaxFrames]
    /\ Cardinality(p) = (IF pc = "stack" THEN 1 ELSE 0) /\ Cardinality(reass) <= MaxReass
    /\ RX_POOL \in 0..Pool /\ frames \in 0..MaxFrames /\ taken \in 0..frames

Following(i) == (i + 1) % ETH_RX_DESC_CNT

-----------------------------------------------------------------------------
(* The hardware and the interrupt                                          *)

\* A frame is received.  It is lost when the DMA has no descriptor.
Receive ==
    /\ own[dma] = "dma" /\ frames < MaxFrames
    /\ frames' = frames + 1 /\ irq' = TRUE
    /\ own' = [own EXCEPT ![dma] = "app"] /\ Rx_Buff' = [Rx_Buff EXCEPT ![dma] = frames + 1]
    /\ dma' = Following(dma)
    /\ UNCHANGED <<cur, flag, pc, p, reass, RX_POOL, taken>>

HAL_ETH_RxCpltCallback ==
    /\ irq /\ irq' = FALSE /\ flag' = TRUE
    /\ UNCHANGED <<own, Rx_Buff, dma, cur, pc, p, reass, RX_POOL, frames, taken>>

-----------------------------------------------------------------------------
(* The loop                                                                *)

\* if (flag) ...
Seen ==
    /\ pc = "loop" /\ flag /\ pc' = "seen"
    /\ UNCHANGED <<own, Rx_Buff, dma, cur, irq, flag, p, reass, RX_POOL, frames, taken>>

\* ... { flag = 0; ethernetif_input(&gnetif); }
Cleared ==
    /\ pc = "seen" /\ pc' = "input" /\ flag' = FALSE
    /\ UNCHANGED <<own, Rx_Buff, dma, cur, irq, p, reass, RX_POOL, frames, taken>>

\* Mutant: the buffer of the next descriptor.
MutBuffer(i) == Following(i)

\* What HAL_ETH_GetRxDataBuffer returns.
Buffer(i) == i

\* Mutant: every descriptor is given back.
MutGivenBack(i) == Ring

\* What HAL_ETH_BuildRxDescriptors gives back: the descriptor just read.
GivenBack(i) == {i}

\* low_level_input finds a frame, and ethernetif_input builds its descriptor.
low_level_input ==
    /\ pc = "input" /\ own[cur] = "app" /\ pc' = "stack"
    /\ p' = {[buffer |-> Buffer(cur), frame |-> Rx_Buff[cur]]} /\ RX_POOL' = RX_POOL - 1
    /\ own' = [i \in Ring |-> IF i \in GivenBack(cur) THEN "dma" ELSE own[i]]
    /\ cur' = Following(cur) /\ taken' = taken + 1
    /\ UNCHANGED <<Rx_Buff, dma, irq, flag, reass, frames>>

\* low_level_input finds none.
Emptied ==
    /\ pc = "input" /\ own[cur] = "dma" /\ pc' = "loop"
    /\ UNCHANGED <<own, Rx_Buff, dma, cur, irq, flag, p, reass, RX_POOL, frames, taken>>

\* Mutant: the elements are not put back.
MutFreed(q) == RX_POOL

\* pbuf_free_custom, for the pbufs q.
Freed(q) == RX_POOL + Cardinality(q)

\* Mutant: one frame for each time flag is seen.
MutTryGetNext == "loop"

\* Where ethernetif_input goes on after a frame.
TRY_GET_NEXT_FRAGMENT == "input"

\* The stack has read a frame, and with it the fragments of its datagram, frag.
netif_input ==
    /\ pc = "stack" /\ pc' = TRY_GET_NEXT_FRAGMENT /\ p' = {}
    /\ \E frag \in SUBSET reass : reass' = reass \ frag /\ RX_POOL' = Freed(p \cup frag)
    /\ UNCHANGED <<own, Rx_Buff, dma, cur, irq, flag, frames, taken>>

\* It is a fragment that completes no datagram.  The oldest ones make room for it.
ip4_reass ==
    /\ pc = "stack" /\ pc' = TRY_GET_NEXT_FRAGMENT /\ p' = {}
    /\ \E frag \in SUBSET reass :
         /\ Cardinality(reass \ frag) < MaxReass /\ (frag # {} => Cardinality(reass) = MaxReass)
         /\ reass' = (reass \ frag) \cup p /\ RX_POOL' = Freed(frag)
    /\ UNCHANGED <<own, Rx_Buff, dma, cur, irq, flag, frames, taken>>

\* A datagram has not been completed in time.
ip_reass_tmr ==
    /\ pc = "loop"
    /\ \E frag \in (SUBSET reass) \ {{}} : reass' = reass \ frag /\ RX_POOL' = Freed(frag)
    /\ UNCHANGED <<own, Rx_Buff, dma, cur, irq, flag, pc, p, frames, taken>>

-----------------------------------------------------------------------------

Init ==
    /\ own = [i \in Ring |-> "dma"] /\ Rx_Buff = [i \in Ring |-> 0] /\ dma = 0 /\ cur = 0
    /\ irq = FALSE /\ flag = FALSE /\ pc = "loop" /\ p = {} /\ reass = {} /\ RX_POOL = Pool
    /\ frames = 0 /\ taken = 0

Loop == Seen \/ Cleared \/ low_level_input \/ Emptied \/ netif_input \/ ip4_reass
Next == Receive \/ HAL_ETH_RxCpltCallback \/ Loop \/ ip_reass_tmr

\* A pending interrupt is taken, and the loop goes on.
Spec == Init /\ [][Next]_vars /\ WF_vars(HAL_ETH_RxCpltCallback) /\ WF_vars(Loop)

-----------------------------------------------------------------------------
(* Properties                                                              *)

\* A frame that the stack reads or that reassembly keeps is still the one that
\* was received, until as many more frames are received as the ring has
\* descriptors: the limit of giving the descriptor back first (ethernetif.c 300).
\* The note at line 73 promises it without a limit.
Intact ==
    \A q \in p \cup reass :
        frames < q.frame + ETH_RX_DESC_CNT => Rx_Buff[q.buffer] = q.frame

\* The frames received and not yet handed to the stack are in the ring, and the
\* oldest of them is next: none is lost, skipped or handed over twice.
Fifo ==
    /\ \A k \in (taken + 1)..frames : \E i \in Ring : own[i] = "app" /\ Rx_Buff[i] = k
    /\ own[cur] = "app" => taken < frames /\ Rx_Buff[cur] = taken + 1

\* The pool has an element whenever low_level_input takes one, which it does
\* unchecked (ethernetif.c 275), though reassembly keeps some.
PoolSuffices == pc = "input" => RX_POOL > 0

\* Every frame received is handed to the stack, also one that comes while the
\* loop is clearing flag and one that no later frame follows.
NoFrameStuck == \A k \in 1..MaxFrames : frames >= k ~> taken >= k

=============================================================================
