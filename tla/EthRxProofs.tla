---------------------------- MODULE EthRxProofs ------------------------------
(***************************************************************************)
(* For a ring and a pool of any size: a frame is intact until the ring has *)
(* come round, frames keep their order, and the pool suffices.             *)
(*                                                                         *)
(* The k-th frame is written to the buffer Slot(k), and the ring is read   *)
(* in the same order.  Everything about the ring follows from that and from *)
(* two frames of one round having different slots.                         *)
(***************************************************************************)
EXTENDS EthRx, FiniteSetTheorems, TLAPS

N == ETH_RX_DESC_CNT

\* The descriptor of the k-th frame.
Slot(k) == (k - 1) % N

Pbuf == [buffer : Ring, frame : 1..MaxFrames]

Control ==
    /\ pc \in {"loop", "seen", "input", "stack"}
    /\ frames \in 0..MaxFrames /\ taken \in 0..frames /\ frames <= taken + N
    /\ own \in [Ring -> {"dma", "app"}] /\ Rx_Buff \in [Ring -> 0..MaxFrames]

\* Where the frames are, and whose the descriptors.
RingInv ==
    /\ dma = Slot(frames + 1) /\ cur = Slot(taken + 1)
    /\ \A k \in 1..frames : k + N > frames => Rx_Buff[Slot(k)] = k
    /\ \A k \in (taken + 1)..frames : own[Slot(k)] = "app"
    /\ \A k \in (frames + 1)..(taken + N) : own[Slot(k)] = "dma"

\* The pbufs refer to the slots of their frames; p has the last one taken.
PbufInv ==
    /\ p \subseteq Pbuf /\ reass \subseteq Pbuf
    /\ \A q \in p \cup reass : q.frame <= taken /\ q.buffer = Slot(q.frame)
    /\ IF pc = "stack" THEN \E q \in p : p = {q} /\ \A o \in reass : o.frame < q.frame
       ELSE p = {}

\* Each element of the pool is free or one of them.
PoolInv ==
    /\ IsFiniteSet(reass) /\ Cardinality(reass) <= MaxReass
    /\ RX_POOL = Pool - Cardinality(p) - Cardinality(reass)

EInv == Control /\ RingInv /\ PbufInv /\ PoolInv

-----------------------------------------------------------------------------
(* Slots                                                                   *)

\* Division with remainder, which the index of the ring wraps by.
LEMMA Remainder ==
    ASSUME NEW n \in Nat, n > 0, NEW a \in Int
    PROVE  a = n * (a \div n) + (a % n)
BY SMT

\* A multiple of the ring's size is at least that size.
LEMMA Multiple ==
    ASSUME NEW n \in Nat, n > 0, NEW d \in Int, d >= 1
    PROVE  n * d >= n
BY SMT

\* Quotient and remainder are unique.
LEMMA Unique ==
    ASSUME NEW n \in Nat, n > 0, NEW x \in Int, NEW y \in Int,
           NEW r \in 0..(n - 1), NEW s \in 0..(n - 1), n * x + r = n * y + s
    PROVE  r = s /\ x = y
<1>1. n * (x - y) = s - r /\ n * (y - x) = r - s  BY SMT
<1>2. CASE x - y >= 1  BY <1>1, <1>2, Multiple, SMT
<1>3. CASE y - x >= 1  BY <1>1, <1>3, Multiple, SMT
<1>4. CASE x = y  BY <1>1, <1>4, SMT
<1> QED  BY <1>2, <1>3, <1>4, SMT

\* The remainder of a number that is written with a quotient.
LEMMA RemainderIs ==
    ASSUME NEW n \in Nat, n > 0, NEW x \in Int, NEW r \in 0..(n - 1), NEW a \in Int,
           a = n * x + r
    PROVE  a % n = r
<1>1. a \div n \in Int /\ a % n \in 0..(n - 1)  BY SMT
<1>2. n * (a \div n) + (a % n) = n * x + r  BY Remainder
<1> QED  BY <1>1, <1>2, Unique

\* The ring has descriptors.
LEMMA NType == N \in Nat /\ N > 0
BY EthRxAssumption DEF N

\* The slot of a frame is a descriptor.
LEMMA SlotType == ASSUME NEW k \in Nat \ {0} PROVE Slot(k) \in Ring /\ Slot(k) \in 0..(N - 1)
BY NType, SMT DEF Slot, N, Ring

\* The number of a frame from its slot and its round.
LEMMA SlotRound == ASSUME NEW k \in Nat \ {0} PROVE \E a \in Int : k - 1 = N * a + Slot(k)
<1>1. (k - 1) \div N \in Int  BY NType, SMT
<1>2. k - 1 = N * ((k - 1) \div N) + Slot(k)  BY NType, Remainder DEF Slot
<1> QED  BY <1>1, <1>2

\* Two frames of one round have different slots.
LEMMA SlotDistinct ==
    ASSUME NEW k \in Nat \ {0}, NEW m \in Nat \ {0}, k < m, m < k + N
    PROVE  Slot(k) # Slot(m)
<1>1. SUFFICES ASSUME Slot(k) = Slot(m) PROVE FALSE
  OBVIOUS
<1>2. PICK a \in Int : k - 1 = N * a + Slot(k)  BY SlotRound
<1>3. PICK b \in Int : m - 1 = N * b + Slot(m)  BY SlotRound
<1>4. Slot(k) \in Int /\ Slot(m) \in Int  BY NType, SlotType
<1>5. m - k = N * (b - a)  BY NType, <1>1, <1>2, <1>3, <1>4, SMT
<1>6. b - a >= 1  BY NType, <1>5, SMT
<1>7. N * (b - a) >= N  BY NType, <1>6, Multiple
<1> QED  BY NType, <1>5, <1>7, SMT

\* The DMA and the application go on to the next frame's slot.
LEMMA SlotNext == ASSUME NEW k \in Nat \ {0} PROVE Following(Slot(k)) = Slot(k + 1)
<1>1. PICK a \in Int : k - 1 = N * a + Slot(k)  BY SlotRound
<1>2. Slot(k) \in 0..(N - 1)  BY SlotType
<1>3. Following(Slot(k)) = (Slot(k) + 1) % N  BY DEF Following, N
<1>4. Slot(k + 1) = k % N  BY DEF Slot
<1>5. CASE Slot(k) + 1 < N
  <2>1. k = N * a + (Slot(k) + 1) /\ Slot(k) + 1 \in 0..(N - 1)  BY NType, <1>1, <1>2, <1>5, SMT
  <2> DEFINE r == Slot(k) + 1
  <2> HIDE DEF r
  <2>2. k = N * a + r /\ r \in 0..(N - 1) /\ k \in Int  BY <2>1 DEF r
  <2>3. k % N = r  BY NType, <2>2, RemainderIs
  <2>4. k % N = Slot(k) + 1  BY <2>3 DEF r
  <2>5. Slot(k) + 1 = N * 0 + (Slot(k) + 1)  BY NType, <1>2, SMT
  <2>6. (Slot(k) + 1) % N = Slot(k) + 1  BY NType, <2>1, <2>5, RemainderIs
  <2> QED  BY <1>3, <1>4, <2>4, <2>6
<1>6. CASE Slot(k) + 1 = N
  <2>1. k = N * (a + 1) + 0 /\ N = N * 1 + 0 /\ 0 \in 0..(N - 1)  BY NType, <1>1, <1>2, <1>6, SMT
  <2>2. k % N = 0  BY NType, <2>1, RemainderIs
  <2>3. N % N = 0  BY NType, <2>1, RemainderIs
  <2> QED  BY <1>3, <1>4, <1>6, <2>2, <2>3
<1> QED  BY NType, <1>2, <1>5, <1>6, SMT

\* After a round the slot is the same.
LEMMA SlotAgain == ASSUME NEW k \in Nat \ {0} PROVE Slot(k + N) = Slot(k)
<1>1. PICK a \in Int : k - 1 = N * a + Slot(k)  BY SlotRound
<1>2. Slot(k) \in 0..(N - 1)  BY SlotType
<1>3. (k + N) - 1 = N * (a + 1) + Slot(k)  BY NType, <1>1, <1>2, SMT
<1>4. ((k + N) - 1) \in Int /\ a + 1 \in Int  BY NType
<1>5. ((k + N) - 1) % N = Slot(k)  BY NType, <1>2, <1>3, <1>4, RemainderIs
<1> QED  BY <1>5 DEF Slot

-----------------------------------------------------------------------------
(* The invariant                                                           *)

\* Init has an empty ring, the whole pool and no pbuf.
LEMMA InitHolds == Init => EInv
<1> SUFFICES ASSUME Init PROVE EInv  OBVIOUS
<1>1. N \in Nat /\ N > 0  BY NType
<1>2. Control  BY EthRxAssumption, <1>1 DEF Init, Control
<1>3. RingInv
  <2>1. Slot(1) = 0  BY <1>1, SMT DEF Slot
  <2>2. \A k \in 1..N : Slot(k) \in Ring  BY <1>1, SlotType
  <2> QED  BY <1>1, <2>1, <2>2 DEF Init, RingInv
<1>4. PbufInv  BY DEF Init, PbufInv
<1>5. PoolInv  BY EthRxAssumption, FS_EmptySet DEF Init, PoolInv
<1> QED  BY <1>2, <1>3, <1>4, <1>5 DEF EInv

\* Receive fills the slot of the next frame, which no other frame of this round
\* has.
LEMMA ReceiveHolds == ASSUME EInv, Receive PROVE EInv'
<1>1. /\ frames' = frames + 1 /\ UNCHANGED <<taken, cur, pc, p, reass, RX_POOL>>
      /\ frames \in Nat /\ taken \in Nat /\ taken <= frames /\ frames <= taken + N
      /\ frames < MaxFrames /\ own[dma] = "dma" /\ dma' = Following(dma)
      /\ own' = [own EXCEPT ![dma] = "app"] /\ Rx_Buff' = [Rx_Buff EXCEPT ![dma] = frames + 1]
      /\ own \in [Ring -> {"dma", "app"}] /\ Rx_Buff \in [Ring -> 0..MaxFrames]
  BY EthRxAssumption DEF EInv, Control, Receive
<1>2. dma = Slot(frames + 1) /\ cur = Slot(taken + 1) /\ dma \in Ring
  BY <1>1, SlotType DEF EInv, RingInv
<1>3. frames < taken + N
  <2>1. SUFFICES ASSUME frames = taken + N PROVE FALSE  BY NType, <1>1
  <2>2. Slot((taken + 1) + N) = Slot(taken + 1)  BY <1>1, SlotAgain
  <2>3. (taken + 1) + N = frames + 1  BY NType, <1>1, <2>1
  <2>4. dma = Slot(taken + 1)  BY <1>2, <2>2, <2>3
  <2>5. taken + 1 \in (taken + 1)..frames  BY NType, <1>1, <2>1
  <2>6. own[Slot(taken + 1)] = "app"  BY <2>5 DEF EInv, RingInv
  <2> QED  BY <1>1, <2>4, <2>6
<1>4. Control'
  <2>1. own' \in [Ring -> {"dma", "app"}]  BY <1>1
  <2>2. frames + 1 \in 0..MaxFrames  BY <1>1, EthRxAssumption
  <2>3. Rx_Buff' \in [Ring -> 0..MaxFrames]  BY <1>1, <2>2
  <2> QED  BY NType, EthRxAssumption, <1>1, <1>3, <2>1, <2>2, <2>3 DEF EInv, Control
<1>5. \A k \in Nat \ {0} : k # frames + 1 /\ k + N > frames + 1 /\ k < frames + 1 + N
                            => Slot(k) # dma /\ Slot(k) \in Ring
  <2> SUFFICES ASSUME NEW k \in Nat \ {0}, k # frames + 1, k + N > frames + 1, k < frames + 1 + N
               PROVE  Slot(k) # Slot(frames + 1) /\ Slot(k) \in Ring
    BY <1>2
  <2>1. CASE k < frames + 1  BY NType, <1>1, <2>1, SlotDistinct, SlotType
  <2>2. CASE k > frames + 1  BY NType, <1>1, <2>2, SlotDistinct, SlotType
  <2> QED  BY <1>1, <2>1, <2>2
<1>6. RingInv'
  <2>1. dma' = Slot(frames' + 1)  BY <1>1, <1>2, SlotNext
  <2>2. ASSUME NEW k \in 1..(frames + 1), k + N > frames + 1 PROVE Rx_Buff'[Slot(k)] = k
    <3>1. CASE k = frames + 1  BY <1>1, <1>2, <3>1
    <3>2. CASE k # frames + 1
      <4>1. k \in 1..frames /\ k + N > frames /\ k < frames + 1 + N  BY NType, <1>1, <2>2, <3>2
      <4>2. Rx_Buff[Slot(k)] = k  BY <4>1 DEF EInv, RingInv
      <4> QED  BY <1>1, <1>5, <2>2, <3>2, <4>1, <4>2
    <3> QED  BY <3>1, <3>2
  <2>3. ASSUME NEW k \in (taken + 1)..(frames + 1) PROVE own'[Slot(k)] = "app"
    <3>1. CASE k = frames + 1  BY <1>1, <1>2, <3>1
    <3>2. CASE k # frames + 1
      <4>1. k \in (taken + 1)..frames /\ k \in Nat \ {0} /\ k + N > frames + 1 /\ k < frames + 1 + N
        BY NType, <1>1, <1>3, <3>2
      <4>2. own[Slot(k)] = "app"  BY <4>1 DEF EInv, RingInv
      <4> QED  BY <1>1, <1>5, <3>2, <4>1, <4>2
    <3> QED  BY <3>1, <3>2
  <2>4. ASSUME NEW k \in (frames + 2)..(taken + N) PROVE own'[Slot(k)] = "dma"
    <3>1. /\ k \in (frames + 1)..(taken + N) /\ k \in Nat \ {0} /\ k # frames + 1
          /\ k + N > frames + 1 /\ k < frames + 1 + N
      BY NType, <1>1
    <3>2. own[Slot(k)] = "dma"  BY <3>1 DEF EInv, RingInv
    <3> QED  BY <1>1, <1>5, <3>1, <3>2
  <2>5. frames' + 1 = frames + 2  BY <1>1
  <2> QED  BY <1>1, <1>2, <2>1, <2>2, <2>3, <2>4, <2>5 DEF RingInv
<1>7. PbufInv' /\ PoolInv'  BY <1>1 DEF EInv, PbufInv, PoolInv
<1> QED  BY <1>4, <1>6, <1>7 DEF EInv

\* low_level_input takes the oldest frame and gives its slot back.
LEMMA TakeHolds == ASSUME EInv, low_level_input PROVE EInv'
<1>1. /\ frames' = frames /\ taken' = taken + 1 /\ dma' = dma /\ cur' = Following(cur)
      /\ frames \in Nat /\ taken \in Nat /\ taken <= frames /\ frames <= taken + N
      /\ frames <= MaxFrames /\ own[cur] = "app" /\ Rx_Buff' = Rx_Buff
      /\ pc = "input" /\ pc' = "stack" /\ reass' = reass /\ RX_POOL' = RX_POOL - 1
      /\ own' = [i \in Ring |-> IF i = cur THEN "dma" ELSE own[i]]
      /\ own \in [Ring -> {"dma", "app"}] /\ Rx_Buff \in [Ring -> 0..MaxFrames]
  BY EthRxAssumption DEF EInv, Control, low_level_input, GivenBack
<1>2. dma = Slot(frames + 1) /\ cur = Slot(taken + 1) /\ cur \in Ring
  BY <1>1, SlotType DEF EInv, RingInv
<1>3. taken < frames
  <2>1. SUFFICES ASSUME taken = frames PROVE FALSE  BY <1>1
  <2>2. taken + 1 \in (frames + 1)..(taken + N)  BY NType, <1>1, <2>1
  <2>3. own[Slot(taken + 1)] = "dma"  BY <2>2 DEF EInv, RingInv
  <2> QED  BY <1>1, <1>2, <2>3
<1>4. Rx_Buff[cur] = taken + 1
  <2>1. taken + 1 \in 1..frames /\ taken + 1 + N > frames  BY NType, <1>1, <1>3
  <2> QED  BY <1>2, <2>1 DEF EInv, RingInv
<1>5. Control'
  <2>1. own' \in [Ring -> {"dma", "app"}]  BY <1>1
  <2> QED  BY NType, EthRxAssumption, <1>1, <1>3, <2>1 DEF EInv, Control
<1>6. RingInv'
  <2>1. cur' = Slot(taken' + 1)  BY <1>1, <1>2, SlotNext
  <2>2. ASSUME NEW k \in (taken + 2)..frames PROVE own'[Slot(k)] = "app"
    <3>1. k \in (taken + 1)..frames /\ k \in Nat \ {0} /\ taken + 1 < k /\ k < taken + 1 + N
      BY NType, <1>1
    <3>2. own[Slot(k)] = "app"  BY <3>1 DEF EInv, RingInv
    <3>3. Slot(k) # cur /\ Slot(k) \in Ring  BY <1>1, <1>2, <3>1, SlotDistinct, SlotType
    <3> QED  BY <1>1, <3>2, <3>3
  <2>3. ASSUME NEW k \in (frames + 1)..(taken + 1 + N) PROVE own'[Slot(k)] = "dma"
    <3>1. CASE k = taken + 1 + N
      <4>1. Slot(k) = cur  BY <1>1, <1>2, <3>1, SlotAgain
      <4> QED  BY <1>1, <1>2, <4>1
    <3>2. CASE k # taken + 1 + N
      <4>1. k \in (frames + 1)..(taken + N) /\ k \in Nat \ {0}  BY NType, <1>1, <3>2
      <4>2. own[Slot(k)] = "dma"  BY <4>1 DEF EInv, RingInv
      <4> QED  BY <1>1, <4>1, <4>2, SlotType
    <3> QED  BY <3>1, <3>2
  <2>4. taken' + 1 = taken + 2 /\ taken' + N = taken + 1 + N  BY NType, <1>1
  <2> QED  BY <1>1, <1>2, <2>1, <2>2, <2>3, <2>4 DEF EInv, RingInv
<1>7. PICK q : q = [buffer |-> cur, frame |-> taken + 1] /\ p' = {q}
  BY <1>4 DEF low_level_input, Buffer
<1>8. q \in Pbuf /\ q.frame = taken + 1 /\ q.buffer = Slot(q.frame)
  BY EthRxAssumption, <1>1, <1>2, <1>3, <1>7 DEF Pbuf
<1>9. PbufInv'
  <2>1. reass \subseteq Pbuf /\ \A o \in reass : o.frame \in Nat /\ o.frame <= taken /\ o.buffer = Slot(o.frame)
    BY DEF EInv, PbufInv, Pbuf
  <2>2. \A o \in p' \cup reass' : o.frame <= taken' /\ o.buffer = Slot(o.frame)
    BY <1>1, <1>7, <1>8, <2>1
  <2>3. \A o \in reass' : o.frame < q.frame  BY <1>1, <1>8, <2>1
  <2> QED  BY <1>1, <1>7, <1>8, <2>1, <2>2, <2>3 DEF PbufInv, Pbuf
<1>10. PoolInv'
  <2>1. p = {}  BY <1>1 DEF EInv, PbufInv
  <2>2. Cardinality(p) = 0 /\ Cardinality(p') = 1  BY <1>7, <2>1, FS_EmptySet, FS_Singleton
  <2>3. Cardinality(reass) \in Nat  BY FS_CardinalityType DEF EInv, PoolInv
  <2> QED  BY EthRxAssumption, <1>1, <2>2, <2>3 DEF EInv, PoolInv
<1> QED  BY <1>5, <1>6, <1>9, <1>10 DEF EInv

\* Freeing fragments that reassembly keeps.
LEMMA Fragments ==
    ASSUME EInv, NEW frag \in SUBSET reass
    PROVE  /\ IsFiniteSet(reass) /\ IsFiniteSet(frag) /\ IsFiniteSet(reass \ frag)
           /\ Cardinality(reass) \in Nat /\ Cardinality(frag) \in Nat
           /\ Cardinality(reass \ frag) = Cardinality(reass) - Cardinality(frag)
<1>1. IsFiniteSet(reass)  BY DEF EInv, PoolInv
<1>2. IsFiniteSet(frag) /\ reass \cap frag = frag  BY <1>1, FS_Subset
<1>3. IsFiniteSet(reass \ frag)
      /\ Cardinality(reass \ frag) = Cardinality(reass) - Cardinality(reass \cap frag)
  BY <1>1, FS_Difference
<1> QED  BY <1>1, <1>2, <1>3, FS_CardinalityType

\* The pbuf of ethernetif_input is none of those that reassembly keeps.
LEMMA OnePbuf ==
    ASSUME EInv, pc = "stack"
    PROVE  IsFiniteSet(p) /\ Cardinality(p) = 1 /\ p \cap reass = {}
<1>1. PICK q \in p : p = {q} /\ \A o \in reass : o.frame < q.frame  BY DEF EInv, PbufInv
<1>2. q.frame \in Nat  BY DEF EInv, PbufInv, Pbuf
<1>3. q \notin reass  BY <1>1, <1>2
<1> QED  BY <1>1, <1>3, FS_Singleton

\* netif->input frees the pbuf and the fragments it goes with.
LEMMA InputHolds == ASSUME EInv, netif_input PROVE EInv'
<1>1. pc = "stack" /\ pc' = "input" /\ p' = {}
      /\ UNCHANGED <<own, Rx_Buff, dma, cur, irq, flag, frames, taken>>
  BY DEF netif_input, TRY_GET_NEXT_FRAGMENT
<1>2. PICK frag \in SUBSET reass : reass' = reass \ frag
                                    /\ RX_POOL' = RX_POOL + Cardinality(p \cup frag)
  BY DEF netif_input, Freed
<1>3. Control' /\ RingInv'  BY <1>1 DEF EInv, Control, RingInv
<1>4. PbufInv'  BY <1>1, <1>2 DEF EInv, PbufInv
<1>5. PoolInv'
  <2>1. /\ IsFiniteSet(p) /\ Cardinality(p) = 1 /\ p \cap reass = {}
        /\ IsFiniteSet(frag) /\ IsFiniteSet(reass \ frag)
        /\ Cardinality(reass) \in Nat /\ Cardinality(frag) \in Nat
        /\ Cardinality(reass \ frag) = Cardinality(reass) - Cardinality(frag)
    BY <1>1, OnePbuf, Fragments
  <2>2. Cardinality(p \cup frag) = 1 + Cardinality(frag)
    <3>1. p \cap frag = {}  BY <2>1
    <3>2. Cardinality(p \cup frag) = Cardinality(p) + Cardinality(frag) - Cardinality(p \cap frag)
      BY <2>1, FS_Union
    <3>3. Cardinality(p \cap frag) = 0  BY <3>1, FS_EmptySet
    <3> QED  BY <2>1, <3>2, <3>3
  <2>3. Cardinality(p') = 0  BY <1>1, FS_EmptySet
  <2> QED  BY EthRxAssumption, <1>2, <2>1, <2>2, <2>3 DEF EInv, PoolInv
<1> QED  BY <1>3, <1>4, <1>5 DEF EInv

\* ip4_reass keeps the pbuf, and frees others when there are too many.
LEMMA ReassHolds == ASSUME EInv, ip4_reass PROVE EInv'
<1>1. pc = "stack" /\ pc' = "input" /\ p' = {}
      /\ UNCHANGED <<own, Rx_Buff, dma, cur, irq, flag, frames, taken>>
  BY DEF ip4_reass, TRY_GET_NEXT_FRAGMENT
<1>2. PICK frag \in SUBSET reass :
        /\ Cardinality(reass \ frag) < MaxReass /\ reass' = (reass \ frag) \cup p
        /\ RX_POOL' = RX_POOL + Cardinality(frag)
  BY DEF ip4_reass, Freed
<1>3. Control' /\ RingInv'  BY <1>1 DEF EInv, Control, RingInv
<1>4. PbufInv'  BY <1>1, <1>2 DEF EInv, PbufInv
<1>5. PoolInv'
  <2>1. /\ IsFiniteSet(p) /\ Cardinality(p) = 1 /\ p \cap reass = {}
        /\ IsFiniteSet(frag) /\ IsFiniteSet(reass \ frag)
        /\ Cardinality(reass) \in Nat /\ Cardinality(frag) \in Nat
        /\ Cardinality(reass \ frag) = Cardinality(reass) - Cardinality(frag)
    BY <1>1, OnePbuf, Fragments
  <2>2. /\ IsFiniteSet((reass \ frag) \cup p)
        /\ Cardinality((reass \ frag) \cup p) = Cardinality(reass \ frag) + 1
    <3>1. (reass \ frag) \cap p = {}  BY <2>1
    <3>2. /\ IsFiniteSet((reass \ frag) \cup p)
          /\ Cardinality((reass \ frag) \cup p)
               = Cardinality(reass \ frag) + Cardinality(p) - Cardinality((reass \ frag) \cap p)
      BY <2>1, FS_Union
    <3>3. Cardinality((reass \ frag) \cap p) = 0  BY <3>1, FS_EmptySet
    <3> QED  BY <2>1, <3>2, <3>3
  <2>3. Cardinality(p') = 0  BY <1>1, FS_EmptySet
  <2> QED  BY EthRxAssumption, <1>2, <2>1, <2>2, <2>3 DEF EInv, PoolInv
<1> QED  BY <1>3, <1>4, <1>5 DEF EInv

\* ip_reass_tmr frees fragments.
LEMMA TimerHolds == ASSUME EInv, ip_reass_tmr PROVE EInv'
<1>1. UNCHANGED <<own, Rx_Buff, dma, cur, irq, flag, pc, p, frames, taken>> /\ pc = "loop"
  BY DEF ip_reass_tmr
<1>2. PICK frag \in SUBSET reass : reass' = reass \ frag /\ RX_POOL' = RX_POOL + Cardinality(frag)
  BY DEF ip_reass_tmr, Freed
<1>3. Control' /\ RingInv'  BY <1>1 DEF EInv, Control, RingInv
<1>4. PbufInv'  BY <1>1, <1>2 DEF EInv, PbufInv
<1>5. PoolInv'
  <2>1. Cardinality(p) = 0  BY <1>1, FS_EmptySet DEF EInv, PbufInv
  <2> QED  BY EthRxAssumption, <1>1, <1>2, <2>1, Fragments DEF EInv, PoolInv
<1> QED  BY <1>3, <1>4, <1>5 DEF EInv

\* The steps that move neither frames nor pbufs: the interrupt, the test of flag
\* and its clearing, and the return.
LEMMA QuietHolds ==
    ASSUME EInv, HAL_ETH_RxCpltCallback \/ Seen \/ Cleared \/ Emptied \/ UNCHANGED vars
    PROVE  EInv'
<1>1. /\ UNCHANGED <<own, Rx_Buff, dma, cur, p, reass, RX_POOL, frames, taken>>
      /\ pc' \in {"loop", "seen", "input", "stack"}
      /\ pc' = "stack" <=> pc = "stack"
  BY DEF EInv, Control, HAL_ETH_RxCpltCallback, Seen, Cleared, Emptied, vars
<1>2. Control' /\ RingInv'  BY <1>1 DEF EInv, Control, RingInv
<1>3. PbufInv' /\ PoolInv'  BY <1>1 DEF EInv, PbufInv, PoolInv
<1> QED  BY <1>2, <1>3 DEF EInv

\* EInv is an invariant of reception: every action of the DMA, the interrupt
\* and the loop preserves it.
THEOREM ReceptionInvariant == Spec => []EInv
<1>1. ASSUME EInv, [Next]_vars PROVE EInv'
  <2>1. CASE Receive  BY <1>1, <2>1, ReceiveHolds
  <2>2. CASE low_level_input  BY <1>1, <2>2, TakeHolds
  <2>3. CASE netif_input  BY <1>1, <2>3, InputHolds
  <2>4. CASE ip4_reass  BY <1>1, <2>4, ReassHolds
  <2>5. CASE ip_reass_tmr  BY <1>1, <2>5, TimerHolds
  <2>6. CASE HAL_ETH_RxCpltCallback \/ Seen \/ Cleared \/ Emptied \/ UNCHANGED vars
    BY <1>1, <2>6, QuietHolds
  <2> QED  BY <1>1, <2>1, <2>2, <2>3, <2>4, <2>5, <2>6 DEF Next, Loop
<1> QED  BY <1>1, InitHolds, PTL DEF Spec

-----------------------------------------------------------------------------
(* What follows from it                                                    *)

\* A frame handed to lwIP is the one received until the ring has come round,
\* for a ring of any size.
THEOREM FramesIntact == Spec => []Intact
<1>1. ASSUME EInv PROVE Intact
  <2> SUFFICES ASSUME NEW q \in p \cup reass, frames < q.frame + N PROVE Rx_Buff[q.buffer] = q.frame
    BY DEF Intact, N
  <2>1. q.frame \in 1..MaxFrames /\ q.frame <= taken /\ q.buffer = Slot(q.frame)
    BY <1>1 DEF EInv, PbufInv, Pbuf
  <2>2. q.frame \in 1..frames /\ q.frame + N > frames
    BY <1>1, <2>1, NType, EthRxAssumption DEF EInv, Control
  <2> QED  BY <1>1, <2>1, <2>2 DEF EInv, RingInv
<1> QED  BY <1>1, ReceptionInvariant, PTL

\* ethernetif_input hands over every frame of the ring, the oldest first.
THEOREM FramesInOrder == Spec => []Fifo
<1>1. ASSUME EInv PROVE Fifo
  <2>1. /\ frames \in Nat /\ taken \in Nat /\ taken <= frames /\ frames <= taken + N
        /\ cur = Slot(taken + 1)
    BY <1>1, EthRxAssumption DEF EInv, Control, RingInv
  <2>2. \A k \in (taken + 1)..frames : own[Slot(k)] = "app" /\ Rx_Buff[Slot(k)] = k /\ Slot(k) \in Ring
    <3> SUFFICES ASSUME NEW k \in (taken + 1)..frames
                 PROVE  own[Slot(k)] = "app" /\ Rx_Buff[Slot(k)] = k /\ Slot(k) \in Ring
      OBVIOUS
    <3>1. k \in 1..frames /\ k + N > frames /\ k \in Nat \ {0}  BY <2>1, NType
    <3> QED  BY <1>1, <3>1, SlotType DEF EInv, RingInv
  <2>3. own[cur] = "app" => taken < frames
    <3>1. SUFFICES ASSUME taken = frames PROVE own[cur] # "app"  BY <2>1
    <3>2. taken + 1 \in (frames + 1)..(taken + N)  BY <2>1, <3>1, NType
    <3> QED  BY <1>1, <2>1, <3>2 DEF EInv, RingInv
  <2>4. taken < frames => Rx_Buff[cur] = taken + 1
    <3>1. taken < frames => taken + 1 \in (taken + 1)..frames  BY <2>1
    <3> QED  BY <2>1, <2>2, <3>1
  <2> QED  BY <2>2, <2>3, <2>4 DEF Fifo
<1> QED  BY <1>1, ReceptionInvariant, PTL

\* low_level_input always finds an element, for any pool that is larger than what
\* reassembly may keep.
THEOREM PoolNeverEmpty == Spec => []PoolSuffices
<1>1. ASSUME EInv PROVE PoolSuffices
  <2> SUFFICES ASSUME pc = "input" PROVE RX_POOL > 0  BY DEF PoolSuffices
  <2>1. Cardinality(p) = 0  BY <1>1, FS_EmptySet DEF EInv, PbufInv
  <2>2. Cardinality(reass) \in Nat  BY <1>1, FS_CardinalityType DEF EInv, PoolInv
  <2> QED  BY <1>1, <2>1, <2>2, EthRxAssumption DEF EInv, PoolInv
<1> QED  BY <1>1, ReceptionInvariant, PTL

\* irq and flag are set and cleared by the interrupt and the loop.
LEMMA FlagTypes == Spec => [](irq \in BOOLEAN /\ flag \in BOOLEAN)
<1> DEFINE F == irq \in BOOLEAN /\ flag \in BOOLEAN
<1>1. Init => F  BY Zenon DEF Init
<1>2. F /\ [Next]_vars => F'
  <2> SUFFICES ASSUME F, [Next]_vars PROVE F'  OBVIOUS
  <2>1. irq' \in {TRUE, FALSE, irq} /\ flag' \in {TRUE, FALSE, flag}
    BY Zenon DEF Next, Loop, Receive, HAL_ETH_RxCpltCallback, Seen, Cleared, Emptied, low_level_input,
                 netif_input, ip4_reass, ip_reass_tmr, vars
  <2> QED  BY <2>1, Zenon
<1> QED  BY <1>1, <1>2, PTL DEF Spec

\* The state of reception has its type.
THEOREM ReceptionTypes == Spec => []TypeOK
<1>1. ASSUME EInv, irq \in BOOLEAN /\ flag \in BOOLEAN PROVE TypeOK
  <2>1. frames \in Nat /\ taken \in Nat /\ dma \in Ring /\ cur \in Ring
    BY <1>1, EthRxAssumption, SlotType DEF EInv, Control, RingInv
  <2>2. Cardinality(p) = IF pc = "stack" THEN 1 ELSE 0
    <3>1. CASE pc = "stack"  BY <1>1, <3>1, OnePbuf
    <3>2. CASE pc # "stack"  BY <1>1, <3>2, FS_EmptySet DEF EInv, PbufInv
    <3> QED  BY <3>1, <3>2
  <2>3. RX_POOL \in 0..Pool
    <3>1. Cardinality(reass) \in Nat /\ Cardinality(reass) <= MaxReass
      BY <1>1, FS_CardinalityType DEF EInv, PoolInv
    <3>2. Cardinality(p) \in {0, 1}  BY <2>2
    <3> QED  BY <1>1, <3>1, <3>2, EthRxAssumption DEF EInv, PoolInv
  <2> QED  BY <1>1, <2>1, <2>2, <2>3 DEF EInv, Control, PbufInv, PoolInv, Pbuf, TypeOK
<1> QED  BY <1>1, ReceptionInvariant, FlagTypes, PTL

\* A frame that waits in the ring is announced: the interrupt is pending, flag is
\* set, or the loop is on its way through the ring (ethernetif_input).
Announced == taken < frames => irq \/ flag \/ pc # "loop"

\* No wake-up is lost between the interrupt and the loop, which clears flag without
\* masking the interrupt: a frame that comes while the loop clears flag, takes
\* another one or finds the ring empty is announced.  The safety part of
\* NoFrameStuck, for a ring of any size.
THEOREM NoWakeUpLost == Spec => []Announced
<1>1. Init => Announced
  BY DEF Init, Announced
<1>2. ASSUME EInv, Announced, [Next]_vars PROVE Announced'
  <2>1. SUFFICES ASSUME taken' < frames' PROVE irq' \/ flag' \/ pc' # "loop"
    BY DEF Announced
  <2>2. CASE Receive  BY <2>2 DEF Receive
  <2>3. CASE HAL_ETH_RxCpltCallback  BY <2>3 DEF HAL_ETH_RxCpltCallback
  <2>4. CASE Seen \/ Cleared \/ low_level_input  BY <2>4 DEF Seen, Cleared, low_level_input
  <2>5. CASE netif_input \/ ip4_reass
    BY <2>5 DEF netif_input, ip4_reass, TRY_GET_NEXT_FRAGMENT
  <2>6. CASE Emptied
    <3>1. taken < frames /\ own[cur] = "dma"  BY <2>1, <2>6 DEF Emptied
    <3>2. taken \in Nat /\ frames \in Nat /\ cur = Slot(taken + 1)
      BY <1>2, EthRxAssumption DEF EInv, Control, RingInv
    <3>3. taken + 1 \in (taken + 1)..frames  BY <3>1, <3>2
    <3>4. own[cur] = "app"  BY <1>2, <3>2, <3>3 DEF EInv, RingInv
    <3> QED  BY <3>1, <3>4
  <2>7. CASE ip_reass_tmr \/ UNCHANGED vars
    <3>1. UNCHANGED <<irq, flag, pc, taken, frames>>  BY <2>7 DEF ip_reass_tmr, vars
    <3> QED  BY <1>2, <2>1, <3>1 DEF Announced
  <2> QED  BY <1>2, <2>2, <2>3, <2>4, <2>5, <2>6, <2>7 DEF Next, Loop
<1> QED  BY <1>1, <1>2, ReceptionInvariant, PTL DEF Spec

=============================================================================
