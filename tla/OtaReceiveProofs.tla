---------------------------- MODULE OtaReceiveProofs ----------------------------
(***************************************************************************)
(* Theorems about OtaReceive, for any images, buffer size, segment size    *)
(* and number of connections: the buffers are never overrun, what is       *)
(* staged is what was offered, and receiving implements Staging.           *)
(***************************************************************************)
EXTENDS OtaReceive, TLAPS

\* The inductive invariant: an upload is judged only behind a whole header, a
\* new update starts only when nothing is received or staged, and the write
\* only when something is.  What is staged is as long as the buffer until late
\* data arrives.
OInv ==
    /\ TypeOK
    /\ BufferBounds
    /\ st = "VERIFY" => parsed
    /\ pc = "update" => st \notin {"RECEIVING", "CONFIRM"}
    /\ pc = "write" => st = "CONFIRM"
    /\ StagedIsOffered
    /\ FeedsAlone
    /\ st = "CONFIRM" /\ "late_data" \notin stray =>
         parsed /\ Len(buf) = Len(Content[crcExp])

USE OtaAssumption

-----------------------------------------------------------------------------

\* Everything a peer sends is data.
LEMMA StreamTypes == Streams \subseteq Seq(Data)
  <1>1. \A v \in Images : <<Magic, Len(Content[v])>> \o Content[v] \in Seq(Data)
    <2> TAKE v \in Images
    <2>1. Content[v] \in Seq(Data)
      BY DEF Data
    <2>2. <<Magic, Len(Content[v])>> \in Seq(Data)
      BY DEF Data
    <2> QED
      BY <2>1, <2>2
  <1>2. <<Junk, 0>> \in Seq(Data)
    BY DEF Data
  <1> QED
    BY <1>1, <1>2 DEF Streams

\* Cutting a sequence of data in two.
LEMMA CutTypes ==
    ASSUME NEW s \in Seq(Data), NEW n \in Nat, n <= Len(s)
    PROVE  /\ SubSeq(s, 1, n) \in Seq(Data)
           /\ Len(SubSeq(s, 1, n)) = n
           /\ SubSeq(s, n + 1, Len(s)) \in Seq(Data)
           /\ Len(SubSeq(s, n + 1, Len(s))) = Len(s) - n
  OBVIOUS

\* What the receive callback does to the header and the buffer.
LEMMA RecvStep ==
    ASSUME OInv, NEW p \in Seq(Data), Len(p) \in 1..MaxSeg,
           RecvOverflow(Len(p)) \/ RecvHeader(p) \/ RecvPayload(p)
    PROVE  /\ parsed' \in BOOLEAN /\ hdr' \in Seq(Data) /\ buf' \in Seq(Data)
           /\ BufferBounds'
           /\ parsed => parsed'
           /\ st' \in {st, "ERROR"}
  <1> USE DEF OInv, TypeOK, BufferBounds, Overflows, ota_received, rxVars
  <1>1. CASE RecvOverflow(Len(p))
    BY <1>1 DEF RecvOverflow
  <1>2. CASE RecvHeader(p)
    <2> DEFINE take == IF Len(p) < HeaderNeeds THEN Len(p) ELSE HeaderNeeds
               h == hdr \o SubSeq(p, 1, take)
               rest == SubSeq(p, take + 1, Len(p))
    <2>1. take \in Nat /\ take <= Len(p) /\ Len(hdr) + take <= 2
      BY DEF HeaderNeeds
    <2>2. /\ SubSeq(p, 1, take) \in Seq(Data) /\ Len(SubSeq(p, 1, take)) = take
          /\ rest \in Seq(Data) /\ Len(rest) = Len(p) - take
      BY <2>1, CutTypes
    <2>3. h \in Seq(Data) /\ Len(h) <= 2
      BY <2>1, <2>2
    <2>4. /\ ~parsed /\ Len(hdr) + Len(p) <= BufSize
          /\ hdr' = h
          /\ \/ UNCHANGED <<st, parsed, buf>>
             \/ st' = "ERROR" /\ UNCHANGED <<parsed, buf>>
             \/ parsed' = TRUE /\ buf' = rest /\ UNCHANGED st
      BY <1>2 DEF RecvHeader
    <2>5. parsed' \in BOOLEAN
      BY <2>4, Zenon
    <2> HIDE DEF take, h, rest
    <2> QED
      BY <2>1, <2>2, <2>3, <2>4, <2>5
  <1>3. CASE RecvPayload(p)
    BY <1>3 DEF RecvPayload
  <1> QED
    BY <1>1, <1>2, <1>3

\* The staging area holds data, or what erasing and writing leave.
LEMMA StagingTypes ==
    ASSUME OInv, st = "VERIFY", NEW k, NEW m \in 0..ota_received
    PROVE  AfterWrite(AfterErase(k), m) \in [Slots -> Data \cup {Blank, Bad}]
  <1>1. AfterErase(k) \in [Slots -> Data \cup {Blank, Bad}]
    BY DEF OInv, TypeOK, AfterErase
  <1>2. parsed /\ m <= Len(buf) /\ m \in Nat
    BY DEF OInv, TypeOK, ota_received
  <1>3. \A j \in Slots : j <= m => buf[j] \in Data
    BY <1>2 DEF OInv, TypeOK, Slots
  <1> QED
    BY <1>1, <1>3 DEF AfterWrite, Burn

\* The receiver as reset leaves it satisfies the invariant.
LEMMA OInvInit == Init => OInv
  <1> SUFFICES ASSUME Init PROVE OInv
    OBVIOUS
  <1>1. TypeOK
    <2>1. server \in BOOLEAN /\ parsed \in BOOLEAN
      BY Zenon DEF Init
    <2>2. hdr \in Seq(Data) /\ buf \in Seq(Data) /\ todo \in [Conns -> Seq(Data)]
      BY DEF Init
    <2> QED
      BY <2>1, <2>2 DEF Init, TypeOK, OtaStates, Pcs, NetPcs
  <1> QED
    BY <1>1 DEF Init, OInv, BufferBounds, StagedIsOffered, FeedsAlone

\* Every callback, poll and key keeps the invariant; one case per action.
LEMMA OInvStep == OInv /\ [Next]_vars => OInv'
  <1> SUFFICES ASSUME OInv, [Next]_vars PROVE OInv'
    OBVIOUS
  <1> USE DEF OInv, TypeOK, BufferBounds, StagedIsOffered, FeedsAlone, OtaStates, Pcs,
              NetPcs, rxVars, netVars
  <1>1. ASSUME NEW c \in Conns, Accept(c) PROVE OInv'
    <2>1. todo' \in [Conns -> Seq(Data)]
      BY <1>1, StreamTypes DEF Accept
    <2>2. CASE client # None
      BY ZenonT(60), <1>1, <2>1, <2>2 DEF Accept
    <2>3. CASE client = None
      BY SMTT(30), <1>1, <2>1, <2>3 DEF Accept
    <2> QED
      BY <2>2, <2>3
  <1>2. ASSUME NEW c \in Conns, NEW n \in 1..MaxSeg, Recv(c, n) PROVE OInv'
    <2> DEFINE p == SubSeq(todo[c], 1, n)
               rest == SubSeq(todo[c], n + 1, Len(todo[c]))
    <2>1. todo[c] \in Seq(Data) /\ n <= Len(todo[c])
      BY <1>2 DEF Recv
    <2>2. p \in Seq(Data) /\ Len(p) = n /\ rest \in Seq(Data)
      BY <2>1, CutTypes
    <2>3. RecvOverflow(Len(p)) \/ RecvHeader(p) \/ RecvPayload(p)
      BY <1>2, <2>2 DEF Recv
    <2>4. /\ parsed' \in BOOLEAN /\ hdr' \in Seq(Data) /\ buf' \in Seq(Data)
          /\ BufferBounds' /\ (parsed => parsed') /\ st' \in {st, "ERROR"}
      BY <2>2, <2>3, RecvStep
    <2>5. /\ pc \in NetPcs /\ todo' = [todo EXCEPT ![c] = rest]
          /\ stray' = stray \cup (IF st = "RECEIVING" THEN {} ELSE {"late_data"})
          /\ UNCHANGED <<server, client, crcExp, staging, conn, pc, round, updates>>
      BY <1>2 DEF Recv
    <2> HIDE DEF p, rest
    <2> QED
      BY <2>2, <2>4, <2>5
  <1>3. ASSUME NEW c \in Conns, RecvFin(c) PROVE OInv'
    BY <1>3 DEF RecvFin, MayBeAll, IsLength, ota_expected
  <1>4. ASSUME NEW c \in Conns, Err(c) PROVE OInv'
    BY <1>4 DEF Err
  <1>5. ASSUME NEW c \in Conns, Closed(c) PROVE OInv'
    BY <1>5 DEF Closed
  <1>6. CASE PollIdle
    BY <1>6 DEF PollIdle, LoopTo
  <1>7. CASE PollCrcError
    BY <1>7 DEF PollCrcError, LoopTo
  <1>8. CASE PollQspiError
    BY <1>8, StagingTypes DEF PollQspiError, LoopTo
  <1>9. CASE PollStage
    <2>1. ota_received \in 0..ota_received /\ ota_received = Len(buf) /\ st = "VERIFY"
      BY <1>9 DEF PollStage, ota_received
    <2>2. staging' \in [Slots -> Data \cup {Blank, Bad}]
      <3>1. PICK k \in ErasedTo : staging' = AfterWrite(AfterErase(k), ota_received)
        BY <1>9 DEF PollStage
      <3> QED
        BY <2>1, <3>1, StagingTypes
    <2>3. StagedIsOffered'
      BY <1>9, <2>1 DEF PollStage, LoopTo, StateAfterReadback, CrcMatches
    <2>4. st' \in {"CONFIRM", "ERROR"}
      BY <1>9 DEF PollStage, StateAfterReadback
    <2>5. parsed' /\ Len(buf') = Len(Content[crcExp'])
      BY <1>9 DEF PollStage, LoopTo, CrcMatches
    <2>6. UNCHANGED <<server, client, parsed, hdr, buf, crcExp, conn, todo, round, updates, stray>>
          /\ pc' = "confirm"
      BY <1>9 DEF PollStage, LoopTo
    <2> QED
      BY <2>2, <2>3, <2>4, <2>5, <2>6
  <1>10. CASE NetDone
    BY <1>10 DEF NetDone, LoopTo
  <1>11. CASE ConfirmSkip
    BY <1>11 DEF ConfirmSkip, LoopTo
  <1>12. CASE ConfirmYes
    BY <1>12 DEF ConfirmYes, LoopTo, OTA_IsConfirm
  <1>13. CASE ConfirmNo
    BY <1>13 DEF ConfirmNo, StopTo, StopServer, Aborted
  <1>14. CASE WriteFails
    BY <1>14 DEF WriteFails, StopTo, StopServer, Aborted
  <1>15. CASE WriteDone
    <2>1. server' \in BOOLEAN /\ parsed' \in BOOLEAN
      BY <1>15, Zenon DEF WriteDone
    <2>2. hdr' \in Seq(Data) /\ buf' \in Seq(Data)
      BY <1>15 DEF WriteDone
    <2> QED
      BY <1>15, <2>1, <2>2 DEF WriteDone
  <1>16. CASE KeyNone
    BY <1>16 DEF KeyNone, LoopTo
  <1>17. CASE KeyEsc
    BY <1>17 DEF KeyEsc, StopTo, StopServer, Aborted
  <1>18. CASE KeyUpdate
    BY <1>18 DEF KeyUpdate, LoopTo, OtaBusy
  <1>19. CASE UpdateNo
    BY <1>19 DEF UpdateNo, LoopTo
  <1>20. CASE UpdateYes
    <2>1. server' \in BOOLEAN /\ parsed' \in BOOLEAN
      BY <1>20, Zenon DEF UpdateYes
    <2>2. hdr' \in Seq(Data) /\ buf' \in Seq(Data)
      BY <1>20 DEF UpdateYes
    <2> QED
      BY <1>20, <2>1, <2>2 DEF UpdateYes, Aborted
  <1>21. CASE UpdateFails
    <2>1. server' \in BOOLEAN /\ parsed' \in BOOLEAN
      BY <1>21, Zenon DEF UpdateFails, StopServer
    <2>2. hdr' \in Seq(Data) /\ buf' \in Seq(Data)
      BY <1>21 DEF UpdateFails
    <2> QED
      BY <1>21, <2>1, <2>2 DEF UpdateFails, StopServer, Aborted
  <1>22. CASE TriggerConnected
    BY <1>22 DEF TriggerConnected, LoopTo
  <1>23. CASE TriggerTimeout
    <2>1. server' \in BOOLEAN
      BY <1>23, Zenon DEF TriggerTimeout, StopTo, StopServer
    <2>2. CASE StopTo("net")
      BY <2>1, <2>2 DEF StopTo, StopServer, Aborted
    <2>3. CASE round < 3 /\ round' = round + 1
               /\ UNCHANGED <<st, server, client, rxVars, crcExp, staging, netVars, pc,
                             updates, stray>>
      BY <2>3
    <2> QED
      BY <1>23, <2>2, <2>3 DEF TriggerTimeout
  <1>24. CASE UNCHANGED vars
    BY <1>24 DEF vars
  <1> QED
    BY <1>1, <1>2, <1>3, <1>4, <1>5, <1>6, <1>7, <1>8, <1>9, <1>10, <1>11, <1>12,
       <1>13, <1>14, <1>15, <1>16, <1>17, <1>18, <1>19, <1>20, <1>21, <1>22, <1>23,
       <1>24
    DEF Next, Network, Program, OTA_Poll

\* Whatever arrives, from however many connections and in whatever pieces, the
\* receive callback writes only inside ota_buf and ota_stage (ota.c,
\* ota_recv_cb).
THEOREM NoOverrun == Spec => []BufferBounds
  <1>1. OInv => BufferBounds
    BY DEF OInv
  <1> QED
    BY <1>1, OInvInit, OInvStep, PTL DEF Spec

\* What the operator is asked to write is the image that was offered, whatever
\* erase, write or late connection went wrong before (ota.c, OTA_Poll).
THEOREM StagedVerified == Spec => []StagedIsOffered
  <1>1. OInv => StagedIsOffered
    BY DEF OInv
  <1> QED
    BY <1>1, OInvInit, OInvStep, PTL DEF Spec

\* The variables keep their types: in particular the staging area, which an
\* erase or a write that failed half-way leaves mixed, and the trigger round.
THEOREM ReceiverTypes == Spec => []TypeOK
  <1>1. OInv => TypeOK
    BY DEF OInv
  <1> QED
    BY <1>1, OInvInit, OInvStep, PTL DEF Spec

\* Until a closed connection reports an error, at most one connection feeds the
\* buffer, and it is the one OTA_Server_Stop aborts (ota.c, ota_accept_cb).
THEOREM ClientIsAlone == Spec => []FeedsAlone
  <1>1. OInv => FeedsAlone
    BY DEF OInv
  <1> QED
    BY <1>1, OInvInit, OInvStep, PTL DEF Spec

\* Unless data arrived behind a complete upload, the size that is programmed and
\* recorded is the size of the image on offer (main.c passes ota_received).
THEOREM SizeIsImageSize == Spec => []WritesImageSize
  <1>1. OInv => WritesImageSize
    BY DEF OInv, WritesImageSize, ota_received
  <1> QED
    BY <1>1, OInvInit, OInvStep, PTL DEF Spec

-----------------------------------------------------------------------------
(* Refinement.                                                             *)

\* Under the invariant the staged image is the one on offer.
LEMMA Mapping ==
    /\ OInv => StagedImage = IF st = "CONFIRM" THEN crcExp ELSE None
    /\ OInv' => StagedImage' = IF st' = "CONFIRM" THEN crcExp' ELSE None
  BY DEF OInv, StagedIsOffered, StagedImage, CrcMatches

\* How a step may change the state and the offer.
LEMMA StageStep ==
    ASSUME OInv, [Next]_vars
    PROVE  \/ crcExp' = crcExp /\ (st' = "CONFIRM" <=> st = "CONFIRM")
           \/ crcExp' \in Images /\ st # "CONFIRM" /\ st' # "CONFIRM"
           \/ crcExp' = crcExp /\ st # "CONFIRM" /\ st' = "CONFIRM" /\ crcExp # None
           \/ crcExp' \in {crcExp, None} /\ st = "CONFIRM" /\ st' # "CONFIRM"
  <1> USE DEF rxVars, netVars
  <1>1. CASE Network
    <2>1. ASSUME NEW c \in Conns, NEW n \in 1..MaxSeg, Recv(c, n)
          PROVE  crcExp' = crcExp /\ st' \in {st, "ERROR"}
      BY <2>1 DEF Recv, RecvOverflow, RecvHeader, RecvPayload
    <2>2. ASSUME NEW c \in Conns, Accept(c) \/ RecvFin(c) \/ Err(c) \/ Closed(c)
          PROVE  crcExp' = crcExp /\ (st' = "CONFIRM" <=> st = "CONFIRM")
      BY <2>2 DEF Accept, RecvFin, Err, Closed
    <2> QED
      BY <1>1, <2>1, <2>2 DEF Network
  <1>2. CASE OTA_Poll
    BY <1>2 DEF OTA_Poll, PollIdle, PollCrcError, PollQspiError, PollStage, LoopTo,
                StateAfterReadback, CrcMatches
  <1>3. CASE NetDone \/ ConfirmSkip \/ ConfirmYes \/ KeyNone \/ KeyUpdate \/ UpdateNo
             \/ TriggerConnected
    BY <1>3 DEF NetDone, ConfirmSkip, ConfirmYes, KeyNone, KeyUpdate, UpdateNo,
                TriggerConnected, LoopTo
  <1>4. CASE ConfirmNo \/ WriteFails \/ KeyEsc \/ TriggerTimeout
    BY <1>4 DEF ConfirmNo, WriteFails, KeyEsc, TriggerTimeout, StopTo
  <1>5. CASE WriteDone
    BY <1>5 DEF WriteDone, OInv
  <1>6. CASE UpdateYes \/ UpdateFails
    BY <1>6 DEF UpdateYes, UpdateFails, OInv
  <1>7. CASE UNCHANGED vars
    BY <1>7 DEF vars
  <1> QED
    BY <1>1, <1>2, <1>3, <1>4, <1>5, <1>6, <1>7 DEF Next, Program

\* Receiving an image implements Staging: every step offers an image while
\* nothing is staged, stages the one on offer, gives it up, or is invisible to
\* the code that writes it (ota.c, OTA_Poll; main.c, interactive_mode; menu.c,
\* Firmware_Update and Menu_HandleKey).
THEOREM StagingRefined == Spec => ImplementsStaging
  <1>1. Init => St!Init
    BY DEF Init, St!Init, StagedImage
  <1>2. OInv /\ OInv' /\ [Next]_vars =>
          [St!Offer \/ St!Stage \/ St!Leave]_<<crcExp, StagedImage>>
    <2> SUFFICES ASSUME OInv, OInv', [Next]_vars
                 PROVE  \/ St!Offer \/ St!Stage \/ St!Leave
                        \/ UNCHANGED <<crcExp, StagedImage>>
      OBVIOUS
    <2>1. /\ StagedImage = IF st = "CONFIRM" THEN crcExp ELSE None
          /\ StagedImage' = IF st' = "CONFIRM" THEN crcExp' ELSE None
          /\ st = "CONFIRM" => crcExp # None
      BY Mapping DEF OInv, StagedIsOffered
    <2> QED
      BY <2>1, StageStep DEF St!Offer, St!Stage, St!Leave
  <1>3. Spec => []OInv
    BY OInvInit, OInvStep, PTL DEF Spec
  <1> QED
    BY <1>1, <1>2, <1>3, PTL DEF Spec, ImplementsStaging, St!Spec

=============================================================================
