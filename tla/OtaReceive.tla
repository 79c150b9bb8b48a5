------------------------------ MODULE OtaReceive ------------------------------
(***************************************************************************)
(* Receiving a firmware image: the TCP server of ota.c, whose callbacks    *)
(* lwIP runs from the main loop, the loop's own steps (OTA_Poll, the       *)
(* "write? (y/n)" question, the menu keys) and the trigger rounds of       *)
(* Firmware_Update.                                                        *)
(*                                                                         *)
(* Abstractions.                                                           *)
(*  - Data is counted in 4-byte words: the header is two words, the magic  *)
(*    and the length.  hdr is ota_stage, buf is ota_buf up to ota_received *)
(*    (the bytes behind it are never read).                                *)
(*  - CRC32 tells images apart: the CRC of a buffer is its contents.       *)
(*  - One pbuf per receive callback.                                       *)
(*  - lwIP is external: callbacks run only where the program polls it      *)
(*    (NetPcs), in any order a network allows.  tcp_close always succeeds, *)
(*    as it does in lwIP 2.0.3.  A closed connection stays in LAST_ACK     *)
(*    until the peer acknowledges; a reset or a timeout there still calls  *)
(*    the error callback.                                                  *)
(*  - The version check is one choice, KeyUpdate; OTA_Flash_Write is one   *)
(*    step here, and module Bootloader models it in detail.                *)
(***************************************************************************)
EXTENDS Integers, Sequences

CONSTANTS
    Images,      \* images a version server can offer
    Content,     \* Content[v]: the words of image v
    Magic, Junk, \* first word of an OTA stream, and of any other
    Conns,       \* connections a peer can open, each once
    BufSize,     \* OTA_BUF_SIZE, in words
    MaxSeg,      \* words in one pbuf
    Blank, Bad,  \* a word of erased NOR flash, a word programmed wrongly
    None,        \* no connection, no image
    LateErr,     \* whether a connection in LAST_ACK can be reset or time out
    QspiFaults,  \* whether QSPI operations can fail
    MaxUpdates   \* bound on the times the operator answers "update now? y"

Words == UNION {{Content[v][k] : k \in DOMAIN Content[v]} : v \in Images}

ASSUME OtaAssumption ==
    /\ MaxSeg \in Nat \ {0} /\ BufSize \in Nat /\ MaxSeg + 2 <= BufSize
    /\ Content \in [Images -> Seq(Words)]
    /\ \A v \in Images : Len(Content[v]) \in 1..BufSize
    /\ \A v, w \in Images : Content[v] = Content[w] => v = w
    /\ Blank \notin Words /\ Bad \notin Words
    /\ None \notin Images \cup Conns
    /\ LateErr \in BOOLEAN /\ QspiFaults \in BOOLEAN
    /\ MaxUpdates \in Nat

VARIABLES
    st,          \* ota_state
    server,      \* ota_server_pcb # NULL: listening on :8000
    client,      \* ota_client_pcb
    parsed,      \* ota_header_parsed
    hdr, buf,    \* ota_stage, ota_buf
    crcExp,      \* ota_crc_expected, as the image it belongs to
    staging,     \* the QSPI staging area
    conn,        \* conn[c]: what lwIP knows of connection c
    todo,        \* todo[c]: what its peer has still to send
    pc, round,   \* where the program is, and the trigger round
    updates,     \* updates started so far
    stray        \* history: what came in where no update expects it

rxVars == <<parsed, hdr, buf>>
netVars == <<conn, todo>>
vars == <<st, server, client, parsed, hdr, buf, crcExp, staging, conn, todo,
          pc, round, updates, stray>>

-----------------------------------------------------------------------------

OtaStates == {"IDLE", "RECEIVING", "VERIFY", "CONFIRM", "ERROR"}
Slots == 1..BufSize
Data == Words \cup {Magic, Junk} \cup 0..BufSize

\* Where the program polls lwIP: the main loop, the version check and its
\* question, the wait for the PC after a trigger packet.
NetPcs == {"net", "update", "trigger"}
Pcs == NetPcs \cup {"poll", "confirm", "write", "key"}

TypeOK ==
    /\ st \in OtaStates
    /\ server \in BOOLEAN /\ client \in Conns \cup {None}
    /\ parsed \in BOOLEAN /\ hdr \in Seq(Data) /\ buf \in Seq(Data)
    /\ crcExp \in Images \cup {None}
    /\ staging \in [Slots -> Data \cup {Blank, Bad}]
    /\ conn \in [Conns -> {"unused", "open", "lastack", "gone"}]
    /\ todo \in [Conns -> Seq(Data)]
    /\ pc \in Pcs /\ round \in 0..3
    /\ updates \in Nat
    /\ stray \subseteq {"late_error", "late_data"}

ota_received == IF parsed THEN Len(buf) ELSE Len(hdr)
ota_expected == IF parsed THEN hdr[2] ELSE 0

-----------------------------------------------------------------------------
(* lwIP and the peers                                                      *)

\* What a peer sends: an image behind its header, or something else.
Streams == {<<Magic, Len(Content[v])>> \o Content[v] : v \in Images} \cup {<<Junk, 0>>}

\* Mutant: the server stops without aborting its client.
MutNotAborted == conn

\* tcp_abort of the current client runs ota_err_cb; what that does to the
\* state is overwritten by the callers.
Aborted == IF client = None THEN conn ELSE [conn EXCEPT ![client] = "gone"]

\* OTA_Server_Stop, without the assignment of ota_state.
StopServer ==
    /\ server' = FALSE
    /\ client' = None
    /\ conn' = Aborted

\* ota_accept_cb: a second client is refused.
Accept(c) ==
    /\ pc \in NetPcs /\ server /\ conn[c] = "unused"
    /\ \E s \in Streams : todo' = [todo EXCEPT ![c] = s]
    /\ IF client # None
       THEN conn' = [conn EXCEPT ![c] = "gone"] /\ UNCHANGED client
       ELSE conn' = [conn EXCEPT ![c] = "open"] /\ client' = c
    /\ UNCHANGED <<st, server, rxVars, crcExp, staging, pc, round, updates, stray>>

\* Mutant: the length of the new data is left out of the test.
MutOverflows(n) == ota_received > BufSize

\* The words of a pbuf that exceeds the buffer are dropped.
Overflows(n) == ota_received + n > BufSize

\* Words still missing from the header.
HeaderNeeds == 2 - Len(hdr)

\* ota_recv_cb with data, before and after the header is complete.
RecvOverflow(n) ==
    /\ Overflows(n)
    /\ st' = "ERROR" /\ UNCHANGED rxVars

RecvHeader(p) ==
    LET take == IF Len(p) < HeaderNeeds THEN Len(p) ELSE HeaderNeeds
        h == hdr \o SubSeq(p, 1, take)
    IN  /\ ~Overflows(Len(p)) /\ ~parsed
        /\ hdr' = h
        /\ \/ Len(h) < 2 /\ UNCHANGED <<st, parsed, buf>>
           \/ Len(h) = 2 /\ h[1] # Magic /\ st' = "ERROR" /\ UNCHANGED <<parsed, buf>>
           \/ /\ Len(h) = 2 /\ h[1] = Magic
              /\ parsed' = TRUE /\ buf' = SubSeq(p, take + 1, Len(p))
              /\ UNCHANGED st

RecvPayload(p) ==
    /\ ~Overflows(Len(p)) /\ parsed
    /\ buf' = buf \o p
    /\ UNCHANGED <<st, parsed, hdr>>

Recv(c, n) ==
    /\ pc \in NetPcs /\ conn[c] = "open" /\ n <= Len(todo[c])
    /\ LET p == SubSeq(todo[c], 1, n)
       IN  RecvOverflow(n) \/ RecvHeader(p) \/ RecvPayload(p)
    /\ todo' = [todo EXCEPT ![c] = SubSeq(@, n + 1, Len(@))]
    /\ stray' = stray \cup (IF st = "RECEIVING" THEN {} ELSE {"late_data"})
    /\ UNCHANGED <<server, client, crcExp, staging, conn, pc, round, updates>>

\* All the payload the header announced has arrived, or not.  The length may
\* be any number when the header was mixed from two connections.
IsLength(w) == w \in 0..BufSize
MayBeAll == IsLength(ota_expected) => ota_expected # 0 /\ ota_received >= ota_expected
MayBeShort == IsLength(ota_expected) => ota_expected = 0 \/ ota_received < ota_expected

\* ota_recv_cb without data: the peer has closed, perhaps before its end.
RecvFin(c) ==
    /\ pc \in NetPcs /\ conn[c] = "open"
    /\ client' = None
    /\ conn' = [conn EXCEPT ![c] = "lastack"]
    /\ \/ st # "RECEIVING" /\ UNCHANGED st
       \/ st = "RECEIVING" /\ MayBeAll /\ st' = "VERIFY"
       \/ st = "RECEIVING" /\ MayBeShort /\ st' = "ERROR"
    /\ UNCHANGED <<server, rxVars, crcExp, staging, todo, pc, round, updates, stray>>

\* ota_err_cb: the connection was reset, or lwIP gave it up.
Err(c) ==
    /\ pc \in NetPcs
    /\ conn[c] = "open" \/ (LateErr /\ conn[c] = "lastack")
    /\ conn' = [conn EXCEPT ![c] = "gone"]
    /\ client' = None
    /\ st' = IF st = "RECEIVING" THEN "ERROR" ELSE st
    /\ stray' = stray \cup (IF conn[c] = "open" THEN {} ELSE {"late_error"})
    /\ UNCHANGED <<server, rxVars, crcExp, staging, todo, pc, round, updates>>

\* The peer acknowledges the FIN; no callback.
Closed(c) ==
    /\ pc \in NetPcs /\ conn[c] = "lastack"
    /\ conn' = [conn EXCEPT ![c] = "gone"]
    /\ UNCHANGED <<st, server, client, rxVars, crcExp, staging, todo, pc, round, updates, stray>>

Network ==
    \E c \in Conns :
        Accept(c) \/ (\E n \in 1..MaxSeg : Recv(c, n)) \/ RecvFin(c) \/ Err(c) \/ Closed(c)

-----------------------------------------------------------------------------
(* OTA_Poll: check the CRC, erase the staging area, write it, read it back *)

\* Mutant: the CRC covers the length of the image on offer, not what arrived.
MutCrcMatches(words) ==
    /\ crcExp # None /\ Len(words) >= Len(Content[crcExp])
    /\ SubSeq(words, 1, Len(Content[crcExp])) = Content[crcExp]

CrcMatches(words) == crcExp # None /\ words = Content[crcExp]

\* Programming clears bits: only an erased word takes the new contents.
Burn(old, new) == IF old \in {Blank, new} THEN new ELSE Bad

\* QSPI_Erase_Blocks stops at the first block that cannot be erased; the
\* result is not looked at.
ErasedTo == IF QspiFaults THEN 0..BufSize ELSE {BufSize}
AfterErase(k) == [j \in Slots |-> IF j <= k THEN Blank ELSE staging[j]]

\* The first m words of buf are written.
AfterWrite(area, m) == [j \in Slots |-> IF j <= m THEN Burn(area[j], buf[j]) ELSE area[j]]

LoopTo(next) ==
    /\ pc' = next
    /\ UNCHANGED <<server, client, rxVars, crcExp, netVars, round, updates, stray>>

PollIdle ==
    /\ pc = "poll" /\ st # "VERIFY"
    /\ LoopTo("confirm") /\ UNCHANGED <<st, staging>>

\* Mutant: the error return without the assignment of ota_state.
MutPollCrcError ==
    /\ pc = "poll" /\ st = "VERIFY" /\ ~CrcMatches(buf)
    /\ LoopTo("confirm") /\ UNCHANGED <<st, staging>>

PollCrcError ==
    /\ pc = "poll" /\ st = "VERIFY" /\ ~CrcMatches(buf)
    /\ st' = "ERROR"
    /\ LoopTo("confirm") /\ UNCHANGED staging

\* Re-initialisation or both write attempts fail.
PollQspiError ==
    /\ pc = "poll" /\ st = "VERIFY" /\ CrcMatches(buf) /\ QspiFaults
    /\ \E k \in ErasedTo, m \in 0..ota_received : staging' = AfterWrite(AfterErase(k), m)
    /\ st' = "ERROR"
    /\ LoopTo("confirm")

\* Mutant: the result of the read-back is not used.
MutNoReadback(area) == "CONFIRM"

\* The state OTA_Poll ends with once staging is written as area.
StateAfterReadback(area) ==
    IF CrcMatches(SubSeq(area, 1, ota_received)) THEN "CONFIRM" ELSE "ERROR"

PollStage ==
    /\ pc = "poll" /\ st = "VERIFY" /\ CrcMatches(buf)
    /\ \E k \in ErasedTo :
         /\ staging' = AfterWrite(AfterErase(k), ota_received)
         /\ st' = StateAfterReadback(staging')
    /\ LoopTo("confirm")

OTA_Poll == PollIdle \/ PollCrcError \/ PollQspiError \/ PollStage

-----------------------------------------------------------------------------
(* The rest of the main loop, and Firmware_Update                          *)

\* lwIP has been polled; the loop goes on.
NetDone == pc = "net" /\ LoopTo("poll") /\ UNCHANGED <<st, staging>>

OTA_IsConfirm == st = "CONFIRM"

\* No question to ask, or a key that is no answer.
ConfirmSkip == pc = "confirm" /\ LoopTo("key") /\ UNCHANGED <<st, staging>>

ConfirmYes ==
    /\ pc = "confirm" /\ OTA_IsConfirm
    /\ LoopTo("write") /\ UNCHANGED <<st, staging>>

\* The server is stopped, the state is IDLE, the loop goes on at next.
StopTo(next) ==
    /\ StopServer /\ st' = "IDLE" /\ pc' = next
    /\ UNCHANGED <<rxVars, crcExp, staging, todo, round, updates, stray>>

ConfirmNo == pc = "confirm" /\ OTA_IsConfirm /\ StopTo("key")
WriteFails == pc = "write" /\ StopTo("key")

\* The write succeeds and the system resets; only flash survives.
WriteDone ==
    /\ pc = "write"
    /\ st' = "IDLE" /\ server' = FALSE /\ client' = None
    /\ parsed' = FALSE /\ hdr' = <<>> /\ buf' = <<>> /\ crcExp' = None
    /\ conn' = [c \in Conns |-> IF conn[c] = "unused" THEN "unused" ELSE "gone"]
    /\ pc' = "net" /\ round' = 0
    /\ UNCHANGED <<staging, todo, updates, stray>>

\* Mutant: a staged image does not keep key 2 from starting an update.
MutOtaBusy == st = "RECEIVING"

OtaBusy == st \in {"RECEIVING", "CONFIRM"}

KeyNone == pc = "key" /\ LoopTo("net") /\ UNCHANGED <<st, staging>>
KeyEsc == pc = "key" /\ OtaBusy /\ StopTo("net")

\* Key 2: Firmware_Update, the version check first.
KeyUpdate ==
    /\ pc = "key" /\ ~OtaBusy
    /\ LoopTo("update") /\ UNCHANGED <<st, staging>>

\* No new version, no connection, or the answer is no.
UpdateNo == pc = "update" /\ LoopTo("net") /\ UNCHANGED <<st, staging>>

\* OTA_SetExpectedCRC and OTA_Server_Start; the first trigger packet.  A
\* tcp_listen that finds no memory returns NULL, which is not looked at.
UpdateYes ==
    /\ pc = "update" /\ updates < MaxUpdates
    /\ crcExp' \in Images
    /\ st' = "RECEIVING" /\ server' \in BOOLEAN /\ client' = None /\ conn' = Aborted
    /\ parsed' = FALSE /\ hdr' = <<>> /\ buf' = <<>>
    /\ pc' = "trigger" /\ round' = 1 /\ updates' = updates + 1
    /\ stray' = stray \ {"late_data"}
    /\ UNCHANGED <<staging, todo>>

\* OTA_Server_Start fails: no memory, or the port is taken.
UpdateFails ==
    /\ pc = "update" /\ updates < MaxUpdates
    /\ crcExp' \in Images
    /\ StopServer /\ st' = "IDLE"
    /\ parsed' = FALSE /\ hdr' = <<>> /\ buf' = <<>>
    /\ pc' = "net" /\ updates' = updates + 1
    /\ stray' = stray \ {"late_data"}
    /\ UNCHANGED <<staging, todo, round>>

TriggerConnected ==
    /\ pc = "trigger" /\ client # None
    /\ LoopTo("net") /\ UNCHANGED <<st, staging>>

\* Mutant: one trigger round too many.
MutTriggerTimeout ==
    /\ pc = "trigger" /\ client = None
    /\ \/ /\ round <= 3 /\ round' = round + 1
          /\ UNCHANGED <<st, server, client, rxVars, crcExp, staging, netVars, pc, updates, stray>>
       \/ round > 3 /\ StopTo("net")

\* Two seconds without a client: the next packet, or the update is given up.
TriggerTimeout ==
    /\ pc = "trigger" /\ client = None
    /\ \/ /\ round < 3 /\ round' = round + 1
          /\ UNCHANGED <<st, server, client, rxVars, crcExp, staging, netVars, pc, updates, stray>>
       \/ round = 3 /\ StopTo("net")

Program ==
    \/ NetDone \/ OTA_Poll \/ ConfirmSkip \/ ConfirmYes \/ ConfirmNo
    \/ WriteFails \/ WriteDone \/ KeyNone \/ KeyEsc
    \/ KeyUpdate \/ UpdateNo \/ UpdateYes \/ UpdateFails
    \/ TriggerConnected \/ TriggerTimeout

\* The staging area is as delivered, or holds something from before.
Init ==
    /\ st = "IDLE" /\ server = FALSE /\ client = None
    /\ parsed = FALSE /\ hdr = <<>> /\ buf = <<>>
    /\ crcExp = None /\ staging \in {[j \in Slots |-> w] : w \in {Blank, Bad}}
    /\ conn = [c \in Conns |-> "unused"] /\ todo = [c \in Conns |-> <<>>]
    /\ pc = "net" /\ round = 0 /\ updates = 0 /\ stray = {}

Next == Network \/ Program

Spec == Init /\ [][Next]_vars

\* The processor keeps executing the loop, and the time of a trigger round
\* passes; what the operator answers, and when, is left open.
Fairness == WF_vars(NetDone \/ OTA_Poll \/ TriggerConnected \/ TriggerTimeout)

FairSpec == Spec /\ Fairness

-----------------------------------------------------------------------------
(* Properties                                                              *)

\* Whatever arrives, in whatever pieces and from however many connections,
\* ota_recv_cb never writes behind ota_buf or ota_stage, and the words a
\* header still needs are never negative (ota.c 203-246).
BufferBounds == Len(buf) <= BufSize /\ Len(hdr) <= 2

\* The operator is asked about, and OTA_Flash_Write reads, only a staging area
\* that starts with the image the version server announced: whatever arrived
\* in between, and whatever an erase that failed left there (ota.c 295-361,
\* "readback CRC will catch it").
StagedIsOffered ==
    st = "CONFIRM" =>
        crcExp # None /\ SubSeq(staging, 1, Len(Content[crcExp])) = Content[crcExp]

\* The image OTA_Flash_Write would find in the staging area.
StagedImage ==
    IF st # "CONFIRM" THEN None
    ELSE IF CrcMatches(SubSeq(staging, 1, Len(Content[crcExp]))) THEN crcExp ELSE Bad

St == INSTANCE Staging WITH offer <- crcExp, staged <- StagedImage

\* Receiving implements Staging: the callbacks, the loop and the keys never
\* stage anything but the image on offer, and neither the offer nor the staged
\* image changes until the operator has answered (ota.c, OTA_Poll; menu.c 643).
ImplementsStaging == St!Spec

\* At most one connection at a time feeds the buffer, and it is the one
\* OTA_Server_Stop would abort (ota_accept_cb, "Busy, rejecting client"), over
\* any number of updates, as long as no connection that ota_recv_cb closed
\* reports an error afterwards: ota_err_cb clears ota_client_pcb whichever
\* connection the error is about.
FeedsAlone ==
    "late_error" \notin stray => \A c \in Conns : conn[c] = "open" => client = c

\* A completed upload is always judged: OTA_Poll accepts or rejects it, or the
\* update is given up (OTA_STATE_VERIFY is "handled by main loop").
VerifyAnswered == (st = "VERIFY") ~> (st # "VERIFY")

\* The size OTA_Flash_Write programs and records is the size of the image
\* (metadata.h, fw_size: "App firmware size in bytes"), unless a connection
\* sent data after the upload was complete: ota_recv_cb counts it in any state.
WritesImageSize ==
    pc = "write" /\ "late_data" \notin stray => ota_received = Len(Content[crcExp])

=============================================================================
