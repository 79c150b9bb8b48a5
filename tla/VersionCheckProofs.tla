-------------------------- MODULE VersionCheckProofs --------------------------
(***************************************************************************)
(* What the version check tells Firmware_Update, for any number of         *)
(* connections and versions: the answers when no closed connection reports *)
(* an error, the types and the retry key in any case.                      *)
(***************************************************************************)
EXTENDS VersionCheck, TLAPS

(***************************************************************************)
(* The inductive invariant.  Every connection that can still call back with *)
(* news is the one v_pcb names, so once a response has cleared v_pcb nothing *)
(* can overwrite it until Version_Check_Start clears it.                    *)
(***************************************************************************)
VInv ==
    /\ TypeOK
    /\ \A c \in Conns : conn[c] \in {"syn", "open", "closewait"} => v_pcb = c
    /\ v_connected => v_pcb = None
    /\ v_ok => v_connected /\ v_info # None
    /\ v_connected /\ ~v_ok => answer = "no update"
    /\ OfferIsStable
    /\ UpToDateIsTrue
    /\ pc \in {"ask", "updating", "uptodate"} => v_pcb = None

\* The start state of main.c satisfies the invariant.
LEMMA VInvInit == Init => VInv
  BY VersionAssumption DEF Init, VInv, TypeOK, OfferIsStable, UpToDateIsTrue

\* A callback of lwIP keeps the invariant.
LEMMA VInvNetwork ==
  ASSUME ~LateErr, VInv, Network
  PROVE  VInv'
<1> USE VersionAssumption DEF VInv, TypeOK, OfferIsStable, UpToDateIsTrue, checkVars
<1>1. CASE Publish
  BY <1>1 DEF Publish
<1>2. ASSUME NEW c \in Conns, Connect(c)
      PROVE  VInv'
  BY <1>2 DEF Connect, Becomes
<1>3. ASSUME NEW c \in Conns, Refuse(c)
      PROVE  VInv'
  BY <1>3 DEF Refuse, Becomes
<1>4. ASSUME NEW c \in Conns, Respond(c)
      PROVE  VInv'
  BY <1>4 DEF Respond, Becomes
<1>5. ASSUME NEW c \in Conns, Fin(c)
      PROVE  VInv'
  BY <1>5 DEF Fin, Becomes
<1>6. ASSUME NEW c \in Conns, Err(c)
      PROVE  VInv'
  BY <1>6 DEF Err, Becomes
<1> QED
  BY <1>1, <1>2, <1>3, <1>4, <1>5, <1>6 DEF Network

\* Version_Check_Start, called from the menu or for a retry, keeps the invariant.
LEMMA VInvStart ==
  ASSUME VInv, Version_Check_Start, pc' = "wait",
         UNCHANGED <<crc, published, answer>>
  PROVE  VInv'
<1> USE VersionAssumption DEF VInv, TypeOK, OfferIsStable, UpToDateIsTrue
<1>1. CASE UNCHANGED <<checkVars, conn>>
  BY <1>1 DEF checkVars
<1>2. ASSUME ~Running, v_ok' = FALSE, v_connected' = FALSE, UNCHANGED v_info,
             NEW c \in Conns, conn[c] = "unused", Becomes(c, "syn"),
             v_pcb' = c, v_done' = FALSE
      PROVE  VInv'
  <2>1. v_done' \in BOOLEAN /\ v_ok' \in BOOLEAN /\ v_connected' \in BOOLEAN
    BY <1>2, Zenon
  <2> QED
    BY <1>2, <2>1 DEF Running, Becomes
<1>3. ASSUME ~Running, v_ok' = FALSE, v_connected' = FALSE, UNCHANGED v_info,
             v_pcb' = None, v_done' = TRUE, UNCHANGED conn
      PROVE  VInv'
  <2>1. v_done' \in BOOLEAN /\ v_ok' \in BOOLEAN /\ v_connected' \in BOOLEAN
    BY <1>3, Zenon
  <2> QED
    BY <1>3, <2>1 DEF Running
<1> QED
  BY <1>1, <1>2, <1>3 DEF Version_Check_Start

\* A step of Firmware_Update keeps the invariant.
LEMMA VInvUpdate ==
  ASSUME VInv, Firmware_Update
  PROVE  VInv'
<1>1. CASE KeyUpdate \/ KeyRetry
  BY <1>1, VInvStart DEF KeyUpdate, KeyRetry
<1> USE VersionAssumption DEF VInv, TypeOK, OfferIsStable, UpToDateIsTrue, checkVars
<1>2. CASE WaitEnds
  BY <1>2 DEF WaitEnds
<1>3. CASE AnswerYes
  BY <1>3 DEF AnswerYes, Goes
<1>4. CASE BackToMenu
  BY <1>4 DEF BackToMenu, Goes
<1> QED
  BY <1>1, <1>2, <1>3, <1>4 DEF Firmware_Update

\* VInv is an invariant of the version check, as long as lwIP reports no error of
\* a connection v_recv_cb has closed.
THEOREM VersionInvariant ==
  ASSUME ~LateErr
  PROVE  Spec => []VInv
<1>1. VInv /\ [Next]_vars => VInv'
  <2> SUFFICES ASSUME VInv, [Next]_vars PROVE VInv'
    OBVIOUS
  <2>1. CASE Next
    BY <2>1, VInvNetwork, VInvUpdate DEF Next
  <2>2. CASE UNCHANGED vars
    BY <2>2 DEF vars, VInv, TypeOK, OfferIsStable, UpToDateIsTrue
  <2> QED
    BY <2>1, <2>2
<1> QED
  BY <1>1, VInvInit, PTL DEF Spec

-----------------------------------------------------------------------------
(* What holds also when closed connections report errors                   *)

\* A check the program takes for running has a connection that lwIP still knows,
\* or one of the two endings no callback reports.
Attempt == v_pcb # None => conn[v_pcb] \in {"syn", "open", "refused", "closewait"}

\* The start state has its type, and no check.
LEMMA AttemptInit == Init => TypeOK /\ Attempt
  BY VersionAssumption DEF Init, TypeOK, Attempt

\* A callback that ends the connection of the check clears v_pcb.
LEMMA AttemptNetwork ==
  ASSUME TypeOK, Attempt, Network
  PROVE  TypeOK' /\ Attempt'
<1> USE VersionAssumption DEF TypeOK, Attempt, checkVars
<1>1. CASE Publish
  BY <1>1, ZenonT(60) DEF Publish
<1>2. ASSUME NEW c \in Conns, Connect(c)
      PROVE  TypeOK' /\ Attempt'
  BY <1>2, ZenonT(60) DEF Connect, Becomes
<1>3. ASSUME NEW c \in Conns, Refuse(c)
      PROVE  TypeOK' /\ Attempt'
  BY <1>3, ZenonT(60) DEF Refuse, Becomes
<1>4. ASSUME NEW c \in Conns, Respond(c)
      PROVE  TypeOK' /\ Attempt'
  BY <1>4, ZenonT(60) DEF Respond, Becomes
<1>5. ASSUME NEW c \in Conns, Fin(c)
      PROVE  TypeOK' /\ Attempt'
  BY <1>5, ZenonT(60) DEF Fin, Becomes
<1>6. ASSUME NEW c \in Conns, Err(c)
      PROVE  TypeOK' /\ Attempt'
  BY <1>6, ZenonT(60) DEF Err, Becomes
<1> QED
  BY <1>1, <1>2, <1>3, <1>4, <1>5, <1>6 DEF Network

\* Version_Check_Start names a connection only when it opens one.
LEMMA AttemptStart ==
  ASSUME TypeOK, Attempt, Version_Check_Start
  PROVE  /\ v_pcb' \in Conns \cup {None} /\ v_info' \in Images \cup {None}
         /\ v_done' \in BOOLEAN /\ v_ok' \in BOOLEAN /\ v_connected' \in BOOLEAN
         /\ conn' \in [Conns -> {"unused", "syn", "open", "closewait", "finwait", "refused", "gone"}]
         /\ Attempt'
         /\ ~Forgotten => v_pcb' = None \/ \E c \in Conns : conn'[c] \in {"syn", "open"}
<1>1. v_done' \in BOOLEAN /\ v_ok' \in BOOLEAN /\ v_connected' \in BOOLEAN
  BY Zenon DEF Version_Check_Start, TypeOK, checkVars
<1>2. CASE Running /\ UNCHANGED <<checkVars, conn>>
  BY <1>1, <1>2 DEF TypeOK, Attempt, Forgotten, Running, checkVars
<1>3. ASSUME NEW c \in Conns, Becomes(c, "syn"), v_pcb' = c, UNCHANGED v_info
      PROVE  /\ v_info' \in Images \cup {None} /\ Attempt' /\ conn'[c] = "syn"
             /\ conn' \in [Conns -> {"unused", "syn", "open", "closewait", "finwait", "refused", "gone"}]
  BY <1>3 DEF TypeOK, Attempt, Becomes
<1>4. CASE v_pcb' = None /\ UNCHANGED <<conn, v_info>>
  BY <1>1, <1>4 DEF TypeOK, Attempt
<1> QED
  BY <1>1, <1>2, <1>3, <1>4 DEF Version_Check_Start

\* A step of Firmware_Update keeps both.
LEMMA AttemptUpdate ==
  ASSUME TypeOK, Attempt, Firmware_Update
  PROVE  TypeOK' /\ Attempt'
<1>1. CASE KeyUpdate \/ KeyRetry
  BY <1>1, AttemptStart DEF KeyUpdate, KeyRetry, TypeOK
<1> USE VersionAssumption DEF TypeOK, Attempt, checkVars
<1>2. CASE WaitEnds
  BY <1>2 DEF WaitEnds
<1>3. CASE AnswerYes
  BY <1>3 DEF AnswerYes, Goes
<1>4. CASE BackToMenu
  BY <1>4 DEF BackToMenu, Goes
<1> QED
  BY <1>1, <1>2, <1>3, <1>4 DEF Firmware_Update

\* Both hold all the time.
LEMMA AttemptInvariant == Spec => [](TypeOK /\ Attempt)
<1>1. TypeOK /\ Attempt /\ [Next]_vars => TypeOK' /\ Attempt'
  <2> SUFFICES ASSUME TypeOK, Attempt, [Next]_vars PROVE TypeOK' /\ Attempt'
    OBVIOUS
  <2>1. CASE Next
    BY <2>1, AttemptNetwork, AttemptUpdate DEF Next
  <2>2. CASE UNCHANGED vars
    <3>1. TypeOK'
      BY <2>2, Zenon DEF vars, TypeOK
    <3>2. Attempt'
      BY <2>2, Zenon DEF vars, Attempt
    <3> QED
      BY <3>1, <3>2
  <2> QED
    BY <2>1, <2>2
<1> QED
  BY <1>1, AttemptInit, PTL DEF Spec

\* The state of version_check.c and of Firmware_Update has its type, whatever
\* order the callbacks come in.
THEOREM VersionTypes == Spec => []TypeOK
<1> QED
  BY AttemptInvariant, PTL

\* The retry key of Firmware_Update (menu.c 621) opens a connection, or waits for
\* one that is being tried or open, unless lwIP has no memory or the check is
\* Forgotten; also when closed connections report errors.
THEOREM RetryReallyConnects == Spec => RetryConnects
<1> DEFINE Retry == pc = "failed" /\ pc' = "wait" /\ ~Forgotten =>
                      v_pcb' = None \/ \E c \in Conns : conn'[c] \in {"syn", "open"}
<1>1. TypeOK /\ Attempt /\ [Next]_vars => [Retry]_vars
  <2> SUFFICES ASSUME TypeOK, Attempt, Next, pc = "failed", pc' = "wait", ~Forgotten
               PROVE  v_pcb' = None \/ \E c \in Conns : conn'[c] \in {"syn", "open"}
    OBVIOUS
  <2>1. pc' = pc \/ Firmware_Update
    BY DEF Next, Network, Publish, Connect, Refuse, Respond, Fin, Err
  <2>2. KeyRetry
    BY <2>1 DEF Firmware_Update, KeyUpdate, WaitEnds, AnswerYes, BackToMenu, Goes
  <2> QED
    BY <2>2, AttemptStart DEF KeyRetry
<1> QED
  BY <1>1, AttemptInvariant, PTL DEF Spec, RetryConnects

-----------------------------------------------------------------------------
(* What the answers mean, without such errors                              *)

\* The CRC that Firmware_Update gives to OTA_SetExpectedCRC is that of the image
\* it asked the operator about.
THEOREM AnswerIsUsed ==
  ASSUME ~LateErr
  PROVE  Spec => []OfferIsStable
<1>1. VInv => OfferIsStable
  BY DEF VInv
<1> QED
  BY <1>1, VersionInvariant, PTL

\* Firmware_Update says "up to date" only when the server has answered so.
THEOREM UpToDateWasAnswered ==
  ASSUME ~LateErr
  PROVE  Spec => []UpToDateIsTrue
<1>1. VInv => UpToDateIsTrue
  BY DEF VInv
<1> QED
  BY <1>1, VersionInvariant, PTL

=============================================================================
