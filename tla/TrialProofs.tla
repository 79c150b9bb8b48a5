------------------------------ MODULE TrialProofs ------------------------------
(***************************************************************************)
(* Theorems about the trial of an update in Bootloader, for any images and *)
(* sectors: what a metadata record says of Bank2 and of the watchdog.      *)
(* Only one caller of Metadata_Write looks at its result, so the first     *)
(* two theorems assume that the internal flash does not fail; a reset may  *)
(* fall anywhere.                                                          *)
(***************************************************************************)
EXTENDS BootloaderProofs

\* The internal flash takes every erase and every write.
Reliable == {"erase", "program"} \cap Faults = {}

\* How far Metadata_Write has come, what each caller writes, and what a copy
\* or an update has put into the backup area and into Bank2.
WriteInv ==
    /\ pc \in MetaPcs /\ rc # 0 => wrong # {} /\ ~Reliable
    /\ pc = "mw_p0" => meta = Erased
    /\ pc = "mw_p1" => meta = Meta(ram.state, ram.cur, None)
    /\ pc = "mw_ret" /\ rc = 0 => meta = Meta(ram.state, ram.cur, ram.bak)
    /\ pc \in MetaPcs =>
         /\ cont # "none"
         /\ cont = "testing" => ram.state = "TESTING"
         /\ cont \in {"rolledback", "rs", "app"} => ram.state = "CONFIRMED"
         /\ cont = "fw_pend" => ram.state = "PENDING" /\ ram.cur = ota
    /\ pc \in {"fw_bakmeta", "bk_meta"} => \A s \in Sectors : backup[s] = bank2[s]
    /\ pc \in {"fw_erase", "fw_prog"} => i < Units[ota]
    /\ pc = "fw_erase" => \A s \in Sectors : s < i => bank2[s] = Blank
    /\ pc = "fw_prog" =>
         \A s \in 0..(Units[ota] - 1) : bank2[s] = IF s < i THEN ota ELSE Blank
    /\ pc = "fw_pendmeta" \/ (pc \in MetaPcs /\ cont = "fw_pend") => Intact(bank2, ota)

\* PENDING is seen by Boot_Metadata_Step, while it replaces it by TESTING, and at
\* the end of the write that published it; never by the menu.
PendingInv ==
    /\ State = "PENDING" =>
         /\ Intact(bank2, meta.cur)
         /\ \/ pc = "boot"
            \/ pc = "mw_erase" /\ cont = "testing"
            \/ pc \in {"mw_p1", "mw_ret"} /\ cont = "fw_pend"
    /\ pc \in MetaPcs /\ cont \in {"fw_bak", "bk"} => ram.state # "PENDING"

\* The program runs on behalf of the menu.
MenuPcs == BackupPcs \cup {"menu", "fw_erase", "fw_prog", "rs_erase", "rs_prog",
                           "fw_bakmeta", "fw_pendmeta", "bk_meta", "rs_meta"}
InMenu == pc \in MenuPcs \/ (pc \in MetaPcs /\ cont \in {"fw_bak", "fw_pend", "bk", "rs"})
InApp == pc \in {"app", "hung"} \/ (pc \in MetaPcs /\ cont = "app")

\* What main knows of the state when it starts the App.
GuardInv ==
    /\ InMenu => req = 0
    /\ pc = "key1" /\ State = "TESTING" => req # 2
    /\ InApp /\ req # 0 /\ State = "TESTING" => iwdg

\* The labels of the metadata, and of the record being written, name what the
\* regions hold.
CurTrue == Metadata_Read.cur # None => Intact(bank2, Metadata_Read.cur)
BakTrue == Metadata_Read.bak # None => Intact(backup, Metadata_Read.bak)
RamTrue ==
    /\ ram.cur # None => Intact(bank2, ram.cur)
    /\ ram.bak # None => Intact(backup, ram.bak)

\* Bank2, or the backup area, is not what the metadata says it is.
Bank2Stale == pc \in Bank2Pcs \cup {"fw_pendmeta", "rs_meta", "rb_meta"} \cup MetaPcs
BackupStale == pc \in BackupPcs \cup {"fw_bakmeta", "bk_meta"} \cup MetaPcs

\* The metadata's labels are true of the regions they may be read for.
LabelInv ==
    /\ ~Bank2Stale => CurTrue
    /\ ~BackupStale => BakTrue
    /\ pc \in MetaPcs => RamTrue

\* Bank2 holds a working image under CONFIRMED, and before CONFIRMED is written.
ConfirmedInv ==
    working # {} =>
        /\ ~Bank2Stale /\ State = "CONFIRMED" => Holds(bank2)
        /\ pc \in MetaPcs /\ cont # "app" /\ ram.state = "CONFIRMED" => Holds(bank2)
        /\ pc \in {"mw_p1", "mw_ret"} /\ cont = "app" => Holds(bank2)

\* As long as nothing went wrong, a working image is where it should be.
OrderlyInv == wrong = {} => CopyInv /\ LabelInv /\ ConfirmedInv

\* While the internal flash works, PENDING and TESTING mean what they say.
TrialInv == Reliable => PendingInv /\ GuardInv

USE ConstantsAssumption

-----------------------------------------------------------------------------
(* Metadata_Write and the loops of an update.                              *)

\* At reset no record is being written.
LEMMA WriteInit == Init => WriteInv
  BY DEF Init, WriteInv, MetaPcs

\* Every step keeps what Metadata_Write has done so far, and how much of the
\* new image OTA_Flash_Write has put into Bank2.
LEMMA WriteStep == TInv /\ ProgressInv /\ WriteInv /\ [Next]_vars => WriteInv'
  <1> SUFFICES ASSUME TInv, ProgressInv, WriteInv, [Next]_vars PROVE WriteInv'
    OBVIOUS
  <1> USE DEF TInv, TypeOK, UpdateHasImage, WriteInv, Region, Sectors, Intact, BackupPcs,
              Bank2Pcs, MetaPcs, CallPcs, IdlePcs, FwPcs, flashVars, callVars, histVars
  <1>1. CASE BootEmpty
    BY <1>1 DEF BootEmpty, BootReturns
  <1>2. CASE BootPending
    BY <1>2 DEF BootPending, CallMetadata_Write, OnPending, Meta
  <1>3. CASE BootPendingDone
    BY <1>3 DEF BootPendingDone, MwReturn
  <1>4. CASE BootTestingOther
    BY <1>4 DEF BootTestingOther, BootReturns
  <1>5. CASE BootTestingIwdg
    BY <1>5 DEF BootTestingIwdg
  <1>6. CASE BootConfirmed
    BY <1>6 DEF BootConfirmed, BootReturns
  <1>7. CASE RollbackMeta
    BY <1>7 DEF RollbackMeta, CallMetadata_Write, Restored, Meta
  <1>8. CASE RollbackDone
    BY <1>8 DEF RollbackDone, MwReturn
  <1>9. CASE RollbackCheck
    BY <1>9 DEF RollbackCheck, Fault
  <1>10. CASE RollbackErase
    BY <1>10 DEF RollbackErase, EraseBank2, RestoreSectors, Loop
  <1>11. CASE RollbackProg
    BY <1>11 DEF RollbackProg, ProgBank2, Loop, Prog
  <1>12. CASE RollbackFails
    BY <1>12 DEF RollbackFails, Bank2Fails, Fault
  <1>13. CASE MainMenu
    BY <1>13 DEF MainMenu
  <1>14. CASE MainJump
    BY <1>14 DEF MainJump
  <1>15. CASE MwErase
    BY <1>15 DEF MwErase
  <1>16. CASE MwProgram0
    BY <1>16 DEF MwProgram0, Meta
  <1>17. CASE MwProgram1
    <2>1. meta.state = ram.state /\ meta.cur = ram.cur
      BY <1>17 DEF MwProgram1, Meta
    <2> QED
      BY <1>17, <2>1 DEF MwProgram1
  <1>18. CASE MwFails
    <2>1. \E k \in {"erase", "program"} : Fault(k)
      BY <1>18 DEF MwFails
    <2>2. wrong' # {} /\ ~Reliable
      BY <2>1 DEF Fault, Reliable
    <2> QED
      BY <1>18, <2>2 DEF MwFails
  <1>19. CASE MenuStage
    BY <1>19 DEF MenuStage, MenuGoes
  <1>20. CASE MenuCancel
    BY <1>20 DEF MenuCancel, MenuGoes
  <1>21. CASE MenuWrite
    BY <1>21 DEF MenuWrite, MenuGoes, OperatorDoes
  <1>22. CASE MenuBackup
    BY <1>22 DEF MenuBackup, MenuGoes, OperatorDoes
  <1>23. CASE MenuRestore
    BY <1>23 DEF MenuRestore, MenuGoes, OperatorDoes
  <1>24. CASE MenuRun
    BY <1>24 DEF MenuRun, MenuGoes
  <1>25. CASE MenuReboot
    BY <1>25 DEF MenuReboot, Reset
  <1>26. CASE FwBackupErase
    BY <1>26 DEF FwBackupErase, EraseBackup, Loop
  <1>27. CASE FwBackupCopy
    BY <1>27 DEF FwBackupCopy, CopyToBackup, BackupUnits, Loop, Prog, ProgressInv
  <1>28. CASE FwBackupMeta
    BY <1>28 DEF FwBackupMeta, CallMetadata_Write
  <1>29. CASE FwBackupDone
    BY <1>29 DEF FwBackupDone, MwReturn, ProgressInv
  <1>30. CASE FwErase
    <2>1. CASE i + 1 < Units[ota]
      BY SMTT(30), <1>30, <2>1 DEF FwErase, EraseBank2, FwSectors, Loop
    <2>2. CASE ~(i + 1 < Units[ota])
      <3>1. pc' = "fw_prog" /\ i' = 0 /\ ota' = ota /\ ota \in Images
        BY <1>30, <2>2 DEF FwErase, EraseBank2, FwSectors, Loop
      <3>2. \A s \in 0..(Units[ota] - 1) : bank2'[s] = Blank
        BY <1>30, <2>2 DEF FwErase, EraseBank2
      <3> QED
        BY <3>1, <3>2
    <2> QED
      BY <2>1, <2>2
  <1>31. CASE FwProg
    BY <1>31 DEF FwProg, ProgBank2, Loop, Prog
  <1>32. CASE FwPendMeta
    BY <1>32 DEF FwPendMeta, CallMetadata_Write, Meta
  <1>33. CASE FwDone
    BY <1>33 DEF FwDone, Reset
  <1>34. CASE FwFails
    BY <1>34 DEF FwFails, BackupFails, Bank2Fails, MwReturn, Fault
  <1>35. CASE BkErase
    BY <1>35 DEF BkErase, EraseBackup, Loop
  <1>36. CASE BkCopy
    BY SMTT(30), <1>36 DEF BkCopy, CopyToBackup, Loop, Prog, ProgressInv
  <1>37. CASE BkMeta
    BY <1>37 DEF BkMeta, CallMetadata_Write
  <1>38. CASE BkEnds
    BY <1>38 DEF BkEnds, MwReturn, BackupFails, Fault
  <1>39. CASE RsErase
    BY <1>39 DEF RsErase, EraseBank2, Loop
  <1>40. CASE RsProg
    BY <1>40 DEF RsProg, ProgBank2, Loop, Prog
  <1>41. CASE RsMeta
    BY <1>41 DEF RsMeta, CallMetadata_Write, Restored, Meta
  <1>42. CASE RsEnds
    BY <1>42 DEF RsEnds, MwReturn, Bank2Fails, Fault
  <1>43. CASE AppConfirm
    BY <1>43 DEF AppConfirm, CallMetadata_Write, Meta
  <1>44. CASE AppConfirmDone
    BY <1>44 DEF AppConfirmDone, MwReturn
  <1>45. CASE AppHang
    BY <1>45 DEF AppHang
  <1>46. CASE IwdgReset
    BY <1>46 DEF IwdgReset, Reset
  <1>47. CASE \E kind \in {"por", "pin"} : ExternalReset(kind)
    BY <1>47 DEF ExternalReset, Reset
  <1>48. CASE UNCHANGED vars
    BY <1>48 DEF vars
  <1> QED
    BY Zenon, <1>1, <1>2, <1>3, <1>4, <1>5, <1>6, <1>7, <1>8, <1>9, <1>10, <1>11, <1>12, <1>13,
       <1>14, <1>15, <1>16, <1>17, <1>18, <1>19, <1>20, <1>21, <1>22, <1>23, <1>24,
       <1>25, <1>26, <1>27, <1>28, <1>29, <1>30, <1>31, <1>32, <1>33, <1>34, <1>35,
       <1>36, <1>37, <1>38, <1>39, <1>40, <1>41, <1>42, <1>43, <1>44, <1>45, <1>46,
       <1>47, <1>48
    DEF Next, Boot, Boot_Metadata_Step, Boot_DoRollback, Metadata_Write, Menu,
        OTA_Flash_Write, Backup_SlotA, Restore_SlotA, Environment

\* What Metadata_Read makes of an unchanged, an erased and a written sector.
LEMMA ReadFacts ==
    /\ UNCHANGED meta => Metadata_Read' = Metadata_Read /\ State' = State
    /\ meta = Erased => Metadata_Read = Defaults /\ State = "EMPTY"
    /\ meta' = Erased => Metadata_Read' = Defaults /\ State' = "EMPTY"
    /\ \A st, c, b : meta = Meta(st, c, b) =>
         Metadata_Read = Meta(st, c, b) /\ State = st /\ meta.cur = c
    /\ \A st, c, b : meta' = Meta(st, c, b) =>
         Metadata_Read' = Meta(st, c, b) /\ State' = st /\ meta'.cur = c
    /\ State # "EMPTY" => Metadata_Read = meta
  <1>1. UNCHANGED meta => Metadata_Read' = Metadata_Read /\ State' = State
    BY DEF State, Metadata_Read
  <1>2. Erased.magic = FALSE /\ Defaults.state = "EMPTY"
    BY DEF Erased, Defaults, Meta
  <1>3. \A st, c, b : /\ Meta(st, c, b).magic = TRUE /\ Meta(st, c, b).state = st
                     /\ Meta(st, c, b).cur = c
    BY DEF Meta
  <1>4. State # "EMPTY" => Metadata_Read = meta
    BY <1>2 DEF State, Metadata_Read
  <1>5. /\ meta = Erased => Metadata_Read = Defaults /\ State = "EMPTY"
        /\ meta' = Erased => Metadata_Read' = Defaults /\ State' = "EMPTY"
    BY <1>2 DEF State, Metadata_Read
  <1>6. \A st, c, b : meta = Meta(st, c, b) =>
          Metadata_Read = Meta(st, c, b) /\ State = st /\ meta.cur = c
    BY <1>3 DEF State, Metadata_Read
  <1>7. \A st, c, b : meta' = Meta(st, c, b) =>
          Metadata_Read' = Meta(st, c, b) /\ State' = st /\ meta'.cur = c
    BY <1>3 DEF State, Metadata_Read
  <1> QED
    BY <1>1, <1>4, <1>5, <1>6, <1>7

\* The internal flash is the only part of Metadata_Write that can fail.
LEMMA NoFault == Reliable => ~MwFails /\ ~Fault("erase") /\ ~Fault("program")
  BY DEF Reliable, MwFails, Fault

-----------------------------------------------------------------------------
(* PENDING_UPDATE.                                                         *)

\* Every step keeps PENDING away from the menu, and Bank2 untouched under it.
LEMMA PendingStep ==
    ASSUME Reliable, TInv, WriteInv, PendingInv, [Next]_vars
    PROVE  PendingInv'
  <1> USE ReadFacts DEF PendingInv, Intact, BackupPcs, Bank2Pcs, MetaPcs, CallPcs, IdlePcs,
                        flashVars, callVars, histVars
  <1>1. CASE BootEmpty
    BY <1>1 DEF BootEmpty, BootReturns, State
  <1>2. CASE BootPending
    BY <1>2 DEF BootPending, CallMetadata_Write
  <1>3. CASE BootPendingDone
    BY <1>3 DEF BootPendingDone, MwReturn
  <1>4. CASE BootTestingOther
    BY <1>4 DEF BootTestingOther, BootReturns, State
  <1>5. CASE BootTestingIwdg
    BY <1>5 DEF BootTestingIwdg, State
  <1>6. CASE BootConfirmed
    BY <1>6 DEF BootConfirmed, BootReturns, State
  <1>7. CASE RollbackMeta
    BY <1>7 DEF RollbackMeta, CallMetadata_Write
  <1>8. CASE RollbackDone
    BY <1>8 DEF RollbackDone, MwReturn
  <1>9. CASE RollbackCheck
    BY <1>9 DEF RollbackCheck, Fault
  <1>10. CASE RollbackErase
    BY <1>10 DEF RollbackErase, EraseBank2, RestoreSectors, Loop
  <1>11. CASE RollbackProg
    BY <1>11 DEF RollbackProg, ProgBank2, Loop, Prog
  <1>12. CASE RollbackFails
    BY <1>12 DEF RollbackFails, Bank2Fails, Fault
  <1>13. CASE MainMenu
    BY <1>13 DEF MainMenu
  <1>14. CASE MainJump
    BY <1>14 DEF MainJump
  <1>15. CASE MwErase
    BY <1>15 DEF MwErase
  <1>16. CASE MwProgram0
    <2>1. State' = ram.state /\ meta'.cur = ram.cur
      BY <1>16 DEF MwProgram0
    <2>2. ram.state = "PENDING" => cont = "fw_pend" /\ ram.cur = ota /\ Intact(bank2, ota)
      BY <1>16 DEF MwProgram0, WriteInv, TInv, TypeOK, Conts
    <2> QED
      BY <1>16, <2>1, <2>2 DEF MwProgram0
  <1>17. CASE MwProgram1
    <2>1. State = ram.state /\ meta.cur = ram.cur /\ meta.state = ram.state
      BY <1>17 DEF MwProgram1, WriteInv, Meta
    <2>2. State' = State /\ meta'.cur = meta.cur
      BY <1>17, <2>1 DEF MwProgram1
    <2> QED
      BY <1>17, <2>2 DEF MwProgram1
  <1>18. CASE MwFails
    BY <1>18, NoFault
  <1>19. CASE MenuStage
    BY <1>19 DEF MenuStage, MenuGoes
  <1>20. CASE MenuCancel
    BY <1>20 DEF MenuCancel, MenuGoes
  <1>21. CASE MenuWrite
    BY <1>21 DEF MenuWrite, MenuGoes, OperatorDoes
  <1>22. CASE MenuBackup
    BY <1>22 DEF MenuBackup, MenuGoes, OperatorDoes
  <1>23. CASE MenuRestore
    BY <1>23 DEF MenuRestore, MenuGoes, OperatorDoes
  <1>24. CASE MenuRun
    BY <1>24 DEF MenuRun, MenuGoes
  <1>25. CASE MenuReboot
    BY <1>25 DEF MenuReboot, Reset
  <1>26. CASE FwBackupErase
    BY <1>26 DEF FwBackupErase, EraseBackup, Loop
  <1>27. CASE FwBackupCopy
    BY <1>27 DEF FwBackupCopy, CopyToBackup, BackupUnits, Loop, Prog
  <1>28. CASE FwBackupMeta
    BY <1>28 DEF FwBackupMeta, CallMetadata_Write, BackedUp, Meta, State
  <1>29. CASE FwBackupDone
    BY <1>29 DEF FwBackupDone, MwReturn
  <1>30. CASE FwErase
    BY <1>30 DEF FwErase, EraseBank2, FwSectors, Loop
  <1>31. CASE FwProg
    BY <1>31 DEF FwProg, ProgBank2, Loop, Prog
  <1>32. CASE FwPendMeta
    BY <1>32 DEF FwPendMeta, CallMetadata_Write
  <1>33. CASE FwDone
    BY <1>33 DEF FwDone, Reset
  <1>34. CASE FwFails
    <2>1. ~(rc = -1 /\ MwReturn("fw_pend", "menu"))
      BY DEF WriteInv, MwReturn
    <2> QED
      BY <1>34, <2>1 DEF FwFails, BackupFails, Bank2Fails, Fault
  <1>35. CASE BkErase
    BY <1>35 DEF BkErase, EraseBackup, Loop
  <1>36. CASE BkCopy
    BY <1>36 DEF BkCopy, CopyToBackup, Loop, Prog
  <1>37. CASE BkMeta
    BY <1>37 DEF BkMeta, CallMetadata_Write, BackedUp, Meta, State
  <1>38. CASE BkEnds
    BY <1>38 DEF BkEnds, MwReturn, BackupFails, Fault
  <1>39. CASE RsErase
    BY <1>39 DEF RsErase, EraseBank2, Loop
  <1>40. CASE RsProg
    BY <1>40 DEF RsProg, ProgBank2, Loop, Prog
  <1>41. CASE RsMeta
    BY <1>41 DEF RsMeta, CallMetadata_Write
  <1>42. CASE RsEnds
    BY <1>42 DEF RsEnds, MwReturn, Bank2Fails, Fault
  <1>43. CASE AppConfirm
    BY <1>43 DEF AppConfirm, CallMetadata_Write
  <1>44. CASE AppConfirmDone
    BY <1>44 DEF AppConfirmDone, MwReturn
  <1>45. CASE AppHang
    BY <1>45 DEF AppHang
  <1>46. CASE IwdgReset
    BY <1>46 DEF IwdgReset, Reset
  <1>47. CASE \E kind \in {"por", "pin"} : ExternalReset(kind)
    BY <1>47 DEF ExternalReset, Reset
  <1>48. CASE UNCHANGED vars
    BY <1>48 DEF vars
  <1> QED
    BY Zenon, <1>1, <1>2, <1>3, <1>4, <1>5, <1>6, <1>7, <1>8, <1>9, <1>10, <1>11, <1>12, <1>13,
       <1>14, <1>15, <1>16, <1>17, <1>18, <1>19, <1>20, <1>21, <1>22, <1>23, <1>24,
       <1>25, <1>26, <1>27, <1>28, <1>29, <1>30, <1>31, <1>32, <1>33, <1>34, <1>35,
       <1>36, <1>37, <1>38, <1>39, <1>40, <1>41, <1>42, <1>43, <1>44, <1>45, <1>46,
       <1>47, <1>48
    DEF Next, Boot, Boot_Metadata_Step, Boot_DoRollback, Metadata_Write, Menu,
        OTA_Flash_Write, Backup_SlotA, Restore_SlotA, Environment

-----------------------------------------------------------------------------
(* TESTING.                                                                *)

\* Every step keeps the watchdog running under an App on trial that boot started.
LEMMA GuardStep ==
    ASSUME Reliable, TInv, WriteInv, GuardInv, [Next]_vars
    PROVE  GuardInv'
  <1> USE ReadFacts DEF GuardInv, InMenu, InApp, MenuPcs, BackupPcs, Bank2Pcs, MetaPcs,
                        CallPcs, IdlePcs, flashVars, callVars, histVars
  <1>1. CASE BootEmpty
    BY <1>1 DEF BootEmpty, BootReturns
  <1>2. CASE BootPending
    BY <1>2 DEF BootPending, CallMetadata_Write
  <1>3. CASE BootPendingDone
    BY <1>3 DEF BootPendingDone, MwReturn
  <1>4. CASE BootTestingOther
    BY <1>4 DEF BootTestingOther, BootReturns
  <1>5. CASE BootTestingIwdg
    BY <1>5 DEF BootTestingIwdg
  <1>6. CASE BootConfirmed
    BY <1>6 DEF BootConfirmed, BootReturns, State
  <1>7. CASE RollbackMeta
    BY <1>7 DEF RollbackMeta, CallMetadata_Write
  <1>8. CASE RollbackDone
    <2>1. rc = 0
      BY <1>8 DEF RollbackDone, MwReturn, WriteInv, TInv, TypeOK
    <2>2. State = "CONFIRMED"
      BY SMTT(30), <1>8, <2>1 DEF RollbackDone, MwReturn, WriteInv
    <2> QED
      BY <1>8, <2>2 DEF RollbackDone, MwReturn
  <1>9. CASE RollbackCheck
    BY <1>9 DEF RollbackCheck, Fault
  <1>10. CASE RollbackErase
    BY <1>10 DEF RollbackErase, EraseBank2, RestoreSectors, Loop
  <1>11. CASE RollbackProg
    BY <1>11 DEF RollbackProg, ProgBank2, Loop, Prog
  <1>12. CASE RollbackFails
    BY <1>12 DEF RollbackFails, Bank2Fails, Fault
  <1>13. CASE MainMenu
    BY <1>13 DEF MainMenu
  <1>14. CASE MainJump
    <2>1. req \in 0..2 /\ (State = "TESTING" => req # 2)
      BY <1>14 DEF MainJump, TInv, TypeOK
    <2>2. State = "TESTING" /\ req # 0 => req = 1
      BY <2>1
    <2>3. iwdg' = (req = 1) /\ pc' = "app" /\ req' = req /\ State' = State
      BY <1>14, Zenon DEF MainJump, NeedsWatchdog, State, Metadata_Read
    <2> QED
      BY Zenon, <2>2, <2>3
  <1>15. CASE MwErase
    BY <1>15 DEF MwErase
  <1>16. CASE MwProgram0
    <2>1. State' = ram.state /\ (cont = "app" => ram.state = "CONFIRMED")
      BY <1>16 DEF MwProgram0, WriteInv
    <2> QED
      BY <1>16, <2>1 DEF MwProgram0
  <1>17. CASE MwProgram1
    <2>1. State = ram.state /\ meta.state = ram.state
      BY <1>17 DEF MwProgram1, WriteInv, Meta
    <2>2. State' = State
      BY <1>17, <2>1 DEF MwProgram1
    <2> QED
      BY <1>17, <2>2 DEF MwProgram1
  <1>18. CASE MwFails
    BY <1>18 DEF MwFails, Fault
  <1>19. CASE MenuStage
    BY <1>19 DEF MenuStage, MenuGoes
  <1>20. CASE MenuCancel
    BY <1>20 DEF MenuCancel, MenuGoes
  <1>21. CASE MenuWrite
    BY <1>21 DEF MenuWrite, MenuGoes, OperatorDoes
  <1>22. CASE MenuBackup
    BY <1>22 DEF MenuBackup, MenuGoes, OperatorDoes
  <1>23. CASE MenuRestore
    BY <1>23 DEF MenuRestore, MenuGoes, OperatorDoes
  <1>24. CASE MenuRun
    BY <1>24 DEF MenuRun, MenuGoes
  <1>25. CASE MenuReboot
    BY <1>25 DEF MenuReboot, Reset
  <1>26. CASE FwBackupErase
    BY <1>26 DEF FwBackupErase, EraseBackup, Loop
  <1>27. CASE FwBackupCopy
    BY <1>27 DEF FwBackupCopy, CopyToBackup, BackupUnits, Loop, Prog
  <1>28. CASE FwBackupMeta
    BY <1>28 DEF FwBackupMeta, CallMetadata_Write
  <1>29. CASE FwBackupDone
    BY <1>29 DEF FwBackupDone, MwReturn
  <1>30. CASE FwErase
    BY <1>30 DEF FwErase, EraseBank2, FwSectors, Loop
  <1>31. CASE FwProg
    BY <1>31 DEF FwProg, ProgBank2, Loop, Prog
  <1>32. CASE FwPendMeta
    BY <1>32 DEF FwPendMeta, CallMetadata_Write
  <1>33. CASE FwDone
    BY <1>33 DEF FwDone, Reset
  <1>34. CASE FwFails
    BY <1>34 DEF FwFails, BackupFails, Bank2Fails, MwReturn, Fault
  <1>35. CASE BkErase
    BY <1>35 DEF BkErase, EraseBackup, Loop
  <1>36. CASE BkCopy
    BY <1>36 DEF BkCopy, CopyToBackup, Loop, Prog
  <1>37. CASE BkMeta
    BY <1>37 DEF BkMeta, CallMetadata_Write
  <1>38. CASE BkEnds
    BY <1>38 DEF BkEnds, MwReturn, BackupFails, Fault
  <1>39. CASE RsErase
    BY <1>39 DEF RsErase, EraseBank2, Loop
  <1>40. CASE RsProg
    BY <1>40 DEF RsProg, ProgBank2, Loop, Prog
  <1>41. CASE RsMeta
    BY <1>41 DEF RsMeta, CallMetadata_Write
  <1>42. CASE RsEnds
    BY <1>42 DEF RsEnds, MwReturn, Bank2Fails, Fault
  <1>43. CASE AppConfirm
    BY <1>43 DEF AppConfirm, CallMetadata_Write
  <1>44. CASE AppConfirmDone
    BY <1>44 DEF AppConfirmDone, MwReturn
  <1>45. CASE AppHang
    BY <1>45 DEF AppHang
  <1>46. CASE IwdgReset
    BY <1>46 DEF IwdgReset, Reset
  <1>47. CASE \E kind \in {"por", "pin"} : ExternalReset(kind)
    BY <1>47 DEF ExternalReset, Reset
  <1>48. CASE UNCHANGED vars
    BY <1>48 DEF vars
  <1> QED
    BY Zenon, <1>1, <1>2, <1>3, <1>4, <1>5, <1>6, <1>7, <1>8, <1>9, <1>10, <1>11, <1>12, <1>13,
       <1>14, <1>15, <1>16, <1>17, <1>18, <1>19, <1>20, <1>21, <1>22, <1>23, <1>24,
       <1>25, <1>26, <1>27, <1>28, <1>29, <1>30, <1>31, <1>32, <1>33, <1>34, <1>35,
       <1>36, <1>37, <1>38, <1>39, <1>40, <1>41, <1>42, <1>43, <1>44, <1>45, <1>46,
       <1>47, <1>48
    DEF Next, Boot, Boot_Metadata_Step, Boot_DoRollback, Metadata_Write, Menu,
        OTA_Flash_Write, Backup_SlotA, Restore_SlotA, Environment

-----------------------------------------------------------------------------
(* The labels, and CONFIRMED, while nothing goes wrong.                    *)

\* What went wrong is not forgotten.
LEMMA WrongStays == [Next]_vars => wrong \subseteq wrong'
  <1> SUFFICES ASSUME [Next]_vars PROVE wrong \subseteq wrong'
    OBVIOUS
  <1>1. ASSUME NEW k, Fault(k) PROVE wrong \subseteq wrong'
    BY <1>1 DEF Fault
  <1>2. ASSUME NEW rule, OperatorDoes(rule) PROVE wrong \subseteq wrong'
    BY <1>2 DEF OperatorDoes
  <1>3. CASE Boot
    BY <1>1, <1>3
    DEF Boot, Boot_Metadata_Step, BootEmpty, BootPending, BootPendingDone, BootTestingOther,
        BootTestingIwdg, BootConfirmed, RollbackMeta, RollbackDone, BootReturns,
        CallMetadata_Write, MwReturn, Boot_DoRollback, RollbackCheck, RollbackErase,
        RollbackProg, RollbackFails, EraseBank2, ProgBank2, Bank2Fails, MainMenu, MainJump
  <1>4. CASE Metadata_Write
    BY Zenon, <1>1, <1>4 DEF Metadata_Write, MwErase, MwProgram0, MwProgram1, MwFails
  <1>5. CASE Menu
    BY <1>2, <1>5
    DEF Menu, MenuStage, MenuCancel, MenuWrite, MenuBackup, MenuRestore, MenuRun, MenuReboot
  <1>6. CASE OTA_Flash_Write
    BY Zenon, <1>1, <1>6
    DEF OTA_Flash_Write, FwBackupErase, FwBackupCopy, FwBackupMeta, FwBackupDone, FwErase,
        FwProg, FwPendMeta, FwDone, FwFails, EraseBackup, CopyToBackup, EraseBank2,
        ProgBank2, CallMetadata_Write, MwReturn, BackupFails, Bank2Fails
  <1>7. CASE Backup_SlotA \/ Restore_SlotA
    BY Zenon, <1>1, <1>7
    DEF Backup_SlotA, BkErase, BkCopy, BkMeta, BkEnds, Restore_SlotA, RsErase, RsProg, RsMeta,
        RsEnds, EraseBackup, CopyToBackup, EraseBank2, ProgBank2, CallMetadata_Write,
        MwReturn, BackupFails, Bank2Fails
  <1>8. CASE Environment
    BY <1>8
    DEF Environment, AppConfirm, AppConfirmDone, AppHang, IwdgReset, ExternalReset,
        CallMetadata_Write, MwReturn
  <1>9. CASE UNCHANGED vars
    BY <1>9 DEF vars
  <1> QED
    BY <1>3, <1>4, <1>5, <1>6, <1>7, <1>8, <1>9 DEF Next

\* A failure is something that goes wrong.
LEMMA FaultIsWrong == \A k : Fault(k) => wrong' # {}
  BY DEF Fault

\* The labels change only with the variables they are about.
LEMMA LabelFrames ==
    /\ UNCHANGED <<bank2, meta>> => (CurTrue' <=> CurTrue)
    /\ UNCHANGED <<backup, meta>> => (BakTrue' <=> BakTrue)
    /\ UNCHANGED <<bank2, backup, ram>> => (RamTrue' <=> RamTrue)
  BY SMTT(30) DEF CurTrue, BakTrue, RamTrue, Intact, Metadata_Read

\* A caller of Metadata_Write finds its record in the metadata.
LEMMA Written ==
    ASSUME wrong = {}, WriteInv, pc = "mw_ret"
    PROVE  State = ram.state /\ (RamTrue => CurTrue /\ BakTrue)
  <1>1. rc = 0
    BY DEF WriteInv, MetaPcs
  <1>2. meta = Meta(ram.state, ram.cur, ram.bak)
    BY <1>1 DEF WriteInv
  <1>3. State = ram.state /\ Metadata_Read.cur = ram.cur /\ Metadata_Read.bak = ram.bak
    BY SMTT(30), <1>2, ReadFacts DEF Meta
  <1> QED
    BY <1>3 DEF RamTrue, CurTrue, BakTrue

\* The same label describes two regions that are equal.
LEMMA SameLabels ==
    ASSUME TInv, \A s \in Sectors : bank2[s] = backup[s]
    PROVE  /\ CurTrue => (Metadata_Read.cur # None => Intact(backup, Metadata_Read.cur))
           /\ BakTrue => (Metadata_Read.bak # None => Intact(bank2, Metadata_Read.bak))
  <1>1. Metadata_Read.cur \in Labels /\ Metadata_Read.bak \in Labels
    BY RecordTypes DEF TInv, Metadata
  <1>2. \A v \in Images : Intact(bank2, v) <=> Intact(backup, v)
    BY DEF Intact, Sectors
  <1> QED
    BY <1>1, <1>2 DEF CurTrue, BakTrue, Labels

\* Every step keeps the labels true of the regions that are not being rewritten.
LEMMA LabelStep ==
    ASSUME wrong = {}, wrong' = {}, TInv, ProgressInv, WriteInv, LabelInv, [Next]_vars
    PROVE  LabelInv'
  <1> USE LabelFrames, FaultIsWrong
      DEF LabelInv, Bank2Stale, BackupStale, BackupPcs, Bank2Pcs, MetaPcs, CallPcs, IdlePcs,
          flashVars, callVars, histVars
  <1>1. CASE BootEmpty
    BY <1>1 DEF BootEmpty, BootReturns
  <1>2. CASE BootPending
    <2>1. CurTrue /\ BakTrue /\ ram' = OnPending(Metadata_Read) /\ UNCHANGED <<bank2, backup>>
      BY <1>2 DEF BootPending, CallMetadata_Write
    <2>2. RamTrue'
      BY <2>1 DEF RamTrue, CurTrue, BakTrue, Intact, Meta, OnPending
    <2> QED
      BY <1>2, <2>2 DEF BootPending, CallMetadata_Write
  <1>3. CASE BootPendingDone
    BY <1>3, Written DEF BootPendingDone, MwReturn
  <1>4. CASE BootTestingOther
    BY <1>4 DEF BootTestingOther, BootReturns
  <1>5. CASE BootTestingIwdg
    BY <1>5 DEF BootTestingIwdg
  <1>6. CASE BootConfirmed
    BY <1>6 DEF BootConfirmed, BootReturns
  <1>7. CASE RollbackMeta
    <2>1. BakTrue /\ ram' = Restored(Metadata_Read) /\ UNCHANGED <<bank2, backup>>
      BY <1>7 DEF RollbackMeta, CallMetadata_Write
    <2>2. \A s \in Sectors : bank2[s] = backup[s]
      BY <1>7 DEF RollbackMeta, CallMetadata_Write, ProgressInv
    <2>3. RamTrue'
      BY <2>1, <2>2, SameLabels DEF RamTrue, CurTrue, BakTrue, Intact, Meta, Restored
    <2> QED
      BY <1>7, <2>3 DEF RollbackMeta, CallMetadata_Write
  <1>8. CASE RollbackDone
    BY <1>8, Written DEF RollbackDone, MwReturn
  <1>9. CASE RollbackCheck
    BY <1>9 DEF RollbackCheck, Fault
  <1>10. CASE RollbackErase
    BY <1>10 DEF RollbackErase, EraseBank2, RestoreSectors, Loop
  <1>11. CASE RollbackProg
    BY <1>11 DEF RollbackProg, ProgBank2, Loop, Prog
  <1>12. CASE RollbackFails
    BY <1>12 DEF RollbackFails, Bank2Fails, Fault
  <1>13. CASE MainMenu
    BY <1>13 DEF MainMenu
  <1>14. CASE MainJump
    BY <1>14 DEF MainJump
  <1>15. CASE MwErase
    BY <1>15 DEF MwErase
  <1>16. CASE MwProgram0
    BY <1>16 DEF MwProgram0, Meta
  <1>17. CASE MwProgram1
    BY <1>17 DEF MwProgram1
  <1>18. CASE MwFails
    BY <1>18 DEF MwFails, Fault
  <1>19. CASE MenuStage
    BY <1>19 DEF MenuStage, MenuGoes
  <1>20. CASE MenuCancel
    BY <1>20 DEF MenuCancel, MenuGoes
  <1>21. CASE MenuWrite
    BY <1>21 DEF MenuWrite, MenuGoes, OperatorDoes
  <1>22. CASE MenuBackup
    BY <1>22 DEF MenuBackup, MenuGoes, OperatorDoes
  <1>23. CASE MenuRestore
    BY <1>23 DEF MenuRestore, MenuGoes, OperatorDoes
  <1>24. CASE MenuRun
    BY <1>24 DEF MenuRun, MenuGoes
  <1>25. CASE MenuReboot
    BY <1>25 DEF MenuReboot, Reset
  <1>26. CASE FwBackupErase
    BY <1>26 DEF FwBackupErase, EraseBackup, Loop
  <1>27. CASE FwBackupCopy
    BY <1>27 DEF FwBackupCopy, CopyToBackup, BackupUnits, Loop, Prog
  <1>28. CASE FwBackupMeta
    <2>1. CurTrue /\ ram' = BackedUp(Metadata_Read) /\ UNCHANGED <<bank2, backup>>
      BY <1>28 DEF FwBackupMeta, CallMetadata_Write
    <2>2. \A s \in Sectors : bank2[s] = backup[s]
      BY <1>28 DEF FwBackupMeta, CallMetadata_Write, WriteInv
    <2>3. RamTrue'
      BY <2>1, <2>2, SameLabels DEF RamTrue, CurTrue, BakTrue, Intact, Meta, BackedUp
    <2> QED
      BY <1>28, <2>3 DEF FwBackupMeta, CallMetadata_Write
  <1>29. CASE FwBackupDone
    BY <1>29, Written DEF FwBackupDone, MwReturn
  <1>30. CASE FwErase
    BY <1>30 DEF FwErase, EraseBank2, FwSectors, Loop
  <1>31. CASE FwProg
    BY <1>31 DEF FwProg, ProgBank2, Loop, Prog
  <1>32. CASE FwPendMeta
    <2>1. /\ Intact(bank2, ota) /\ BakTrue /\ UNCHANGED <<bank2, backup>>
          /\ ram' = Meta("PENDING", ota, Metadata_Read.bak)
      BY <1>32 DEF FwPendMeta, CallMetadata_Write, WriteInv
    <2>2. RamTrue'
      BY <2>1 DEF RamTrue, BakTrue, Intact, Meta
    <2> QED
      BY <1>32, <2>2 DEF FwPendMeta, CallMetadata_Write
  <1>33. CASE FwDone
    BY <1>33, Written DEF FwDone, Reset
  <1>34. CASE FwFails
    BY <1>34, Written DEF FwFails, BackupFails, Bank2Fails, MwReturn
  <1>35. CASE BkErase
    BY <1>35 DEF BkErase, EraseBackup, Loop
  <1>36. CASE BkCopy
    BY <1>36 DEF BkCopy, CopyToBackup, Loop, Prog
  <1>37. CASE BkMeta
    <2>1. CurTrue /\ ram' = BackedUp(Metadata_Read) /\ UNCHANGED <<bank2, backup>>
      BY <1>37 DEF BkMeta, CallMetadata_Write
    <2>2. \A s \in Sectors : bank2[s] = backup[s]
      BY <1>37 DEF BkMeta, CallMetadata_Write, WriteInv
    <2>3. RamTrue'
      BY <2>1, <2>2, SameLabels DEF RamTrue, CurTrue, BakTrue, Intact, Meta, BackedUp
    <2> QED
      BY <1>37, <2>3 DEF BkMeta, CallMetadata_Write
  <1>38. CASE BkEnds
    BY <1>38, Written DEF BkEnds, BackupFails, MwReturn
  <1>39. CASE RsErase
    BY <1>39 DEF RsErase, EraseBank2, Loop
  <1>40. CASE RsProg
    BY <1>40 DEF RsProg, ProgBank2, Loop, Prog
  <1>41. CASE RsMeta
    <2>1. BakTrue /\ ram' = Restored(Metadata_Read) /\ UNCHANGED <<bank2, backup>>
      BY <1>41 DEF RsMeta, CallMetadata_Write
    <2>2. \A s \in Sectors : bank2[s] = backup[s]
      BY <1>41 DEF RsMeta, CallMetadata_Write, ProgressInv
    <2>3. RamTrue'
      BY <2>1, <2>2, SameLabels DEF RamTrue, CurTrue, BakTrue, Intact, Meta, Restored
    <2> QED
      BY <1>41, <2>3 DEF RsMeta, CallMetadata_Write
  <1>42. CASE RsEnds
    BY <1>42, Written DEF RsEnds, Bank2Fails, MwReturn
  <1>43. CASE AppConfirm
    <2>1. /\ CurTrue /\ BakTrue /\ UNCHANGED <<bank2, backup>>
          /\ ram' = Meta("CONFIRMED", Metadata_Read.cur, Metadata_Read.bak)
      BY <1>43 DEF AppConfirm, CallMetadata_Write
    <2>2. RamTrue'
      BY <2>1 DEF RamTrue, CurTrue, BakTrue, Intact, Meta
    <2> QED
      BY <1>43, <2>2 DEF AppConfirm, CallMetadata_Write
  <1>44. CASE AppConfirmDone
    BY <1>44, Written DEF AppConfirmDone, MwReturn
  <1>45. CASE AppHang
    BY <1>45 DEF AppHang
  <1>46. CASE IwdgReset
    BY <1>46 DEF IwdgReset, Reset
  <1>47. CASE \E kind \in {"por", "pin"} : ExternalReset(kind)
    <2>1. ~InFlash
      BY <1>47 DEF ExternalReset
    <2> QED
      BY <1>47, <2>1 DEF ExternalReset, Reset, InFlash
  <1>48. CASE UNCHANGED vars
    BY <1>48 DEF vars
  <1> QED
    BY Zenon, <1>1, <1>2, <1>3, <1>4, <1>5, <1>6, <1>7, <1>8, <1>9, <1>10, <1>11, <1>12, <1>13,
       <1>14, <1>15, <1>16, <1>17, <1>18, <1>19, <1>20, <1>21, <1>22, <1>23, <1>24,
       <1>25, <1>26, <1>27, <1>28, <1>29, <1>30, <1>31, <1>32, <1>33, <1>34, <1>35,
       <1>36, <1>37, <1>38, <1>39, <1>40, <1>41, <1>42, <1>43, <1>44, <1>45, <1>46,
       <1>47, <1>48
    DEF Next, Boot, Boot_Metadata_Step, Boot_DoRollback, Metadata_Write, Menu,
        OTA_Flash_Write, Backup_SlotA, Restore_SlotA, Environment

\* Every step keeps a working image in Bank2 under CONFIRMED.
LEMMA ConfirmedStep ==
    ASSUME wrong = {}, wrong' = {}, TInv, ProgressInv, WriteInv, CopyInv, ConfirmedInv, [Next]_vars
    PROVE  ConfirmedInv'
  <1> USE ReadFacts, CopyFrames, FaultIsWrong
      DEF ConfirmedInv, Bank2Stale, BackupPcs, Bank2Pcs, MetaPcs, CallPcs, IdlePcs,
          flashVars, callVars, histVars
  <1>1. CASE BootEmpty
    BY <1>1 DEF BootEmpty, BootReturns
  <1>2. CASE BootPending
    BY <1>2 DEF BootPending, CallMetadata_Write, OnPending, Meta
  <1>3. CASE BootPendingDone
    BY Zenon, <1>3, Written DEF BootPendingDone, MwReturn, WriteInv
  <1>4. CASE BootTestingOther
    BY <1>4 DEF BootTestingOther, BootReturns
  <1>5. CASE BootTestingIwdg
    BY <1>5 DEF BootTestingIwdg
  <1>6. CASE BootConfirmed
    BY <1>6 DEF BootConfirmed, BootReturns
  <1>7. CASE RollbackMeta
    <2>1. bank2 = backup
      <3>1. \A s \in Sectors : bank2[s] = backup[s]
        BY <1>7 DEF RollbackMeta, CallMetadata_Write, ProgressInv
      <3>2. bank2 \in Region /\ backup \in Region
        BY DEF TInv, TypeOK
      <3> QED
        BY <3>1, <3>2 DEF Region
    <2> QED
      BY <1>7, <2>1 DEF RollbackMeta, CallMetadata_Write, CopyInv
  <1>8. CASE RollbackDone
    BY <1>8, Written DEF RollbackDone, MwReturn
  <1>9. CASE RollbackCheck
    BY <1>9 DEF RollbackCheck, Fault
  <1>10. CASE RollbackErase
    BY <1>10 DEF RollbackErase, EraseBank2, RestoreSectors, Loop
  <1>11. CASE RollbackProg
    BY <1>11 DEF RollbackProg, ProgBank2, Loop, Prog
  <1>12. CASE RollbackFails
    BY <1>12 DEF RollbackFails, Bank2Fails, Fault
  <1>13. CASE MainMenu
    BY <1>13 DEF MainMenu
  <1>14. CASE MainJump
    BY <1>14 DEF MainJump
  <1>15. CASE MwErase
    BY <1>15 DEF MwErase
  <1>16. CASE MwProgram0
    <2>1. CASE cont # "app"
      BY Zenon, <1>16, <2>1 DEF MwProgram0
    <2>2. CASE cont = "app"
      <3>1. Complete(bank2)
        BY <1>16, <2>2 DEF TInv, ConfirmerIsComplete, MwProgram0
      <3>2. Holds(bank2)'
        BY <3>1, <1>16, <2>2 DEF MwProgram0, Complete, Holds, Intact
      <3> QED
        BY <1>16, <2>2, <3>2 DEF MwProgram0
    <2> QED
      BY <2>1, <2>2
  <1>17. CASE MwProgram1
    BY <1>17 DEF MwProgram1
  <1>18. CASE MwFails
    BY <1>18 DEF MwFails, Fault
  <1>19. CASE MenuStage
    BY <1>19 DEF MenuStage, MenuGoes
  <1>20. CASE MenuCancel
    BY <1>20 DEF MenuCancel, MenuGoes
  <1>21. CASE MenuWrite
    BY <1>21 DEF MenuWrite, MenuGoes, OperatorDoes
  <1>22. CASE MenuBackup
    BY <1>22 DEF MenuBackup, MenuGoes, OperatorDoes
  <1>23. CASE MenuRestore
    BY <1>23 DEF MenuRestore, MenuGoes, OperatorDoes
  <1>24. CASE MenuRun
    BY <1>24 DEF MenuRun, MenuGoes
  <1>25. CASE MenuReboot
    BY <1>25 DEF MenuReboot, Reset
  <1>26. CASE FwBackupErase
    BY Zenon, <1>26 DEF FwBackupErase, EraseBackup, Loop
  <1>27. CASE FwBackupCopy
    BY <1>27 DEF FwBackupCopy, CopyToBackup, BackupUnits, Loop, Prog
  <1>28. CASE FwBackupMeta
    BY <1>28 DEF FwBackupMeta, CallMetadata_Write, BackedUp, Meta, State
  <1>29. CASE FwBackupDone
    BY <1>29 DEF FwBackupDone, MwReturn
  <1>30. CASE FwErase
    BY <1>30 DEF FwErase, EraseBank2, FwSectors, Loop
  <1>31. CASE FwProg
    BY <1>31 DEF FwProg, ProgBank2, Loop, Prog
  <1>32. CASE FwPendMeta
    BY <1>32 DEF FwPendMeta, CallMetadata_Write, Meta
  <1>33. CASE FwDone
    BY Zenon, <1>33, Written DEF FwDone, Reset, WriteInv
  <1>34. CASE FwFails
    BY Zenon, <1>34, Written DEF FwFails, BackupFails, Bank2Fails, MwReturn, WriteInv
  <1>35. CASE BkErase
    BY Zenon, <1>35 DEF BkErase, EraseBackup, Loop
  <1>36. CASE BkCopy
    BY <1>36 DEF BkCopy, CopyToBackup, Loop, Prog
  <1>37. CASE BkMeta
    BY <1>37 DEF BkMeta, CallMetadata_Write, BackedUp, Meta, State
  <1>38. CASE BkEnds
    BY <1>38, Written DEF BkEnds, BackupFails, MwReturn
  <1>39. CASE RsErase
    BY <1>39 DEF RsErase, EraseBank2, Loop
  <1>40. CASE RsProg
    BY <1>40 DEF RsProg, ProgBank2, Loop, Prog
  <1>41. CASE RsMeta
    <2>1. bank2 = backup
      <3>1. \A s \in Sectors : bank2[s] = backup[s]
        BY <1>41 DEF RsMeta, CallMetadata_Write, ProgressInv
      <3>2. bank2 \in Region /\ backup \in Region
        BY DEF TInv, TypeOK
      <3> QED
        BY <3>1, <3>2 DEF Region
    <2> QED
      BY <1>41, <2>1 DEF RsMeta, CallMetadata_Write, CopyInv
  <1>42. CASE RsEnds
    BY <1>42, Written DEF RsEnds, Bank2Fails, MwReturn
  <1>43. CASE AppConfirm
    BY <1>43 DEF AppConfirm, CallMetadata_Write
  <1>44. CASE AppConfirmDone
    BY <1>44, Written DEF AppConfirmDone, MwReturn
  <1>45. CASE AppHang
    BY <1>45 DEF AppHang
  <1>46. CASE IwdgReset
    BY <1>46 DEF IwdgReset, Reset
  <1>47. CASE \E kind \in {"por", "pin"} : ExternalReset(kind)
    <2>1. ~InFlash
      BY <1>47 DEF ExternalReset
    <2> QED
      BY <1>47, <2>1 DEF ExternalReset, Reset, InFlash
  <1>48. CASE UNCHANGED vars
    BY <1>48 DEF vars
  <1> QED
    BY Zenon, <1>1, <1>2, <1>3, <1>4, <1>5, <1>6, <1>7, <1>8, <1>9, <1>10, <1>11, <1>12, <1>13,
       <1>14, <1>15, <1>16, <1>17, <1>18, <1>19, <1>20, <1>21, <1>22, <1>23, <1>24,
       <1>25, <1>26, <1>27, <1>28, <1>29, <1>30, <1>31, <1>32, <1>33, <1>34, <1>35,
       <1>36, <1>37, <1>38, <1>39, <1>40, <1>41, <1>42, <1>43, <1>44, <1>45, <1>46,
       <1>47, <1>48
    DEF Next, Boot, Boot_Metadata_Step, Boot_DoRollback, Metadata_Write, Menu,
        OTA_Flash_Write, Backup_SlotA, Restore_SlotA, Environment

-----------------------------------------------------------------------------
(* The way out of a hung trial.                                            *)

\* The rollback.
RollbackPcs == {"rb_check", "rb_erase", "rb_prog", "rb_meta"}

\* The watchdog runs only under an App, which is not CONFIRMED unless it has worked.
WatchInv ==
    /\ iwdg => InApp
    /\ pc = "key1" /\ req = 1 => State # "CONFIRMED"
    /\ pc \in MetaPcs /\ cont = "testing" => State # "CONFIRMED"
    /\ pc \in MetaPcs /\ cont = "app" => Complete(bank2)
    /\ InApp /\ iwdg /\ State = "CONFIRMED" => Holds(bank2)

\* On the way from a hung App to the rollback: the backup area keeps a working image,
\* an App runs only under the watchdog, and nothing says CONFIRMED, or is about to
\* start an App without one, before Bank2 holds a working image.
Recovering ==
    /\ Holds(backup) /\ ~InMenu
    /\ State = "CONFIRMED" => Holds(bank2) /\ pc \notin RollbackPcs
    /\ pc = "key1" /\ req = 2 => Holds(bank2)
    /\ InApp => iwdg
    /\ pc = "rb_meta" \/ (pc \in MetaPcs /\ cont = "rolledback") => Holds(bank2)

Recovered == pc = "menu" \/ (pc = "app" /\ Holds(bank2))

\* A hung App is on that way, and only the menu and a working App are its end.
HungIsRecovering == pc = "hung" /\ iwdg /\ Holds(backup) => Recovering
StaysOnTheWay == [][Recovering => Recovering' \/ Recovered']_vars

\* What the regions hold changes only with them, and the images that have worked
\* become no fewer.
LEMMA RegionFrames ==
    /\ UNCHANGED bank2 => (Complete(bank2)' <=> Complete(bank2))
    /\ UNCHANGED bank2 /\ working \subseteq working' => (Holds(bank2) => Holds(bank2)')
    /\ UNCHANGED backup /\ working \subseteq working' => (Holds(backup) => Holds(backup)')
  BY DEF Complete, Holds, Intact

\* An App that confirms itself has worked from its first flash word on.
LEMMA ConfirmHolds ==
    ASSUME MwProgram0, cont = "app", Complete(bank2)
    PROVE  Holds(bank2)'
  <1>1. bank2[0] \in working' /\ bank2' = bank2 /\ Intact(bank2, bank2[0])
    BY DEF MwProgram0, Complete
  <1>2. Intact(bank2', bank2[0])
    BY <1>1
  <1> QED
    BY <1>1, <1>2 DEF Holds, Intact

\* Every step keeps the watchdog where it belongs.
LEMMA WatchStep ==
    ASSUME TInv, WriteInv, WatchInv, [Next]_vars
    PROVE  WatchInv'
  <1> USE ReadFacts, RegionFrames DEF WatchInv, InApp, BackupPcs, Bank2Pcs, MetaPcs,
                        CallPcs, IdlePcs, flashVars, callVars, histVars
  <1>1. CASE BootEmpty
    BY SMTT(30), <1>1 DEF BootEmpty, BootReturns
  <1>2. CASE BootPending
    BY <1>2 DEF BootPending, CallMetadata_Write, State
  <1>3. CASE BootPendingDone
    BY <1>3 DEF BootPendingDone, MwReturn
  <1>4. CASE BootTestingOther
    BY <1>4 DEF BootTestingOther, BootReturns, State
  <1>5. CASE BootTestingIwdg
    BY <1>5 DEF BootTestingIwdg
  <1>6. CASE BootConfirmed
    BY SMTT(30), <1>6 DEF BootConfirmed, BootReturns
  <1>7. CASE RollbackMeta
    BY <1>7 DEF RollbackMeta, CallMetadata_Write
  <1>8. CASE RollbackDone
    BY SMTT(30), <1>8 DEF RollbackDone, MwReturn
  <1>9. CASE RollbackCheck
    BY SMTT(30), <1>9 DEF RollbackCheck, Fault
  <1>10. CASE RollbackErase
    BY <1>10 DEF RollbackErase, EraseBank2, RestoreSectors, Loop
  <1>11. CASE RollbackProg
    BY <1>11 DEF RollbackProg, ProgBank2, Loop, Prog
  <1>12. CASE RollbackFails
    BY SMTT(30), <1>12 DEF RollbackFails, Bank2Fails, Fault
  <1>13. CASE MainMenu
    BY <1>13 DEF MainMenu
  <1>14. CASE MainJump
    <2>1. iwdg' = (req = 1) /\ pc' = "app" /\ pc = "key1" /\ State' = State
      BY <1>14, Zenon DEF MainJump, NeedsWatchdog, State, Metadata_Read
    <2> QED
      BY Zenon, <2>1
  <1>15. CASE MwErase
    BY <1>15 DEF MwErase
  <1>16. CASE MwProgram0
    <2>1. State' = ram.state /\ (cont = "testing" => ram.state = "TESTING")
      BY <1>16 DEF MwProgram0, WriteInv
    <2>2. cont = "app" => Complete(bank2)
      BY <1>16 DEF MwProgram0
    <2>3. cont = "app" => Holds(bank2)'
      BY <1>16, <2>2, ConfirmHolds, Zenon
    <2> QED
      BY <1>16, <2>1, <2>3 DEF MwProgram0
  <1>17. CASE MwProgram1
    <2>1. State = ram.state /\ meta.state = ram.state
      BY SMTT(30), <1>17 DEF MwProgram1, WriteInv, Meta
    <2>2. State' = State
      BY <1>17, <2>1 DEF MwProgram1
    <2> QED
      BY <1>17, <2>2 DEF MwProgram1
  <1>18. CASE MwFails
    BY <1>18 DEF MwFails, Fault
  <1>19. CASE MenuStage
    BY <1>19 DEF MenuStage, MenuGoes
  <1>20. CASE MenuCancel
    BY <1>20 DEF MenuCancel, MenuGoes
  <1>21. CASE MenuWrite
    BY <1>21 DEF MenuWrite, MenuGoes, OperatorDoes
  <1>22. CASE MenuBackup
    BY SMTT(30), <1>22 DEF MenuBackup, MenuGoes, OperatorDoes
  <1>23. CASE MenuRestore
    BY SMTT(30), <1>23 DEF MenuRestore, MenuGoes, OperatorDoes
  <1>24. CASE MenuRun
    BY <1>24 DEF MenuRun, MenuGoes
  <1>25. CASE MenuReboot
    BY <1>25 DEF MenuReboot, Reset
  <1>26. CASE FwBackupErase
    BY <1>26 DEF FwBackupErase, EraseBackup, Loop
  <1>27. CASE FwBackupCopy
    BY <1>27 DEF FwBackupCopy, CopyToBackup, BackupUnits, Loop, Prog
  <1>28. CASE FwBackupMeta
    BY <1>28 DEF FwBackupMeta, CallMetadata_Write
  <1>29. CASE FwBackupDone
    BY <1>29 DEF FwBackupDone, MwReturn
  <1>30. CASE FwErase
    BY <1>30 DEF FwErase, EraseBank2, FwSectors, Loop
  <1>31. CASE FwProg
    BY <1>31 DEF FwProg, ProgBank2, Loop, Prog
  <1>32. CASE FwPendMeta
    BY <1>32 DEF FwPendMeta, CallMetadata_Write
  <1>33. CASE FwDone
    BY <1>33 DEF FwDone, Reset
  <1>34. CASE FwFails
    BY SMTT(30), <1>34 DEF FwFails, BackupFails, Bank2Fails, MwReturn, Fault
  <1>35. CASE BkErase
    BY <1>35 DEF BkErase, EraseBackup, Loop
  <1>36. CASE BkCopy
    BY <1>36 DEF BkCopy, CopyToBackup, Loop, Prog
  <1>37. CASE BkMeta
    BY <1>37 DEF BkMeta, CallMetadata_Write
  <1>38. CASE BkEnds
    BY SMTT(30), <1>38 DEF BkEnds, MwReturn, BackupFails, Fault
  <1>39. CASE RsErase
    BY <1>39 DEF RsErase, EraseBank2, Loop
  <1>40. CASE RsProg
    BY <1>40 DEF RsProg, ProgBank2, Loop, Prog
  <1>41. CASE RsMeta
    BY <1>41 DEF RsMeta, CallMetadata_Write
  <1>42. CASE RsEnds
    BY SMTT(30), <1>42 DEF RsEnds, MwReturn, Bank2Fails, Fault
  <1>43. CASE AppConfirm
    BY <1>43 DEF AppConfirm, CallMetadata_Write
  <1>44. CASE AppConfirmDone
    BY <1>44 DEF AppConfirmDone, MwReturn
  <1>45. CASE AppHang
    BY <1>45 DEF AppHang
  <1>46. CASE IwdgReset
    BY <1>46 DEF IwdgReset, Reset
  <1>47. CASE \E kind \in {"por", "pin"} : ExternalReset(kind)
    BY <1>47 DEF ExternalReset, Reset
  <1>48. CASE UNCHANGED vars
    BY <1>48 DEF vars
  <1> QED
    BY Zenon, <1>1, <1>2, <1>3, <1>4, <1>5, <1>6, <1>7, <1>8, <1>9, <1>10, <1>11, <1>12, <1>13,
       <1>14, <1>15, <1>16, <1>17, <1>18, <1>19, <1>20, <1>21, <1>22, <1>23, <1>24,
       <1>25, <1>26, <1>27, <1>28, <1>29, <1>30, <1>31, <1>32, <1>33, <1>34, <1>35,
       <1>36, <1>37, <1>38, <1>39, <1>40, <1>41, <1>42, <1>43, <1>44, <1>45, <1>46,
       <1>47, <1>48
    DEF Next, Boot, Boot_Metadata_Step, Boot_DoRollback, Metadata_Write, Menu,
        OTA_Flash_Write, Backup_SlotA, Restore_SlotA, Environment

\* Nothing but the menu and a working App ends the recovery of a hung App.
LEMMA RecoverStep ==
    ASSUME TInv, ProgressInv, WriteInv, WatchInv, Recovering, [Next]_vars
    PROVE  Recovering' \/ Recovered'
  <1> USE ReadFacts, RegionFrames DEF Recovering, InApp, InMenu, MenuPcs, BackupPcs, Bank2Pcs,
                        MetaPcs, CallPcs, IdlePcs, RollbackPcs, flashVars, callVars, histVars
  <1>1. CASE BootEmpty
    BY <1>1 DEF BootEmpty, BootReturns
  <1>2. CASE BootPending
    BY <1>2 DEF BootPending, CallMetadata_Write
  <1>3. CASE BootPendingDone
    BY SMTT(30), <1>3 DEF BootPendingDone, MwReturn
  <1>4. CASE BootTestingOther
    BY SMTT(30), <1>4 DEF BootTestingOther, BootReturns
  <1>5. CASE BootTestingIwdg
    BY <1>5 DEF BootTestingIwdg, State
  <1>6. CASE BootConfirmed
    BY <1>6 DEF BootConfirmed, BootReturns, State
  <1>7. CASE RollbackMeta
    BY <1>7 DEF RollbackMeta, CallMetadata_Write
  <1>8. CASE RollbackDone
    BY <1>8 DEF RollbackDone, MwReturn
  <1>9. CASE RollbackCheck
    BY SMTT(30), <1>9 DEF RollbackCheck, Fault
  <1>10. CASE RollbackErase
    BY <1>10 DEF RollbackErase, EraseBank2, RestoreSectors, Loop
  <1>11. CASE RollbackProg
    <2>1. pc' = "rb_meta" => Holds(bank2)'
      <3> SUFFICES ASSUME pc' = "rb_meta" PROVE Holds(bank2)'
        OBVIOUS
      <3>1. ProgressInv' /\ TInv'
        BY ProgressStep, TInvStep
      <3>2. \A s \in Sectors : bank2'[s] = backup'[s]
        BY <3>1 DEF ProgressInv
      <3>3. UNCHANGED <<backup, working>>
        BY <1>11 DEF RollbackProg, ProgBank2
      <3>4. PICK v \in working : Intact(backup, v)
        BY DEF Holds
      <3>5. Intact(bank2', v)
        BY SMTT(30), <3>2, <3>3, <3>4 DEF Intact, Sectors, TInv, TypeOK
      <3> QED
        BY <3>3, <3>4, <3>5 DEF Holds, Intact
    <2> QED
      BY <1>11, <2>1 DEF RollbackProg, ProgBank2, Loop
  <1>12. CASE RollbackFails
    BY SMTT(30), <1>12 DEF RollbackFails, Bank2Fails, Fault
  <1>13. CASE MainMenu
    BY <1>13 DEF MainMenu, Recovered
  <1>14. CASE MainJump
    <2>1. /\ iwdg' = (req = 1) /\ pc' = "app" /\ pc = "key1" /\ req \in {1, 2} /\ State' = State
          /\ UNCHANGED <<bank2, backup, working, cont>>
      BY SMTT(30), <1>14 DEF MainJump, NeedsWatchdog, TInv, TypeOK
    <2>2. CASE req = 1
      BY <2>1, <2>2
    <2>3. CASE req = 2
      BY <2>1, <2>3 DEF Recovered
    <2> QED
      BY <2>1, <2>2, <2>3
  <1>15. CASE MwErase
    BY <1>15 DEF MwErase
  <1>16. CASE MwProgram0
    <2>1. /\ State' = ram.state /\ pc = "mw_p0" /\ pc' = "mw_p1" /\ UNCHANGED <<bank2, backup, cont, iwdg>>
          /\ working \subseteq working'
      BY <1>16 DEF MwProgram0
    <2>2. cont \in {"testing", "rolledback", "app"}
      BY <2>1 DEF WriteInv, TInv, TypeOK, Conts
    <2>3. cont = "testing" => ram.state = "TESTING"
      BY <2>1 DEF WriteInv
    <2>4. cont = "app" => Holds(bank2)'
      BY <1>16, <2>1, ConfirmHolds DEF WatchInv
    <2> QED
      BY <2>1, <2>2, <2>3, <2>4
  <1>17. CASE MwProgram1
    <2>1. State = ram.state /\ meta.state = ram.state
      BY SMTT(30), <1>17 DEF MwProgram1, WriteInv, Meta
    <2>2. State' = State
      BY <1>17, <2>1 DEF MwProgram1
    <2> QED
      BY <1>17, <2>2 DEF MwProgram1
  <1>18. CASE MwFails
    BY <1>18 DEF MwFails, Fault
  <1>19. CASE AppConfirm
    BY <1>19 DEF AppConfirm, CallMetadata_Write
  <1>20. CASE AppConfirmDone
    BY <1>20 DEF AppConfirmDone, MwReturn
  <1>21. CASE AppHang
    BY <1>21 DEF AppHang
  <1>22. CASE IwdgReset
    BY <1>22 DEF IwdgReset, Reset
  <1>23. CASE \E kind \in {"por", "pin"} : ExternalReset(kind)
    <2>1. UNCHANGED <<backup, working>> /\ pc' = "boot" /\ iwdg' = FALSE
      BY <1>23 DEF ExternalReset, Reset
    <2>2. (State' = "CONFIRMED" => State = "CONFIRMED") /\ (State = "CONFIRMED" => UNCHANGED bank2)
      BY <1>23 DEF ExternalReset
    <2> QED
      BY <2>1, <2>2
  <1>24. CASE UNCHANGED vars
    BY <1>24 DEF vars
  <1>25. ~Menu /\ ~OTA_Flash_Write /\ ~Backup_SlotA /\ ~Restore_SlotA
    <2>1. ~Menu
      BY DEF Menu, MenuStage, MenuCancel, MenuWrite, MenuBackup, MenuRestore, MenuRun, MenuReboot, MenuGoes
    <2>2. ~OTA_Flash_Write
      BY DEF OTA_Flash_Write, FwBackupErase, FwBackupCopy, FwBackupMeta, FwBackupDone, FwErase, FwProg,
             FwPendMeta, FwDone, FwFails, EraseBackup, CopyToBackup, CallMetadata_Write, MwReturn,
             EraseBank2, ProgBank2, BackupFails, Bank2Fails
    <2>3. ~Backup_SlotA
      BY DEF Backup_SlotA, BkErase, BkCopy, BkMeta, BkEnds, EraseBackup, CopyToBackup,
             CallMetadata_Write, MwReturn, BackupFails
    <2>4. ~Restore_SlotA
      BY DEF Restore_SlotA, RsErase, RsProg, RsMeta, RsEnds, EraseBank2, ProgBank2,
             CallMetadata_Write, MwReturn, Bank2Fails
    <2> QED
      BY <2>1, <2>2, <2>3, <2>4
  <1> QED
    BY Zenon, <1>1, <1>2, <1>3, <1>4, <1>5, <1>6, <1>7, <1>8, <1>9, <1>10, <1>11, <1>12, <1>13,
       <1>14, <1>15, <1>16, <1>17, <1>18, <1>19, <1>20, <1>21, <1>22, <1>23, <1>24, <1>25
    DEF Next, Boot, Boot_Metadata_Step, Boot_DoRollback, Metadata_Write, Environment

-----------------------------------------------------------------------------
(* The theorems.                                                           *)

\* The invariants hold in every reachable state.
LEMMA TrialInductive == Spec => [](TInv /\ ProgressInv /\ WriteInv /\ TrialInv /\ OrderlyInv)
  <1> DEFINE Inv == TInv /\ ProgressInv /\ WriteInv /\ TrialInv /\ OrderlyInv
  <1>1. Init => Inv
    <2> SUFFICES ASSUME Init PROVE Inv
      OBVIOUS
    <2>1. TInv /\ ProgressInv /\ WriteInv /\ CopyInv
      BY TInvInit, ProgressInit, WriteInit, CopyInit
    <2>2. pc = "boot" /\ Metadata_Read = Defaults /\ State = "EMPTY"
      BY ReadFacts DEF Init
    <2>3. PendingInv /\ GuardInv
      BY <2>2 DEF PendingInv, GuardInv, InMenu, InApp, MenuPcs, BackupPcs, MetaPcs
    <2>4. LabelInv /\ ConfirmedInv
      BY <2>2 DEF LabelInv, ConfirmedInv, CurTrue, BakTrue, Defaults, Meta, MetaPcs
    <2> QED
      BY <2>1, <2>3, <2>4 DEF TrialInv, OrderlyInv
  <1>2. Inv /\ [Next]_vars => Inv'
    <2> SUFFICES ASSUME Inv, [Next]_vars PROVE Inv'
      OBVIOUS
    <2>1. TInv' /\ ProgressInv' /\ WriteInv'
      BY TInvStep, ProgressStep, WriteStep
    <2>2. TrialInv'
      <3> SUFFICES ASSUME Reliable PROVE PendingInv' /\ GuardInv'
        BY DEF TrialInv, Reliable
      <3>1. PendingInv /\ GuardInv
        BY DEF TrialInv
      <3> QED
        BY <3>1, PendingStep, GuardStep
    <2>3. OrderlyInv'
      <3> SUFFICES ASSUME wrong' = {} PROVE CopyInv' /\ LabelInv' /\ ConfirmedInv'
        BY DEF OrderlyInv
      <3>1. wrong = {}
        BY WrongStays
      <3>2. CopyInv /\ LabelInv /\ ConfirmedInv
        BY <3>1 DEF OrderlyInv
      <3>3. CopyInv'
        BY <3>2, CopyStep DEF IInv
      <3> QED
        BY <3>1, <3>2, <3>3, LabelStep, ConfirmedStep
    <2> QED
      BY <2>1, <2>2, <2>3
  <1> QED
    BY <1>1, <1>2, PTL DEF Spec

\* While the internal flash works, a reader of the metadata that finds
\* PENDING_UPDATE finds the whole new image in Bank2, wherever a reset falls
\* (ota.c, OTA_Flash_Write writes the state last).
THEOREM PendingIsComplete == ASSUME Reliable PROVE Spec => []PendingMeansComplete
  <1>1. TrialInv => PendingMeansComplete
    BY DEF TrialInv, PendingInv, PendingMeansComplete
  <1> QED
    BY <1>1, TrialInductive, PTL

\* While the internal flash works, an App on trial that boot started runs
\* under the watchdog (menu.c, Boot_Metadata_Step; main.c).
THEOREM TrialIsGuarded == ASSUME Reliable PROVE Spec => []TrialGuarded
  <1>1. TrialInv => TrialGuarded
    BY DEF TrialInv, GuardInv, TrialGuarded, InApp
  <1> QED
    BY <1>1, TrialInductive, PTL

\* Until something goes wrong, CONFIRMED means that Bank2 holds a complete
\* image that has worked (menu.c, Boot_DoRollback, Restore_SlotA).
THEOREM ConfirmedIsWorking == Spec => []ConfirmedWorks
  <1>1. TInv /\ OrderlyInv => ConfirmedWorks
    <2> SUFFICES ASSUME TInv, OrderlyInv, wrong = {}, Resting, State = "CONFIRMED",
                        working # {}
                 PROVE  Complete(bank2) /\ bank2[0] \in working
      BY DEF ConfirmedWorks
    <2>1. ~Bank2Stale
      BY DEF Resting, IdlePcs, Bank2Stale, Bank2Pcs, MetaPcs
    <2>2. PICK v \in working : Intact(bank2, v)
      BY <2>1 DEF OrderlyInv, ConfirmedInv, Holds
    <2>3. bank2[0] = v
      BY <2>2 DEF Intact, TInv, TypeOK
    <2> QED
      BY <2>2, <2>3 DEF Complete, TInv, TypeOK
  <1> QED
    BY <1>1, TrialInductive, PTL

\* Until something goes wrong, the labels of the metadata name what Bank2 and
\* the backup area hold (ota.c, OTA_Flash_Write; menu.c, Backup_SlotA,
\* Restore_SlotA, Boot_DoRollback).
THEOREM LabelsAreTrue == Spec => []LabelsDescribeFlash
  <1>1. OrderlyInv => LabelsDescribeFlash
    BY DEF OrderlyInv, LabelInv, LabelsDescribeFlash, Resting, IdlePcs, Bank2Stale,
           BackupStale, Bank2Pcs, BackupPcs, MetaPcs, CurTrue, BakTrue
  <1> QED
    BY <1>1, TrialInductive, PTL

\* An App that hangs under the watchdog while the backup area holds a working image
\* gets back to a working image or to the menu and nowhere else, whatever fails and
\* wherever a reset falls: until then the backup area keeps its image and no App runs
\* without the watchdog (menu.c, Boot_Metadata_Step, Boot_DoRollback; main.c).  The
\* safety part of HungTrialRecovers.
THEOREM HungAppIsGuarded == Spec => []HungIsRecovering /\ StaysOnTheWay
  <1> DEFINE Inv == TInv /\ ProgressInv /\ WriteInv
             Step == Recovering => Recovering' \/ Recovered'
  <1>1. Init => WatchInv
    <2> SUFFICES ASSUME Init PROVE WatchInv
      OBVIOUS
    <2>1. pc = "boot" /\ iwdg = FALSE
      BY DEF Init
    <2> QED
      BY <2>1 DEF WatchInv, InApp, MetaPcs
  <1>2. Inv /\ WatchInv /\ [Next]_vars => WatchInv'
    BY WatchStep
  <1>3. WatchInv => HungIsRecovering
    BY DEF WatchInv, HungIsRecovering, Recovering, InMenu, InApp, MenuPcs, BackupPcs, MetaPcs,
           RollbackPcs
  <1>4. Inv /\ WatchInv /\ [Next]_vars => [Step]_vars
    BY RecoverStep
  <1> HIDE DEF Step
  <1>5. TInv /\ ProgressInv /\ WriteInv /\ TrialInv /\ OrderlyInv => Inv
    OBVIOUS
  <1> HIDE DEF Inv
  <1>6. Spec => [](Inv /\ WatchInv)
    BY <1>1, <1>2, <1>5, TrialInductive, PTL DEF Spec
  <1>7. Spec => [][Step]_vars
    BY <1>4, <1>6, PTL DEF Spec
  <1> QED
    BY <1>3, <1>6, <1>7, PTL DEF StaysOnTheWay, Step

=============================================================================
