---------------------------- MODULE BootloaderProofs ----------------------------
(***************************************************************************)
(* Theorems about Bootloader, for any images, sectors and faults:          *)
(* type correctness, RestoredExactly, and, for an operator who keeps to    *)
(* the rule, GoodCopyExists and RollbackRestoresWorking.                   *)
(***************************************************************************)
EXTENDS Bootloader, TLAPS

FwPcs == {"fw_bkerase", "fw_bkcopy", "fw_bakmeta", "fw_erase", "fw_prog", "fw_pendmeta"}

\* An update in progress has an image to write.
UpdateHasImage ==
    pc \in FwPcs \/ (pc \in MetaPcs /\ cont \in {"fw_bak", "fw_pend"}) => ota \in Images

\* The App that is confirming itself is complete.
ConfirmerIsComplete ==
    pc \in MetaPcs /\ cont = "app" => Complete(bank2) /\ ram.state = "CONFIRMED"

TInv == TypeOK /\ UpdateHasImage /\ ConfirmerIsComplete

\* Where the loops over Bank2 and over the backup area, and Metadata_Write, are.
ProgressInv ==
    /\ pc \notin BackupPcs \cup Bank2Pcs => i = 0
    /\ pc = "mw_p1" => meta.state = ram.state
    /\ pc \in {"fw_bkerase", "bk_erase"} =>
         \A s \in Sectors : s < i => backup[s] = Blank
    /\ pc \in {"fw_bkcopy", "bk_copy"} =>
         \A s \in Sectors : backup[s] = IF s < i THEN bank2[s] ELSE Blank
    /\ pc \in {"rb_erase", "rs_erase"} =>
         \A s \in Sectors : s < i => bank2[s] = Blank
    /\ pc \in {"rb_prog", "rs_prog"} =>
         \A s \in Sectors : bank2[s] = IF s < i THEN backup[s] ELSE Blank
    /\ \/ pc \in {"rb_meta", "rs_meta"}
       \/ pc = "mw_erase" /\ cont \in {"rolledback", "rs"}
       => \A s \in Sectors : bank2[s] = backup[s]

\* Which of the two regions is known to hold a working image.
CopyInv ==
    working # {} =>
        /\ pc \in BackupPcs => Holds(bank2) /\ ~OnTrial
        /\ pc \in Bank2Pcs \cup CallPcs \cup {"rb_check"} => Holds(backup)
        /\ pc \in MetaPcs /\ cont # "app" => Holds(backup)
        /\ OnTrial => Holds(backup)
        /\ Holds(bank2) \/ Holds(backup)

IInv == TInv /\ ProgressInv /\ CopyInv
USE ConstantsAssumption

-----------------------------------------------------------------------------
(* Type correctness.                                                       *)

\* The records the program makes up are metadata.
LEMMA RecordTypes ==
    /\ Erased \in Metadata
    /\ Defaults \in Metadata
    /\ \A st \in States, c, b \in Labels : Meta(st, c, b) \in Metadata
    /\ TypeOK => Metadata_Read \in Metadata
  BY DEF Erased, Defaults, Meta, Metadata, States, Labels, Metadata_Read, TypeOK

\* A reset leaves the variables of the program in their types.
LEMMA ResetTypes ==
    ASSUME NEW kind \in {"por", "pin", "sft", "iwdg"}, Reset(kind)
    PROVE  /\ pc' = "boot" /\ i' \in Sectors
           /\ ram' \in Metadata /\ cont' \in Conts /\ rc' \in {0, -1}
           /\ req' \in 0..2 /\ ota' \in Labels
           /\ iwdg' \in BOOLEAN /\ iwdgFlag' \in BOOLEAN
           /\ lastReset' \in {"por", "pin", "sft", "iwdg"}
  <1>1. iwdg' \in BOOLEAN /\ iwdgFlag' \in BOOLEAN
    BY Zenon DEF Reset, RsrAfter
  <1> QED
    BY <1>1, RecordTypes DEF Reset, Sectors, Conts, Labels

\* A failed or interrupted operation leaves a region a region.
LEMMA DamageTypes ==
    ASSUME NEW r \in Region, i \in Sectors, NEW d \in Damage(r)
    PROVE  d \in Region
  BY DEF Damage, Region, Contents

\* A failure, and what the operator does, leave the history in its type.
LEMMA HistoryTypes ==
    ASSUME TypeOK
    PROVE  /\ \A k \in FaultKinds : Fault(k) => mishaps' \in Nat /\ wrong' \subseteq {"wrong"}
           /\ OperatorDoes(MayBackup) => wrong' \subseteq {"wrong"}
           /\ OperatorDoes(MayRestore) => wrong' \subseteq {"wrong"}
  <1>1. ASSUME NEW k \in FaultKinds, Fault(k)
        PROVE  mishaps' \in Nat /\ wrong' \subseteq {"wrong"}
    BY <1>1 DEF TypeOK, Fault
  <1>2. ASSUME NEW rule, OperatorDoes(rule) PROVE wrong' \subseteq {"wrong"}
    <2>1. wrong' = wrong \/ wrong' = wrong \cup {"wrong"}
      BY <1>2 DEF OperatorDoes
    <2> QED
      BY <2>1 DEF TypeOK
  <1> QED
    BY <1>1, <1>2

\* The device as shipped is type-correct.
LEMMA TInvInit == Init => TInv
  <1> SUFFICES ASSUME Init PROVE TInv
    OBVIOUS
  <1>1. iwdgFlag \in BOOLEAN /\ iwdg \in BOOLEAN
    BY Zenon DEF Init
  <1>2. bank2 \in Region /\ working \subseteq Images
    BY DEF Init, Region, Contents, Sectors
  <1>3. backup \in Region
    BY DEF Init, Region, Contents
  <1>4. meta \in Metadata /\ ram \in Metadata
    BY RecordTypes DEF Init
  <1>5. pc = "boot" /\ i \in Sectors
    BY DEF Init, Sectors
  <1> QED
    BY <1>1, <1>2, <1>3, <1>4, <1>5
    DEF Init, TInv, TypeOK, UpdateHasImage, ConfirmerIsComplete, Labels, Pcs, MetaPcs,
        Conts, FwPcs

\* A reset, or a failed metadata write, leaves a metadata record.
LEMMA CutShortTypes ==
    ASSUME TypeOK, NEW kind, ExternalReset(kind)
    PROVE  meta' \in Metadata
  <1>1. meta' \in {meta, Erased} \/ meta' = meta
    BY DEF ExternalReset
  <1> QED
    BY <1>1, RecordTypes DEF TypeOK

\* A Metadata_Write that fails leaves a metadata record.
LEMMA MwFailsTypes == TypeOK /\ MwFails => meta' \in Metadata
  <1> SUFFICES ASSUME TypeOK, MwFails PROVE meta' \in Metadata
    OBVIOUS
  <1>1. meta' \in {meta, Erased} \/ meta' = meta
    BY DEF MwFails
  <1> QED
    BY <1>1, RecordTypes DEF TypeOK

\* Every step keeps the types, the image of an update in progress, and the
\* completeness of an App that confirms itself; one case per action.
LEMMA TInvStep == TInv /\ [Next]_vars => TInv'
  <1> SUFFICES ASSUME TInv, [Next]_vars PROVE TInv'
    OBVIOUS
  <1> USE DEF TInv, TypeOK, UpdateHasImage, ConfirmerIsComplete, Complete, Intact,
              Metadata, States, Labels, Region, Contents, Sectors, Erased, Defaults, Meta, Pcs,
              BackupPcs, Bank2Pcs, CallPcs, MetaPcs, IdlePcs, Conts, FwPcs, flashVars,
              callVars, histVars
  <1>1. CASE BootEmpty
    BY <1>1 DEF BootEmpty, BootReturns
  <1>2. CASE BootPending
    BY <1>2 DEF BootPending, CallMetadata_Write, OnPending, Metadata_Read
  <1>3. CASE BootPendingDone
    BY <1>3 DEF BootPendingDone, MwReturn
  <1>4. CASE BootTestingOther
    <2>1. iwdgFlag' \in BOOLEAN
      BY <1>4, Zenon DEF BootTestingOther
    <2> QED
      BY <1>4, <2>1 DEF BootTestingOther, BootReturns
  <1>5. CASE BootTestingIwdg
    <2>1. iwdgFlag' \in BOOLEAN
      BY <1>5, Zenon DEF BootTestingIwdg
    <2> QED
      BY <1>5, <2>1 DEF BootTestingIwdg
  <1>6. CASE BootConfirmed
    BY <1>6 DEF BootConfirmed, BootReturns
  <1>7. CASE RollbackMeta
    BY <1>7 DEF RollbackMeta, CallMetadata_Write, Restored, Metadata_Read
  <1>8. CASE RollbackDone
    BY <1>8 DEF RollbackDone, MwReturn
  <1>9. CASE RollbackCheck
    <2>1. mishaps' \in Nat /\ wrong' \subseteq {"wrong"}
      BY <1>9, HistoryTypes DEF RollbackCheck, FaultKinds
    <2>2. pc' \in {"rb_erase", "key1"} /\ req' \in 0..2
      BY <1>9 DEF RollbackCheck
    <2> QED
      BY <1>9, <2>1, <2>2 DEF RollbackCheck
  <1>10. CASE RollbackErase
    BY <1>10 DEF RollbackErase, EraseBank2, RestoreSectors, Loop
  <1>11. CASE RollbackProg
    BY <1>11 DEF RollbackProg, ProgBank2, Loop, Prog
  <1>12. CASE RollbackFails
    <2>1. CASE Bank2Fails("rb_erase", "erase", "key1")
      BY <1>12, <2>1, DamageTypes, HistoryTypes DEF RollbackFails, Bank2Fails, FaultKinds
    <2>2. CASE \E k \in {"program", "qspi"} : Bank2Fails("rb_prog", k, "key1")
      <3>1. PICK k \in {"program", "qspi"} : Bank2Fails("rb_prog", k, "key1")
        BY <2>2
      <3>2. mishaps' \in Nat /\ wrong' \subseteq {"wrong"}
        BY <3>1, HistoryTypes DEF Bank2Fails, FaultKinds
      <3>3. bank2' \in Region
        BY <3>1, DamageTypes DEF Bank2Fails
      <3> QED
        BY <1>12, <3>1, <3>2, <3>3 DEF RollbackFails, Bank2Fails
    <2> QED
      BY <1>12, <2>1, <2>2 DEF RollbackFails
  <1>13. CASE MainMenu
    BY <1>13 DEF MainMenu
  <1>14. CASE MainJump
    BY <1>14 DEF MainJump, NeedsWatchdog
  <1>15. CASE MwErase
    BY <1>15 DEF MwErase
  <1>16. CASE MwProgram0
    BY <1>16 DEF MwProgram0
  <1>17. CASE MwProgram1
    BY <1>17 DEF MwProgram1
  <1>18. CASE MwFails
    BY <1>18, MwFailsTypes, HistoryTypes DEF MwFails, FaultKinds
  <1>19. CASE MenuStage
    BY <1>19 DEF MenuStage, MenuGoes
  <1>20. CASE MenuCancel
    BY <1>20 DEF MenuCancel, MenuGoes
  <1>21. CASE MenuWrite
    BY <1>21, HistoryTypes DEF MenuWrite, MenuGoes
  <1>22. CASE MenuBackup
    <2>1. wrong' \subseteq {"wrong"} /\ pc = "menu" /\ pc' \in {"bk_erase", "menu"}
      BY <1>22, HistoryTypes DEF MenuBackup, MenuGoes
    <2> QED
      BY SMTT(30), <1>22, <2>1 DEF MenuBackup, MenuGoes
  <1>23. CASE MenuRestore
    <2>1. wrong' \subseteq {"wrong"} /\ pc = "menu" /\ pc' \in {"rs_erase", "menu"}
      BY <1>23, HistoryTypes DEF MenuRestore, MenuGoes
    <2> QED
      BY SMTT(30), <1>23, <2>1 DEF MenuRestore, MenuGoes
  <1>24. CASE MenuRun
    BY <1>24 DEF MenuRun, MenuGoes
  <1>25. CASE MenuReboot
    <2>1. Reset("sft")
      BY <1>25 DEF MenuReboot
    <2> QED
      BY <1>25, <2>1, ResetTypes DEF MenuReboot
  <1>26. CASE FwBackupErase
    BY <1>26 DEF FwBackupErase, EraseBackup, Loop
  <1>27. CASE FwBackupCopy
    BY <1>27 DEF FwBackupCopy, CopyToBackup, BackupUnits, Loop, Prog
  <1>28. CASE FwBackupMeta
    BY <1>28 DEF FwBackupMeta, CallMetadata_Write, BackedUp, Metadata_Read
  <1>29. CASE FwBackupDone
    BY <1>29 DEF FwBackupDone, MwReturn
  <1>30. CASE FwErase
    BY <1>30 DEF FwErase, EraseBank2, FwSectors, Loop
  <1>31. CASE FwProg
    BY <1>31 DEF FwProg, ProgBank2, Loop, Prog
  <1>32. CASE FwPendMeta
    BY <1>32 DEF FwPendMeta, CallMetadata_Write, Metadata_Read
  <1>33. CASE FwDone
    <2>1. Reset("sft")
      BY <1>33 DEF FwDone
    <2> QED
      BY <1>33, <2>1, ResetTypes DEF FwDone
  <1>34. CASE FwFails
    <2>1. CASE \E here \in {"fw_bkerase", "fw_bkcopy"} : BackupFails(here, "menu")
      BY <1>34, <2>1, DamageTypes, HistoryTypes DEF FwFails, BackupFails, FaultKinds
    <2>2. CASE Bank2Fails("fw_erase", "erase", "menu")
      BY SMTT(30), <1>34, <2>2, DamageTypes, HistoryTypes DEF FwFails, Bank2Fails, FaultKinds
    <2>3. CASE \E k \in {"program", "qspi"} : Bank2Fails("fw_prog", k, "menu")
      BY <1>34, <2>3, DamageTypes, HistoryTypes DEF FwFails, Bank2Fails, FaultKinds
    <2>4. CASE rc = -1 /\ MwReturn("fw_pend", "menu")
      BY <1>34, <2>4 DEF FwFails, MwReturn
    <2> QED
      BY <1>34, <2>1, <2>2, <2>3, <2>4 DEF FwFails
  <1>35. CASE BkErase
    BY <1>35 DEF BkErase, EraseBackup, Loop
  <1>36. CASE BkCopy
    BY <1>36 DEF BkCopy, CopyToBackup, Loop, Prog
  <1>37. CASE BkMeta
    BY <1>37 DEF BkMeta, CallMetadata_Write, BackedUp, Metadata_Read
  <1>38. CASE BkEnds
    <2>1. CASE MwReturn("bk", "menu")
      BY <1>38, <2>1 DEF BkEnds, MwReturn
    <2>2. CASE \E here \in {"bk_erase", "bk_copy"} : BackupFails(here, "menu")
      BY <1>38, <2>2, DamageTypes, HistoryTypes DEF BkEnds, BackupFails, FaultKinds
    <2> QED
      BY <1>38, <2>1, <2>2 DEF BkEnds
  <1>39. CASE RsErase
    BY <1>39 DEF RsErase, EraseBank2, Loop
  <1>40. CASE RsProg
    BY <1>40 DEF RsProg, ProgBank2, Loop, Prog
  <1>41. CASE RsMeta
    BY <1>41 DEF RsMeta, CallMetadata_Write, Restored, Metadata_Read
  <1>42. CASE RsEnds
    <2>1. CASE MwReturn("rs", "menu")
      BY <1>42, <2>1 DEF RsEnds, MwReturn
    <2>2. CASE Bank2Fails("rs_erase", "erase", "menu")
      BY <1>42, <2>2, DamageTypes, HistoryTypes DEF RsEnds, Bank2Fails, FaultKinds
    <2>3. CASE \E k \in {"program", "qspi"} : Bank2Fails("rs_prog", k, "menu")
      <3>1. PICK k \in {"program", "qspi"} : Bank2Fails("rs_prog", k, "menu")
        BY <2>3
      <3>2. mishaps' \in Nat /\ wrong' \subseteq {"wrong"}
        BY <3>1, HistoryTypes DEF Bank2Fails, FaultKinds
      <3>3. bank2' \in Region
        BY <3>1, DamageTypes DEF Bank2Fails
      <3> QED
        BY <1>42, <3>1, <3>2, <3>3 DEF RsEnds, Bank2Fails
    <2> QED
      BY <1>42, <2>1, <2>2, <2>3 DEF RsEnds
  <1>43. CASE AppConfirm
    BY <1>43 DEF AppConfirm, CallMetadata_Write, Metadata_Read
  <1>44. CASE AppConfirmDone
    BY <1>44 DEF AppConfirmDone, MwReturn
  <1>45. CASE AppHang
    BY <1>45 DEF AppHang
  <1>46. CASE IwdgReset
    <2>1. Reset("iwdg")
      BY <1>46 DEF IwdgReset
    <2> QED
      BY <1>46, <2>1, ResetTypes DEF IwdgReset
  <1>47. CASE \E kind \in {"por", "pin"} : ExternalReset(kind)
    <2>1. PICK kind \in {"por", "pin"} : ExternalReset(kind)
      BY <1>47
    <2>2. bank2' \in Region /\ backup' \in Region
      BY <2>1, DamageTypes DEF ExternalReset
    <2>3. meta' \in Metadata
      BY <2>1, CutShortTypes
    <2>4. /\ Reset(kind) /\ working' = working /\ mishaps' = mishaps + 1
          /\ wrong' \subseteq {"wrong"}
      BY <2>1 DEF ExternalReset
    <2>5. /\ pc' = "boot" /\ i' \in Sectors /\ ram' \in Metadata /\ cont' \in Conts
          /\ rc' \in {0, -1} /\ req' \in 0..2 /\ ota' \in Labels
          /\ iwdg' \in BOOLEAN /\ iwdgFlag' \in BOOLEAN
          /\ lastReset' \in {"por", "pin", "sft", "iwdg"}
      BY <2>4, ResetTypes
    <2> HIDE DEF Metadata, Region
    <2> QED
      BY <2>2, <2>3, <2>4, <2>5
  <1>48. CASE UNCHANGED vars
    BY <1>48 DEF vars
  <1> QED
    BY <1>1, <1>2, <1>3, <1>4, <1>5, <1>6, <1>7, <1>8, <1>9, <1>10, <1>11, <1>12, <1>13,
       <1>14, <1>15, <1>16, <1>17, <1>18, <1>19, <1>20, <1>21, <1>22, <1>23, <1>24,
       <1>25, <1>26, <1>27, <1>28, <1>29, <1>30, <1>31, <1>32, <1>33, <1>34, <1>35,
       <1>36, <1>37, <1>38, <1>39, <1>40, <1>41, <1>42, <1>43, <1>44, <1>45, <1>46,
       <1>47, <1>48
    DEF Next, Boot, Boot_Metadata_Step, Boot_DoRollback, Metadata_Write, Menu,
        OTA_Flash_Write, Backup_SlotA, Restore_SlotA, Environment

\* Every variable keeps its type, and a flash loop never leaves its region, in
\* all steps of the bootloader and its environment.
THEOREM TypeCorrect == Spec => []TypeOK
  <1>1. Spec => []TInv
    BY TInvInit, TInvStep, PTL DEF Spec
  <1> QED
    BY <1>1, PTL DEF TInv

-----------------------------------------------------------------------------
(* The loops: what a rollback or a restore leaves in Bank2.                *)

\* At reset no flash loop is running.
LEMMA ProgressInit == Init => ProgressInv
  BY DEF Init, ProgressInv, BackupPcs, Bank2Pcs

\* Every step keeps what the erase, copy and write-back loops have done so far.
LEMMA ProgressStep == TInv /\ ProgressInv /\ [Next]_vars => ProgressInv'
  <1> SUFFICES ASSUME TInv, ProgressInv, [Next]_vars PROVE ProgressInv'
    OBVIOUS
  <1> USE DEF TInv, TypeOK, ProgressInv, Region, Sectors, BackupPcs, Bank2Pcs, flashVars,
              callVars, histVars
  <1>1. CASE BootEmpty
    BY <1>1 DEF BootEmpty, BootReturns
  <1>2. CASE BootPending
    BY <1>2 DEF BootPending, CallMetadata_Write
  <1>3. CASE BootPendingDone
    BY <1>3 DEF BootPendingDone, MwReturn
  <1>4. CASE BootTestingOther
    BY <1>4 DEF BootTestingOther, BootReturns
  <1>5. CASE BootTestingIwdg
    BY <1>5 DEF BootTestingIwdg
  <1>6. CASE BootConfirmed
    BY <1>6 DEF BootConfirmed, BootReturns
  <1>7. CASE RollbackMeta
    BY <1>7 DEF RollbackMeta, CallMetadata_Write
  <1>8. CASE RollbackDone
    BY <1>8 DEF RollbackDone, MwReturn
  <1>9. CASE RollbackCheck
    BY <1>9 DEF RollbackCheck, Fault
  <1>10. CASE RollbackErase
    BY <1>10 DEF RollbackErase, EraseBank2, RestoreSectors, Loop
  <1>11. CASE RollbackProg
    BY <1>11 DEF RollbackProg, ProgBank2, Loop, Prog
  <1>12. CASE RollbackFails
    BY <1>12 DEF RollbackFails, Bank2Fails, Fault
  <1>13. CASE MainMenu
    BY <1>13 DEF MainMenu
  <1>14. CASE MainJump
    BY <1>14 DEF MainJump
  <1>15. CASE MwErase
    BY <1>15 DEF MwErase
  <1>16. CASE MwProgram0
    BY <1>16 DEF MwProgram0, Meta
  <1>17. CASE MwProgram1
    BY <1>17 DEF MwProgram1
  <1>18. CASE MwFails
    BY <1>18 DEF MwFails, Fault
  <1>19. CASE MenuStage
    BY <1>19 DEF MenuStage, MenuGoes
  <1>20. CASE MenuCancel
    BY <1>20 DEF MenuCancel, MenuGoes
  <1>21. CASE MenuWrite
    BY <1>21 DEF MenuWrite, MenuGoes, OperatorDoes
  <1>22. CASE MenuBackup
    BY <1>22 DEF MenuBackup, MenuGoes, OperatorDoes
  <1>23. CASE MenuRestore
    BY <1>23 DEF MenuRestore, MenuGoes, OperatorDoes
  <1>24. CASE MenuRun
    BY <1>24 DEF MenuRun, MenuGoes
  <1>25. CASE MenuReboot
    BY <1>25 DEF MenuReboot, Reset
  <1>26. CASE FwBackupErase
    BY <1>26 DEF FwBackupErase, EraseBackup, Loop
  <1>27. CASE FwBackupCopy
    BY <1>27 DEF FwBackupCopy, CopyToBackup, BackupUnits, Loop, Prog
  <1>28. CASE FwBackupMeta
    BY <1>28 DEF FwBackupMeta, CallMetadata_Write
  <1>29. CASE FwBackupDone
    BY <1>29 DEF FwBackupDone, MwReturn
  <1>30. CASE FwErase
    BY <1>30 DEF FwErase, EraseBank2, FwSectors, Loop
  <1>31. CASE FwProg
    BY <1>31 DEF FwProg, ProgBank2, Loop, Prog
  <1>32. CASE FwPendMeta
    BY <1>32 DEF FwPendMeta, CallMetadata_Write
  <1>33. CASE FwDone
    BY <1>33 DEF FwDone, Reset
  <1>34. CASE FwFails
    BY <1>34 DEF FwFails, BackupFails, Bank2Fails, MwReturn, Fault
  <1>35. CASE BkErase
    BY <1>35 DEF BkErase, EraseBackup, Loop
  <1>36. CASE BkCopy
    BY <1>36 DEF BkCopy, CopyToBackup, Loop, Prog
  <1>37. CASE BkMeta
    BY <1>37 DEF BkMeta, CallMetadata_Write
  <1>38. CASE BkEnds
    BY <1>38 DEF BkEnds, MwReturn, BackupFails, Fault
  <1>39. CASE RsErase
    BY <1>39 DEF RsErase, EraseBank2, Loop
  <1>40. CASE RsProg
    BY SMTT(30), <1>40 DEF RsProg, ProgBank2, Loop, Prog
  <1>41. CASE RsMeta
    BY <1>41 DEF RsMeta, CallMetadata_Write
  <1>42. CASE RsEnds
    BY <1>42 DEF RsEnds, MwReturn, Bank2Fails, Fault
  <1>43. CASE AppConfirm
    BY <1>43 DEF AppConfirm, CallMetadata_Write
  <1>44. CASE AppConfirmDone
    BY <1>44 DEF AppConfirmDone, MwReturn
  <1>45. CASE AppHang
    BY <1>45 DEF AppHang
  <1>46. CASE IwdgReset
    BY <1>46 DEF IwdgReset, Reset
  <1>47. CASE \E kind \in {"por", "pin"} : ExternalReset(kind)
    BY <1>47 DEF ExternalReset, Reset
  <1>48. CASE UNCHANGED vars
    BY <1>48 DEF vars
  <1> QED
    BY <1>1, <1>2, <1>3, <1>4, <1>5, <1>6, <1>7, <1>8, <1>9, <1>10, <1>11, <1>12, <1>13,
       <1>14, <1>15, <1>16, <1>17, <1>18, <1>19, <1>20, <1>21, <1>22, <1>23, <1>24,
       <1>25, <1>26, <1>27, <1>28, <1>29, <1>30, <1>31, <1>32, <1>33, <1>34, <1>35,
       <1>36, <1>37, <1>38, <1>39, <1>40, <1>41, <1>42, <1>43, <1>44, <1>45, <1>46,
       <1>47, <1>48
    DEF Next, Boot, Boot_Metadata_Step, Boot_DoRollback, Metadata_Write, Menu,
        OTA_Flash_Write, Backup_SlotA, Restore_SlotA, Environment

\* When a rollback or a restore goes on to record CONFIRMED, Bank2 equals the
\* backup area in every sector, whatever failed or was cut short before
\* (menu.c, Boot_DoRollback and Restore_SlotA).
THEOREM RollbackIsExact == Spec => []RestoredExactly
  <1>1. Spec => [](TInv /\ ProgressInv)
    BY TInvInit, TInvStep, ProgressInit, ProgressStep, PTL DEF Spec
  <1>2. TInv /\ ProgressInv => RestoredExactly
    BY DEF TInv, TypeOK, ProgressInv, RestoredExactly, Region
  <1> QED
    BY <1>1, <1>2, PTL

-----------------------------------------------------------------------------
(* The copies: a working image survives in Bank2 or in the backup area.    *)

\* Whether a region holds a working image, and whether an image is on trial,
\* change only with the variables they are about.
LEMMA CopyFrames ==
    /\ UNCHANGED <<bank2, working>> => (Holds(bank2)' <=> Holds(bank2))
    /\ UNCHANGED <<backup, working>> => (Holds(backup)' <=> Holds(backup))
    /\ UNCHANGED meta => (OnTrial' <=> OnTrial)
    /\ meta' = Erased => ~OnTrial'
  BY DEF Holds, Intact, OnTrial, Metadata_Read, Erased, Defaults, Meta

\* A backup area that equals Bank2 in every sector holds what Bank2 holds.
LEMMA CopyHolds ==
    ASSUME bank2 \in Region, backup' \in Region, UNCHANGED working,
           Holds(bank2), \A s \in Sectors : backup'[s] = bank2[s],
           working \subseteq Images
    PROVE  Holds(backup)'
  <1>1. PICK v \in working : Intact(bank2, v)
    BY DEF Holds
  <1>2. Intact(backup', v)
    BY <1>1 DEF Intact, Sectors
  <1> QED
    BY <1>1, <1>2 DEF Holds, Intact

\* A device shipped with an App holds a working image in Bank2.
LEMMA CopyInit == Init => CopyInv
  <1> SUFFICES ASSUME Init, working # {} PROVE CopyInv
    BY DEF CopyInv
  <1>1. PICK v \in Images : /\ bank2 = [s \in Sectors |-> IF s < Units[v] THEN v ELSE Blank]
                            /\ working = {v}
    BY DEF Init
  <1>2. Intact(bank2, v)
    BY <1>1 DEF Intact, Sectors
  <1>3. Holds(bank2) /\ ~OnTrial
    BY <1>1, <1>2 DEF Holds, OnTrial, Init, Metadata_Read, Erased, Defaults, Meta
  <1> QED
    BY <1>3 DEF CopyInv, Init, BackupPcs, Bank2Pcs, CallPcs, MetaPcs

\* Every step leaves a complete working image where CopyInv says it is: an
\* operation rewrites one region only while the other is known to hold one.
\* The operator keeps to the rule, or at least did in this step.
LEMMA CopyStep ==
    ASSUME Careful \/ wrong' = {}, IInv, [Next]_vars
    PROVE  CopyInv'
  <1> USE CopyFrames DEF CopyInv, BackupPcs, Bank2Pcs, CallPcs, MetaPcs, IdlePcs,
                         flashVars, callVars, histVars
  <1> DEFINE T == TInv /\ ProgressInv
  <1> HIDE DEF T
  <1>0. CopyInv /\ T
    BY DEF IInv, T
  <1>1. CASE BootEmpty
    BY <1>0, <1>1 DEF BootEmpty, BootReturns
  <1>2. CASE BootPending
    BY <1>0, <1>2 DEF BootPending, CallMetadata_Write, OnTrial
  <1>3. CASE BootPendingDone
    BY <1>0, <1>3 DEF BootPendingDone, MwReturn
  <1>4. CASE BootTestingOther
    BY <1>0, <1>4 DEF BootTestingOther, BootReturns
  <1>5. CASE BootTestingIwdg
    BY <1>0, <1>5 DEF BootTestingIwdg, OnTrial
  <1>6. CASE BootConfirmed
    BY <1>0, <1>6 DEF BootConfirmed, BootReturns
  <1>7. CASE RollbackMeta
    BY <1>0, <1>7 DEF RollbackMeta, CallMetadata_Write
  <1>8. CASE RollbackDone
    BY <1>0, <1>8 DEF RollbackDone, MwReturn
  <1>9. CASE RollbackCheck
    BY <1>0, <1>9 DEF RollbackCheck, Fault
  <1>10. CASE RollbackErase
    BY <1>0, <1>10 DEF RollbackErase, EraseBank2, Loop
  <1>11. CASE RollbackProg
    BY <1>0, <1>11 DEF RollbackProg, ProgBank2, Loop
  <1>12. CASE RollbackFails
    BY <1>0, <1>12 DEF RollbackFails, Bank2Fails, Fault
  <1>13. CASE MainMenu
    BY <1>0, <1>13 DEF MainMenu
  <1>14. CASE MainJump
    BY <1>0, <1>14 DEF MainJump
  <1>15. CASE MwErase
    BY <1>0, <1>15 DEF MwErase
  <1>16. CASE MwProgram0
    <2>1. CASE cont # "app"
      BY <1>0, <1>16, <2>1 DEF MwProgram0
    <2>2. CASE cont = "app"
      <3>1. Complete(bank2) /\ ram.state = "CONFIRMED"
        BY <1>0, <1>16, <2>2 DEF T, TInv, ConfirmerIsComplete, MwProgram0
      <3>2. ~OnTrial'
        BY <3>1, <1>16 DEF MwProgram0, OnTrial, Metadata_Read, Meta
      <3>3. Holds(bank2)'
        BY <3>1, <1>16, <2>2 DEF MwProgram0, Complete, Holds, Intact
      <3> QED
        BY <1>16, <2>2, <3>2, <3>3 DEF MwProgram0
    <2> QED
      BY <2>1, <2>2
  <1>17. CASE MwProgram1
    <2>1. CASE cont # "app"
      BY <1>0, <1>17, <2>1 DEF MwProgram1
    <2>2. CASE cont = "app"
      <3>1. ram.state = "CONFIRMED" /\ meta.state = ram.state
        BY <1>0, <1>17, <2>2 DEF T, TInv, ConfirmerIsComplete, ProgressInv, MwProgram1
      <3>2. ~OnTrial'
        BY <3>1, <1>17 DEF MwProgram1, OnTrial, Metadata_Read, Meta
      <3> QED
        BY <1>0, <1>17, <2>2, <3>2 DEF MwProgram1
    <2> QED
      BY <2>1, <2>2
  <1>18. CASE MwFails
    BY <1>0, <1>18 DEF MwFails, Fault
  <1>19. CASE MenuStage
    BY <1>0, <1>19 DEF MenuStage, MenuGoes
  <1>20. CASE MenuCancel
    BY <1>0, <1>20 DEF MenuCancel, MenuGoes
  <1>21. CASE MenuWrite
    BY <1>0, <1>21 DEF MenuWrite, MenuGoes, OperatorDoes, MayBackup
  <1>22. CASE MenuBackup
    BY <1>0, <1>22 DEF MenuBackup, MenuGoes, OperatorDoes, MayBackup
  <1>23. CASE MenuRestore
    BY <1>0, <1>23 DEF MenuRestore, MenuGoes, OperatorDoes, MayRestore
  <1>24. CASE MenuRun
    BY <1>0, <1>24 DEF MenuRun, MenuGoes
  <1>25. CASE MenuReboot
    BY <1>0, <1>25 DEF MenuReboot, Reset
  <1>26. CASE FwBackupErase
    BY <1>0, <1>26 DEF FwBackupErase, EraseBackup, Loop
  <1>27. CASE FwBackupCopy
    <2>1. CASE i + 1 < NSec
      BY <1>0, <1>27, <2>1 DEF FwBackupCopy, CopyToBackup, BackupUnits, Loop
    <2>2. CASE ~(i + 1 < NSec)
      <3>1. \A s \in Sectors : backup'[s] = bank2[s]
        BY SMTT(30), <1>0, <1>27, <2>2
        DEF T, TInv, TypeOK, ProgressInv, FwBackupCopy, CopyToBackup, Prog, Region, Sectors
      <3>2. bank2 \in Region /\ backup' \in Region /\ working \subseteq Images
        BY <1>0, <1>27
        DEF T, TInv, TypeOK, FwBackupCopy, CopyToBackup, Prog, Region, Sectors, Contents
      <3>3. working # {} => Holds(backup)'
        BY <1>0, <1>27, <3>1, <3>2, CopyHolds DEF FwBackupCopy, CopyToBackup
      <3> QED
        BY <1>0, <1>27, <2>2, <3>3 DEF FwBackupCopy, CopyToBackup, BackupUnits, Loop
    <2> QED
      BY <2>1, <2>2
  <1>28. CASE FwBackupMeta
    BY <1>0, <1>28 DEF FwBackupMeta, CallMetadata_Write
  <1>29. CASE FwBackupDone
    BY <1>0, <1>29 DEF FwBackupDone, MwReturn
  <1>30. CASE FwErase
    BY <1>0, <1>30 DEF FwErase, EraseBank2, Loop
  <1>31. CASE FwProg
    BY <1>0, <1>31 DEF FwProg, ProgBank2, Loop
  <1>32. CASE FwPendMeta
    BY <1>0, <1>32 DEF FwPendMeta, CallMetadata_Write
  <1>33. CASE FwDone
    BY <1>0, <1>33 DEF FwDone, Reset
  <1>34. CASE FwFails
    BY <1>0, <1>34 DEF FwFails, BackupFails, Bank2Fails, MwReturn, Fault
  <1>35. CASE BkErase
    BY <1>0, <1>35 DEF BkErase, EraseBackup, Loop
  <1>36. CASE BkCopy
    <2>1. CASE i + 1 < NSec
      BY <1>0, <1>36, <2>1 DEF BkCopy, CopyToBackup, BackupUnits, Loop
    <2>2. CASE ~(i + 1 < NSec)
      <3>1. \A s \in Sectors : backup'[s] = bank2[s]
        BY SMTT(30), <1>0, <1>36, <2>2
        DEF T, TInv, TypeOK, ProgressInv, BkCopy, CopyToBackup, Prog, Region, Sectors
      <3>2. bank2 \in Region /\ backup' \in Region /\ working \subseteq Images
        BY <1>0, <1>36
        DEF T, TInv, TypeOK, BkCopy, CopyToBackup, Prog, Region, Sectors, Contents
      <3>3. working # {} => Holds(backup)'
        BY <1>0, <1>36, <3>1, <3>2, CopyHolds DEF BkCopy, CopyToBackup
      <3> QED
        BY <1>0, <1>36, <2>2, <3>3 DEF BkCopy, CopyToBackup, BackupUnits, Loop
    <2> QED
      BY <2>1, <2>2
  <1>37. CASE BkMeta
    BY <1>0, <1>37 DEF BkMeta, CallMetadata_Write
  <1>38. CASE BkEnds
    BY <1>0, <1>38 DEF BkEnds, MwReturn, BackupFails, Fault
  <1>39. CASE RsErase
    BY <1>0, <1>39 DEF RsErase, EraseBank2, Loop
  <1>40. CASE RsProg
    BY <1>0, <1>40 DEF RsProg, ProgBank2, Loop
  <1>41. CASE RsMeta
    BY <1>0, <1>41 DEF RsMeta, CallMetadata_Write
  <1>42. CASE RsEnds
    BY <1>0, <1>42 DEF RsEnds, MwReturn, Bank2Fails, Fault
  <1>43. CASE AppConfirm
    BY <1>0, <1>43 DEF AppConfirm, CallMetadata_Write, OnTrial
  <1>44. CASE AppConfirmDone
    BY <1>0, <1>44 DEF AppConfirmDone, MwReturn
  <1>45. CASE AppHang
    BY <1>0, <1>45 DEF AppHang
  <1>46. CASE IwdgReset
    BY <1>0, <1>46 DEF IwdgReset, Reset
  <1>47. CASE \E kind \in {"por", "pin"} : ExternalReset(kind)
    BY <1>0, <1>47 DEF ExternalReset, Reset
  <1>48. CASE UNCHANGED vars
    BY <1>0, <1>48 DEF vars
  <1> QED
    BY <1>1, <1>2, <1>3, <1>4, <1>5, <1>6, <1>7, <1>8, <1>9, <1>10, <1>11, <1>12, <1>13,
       <1>14, <1>15, <1>16, <1>17, <1>18, <1>19, <1>20, <1>21, <1>22, <1>23, <1>24,
       <1>25, <1>26, <1>27, <1>28, <1>29, <1>30, <1>31, <1>32, <1>33, <1>34, <1>35,
       <1>36, <1>37, <1>38, <1>39, <1>40, <1>41, <1>42, <1>43, <1>44, <1>45, <1>46,
       <1>47, <1>48
    DEF Next, Boot, Boot_Metadata_Step, Boot_DoRollback, Metadata_Write, Menu,
        OTA_Flash_Write, Backup_SlotA, Restore_SlotA, Environment

\* The three parts of the invariant hold in every reachable state.
LEMMA Inductive == ASSUME Careful PROVE Spec => []IInv
  <1>1. Init => IInv
    BY TInvInit, ProgressInit, CopyInit DEF IInv
  <1>2. IInv /\ [Next]_vars => IInv'
    BY TInvStep, ProgressStep, CopyStep DEF IInv
  <1> QED
    BY <1>1, <1>2, PTL DEF Spec

\* For an operator who overwrites the backup area only from a proven image and
\* Bank2 only from a proven backup, no failure and no reset inside any flash
\* operation loses the last working image (ota.c, OTA_Flash_Write; menu.c,
\* Backup_SlotA, Restore_SlotA, Boot_DoRollback).
THEOREM CopySurvives == ASSUME Careful PROVE Spec => []GoodCopyExists
  <1>1. IInv => GoodCopyExists
    BY DEF IInv, CopyInv, GoodCopyExists
  <1> QED
    BY <1>1, Inductive, PTL

\* For the same operator, what a rollback puts into Bank2 is an image that has
\* worked on this device (menu.c, Boot_DoRollback).
THEOREM RollbackIsToWorking == ASSUME Careful PROVE Spec => []RollbackRestoresWorking
  <1>1. IInv => RollbackRestoresWorking
    <2> SUFFICES ASSUME IInv, pc = "mw_erase", cont = "rolledback", working # {}
                 PROVE  Holds(bank2)
      BY DEF RollbackRestoresWorking
    <2>1. Holds(backup)
      BY DEF IInv, CopyInv, MetaPcs
    <2>2. bank2 = backup
      BY DEF IInv, TInv, TypeOK, ProgressInv, Region
    <2> QED
      BY <2>1, <2>2
  <1> QED
    BY <1>1, Inductive, PTL

=============================================================================
