------------------------------ MODULE Bootloader ------------------------------
(***************************************************************************)
(* The update, trial and rollback state machine of the bootloader:         *)
(* Boot_Metadata_Step and main at every reset, the menu operations that    *)
(* write flash (Backup_SlotA, Restore_SlotA, OTA_Flash_Write) and          *)
(* Metadata_Write, over flash that survives a reset and a RAM that does    *)
(* not.  A step is one flash sector or one flash word; a reset can fall    *)
(* between and inside the steps.                                           *)
(*                                                                         *)
(* Abstractions.                                                           *)
(*  - A firmware image is a model value.  It stands for its bytes, its     *)
(*    version numbers, its CRC32 and its size, so one label of the         *)
(*    metadata stands for the fields (cur_*, crc32, fw_size) and one for   *)
(*    (bak_*, bak_crc32, bak_fw_size).                                     *)
(*  - A region of flash is a function from units (128 KB sectors) to       *)
(*    contents.  Torn is a unit only partly erased or programmed.          *)
(*  - A retry loop is its outcome: it succeeds, or every attempt failed.   *)
(*  - Receiving and staging an image (OTA_Server_Start to OTA_Poll) is one *)
(*    step, MenuStage; module OtaReceive models it in detail.              *)
(*  - The App is external: it may confirm itself with Metadata_Write (the  *)
(*    module metadata.h shares with it), or stop feeding the watchdog.     *)
(***************************************************************************)
EXTENDS Integers

CONSTANTS
    Images,       \* firmware images
    Confirming,   \* images whose App confirms itself during its trial
    Hanging,      \* images whose App can stop feeding the watchdog
    Units,        \* Units[v]: number of sectors image v occupies
    NSec,         \* sectors of Bank2, and of the backup area
    Blank, Torn,  \* contents of a unit that is no part of an image
    None,         \* a metadata label that names no image
    Faults,       \* which operations can fail; see FaultKinds
    MaxMishaps,   \* bound on external resets and failed operations together
    Careful       \* whether the operator keeps to the rule of the menu part

FaultKinds == {"midop", "erase", "program", "qspi"}

ASSUME ConstantsAssumption ==
    /\ NSec \in Nat \ {0}
    /\ Units \in [Images -> 1..NSec]
    /\ Confirming \subseteq Images
    /\ Hanging \subseteq Images
    /\ Blank \notin Images /\ Torn \notin Images /\ Blank # Torn
    /\ None \notin Images
    /\ Faults \subseteq FaultKinds
    /\ MaxMishaps \in Nat
    /\ Careful \in BOOLEAN

VARIABLES
    \* flash and the reset flags: what survives a reset
    meta,         \* the metadata sector
    bank2,        \* internal flash Bank2, the App's execution area
    backup,       \* external NOR backup area
    iwdgFlag,     \* RCC_RSR.IWDG1RSTF
    \* the program: what a reset loses
    pc, i,        \* program counter, and the unit a flash loop is at
    ram, cont, rc,\* Metadata_Write: its argument, its caller, its result
    req,          \* main's boot_req
    ota,          \* the image staged and waiting for "write? (y/n)"
    iwdg,         \* whether the watchdog runs
    \* history
    lastReset,    \* what caused the last reset
    working,      \* images that have confirmed themselves, or were shipped
    mishaps,      \* external resets and failed operations so far
    wrong         \* {}, or {"wrong"} once an operation failed, a reset cut one
                  \* short, or the operator broke the rule

flashVars == <<meta, bank2, backup>>
callVars == <<ram, cont, rc>>
histVars == <<lastReset, working>>
vars == <<meta, bank2, backup, iwdgFlag, pc, i, ram, cont, rc, req, ota, iwdg,
          lastReset, working, mishaps, wrong>>

-----------------------------------------------------------------------------
(* Types and flash contents                                                *)

States == {"EMPTY", "PENDING", "TESTING", "CONFIRMED"}
Labels == Images \cup {None}
Metadata == [magic : BOOLEAN, state : States, cur : Labels, bak : Labels]
Contents == Images \cup {Blank, Torn}
Sectors == 0..(NSec - 1)
Region == [Sectors -> Contents]

BackupPcs == {"fw_bkerase", "fw_bkcopy", "bk_erase", "bk_copy"}
Bank2Pcs == {"fw_erase", "fw_prog", "rs_erase", "rs_prog", "rb_erase", "rb_prog"}
CallPcs == {"fw_bakmeta", "fw_pendmeta", "bk_meta", "rs_meta", "rb_meta"}
MetaPcs == {"mw_erase", "mw_p0", "mw_p1", "mw_ret"}
IdlePcs == {"menu", "app", "hung"}
Pcs == BackupPcs \cup Bank2Pcs \cup CallPcs \cup MetaPcs \cup IdlePcs
         \cup {"boot", "rb_check", "key1"}
Conts == {"none", "testing", "rolledback", "fw_bak", "fw_pend", "bk", "rs", "app"}

TypeOK ==
    /\ meta \in Metadata
    /\ bank2 \in Region /\ backup \in Region
    /\ iwdgFlag \in BOOLEAN /\ iwdg \in BOOLEAN
    /\ pc \in Pcs /\ i \in Sectors
    /\ ram \in Metadata /\ cont \in Conts /\ rc \in {0, -1}
    /\ req \in 0..2
    /\ ota \in Labels
    /\ lastReset \in {"por", "pin", "sft", "iwdg"}
    /\ working \subseteq Images
    /\ mishaps \in Nat /\ wrong \subseteq {"wrong"}

\* Flash holds every unit of image v.
Intact(region, v) == \A s \in 0..(Units[v] - 1) : region[s] = v

\* The region starts with an image and holds all of it.
Complete(region) == region[0] \in Images /\ Intact(region, region[0])

\* Programming a unit: only an erased unit takes the new contents.
Prog(old, new) ==
    IF old = Blank THEN new
    ELSE IF new \in {Blank, old} THEN old ELSE Torn

\* What the first word of a unit can read as: 0xFFFFFFFF or not.
MayReadBlank(c) == c \in {Blank, Torn}
MayReadData(c) == c # Blank

\* An erased metadata sector: all ones, so no magic and STATE_EMPTY.
Erased == [magic |-> FALSE, state |-> "EMPTY", cur |-> None, bak |-> None]

\* A metadata record as the program fills it in.
Meta(state, cur, bak) == [magic |-> TRUE, state |-> state, cur |-> cur, bak |-> bak]

\* The record Metadata_Read makes up when it finds no magic.
Defaults == Meta("EMPTY", None, None)
Metadata_Read == IF meta.magic THEN meta ELSE Defaults

-----------------------------------------------------------------------------
(* Faults, resets and loops                                                *)

\* An operation of kind k fails after all its retries.
Fault(k) ==
    /\ k \in Faults
    /\ mishaps < MaxMishaps
    /\ mishaps' = mishaps + 1 /\ wrong' = wrong \cup {"wrong"}

\* The unit in flight when an operation fails or is cut short.
Damage(region) == {region, [region EXCEPT ![i] = Torn]}

\* RCC_RSR after a reset: only a power-on reset clears the flag by itself.
RsrAfter(kind) == kind = "iwdg" \/ (kind # "por" /\ iwdgFlag)

Reset(kind) ==
    /\ pc' = "boot" /\ i' = 0
    /\ ram' = Defaults /\ cont' = "none" /\ rc' = 0
    /\ req' = 0 /\ ota' = None /\ iwdg' = FALSE
    /\ iwdgFlag' = RsrAfter(kind)
    /\ lastReset' = kind

\* The unit i of a loop over n units is done.
Loop(here, n, next) ==
    IF i + 1 < n THEN i' = i + 1 /\ pc' = here ELSE i' = 0 /\ pc' = next

EraseBank2(here, n, next) ==
    /\ pc = here
    /\ bank2' = [bank2 EXCEPT ![i] = Blank]
    /\ Loop(here, n, next)
    /\ UNCHANGED <<meta, backup, iwdgFlag, callVars, req, ota, iwdg, histVars, mishaps, wrong>>

ProgBank2(here, n, next, new) ==
    /\ pc = here
    /\ bank2' = [bank2 EXCEPT ![i] = Prog(@, new)]
    /\ Loop(here, n, next)
    /\ UNCHANGED <<meta, backup, iwdgFlag, callVars, req, ota, iwdg, histVars, mishaps, wrong>>

EraseBackup(here, n, next) ==
    /\ pc = here
    /\ backup' = [backup EXCEPT ![i] = Blank]
    /\ Loop(here, n, next)
    /\ UNCHANGED <<meta, bank2, iwdgFlag, callVars, req, ota, iwdg, histVars, mishaps, wrong>>

CopyToBackup(here, n, next) ==
    /\ pc = here
    /\ backup' = [backup EXCEPT ![i] = Prog(@, bank2[i])]
    /\ Loop(here, n, next)
    /\ UNCHANGED <<meta, bank2, iwdgFlag, callVars, req, ota, iwdg, histVars, mishaps, wrong>>

\* Bank2 or the backup area can no longer be written: the unit in flight is
\* damaged and the operation returns to next.
Bank2Fails(here, k, next) ==
    /\ pc = here /\ Fault(k)
    /\ bank2' \in Damage(bank2)
    /\ pc' = next /\ i' = 0
    /\ UNCHANGED <<meta, backup, iwdgFlag, callVars, iwdg, histVars>>

BackupFails(here, next) ==
    /\ pc = here /\ Fault("qspi")
    /\ backup' \in Damage(backup)
    /\ pc' = next /\ i' = 0
    /\ UNCHANGED <<meta, bank2, iwdgFlag, callVars, iwdg, histVars>>

-----------------------------------------------------------------------------
(* Metadata_Write: erase the sector, program two flash words               *)

CallMetadata_Write(here, arg, k) ==
    /\ pc = here
    /\ ram' = arg /\ cont' = k /\ rc' = 0
    /\ pc' = "mw_erase"
    /\ UNCHANGED <<flashVars, iwdgFlag, i, req, ota, iwdg, histVars, mishaps, wrong>>

MwErase ==
    /\ pc = "mw_erase"
    /\ meta' = Erased
    /\ pc' = "mw_p0"
    /\ UNCHANGED <<bank2, backup, iwdgFlag, i, callVars, req, ota, iwdg, histVars, mishaps, wrong>>

\* First flash word: magic, state and the cur label.  An App's own
\* confirmation takes effect here.
MwProgram0 ==
    /\ pc = "mw_p0"
    /\ meta' = Meta(ram.state, ram.cur, None)
    /\ pc' = "mw_p1"
    /\ working' = IF cont = "app" THEN working \cup {bank2[0]} ELSE working
    /\ UNCHANGED <<bank2, backup, iwdgFlag, i, callVars, req, ota, iwdg, lastReset, mishaps, wrong>>

\* Second flash word: the bak label; then read back and compare.
MwProgram1 ==
    /\ pc = "mw_p1"
    /\ meta' = Meta(meta.state, meta.cur, ram.bak)
    /\ pc' = "mw_ret"
    /\ UNCHANGED <<bank2, backup, iwdgFlag, i, callVars, req, ota, iwdg, histVars, mishaps, wrong>>

MwFails ==
    /\ \/ pc = "mw_erase" /\ Fault("erase") /\ meta' \in {meta, Erased}
       \/ pc \in {"mw_p0", "mw_p1"} /\ Fault("program") /\ UNCHANGED meta
    /\ rc' = -1 /\ pc' = "mw_ret"
    /\ UNCHANGED <<bank2, backup, iwdgFlag, i, ram, cont, req, ota, iwdg, histVars>>

\* The caller named k goes on at next.
MwReturn(k, next) ==
    /\ pc = "mw_ret" /\ cont = k
    /\ pc' = next
    /\ UNCHANGED <<flashVars, iwdgFlag, i, callVars, iwdg, histVars, mishaps, wrong>>

Metadata_Write == MwErase \/ MwProgram0 \/ MwProgram1 \/ MwFails

-----------------------------------------------------------------------------
(* Boot: Boot_Metadata_Step, Boot_DoRollback, main                         *)

\* Boot_Metadata_Step returns r to main.
BootReturns(r) ==
    /\ req' = r /\ pc' = "key1"
    /\ UNCHANGED <<flashVars, i, callVars, ota, iwdg, histVars, mishaps, wrong>>

\* Mutant: the reset flag is read after it was cleared.
MutFlagLost == FALSE
Reset_Reason_Is_IWDG == iwdgFlag

BootEmpty ==
    /\ pc = "boot" /\ Metadata_Read.state = "EMPTY"
    /\ BootReturns(0) /\ UNCHANGED iwdgFlag

\* Mutant: the trial is skipped.
MutNoTrial(m) == Meta("CONFIRMED", m.cur, m.bak)

\* The metadata written when an update is found pending.
OnPending(m) == Meta("TESTING", m.cur, m.bak)

BootPending ==
    /\ Metadata_Read.state = "PENDING"
    /\ CallMetadata_Write("boot", OnPending(Metadata_Read), "testing")

\* The result of the write is not looked at.
BootPendingDone ==
    /\ MwReturn("testing", "key1")
    /\ req' = 1 /\ UNCHANGED ota

BootTestingOther ==
    /\ pc = "boot" /\ Metadata_Read.state = "TESTING"
    /\ ~Reset_Reason_Is_IWDG
    /\ iwdgFlag' = FALSE
    /\ BootReturns(1)

BootTestingIwdg ==
    /\ pc = "boot" /\ Metadata_Read.state = "TESTING"
    /\ Reset_Reason_Is_IWDG
    /\ iwdgFlag' = FALSE
    /\ pc' = "rb_check"
    /\ UNCHANGED <<flashVars, i, callVars, req, ota, iwdg, histVars, mishaps, wrong>>

BootConfirmed ==
    /\ pc = "boot" /\ Metadata_Read.state = "CONFIRMED"
    /\ BootReturns(2) /\ UNCHANGED iwdgFlag

\* Mutant: the erase loop stops one sector short.
MutRestoreShort == NSec - 1

\* Sectors of Bank2 a rollback or a restore erases and writes back.
RestoreSectors == NSec

\* Mutant: the current version is left as it was.
MutRestoredKeepsCur(m) == Meta("CONFIRMED", m.cur, m.bak)

\* The metadata once the backup is back in Bank2.
Restored(m) == Meta("CONFIRMED", m.bak, m.bak)

\* The QSPI flash answers and the backup area is not empty, or the rollback
\* is refused and main enters the menu.
RollbackCheck ==
    /\ pc = "rb_check"
    /\ \/ /\ MayReadData(backup[0])
          /\ pc' = "rb_erase" /\ UNCHANGED <<req, mishaps, wrong>>
       \/ /\ MayReadBlank(backup[0])
          /\ pc' = "key1" /\ req' = 0 /\ UNCHANGED <<mishaps, wrong>>
       \/ /\ Fault("qspi")
          /\ pc' = "key1" /\ req' = 0
    /\ UNCHANGED <<flashVars, iwdgFlag, i, callVars, ota, iwdg, histVars>>

RollbackErase == EraseBank2("rb_erase", RestoreSectors, "rb_prog")
RollbackProg == ProgBank2("rb_prog", NSec, "rb_meta", backup[i])
RollbackFails ==
    /\ \/ Bank2Fails("rb_erase", "erase", "key1")
       \/ \E k \in {"program", "qspi"} : Bank2Fails("rb_prog", k, "key1")
    /\ req' = 0 /\ UNCHANGED ota

RollbackMeta == CallMetadata_Write("rb_meta", Restored(Metadata_Read), "rolledback")

\* The result of the write is not looked at.
RollbackDone ==
    /\ MwReturn("rolledback", "key1")
    /\ req' = 2 /\ UNCHANGED ota

Boot_DoRollback == RollbackCheck \/ RollbackErase \/ RollbackProg \/ RollbackFails

Boot_Metadata_Step ==
    \/ BootEmpty \/ BootPending \/ BootPendingDone
    \/ BootTestingOther \/ BootTestingIwdg \/ BootConfirmed
    \/ RollbackMeta \/ RollbackDone

\* Mutant: the return codes of Boot_Metadata_Step are swapped.
MutGuardConfirmed(r) == r = 2

\* Iwdg_Enable is called before the jump.
NeedsWatchdog(r) == r = 1

\* KEY1, or nothing to run: the menu.  Otherwise the App, which JumpToApp
\* enters without looking at Bank2.
MainMenu ==
    /\ pc = "key1"
    /\ pc' = "menu" /\ req' = 0
    /\ UNCHANGED <<flashVars, iwdgFlag, i, callVars, ota, iwdg, histVars, mishaps, wrong>>

MainJump ==
    /\ pc = "key1" /\ req # 0
    /\ iwdg' = NeedsWatchdog(req)
    /\ pc' = "app"
    /\ UNCHANGED <<flashVars, iwdgFlag, i, callVars, req, ota, histVars, mishaps, wrong>>

-----------------------------------------------------------------------------
(* The menu and the flash operations behind it                             *)

\* The operator's rule: overwrite the backup only from a working image that
\* is not on trial, overwrite Bank2 only from a working backup.
Holds(region) == \E v \in working : Intact(region, v)
OnTrial == Metadata_Read.state \in {"PENDING", "TESTING"}
MayBackup == working # {} => Holds(bank2) /\ ~OnTrial
MayRestore == Holds(backup)

\* The operator overwrites flash, keeping to the rule or not.
OperatorDoes(rule) ==
    /\ Careful => rule
    /\ wrong' = wrong \cup (IF rule THEN {} ELSE {"wrong"})

\* The operator picks an operation that starts at next.
MenuGoes(next) ==
    /\ pc = "menu"
    /\ pc' = next
    /\ UNCHANGED <<flashVars, iwdgFlag, i, callVars, req, iwdg, histVars, mishaps>>

\* Key 2, the download and OTA_Poll's checks, up to OTA_STATE_CONFIRM.
MenuStage ==
    /\ ota = None
    /\ MenuGoes("menu") /\ \E v \in Images : ota' = v
    /\ UNCHANGED wrong

MenuCancel == ota # None /\ MenuGoes("menu") /\ ota' = None /\ UNCHANGED wrong

MenuWrite ==
    /\ ota # None /\ OperatorDoes(MayBackup)
    /\ MenuGoes("fw_bkerase") /\ UNCHANGED ota

MenuBackup ==
    /\ OperatorDoes(MayBackup)
    /\ \/ MayReadData(bank2[0]) /\ MenuGoes("bk_erase")
       \/ MayReadBlank(bank2[0]) /\ MenuGoes("menu")
    /\ UNCHANGED ota

MenuRestore ==
    /\ OperatorDoes(MayRestore)
    /\ \/ MayReadData(backup[0]) /\ MenuGoes("rs_erase")
       \/ MayReadBlank(backup[0]) /\ MenuGoes("menu")
    /\ UNCHANGED ota

MenuRun == MenuGoes("app") /\ UNCHANGED <<ota, wrong>>

MenuReboot ==
    /\ pc = "menu" /\ Reset("sft")
    /\ UNCHANGED <<flashVars, working, mishaps, wrong>>

\* Mutants: the copy loop stops one unit short, or copies the size of the new
\* image.
MutCopyShort == NSec - 1
MutCopyNewSize == Units[ota]

\* OTA_Flash_Write, step 1: the whole of Bank2 to the backup area.
BackupUnits == NSec
BackedUp(m) == Meta(m.state, m.cur, m.cur)

FwBackupErase == EraseBackup("fw_bkerase", NSec, "fw_bkcopy")
FwBackupCopy == CopyToBackup("fw_bkcopy", BackupUnits, "fw_bakmeta")
FwBackupMeta == CallMetadata_Write("fw_bakmeta", BackedUp(Metadata_Read), "fw_bak")
\* The result of the write is not looked at.
FwBackupDone == MwReturn("fw_bak", "fw_erase") /\ UNCHANGED <<req, ota>>

\* Mutants: the sector count is rounded one too high, or one too low.
MutSectorsHigh(v) == Units[v] + 1
MutSectorsLow(v) == Units[v] - 1

\* Step 2: the sectors the image needs are erased, then programmed.
FwSectors(v) == Units[v]
FwErase == EraseBank2("fw_erase", FwSectors(ota), "fw_prog")
FwProg == ProgBank2("fw_prog", Units[ota], "fw_pendmeta", ota)

\* Step 3: PENDING_UPDATE, and the caller resets.
FwPendMeta ==
    CallMetadata_Write("fw_pendmeta", Meta("PENDING", ota, Metadata_Read.bak), "fw_pend")
FwDone ==
    /\ pc = "mw_ret" /\ cont = "fw_pend" /\ rc = 0
    /\ Reset("sft")
    /\ UNCHANGED <<flashVars, working, mishaps, wrong>>

\* Any failure: the caller stops the server and forgets the staged image.
FwFails ==
    /\ \/ \E here \in {"fw_bkerase", "fw_bkcopy"} : BackupFails(here, "menu")
       \/ Bank2Fails("fw_erase", "erase", "menu")
       \/ \E k \in {"program", "qspi"} : Bank2Fails("fw_prog", k, "menu")
       \/ rc = -1 /\ MwReturn("fw_pend", "menu")
    /\ ota' = None /\ UNCHANGED req

OTA_Flash_Write ==
    \/ FwBackupErase \/ FwBackupCopy \/ FwBackupMeta \/ FwBackupDone
    \/ FwErase \/ FwProg \/ FwPendMeta \/ FwDone \/ FwFails

BkErase == EraseBackup("bk_erase", NSec, "bk_copy")
BkCopy == CopyToBackup("bk_copy", NSec, "bk_meta")
BkMeta == CallMetadata_Write("bk_meta", BackedUp(Metadata_Read), "bk")
BkEnds ==
    /\ \/ MwReturn("bk", "menu")
       \/ \E here \in {"bk_erase", "bk_copy"} : BackupFails(here, "menu")
    /\ UNCHANGED <<req, ota>>

Backup_SlotA == BkErase \/ BkCopy \/ BkMeta \/ BkEnds

RsErase == EraseBank2("rs_erase", NSec, "rs_prog")
RsProg == ProgBank2("rs_prog", NSec, "rs_meta", backup[i])
RsMeta == CallMetadata_Write("rs_meta", Restored(Metadata_Read), "rs")
RsEnds ==
    /\ \/ MwReturn("rs", "menu")
       \/ Bank2Fails("rs_erase", "erase", "menu")
       \/ \E k \in {"program", "qspi"} : Bank2Fails("rs_prog", k, "menu")
    /\ UNCHANGED <<req, ota>>

Restore_SlotA == RsErase \/ RsProg \/ RsMeta \/ RsEnds

Menu ==
    \/ MenuStage \/ MenuCancel \/ MenuWrite \/ MenuBackup \/ MenuRestore
    \/ MenuRun \/ MenuReboot

-----------------------------------------------------------------------------
(* The environment: the App, the watchdog, power and the reset button      *)

\* An App on trial that finds itself healthy.
AppConfirm ==
    /\ Complete(bank2) /\ bank2[0] \in Confirming
    /\ Metadata_Read.state = "TESTING"
    /\ CallMetadata_Write("app", Meta("CONFIRMED", Metadata_Read.cur, Metadata_Read.bak), "app")
AppConfirmDone == MwReturn("app", "app") /\ UNCHANGED <<req, ota>>

\* A broken App, or whatever runs when Bank2 holds no complete image.
AppHang ==
    /\ pc = "app"
    /\ ~Complete(bank2) \/ bank2[0] \in Hanging
    /\ pc' = "hung"
    /\ UNCHANGED <<flashVars, iwdgFlag, i, callVars, req, ota, iwdg, histVars, mishaps, wrong>>

IwdgReset ==
    /\ pc = "hung" /\ iwdg
    /\ Reset("iwdg")
    /\ UNCHANGED <<flashVars, working, mishaps, wrong>>

\* A flash operation is in progress.
InFlash == pc \in BackupPcs \cup Bank2Pcs \cup CallPcs \cup MetaPcs

\* Loss of power or the reset button; with "midop" also in the middle of a
\* flash operation, which damages the unit in flight.
ExternalReset(kind) ==
    /\ pc \in IdlePcs \/ "midop" \in Faults
    /\ mishaps < MaxMishaps /\ mishaps' = mishaps + 1
    /\ wrong' = wrong \cup (IF InFlash THEN {"wrong"} ELSE {})
    /\ bank2' \in IF pc \in Bank2Pcs THEN Damage(bank2) ELSE {bank2}
    /\ backup' \in IF pc \in BackupPcs THEN Damage(backup) ELSE {backup}
    /\ meta' \in IF pc = "mw_erase" THEN {meta, Erased} ELSE {meta}
    /\ Reset(kind)
    /\ UNCHANGED working

Environment ==
    \/ AppConfirm \/ AppConfirmDone \/ AppHang \/ IwdgReset
    \/ \E kind \in {"por", "pin"} : ExternalReset(kind)

-----------------------------------------------------------------------------

\* A device as it leaves production: no metadata, and either nothing in Bank2
\* or an image written by a programmer.
Init ==
    /\ meta = Erased
    /\ backup = [s \in Sectors |-> Blank]
    /\ \/ bank2 = [s \in Sectors |-> Blank] /\ working = {}
       \/ \E v \in Images :
            /\ bank2 = [s \in Sectors |-> IF s < Units[v] THEN v ELSE Blank]
            /\ working = {v}
    /\ iwdgFlag = FALSE /\ lastReset = "por"
    /\ pc = "boot" /\ i = 0
    /\ ram = Defaults /\ cont = "none" /\ rc = 0
    /\ req = 0 /\ ota = None /\ iwdg = FALSE
    /\ mishaps = 0 /\ wrong = {}

Boot == Boot_Metadata_Step \/ Boot_DoRollback \/ MainMenu \/ MainJump

Next ==
    \/ Boot \/ Metadata_Write
    \/ Menu \/ OTA_Flash_Write \/ Backup_SlotA \/ Restore_SlotA
    \/ Environment

Spec == Init /\ [][Next]_vars

\* The processor keeps executing, the watchdog counts whenever it is started,
\* and an App that is broken does stop in the end.
Fairness ==
    /\ WF_vars(Boot \/ Metadata_Write)
    /\ WF_vars(AppConfirmDone)
    /\ WF_vars(IwdgReset)
    /\ WF_vars(AppHang)

FairSpec == Spec /\ Fairness

-----------------------------------------------------------------------------
(* Properties                                                              *)

\* Pcs at which no flash operation is in progress.
Resting == pc \in IdlePcs \cup {"boot", "key1"}
State == Metadata_Read.state

\* Once an image has worked on the device, Bank2 or the backup area holds a
\* complete working image: whatever step of OTA_Flash_Write, Backup_SlotA,
\* Restore_SlotA or Boot_DoRollback fails or is cut short by a reset.
GoodCopyExists == working # {} => Holds(bank2) \/ Holds(backup)

\* When a rollback or a restore records its result in the metadata, Bank2 is
\* sector for sector what the backup area holds: the erase loop covers what
\* the write-back loop programs (menu.c, Boot_DoRollback and Restore_SlotA).
RestoredExactly ==
    pc = "mw_erase" /\ cont \in {"rolledback", "rs"} => bank2 = backup

\* As long as the operator keeps to the rule and no flash operation fails or is
\* cut short, the boot path starts an App without a watchdog, state CONFIRMED,
\* only when Bank2 holds a complete image that has worked before.
ConfirmedWorks ==
    wrong = {} /\ Resting /\ State = "CONFIRMED" /\ working # {} =>
        Complete(bank2) /\ bank2[0] \in working

\* Under the same condition, with no operation in progress, the labels of the
\* metadata name what Bank2 and the backup area hold (ota.c 425-435, menu.c
\* 142-152 and 256-264).
LabelsDescribeFlash ==
    wrong = {} /\ Resting =>
        /\ Metadata_Read.cur # None => Intact(bank2, Metadata_Read.cur)
        /\ Metadata_Read.bak # None => Intact(backup, Metadata_Read.bak)

\* A reader of the metadata that finds PENDING_UPDATE finds all of the new
\* image in Bank2: OTA_Flash_Write publishes the state last.
PendingMeansComplete == State = "PENDING" => Intact(bank2, meta.cur)

\* An App that boot starts in state TESTING runs under the watchdog
\* (Boot_Metadata_Step returns 1 and main calls Iwdg_Enable).
TrialGuarded ==
    pc \in {"app", "hung"} /\ req # 0 /\ State = "TESTING" => iwdg

\* An App that hangs under the watchdog while the backup area holds a working
\* image is replaced by a working image, or the device ends in the menu; also
\* when the rollback itself is interrupted or fails.
HungTrialRecovers ==
    (pc = "hung" /\ iwdg /\ Holds(backup)) ~>
        (pc = "menu" \/ (pc = "app" /\ Holds(bank2)))

\* A rollback puts back an image that has worked, not merely whatever the
\* backup area holds ("it automatically restores the last working one").
RollbackRestoresWorking ==
    pc = "mw_erase" /\ cont = "rolledback" /\ working # {} => Holds(bank2)

\* What boot starts is a complete image, or the watchdog will end it
\* ("restores the previous working firmware (no brick risk)").
IncompleteGuarded ==
    pc \in {"app", "hung"} /\ req # 0 /\ ~Complete(bank2) => iwdg

\* A rollback answers a watchdog reset of the App on trial
\* ("App reset by watchdog -> rollback").
RollbackOnlyAfterIwdg == pc = "rb_check" => lastReset = "iwdg"

=============================================================================
