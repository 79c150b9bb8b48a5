------------------------------ MODULE QspiFlash ------------------------------
(***************************************************************************)
(* The driver of the external NOR flash (bsp_qspi_flash.c) under the three *)
(* jobs that write to it: staging a download (OTA_Poll), the backup before *)
(* an update (OTA_Flash_Write, step 1) and the manual backup               *)
(* (Backup_SlotA).  Every HAL call may fail or time out, early ones        *)
(* included (HAL_GetTick jumps), while the chip goes on with what it has   *)
(* been told.                                                              *)
(*                                                                         *)
(* The chip and the HAL are modelled from their use: a busy chip ignores   *)
(* all commands but the status read and the reset; it ignores an erase or  *)
(* a program without write enable; a call that fails leaves the controller *)
(* in an error state until Abort or Init ("gets stuck in Error/Busy        *)
(* state", bsp_qspi_flash.c 293).                                          *)
(*                                                                         *)
(* A cell is what one page program writes.  Its content is told apart by   *)
(* comparison with what the job in progress is to put there.               *)
(***************************************************************************)
EXTENDS Integers, FiniteSets

CONSTANTS
    Blocks,        \* 64 KB blocks of an area
    Cells,         \* page programs of an area
    BlockOf,       \* the block of a cell
    Attempts,      \* 3: per block, and per chunk of the backup
    EraseReset, WriteReset   \* re-init after so many blocks (8), cells (128 KB)

ASSUME QspiAssumption ==
    /\ Blocks \in Nat \ {0} /\ Cells \in Nat \ {0} /\ Attempts \in Nat \ {0}
    /\ EraseReset \in Nat \ {0} /\ WriteReset \in Nat \ {0}
    /\ BlockOf \in [0..(Cells - 1) -> 0..(Blocks - 1)]

VARIABLES
    mem,     \* mem[a][c]: "ff", "part" (of the data), "data", "old" or "mess"
    busy,    \* what the chip is doing: [op, area, i, d], or Nothing
    wel,     \* the write enable latch
    ctl,     \* the controller: "ready" or "error"
    job, area, phase,   \* who runs, or ran last; on which area; erasing or writing
    step,    \* the next call
    at,      \* the block or cell
    tries,   \* attempts made at it
    round,   \* 1, or 2 after a failure (QSPI_Erase_Blocks, OTA_Poll)
    done,    \* the result of the last job
    blind    \* a recovery failed unnoticed, or the chip was busy at the start

vars == <<mem, busy, wel, ctl, job, area, phase, step, at, tries, round, done, blind>>

Areas == {"staging", "backup"}
Jobs == {"OTA_Poll", "OTA_Flash_Write", "Backup_SlotA"}
Contents == {"ff", "part", "data", "old", "mess"}
Op(op, a, i, d) == [op |-> op, area |-> a, i |-> i, d |-> d]
Nothing == Op("none", "staging", 0, "ff")
Steps == {"menu", "enable", "command", "ready", "retry", "readback", "init_block",
          "init_next", "init_write", "init_again", "init_cell", "init_unit", "init_end"}

TypeOK ==
    /\ mem \in [Areas -> [0..(Cells - 1) -> Contents]]
    /\ busy \in [op : {"none", "erase", "program"}, area : Areas, i : Nat,
                 d : {"ff", "part", "data", "old"}]
    /\ busy.i < IF busy.op = "program" THEN Cells ELSE Blocks
    /\ wel \in BOOLEAN /\ ctl \in {"ready", "error"}
    /\ job \in Jobs /\ area \in Areas /\ phase \in {"erase", "write"}
    /\ step \in Steps /\ at \in Nat /\ tries \in 0..Attempts /\ round \in {1, 2}
    /\ done \in {"none", "ok", "failed"} /\ blind \in BOOLEAN

-----------------------------------------------------------------------------
(* The chip                                                                *)

\* What a program with d makes of a cell: bits only go from 1 to 0.
Programmed(was, d) ==
    IF was = "ff" THEN d
    ELSE IF {was, d} = {"part"} THEN "part"
    ELSE IF {was, d} \subseteq {"part", "data"} THEN "data" ELSE "mess"

\* A cell of its area once the operation o is complete (whole) or cut short by
\* a reset.
Changed(o, whole, c, was) ==
    IF o.op = "erase" /\ BlockOf[c] = o.i THEN IF whole THEN "ff" ELSE "mess"
    ELSE IF o.op = "program" /\ c = o.i
         THEN Programmed(was, IF o.d = "data" /\ ~whole THEN "part" ELSE o.d)
    ELSE was

Effect(o, whole) ==
    [a \in Areas |-> [c \in 0..(Cells - 1) |->
        IF a = o.area THEN Changed(o, whole, c, mem[a][c]) ELSE mem[a][c]]]

\* The chip finishes.
Finish ==
    /\ busy # Nothing
    /\ mem' = Effect(busy, TRUE) /\ busy' = Nothing /\ wel' = FALSE
    /\ UNCHANGED <<ctl, job, area, phase, step, at, tries, round, done, blind>>

\* A command arrives.
Accept(o) ==
    IF busy = Nothing /\ wel THEN busy' = o /\ UNCHANGED wel ELSE UNCHANGED <<busy, wel>>

-----------------------------------------------------------------------------
(* The jobs, between the calls of the driver                               *)

Goto(s, i, n, g) == step' = s /\ at' = i /\ tries' = n /\ round' = g
Stay == UNCHANGED <<job, area, phase, done>>
Return(result) ==
    /\ done' = result /\ Goto("menu", 0, 0, 1) /\ UNCHANGED <<job, area, phase>>
Write(g) ==
    /\ phase' = "write" /\ Goto("enable", 0, 0, g) /\ UNCHANGED <<job, area, done>>

Aged(was) == IF was = "data" THEN "old" ELSE IF was = "part" THEN "mess" ELSE was

\* The cells of the area are compared with the new data from now on.
Start(j) ==
    LET a == IF j = "OTA_Poll" THEN "staging" ELSE "backup" IN
    /\ step = "menu"
    /\ job' = j /\ area' = a /\ phase' = "erase" /\ done' = "none"
    /\ mem' = [mem EXCEPT ![a] = [c \in 0..(Cells - 1) |-> Aged(mem[a][c])]]
    /\ busy' = IF busy.op = "program" THEN Op("program", busy.area, busy.i, "old") ELSE busy
    /\ blind' = (busy # Nothing)
    /\ Goto("enable", 0, 0, 1)
    /\ UNCHANGED <<wel, ctl>>

\* QSPI_Erase_Blocks returns: OTA_Poll goes on in any case.
Erased(ok) ==
    IF job = "OTA_Poll" THEN Goto("init_write", 0, 0, 1) /\ Stay
    ELSE IF ok THEN Write(1) ELSE Return("failed")

\* Mutant: one block too many.
MutNextBlock == IF at < Blocks THEN Goto("enable", at + 1, 0, 1) /\ Stay ELSE Erased(TRUE)

NextBlock == IF at + 1 < Blocks THEN Goto("enable", at + 1, 0, 1) /\ Stay ELSE Erased(TRUE)
BlockErased ==
    IF (at + 1) % EraseReset = 0 THEN Goto("init_next", at, 0, round) /\ Stay ELSE NextBlock
BlockFailed == IF round = 2 THEN Erased(FALSE) ELSE Goto("init_block", at, 0, 1) /\ Stay

\* BSP_QSPI_Write is through with a cell.
CellWritten ==
    IF at + 1 = Cells
    THEN IF job = "OTA_Poll" THEN Goto("readback", 0, 0, round) /\ Stay ELSE Return("ok")
    ELSE /\ Stay
         /\ Goto(IF job = "OTA_Flash_Write" /\ (at + 1) % WriteReset = 0 THEN "init_unit"
                 ELSE "enable", at + 1, 0, round)

\* Mutant: the chunk is given up without a re-init.
MutCellFailed ==
    \/ job = "OTA_Poll" /\ round = 1 /\ Goto("init_again", 0, 0, 2) /\ Stay
    \/ job = "OTA_Poll" /\ round = 2 /\ Return("failed")
    \/ job = "OTA_Flash_Write" /\ tries + 1 < Attempts
       /\ Goto("init_cell", at, tries + 1, round) /\ Stay
    \/ job = "OTA_Flash_Write" /\ tries + 1 = Attempts /\ Return("failed")
    \/ job = "Backup_SlotA" /\ Return("failed")

\* BSP_QSPI_Write fails: OTA_Poll writes all again, once; OTA_Flash_Write
\* tries the chunk again; Backup_SlotA gives up.
CellFailed ==
    \/ job = "OTA_Poll" /\ round = 1 /\ Goto("init_again", 0, 0, 2) /\ Stay
    \/ job = "OTA_Poll" /\ round = 2 /\ Return("failed")
    \/ job = "OTA_Flash_Write" /\ Goto("init_cell", at, tries + 1, round) /\ Stay
    \/ job = "Backup_SlotA" /\ Return("failed")

\* What follows a re-init: only OTA_Poll looks at its result, after the erase.
Reinited(ok) ==
    \/ step = "init_block" /\ Goto("enable", at, 0, 2) /\ Stay
    \/ step = "init_next" /\ NextBlock
    \/ step = "init_write" /\ ok /\ Write(1)
    \/ step = "init_write" /\ ~ok /\ Return("failed")
    \/ step = "init_again" /\ Write(2)
    \/ step = "init_unit" /\ Goto("enable", at, 0, round) /\ Stay
    \/ step = "init_cell" /\ tries < Attempts /\ Goto("enable", at, tries, round) /\ Stay
    \/ step = "init_cell" /\ tries = Attempts /\ Goto("init_end", at, 0, round) /\ Stay
    \/ step = "init_end" /\ Return("failed")

-----------------------------------------------------------------------------
(* The driver                                                              *)

\* A call fails: Erase_Block64K goes to its retry label, Write returns.
Failed ==
    /\ ctl' = "error"
    /\ IF phase = "erase" THEN Goto("retry", at, tries, round) /\ Stay ELSE CellFailed

\* QSPI_WriteEnable: the command, and the poll for the latch.
QSPI_WriteEnable ==
    LET set == wel \/ busy = Nothing IN
    /\ step = "enable"
    /\ \/ ctl = "ready" /\ set /\ wel' = TRUE /\ Goto("command", at, tries, round)
          /\ Stay /\ UNCHANGED ctl
       \/ Failed /\ wel' \in IF ctl = "ready" THEN {wel, set} ELSE {wel}
    /\ UNCHANGED <<mem, busy, blind>>

\* The erase or the page program; one that fails may have reached the chip,
\* with a part of the data.
Command ==
    /\ step = "command"
    /\ \/ /\ ctl = "ready" /\ Goto("ready", at, tries, round) /\ Stay /\ UNCHANGED ctl
          /\ Accept(IF phase = "erase" THEN Op("erase", area, at, "ff")
                    ELSE Op("program", area, at, "data"))
       \/ /\ Failed
          /\ \/ UNCHANGED <<busy, wel>>
             \/ ctl = "ready" /\ \E d \in {"part", "data"} :
                   Accept(IF phase = "erase" THEN Op("erase", area, at, "ff")
                          ELSE Op("program", area, at, d))
    /\ UNCHANGED <<mem, blind>>

\* Mutant: the status is read once and not waited for.
MutReady == TRUE

\* The poll for WIP = 0.
Ready == busy = Nothing

\* QSPI_AutoPollingMemReady
QSPI_AutoPollingMemReady ==
    /\ step = "ready"
    /\ \/ ctl = "ready" /\ Ready /\ UNCHANGED ctl
          /\ IF phase = "erase" THEN BlockErased ELSE CellWritten
       \/ Failed
    /\ UNCHANGED <<mem, busy, wel, blind>>

\* Mutant: the attempts are not counted.
MutRetry ==
    /\ step = "retry"
    /\ IF tries + 1 < Attempts THEN Goto("enable", at, tries, round) /\ Stay ELSE BlockFailed
    /\ \/ ctl' = "ready" /\ UNCHANGED blind
       \/ ctl' = "error" /\ blind' = TRUE
    /\ UNCHANGED <<mem, busy, wel>>

\* The end of an attempt of Erase_Block64K: Abort and clear the flags.
Retry ==
    /\ step = "retry"
    /\ IF tries + 1 < Attempts THEN Goto("enable", at, tries + 1, round) /\ Stay ELSE BlockFailed
    /\ \/ ctl' = "ready" /\ UNCHANGED blind
       \/ ctl' = "error" /\ blind' = TRUE
    /\ UNCHANGED <<mem, busy, wel>>

\* BSP_QSPI_Init: fails before the reset of the chip, or resets it, which cuts
\* short what it is doing, and may fail afterwards.
BSP_QSPI_Init ==
    /\ step \in {"init_block", "init_next", "init_write", "init_again", "init_cell",
                 "init_unit", "init_end"}
    /\ \E ok \in BOOLEAN :
          /\ Reinited(ok)
          /\ blind' = (blind \/ ~ok) /\ ctl' \in IF ok THEN {"ready"} ELSE {"ready", "error"}
          /\ \/ mem' = Effect(busy, FALSE) /\ busy' = Nothing /\ wel' = FALSE
             \/ ~ok /\ UNCHANGED <<mem, busy, wel>>

Whole(a) == \A c \in 0..(Cells - 1) : mem[a][c] = "data"

\* Mutant: the CRC read back is not compared.
MutMatches == TRUE

\* The CRC of what is read back is the expected one.
Matches == busy = Nothing /\ Whole("staging")

\* OTA_Poll reads the area back.
Readback ==
    /\ step = "readback"
    /\ \/ ctl = "ready" /\ Return(IF Matches THEN "ok" ELSE "failed") /\ UNCHANGED ctl
       \/ ctl' = "error" /\ Return("failed")
    /\ UNCHANGED <<mem, busy, wel, blind>>

\* interactive_mode goes on when the first BSP_QSPI_Init fails.
Init ==
    /\ mem \in [Areas -> {[c \in 0..(Cells - 1) |-> "old"]}]
    /\ busy = Nothing /\ wel = FALSE /\ ctl \in {"ready", "error"}
    /\ job = "OTA_Poll" /\ area = "staging" /\ phase = "erase" /\ step = "menu"
    /\ at = 0 /\ tries = 0 /\ round = 1 /\ done = "none" /\ blind = FALSE

Call == QSPI_WriteEnable \/ Command \/ QSPI_AutoPollingMemReady \/ Retry \/ BSP_QSPI_Init \/ Readback
Next == (\E j \in Jobs : Start(j)) \/ Call \/ Finish

\* Every call of the HAL returns: it has a timeout.
Spec == Init /\ [][Next]_vars /\ WF_vars(Call)

-----------------------------------------------------------------------------
(* Properties                                                              *)

Returned(result) == step = "menu" /\ done = result

\* Erase failures that OTA_Poll only warns about, and everything else that
\* goes wrong, do not get past the readback ("readback CRC will catch it",
\* ota.c 307).
StagedIsWhole == Returned("ok") /\ area = "staging" => Whole("staging")

\* The backups are not read back, so the results of the driver have to be
\* true: a backup reported as done is complete, if every recovery on the way
\* did its work and the chip was idle at the start.
BackupIsWhole == Returned("ok") /\ area = "backup" /\ ~blind => Whole("backup")

\* "ensure print/menu return not affected by sick QSPI" (ota.c 419): a failed
\* update leaves a controller that works.
MenuNotSick ==
    Returned("failed") /\ job = "OTA_Flash_Write" /\ ~blind => ctl = "ready"

\* Every job comes back to the menu, whatever fails.
JobEnds == step # "menu" ~> step = "menu"

=============================================================================
