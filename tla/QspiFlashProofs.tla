-------------------------- MODULE QspiFlashProofs ---------------------------
(***************************************************************************)
(* A backup that is reported as done is complete, for every number of      *)
(* blocks, cells and attempts (BackupIsWhole).  Its result alone says      *)
(* nothing of the cells on the way, so the invariant says how far the      *)
(* erase and the write are, and what the chip may be doing meanwhile.      *)
(* That every job ends rests on a measure that each call of the HAL        *)
(* lowers (JobsWindDown).                                                  *)
(***************************************************************************)
EXTENDS QspiFlash, WellFoundedInduction, TLAPS

Cell == 0..(Cells - 1)
EraseSteps == {"enable", "command", "ready", "retry", "init_block", "init_next", "init_write"}
WriteSteps == {"enable", "command", "ready", "init_again", "init_cell", "init_unit", "init_end",
               "readback"}

\* Where the jobs are.
Place ==
    /\ area = (IF job = "OTA_Poll" THEN "staging" ELSE "backup")
    /\ step = "menu" \/ step \in (IF phase = "erase" THEN EraseSteps ELSE WriteSteps)
    /\ step \in {"init_write", "init_again", "readback"} => job = "OTA_Poll"
    /\ at < (IF phase = "erase" /\ step # "menu" THEN Blocks ELSE Cells)
    /\ step = "menu" => at = 0
    /\ step = "init_cell" \/ tries < Attempts

\* A success leaves the chip idle.
OkIdle == Returned("ok") => busy = Nothing

\* The block at hand is erased.
AtErased == \A c \in Cell : BlockOf[c] = at => mem["backup"][c] = "ff"

\* While a backup area is erased: the blocks before this one are.
ErasedSoFar ==
    /\ \A c \in Cell : BlockOf[c] < at => mem["backup"][c] = "ff"
    /\ busy = Nothing \/ busy = Op("erase", "backup", at, "ff")
    /\ step = "command" => wel \/ AtErased
    /\ step = "ready" => busy # Nothing \/ AtErased
    /\ step = "init_next" => busy = Nothing /\ AtErased

\* While it is written: the cells before this one are, the ones after it are
\* still erased, and a program is started on an idle chip only.
WrittenSoFar ==
    /\ \A c \in Cell : c < at => mem["backup"][c] = "data"
    /\ \A c \in Cell : c > at => mem["backup"][c] = "ff"
    /\ mem["backup"][at] \in {"ff", "part", "data"}
    /\ busy = Nothing \/ busy = Op("program", "backup", at, "part")
       \/ busy = Op("program", "backup", at, "data")
    /\ step \in {"enable", "init_unit"} => busy = Nothing
    /\ step = "command" => busy = Nothing /\ wel
    /\ step = "ready" => busy = Op("program", "backup", at, "data")
                         \/ (busy = Nothing /\ mem["backup"][at] = "data")

Progress ==
    step # "menu" /\ area = "backup" /\ ~blind =>
        IF phase = "erase" THEN ErasedSoFar ELSE WrittenSoFar

-----------------------------------------------------------------------------
(* The control                                                             *)

\* The types of what the driver and the jobs keep.
ControlTypes ==
    /\ job \in Jobs /\ area \in Areas /\ phase \in {"erase", "write"}
    /\ step \in Steps /\ at \in Nat /\ tries \in 0..Attempts /\ round \in {1, 2}
    /\ done \in {"none", "ok", "failed"}
Control == ControlTypes /\ Place

\* QSPI_Erase_Blocks and the jobs after a block stay in place.
LEMMA AfterBlock ==
    ASSUME Control, phase = "erase", step # "menu",
           BlockErased \/ BlockFailed \/ NextBlock
    PROVE  Control'
<1> USE QspiAssumption
<1>1. ASSUME Erased(TRUE) \/ Erased(FALSE) PROVE Control'
  BY <1>1, SMT DEF Erased, Control, ControlTypes, Place, Goto, Stay, Write, Return, Jobs, Areas,
     Steps, EraseSteps, WriteSteps
<1>2. ASSUME NextBlock PROVE Control'
  <2>1. CASE ~(at + 1 < Blocks) BY <1>1, <1>2, <2>1, Zenon DEF NextBlock
  <2>2. CASE at + 1 < Blocks
    <3>1. Goto("enable", at + 1, 0, 1) /\ Stay BY <1>2, <2>2, Zenon DEF NextBlock
    <3>2. QED BY <2>2, <3>1, SMT DEF Control, ControlTypes, Place, Goto, Stay, Jobs, Areas,
     Steps, EraseSteps, WriteSteps
  <2>3. QED BY <2>1, <2>2
<1>3. CASE BlockErased
  BY <1>2, <1>3, SMT DEF BlockErased, Control, ControlTypes, Place, Goto, Stay, Jobs, Areas,
     Steps, EraseSteps, WriteSteps
<1>4. CASE BlockFailed
  <2>1. CASE round = 2 BY <1>1, <1>4, <2>1, Zenon DEF BlockFailed
  <2>2. CASE round # 2
    <3>1. Goto("init_block", at, 0, 1) /\ Stay BY <1>4, <2>2, Zenon DEF BlockFailed
    <3>2. QED BY <3>1, SMT DEF Control, ControlTypes, Place, Goto, Stay, Jobs, Areas,
     Steps, EraseSteps, WriteSteps
  <2>3. QED BY <2>1, <2>2
<1>5. QED BY <1>2, <1>3, <1>4

\* So do the jobs after a cell.
LEMMA AfterCell ==
    ASSUME Control, phase = "write", step \in {"enable", "command", "ready"},
           CellWritten \/ CellFailed
    PROVE  Control'
<1> USE QspiAssumption
<1>1. CASE CellWritten
  BY <1>1, SMT DEF CellWritten, Control, ControlTypes, Place, Goto, Stay, Return, Jobs, Areas,
     Steps, EraseSteps, WriteSteps
<1>2. CASE CellFailed
  BY <1>2, SMT DEF CellFailed, Control, ControlTypes, Place, Goto, Stay, Return, Jobs, Areas,
     Steps, EraseSteps, WriteSteps
<1>3. QED BY <1>1, <1>2

\* And after a call that failed.
LEMMA AfterFailure ==
    ASSUME Control, step \in {"enable", "command", "ready"}, Failed PROVE Control'
<1> USE QspiAssumption
<1>1. CASE phase = "erase"
  BY <1>1, SMT DEF Failed, Control, ControlTypes, Place, Goto, Stay, Jobs, Areas,
     Steps, EraseSteps, WriteSteps
<1>2. CASE phase # "erase"
  <2>1. phase = "write" BY <1>2 DEF Control, ControlTypes
  <2>2. CellFailed BY <1>2 DEF Failed
  <2>3. QED BY <2>1, <2>2, AfterCell
<1>3. QED BY <1>1, <1>2

\* Every step of the driver and of the chip keeps the control in place.
LEMMA ControlStep ==
    ASSUME Control, [Next]_vars PROVE Control'
<1> USE QspiAssumption
<1>1. ASSUME NEW j \in Jobs, Start(j) PROVE Control'
  BY <1>1, SMT DEF Start, Control, ControlTypes, Place, Goto, Jobs, Areas, Steps, EraseSteps, WriteSteps
<1>2. CASE QSPI_WriteEnable
  <2>1. CASE Failed BY <1>2, <2>1, AfterFailure DEF QSPI_WriteEnable
  <2>2. CASE Goto("command", at, tries, round) /\ Stay
    BY <1>2, <2>2, SMT DEF QSPI_WriteEnable, Control, ControlTypes, Place, Goto, Stay, Jobs, Areas, Steps,
       EraseSteps, WriteSteps
  <2>3. QED BY <1>2, <2>1, <2>2 DEF QSPI_WriteEnable
<1>3. CASE Command
  <2>1. CASE Failed BY <1>3, <2>1, AfterFailure DEF Command
  <2>2. CASE Goto("ready", at, tries, round) /\ Stay
    BY <1>3, <2>2, SMT DEF Command, Control, ControlTypes, Place, Goto, Stay, Jobs, Areas, Steps,
       EraseSteps, WriteSteps
  <2>3. QED BY <1>3, <2>1, <2>2 DEF Command
<1>4. CASE QSPI_AutoPollingMemReady
  <2>1. CASE Failed BY <1>4, <2>1, AfterFailure DEF QSPI_AutoPollingMemReady
  <2>2. CASE phase = "erase" /\ BlockErased
    BY <1>4, <2>2, AfterBlock DEF QSPI_AutoPollingMemReady
  <2>3. CASE phase # "erase" /\ CellWritten
    <3>1. phase = "write" BY <2>3 DEF Control, ControlTypes
    <3>2. QED BY <1>4, <2>3, <3>1, AfterCell DEF QSPI_AutoPollingMemReady
  <2>4. QED BY <1>4, <2>1, <2>2, <2>3 DEF QSPI_AutoPollingMemReady
<1>5. CASE Retry
  <2>1. phase = "erase" /\ step = "retry"
    BY <1>5, SMT DEF Retry, Control, ControlTypes, Place, EraseSteps, WriteSteps
  <2>2. CASE BlockFailed BY <2>1, <2>2, AfterBlock
  <2>3. CASE tries + 1 < Attempts /\ Goto("enable", at, tries + 1, round) /\ Stay
    BY <2>1, <2>3, SMT DEF Control, ControlTypes, Place, Goto, Stay, Jobs, Areas, Steps,
       EraseSteps, WriteSteps
  <2>4. QED BY <1>5, <2>2, <2>3 DEF Retry
<1>6. CASE BSP_QSPI_Init
  <2>1. PICK ok \in BOOLEAN : Reinited(ok) BY <1>6 DEF BSP_QSPI_Init
  <2>2. CASE step = "init_next" /\ NextBlock
    <3>1. phase = "erase" BY <2>2, SMT DEF Control, ControlTypes, Place, EraseSteps, WriteSteps
    <3>2. QED BY <2>2, <3>1, AfterBlock
  <2>3. CASE ~(step = "init_next" /\ NextBlock)
    BY <2>1, <2>3, SMT DEF Reinited, Control, ControlTypes, Place, Goto, Stay, Return, Write, Jobs, Areas,
       Steps, EraseSteps, WriteSteps
  <2>4. QED BY <2>2, <2>3
<1>7. CASE Readback
  BY <1>7, SMT DEF Readback, Control, ControlTypes, Place, Goto, Return, Jobs, Areas, Steps, EraseSteps,
     WriteSteps
<1>8. CASE Finish \/ UNCHANGED vars
  BY <1>8 DEF Finish, vars, Control, ControlTypes, Place
<1>9. QED BY <1>1, <1>2, <1>3, <1>4, <1>5, <1>6, <1>7, <1>8 DEF Next, Call

-----------------------------------------------------------------------------
(* The chip                                                                *)

BusyTypes ==
    /\ busy \in [op : {"none", "erase", "program"}, area : Areas, i : Nat,
                 d : {"ff", "part", "data", "old"}]
    /\ busy.i < IF busy.op = "program" THEN Cells ELSE Blocks
MemTypes == mem \in [Areas -> [Cell -> Contents]]
Flags == wel \in BOOLEAN /\ blind \in BOOLEAN /\ ctl \in {"ready", "error"}

\* An operation, complete or not, leaves contents (Effect).
LEMMA EffectTypes ==
    ASSUME MemTypes, BusyTypes, NEW w \in BOOLEAN PROVE Effect(busy, w) \in [Areas -> [Cell -> Contents]]
<1>1. ASSUME NEW a \in Areas, NEW c \in Cell
      PROVE  (IF a = busy.area THEN Changed(busy, w, c, mem[a][c]) ELSE mem[a][c]) \in Contents
  <2>1. mem[a][c] \in Contents BY <1>1 DEF MemTypes
  <2>2. busy.d \in Contents BY SMT DEF BusyTypes, Contents
  <2>3. ASSUME NEW d \in Contents PROVE Programmed(mem[a][c], d) \in Contents
    BY <2>1, <2>3, SMT DEF Programmed, Contents
  <2>4. "part" \in Contents /\ "ff" \in Contents /\ "mess" \in Contents BY DEF Contents
  <2>5. Changed(busy, w, c, mem[a][c]) \in Contents
    BY <2>1, <2>2, <2>3, <2>4, Zenon DEF Changed
  <2>6. QED BY <2>1, <2>5
<1>2. QED BY <1>1, Zenon DEF Effect, Cell

\* The chip at rest is in the type of its state (flash/bsp_qspi_flash.c,
\* QSPI_AutoPollingMemReady returns in that state).
LEMMA NothingTypes ==
    /\ Nothing \in [op : {"none", "erase", "program"}, area : Areas, i : Nat,
                    d : {"ff", "part", "data", "old"}]
    /\ Nothing.i < Blocks /\ Nothing.op = "none"
BY QspiAssumption, SMT DEF Nothing, Op, Areas

\* A command of the driver is within the area (Accept).
LEMMA AcceptTypes ==
    ASSUME BusyTypes, Control, step = "command", NEW d \in {"part", "data"},
           Accept(IF phase = "erase" THEN Op("erase", area, at, "ff") ELSE Op("program", area, at, d))
    PROVE  BusyTypes'
<1>1. CASE UNCHANGED busy BY <1>1 DEF BusyTypes
<1>2. CASE phase = "erase" /\ busy' = Op("erase", area, at, "ff")
  BY <1>2, SMT DEF BusyTypes, Control, ControlTypes, Place, Op
<1>3. CASE phase # "erase" /\ busy' = Op("program", area, at, d)
  BY <1>3, SMT DEF BusyTypes, Control, ControlTypes, Place, Op
<1>4. QED BY <1>1, <1>2, <1>3, Zenon DEF Accept

\* The types of the chip and of the flags are kept.
LEMMA ChipStep ==
    ASSUME Control, BusyTypes, MemTypes, Flags, [Next]_vars PROVE BusyTypes' /\ MemTypes' /\ Flags'
<1> USE QspiAssumption
<1>1. ASSUME NEW j \in Jobs, Start(j) PROVE BusyTypes' /\ MemTypes' /\ Flags'
  <2>1. BusyTypes'
    <3>1. CASE busy.op = "program"
      <4>1. busy' = Op("program", busy.area, busy.i, "old") BY <1>1, <3>1, Zenon DEF Start
      <4>2. QED BY <3>1, <4>1, SMT DEF BusyTypes, Op
    <3>2. CASE busy.op # "program" BY <1>1, <3>2, Zenon DEF Start, BusyTypes
    <3>3. QED BY <3>1, <3>2
  <2>2. PICK a \in Areas : mem' = [mem EXCEPT ![a] = [c \in 0..(Cells - 1) |-> Aged(mem[a][c])]]
    BY <1>1, Zenon DEF Start, Areas
  <2>3. \A w \in Contents : Aged(w) \in Contents BY SMT DEF Aged, Contents
  <2>4. [c \in 0..(Cells - 1) |-> Aged(mem[a][c])] \in [Cell -> Contents]
    BY <2>3 DEF MemTypes, Cell
  <2>5. MemTypes' BY <2>2, <2>4 DEF MemTypes, Cell
  <2>6. Flags' BY <1>1, Zenon DEF Start, Flags
  <2>7. QED BY <2>1, <2>5, <2>6
<1>2. CASE QSPI_WriteEnable
  <2>1. BusyTypes' /\ MemTypes' BY <1>2 DEF QSPI_WriteEnable, BusyTypes, MemTypes, Cell
  <2>2. wel' \in BOOLEAN BY <1>2, Zenon DEF QSPI_WriteEnable, Flags
  <2>3. blind' \in BOOLEAN BY <1>2, Zenon DEF QSPI_WriteEnable, Flags
  <2>4. ctl' \in {"ready", "error"} BY <1>2, Zenon DEF QSPI_WriteEnable, Flags, Failed
  <2>5. QED BY <2>1, <2>2, <2>3, <2>4 DEF Flags
<1>3. CASE Command
  <2>1. CASE UNCHANGED <<busy, wel>> BY <1>3, <2>1, Zenon DEF Command, BusyTypes, MemTypes, Cell, Flags, Failed
  <2>2. CASE \E d \in {"part", "data"} :
          Accept(IF phase = "erase" THEN Op("erase", area, at, "ff") ELSE Op("program", area, at, d))
    <3>1. BusyTypes' BY <1>3, <2>2, AcceptTypes DEF Command
    <3>2. wel' \in BOOLEAN BY <2>2, Zenon DEF Accept, Flags
    <3>3. MemTypes' /\ blind' \in BOOLEAN /\ ctl' \in {"ready", "error"}
      BY <1>3, Zenon DEF Command, MemTypes, Cell, Flags, Failed
    <3>4. QED BY <3>1, <3>2, <3>3 DEF Flags
  <2>3. QED BY <1>3, <2>1, <2>2, Zenon DEF Command
<1>4. CASE QSPI_AutoPollingMemReady
  BY <1>4, Zenon DEF QSPI_AutoPollingMemReady, BusyTypes, MemTypes, Cell, Flags, Failed
<1>5. CASE Retry
  <2>1. ctl' \in {"ready", "error"} /\ blind' \in BOOLEAN BY <1>5, Zenon DEF Retry, Flags
  <2>2. QED BY <1>5, <2>1 DEF Retry, BusyTypes, MemTypes, Cell, Flags
<1>6. CASE BSP_QSPI_Init
  <2>1. blind' \in BOOLEAN /\ ctl' \in {"ready", "error"} BY <1>6, Zenon DEF BSP_QSPI_Init, Flags
  <2>2. CASE UNCHANGED <<mem, busy, wel>> BY <2>1, <2>2 DEF BusyTypes, MemTypes, Cell, Flags
  <2>3. CASE mem' = Effect(busy, FALSE) /\ busy' = Nothing /\ wel' = FALSE
    <3>1. MemTypes' BY <2>3, EffectTypes, Zenon DEF MemTypes, Cell
    <3>2. BusyTypes' BY <2>3, NothingTypes DEF BusyTypes
    <3>3. wel' \in BOOLEAN BY <2>3, Zenon
    <3>4. QED BY <2>1, <3>1, <3>2, <3>3 DEF Flags
  <2>4. QED BY <1>6, <2>2, <2>3, Zenon DEF BSP_QSPI_Init
<1>7. CASE Readback
  BY <1>7, Zenon DEF Readback, BusyTypes, MemTypes, Cell, Flags
<1>8. CASE Finish
  <2>1. MemTypes' BY <1>8, EffectTypes, Zenon DEF Finish, MemTypes, Cell
  <2>2. BusyTypes' BY <1>8, NothingTypes DEF Finish, BusyTypes
  <2>3. wel' \in BOOLEAN BY <1>8, Zenon DEF Finish
  <2>4. QED BY <1>8, <2>1, <2>2, <2>3 DEF Finish, Flags
<1>9. CASE UNCHANGED vars BY <1>9 DEF vars, BusyTypes, MemTypes, Cell, Flags
<1>10. QED BY <1>1, <1>2, <1>3, <1>4, <1>5, <1>6, <1>7, <1>8, <1>9 DEF Next, Call

\* An idle chip changes nothing.
LEMMA EffectIdle ==
    ASSUME MemTypes, busy = Nothing, NEW w \in BOOLEAN PROVE Effect(busy, w) = mem
<1>1. busy.op = "none" BY NothingTypes
<1>2. \A a \in Areas, c \in Cell : Effect(busy, w)[a][c] = mem[a][c]
  BY <1>1, SMT DEF Effect, Changed, Cell
<1>3. BusyTypes BY NothingTypes DEF BusyTypes
<1>4. Effect(busy, w) \in [Areas -> [Cell -> Contents]] BY <1>3, EffectTypes
<1>5. QED BY <1>2, <1>4, SMT DEF MemTypes

\* What an erase of the backup area does, complete and cut short.
LEMMA EffectErase ==
    ASSUME MemTypes, at \in Nat, busy = Op("erase", "backup", at, "ff"), NEW c \in Cell
    PROVE  /\ BlockOf[c] # at => /\ Effect(busy, TRUE)["backup"][c] = mem["backup"][c]
                                 /\ Effect(busy, FALSE)["backup"][c] = mem["backup"][c]
           /\ BlockOf[c] = at => Effect(busy, TRUE)["backup"][c] = "ff"
BY SMT DEF Effect, Changed, Op, Areas, Cell

\* What a program of the backup area does.
LEMMA EffectProgram ==
    ASSUME MemTypes, at \in Nat, NEW d \in {"part", "data"},
           busy = Op("program", "backup", at, d), NEW c \in Cell
    PROVE  /\ c # at => /\ Effect(busy, TRUE)["backup"][c] = mem["backup"][c]
                        /\ Effect(busy, FALSE)["backup"][c] = mem["backup"][c]
           /\ c = at => /\ Effect(busy, TRUE)["backup"][c] = Programmed(mem["backup"][c], d)
                        /\ Effect(busy, FALSE)["backup"][c] = Programmed(mem["backup"][c], "part")
BY SMT DEF Effect, Changed, Op, Areas, Cell

\* The data over a part of it is the data.
LEMMA ProgramAgain ==
    ASSUME NEW was \in {"ff", "part", "data"}
    PROVE  /\ Programmed(was, "data") = "data"
           /\ Programmed(was, "part") \in {"part", "data"}
BY SMT DEF Programmed

-----------------------------------------------------------------------------
(* The progress of a backup                                                *)

\* After an erased block: the next one, or the first cell.
LEMMA NextBlockProgress ==
    ASSUME Control, MemTypes, ErasedSoFar, AtErased, busy = Nothing, job # "OTA_Poll",
           phase = "erase", step # "menu", NextBlock, UNCHANGED <<mem, busy>>
    PROVE  Progress' /\ step' # "menu"
<1> USE QspiAssumption
<1>1. at \in Nat /\ Cells \in Nat \ {0} BY DEF Control, ControlTypes
<1>2. \A c \in Cell : BlockOf[c] \in 0..(Blocks - 1) BY DEF Cell
<1>3. \A c \in Cell : BlockOf[c] < at + 1 => mem["backup"][c] = "ff"
  BY <1>1, <1>2, SMT DEF ErasedSoFar, AtErased
<1>4. CASE at + 1 < Blocks
  <2>1. Goto("enable", at + 1, 0, 1) /\ Stay BY <1>4, Zenon DEF NextBlock
  <2>2. step' = "enable" /\ at' = at + 1 /\ phase' = "erase" BY <2>1 DEF Goto, Stay
  <2>3. ErasedSoFar' BY <1>3, <2>2, SMT DEF ErasedSoFar
  <2>4. QED BY <2>2, <2>3 DEF Progress
<1>5. CASE ~(at + 1 < Blocks)
  <2>1. Write(1) BY <1>5, Zenon DEF NextBlock, Erased
  <2>2. step' = "enable" /\ at' = 0 /\ phase' = "write" BY <2>1 DEF Write, Goto
  <2>3. \A c \in Cell : mem["backup"][c] = "ff" BY <1>1, <1>2, <1>3, <1>5, SMT
  <2>4. 0 \in Cell /\ \A c \in Cell : ~(c < 0) BY <1>1, SMT DEF Cell
  <2>5. WrittenSoFar' BY <2>2, <2>3, <2>4, SMT DEF WrittenSoFar
  <2>6. QED BY <2>2, <2>5 DEF Progress
<1>6. QED BY <1>4, <1>5

Safe == OkIdle /\ Progress /\ StagedIsWhole /\ BackupIsWhole /\ MenuNotSick

QInv == Control /\ BusyTypes /\ MemTypes /\ Flags /\ Safe

\* Midway in a job only the progress counts.
LEMMA Midway == ASSUME step' # "menu", Progress' PROVE Safe'
BY DEF Safe, OkIdle, StagedIsWhole, BackupIsWhole, MenuNotSick, Returned

\* After a failure only the controller does.
LEMMA GaveUp ==
    ASSUME step' = "menu", done' = "failed", job' = "OTA_Flash_Write" /\ ~blind' => ctl' = "ready"
    PROVE  Safe'
BY DEF Safe, OkIdle, Progress, StagedIsWhole, BackupIsWhole, MenuNotSick, Returned

\* A job starts.
LEMMA SafeStart == ASSUME QInv, NEW j \in Jobs, Start(j) PROVE Safe'
<1>1. step' = "enable" /\ at' = 0 /\ phase' = "erase" BY DEF Start, Goto
<1>2. ASSUME ~blind' PROVE ErasedSoFar'
  <2>1. busy = Nothing BY <1>2, Zenon DEF Start
  <2>2. busy' = Nothing BY <2>1, NothingTypes, Zenon DEF Start
  <2>3. \A c \in Cell : ~(BlockOf[c] < 0) BY QspiAssumption, SMT DEF Cell
  <2>4. QED BY <1>1, <2>2, <2>3, SMT DEF ErasedSoFar
<1>3. QED BY <1>1, <1>2, Midway DEF Progress

\* A call fails, and the chip is as it was or has begun what it was told.
LEMMA SafeFailed ==
    ASSUME QInv, Failed, step \in {"enable", "command", "ready"}, UNCHANGED <<mem, blind>>,
           \/ UNCHANGED busy
           \/ \E d \in {"part", "data"} :
                busy' = IF phase = "erase" THEN Op("erase", area, at, "ff")
                        ELSE Op("program", area, at, d)
    PROVE  Safe'
<1> USE DEF QInv
<1>1. CASE phase = "erase"
  <2>1. step' = "retry" /\ at' = at /\ UNCHANGED <<job, area, phase>>
    BY <1>1 DEF Failed, Goto, Stay
  <2>2. ASSUME area = "backup", ~blind PROVE ErasedSoFar'
    <3>1. ErasedSoFar BY <1>1, <2>2, Zenon DEF Safe, Progress, Control
    <3>2. busy' = Nothing \/ busy' = Op("erase", "backup", at, "ff")
      BY <1>1, <2>2, <3>1, Zenon DEF ErasedSoFar
    <3>3. QED BY <2>1, <3>1, <3>2, SMT DEF ErasedSoFar
  <2>3. QED BY <1>1, <2>1, <2>2, Midway DEF Progress
<1>2. CASE phase # "erase"
  <2>0. phase = "write" BY <1>2 DEF Control, ControlTypes
  <2>1. CellFailed BY <1>2 DEF Failed
  <2>2. CASE job = "OTA_Flash_Write" /\ Goto("init_cell", at, tries + 1, round) /\ Stay
    <3>1. step' = "init_cell" /\ at' = at /\ UNCHANGED <<job, area, phase>>
      BY <2>2 DEF Goto, Stay
    <3>2. ASSUME area = "backup", ~blind PROVE WrittenSoFar'
      <4>1. WrittenSoFar BY <1>2, <3>2, Zenon DEF Safe, Progress
      <4>2. busy' = Nothing \/ busy' = Op("program", "backup", at, "part")
               \/ busy' = Op("program", "backup", at, "data")
        BY <1>2, <3>2, <4>1, Zenon DEF WrittenSoFar
      <4>3. QED BY <3>1, <4>1, <4>2, SMT DEF WrittenSoFar
    <3>3. QED BY <1>2, <3>1, <3>2, Midway DEF Progress
  <2>3. CASE job = "OTA_Poll" /\ Goto("init_again", 0, 0, 2) /\ Stay
    <3>1. step' = "init_again" /\ area' = "staging" BY <2>3 DEF Goto, Stay, Control, Place
    <3>2. QED BY <3>1, Midway DEF Progress
  <2>4. CASE job # "OTA_Flash_Write" /\ Return("failed")
    BY <2>4, GaveUp DEF Return, Goto
  <2>5. QED BY <2>1, <2>2, <2>3, <2>4 DEF CellFailed
<1>3. QED BY <1>1, <1>2

\* QSPI_WriteEnable
LEMMA SafeEnable == ASSUME QInv, QSPI_WriteEnable PROVE Safe'
<1> USE DEF QInv
<1>1. CASE Failed BY <1>1, SafeFailed DEF QSPI_WriteEnable
<1>2. CASE ~Failed
  <2>1. /\ wel' = TRUE /\ step' = "command" /\ at' = at
        /\ UNCHANGED <<job, area, phase, mem, busy, blind>> /\ step = "enable"
    BY <1>2, Zenon DEF QSPI_WriteEnable, Goto, Stay
  <2>2. Progress'
    <3>1. CASE step # "menu" /\ area = "backup" /\ ~blind /\ phase = "erase"
      <4>1. ErasedSoFar BY <3>1 DEF Safe, Progress
      <4>2. ErasedSoFar' BY <2>1, <4>1 DEF ErasedSoFar
      <4>3. QED BY <2>1, <3>1, <4>2 DEF Progress
    <3>2. CASE step # "menu" /\ area = "backup" /\ ~blind /\ phase # "erase"
      <4>1. WrittenSoFar BY <3>2 DEF Safe, Progress
      <4>2. WrittenSoFar' BY <2>1, <4>1 DEF WrittenSoFar
      <4>3. QED BY <2>1, <3>2, <4>2 DEF Progress
    <3>3. QED BY <2>1, <3>1, <3>2 DEF Progress
  <2>3. QED BY <2>1, <2>2, Midway
<1>3. QED BY <1>1, <1>2

\* The erase or the program: the chip begins, or it has erased the block
\* already, told by an earlier attempt.
LEMMA SafeCommand == ASSUME QInv, Command PROVE Safe'
<1> USE DEF QInv
<1>0. step = "command" /\ UNCHANGED <<mem, blind>> BY DEF Command
<1>1. CASE Failed
  <2>1. \/ UNCHANGED busy
        \/ \E d \in {"part", "data"} : Accept(IF phase = "erase" THEN Op("erase", area, at, "ff")
                                              ELSE Op("program", area, at, d))
    BY Zenon DEF Command
  <2>2. \/ UNCHANGED busy
        \/ \E d \in {"part", "data"} : busy' = IF phase = "erase" THEN Op("erase", area, at, "ff")
                                               ELSE Op("program", area, at, d)
    BY <2>1, Zenon DEF Accept
  <2>3. QED BY <1>0, <1>1, <2>2, SafeFailed
<1>2. CASE ~Failed
  <2>1. /\ step' = "ready" /\ at' = at /\ UNCHANGED <<job, area, phase>>
        /\ Accept(IF phase = "erase" THEN Op("erase", area, at, "ff")
                  ELSE Op("program", area, at, "data"))
    BY <1>2, Zenon DEF Command, Goto, Stay
  <2>2. ASSUME area = "backup", ~blind, phase = "erase" PROVE ErasedSoFar'
    <3>1. ErasedSoFar BY <1>0, <2>2 DEF Safe, Progress
    <3>2. CASE busy' = Op("erase", "backup", at, "ff")
      <4>1. busy' # Nothing BY <3>2, SMT DEF Op, Nothing
      <4>2. QED BY <1>0, <2>1, <3>1, <3>2, <4>1, SMT DEF ErasedSoFar, AtErased
    <3>3. CASE UNCHANGED busy /\ ~(busy = Nothing /\ wel)
      <4>1. busy # Nothing \/ AtErased BY <1>0, <3>1, <3>3, Zenon DEF ErasedSoFar
      <4>2. QED BY <1>0, <2>1, <3>1, <3>3, <4>1, SMT DEF ErasedSoFar, AtErased
    <3>4. QED BY <2>1, <2>2, <3>2, <3>3, Zenon DEF Accept
  <2>3. ASSUME area = "backup", ~blind, phase # "erase" PROVE WrittenSoFar'
    <3>1. WrittenSoFar BY <1>0, <2>3 DEF Safe, Progress
    <3>2. busy' = Op("program", "backup", at, "data")
      BY <1>0, <2>1, <2>3, <3>1, Zenon DEF Accept, WrittenSoFar
    <3>3. QED BY <1>0, <2>1, <3>1, <3>2, SMT DEF WrittenSoFar
  <2>4. QED BY <1>0, <2>1, <2>2, <2>3, Midway DEF Progress
<1>3. QED BY <1>1, <1>2

\* The chip is idle: the block is erased, the cell is written.
LEMMA SafeReady == ASSUME QInv, QSPI_AutoPollingMemReady PROVE Safe'
<1> USE DEF QInv
<1>0. step = "ready" /\ UNCHANGED <<mem, busy, blind>> BY DEF QSPI_AutoPollingMemReady
<1>1. CASE Failed BY <1>0, <1>1, SafeFailed
<1>2. CASE busy = Nothing /\ phase = "erase" /\ BlockErased
  <2>1. CASE (at + 1) % EraseReset = 0
    <3>1. step' = "init_next" /\ at' = at /\ UNCHANGED <<job, area, phase>>
      BY <1>2, <2>1 DEF BlockErased, Goto, Stay
    <3>2. ASSUME area = "backup", ~blind PROVE ErasedSoFar'
      <4>1. ErasedSoFar /\ AtErased BY <1>0, <1>2, <3>2 DEF Safe, Progress, ErasedSoFar
      <4>2. QED BY <1>0, <1>2, <3>1, <4>1, SMT DEF ErasedSoFar, AtErased
    <3>3. QED BY <1>0, <1>2, <3>1, <3>2, Midway DEF Progress
  <2>2. CASE (at + 1) % EraseReset # 0
    <3>1. NextBlock BY <1>2, <2>2, Zenon DEF BlockErased
    <3>2. CASE area = "backup" /\ ~blind
      <4>1. ErasedSoFar /\ AtErased BY <1>0, <1>2, <3>2 DEF Safe, Progress, ErasedSoFar
      <4>2. job # "OTA_Poll" BY <3>2 DEF Control, Place
      <4>3. QED BY <1>0, <1>2, <3>1, <4>1, <4>2, NextBlockProgress, Midway
    <3>3. CASE ~(area = "backup" /\ ~blind)
      <4>1. step' # "menu" /\ UNCHANGED area
        BY <3>1 DEF NextBlock, Erased, Goto, Stay, Write
      <4>2. QED BY <1>0, <3>3, <4>1, Midway DEF Progress
    <3>4. QED BY <3>2, <3>3
  <2>3. QED BY <2>1, <2>2
<1>3. CASE busy = Nothing /\ phase # "erase" /\ CellWritten
  <2>0. at \in Nat /\ at < Cells /\ Cells \in Nat
    BY <1>0, <1>3, QspiAssumption DEF Control, ControlTypes, Place
  <2>1. CASE at + 1 = Cells /\ job # "OTA_Poll"
    <3>1. step' = "menu" /\ done' = "ok" /\ UNCHANGED <<job, area>>
      BY <1>3, <2>1 DEF CellWritten, Return, Goto
    <3>2. area = "backup" BY <2>1 DEF Control, Place
    <3>3. ASSUME ~blind PROVE Whole("backup")
      <4>1. WrittenSoFar BY <1>0, <1>3, <3>2, <3>3 DEF Safe, Progress
      <4>2. mem["backup"][at] = "data"
        <5>1. Op("program", "backup", at, "data") # Nothing BY SMT DEF Op, Nothing
        <5>2. QED BY <1>0, <1>3, <4>1, <5>1 DEF WrittenSoFar
      <4>3. QED BY <2>0, <2>1, <4>1, <4>2, SMT DEF WrittenSoFar, Whole, Cell
    <3>4. Whole("backup")' <=> Whole("backup") BY <1>0 DEF Whole
    <3>5. QED BY <1>0, <1>3, <3>1, <3>2, <3>3, <3>4
             DEF Safe, OkIdle, Progress, StagedIsWhole, BackupIsWhole, MenuNotSick, Returned
  <2>2. CASE at + 1 = Cells /\ job = "OTA_Poll"
    <3>1. step' = "readback" /\ area' = "staging"
      BY <1>3, <2>2 DEF CellWritten, Goto, Stay, Control, Place
    <3>2. QED BY <3>1, Midway DEF Progress
  <2>3. CASE at + 1 # Cells
    <3>1. /\ step' \in {"init_unit", "enable"} /\ at' = at + 1
          /\ UNCHANGED <<job, area, phase>>
      BY <1>3, <2>3, Zenon DEF CellWritten, Goto, Stay
    <3>2. ASSUME area = "backup", ~blind PROVE WrittenSoFar'
      <4>1. WrittenSoFar BY <1>0, <1>3, <3>2 DEF Safe, Progress
      <4>2. mem["backup"][at] = "data"
        <5>1. Op("program", "backup", at, "data") # Nothing BY SMT DEF Op, Nothing
        <5>2. QED BY <1>0, <1>3, <4>1, <5>1 DEF WrittenSoFar
      <4>3. \A c \in Cell : c < at + 1 => mem["backup"][c] = "data"
        BY <2>0, <4>1, <4>2, SMT DEF WrittenSoFar, Cell
      <4>4. \A c \in Cell : c > at + 1 => mem["backup"][c] = "ff"
        BY <2>0, <4>1, SMT DEF WrittenSoFar, Cell
      <4>5. mem["backup"][at + 1] = "ff"
        BY <2>0, <2>3, <4>1, SMT DEF WrittenSoFar, Cell
      <4>6. QED BY <1>0, <1>3, <3>1, <4>3, <4>4, <4>5, SMT DEF WrittenSoFar
    <3>3. QED BY <1>0, <1>3, <3>1, <3>2, Midway DEF Progress
  <2>4. QED BY <2>1, <2>2, <2>3
<1>4. QED BY <1>1, <1>2, <1>3, Zenon DEF QSPI_AutoPollingMemReady, Ready

\* The end of a failed attempt.
LEMMA SafeRetry == ASSUME QInv, Retry PROVE Safe'
<1> USE DEF QInv
<1>0. step = "retry" /\ phase = "erase" /\ UNCHANGED <<mem, busy, wel>>
  BY SMT DEF Retry, Control, ControlTypes, Place, EraseSteps, WriteSteps
<1>1. ~blind' => ~blind /\ ctl' = "ready" BY Zenon DEF Retry
<1>2. CASE \E s \in {"enable", "init_block"} : step' = s /\ at' = at /\ UNCHANGED <<job, area, phase>>
  <2>1. ASSUME area = "backup", ~blind' PROVE ErasedSoFar'
    <3>1. ErasedSoFar BY <1>0, <1>1, <2>1 DEF Safe, Progress
    <3>2. QED BY <1>0, <1>2, <3>1, SMT DEF ErasedSoFar
  <2>2. QED BY <1>0, <1>2, <2>1, Midway DEF Progress
<1>3. CASE Erased(FALSE)
  <2>1. CASE job = "OTA_Poll"
    <3>1. step' = "init_write" /\ area' = "staging"
      BY <1>3, <2>1 DEF Erased, Goto, Stay, Control, Place
    <3>2. QED BY <3>1, Midway DEF Progress
  <2>2. CASE job # "OTA_Poll"
    <3>1. step' = "menu" /\ done' = "failed" BY <1>3, <2>2 DEF Erased, Return, Goto
    <3>2. QED BY <1>1, <3>1, GaveUp
  <2>3. QED BY <2>1, <2>2
<1>4. QED BY <1>2, <1>3, Zenon DEF Retry, BlockFailed, Goto, Stay

\* OTA_Poll reads back.
LEMMA SafeReadback == ASSUME QInv, Readback PROVE Safe'
<1> USE DEF QInv
<1>0. /\ step = "readback" /\ job = "OTA_Poll" /\ area = "staging"
      /\ UNCHANGED <<mem, busy, job, area>> /\ step' = "menu"
  BY SMT DEF Readback, Control, Place, Return, Goto
<1>1. CASE done' = "failed" BY <1>0, <1>1, GaveUp
<1>2. CASE done' # "failed"
  <2>1. Matches /\ done' = "ok" BY <1>2, Zenon DEF Readback, Return
  <2>2. Whole("staging")' BY <1>0, <2>1 DEF Matches, Whole
  <2>3. QED BY <1>0, <2>1, <2>2
           DEF Matches, Safe, OkIdle, Progress, StagedIsWhole, BackupIsWhole, MenuNotSick, Returned
<1>3. QED BY <1>1, <1>2

\* The re-init: what the job goes on with was done by an idle chip, or is done
\* again.
LEMMA SafeInit == ASSUME QInv, BSP_QSPI_Init PROVE Safe'
<1> USE DEF QInv
<1>1. PICK ok \in BOOLEAN :
        /\ Reinited(ok) /\ blind' = (blind \/ ~ok)
        /\ ctl' \in (IF ok THEN {"ready"} ELSE {"ready", "error"})
        /\ \/ mem' = Effect(busy, FALSE) /\ busy' = Nothing /\ wel' = FALSE
           \/ ~ok /\ UNCHANGED <<mem, busy, wel>>
  BY Zenon DEF BSP_QSPI_Init
<1>2. ~blind' => ~blind /\ ctl' = "ready" /\ mem' = Effect(busy, FALSE) /\ busy' = Nothing
  BY <1>1, Zenon
<1>3. busy = Nothing /\ ~blind' => mem' = mem BY <1>2, EffectIdle
<1>4. at \in Nat BY DEF Control, ControlTypes
<1>5. CASE step = "init_block" /\ Goto("enable", at, 0, 2) /\ Stay
  <2>1. step' = "enable" /\ at' = at /\ phase' = "erase" /\ phase = "erase" /\ UNCHANGED area
    BY <1>5 DEF Goto, Stay, Control, ControlTypes, Place, WriteSteps
  <2>2. ASSUME area = "backup", ~blind' PROVE ErasedSoFar'
    <3>1. ErasedSoFar BY <1>2, <1>5, <2>1, <2>2 DEF Safe, Progress
    <3>2. \A c \in Cell : BlockOf[c] < at => mem'["backup"][c] = mem["backup"][c]
      <4>1. CASE busy = Nothing BY <1>3, <2>2, <4>1
      <4>2. CASE busy = Op("erase", "backup", at, "ff")
        <5>1. \A c \in Cell : BlockOf[c] < at => BlockOf[c] # at BY <1>4, SMT
        <5>2. QED BY <1>2, <1>4, <2>2, <4>2, <5>1, EffectErase
      <4>3. QED BY <3>1, <4>1, <4>2 DEF ErasedSoFar
    <3>3. \A c \in Cell : BlockOf[c] < at => mem'["backup"][c] = "ff"
      BY <3>1, <3>2 DEF ErasedSoFar
    <3>4. busy' = Nothing BY <1>2, <2>2
    <3>5. QED BY <2>1, <3>3, <3>4 DEF ErasedSoFar
  <2>3. QED BY <2>1, <2>2, Midway DEF Progress
<1>6. CASE step = "init_next" /\ NextBlock
  <2>1. phase = "erase" BY <1>6 DEF Control, ControlTypes, Place, WriteSteps
  <2>2. CASE area = "backup" /\ ~blind'
    <3>1. ErasedSoFar /\ AtErased /\ busy = Nothing
      BY <1>2, <1>6, <2>1, <2>2 DEF Safe, Progress, ErasedSoFar
    <3>2. job # "OTA_Poll" BY <2>2 DEF Control, Place
    <3>3. UNCHANGED <<mem, busy>> BY <1>2, <1>3, <2>2, <3>1
    <3>4. QED BY <1>6, <2>1, <3>1, <3>2, <3>3, NextBlockProgress, Midway
  <2>3. CASE ~(area = "backup" /\ ~blind')
    <3>1. step' # "menu" /\ UNCHANGED area BY <1>6 DEF NextBlock, Erased, Goto, Stay, Write
    <3>2. QED BY <2>3, <3>1, Midway DEF Progress
  <2>4. QED BY <2>2, <2>3
<1>7. CASE step \in {"init_write", "init_again"} /\ (\E g \in {1, 2} : Write(g))
  <2>1. step' = "enable" /\ area' = "staging" BY <1>7 DEF Write, Goto, Control, Place
  <2>2. QED BY <2>1, Midway DEF Progress
<1>8. CASE Return("failed")
  BY <1>2, <1>8, GaveUp DEF Return, Goto
<1>9. CASE step = "init_unit" /\ Goto("enable", at, 0, round) /\ Stay
  <2>1. step' = "enable" /\ at' = at /\ phase = "write" /\ phase' = "write" /\ UNCHANGED area
    BY <1>9 DEF Goto, Stay, Control, ControlTypes, Place, EraseSteps
  <2>2. ASSUME area = "backup", ~blind' PROVE WrittenSoFar'
    <3>1. WrittenSoFar /\ busy = Nothing
      BY <1>2, <1>9, <2>1, <2>2 DEF Safe, Progress, WrittenSoFar
    <3>2. UNCHANGED <<mem, busy>> BY <1>2, <1>3, <2>2, <3>1
    <3>3. QED BY <2>1, <3>1, <3>2, SMT DEF WrittenSoFar
  <2>3. QED BY <2>1, <2>2, Midway DEF Progress
<1>10. CASE /\ step = "init_cell" /\ Stay
            /\ Goto("enable", at, tries, round) \/ Goto("init_end", at, 0, round)
  <2>1. /\ step' \in {"enable", "init_end"} /\ at' = at /\ phase = "write" /\ phase' = "write"
        /\ UNCHANGED area
    BY <1>10 DEF Goto, Stay, Control, ControlTypes, Place, EraseSteps
  <2>2. ASSUME area = "backup", ~blind' PROVE WrittenSoFar'
    <3>1. WrittenSoFar BY <1>2, <1>10, <2>1, <2>2 DEF Safe, Progress
    <3>2. /\ \A c \in Cell : c # at => mem'["backup"][c] = mem["backup"][c]
          /\ mem'["backup"][at] \in {"ff", "part", "data"}
      <4>1. CASE busy = Nothing BY <1>3, <2>2, <3>1, <4>1 DEF WrittenSoFar
      <4>2. ASSUME NEW d \in {"part", "data"}, busy = Op("program", "backup", at, d)
            PROVE  /\ \A c \in Cell : c # at => mem'["backup"][c] = mem["backup"][c]
                   /\ mem'["backup"][at] \in {"ff", "part", "data"}
        <5>1. at \in Cell
          BY <1>4, <1>10, <2>1, QspiAssumption, SMT DEF Control, Place, Cell
        <5>2. mem'["backup"][at] = Programmed(mem["backup"][at], "part")
          BY <1>2, <1>4, <2>2, <4>2, <5>1, EffectProgram
        <5>3. \A c \in Cell : c # at => mem'["backup"][c] = mem["backup"][c]
          BY <1>2, <1>4, <2>2, <4>2, EffectProgram
        <5>4. mem'["backup"][at] \in {"part", "data"}
          BY <3>1, <5>2, ProgramAgain DEF WrittenSoFar
        <5>5. QED BY <5>3, <5>4
      <4>3. QED BY <3>1, <4>1, <4>2 DEF WrittenSoFar
    <3>3. /\ \A c \in Cell : c < at => mem'["backup"][c] = "data"
          /\ \A c \in Cell : c > at => mem'["backup"][c] = "ff"
      BY <1>4, <3>1, <3>2, SMT DEF WrittenSoFar, Cell
    <3>4. busy' = Nothing BY <1>2, <2>2
    <3>5. QED BY <2>1, <3>2, <3>3, <3>4 DEF WrittenSoFar
  <2>3. QED BY <2>1, <2>2, Midway DEF Progress
<1>11. QED BY <1>1, <1>5, <1>6, <1>7, <1>8, <1>9, <1>10, Zenon DEF Reinited

\* The chip finishes.
LEMMA SafeFinish == ASSUME QInv, Finish PROVE Safe'
<1> USE DEF QInv
<1>1. /\ busy # Nothing /\ mem' = Effect(busy, TRUE) /\ busy' = Nothing
      /\ UNCHANGED <<ctl, job, area, phase, step, at, done, blind>>
  BY DEF Finish
<1>2. at \in Nat BY DEF Control, ControlTypes
<1>3. ~Returned("ok") BY <1>1 DEF Safe, OkIdle
<1>4. ASSUME step # "menu", area = "backup", ~blind, phase = "erase" PROVE ErasedSoFar'
  <2>1. ErasedSoFar BY <1>4 DEF Safe, Progress
  <2>2. busy = Op("erase", "backup", at, "ff") BY <1>1, <2>1 DEF ErasedSoFar
  <2>3. /\ \A c \in Cell : BlockOf[c] # at => mem'["backup"][c] = mem["backup"][c]
        /\ \A c \in Cell : BlockOf[c] = at => mem'["backup"][c] = "ff"
    BY <1>1, <1>2, <2>2, EffectErase
  <2>4. \A c \in Cell : BlockOf[c] < at => mem'["backup"][c] = "ff"
    BY <2>1, <2>3, Zenon DEF ErasedSoFar
  <2>5. AtErased' BY <1>1, <2>3, Zenon DEF AtErased
  <2>6. step # "init_next" BY <1>1, <2>1 DEF ErasedSoFar
  <2>7. QED BY <1>1, <2>4, <2>5, <2>6, Zenon DEF ErasedSoFar
<1>5. ASSUME step # "menu", area = "backup", ~blind, phase # "erase" PROVE WrittenSoFar'
  <2>1. WrittenSoFar BY <1>5 DEF Safe, Progress
  <2>2. PICK d \in {"part", "data"} : busy = Op("program", "backup", at, d)
    BY <1>1, <2>1 DEF WrittenSoFar
  <2>3. at \in Cell BY <1>2, <1>5, QspiAssumption, SMT DEF Control, Place, Cell
  <2>4. /\ \A c \in Cell : c # at => mem'["backup"][c] = mem["backup"][c]
        /\ mem'["backup"][at] = Programmed(mem["backup"][at], d)
    BY <1>1, <1>2, <2>2, <2>3, EffectProgram
  <2>5. mem'["backup"][at] \in {"part", "data"} /\ (d = "data" => mem'["backup"][at] = "data")
    BY <2>1, <2>4, ProgramAgain DEF WrittenSoFar
  <2>6. step = "ready" => d = "data" BY <1>1, <2>1, <2>2, SMT DEF WrittenSoFar, Op
  <2>7. step # "command" BY <1>1, <2>1 DEF WrittenSoFar
  <2>8. /\ \A c \in Cell : c < at => mem'["backup"][c] = "data"
        /\ \A c \in Cell : c > at => mem'["backup"][c] = "ff"
    BY <1>2, <2>1, <2>4, SMT DEF WrittenSoFar, Cell
  <2>9. busy' = Nothing /\ at' = at /\ step' = step BY <1>1
  <2>10. QED BY <2>5, <2>6, <2>7, <2>8, <2>9, Zenon DEF WrittenSoFar
<1>6. Progress' BY <1>1, <1>4, <1>5 DEF Progress
<1>7. QED BY <1>1, <1>3, <1>6 DEF Safe, OkIdle, StagedIsWhole, BackupIsWhole, MenuNotSick, Returned

-----------------------------------------------------------------------------
(* The theorems                                                            *)

\* The invariant of the driver and its jobs.
THEOREM FlashInvariant == Spec => []QInv
<1> USE QspiAssumption
<1>1. Init => QInv
  <2> SUFFICES ASSUME Init PROVE QInv OBVIOUS
  <2>1. Control BY SMT DEF Init, Control, ControlTypes, Place, Jobs, Areas, Steps
  <2>2. BusyTypes BY NothingTypes DEF Init, BusyTypes
  <2>3. MemTypes BY SMT DEF Init, MemTypes, Cell, Contents
  <2>4. Flags BY Zenon DEF Init, Flags
  <2>5. Safe BY DEF Init, Safe, OkIdle, Progress, StagedIsWhole, BackupIsWhole, MenuNotSick, Returned
  <2>6. QED BY <2>1, <2>2, <2>3, <2>4, <2>5 DEF QInv
<1>2. QInv /\ [Next]_vars => QInv'
  <2> SUFFICES ASSUME QInv, [Next]_vars PROVE QInv' OBVIOUS
  <2>1. Control' /\ BusyTypes' /\ MemTypes' /\ Flags' BY ControlStep, ChipStep DEF QInv
  <2>2. CASE UNCHANGED vars
    <3>1. Safe'
      BY SMTT(60), <2>2 DEF QInv, vars, Safe, OkIdle, Progress, StagedIsWhole, BackupIsWhole,
         MenuNotSick, Returned, Whole, ErasedSoFar, WrittenSoFar, AtErased
    <3> QED BY <2>1, <3>1 DEF QInv
  <2>3. CASE Next
    <3>1. Safe'
      BY <2>3, SafeStart, SafeEnable, SafeCommand, SafeReady, SafeRetry, SafeInit, SafeReadback,
         SafeFinish DEF Next, Call
    <3>2. QED BY <2>1, <3>1 DEF QInv
  <2>4. QED BY <2>2, <2>3
<1>3. QED BY <1>1, <1>2, PTL DEF Spec

\* No erase or program is addressed outside the area of its job (the loops of
\* QSPI_Erase_Blocks and of BSP_QSPI_Write).
THEOREM FlashTypes == Spec => []TypeOK
<1>1. QInv => TypeOK
  BY DEF QInv, TypeOK, Control, ControlTypes, BusyTypes, MemTypes, Flags, Cell
<1>2. QED BY <1>1, FlashInvariant, PTL

\* OTA_Poll reports a download as staged only if all of it is there.
THEOREM StagingVerified == Spec => []StagedIsWhole
<1>1. QInv => StagedIsWhole BY DEF QInv, Safe
<1>2. QED BY <1>1, FlashInvariant, PTL

\* A backup reported as done is complete (OTA_Flash_Write, Backup_SlotA), if
\* the recoveries on the way worked.
THEOREM BackupComplete == Spec => []BackupIsWhole
<1>1. QInv => BackupIsWhole BY DEF QInv, Safe
<1>2. QED BY <1>1, FlashInvariant, PTL

\* OTA_Flash_Write leaves a working controller when it fails.
THEOREM ControllerRestored == Spec => []MenuNotSick
<1>1. QInv => MenuNotSick BY DEF QInv, Safe
<1>2. QED BY <1>1, FlashInvariant, PTL

-----------------------------------------------------------------------------
(* The jobs end                                                            *)

\* How far a job has come: the loops it has still to run through,
Stage ==
    IF step = "menu" THEN 0 ELSE IF step = "readback" THEN 1
    ELSE IF step = "init_again" THEN 3
    ELSE IF phase = "write" THEN IF round = 2 THEN 2 ELSE 4
    ELSE IF step = "init_write" THEN 5 ELSE 6

\* the blocks or cells of this one,
Left == (IF phase = "erase" THEN Blocks ELSE Cells) - at

\* the rounds for the block,
Turn ==
    IF phase = "write" \/ step = "init_next" THEN 0
    ELSE IF step = "init_block" \/ round = 2 THEN 1 ELSE 2

\* the attempts of this round
Chances ==
    IF step = "init_end" THEN 0
    ELSE IF step \in {"init_block", "init_unit"} THEN Attempts + 1 ELSE Attempts - tries

\* and the calls of this attempt.
Ahead ==
    IF step \in {"retry", "init_end"} THEN 0 ELSE IF step = "ready" THEN 1
    ELSE IF step = "command" THEN 2 ELSE IF step = "enable" THEN 3 ELSE 4

\* Of five naturals that became five others, the first that changed fell.
Descends(a, b, c, d, e, a1, b1, c1, d1, e1) ==
    \/ a1 < a
    \/ /\ a1 = a
       /\ \/ b1 < b
          \/ /\ b1 = b
             /\ \/ c1 < c
                \/ c1 = c /\ d1 < d
                \/ c1 = c /\ d1 = d /\ e1 < e

\* The job is closer to its end.
Closer ==
    Descends(Stage, Left, Turn, Chances, Ahead, Stage', Left', Turn', Chances', Ahead')

\* The measure is made of naturals while a job runs.
Measured ==
    step # "menu" => Stage \in 1..6 /\ Left \in Nat /\ Turn \in 0..2 /\ Chances \in Nat /\ Ahead \in 0..4

\* Each call of the HAL brings a job closer to its end, whatever it returns, and
\* what the chip does meanwhile changes nothing of that.
WindsDown ==
    [][/\ Call => Closer
       /\ Finish => UNCHANGED <<Stage, Left, Turn, Chances, Ahead>>]_vars

\* A sequence of naturals that never rises stays at a value in the end.
NeverRises(f, m) == \A n \in Nat : n >= m => f[n + 1] <= f[n]

StaysFrom(f, k) == \A n \in Nat : n >= k => f[n + 1] = f[n]

LEMMA Settles ==
    ASSUME NEW f \in [Nat -> Nat], NEW m \in Nat, NeverRises(f, m)
    PROVE  \E k \in Nat : k >= m /\ StaysFrom(f, k)
<1>1. ASSUME NEW T, T \subseteq Nat, T # {} PROVE \E x \in T : \A y \in T : x <= y
  <2>1. \E x \in T : \A y \in T : ~(<<y, x>> \in OpToRel(<, Nat))
    BY <1>1, NatLessThanWellFounded, WFMin, Zenon
  <2>2. ASSUME NEW x \in T, NEW y \in T, ~(<<y, x>> \in OpToRel(<, Nat)) PROVE x <= y
    <3>1. ~(y < x)  BY <1>1, <2>2 DEF OpToRel
    <3> QED  BY <1>1, <3>1
  <2> QED  BY <2>1, <2>2, Zenon
<1> DEFINE M == {n \in Nat : n >= m}
           V == {f[n] : n \in M}
<1>2. V \subseteq Nat /\ m \in M /\ f[m] \in V
  OBVIOUS
<1>3. PICK v \in V : \A y \in V : v <= y
  BY <1>1, <1>2
<1>4. PICK k \in M : f[k] = v
  OBVIOUS
<1>5. k \in Nat /\ k >= m /\ \A n \in M : f[k] <= f[n]
  BY <1>3, <1>4
<1> DEFINE U == {n \in Nat : n >= k /\ f[n] # f[k]}
<1>6. U = {}
  <2>1. SUFFICES ASSUME U # {} PROVE FALSE
    OBVIOUS
  <2>2. PICK x \in U : \A y \in U : x <= y
    BY <1>1, <2>1
  <2>3. x \in Nat /\ x >= k /\ f[x] # f[k] /\ x # k
    OBVIOUS
  <2>4. x - 1 \in Nat /\ x - 1 >= k /\ x - 1 >= m /\ (x - 1) + 1 = x /\ ~(x <= x - 1) /\ x \in M
    BY <1>5, <2>3
  <2>5. f[x - 1] = f[k]
    BY <2>2, <2>4
  <2>6. f[x] <= f[x - 1] /\ f[k] <= f[x]
    BY <1>5, <2>4 DEF NeverRises
  <2>7. f[x] \in Nat /\ f[k] \in Nat
    BY <1>5, <2>3
  <2> QED  BY <2>3, <2>5, <2>6, <2>7
<1>7. ASSUME NEW n \in Nat, n >= k PROVE f[n + 1] = f[n]
  <2>1. n + 1 \in Nat /\ n + 1 >= k  BY <1>5, <1>7
  <2> QED  BY <1>6, <1>7, <2>1
<1> QED  BY <1>5, <1>7 DEF StaysFrom

\* So Closer cannot go on for ever: no five sequences of naturals descend at each step.
LEMMA NoEndlessDescent ==
    ASSUME NEW a \in [Nat -> Nat], NEW b \in [Nat -> Nat], NEW c \in [Nat -> Nat],
           NEW d \in [Nat -> Nat], NEW e \in [Nat -> Nat],
           \A n \in Nat : Descends(a[n], b[n], c[n], d[n], e[n],
                                   a[n + 1], b[n + 1], c[n + 1], d[n + 1], e[n + 1])
    PROVE  FALSE
<1>1. \A n \in Nat : /\ n + 1 \in Nat /\ a[n] \in Nat /\ b[n] \in Nat /\ c[n] \in Nat
                     /\ d[n] \in Nat /\ e[n] \in Nat
  OBVIOUS
<1>2. NeverRises(a, 0)
  <2> SUFFICES ASSUME NEW n \in Nat PROVE a[n + 1] <= a[n]
    BY DEF NeverRises
  <2>1. Descends(a[n], b[n], c[n], d[n], e[n], a[n + 1], b[n + 1], c[n + 1], d[n + 1], e[n + 1])
    OBVIOUS
  <2> QED  BY <1>1, <2>1 DEF Descends
<1>3. PICK i \in Nat : StaysFrom(a, i)
  BY <1>2, Settles, 0 \in Nat, Zenon
<1>4. NeverRises(b, i)
  <2> SUFFICES ASSUME NEW n \in Nat, n >= i PROVE b[n + 1] <= b[n]
    BY DEF NeverRises
  <2>1. a[n + 1] = a[n]
    BY <1>3 DEF StaysFrom
  <2>2. n + 1 \in Nat /\ b[n] \in Nat /\ b[n + 1] \in Nat
    BY <1>1
  <2>3. Descends(a[n], b[n], c[n], d[n], e[n], a[n + 1], b[n + 1], c[n + 1], d[n + 1], e[n + 1])
    OBVIOUS
  <2> QED  BY <1>1, <2>1, <2>2, <2>3 DEF Descends
<1>5. PICK j \in Nat : j >= i /\ StaysFrom(b, j)
  BY <1>4, Settles, Zenon
<1>6. StaysFrom(a, j)
  BY <1>3, <1>5 DEF StaysFrom
<1>7. NeverRises(c, j)
  <2> SUFFICES ASSUME NEW n \in Nat, n >= j PROVE c[n + 1] <= c[n]
    BY DEF NeverRises
  <2>1. a[n + 1] = a[n] /\ b[n + 1] = b[n]
    BY <1>5, <1>6 DEF StaysFrom
  <2>2. n + 1 \in Nat /\ c[n] \in Nat /\ c[n + 1] \in Nat
    BY <1>1
  <2>3. Descends(a[n], b[n], c[n], d[n], e[n], a[n + 1], b[n + 1], c[n + 1], d[n + 1], e[n + 1])
    OBVIOUS
  <2> QED  BY <1>1, <2>1, <2>2, <2>3 DEF Descends
<1>8. PICK k \in Nat : k >= j /\ StaysFrom(c, k)
  BY <1>7, Settles, Zenon
<1>9. StaysFrom(a, k) /\ StaysFrom(b, k)
  BY <1>5, <1>6, <1>8 DEF StaysFrom
<1>10. NeverRises(d, k)
  <2> SUFFICES ASSUME NEW n \in Nat, n >= k PROVE d[n + 1] <= d[n]
    BY DEF NeverRises
  <2>1. a[n + 1] = a[n] /\ b[n + 1] = b[n] /\ c[n + 1] = c[n]
    BY <1>8, <1>9 DEF StaysFrom
  <2>2. n + 1 \in Nat /\ d[n] \in Nat /\ d[n + 1] \in Nat
    BY <1>1
  <2>3. Descends(a[n], b[n], c[n], d[n], e[n], a[n + 1], b[n + 1], c[n + 1], d[n + 1], e[n + 1])
    OBVIOUS
  <2> QED  BY <1>1, <2>1, <2>2, <2>3 DEF Descends
<1>11. PICK l \in Nat : l >= k /\ StaysFrom(d, l)
  BY <1>10, Settles, Zenon
<1>12. StaysFrom(a, l) /\ StaysFrom(b, l) /\ StaysFrom(c, l)
  BY <1>8, <1>9, <1>11 DEF StaysFrom
<1>13. ASSUME NEW n \in Nat, n >= l PROVE e[n + 1] < e[n]
  <2>1. a[n + 1] = a[n] /\ b[n + 1] = b[n] /\ c[n + 1] = c[n] /\ d[n + 1] = d[n]
    BY <1>11, <1>12, <1>13 DEF StaysFrom
  <2>2. a[n] \in Nat /\ b[n] \in Nat /\ c[n] \in Nat /\ d[n] \in Nat
    BY <1>1
  <2>3. Descends(a[n], b[n], c[n], d[n], e[n], a[n + 1], b[n + 1], c[n + 1], d[n + 1], e[n + 1])
    OBVIOUS
  <2> QED  BY <2>1, <2>2, <2>3 DEF Descends
<1>14. NeverRises(e, l)
  BY <1>1, <1>13 DEF NeverRises
<1>15. PICK m \in Nat : m >= l /\ StaysFrom(e, m)
  BY <1>14, Settles, Zenon
<1>16. e[m + 1] = e[m] /\ e[m + 1] < e[m] /\ e[m] \in Nat
  BY <1>1, <1>13, <1>15 DEF StaysFrom
<1> QED  BY <1>16

\* The measure is made of naturals while a job runs.
LEMMA MeasureTypes ==
    ASSUME Control, step # "menu"
    PROVE  /\ Stage \in 1..6 /\ Left \in Nat /\ Left > 0 /\ Turn \in 0..2 /\ Chances \in Nat
           /\ Ahead \in 0..4
<1> USE QspiAssumption
<1>1. Stage \in 1..6 /\ Turn \in 0..2 /\ Ahead \in 0..4
  BY DEF Stage, Turn, Ahead
<1>2. Left \in Nat /\ Left > 0
  BY SMT DEF Left, Control, ControlTypes, Place
<1>3. Chances \in Nat
  BY SMT DEF Chances, Control, ControlTypes
<1> QED  BY <1>1, <1>2, <1>3

\* A job that returns is at its end.
LEMMA ReturnCloser ==
    ASSUME Control, step # "menu", step' = "menu"
    PROVE  Closer
<1>1. Stage \in 1..6  BY MeasureTypes
<1>2. Stage' = 0  BY DEF Stage
<1> QED  BY <1>1, <1>2 DEF Closer, Descends

\* QSPI_Erase_Blocks leaves the loop over the blocks.
LEMMA ErasedCloser ==
    ASSUME Control, phase = "erase", step \in EraseSteps \ {"init_write"}, NEW ok \in BOOLEAN,
           Erased(ok)
    PROVE  Closer
<1>1. Stage = 6
  BY DEF Stage, EraseSteps
<1>2. Stage' < 6
  BY DEF Erased, Goto, Stay, Write, Return, Stage
<1> QED  BY <1>1, <1>2 DEF Closer, Descends

\* It goes on to the next block, or leaves the loop.
LEMMA NextBlockCloser ==
    ASSUME Control, phase = "erase", step \in EraseSteps \ {"init_write"}, NextBlock
    PROVE  Closer
<1>1. CASE at + 1 < Blocks
  <2>1. /\ step' = "enable" /\ at' = at + 1 /\ tries' = 0 /\ round' = 1 /\ phase' = "erase"
    BY <1>1 DEF NextBlock, Goto, Stay
  <2>2. Stage' = 6 /\ Stage = 6
    BY <2>1 DEF Stage, EraseSteps
  <2>3. Left' < Left
    BY <2>1, QspiAssumption, SMT DEF Left, Control, ControlTypes
  <2> QED  BY <2>2, <2>3 DEF Closer, Descends
<1>2. CASE ~(at + 1 < Blocks)
  BY <1>2, ErasedCloser DEF NextBlock
<1> QED  BY <1>1, <1>2

\* A failed call costs an attempt, a round, or the job.
LEMMA FailedCloser ==
    ASSUME Control, step \in {"enable", "command", "ready"}, Failed
    PROVE  Closer
<1> USE QspiAssumption
<1>1. CASE phase = "erase"
  <2>1. step' = "retry" /\ at' = at /\ tries' = tries /\ round' = round /\ phase' = phase
    BY <1>1 DEF Failed, Goto, Stay
  <2>2. Stage' = Stage /\ Left' = Left /\ Turn' = Turn /\ Chances' = Chances
    BY <1>1, <2>1 DEF Stage, Left, Turn, Chances
  <2>3. Ahead' < Ahead
    BY <2>1 DEF Ahead
  <2> QED  BY <2>2, <2>3 DEF Closer, Descends
<1>2. CASE phase # "erase"
  <2>1. phase = "write" /\ CellFailed
    BY <1>2 DEF Failed, Control, ControlTypes
  <2>2. CASE job = "OTA_Poll" /\ round = 1 /\ Goto("init_again", 0, 0, 2) /\ Stay
    <3>1. Stage = 4 /\ Stage' = 3
      BY <2>1, <2>2 DEF Stage, Goto, Stay
    <3> QED  BY <3>1 DEF Closer, Descends
  <2>3. CASE Return("failed")
    BY <2>3, ReturnCloser DEF Return, Goto
  <2>4. CASE Goto("init_cell", at, tries + 1, round) /\ Stay
    <3>1. step' = "init_cell" /\ at' = at /\ tries' = tries + 1 /\ round' = round /\ phase' = phase
      BY <2>4 DEF Goto, Stay
    <3>2. Stage' = Stage /\ Left' = Left /\ Turn' = Turn
      BY <2>1, <3>1 DEF Stage, Left, Turn
    <3>3. Chances' < Chances
      BY <3>1, SMT DEF Chances, Control, ControlTypes
    <3> QED  BY <3>2, <3>3 DEF Closer, Descends
  <2> QED  BY <2>1, <2>2, <2>3, <2>4 DEF CellFailed
<1> QED  BY <1>1, <1>2

\* Within an attempt only the calls that are ahead become fewer.
LEMMA CallCloser ==
    ASSUME Control,
           \/ step = "enable" /\ step' = "command"
           \/ step = "command" /\ step' = "ready",
           at' = at, tries' = tries, round' = round, phase' = phase
    PROVE  Closer
<1>1. Stage' = Stage /\ Left' = Left /\ Turn' = Turn /\ Chances' = Chances
  BY DEF Stage, Left, Turn, Chances
<1>2. Ahead' < Ahead
  BY DEF Ahead
<1> QED  BY <1>1, <1>2 DEF Closer, Descends

\* A block or a cell that is done leaves one less.
LEMMA ReadyCloser ==
    ASSUME Control, QSPI_AutoPollingMemReady
    PROVE  Closer
<1> USE QspiAssumption
<1>1. step = "ready"
  BY DEF QSPI_AutoPollingMemReady
<1>2. CASE Failed  BY <1>1, <1>2, FailedCloser
<1>3. CASE phase = "erase" /\ BlockErased
  <2>1. CASE NextBlock  BY <1>1, <1>3, <2>1, NextBlockCloser DEF EraseSteps
  <2>2. CASE Goto("init_next", at, 0, round) /\ Stay
    <3>1. step' = "init_next" /\ at' = at /\ phase' = "erase"
      BY <1>3, <2>2 DEF Goto, Stay
    <3>2. Stage' = Stage /\ Left' = Left /\ Turn' = 0 /\ Turn > 0
      BY <1>1, <1>3, <3>1 DEF Stage, Left, Turn
    <3> QED  BY <3>2 DEF Closer, Descends
  <2> QED  BY <1>3, <2>1, <2>2 DEF BlockErased
<1>4. CASE phase # "erase" /\ CellWritten
  <2>1. phase = "write"  BY <1>4 DEF Control, ControlTypes
  <2>2. CASE Return("ok")  BY <1>1, <2>2, ReturnCloser DEF Return, Goto
  <2>3. CASE Goto("readback", 0, 0, round) /\ Stay
    <3>1. Stage' = 1 /\ Stage > 1
      BY <1>1, <2>1, <2>3 DEF Goto, Stay, Stage
    <3> QED  BY <3>1 DEF Closer, Descends
  <2>4. CASE /\ Stay
             /\ \/ Goto("init_unit", at + 1, 0, round)
                \/ Goto("enable", at + 1, 0, round)
    <3>1. /\ step' \in {"init_unit", "enable"} /\ at' = at + 1 /\ round' = round
          /\ phase' = "write"
      BY <2>1, <2>4 DEF Goto, Stay
    <3>2. Stage' = Stage
      BY <1>1, <2>1, <3>1 DEF Stage
    <3>3. Left' < Left
      BY <2>1, <3>1, SMT DEF Left, Control, ControlTypes
    <3> QED  BY <3>2, <3>3 DEF Closer, Descends
  <2> QED  BY <1>4, <2>2, <2>3, <2>4 DEF CellWritten
<1> QED  BY <1>2, <1>3, <1>4 DEF QSPI_AutoPollingMemReady

\* Erase_Block64K makes its attempts, and QSPI_Erase_Blocks its two rounds.
LEMMA RetryCloser ==
    ASSUME Control, Retry
    PROVE  Closer
<1> USE QspiAssumption
<1>1. phase = "erase" /\ step = "retry"
  BY SMT DEF Retry, Control, ControlTypes, Place, EraseSteps, WriteSteps
<1>2. CASE tries + 1 < Attempts /\ Goto("enable", at, tries + 1, round) /\ Stay
  <2>1. /\ step' = "enable" /\ at' = at /\ tries' = tries + 1 /\ round' = round /\ phase' = phase
    BY <1>2 DEF Goto, Stay
  <2>2. Stage' = Stage /\ Left' = Left /\ Turn' = Turn
    BY <1>1, <2>1 DEF Stage, Left, Turn
  <2>3. Chances' < Chances
    BY <1>1, <2>1, SMT DEF Chances, Control, ControlTypes
  <2> QED  BY <2>2, <2>3 DEF Closer, Descends
<1>3. CASE BlockFailed
  <2>1. CASE round = 2
    BY <1>1, <1>3, <2>1, ErasedCloser DEF BlockFailed, EraseSteps
  <2>2. CASE round # 2
    <3>1. step' = "init_block" /\ at' = at /\ round' = 1 /\ phase' = phase
      BY <1>3, <2>2 DEF BlockFailed, Goto, Stay
    <3>2. Stage' = Stage /\ Left' = Left /\ Turn = 2 /\ Turn' = 1
      BY <1>1, <2>2, <3>1 DEF Stage, Left, Turn
    <3> QED  BY <3>2 DEF Closer, Descends
  <2> QED  BY <2>1, <2>2
<1> QED  BY <1>2, <1>3 DEF Retry

\* No re-initialisation leads back to what has been done.
LEMMA InitCloser ==
    ASSUME Control, BSP_QSPI_Init
    PROVE  Closer
<1> USE QspiAssumption
<1>1. PICK ok \in BOOLEAN : Reinited(ok)  BY DEF BSP_QSPI_Init
<1>2. step # "menu"  BY DEF BSP_QSPI_Init
<1>3. /\ step \in {"init_block", "init_next", "init_write"} => phase = "erase"
      /\ step \in {"init_again", "init_unit", "init_cell", "init_end"} => phase = "write"
  BY SMT DEF Control, ControlTypes, Place, EraseSteps, WriteSteps
<1>4. CASE step = "init_block" /\ Goto("enable", at, 0, 2) /\ Stay
  <2>1. step' = "enable" /\ at' = at /\ tries' = 0 /\ round' = 2 /\ phase' = "erase"
    BY <1>3, <1>4 DEF Goto, Stay
  <2>2. Stage' = Stage /\ Left' = Left /\ Turn' = Turn
    BY <1>3, <1>4, <2>1 DEF Stage, Left, Turn
  <2>3. Chances' < Chances
    BY <1>4, <2>1, SMT DEF Chances
  <2> QED  BY <2>2, <2>3 DEF Closer, Descends
<1>5. CASE step = "init_next" /\ NextBlock
  BY <1>3, <1>5, NextBlockCloser DEF EraseSteps
<1>6. CASE step = "init_write" /\ Write(1)
  <2>1. Stage = 5 /\ Stage' = 4
    BY <1>3, <1>6 DEF Write, Goto, Stage
  <2> QED  BY <2>1 DEF Closer, Descends
<1>7. CASE Return("failed")
  BY <1>2, <1>7, ReturnCloser DEF Return, Goto
<1>8. CASE step = "init_again" /\ Write(2)
  <2>1. Stage = 3 /\ Stage' = 2
    BY <1>8 DEF Write, Goto, Stage
  <2> QED  BY <2>1 DEF Closer, Descends
<1>9. CASE step = "init_unit" /\ Goto("enable", at, 0, round) /\ Stay
  <2>1. step' = "enable" /\ at' = at /\ tries' = 0 /\ round' = round /\ phase' = "write"
    BY <1>3, <1>9 DEF Goto, Stay
  <2>2. Stage' = Stage /\ Left' = Left /\ Turn' = Turn
    BY <1>3, <1>9, <2>1 DEF Stage, Left, Turn
  <2>3. Chances' < Chances
    BY <1>9, <2>1, SMT DEF Chances
  <2> QED  BY <2>2, <2>3 DEF Closer, Descends
<1>10. CASE step = "init_cell" /\ tries < Attempts /\ Goto("enable", at, tries, round) /\ Stay
  <2>1. /\ step' = "enable" /\ at' = at /\ tries' = tries /\ round' = round /\ phase' = "write"
    BY <1>3, <1>10 DEF Goto, Stay
  <2>2. Stage' = Stage /\ Left' = Left /\ Turn' = Turn /\ Chances' = Chances /\ Ahead' < Ahead
    BY <1>3, <1>10, <2>1 DEF Stage, Left, Turn, Chances, Ahead
  <2> QED  BY <2>2 DEF Closer, Descends
<1>11. CASE step = "init_cell" /\ tries = Attempts /\ Goto("init_end", at, 0, round) /\ Stay
  <2>1. step' = "init_end" /\ at' = at /\ round' = round /\ phase' = "write"
    BY <1>3, <1>11 DEF Goto, Stay
  <2>2. Stage' = Stage /\ Left' = Left /\ Turn' = Turn /\ Ahead' < Ahead
    BY <1>3, <1>11, <2>1 DEF Stage, Left, Turn, Ahead
  <2>3. Chances' = Chances
    BY <1>11, <2>1, SMT DEF Chances
  <2> QED  BY <2>2, <2>3 DEF Closer, Descends
<1> QED
  BY <1>1, <1>4, <1>5, <1>6, <1>7, <1>8, <1>9, <1>10, <1>11, Zenon DEF Reinited

\* No job goes on for ever, for every number of blocks, cells and attempts: each call
\* of the HAL that returns, with or without an error, brings it closer to its end,
\* in the order of stages, blocks or cells, rounds, attempts and calls, which by
\* NoEndlessDescent cannot go on for ever.  The safety part of JobEnds.
THEOREM JobsWindDown == Spec => WindsDown /\ []Measured
<1> DEFINE Falls == /\ Call => Closer
                    /\ Finish => UNCHANGED <<Stage, Left, Turn, Chances, Ahead>>
<1>1. QInv /\ [Next]_vars => [Falls]_vars
  <2> SUFFICES ASSUME QInv PROVE Falls
    OBVIOUS
  <2>1. Control  BY DEF QInv
  <2>2. ASSUME QSPI_WriteEnable PROVE Closer
    <3>1. step = "enable"  BY <2>2 DEF QSPI_WriteEnable
    <3>2. CASE Failed  BY <2>1, <3>1, <3>2, FailedCloser
    <3>3. CASE Goto("command", at, tries, round) /\ Stay
      BY <2>1, <3>1, <3>3, CallCloser DEF Goto, Stay
    <3> QED  BY <2>2, <3>2, <3>3 DEF QSPI_WriteEnable
  <2>3. ASSUME Command PROVE Closer
    <3>1. step = "command"  BY <2>3 DEF Command
    <3>2. CASE Failed  BY <2>1, <3>1, <3>2, FailedCloser
    <3>3. CASE Goto("ready", at, tries, round) /\ Stay
      BY <2>1, <3>1, <3>3, CallCloser DEF Goto, Stay
    <3> QED  BY <2>3, <3>2, <3>3 DEF Command
  <2>4. ASSUME Readback PROVE Closer
    <3>1. step = "readback" /\ step' = "menu"  BY <2>4 DEF Readback, Return, Goto
    <3> QED  BY <2>1, <3>1, ReturnCloser
  <2>5. ASSUME Finish PROVE UNCHANGED <<Stage, Left, Turn, Chances, Ahead>>
    BY <2>5 DEF Finish, Stage, Left, Turn, Chances, Ahead
  <2>6. Call => Closer
    BY <2>1, <2>2, <2>3, <2>4, ReadyCloser, RetryCloser, InitCloser DEF Call
  <2> QED  BY <2>5, <2>6
<1>2. QInv => Measured
  BY MeasureTypes DEF QInv, Measured
<1> QED  BY <1>1, <1>2, FlashInvariant, PTL DEF Spec, WindsDown

=============================================================================
