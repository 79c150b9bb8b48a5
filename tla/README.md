# A TLA+ verification of the Ethernet OTA bootloader

The program is the bootloader under `src/STM32/Bootloader/User`: bare-metal C for
an STM32H743, one super-loop, lwIP's raw API polled from it, a dual-bank
internal flash and an external QSPI NOR flash. This directory models its update
path, from the frames that arrive to the rollback, checks it with TLC and proves
its main safety properties with TLAPS.

## The system

Flash that survives a reset:

- Bank2 of the internal flash, where the App executes ("Slot A");
- a metadata sector: magic, state, labels (version, CRC, size) of the current
  and of the backup image;
- in the NOR flash, a staging area for the received image and a backup area.

Parts, and where they are:

| Part | Source | Module |
| --- | --- | --- |
| boot state machine | `menu.c` `Boot_Metadata_Step`, `main.c` `main` | Bootloader |
| rollback | `menu.c` `Boot_DoRollback` | Bootloader |
| metadata | `metadata.c` | Bootloader |
| backup, restore, run, reboot keys | `menu.c` | Bootloader |
| writing the staged image | `ota.c` `OTA_Flash_Write` | Bootloader |
| TCP server on :8000 | `ota.c` callbacks, `OTA_Server_Start/Stop` | OtaReceive, TcpPcb |
| staging | `ota.c` `OTA_Poll` | OtaReceive, Staging |
| main loop, y/n question | `main.c` `interactive_mode` | OtaReceive |
| trigger rounds | `menu.c` `Firmware_Update` | OtaReceive |
| version check, retry | `version_check.c`, `menu.c` `Firmware_Update` | VersionCheck |
| QSPI driver and its callers' retries | `bsp_qspi_flash.c`, `ota.c`, `menu.c` | QspiFlash |
| TCP connections | lwIP `tcp.c`, `tcp_in.c` | TcpPcb, TcpContract |
| timeouts, tick, waits | lwIP `timeouts.c`, `core_delay.c`, `menu.c` | Timers |
| reception of frames, reassembly's buffers | `ethernetif.c`, `LAN8720a.c`, lwIP `ip4_frag.c` | EthRx |
| CRC32, watchdog period, transmission, PHY, UART, GPIO, rest of lwIP, HAL | | not modelled, see below |

How they interact: frames come through the DMA ring (EthRx) to lwIP, whose
control blocks (TcpPcb) live on the timeout list (Timers) and call back the two
applications in an order TcpContract states. The operator presses 2; the version
check asks the server (VersionCheck); on y the CRC it announced is remembered,
the TCP server is started and the PC is triggered (OtaReceive); the image
arrives in SRAM, is checked, staged in NOR flash and read back (OtaReceive,
whose promise is Staging; the driver below it is QspiFlash); on the second y
`OTA_Flash_Write` saves Bank2 to the backup area, writes the new image and
publishes PENDING (Bootloader); the next boots put it on trial under the
watchdog, and confirm it or roll it back (Bootloader).

## The modules

**Bootloader.** A step is one flash sector or one metadata flash word, so that a
reset or a failure can fall between any two, and inside one (a `Torn` unit). The
pc values follow the functions: `fw_*` `OTA_Flash_Write`, `bk_*` `Backup_SlotA`,
`rs_*` `Restore_SlotA`, `rb_*` `Boot_DoRollback`, `mw_*` `Metadata_Write` (`cont` is
its caller). An image is a model value that stands for its bytes, version, CRC
and size. Flash, metadata and the IWDG flag of RCC_RSR survive a `Reset`, the
rest does not. History: `working`, the images that were shipped or have confirmed
themselves; `lastReset`; `wrong`, whether an operation failed, a reset cut one
short or the operator broke the rule. The App is external: it confirms itself
through the shared metadata module, or hangs. The rule (`Careful` makes the
operator keep it) is to back up, or write an update (which backs up first), only
when Bank2 holds a working image that is not on trial, and to restore only from
a working backup. The code does not enforce it; the results say which need it.

**OtaReceive.** The callbacks of lwIP are actions that can happen wherever the
program polls it (`NetPcs`), the loop is a pc. Data is counted in words, header
two words; connections deliver streams in pieces of any size up to `MaxSeg`, can
end early, and can report an error after the program has closed them (`LateErr`;
lwIP keeps the callbacks while it waits for the last ACK). QSPI erases can stop
anywhere and writes fail (`QspiFaults`), and programming a word that is not
erased gives `Bad`. The CRC of a buffer is its contents. `stray` remembers the two
things a peer can do that the code has no defence against: an error of a closed
connection, and data behind a complete upload.

**Staging.** What the receiver promises: one image, the one on offer, unchanged
until the operator has answered. `OtaReceive!ImplementsStaging` instantiates it
with `offer <- crcExp` and `staged <- StagedImage`.

**VersionCheck.** The client's flags, its callbacks, and the wait, question and
retry of `Firmware_Update`. A refused attempt is silent, because the code
registers its error callback only once connected. The server may publish
anything at any time.

**TcpPcb.** The pool of control blocks with their state, the application whose
callbacks are registered, retransmission count and age. Actions: the program's
`Version_Check_Start`, `OTA_Server_Start` and `OTA_Server_Stop` down to `tcp_alloc`,
`tcp_bind`, `tcp_connect`, `tcp_abandon`; every kind of segment (`tcp_listen_input`,
`SynAck`, `Segment` for `tcp_process` with the callbacks of `tcp_input`, `Reset`,
`TimeWaitFin`); the TCP timer; `Silence`, after which no peer answers any more. A
full pool makes `tcp_alloc` kill connections in lwIP's order, and memory for a
SYN or FIN may be missing at any call.

**TcpContract.** The order of callbacks an application may rely on, per
connection: an attempt ends silently or with `connected`; data, then end of file;
nothing but end of file after a close; the error callback once, and last.
OtaReceive's and VersionCheck's network actions are chosen within it;
`TcpPcb!ImplementsContract` maps the blocks' states to its phases.

**QspiFlash.** The chip (write enable latch, busy, a program only clears bits, a
reset cuts an operation short) and the controller, under `OTA_Poll`'s staging,
`OTA_Flash_Write`'s step 1 and `Backup_SlotA`. A step is one call of the HAL, which
may fail before or after the chip has taken the command, or time out while the
chip goes on. The loops, attempts, second rounds and re-initialisations are the
code's, with their ignored results. A cell is one page program; its content is
relative to what the running job is to write. `blind` is history: a recovery
failed unnoticed, or the chip was busy when the job began.

**Timers.** Time in units of 250 ms, `Second` units a step of the tick, `Period` the
wrap of the cycle counter, `Word` that of `u32_t`. Between any two reads of the tick
time may pass, so the loop may be late by any amount up to `MaxAway`. The constant
`lwip_cyclic_timers` is the table of the same name, which `sys_timeouts_init` arms
entry by entry; `TimersAssumption` has every interval short against the word, as
lwIP's are against 2^32 ms. `since` and `lag` compare lwIP's own clock with
the intervals and with real time.

**EthRx.** The descriptors with their owner, the buffers, the interrupt, the flag
and the loop that tests and clears it in two steps, the custom pbufs in use by
the stack and kept by reassembly. Descriptors are given back before the stack
has read the frame, as `ethernetif_input` does.

`MC*` are the instances for TLC; `*Proofs` hold the theorems.

## The runs

Passing:

| Run | Properties | What it shows |
| --- | --- | --- |
| boot_faults | TypeOK, GoodCopyExists, RestoredExactly, RollbackRestoresWorking, HungTrialRecovers | every kind of failure and reset, two of them in all, careful operator; a hung trial recovers, also through an interrupted rollback |
| boot_power | PendingMeansComplete, TrialGuarded, ConfirmedWorks, LabelsDescribeFlash | any operator, resets anywhere and QSPI failures; the last two until something goes wrong |
| ota_stage | TypeOK, BufferBounds, StagedIsOffered, FeedsAlone, WritesImageSize, ImplementsStaging, VerifyAnswered | two peers, two updates, late errors, failing QSPI; the receiver implements Staging, a completed upload is judged |
| ver_check | TypeOK, OfferIsStable, UpToDateIsTrue, RetryConnects | timeouts, retries, three connections, no late errors |
| tcp_pcb | TypeOK, AllocSucceeds, HandleIsLive, TimerRuns, ImplementsContract, BlocksComeBack | two control blocks for both applications, so that the pool is used up all the time; missing memory, silent peers |
| qspi_flash | TypeOK, StagedIsWhole, BackupIsWhole, MenuNotSick, JobEnds | any HAL call fails or times out, jobs in any order |
| timers | TypeOK, ArmedOnce, NotEarly, NeverAhead, WaitFits | late loops, connections that come and go, handlers that take time, the wrap |
| eth_rx | Intact, Fifo, PoolSuffices, NoFrameStuck | DMA, interrupt and loop interleaved, fragments kept and given back |

Runs whose property is violated: what a comment, a message or the repository's
README says, and the code does not do. Each is a finding in `PROJECT.json`.

| Run | Property | What happens |
| --- | --- | --- |
| v_last_working | RollbackRestoresWorking | a second update during a trial overwrites the last working backup |
| v_no_brick | IncompleteGuarded | power lost while Bank2 is rewritten under CONFIRMED: half an image boots unguarded |
| v_stale_flag | RollbackOnlyAfterIwdg | an old IWDG flag rolls a healthy trial back |
| v_stall | TimersRun | a connection registered just after the tick fell back, before lwIP looked at the time, stops all of lwIP's timers for good |

The path of v_stall in the code: a pass of the main loop spans the wrap (a
backup, the erase in `OTA_Poll`, the blocking key read at the y/n question); the
next pass calls `ethernetif_input` before `sys_check_timeouts`, and a SYN in the
ring starts the TCP timer. Its entry gets 250 ms plus a difference just short of
2^32 ms, but is compared by the 250 ms alone and put in front.

What the properties leave out on purpose, since the code behaves otherwise there:

- `FeedsAlone`: a late error of a closed connection makes `ota_err_cb` clear the
  handle of the current client; a further one is then accepted beside it. The
  CRC gate (`StagedIsOffered`) still holds.
- `WritesImageSize`: data of a second connection that arrives after the upload was
  complete grows `ota_received`, which `OTA_Flash_Write` takes for the size.
- `RetryConnects`: after an attempt that died silently, or a server that closed
  without an answer, `v_pcb` still names the dead connection and the retry key
  does nothing (`Forgotten`).
- `BackupIsWhole`: the result of `BSP_QSPI_Init` between two attempts is ignored
  (`ota.c` 414). If it fails after a page was programmed in part, the next attempt
  can meet a busy chip, which ignores it, and be reported as written.
- `MenuNotSick` is about `OTA_Flash_Write`, which takes care; `Backup_SlotA` and
  `OTA_Poll` can leave the controller in error.
- `Intact`: a frame is overwritten once as many frames have followed as the ring
  has descriptors, where the note in `ethernetif.c` 71-74 says the buffers "return
  back to DMA after been processed by the stack".
- `UpToDateIsTrue` and `OfferIsStable`: an error of the version check's connection
  right after its answer turns an announced version into "up-to-date".
- `NotEarly`, `NeverAhead` and `WaitFits` say nothing once the tick has fallen back:
  a wait then ends at once.

Further behaviour that the models show: key 5 starts an App on trial without the
watchdog; a reset inside `Restore_SlotA` during a trial lets the restored App
confirm itself under the label of the image it replaced; an upload that starts
and ends within one poll of lwIP is not noticed by the trigger loop; after a
stop, `tcp_bind` refuses port 8000 while a connection of the last session is still
closing (SO_REUSE is 0); `ethernet_input` always returns ERR_OK, so the error
branch of `ethernetif_input` is never taken and is not modelled.

**Bounds.** Bootloader: two sectors and a one-sector and a two-sector image, so an
image that fills the area, one that does not, a loop of more than one iteration,
and the tail of a long image under a short one. `MaxMishaps` bounds failures and
external resets together; two reach a failure during the recovery from another.
OtaReceive: four buffer words, pieces of up to two: an upload that fills the
buffer, one that overflows it, header and payload in one piece and the header in
two. Connections are used once; two or three reach a late error beside a current
and a further client; `MaxUpdates` is two, one update after another. TcpPcb: two
blocks (server client and version check, or two peers that compete), one
retransmission, one tick of age: every limit is met from both sides; `MaxAge` caps
the age at the largest value compared with. QspiFlash: two blocks, three cells,
two attempts, a re-init after two: a block of two cells and one of one, each loop
with a first and a last round. Timers: a step of two units and a wrap in the
middle of a step, as on the board (10.7 s), a word longer than the wrap, lateness
(`MaxAway`) of two steps, of nearly a wrap in v_stall. EthRx: the board's four
descriptors, nine frames (`MaxFrames`), more than twice round the ring, and a pool
just larger than what reassembly may keep. Symmetry is used only in ver_check,
whose properties are invariants and one action property.

**Deadlock** is checked in all runs but those of Bootloader and EthRx: an App that
runs well, or hangs without the watchdog, rightly stops once no further reset is
allowed, and reception is over when all frames have come.

**Fairness.** Only the processor, clocks and hardware: the boot path and
`Metadata_Write` go on, the watchdog counts once started, an App that is broken
does hang in the end (AppHang, needed only to reach the interesting case), the
main loop and the trigger timeouts go on. TcpPcb: the loop runs the TCP timer, the
retransmission timeouts are bounded and memory comes back (`WF(FullTick)`, once the
peers are silent). QspiFlash: every HAL call has a timeout (`WF(Call)`). EthRx: a
pending interrupt is taken and the loop goes on. Timers, for v_stall: time goes
on, and the loop, whose passes are short, polls at every value of the tick again
and again; this is more than the counterexample needs to be real. Operator,
network, server and resets are never assumed to act.

## The proofs

All for every value of the constants allowed by the ASSUMEs.

- **BootloaderProofs.** `TypeCorrect`. `RollbackIsExact`: the erase and write-back
  loops need the progress invariant `ProgressInv` (the sectors behind `i` are
  erased, resp. equal the backup). `CopySurvives` and `RollbackIsToWorking`, for a
  careful operator: `GoodCopyExists` is not inductive, since it does not say which
  copy is good while one is being rewritten; `CopyInv` says that whoever writes
  Bank2 has a good backup area, whoever writes the backup area a good Bank2 and
  no trial, and that a trial always has a good backup area.
- **TrialProofs.** `PendingIsComplete` and `TrialIsGuarded`, for any operator, as long
  as erasing and programming internal flash do not fail (`Reliable`; resets and
  QSPI failures may come at any time): `WriteInv` is the progress of the loops that
  write Bank2, `PendingInv` says that whoever is about to publish PENDING has
  finished them, `GuardInv` that every path to a trial goes through the request for
  the watchdog. `ConfirmedIsWorking` and `LabelsAreTrue`, until something goes
  wrong: `LabelInv` says for each point of each operation which of the three labels
  (current, backup, the copy in RAM) are true and which are stale, `ConfirmedInv`
  that CONFIRMED is written only over a working image; both need `CopyInv`.
  `HungAppIsGuarded`, for any operator and any failure: `WatchInv` says that an App
  under the watchdog is not CONFIRMED unless it has worked, and `Recovering`, which
  a hung App satisfies, is what every step keeps until the menu or a working App
  is reached.
- **OtaReceiveProofs.** `ReceiverTypes`, `NoOverrun`, `StagedVerified`, `ClientIsAlone`,
  `SizeIsImageSize` and the refinement `StagingRefined`. The invariant `OInv` adds that
  an upload is judged only behind a whole header, that an update starts only when
  nothing is received or staged, and that a write happens only in CONFIRM; the
  last two are what keeps the offer stable.
- **VersionCheckProofs.** `VersionTypes` and `RetryReallyConnects`, also when errors of
  closed connections come late: `Attempt` says that `v_pcb`, while it names a
  connection, names one that is not yet over and forgotten. `AnswerIsUsed` and `UpToDateWasAnswered`, without late
  errors: `VInv` says that every connection that can still call back is the one
  `v_pcb` names, so that nothing overwrites an answer.
- **TcpPcbProofs.** `PcbTypes`, `AllocNeverFails`, `HandleStaysLive`, `TimerNeverStalls`.
  The invariant `PInv` adds to them that nothing is outstanding once the FIN is
  acknowledged, so that these states never retransmit. That `tcp_alloc` succeeds
  rests on a scan that finds an oldest connection in every non-empty list
  (`OldestExists`, by well-foundedness of the naturals). `PcbsKeepContract`: each
  action of TcpPcb is, block by block, a step of TcpContract, from `PInv` and the
  callbacks each state has registered (`Shape`). `SilentBlocksAge`: what is not
  acknowledged is outstanding (`Waiting`), so once the peers are silent a count
  (`Wait`) falls at every full tick, and no other step raises it, until the block is
  free or given to the next connection of the version client.
- **QspiFlashProofs.** `FlashTypes`, `StagingVerified`, `BackupComplete`,
  `ControllerRestored`. The invariant `QInv` says, for a job that is not blind, what
  is erased and written behind the current block or page and what the chip can
  still be doing: only the operation at hand. `JobsWindDown`: every call of the HAL,
  whatever it returns, lowers a measure of five naturals in lexicographic order
  (the loops still to run, the blocks or cells of this one, the rounds, the
  attempts, the calls of this attempt), which cannot go on for ever
  (`NoEndlessDescent`), so no chain of failures and recoveries goes round in circles.
- **EthRxProofs.** `ReceptionTypes`, `FramesIntact`, `FramesInOrder`, `PoolNeverEmpty`. The
  invariant `EInv` places the k-th frame in descriptor (k - 1) mod n, bounds the
  frames ahead of the loop by the ring, and accounts for every pool element.
  `NoWakeUpLost`: while a frame waits, the interrupt is pending, `flag` is set or the
  loop is already on its way (`Announced`).
- **TimersProofs.** `TimerTypes`, `EachArmedOnce`, `NoneRunsEarly`, `ClockNeverAhead`,
  `WaitsFit`, for any cyclic timers whose intervals are short against the word. The
  lemmas say what the walk of `sys_timeout_abs` does to a list of any length: the sums
  of the differences (`Totals`) before and behind the new entry stay as they were,
  and the new one is due no sooner than asked. `ClockInv` says that until the
  tick falls back lwIP's clock is behind it by `lag` and stays so while the expired
  timers are run, `WaitInv` that a wait began in the step of the tick `t0` holds. Inductions over lists and over the
  recursive functions of the model go by a least counterexample, with
  well-foundedness of the naturals.

Every safety property of the passing runs is proved. Only model-checked are the
liveness properties, since fairness is out of the prover's reach. Of four of them
the part that needs no fairness is proved: for HungTrialRecovers that no step leaves
the way to recovery (`HungAppIsGuarded`), for BlocksComeBack and JobEnds that a measure
falls (`SilentBlocksAge`, `JobsWindDown`), for NoFrameStuck that a waiting frame is
announced (`NoWakeUpLost`). That these steps are enabled and taken, and VerifyAnswered,
stay with TLC.

## Assumptions

- A flash word is programmed atomically; an ECC error in a torn word, which would
  fault the reader, is not modelled.
- CRC32 has no collisions among the images.
- In OtaReceive and VersionCheck timeouts may fire at any time, so their results
  do not rest on the tick.
- The W25Q256, the QUADSPI controller, the Ethernet DMA and the HAL are modelled
  from how the code uses them.
- `Iwdg_Enable` writes prescaler code 3, which divides by 32: the watchdog fires
  after 2.5 s, where the comment says /64 and the README 5 s.
- Two comments in `menu.c` disagree on a trial that was not reset by the watchdog:
  276 says it becomes CONFIRMED, 405 that it stays TESTING, which the code does. The
  README lists a menu entry `[9] QSPI test` that does not exist. Some prototypes
  used by `ota.c` (`Version_Check_GetVersionNumbers`) are not in the published sources.

## Not modelled

- **Most of lwIP.** The copy of lwIP 2.0.3 is by far the largest part of the sources.
  Much of it is not compiled into this program or not reached by it (IPv6, PPP,
  SNMP, sockets, HTTP and the other applications). Of what is, the modelled part
  is the one whose control the bootloader depends on: control blocks, callbacks,
  timeouts, the buffers held by reassembly. The data path of TCP (sequence numbers,
  windows, congestion control, segment queues, `tcp_out.c`), ARP, IP, UDP, ICMP and
  the heap reach the bootloader only as segments that arrive or not and memory
  that is there or not, and the models leave both choices open.
- **The HAL** is not in the repository.
- **Transmission and link** (`low_level_output`, `ethernet_link_check_state`), **PHY**,
  **UART**, **GPIO**, **network configuration**: register I/O and start-up code that keeps
  no state the update path depends on.
- **CRC32**: a loop over bits; the models need only that it tells images apart.
- **Watchdog period**: a hardware constant; the watchdog may fire whenever the App
  hangs.
- **Driver functions that nothing calls** (sector and chip erase, memory-mapped mode,
  `sys_untimeout`).
- **Fault handlers**: endless loops.
