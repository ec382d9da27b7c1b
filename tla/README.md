# Verification of the 4G battery-management firmware

This directory models and checks the firmware in `src/App_AllBMS_03/projects`: a
battery management system (BMS) for 17- and 24-cell packs on an N32WB43x
microcontroller, with a DVC1124 analogue front end (AFE) on I2C, an EEPROM, an SPI
NOR flash and UART, CAN, SIF and BLE links. Below, paths are relative to
`src/App_AllBMS_03/projects/bsp/src` unless they start with another directory.

The firmware has no threads. `main` (`../../src/main.c`) runs one cooperative loop:
the due timer tasks (`AFE_Handle` each 20 ms, of which every fifth call does the
work; the three message pumps each 20 or 50 ms; `SocEstimation` each 50 ms; the
periodic log each second), then `MosCtrl`, the BLE and CAN pumps, `Shallow_Sleep`
and `Deep_Sleep`. Concurrency comes from interrupts (UART, CAN, wake-up lines),
from the AFE chip, which trips and opens FETs on its own between any two I2C
transfers, from transfers that fail, from masters that send commands at any time,
and from resets and power failures.

## Inventory

| component | state | operations | what makes it hard | what makes it correct |
|---|---|---|---|---|
| Protection, FET control (`Protection.c`, `DVC1124.c`) | `pro_flg`, `waitpro`, the delay counters, the SCD recovery's state, timer and retries, the shadow flags `dsg`, `chg`, `pdsg`, the register cache `g_AfeRegs` | `Protection_handle` (ten detectors and the diagnosis), `Fet_Status`, `BrokenDetect`, `MosCtrl` | the chip acts concurrently; the cache is stale when written back; transfers fail; ten detectors share flags and counters | a fault opens its FET, a release reaches the chip, recovery ends, a healthy pack comes back |
| Log ring (`MemoryModule.c`, `spi_flash.c`) | flash contents, write pointer and count of each area | `LogItemWrite`, `LogReadByIndex`, `LogAreaScan`, `Flash_MemoryInit` | power fails inside an erase or a write; NOR flash only clears bits; the pointer is reconstructed | the newest records survive, damage stays in its sector, indices mean the same thing |
| Log transfer (`ModbusPro.c`) | one batch state machine per channel | `SCLogMemorySendData`, `LogMemorySendPoll` | the ring changes under a transfer | each record once, newest first, and an end |
| State of charge (`Soc.c`) | estimate and display, both latches and their counters, the initialisation's step and timer | `SOC_Init`, `SocEstimation`, `SOC_WakeupCalibrate`, calibration | histories: latches, holds, clamps, sleeps and commands in any order | display converges, latches hold, 100 % and 0 % are reached |
| Power modes (`Port.c`) | `shallow_sleeping`, `deep_sleeping`, wake-up flags | `Shallow_Sleep`, `Deep_Sleep`, wake-up interrupts | sampling stops before the sleep; wake-ups race with the sleep; commands change the flags | no sleep in under-voltage, wake-ups are not lost, sampling resumes |
| Parameter store (`MemoryModule.c`, `App.c`) | the EEPROM's blocks, their RAM copies, the page pointer of a save | register and CAN writes, `byEEMemoryWrite` page by page with read-back, `byEEMemoryRead`, `App_Init`, `FaultLevelInit`, `FaultLevelOneKey` | power fails between pages; lost pages are not noticed; one block's defaults depend on another | a block is old, new or default; thresholds fit the battery type |
| Modbus registers (`ModbusPro.c`, `ModbusProEx.c`, `App.c`, `Usart_Com.c`) | three receive/transmit buffers with time-outs | reception interrupts, dispatch, register reads and writes | interrupts append while the loop clears; replies share one buffer; saves and resets keep the loop | frames are sent whole; a repeated request is answered |
| CAN (`User_Can_Config.c`) | one received frame, report timers | interrupt, `CanTxRx` | the frame is overwritten | the latest command is served |
| SIF (`SifModule.c`) | bit counter, frame | timer interrupt | frame changed while sent | a frame is sent whole |
| BLE (`../../ble`) | DMA ring, AT line, connection state | ring drain, AT parser, event handlers | ring overrun, line overrun | commands in order |
| Sampling, balancing, heating (`DVC1124.c`, `Temperature.c`) | measurements, `uiBalMaskFlags` and its prepared value, the chip's mask | conversions, `Blance_Cell`, `Heating_Ctr` | writes fail unnoticed; chip resets switch resistors off behind the loop | cells are balanced after two passes agree; the chip ends with the wanted mask |
| Clock (`TimeModule.c`, `time_config.c`) | RTC | conversions | calendar edges | round trip |

They interact through shared globals of the loop: protection reads the samples and drives the FETs `MosCtrl` owns,
unless a diagnosis command drives them itself; its diagnosis writes alarm records into the log ring; the log ring is
read by the Modbus channels; the estimator reads samples and is reset by the sleep and by commands; the sleep stops
sampling, protection and the 485 and BLE channels, and waking up resets the chip; masters write the parameters that
protection, balancing and the estimator read, and a save of them keeps the loop. `PROJECT.json` lists the hazards at
their lines with the properties that cover them.

## Modules

| module | models |
|---|---|
| `Protection` | `Protection.c` and the 100 ms branch of `AFE_Handle`, with the chip |
| `MCProtection` | the sets of samples and failures of its runs |
| `ScdRecovery` | what the short-circuit recovery promises: a probe ends in a verdict, shorts are counted, it gives up, it holds the FETs while probing |
| `ProtectionProofs` | its inductive invariant and theorems, and that it implements `ScdRecovery` |
| `LogRing` | one log area: append, erase, scan, index, power failures |
| `LogSend` | a Modbus channel reading that area, composed with the ring |
| `MCLogSend` | its instance |
| `LogRingProofs`, `LogSendProofs` | theorems about the ring, and that the composition implements it |
| `SocEstimation` | `Soc.c` |
| `MCSocEstimation`, `SocProofs` | its instance and its theorems |
| `PowerMode` | `Port.c`'s sleeps in the turns of the loop |
| `MCPowerMode`, `PowerModeProofs` | its instance and its theorems |
| `ParamStore` | what the program relies on for one block: the abstract specification |
| `ParamBlocks` | the three parameter blocks, their writes, saves and restarts |
| `MCParamBlocks`, `ParamBlocksProofs` | its instance; its theorems, the refinement among them |
| `UartChannel` | the 485 channel: interrupts, time-out, loop, replies, resets, sleep |
| `MCUartChannel`, `UartChannelProofs` | its instance and its theorems |
| `Balance` | passive balancing with the chip's mask and the commands |
| `MCBalance`, `BalanceProofs` | its instance and its theorems |

### Protection

`prot` is one record: the MCU's data and the chip's registers. Each detector function
of the C code is an operator from a record to the next, with its early exits and
counters in source order, and `ProtectionHandle` composes them in the order of
`Protection_handle`. `AfeHandle(s, bad, late)` is one pass: `s` is what was
measured, `bad` the transfers that fail, `late` the flags the chip raises after the
pass last read R0. `MosCtrl(bad)` is the rest of the turn. `AfeTrip` is the chip
between passes, `Reset` a reset of the MCU whose `AFE_Iicinit` reaches the chip or
does not, `Stall` a turn held up by a flash or EEPROM write.

`ExecDiagnoseCmd` is a tool's command (`App.c:1050`): it sets the diagnosis mode and, in basic
diagnosis, writes both gates itself, past faults, pre-discharge, recovery and shadow flags. `MosCtrl` goes on
until the next pass of `CurrentAcquisition` takes the mode over. Heater, calibration and balancing commands are
elsewhere or left out. The sleeps appear as protection sees them: `asleep` is `shallow_sleeping` or
`deep_sleeping`, from `Doze` to `Rouse` the passes are `AfeSkipped` and `MosCtrl` goes on with old samples; `Wake`
is the end of a sleep, which resets the chip, presets the cached registers and leaves RAM, shadow flags included, as
it was (`Restored`). `Wake` asks for `Rested`: a minute of turns lies before it, in which the ages run out and a pre-discharge
`MosCtrl` had begun ends; a probe that a nap froze keeps its PDSG until the sleep. What wakes whom is in
`PowerMode`, and so is the shut-down of the chip in a deep sleep, which here is a doze ended by a command or a reset.

The recovery counters have 16 bits and run on while `CleanFlg` fails (`Counted`, `ReleaseStep`), so that once round they are
short of the delay again; `CounterMod` is 3 in the runs.

A sample does not hold voltages but their relation to each detector's thresholds
(trip, hold, release): the code compares and does no more. Times are counted in
100 ms passes; ages stop growing at `ScdBound` and `PreBound`, beyond every limit
they are compared with. The chip is external and described from its use and the
register comments of `DVC1124.h`: a flag of R0 is cleared by writing 0 to it, an
output is on when its bit of R81 is and no flag blocks it (R6 shows it), a flag that
is cleared lets a command still standing in R81 take effect, PDSG has no effect on
DSG under the preset of R83 and R84. A transfer that fails leaves the chip as it was.

`ScdRecovery` is the recovery of `ProtectSCD` without times, measurements and chip, with the main discharge FET and the
lock on it. `RecoveryRefined` maps its stage, tries, lock, FET and tool to `scd`, `retry`, `active`, the chip's gate and
`eDiagMode`: the two retry branches, the three ways back to `SCD_STATE_IDLE` and the
lock on `MosCtrl`, set or cleared in six places, are there one step each. It does not promise that the load is probed before it is
connected again, because the code does not: outside the probe the main FET is `MosCtrl`'s (`Drive`), and `MosCtrl` does not look at
the recovery.

`preAge` (how long PDSG has been on) and `settled` (from now on transfers work, no tool is in charge, there are no more
commands, trips or resets, and the pack stays within `SettledSamples`) are history and environment variables. Naps and
wake-ups go on after `settled`; `DischargeReturns`, `DsgFaultOpens` and `ChgFaultOpens` therefore speak of a pack that is kept
awake from some point on. One that naps need not keep its output: see `OutputReturns` of `PowerMode`, below.

### LogRing and LogSend

`flash` gives each slot's contents: a record's number, blank, or one of two kinds of
damage: an item without a valid marker, which both readers skip or stop at, and one with
a marker and a wrong CRC, which `LogReadByIndex` accepts and `LogAreaScan` does not.
`LogItemWrite` is the whole append. `CutErasing`, `CutErased`, `CutProgramming` and
`CutStored` are the append with the supply failing in it, followed by the scan of the next
start. `next`, `since` and `damaged` are history: the next record's number, the first record
since the pointer last lost the newest one, the sectors with damage. In `LogSend`, `chan`
is one `tLogSendCtrl` and `sent` the frames of the current transfer; only one channel is
modelled because the three share nothing but the ring. `Sleep` and `Wake` are `Shallow_Sleep` in the middle of a
transfer (`asleep`): the loop stands still, and what is to be sent waits.

### SocEstimation

`soc` holds estimate, display, latches and counters; `boot` the initialisation. An estimation
is `Integrate`, `Release`, `Endpoint`, `Pin`, in the order of the code. Values are integers
of 0.01 %; the charge of a sample is in half steps of the display, because the code moves it
at 1, 0.5 or 1.5 times the estimate's rate. Cell voltages are what they are compared with. The
OCV table is reduced to the set of values it may answer and the capacity statistics
(`SohAccAhCacl`) are left out: they change the step of a sample, not the control.

### PowerMode

`pc` walks through one turn: `AfeHandle`, `ExecMsgProcess`, `MosCtrl` (with `CanTxRx`),
`Shallow_Sleep`, `Deep_Sleep`; "arm" and "wfi" are inside `Shallow_Sleep`, before and after the
wake-up flags are cleared. `nap` is `shallow_sleeping` with the age of `Shallow_time`; `deep` the
flags of `Deep_Sleep`, the age of `sleep_time` and the command bit `bBm2`; `afe` the call counter
of `AFE_Handle`, whether its 20 ms are over, and the last sample, of which only what the sleeps
look at is kept: current flows, idle, or idle and below `wCellVolMin`. `fet` is the discharge
output: the shadow flag `dsg`, what the chip does, and whether the chip is up. Interrupts are
`Receive` and `Edge`, allowed where they change something: between the turns, after the pumps,
and at the two places of the sleep. The flags matter in the sleep only, since they are cleared
before it, so a flag that is set elsewhere, or left set by a wake-up, is not kept. BLE's connection
is a free choice in each turn.

A tick is longer than the six seconds of silence `Shallow_Sleep` asks for, so after it nothing has
been received. Left out, because `Protection` has them: the pre-discharge on the way to the output,
the reasons of `MosCtrl` (here it may want either), the charge output. `AFE_Iicinit` succeeds on
a chip that is up and may or may not revive one that is shut down. `settled` (from now on the bus
works, and neither under-voltage, commands nor BLE come) and `down` are environment and
history variables.

### ParamStore and ParamBlocks

`ParamStore` is one block as its users see it: a copy, the set `may` of what a restart may find,
and whether a save is under way. `Edit`, `BeginSave`, `EndSave` and `Restart` are all that can happen: a
restart finds a content handed to a save since the last one known to be stored, or a damaged block, which
gives a default. `ParamBlocks` has the three blocks that are restored: "levels" (`g_tFaultDataParam`), "spec"
(`tEESpec`), "run" (`tEERun`). `StoresImplement` instantiates `ParamStore` three times with `ram`, `may`,
`read` of one block and "a save of it is under way" for `saving`.

A block is a number of pages and, in the last, its CRC; a page stands for the registers in it. The CRC of
a content is the content itself, so a block is intact when CRC and pages agree. A save is `BeginSave`
(`AX24_Master_MultiSend` cutting the block into pages), one `SendPage` per page, and `CheckSave` (the
read-back, and what its caller makes of the result): the result is used after a Modbus write only, to reset
the MCU; `CanTxRx` saves "levels" and then "run" whatever it changed. A page that is sent may be stored, lost,
or torn, and the code does not look; a read may fail. A power cut is possible in every state, also
inside a page. `Written` includes `FaultLevelOneKey`: a change of the type in the first page of "spec" brings
the thresholds of that type into "levels" and its limits into the second page. `Boot` is `App_Init`
followed by `FaultLevelInit`, as in `Init_Handle`. That a page write does not disturb its neighbours is
taken from the device; blocks are not aligned to its pages, but only the bytes sent are written.
`clean`, `may`, `read` and `keyed` are history.

"levels" has two pages: the thresholds of a cell, and those of the whole pack. `BrokenDetect` is the end of
`BrokenDetect` (`DVC1124.c:595`): every 5 s, once the cells are counted, the pack's thresholds are worked out from a
cell's and the number of cells, in RAM only. `Scaled` gives the values this may yield for a cell's thresholds: the
multiplication, the division and the two limits of the code are abstracted to it, and none of them need equal what
`FaultLevelOneKey` sets. `FitsType` allows both. `keyed` says that a change of type has set the thresholds since they
were last written by a master, and that the type survived the restarts since.

### UartChannel

The 485 channel (`ExecMainMsgProcess`, `USART485_IRQHandler`). A tick is the time of one byte. `Tick` moves the clock,
the master and both interrupts: `Received` is the receive half of the handler and SysTick's countdown of `Timeout_ms`,
`Transmitted` the transmit half. The loop's visit is split where interrupts matter: `Pump` (is anything there, has it
ended), `Exec` (decode, act, reply), `Saved` and `Reset` (a write that saved a block and the 20 ms before the reset),
`Clear`. A frame is a kind and a number of bytes; the master sends requests of `ReqLen` bytes, the line loses bytes
and adds some (`Noise`), a whole request is one the CRC accepts. `RecvIsOk` is `recv_isOk`: reads and writes are known
by their head and their length, so a damaged one of the right length is taken, and dropped, at once; log requests and
others end by time-out. An unknown function code may leave two error frames, of which the second replaces the first
before a byte is sent: one `Send`, or none. `log` is the channel's `tLogSendCtrl` without the records, which `LogSend`
has. The direction pin is left out. The debug UART has the same handler and pump but stays on in a sleep; the BLE
channel sends through another link and is not covered. The master waits for an answer and repeats itself after
`Patience` ticks of silence; it is external.

Two things come from outside the channel. `ResetElsewhere` is a reset nobody asked for here: after a save that another
channel asked for (`ModbusPro.c:348`, `:449`) or by `updata_ble` (`DVC1124.c:659`), between any two of this channel's
visits. The time such a save takes is among the ticks between two visits (`PumpMax`). And the sleep: `quiet` is the
age of `g_u64LastCommMs`, which only bytes found in the buffer renew, so a log transfer ages it. With it run out
(`Hush`, the 6 s, and `Nap`, the minute) an idle pack may `Drowse` (the save of the run block), `Sleep`
(`Sleep_PeripheralDisable`: no clock for the USART, a frame stops where it is, `Deaf`), be woken by a byte on the
line, which is lost, or by another source (`Rouse`), and `Wake` after the restore, its 6 s still past. That current or
a connected phone keeps the pack awake is left to the choice of taking `Drowse` or not. `torn` is history: a sleep cut
into something, and what it left is not finished.

### Balance

A cell is named by its bit in the chip's mask. `Pass` is the part of a pass of `AFE_Handle` that balances:
new voltages if they could be read, the chip's temperature, `Wanted` (the mask the criteria ask for, in
the integers of C, where a cell at 0 is far below the lowest), and `BalanceProcess`, which reads the chip's
mask, compares it with the wanted one and writes a mask that two passes in a row asked for. `Writable` is
the test of `Balance_Contrl`. `ExecDiagnoseCmd`, `WriteCriteria` change the criteria; `Wake` and `Reset` are
the two callers of `AFE_Iicinit`, which leaves the chip without a mask or is not heard. The mapping of the 17S
board from cells to bits is a renaming and left out, as are the flags reported. `settled`
(cells, criteria and bus are steady, balancing stays enabled), `asked` and `stopped` are environment and
history.

## Runs

| run | module and configuration | shows | states |
|---|---|---|---|
| `prot_scd` | `MCProtection`, `ProtScd` | type, `ScdLockout`, `FaultReported`, `PrechargeFirst`, `OffWhileFaulted`, `RecoveryRefined`, `ProbeEnds`, `DischargeReturns` with the chip tripping on a short circuit at any moment, passes and gate writes that fail, diagnosis commands, naps and wake-ups | 960 000 |
| `prot_volt` | `MCProtection`, `ProtVolt` | `OvInhibits`, `ReleasedInChip` under voltage faults and overcurrents of chip and MCU, failing transfers and counters that wrap | 366 000 |
| `prot_soft` | `MCProtection`, `ProtSoft` | `DsgFaultOpens`, `ChgFaultOpens` under overcurrent, temperature, open wires, failing gate writes, diagnosis commands and naps | 882 000 |
| `log_transfer` | `MCLogSend`, `LogTransfer` | the ring's and the transfer's properties under every power failure and with sleeps | 236 000 |
| `soc` | `MCSocEstimation`, `Soc` | `LatchesApart`, `LatchHolds`, `GapNeverGrows`, `EndReached` | 29 000 |
| `power` | `MCPowerMode`, `Power` | `SleepsAboveUv`, `DeepSleepLasts`, `MasterHeard`, `OutputReturns` with frames, wake-ups, commands and resets at any time | 161 000 |
| `params` | `MCParamBlocks`, `Params` | `LevelsFitType`, `StoresImplement` with writes, saves, recalculated thresholds, lost and torn pages, failed reads, power cuts and resets anywhere | 1 534 000 |
| `channel` | `MCUartChannel`, `Channel` | `OneTalks`, `RepliesSpared`, `WholeFrames`, `Answered` with a patient master, a line that spoils bytes and frames, saves, resets of this and other channels, and sleeps in transfers longer than the pack stays awake | 986 000 |
| `balance` | `MCBalance`, `Balance` | `MaskConfirmed`, `BalanceFollows` with any voltages, commands, failures and chip resets | 31 000 |

Three runs show the code departing from what its comments say; each quotes its comment
in `PROJECT.json`:

- `prot_reversal`: charge current does not release a discharge overcurrent, it clears the
  under-voltage flag instead; `ProtectOCC2` is never called.
- `log_scan`: after a restart with the pointer at a sector boundary and all sectors full the scan
  does not find the pointer. `NewestKept` states what is kept nevertheless.
- `balance_stop`: the command commented "stop balancing" is an empty branch, so the chip goes on. Other
  command values set both criteria to 0, with which every cell is asked for: if the pack uses all 24 switches
  that mask is never written, otherwise it is.

A related behaviour shapes `OutputReturns`: a load connected to a pack that is asleep keeps waking it,
each wake-up resets the chip and so opens its FETs, and the shadow flag, stale until a sample is
completed, keeps `MosCtrl` from closing them; the next nap may begin first. The output comes back again
and again (`[]<>`), since the calls that are not frozen add up to a sample; it need not stay on.

Other behaviours seen while modelling, which no run states as a property:

- The diagnosis clears the short-circuit flag in the pass that starts the recovery (`Protection.c:1003`), so during
  the cool-down and after the latch nothing keeps `MosCtrl` from closing the discharge FET again (the chip's detector
  then trips anew). `ScdLockout`, `RecoveryRefined` and `DischargeReturns` hold all the same, and none of them says
  otherwise.
- After a nap that froze a probe, the probe's time is over and the chip, just reset, shows no short: the probe counts as passed
  though PDSG was off for the sleep. A short that is still there trips the chip in `DSG_VERIFY`.
- A log transfer does not count as communication (`Port.c:355`): some 66 s into it an idle pack without a connected
  phone falls asleep, cuts the frame it sends, and waits until a byte or another source wakes it. The transfer goes on
  from there if the master is content to wait; a master that repeats its request starts it anew and is cut again.
  Hence the exceptions in `TransferEnds`, `WholeFrames`, `OneTalks` and `Answered`; `RepliesSpared` says that the
  replies to reads and writes are not cut.
- A save on one channel resets the MCU whatever another one is sending (`ModbusPro.c:348`, `:449`, `DVC1124.c:659`).
- After the first lap a transfer need not start with the newest record: `LogReadByIndex`
  (`MemoryModule.c:559`) rotates the index by the count though a sector was erased (`ModbusPro.c:598` says newest first).
- `AFE_Handle` returns while `shallow_sleeping` is set, from the start of the idle minute, so current
  that flows during it does not prevent the sleep (`Port.c:360`).
- A save none of whose pages was taken reads back the old, intact block and reports success
  (`MemoryModule.c:374`): the MCU resets into the old content. `StoresImplement` allows it, as it is old or new.
- Thresholds that were saved once survive a later change of the battery type: only RAM gets those of the
  new type, unless their block is saved too (`ModbusPro.c:320`, `App.c:337`). Hence the condition of `LevelsFitType`.
- CAN frames 0x102 and 0x103 change "spec", but the save they cause writes "levels" and "run" (`User_Can_Config.c:535`).
- The address of the BLE name lies beyond the EEPROM's area, and its write and read use other addresses
  (`App.c:313`, `ModbusPro.c:335`): it is never restored, so it is no block of the model.
- Neither `SCI_GeneralSendParamOut` nor `LogMemorySendPoll` looks whether a frame is still being sent, and `w_index`
  is not set back. What keeps frames whole is time alone (`Timing`), which no code enforces on the master's side. A
  master that repeats a log request while a record is on the wire restarts the transfer, and its first record, due at
  once (`ModbusPro.c:579`), replaces the one being sent: the frame on the wire ends with bytes of the new one or, if
  that is a shorter end frame, at once. `Answered` still holds then: the master repeats itself again.
- Every gate command writes the whole cached `R81`. A command to turn the main FET on whose write failed stays in the cache while
  `Fet_Status` sets the shadow flag off; a fault that comes then finds nothing to close, and the next command for another gate
  carries the bit to the chip (`Protection.c:415`, `MosCtrl`). The next turn sees the output on and closes it: `DsgFaultOpens`
  holds, `OffWhileFaulted` only on a bus that works, which `prot_scd` and the theorem assume.
- `OverTempProtect` compares an uninitialized value when its read fails (`DVC1124.c:419`); in `Balance` it is a free choice.
- Clearing `eDiagBalance` while cells are balanced leaves the chip's mask on (`DVC1124.c:645`).
- `CanTxRx` waits in the loop for its transmission (`User_Can_Config.c:516`), and the CAN interrupt replaces a
  frame that is being handled.
- A failed read of the open-wire result drops a standing open-wire fault (`DVC1124.c:550`, in `Protection`), and
  a failed read of the cells gives a pack voltage of 0 (`DVC1124.c:348`, not in it).

**Bounds.** Protection: delays of 2 passes (1 or 2 in `ProtSoft` and `ProtVolt`), SCD times of 2 ticks, 2 retries,
pre-discharge 1 and 2 ticks. With 2 a counter has a first, a middle and a last value, so resets in between and
off-by-ones show; recovery counters wrap at 3, just past that; each run moves one group of detectors and leaves the
others at rest, as groups share only the flags, the level and the FETs; three diagnosis commands (take over with the
main FET on, shut off, leave), two in `ProtSoft`, none in `ProtVolt`; the theorems have no such limits. Log: 3 sectors
of 2 records, so that wrap, sector boundary and a sector that is neither current nor next exist; 10 records, nearly
two laps; counts of 0, 2 and 9 (more than exist); `IdxRange` 8 stands for 16 bits, larger than the area as in the code
(`AreaAssumption`). SOC: a scale of 12 with the display held at 10 and 2, a latch after 2 samples, saved values and
commands beyond the scale. Power modes: a sample every second call (for 5), delays of 2 and 3 ticks, so that a wait
has a beginning, a middle and an end and either may end first; one wake-up wire besides the UART and one polled line,
as all of a kind are alike. Parameters: "levels" and "spec" of two pages, so that a save has a page that is not its
last, and "run" of one; two contents, one of them the default, and one result of the recalculation, which fits one
type's setting and not the other's; two saves, so that a second one starts on what a first one left; one failure, at a
page, a read-back or a start. Channel: requests of 3 bytes into a buffer of 5, so that it fills; replies of 2 or 3
bytes and records of 6, so that records take long beside the rest; transfers of up to eight records, an interval of 7
ticks apart, which outlast the 49 ticks after which an idle pack sleeps; two disturbances (a byte, frame or record
spoilt, or a reset by another channel), so that one can meet the repair of the other; a patience just above what
`Timing` asks for and a sleep just later than `KeepsAwake` asks for. Balance: two cells, on all of two switches, so
that the mask that is not written exists; an open wire and three voltages; differences 0 and 1.

**Fairness.** `Protection`: weak fairness of the two halves of a turn, `WF_phase(TasksDone)` and `WF_phase(TurnDone)`;
the loop never blocks for ever, every wait in it is bounded and the watchdog restarts it. Nothing is assumed of
samples, trips or failures; the liveness properties assume `settled` where they need a quiet bus, and no chip trip
after it. A sleep may last for ever, so what needs samples says "kept awake". `LogSend`: strong fairness of
`LogMemorySendPoll`: awake, the pump calls it every 20 or 50 ms when its receiver is idle, and between two sleeps lies
a minute of turns (`SHALLOW_SLEEP_TIMEOUT`), so it comes to its turn in each; weak fairness would demand a loop that
never sleeps. It supposes that the master does not send without pause, and it does not suppose that a sleep ends:
`TransferEnds` excepts the pack that is never woken again. `SocEstimation`: weak fairness of `SocTask`, a timer task.
`PowerMode`: weak fairness of `Turn` (the loop goes on, and leaves the sleep if something keeps waking it) and strong
fairness of `Tick`, as the clock runs on but a tick is placed between turns. `MasterHeard` assumes in its statement
that a sleeping pack is not left alone for ever. `UartChannel`: weak fairness of `Tick` and of `Loop`: the clock and
the interrupts run, and each wait of the loop is bounded; the line spoils finitely much. The sleep is no such wait:
nothing makes it end, neither `Rouse` nor a byte is assumed to come, and `Answered` holds because the master's own
bytes wake the pack (`KeepsAwake`: one that repeats itself keeps it awake, checked as an assumption of
`MCUartChannel`; a log transfer is excepted). `Balance`: weak fairness of `Pass(TRUE)`, a pass each 100 ms;
`BalanceFollows` assumes `settled`. `ParamBlocks` has safety only.

`CHECK_DEADLOCK` is left on everywhere: no specification stops.

## Proofs

All theorems hold for all values of the constants under the named assumptions (`DelayAssumption`, `InputAssumption`,
`AreaAssumption`, `CountsAssumption`, `SocAssumption`, `SamplesAssumption`, `WaitAssumption`, `WireAssumption`,
`PagesAssumption`, `DataAssumption`, `ScaledAssumption`, `TornAssumption`, `BoundsAssumption`, `LenAssumption`,
`RxAssumption`, `TimeAssumption`, `LoadAssumption`, `CellAssumption`, `VoltAssumption`), which TLC evaluates in each
run.

- `ProtectionProofs`: `TypeCorrect`, `ScdLockoutHolds`, `OvInhibitsHolds`, `FaultReportedHolds`. The inductive
  invariant joins these: type, lockout, and the inhibit and the level against the flags; the last two need that flags
  go up nowhere but in the detectors and `TakeFlags`, before the inhibit and the diagnosis are computed, and that a
  reset and `BrokenDetect` only take flags away. A relation "keeps everything but" (`Keep`) is proved of each detector
  once and composed along `ProtectionHandle`; there is one lemma for each state of the short-circuit recovery.
  `ReleasedInChipHolds` follows a relation between the state before a pass and each state within it (`Detects`): flags
  of the chip only go down, the cached `R0` is what `CleanFlg` writes back, and a flag the MCU drops has been cleared
  there with a write that succeeded. One detector slips: charge current, meant to release a discharge overcurrent,
  drops "Uv" unchecked; by then `ProtectUV` has found the current to charge and cleared CUV in the cached `R0`
  (`Pending`). The exception in the property is the correction of the cell count, which drops flags in a pass that
  looked at nothing. `PrechargeFirstHolds`, which excepts the diagnosis command itself but not what it leaves behind,
  assumes `BusWorks`: reads of the FET state and writes of the gates PDSG and DSG arrive, and the chip answers at
  start-up. Each part is needed: a shadow left stale by a failed read, a cached gate written by a later call, or a
  PDSG left on by a reset that was not heard makes the main FET follow at once. Its invariant `PreIn` says that the
  shadow is what the chip has or older by one step, and that the clock `MosCtrl` reads is not behind the age of a
  closed PDSG, except during a probe, when `MosCtrl` is locked out. `OffWhileFaultedHolds` rests on the same invariant
  and the same assumption: as the cached gates are those of the chip, a write for another gate carries nothing stale,
  and only `DsgCtrl`, past its look at the faults, turns the main FET on, or a diagnosis command, which both
  properties except. `RecoveryRefinedHolds` needs that a detector other than `ProtectSCD` leaves the recovery alone
  (`ScdMoves`, composed along the pass like `Keep`) and maps each of its moves, the passes that fail, the gate writes
  of `MosCtrl` and of diagnosis commands, the wake-ups and the resets to a step or a stutter of `ScdRecovery`; it
  assumes `BusWorks` as well, since a gate write that fails in the cache and arrives with a later one would turn the
  FET on inside a probe.
- `LogRingProofs`: `CountTracks`, `TearsConfined`, `NewestKeptHolds`, `OldestFirstHolds`, `FullStaysReadableHolds`, for every
  size of the area and of its sectors. The invariant of the first two, `IInv`, adds to them that what is not a whole
  record lies in a damaged sector, that a healthy sector is blank from some slot on, and that the pointer,
  unless at a sector's start, is that slot, so that programming never mixes there. Modular arithmetic is
  put in lemmas (`ModSucc`, `SectorStart`, `SectorSame`); the least invalid slot of `Scan` exists by
  well-foundedness. `RecordsGood` adds that no record is there twice and that the newest one, unless the pointer has lost
  it, is right behind the pointer: a restart that finds it therefore finds the old place, or the base for the end of
  the area, and `NewestKept` with it. The sector an append erases holds none of the records that must stay (`ErasedIsFar`), and
  what an outage leaves is the contents before the append less some records (`LossKeeps`) or those after it
  (`StoredKeeps`). `LapInv` says that before the ring has lapped the count is the pointer, and that no blank slot lies behind it.
- `LogSendProofs`: `SendImplementsRing` (every step of the composition is a step or a stutter of `RingSpec`), from
  which the ring's theorems carry over; its own type; and `FirstLapInOrderHolds`, through sleeps and restarts. Its
  invariant `OrderInv` ties the frames sent to the channel's index while the ring is `Orderly`: not lapped, and no
  damaged sector behind the pointer. This is weaker than the property's `damaged = {}`, which a later append can
  restore by mending a sector, and unlike it cannot become true during a transfer (`OrderlyBefore`).
- `SocProofs`: `TypeCorrect`, `LatchesApartHold`, `LatchHoldsAlways`, `GapNeverGrowsHolds`. The
  last is by cases on which side of the estimate the display is and whether the step crosses it
  (`CloserDown`, `CloserUp`), and on holds, latches and clamps.
- `PowerModeProofs`: `TypeCorrect`, `SleepsAboveUvHolds`, `DeepSleepLastsHolds`. `NapSeen` says that during
  a nap without a deep sleep the frozen sample is not low, except right before `Deep_Sleep` sees it, and
  that the sleep itself is within such a nap; `DownHeld` that after an under-voltage shut-down the age of
  `sleep_time` stays at its limit, so that the turn in which a command cleared `deep_sleeping` sets it again.
- `ParamBlocksProofs`: `ParamTypeCorrect`, `LevelsFitTypeHolds`, `StoresImplementHolds`. The invariant says that what
  the EEPROM holds may be found (`Found`: the CRC is that of a content in `may`, and a block that is not intact is
  allowed for), and that while every page was taken the pages sent are those of the copy (`Sending`). With it each
  action maps to a step or a stutter of `ParamStore`, for each block: the writes and `BrokenDetect` to `Edit` or
  `BeginSave`, `CheckSave` to `EndSave` (and `BeginSave` of the next block), `Restart` and `PowerCut` to `Restart`.
  `TornAssumption` says that the mark of a torn page is no content.
- `UartChannelProofs`: `UartTypeCorrect`, whose bounds on the two indices are the ones that matter: the receive index
  stays within the buffer whatever arrives, the transmit index within the longest frame whatever replaces what.
  `WholeFramesHolds` assumes `Timing`: a record is shorter than the interval between two (37 bytes against 300 ms),
  the reply to a write shorter than the delay before the reset (8 bytes against 20 ms), both given by the code at 9600
  baud; and the master waits longer than the loop may take, and longer than a transfer may be silent when everything
  the line can spoil is spoilt. The last two are about the environment: no code enforces them. The invariant `FInv` is
  the type, `Base` (a transmitter that is off is at its first byte, a master that does not wait has heard no silence:
  what a sleep leaves true as well) and, unless a sleep has cut into something, `Good`, which is `FrameInv` with
  `SleepIn` (a pack that dozes off with nothing in hand sleeps with nothing in hand). `FrameInv` says that a request
  is only ever taken while the master waits and nothing is being sent (`PendingIn`, `SavingIn`), that a transfer is
  under way only while its master waits (`RestIn`, from which `OneTalksHolds` follows), that a record is never older
  than its place in the frame (`TransferIn`), and how long the silence may have been: each disturbance costs at most
  an interval and the turns in which what was received is dropped (`Cost`, `QuietIn`). A reset by another channel sets
  it back to where nothing is in hand (`RestFrames`). Both theorems except that reset's own step and what a sleep has
  torn, until nothing is in hand any more. TLC checked `FInv` on the instance of `channel` first.
- `BalanceProofs`: `BalTypeCorrect`, `MaskConfirmedHolds` (the invariant: what is prepared is what the last pass asked
  for, and the known mask was asked for or read from the chip) and `LowestSpared`: with a positive difference no cell at the lowest
  live voltage is ever asked for, so the exception in `BalanceFollows`, the mask of all switches, needs a difference of 0.

Only model-checked: all liveness (`ProbeEnds`, `DischargeReturns`, `DsgFaultOpens`,
`ChgFaultOpens`, `TransferEnds`, `EndReached`, `MasterHeard`, `OutputReturns`, `Answered`,
`BalanceFollows`), and of the safety properties `RepliesSpared`.

## Not modelled

Of the repository's lines of C nearly all are vendored: `firmware/` (CMSIS, the peripheral drivers) and
`middlewares/` (RT-Thread, which the program does not include). The program's own
code is `projects/`, and of it what keeps state and takes decisions is modelled. Left out:

- the conversions of measurements (`Temperature.c`, most of `DVC1124.c`'s arithmetic), the OCV table's look-up and the
  learning of the capacity (`Soc.c:145`, `Soc.c:364`): pure functions of data the other models abstract from;
- `Heating_Ctr`: a hysteresis on two temperatures that drives one pin;
- the CAN reports and mailbox, and the SIF transmitter, whose state is a bit counter paced by a timer;
- the BLE link to the radio core (`../../ble`), AT lines and DMA ring, and the platform glue around it;
- the firmware update, which leaves the program for the boot loader;
- the calendar and the RTC;
- the contents of the registers that are read, which are copies of globals.

## Plan

1. Compositions: `PowerMode` with `Protection`, whose naps are still free choices of the environment; sleep with the
   estimator (`SOC_WakeupCalibrate` on a voltage from before the sleep, `Port.c:332`).
2. An abstract fault gate (a standing fault ends with the output off; a release needs a recovery),
   implemented by `Protection` through a refinement mapping.
3. The CAN mailbox and the BLE ring as further channels, with the interrupts that replace what the loop reads.
4. Pure functions: OCV look-up and calendar arithmetic, against reference definitions.
5. Further proofs: a store that `LogRing` implements; the frames of a transfer never number more than were announced.
