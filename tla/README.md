# YIPPEE flight computer: a TLA+ verification project

YIPPEE is a model-rocket flight computer: a Teensy 4.0 with a barometer, a GPS,
a LoRa radio and a 512 KB serial flash. The firmware detects the launch and the
landing from the barometer, sends telemetry to the ground, and logs the flight
to the flash. This directory models the parts of it whose correctness depends on
what happens *over time*: the flight log first, because a flight that is not
recorded cannot be repeated.

## 1. The system

| Component | Code | State it keeps | Operations |
|---|---|---|---|
| Flash driver | `lib/SST26VF040A` | none; the chip keeps the contents, the busy bit and the write-enable latch | `begin`, `read`, `write`, `eraseSector`, `eraseSector64`, `waitUntilReady` |
| Flight logger | `src/logger.{h,cpp}` | `settings_`, `oldest_written_section`, `addr`, `packet_array`, `buf_idx`, `state`, `allow_write_to_flash` | `begin`, `write`, `change_state`, and inside them `commit_settings`, `reset_flight`, `clear_first_sector`, `write_packet` |
| Flight state machine | `src/main.cpp` 410-458 | `FSM_state`, `initial_baro_altitude`, two counters, `LANDING_STATE_ALTITUDE` | one step at each barometer reading |
| Scheduler and set-up | `src/main.cpp` 133-270, 310-475 | the deadlines `NEXT_*` | `setup`, `loop` |
| Barometer driver | `lib/MPL3115A2` | none; the sensor keeps its one-shot bit, status bits and data registers | `readAltitude`, `readTemp`, `readPressure` |
| LoRa radio driver | `lib/HM-TRLR-S` | `errno_`, `channel_` | `write_command`, `set_*`, `transmit` |
| Telemetry packets and ground station | `src/main.cpp` 84-131, 273-308, `src/feather/main.cpp`, of `lib/RadioHead` the receiving half of `RH_RF95` | on the ground the driver's mode, its one buffer and the flag that it is full | encode on the board; `available`, `recv`, the interrupt handler, a line for each packet |
| Offload tool | `src/mem_offload` | none | `R0 R1 SET DUMP D0 D1 MEMRST` |
| GPS, LEDs, buzzer | `src/main.cpp`, `src/buzzer.h` | indication | - |

How they interact. On the board there is one thread: `loop()` calls the logger, the
radio and the sensors one after the other, and each call runs to its end. There are no
callbacks and no interrupt handlers of the firmware's own. So the concurrency is
not between tasks; it is between the firmware and the world. (The ground station is
the one program with an interrupt handler, that of its radio driver.)

* **the power** may go at any moment, also in the middle of a flash command. The
  flash is the only state that survives. The next `begin()` starts from what it
  finds;
* **the chip** erases in units larger than those it programs, and programming
  can only clear bits. The settings, a handful of bytes, share their page, sector
  and block with flight data, and each update erases more than it changes;
* **the devices** answer late, wrongly or not at all, and do their work at a pace of
  their own between two exchanges;
* **two timers** decide which of the logger and the barometer comes next, and how many
  packets go by while a launch or a landing is being made sure of;
* **two programs**, the flight firmware and the offload tool, change one flash in turn;
* **the history of boots** decides which of the two flight sections the next
  flight overwrites.

What makes each component correct:

* *logger*: what the offload tool reads back is the packets of the flight, in
  order, without gap or leftovers; the packets before the launch are there; the
  other flight and the settings survive; addresses and the ring's index stay in
  bounds; the flight recorded last is not the one overwritten next;
* *flight state machine*: a launch or a landing is only declared for readings
  that show one, and is declared when they do;
* *flash driver*: each command is enabled, accepted, and complete before the next;
* *the two together*: the logger is told of each change once; the log of a flight
  begins on the pad and ends on the ground, and is closed;
* *barometer*: each value returned is of a conversion of its own, and a recent one; no
  call waits for what cannot come;
* *radio*: set-up succeeds when the module has accepted the commands, and only then;
* *telemetry*: each packet received is printed once, and the line is what the board
  put in;
* *offload tool*: a deleted flight is gone and nothing else is; a formatted chip is
  formatted; what is printed is of one flight.

`PROJECT.json` lists every component, also those left out, and under `hazards`
the places in the code where something can go wrong that a test would hardly
reach, with the properties that cover each.

## 2. The modules

| Module | What it is |
|---|---|
| `FlashChip` | the contents of the chip, and what `read`, `write`, `eraseSector` and `eraseSector64` do to them |
| `FlashCalls` | abstract: what a caller of the flash driver counts on, atomic calls |
| `FlashDriver`, `FlashDriverInv` | the driver, one SPI command a step, with the chip; it implements `FlashCalls`; its inductive invariant |
| `Logger`, `LoggerInv` | the logger, one flash command a step, with power losses; its properties; its inductive invariant |
| `FlightRecorder` | abstract: what the logger promises to `loop()`, with no flash in sight |
| `LoggerRefinement` | the mapping under which `Logger` implements `FlightRecorder` |
| `FlightFSM`, `FlightFSMInv` | launch and landing detection at each reading, against the flight the board is really on; the flights it is made for (`OrdinaryFlight`); its inductive invariant |
| `FlightComputer`, `FlightComputerInv` | `FlightFSM` and `FlightRecorder` together, as `loop()` runs them on two timers; their inductive invariants |
| `Offload`, `OffloadInv` | the offload tool, and the flight board (`Logger`), taking turns at one flash; its inductive invariant |
| `Barometer` | the barometer driver against a sensor that converts at its own pace and a bus that fails |
| `Radio`, `RadioInv` | the set-up of the LoRa module by AT commands, and `transmit`; its inductive invariant |
| `RF95`, `Downlink`, `DownlinkInv` | the RFM95 driver as it receives; the board's packets, the air and the ground station's loop; its inductive invariant |
| `MC...` | for each of the above that is checked: the values of the constants |
| `LoggerProofs` | lemmas, theorems and machine-checked proofs: of division and the flash operators, and of the logger |
| `LoggerRefinementProofs`, `OffloadProofs` | the same of the refinement and of the offload tool, both on top of `LoggerProofs` |
| `FlashDriverProofs`, `FlightComputerProofs` (the detection included), `BarometerProofs`, `RadioProofs`, `DownlinkProofs` | the same of these |

What composes what:

    FlashDriver --implements--> FlashCalls    (the contract one step of Logger is)
    FlashChip <--extends-- Logger --implements--> FlightRecorder
                             ^                        ^
                          extends                  INSTANCE
                             |                        |
                          Offload              FlightComputer --extends--> FlightFSM
    RF95 <--extends-- Downlink

### FlashChip

The unit of address is a *slot* of 32 bytes, the size of a `LoggerStruct`: every
address the firmware uses is a multiple of it, except that the settings take the
first 16 bytes of slot 0. On the board a page is 8 slots, a sector 16 pages, a
block 16 sectors and a flight 4 blocks. A slot holds `Blank` (erased), a packet, a
settings record, or `Garbled`: bytes nobody asked for. `Program` says what
programming does to a slot that is not erased, and `Write` that the address wraps
inside the page. Those two are facts about the chip, which is outside the
repository; the driver's own comment ("only allows writing to one page at a
time", `SST26VF040A.cpp:97`) and the erase-before-write order of every caller rest
on them.

### FlashCalls and FlashDriver

`FlashCalls` is an abstract specification: a call is made, takes effect once and whole,
and returns; a processor that stops in between leaves the effect done, not done or cut
short, and it is settled before `begin()` returns. `Logger` is built on that contract:
one of its steps is one such call.

`FlashDriver` has a step for each SPI command.

| State | Code |
|---|---|
| `pc` `request` `result` | where the driver is, the call it is in, the buffer of `read` |
| `bus` `mem` `job` `wel` `protected` | the chip, outside the repository: whether it is there, its contents, what it is busy with, its write-enable latch and protection bits |

| Actions | Code |
|---|---|
| `Reset` `ReadStatus` `BeginEnable` `BeginSend` `BeginPoll` `ReadId` | `begin`, with `reset`, `readStatus` and `writeStatus` |
| `Call`, then `ReadData`, or `WriteEnable` `SendRequest` `Poll` | `read`; `write`, `eraseSector`, `eraseSector64`, with `writeEnable` and `waitUntilReady` |
| `Finish` | the chip is done |
| `Restart`, `PowerLoss` | the processor stops; the chip goes on, or stops too |

The chip is modelled from how the driver handles it: it ignores a change when it is
busy, not write-enabled or protected, and takes a reset at any time. A bus without
a chip reads as ones or as zeros.

The refinement mapping is `Phase` and `Pending`: the call takes effect when the chip
finishes (`Do`), not when the command is sent; after a restart the chip's job is the call
left to settle, and either the chip's finishing or `begin()`'s reset settles it.
`FlashDriverProofs` proves `DriverImplementsCalls` (`Spec => Calls!Safety`) step by step,
from an invariant that says when the chip can be busy, protected and enabled (`Busy`,
`Unprotected`, `Latch`), and `EveryCommandTaken` (`[]CommandsTaken`), `TypeCorrect` (`[]TypeOK`). They rest on
`GeometryAssumption` and `RequestAssumption` (the calls are of the four kinds; the contents
are those of the slots).

### Logger

| State | Code |
|---|---|
| `mem` | the flash |
| `pc`, `after`, `i`, `buffer` | where in a call the firmware is: the next flash command, the caller of `commit_settings`, the loop variable, the stack buffer |
| `settings` `section` `addr` `packet_array` `buf_idx` `state` `allow_write` | the fields of `Logger` (`section` is `oldest_written_section`; `data_addr_min` and `_max` follow from it) |
| `boots` `seq` `launchSeq` `latest` `sound` `stamped` | history: they guard nothing but the bounds. `latest` is the section the boot before flew in, or this one; `sound` the boots in a row, up to three, that left the settings' page whole; `stamped` the sections whose last start time was followed by its erase and not lost since |

| Actions | Code |
|---|---|
| `Begin`, `BeginFails` | `Logger::begin` up to `commit_settings`; `flash.begin()` fails |
| `CommitErase` `CommitHead` `CommitTailBegin` `CommitTailLaunch` | the three commands of `commit_settings`, and the return to either caller |
| `ClearErase` `ClearRestore` | `clear_first_sector(true)` |
| `EraseBlock` `EraseDone` | the loop of `reset_flight` |
| `Dump` | the loop of `change_state` that writes the ring out |
| `WriteAfterLanding` `WriteBeforeLaunch` `WriteWhenFull` `WriteInFlight`, `Flush` | the paths through `Logger::write`, and its loop |
| `Launch`, `Land` | `change_state(1)` and `change_state(2)` |
| `PowerLoss` | the battery |

A step is one flash command, because only the power can come between two of them
and a finished command is all that the power can separate. A power loss leaves
`mem`, or `mem` with the slots the command in progress was changing garbled
(`Torn`). Partly changed slots would be more kinds of garbage in slots that the
properties do not tell apart; a torn settings page is read back as any of the
values `begin()` can distinguish (`TornInts`).

`change_state(1)` and `change_state(2)` come from `loop()` in an order that depends
on the barometer; `Launch` and `Land` may come at any time, which is more than the
flight state machine allows.

A packet is a boot and a position in that boot, which is what its timestamp
amounts to; the rest of it is payload. The time of a boot is the boot: a start
time in the settings is right when it is of the same boot as the packets.

Next to some operators there is a second one, `...Mutant`. It is not part of the
model: it is the slip that a property must catch (a wrong bound, a loop that
stands still, a turn that is not recorded), and each property is run against one.

### What is proved about it, and how

`LoggerProofs` proves for every geometry of the chip, every ring length that divides
a page, and any number of boots and packets:

| Theorem | Says |
|---|---|
| `TypeCorrect` | `[]TypeOK`: also that `packet_array[buf_idx]` in `write()` stays inside |
| `Invariance` | `[]IInv` |
| `RecordedFlight` | `[]FlightReadsBack`: the tool prints the flight's packets, in order, and nothing else |
| `PacketsCounted` | `[]NothingDropped`: what is not in the flash yet is in the ring |
| `AddrStaysInSection` | `[]AddrInBounds` |
| `SettingsSurvive` | `[]SettingsRestored` |
| `OtherFlightKept` | `OtherFlightUntouched`: no command, whole or torn, changes the other flight beyond the settings' sector, and none before the launch changes either flight there |
| `ErasedBeforeProgram` | `ProgramsErasedOnly` |
| `LatestFlightSurvives` | `[]LatestFlightKept`: after three boots that left the settings' page whole, or a format, a boot does not go over the flight the boot before recorded, whatever came earlier |
| `StartTimesBelong` | `[]StartTimeMatches`: the start time stored for a section is that of the flight in it, unless a power loss came between the store and the erase, or took the page since |

None of these is inductive alone. `FlightReadsBack` needs to know that the slots in
front of `addr` are blank; that is true because the erase loop went over the whole
section, which needs `i` to stand at a block boundary; and that each packet
appended is the one due, which needs the order of the ring before the launch and
the count of packets after it. `LoggerInv` states these parts one by one, and
`IInv` is their conjunction:

* `Shape`, `EraseInPlace`, `AddrInPlace`: what `pc` says about the other variables,
  where the erase loop and `addr` stand. In flight the start of the current ring
  (`GroupStart`) is a whole number of rings from the end of the section: that is
  why testing `addr` once for eight packets is enough;
* `SettingsInPlace`: while the settings' page is erased, they are in `settings_` or
  in the stack buffer;
* `TargetsErased`: whatever is about to be programmed is blank;
* `RingOrdered`, `Counted`: what the ring holds before and after the launch;
* `FlightWritten`: what has been written was due;
* `TurnInPlace`: how the turn of the sections comes right. `begin()` makes a section number of
  whatever the page holds, -1 and -2 included, but only from 0 or 1 is it the number of the section the boot then
  uses. So a page left whole by one boot holds -1, 0 or 1, by two boots a section, and by three the section that
  the boot used, which is `latest` if that boot flew (`InTurn` is 3, and with two TLC finds the flight before
  written over);
* `StampsInPlace`: from the launch on, the start time of the section is this boot's; and the packets of each
  section in `stamped` are of the boot its start time names (`DataOfBoot`). The section being launched is not in
  `stamped`: its start time is new while its data is still old; and the first sector's data is followed
  into the stack buffer and back while the settings are committed.

`OtherFlightKept` needs one more fact, `BeforeLaunch`: up to the launch no command of a launch or of a flight is sent.

Each part has a lemma that a step preserves it; `InvStep` puts them together. The module
begins with the arithmetic of aligned units that the solver does not do
by itself (that multiples of a block are a block apart), and with what
`Write` and `Erase` leave in a slot (`WriteOne`, `Effects`).

The proofs rest on three assumptions, which the model checker evaluates on every
run: `GeometryAssumption` (the sizes are positive, a sector has more than one page),
`BufferAssumption` (the ring divides the page) and `SentinelAssumption` (an erased slot
looks like no packet: `aux_data` has unused low bits that are always zero).

Only model-checked: `LaunchRecorded`, and the fairness half of `IsFlightRecorder` (below), since
liveness is out of the prover's reach.

### FlightFSM

| State | Code |
|---|---|
| `FSM_state`, `initial` | `global_data.FSM_state`, `.initial_baro_altitude` |
| `launch_reads`, `land_reads`, `land_alt` | `CONSECUTIVE_BAROMETER_READS`, `CONSECUTIVE_LANDING_READS`, `LANDING_STATE_ALTITUDE` |
| `phase` `site` `level` `alt` `slow` `due` | the world: what the board is doing, the altitude of its pad, of the surface it lay on last, and its own; its slow moves so far; whose turn it is |
| `baseline` `flown` `high` | history: what `initial` was taken from, whether the threshold was ever reached, readings in a row above it |
| `errors` `boots` | history: counters for the bounds |

| Actions | Code |
|---|---|
| `GoodReading`, `FailedReading` | the barometer's part of `loop()` with an altitude that was measured, and with the -999 of `readAltitude` |
| `TakeBaseline` `NotInFlight` `Moving` `Still` | the four ways through it: the outer `if`, then in flight or not, off the landing's reference or near it |
| `Rest` `Climb` `Fall` `TouchDown` | the world |
| `PowerLoss` | the battery: the detection's state is in RAM only |

A failed exchange gives -999 here, whichever it is. On the bus a failed poll of `STATUS` reads 0xff, which
ends the wait of `readAltitude` early, and the altitude is that of an earlier conversion, if any: `Barometer` has
this, and how old the value may then be. For the detection it is a reading of where the board was.

Altitudes are integers in steps of 1/16 m, the register's resolution (`Unit` steps a
metre). `Decode` is what `readAltitude` makes of the register and `Trunc` the
assignment of a `float` to an `int32_t`; both matter, and neither is the identity. The
launch is tested on whole metres and the landing on steps, as in the code.

The properties compare the firmware's view with the world's, and that needs a world.
It is deliberately weak: the board lies within `Noise` of a level, climbs, falls to
anywhere not below the pad, and lies there. Nothing fixes its acceleration or its
apogee. Between two readings in the air it moves by `MinSpeed` at least, except
`SlowMoves` times: at the top, where two readings may be equal, or wherever else it
hangs for a moment. What it may not do is hover for longer.

`OrdinaryFlight` is the condition on the constants under which the detection is right,
and the theorems hold for *all* values that satisfy it:

* the pad is above sea level, and the flight below the register's 65536 m;
* `Noise` is less than the launch threshold by a metre;
* `LandReads * MinSpeed > SlowMoves * MinSpeed + 3 * (LandDelta * Unit - 1)`: the board passes
  through the landing's band before it has been read there too often, even if all its slow moves are made in it. It
  is 3 and not 2 half-widths because at the top the board goes up through the upper half of the
  band and down through both. On the board this is 60 readings, 5 m and 1/16 m, so
  `(60 - SlowMoves) * MinSpeed > 237`: with no slow move, 4 steps or 0.25 m a reading. A board that is
  thrown up and falls freely round its highest point makes about `1.3 * MinSpeed` slow moves there at 100 ms a
  reading, and `MinSpeed = 5` (3.1 m/s) will do, with 7 slow moves; at 70 ms about `2.6 * MinSpeed`, and
  `MinSpeed = 6` (5.4 m/s) will do, with 16. At the 50 ms of the comment at `main.cpp:30` it would be
  `5.1 * MinSpeed`, and no `MinSpeed` does: the condition, which lets a slow move be no move at all, is then
  not met at such a top, and the theorems do not speak of that flight;
* at most `LandReads` readings fail in all.

The factor 3, the count of the slow moves and the last condition are tight: with one reading less for the
landing, or one failed reading more than it takes, the model checker finds a landing in the air.
A board under a large parachute that comes down by less than five metres in 60 readings, 1.7 m/s at 50 ms a
reading, is declared landed in the air; that is a limit of the rule, and the reader should compare it with the
parachute.

`FlightComputerProofs` proves `TypeCorrect` (`[]TypeOK`, of every flight) and, of ordinary
flights, `Invariance` (`[]IInv`), `LaunchSeenIsReal` (`[]LaunchIsReal`), `LaunchIsSeen`
(`[]LaunchDetected`) and `LandingSeenIsReal` (`[]LandingIsReal`). The inductive invariant
adds what the history of readings leaves behind:

* `Altitudes`, `Left`: where the board can be, and that it has not been at the threshold
  while on the pad;
* `BaselineRight`: a baseline is the altitude it was taken at, cut to a metre, so the
  threshold is never more than a metre low;
* `Counters`, `HighCounted`: below its threshold each count is the readings it stands for;
* `Passing`: the heart of the landing. In flight either the reference is -999, and there
  were more failed readings than it has counted; or the board has moved off the
  reference by `MinSpeed` at each reading counted, but for the slow moves, with one turn at most.

They rest on `FSMAssumption` alone: the types of the constants, with thresholds,
resolution and speed above 0.

### FlightRecorder and LoggerRefinement

`FlightRecorder` is what `loop()` may count on: up to the launch the last `BufLen`
packets are remembered; the launch starts a new log with them; from then on every
packet ends up at the end of the log, `BufLen` at a time, while there is room; the
landing closes it. It knows nothing of pages, settings or erasing.

`LoggerRefinement` maps the state of `Logger` onto it:

| Recorder | Logger |
|---|---|
| `status` | `pc`, `state` and `allow_write`: off until `begin()` returns, *saving* from the launch until the ring is in the flash, and while a full ring is written |
| `ring` | the entries of `packet_array` not in the flash yet, the oldest first: from `buf_idx` on before the launch, from the loop variable on while a loop is at it |
| `log` | the slots of the section from its first to `addr`, read off `mem` |
| `room` | the length of the section |

Every step of `begin()`, of the commits, of the erasing is then a stutter, and each packet
programmed is one `Save`. `IsFlightRecorder` is the whole of `FlightRecorder!Spec`, with its
fairness: what is due to be saved is saved unless the power goes.

`LoggerRefinementProofs` proves its safety half, `RecorderSafety` (`Spec` implies the recorder's
initial states and steps), for any geometry and any ring, from `IInv`. The initial state maps to the
recorder's; each step of the logger is one of the recorder's (`Start`, `Offer`, `Launch`, `Save`, `Land`,
`PowerOff`) or leaves its four variables alone. The work is in the mapped sequences: that the slots up to
`addr` after a program are those before it and one more, and that what is left of the ring is
its tail, whichever of the two loops is at it.

### FlightComputer

`FlightFSM` and `FlightRecorder` (which stands for the logger) in one loop. A pass of
`loop()` offers a packet if one is due and then takes a reading if one is due; what
`change_state` is told is what that reading decided. Between two readings `MinGap` to
`MaxGap` ticks go by; a packet is due `LogPeriod` ticks after the last.

| State | Code |
|---|---|
| all of `FlightFSM` | the detection and the world, as there |
| `status` `ring` `log` `room` | the logger, as `FlightRecorder` has it |
| `wait` | ticks until `NEXT_LOGGER_COMMIT` has passed |

| Actions | Code |
|---|---|
| `SetUp` | `mem.begin()` in `setup()` |
| `Log` | the log part of `loop()`: `make_logger_packet`, `mem.write`, the next deadline |
| `Sample` with `ReportLaunch` `ReportLanding` `ReportNothing` | the barometer part, with its calls of `mem.change_state` |
| `Save` | the rest of a call into the logger, which blocks the loop |
| `Fly` | time and the world move on to the next reading |
| `Outage` | the battery |

A packet is the phase of the flight it was made in and the state it shows; the rest is
payload. That the real logger may stand where the abstract one does is what
`IsFlightRecorder` is for. `LiftoffRecorded` and `TouchdownRecorded` carry their timing
conditions with them: `RingSpansLaunch` and `LandingOutlastsRing` relate the two timers to
the flight, by the most readings a launch can take and the fewest a landing takes on the ground. The second
is what a proof of `TouchdownRecorded` asks for: a weaker one, with one half band in place of three and the time
of the readings in place of their number, holds on a smaller instance and TLC refutes it for longer gaps.

`FlightComputerProofs` proves `StatesAgree` (`[]Agreement`) and `LogIsInOrder`
(`[]StatesInOrder`) for any flight, ordinary or not, any ring and any timing, and
`LogsAreOfFlights`: of ordinary flights the logger prepares a section only for one that reached the
threshold, and closes the log only on the ground. The invariant (`ComputerInv`) says of
the log *and the ring behind it*, taken as one sequence, what `StatesInOrder` says of
the log: without the ring it is not inductive, since a packet gets its state when it is
offered and its place when it is saved. Every step is a step of `FlightFSM`
(`DetectionSteps`), so what is proved of the detection holds in the loop
(`DetectionKept`). `ComputerAssumption` is used for a ring that is not empty, a landing
of more than one reading, and timers that advance.

`LiftoffIsRecorded` (`LiftoffRecorded`) and `TouchdownIsRecorded` (`[]TouchdownRecorded`) hold of every
ordinary flight under these conditions. Neither follows from the invariants above, which know nothing of
time; `TimedInv` counts it:

* `Waiting`, `RingFits`: a packet waits `LogPeriod` at most, and no reading in flight is taken before a
  packet that is due; how full the ring can be;
* `AscentTimed`: of a board in the air whose launch is not seen yet there are numbers `r`, its moves since the
  lift-off, and `a`, the packets offered since, such that what the ring holds before those `a` is of the pad, `a`
  packets took no longer than `r - 1` gaps, and `r` is at most the readings below the threshold
  (`ReadsBelow`, as it climbs by `MinSpeed` in each but the slow ones) and those counted above it. A board that fell back below
  the threshold is never seen, and is the other case. At the launch `a` is less than `BufLen`;
* `DescentTimed`: of a board on the ground whose landing is not declared, the readings counted are `x` made in
  the air, at most `ReadsInAir` by `Passing`, and `y` made on the ground, while the last `p` packets in RAM are
  of the ground, and `p + 1` packets took no less than `y` readings. That is so until a packet of the ground is
  saved, which is what is to be shown. At the landing `p` would be `BufLen`, and a full ring is saved at once.

`TimedInvariance` proves `IInv`, `ComputerInv` and `TimedInv` together.

### Offload

Between two flights the board may be started with the tool's firmware. `Offload` extends
`Logger`, because both programs are built on the same class.

| State | Code |
|---|---|
| all of `Logger` | the flash, and the object the tool makes of the class: `section` is the argument of `reset_flight`, `settings` the record `MEMRST` fills in |
| `command` | what the tool is doing, or that it is the flight board that is up |
| `before` `sessions` | history: the flash when the command began; a bound |

| Actions | Code |
|---|---|
| `ToolSetup` | `YIPPEE_MEM_OFFLOAD_SETUP` with `begin_readonly` |
| `Delete(f)` `MemReset` | `D0`, `D1`, `MEMRST` up to their first flash command |
| `ToolFlashStep` | the flash commands of `reset_flight`, `clear_first_sector`, `commit_settings` |
| `Deleted` `ResetOther` `CommitFormat` `ResetDone` | what the tool does between and after them |
| `Unplug` | the tool is taken off, in the middle of a command or not |
| `Fly` | a step of `Logger` |

`R0`, `R1`, `SET` and `DUMP` change nothing; `RowsOfOneFlight` speaks of what `R0` and `R1`
print (`Printed`). A command cut short counts as a loss of the settings' page (`sound = 0`): `TurnKept` holds again three
boots later, and at once after commands that finish.

`OffloadProofs` proves all four: `DeletionsExact` (`[]DeletesExactly`), `FormatExact`
(`[]ResetFormats`), `TurnSurvivesTool` (`[]TurnKept`) and `RowsAreOneFlight`
(`[]RowsOfOneFlight`), for any number of boots and sessions and any geometry. None is inductive: a
deletion is exact because at each of its flash commands the chip is what it was but for the slots
up to `i` (`DeleteProgress`), and a format for the same reason (`ResetProgress`). The invariant
(`OffloadIInv`, in `OffloadInv`) also has to carry the logger's across a session: while the board flies it is the logger's
`IInv`; while the tool runs it keeps what the next boot will need of it (`HistoryKept`),
and `RowsKept` says of the rows of a section, at all times, what `RowsOfOneFlight` says of those printed.
That the logger keeps the rows is a fact about its programs and erases (`IInv`'s `FlightWritten` and
`TargetsErased`), so `Fly` adds nothing but that lemma.

### Barometer

A step is one exchange on the I2C bus, or the four of `toggleOneShot`. The sensor is
outside the repository: a toggle starts a conversion, its end raises TDR and PDR, and
reading the registers clears them. A value is its *age*: how many calls of `readAltitude`
ago its conversion began.

| State | Code |
|---|---|
| `pc` | the exchange that is next in `readAltitude`, `readTemp`, `readPressure`, which `loop()` calls in this order |
| `result` | what the last `readAltitude` returned: a new value, one more than two calls old, one returned before, a value of the wrong kind, -999 |
| `configured` `converting` `began` `tdr` `pdr` `data` `taken` | the sensor |
| `faults` `clean` | history: failed exchanges, whole passes since the last |

| Actions | Code |
|---|---|
| `Setup` | `setModeAltimeter`, `setOversampleRate`, `enableEventFlags` |
| `toggleOneShot` | itself: in `readTemp` and `readPressure` after the read, in `readAltitude` before the wait |
| `WaitOver` `TimeOut` | the loops of up to 600 tries around `STATUS` |
| `ReadAltitude` `ReadTemp` `ReadPressure` | the reads of the data registers |
| `Convert` | a conversion ends |
| `SetupFails` `ToggleFails` `PollFails` `ReadFails` | an exchange fails, at any place: `IIC_Read` gives 0xff, a write is lost |

The surprise is that this works. `readAltitude` waits for the *temperature* flag (bit 1 of
`STATUS`, the comment says PDR), and `readPressure` does not wait at all: `IIC_Read(STATUS) & 1<<2 == 0`
is `IIC_Read(STATUS) & 0`. `AltitudesAreNew` and `NoVainWait` say that the order in which
`loop()` makes the calls repairs it: each altitude is of a conversion of its own, begun at
most two calls ago. `readPressure` reads the altitude's registers, as the sensor is in
altimeter mode throughout: what is logged as pressure is not one.

`BarometerProofs` proves both for any number of failures (`WaitsEnd`, `EachAltitudeIsNew`).
The invariant follows a pass: a flag once seen is up until the temperature is read
(`FlagUp`); the toggle before the wait leaves a conversion under way or one just done
(`SomethingComes`); once the temperature has been read without a failure, a flag that is up is of
registers not returned yet (`FlagIsNews`), and a conversion under way is younger than
the one that raised it (`Restarted`); a pass later ages are bounded (`Young`). Each fact
is about the passes since the last failure, which is why two are needed.
`BarometerAssumption` is used for ages that are told apart up to 3.

### Radio

| State | Code |
|---|---|
| `pc` `n` | where in `write_command` the driver is, and for which of the commands of `begin()` and `setup()` |
| `index` `seen` `input` | the reply buffer's index, what is in it, the serial input |
| `stat` `is_ok_` `config_pin_` `allow` | `init_res` and `lora_init_stat`; the fields; a build with `ALLOW_SETUP_FAILURES` |
| `wire` `accepted` `onAir` | the module: characters it has yet to send, commands it has accepted, packets transmitted |

| Actions | Code |
|---|---|
| `Flush` `Send` `Delay` `ReadChar` `ReadNothing` `ReadEnd` | `write_command`, in order; `ReadEnd` also goes on with the caller |
| `transmit` | itself |
| `Receive` | a character comes in, at any time |

The module may reply with or without a line feed, after an empty line, with an error, late
in whole or part, or not at all. A read past the entries of `response` leaves the model in
`undefined`: nothing is said of what follows. `set_channel` stores `channel_` before the module has accepted it
(`HopeHM.cpp:103`); it is called once, with the value the field has from the start, so the field is left out.

`RadioProofs` proves `SetUpIsAccepted` (`[]ConfiguredIsAccepted`) and `PlainIsEnough`
(`[]PlainRepliesSuffice`) for any list of commands and any length of `response` of two or more. The first
needs to know *whose* `OK` is read. A late reply is read as that of the next command, so it could
stand in for one; it does not, because a reply that was late has failed its own command, and one failure is
enough. So, as long as no command has failed (`OkIsOfThis`): of the characters in the
input and those still on the wire, taken as one sequence (`Coming`), at most one is an `OK`, and
only if the command now waiting is accepted. The second needs that there is never more
than the line feed of the reply before (`InTime`). `RadioAssumption` is used for a command in `begin()` and one after it, and
for a result that fits in `response`.

### RF95 and Downlink

`RF95` is the driver of the ground station's radio as the program uses it: the handler of
the end of a packet, `available`, the copying of `recv`, and `clearRxBuf`, each a step, the
handler between any two of them. `Downlink` adds the board (`get_gps_data`,
`make_packet`, `transmit_telemetry`) and the loop of the ground station (`Poll`, `Recv`, `Copy`,
`Clear`, `PrintLine`: one pass, with its `delay(50)`).

| State | Code |
|---|---|
| `_mode` `_rxBufValid` `_buf` `_bufLen` | the driver's fields |
| `chip` `incoming` `ripe` | the chip, the packet on the air, whether time enough has passed for it to end |
| `board` `sent` `stray` | the fields of `global_data` that a packet shows; bounds |
| `pc` `data` `lines` | the ground station; `lines` is the history of what it prints |

A packet is on the air for milliseconds and the steps of the handler and of `recv` take
microseconds. So one that begins after the receiver is started does not end before the
program has been waiting somewhere (`Wait`: in the blink, or in a poll that finds
nothing). So the window between `available()` and the masked copy is closed by assumption, and no property
says anything of it; the code has no other protection there than this ratio. The telemetry's layout is modelled by the
bits it packs and unpacks; a position is the number of the solution it is from.

`DownlinkProofs` proves `PacketsPrintedOnce` (`[]LinesAreThePackets`), `LinesTold`
(`[]LinesAreTrue`) and `DownlinkTypes` (`[]TypeOK`) for any number of packets, of the board and of
others, and any satellite counts. The invariant (`DownlinkInv`) is about the moments at which the handler can run: between `recv`'s
look and `clearRxBuf` no packet on the air is about to end, and wherever one may, a packet that is held keeps the receiver
off (`PacketIsSafe`); the driver's `_mode` is the chip's (`DriverKnows`). Whatever is transmitted shows
the board's data (`FromBoard`), which every place it passes through keeps. `DownlinkAssumption` types the constants.

## 3. The runs

| Run | Question | Result |
|---|---|---|
| `logger_flight` | two boots, each with more packets than its section takes, from launch to full section or landing, or not flown, cut off anywhere, on a formatted chip or a new one; is the logger the abstract recorder? | `IInv` `TypeOK` `FlightReadsBack` `NothingDropped` `AddrInBounds` `SettingsRestored` `OtherFlightUntouched` `ProgramsErasedOnly` `LaunchRecorded` `IsFlightRecorder` hold |
| `logger_wrap` | does `commit_settings` preserve the flight data of the sector, as its comment says? | violated |
| `driver_chip` | do SPI commands, with restarts and power losses between any two, make atomic calls? is each command taken, does each call return, does `begin()` with a chip or a bus at zero? | `IInv` `TypeOK` `CommandsTaken` `CallsAtomic` `CallsReturn` hold |
| `driver_silent` | does `begin()` come to a result on any bus, so that `setup()` can fail loudly? | violated |
| `fsm_flight` | every flight from three pads, with failed readings and a restart anywhere: what is declared is real, what is real is declared | `IInv` `TypeOK` `LaunchIsReal` `LaunchDetected` `LandingIsReal` `LandingDetected` hold |
| `computer_flight` | detection and logger on two timers, over whole flights: are they in step, does the log hold the lift-off and the touch-down, is it closed? | `Agreement` `StatesInOrder` `LiftoffRecorded` `TouchdownRecorded` `FlightIsClosed` hold |
| `offload_tool` | four boots, flown or not, on a formatted chip or a new one, with a session of the tool among them, all cut off anywhere: what deleting and formatting leave, what is printed and under which start time, whose turn the sections are | `DeletesExactly` `ResetFormats` `RowsOfOneFlight` `TurnKept` `StartTimeMatches` hold |
| `baro_loop` | pass after pass of the three reads, conversions ending anywhere, three exchanges failing anywhere: which values are returned? | `NoVainWait` `AltitudesAreNew` `AltitudeComesBack` hold |
| `radio_setup` | four commands, each answered in any of the ways a module may: does set-up succeed when, and only when, the module has accepted them? | `ConfiguredIsAccepted` `PlainRepliesSuffice` hold |
| `radio_late` | is an `OK` that comes late taken for one? | violated |
| `downlink_lines` | packets of the board and of others, whole or corrupted, at any moment of the ground station's loop: lines for packets | `LinesAreThePackets` `LinesAreTrue` `ListensAgain` hold |
| `downlink_status` | does the line show the state of the flight, as both ends declare it? | violated |

### Bounds

*Logger.* `PageSlots = 2`, `SectorPages = 2`, `BlockSectors = 2`,
`FlightBlocks = 2`, `BufLen = 2`. Two of each are enough for the page to wrap, the
sector to hold flight data behind the settings, the block to reach past the sector,
and the erase loop to turn. `BufLen = 2` makes a ring that wraps and a ring not yet
full. `MaxWrites = 18` packets are more than either section takes (14 and 16), so that sections do fill up, the
later one after a few packets before the launch. `MaxBoots = 2`: the second boot finds whatever the first can
leave, in the section it takes and in the other one. `logger_wrap` has a sector of three pages, one sector to a
block: the shortest write that is longer than a page. The proofs remove these bounds from everything but
`LaunchRecorded` and the fairness half of `IsFlightRecorder`.

*FlightFSM.* Two steps a metre, so that truncation has something to cut; a
launch at 3 m for 3 readings and a landing within 1 m for 5, the fewest `OrdinaryFlight`
allows with one slow move; a flight of 13 steps at 1 to 4 a reading, and once at 0,
high enough for the threshold and for a turn at the top inside the landing's band; pads
at 0 (baseline 0), 1 (baseline cut to 0) and 5 steps; 5 failed readings, as many as
`OrdinaryFlight` allows; one restart. The proofs remove these bounds from everything but
`LandingDetected`.

*FlashDriver.* Sixteen slots in two pages a sector, two sectors a block; a read,
a whole and a partial page to write, a sector and a block to erase, from an empty and
from a full chip, on a bus with a chip, on one that reads as zeros and on one that reads as ones. Nothing else is
bounded: any number of calls, restarts and power losses.

*FlightComputer.* A ring of 3 packets, one every 4 ticks, readings 1 or 2 ticks apart: two
to four readings to a packet, and the ring turns over several times before a launch.
A launch takes 4 readings at most, one of them after a slow move: three gaps, 6 ticks of the 8 the ring spans. A landing
takes 16, of which 12 at least are on the ground, as many as go to a ring of 3 packets at one tick a reading: with packets twice
as often the lift-off is lost, with packets half as often the touch-down (the mutants). The condition is met
without a reading to spare, and with gaps of up to 4 ticks one reading less loses the touch-down. The proofs
remove these bounds from all but `FlightIsClosed`. Nine packets of room: a flight fills the section in
some behaviours and lands before in others. One failed reading, one restart.

*Offload.* The same chip, four boots of two packets each, and one session of any number of
commands. Four boots are what the turn of the sections takes at its longest: three
that leave the page whole (it holds -1, then 0 or 1, then the section used), and one that must not take the wrong
section; `sound` counts a MEMRST as three. With fewer whole boots than that the fourth goes wrong, and TLC shows it
(the condition `sound >= InTurn`). Four also let both sections be written twice,
the least after which an older flight can be found under a newer start time. A session before the first boot, or after one, two or three,
meets every filling of the sections a boot can tell apart. Two packets a boot are a dump of a full ring, or of one
with an entry never filled; that sections fill up is the business of `logger_flight`. The proofs remove these bounds.

*Barometer.* Ages up to 4: the property tells 2 from more. Three failures: one in each
of the calls of a pass, or two in a row in one and another before two clean passes are over.
Passes are not bounded.

*Radio.* Four commands of the eight, two in `begin()` and two after: a first, a middle and
a last, and the hand-over. A reply has up to five characters, and `BufSize = 3` holds the two
that can come before the line end and one more. The proofs remove these bounds, and `RadioAssumption` asks for 2.

*Downlink.* Two packets of the board and two of others (too short to be kept, shortest
kept, longer than the buffer `data`), at most four in all: one printed, one held, one
that is lost because it is held, one after. `SivValues` is on both sides of the 31 that fit.
The proofs remove these bounds from all but `ListensAgain`.

`CHECK_DEADLOCK FALSE` where the system may stop: a board whose flash or radio does not
answer stays in the error loop of `setup()`, and the bounds stop a logger that is out of
boots and packets. The detection, the flight computer, the driver, the barometer and the
ground station never stop, and deadlock is checked in their runs.

### Fairness

* `Logger`: `WF(FlashStep)`. Once a call is in the middle of its flash commands, the next is sent.
  `waitUntilReady` polls until the chip is done and the chip's own times are bounded;
  nothing else runs on the processor meanwhile. Calls (`Begin`, `Launch`, a packet
  offered, ...) and power losses are not fair: they may never happen.
* `FlashDriver`: `WF(DriverStep)`, the processor goes on; `WF(Finish)`, the chip finishes
  what it began, in the time its data sheet gives. `Poll` waits for it: a chip that breaks
  in flight would hold the whole firmware, as nothing there counts tries.
* `FlightFSM`: `WF(Reading)`, `loop()` comes round to the barometer again, whose driver
  gives up on the sensor after 600 tries; `WF(Rest)`, time passes for a board that lies
  still. No step of a flight is fair.
* `FlightComputer`: `WF(Loop)` and `WF(Rest /\ Fly)`, for the same reasons. Switching on is not fair.
* `Barometer`: `WF(Driver)`, the processor; `WF(Convert)`, a conversion ends.
* `Radio`: `WF(SetUp)`; `Receive` is not fair, a reply may never come. No run needs more.
* `Downlink`: `WF(Ground)`, the loop; `WF(Wait)` and `WF(Interrupt)`, a packet ends and the
  chip says so.
* `Offload`: none; it has safety properties only.

### What the violated runs show

* `logger_wrap`: `commit_settings` erases the first sector, which holds the first
  fifteen pages of flight 0, and puts them back with one write of 3840 bytes. The
  driver sends that as one page-program command, and the address wraps in the page:
  page 1 receives the data of page 15 and pages 2 to 15 stay erased. The comment at
  `logger.cpp:109` says the data "should be preserved". As every boot calls
  `commit_settings`, the start of flight 0 is gone at the boot after it. This is why
  `OtherFlightUntouched` and `RowsOfOneFlight` leave that sector out, and
  `FlightReadsBack` speaks of the boot that records.
* `driver_silent`: on a bus that reads as ones `begin()` sees a protected chip, sends the status write and polls a busy bit
  that nobody clears. `setup()` does not get to its error loop ("Fail loudly", `main.cpp:217`).
* `radio_late`: `write_command` waits 20 ms and then reads at full speed. `read()` gives -1
  when nothing has come, and -1 is stored like a character: one hundred of them are through
  in microseconds, and the loop goes on for up to a second. A module that needs more than
  20 ms is not waited for: the stack is written over instead.
* `downlink_status`: `make_packet` fills the status byte with `init_no_err` and a mask of
  0x00. The bits for flight state, flight number, GPS lock and channel, which `main.cpp:64`
  lays out and the ground station decodes, are never set.

### What the properties' conditions stand for

A condition in a property is there because the code does something else without it. Each
was a counterexample first:

* `sound >= InTurn` (`LatestFlightKept`, in `TurnKept`): a page that is blank or half written gives a section number that is
  none. On a chip never formatted it reads -1: `begin()` takes section 1 and stores 0, and the next boot takes section 1
  again, so that the second flight goes over the first. Three whole boots are enough, and `MEMRST` comes before them.
* the boot before flew (`latest`, in the same): `begin()` stores the turn before anything is written. After a boot
  that does not fly, the "last written section" that the tool prints (`mem_offload.h:108`) is the one that holds the older flight, and
  the next boot prepares to write over the latest. The boot that does not fly costs no flight itself (`OtherFlightUntouched`).
* `stamped` (`StartTimeMatches`): `change_state(1)` commits the new start time and then erases, for seconds. With the power
  gone in between, `PRINT_CSV` subtracts the start time of a flight never recorded from the packets of the one that was. The
  property says that this moment, and the loss of the settings' page, are the only ones, and the next launch in the section ends it.
* `baseline # "failed"` (`LaunchIsReal`, `LandingIsReal`): a first reading that fails is the
  baseline, -999; five readings later the board "launches" where it lies, and a flight section is erased.
* `baseline = "pad"`, or a pad a metre or more up, no failed reading and no restart (`LaunchDetected`; the first also in `LiftoffRecorded`):
  a baseline of less than a metre, up or down, is stored as 0, which means not set, and is taken
  again at each reading until it is more, in the air. The threshold is then that much higher, and a flight
  between the two is not seen. On a fast rocket a reading is some metres, on a slow one less. A failed reading or a restart
  loses the baseline too: after a restart in the air it is taken there.
* `errors = 0` (`LiftoffRecorded`): a failed reading starts the count for the launch again, and the ring turns over meanwhile.
* pads above sea level (`OrdinaryFlight`): the register is signed and read as unsigned (`MPL3115A2.cpp:89`). A pad 3 m below
  sea level reads 65533 m, every reading above sea level is far below that, and no launch is ever seen.
* `MinSpeed`, `SlowMoves` (`OrdinaryFlight`): an assumption about the world. A board that hovers, moving by less than
  `MinSpeed` more than `SlowMoves` times, is landed in the air if it does so within the landing's band.
* at most `LandReads` failed readings (`OrdinaryFlight`): 61 in a row are a board that lies
  still, and land the flight in the air.
* `bus # "ones"` (`CallsReturn`): see `driver_silent`.
* `RingSpansLaunch` (`LiftoffRecorded`): on the board, from the lift-off to the fifth reading
  above 20 m in less than seven log periods, 3.5 s. A slow rise, or readings
  far apart, and the log begins in the air.
* `LandingOutlastsRing` (`TouchdownRecorded`): sixty readings, less those made in the air, as the
  board passes through three half bands and makes its slow moves (`ReadsInAir`), must be as many as go to eight packets
  (`8 * ReadsPerPacket`). At the 50 ms a reading that the comment at `main.cpp:30` assumes, ten go to a packet, and 60 are too
  few: the touch-down can be in the eight packets that are dropped. A reading takes longer with the sensor's 32-fold
  oversampling (`setOversampleRate(5)`), for which the driver waits twice a pass. At 300 ms two go to a packet, 16 are
  needed, and `MinSpeed = 6` (1.3 m/s) is enough, with up to five slow moves, where a free fall round the top makes one
  or two. At 100 ms five go to a packet, 40 are needed, and even 7.5 m/s leaves them only to a flight with no more than one
  slow move.
* `configured` (`Barometer`): `toggleOneShot` reads the control register and writes it back. If
  that read fails it writes 0xff, reset bit included, and the configuration is gone for the
  rest of the flight: the flags are never raised again, each reading is -999 after 600
  tries, and the flight lands in the air.
* `clean = 3` (`AltitudesAreNew`, `NoVainWait`): within two passes of a failure an altitude may
  be old, returned twice or -999.
* `~allow` (`ConfiguredIsAccepted`): built with `ALLOW_SETUP_FAILURES`, the board transmits on
  whatever the module was last set to.
* `p.id = 0` (`LinesAreTrue`): a packet of another sender that is shorter than a `telem_t` is
  printed with what the stack held behind it.
* `% 32` (`LinesAreTrue`): the satellite count has five bits, and `get_gps_data` keeps counts up to 100. The receiver sees more
  than 31 satellites with four constellations on; 33 are shown as 1.

## 4. What is proved, and what is only model-checked

Proved, for every value of the constants (section 2 has the arguments): of `FlashDriver` the
refinement, `CommandsTaken`, `TypeOK` and the invariant; of `Logger` every safety property a run
checks, and the safety half of the refinement; of `Offload` every property; of `FlightFSM` every
safety property; of `FlightComputer` every safety property; of `Barometer`
`NoVainWait` and `AltitudesAreNew`; of `Radio` both properties; of `Downlink` `LinesAreThePackets`,
`LinesAreTrue` and `TypeOK`. The proofs cite no assumption but the named `ASSUME`s on the constants.

The invariants of `FlightComputer`, `Offload`, `Radio` and `Downlink` (`ComputerInv` and `TimedInv`, `OffloadIInv`, and `IInv` of
`RadioInv` and of `DownlinkInv`) imply the properties their runs check, and are themselves no property of a run.
Every safety property of a passing run is proved.

Only model-checked, and out of the prover's reach, being liveness: `LaunchRecorded`, `LandingDetected`,
`CallsReturn`, `FlightIsClosed`, `AltitudeComesBack`, `ListensAgain`, the fairness half of
`IsFlightRecorder`.

## 5. Plan

Modelled so far, in this order: the flash contents, the driver, the logger, the detection, with their
proofs; then the abstract recorder and its refinement, the flight computer, the offload
tool, the barometer, the radio and the downlink.

Proved since: the turn of the sections and the start times, the refinement of the recorder, the
offload tool, the radio's set-up, the downlink, and the lift-off and the touch-down in the log.

Left: that `TouchdownRecorded` and `LiftoffRecorded` carry over to the pages of `Logger` by composing the two
refinements in one module, and the driver in place of `FlashCalls` under the logger.

## 6. Not modelled

* GPS, LEDs and buzzer: indication, through vendor libraries that are not in the repository. One
  thing they can do to the telemetry stands under `hazards`: the fields of one packet
  may be of different solutions.
* The board test firmware (`src/test_util.cpp`): a separate build that prints readings.
* The notebook and the script that copies the tool's output to a file.
* Of `lib/RadioHead`, all but the receiving half of one driver. It is a vendored library of
  some thirty-five thousand lines, drivers for twenty radios and four managers on top
  of them, of which the ground station calls a dozen functions; the rest is neither called nor linked. It is most of the lines in the
  repository, and a model of it would say nothing about this system.
* Of the flash driver, `eraseSector32` and `chipErase`; of the barometer, the setters and conversions
  that nothing calls; of the packets, `decode_packet`; of the radio driver `errno_`, which
  nothing reads. No caller, no behaviour.
* `millis()` wraps after 49.7 days; a timer that compares across the wrap fires early or late. No flight
  takes as long, and ticks are not numbered in the models.
* Rounding of `float` in the barometer's own arithmetic: an altitude has 20 bits, and a float holds them.
