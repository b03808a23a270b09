# TLA+ verification of the STM32 asynchronous 1-Wire driver

This directory holds TLA+ models of the drivers in `src/src` and `src/inc` and of four of
their applications, the TLC configurations that check them on small instances, and TLAPS
proofs of their central properties for every instance. Paths below are relative to the
repository (`src/...`).

    tlc -workers 2 -config ds18b20_scan.cfg MCDs18b20.tla
    tlapm Ds2431Proofs.tla

| part | modules | instance for TLC |
|---|---|---|
| timer and pin, as the engines see them | `OwPort` (a value and the calls that change it) | inside the drivers |
| the same, as a behaviour | `OwTimer` | refined by `OwRegs` |
| timer, DMA, pin, sleep, register by register | `OwRegs`, `OwRegsProps`, proofs in `OwRegsProofs` | `MCOwRegs`, `owport_regs.cfg` |
| DS18B20 driver, four engines | `Ds18b20`, `Ds18b20Props`, proofs in `Ds18b20Proofs`, `Ds18b20CycleProofs` | `MCDs18b20`, `ds18b20_*.cfg` |
| DS2431 driver and EEPROM | `Ds2431`, `Ds2431Props`, proofs in `Ds2431Proofs` | `MCDs2431`, `ds2431_*.cfg` |
| ROM search, what it promises | `DeviceSearch` | refined by `OnewireSearch` |
| ROM search, bit by bit | `OnewireSearch`, `OnewireSearchProps`, proofs in `OnewireSearchProofs` | `MCOnewireSearch`, `onewire_search.cfg` |
| pulses, CRC-8, temperature | `OwCodec` (functions) | inside `Statistics` |
| statistics and the example that prints them | `Statistics`, `StatisticsProps`, proofs in `StatisticsProofs` | `MCStatistics`, `statistics*.cfg` |
| the peak/low recorder over both drivers | `Multi`, `MultiProps`, proofs in `MultiProofs` | `MCMulti`, `multi.cfg` |
| the EEPROM demo, composed with `Ds2431` | `Demo2431`, proofs in `Ds2431Proofs` | `MCDs2431`, `ds2431_cycle.cfg` |
| round-robin measuring, composed with `Ds18b20` | `RoundRobin`, proofs in `RoundRobinProofs` | `MCRoundRobin`, `round_robin.cfg` |

`PROJECT.json` lists components, runs, mutants, the map from definitions to source lines,
findings, hazards and theorems.

## 1. The system

The drivers talk to 1-Wire devices through a single STM32 timer (TIM1) whose DMA channels
shape the write slots and capture the read slots. Nothing blocks: every operation is
scheduled, the CPU returns, and a `*_poll()` called from the main loop sees the timer's
update flag (UIF), consumes it and schedules the next operation. There are no threads and no
interrupt handlers that run driver code. The concurrency is between the polls and the
hardware that runs between them, and between the state machines that take turns on one timer
and one flag. The weak callback `ds18b20_complete()` runs application code in the middle of
a poll.

### Inventory

| component | source | state | operations | interacts with |
|---|---|---|---|---|
| port | `src/src/ow_port.h` | TIM1 registers, DMA channels, pin mode | reset, write, write-then-read, read, wait, kick, bus_done, op_done, strong pull-up | every engine, through `onewire.c` |
| 1-Wire engine | `src/src/onewire.c`, `ow_glue.h` | `onewire_search_ctx_t`, capture buffers | encode and decode pulses, CRC, presence, ROM search start/poll | port below, drivers above |
| measurement | `src/src/ds18b20_measure.c`, `ds18b20.c` | `ctx` (state, flags, scan index, ROM, resolution), `phase_pulses` | init, select, set_parasite, start_measure, scan_start, poll | port; calls `ds18b20_complete()` and `ds18b20_busy()` |
| device search | `src/src/ds18b20_search.c` | `dev_roms`, `dev_count` | search, alarm search, their sinks | 1-Wire engine; the table is read by scan rounds |
| resolution change | `src/src/ds18b20_resolution.c` | `res_ctx` | set_resolution start/poll | port, `phase_pulses`, `ctx.resolution` |
| command transactions | `src/src/ds18b20_txn.c` | `txn_ctx`, `raw[]` | read ROM, read scratchpad, thresholds, copy, recall, power-supply query, each a start/poll pair | port, `phase_pulses`, `ctx.resolution`, parasite flag |
| DS2431 | `src/src/ds2431*.c` | `ctx` with phase, flags, latched write, one capture and command buffer | select, set_parasite, read memory, write, echo, copy, poll | port; refuses while a search runs |
| DS2413 | `src/src/ds2413.c` | none | placeholder | none |
| statistics | `src/src/ow_stats.c` | counters, table of sensors, dump phase | count pulses and errors, dump, reset | called in DECODE; prints through the application's ring |
| applications | `src/examples/*` | their own state machines | the API | all of the above |
| MCU backends, configuration | `ow_mcu.h`, `ow_compiler.h`, `inc/ow_*.h` | none | register names, compile-time choices | port |
| tests and build | `src/tests`, Makefiles | none | none | not part of the program |

### What is hard, and what has to be true

* **Ownership.** Several engines, one timer, one flag. Every entry point repeats a guard on
  the others. At most one engine may be active (`OneOwner`, `OneDriverAtATime`), and the
  flag a poll finds must be that of the operation its phase waits for, never stale, never
  lost (`TimerServesOwner`, `TimerServesPhase`).
* **Registers.** Update events forced to load registers must not pass for completions, DMA
  must be armed between the right two writes, the line must be released by whichever
  mechanism is in charge (`ImplementsTimer`, `PulsesAsAsked`, `CapturesComplete`), a wait
  never short (`WaitCovers`), a sleeping core always woken (`OperationReported`).
* **A shared union.** `phase_pulses` is used by four builders while DMA reads it
  (`PulsesServeOwner`).
* **A flag with several sources.** UIF is raised by a finished operation, by
  `ow_timer_kick()` and by engaging the strong pull-up. At IDLE with a scan armed, UIF *is*
  the start request (`FinishedRoundParks`).
* **The callback.** It runs between the state change and the rest of the poll; what it
  starts, selects or arms is live when the poll resumes (`PullupBetweenOperations`,
  `ErrorsOnTheRightSensor`, `PrintedIsOwnAndFresh`).
* **Scan rounds.** One report per device, in table order, spread over many polls, with
  hot-plugging and aborts (`ReportsOfAskedDevices`, `RoundReports`).
* **Parasite power.** The line must be free for resets and answers and driven HIGH for a
  whole conversion or programming window (`PullupAsNeeded`, `PullupForProgramming`).
* **Tracked resolution.** The conversion wait comes from what the driver remembers, not from
  the device (`FreshReadings`, `PrintedIsOwnAndFresh`).
* **Several commands make one write.** Write, verify, copy, read back: each checks something
  else, and devices and bits may change in between (`CommitsVerified`, `OkMeansDone`,
  `PendingBelongsToSelected`), and what an application concludes from the read-back must
  hold (`MatchAfterBaseline`). Two such writes make one record, and power may fail in
  between (`RomBeforeRecord`, `RecordsMoveOneWay`, `KnownIsStored`).
* **A walk without a map.** The search must meet every device once and end, on any bus
  (`FindsEveryDevice`, `WalkFollowsRom`, `SearchEnds`).
* **Hanging.** Each engine must arm something or leave its phase at every step
  (`EnginesEnd`, `OperationsGoOn`, `BatchesRecur`, `RoundsGoOn`, `TurnsGoOn`).

`PROJECT.json` lists every hazard at its line with the properties that cover it.

## 2. How the models correspond to the code

One action stands for one call: an API function is an action whose guard is its chain of
early returns, each `case` of a poll is an action that makes all the calls of that case in
order, and a poll that finds UIF clear is a stutter. Devices, the pin and the DMA engine are
external: modelled from how the code uses them.

### OwPort, OwTimer, OwRegs

The port of the drivers is a record: `op` (the operation in flight, `idle` when the
one-pulse timer stands still), `us` (the length of a wait), `uif`, `pin`. Each call is an
operator from port to port, so a handler composes them in the code's order:
`Arm(PullupIf(Consumed, FALSE), "reset")` is *consume the flag, release the pull-up,
schedule a reset*. Every scheduling call discards a flag that was set (`Arm`);
`ow_timer_kick()` raises UIF and schedules nothing (`Kick`); engaging the pull-up forces an
update event and does not clear the flag (`StrongPullup`).

`OwRegs` is where that comes from. Every port call is a *program*, the sequence of its
register writes in the order of `ow_port.h` (`Reset`, `Capture`, `Feed`, `StartWait`, ...),
executed one write at a time while the timer (`HwEdge`, `HwCompare`, `HwEnd`) may run
between any two. `m` holds CEN, ARR, RCR, CCR3 with and without preload, DIER, UIF, the NVIC
pending bit, the event register, the pin and both DMA channels; `ow_op_done()` with its
clear / SEV / WFE / test / WFE sequence is a program of its own (`cpu.pc`), and `PlanWait`
is the period and repetition arithmetic. `AbstractPort` reads an `OwPort` value off the
registers - a call under execution still counts as the port before it - and
`ImplementsTimer` says that under this mapping the registers implement `OwTimer!Spec`, the
behaviour of `OwPort`'s operators. Time is scaled: registers count to 3, one slot is one
tick. The build option `OW_DRIVE_ACTIVE` is not modelled (default 0).

### Ds18b20

| variable | code |
|---|---|
| `port` | TIM1 and the pin, see above |
| `ctx` | `DS18B20_ctx_t`: `state`, the flags `addr`, `scan`, `par`, `scan_index`, `selected_rom`, `resolution` |
| `table` | `dev_roms`, `dev_count` |
| `search` | `onewire_search_ctx_t`; a walk over 64 bits is one pass over the phases |
| `res`, `txn` | `res_ctx_t`; `ds18b20_txn_ctx_t` with the `raw[]` of the last read |
| `pulses` | the `phase_pulses` union: which command, address, config byte it encodes |
| `line` | the capture buffers (presence, the last read) and the devices addressed |
| `dev` | the devices: present, resolution, EEPROM copy, age of the temperature, converting |
| `cb` | where `ds18b20_poll()` stands while `ds18b20_complete()` runs |
| `led`, `want` | the last argument of `ds18b20_busy()`; the command being polled |
| `round` | history: the reports since the last START |

**The callback.** A poll that reports ends its action at the call of `ds18b20_complete()`,
with `cb` naming the continuation. While `cb` is set the application may call the entry
points of `CallbackCalls`; then `CallbackReturn` runs the rest of the poll. Calling
`ds18b20_poll()` again from the callback is not modelled.

**The hardware** ends the operation in flight, at any time after it was armed. A reset finds
presence only if the pin is open-drain. A write delivers what the pulse table holds when it
*ends*. A read returns one device's scratchpad, ones, or a wired-AND that fails its checks.
A wait completes a conversion if it is long enough and the device is supplied. A read under
noise may also capture nothing but zeros: nine zero bytes pass the CRC-8, and byte 4 then
says 9 bits (`ZeroRes`, which `ResolutionAssumption` wants among the resolutions of a noisy
instance). The measurement rejects such a frame, the raw scratchpad read adopts its
resolution (`CrcMatches`).

**Searches.** `SearchRom` is one walk. On a still bus it ends at a device not yet met; on a
bus that changes or is noisy possibly at one met before, which is then handed to the
callback and stored *again*, because the code compares a leaf with the one before
(`search.prev`) only after the callback. The bit by bit account of the same is
`OnewireSearch`.

**Abstractions.** Temperatures are `old` or `new`: `PollStart` ages them all, a completed
conversion renews one. A frame is `ok`, `ones`, `zeros` or `bad`, with its source. A wait's
length is the resolution it was computed for. The one to three slots of a search step are
one operation. The alarm thresholds themselves and the unreachable default error of DECODE
are left out. `ds18b20_set_parasite()` has no guard in the code; its documentation asks for
a call between cycles and the application of the model respects that.

### Ds2431

`ctx` is `DS2431_ctx_t`; `wire` is the command the DMA sends, built when the reset ends
(`Build`), from whatever `ctx` holds *then* - which is why a refused call matters. `dev` are
EEPROM devices with a scratchpad (target, E/S, PF, data), blocks, and a programming cycle
that completes only if it is supplied to its end. Transfers may be corrupted in every way
the driver's checks can see or miss: a lost or garbled command, a payload with a wrong byte,
an echo whose CRC fails, and a Read Memory whose address was hit, which another block
answers (`NoisyReplies`: no check covers it). CRC-16 is abstracted to "an echo with wrong
bytes fails". A `Scenario` chooses the application: a *careful* one that keeps to the
documented order and never calls a busy driver, or one that calls anything at any time.
`asked` remembers what the accepted call, and the last write, asked for.

### OnewireSearch and DeviceSearch

`ctx` is `onewire_search_ctx_t` with its bit number, discrepancies, limit and previous leaf;
the ROM is a function on `1..Bits`. `walk` is the state machine of the devices (those still
answering, and the bit they are at), so the walk is complete only because the code's
direction bits make it so. The mapping to `DeviceSearch` keeps `running`, the devices
wanted, the limit, what the sink was given and whether it stopped; on a bus that changes
under the search it maps to the idle abstract search, since nothing is promised there except
termination.

### OwCodec, Statistics

`OwCodec` translates pulse decoding (a slot is a one above the threshold), CRC-8 bit by bit
and the integer conversion to tenths of a degree, over the *set* of the positions that are
one. `Statistics` is `6_statistics/main.c` with the parts of `ow_stats.c` and of the DECODE
case it exercises: the main loop's branches in their order (search, dump, start, poll), the
callback that selects the next sensor, the sensor table, the dump one line per iteration,
the ring. The ring holds lines, not bytes: a line is written whole or dropped, and the
loop's one byte per iteration becomes "at most one line leaves per iteration". The drivers'
own steps between START and DECODE are those of `Ds18b20` and are one step here.

### Multi

`9_multi/main.c`: `app` is its statics (state, boot reads, round, jobs, failure counter, and
in `found` the device table that the search left), `slots` the records and ROMs in RAM,
`eeprom` the four blocks, which a copy programs, tears or leaves - also a copy whose status
the application then reads as a failure. Each EEPROM command succeeds or fails in each of
the ways the driver reports. `ds18` is the measuring driver as the application meets it:
scan mode, a cycle running, the index it reports next, and `par`, the build (with
`OW_PARASITE_POWER` or without).

A search may be disturbed, so a boot may find any of the `Tables`: partial ones, other
orders, a device twice. A record therefore carries the *sensor* that was at its index when
it was set, and what is filed by index is checked against the sensor that was asked
(`Asked`).

In the parasite build a driver that parks leaves UIF set, so while scan mode is armed the
next poll starts another round (`RestartsItself`, `ScanRestarts`): after a round that a
missing presence cut short, and after a complete one that is being drained.
`ds18b20_select()` and the start calls are ignored while such a round runs (`Selected`,
`Started`). Two deadlines watch a round, 4 s and then 2 s. With the driver parked for good
they pass at any time; a driver that restarts goes on reporting, so they pass after the
number of rounds that fit before them (`Overdue`, with `ScanRounds` and `DrainRounds`).
`log.cut` remembers that a parasite round ended before its last device.

`Restart` clears everything but the EEPROM, at any moment, also in the middle of a copy.
What the records claim is checked against ghost variables that remember where a read failed
and the application does not know the block (`log.blind`, `log.blindRom`).

### Demo2431 and RoundRobin

Compositions: each EXTENDS a driver's module and replaces its free application by the main
loop of an example. Every action of theirs is one branch of that loop joined with the
driver's own action for the call it makes, so a call the driver refuses would stop the loop
and show in `OperationsGoOn` or `TurnsGoOn`. The variable `demo` (`rr`) is the example's
statics. `Demo2431` adds resets of the board, after which the EEPROM rows are what the boot
before left, and history that says whether the row was programmed and whether the reads were
answered; a byte plus one is the other of two values. The scenarios of `DemoScenes` run the
example, the others the free application of `Ds2431`, so one run checks both. In
`RoundRobin` the callback (`Reported`) runs at the point where the driver's poll stands
still (`cb`), selects the next device and queues its resolution; the pause of five seconds
ends at any moment between two cycles.

## 3. The runs

A property of a passing run comes with a *mutant*: a plausible bug in a mapped definition (a
dropped guard, a missing reset) under which TLC finds the property violated in the same
configuration. Mutants are the operators marked `Mutant:`.

| run | instance | shows |
|---|---|---|
| `ds18b20_scan` | 2 hot-pluggable devices, searches, single measurements, scan rounds; fairness | `TypeOK`; reports in table order, once per device, with the right device's value; what is requested reports and parks, searches end |
| `ds18b20_owner` | 1 parasitic hot-pluggable device, every engine, a command that reads, a callback that selects and requests the next measurement | one owner, the flag and the pulse table serve it; the pull-up is on while a device converts, off when it answers, unchanged while anything runs |
| `ds18b20_fresh` | 1 device, resolutions 9 and 12, resolution changes, alarm searches, noise on every read; fairness | no stale temperature is reported; all four engines hand the timer back |
| `ds2431_cycle` | careful application alone on a hot-plugged bus with whole and partial blocks, with noise and without; two devices for one block on a bus where they only come and go; careless application; the `8_ds2431` example with 1 device on a noisy bus and with 2 that come and go, two boots | the flag serves the phase whoever calls what; the EEPROM changes only to what was verified; OK means done, for a read as far as the bus lets its address through; "read-back matches" proves the copy if both reads were answered; every operation ends, no call of the example is refused and its census goes on |
| `owport_regs` | tables of 1, 3 and 4 slots (4 do not fit), reads of 0, 3, 4 bytes, waits of 0, 1, 5, 10 ticks with a reach of 9 | the registers implement the timer; pulses, captures, presence, waits, sleep |
| `onewire_search` | 4-bit addresses of even parity; 5 devices in every population, limits 0, 1, 2, 5, three family filters, alarm; and a hostile bus of 2 | it implements `DeviceSearch`, walks follow the ROM, and it ends on any bus |
| `statistics` | 2 sensors, 2 sweeps, a ring of exactly a report, a separator and the dump; frames below zero, rounded, with wrong bits in five places, silent, shorted | records and totals are those of the reads, readings are true, batches are whole and keep coming |
| `round_robin` | 2 devices with any of the four resolutions in their EEPROMs, noise on every read and in the search | what is printed under a ROM is its own and fresh; every device found has its turn again and again; no call of the loop is refused |
| `multi` | 2 sensors, any failure at any step, one power cycle anywhere, both builds; tables of none, one, both in the other order, one twice; a deadline after each round; fairness | records belong to their sensor, move one way and are stored next to their ROM; the EEPROM is used only when the measuring driver is parked; rounds go on, also when the driver starts them itself |

### Disagreements between the code and its documentation

Three runs check one property that states what the repository says, and TLC finds what the
code does instead; the quotations are in `PROJECT.json`.

| run | what happens |
|---|---|
| `ds18b20_scan_restarts` | On a parasite bus a finished scan round parks and engages the pull-up, whose update event leaves UIF set; the next poll takes it for a request and starts another round. |
| `ds2431_busy_calls` | A DS2431 call refused because the driver is busy has already replaced the target, the lengths or the echo mode of the command on its way. |
| `statistics_errors` | The callback selects the next sensor before the driver counts the failed read, so the error goes to the wrong record. |

The models show more of them; they restrict the passing runs as noted and have no run of
their own.

DS18B20:

* A resolution change or a search started while the driver is parked on a parasite bus sends
  its reset against the engaged pull-up (`ds18b20_resolution.c:98`, `onewire.c:407`), while
  `docs/architecture.md:334-335` has it released before a bus reset. On such a bus the
  change that `3_round_robin` queues is never applied, and the example prints the old value
  as applied (its `main.c:160-161` says it is applied before the next measurement).
  `PullupAsNeeded` therefore speaks of measurements and commands, and `round_robin` has an
  externally powered bus.
* A command started from the callback is running when the resumed poll engages the pull-up
  (`ds18b20_measure.c:30`, `134-136`), although `inc/onewire.h:312-313` forbids that during
  a timed transaction. The callback of `ds18b20_owner` calls at most `select` and
  `start_measure`.
* `ds18b20_scan_start()` in the callback of a single-device measurement enters the middle of
  a round: the continuation looks at the flag, not at the cycle it belongs to
  (`ds18b20_measure.c:34`).
* A search that finds nothing leaves the scan armed, and the next request reads table entry
  0 (`ds18b20_measure.c:247`, `83-85`).
* Polling a power-supply query that was refused sets parasite mode from an earlier command's
  bytes (`ds18b20_txn.c:411`); polling a scratchpad read applies the resolution of an
  earlier one again.
* Writing alarm thresholds sends the tracked resolution back to the device, which may never
  have had it (`ds18b20_txn.c:269` against 263-264).
* `wait_conversion()` waits for the resolution of the device read last: with devices of
  different resolution `FreshReadings` fails, so `ds18b20_fresh` has one device, and
  `round_robin`, where a change precedes each measurement, has devices that stay: one that
  powers up between its change and its measurement has its EEPROM's resolution again.
* The raw scratchpad read looks at the CRC only (`ds18b20_txn.c:302`), which nine zero bytes
  pass: a line held LOW while the slots are read makes the driver wait for 9 bits. The
  measurement's own read has a check against it.
* DECODE switches the busy indicator off at every report while only START switches it on: in
  a scan round it reads idle after the first report (`ds18b20_measure.c:276`).
* `inc/ds18b20.h:426-429` says an externally powered device masks a parasitic one's answer.
  The answer is open-drain and the parasitic one pulls LOW: it masks.

DS2431:

* A Read Memory between Write and Copy Scratchpad replaces the latched target, although
  `ds2431.c:237-238` says copy programs "the EEPROM block selected by the last Write
  Scratchpad". The careful application does not read in between.
* An echo that fails its check leaves PENDING set (`ds2431_txn.c:278-280`): only the caller
  keeps the corrupted block from being copied.
* `8_ds2431/main.c:150` goes on after a step that failed: after a failed baseline
  `write_data` keeps zero bytes or the last device's, and a row that holds them already
  "matches" without any copy, while lines 11-14 say the read-back proves the copy.
  `MatchAfterBaseline` asks for a baseline that was answered.
* A Read Memory carries no CRC (`ds2431.h:264-266`), and neither does its address:
  `OkMeansDone` allows garbled data, and under noise the content of another block. "The
  block asked for" is what it claims in the scenarios without noise, hot-plugging included
  (`Clean`, `Crowded`). After a refused void start the next poll reports the earlier
  operation's OK. `ds2431_set_parasite(0)` inside the programming window drops the supply.

Search: with corrupted bits and a family filter that rejects every leaf, nothing counts
towards the limit and termination is not guaranteed (`SearchEnds` asks for a still bus or no
filter). `onewire_search_start()` does not look at the drivers' engines.

Statistics: a reset that finds nobody is reported but not counted, although `no_presence` is
documented as "No presence pulse detected". In Skip-ROM mode errors go to whatever ROM was
selected last. `ow_stats.c:127-131` sizes the ring for its longest line; since a line is
queued per loop iteration and at most a byte leaves, it is the whole dump that has to fit
(`RingAssumption`).

9_multi:

* In the build with `OW_PARASITE_POWER` a round cut short by an absent sensor starts again
  by itself (`ds18b20_measure.c:131-135`, `182-187`), and `reported` goes on counting. It
  may reach the number of sensors in the middle of the new round. The fallback then calls
  `ds18b20_select()` on a running driver, which ignores it, and the results of the stray
  round are filed under the sequential cursor: a record gets another sensor's temperature,
  also in the EEPROM. `main.c:421-422` has the round drained by then, and "no round can
  start on its own any more". With two sensors: nobody answers the reset of the first, the
  round starts again, its first result completes the count, its second is filed under the
  first. `SensorOfRecord` fails there; `RecordOfItsSensor` excludes a parasite bus after a
  round was cut short, and nothing else.
* Power may fail between the ROM and the record it is for, which leaves the *old* record
  next to the new sensor's ROM, against `main.c:41-42` (`RomBeforeRecord` speaks of the
  moment a record is programmed).
* If a ROM job is copied and its status is misread or its read-back fails, RAM and EEPROM
  disagree about the ROM and a later record does not push it again. A record in that
  situation stays in the EEPROM while RAM keeps the older one, so a smaller peak may follow;
  a block that cannot be read at boot is overwritten like an empty one (`log.blindRom`,
  `log.blind`).

### Bounds, and why they are enough

* **DS18B20.** Two devices are the fewest with a first, a next and a last device of a round,
  a wired-AND of two answers and a table whose order can be wrong; ownership and the pull-up
  relate engines, whose control does not depend on the number of devices. `MaxDevices`
  equals it, so the table fills up; search limits range over `0..MaxDevices`. Resolutions 9
  and 12 are the shortest and the longest wait. `read_scratchpad` is called in
  `ds18b20_owner` only and `recall_eeprom` in none of the passing runs: polled again, the
  first applies an earlier command's bytes, and the second changes a device behind the
  tracked resolution, so `FreshReadings` would fail. The recall takes the path of
  `copy_scratchpad`.
* **DS2431.** Two blocks tell a wrong target, two devices a wrong addressee; a partial and a
  whole block differ in the E/S check. Each scenario combines the hazards that interact.
* **Registers.** Three periods have a first, a middle and a last one. Request lengths lie on
  both sides of every limit: 0, 1, below and above one period, at and above the reach, at
  and above the number of slots.
* **Search.** Five devices branch at the first, a middle and the last bit that can differ; 4
  bits have several discrepancies in one walk. Even parity plays the CRC: half of the ROMs,
  and any single wrong bit, are illegal.
* **Statistics.** Temperatures below zero, at -0.0625 degree and one that rounds; wrong bits
  in the data, a reserved byte, the CRC and across a byte boundary. The ring is the smallest
  `RingAssumption` allows, so a line too many is lost. History is reset with each batch, so
  nothing is unbounded.
* **Demo2431, RoundRobin.** Two boots are the fewest in which a row holds what an earlier
  one wrote; two devices have a next one. The resolutions are the code's four, in its order,
  so slow follows fast on each device.
* **Multi.** `MaxDevices` is `DS18B20_MAX_DEVICES` (`ow_config.h:219`, 8 by default). A
  round that is cut short takes at most about 0.76 s, one conversion and its resets, so five
  of them end within 4 s and two more within the 2 s of the drain; each reports a device at
  least. Hence `RoundsAssumption`, 8 <= 5 + 2 + 1 in the code: with a full table the count
  is complete before the drain could end in mid-round. The run has the smallest values that
  satisfy it (2, 1, 0), where a deadline overtakes a round soonest. `MaxRestarts` 1: a
  restart reaches any EEPROM content a session can leave, and boot starts from that content
  alone. The two sensors never measure the same, so a reading filed under the wrong one
  shows; each of them can hold either record, because the other fails or is missing from an
  earlier table. `FailLimit` is the code's 3.

There are no state constraints. Deadlock is checked except in the `statistics` and `multi`
runs, whose applications stop on an empty bus by design.

### Fairness

All of it is weak fairness of what cannot refuse: a one-pulse timer reaches its end
(`Hardware`), a main loop keeps polling what it started (`Poll`, `SearchPoll`, `OpDone`,
`Recorder`, the branches of the `statistics` loop), a program executes its next instruction
(`Execute`), the callback returns. The loops of the examples and the end of a pause
(`PauseOver`) are of that kind. It is on the disjunction of the outcomes, never on one
outcome: no device is assumed to answer and no transfer to succeed. The one exception is the
transmitter of the UART, which becomes ready while a measurement runs (`PollRunning(TRUE)`).

`PollDecode` relies on one timing fact: the ring drains within a conversion and a read (94
ms at least; 1023 bytes at 115200 baud take 89 ms), so a report that comes from a device
finds it empty.

## 4. What is proved

Every theorem is about the specification of a module with arbitrary constants, restricted
only by the assumptions named below; each strengthening was model-checked before it was
proved. A theorem is the last line of its module's proofs: the lemmas before it say, action
by action, what a step keeps.

### Ds18b20 (`Ds18b20Proofs`, `Ds18b20CycleProofs`)

About `Spec` with arbitrary `Devices`, `MaxDevices`, `Resolutions`, `Calls`, hot-plugging
and noise.

| theorem | statement | assumes |
|---|---|---|
| `TypeCorrect` | `Spec => []TypeOK` | none |
| `OneOwnerCorrect` | `Spec => []OneOwner` | `"scan_start"` not called from the callback |
| `PulsesCorrect` | `Spec => []PulsesServeOwner` | the same |
| `TimerCorrect` | `Spec => []TimerServesOwner` | the callback calls at most `select`, `set_parasite`, `start_measure` |
| `PullupCorrect` | `Spec => PullupBetweenOperations` | the same |
| `ReportsCorrect` | `Spec => []ReportsOfAskedDevices` | the same |
| `RoundReportsCorrect` | `Spec => RoundReports` | the same |
| `AnswersCorrect` | `Spec => []AnswersOnFreeLine`, a half of `PullupAsNeeded` | and parasite mode is switched on, never off or by `detect_parasite` |
| `PullupAsNeededCorrect` | `Spec => []PullupAsNeeded` | and one resolution is in use |
| `FreshReadingsCorrect` | `Spec => []FreshReadings` | the callback as above; one resolution in use, external supply, no hot-plugging |
| `BroadcastReadingsCorrect` | `Spec => []FreshReadings` | any resolutions, none above the default; the application only broadcasts (`BroadcastCalls`), external supply, no hot-plugging |

The assumptions are not for convenience. Without those about the callback the code does what
the second and third of the DS18B20 disagreements above describe. A mode switched off
between two cycles would leave the pin engaged: the driver releases it only on a bus it
knows to be a parasite one. With two resolutions in use an addressed change, or a plain read
of another device, leaves the driver with a wait too short for this one, and so does a raw
scratchpad read of zeros: with noise the one resolution of `FreshReadingsCorrect` is 9 bits,
while `BroadcastCalls`, without that read, covers noise with several resolutions; a device
that was plugged in has its EEPROM's resolution and no reading.

* `TypeOK` needs `IndexInv`: `scan_index` is below the end of the table whenever the poll is
  about to step or use it. `TypeInv == TypeOK /\ IndexInv` is inductive.
* `OneOwner` is not inductive: the continuation of a scan poll after the callback moves on
  without looking at the other engines. `OwnerInv` says engine by engine who excludes whom
  (`OwnersApart`) and that in a scan round the callback runs while the state is still DECODE
  (`ScanCallbackInDecode`), so that no start can have been accepted in it.
* `TimerServesOwner` adds `CallbackQuiet`: while a poll stands at its callback no other
  engine is active and the state is DECODE in a scan round, else IDLE or, once a measurement
  was requested, START. None of these has an operation in flight, so the continuation may
  arm the gap or move the pull-up. `TimerInv` is the conjunction of the three.
* `PullupBetweenOperations` follows because every step that changes pin or flag is taken
  when the operation has ended, which `TimerInv` gives.
* `PulsesServeOwner` follows from `OwnerInv`: whoever rewrites the union is the only active
  engine.
* `ReportsOfAskedDevices` is made inductive by `CycleInv`. A report is written in DECODE
  from the context, the captured frame and the table, which three polls have left there, so
  `ReadBack` follows the address: from the context to the pulse table (READ), to the devices
  that heard it (the write has ended), to the frame one of them answered with (the read has
  ended). `TableStored`: the entries a round visits were written by a search; entry 0 is
  visited even after a search has emptied the table under an armed scan. `RoundSoFar` bounds
  the history.
* `RoundReports` follows from `CycleInv`: a cycle ends at a reset that found nobody, at the
  decode of a single device, or at the continuation after the last device (`CycleEnds`), and
  at each of the three the length of the history is known.
* `PullupAsNeeded` has two halves. `LineInv`: outside parasite mode the pin is open-drain,
  and in it whatever is armed to be answered follows a release. `SupplyInv`: a device
  converts only from the write of Convert T to the end of the wait. In a scan round the next
  resets and gaps run with the pull-up released, and it matters that nobody converts any
  more.
* `FreshInv` follows the conversion over the same path in the other direction: every device
  the cycle measures (`Measured`: the addressed one, or all in a scan round) has heard
  Convert T, then needs no longer than the pending wait, then has a new reading, which is
  still new when the last of a round is read. When the wait is armed it needs
  `MeasuredCovered`: none of them takes longer than the tracked resolution says. Its lemmas
  (`FreshMeasure`, `FreshNext`) ask for no more than that, so that `RoundRobin`, where the
  others may be slower, can use them. Here it follows from `Covered`, which says it of every
  device.
* `CoverInv` gives `Covered` with several resolutions. From the write of a new resolution to
  the poll that reports it done (`Rewritten`) devices and driver disagree; nothing but that
  poll may run then. Every other way to change either (the threshold write with its tracked
  config byte, the adoption from a valid scratchpad) must keep them together.

### Ds2431 and its example (`Ds2431Proofs`)

About `DemoSpec`: the free application of `Ds2431` in every scenario outside `DemoScenes`,
the `8_ds2431` example in those inside. With `DemoScenes = {}` it is the driver under any
application. Devices (a finite set), blocks and scenarios are arbitrary; there is a block,
and no value that is written is one of the two that stand for a byte pattern nobody wrote
(`BlocksAssumption`, `ValuesAssumption`).

| theorem | statement |
|---|---|
| `DriverTyped` | `DemoSpec => []TypeOK2431` |
| `PhaseServed` | `DemoSpec => []TimerServesPhase` |
| `PendingIsOwn` | `DemoSpec => []PendingBelongsToSelected` |
| `ProgrammingPowered` | `DemoSpec => []PullupForProgramming` |
| `OnlyVerifiedCommits` | `DemoSpec => CommitsVerified` |
| `ReportsAreTrue` | `DemoSpec => OkMeansDone` |
| `MatchProvesCopy` | `DemoSpec => []MatchAfterBaseline` |

`DriverInv == TypeOK2431 /\ EngineInv /\ DevicesInv /\ CarefulInv` is inductive
(`DriverStep`, which covers the free application and the example):

* `EngineInv`: a search runs only in phases that have nothing in flight, so flag and
  operation are those of the phase, and the command on the wire is the one the phase belongs
  to. That needs nothing of the application.
* `DevicesInv`: a device programs only in the window of a copy, and one that is gone or
  refuses has nothing to program from.
* `CarefulInv` is about the careful application, and is where the chain from write to echo
  to copy is: what goes on the wire is the command that was accepted (nothing is called on a
  busy driver, so `ctx` cannot have changed between the call and `Build`); from a verified
  echo until the copy every addressed device holds the last write or has a flag that makes
  it refuse; a status that says OK comes from a device that programmed; a read hands out the
  block that was asked for, unless noise could reach the address. A device that powers up in
  between has lost its scratchpad, so it refuses too.
* `CycleInv` adds the example. `DemoServes` ties the branch of its loop to the driver's
  phase. `CopyPending`: after a baseline that was answered, the row differs from what was
  written until this cycle programmed it; a restart leaves no such claim. Then a matching
  read-back that was answered can only come from a row this cycle programmed.

### OwRegs (`OwRegsProofs`)

About `Spec` with any tables, byte counts and waits, any range of the period (`MaxArr`) and
any of the repetition counter of at least three slots (`Periods`, the longest pass of a
search step; `ScaleAssumption`).

| theorem | statement |
|---|---|
| `PulsesSentAsAsked` | `Spec => []PulsesAsAsked` |
| `CapturesAreComplete` | `Spec => []CapturesComplete` |
| `WaitsCover` | `Spec => []WaitCovers` |
| `RegsRefineTimer` | `Spec => Timer!Init /\ [][Timer!Next]_AbstractPort`, the safety part of `ImplementsTimer` |

`RegsInv` is inductive (`RegsStep`), and says in each of three situations how the registers,
the program and the bus fit together:

* *A call executes.* Every program that sends pulses is `Setup \o Launch` of one of four
  kinds: preloaded or fed by DMA, captured or not. After `n` of its writes, `SetupDone` and
  `LaunchDone` say which registers hold their final values and that UIF is clear from the
  eighth on, which is why the forced update event does not pass for an end (`Starting`;
  `StartingWait` and `Signalling` for the other calls). All that time the abstract port is
  the one before the call, and the last write is the step of `OwTimer`.
* *The timer runs.* `Sweeping` relates slot, stage and repetition counter to the pulses
  sent, to the table entries that the DMA has still to feed and to the widths the capture
  channel is still armed for; `WaitingOut` relates the time elapsed to the periods of the
  plan. One lemma per third of a period (`SweepEdge`, `SweepCompare`, `SweepEnd`) shows that
  a step keeps it.
* *The timer stands.* `Standing`: everything was sent, every width is in the buffer, the
  release pulse is in CCR3 and in its preload, a wait took the time planned.

`PlanCovers` is the arithmetic of `ow_port_plan_wait()`: the product of two values that are
rounded up and then clamped to their registers.

### Multi (`MultiProofs`)

About `Spec` with any number of sensors, any temperatures each of them may measure, any
tables a search may leave, either build and any `MaxRestarts`; `RoundsAssumption` is the
arithmetic of the two deadlines above.

| theorem | statement |
|---|---|
| `DriversTakeTurns` | `Spec => []OneDriverAtATime` |
| `RecordsAreMeasured` | `Spec => []RecordOfItsSensor` |
| `KnownRecordsAreStored` | `Spec => []KnownIsStored` |
| `GivesUp` | `Spec => []NoWriteAfterGivingUp` |
| `RecordsMoveOutward` | `Spec => RecordsMoveOneWay` |
| `RomsComeFirst` | `Spec => RomBeforeRecord` |

`MultiInv == TypeInv /\ RoundInv /\ SessionInv /\ StoredInv` is inductive. `RoundInv`:
outside a drain the reports so far and the driver's index belong together (`RoundSoFar`).
Either the next device is the next report, or the round started again: then the reports are
ahead of the index, and the position that their number names has no reading, so the count is
full before the readings are. A round that is complete and all good is of the first kind,
and its last report parks the driver. So the EEPROM is used only with both drivers idle - in
the parasite build too, where `RecordOfItsSensor` has its exception. `SessionInv`: the jobs
of a session name a ROM before the record next to it and for the same sensor
(`JobsInOrder`), and each record still to be written is beyond the one in RAM and has, or
will by then have, its ROM beside it (`JobsFit`; `QueuedJobs` and `RemainingJobs` are the
lemmas on the sequence of jobs). `StoredInv`: in a session that persists a block holds what
RAM says, or was torn, or was just programmed and is not yet read back. A restart may come
at any step, which is why the invariant speaks about every intermediate state of a session.

`FiledInv`, for `RecordsAreMeasured`, is inductive given `MultiInv`. As long as no round was
cut short, `AlignedInv`: the position a result is stored at is that of the device the driver
asks, in a scan round because the index is one more than the reports, in the sequential path
because a round the driver starts on its own starts at the first device and moves with the
cursor. `MeasuredInv` carries that from the readings to the jobs and from there to the
records. `CutStays` and `SupplyStays` say that the history only grows and that the build
does not change.

### OnewireSearch (`OnewireSearchProofs`)

About `Spec` with addresses of any length (`Bits`), any set of legal addresses (so whatever
the CRC is) and any devices among them, the requests in any order. `LimitAssumption` (there
is a largest limit: `max_devices` is a `uint8_t`) is used only to name the abstract
specification's bound.

| theorem | statement |
|---|---|
| `WalksReachNewLeaves` | `Spec => []WalkFollowsRom` |
| `SearchRefines` | `Spec => Search!Init /\ [][Search!Next]_(Search!vars)`, the safety part of `FindsEveryDevice` |

`SearchInv == TypeInv /\ EngineInv /\ StillInv` is inductive. `EngineInv` holds on any bus:
the timer runs the operation of the phase, the bit number belongs to the phase, the count is
below the limit while the search goes on. `StillInv` is the correctness of the walk on a bus
that keeps still, as four statements about *paths*: a device `Branches` from a path at bit
`i` when it agrees up to there and has a 1 where the path has a 0.

* `WalkInv`: those who still answer follow the bits sent, and the pair on the line is
  theirs.
* `LeafInv`: the last discrepancy is the deepest bit at which a device branches from the
  leaf of the walk before. Nothing else tells the engine which devices are left (`Left`):
  exactly those that branch from that leaf.
* `PathInv`: the path repeats that leaf up to the last discrepancy and takes the 1 there;
  somebody is on it; `last_zero` is the deepest bit at which somebody branches from it;
  whoever is left is on it or branches from it.
* `SinkInv`: the callback was given those of the family that are no longer left.

`PathExtends` shows that the direction rule keeps `PathInv` for one more bit - that no bit
on the repeated path can leave it, and that nobody who is left falls behind - and
`LeafFound` that a finished path is a device left, with exactly the others branching from
it. What an induction over the bits would assume of a prefix is a conjunct of the invariant,
so none is needed. The no-progress guard (`SameLeaf`) never fires on a still bus
(`LeafMet`): it serves the others.

### RoundRobin (`RoundRobinProofs`)

About `RRSpec` with any number of devices, any `MaxDevices`, cycle of resolutions and noise.
Both theorems assume external supply and no resolution above the default; without the second
the first wait may be too short for a device that has not yet been changed. The example has
no hot-plugging (`RRNext`).

| theorem | statement |
|---|---|
| `RoundRobinIsAnApplication` | `RRSpec => Spec`: the example is one of the applications `Ds18b20` allows |
| `PrintedCorrect` | `RRSpec => []PrintedIsOwnAndFresh` |

Because every step of the example is a step of `Spec`, what is proved of the driver holds in
it, and `DriverInv` (the invariants of the section before) is at hand in each of its states.
`FreshInv` is not for the taking: `FreshReadingsCorrect` wants one resolution, and
`BroadcastReadingsCorrect` an application that only broadcasts, while this one addresses a
device at a time and gives each another resolution. So `RRInv` is proved together with it.
It follows one device, the one that is addressed (`Target`):

* `ChangeInv`: the tracked resolution covers the target unless a change is queued or under
  way, and the change, when it is done, leaves the two equal. They part in the callback,
  which selects the next device; the loop starts the change before it starts the
  measurement, so none is armed between (`TurnInv`).
* `AnswerInv`: the scratchpad a cycle reads, and takes the resolution from, is the target's,
  so a measurement leaves the target covered.
* `TurnInv`: whose turn it is, and that the context has that ROM. What the driver reported
  (`ReportsOfAskedDevices`) is then what is printed, until the callback has moved on
  (`told`).
* `ScanInv`, `PlainBus`: what the search hands to the application is what it stored, and the
  rest of the driver is as this example leaves it.

### Statistics (`StatisticsProofs`)

About `Spec` with any devices, sweeps, frames and number of records, and any ring that holds
a report and a whole dump (`RingAssumption`).

| theorem | statement |
|---|---|
| `WholeBatchDumpedHolds` | `Spec => []WholeBatchDumped` |
| `RecordsOfReadsHolds` | `Spec => []RecordsOfReads` |
| `StatisticsInvariant` | `Spec => []Inv`, on which the two rest |
| `TemperatureRounded` | for any two bytes the result is the nearest tenth of a degree, a half away from zero, and fits in 16 bits |

`Inv == Typed /\ TurnInv /\ RingInv /\ RecordInv` is inductive:

* `TurnInv`: the cycles counted are the sweeps done times the devices, plus the place in the
  sweep, and each device was reported once more if its turn is over. A measurement runs for
  the device whose turn it is.
* `RingInv`: the indices of the ring tell the number of lines it holds (`Fill`), which
  during a dump is bounded by the phase of the dump (`LinesSoFar`), one line for each
  record. A dump begins behind a report that found the ring empty.
* `RecordInv`: a record's samples and extremes are those of its device; a device without one
  was not read in this batch, unless the table is full. With room for every device that is
  found the table never fills up before each of them has its record (`RoomForAll`, a
  pigeonhole argument), and the errors of the records add up. `total_errors` adds up in any
  case. Sums are *running totals* (`IsTotal`): to add one at a place is to add one to the
  totals from there on, which needs no induction.

The errors add up although `ErrorsOnTheRightSensor` fails: they are counted, once each, but
possibly against another record.

### What stays with TLC

Liveness and everything with ENABLED are outside the prover, and with them the refinements
as temporal formulas (their specifications contain fairness); for `OwRegs` and
`OnewireSearch` the initial states and the steps are proved. What a recursive function or a
fold computes for every input would need induction over data. So `ReadingTrue`, which is the
CRC's error detection and the assembly of bytes from pulses, is an exhaustive check of the
frames of the instance; the arithmetic behind the bytes is `TemperatureRounded`. It is the
one safety property without a theorem.

## 5. Not modelled

* The code of the DS2413 is a placeholder without behaviour.
* MCU headers and configuration are names, clocks and compile-time choices; the pulse widths
  are used where they decide a bit. `OW_DRIVE_ACTIVE` is a build option.
* `0_dma_pressure`, `1_basic`, `2_device_search`, `4_scan_mode`, `5_commands` and
  `7_low_power` call the drivers in fixed orders, which the applications of the driver runs
  include. `app.c` beyond the transmit ring is clock and UART set-up and number formatting.
* The pulse histogram of the statistics is a sum without control; more than `MaxSensors`
  sensors are refused by the same test that is modelled.
* In 9_multi the time-outs of searches, EEPROM operations and sequential measurements: the
  drivers end on their own (`EnginesEnd`, `SearchEnds`, `OperationsGoOn`), so these paths
  are for broken hardware; `PEAK_RESET`, the counter byte and the console.
* Tests, fuzzers, hardware-in-the-loop tools and build files.

## 6. What would come next

Every model of the plan is written, and every safety property of a passing run but
`ReadingTrue` is proved. What could still be weakened are assumptions: `FreshReadings` for
an application that addresses devices of several resolutions the way `3_round_robin` does
but on a bus with parasitic devices (where its resolution change is never applied, see the
disagreements), and hot-plugging, where a device comes back with its EEPROM's resolution and
the property needs an exception for it.
