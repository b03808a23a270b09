------------------------------- MODULE Ds18b20 ------------------------------
(***************************************************************************)
(* The DS18B20 driver: four engines - measurement, device search,          *)
(* resolution change, command transaction - that take turns on the one     *)
(* timer of OwPort, driven by an application that calls the API and polls. *)
(*                                                                         *)
(* Everything runs in one thread: a step is one API call, one poll call,   *)
(* or the hardware finishing the operation in flight.  The exception is    *)
(* ds18b20_complete(): the weak callback runs in the middle of a poll, so  *)
(* a poll that reports stops at the callback (cb names what is left to     *)
(* run) and the application may call the API before the poll resumes.      *)
(***************************************************************************)
EXTENDS OwPort, Sequences

CONSTANTS
    Devices,        \* ROM addresses of the DS18B20s wired to the bus
    NoRom,          \* the zero entry of the device table / Skip ROM
    MaxDevices,     \* DS18B20_MAX_DEVICES, the length of dev_roms
    Resolutions,    \* resolutions the application and the EEPROMs use
    DefaultRes,     \* DS18B20_RES_DEFAULT
    Parasitic,      \* the devices powered over the data line
    ParasiteArgs,   \* what the application passes to ds18b20_set_parasite()
    Calls,          \* API entry points the main loop uses
    CallbackCalls,  \* API entry points ds18b20_complete() uses
    HotPlug,        \* TRUE: devices come and go
    Noise           \* TRUE: a read may come back corrupted, or as zeros

Roms == Devices \cup {NoRom}

\* The resolution a config byte of zero stands for: DS18B20_RES_MIN.
ZeroRes == 9

\* Commands that run as transactions (ds18b20_txn.c), and the two kinds.
ReadCmds == {"read_rom", "read_scratchpad", "detect_parasite"}
WaitCmds == {"copy_scratchpad", "recall_eeprom"}
TxnCmds  == ReadCmds \cup WaitCmds \cup {"set_alarm_thresholds"}

BusCmds == TxnCmds \cup {"convert_t", "config", "none"}

Api == TxnCmds \cup
    {"start_measure", "scan_start", "select", "set_parasite",
     "search_start", "alarm_search_start", "set_resolution"}

ASSUME MaxDevicesAssumption == MaxDevices \in Nat \ {0}
ASSUME NoRomAssumption      == NoRom \notin Devices
ASSUME ResolutionAssumption ==
    /\ Resolutions \subseteq 9..12 /\ DefaultRes \in Resolutions
    /\ Noise => ZeroRes \in Resolutions
ASSUME CallsAssumption      == Calls \subseteq Api /\ CallbackCalls \subseteq Api
ASSUME ParasiticAssumption  == Parasitic \subseteq Devices /\ ParasiteArgs \subseteq BOOLEAN
ASSUME FlagsAssumption      == HotPlug \in BOOLEAN /\ Noise \in BOOLEAN

VARIABLES
    port,    \* the shared timer and pin (OwPort)
    ctx,     \* DS18B20_ctx_t: state, flags, scan_index, selected_rom, resolution
    table,   \* dev_roms and dev_count
    search,  \* onewire_search_ctx_t, ROM walks abstracted to whole devices
    res,     \* res_ctx_t
    txn,     \* ds18b20_txn_ctx_t
    pulses,  \* the phase_pulses union: what the feed DMA would send
    line,    \* capture buffers: presence seen, last read; devices addressed
    dev,     \* the devices
    cb,      \* what ds18b20_poll() still has to run after ds18b20_complete()
    led,     \* the last argument of ds18b20_busy()
    want,    \* the command whose *_poll() the application is calling
    round    \* history: the reports of the current cycle, in order

vars == <<port, ctx, table, search, res, txn, pulses, line, dev, cb, led,
          want, round>>

States == {"IDLE", "START", "CONVERT", "WAIT", "CONTINUE", "REQUEST", "READ",
           "DECODE"}
SearchPhases == {"RESET", "CMD", "READ_PAIR", "WRITE_READ", "WRITE_DIR", "DONE"}
ResPhases    == {"RESET", "WRITE", "DONE"}
TxnPhases    == {"RESET", "WRITE", "READ", "WAIT", "DONE"}

(***************************************************************************)
(* Data the properties tell apart.  A read answers with a frame: "ok" (one *)
(* device answered, checks pass), "ones" (nobody drove the line), "bad"    *)
(* (the CRC does not match) or "zeros" (a line held LOW: the CRC matches,  *)
(* the reserved bytes do not).  A temperature is "new" when it was         *)
(* converted in the current cycle.                                         *)
(***************************************************************************)
Temps == {"old", "new"}

Frames ==
    [kind : {"ok", "ones", "bad", "zeros"}, from : BusCmds, rom : Roms, temp : Temps,
     res : Resolutions, par : BOOLEAN]

Frame(kind, from, rom, temp, r, par) ==
    [kind |-> kind, from |-> from, rom |-> rom, temp |-> temp, res |-> r,
     par |-> par]

\* raw[] before any transaction ran: zero bytes, whose CRC-8 is zero as well.
ZeroFrame == Frame("ok", "none", NoRom, "old", DefaultRes, TRUE)

Reports ==
    [index : 0..MaxDevices, kind : {"temp", "no_sensor", "crc_fail"},
     asked : Roms, rom : Roms, temp : Temps]

DeviceType ==
    [present : BOOLEAN, res : Resolutions, ee : Resolutions, temp : Temps,
     conv : BOOLEAN]

-----------------------------------------------------------------------------
(***************************************************************************)
(* Who owns the timer.                                                     *)
(***************************************************************************)
SearchActive == ~search.finished

\* Mutant: the guard knows only one of the other engines.
OthersBusySearchOnly == SearchActive

\* The guard every entry point and ds18b20_poll() repeat.
OthersBusy == SearchActive \/ ~res.finished \/ ~txn.finished

\* Mutant: the start looks at the measurement state alone.
TimerFreeIdleOnly == ctx.state = "IDLE"

\* A start is accepted: driver IDLE and no other engine running.
TimerFree == ctx.state = "IDLE" /\ ~OthersBusy

TxnCanStart == TimerFree /\ ~ctx.scan

\* The application may call c now: from its loop, or from the callback.
May(c) == c \in (IF cb = "none" THEN Calls ELSE CallbackCalls)

\* The strong pull-up is engaged or released only on a parasite bus.
PullupIf(p, on) == IF ctx.par THEN StrongPullup(p, on) ELSE p

\* Devices that hear a command addressed to rom (NoRom: Skip ROM, or bare).
Hearing(rom) ==
    {d \in Devices : dev[d].present /\ (rom = NoRom \/ d = rom)}

Init ==
    /\ port = PortInit
    /\ ctx = [state |-> "IDLE", addr |-> FALSE, scan |-> FALSE, par |-> FALSE,
              index |-> 0, rom |-> NoRom, res |-> DefaultRes]
    /\ table = [roms |-> [i \in 0..MaxDevices - 1 |-> NoRom], count |-> 0]
    /\ search = [phase |-> "RESET", alarm |-> FALSE, left |-> {}, prev |-> NoRom,
                 found |-> 0, max |-> 0, finished |-> TRUE]
    /\ res = [phase |-> "RESET", pending |-> DefaultRes, applied |-> FALSE,
              finished |-> TRUE]
    /\ txn = [phase |-> "RESET", cmd |-> "none", ok |-> FALSE,
              raw |-> ZeroFrame, finished |-> TRUE]
    /\ pulses = [cmd |-> "none", rom |-> NoRom, cfg |-> DefaultRes]
    /\ line = [seen |-> FALSE, frame |-> ZeroFrame, heard |-> {}]
    /\ \E ee \in [Devices -> Resolutions] :
           dev = [d \in Devices |-> [present |-> TRUE, res |-> ee[d],
                     ee |-> ee[d], temp |-> "old", conv |-> FALSE]]
    /\ cb = "none"
    /\ led = FALSE
    /\ want = "none"
    /\ round = <<>>

-----------------------------------------------------------------------------
(***************************************************************************)
(* Application calls that only change software state, and the two starts   *)
(* of a measurement.                                                       *)
(***************************************************************************)
StartMeasure ==
    /\ May("start_measure")
    /\ TimerFree
    /\ ctx' = [ctx EXCEPT !.state = "START"]
    /\ port' = Kick(port)
    /\ UNCHANGED <<table, search, res, txn, pulses, line, dev, cb, led, want, round>>

ScanStart ==
    /\ May("scan_start")
    /\ TimerFree
    /\ table.count # 0
    /\ ctx' = [ctx EXCEPT !.scan = TRUE, !.index = 0]
    /\ UNCHANGED <<port, table, search, res, txn, pulses, line, dev, cb, led, want, round>>

Select(rom) ==
    /\ May("select")
    /\ TimerFree
    /\ ctx' = [ctx EXCEPT !.scan = FALSE, !.addr = (rom # NoRom),
                          !.rom = IF rom = NoRom THEN @ ELSE rom]
    /\ UNCHANGED <<port, table, search, res, txn, pulses, line, dev, cb, led, want, round>>

(***************************************************************************)
(* ds18b20_set_parasite() has no guard; its documentation asks for a call  *)
(* between cycles, and the application modelled here keeps to that.        *)
(***************************************************************************)
SetParasite(on) ==
    /\ May("set_parasite")
    /\ on \in ParasiteArgs
    /\ TimerFree
    /\ ctx' = [ctx EXCEPT !.par = on]
    /\ UNCHANGED <<port, table, search, res, txn, pulses, line, dev, cb, led, want, round>>

-----------------------------------------------------------------------------
(***************************************************************************)
(* The measurement engine: ds18b20_poll().                                 *)
(***************************************************************************)
Consumed == BusDone(port)

\* The poll gets past its ownership guard and finds the operation done.
MeasureDone(state) ==
    /\ cb = "none"
    /\ ~OthersBusy
    /\ port.uif
    /\ ctx.state = state

PollIdle ==
    /\ MeasureDone("IDLE")
    /\ ~ctx.scan
    /\ port' = Consumed
    /\ UNCHANGED <<ctx, table, search, res, txn, pulses, line, dev, cb, led, want, round>>

\* START, also reached by falling through from IDLE when a scan is armed.
PollStart ==
    /\ MeasureDone("START") \/ (MeasureDone("IDLE") /\ ctx.scan)
    /\ led' = TRUE
    /\ port' = Arm(PullupIf(Consumed, FALSE), "reset")
    /\ ctx' = [ctx EXCEPT !.state = "CONVERT"]
    /\ round' = <<>>
    /\ dev' = [d \in Devices |-> [dev[d] EXCEPT !.temp = "old"]]
    /\ UNCHANGED <<table, search, res, txn, pulses, line, cb, want>>

\* ds18b20_complete(): the poll stops here, rest names its continuation.
Complete(c, kind, rom, temp, rest) ==
    /\ round' = Append(round,
           [index |-> c.index, kind |-> kind, rom |-> rom, temp |-> temp,
            asked |-> IF c.addr THEN c.rom ELSE NoRom])
    /\ cb' = rest

(***************************************************************************)
(* issue_command(): c and p are the context and the port as the caller     *)
(* left them.  Without presence the cycle is over: IDLE first, then the    *)
(* busy indicator, then the report.                                        *)
(***************************************************************************)
IssueCommand(c, p, cmd, next) ==
    \/ /\ line.seen
       /\ pulses' = [pulses EXCEPT !.cmd = cmd,
                                   !.rom = IF c.addr THEN c.rom ELSE NoRom]
       /\ port' = Arm(p, "write")
       /\ ctx' = [c EXCEPT !.state = next]
       /\ UNCHANGED <<cb, led, round>>
    \/ /\ ~line.seen
       /\ port' = p
       /\ ctx' = [c EXCEPT !.state = "IDLE"]
       /\ led' = FALSE
       /\ Complete(c, "no_sensor", NoRom, "old", "parked")
       /\ UNCHANGED pulses

\* Mutant: a new scan round keeps the index the last one ended with.
RoundContextKept == IF ctx.scan THEN [ctx EXCEPT !.addr = FALSE] ELSE ctx

\* A scan round broadcasts Convert T and starts over at device 0.
RoundContext == IF ctx.scan THEN [ctx EXCEPT !.index = 0, !.addr = FALSE] ELSE ctx

PollConvert ==
    /\ MeasureDone("CONVERT")
    /\ IssueCommand(RoundContext, PullupIf(Consumed, TRUE), "convert_t", "WAIT")
    /\ UNCHANGED <<table, search, res, txn, line, dev, want>>

\* Mutant: the wait is taken from the row below in the resolution table.
ConversionWaitShort == ctx.res - 1

\* wait_conversion(): the wait follows the tracked resolution.
ConversionWait == ctx.res

PollWait ==
    /\ MeasureDone("WAIT")
    /\ port' = ArmWait(PullupIf(Consumed, TRUE), ConversionWait)
    /\ ctx' = [ctx EXCEPT !.state = "CONTINUE"]
    /\ UNCHANGED <<table, search, res, txn, pulses, line, dev, cb, led, want, round>>

\* Mutant: the second reset is driven with the pull-up engaged.
PollContinueHeld ==
    /\ MeasureDone("CONTINUE")
    /\ port' = Arm(Consumed, "reset")
    /\ ctx' = [ctx EXCEPT !.state = "REQUEST"]
    /\ UNCHANGED <<table, search, res, txn, pulses, line, dev, cb, led, want, round>>

PollContinue ==
    /\ MeasureDone("CONTINUE")
    /\ port' = Arm(StrongPullup(Consumed, FALSE), "reset")
    /\ ctx' = [ctx EXCEPT !.state = "REQUEST"]
    /\ UNCHANGED <<table, search, res, txn, pulses, line, dev, cb, led, want, round>>

\* A scan round addresses the device at scan_index for its read-back.
ReadContext ==
    IF ctx.scan THEN [ctx EXCEPT !.rom = table.roms[ctx.index], !.addr = TRUE] ELSE ctx

PollRequest ==
    /\ MeasureDone("REQUEST")
    /\ IssueCommand(ReadContext, PullupIf(Consumed, TRUE), "read_scratchpad", "READ")
    /\ UNCHANGED <<table, search, res, txn, line, dev, want>>

PollRead ==
    /\ MeasureDone("READ")
    /\ port' = Arm(PullupIf(Consumed, FALSE), "read")
    /\ ctx' = [ctx EXCEPT !.state = "DECODE"]
    /\ UNCHANGED <<table, search, res, txn, pulses, line, dev, cb, led, want, round>>

\* Reserved bytes and CRC of the scratchpad are right.
ValidScratchpad(f) == f.kind = "ok" /\ f.from = "read_scratchpad"

\* Mutant: the config byte is adopted before the CRC is checked.
TrackedResUnchecked(f) == f.res

\* Only a valid frame updates the tracked resolution.
TrackedRes(f) == IF ValidScratchpad(f) THEN f.res ELSE ctx.res

(***************************************************************************)
(* DECODE up to the callback: in single-device mode it runs at IDLE, in    *)
(* scan mode still in DECODE.                                              *)
(***************************************************************************)
PollDecode ==
    /\ MeasureDone("DECODE")
    /\ LET f    == line.frame
           kind == IF ValidScratchpad(f) THEN "temp"
                   ELSE IF ctx.addr /\ f.kind = "ones" THEN "no_sensor"
                   ELSE "crc_fail"
       IN /\ ctx' = [ctx EXCEPT !.state = IF ctx.scan THEN "DECODE" ELSE "IDLE",
                                !.res = TrackedRes(f)]
          /\ Complete(ctx, kind, f.rom, f.temp, "finish")
    /\ port' = Consumed
    /\ led' = FALSE
    /\ UNCHANGED <<table, search, res, txn, pulses, line, dev, want>>

(***************************************************************************)
(* The rest of the poll once the callback returns.                         *)
(***************************************************************************)
\* issue_command() after its no-sensor report.
CallbackReturnParked ==
    /\ cb = "parked"
    /\ cb' = "none"
    /\ port' = PullupIf(port, TRUE)
    /\ UNCHANGED <<ctx, table, search, res, txn, pulses, line, dev, led, want, round>>

\* Mutant: the last device of the table is dropped.
LastDeviceEarly == ctx.index + 2 >= table.count

LastDevice == ctx.index + 1 >= table.count

\* Mutant: nothing is armed that would raise the flag CONTINUE waits for.
GapBeforeNextNone(p) == p

\* ow_start_wait(SCAN_DEVICE_GAP_US): the bridge to CONTINUE.
GapBeforeNext(p) == ArmWait(p, 0)

\* scan_finish_or_next(): park, next device, or end of the round.
ScanFinishOrNext ==
    /\ cb = "finish"
    /\ cb' = "none"
    /\ \/ /\ ~ctx.scan
          /\ port' = PullupIf(port, TRUE)
          /\ UNCHANGED ctx
       \/ /\ ctx.scan
          /\ ~LastDevice
          /\ ctx' = [ctx EXCEPT !.index = @ + 1, !.state = "CONTINUE"]
          /\ port' = GapBeforeNext(port)
       \/ /\ ctx.scan
          /\ LastDevice
          /\ ctx' = [ctx EXCEPT !.index = @ + 1, !.state = "IDLE"]
          /\ port' = PullupIf(port, TRUE)
    /\ UNCHANGED <<table, search, res, txn, pulses, line, dev, led, want, round>>

MeasurePoll ==
    \/ PollIdle \/ PollStart \/ PollConvert \/ PollWait \/ PollContinue
    \/ PollRequest \/ PollRead \/ PollDecode

CallbackReturn == CallbackReturnParked \/ ScanFinishOrNext

-----------------------------------------------------------------------------
(***************************************************************************)
(* The device search.  One walk over the 64 ROM bits is kept as its phases *)
(* (the 63 merged steps in the middle collapse into one); which leaf a     *)
(* walk reaches is nondeterministic among the devices not walked yet.      *)
(***************************************************************************)
SearchBegin(alarm, max) ==
    /\ May(IF alarm THEN "alarm_search_start" ELSE "search_start")
    /\ TimerFree
    /\ table' = IF alarm THEN table ELSE [table EXCEPT !.count = 0]
    /\ search' = [phase |-> IF max = 0 THEN "DONE" ELSE "RESET", alarm |-> alarm,
                  left |-> Devices, prev |-> NoRom, found |-> 0, max |-> max, finished |-> FALSE]
    /\ port' = IF max = 0 THEN port ELSE Arm(port, "reset")
    /\ UNCHANGED <<ctx, res, txn, pulses, line, dev, cb, led, want, round>>

SearchFinish ==
    /\ cb = "none"
    /\ SearchActive
    /\ search.phase = "DONE"
    /\ search' = [search EXCEPT !.finished = TRUE, !.left = {}, !.prev = NoRom]
    /\ UNCHANGED <<port, ctx, table, res, txn, pulses, line, dev, cb, led, want, round>>

SearchDone(phase) ==
    /\ cb = "none"
    /\ SearchActive
    /\ search.phase = phase
    /\ port.uif

\* A search step either schedules the next operation or ends the search.
SearchNext(operation, phase) ==
    /\ port' = Arm(Consumed, operation)
    /\ search' = [search EXCEPT !.phase = phase]

SearchEnd ==
    /\ port' = Consumed
    /\ search' = [search EXCEPT !.phase = "DONE"]

SearchReset ==
    /\ SearchDone("RESET")
    /\ IF line.seen THEN SearchNext("command", "CMD") ELSE SearchEnd
    /\ UNCHANGED <<ctx, table, res, txn, pulses, line, dev, cb, led, want, round>>

SearchCommand ==
    /\ SearchDone("CMD")
    /\ SearchNext("slots", "READ_PAIR")
    /\ UNCHANGED <<ctx, table, res, txn, pulses, line, dev, cb, led, want, round>>

\* A walk meets only what it expects while devices stay and lines are clean.
Disturbed == HotPlug \/ Noise

(***************************************************************************)
(* onewire_search_advance_bit(): somebody answered and the direction is    *)
(* written, or the pair reads 1,1 - nobody on this path, or (alarm search) *)
(* nobody in alarm.                                                        *)
(***************************************************************************)
SearchPair ==
    /\ \/ /\ line.heard # {}
          /\ \/ SearchDone("READ_PAIR") /\ SearchNext("slots", "WRITE_READ")
             \/ SearchDone("WRITE_READ") /\ SearchNext("slots", "WRITE_DIR")
       \/ /\ line.heard = {} \/ search.alarm \/ Disturbed
          /\ SearchDone("READ_PAIR") \/ SearchDone("WRITE_READ")
          /\ SearchEnd
    /\ UNCHANGED <<ctx, table, res, txn, pulses, line, dev, cb, led, want, round>>

\* The assembled ROM fails its CRC.
SearchRomBad ==
    /\ Disturbed
    /\ SearchDone("WRITE_DIR")
    /\ SearchEnd
    /\ UNCHANGED <<ctx, table, res, txn, pulses, line, dev, cb, led, want, round>>

(***************************************************************************)
(* A device is found: search_store_sink() puts it into the table while     *)
(* there is room (search_alarm_sink() does not); the user sink may stop    *)
(* the search, the limit may be reached, or no discrepancy may be left     *)
(* (~more); otherwise another pass starts.  On a disturbed bus a walk may  *)
(* end at a device an earlier one met: it is stored once more, and only    *)
(* the leaf of the pass before (prev_leaf) ends the search.                *)
(***************************************************************************)
SearchRom(d, stop, more) ==
    /\ SearchDone("WRITE_DIR")
    /\ d \in line.heard /\ (d \in search.left \/ Disturbed)
    /\ table' = IF search.alarm \/ table.count >= MaxDevices THEN table
                ELSE [roms |-> [table.roms EXCEPT ![table.count] = d],
                      count |-> table.count + 1]
    /\ LET s == [search EXCEPT !.left = @ \ {d}, !.prev = d, !.found = @ + 1]
       IN /\ more => s.left # {} \/ Disturbed
          /\ ~more => s.left = {} \/ search.alarm \/ Disturbed
          /\ IF stop \/ s.found >= s.max \/ ~more \/ d = search.prev
                THEN /\ search' = [s EXCEPT !.phase = "DONE"]
                     /\ port' = Consumed
                ELSE /\ search' = [s EXCEPT !.phase = "RESET"]
                     /\ port' = Arm(Consumed, "reset")
    /\ UNCHANGED <<ctx, res, txn, pulses, line, dev, cb, led, want, round>>

SearchPoll ==
    \/ SearchFinish \/ SearchReset \/ SearchCommand \/ SearchPair \/ SearchRomBad
    \/ \E d \in Devices, stop, more \in BOOLEAN : SearchRom(d, stop, more)

-----------------------------------------------------------------------------
(***************************************************************************)
(* The resolution change.                                                  *)
(***************************************************************************)
SetResolution(bits) ==
    /\ May("set_resolution")
    /\ TimerFree
    /\ res' = [phase |-> "RESET", pending |-> bits, applied |-> FALSE, finished |-> FALSE]
    /\ pulses' = [cmd |-> "config", cfg |-> bits,
                  rom |-> IF ctx.addr /\ ~ctx.scan THEN ctx.rom ELSE NoRom]
    /\ port' = Arm(port, "reset")
    /\ UNCHANGED <<ctx, table, search, txn, line, dev, cb, led, want, round>>

ResFinish ==
    /\ cb = "none"
    /\ ~res.finished
    /\ res.phase = "DONE"
    /\ ctx' = [ctx EXCEPT !.res = IF res.applied THEN res.pending ELSE @]
    /\ res' = [res EXCEPT !.finished = TRUE]
    /\ UNCHANGED <<port, table, search, txn, pulses, line, dev, cb, led, want, round>>

ResDone(phase) ==
    /\ cb = "none"
    /\ ~res.finished
    /\ res.phase = phase
    /\ port.uif

ResReset ==
    /\ ResDone("RESET")
    /\ \/ /\ line.seen
          /\ port' = Arm(Consumed, "write")
          /\ res' = [res EXCEPT !.phase = "WRITE"]
       \/ /\ ~line.seen
          /\ port' = Consumed
          /\ res' = [res EXCEPT !.phase = "DONE"]
    /\ UNCHANGED <<ctx, table, search, txn, pulses, line, dev, cb, led, want, round>>

ResWrite ==
    /\ ResDone("WRITE")
    /\ port' = Consumed
    /\ res' = [res EXCEPT !.phase = "DONE", !.applied = TRUE]
    /\ UNCHANGED <<ctx, table, search, txn, pulses, line, dev, cb, led, want, round>>

ResPoll == ResFinish \/ ResReset \/ ResWrite

-----------------------------------------------------------------------------
(***************************************************************************)
(* The command transactions.  want follows the application: having called  *)
(* a command it polls that command, whether the call was accepted or not   *)
(* (the functions return void).                                            *)
(***************************************************************************)
\* txn_build_pulses(): Read ROM goes out bare, the rest to the selected device;
\* the payload of the threshold write ends in the tracked config byte.
TxnPulses(cmd) ==
    [cmd |-> cmd, cfg |-> ctx.res,
     rom |-> IF ctx.addr /\ ~ctx.scan /\ cmd # "read_rom" THEN ctx.rom ELSE NoRom]

TxnStart(cmd) ==
    /\ TxnCanStart
    /\ txn' = [txn EXCEPT !.phase = "RESET", !.cmd = cmd, !.ok = FALSE, !.finished = FALSE]
    /\ pulses' = TxnPulses(cmd)
    /\ port' = Arm(StrongPullup(port, FALSE), "reset")

TxnCall(cmd) ==
    /\ May(cmd)
    /\ want' = cmd
    /\ TxnStart(cmd) \/ (~TxnCanStart /\ UNCHANGED <<txn, pulses, port>>)
    /\ UNCHANGED <<ctx, table, search, res, line, dev, cb, led, round>>

TxnDone(phase) ==
    /\ cb = "none"
    /\ want # "none"
    /\ ~txn.finished
    /\ txn.phase = phase
    /\ port.uif

TxnReset ==
    /\ TxnDone("RESET")
    /\ \/ /\ line.seen
          /\ port' = Arm(PullupIf(Consumed, TRUE), "write")
          /\ txn' = [txn EXCEPT !.phase = "WRITE"]
       \/ /\ ~line.seen
          /\ port' = Consumed
          /\ txn' = [txn EXCEPT !.phase = "DONE"]
    /\ UNCHANGED <<ctx, table, search, res, pulses, line, dev, cb, led, want, round>>

TxnWrite ==
    /\ TxnDone("WRITE")
    /\ \/ /\ txn.cmd \in ReadCmds
          /\ port' = Arm(PullupIf(Consumed, FALSE), "read")
          /\ txn' = [txn EXCEPT !.phase = "READ"]
       \/ /\ txn.cmd \in WaitCmds
          /\ port' = ArmWait(PullupIf(Consumed, TRUE), 0)
          /\ txn' = [txn EXCEPT !.phase = "WAIT"]
       \/ /\ txn.cmd \notin ReadCmds \cup WaitCmds
          /\ port' = PullupIf(Consumed, FALSE)
          /\ txn' = [txn EXCEPT !.phase = "DONE", !.ok = TRUE]
    /\ UNCHANGED <<ctx, table, search, res, pulses, line, dev, cb, led, want, round>>

TxnRead ==
    /\ TxnDone("READ")
    /\ port' = Consumed
    /\ txn' = [txn EXCEPT !.phase = "DONE", !.ok = TRUE, !.raw = line.frame]
    /\ UNCHANGED <<ctx, table, search, res, pulses, line, dev, cb, led, want, round>>

TxnWait ==
    /\ TxnDone("WAIT")
    /\ port' = StrongPullup(Consumed, FALSE)
    /\ txn' = [txn EXCEPT !.phase = "DONE", !.ok = TRUE]
    /\ UNCHANGED <<ctx, table, search, res, pulses, line, dev, cb, led, want, round>>

\* The raw read checks the CRC alone, and the CRC-8 of zeros is zero.
CrcMatches(f) == f.kind \in {"ok", "zeros"}

(***************************************************************************)
(* What a *_poll() that returns 1 does to the context.  It looks at the ok *)
(* flag, at the result buffer of the accepted command (only the read       *)
(* commands have one) and at raw[], not at the command that filled raw[]:  *)
(* bytes another command left there decode to any resolution if the CRC    *)
(* byte happens to match, and to any power answer.                         *)
(***************************************************************************)
Applied(c, t) ==
    CASE ~t.ok -> {ctx}
      [] t.ok /\ c = "read_scratchpad" ->
            IF t.cmd \notin ReadCmds \/ (t.raw.from = c /\ ~CrcMatches(t.raw)) THEN {ctx}
            ELSE IF t.raw.from = c THEN {[ctx EXCEPT !.res = t.raw.res]}
            ELSE {ctx} \cup {[ctx EXCEPT !.res = r] : r \in Resolutions}
      [] t.ok /\ c = "detect_parasite" ->
            IF t.raw.from \in {c, "none"} THEN {[ctx EXCEPT !.par = t.raw.par]}
            ELSE {[ctx EXCEPT !.par = b] : b \in BOOLEAN}
      [] OTHER -> {ctx}

TxnFinish ==
    /\ cb = "none"
    /\ want # "none"
    /\ ~txn.finished
    /\ txn.phase = "DONE"
    /\ txn' = [txn EXCEPT !.finished = TRUE]
    /\ ctx' \in Applied(want, txn)
    /\ UNCHANGED <<port, table, search, res, pulses, line, dev, cb, led, want, round>>

\* The poll of a finished transaction returns 1 again, and applies again.
TxnPollAgain ==
    /\ cb = "none"
    /\ want # "none"
    /\ txn.finished
    /\ ctx' \in Applied(want, txn)
    /\ UNCHANGED <<port, table, search, res, txn, pulses, line, dev, cb, led, want, round>>

TxnPoll ==
    TxnReset \/ TxnWrite \/ TxnRead \/ TxnWait \/ TxnFinish

-----------------------------------------------------------------------------
(***************************************************************************)
(* The hardware: the operation in flight ends, with its effect on the bus. *)
(***************************************************************************)
HwEnds(operation) ==
    /\ port.op = operation
    /\ port' = HwDone(port)
    /\ UNCHANGED <<ctx, table, search, res, txn, pulses, cb, led, want, round>>

(***************************************************************************)
(* Presence is captured only while the line is free to be pulled LOW.  The *)
(* capture buffer is the one the reads use (the union in DS18B20_ctx_t),   *)
(* so the frame of an earlier read is gone.                                *)
(***************************************************************************)
HwReset ==
    /\ HwEnds("reset")
    /\ line' = [seen |-> port.pin = "od" /\ \E d \in Devices : dev[d].present,
                frame |-> ZeroFrame, heard |-> {}]
    /\ UNCHANGED dev

\* The DMA has sent what phase_pulses holds now.
HwWrite ==
    /\ HwEnds("write")
    /\ line' = [line EXCEPT !.heard = Hearing(pulses.rom)]
    /\ dev' = [d \in Devices |->
                 IF d \notin Hearing(pulses.rom) THEN dev[d]
                 ELSE CASE pulses.cmd = "convert_t" -> [dev[d] EXCEPT !.conv = TRUE]
                        [] pulses.cmd \in {"config", "set_alarm_thresholds"} ->
                               [dev[d] EXCEPT !.res = pulses.cfg]
                        [] OTHER -> dev[d]]

Answering == {d \in line.heard : dev[d].present}

Scratchpad(d) == Frame("ok", pulses.cmd, d, dev[d].temp, dev[d].res, d \in Parasitic)

SameContent(d, e) == dev[d].temp = dev[e].temp /\ dev[d].res = dev[e].res

(***************************************************************************)
(* What a read can capture: nothing if nobody answers or the master itself *)
(* drives the line HIGH; a clean frame if one device answers, or several   *)
(* with the same content; else a wired-AND of frames that fails its checks.*)
(* A power-supply answer is LOW as soon as one parasitic device answers.   *)
(***************************************************************************)
ReadFrames ==
    LET ones == Frame("ones", pulses.cmd, NoRom, "old", DefaultRes, FALSE)
        bad  == {[ones EXCEPT !.kind = "bad", !.par = b] : b \in BOOLEAN}
    IN IF Answering = {} \/ port.pin = "pp" THEN {ones}
       ELSE IF pulses.cmd = "detect_parasite"
            THEN {[ones EXCEPT !.kind = "bad", !.par = (Answering \cap Parasitic # {})]}
       ELSE IF \A d, e \in Answering :
                   d = e \/ (pulses.cmd = "read_scratchpad" /\ SameContent(d, e))
            THEN {Scratchpad(d) : d \in Answering}
       ELSE bad

\* Noise spoils the bytes of a read, or holds the line LOW for all of it.
NoiseFrames ==
    IF Noise THEN {Frame("bad", pulses.cmd, NoRom, "old", r, FALSE) : r \in Resolutions}
                  \cup {Frame("zeros", pulses.cmd, NoRom, "old", ZeroRes, TRUE)}
             ELSE {}

HwRead ==
    /\ HwEnds("read")
    /\ \E f \in ReadFrames \cup NoiseFrames : line' = [line EXCEPT !.frame = f]
    /\ UNCHANGED dev

Powered(d) == d \notin Parasitic \/ port.pin = "pp"

(***************************************************************************)
(* A wait ends: a conversion that needed no more than the wait is ready;   *)
(* one whose device lost its supply is lost; EEPROM commands take effect.  *)
(***************************************************************************)
AfterWait(d) ==
    LET x == dev[d]
        n == IF x.conv /\ ~Powered(d) THEN [x EXCEPT !.conv = FALSE]
             ELSE IF x.conv /\ port.us >= x.res
                  THEN [x EXCEPT !.conv = FALSE, !.temp = "new"]
             ELSE x
    IN IF d \notin Answering \/ ~Powered(d) THEN n
       ELSE CASE pulses.cmd = "copy_scratchpad" -> [n EXCEPT !.ee = n.res]
              [] pulses.cmd = "recall_eeprom"   -> [n EXCEPT !.res = n.ee]
              [] OTHER -> n

HwWait ==
    /\ HwEnds("wait")
    /\ dev' = [d \in Devices |-> AfterWait(d)]
    /\ UNCHANGED line

\* Every device on the bus takes part in the command and in the slots.
HwSearchSlots ==
    /\ HwEnds("command") \/ HwEnds("slots")
    /\ line' = [line EXCEPT !.heard = Hearing(NoRom)]
    /\ UNCHANGED dev

Hardware == HwReset \/ HwWrite \/ HwRead \/ HwWait \/ HwSearchSlots

\* A device leaves the bus, or powers up with its EEPROM configuration.
Plug(d) ==
    /\ HotPlug
    /\ dev' = [dev EXCEPT ![d].present = ~@, ![d].res = dev[d].ee,
                          ![d].temp = "old", ![d].conv = FALSE]
    /\ UNCHANGED <<port, ctx, table, search, res, txn, pulses, line, cb, led, want, round>>

-----------------------------------------------------------------------------
Application ==
    \/ StartMeasure
    \/ ScanStart
    \/ \E rom \in Roms : Select(rom)
    \/ \E on \in BOOLEAN : SetParasite(on)
    \/ \E alarm \in BOOLEAN, max \in 0..MaxDevices : SearchBegin(alarm, max)
    \/ \E bits \in Resolutions : SetResolution(bits)
    \/ \E cmd \in TxnCmds : TxnCall(cmd)

Next ==
    \/ Application
    \/ MeasurePoll \/ CallbackReturn \/ SearchPoll \/ ResPoll \/ TxnPoll \/ TxnPollAgain
    \/ Hardware
    \/ \E d \in Devices : Plug(d)

(***************************************************************************)
(* The hardware timer always reaches its end, the main loop keeps polling  *)
(* the engine it started, and a callback returns.  The application is      *)
(* under no obligation to call anything else.                              *)
(***************************************************************************)
Fairness ==
    /\ WF_vars(Hardware)
    /\ WF_vars(MeasurePoll)
    /\ WF_vars(CallbackReturn)
    /\ WF_vars(SearchPoll)
    /\ WF_vars(ResPoll)
    /\ WF_vars(TxnPoll)

Spec == Init /\ [][Next]_vars

FairSpec == Spec /\ Fairness

=============================================================================
