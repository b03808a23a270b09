---------------------------- MODULE Ds18b20Props ----------------------------
(***************************************************************************)
(* What the DS18B20 driver has to guarantee, stated over module Ds18b20.   *)
(***************************************************************************)
EXTENDS Ds18b20

-----------------------------------------------------------------------------
CtxType ==
    [state : States, addr : BOOLEAN, scan : BOOLEAN, par : BOOLEAN,
     index : 0..MaxDevices, rom : Roms, res : Resolutions]

TableType  == [roms : [0..MaxDevices - 1 -> Roms], count : 0..MaxDevices]

SearchType ==
    [phase : SearchPhases, alarm : BOOLEAN, left : SUBSET Devices, prev : Roms,
     found : Nat, max : 0..MaxDevices, finished : BOOLEAN]

ResType ==
    [phase : ResPhases, pending : Resolutions, applied : BOOLEAN, finished : BOOLEAN]

TxnType ==
    [phase : TxnPhases, cmd : TxnCmds \cup {"none"}, ok : BOOLEAN, raw : Frames,
     finished : BOOLEAN]

PulsesType == [cmd : BusCmds, rom : Roms, cfg : Resolutions]

LineType   == [seen : BOOLEAN, frame : Frames, heard : SUBSET Devices]

(***************************************************************************)
(* Type invariant: every variable keeps its shape; scan_index and          *)
(* dev_count never exceed DS18B20_MAX_DEVICES, and a wait is always one    *)
(* the resolution table has.                                               *)
(***************************************************************************)
TypeOK ==
    /\ port \in PortType(Resolutions \cup {0})
    /\ ctx \in CtxType
    /\ table \in TableType
    /\ search \in SearchType
    /\ res \in ResType
    /\ txn \in TxnType
    /\ pulses \in PulsesType
    /\ line \in LineType
    /\ dev \in [Devices -> DeviceType]
    /\ cb \in {"none", "finish", "parked"}
    /\ led \in BOOLEAN
    /\ want \in TxnCmds \cup {"none"}
    /\ round \in Seq(Reports)

-----------------------------------------------------------------------------
(***************************************************************************)
(* Ownership of the timer.                                                 *)
(***************************************************************************)
Engines == {"measure", "search", "res", "txn"}

Owners ==
    {e \in Engines :
        \/ e = "measure" /\ ctx.state # "IDLE"
        \/ e = "search"  /\ ~search.finished
        \/ e = "res"     /\ ~res.finished
        \/ e = "txn"     /\ ~txn.finished}

\* At most one engine is active, whatever the application calls and whenever:
\* the guards of the start functions (ds18b20_*.c) keep the engines apart.
OneOwner == \A e, f \in Owners : e = f

\* The operation the active engine waits for before it takes its next step
\* ("kick": only the flag start_measure raised; "idle": it waits for none).
MeasureWaitsFor ==
    CASE ctx.state = "START" -> "kick"
      [] ctx.state \in {"CONVERT", "REQUEST"} -> "reset"
      [] ctx.state \in {"WAIT", "READ"} -> "write"
      [] ctx.state = "CONTINUE" -> "wait"
      [] ctx.state = "DECODE" -> IF cb = "none" THEN "read" ELSE "idle"
      [] OTHER -> "idle"

SearchWaitsFor ==
    CASE search.phase = "RESET" -> "reset"
      [] search.phase = "CMD" -> "command"
      [] search.phase \in {"READ_PAIR", "WRITE_READ", "WRITE_DIR"} -> "slots"
      [] OTHER -> "idle"

ResWaitsFor ==
    CASE res.phase = "RESET" -> "reset"
      [] res.phase = "WRITE" -> "write"
      [] OTHER -> "idle"

TxnWaitsFor ==
    CASE txn.phase = "RESET" -> "reset"
      [] txn.phase = "WRITE" -> "write"
      [] txn.phase = "READ" -> "read"
      [] txn.phase = "WAIT" -> "wait"
      [] OTHER -> "idle"

WaitsFor ==
    IF ctx.state # "IDLE" THEN MeasureWaitsFor
    ELSE IF ~search.finished THEN SearchWaitsFor
    ELSE IF ~res.finished THEN ResWaitsFor
    ELSE IF ~txn.finished THEN TxnWaitsFor
    ELSE "idle"

(***************************************************************************)
(* The timer runs exactly the operation the active engine's phase waits    *)
(* for, or that operation has ended and its flag is still there to be      *)
(* consumed.  So no engine sees another one's flag or a stale one while    *)
(* its own operation runs, no completion is lost (a lost one would leave   *)
(* the engine waiting forever), and nothing runs while nobody owns the bus.*)
(***************************************************************************)
TimerServesOwner ==
    /\ port.op \in {"idle", WaitsFor}
    /\ port.op # "idle" => ~port.uif
    /\ WaitsFor # "idle" => port.op # "idle" \/ port.uif

(***************************************************************************)
(* phase_pulses is one union shared by four builders.  While a write that  *)
(* is built ahead is pending or in flight, the union still holds the       *)
(* command the active engine built (the comment on the union, ds18b20.c).  *)
(***************************************************************************)
PulsesServeOwner ==
    /\ ctx.state = "WAIT" => pulses.cmd = "convert_t"
    /\ ctx.state = "READ" => pulses.cmd = "read_scratchpad"
    /\ ctx.state = "READ" /\ ctx.scan => pulses.rom = table.roms[ctx.index]
    /\ ctx.state \in {"WAIT", "READ"} /\ ctx.addr => pulses.rom = ctx.rom
    /\ ~res.finished /\ res.phase \in {"RESET", "WRITE"} =>
          pulses.cmd = "config" /\ pulses.cfg = res.pending
    /\ ~txn.finished /\ txn.phase # "DONE" => pulses.cmd = txn.cmd

-----------------------------------------------------------------------------
(***************************************************************************)
(* Measurement rounds.                                                     *)
(***************************************************************************)
InCycle == ctx.state \notin {"IDLE", "START"}

ReportsInOrder ==
    ctx.scan /\ (ctx.state \notin {"IDLE", "START", "CONVERT"} \/ cb = "finish") =>
        /\ Len(round) = IF cb = "finish" THEN ctx.index + 1 ELSE ctx.index
        /\ \A i \in 1..Len(round) : round[i].index = i - 1

ReadingsOfAsked ==
    \A i \in 1..Len(round) : round[i].kind = "temp" =>
        /\ round[i].asked # NoRom => round[i].rom = round[i].asked
        /\ ctx.scan /\ InCycle => round[i].rom = table.roms[round[i].index]

(***************************************************************************)
(* What is reported and for whom.  In a scan round the reports so far are  *)
(* those of devices 0, 1, 2, ... of the table, one each: none skipped,     *)
(* none reported twice (scan_finish_or_next).  A temperature is the        *)
(* reading of the device it is reported for: the one selected by ROM, or   *)
(* in a scan round the one at the reported table index.                    *)
(***************************************************************************)
ReportsOfAskedDevices == ReportsInOrder /\ ReadingsOfAsked

(***************************************************************************)
(* A cycle that parks has reported once per device asked, no more and no   *)
(* less: one report in single-device mode; in a scan round every device of *)
(* the table, or - when a reset finds the bus empty and the round is given *)
(* up - the devices before the current one and one NO_SENSOR for it.       *)
(***************************************************************************)
RoundReports ==
    [][InCycle /\ ctx'.state = "IDLE" /\ (ctx.scan => table.count > 0)
          => Len(round') = IF ~ctx.scan THEN 1
                           ELSE IF line.seen THEN table.count
                           ELSE ctx'.index + 1]_vars

\* A reported temperature was converted in the cycle that reports it: the wait
\* (wait_conversion) is never shorter than the conversion of the device read.
FreshReadings ==
    \A i \in 1..Len(round) : round[i].kind = "temp" => round[i].temp = "new"

\* A finished scan round, the only kind of cycle that reports more than once,
\* does not start the next: "when the cycle finishes the driver parks ... and
\* waits for the next request" (ds18b20_start_measure, inc/ds18b20.h).
FinishedRoundParks ==
    [][ctx.state = "IDLE" /\ Len(round) > 1 => ctx'.state \in {"IDLE", "START"}]_vars

-----------------------------------------------------------------------------
(***************************************************************************)
(* The parasite strong pull-up.                                            *)
(***************************************************************************)
AnswersOnFreeLine ==
    port.op \in {"reset", "read"} /\ (ctx.state # "IDLE" \/ ~txn.finished) => port.pin = "od"

ConvertingIsSupplied ==
    ctx.par /\ ctx.state \in {"WAIT", "CONTINUE"} =>
        \A d \in Parasitic : dev[d].conv => port.pin = "pp"

(***************************************************************************)
(* In a measurement or a command no reset pulse and no read is driven      *)
(* against the engaged pull-up, where the devices could not pull the line  *)
(* LOW to answer (a search or a resolution change may start against it).   *)
(* From the Convert T command to the end of the wait a converting          *)
(* parasitic device is supplied, polls included: no gap between states.    *)
(***************************************************************************)
PullupAsNeeded == AnswersOnFreeLine /\ ConvertingIsSupplied

\* The pull-up changes only between operations ("bus idle, never while a timed
\* transaction is running", inc/onewire.h): no update event hits a running one.
PullupBetweenOperations ==
    [][port.op # "idle" /\ port'.op # "idle" =>
           port'.pin = port.pin /\ port'.uif = port.uif]_vars

-----------------------------------------------------------------------------
(***************************************************************************)
(* Liveness, under FairSpec.                                               *)
(***************************************************************************)
\* A requested measurement reports and parks, on any bus, and searches,
\* resolution changes and commands hand the timer back.
EnginesEnd ==
    /\ ctx.state = "START" ~> (ctx.state = "IDLE" /\ Len(round) > 0)
    /\ []<>(Owners = {})

=============================================================================
