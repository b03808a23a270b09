----------------------------- MODULE Statistics -----------------------------
(***************************************************************************)
(* The decoding end of a measurement, the signal statistics it feeds       *)
(* (ow_stats.c) and the 6_statistics example that measures the devices in  *)
(* turn, dumps the statistics after a number of sweeps and prints through  *)
(* the transmit ring of the UART (app.c).                                  *)
(*                                                                         *)
(* A step is one iteration of the main loop: one branch, then              *)
(* uart_poll_tx(), whose transmitter may be ready (txe) or not.  The ring  *)
(* is counted in lines; the bus operations that lead to a DECODE are those *)
(* of Ds18b20 and are here a measurement that is running.                  *)
(***************************************************************************)
EXTENDS OwCodec

CONSTANTS
    Devices,       \* the devices that may be wired, numbered in search order
    MaxSensors,    \* OW_STATS_MAX_SENSORS
    Sweeps,        \* STATS_DUMP_SWEEPS
    RingSize,      \* UART_TX_BUF_SIZE, in lines
    Frames         \* what may be read

VARIABLES
    drv,     \* the driver: measuring or IDLE, selected_rom
    app,     \* the statics of main.c
    st,      \* ow_stats_t, without the histogram
    dump,    \* dump_phase and dump_sensor
    tx,      \* the ring: head and tail
    log      \* history: this batch, the last report, the lines held and lost

vars == <<drv, app, st, dump, tx, log>>

NoDevice == 0

ASSUME DevicesAssumption    == Devices \subseteq Nat \ {NoDevice} /\ IsFiniteSet(Devices)
ASSUME MaxSensorsAssumption == MaxSensors \in Nat \ {0}
ASSUME SweepsAssumption     == Sweeps \in Nat \ {0}
ASSUME FramesAssumption     ==
    Frames \subseteq [raw : -880..2000, noise : SUBSET (1..72), line : {"answers", "nobody", "low"}]
\* "6_statistics 1024 B": a report and a whole dump fit in the empty ring.
ASSUME RingAssumption       == RingSize \in Nat /\ RingSize - 1 >= 5 + MaxSensors

\* external: the pulse widths the capture channel measures.  The device
\* answers, some bits wrong; or it is gone and the line stays high; or
\* something holds the line and every slot reads zero.
High(f) ==
    CASE f.line = "answers" -> SymDiff(Ones(f.raw % 65536), f.noise)
      [] f.line = "nobody"  -> 1..72
      [] f.line = "low"     -> {}

Widths(f) ==
    LET high == High(f) IN [k \in 1..72 |-> IF k \in high THEN OnePulse + 1 ELSE 30]

Fresh(d) == [rom |-> d, min |-> 255, max |-> 0, count |-> 0, crcErr |-> 0, noPresence |-> 0]

NoBatch ==
    [captured |-> [d \in Devices |-> 0], widths |-> [d \in Devices |-> {}],
     failed |-> [d \in Devices |-> 0], reports |-> [d \in Devices |-> 0]]

Init ==
    /\ drv = [state |-> "IDLE", selected |-> NoDevice]
    /\ app \in [found : {s \in SeqOf(Devices, Cardinality(Devices)) :
                            \A i, j \in DOMAIN s : i < j => s[i] < s[j]},
                searching : {TRUE}, index : {1}, sweeps : {0}, dumpBusy : {FALSE},
                pending : {FALSE}]
    /\ st = [sensors |-> <<>>, cycles |-> 0, errors |-> 0]
    /\ dump = [phase |-> 0, sensor |-> 1]
    /\ tx = [head |-> 0, tail |-> 0]
    /\ log = [batch |-> NoBatch, report |-> <<>>, held |-> 0, lost |-> FALSE, drained |-> TRUE]

-----------------------------------------------------------------------------
(***************************************************************************)
(* The transmit ring.  A line is lost when its bytes find no room.         *)
(***************************************************************************)
\* One slot stays free, so that a full ring is not an empty one.
Room(r) == ((RingSize + r.tail) - (r.head + 1)) % RingSize

Min2(a, b) == IF a <= b THEN a ELSE b

\* uart_tx_enqueue_byte() and the writers above it, n lines.
Written(r, n) == [r EXCEPT !.head = (@ + Min2(n, Room(r))) % RingSize]

\* uart_poll_tx()
Polled(r, txe) ==
    IF txe /\ r.tail # r.head THEN [r EXCEPT !.tail = (@ + 1) % RingSize] ELSE r

\* The end of a loop iteration in which n lines were written.
LoopEnd(n, txe) == tx' = Polled(Written(tx, n), txe)

\* What the history notes of it.
Held(n, txe) ==
    LET all == log.held + Min2(n, Room(tx)) IN all - (IF txe /\ all > 0 THEN 1 ELSE 0)

-----------------------------------------------------------------------------
(***************************************************************************)
(* ow_stats.c                                                              *)
(***************************************************************************)
\* sensor_find_or_alloc(): a full table keeps no record of another device.
WithSensor(sensors, d) ==
    IF Len(sensors) < MaxSensors /\ \A i \in DOMAIN sensors : sensors[i].rom # d
    THEN Append(sensors, Fresh(d)) ELSE sensors

\* Mutant: the longest pulse of a sensor is not kept.
CapturePulseNoMax(s, c, d) ==
    [s EXCEPT !.sensors = [i \in DOMAIN WithSensor(@, d) |->
        LET r == WithSensor(@, d)[i] IN
        IF r.rom = d THEN [r EXCEPT !.min = Min2(@, c.min), !.max = c.max, !.count = @ + 1]
        ELSE r]]

\* ow_stats_capture_pulse()
CapturePulse(s, c, d) ==
    [s EXCEPT !.sensors = [i \in DOMAIN WithSensor(@, d) |->
        LET r == WithSensor(@, d)[i] IN
        IF r.rom = d
        THEN [r EXCEPT !.min = Min2(@, c.min), !.max = Max({@, c.max}), !.count = @ + 1]
        ELSE r]]

\* ow_stats_count_error()
CountError(s, error, d) ==
    [s EXCEPT
        !.errors = @ + 1,
        !.sensors = [i \in DOMAIN WithSensor(@, d) |->
            LET r == WithSensor(@, d)[i] IN
            IF r.rom # d THEN r
            ELSE IF error = "crc_fail" THEN [r EXCEPT !.crcErr = @ + 1]
            ELSE [r EXCEPT !.noPresence = @ + 1]]]

\* ow_stats_reset(): the counters go, the addresses stay.
StatsReset ==
    [sensors |-> [i \in DOMAIN st.sensors |-> Fresh(st.sensors[i].rom)],
     cycles |-> 0, errors |-> 0]

-----------------------------------------------------------------------------
(***************************************************************************)
(* DECODE: what ds18b20_poll() makes of the scratchpad of an addressed     *)
(* device.                                                                 *)
(***************************************************************************)
\* Mutant: bytes 5 and 7 are not looked at.
VerdictCrcOnly(scratch) ==
    CASE \A k \in 1..9 : scratch[k] = 255 -> [kind |-> "no_sensor", tenths |-> 0]
      [] scratch[9] # Crc8(SubSeq(scratch, 1, 8)) -> [kind |-> "crc_fail", tenths |-> 0]
      [] OTHER -> [kind |-> "temp", tenths |-> DecodeTemperature(scratch)]

Verdict(scratch) ==
    CASE \A k \in 1..9 : scratch[k] = 255 -> [kind |-> "no_sensor", tenths |-> 0]
      [] scratch[6] # 255 \/ scratch[8] # 16 -> [kind |-> "crc_fail", tenths |-> 0]
      [] scratch[9] # Crc8(SubSeq(scratch, 1, 8)) -> [kind |-> "crc_fail", tenths |-> 0]
      [] OTHER -> [kind |-> "temp", tenths |-> DecodeTemperature(scratch)]

\* The reads of the frames, each worked out once: the pulses, and what
\* becomes of them.
Read(f) ==
    LET w == Widths(f) IN
    [frame |-> f, min |-> Min(Range(w)), max |-> Max(Range(w)),
     verdict |-> Verdict(DecodePulses(w))]

Reads == {Read(f) : f \in Frames}

-----------------------------------------------------------------------------
(***************************************************************************)
(* ds18b20_complete() of 6_statistics: print, advance to the next device,  *)
(* count the sweep, and begin the dump or ask for the next measurement.    *)
(***************************************************************************)
Turn == IF Len(app.found) > 1 THEN (app.index % Len(app.found)) + 1 ELSE app.index

Swept == app.sweeps + (IF Turn = 1 THEN 1 ELSE 0)

DumpDue == Swept >= Sweeps /\ ~app.dumpBusy

CallbackLines == 1 + (IF Turn = 1 /\ Len(app.found) > 1 THEN 1 ELSE 0)

\* ds18b20_select(), accepted because the driver is IDLE during the callback.
Reselected == IF Len(app.found) > 1 THEN app.found[Turn] ELSE drv.selected

\* The callback, and the request for the next cycle the main loop makes in
\* the same iteration when no dump began.
Complete ==
    /\ app' = [app EXCEPT !.index = Turn, !.sweeps = Swept, !.dumpBusy = DumpDue]
    /\ dump' = IF DumpDue THEN [phase |-> 1, sensor |-> 1] ELSE dump
    /\ drv' = [state |-> IF DumpDue THEN "IDLE" ELSE "measuring", selected |-> Reselected]

\* ow_stats_tick()
Ticked(s) == [s EXCEPT !.cycles = @ + 1]

Reported(d, report, drained, n, txe) ==
    [log EXCEPT !.report = report, !.batch.reports[d] = @ + 1, !.drained = drained,
                !.held = Held(n, txe),
                !.lost = drained /\ n > Room(tx)]

-----------------------------------------------------------------------------
(***************************************************************************)
(* The branches of the main loop.                                          *)
(***************************************************************************)
\* The search ends: select the first device and ask for the first cycle.
SearchBranch(txe) ==
    /\ ~app.dumpBusy /\ app.searching
    /\ app' = [app EXCEPT !.searching = FALSE]
    /\ drv' = IF app.found = <<>> THEN drv
              ELSE [state |-> "measuring", selected |-> app.found[1]]
    /\ LoopEnd(1, txe)
    /\ log' = [log EXCEPT !.report = <<>>, !.held = Held(1, txe)]
    /\ UNCHANGED <<st, dump>>

Measuring == ~app.dumpBusy /\ ~app.searching /\ drv.state = "measuring"

\* A poll while the conversion or the read is under way.
PollRunning(txe) ==
    /\ Measuring
    /\ LoopEnd(0, txe)
    /\ log' = [log EXCEPT !.report = <<>>, !.held = Held(0, txe)]
    /\ UNCHANGED <<drv, app, st, dump>>

\* The reset finds nobody: reported, and not counted by the statistics.  It
\* takes a millisecond, so the ring may be anything.
PollAbsent(txe) ==
    /\ Measuring
    /\ Complete
    /\ st' = Ticked(st)
    /\ LoopEnd(CallbackLines, txe)
    /\ log' = Reported(drv.selected, [kind |-> "no_sensor", tenths |-> 0, frame |-> <<>>], FALSE,
                       CallbackLines, txe)

\* DECODE.  The callback runs, and may select the next device, before the
\* error is counted against selected_rom.  The conversion and the read took
\* 94 ms at least, in which the ring drained: 1023 bytes take 89 ms.
PollDecode(r, txe) ==
    LET d == drv.selected
        v == r.verdict
        ticked == Ticked(CapturePulse(st, r, d))
    IN
    /\ Measuring
    /\ tx.tail = tx.head
    /\ Complete
    /\ st' = IF v.kind = "temp" THEN ticked ELSE CountError(ticked, v.kind, Reselected)
    /\ LoopEnd(CallbackLines, txe)
    /\ log' = [Reported(d, [kind |-> v.kind, tenths |-> v.tenths, frame |-> r.frame], TRUE,
                        CallbackLines, txe)
               EXCEPT !.batch.captured[d] = @ + 1,
                      !.batch.widths[d] = @ \cup {r.min, r.max},
                      !.batch.failed[d] = @ + (IF v.kind = "temp" THEN 0 ELSE 1)]

\* ow_stats_dump_poll(): the phase that follows, and whether a line is written.
DumpStep ==
    CASE dump.phase = 1 -> [phase |-> 2, sensor |-> 1]
      [] dump.phase = 2 /\ dump.sensor <= Len(st.sensors) ->
            [phase |-> 2, sensor |-> dump.sensor + 1]
      [] dump.phase = 2 /\ dump.sensor > Len(st.sensors) ->
            [phase |-> 3, sensor |-> dump.sensor]
      [] dump.phase = 3 -> [phase |-> 4, sensor |-> dump.sensor]
      [] dump.phase = 4 -> [phase |-> 0, sensor |-> dump.sensor]

DumpLines == IF dump.phase = 2 /\ dump.sensor > Len(st.sensors) THEN 0 ELSE 1

\* Mutant: the sweep counter of the application survives the dump.
ResumeKeepsSweeps == [app EXCEPT !.dumpBusy = FALSE, !.pending = TRUE]

\* Mutant: nothing asks for the next cycle after a dump.
ResumeNoPending == [app EXCEPT !.dumpBusy = FALSE, !.sweeps = 0]

Resume == [app EXCEPT !.dumpBusy = FALSE, !.sweeps = 0, !.pending = TRUE]

\* The driver is not polled while the dump runs.
DumpBranch(txe) ==
    /\ app.dumpBusy
    /\ dump' = DumpStep
    /\ LoopEnd(DumpLines, txe)
    /\ IF DumpStep.phase = 0
       THEN app' = Resume /\ st' = StatsReset
       ELSE UNCHANGED <<app, st>>
    /\ log' = [log EXCEPT !.report = <<>>, !.held = Held(DumpLines, txe),
                          !.lost = @ \/ (log.drained /\ DumpLines > Room(tx)),
                          !.batch = IF DumpStep.phase = 0 THEN NoBatch ELSE @]
    /\ UNCHANGED drv

\* After a dump: the poll finds the driver IDLE, then the cycle is started.
StartPending(txe) ==
    /\ ~app.dumpBusy /\ ~app.searching /\ app.pending
    /\ drv' = [drv EXCEPT !.state = "measuring"]
    /\ app' = [app EXCEPT !.pending = FALSE]
    /\ LoopEnd(0, txe)
    /\ log' = [log EXCEPT !.report = <<>>, !.held = Held(0, txe)]
    /\ UNCHANGED <<st, dump>>

Next ==
    \E txe \in BOOLEAN :
        \/ SearchBranch(txe)
        \/ PollRunning(txe)
        \/ PollAbsent(txe)
        \/ \E r \in Reads : PollDecode(r, txe)
        \/ DumpBranch(txe)
        \/ StartPending(txe)

\* The loop iterates, the transmitter becomes ready, a measurement ends.
Fairness ==
    /\ WF_vars(\E txe \in BOOLEAN : SearchBranch(txe))
    /\ WF_vars(PollRunning(TRUE))
    /\ WF_vars(\E txe \in BOOLEAN : PollAbsent(txe) \/ \E r \in Reads : PollDecode(r, txe))
    /\ WF_vars(\E txe \in BOOLEAN : DumpBranch(txe))
    /\ WF_vars(\E txe \in BOOLEAN : StartPending(txe))

Spec == Init /\ [][Next]_vars /\ Fairness
=============================================================================
