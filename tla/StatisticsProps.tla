--------------------------- MODULE StatisticsProps --------------------------
(***************************************************************************)
(* Properties of the decoding of a measurement and of the statistics.      *)
(***************************************************************************)
EXTENDS Statistics

(***************************************************************************)
(* total is the sum of a sequence of counters: running totals lead to it.  *)
(***************************************************************************)
IsTotal(total, counts) ==
    \E sum \in [0..Len(counts) -> 0..total] :
        /\ sum[0] = 0
        /\ \A i \in DOMAIN counts : sum[i] = sum[i - 1] + counts[i]
        /\ sum[Len(counts)] = total

OneRecordEach ==
    \A i, j \in DOMAIN st.sensors : st.sensors[i].rom = st.sensors[j].rom => i = j

CountsOfReads ==
    \A i \in DOMAIN st.sensors :
        LET s == st.sensors[i]
            w == log.batch.widths[s.rom]
        IN /\ s.count = log.batch.captured[s.rom]
           /\ w # {} => s.min = Min(w) /\ s.max = Max(w)

ErrorsOfReads ==
    IsTotal(st.errors, [i \in DOMAIN app.found |-> log.batch.failed[app.found[i]]])

ErrorsInRecords ==
    Len(app.found) <= MaxSensors =>
        IsTotal(st.errors,
                [i \in DOMAIN st.sensors |-> st.sensors[i].crcErr + st.sensors[i].noPresence])

(***************************************************************************)
(* A record of the statistics speaks of one device, and no other does: its *)
(* sample count and its shortest and longest pulse are those of the reads  *)
(* that addressed the device since the last reset, across the reset that   *)
(* keeps the addresses and whatever the order in which devices came to be  *)
(* known.  total_errors, the "Sum of all error counters" (ow_stats.h:62),  *)
(* is the number of the reads that were not reported as a temperature, and *)
(* the sum of the counters of the records as long as the table has room    *)
(* for every device: the errors of one it does not hold are in the total   *)
(* only.                                                                   *)
(***************************************************************************)
RecordsOfReads == OneRecordEach /\ CountsOfReads /\ ErrorsOfReads /\ ErrorsInRecords

\* A temperature is reported exactly when the nine bytes are those the device
\* sent, and is the nearest tenth of a degree; a short burst of wrong bits, a
\* line held low or a device that is gone never passes for a reading.
ReadingTrue ==
    LET r == log.report IN
    r # <<>> /\ r.frame # <<>> =>
        /\ r.kind = "temp" <=> r.frame.line = "answers" /\ r.frame.noise = {}
        /\ r.kind = "no_sensor" <=> r.frame.line = "nobody"
        /\ r.kind = "temp" => 16 * r.tenths - 10 * r.frame.raw \in -8..8

BatchOfSweeps ==
    app.dumpBusy =>
        /\ st.cycles = Sweeps * Len(app.found)
        /\ \A i \in DOMAIN app.found : log.batch.reports[app.found[i]] = Sweeps

RingWhole ==
    /\ ((RingSize + tx.head) - tx.tail) % RingSize = log.held
    /\ ~log.lost

(***************************************************************************)
(* "a batch covers STATS_DUMP_SWEEPS * device_count measurements and       *)
(* yields STATS_DUMP_SWEEPS samples per sensor" (6_statistics/main.c:41):  *)
(* when the dump runs, each device found has been reported that often      *)
(* since the last one.  And no line of the dump is dropped, although the   *)
(* loop drains one byte at most for each line it writes: the ring's        *)
(* indices tell how many are accepted and not yet sent, also after it was  *)
(* full, and the report before the dump found it empty (unless it came     *)
(* from an empty bus, whose reports follow each other faster than the UART *)
(* sends them).                                                            *)
(***************************************************************************)
WholeBatchDumped == BatchOfSweeps /\ RingWhole

\* As long as a device was found, batches keep ending: each dump is followed
\* by another, also with one device.
BatchesRecur ==
    /\ app.found # <<>> ~> app.dumpBusy
    /\ app.dumpBusy ~> ~app.dumpBusy

\* ow_stats.h:87: the error is recorded for the "ROM of the current sensor".
\* The error counters of a record are the failed reads of its device.
ErrorsOnTheRightSensor ==
    \A i \in DOMAIN st.sensors :
        st.sensors[i].crcErr + st.sensors[i].noPresence = log.batch.failed[st.sensors[i].rom]
=============================================================================
