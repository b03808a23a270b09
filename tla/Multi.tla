-------------------------------- MODULE Multi -------------------------------
(***************************************************************************)
(* The 9_multi example: a recorder of the highest and the lowest           *)
(* temperature.  One state machine uses the DS18B20 and the DS2431 driver  *)
(* in turn, keeps the two records in RAM and in EEPROM, and must live with *)
(* sensors that fail, EEPROM commands that fail and power that goes.       *)
(*                                                                         *)
(* A step is the iteration of the main loop in which the driver's poll     *)
(* has something to tell; what the drivers do in between is Ds18b20 and    *)
(* Ds2431.  A block that does not validate - blank, torn, wrong CRC - is   *)
(* Invalid; a record is reduced to its temperature and the sensor that was *)
(* at its index of the device table, a ROM to its sensor.                  *)
(*                                                                         *)
(* Both builds are here.  With OW_PARASITE_POWER a DS18B20 driver that     *)
(* parks engages the pull-up and so leaves a completion behind: while scan *)
(* mode is armed, the next poll starts another round.                      *)
(***************************************************************************)
EXTENDS Integers, FiniteSets, Sequences

CONSTANTS
    Sensors,        \* number of DS18B20s
    MaxDevices,     \* DS18B20_MAX_DEVICES, the size of the device table
    TempsOf,        \* the temperatures each sensor measures
    Tables,         \* the device tables that a search may leave
    ScanRounds,     \* rounds that restart and end before SCAN_TIMEOUT_MS, at least
    DrainRounds,    \* and further ones before DRAIN_TIMEOUT_MS
    MaxRestarts     \* bound on the power failures

ASSUME SensorsAssumption  == Sensors \in Nat \ {0}
ASSUME TempsAssumption    == TempsOf \in [1..Sensors -> SUBSET Nat]
ASSUME RestartsAssumption == MaxRestarts \in Nat

\* A search that was disturbed leaves a partial table, or a sensor twice in it,
\* and another one after a restart; a sensor has no fixed index.
ASSUME TablesAssumption == Tables \subseteq UNION {[1..k -> 1..Sensors] : k \in 0..MaxDevices}

\* A full table cannot be overtaken by the two deadlines in mid-round.
ASSUME RoundsAssumption ==
    /\ MaxDevices \in Nat \ {0} /\ ScanRounds \in Nat \ {0} /\ DrainRounds \in Nat
    /\ MaxDevices <= ScanRounds + DrainRounds + 1

VARIABLES
    app,       \* state, the measurement round, the boot reads, the write jobs
    slots,     \* the records in RAM
    eeprom,    \* the four blocks
    ds18,      \* the DS18B20 driver: its build, scan mode, a cycle running, the device
               \* it reports next
    log        \* history: restarts; where RAM does not know what the EEPROM holds; a
               \* round that was cut short and starts again

vars == <<app, slots, eeprom, ds18, log>>

Slots    == {"peak", "low"}
Failed   == -1                    \* temps_ok clear
NoRom    == 0
FailLimit == 3                    \* WRITE_FAIL_LIMIT
Invalid  == [valid |-> FALSE, temp |-> 0, sensor |-> 1]
Record(temp, sensor) == [valid |-> TRUE, temp |-> temp, sensor |-> sensor]

\* boot_addr[]: the blocks in the order they are read.
BootBlocks == <<"peak", "low", "peak rom", "low rom">>

Powered ==
    [state |-> "SEARCH_DS18", found |-> <<>>, have |-> FALSE, boot |-> <<>>, seq |-> FALSE,
     cur |-> 1, reported |-> 0, drain |-> FALSE, temps |-> [i \in 1..MaxDevices |-> Failed],
     jobs |-> <<>>, fails |-> 0, off |-> FALSE]

NoSlots == [s \in Slots |-> [rec |-> Invalid, rom |-> NoRom]]

Parked(par) == [par |-> par, scan |-> FALSE, running |-> FALSE, index |-> 1]

\* ds18_n
Count(a) == Len(a.found)

Init ==
    /\ app = Powered
    /\ slots = NoSlots
    /\ eeprom = [rec |-> [s \in Slots |-> Invalid], rom |-> [s \in Slots |-> NoRom]]
    /\ \E par \in BOOLEAN : ds18 = Parked(par)
    /\ log = [restarts |-> 0, blind |-> [s \in Slots |-> FALSE],
              blindRom |-> [s \in Slots |-> FALSE], cut |-> FALSE]

EepromStates == {"BOOT_READ", "WRITE_SCRATCH", "WRITE_VERIFY", "WRITE_COPY", "WRITE_READBACK"}

-----------------------------------------------------------------------------
(***************************************************************************)
(* Power on: the two searches, then the boot reads.                        *)
(***************************************************************************)
SearchDs18 ==
    /\ app.state = "SEARCH_DS18"
    /\ \E table \in Tables : app' = [app EXCEPT !.found = table, !.state = "SEARCH_ALL"]
    /\ UNCHANGED <<slots, eeprom, ds18, log>>

\* boot_done(): where it leaves the state machine.
AfterBoot(a) == [a EXCEPT !.state = IF Count(a) > 0 THEN "WAIT" ELSE "STOP"]

\* all_sink(): of the families found by the second search only a DS2431
\* matters, and the first one is kept.
AllSink(families) == "DS2431" \in families

SearchAll ==
    /\ app.state = "SEARCH_ALL"
    /\ \E families \in SUBSET {"DS18B20", "DS2431", "DS2413"} :
          app' = IF AllSink(families) THEN [app EXCEPT !.have = TRUE, !.state = "BOOT_READ"]
                 ELSE AfterBoot(app)
    /\ UNCHANGED <<slots, eeprom, ds18, log>>

\* Mutant: the blocks of the two records are taken for each other.
LoadedSwapped(boot) ==
    [s \in Slots |->
        [rec |-> IF boot[1] /\ boot[2] THEN eeprom.rec[IF s = "peak" THEN "low" ELSE "peak"]
                 ELSE Invalid,
         rom |-> IF boot[IF s = "peak" THEN 3 ELSE 4] THEN eeprom.rom[s] ELSE NoRom]]

\* boot_load_record() and boot_load_rom() of both slots.
Loaded(boot) ==
    [s \in Slots |->
        [rec |-> IF boot[IF s = "peak" THEN 1 ELSE 2] THEN eeprom.rec[s] ELSE Invalid,
         rom |-> IF boot[IF s = "peak" THEN 3 ELSE 4] THEN eeprom.rom[s] ELSE NoRom]]

\* A boot read ends: the block was read, or nobody answered or a bit was
\* wrong - Read Memory has no check, the blocks carry their own.
BootRead ==
    /\ app.state = "BOOT_READ"
    /\ \E ok \in BOOLEAN :
          LET boot == Append(app.boot, ok) IN
          IF Len(boot) < Len(BootBlocks)
          THEN app' = [app EXCEPT !.boot = boot] /\ UNCHANGED <<slots, log>>
          ELSE /\ app' = AfterBoot([app EXCEPT !.boot = <<>>])
               /\ slots' = Loaded(boot)
               /\ log' = [log EXCEPT !.blind =
                             [s \in Slots |-> eeprom.rec[s].valid /\ ~boot[IF s = "peak" THEN 1 ELSE 2]]]
    /\ UNCHANGED <<eeprom, ds18>>

-----------------------------------------------------------------------------
(***************************************************************************)
(* Jobs: the ROM of a record, when it is another one, then the record.     *)
(***************************************************************************)
\* The direction in which a record moves.
Beyond(s, temp, old) == IF s = "peak" THEN temp > old ELSE temp < old

IsNew(s, temp) == ~slots[s].rec.valid \/ Beyond(s, temp, slots[s].rec.temp)

Job(isRom, s, temp, sensor) == [isRom |-> isRom, slot |-> s, temp |-> temp, sensor |-> sensor]

\* Mutant: the ROM is written with the first record only.
QueuedRomOnce(s, temp, sensor) ==
    (IF slots[s].rom = NoRom THEN <<Job(TRUE, s, temp, sensor)>> ELSE <<>>)
        \o <<Job(FALSE, s, temp, sensor)>>

\* queue_extreme()
Queued(s, temp, sensor) ==
    (IF slots[s].rom # sensor THEN <<Job(TRUE, s, temp, sensor)>> ELSE <<>>)
        \o <<Job(FALSE, s, temp, sensor)>>

\* commit_job()
Commit(all, j) ==
    IF j.isRom THEN [all EXCEPT ![j.slot].rom = j.sensor]
    ELSE [all EXCEPT ![j.slot].rec = Record(j.temp, j.sensor)]

\* All jobs committed at once, by a session that does not persist: a slot with
\* a job has a record job, whose sensor is then that of its ROM.
CommitAll(all, jobs) ==
    [s \in Slots |->
        LET records == {k \in DOMAIN jobs : jobs[k].slot = s /\ ~jobs[k].isRom}
            j == jobs[CHOOSE k \in records : TRUE]
        IN IF records = {} THEN all[s] ELSE [rec |-> Record(j.temp, j.sensor), rom |-> j.sensor]]

\* evaluate(), with the jobs of a round whose temperatures are a.temps.
Good(a) == {i \in 1..Count(a) : a.temps[i] # Failed}

Highest(a) == CHOOSE i \in Good(a) : \A k \in Good(a) :
    a.temps[k] < a.temps[i] \/ (a.temps[k] = a.temps[i] /\ i <= k)

Lowest(a) == CHOOSE i \in Good(a) : \A k \in Good(a) :
    a.temps[k] > a.temps[i] \/ (a.temps[k] = a.temps[i] /\ i <= k)

JobsOf(a) ==
    IF Good(a) = {} THEN <<>>
    ELSE LET hi == Highest(a)  lo == Lowest(a) IN
         (IF IsNew("peak", a.temps[hi]) THEN Queued("peak", a.temps[hi], a.found[hi]) ELSE <<>>)
             \o (IF IsNew("low", a.temps[lo]) THEN Queued("low", a.temps[lo], a.found[lo]) ELSE <<>>)

\* Mutant: the session writes on after it gave up.
RamOnlyNoEeprom(a) == ~a.have

RamOnly(a) == a.off \/ ~a.have

Evaluate(a) ==
    LET jobs == JobsOf(a) IN
    IF jobs = <<>> \/ RamOnly(a)
    THEN /\ app' = [a EXCEPT !.state = "WAIT"]
         /\ slots' = CommitAll(slots, jobs)
    ELSE /\ app' = [a EXCEPT !.state = "WRITE_SCRATCH", !.jobs = jobs]
         /\ UNCHANGED slots

-----------------------------------------------------------------------------
(***************************************************************************)
(* The DS18B20 driver, as the calls and polls of the application find it.  *)
(***************************************************************************)
\* A poll of a parked driver: on a parasite bus it starts a round of its own.
RestartsItself == ~ds18.running /\ ds18.par /\ ds18.scan

Polled == IF RestartsItself THEN [ds18 EXCEPT !.running = TRUE, !.index = 1] ELSE ds18

\* ds18b20_select(): ignored while a cycle runs, and leaves scan mode otherwise.
Selected(d) == IF d.running THEN d ELSE [d EXCEPT !.scan = FALSE]

\* ds18b20_scan_start() and ds18b20_start_measure(), or the selection of a
\* device and its start: all ignored while a cycle runs.
Started(d, scan) == IF d.running THEN d ELSE [d EXCEPT !.scan = scan, !.running = TRUE, !.index = 1]

\* The driver after a report: a cycle ends with the only or the last device, or
\* because nobody answered the reset.
AfterReport(absent) ==
    IF absent \/ ~ds18.scan \/ ds18.index = Count(app)
    THEN [ds18 EXCEPT !.running = FALSE, !.index = 1]
    ELSE [ds18 EXCEPT !.index = @ + 1]

-----------------------------------------------------------------------------
(***************************************************************************)
(* A measurement round.                                                    *)
(***************************************************************************)
Wait ==
    /\ app.state = "WAIT"
    /\ Count(app) > 0
    /\ app' = [app EXCEPT !.state = "MEASURE_START"]
    /\ UNCHANGED <<slots, eeprom, ds18, log>>

\* start_round()
MeasureStart ==
    /\ app.state = "MEASURE_START"
    /\ app' = [app EXCEPT !.state = "MEASURE_WAIT", !.reported = 0, !.drain = FALSE, !.cur = 1,
                          !.temps = [i \in 1..MaxDevices |-> Failed]]
    /\ ds18' = Started(ds18, ~app.seq)
    /\ UNCHANGED <<slots, eeprom, log>>

\* Mutant: the index of the scan round also in the sequential path.
IndexFromScan == ds18.index

\* ds18b20_complete(): seq_mode ? seq_cur : ds18b20_scan_index()
Index == IF app.seq THEN app.cur ELSE ds18.index

\* The sensor that was asked: of the scan round, or the selected one.
Asked == app.found[IF ds18.scan THEN ds18.index ELSE app.cur]

Stored(temp) == [app EXCEPT !.temps[Index] = temp, !.reported = @ + 1]

AllReported(a) == a.reported >= Count(a)

\* Mutant: the results so far are all good.
GoodRoundSoFar(a) == Cardinality(Good(a)) = a.reported

\* first_bad() finds nothing in a round that is complete.
GoodRound(a) == AllReported(a) /\ Cardinality(Good(a)) = Count(a)

Scanning == app.state = "MEASURE_WAIT" /\ ~app.seq

\* A poll restarts the round, and the application sees nothing of it.
ScanRestarts ==
    /\ Scanning /\ RestartsItself
    /\ ~(app.drain /\ AllReported(app))
    /\ ds18' = Polled
    /\ UNCHANGED <<app, slots, eeprom, log>>

\* switch_to_sequential(), with the driver as d.
SwitchToSequential(a, d) ==
    /\ app' = [a EXCEPT !.seq = TRUE, !.state = "WAIT"]
    /\ ds18' = Selected(d)

\* One result of a scan round.  A round that is complete is evaluated, or
\* drained when a sensor failed; in a drain the last result ends it at once.
ScanReport ==
    /\ Scanning /\ ds18.running
    /\ \E temp \in TempsOf[Asked] \cup {Failed}, absent \in BOOLEAN :
          LET a == Stored(temp)  d == AfterReport(absent) IN
          /\ absent => temp = Failed
          /\ \/ /\ ~app.drain /\ GoodRound(a)
                /\ Evaluate(a) /\ ds18' = d
             \/ /\ ~(~app.drain /\ GoodRound(a)) /\ ~(app.drain /\ AllReported(a))
                /\ app' = [a EXCEPT !.drain = @ \/ AllReported(a)]
                /\ ds18' = d /\ UNCHANGED slots
             \/ /\ app.drain /\ AllReported(a)
                /\ SwitchToSequential(a, d) /\ UNCHANGED slots
          /\ log' = [log EXCEPT !.cut = @ \/ (absent /\ ds18.par /\ ds18.index < Count(app))]
    /\ UNCHANGED eeprom

\* A deadline passes: with the driver parked for good, or after so many rounds
\* that started again, which reported a device each at least.
Overdue(rounds) ==
    Polled.running => app.reported - (Polled.index - 1) >= rounds

\* The round timeout.
ScanTimeout ==
    /\ Scanning /\ ~app.drain /\ ~AllReported(app)
    /\ Overdue(ScanRounds)
    /\ app' = [app EXCEPT !.drain = TRUE]
    /\ ds18' = Polled
    /\ UNCHANGED <<slots, eeprom, log>>

\* Mutant: the drain has no deadline and waits for results that never come.
ScanDrainedAll ==
    /\ Scanning /\ app.drain /\ AllReported(app)
    /\ SwitchToSequential(app, Polled)
    /\ UNCHANGED <<slots, eeprom, log>>

\* The end of the drain: to the sequential path, or to another scan round.
ScanDrained ==
    /\ Scanning /\ app.drain
    /\ \/ AllReported(app) /\ SwitchToSequential(app, Polled)
       \/ /\ ~AllReported(app) /\ Overdue(ScanRounds + DrainRounds)
          /\ app' = [app EXCEPT !.state = "WAIT"]
          /\ ds18' = Polled
    /\ UNCHANGED <<slots, eeprom, log>>

\* A result in the sequential path; the next device is selected and started.
SequentialReport ==
    /\ app.state = "MEASURE_WAIT" /\ app.seq /\ ds18.running
    /\ \E temp \in TempsOf[Asked] \cup {Failed}, absent \in BOOLEAN :
          LET a == [Stored(temp) EXCEPT !.cur = @ + 1]  d == AfterReport(absent) IN
          /\ absent => temp = Failed
          /\ \/ a.cur <= Count(a) /\ app' = a /\ ds18' = Started(d, FALSE) /\ UNCHANGED slots
             \/ a.cur > Count(a) /\ Evaluate(a) /\ ds18' = d
    /\ UNCHANGED <<eeprom, log>>

-----------------------------------------------------------------------------
(***************************************************************************)
(* A write job: Write Scratchpad, Read Scratchpad, Copy, Read Memory.      *)
(***************************************************************************)
\* write_abort()
Aborted ==
    [app EXCEPT !.jobs = <<>>, !.fails = @ + 1, !.off = @ \/ app.fails + 1 >= FailLimit,
                !.state = "WAIT"]

\* The command fails (no presence, or a bad echo), or the next one is issued.
StepTo(from, to) ==
    /\ app.state = from
    /\ \/ app' = [app EXCEPT !.state = to]
       \/ app' = Aborted
    /\ UNCHANGED <<slots, eeprom, ds18, log>>

WriteScratch == StepTo("WRITE_SCRATCH", "WRITE_VERIFY")
WriteVerify  == StepTo("WRITE_VERIFY", "WRITE_COPY")

\* The EEPROM after a copy of job j was issued: programmed, untouched, torn.
Programmed(j) ==
    IF j.isRom THEN [eeprom EXCEPT !.rom[j.slot] = j.sensor]
    ELSE [eeprom EXCEPT !.rec[j.slot] = Record(j.temp, j.sensor)]

Torn(j) ==
    IF j.isRom THEN [eeprom EXCEPT !.rom[j.slot] = NoRom]
    ELSE [eeprom EXCEPT !.rec[j.slot] = Invalid]

\* History: the EEPROM became e, and the application does not commit job j.
Uncommitted(j, e) ==
    [log EXCEPT !.blind[j.slot] = @ \/ (~j.isRom /\ Programmed(j) = e),
                !.blindRom[j.slot] = slots[j.slot].rom # e.rom[j.slot]]

\* The copy is over.  A supply that sags while the block is programmed leaves
\* it torn or untouched, and nobody tells the driver; nor does it know the
\* block when the device refused, or when the status was misread.
WriteCopy ==
    LET j == app.jobs[1] IN
    /\ app.state = "WRITE_COPY"
    /\ eeprom' \in {Programmed(j), Torn(j), eeprom}
    /\ \/ app' = Aborted /\ log' = Uncommitted(j, eeprom')
       \/ app' = [app EXCEPT !.state = "WRITE_READBACK"] /\ UNCHANGED log
    /\ UNCHANGED <<slots, ds18>>

\* Mutant: the block is read back and not compared.
ReadsBackAny(j) == TRUE

ReadsBack(j) == Programmed(j) = eeprom

\* job_done(), when the block reads back as written; the read may fail.  A
\* block that was touched and is not committed leaves RAM behind.
WriteReadBack ==
    LET j == app.jobs[1] IN
    /\ app.state = "WRITE_READBACK"
    /\ \/ /\ ReadsBack(j)
          /\ slots' = Commit(slots, j)
          /\ app' = [app EXCEPT !.jobs = Tail(@), !.fails = 0,
                                !.state = IF Len(app.jobs) > 1 THEN "WRITE_SCRATCH" ELSE "WAIT"]
          /\ log' = IF j.isRom THEN [log EXCEPT !.blindRom[j.slot] = FALSE]
                    ELSE [log EXCEPT !.blind[j.slot] = FALSE]
       \/ /\ app' = Aborted
          /\ log' = Uncommitted(j, eeprom)
          /\ UNCHANGED slots
    /\ UNCHANGED <<eeprom, ds18>>

-----------------------------------------------------------------------------
\* Power fails and returns: RAM starts over, the EEPROM keeps its blocks but
\* for the one being programmed, which is as before, new or torn.
Restart ==
    /\ log.restarts < MaxRestarts
    /\ app' = Powered /\ slots' = NoSlots /\ ds18' = Parked(ds18.par)
    /\ eeprom' \in IF app.state = "WRITE_COPY"
                   THEN {eeprom, Programmed(app.jobs[1]), Torn(app.jobs[1])} ELSE {eeprom}
    /\ log' = [log EXCEPT !.restarts = @ + 1, !.blind = [s \in Slots |-> FALSE],
                          !.blindRom = [s \in Slots |-> FALSE]]

Recorder ==
    \/ SearchDs18 \/ SearchAll \/ BootRead
    \/ Wait \/ MeasureStart
    \/ ScanRestarts \/ ScanReport \/ ScanTimeout \/ ScanDrained \/ SequentialReport
    \/ WriteScratch \/ WriteVerify \/ WriteCopy \/ WriteReadBack

Next == Recorder \/ Restart

\* The loop runs, the drivers' operations end (Ds18b20, Ds2431), time passes.
Spec == Init /\ [][Next]_vars /\ WF_vars(Recorder)
=============================================================================
