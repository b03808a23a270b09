----------------------------- MODULE MultiProps -----------------------------
(***************************************************************************)
(* Properties of the temperature recorder.                                 *)
(***************************************************************************)
EXTENDS Multi

Writing == {"WRITE_SCRATCH", "WRITE_VERIFY", "WRITE_COPY", "WRITE_READBACK"}

\* The two drivers share one timer and are used "strictly in sequence": no
\* EEPROM command runs while a measurement cycle is unfinished, also one that
\* the driver started on its own on a parasite bus.
OneDriverAtATime == app.state \in EepromStates => ~ds18.running

\* A valid record, in RAM or in EEPROM, holds a temperature that its own sensor
\* measured ("sensor index in the device table when the record was set",
\* main.c:36): what the results of a scan round and of the sequential path are
\* filed under is the device they came from.  The code breaks it on a parasite
\* bus when a round was cut short.
SensorOfRecord ==
    \A s \in Slots : \A r \in {slots[s].rec, eeprom.rec[s]} :
        r.valid => r.temp \in TempsOf[r.sensor]

\* On an external supply it always holds, also after the fallback in
\* mid-session; on a parasite bus, where the driver starts rounds on its own
\* and select() finds it running, as long as no round there was cut short by a
\* reset that nobody answered before its last device.
RecordOfItsSensor == ~(ds18.par /\ log.cut) => SensorOfRecord

\* The peak grows, the low falls.
Outward(s, new, old) == (s = "peak" /\ new > old) \/ (s = "low" /\ new < old)

(***************************************************************************)
(* "A record only moves in its own direction" (main.c:42-43): within a     *)
(* session whatever fails, and in the EEPROM also across power failures,   *)
(* where a block that holds a record is torn or gets one beyond it -       *)
(* unless the application does not know what the block holds, because its  *)
(* read failed at boot or after it was programmed.                         *)
(***************************************************************************)
RecordsMoveOneWay ==
    [][\A s \in Slots :
          /\ slots[s].rec.valid /\ log'.restarts = log.restarts =>
                slots'[s].rec = slots[s].rec
                    \/ Outward(s, slots'[s].rec.temp, slots[s].rec.temp)
          /\ eeprom.rec[s].valid /\ eeprom'.rec[s].valid /\ ~log.blind[s] =>
                eeprom'.rec[s] = eeprom.rec[s]
                    \/ Outward(s, eeprom'.rec[s].temp, eeprom.rec[s].temp)]_vars

\* A record the application holds after it wrote or loaded it is the one in
\* the EEPROM, so that a power failure costs nothing: between the jobs of a
\* session that persists, the block holds that record, or was torn by a later
\* write that failed.
KnownIsStored ==
    \A s \in Slots :
        app.have /\ ~app.off /\ slots[s].rec.valid /\ ~log.blind[s]
            /\ app.state \notin {"WRITE_COPY", "WRITE_READBACK"} =>
            eeprom.rec[s] \in {slots[s].rec, Invalid}

\* "ROM blocks are written before the record that refers to them"
\* (main.c:41-42): a record is programmed next to the ROM of its sensor, unless
\* an earlier ROM job failed after its copy and RAM does not know the block.
RomBeforeRecord ==
    [][\A s \in Slots :
          eeprom'.rec[s].valid /\ eeprom'.rec[s] # eeprom.rec[s] /\ ~log.blindRom[s] =>
              eeprom.rom[s] = eeprom'.rec[s].sensor]_vars

\* "Give up on EEPROM persistence after this many failed write jobs"
\* (main.c:99): the attempts end at the limit, no command that writes is
\* issued in a session that gave up, and the job table never overflows.
NoWriteAfterGivingUp ==
    /\ app.state \in Writing => ~app.off /\ app.have
    /\ app.fails <= FailLimit /\ Len(app.jobs) <= 4

\* Whatever fails, the next round comes, or there is nothing to measure.
RoundsGoOn ==
    []<>(app.state \in {"MEASURE_START", "STOP"})

=============================================================================
