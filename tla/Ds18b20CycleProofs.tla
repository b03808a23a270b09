-------------------------- MODULE Ds18b20CycleProofs -------------------------
(***************************************************************************)
(* Measurement cycles: what a cycle reports, for whom, and how often - for *)
(* every number of devices, every table size and every main loop, on a bus *)
(* that devices join and leave and whose reads may be corrupted; what the  *)
(* strong pull-up does meanwhile; and how old the reported readings are.   *)
(***************************************************************************)
EXTENDS Ds18b20Proofs

-----------------------------------------------------------------------------
(***************************************************************************)
(* The inductive invariant.  A report is written in DECODE from three      *)
(* things set in three different polls - the context, the captured frame   *)
(* and the table - with two hardware operations and, in a scan round, the  *)
(* reports of the devices before in between.  So we follow the address     *)
(* from the context (Asked) to the pulse table (READ), from there to the   *)
(* devices that heard it (the write has ended) and on to the frame one of  *)
(* them answered with (the read has ended).                                *)
(***************************************************************************)
\* The device the cycle addresses; NoRom: whoever is there (Skip ROM).
Asked == IF ctx.addr THEN ctx.rom ELSE NoRom

Reach(rom) == IF rom = NoRom THEN Devices ELSE {rom}

\* The states of a cycle after its Convert T has gone out.
Serving == ctx.state \in {"WAIT", "CONTINUE", "REQUEST", "READ", "DECODE"}

(***************************************************************************)
(* The entries a scan round visits were written by a search: those below   *)
(* dev_count, and entry 0, which is visited even when a search has set     *)
(* dev_count back to zero under an armed scan.                             *)
(***************************************************************************)
TableStored ==
    /\ \A i \in 0..MaxDevices - 1 : i < table.count => table.roms[i] # NoRom
    /\ ctx.scan => table.roms[0] # NoRom

\* The history of the cycle so far, where it is not in the properties.
RoundSoFar ==
    /\ ctx.state = "CONVERT" => round = <<>>
    /\ InCycle /\ ~ctx.scan => round = <<>>
    /\ ctx.scan /\ Serving => ctx.index = 0 \/ ctx.index < table.count

\* The address on its way from the context to the answer.
ReadBack ==
    /\ ctx.state \in {"READ", "DECODE"} => line.seen
    /\ ctx.state \in {"READ", "DECODE"} /\ ctx.scan =>
           ctx.addr /\ ctx.rom = table.roms[ctx.index]
    /\ ctx.state = "READ" => pulses.rom = Asked
    /\ ctx.state = "DECODE" \/ (ctx.state = "READ" /\ port.op = "idle") =>
           line.heard \subseteq Reach(Asked)
    /\ ctx.state = "DECODE" /\ port.op = "idle" /\ ValidScratchpad(line.frame) =>
           Asked \in {NoRom, line.frame.rom}

CycleInv == TableStored /\ RoundSoFar /\ ReadBack /\ ReportsOfAskedDevices

\* A temperature reported for an address is that device's, whenever it was reported.
AskedAnswered ==
    \A i \in 1..Len(round) :
        round[i].kind = "temp" /\ round[i].asked # NoRom => round[i].rom = round[i].asked

LEMMA CycleInit == Init => CycleInv
  <1> SUFFICES ASSUME Init PROVE CycleInv OBVIOUS
  <1>1. ctx.state = "IDLE" /\ ~ctx.scan /\ cb = "none" /\ round = <<>> /\ table.count = 0
    BY DEF Init
  <1>2. Len(round) = 0 BY <1>1
  <1>3. TableStored BY <1>1 DEF TableStored
  <1> QED
    BY <1>1, <1>2, <1>3 DEF CycleInv, RoundSoFar, ReadBack, ReportsOfAskedDevices,
       ReportsInOrder, ReadingsOfAsked, InCycle, Serving

(***************************************************************************)
(* The two kinds of steps that report nothing new: those that leave the    *)
(* cycle where it is, and those after which no cycle is under way.         *)
(***************************************************************************)
LEMMA CycleFrame ==
    ASSUME CycleInv, UNCHANGED <<table, round, cb>>,
           ctx'.state = ctx.state, ctx'.scan = ctx.scan, ctx'.index = ctx.index,
           ctx'.addr = ctx.addr, ctx'.rom = ctx.rom,
           ctx.state \in {"READ", "DECODE"} => UNCHANGED <<line, pulses>> /\ port'.op = port.op
    PROVE  CycleInv'
  <1>1. TableStored' /\ RoundSoFar' /\ Asked' = Asked
    BY DEF CycleInv, TableStored, RoundSoFar, InCycle, Serving, Asked
  <1>2. ReadBack'
    BY <1>1 DEF CycleInv, ReadBack, Reach, ValidScratchpad
  <1>3. ReportsOfAskedDevices'
    BY DEF CycleInv, ReportsOfAskedDevices, ReportsInOrder, ReadingsOfAsked, InCycle
  <1> QED BY <1>1, <1>2, <1>3 DEF CycleInv

LEMMA CycleParked ==
    ASSUME ctx'.state \in {"IDLE", "START"}, ~(cb' = "finish" /\ ctx'.scan),
           TableStored', AskedAnswered'
    PROVE  CycleInv'
  BY DEF CycleInv, RoundSoFar, ReadBack, ReportsOfAskedDevices, ReportsInOrder,
         ReadingsOfAsked, AskedAnswered, InCycle, Serving

LEMMA AnsweredKept == ASSUME CycleInv, round' = round PROVE AskedAnswered'
  BY DEF CycleInv, ReportsOfAskedDevices, ReadingsOfAsked, AskedAnswered

\* A report appended to a history of answered requests.
LEMMA AnsweredAppend ==
    ASSUME CycleInv, round \in Seq(Reports), NEW report \in Reports,
           round' = Append(round, report),
           report.kind = "temp" /\ report.asked # NoRom => report.rom = report.asked
    PROVE  AskedAnswered'
  <1>1. Len(round') = Len(round) + 1 /\ round'[Len(round) + 1] = report /\ Len(round) \in Nat
    BY AppendProperties, LenProperties
  <1>2. \A i \in 1..Len(round) : round'[i] = round[i] BY AppendProperties
  <1> SUFFICES ASSUME NEW i \in 1..Len(round'), round'[i].kind = "temp",
                      round'[i].asked # NoRom
               PROVE  round'[i].rom = round'[i].asked
    BY DEF AskedAnswered
  <1>3. CASE i = Len(round) + 1 BY <1>1, <1>3
  <1>4. CASE i \in 1..Len(round)
    BY <1>2, <1>4 DEF CycleInv, ReportsOfAskedDevices, ReadingsOfAsked
  <1> QED BY <1>1, <1>3, <1>4

-----------------------------------------------------------------------------
(***************************************************************************)
(* Calls, searches, resolution changes and commands.                       *)
(***************************************************************************)
LEMMA CycleApplication ==
    ASSUME "scan_start" \notin CallbackCalls, TypeOK, OwnerInv, CycleInv, Application
    PROVE  CycleInv'
  <1>0. /\ ctx \in CtxType /\ table \in TableType /\ txn \in TxnType
        /\ MaxDevices \in Nat /\ 0 < MaxDevices /\ TableStored
    BY MaxDevicesAssumption DEF TypeOK, CycleInv
  <1>1. ASSUME TimerFree, UNCHANGED <<cb, round>>, ctx'.state \in {"IDLE", "START"},
               ctx'.scan => ctx.scan \/ cb = "none", TableStored'
        PROVE  CycleInv'
    <2>1. ~(cb' = "finish" /\ ctx'.scan)
      BY <1>1 DEF TimerFree, OwnerInv, ScanCallbackInDecode
    <2> QED BY <1>1, <2>1, AnsweredKept, CycleParked
  <1>2. CASE StartMeasure
    <2>1. ctx'.state = "START" /\ ctx'.scan = ctx.scan
      BY <1>0, <1>2 DEF StartMeasure, CtxType
    <2> QED BY <1>0, <1>1, <1>2, <2>1 DEF StartMeasure, TableStored
  <1>3. CASE ScanStart
    <2>1. cb = "none" /\ ctx'.state = ctx.state /\ ctx.state = "IDLE"
      BY <1>0, <1>3 DEF ScanStart, May, CtxType, TimerFree
    <2>2. table.roms[0] # NoRom BY <1>0, <1>3 DEF ScanStart, TableStored, TableType
    <2> QED BY <1>0, <1>1, <1>3, <2>1, <2>2 DEF ScanStart, TableStored
  <1>4. ASSUME NEW rom \in Roms, Select(rom) PROVE CycleInv'
    <2>1. ctx'.scan = FALSE /\ ctx'.state = ctx.state /\ ctx.state = "IDLE"
      BY <1>0, <1>4 DEF Select, CtxType, TimerFree
    <2> QED BY <1>0, <1>1, <1>4, <2>1 DEF Select, TableStored
  <1>5. ASSUME NEW on \in BOOLEAN, SetParasite(on) PROVE CycleInv'
    <2>1. /\ ctx'.state = ctx.state /\ ctx'.scan = ctx.scan /\ ctx'.index = ctx.index
          /\ ctx'.addr = ctx.addr /\ ctx'.rom = ctx.rom
      BY <1>0, <1>5 DEF SetParasite, CtxType
    <2> QED BY <1>5, <2>1, CycleFrame DEF SetParasite
  <1>6. ASSUME NEW alarm \in BOOLEAN, NEW max \in 0..MaxDevices, SearchBegin(alarm, max)
        PROVE  CycleInv'
    <2>1. table'.roms = table.roms /\ table'.count \in {table.count, 0}
      BY <1>0, <1>6 DEF SearchBegin, TableType
    <2>2. table.count \in Nat /\ UNCHANGED ctx /\ ctx.state = "IDLE"
      BY <1>0, <1>6 DEF TableType, SearchBegin, TimerFree
    <2>3. TableStored' BY <1>0, <2>1, <2>2 DEF TableStored
    <2> QED BY <1>1, <1>6, <2>2, <2>3 DEF SearchBegin
  <1>7. ASSUME NEW bits \in Resolutions, SetResolution(bits) PROVE CycleInv'
    BY <1>0, <1>1, <1>7 DEF SetResolution, TimerFree, TableStored
  <1>8. ASSUME NEW cmd \in TxnCmds, TxnCall(cmd) PROVE CycleInv'
    <2>1. CASE TxnStart(cmd)
      BY <1>8, <2>1, CycleFrame DEF TxnCall, TxnStart, TxnCanStart, TimerFree
    <2>2. CASE UNCHANGED <<txn, pulses, port>>
      BY <1>8, <2>2, CycleFrame DEF TxnCall
    <2> QED BY <1>8, <2>1, <2>2 DEF TxnCall
  <1> QED BY <1>2, <1>3, <1>4, <1>5, <1>6, <1>7, <1>8 DEF Application

LEMMA CycleSearch ==
    ASSUME TypeOK, OwnerInv, CycleInv, SearchPoll
    PROVE  CycleInv'
  <1>0. ~search.finished /\ UNCHANGED <<ctx, cb, round>>
    BY DEF SearchPoll, SearchFinish, SearchReset, SearchCommand, SearchPair, SearchRomBad,
           SearchRom, SearchDone, SearchActive
  <1>1. /\ table \in TableType /\ MaxDevices \in Nat /\ 0 < MaxDevices
        /\ ctx.state = "IDLE" /\ UNCHANGED <<ctx, cb, round>> /\ TableStored
    BY <1>0, MaxDevicesAssumption DEF TypeOK, CycleInv, OwnerInv, OwnersApart, OthersBusy,
       SearchActive
  <1>2. CASE SearchFinish \/ SearchReset \/ SearchCommand \/ SearchPair \/ SearchRomBad
    BY <1>1, <1>2, CycleFrame DEF SearchFinish, SearchReset, SearchCommand, SearchPair,
       SearchRomBad
  <1>3. ASSUME NEW d \in Devices, NEW stop \in BOOLEAN, NEW more \in BOOLEAN,
               SearchRom(d, stop, more)
        PROVE  CycleInv'
    <2>1. CASE table' = table BY <1>1, <2>1, CycleFrame
    <2>2. CASE /\ table.count < MaxDevices
               /\ table' = [roms |-> [table.roms EXCEPT ![table.count] = d],
                            count |-> table.count + 1]
      <3>1. table.count \in 0..MaxDevices - 1 /\ d # NoRom
        BY <1>1, <2>2, NoRomAssumption DEF TableType
      <3>2. /\ table'.count = table.count + 1
            /\ \A i \in 0..MaxDevices - 1 :
                   table'.roms[i] = IF i = table.count THEN d ELSE table.roms[i]
        BY <1>1, <2>2, <3>1 DEF TableType
      <3>3. TableStored' BY <1>1, <3>1, <3>2 DEF TableStored
      <3>4. ~(cb' = "finish" /\ ctx'.scan)
        BY <1>1, <1>3 DEF SearchRom, SearchDone
      <3> QED BY <1>1, <3>3, <3>4, AnsweredKept, CycleParked
    <2>3. table.count \in 0..MaxDevices BY <1>1 DEF TableType
    <2> QED BY <1>1, <1>3, <2>1, <2>2, <2>3 DEF SearchRom
  <1> QED BY <1>2, <1>3 DEF SearchPoll

LEMMA CycleCommands ==
    ASSUME TypeOK, OwnerInv, CycleInv, ResPoll \/ TxnPoll \/ TxnPollAgain
    PROVE  CycleInv'
  <1>0. ctx \in CtxType /\ txn \in TxnType BY DEF TypeOK
  <1>1. /\ ctx'.state = ctx.state /\ ctx'.scan = ctx.scan /\ ctx'.index = ctx.index
        /\ ctx'.addr = ctx.addr /\ ctx'.rom = ctx.rom
    <2>1. CASE ResPoll BY <1>0, <2>1 DEF ResPoll, ResFinish, ResReset, ResWrite, CtxType
    <2>2. CASE TxnFinish \/ TxnPollAgain
      BY <1>0, <2>2, AppliedType DEF TxnFinish, TxnPollAgain
    <2>3. CASE TxnReset \/ TxnWrite \/ TxnRead \/ TxnWait
      BY <2>3 DEF TxnReset, TxnWrite, TxnRead, TxnWait
    <2> QED BY <2>1, <2>2, <2>3 DEF TxnPoll
  <1>2. UNCHANGED <<table, round, cb>>
    BY DEF ResPoll, ResFinish, ResReset, ResWrite, TxnPoll, TxnFinish, TxnPollAgain,
           TxnReset, TxnWrite, TxnRead, TxnWait
  <1>3. CASE TxnPollAgain BY <1>1, <1>2, <1>3, CycleFrame DEF TxnPollAgain
  <1>4. CASE ResPoll \/ TxnPoll
    <2>1. ~res.finished \/ ~txn.finished
      BY <1>4 DEF ResPoll, ResFinish, ResReset, ResWrite, ResDone, TxnPoll, TxnFinish,
                  TxnReset, TxnWrite, TxnRead, TxnWait, TxnDone
    <2>2. ctx.state = "IDLE" BY <2>1 DEF OwnerInv, OwnersApart, OthersBusy
    <2> QED BY <1>1, <1>2, <2>2, CycleFrame
  <1> QED BY <1>3, <1>4

-----------------------------------------------------------------------------
(***************************************************************************)
(* The hardware: the write decides who hears the command, the read who     *)
(* answers.  That nothing but the read can end in DECODE is where the      *)
(* proof needs the timer to serve its owner.                               *)
(***************************************************************************)
\* A valid frame is the scratchpad of a device that heard the command; of several
\* that answer at once, all have the same content.
LEMMA FrameOfHearer ==
    ASSUME TypeOK, NEW f, ValidScratchpad(f),
           f \in ReadFrames \cup NoiseFrames
    PROVE  \E d \in line.heard :
               /\ f = Scratchpad(d)
               /\ \A e \in Answering : dev[e].res = dev[d].res
  <1>1. f.kind = "ok" BY DEF ValidScratchpad
  <1>2. f \in ReadFrames BY <1>1 DEF NoiseFrames, Frame
  <1> DEFINE ones == Frame("ones", pulses.cmd, NoRom, "old", DefaultRes, FALSE)
             same == \A d, e \in Answering : d = e \/ SameContent(d, e)
  <1>3. ones.kind = "ones" /\ \A b : [ones EXCEPT !.kind = "bad", !.par = b].kind = "bad"
    BY DEF Frame
  <1> HIDE DEF ones
  <1>4. \/ f = ones
        \/ \E b : f = [ones EXCEPT !.kind = "bad", !.par = b]
        \/ same /\ \E d \in Answering : f = Scratchpad(d)
    BY <1>2, Zenon DEF ReadFrames, ones
  <1>5. same /\ \E d \in Answering : f = Scratchpad(d) BY <1>1, <1>3, <1>4
  <1> QED BY <1>5 DEF Answering, SameContent

LEMMA CycleHardware ==
    ASSUME TypeOK, TimerInv, CycleInv, Hardware
    PROVE  CycleInv'
  <1>0. port \in PortType(Waits) /\ line \in LineType BY DEF TypeOK, Waits
  <1>1. /\ port.op # "idle" /\ port'.op = "idle"
        /\ UNCHANGED <<ctx, table, pulses, cb, round>>
    <2>1. PICK operation \in Ops : HwEnds(operation)
      BY DEF Ops, Hardware, HwReset, HwWrite, HwRead, HwWait, HwSearchSlots
    <2> QED BY <1>0, <2>1, PortEffects DEF HwEnds, Ops
  <1>2. ctx.state # "IDLE" => port.op = MeasureWaitsFor
    BY <1>1 DEF TimerInv, TimerServesOwner, WaitsFor
  <1>3. CASE ctx.state \notin {"READ", "DECODE"} BY <1>1, <1>3, CycleFrame
  <1>4. ASSUME ctx.state \in {"READ", "DECODE"}, line'.seen = line.seen,
               line'.heard \subseteq Reach(Asked),
               ctx.state = "DECODE" /\ ValidScratchpad(line'.frame) =>
                   Asked \in {NoRom, line'.frame.rom}
        PROVE  CycleInv'
    <2>1. TableStored' /\ RoundSoFar' /\ Asked' = Asked
      BY <1>1 DEF CycleInv, TableStored, RoundSoFar, InCycle, Serving, Asked
    <2>2. ReadBack' BY <1>1, <1>4, <2>1 DEF CycleInv, ReadBack, Reach, ValidScratchpad
    <2>3. ReportsOfAskedDevices'
      BY <1>1 DEF CycleInv, ReportsOfAskedDevices, ReportsInOrder, ReadingsOfAsked, InCycle
    <2> QED BY <2>1, <2>2, <2>3 DEF CycleInv
  <1>5. CASE ctx.state = "READ"
    <2>1. port.op = "write" BY <1>2, <1>5 DEF MeasureWaitsFor
    <2>2. line' = [line EXCEPT !.heard = Hearing(pulses.rom)]
      BY <1>5, <2>1 DEF Hardware, HwReset, HwWrite, HwRead, HwWait, HwSearchSlots, HwEnds
    <2>3. pulses.rom = Asked BY <1>5 DEF CycleInv, ReadBack
    <2>4. line'.heard \subseteq Reach(Asked) BY <1>0, <2>2, <2>3 DEF LineType, Hearing, Reach
    <2>5. line'.seen = line.seen BY <1>0, <2>2 DEF LineType
    <2> QED BY <1>4, <1>5, <2>4, <2>5
  <1>6. CASE ctx.state = "DECODE"
    <2>1. port.op = "read" BY <1>1, <1>2, <1>6 DEF MeasureWaitsFor
    <2>2. PICK f \in ReadFrames \cup NoiseFrames : line' = [line EXCEPT !.frame = f]
      BY <2>1 DEF Hardware, HwReset, HwWrite, HwRead, HwWait, HwSearchSlots, HwEnds
    <2>3. line'.seen = line.seen /\ line'.heard = line.heard /\ line'.frame = f
      BY <1>0, <2>2 DEF LineType
    <2>4. line.heard \subseteq Reach(Asked) BY <1>6 DEF CycleInv, ReadBack
    <2>5. ASSUME ValidScratchpad(f) PROVE Asked \in {NoRom, f.rom}
      <3>1. f.rom \in line.heard BY <2>2, <2>5, FrameOfHearer DEF Scratchpad, Frame
      <3> QED BY <2>4, <3>1 DEF Reach
    <2> QED BY <1>4, <1>6, <2>3, <2>4, <2>5
  <1> QED BY <1>3, <1>5, <1>6

-----------------------------------------------------------------------------
(***************************************************************************)
(* The polls of the cycle itself.                                          *)
(***************************************************************************)
\* The table entry a scan round visits holds a device.
LEMMA VisitedIsStored ==
    ASSUME TypeInv, CycleInv, ctx.scan, Serving
    PROVE  ctx.index \in 0..MaxDevices - 1 /\ table.roms[ctx.index] # NoRom
  <1>1. ctx.index \in 0..MaxDevices /\ MaxDevices \in Nat /\ ctx.index < MaxDevices
    BY MaxDevicesAssumption DEF TypeInv, TypeOK, CtxType, IndexInv, Serving
  <1>2. ctx.index \in 0..MaxDevices - 1 BY <1>1
  <1>3. ctx.index = 0 \/ ctx.index < table.count BY DEF CycleInv, RoundSoFar
  <1> QED BY <1>2, <1>3 DEF CycleInv, TableStored

\* Between the states with an answer on its way.
LEMMA CycleOnward ==
    ASSUME CycleInv, UNCHANGED <<table, round>>, cb' = "none", cb = "none", Serving,
           ctx'.state \in {"WAIT", "CONTINUE", "REQUEST"},
           ctx'.scan = ctx.scan, ctx'.index = ctx.index
    PROVE  CycleInv'
  <1>1. TableStored' /\ RoundSoFar'
    BY DEF CycleInv, TableStored, RoundSoFar, InCycle, Serving
  <1>2. ReportsOfAskedDevices'
    BY DEF CycleInv, ReportsOfAskedDevices, ReportsInOrder, ReadingsOfAsked, InCycle, Serving
  <1> QED BY <1>1, <1>2 DEF CycleInv, ReadBack

\* A report appended by the poll that makes it.
LEMMA ReportType ==
    ASSUME NEW c \in CtxType, NEW kind \in {"temp", "no_sensor", "crc_fail"},
           NEW rom \in Roms, NEW temp \in Temps
    PROVE  [index |-> c.index, kind |-> kind, rom |-> rom, temp |-> temp,
            asked |-> IF c.addr THEN c.rom ELSE NoRom] \in Reports
  <1>1. NoRom \in Roms BY DEF Roms
  <1>2. c.index \in 0..MaxDevices /\ c.rom \in Roms BY DEF CtxType
  <1> QED BY <1>1, <1>2 DEF Reports

\* issue_command() without presence: NO_SENSOR is reported, the cycle is over.
LEMMA CycleGivenUp ==
    ASSUME TypeOK, CycleInv, NEW c \in CtxType, NEW p, NEW cmd, NEW next,
           c.scan = ctx.scan, ~line.seen, IssueCommand(c, p, cmd, next), UNCHANGED table
    PROVE  CycleInv' /\ ctx'.state = "IDLE" /\ Len(round') = Len(round) + 1
                     /\ ctx'.index = c.index
  <1> DEFINE report == [index |-> c.index, kind |-> "no_sensor", rom |-> NoRom, temp |-> "old",
                        asked |-> IF c.addr THEN c.rom ELSE NoRom]
  <1>1. /\ round' = Append(round, report) /\ cb' = "parked"
        /\ ctx'.state = "IDLE" /\ ctx'.scan = ctx.scan /\ ctx'.index = c.index
    BY DEF IssueCommand, Complete, CtxType
  <1>2. report \in Reports BY ReportType DEF Roms, Temps
  <1>3. report.kind # "temp" OBVIOUS
  <1> HIDE DEF report
  <1>4. AskedAnswered' BY <1>1, <1>2, <1>3, AnsweredAppend DEF TypeOK
  <1>5. TableStored' BY <1>1 DEF CycleInv, TableStored
  <1>6. Len(round') = Len(round) + 1 BY <1>1, <1>2, AppendProperties DEF TypeOK
  <1> QED BY <1>1, <1>4, <1>5, <1>6, CycleParked

LEMMA CycleDecode ==
    ASSUME TypeInv, TimerInv, CycleInv, PollDecode
    PROVE  CycleInv' /\ (ctx'.state = "IDLE" => Len(round') = 1 /\ ~ctx.scan)
  <1> DEFINE f    == line.frame
             kind == IF ValidScratchpad(f) THEN "temp"
                     ELSE IF ctx.addr /\ f.kind = "ones" THEN "no_sensor"
                     ELSE "crc_fail"
             report == [index |-> ctx.index, kind |-> kind, rom |-> f.rom, temp |-> f.temp,
                        asked |-> IF ctx.addr THEN ctx.rom ELSE NoRom]
  <1>0. /\ ctx \in CtxType /\ line \in LineType /\ round \in Seq(Reports)
        /\ port \in PortType(Waits) /\ TimerServesOwner
    BY DEF TypeInv, TypeOK, Waits, TimerInv
  <1>1. ctx.state = "DECODE" /\ port.uif /\ cb = "none" BY DEF PollDecode, MeasureDone
  <1>2. port.op = "idle" BY <1>0, <1>1, FlagMeansStopped
  <1>3. port' = Consumed /\ port'.op = "idle"
    BY <1>0, <1>2, PortEffects DEF PollDecode, Consumed
  <1>4. /\ round' = Append(round, report) /\ cb' = "finish"
        /\ ctx' = [ctx EXCEPT !.state = IF ctx.scan THEN "DECODE" ELSE "IDLE",
                              !.res = TrackedRes(f)]
        /\ UNCHANGED <<table, line, pulses>>
    BY DEF PollDecode, Complete
  <1>5. kind \in {"temp", "no_sensor", "crc_fail"} /\ f.rom \in Roms /\ f.temp \in Temps
    BY <1>0 DEF LineType, Frames
  <1>6. report \in Reports BY <1>0, <1>5, ReportType
  <1>7. kind = "temp" => ValidScratchpad(f) OBVIOUS
  <1>8. /\ report.index = ctx.index /\ report.kind = kind /\ report.rom = f.rom
        /\ report.asked = Asked
    BY DEF Asked
  <1>9. /\ ctx'.state = IF ctx.scan THEN "DECODE" ELSE "IDLE"
        /\ ctx'.scan = ctx.scan /\ ctx'.index = ctx.index
        /\ ctx'.addr = ctx.addr /\ ctx'.rom = ctx.rom
    BY <1>0, <1>4 DEF CtxType
  <1>10. ValidScratchpad(f) => Asked \in {NoRom, f.rom}
    BY <1>1, <1>2 DEF CycleInv, ReadBack
  <1> HIDE DEF f, kind, report
  <1>11. AskedAnswered'
    BY <1>0, <1>4, <1>6, <1>7, <1>8, <1>10, AnsweredAppend
  <1>12. /\ Len(round) \in Nat /\ Len(round') = Len(round) + 1
         /\ round'[Len(round) + 1] = report
         /\ \A i \in 1..Len(round) : round'[i] = round[i]
    BY <1>0, <1>4, <1>6, AppendProperties, LenProperties
  <1>13. TableStored' BY <1>4, <1>9 DEF CycleInv, TableStored
  <1>14. CASE ~ctx.scan
    <2>1. Len(round) = 0 BY <1>1, <1>14 DEF CycleInv, RoundSoFar, InCycle
    <2>2. Len(round') = 1 BY <1>12, <2>1
    <2> QED BY <1>9, <1>11, <1>13, <1>14, <2>2, CycleParked
  <1>15. CASE ctx.scan
    <2>1. ctx'.state = "DECODE" /\ Asked' = Asked BY <1>9, <1>15 DEF Asked
    <2>2. RoundSoFar' BY <1>1, <1>4, <1>9, <1>15, <2>1 DEF CycleInv, RoundSoFar, InCycle, Serving
    <2>3. ReadBack'
      BY <1>1, <1>2, <1>3, <1>4, <1>9, <2>1 DEF CycleInv, ReadBack, Reach, ValidScratchpad
    <2>4. Len(round) = ctx.index /\ \A i \in 1..Len(round) : round[i].index = i - 1
      BY <1>1, <1>15 DEF CycleInv, ReportsOfAskedDevices, ReportsInOrder
    <2>5. ctx.index \in Nat BY <1>0, MaxDevicesAssumption DEF CtxType
    <2>6. \A i \in 1..Len(round') : i \in 1..Len(round) \/ i = Len(round) + 1 BY <1>12
    <2>7. \A i \in 1..Len(round') : round'[i].index = i - 1
      BY <1>8, <1>12, <2>4, <2>5, <2>6
    <2>8. ReportsInOrder' BY <1>4, <1>9, <1>12, <2>4, <2>7 DEF ReportsInOrder
    <2>9. kind = "temp" => f.rom = table.roms[ctx.index]
      <3>1. table.roms[ctx.index] # NoRom BY <1>1, <1>15, VisitedIsStored DEF Serving
      <3>2. Asked = table.roms[ctx.index]
        BY <1>1, <1>15 DEF CycleInv, ReadBack, Asked
      <3> QED BY <1>7, <1>10, <3>1, <3>2
    <2>10. \A i \in 1..Len(round) : round[i].kind = "temp" =>
               round[i].rom = table.roms[round[i].index]
      BY <1>1, <1>15 DEF CycleInv, ReportsOfAskedDevices, ReadingsOfAsked, InCycle
    <2>11. \A i \in 1..Len(round') : round'[i].kind = "temp" =>
               round'[i].rom = table.roms[round'[i].index]
      BY <1>8, <1>12, <2>6, <2>9, <2>10
    <2>12. ReadingsOfAsked' BY <1>4, <1>11, <2>11 DEF ReadingsOfAsked, AskedAnswered
    <2> QED
      BY <1>13, <2>1, <2>2, <2>3, <2>8, <2>12 DEF CycleInv, ReportsOfAskedDevices
  <1> QED BY <1>14, <1>15

LEMMA CycleMeasure ==
    ASSUME TypeInv, TimerInv, CycleInv, MeasurePoll
    PROVE  CycleInv'
  <1>0. /\ port \in PortType(Waits) /\ Consumed \in PortType(Waits) /\ ctx \in CtxType
        /\ TypeOK /\ TimerServesOwner /\ table \in TableType
    BY ConsumedType DEF TypeInv, TypeOK, Waits, TimerInv
  <1>1. port.uif /\ cb = "none" /\ UNCHANGED table
    BY DEF MeasurePoll, MeasureDone, PollIdle, PollStart, PollConvert, PollWait,
           PollContinue, PollRequest, PollRead, PollDecode
  <1>2. port.op = "idle" BY <1>0, <1>1, FlagMeansStopped
  <1>3. CASE PollIdle BY <1>3, CycleFrame DEF PollIdle, MeasureDone
  <1>4. CASE PollStart
    <2>1. ctx'.state = "CONVERT" /\ ctx'.scan = ctx.scan /\ round' = <<>> /\ cb' = "none"
      BY <1>0, <1>1, <1>4 DEF PollStart, CtxType
    <2>2. Len(round') = 0 BY <2>1
    <2>3. TableStored' BY <1>1, <2>1 DEF CycleInv, TableStored
    <2>4. RoundSoFar' /\ ReadBack' BY <2>1 DEF RoundSoFar, ReadBack, Serving
    <2>5. ReportsOfAskedDevices'
      BY <2>1, <2>2 DEF ReportsOfAskedDevices, ReportsInOrder, ReadingsOfAsked
    <2> QED BY <2>3, <2>4, <2>5 DEF CycleInv
  <1>5. CASE PollConvert
    <2>1. RoundContext \in CtxType /\ (RoundContext.scan => RoundContext.index = 0)
      BY <1>0, RoundContextType
    <2>2. RoundContext.scan = ctx.scan BY <1>0 DEF RoundContext, CtxType
    <2>3. IssueCommand(RoundContext, PullupIf(Consumed, TRUE), "convert_t", "WAIT")
      BY <1>5 DEF PollConvert
    <2>4. CASE ~line.seen BY <1>0, <1>1, <2>1, <2>2, <2>3, <2>4, CycleGivenUp
    <2>5. CASE line.seen
      <3>1. /\ ctx'.state = "WAIT" /\ ctx'.scan = ctx.scan /\ (ctx'.scan => ctx'.index = 0)
            /\ UNCHANGED <<cb, round>>
        BY <2>1, <2>2, <2>3, <2>5 DEF IssueCommand, CtxType
      <3>2. round = <<>> /\ Len(round) = 0
        BY <1>5 DEF PollConvert, MeasureDone, CycleInv, RoundSoFar
      <3>3. TableStored' BY <1>1, <3>1 DEF CycleInv, TableStored
      <3>4. RoundSoFar' /\ ReadBack' BY <3>1, <3>2 DEF RoundSoFar, ReadBack
      <3>5. ReportsOfAskedDevices'
        BY <1>1, <3>1, <3>2 DEF ReportsOfAskedDevices, ReportsInOrder, ReadingsOfAsked
      <3> QED BY <3>3, <3>4, <3>5 DEF CycleInv
    <2> QED BY <2>4, <2>5
  <1>6. CASE PollWait \/ PollContinue
    <2>1. /\ ctx.state \in {"WAIT", "CONTINUE"} /\ UNCHANGED <<round, cb>>
          /\ ctx'.state \in {"CONTINUE", "REQUEST"}
          /\ ctx'.scan = ctx.scan /\ ctx'.index = ctx.index
      BY <1>0, <1>6 DEF PollWait, PollContinue, MeasureDone, CtxType
    <2> QED BY <1>1, <2>1, CycleOnward DEF Serving
  <1>7. CASE PollRequest
    <2>1. ctx.state = "REQUEST" BY <1>7 DEF PollRequest, MeasureDone
    <2>2. /\ ReadContext \in CtxType /\ ReadContext.scan = ctx.scan
          /\ ReadContext.index = ctx.index
      BY <2>1, ReadContextType
    <2>3. IssueCommand(ReadContext, PullupIf(Consumed, TRUE), "read_scratchpad", "READ")
      BY <1>7 DEF PollRequest
    <2>4. CASE ~line.seen BY <1>0, <1>1, <2>2, <2>3, <2>4, CycleGivenUp
    <2>5. CASE line.seen
      <3>1. /\ ctx' = [ReadContext EXCEPT !.state = "READ"] /\ UNCHANGED <<cb, round, line>>
            /\ pulses' = [pulses EXCEPT !.cmd = "read_scratchpad",
                          !.rom = IF ReadContext.addr THEN ReadContext.rom ELSE NoRom]
            /\ port' = Arm(PullupIf(Consumed, TRUE), "write")
        BY <1>7, <2>3, <2>5 DEF IssueCommand, PollRequest
      <3>2. /\ ctx'.state = "READ" /\ ctx'.scan = ctx.scan /\ ctx'.index = ctx.index
            /\ ctx'.addr = ReadContext.addr /\ ctx'.rom = ReadContext.rom
        BY <2>2, <3>1 DEF CtxType
      <3>3. pulses'.rom = Asked' BY <1>0, <3>1, <3>2 DEF TypeOK, PulsesType, Asked
      <3>4. ctx.scan => ctx'.addr /\ ctx'.rom = table.roms[ctx.index]
        BY <1>0, <3>2 DEF ReadContext, CtxType
      <3> DEFINE p == PullupIf(Consumed, TRUE)
      <3>5. p \in PortType(Waits) /\ port' = Arm(p, "write") BY <1>0, <3>1, ConsumedType
      <3> HIDE DEF p
      <3>6. port'.op # "idle" BY <3>5, PortEffects
      <3>7. TableStored' BY <1>1, <3>2 DEF CycleInv, TableStored
      <3>8. RoundSoFar'
        BY <1>1, <2>1, <3>1, <3>2 DEF CycleInv, RoundSoFar, InCycle, Serving
      <3>9. ReadBack'
        BY <1>1, <2>5, <3>1, <3>2, <3>3, <3>4, <3>6 DEF ReadBack
      <3>10. ReportsOfAskedDevices'
        BY <1>1, <2>1, <3>1, <3>2 DEF CycleInv, ReportsOfAskedDevices, ReportsInOrder,
           ReadingsOfAsked, InCycle
      <3> QED BY <3>7, <3>8, <3>9, <3>10 DEF CycleInv
    <2> QED BY <2>4, <2>5
  <1>8. CASE PollRead
    <2>1. /\ ctx.state = "READ" /\ ctx'.state = "DECODE" /\ ctx'.scan = ctx.scan
          /\ ctx'.index = ctx.index /\ ctx'.addr = ctx.addr /\ ctx'.rom = ctx.rom
          /\ UNCHANGED <<round, cb, line>> /\ port' = Arm(PullupIf(Consumed, FALSE), "read")
      BY <1>0, <1>8 DEF PollRead, MeasureDone, CtxType
    <2>2. PullupIf(Consumed, FALSE) \in PortType(Waits) BY <1>0, ConsumedType
    <2>3. port'.op # "idle" BY <2>1, <2>2, PortEffects
    <2>4. TableStored' BY <1>1, <2>1 DEF CycleInv, TableStored
    <2>5. RoundSoFar' BY <1>1, <2>1 DEF CycleInv, RoundSoFar, InCycle, Serving
    <2>6. Asked' = Asked BY <2>1 DEF Asked
    <2>7. ReadBack' BY <1>1, <1>2, <2>1, <2>3, <2>6 DEF CycleInv, ReadBack, Reach
    <2>8. ReportsOfAskedDevices'
      BY <1>1, <2>1 DEF CycleInv, ReportsOfAskedDevices, ReportsInOrder, ReadingsOfAsked,
                        InCycle
    <2> QED BY <2>4, <2>5, <2>7, <2>8 DEF CycleInv
  <1>9. CASE PollDecode BY <1>9, CycleDecode
  <1> QED BY <1>3, <1>4, <1>5, <1>6, <1>7, <1>8, <1>9 DEF MeasurePoll

LEMMA CycleCallback ==
    ASSUME TypeInv, TimerInv, CycleInv, CallbackReturn
    PROVE  CycleInv'
  <1>0. ctx \in CtxType /\ table \in TableType /\ MaxDevices \in Nat
    BY MaxDevicesAssumption DEF TypeInv, TypeOK
  <1>1. /\ UNCHANGED <<table, line, pulses, round>> /\ cb' = "none" /\ cb # "none"
        /\ ctx'.scan = ctx.scan
    BY <1>0 DEF CallbackReturn, CallbackReturnParked, ScanFinishOrNext, CtxType
  <1>2. TableStored' BY <1>1 DEF CycleInv, TableStored
  <1>3. CASE ctx'.state \in {"IDLE", "START"} BY <1>1, <1>2, <1>3, AnsweredKept, CycleParked
  <1>4. CASE cb = "parked" \/ ~ctx.scan
    BY <1>1, <1>3, <1>4 DEF CallbackReturn, CallbackReturnParked, ScanFinishOrNext, TimerInv,
                            CallbackQuiet
  <1>5. CASE cb = "finish" /\ ctx.scan
    <2>1. ctx.state = "DECODE" BY <1>5 DEF TimerInv, OwnerInv, ScanCallbackInDecode
    <2>2. CASE LastDevice
      <3>1. ctx'.state = "IDLE"
        BY <1>0, <1>5, <2>2 DEF CallbackReturn, CallbackReturnParked, ScanFinishOrNext, CtxType
      <3> QED BY <1>3, <3>1
    <2>3. CASE ~LastDevice
      <3>1. ctx'.state = "CONTINUE" /\ ctx'.index = ctx.index + 1
        BY <1>0, <1>5, <2>3 DEF CallbackReturn, CallbackReturnParked, ScanFinishOrNext, CtxType
      <3>2. ctx.index \in Nat /\ table.count \in Nat BY <1>0 DEF CtxType, TableType
      <3>3. ctx'.index < table'.count BY <1>1, <2>3, <3>1, <3>2 DEF LastDevice
      <3>4. RoundSoFar' BY <1>1, <1>5, <3>1, <3>3 DEF RoundSoFar
      <3>5. ReadBack' BY <3>1 DEF ReadBack
      <3>6. ReportsOfAskedDevices'
        BY <1>1, <1>5, <2>1, <3>1 DEF CycleInv, ReportsOfAskedDevices, ReportsInOrder,
           ReadingsOfAsked, InCycle
      <3> QED BY <1>2, <3>4, <3>5, <3>6 DEF CycleInv
    <2> QED BY <2>2, <2>3
  <1>6. cb \in {"finish", "parked"} BY <1>1 DEF TypeInv, TypeOK
  <1> QED BY <1>4, <1>5, <1>6

LEMMA CycleNext ==
    ASSUME CallbackCalls \subseteq {"select", "set_parasite", "start_measure"},
           TypeInv, TimerInv, CycleInv, [Next]_vars
    PROVE  CycleInv'
  <1>0. TypeOK /\ OwnerInv BY DEF TypeInv, TimerInv
  <1>1. ASSUME NEW d \in Devices, Plug(d) PROVE CycleInv' BY <1>1, CycleFrame DEF Plug
  <1>2. CASE UNCHANGED vars BY <1>2, CycleFrame DEF vars
  <1>3. CASE Application
    <2>1. "scan_start" \notin CallbackCalls OBVIOUS
    <2> QED BY <1>0, <1>3, <2>1, CycleApplication
  <1> QED
    BY <1>0, <1>1, <1>2, <1>3, CycleMeasure, CycleCallback, CycleSearch, CycleCommands,
       CycleHardware DEF Next

LEMMA CycleInvariant ==
    ASSUME CallbackCalls \subseteq {"select", "set_parasite", "start_measure"}
    PROVE  Spec => [](TypeInv /\ TimerInv /\ CycleInv)
  <1>1. TypeInv /\ TimerInv /\ [Next]_vars => TimerInv' BY TimerNext
  <1>2. TypeInv /\ TimerInv /\ CycleInv /\ [Next]_vars => CycleInv' BY CycleNext
  <1> QED BY <1>1, <1>2, CycleInit, TimerInit, TypeInvariant, PTL DEF Spec

(***************************************************************************)
(* A scan round reports the devices 0, 1, 2, ... of the table, one each    *)
(* and in order, and a temperature is the reading of the device it is      *)
(* reported for - though the report is built from a context, a frame and a *)
(* table that three different polls have left there, and the callback may  *)
(* select another device between two of them.                              *)
(***************************************************************************)
THEOREM ReportsCorrect ==
    ASSUME CallbackCalls \subseteq {"select", "set_parasite", "start_measure"}
    PROVE  Spec => []ReportsOfAskedDevices
  <1>1. TypeInv /\ TimerInv /\ CycleInv => ReportsOfAskedDevices BY DEF CycleInv
  <1> QED BY <1>1, CycleInvariant, PTL

-----------------------------------------------------------------------------
(***************************************************************************)
(* How many reports a cycle ends with.  Only three steps end a cycle: a    *)
(* reset that found nobody, the decode of a single device, and the         *)
(* continuation after the last device of a round.                          *)
(***************************************************************************)
LEMMA CycleEnds ==
    ASSUME TypeInv, TimerInv, CycleInv, [Next]_vars, InCycle, ctx'.state = "IDLE",
           ctx.scan => table.count > 0
    PROVE  Len(round') = IF ~ctx.scan THEN 1
                         ELSE IF line.seen THEN table.count
                         ELSE ctx'.index + 1
  <1>0. /\ ctx \in CtxType /\ table \in TableType /\ txn \in TxnType /\ TypeOK
        /\ MaxDevices \in Nat
    BY MaxDevicesAssumption DEF TypeInv, TypeOK
  <1>1. ctx.state # "IDLE" /\ ~OthersBusy /\ ~TimerFree
    BY DEF InCycle, TimerInv, OwnerInv, OwnersApart, TimerFree
  <1>2. CASE \/ Application \/ SearchPoll \/ ResPoll \/ TxnPoll \/ Hardware
             \/ (\E d \in Devices : Plug(d)) \/ UNCHANGED vars
    <2>1. UNCHANGED ctx
      BY <1>1, <1>2 DEF Application, StartMeasure, ScanStart, Select, SetParasite, SearchBegin,
         SetResolution, TxnCall, SearchPoll, SearchFinish, SearchReset, SearchCommand,
         SearchPair, SearchRomBad, SearchRom, ResPoll, ResFinish, ResReset, ResWrite, TxnPoll,
         TxnReset, TxnWrite, TxnRead, TxnWait, TxnFinish, Hardware, HwReset, HwWrite, HwRead,
         HwWait, HwSearchSlots, HwEnds, Plug, OthersBusy, SearchActive, vars
    <2> QED BY <1>1, <2>1
  <1>3. CASE TxnPollAgain
    <2>1. ctx'.state = ctx.state BY <1>0, <1>3, AppliedType DEF TxnPollAgain
    <2> QED BY <1>1, <2>1
  <1>4. CASE PollDecode
    <2>1. Len(round') = 1 /\ ~ctx.scan BY <1>4, CycleDecode
    <2> QED BY <2>1
  <1>5. ASSUME NEW c \in CtxType, c.scan = ctx.scan, ctx.scan => Len(round) = c.index,
               ~ctx.scan => round = <<>>, UNCHANGED table,
               NEW p, NEW cmd, NEW next \in {"WAIT", "READ"}, IssueCommand(c, p, cmd, next)
        PROVE  Len(round') = IF ~ctx.scan THEN 1
                             ELSE IF line.seen THEN table.count
                             ELSE ctx'.index + 1
    <2>1. ~line.seen BY <1>5 DEF IssueCommand, CtxType
    <2>2. Len(round') = Len(round) + 1 /\ ctx'.index = c.index
      BY <1>0, <1>5, <2>1, CycleGivenUp
    <2>3. ~ctx.scan => Len(round) = 0 BY <1>5
    <2> QED BY <1>5, <2>1, <2>2, <2>3
  <1>6. CASE PollConvert
    <2>1. RoundContext \in CtxType /\ (RoundContext.scan => RoundContext.index = 0)
      BY <1>0, RoundContextType
    <2>2. RoundContext.scan = ctx.scan BY <1>0 DEF RoundContext, CtxType
    <2>3. round = <<>> /\ Len(round) = 0
      BY <1>6 DEF PollConvert, MeasureDone, CycleInv, RoundSoFar
    <2> QED BY <1>5, <1>6, <2>1, <2>2, <2>3 DEF PollConvert
  <1>7. CASE PollRequest
    <2>1. ctx.state = "REQUEST" /\ cb = "none" BY <1>7 DEF PollRequest, MeasureDone
    <2>2. /\ ReadContext \in CtxType /\ ReadContext.scan = ctx.scan
          /\ ReadContext.index = ctx.index
      BY <2>1, ReadContextType
    <2>3. ctx.scan => Len(round) = ctx.index
      BY <2>1 DEF CycleInv, ReportsOfAskedDevices, ReportsInOrder
    <2>4. ~ctx.scan => round = <<>> BY <2>1 DEF CycleInv, RoundSoFar, InCycle
    <2> QED BY <1>5, <1>7, <2>2, <2>3, <2>4 DEF PollRequest
  <1>8. CASE PollIdle \/ PollStart \/ PollWait \/ PollContinue \/ PollRead
    BY <1>0, <1>1, <1>8 DEF PollIdle, PollStart, PollWait, PollContinue, PollRead, MeasureDone,
                            CtxType
  <1>9. CASE CallbackReturn
    <2>1. cb # "none" /\ ctx.scan /\ ctx.state = "DECODE" /\ cb = "finish"
      BY <1>9 DEF CallbackReturn, CallbackReturnParked, ScanFinishOrNext, InCycle, TimerInv,
                  CallbackQuiet
    <2>2. LastDevice /\ round' = round
      BY <1>0, <1>9, <2>1 DEF CallbackReturn, CallbackReturnParked, ScanFinishOrNext, CtxType
    <2>3. Len(round) = ctx.index + 1 /\ line.seen
      BY <2>1 DEF CycleInv, ReportsOfAskedDevices, ReportsInOrder, ReadBack
    <2>4. ctx.index = 0 \/ ctx.index < table.count
      BY <2>1 DEF CycleInv, RoundSoFar, Serving
    <2>5. ctx.index \in Nat /\ table.count \in Nat BY <1>0 DEF CtxType, TableType
    <2>6. ctx.index + 1 = table.count BY <2>1, <2>2, <2>4, <2>5 DEF LastDevice
    <2> QED BY <2>1, <2>2, <2>3, <2>6
  <1> QED
    BY <1>2, <1>3, <1>4, <1>6, <1>7, <1>8, <1>9 DEF Next, MeasurePoll

(***************************************************************************)
(* A cycle that ends has reported once per device asked: once in           *)
(* single-device mode, once for every device of the table in a scan round, *)
(* and with one NO_SENSOR for the device at which a round is given up.     *)
(***************************************************************************)
THEOREM RoundReportsCorrect ==
    ASSUME CallbackCalls \subseteq {"select", "set_parasite", "start_measure"}
    PROVE  Spec => RoundReports
  <1>1. TypeInv /\ TimerInv /\ CycleInv /\ [Next]_vars =>
            [InCycle /\ ctx'.state = "IDLE" /\ (ctx.scan => table.count > 0)
                => Len(round') = IF ~ctx.scan THEN 1
                                 ELSE IF line.seen THEN table.count
                                 ELSE ctx'.index + 1]_vars
    BY CycleEnds
  <1> QED BY <1>1, CycleInvariant, PTL DEF Spec, RoundReports

-----------------------------------------------------------------------------
(***************************************************************************)
(* The strong pull-up on a parasite bus.  The driver releases it only when *)
(* it knows the bus to be a parasite one (PullupIf), so a mode switched    *)
(* off while it is engaged would leave it engaged: the theorems are about  *)
(* an application that switches the mode on and does not detect it again.  *)
(***************************************************************************)
LineInv ==
    /\ want # "detect_parasite"
    /\ ~ctx.par => port.pin = "od"
    /\ AnswersOnFreeLine

\* What the calls of src/ow_port.h do to the pin and to the wait in flight.
LEMMA PinEffects ==
    ASSUME NEW p \in PortType(Waits)
    PROVE  /\ \A operation : Arm(p, operation).pin = p.pin
           /\ \A us : ArmWait(p, us).pin = p.pin /\ ArmWait(p, us).us = us
           /\ Kick(p).pin = p.pin /\ BusDone(p).pin = p.pin /\ HwDone(p).pin = p.pin
           /\ StrongPullup(p, FALSE).pin = "od"
           /\ PullupIf(p, TRUE).pin = IF ctx.par THEN "pp" ELSE p.pin
           /\ PullupIf(p, FALSE).pin = IF ctx.par THEN "od" ELSE p.pin
  <1>1. /\ \A operation : Arm(p, operation).pin = p.pin
        /\ \A us : ArmWait(p, us).pin = p.pin /\ ArmWait(p, us).us = us
    BY DEF PortType, Arm, ArmWait
  <1>2. Kick(p).pin = p.pin /\ BusDone(p).pin = p.pin /\ HwDone(p).pin = p.pin
    BY DEF PortType, Kick, BusDone, HwDone
  <1>3. StrongPullup(p, FALSE).pin = "od" /\ StrongPullup(p, TRUE).pin = "pp"
    BY DEF PortType, StrongPullup
  <1> QED BY <1>1, <1>2, <1>3 DEF PullupIf

\* A polled command other than the detection leaves the power mode alone.
LEMMA AppliedPar ==
    ASSUME ctx \in CtxType, NEW c, c # "detect_parasite", NEW t, NEW x \in Applied(c, t)
    PROVE  x.par = ctx.par
  <1>1. x = ctx \/ \E r : x = [ctx EXCEPT !.res = r] BY DEF Applied
  <1> QED BY <1>1 DEF CtxType

LEMMA LineInit == Init => LineInv
  BY DEF Init, PortInit, LineInv, AnswersOnFreeLine

\* A step that keeps the power mode, and arms what is to be answered on a free line.
LEMMA LineKept ==
    ASSUME LineInv, want' = want, ctx'.par = ctx.par,
           ~ctx.par => port'.pin \in {port.pin, "od"},
           port'.op \in {"reset", "read"} /\ (ctx'.state # "IDLE" \/ ~txn'.finished)
               => port'.pin = "od"
    PROVE  LineInv'
  BY DEF LineInv, AnswersOnFreeLine

LEMMA LineApplication ==
    ASSUME ParasiteArgs \subseteq {TRUE}, "detect_parasite" \notin Calls \cup CallbackCalls,
           TypeOK, TimerInv, LineInv, Application
    PROVE  LineInv'
  <1>0. /\ ctx \in CtxType /\ port \in PortType(Waits) /\ TimerServesOwner
        /\ TimerFree => port.op = "idle"
    BY FreeTimerRests DEF TypeOK, Waits, TimerInv
  <1>1. CASE StartMeasure
    <2>1. TimerFree /\ port' = Kick(port) /\ want' = want /\ ctx'.par = ctx.par
      BY <1>0, <1>1 DEF StartMeasure, CtxType
    <2>2. port'.op = "idle" /\ port'.pin = port.pin
      BY <1>0, <2>1, PortEffects, PinEffects
    <2> QED BY <2>1, <2>2, LineKept
  <1>2. ASSUME TimerFree, UNCHANGED <<port, want>>, ctx'.par \in {ctx.par, TRUE}
        PROVE  LineInv'
    BY <1>0, <1>2 DEF LineInv, AnswersOnFreeLine
  <1>3. CASE ScanStart
    <2>1. ctx'.par = ctx.par BY <1>0, <1>3 DEF ScanStart, CtxType
    <2> QED BY <1>2, <1>3, <2>1 DEF ScanStart
  <1>4. ASSUME NEW rom \in Roms, Select(rom) PROVE LineInv'
    <2>1. ctx'.par = ctx.par BY <1>0, <1>4 DEF Select, CtxType
    <2> QED BY <1>2, <1>4, <2>1 DEF Select
  <1>5. ASSUME NEW on \in BOOLEAN, SetParasite(on) PROVE LineInv'
    <2>1. ctx'.par = TRUE BY <1>0, <1>5 DEF SetParasite, CtxType
    <2> QED BY <1>2, <1>5, <2>1 DEF SetParasite
  <1>6. ASSUME NEW alarm \in BOOLEAN, NEW max \in 0..MaxDevices, SearchBegin(alarm, max)
        PROVE  LineInv'
    <2>1. ctx'.state = "IDLE" /\ txn'.finished /\ UNCHANGED <<ctx, want>>
      BY <1>6 DEF SearchBegin, TimerFree, OthersBusy
    <2>2. port'.pin = port.pin BY <1>0, <1>6, PinEffects DEF SearchBegin
    <2> QED BY <2>1, <2>2, LineKept
  <1>7. ASSUME NEW bits \in Resolutions, SetResolution(bits) PROVE LineInv'
    <2>1. ctx'.state = "IDLE" /\ txn'.finished /\ UNCHANGED <<ctx, want>>
      BY <1>7 DEF SetResolution, TimerFree, OthersBusy
    <2>2. port'.pin = port.pin BY <1>0, <1>7, PinEffects DEF SetResolution
    <2> QED BY <2>1, <2>2, LineKept
  <1>8. ASSUME NEW cmd \in TxnCmds, TxnCall(cmd) PROVE LineInv'
    <2>1. want' # "detect_parasite" /\ UNCHANGED ctx BY <1>8 DEF TxnCall, May
    <2>2. CASE TxnStart(cmd)
      <3> DEFINE p == StrongPullup(port, FALSE)
      <3>1. p \in PortType(Waits) /\ p.pin = "od" BY <1>0, PortCalls, PinEffects
      <3>2. port' = Arm(p, "reset") BY <2>2 DEF TxnStart
      <3> HIDE DEF p
      <3>3. port'.pin = "od" BY <3>1, <3>2, PinEffects
      <3> QED BY <2>1, <3>3 DEF LineInv, AnswersOnFreeLine
    <2>3. CASE UNCHANGED <<txn, pulses, port>>
      BY <2>1, <2>3 DEF LineInv, AnswersOnFreeLine
    <2> QED BY <1>8, <2>2, <2>3 DEF TxnCall
  <1> QED BY <1>1, <1>3, <1>4, <1>5, <1>6, <1>7, <1>8 DEF Application

\* What a poll makes of the consumed port before it arms the next operation.
LEMMA ConsumedPin ==
    ASSUME TypeOK
    PROVE  LET engaged  == PullupIf(Consumed, TRUE)
               released == PullupIf(Consumed, FALSE)
           IN  /\ Consumed \in PortType(Waits) /\ Consumed.pin = port.pin
               /\ engaged \in PortType(Waits)
               /\ engaged.pin = IF ctx.par THEN "pp" ELSE port.pin
               /\ released \in PortType(Waits)
               /\ released.pin = IF ctx.par THEN "od" ELSE port.pin
               /\ engaged.op = port.op /\ released.op = port.op /\ Consumed.op = port.op
  <1>1. port \in PortType(Waits) BY DEF TypeOK, Waits
  <1>2. Consumed \in PortType(Waits) BY <1>1, ConsumedType
  <1>3. Consumed.pin = port.pin /\ Consumed.op = port.op
    BY <1>1, PinEffects, PortEffects DEF Consumed
  <1>4. \A on \in BOOLEAN : PullupIf(Consumed, on) \in PortType(Waits)
                            /\ PullupIf(Consumed, on).op = port.op
    BY <1>1, <1>2, <1>3, ConsumedType, PortEffects
  <1>5. /\ PullupIf(Consumed, TRUE).pin = IF ctx.par THEN "pp" ELSE port.pin
        /\ PullupIf(Consumed, FALSE).pin = IF ctx.par THEN "od" ELSE port.pin
    BY <1>2, <1>3, PinEffects
  <1> QED BY <1>2, <1>3, <1>4, <1>5

LEMMA LineMeasure ==
    ASSUME TypeInv, TimerInv, LineInv, MeasurePoll
    PROVE  LineInv'
  <1> DEFINE engaged  == PullupIf(Consumed, TRUE)
             released == PullupIf(Consumed, FALSE)
  <1>0. /\ ctx \in CtxType /\ TypeOK
        /\ Consumed \in PortType(Waits) /\ Consumed.pin = port.pin
        /\ engaged \in PortType(Waits) /\ engaged.pin = IF ctx.par THEN "pp" ELSE port.pin
        /\ released \in PortType(Waits) /\ released.pin = IF ctx.par THEN "od" ELSE port.pin
        /\ engaged.op = port.op /\ Consumed.op = port.op
    BY ConsumedPin DEF TypeInv, TypeOK
  <1>1. port.uif /\ UNCHANGED want
    BY DEF MeasurePoll, MeasureDone, PollIdle, PollStart, PollConvert, PollWait,
           PollContinue, PollRequest, PollRead, PollDecode
  <1>2. port.op = "idle" BY <1>1, FlagMeansStopped DEF TimerInv
  <1>3. ~ctx.par => port.pin = "od" BY DEF LineInv
  <1> HIDE DEF engaged, released
  <1>4. \A operation : Arm(released, operation).pin = "od"
    <2>1. released.pin = "od" BY <1>0, <1>3
    <2>2. released \in PortType(Waits) BY <1>0
    <2> QED BY <2>1, <2>2, PinEffects
  <1>5. /\ \A operation : Arm(engaged, operation).pin = engaged.pin
         /\ \A us : ArmWait(engaged, us).pin = engaged.pin
    <2>1. engaged \in PortType(Waits) BY <1>0
    <2> QED BY <2>1, PinEffects
  <1>6. ASSUME ctx'.par = ctx.par,
               port' = Consumed \/ port' = Arm(released, "reset") \/ port' = Arm(released, "read")
                   \/ port' = engaged \/ port' = Arm(engaged, "write")
                   \/ \E us : port' = ArmWait(engaged, us)
        PROVE  LineInv'
    <2>1. CASE port' = Consumed BY <1>0, <1>1, <1>2, <1>6, <2>1, LineKept
    <2>2. CASE port' = Arm(released, "reset") \/ port' = Arm(released, "read")
      <3>1. port'.pin = "od" BY <1>4, <2>2
      <3> QED BY <1>1, <1>6, <3>1, LineKept
    <2>3. CASE port' = engaged \/ port' = Arm(engaged, "write")
               \/ \E us : port' = ArmWait(engaged, us)
      <3>1. port'.pin = engaged.pin BY <1>5, <2>3
      <3>2. port'.op \in {"idle", "write", "wait"} BY <1>0, <1>2, <2>3, PortEffects
      <3>3. ~ctx.par => port'.pin = "od" BY <1>0, <1>3, <3>1
      <3> QED BY <1>1, <1>6, <3>2, <3>3, LineKept
    <2> QED BY <1>6, <2>1, <2>2, <2>3
  <1>7. ASSUME NEW c \in CtxType, c.par = ctx.par, NEW cmd, NEW next,
               IssueCommand(c, engaged, cmd, next)
        PROVE  LineInv'
    <2>1. ctx'.par = ctx.par BY <1>7 DEF IssueCommand, CtxType
    <2>2. port' = engaged \/ port' = Arm(engaged, "write") BY <1>7 DEF IssueCommand
    <2> QED BY <1>6, <2>1, <2>2
  <1>8. CASE PollConvert
    <2>1. RoundContext \in CtxType BY <1>0, RoundContextType
    <2>2. RoundContext.par = ctx.par BY <1>0 DEF RoundContext, CtxType
    <2> QED BY <1>7, <1>8, <2>1, <2>2 DEF PollConvert, engaged
  <1>9. CASE PollRequest
    <2>1. ReadContext \in CtxType BY <1>9, ReadContextType DEF PollRequest, MeasureDone
    <2>2. ReadContext.par = ctx.par BY <1>0 DEF ReadContext, CtxType
    <2> QED BY <1>7, <1>9, <2>1, <2>2 DEF PollRequest, engaged
  <1>10. CASE PollContinue
    <2>1. ctx'.par = ctx.par BY <1>0, <1>10 DEF PollContinue, CtxType
    <2> DEFINE p == StrongPullup(Consumed, FALSE)
    <2>2. p \in PortType(Waits) /\ p.pin = "od" BY <1>0, PortCalls, PinEffects
    <2>3. port' = Arm(p, "reset") BY <1>10 DEF PollContinue
    <2> HIDE DEF p
    <2>4. port'.pin = "od" BY <2>2, <2>3, PinEffects
    <2> QED BY <1>1, <2>1, <2>4, LineKept
  <1>11. CASE PollIdle \/ PollStart \/ PollWait \/ PollRead \/ PollDecode
    <2>1. ctx'.par = ctx.par
      BY <1>0, <1>11 DEF PollIdle, PollStart, PollWait, PollRead, PollDecode, CtxType
    <2>2. \/ port' = Consumed \/ port' = Arm(released, "reset") \/ port' = Arm(released, "read")
          \/ \E us : port' = ArmWait(engaged, us)
      BY <1>11 DEF PollIdle, PollStart, PollWait, PollRead, PollDecode, engaged, released
    <2> QED BY <1>6, <2>1, <2>2
  <1> QED BY <1>8, <1>9, <1>10, <1>11 DEF MeasurePoll

LEMMA LineCallback ==
    ASSUME TypeOK, TimerInv, LineInv, CallbackReturn
    PROVE  LineInv'
  <1>0. ctx \in CtxType /\ port \in PortType(Waits) BY DEF TypeOK, Waits
  <1>1. port.op = "idle" /\ want' = want
    BY CallbackTimerRests DEF CallbackReturn, CallbackReturnParked, ScanFinishOrNext
  <1>2. ctx'.par = ctx.par
    BY <1>0 DEF CallbackReturn, CallbackReturnParked, ScanFinishOrNext, CtxType
  <1>3. port' = PullupIf(port, TRUE) \/ port' = ArmWait(port, 0)
    BY DEF CallbackReturn, CallbackReturnParked, ScanFinishOrNext, GapBeforeNext
  <1> DEFINE engaged == PullupIf(port, TRUE)
             gap     == ArmWait(port, 0)
  <1>4. engaged.op = "idle" /\ gap.op = "wait"
    <2>1. engaged.op = port.op BY <1>0, PortEffects
    <2>2. gap.op = "wait" BY <1>0, PortEffects
    <2> QED BY <1>1, <2>1, <2>2
  <1>5. (~ctx.par => engaged.pin = port.pin) /\ gap.pin = port.pin BY <1>0, PinEffects
  <1>6. port' = engaged \/ port' = gap BY <1>3
  <1> HIDE DEF engaged, gap
  <1> QED BY <1>1, <1>2, <1>4, <1>5, <1>6, LineKept

LEMMA LineSearch ==
    ASSUME TypeOK, TimerInv, LineInv, SearchPoll \/ ResPoll
    PROVE  LineInv'
  <1>0. ctx \in CtxType /\ port \in PortType(Waits) BY DEF TypeOK, Waits
  <1>1. ~search.finished \/ ~res.finished
    BY DEF SearchPoll, SearchFinish, SearchReset, SearchCommand, SearchPair, SearchRomBad,
           SearchRom, SearchDone, SearchActive, ResPoll, ResFinish, ResReset, ResWrite, ResDone
  <1>2. /\ UNCHANGED <<txn, want>> /\ ctx'.par = ctx.par /\ ctx'.state = ctx.state
        /\ port' \in {port, Consumed} \/ \E operation : port' = Arm(Consumed, operation)
    BY <1>0 DEF SearchPoll, SearchFinish, SearchReset, SearchCommand, SearchPair, SearchRomBad,
           SearchRom, SearchNext, SearchEnd, ResPoll, ResFinish, ResReset, ResWrite, CtxType
  <1>3. ctx.state = "IDLE" /\ txn.finished
    BY <1>1 DEF TimerInv, OwnerInv, OwnersApart, OthersBusy, SearchActive
  <1>4. Consumed \in PortType(Waits) /\ Consumed.pin = port.pin BY ConsumedPin
  <1>5. \A operation : Arm(Consumed, operation).pin = port.pin
    BY <1>4, PinEffects
  <1>6. port'.pin = port.pin BY <1>2, <1>4, <1>5
  <1> QED BY <1>2, <1>3, <1>6, LineKept

LEMMA LineTxn ==
    ASSUME TypeInv, TimerInv, LineInv, TxnPoll \/ TxnPollAgain
    PROVE  LineInv'
  <1> DEFINE engaged  == PullupIf(Consumed, TRUE)
             released == PullupIf(Consumed, FALSE)
  <1>0. /\ ctx \in CtxType /\ txn \in TxnType /\ TypeOK
        /\ Consumed \in PortType(Waits) /\ Consumed.pin = port.pin
        /\ engaged \in PortType(Waits) /\ engaged.pin = IF ctx.par THEN "pp" ELSE port.pin
        /\ released \in PortType(Waits) /\ released.pin = IF ctx.par THEN "od" ELSE port.pin
        /\ engaged.op = port.op /\ released.op = port.op /\ Consumed.op = port.op
    BY ConsumedPin DEF TypeInv, TypeOK
  <1>1. ~ctx.par => port.pin = "od" BY DEF LineInv
  <1> HIDE DEF engaged, released
  <1>2. /\ released.pin = "od" /\ Arm(released, "read").pin = "od"
        /\ StrongPullup(Consumed, FALSE).pin = "od"
    <2>1. released.pin = "od" BY <1>0, <1>1
    <2>2. released \in PortType(Waits) /\ Consumed \in PortType(Waits) BY <1>0
    <2> QED BY <2>1, <2>2, PinEffects
  <1>3. /\ Arm(engaged, "write").pin = engaged.pin /\ ArmWait(engaged, 0).pin = engaged.pin
        /\ Arm(engaged, "write").op = "write" /\ ArmWait(engaged, 0).op = "wait"
    <2>1. engaged \in PortType(Waits) BY <1>0
    <2>2. Arm(engaged, "write").pin = engaged.pin /\ ArmWait(engaged, 0).pin = engaged.pin
      BY <2>1, PinEffects
    <2>3. Arm(engaged, "write").op = "write" /\ ArmWait(engaged, 0).op = "wait"
      BY <2>1, PortEffects
    <2> QED BY <2>2, <2>3
  <1>4. CASE TxnFinish \/ TxnPollAgain
    <2>1. ctx' \in Applied(want, txn) /\ UNCHANGED <<port, want>> /\ txn'.finished
      BY <1>0, <1>4 DEF TxnFinish, TxnPollAgain, TxnType
    <2>2. ctx'.par = ctx.par BY <1>0, <2>1, AppliedPar DEF LineInv
    <2>3. ctx'.state = ctx.state BY <1>0, <2>1, AppliedType
    <2>4. ctx.state = "IDLE" \/ txn.finished
      BY DEF TimerInv, OwnerInv, OwnersApart, OthersBusy
    <2> QED BY <2>1, <2>2, <2>3, <2>4, LineKept DEF LineInv, AnswersOnFreeLine
  <1>5. CASE TxnReset \/ TxnWrite \/ TxnRead \/ TxnWait
    <2>1. port.uif /\ UNCHANGED <<ctx, want>>
      BY <1>5 DEF TxnReset, TxnWrite, TxnRead, TxnWait, TxnDone
    <2>2. port.op = "idle" BY <2>1, FlagMeansStopped DEF TimerInv
    <2>3. \/ port' = Consumed \/ port' = released \/ port' = StrongPullup(Consumed, FALSE)
          \/ port' = Arm(released, "read")
          \/ port' = Arm(engaged, "write") \/ port' = ArmWait(engaged, 0)
      BY <1>5 DEF TxnReset, TxnWrite, TxnRead, TxnWait, engaged, released
    <2>4. CASE port' = Consumed BY <1>0, <2>1, <2>2, <2>4, LineKept
    <2>5. CASE \/ port' = released \/ port' = StrongPullup(Consumed, FALSE)
               \/ port' = Arm(released, "read")
      <3>1. port'.pin = "od" BY <1>2, <2>5
      <3> QED BY <2>1, <3>1, LineKept
    <2>6. CASE port' = Arm(engaged, "write") \/ port' = ArmWait(engaged, 0)
      <3>1. port'.pin = engaged.pin BY <1>3, <2>6
      <3>2. port'.op \in {"write", "wait"} BY <1>3, <2>6
      <3> QED BY <1>0, <1>1, <2>1, <3>1, <3>2, LineKept
    <2> QED BY <2>3, <2>4, <2>5, <2>6
  <1> QED BY <1>4, <1>5 DEF TxnPoll

LEMMA LineNext ==
    ASSUME ParasiteArgs \subseteq {TRUE}, "detect_parasite" \notin Calls \cup CallbackCalls,
           TypeInv, TimerInv, LineInv, [Next]_vars
    PROVE  LineInv'
  <1>0. TypeOK /\ port \in PortType(Waits) BY DEF TypeInv, TypeOK, Waits
  <1>1. CASE Hardware
    <2>1. port' = HwDone(port) /\ UNCHANGED <<ctx, want>>
      BY <1>1 DEF Hardware, HwReset, HwWrite, HwRead, HwWait, HwSearchSlots, HwEnds
    <2>2. port'.op = "idle" /\ port'.pin = port.pin
      BY <1>0, <2>1, PortEffects, PinEffects
    <2> QED BY <2>1, <2>2, LineKept
  <1>2. CASE (\E d \in Devices : Plug(d)) \/ UNCHANGED vars
    BY <1>2 DEF Plug, vars, LineInv, AnswersOnFreeLine
  <1> QED
    BY <1>0, <1>1, <1>2, LineApplication, LineMeasure, LineCallback, LineSearch, LineTxn
    DEF Next

(***************************************************************************)
(* Supply.  ConvertingIsSupplied does not say why a device of the round    *)
(* before is not left converting through the gap between two devices, when *)
(* the pull-up is released: because the wait after Convert T was as long   *)
(* as its conversion.  That needs the tracked resolution to be the         *)
(* devices', here because there is one resolution only.                    *)
(***************************************************************************)
NobodyConverts == \A d \in Devices : ~dev[d].conv

SupplyInv ==
    /\ ctx.par /\ ctx.state = "WAIT" => port.pin = "pp"
    /\ ctx.par /\ ctx.state = "CONTINUE" /\ port.op = "wait" /\ port.us # 0 => port.pin = "pp"
    /\ \A d \in Devices : dev[d].conv =>
           \/ ctx.state = "WAIT"
           \/ ctx.state = "CONTINUE" /\ port.op = "wait" /\ port.us = DefaultRes

LEMMA SupplyInit == Init => SupplyInv
  BY DEF Init, SupplyInv

\* The steps that leave the cycle where it is, and those outside the conversion.
LEMMA SupplyKept ==
    ASSUME SupplyInv, port' = port, ctx'.state = ctx.state, ctx'.par = ctx.par,
           \A d \in Devices : dev'[d].conv => dev[d].conv
    PROVE  SupplyInv'
  BY DEF SupplyInv

LEMMA SupplyRests ==
    ASSUME ctx'.state \notin {"WAIT", "CONTINUE"}, NobodyConverts'
    PROVE  SupplyInv'
  BY DEF SupplyInv, NobodyConverts

LEMMA RestingNobodyConverts ==
    ASSUME SupplyInv,
           ctx.state \notin {"WAIT", "CONTINUE"} \/ (ctx.state = "CONTINUE" /\ port.op = "idle")
    PROVE  NobodyConverts
  BY DEF SupplyInv, NobodyConverts

\* Calls and the other engines: they run while no cycle does.
LEMMA SupplyOthers ==
    ASSUME TypeOK, TimerInv, LineInv, SupplyInv,
           Application \/ SearchPoll \/ ResPoll \/ TxnPoll \/ TxnPollAgain
    PROVE  SupplyInv'
  <1>0. ctx \in CtxType /\ txn \in TxnType BY DEF TypeOK
  <1>1. UNCHANGED dev
    BY DEF Application, StartMeasure, ScanStart, Select, SetParasite, SearchBegin,
       SetResolution, TxnCall, SearchPoll, SearchFinish, SearchReset, SearchCommand, SearchPair,
       SearchRomBad, SearchRom, ResPoll, ResFinish, ResReset, ResWrite, TxnPoll, TxnReset,
       TxnWrite, TxnRead, TxnWait, TxnFinish, TxnPollAgain
  <1>2. ASSUME ctx.state = "IDLE", ctx'.state \in {"IDLE", "START"} PROVE SupplyInv'
    <2>1. NobodyConverts BY <1>2, RestingNobodyConverts
    <2> QED BY <1>1, <1>2, <2>1, SupplyRests DEF NobodyConverts
  <1>3. CASE Application
    <2>1. CASE UNCHANGED <<ctx, port>> BY <1>1, <2>1, SupplyKept
    <2>2. CASE ~UNCHANGED <<ctx, port>>
      <3>1. TimerFree
        BY <1>3, <2>2 DEF Application, StartMeasure, ScanStart, Select, SetParasite,
           SearchBegin, SetResolution, TxnCall, TxnStart, TxnCanStart
      <3>2. ctx'.state \in {ctx.state, "START"}
        BY <1>0, <1>3 DEF Application, StartMeasure, ScanStart, Select, SetParasite,
           SearchBegin, SetResolution, TxnCall, CtxType
      <3> QED BY <1>2, <3>1, <3>2 DEF TimerFree
    <2> QED BY <2>1, <2>2
  <1>4. CASE SearchPoll \/ ResPoll \/ TxnPoll
    <2>1. ~search.finished \/ ~res.finished \/ ~txn.finished
      BY <1>4 DEF SearchPoll, SearchFinish, SearchReset, SearchCommand, SearchPair,
         SearchRomBad, SearchRom, SearchDone, SearchActive, ResPoll, ResFinish, ResReset,
         ResWrite, ResDone, TxnPoll, TxnReset, TxnWrite, TxnRead, TxnWait, TxnFinish, TxnDone
    <2>2. ctx.state = "IDLE"
      BY <2>1 DEF TimerInv, OwnerInv, OwnersApart, OthersBusy, SearchActive
    <2>3. CASE TxnFinish
      <3>1. ctx'.state = ctx.state BY <1>0, <2>3, AppliedType DEF TxnFinish
      <3> QED BY <1>2, <2>2, <3>1
    <2>4. CASE ~TxnFinish
      <3>1. ctx'.state = ctx.state
        BY <1>0, <1>4, <2>4 DEF SearchPoll, SearchFinish, SearchReset, SearchCommand,
           SearchPair, SearchRomBad, SearchRom, ResPoll, ResFinish, ResReset, ResWrite, TxnPoll,
           TxnReset, TxnWrite, TxnRead, TxnWait, CtxType
      <3> QED BY <1>2, <2>2, <3>1
    <2> QED BY <2>3, <2>4
  <1>5. CASE TxnPollAgain
    <2>1. ctx'.state = ctx.state /\ ctx'.par = ctx.par
      BY <1>0, <1>5, AppliedType, AppliedPar DEF TxnPollAgain, LineInv
    <2> QED BY <1>1, <1>5, <2>1, SupplyKept DEF TxnPollAgain
  <1> QED BY <1>3, <1>4, <1>5

LEMMA SupplyMeasure ==
    ASSUME Resolutions = {DefaultRes}, TypeInv, TimerInv, SupplyInv, MeasurePoll
    PROVE  SupplyInv'
  <1> DEFINE engaged == PullupIf(Consumed, TRUE)
  <1>0. /\ ctx \in CtxType /\ TypeOK
        /\ engaged \in PortType(Waits) /\ (ctx.par => engaged.pin = "pp")
    BY ConsumedPin DEF TypeInv, TypeOK
  <1>1. port.uif
    BY DEF MeasurePoll, MeasureDone, PollIdle, PollStart, PollConvert, PollWait,
           PollContinue, PollRequest, PollRead, PollDecode
  <1>2. port.op = "idle" BY <1>1, FlagMeansStopped DEF TimerInv
  <1>3. ctx.state # "WAIT" => NobodyConverts BY <1>2 DEF SupplyInv, NobodyConverts
  <1> HIDE DEF engaged
  <1>4. ASSUME ctx.state # "WAIT", ctx'.state \notin {"WAIT", "CONTINUE"},
               \A d \in Devices : dev'[d].conv = dev[d].conv
        PROVE  SupplyInv'
    BY <1>3, <1>4, SupplyRests DEF NobodyConverts
  <1>5. CASE PollStart
    <2>1. ctx'.state = "CONVERT" /\ ctx.state # "WAIT"
      BY <1>0, <1>5 DEF PollStart, MeasureDone, CtxType
    <2>2. dev' = [d \in Devices |-> [dev[d] EXCEPT !.temp = "old"]] BY <1>5 DEF PollStart
    <2>3. \A d \in Devices : dev'[d].conv = dev[d].conv
      BY <1>0, <2>2 DEF TypeOK, DeviceType
    <2> QED BY <1>4, <2>1, <2>3
  <1>6. CASE PollIdle \/ PollContinue \/ PollRead \/ PollDecode
    <2>1. ctx.state # "WAIT" /\ ctx'.state \notin {"WAIT", "CONTINUE"} /\ UNCHANGED dev
      BY <1>0, <1>6 DEF PollIdle, PollContinue, PollRead, PollDecode, MeasureDone, CtxType
    <2> QED BY <1>4, <2>1
  <1>7. CASE PollRequest
    <2>1. ReadContext \in CtxType /\ ctx.state = "REQUEST" /\ UNCHANGED dev
      BY <1>7, ReadContextType DEF PollRequest, MeasureDone
    <2>2. ctx'.state \in {"READ", "IDLE"}
      BY <1>7, <2>1 DEF PollRequest, IssueCommand, CtxType
    <2> QED BY <1>4, <2>1, <2>2
  <1>8. CASE PollConvert
    <2>1. /\ RoundContext \in CtxType /\ ctx.state # "WAIT" /\ UNCHANGED dev
          /\ RoundContext.par = ctx.par
      BY <1>0, <1>8, RoundContextType DEF PollConvert, MeasureDone, RoundContext, CtxType
    <2>2. IssueCommand(RoundContext, engaged, "convert_t", "WAIT")
      BY <1>8 DEF PollConvert, engaged
    <2>3. CASE ctx'.state = "IDLE" BY <1>4, <2>1, <2>3
    <2>4. CASE ctx'.state # "IDLE"
      <3>1. /\ ctx' = [RoundContext EXCEPT !.state = "WAIT"] /\ port' = Arm(engaged, "write")
        BY <2>1, <2>2, <2>4 DEF IssueCommand, CtxType
      <3>2. ctx'.state = "WAIT" /\ ctx'.par = ctx.par BY <2>1, <3>1 DEF CtxType
      <3>3. port'.pin = engaged.pin BY <1>0, <3>1, PinEffects
      <3> QED BY <1>0, <3>2, <3>3 DEF SupplyInv
    <2> QED BY <2>3, <2>4
  <1>9. CASE PollWait
    <2>1. ctx'.state = "CONTINUE" /\ ctx'.par = ctx.par /\ UNCHANGED dev
      BY <1>0, <1>9 DEF PollWait, CtxType
    <2>2. ctx.res = DefaultRes BY <1>0 DEF CtxType
    <2>3. port' = ArmWait(engaged, DefaultRes)
      BY <1>9, <2>2 DEF PollWait, ConversionWait, engaged
    <2>4. port'.pin = engaged.pin /\ port'.us = DefaultRes BY <1>0, <2>3, PinEffects
    <2>5. port'.op = "wait" BY <1>0, <2>3, PortEffects
    <2> QED BY <1>0, <2>1, <2>4, <2>5 DEF SupplyInv
  <1> QED BY <1>5, <1>6, <1>7, <1>8, <1>9 DEF MeasurePoll

LEMMA SupplyCallback ==
    ASSUME TypeOK, TimerInv, SupplyInv, CallbackReturn
    PROVE  SupplyInv'
  <1>0. ctx \in CtxType /\ port \in PortType(Waits) BY DEF TypeOK, Waits
  <1>1. ctx.state \notin {"WAIT", "CONTINUE"} /\ UNCHANGED dev
    BY DEF CallbackReturn, CallbackReturnParked, ScanFinishOrNext, TimerInv, CallbackQuiet
  <1>2. NobodyConverts BY <1>1, RestingNobodyConverts
  <1>3. CASE ctx'.state \notin {"WAIT", "CONTINUE"}
    BY <1>1, <1>2, <1>3, SupplyRests DEF NobodyConverts
  <1>4. CASE ctx'.state \in {"WAIT", "CONTINUE"}
    <2>1. ctx'.state = "CONTINUE" /\ port' = ArmWait(port, 0)
      BY <1>0, <1>1, <1>4 DEF CallbackReturn, CallbackReturnParked, ScanFinishOrNext,
                              GapBeforeNext, CtxType
    <2>2. port'.us = 0 BY <1>0, <2>1, PinEffects
    <2> QED BY <1>1, <1>2, <2>1, <2>2 DEF SupplyInv, NobodyConverts
  <1> QED BY <1>3, <1>4

\* A conversion starts with the write of WAIT only, the one with Convert T in the
\* pulse table, and is over when the wait of CONTINUE is.
LEMMA SupplyHardware ==
    ASSUME Resolutions = {DefaultRes}, TypeOK, TimerInv, PulsesServeOwner, SupplyInv, Hardware
    PROVE  SupplyInv'
  <1>0. port \in PortType(Waits) /\ dev \in [Devices -> DeviceType] /\ txn \in TxnType
    BY DEF TypeOK, Waits
  <1>1. PICK operation \in Ops : HwEnds(operation)
    BY DEF Ops, Hardware, HwReset, HwWrite, HwRead, HwWait, HwSearchSlots
  <1>2. port'.op = "idle" /\ port'.pin = port.pin
    BY <1>0, <1>1, PortEffects, PinEffects DEF HwEnds
  <1>3. UNCHANGED ctx /\ port.op = WaitsFor
    BY <1>1 DEF HwEnds, Ops, TimerInv, TimerServesOwner
  <1>4. ASSUME \A d \in Devices : dev'[d].conv => ctx.state = "WAIT" PROVE SupplyInv'
    BY <1>2, <1>3, <1>4 DEF SupplyInv
  <1>5. CASE HwReset \/ HwRead \/ HwSearchSlots
    <2>1. port.op # "wait" /\ UNCHANGED dev
      BY <1>5 DEF HwReset, HwRead, HwSearchSlots, HwEnds
    <2> QED BY <1>4, <2>1 DEF SupplyInv
  <1>6. CASE HwWrite
    <2>1. port.op = "write" BY <1>6 DEF HwWrite, HwEnds
    <2>2. \A d \in Devices : dev'[d].conv => dev[d].conv \/ pulses.cmd = "convert_t"
      BY <1>0, <1>6 DEF HwWrite, DeviceType
    <2>3. ctx.state \in {"WAIT", "READ"} \/ (~res.finished /\ res.phase = "WRITE")
              \/ (~txn.finished /\ txn.phase = "WRITE")
      BY <1>3, <2>1 DEF WaitsFor, MeasureWaitsFor, SearchWaitsFor, ResWaitsFor, TxnWaitsFor
    <2>4. txn.cmd # "convert_t" BY <1>0 DEF TxnType, TxnCmds, ReadCmds, WaitCmds
    <2>5. pulses.cmd = "convert_t" => ctx.state = "WAIT" BY <2>3, <2>4 DEF PulsesServeOwner
    <2>6. \A d \in Devices : dev[d].conv => ctx.state = "WAIT" BY <2>1 DEF SupplyInv
    <2> QED BY <1>4, <2>2, <2>5, <2>6
  <1>7. CASE HwWait
    <2>1. port.op = "wait" /\ dev' = [d \in Devices |-> AfterWait(d)]
      BY <1>7 DEF HwWait, HwEnds
    <2>2. ctx.state # "WAIT" BY <1>3, <2>1 DEF WaitsFor, MeasureWaitsFor
    <2>3. ASSUME NEW d \in Devices PROVE ~AfterWait(d).conv
      <3>1. dev[d] \in DeviceType /\ dev[d].res = DefaultRes BY <1>0 DEF DeviceType
      <3>2. dev[d].conv => port.us = DefaultRes BY <2>2 DEF SupplyInv
      <3>3. DefaultRes \in Nat BY ResolutionAssumption
      <3> DEFINE n == IF dev[d].conv /\ ~Powered(d) THEN [dev[d] EXCEPT !.conv = FALSE]
                      ELSE IF dev[d].conv /\ port.us >= dev[d].res
                           THEN [dev[d] EXCEPT !.conv = FALSE, !.temp = "new"]
                      ELSE dev[d]
      <3>4. dev[d].conv => port.us >= dev[d].res BY <3>1, <3>2, <3>3
      <3>5. n \in DeviceType /\ ~n.conv
        <4>1. CASE ~dev[d].conv BY <3>1, <4>1
        <4>2. CASE dev[d].conv BY <3>1, <3>4, <4>2 DEF DeviceType, Temps
        <4> QED BY <4>1, <4>2
      <3>6. AfterWait(d) = n \/ (\E e : AfterWait(d) = [n EXCEPT !.ee = e])
                \/ (\E r : AfterWait(d) = [n EXCEPT !.res = r])
        BY DEF AfterWait
      <3> HIDE DEF n
      <3> QED BY <3>5, <3>6 DEF DeviceType
    <2> QED BY <1>4, <2>1, <2>3
  <1> QED BY <1>5, <1>6, <1>7 DEF Hardware

LEMMA SupplyNext ==
    ASSUME Resolutions = {DefaultRes},
           TypeInv, TimerInv, PulsesServeOwner, LineInv, SupplyInv, [Next]_vars
    PROVE  SupplyInv'
  <1>0. TypeOK BY DEF TypeInv
  <1>1. ASSUME NEW d \in Devices, Plug(d) PROVE SupplyInv'
    <2>1. \A e \in Devices : dev'[e].conv => dev[e].conv
      BY <1>0, <1>1 DEF Plug, TypeOK, DeviceType
    <2> QED BY <1>1, <2>1, SupplyKept DEF Plug
  <1>2. CASE UNCHANGED vars BY <1>2, SupplyKept DEF vars
  <1> QED
    BY <1>0, <1>1, <1>2, SupplyOthers, SupplyMeasure, SupplyCallback, SupplyHardware DEF Next

LEMMA SuppliedWhileConverting == SupplyInv => ConvertingIsSupplied
  <1>1. DefaultRes # 0 /\ Parasitic \subseteq Devices
    BY ResolutionAssumption, ParasiticAssumption
  <1> QED BY <1>1 DEF SupplyInv, ConvertingIsSupplied

(***************************************************************************)
(* In a measurement or a command no reset and no read is driven against    *)
(* the engaged pull-up: the devices could not pull the line LOW to answer. *)
(***************************************************************************)
THEOREM AnswersCorrect ==
    ASSUME CallbackCalls \subseteq {"select", "set_parasite", "start_measure"},
           ParasiteArgs \subseteq {TRUE}, "detect_parasite" \notin Calls
    PROVE  Spec => []AnswersOnFreeLine
  <1>1. TypeInv /\ TimerInv /\ LineInv /\ [Next]_vars => LineInv'
    <2>1. "detect_parasite" \notin Calls \cup CallbackCalls OBVIOUS
    <2> QED BY <2>1, LineNext
  <1>2. LineInv => AnswersOnFreeLine BY DEF LineInv
  <1> QED BY <1>1, <1>2, LineInit, CycleInvariant, PTL DEF Spec

(***************************************************************************)
(* And on a bus of one resolution, a converting parasitic device is        *)
(* supplied from the Convert T command to the end of the wait, the poll    *)
(* between the two included.                                               *)
(***************************************************************************)
THEOREM PullupAsNeededCorrect ==
    ASSUME CallbackCalls \subseteq {"select", "set_parasite", "start_measure"},
           ParasiteArgs \subseteq {TRUE}, "detect_parasite" \notin Calls,
           Resolutions = {DefaultRes}
    PROVE  Spec => []PullupAsNeeded
  <1>1. "detect_parasite" \notin Calls \cup CallbackCalls OBVIOUS
  <1>2. TypeInv /\ TimerInv /\ LineInv /\ [Next]_vars => LineInv' BY <1>1, LineNext
  <1>3. TypeInv /\ TimerInv /\ PulsesServeOwner /\ LineInv /\ SupplyInv /\ [Next]_vars =>
            SupplyInv'
    BY SupplyNext
  <1>4. LineInv /\ SupplyInv => PullupAsNeeded
    BY SuppliedWhileConverting DEF LineInv, PullupAsNeeded
  <1>5. Spec => []PulsesServeOwner
    <2>1. "scan_start" \notin CallbackCalls OBVIOUS
    <2> QED BY <2>1, PulsesCorrect
  <1> QED
    BY <1>2, <1>3, <1>4, <1>5, LineInit, SupplyInit, CycleInvariant, PTL DEF Spec

-----------------------------------------------------------------------------
(***************************************************************************)
(* Fresh readings.  The age of a reading is decided by the order of four   *)
(* hardware operations - the write of Convert T, the wait, the write of    *)
(* the read command and the read - and in a scan round by a conversion     *)
(* that may be many reports ago.                                           *)
(***************************************************************************)
\* Whom the cycle measures: everybody in a scan round, whoever it addresses now.
Measured == IF ctx.scan THEN Devices ELSE Reach(Asked)

AllPresent == \A d \in Devices : dev[d].present

FreshInv ==
    /\ AllPresent
    /\ ctx.state = "WAIT" => pulses.rom = Asked /\ (ctx.scan => ~ctx.addr)
    /\ ctx.state = "WAIT" /\ port.op = "idle" => \A d \in Measured : dev[d].conv
    /\ ctx.state = "CONTINUE" /\ port.op = "wait" =>
           \A d \in Measured : dev[d].temp = "new" \/ (dev[d].conv /\ dev[d].res <= port.us)
    /\ ctx.state \in {"REQUEST", "READ", "DECODE"} \/ (ctx.state = "CONTINUE" /\ port.op = "idle")
           => \A d \in Measured : dev[d].temp = "new"
    /\ ctx.state = "DECODE" /\ port.op = "idle" /\ ValidScratchpad(line.frame) =>
           line.frame.temp = "new"
    /\ FreshReadings

\* What the wait after Convert T needs: no measured device takes longer than the driver thinks.
MeasuredCovered == \A d \in Measured : dev[d].res <= ctx.res

Covered == \A d \in Devices : dev[d].res <= ctx.res

LEMMA MeasuredAreDevices ==
    ASSUME ctx \in CtxType
    PROVE  Measured \subseteq Devices /\ (Covered => MeasuredCovered)
  <1>1. Measured \subseteq Devices BY DEF Measured, Asked, Reach, CtxType, Roms
  <1> QED BY <1>1 DEF Covered, MeasuredCovered

LEMMA ResolutionsAreNumbers ==
    ASSUME TypeOK
    PROVE  ctx.res \in Nat /\ port.us \in Nat /\ \A d \in Devices : dev[d].res \in Nat
  <1>1. \A w : w \in Resolutions \cup {0} => w \in Nat BY ResolutionAssumption
  <1>2. port.us \in Resolutions \cup {0} BY DEF TypeOK, PortType
  <1>3. ctx.res \in Resolutions BY DEF TypeOK, CtxType
  <1>4. \A d \in Devices : dev[d].res \in Resolutions BY DEF TypeOK, DeviceType
  <1> QED BY <1>1, <1>2, <1>3, <1>4

LEMMA FreshInit == Init => FreshInv
  BY DEF Init, FreshInv, AllPresent, FreshReadings

LEMMA FreshFrame ==
    ASSUME FreshInv, UNCHANGED <<dev, round>>,
           ctx'.state = ctx.state, ctx'.scan = ctx.scan, ctx'.addr = ctx.addr,
           ctx'.rom = ctx.rom, UNCHANGED <<pulses, line, port>>
    PROVE  FreshInv'
  <1>1. Measured' = Measured /\ Asked' = Asked BY DEF Measured, Asked, Reach
  <1> QED BY <1>1 DEF FreshInv, AllPresent, FreshReadings, ValidScratchpad

LEMMA FreshParked ==
    ASSUME AllPresent', FreshReadings', ctx'.state \in {"IDLE", "START", "CONVERT"}
    PROVE  FreshInv'
  BY DEF FreshInv

LEMMA FreshAppend ==
    ASSUME FreshInv, round \in Seq(Reports), NEW report \in Reports,
           round' = Append(round, report), report.kind = "temp" => report.temp = "new"
    PROVE  FreshReadings'
  <1>1. Len(round') = Len(round) + 1 /\ round'[Len(round) + 1] = report /\ Len(round) \in Nat
    BY AppendProperties, LenProperties
  <1>2. \A i \in 1..Len(round) : round'[i] = round[i] BY AppendProperties
  <1> SUFFICES ASSUME NEW i \in 1..Len(round'), round'[i].kind = "temp"
               PROVE  round'[i].temp = "new"
    BY DEF FreshReadings
  <1>3. CASE i = Len(round) + 1 BY <1>1, <1>3
  <1>4. CASE i \in 1..Len(round) BY <1>2, <1>4 DEF FreshInv, FreshReadings
  <1> QED BY <1>1, <1>3, <1>4

LEMMA FreshOthers ==
    ASSUME TypeOK, TimerInv, FreshInv,
           Application \/ SearchPoll \/ ResPoll \/ TxnPoll \/ TxnPollAgain
    PROVE  FreshInv'
  <1>0. ctx \in CtxType /\ txn \in TxnType BY DEF TypeOK
  <1>1. UNCHANGED <<dev, round>>
    BY DEF Application, StartMeasure, ScanStart, Select, SetParasite, SearchBegin,
       SetResolution, TxnCall, SearchPoll, SearchFinish, SearchReset, SearchCommand, SearchPair,
       SearchRomBad, SearchRom, ResPoll, ResFinish, ResReset, ResWrite, TxnPoll, TxnReset,
       TxnWrite, TxnRead, TxnWait, TxnFinish, TxnPollAgain
  <1>2. ASSUME ctx'.state \in {"IDLE", "START"} PROVE FreshInv'
    BY <1>1, <1>2, FreshParked DEF FreshInv, AllPresent, FreshReadings
  <1>3. CASE Application
    <2>1. CASE UNCHANGED <<ctx, port, pulses>>
      <3>1. UNCHANGED line
        BY <1>3 DEF Application, StartMeasure, ScanStart, Select, SetParasite, SearchBegin,
           SetResolution, TxnCall
      <3> QED BY <1>1, <2>1, <3>1, FreshFrame
    <2>2. CASE ~UNCHANGED <<ctx, port, pulses>>
      <3>1. ctx.state = "IDLE"
        BY <1>3, <2>2 DEF Application, StartMeasure, ScanStart, Select, SetParasite,
           SearchBegin, SetResolution, TxnCall, TxnStart, TxnCanStart, TimerFree
      <3>2. ctx'.state \in {ctx.state, "START"}
        BY <1>0, <1>3 DEF Application, StartMeasure, ScanStart, Select, SetParasite,
           SearchBegin, SetResolution, TxnCall, CtxType
      <3> QED BY <1>2, <3>1, <3>2
    <2> QED BY <2>1, <2>2
  <1>4. CASE SearchPoll \/ ResPoll \/ TxnPoll
    <2>1. ~search.finished \/ ~res.finished \/ ~txn.finished
      BY <1>4 DEF SearchPoll, SearchFinish, SearchReset, SearchCommand, SearchPair,
         SearchRomBad, SearchRom, SearchDone, SearchActive, ResPoll, ResFinish, ResReset,
         ResWrite, ResDone, TxnPoll, TxnReset, TxnWrite, TxnRead, TxnWait, TxnFinish, TxnDone
    <2>2. ctx.state = "IDLE"
      BY <2>1 DEF TimerInv, OwnerInv, OwnersApart, OthersBusy, SearchActive
    <2>3. CASE TxnFinish
      <3>1. ctx'.state = ctx.state BY <1>0, <2>3, AppliedType DEF TxnFinish
      <3> QED BY <1>2, <2>2, <3>1
    <2>4. CASE ~TxnFinish
      <3>1. ctx'.state = ctx.state
        BY <1>0, <1>4, <2>4 DEF SearchPoll, SearchFinish, SearchReset, SearchCommand,
           SearchPair, SearchRomBad, SearchRom, ResPoll, ResFinish, ResReset, ResWrite, TxnPoll,
           TxnReset, TxnWrite, TxnRead, TxnWait, CtxType
      <3> QED BY <1>2, <2>2, <3>1
    <2> QED BY <2>3, <2>4
  <1>5. CASE TxnPollAgain
    <2>1. /\ ctx'.state = ctx.state /\ ctx'.scan = ctx.scan /\ ctx'.addr = ctx.addr
          /\ ctx'.rom = ctx.rom
      BY <1>0, <1>5, AppliedType DEF TxnPollAgain
    <2> QED BY <1>1, <1>5, <2>1, FreshFrame DEF TxnPollAgain
  <1> QED BY <1>3, <1>4, <1>5


\* issue_command() without presence reports no temperature.
LEMMA FreshGivenUp ==
    ASSUME TypeOK, FreshInv, NEW c \in CtxType, NEW p, NEW cmd, NEW next,
           ~line.seen, IssueCommand(c, p, cmd, next), UNCHANGED dev
    PROVE  FreshInv'
  <1> DEFINE report == [index |-> c.index, kind |-> "no_sensor", rom |-> NoRom, temp |-> "old",
                        asked |-> IF c.addr THEN c.rom ELSE NoRom]
  <1>1. round' = Append(round, report) /\ ctx'.state = "IDLE"
    BY DEF IssueCommand, Complete, CtxType
  <1>2. report \in Reports BY ReportType DEF Roms, Temps
  <1>3. report.kind # "temp" OBVIOUS
  <1> HIDE DEF report
  <1>4. FreshReadings' BY <1>1, <1>2, <1>3, FreshAppend DEF TypeOK
  <1>5. AllPresent' BY DEF FreshInv, AllPresent
  <1> QED BY <1>1, <1>4, <1>5, FreshParked

\* The report of a decoded frame is as old as the frame.
LEMMA FreshDecode ==
    ASSUME TypeOK, TimerInv, FreshInv, PollDecode
    PROVE  FreshInv'
  <1> DEFINE f    == line.frame
             kind == IF ValidScratchpad(f) THEN "temp"
                     ELSE IF ctx.addr /\ f.kind = "ones" THEN "no_sensor"
                     ELSE "crc_fail"
             report == [index |-> ctx.index, kind |-> kind, rom |-> f.rom, temp |-> f.temp,
                        asked |-> IF ctx.addr THEN ctx.rom ELSE NoRom]
  <1>0. /\ ctx \in CtxType /\ line \in LineType /\ round \in Seq(Reports)
        /\ port \in PortType(Waits) /\ TimerServesOwner
    BY DEF TypeOK, Waits, TimerInv
  <1>1. ctx.state = "DECODE" /\ port.uif BY DEF PollDecode, MeasureDone
  <1>2. port.op = "idle" BY <1>0, <1>1, FlagMeansStopped
  <1>3. port' = Consumed /\ port'.op = "idle"
    BY <1>0, <1>2, PortEffects DEF PollDecode, Consumed
  <1>4. /\ round' = Append(round, report)
        /\ ctx' = [ctx EXCEPT !.state = IF ctx.scan THEN "DECODE" ELSE "IDLE",
                              !.res = TrackedRes(f)]
        /\ UNCHANGED <<dev, line, pulses>>
    BY DEF PollDecode, Complete
  <1>5. kind \in {"temp", "no_sensor", "crc_fail"} /\ f.rom \in Roms /\ f.temp \in Temps
    BY <1>0 DEF LineType, Frames
  <1>6. report \in Reports BY <1>0, <1>5, ReportType
  <1>7. report.kind = "temp" => report.temp = "new"
    BY <1>1, <1>2 DEF FreshInv
  <1>8. /\ ctx'.state = IF ctx.scan THEN "DECODE" ELSE "IDLE"
        /\ ctx'.scan = ctx.scan /\ ctx'.addr = ctx.addr /\ ctx'.rom = ctx.rom
    BY <1>0, <1>4 DEF CtxType
  <1> HIDE DEF f, kind, report
  <1>9. FreshReadings' BY <1>0, <1>4, <1>6, <1>7, FreshAppend
  <1>10. AllPresent' BY <1>4 DEF FreshInv, AllPresent
  <1>11. CASE ~ctx.scan BY <1>8, <1>9, <1>10, <1>11, FreshParked
  <1>12. CASE ctx.scan
    <2>1. ctx'.state = "DECODE" /\ Measured' = Measured
      BY <1>8, <1>12 DEF Measured
    <2> QED
      BY <1>1, <1>2, <1>3, <1>4, <1>9, <1>10, <2>1 DEF FreshInv, ValidScratchpad
  <1> QED BY <1>11, <1>12

LEMMA FreshMeasure ==
    ASSUME TypeInv, TimerInv, FreshInv, ctx.state = "WAIT" => MeasuredCovered, MeasurePoll
    PROVE  FreshInv'
  <1> DEFINE engaged  == PullupIf(Consumed, TRUE)
             released == PullupIf(Consumed, FALSE)
  <1>0. /\ ctx \in CtxType /\ TypeOK /\ port \in PortType(Waits)
        /\ dev \in [Devices -> DeviceType]
        /\ engaged \in PortType(Waits) /\ released \in PortType(Waits)
    BY ConsumedPin DEF TypeInv, TypeOK, Waits
  <1>1. port.uif
    BY DEF MeasurePoll, MeasureDone, PollIdle, PollStart, PollConvert, PollWait,
           PollContinue, PollRequest, PollRead, PollDecode
  <1>2. port.op = "idle" BY <1>1, FlagMeansStopped DEF TimerInv
  <1>3. AllPresent /\ FreshReadings BY DEF FreshInv
  <1> HIDE DEF engaged, released
  <1>4. CASE PollIdle
    <2>1. ctx'.state = "IDLE" /\ UNCHANGED <<dev, round>> BY <1>4 DEF PollIdle, MeasureDone
    <2> QED BY <1>3, <2>1, FreshParked DEF AllPresent, FreshReadings
  <1>5. CASE PollStart
    <2>1. ctx'.state = "CONVERT" /\ round' = <<>>
          /\ dev' = [d \in Devices |-> [dev[d] EXCEPT !.temp = "old"]]
      BY <1>0, <1>5 DEF PollStart, CtxType
    <2>2. AllPresent' BY <1>0, <1>3, <2>1 DEF AllPresent, DeviceType
    <2>3. FreshReadings'
      <3>1. Len(round') = 0 BY <2>1
      <3> QED BY <3>1 DEF FreshReadings
    <2> QED BY <2>1, <2>2, <2>3, FreshParked
  <1>6. CASE PollConvert
    <2>1. RoundContext \in CtxType /\ UNCHANGED <<dev, line>>
      BY <1>0, <1>6, RoundContextType DEF PollConvert
    <2>2. IssueCommand(RoundContext, engaged, "convert_t", "WAIT")
      BY <1>6 DEF PollConvert, engaged
    <2>3. CASE ~line.seen BY <1>0, <2>1, <2>2, <2>3, FreshGivenUp
    <2>4. CASE line.seen
      <3>1. /\ ctx' = [RoundContext EXCEPT !.state = "WAIT"] /\ UNCHANGED round
            /\ pulses' = [pulses EXCEPT !.cmd = "convert_t",
                          !.rom = IF RoundContext.addr THEN RoundContext.rom ELSE NoRom]
            /\ port' = Arm(engaged, "write")
        BY <2>2, <2>4 DEF IssueCommand
      <3>2. /\ ctx'.state = "WAIT" /\ ctx'.scan = RoundContext.scan
            /\ ctx'.addr = RoundContext.addr /\ ctx'.rom = RoundContext.rom
        BY <2>1, <3>1 DEF CtxType
      <3>3. RoundContext.scan => ~RoundContext.addr BY <1>0 DEF RoundContext, CtxType
      <3>4. pulses'.rom = Asked' BY <1>0, <3>1, <3>2 DEF TypeOK, PulsesType, Asked
      <3>5. port'.op = "write" BY <1>0, <3>1, PortEffects
      <3> QED
        BY <1>3, <2>1, <3>1, <3>2, <3>3, <3>4, <3>5 DEF FreshInv, AllPresent, FreshReadings
    <2> QED BY <2>3, <2>4
  <1>7. CASE PollWait
    <2>1. /\ ctx.state = "WAIT" /\ ctx'.state = "CONTINUE" /\ ctx'.scan = ctx.scan
          /\ ctx'.addr = ctx.addr /\ ctx'.rom = ctx.rom /\ UNCHANGED <<dev, round>>
          /\ port' = ArmWait(engaged, ctx.res)
      BY <1>0, <1>7 DEF PollWait, MeasureDone, CtxType, ConversionWait, engaged
    <2>2. port'.us = ctx.res BY <1>0, <2>1, PinEffects
    <2>3. port'.op = "wait" BY <1>0, <2>1, PortEffects
    <2>4. Measured' = Measured BY <2>1 DEF Measured, Asked, Reach
    <2>5. \A d \in Measured : dev[d].conv BY <1>2, <2>1 DEF FreshInv
    <2>6. \A d \in Measured : dev'[d].conv /\ dev'[d].res <= port'.us
      BY <2>1, <2>2, <2>5 DEF MeasuredCovered
    <2> QED
      BY <1>3, <2>1, <2>3, <2>4, <2>6 DEF FreshInv, AllPresent, FreshReadings
  <1>8. ASSUME \A d \in Measured : dev[d].temp = "new", UNCHANGED <<dev, round>>,
               Measured' = Measured, ctx'.state \in {"REQUEST", "READ", "DECODE"},
               port'.op # "idle"
        PROVE  FreshInv'
    BY <1>3, <1>8 DEF FreshInv, AllPresent, FreshReadings
  <1>9. CASE PollContinue
    <2>1. /\ ctx.state = "CONTINUE" /\ ctx'.state = "REQUEST" /\ ctx'.scan = ctx.scan
          /\ ctx'.addr = ctx.addr /\ ctx'.rom = ctx.rom /\ UNCHANGED <<dev, round>>
          /\ port' = Arm(StrongPullup(Consumed, FALSE), "reset")
      BY <1>0, <1>9 DEF PollContinue, MeasureDone, CtxType
    <2>2. StrongPullup(Consumed, FALSE) \in PortType(Waits) BY <1>0, ConsumedPin, PortCalls
    <2>3. port'.op # "idle" BY <2>1, <2>2, PortEffects
    <2>4. Measured' = Measured BY <2>1 DEF Measured, Asked, Reach
    <2>5. \A d \in Measured : dev[d].temp = "new" BY <1>2, <2>1 DEF FreshInv
    <2> QED BY <1>8, <2>1, <2>3, <2>4, <2>5
  <1>10. CASE PollRequest
    <2>1. ctx.state = "REQUEST" /\ UNCHANGED dev BY <1>10 DEF PollRequest, MeasureDone
    <2>2. /\ ReadContext \in CtxType /\ ReadContext.scan = ctx.scan
      BY <2>1, ReadContextType
    <2>3. IssueCommand(ReadContext, engaged, "read_scratchpad", "READ")
      BY <1>10 DEF PollRequest, engaged
    <2>4. CASE ~line.seen BY <1>0, <2>1, <2>2, <2>3, <2>4, FreshGivenUp
    <2>5. CASE line.seen
      <3>1. /\ ctx' = [ReadContext EXCEPT !.state = "READ"] /\ UNCHANGED round
            /\ port' = Arm(engaged, "write")
        BY <2>3, <2>5 DEF IssueCommand
      <3>2. /\ ctx'.state = "READ" /\ ctx'.scan = ctx.scan
            /\ ctx'.addr = ReadContext.addr /\ ctx'.rom = ReadContext.rom
        BY <2>2, <3>1 DEF CtxType
      <3>3. Measured' = Measured BY <1>0, <3>2 DEF Measured, Asked, Reach, ReadContext
      <3>4. port'.op # "idle" BY <1>0, <3>1, PortEffects
      <3>5. \A d \in Measured : dev[d].temp = "new" BY <2>1 DEF FreshInv
      <3> QED BY <1>8, <2>1, <3>1, <3>2, <3>3, <3>4, <3>5
    <2> QED BY <2>4, <2>5
  <1>11. CASE PollRead
    <2>1. /\ ctx.state = "READ" /\ ctx'.state = "DECODE" /\ ctx'.scan = ctx.scan
          /\ ctx'.addr = ctx.addr /\ ctx'.rom = ctx.rom /\ UNCHANGED <<dev, round>>
          /\ port' = Arm(released, "read")
      BY <1>0, <1>11 DEF PollRead, MeasureDone, CtxType, released
    <2>2. port'.op # "idle" BY <1>0, <2>1, PortEffects
    <2>3. Measured' = Measured BY <2>1 DEF Measured, Asked, Reach
    <2>4. \A d \in Measured : dev[d].temp = "new" BY <2>1 DEF FreshInv
    <2> QED BY <1>8, <2>1, <2>2, <2>3, <2>4
  <1>12. CASE PollDecode BY <1>0, <1>12, FreshDecode
  <1> QED
    BY <1>4, <1>5, <1>6, <1>7, <1>9, <1>10, <1>11, <1>12 DEF MeasurePoll

\* The next device of a round is measured already: the reset alone is waited for.
LEMMA FreshCallback ==
    ASSUME TypeOK, TimerInv, FreshInv, CallbackReturn
    PROVE  FreshInv'
  <1>0. ctx \in CtxType /\ port \in PortType(Waits) BY DEF TypeOK, Waits
  <1>1. UNCHANGED <<dev, round>> /\ AllPresent' /\ FreshReadings'
    <2>1. UNCHANGED <<dev, round>>
      BY DEF CallbackReturn, CallbackReturnParked, ScanFinishOrNext
    <2> QED BY <2>1 DEF FreshInv, AllPresent, FreshReadings
  <1>2. ctx'.state \in {"IDLE", "START", "CONTINUE"}
    BY <1>0 DEF CallbackReturn, CallbackReturnParked, ScanFinishOrNext, TimerInv,
                CallbackQuiet, CtxType
  <1>3. CASE ctx'.state # "CONTINUE" BY <1>1, <1>2, <1>3, FreshParked
  <1>4. CASE ctx'.state = "CONTINUE"
    <2>1. /\ cb = "finish" /\ ctx.scan /\ ctx'.scan = ctx.scan /\ port' = ArmWait(port, 0)
      BY <1>0, <1>4 DEF CallbackReturn, CallbackReturnParked, ScanFinishOrNext, TimerInv,
                        CallbackQuiet, GapBeforeNext, CtxType
    <2>2. ctx.state = "DECODE" BY <2>1 DEF TimerInv, OwnerInv, ScanCallbackInDecode
    <2>3. Measured' = Measured BY <2>1 DEF Measured
    <2>4. \A d \in Measured : dev[d].temp = "new" BY <2>2 DEF FreshInv
    <2>5. port'.op = "wait" BY <1>0, <2>1, PortEffects
    <2> QED BY <1>1, <1>4, <2>3, <2>4, <2>5 DEF FreshInv
  <1> QED BY <1>3, <1>4

\* No wait takes a device off the bus.
LEMMA PresentAfterWait ==
    ASSUME NEW d \in Devices, dev[d] \in DeviceType
    PROVE  AfterWait(d).present = dev[d].present
  <1> DEFINE n == IF dev[d].conv /\ ~Powered(d) THEN [dev[d] EXCEPT !.conv = FALSE]
                  ELSE IF dev[d].conv /\ port.us >= dev[d].res
                       THEN [dev[d] EXCEPT !.conv = FALSE, !.temp = "new"]
                  ELSE dev[d]
  <1>1. n \in DeviceType /\ n.present = dev[d].present BY DEF DeviceType, Temps
  <1>2. AfterWait(d) = n \/ (\E e : AfterWait(d) = [n EXCEPT !.ee = e])
            \/ (\E r : AfterWait(d) = [n EXCEPT !.res = r])
    BY DEF AfterWait
  <1> HIDE DEF n
  <1> QED BY <1>1, <1>2 DEF DeviceType

\* A wait ends: on an external supply a conversion no longer than it is ready.
LEMMA ConvertedAfterWait ==
    ASSUME TypeOK, NEW d \in Devices, d \notin Parasitic,
           dev[d].temp = "new" \/ (dev[d].conv /\ dev[d].res <= port.us)
    PROVE  AfterWait(d).temp = "new"
  <1>0. dev[d] \in DeviceType /\ port.us \in Nat /\ dev[d].res \in Nat
    BY ResolutionsAreNumbers DEF TypeOK
  <1>1. Powered(d) BY DEF Powered
  <1> DEFINE n == IF dev[d].conv /\ ~Powered(d) THEN [dev[d] EXCEPT !.conv = FALSE]
                  ELSE IF dev[d].conv /\ port.us >= dev[d].res
                       THEN [dev[d] EXCEPT !.conv = FALSE, !.temp = "new"]
                  ELSE dev[d]
  <1>2. n \in DeviceType /\ n.temp = "new"
    <2>1. CASE dev[d].conv /\ port.us >= dev[d].res
      BY <1>0, <1>1, <2>1 DEF DeviceType, Temps
    <2>2. CASE ~(dev[d].conv /\ port.us >= dev[d].res)
      <3>1. dev[d].temp = "new" BY <1>0, <2>2
      <3> QED BY <1>0, <1>1, <2>2, <3>1
    <2> QED BY <2>1, <2>2
  <1>3. AfterWait(d) = n \/ (\E e : AfterWait(d) = [n EXCEPT !.ee = e])
            \/ (\E r : AfterWait(d) = [n EXCEPT !.res = r])
    BY DEF AfterWait
  <1> HIDE DEF n
  <1> QED BY <1>2, <1>3 DEF DeviceType

LEMMA FreshHardware ==
    ASSUME Parasitic = {}, TypeOK, TimerInv, PulsesServeOwner, CycleInv, FreshInv, Hardware
    PROVE  FreshInv'
  <1>0. /\ port \in PortType(Waits) /\ dev \in [Devices -> DeviceType] /\ ctx \in CtxType
        /\ line \in LineType
    BY DEF TypeOK, Waits
  <1>1. PICK operation \in Ops : HwEnds(operation)
    BY DEF Ops, Hardware, HwReset, HwWrite, HwRead, HwWait, HwSearchSlots
  <1>2. port'.op = "idle" /\ port.op # "idle" BY <1>0, <1>1, PortEffects DEF HwEnds, Ops
  <1>3. UNCHANGED <<ctx, pulses, round>> /\ port.op = WaitsFor
    BY <1>1 DEF HwEnds, Ops, TimerInv, TimerServesOwner
  <1>4. FreshReadings' BY <1>3 DEF FreshInv, FreshReadings
  <1>5. Measured' = Measured /\ Asked' = Asked /\ Measured \subseteq Devices
    BY <1>0, <1>3 DEF Measured, Asked, Reach, CtxType, Roms
  <1>6. AllPresent'
    <2>1. AllPresent BY DEF FreshInv
    <2>2. CASE UNCHANGED dev BY <2>1, <2>2 DEF AllPresent
    <2>3. CASE HwWrite
      <3>1. \A d \in Devices : dev'[d].present = dev[d].present
        BY <1>0, <2>3 DEF HwWrite, DeviceType
      <3> QED BY <2>1, <3>1 DEF AllPresent
    <2>4. CASE HwWait
      <3>1. \A d \in Devices : AfterWait(d).present = dev[d].present
        BY <1>0, PresentAfterWait
      <3> QED BY <2>1, <2>4, <3>1 DEF AllPresent, HwWait
    <2> QED BY <2>2, <2>3, <2>4 DEF Hardware, HwReset, HwRead, HwSearchSlots
  <1>7. ctx.state \in {"IDLE", "START", "CONVERT"} => FreshInv'
    BY <1>3, <1>4, <1>6, FreshParked
  <1>8. ctx.state # "IDLE" => port.op = MeasureWaitsFor BY <1>3 DEF WaitsFor
  <1>9. CASE ctx.state = "WAIT"
    <2>1. HwWrite /\ pulses.cmd = "convert_t"
      BY <1>8, <1>9 DEF MeasureWaitsFor, Hardware, HwReset, HwWrite, HwRead, HwWait,
                        HwSearchSlots, HwEnds, PulsesServeOwner
    <2>2. pulses.rom = Asked /\ (ctx.scan => ~ctx.addr) /\ AllPresent BY <1>9 DEF FreshInv
    <2>3. Measured \subseteq Hearing(pulses.rom)
      BY <1>5, <2>2 DEF Measured, Hearing, Reach, Asked, AllPresent
    <2>4. \A d \in Measured : dev'[d].conv
      BY <1>0, <1>5, <2>1, <2>3 DEF HwWrite, DeviceType
    <2> QED BY <1>3, <1>4, <1>5, <1>6, <1>9, <2>2, <2>4 DEF FreshInv
  <1>10. CASE ctx.state = "CONTINUE"
    <2>1. HwWait /\ port.op = "wait"
      BY <1>8, <1>10 DEF MeasureWaitsFor, Hardware, HwReset, HwWrite, HwRead, HwWait,
                        HwSearchSlots, HwEnds
    <2>2. \A d \in Measured : dev[d].temp = "new" \/ (dev[d].conv /\ dev[d].res <= port.us)
      BY <1>10, <2>1 DEF FreshInv
    <2>3. \A d \in Measured : dev'[d].temp = "new"
      BY <1>5, <2>1, <2>2, ConvertedAfterWait DEF HwWait
    <2> QED BY <1>2, <1>3, <1>4, <1>5, <1>6, <1>10, <2>3 DEF FreshInv
  <1>11. ASSUME ctx.state \in {"REQUEST", "READ", "DECODE"}, port.op # "wait"
         PROVE  \A d \in Measured : dev[d].temp = "new" /\ dev'[d].temp = "new"
    <2>1. \A d \in Measured : dev[d].temp = "new" BY <1>11 DEF FreshInv
    <2>2. CASE UNCHANGED dev BY <2>1, <2>2
    <2>3. CASE HwWrite
      <3>1. \A d \in Devices : dev'[d].temp = dev[d].temp
        BY <1>0, <2>3 DEF HwWrite, DeviceType
      <3> QED BY <1>5, <2>1, <3>1
    <2> QED
      BY <1>11, <2>2, <2>3 DEF Hardware, HwReset, HwRead, HwWait, HwSearchSlots, HwEnds
  <1>12. CASE ctx.state \in {"REQUEST", "READ"}
    <2>1. port.op # "wait" BY <1>8, <1>12 DEF MeasureWaitsFor
    <2> QED BY <1>3, <1>4, <1>5, <1>6, <1>11, <1>12, <2>1 DEF FreshInv
  <1>13. CASE ctx.state = "DECODE"
    <2>1. port.op = "read" BY <1>8, <1>2, <1>13 DEF MeasureWaitsFor
    <2>2. PICK f \in ReadFrames \cup NoiseFrames : line' = [line EXCEPT !.frame = f]
      BY <2>1 DEF Hardware, HwReset, HwWrite, HwRead, HwWait, HwSearchSlots, HwEnds
    <2>3. line'.frame = f BY <1>0, <2>2 DEF LineType
    <2>4. \A d \in Measured : dev[d].temp = "new" /\ dev'[d].temp = "new" BY <1>11, <1>13, <2>1
    <2>5. ASSUME ValidScratchpad(f) PROVE f.temp = "new"
      <3>1. PICK d \in line.heard : f = Scratchpad(d) BY <2>2, <2>5, FrameOfHearer
      <3>2. line.heard \subseteq Reach(Asked) BY <1>13 DEF CycleInv, ReadBack
      <3>3. Reach(Asked) \subseteq Measured
        BY <1>0 DEF Measured, Reach, Asked, CtxType, Roms
      <3> QED BY <2>4, <3>1, <3>2, <3>3 DEF Scratchpad, Frame
    <2> QED BY <1>3, <1>4, <1>5, <1>6, <1>13, <2>3, <2>4, <2>5 DEF FreshInv, ValidScratchpad
  <1> QED BY <1>0, <1>7, <1>9, <1>10, <1>12, <1>13 DEF CtxType, States

LEMMA FreshNext ==
    ASSUME Parasitic = {}, ~HotPlug, TypeInv, TimerInv, PulsesServeOwner, CycleInv, FreshInv,
           ctx.state = "WAIT" => MeasuredCovered, [Next]_vars
    PROVE  FreshInv'
  <1>0. TypeOK BY DEF TypeInv
  <1>1. CASE UNCHANGED vars BY <1>1, FreshFrame DEF vars
  <1>2. CASE \E d \in Devices : Plug(d) BY <1>2 DEF Plug
  <1> QED
    BY <1>0, <1>1, <1>2, FreshOthers, FreshMeasure, FreshCallback, FreshHardware DEF Next

(***************************************************************************)
(* With one resolution in use a reported temperature was converted in the  *)
(* cycle that reports it, however many devices a scan round reads after    *)
(* the one conversion, whichever device the callback selects and whatever  *)
(* search, command or resolution change ran before; on a bus with external *)
(* supply whose devices stay.  Where noise may corrupt reads that one      *)
(* resolution is 9 bits, ZeroRes: a scratchpad read as zeros is adopted.   *)
(***************************************************************************)
THEOREM FreshReadingsCorrect ==
    ASSUME CallbackCalls \subseteq {"select", "set_parasite", "start_measure"},
           Resolutions = {DefaultRes}, Parasitic = {}, ~HotPlug
    PROVE  Spec => []FreshReadings
  <1>1. TypeInv => MeasuredCovered
    <2> SUFFICES ASSUME TypeInv PROVE Covered
      BY MeasuredAreDevices DEF TypeInv, TypeOK
    <2>1. ctx.res = DefaultRes /\ \A d \in Devices : dev[d].res = DefaultRes
      BY DEF TypeInv, TypeOK, CtxType, DeviceType
    <2>2. DefaultRes \in Nat BY ResolutionAssumption
    <2> QED BY <2>1, <2>2 DEF Covered
  <1>2. TypeInv /\ TimerInv /\ CycleInv /\ PulsesServeOwner /\ FreshInv /\ [Next]_vars => FreshInv'
    BY <1>1, FreshNext
  <1>3. FreshInv => FreshReadings BY DEF FreshInv
  <1>4. Spec => []PulsesServeOwner
    <2>1. "scan_start" \notin CallbackCalls OBVIOUS
    <2> QED BY <2>1, PulsesCorrect
  <1> QED BY <1>2, <1>3, <1>4, FreshInit, CycleInvariant, PTL DEF Spec

-----------------------------------------------------------------------------
(***************************************************************************)
(* With several resolutions the wait is as long as the driver's idea of    *)
(* the resolution, so that idea must never fall short of a device's.  It   *)
(* holds for an application that only broadcasts: the devices and the      *)
(* tracked resolution part for the time between the write of a new one and *)
(* the poll that reports the change done, and nothing else may run then.   *)
(***************************************************************************)
\* A new resolution has been written and is not tracked yet.
Rewritten ==
    /\ ~res.finished
    /\ (res.phase = "WRITE" /\ port.op = "idle") \/ (res.phase = "DONE" /\ res.applied)

Broadcasting ==
    /\ ~ctx.addr /\ ~ctx.scan /\ pulses.rom = NoRom
    /\ want # "read_scratchpad" /\ pulses.cmd # "recall_eeprom"

ResolutionTracked ==
    /\ ~res.finished /\ res.phase # "DONE" => ~res.applied
    /\ Rewritten => \A d \in Devices : dev[d].res = res.pending
    /\ ~Rewritten => Covered
    /\ ~txn.finished /\ txn.phase \in {"RESET", "WRITE"} /\ txn.cmd = "set_alarm_thresholds" =>
           pulses.cfg = ctx.res

AnswerCovers ==
    /\ ctx.state = "DECODE" \/ (ctx.state = "READ" /\ port.op = "idle") => line.heard = Devices
    /\ ctx.state = "DECODE" /\ port.op = "idle" /\ ValidScratchpad(line.frame) =>
           \A d \in Devices : dev[d].res <= line.frame.res

CoverInv == Broadcasting /\ ResolutionTracked /\ AnswerCovers

\* Beyond the broadcast calls nothing writes a resolution or adopts one.
BroadcastCalls == Api \ {"select", "scan_start", "read_scratchpad", "recall_eeprom"}

LEMMA CoverInit == (\A r \in Resolutions : r <= DefaultRes) /\ Init => CoverInv
  <1> SUFFICES ASSUME \A r \in Resolutions : r <= DefaultRes, Init PROVE CoverInv OBVIOUS
  <1>1. Broadcasting /\ AnswerCovers BY DEF Init, Broadcasting, AnswerCovers
  <1>2. \A d \in Devices : dev[d].res <= ctx.res BY DEF Init
  <1> QED BY <1>1, <1>2 DEF Init, CoverInv, ResolutionTracked, Rewritten, Covered

\* No resolution change is under way, and none of the resolutions moves.
LEMMA CoverRests ==
    ASSUME CoverInv, Broadcasting', AnswerCovers', res.finished, res'.finished,
           dev' = dev, ctx'.res = ctx.res, txn' = txn \/ txn'.finished,
           pulses' = pulses \/ txn'.finished
    PROVE  CoverInv'
  BY DEF CoverInv, ResolutionTracked, Rewritten, Covered

LEMMA CoverApplication ==
    ASSUME Calls \cup CallbackCalls \subseteq BroadcastCalls,
           TypeOK, TimerInv, CoverInv, Application
    PROVE  CoverInv'
  <1>0. ctx \in CtxType /\ txn \in TxnType /\ UNCHANGED <<dev, line>>
    BY DEF TypeOK, Application, StartMeasure, ScanStart, Select, SetParasite, SearchBegin,
           SetResolution, TxnCall
  <1>1. \A c : May(c) => c \in BroadcastCalls BY DEF May
  <1>2. TimerFree => ctx.state = "IDLE" /\ res.finished /\ txn.finished
    BY DEF TimerFree, OthersBusy
  <1>3. CASE StartMeasure
    <2>1. /\ ctx'.state = "START" /\ ctx'.addr = ctx.addr /\ ctx'.scan = ctx.scan
          /\ ctx'.res = ctx.res
      BY <1>0, <1>3 DEF StartMeasure, CtxType
    <2>2. Broadcasting' /\ AnswerCovers'
      BY <1>3, <2>1 DEF StartMeasure, CoverInv, Broadcasting, AnswerCovers
    <2> QED BY <1>0, <1>2, <1>3, <2>1, <2>2, CoverRests DEF StartMeasure
  <1>4. ~ScanStart BY <1>1 DEF ScanStart, BroadcastCalls
  <1>5. \A rom \in Roms : ~Select(rom) BY <1>1 DEF Select, BroadcastCalls
  <1>6. ASSUME NEW on \in BOOLEAN, SetParasite(on) PROVE CoverInv'
    <2>1. /\ ctx'.state = "IDLE" /\ ctx'.addr = ctx.addr /\ ctx'.scan = ctx.scan
          /\ ctx'.res = ctx.res
      BY <1>0, <1>2, <1>6 DEF SetParasite, CtxType
    <2>2. Broadcasting' /\ AnswerCovers'
      BY <1>6, <2>1 DEF SetParasite, CoverInv, Broadcasting, AnswerCovers
    <2> QED BY <1>0, <1>2, <1>6, <2>1, <2>2, CoverRests DEF SetParasite
  <1>7. ASSUME NEW alarm \in BOOLEAN, NEW max \in 0..MaxDevices, SearchBegin(alarm, max)
        PROVE  CoverInv'
    <2>1. Broadcasting' /\ AnswerCovers'
      BY <1>2, <1>7 DEF SearchBegin, CoverInv, Broadcasting, AnswerCovers
    <2> QED BY <1>0, <1>2, <1>7, <2>1, CoverRests DEF SearchBegin
  <1>8. ASSUME NEW bits \in Resolutions, SetResolution(bits) PROVE CoverInv'
    <2>1. /\ UNCHANGED ctx /\ ctx.state = "IDLE" /\ res.finished /\ txn'.finished
          /\ pulses'.cmd = "config" /\ pulses'.rom = NoRom /\ UNCHANGED want
          /\ res'.phase = "RESET" /\ ~res'.applied
      BY <1>2, <1>8 DEF SetResolution, CoverInv, Broadcasting
    <2>2. Broadcasting' /\ AnswerCovers'
      BY <2>1 DEF CoverInv, Broadcasting, AnswerCovers
    <2>3. ~Rewritten /\ ~Rewritten' BY <2>1 DEF Rewritten
    <2> QED BY <1>0, <2>1, <2>2, <2>3 DEF CoverInv, ResolutionTracked, Covered
  <1>9. ASSUME NEW cmd \in TxnCmds, TxnCall(cmd) PROVE CoverInv'
    <2>1. cmd \notin {"read_scratchpad", "recall_eeprom"} /\ want' = cmd
      BY <1>1, <1>9 DEF TxnCall, BroadcastCalls
    <2>2. UNCHANGED <<ctx, res>> BY <1>9 DEF TxnCall
    <2>3. CASE TxnStart(cmd)
      <3>1. ctx.state = "IDLE" /\ res.finished /\ pulses' = TxnPulses(cmd)
        BY <1>2, <2>3 DEF TxnStart, TxnCanStart
      <3>2. pulses'.cmd = cmd /\ pulses'.rom = NoRom /\ pulses'.cfg = ctx.res
        BY <3>1 DEF TxnPulses, CoverInv, Broadcasting
      <3>3. Broadcasting' /\ AnswerCovers'
        BY <2>1, <2>2, <3>1, <3>2 DEF CoverInv, Broadcasting, AnswerCovers
      <3> QED
        BY <1>0, <2>2, <3>1, <3>2, <3>3 DEF CoverInv, ResolutionTracked, Rewritten, Covered
    <2>4. CASE UNCHANGED <<txn, pulses, port>>
      <3>1. Rewritten' = Rewritten BY <2>2, <2>4 DEF Rewritten
      <3> QED
        BY <1>0, <2>1, <2>2, <2>4, <3>1 DEF CoverInv, Broadcasting, ResolutionTracked,
           AnswerCovers, Covered
    <2> QED BY <1>9, <2>3, <2>4 DEF TxnCall
  <1> QED BY <1>3, <1>4, <1>5, <1>6, <1>7, <1>8, <1>9 DEF Application

LEMMA CoverMeasure ==
    ASSUME TypeInv, TimerInv, CoverInv, MeasurePoll
    PROVE  CoverInv'
  <1> DEFINE engaged  == PullupIf(Consumed, TRUE)
             released == PullupIf(Consumed, FALSE)
  <1>0. /\ ctx \in CtxType /\ TypeOK /\ pulses \in PulsesType /\ dev \in [Devices -> DeviceType]
        /\ engaged \in PortType(Waits) /\ released \in PortType(Waits)
        /\ Consumed.op = port.op
    BY ConsumedPin DEF TypeInv, TypeOK
  <1>1. port.uif /\ res.finished /\ txn.finished /\ UNCHANGED <<res, txn, line, want>>
    BY DEF MeasurePoll, MeasureDone, OthersBusy, PollIdle, PollStart, PollConvert, PollWait,
           PollContinue, PollRequest, PollRead, PollDecode
  <1>2. port.op = "idle" BY <1>1, FlagMeansStopped DEF TimerInv
  <1>3. ~Rewritten /\ ~Rewritten' /\ Covered
    BY <1>1 DEF Rewritten, CoverInv, ResolutionTracked
  <1> HIDE DEF engaged, released
  <1>4. ASSUME Broadcasting', AnswerCovers', Covered' PROVE CoverInv'
    BY <1>1, <1>3, <1>4 DEF CoverInv, ResolutionTracked
  <1>5. ASSUME UNCHANGED <<dev, pulses>>, ctx'.res = ctx.res, ctx'.addr = ctx.addr,
               ctx'.scan = ctx.scan, ctx'.state \notin {"READ", "DECODE"}
        PROVE  CoverInv'
    <2>1. Broadcasting' /\ AnswerCovers' /\ Covered'
      BY <1>1, <1>3, <1>5 DEF CoverInv, Broadcasting, AnswerCovers, Covered
    <2> QED BY <1>4, <2>1
  <1>6. CASE PollIdle BY <1>5, <1>6 DEF PollIdle, MeasureDone
  <1>7. CASE PollStart
    <2>1. /\ ctx'.state = "CONVERT" /\ ctx'.res = ctx.res /\ ctx'.addr = ctx.addr
          /\ ctx'.scan = ctx.scan /\ UNCHANGED pulses
          /\ dev' = [d \in Devices |-> [dev[d] EXCEPT !.temp = "old"]]
      BY <1>0, <1>7 DEF PollStart, CtxType
    <2>2. Covered' BY <1>0, <1>3, <2>1 DEF Covered, DeviceType
    <2>3. Broadcasting' /\ AnswerCovers'
      BY <1>1, <2>1 DEF CoverInv, Broadcasting, AnswerCovers
    <2> QED BY <1>4, <2>2, <2>3
  <1>8. CASE PollWait \/ PollContinue
    <2>1. /\ ctx'.state \in {"CONTINUE", "REQUEST"} /\ ctx'.res = ctx.res
          /\ ctx'.addr = ctx.addr /\ ctx'.scan = ctx.scan /\ UNCHANGED <<pulses, dev>>
      BY <1>0, <1>8 DEF PollWait, PollContinue, CtxType
    <2> QED BY <1>5, <2>1
  <1>9. ASSUME NEW next \in {"WAIT", "READ"}, NEW cmd \in {"convert_t", "read_scratchpad"},
               IssueCommand(ctx, engaged, cmd, next), UNCHANGED dev
        PROVE  CoverInv'
    <2>1. /\ ctx'.res = ctx.res /\ ctx'.addr = ctx.addr /\ ctx'.scan = ctx.scan
          /\ ctx'.state \in {"IDLE", next}
      BY <1>0, <1>9 DEF IssueCommand, CtxType
    <2>2. /\ pulses' = pulses \/ (pulses'.cmd = cmd /\ pulses'.rom = NoRom)
          /\ ctx'.state = "READ" => port'.op = "write"
      <3>1. ~ctx.addr BY DEF CoverInv, Broadcasting
      <3>2. CASE line.seen
        <4>1. /\ pulses' = [pulses EXCEPT !.cmd = cmd,
                                          !.rom = IF ctx.addr THEN ctx.rom ELSE NoRom]
              /\ port' = Arm(engaged, "write")
          BY <1>9, <3>2 DEF IssueCommand
        <4>2. port'.op = "write" BY <1>0, <4>1, PortEffects
        <4> QED BY <1>0, <3>1, <4>1, <4>2 DEF PulsesType
      <3>3. CASE ~line.seen BY <1>0, <1>9, <3>3 DEF IssueCommand, CtxType
      <3> QED BY <3>2, <3>3
    <2>3. Broadcasting' BY <1>1, <2>1, <2>2 DEF CoverInv, Broadcasting
    <2>4. AnswerCovers' BY <2>1, <2>2 DEF AnswerCovers
    <2>5. Covered' BY <1>3, <1>9, <2>1 DEF Covered
    <2> QED BY <1>4, <2>3, <2>4, <2>5
  <1>10. RoundContext = ctx /\ ReadContext = ctx
    BY DEF RoundContext, ReadContext, CoverInv, Broadcasting
  <1>11. CASE PollConvert \/ PollRequest
    BY <1>9, <1>10, <1>11 DEF PollConvert, PollRequest, engaged
  <1>12. CASE PollRead
    <2>1. /\ ctx.state = "READ" /\ ctx'.state = "DECODE" /\ ctx'.res = ctx.res
          /\ ctx'.addr = ctx.addr /\ ctx'.scan = ctx.scan /\ UNCHANGED <<pulses, dev>>
          /\ port' = Arm(released, "read")
      BY <1>0, <1>12 DEF PollRead, MeasureDone, CtxType, released
    <2>2. port'.op # "idle" BY <1>0, <2>1, PortEffects
    <2>3. AnswerCovers' BY <1>1, <1>2, <2>1, <2>2 DEF CoverInv, AnswerCovers
    <2>4. Broadcasting' /\ Covered'
      BY <1>1, <1>3, <2>1 DEF CoverInv, Broadcasting, Covered
    <2> QED BY <1>4, <2>3, <2>4
  <1>13. CASE PollDecode
    <2>1. /\ ctx.state = "DECODE" /\ UNCHANGED <<pulses, dev>>
          /\ ctx'.addr = ctx.addr /\ ctx'.scan = ctx.scan
          /\ ctx'.state = IF ctx.scan THEN "DECODE" ELSE "IDLE"
          /\ ctx'.res = TrackedRes(line.frame)
      BY <1>0, <1>13 DEF PollDecode, MeasureDone, CtxType
    <2>2. Covered'
      BY <1>2, <1>3, <2>1 DEF Covered, TrackedRes, CoverInv, AnswerCovers
    <2>3. Broadcasting' BY <1>1, <2>1 DEF CoverInv, Broadcasting
    <2>4. AnswerCovers' BY <2>1 DEF AnswerCovers, CoverInv, Broadcasting
    <2> QED BY <1>4, <2>2, <2>3, <2>4
  <1> QED BY <1>6, <1>7, <1>8, <1>11, <1>12, <1>13 DEF MeasurePoll

LEMMA CoverCallback ==
    ASSUME TypeOK, TimerInv, CoverInv, CallbackReturn
    PROVE  CoverInv'
  <1>1. /\ UNCHANGED <<ctx, res, txn, pulses, line, dev, want>>
        /\ ctx.state \in {"IDLE", "START"}
    BY DEF CallbackReturn, CallbackReturnParked, ScanFinishOrNext, CoverInv, Broadcasting,
           TimerInv, CallbackQuiet
  <1>2. res.finished /\ res'.finished
    BY <1>1 DEF CallbackReturn, CallbackReturnParked, ScanFinishOrNext, TimerInv, CallbackQuiet,
                OthersBusy
  <1>3. Broadcasting' /\ AnswerCovers' BY <1>1 DEF CoverInv, Broadcasting, AnswerCovers
  <1> QED BY <1>1, <1>2, <1>3, CoverRests

\* Only a polled scratchpad read adopts a resolution.
LEMMA AppliedRes ==
    ASSUME ctx \in CtxType, NEW c, c # "read_scratchpad", NEW t, NEW x \in Applied(c, t)
    PROVE  x.res = ctx.res
  <1>1. x = ctx \/ \E b : x = [ctx EXCEPT !.par = b] BY DEF Applied
  <1> QED BY <1>1 DEF CtxType

\* The other engines: the resolution change is tracked step by step, the rest keep it.
LEMMA CoverEngines ==
    ASSUME TypeOK, TimerInv, CoverInv, SearchPoll \/ ResPoll \/ TxnPoll \/ TxnPollAgain
    PROVE  CoverInv'
  <1>0. /\ ctx \in CtxType /\ txn \in TxnType /\ res \in ResType /\ port \in PortType(Waits)
        /\ Consumed.op = port.op
    BY ConsumedPin DEF TypeOK, Waits
  <1>1. UNCHANGED <<dev, line, pulses, want>>
    BY DEF SearchPoll, SearchFinish, SearchReset, SearchCommand, SearchPair, SearchRomBad,
       SearchRom, ResPoll, ResFinish, ResReset, ResWrite, TxnPoll, TxnReset, TxnWrite,
       TxnRead, TxnWait, TxnFinish, TxnPollAgain
  <1>2. ASSUME ctx'.state = "IDLE", ctx'.addr = ctx.addr, ctx'.scan = ctx.scan
        PROVE  Broadcasting' /\ AnswerCovers'
    BY <1>1, <1>2 DEF CoverInv, Broadcasting, AnswerCovers
  <1>3. CASE SearchPoll
    <2>1. ~search.finished /\ UNCHANGED <<ctx, res, txn>>
      BY <1>3 DEF SearchPoll, SearchFinish, SearchReset, SearchCommand, SearchPair,
         SearchRomBad, SearchRom, SearchDone, SearchActive
    <2>2. ctx.state = "IDLE" /\ res.finished
      BY <2>1 DEF TimerInv, OwnerInv, OwnersApart, OthersBusy, SearchActive
    <2> QED BY <1>1, <1>2, <2>1, <2>2, CoverRests
  <1>4. CASE ResPoll
    <2>1. ~res.finished /\ UNCHANGED txn
      BY <1>4 DEF ResPoll, ResFinish, ResReset, ResWrite, ResDone
    <2>2. ctx.state = "IDLE" /\ txn.finished
      BY <2>1 DEF TimerInv, OwnerInv, OwnersApart, OthersBusy, SearchActive
    <2>3. ASSUME ctx'.state = ctx.state, ctx'.addr = ctx.addr, ctx'.scan = ctx.scan,
                 ~res'.finished /\ res'.phase # "DONE" => ~res'.applied,
                 Rewritten' => \A d \in Devices : dev'[d].res = res'.pending,
                 ~Rewritten' => Covered'
          PROVE  CoverInv'
      <3>1. Broadcasting' /\ AnswerCovers' BY <1>2, <2>2, <2>3
      <3> QED BY <2>1, <2>2, <2>3, <3>1 DEF CoverInv, ResolutionTracked
    <2>4. CASE ResFinish
      <3>1. /\ res.phase = "DONE" /\ res'.finished /\ ctx'.state = ctx.state
            /\ ctx'.addr = ctx.addr /\ ctx'.scan = ctx.scan
            /\ ctx'.res = IF res.applied THEN res.pending ELSE ctx.res
        BY <1>0, <2>4 DEF ResFinish, CtxType, ResType
      <3>2. res.applied <=> Rewritten BY <2>1, <3>1 DEF Rewritten
      <3>3. \A d \in Devices : dev[d].res <= ctx'.res
        <4>1. \A d \in Devices : dev[d].res \in Nat
          BY ResolutionsAreNumbers
        <4> QED BY <3>1, <3>2, <4>1 DEF CoverInv, ResolutionTracked, Covered
      <3>4. Covered' /\ ~Rewritten' BY <1>1, <3>1, <3>3 DEF Covered, Rewritten
      <3> QED BY <2>3, <3>1, <3>4
    <2>5. CASE ResReset
      <3>1. /\ res.phase = "RESET" /\ UNCHANGED ctx
            /\ \/ res' = [res EXCEPT !.phase = "WRITE"] /\ port' = Arm(Consumed, "write")
               \/ res' = [res EXCEPT !.phase = "DONE"]
        BY <2>5 DEF ResReset, ResDone
      <3>2. ~res.applied /\ Covered /\ ~Rewritten
        BY <2>1, <3>1 DEF CoverInv, ResolutionTracked, Rewritten
      <3>3. ~res'.applied /\ ~Rewritten'
        <4>1. CASE res' = [res EXCEPT !.phase = "DONE"]
          BY <1>0, <3>2, <4>1 DEF ResType, Rewritten
        <4>2. CASE res' = [res EXCEPT !.phase = "WRITE"] /\ port' = Arm(Consumed, "write")
          <5>1. port'.op = "write" BY <1>0, <4>2, ConsumedType, PortEffects
          <5> QED BY <1>0, <3>2, <4>2, <5>1 DEF ResType, Rewritten
        <4> QED BY <3>1, <4>1, <4>2
      <3> QED BY <1>1, <2>3, <3>1, <3>2, <3>3 DEF Covered
    <2>6. CASE ResWrite
      <3>1. /\ res.phase = "WRITE" /\ port.uif /\ UNCHANGED ctx
            /\ res' = [res EXCEPT !.phase = "DONE", !.applied = TRUE]
        BY <2>6 DEF ResWrite, ResDone
      <3>2. port.op = "idle" BY <3>1, FlagMeansStopped DEF TimerInv
      <3>3. Rewritten BY <2>1, <3>1, <3>2 DEF Rewritten
      <3>4. /\ res'.phase = "DONE" /\ res'.applied /\ res'.pending = res.pending
            /\ res'.finished = res.finished
        BY <1>0, <3>1 DEF ResType
      <3>5. Rewritten' BY <2>1, <3>4 DEF Rewritten
      <3> QED BY <1>1, <2>3, <3>1, <3>3, <3>4, <3>5 DEF CoverInv, ResolutionTracked
    <2> QED BY <1>4, <2>4, <2>5, <2>6 DEF ResPoll
  <1>5. CASE TxnFinish \/ TxnPollAgain
    <2>1. ctx' \in Applied(want, txn) /\ want # "read_scratchpad" /\ UNCHANGED <<res, port>>
      BY <1>5 DEF TxnFinish, TxnPollAgain, CoverInv, Broadcasting
    <2>2. /\ ctx'.state = ctx.state /\ ctx'.addr = ctx.addr /\ ctx'.scan = ctx.scan
          /\ ctx'.res = ctx.res
      BY <1>0, <2>1, AppliedType, AppliedRes
    <2>3. Rewritten' = Rewritten /\ Covered' = Covered
      BY <1>1, <2>1, <2>2 DEF Rewritten, Covered
    <2>4. txn'.finished BY <1>0, <1>5 DEF TxnFinish, TxnPollAgain, TxnType
    <2>5. Broadcasting' /\ AnswerCovers'
      BY <1>1, <2>1, <2>2 DEF CoverInv, Broadcasting, AnswerCovers
    <2> QED BY <1>1, <2>1, <2>3, <2>4, <2>5 DEF CoverInv, ResolutionTracked
  <1>6. CASE TxnReset \/ TxnWrite \/ TxnRead \/ TxnWait
    <2>1. ~txn.finished /\ UNCHANGED <<ctx, res>>
      BY <1>6 DEF TxnReset, TxnWrite, TxnRead, TxnWait, TxnDone
    <2>2. ctx.state = "IDLE" /\ res.finished
      BY <2>1 DEF TimerInv, OwnerInv, OwnersApart, OthersBusy, SearchActive
    <2>3. /\ txn'.cmd = txn.cmd
          /\ txn'.phase \in {"RESET", "WRITE"} => txn.phase \in {"RESET", "WRITE"}
      BY <1>0, <1>6 DEF TxnReset, TxnWrite, TxnRead, TxnWait, TxnDone, TxnType
    <2>4. Broadcasting' /\ AnswerCovers' BY <1>2, <2>1, <2>2
    <2>5. ~Rewritten /\ ~Rewritten' BY <2>1, <2>2 DEF Rewritten
    <2> QED
      BY <1>1, <2>1, <2>2, <2>3, <2>4, <2>5 DEF CoverInv, ResolutionTracked, Covered
  <1> QED BY <1>3, <1>4, <1>5, <1>6 DEF TxnPoll

\* No wait changes a resolution but that of a recall.
LEMMA ResAfterWait ==
    ASSUME NEW d \in Devices, dev[d] \in DeviceType, pulses.cmd # "recall_eeprom"
    PROVE  AfterWait(d).res = dev[d].res
  <1> DEFINE n == IF dev[d].conv /\ ~Powered(d) THEN [dev[d] EXCEPT !.conv = FALSE]
                  ELSE IF dev[d].conv /\ port.us >= dev[d].res
                       THEN [dev[d] EXCEPT !.conv = FALSE, !.temp = "new"]
                  ELSE dev[d]
  <1>1. n \in DeviceType /\ n.res = dev[d].res BY DEF DeviceType, Temps
  <1>2. AfterWait(d) = n \/ (\E e : AfterWait(d) = [n EXCEPT !.ee = e])
    BY DEF AfterWait
  <1> HIDE DEF n
  <1> QED BY <1>1, <1>2 DEF DeviceType

\* Of the hardware only the writes of a new resolution touch one; the read of a
\* broadcast answers with a resolution every device has.
LEMMA CoverHardware ==
    ASSUME TypeOK, TimerInv, PulsesServeOwner, AllPresent, CoverInv, Hardware
    PROVE  CoverInv'
  <1>0. /\ port \in PortType(Waits) /\ dev \in [Devices -> DeviceType] /\ ctx \in CtxType
        /\ line \in LineType
    BY DEF TypeOK, Waits
  <1>1. PICK operation \in Ops : HwEnds(operation)
    BY DEF Ops, Hardware, HwReset, HwWrite, HwRead, HwWait, HwSearchSlots
  <1>2. port'.op = "idle" /\ port.op # "idle" BY <1>0, <1>1, PortEffects DEF HwEnds, Ops
  <1>3. /\ UNCHANGED <<ctx, pulses, round, res, txn, want>> /\ port.op = WaitsFor
    BY <1>1 DEF HwEnds, Ops, TimerInv, TimerServesOwner
  <1>4. Broadcasting' BY <1>3 DEF CoverInv, Broadcasting
  <1>5. Hearing(pulses.rom) = Devices BY DEF Hearing, AllPresent, CoverInv, Broadcasting
  <1>6. ctx.state # "IDLE" => port.op = MeasureWaitsFor BY <1>3 DEF WaitsFor
  <1>7. ASSUME \A d \in Devices : dev'[d].res = dev[d].res, Rewritten' = Rewritten
        PROVE  ResolutionTracked'
    BY <1>3, <1>7 DEF CoverInv, ResolutionTracked, Covered
  <1>8. ASSUME port.op # "write" PROVE Rewritten' = Rewritten
    <2>1. ~res.finished => ctx.state = "IDLE" /\ search.finished
      BY DEF TimerInv, OwnerInv, OwnersApart, OthersBusy, SearchActive
    <2>2. ~res.finished /\ res.phase = "WRITE" => port.op = "write"
      BY <1>3, <2>1 DEF WaitsFor, ResWaitsFor
    <2> QED BY <1>3, <1>8, <2>2 DEF Rewritten
  <1>9. CASE HwWrite
    <2>1. port.op = "write" BY <1>9 DEF HwWrite, HwEnds
    <2>2. line'.heard = Devices BY <1>0, <1>5, <1>9 DEF HwWrite, LineType
    <2>3. AnswerCovers' BY <1>3, <1>6, <2>1, <2>2 DEF AnswerCovers, MeasureWaitsFor
    <2>4. \A d \in Devices : dev'[d].res =
              IF pulses.cmd \in {"config", "set_alarm_thresholds"} THEN pulses.cfg ELSE dev[d].res
      BY <1>0, <1>5, <1>9 DEF HwWrite, DeviceType
    <2>5. CASE ~res.finished /\ res.phase = "WRITE"
      <3>1. pulses.cmd = "config" /\ pulses.cfg = res.pending
        BY <2>5 DEF PulsesServeOwner
      <3>2. Rewritten' BY <1>2, <1>3, <2>5 DEF Rewritten
      <3>3. ~res'.applied /\ txn'.finished
        BY <1>3, <2>5 DEF CoverInv, ResolutionTracked, TimerInv, OwnerInv, OwnersApart,
                          OthersBusy, SearchActive
      <3> QED
        BY <1>3, <1>4, <2>3, <2>4, <3>1, <3>2, <3>3 DEF CoverInv, ResolutionTracked
    <2>6. CASE res.finished \/ res.phase # "WRITE"
      <3>1. Rewritten' = Rewritten BY <1>3, <2>6 DEF Rewritten
      <3>2. ctx.state \in {"WAIT", "READ"} \/ (~txn.finished /\ txn.phase = "WRITE")
        BY <1>3, <2>1, <2>6 DEF WaitsFor, MeasureWaitsFor, SearchWaitsFor, ResWaitsFor,
                               TxnWaitsFor
      <3>3. CASE pulses.cmd \notin {"config", "set_alarm_thresholds"}
        <4>1. \A d \in Devices : dev'[d].res = dev[d].res BY <2>4, <3>3
        <4> QED BY <1>4, <1>7, <2>3, <3>1, <4>1 DEF CoverInv
      <3>4. CASE pulses.cmd \in {"config", "set_alarm_thresholds"}
        <4>1. ~txn.finished /\ txn.phase = "WRITE" /\ txn.cmd = pulses.cmd
          BY <3>2, <3>4 DEF PulsesServeOwner
        <4>2. txn.cmd # "config"
          BY DEF TypeOK, TxnType, TxnCmds, ReadCmds, WaitCmds
        <4>3. pulses.cfg = ctx.res
          BY <3>4, <4>1, <4>2 DEF CoverInv, ResolutionTracked
        <4>4. res.finished
          BY <4>1 DEF TimerInv, OwnerInv, OwnersApart, OthersBusy, SearchActive
        <4>5. ~Rewritten' /\ Covered'
          <5>1. \A d \in Devices : dev'[d].res = ctx.res BY <2>4, <3>4, <4>3
          <5>2. ctx.res \in Nat BY ResolutionsAreNumbers
          <5> QED BY <1>3, <4>4, <5>1, <5>2 DEF Covered, Rewritten
        <4> QED
          BY <1>3, <1>4, <2>3, <4>4, <4>5 DEF CoverInv, ResolutionTracked
      <3> QED BY <3>3, <3>4
    <2> QED BY <2>5, <2>6
  <1>10. CASE HwWait
    <2>1. port.op = "wait" /\ dev' = [d \in Devices |-> AfterWait(d)] /\ UNCHANGED line
      BY <1>10 DEF HwWait, HwEnds
    <2>2. pulses.cmd # "recall_eeprom" BY DEF CoverInv, Broadcasting
    <2>3. \A d \in Devices : AfterWait(d).res = dev[d].res
      BY <1>0, <2>2, ResAfterWait
    <2>4. AnswerCovers'
      <3>1. ctx.state \notin {"READ", "DECODE"} BY <1>6, <2>1 DEF MeasureWaitsFor
      <3> QED BY <1>3, <3>1 DEF AnswerCovers
    <2> QED BY <1>4, <1>7, <1>8, <2>1, <2>3, <2>4 DEF CoverInv
  <1>11. CASE HwReset \/ HwSearchSlots
    <2>1. port.op \in {"reset", "command", "slots"} /\ UNCHANGED dev
      BY <1>11 DEF HwReset, HwSearchSlots, HwEnds
    <2>2. ctx.state \notin {"READ", "DECODE"} BY <1>6, <2>1 DEF MeasureWaitsFor
    <2>3. AnswerCovers' BY <1>3, <2>2 DEF AnswerCovers
    <2> QED BY <1>4, <1>7, <1>8, <2>1, <2>3 DEF CoverInv
  <1>12. CASE HwRead
    <2>1. port.op = "read" /\ UNCHANGED dev BY <1>12 DEF HwRead, HwEnds
    <2>2. PICK f \in ReadFrames \cup NoiseFrames : line' = [line EXCEPT !.frame = f]
      BY <1>12 DEF HwRead
    <2>3. line'.frame = f /\ line'.heard = line.heard BY <1>0, <2>2 DEF LineType
    <2>4. AnswerCovers'
      <3>1. CASE ctx.state = "DECODE"
        <4>1. line.heard = Devices BY <3>1 DEF CoverInv, AnswerCovers
        <4>2. Answering = Devices BY <4>1 DEF Answering, AllPresent
        <4>3. ASSUME ValidScratchpad(f) PROVE \A d \in Devices : dev[d].res <= f.res
          <5>1. PICK e \in line.heard :
                    f = Scratchpad(e) /\ \A d \in Answering : dev[d].res = dev[e].res
            BY <2>2, <4>3, FrameOfHearer
          <5>2. f.res = dev[e].res BY <5>1 DEF Scratchpad, Frame
          <5>3. \A d \in Devices : dev[d].res \in Nat BY ResolutionsAreNumbers
          <5> QED BY <4>2, <5>1, <5>2, <5>3
        <4> QED BY <1>3, <2>1, <2>3, <4>1, <4>3 DEF AnswerCovers, ValidScratchpad
      <3>2. CASE ctx.state # "DECODE"
        <4>1. ctx.state # "READ" BY <1>6, <2>1 DEF MeasureWaitsFor
        <4> QED BY <1>3, <3>2, <4>1 DEF AnswerCovers
      <3> QED BY <3>1, <3>2
    <2> QED BY <1>4, <1>7, <1>8, <2>1, <2>4 DEF CoverInv
  <1> QED BY <1>9, <1>10, <1>11, <1>12 DEF Hardware

LEMMA CoverNext ==
    ASSUME Calls \cup CallbackCalls \subseteq BroadcastCalls, ~HotPlug,
           TypeInv, TimerInv, PulsesServeOwner, FreshInv, CoverInv, [Next]_vars
    PROVE  CoverInv'
  <1>0. TypeOK /\ AllPresent BY DEF TypeInv, FreshInv
  <1>1. CASE UNCHANGED vars
    <2>1. UNCHANGED <<Broadcasting, Rewritten, Covered>>
      BY <1>1 DEF vars, Broadcasting, Rewritten, Covered
    <2> QED
      BY <1>1, <2>1 DEF vars, CoverInv, ResolutionTracked, AnswerCovers, ValidScratchpad
  <1>2. CASE \E d \in Devices : Plug(d) BY <1>2 DEF Plug
  <1> QED
    BY <1>0, <1>1, <1>2, CoverApplication, CoverMeasure, CoverCallback, CoverEngines,
       CoverHardware DEF Next

(***************************************************************************)
(* With several resolutions in use the same holds of an application that   *)
(* broadcasts: the tracked resolution - set by a finished resolution       *)
(* change, refreshed from every valid scratchpad, sent back by the         *)
(* threshold write - is never below a device's, so wait_conversion() is    *)
(* long enough.                                                            *)
(***************************************************************************)
THEOREM BroadcastReadingsCorrect ==
    ASSUME CallbackCalls \subseteq {"set_parasite", "start_measure"},
           Calls \subseteq BroadcastCalls, \A r \in Resolutions : r <= DefaultRes,
           Parasitic = {}, ~HotPlug
    PROVE  Spec => []FreshReadings
  <1>1. /\ CallbackCalls \subseteq {"select", "set_parasite", "start_measure"}
        /\ "scan_start" \notin CallbackCalls
        /\ Calls \cup CallbackCalls \subseteq BroadcastCalls
    BY DEF BroadcastCalls, Api
  <1>2. TypeInv /\ TimerInv /\ CoverInv => (ctx.state = "WAIT" => MeasuredCovered)
    BY MeasuredAreDevices DEF TypeInv, TypeOK, TimerInv, OwnerInv, OwnersApart, OthersBusy,
       CoverInv, ResolutionTracked, Rewritten
  <1>3. TypeInv /\ TimerInv /\ CycleInv /\ PulsesServeOwner /\ FreshInv /\ CoverInv
            /\ [Next]_vars => FreshInv' /\ CoverInv'
    BY <1>1, <1>2, FreshNext, CoverNext
  <1>4. FreshInv => FreshReadings BY DEF FreshInv
  <1>5. Spec => []PulsesServeOwner BY <1>1, PulsesCorrect
  <1>6. Spec => [](TypeInv /\ TimerInv /\ CycleInv) BY <1>1, CycleInvariant
  <1>7. Init => FreshInv /\ CoverInv BY FreshInit, CoverInit
  <1> QED BY <1>3, <1>4, <1>5, <1>6, <1>7, PTL DEF Spec
=============================================================================
