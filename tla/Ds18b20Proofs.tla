---------------------------- MODULE Ds18b20Proofs ---------------------------
(***************************************************************************)
(* Theorems about the DS18B20 driver, for every number of devices, every   *)
(* table size and every application interface.                             *)
(***************************************************************************)
EXTENDS Ds18b20Props, SequenceTheorems, TLAPS

-----------------------------------------------------------------------------
(***************************************************************************)
(* The calls of src/ow_port.h keep the shape of the port.                  *)
(***************************************************************************)
Waits == Resolutions \cup {0}

LEMMA PortCalls ==
    ASSUME NEW p \in PortType(Waits)
    PROVE  /\ \A operation \in Ops : Arm(p, operation) \in PortType(Waits)
           /\ \A us \in Waits : ArmWait(p, us) \in PortType(Waits)
           /\ Kick(p) \in PortType(Waits)
           /\ BusDone(p) \in PortType(Waits)
           /\ \A on \in BOOLEAN : StrongPullup(p, on) \in PortType(Waits)
           /\ HwDone(p) \in PortType(Waits)
  BY DEF PortType, Ops, Pins, Arm, ArmWait, Kick, BusDone, StrongPullup, HwDone

\* The pull-up is touched on a parasite bus only; the shape is kept either way.
LEMMA PullupType ==
    ASSUME NEW p \in PortType(Waits), NEW on \in BOOLEAN
    PROVE  PullupIf(p, on) \in PortType(Waits)
  BY PortCalls DEF PullupIf

\* A poll that saw its operation done goes on with the flag consumed.
LEMMA ConsumedType ==
    ASSUME port \in PortType(Waits)
    PROVE  /\ Consumed \in PortType(Waits)
           /\ \A on \in BOOLEAN : PullupIf(Consumed, on) \in PortType(Waits)
           /\ \A on \in BOOLEAN : StrongPullup(Consumed, on) \in PortType(Waits)
  BY PortCalls, PullupType DEF Consumed

(***************************************************************************)
(* scan_index is a valid table index from the first bus command of a scan  *)
(* round on.  The type invariant alone is not inductive: it allows the     *)
(* index to stand at MaxDevices, where a finished round leaves it, and the *)
(* poll that steps it or uses it has to know that it does not.             *)
(***************************************************************************)
IndexInv ==
    ctx.scan /\ (ctx.state \in {"WAIT", "CONTINUE", "REQUEST", "READ", "DECODE"}
                 \/ cb = "finish")
        => ctx.index < MaxDevices

TypeInv == TypeOK /\ IndexInv

(***************************************************************************)
(* The values the data of Init and of the polls is built from.             *)
(***************************************************************************)
LEMMA FrameType ==
    ASSUME NEW k \in {"ok", "ones", "bad", "zeros"}, NEW f \in BusCmds, NEW d \in Roms,
           NEW t \in Temps, NEW r \in Resolutions, NEW b \in BOOLEAN
    PROVE  Frame(k, f, d, t, r, b) \in Frames
  BY DEF Frame, Frames

LEMMA ZeroFrameType == ZeroFrame \in Frames
  <1>1. DefaultRes \in Resolutions BY ResolutionAssumption
  <1> QED BY <1>1 DEF ZeroFrame, Frame, Frames, BusCmds, Roms, Temps

LEMMA InitType == Init => TypeInv
  <1> SUFFICES ASSUME Init PROVE TypeInv OBVIOUS
  <1>1. MaxDevices \in Nat /\ 0 < MaxDevices BY MaxDevicesAssumption
  <1>2. DefaultRes \in Resolutions BY ResolutionAssumption
  <1>3. NoRom \in Roms BY DEF Roms
  <1>4. port \in PortType(Waits)
    BY DEF Init, PortInit, PortType, Pins, Waits
  <1>5. ctx \in CtxType BY <1>1, <1>2, <1>3 DEF Init, CtxType, States
  <1>6. table \in TableType BY <1>1, <1>3 DEF Init, TableType
  <1>7. search \in SearchType BY <1>1, <1>3 DEF Init, SearchType, SearchPhases
  <1>8. res \in ResType BY <1>2 DEF Init, ResType, ResPhases
  <1>9. txn \in TxnType BY ZeroFrameType DEF Init, TxnType, TxnPhases
  <1>10. pulses \in PulsesType BY <1>2, <1>3 DEF Init, PulsesType, BusCmds
  <1>11. line \in LineType BY ZeroFrameType DEF Init, LineType
  <1>12. dev \in [Devices -> DeviceType] BY DEF Init, DeviceType, Temps
  <1>13. round \in Seq(Reports) BY DEF Init
  <1>14. /\ cb \in {"none", "finish", "parked"}
         /\ led \in BOOLEAN
         /\ want \in TxnCmds \cup {"none"}
    BY DEF Init
  <1>15. IndexInv BY <1>1 DEF Init, IndexInv
  <1> QED
    BY <1>4, <1>5, <1>6, <1>7, <1>8, <1>9, <1>10, <1>11, <1>12, <1>13, <1>14, <1>15
    DEF TypeInv, TypeOK, Waits

-----------------------------------------------------------------------------
(***************************************************************************)
(* Every step keeps the types: one lemma per engine, one case per action.  *)
(***************************************************************************)
LEMMA ApplicationType == TypeInv /\ Application => TypeInv'
  <1> SUFFICES ASSUME TypeInv, Application PROVE TypeInv' OBVIOUS
  <1>0. /\ port \in PortType(Waits)
        /\ MaxDevices \in Nat /\ 0 < MaxDevices /\ 0 \in 0..MaxDevices
    BY MaxDevicesAssumption DEF TypeInv, TypeOK, Waits
  <1>1. CASE StartMeasure
    <2>1. port' \in PortType(Waits) BY <1>0, <1>1, PortCalls DEF StartMeasure
    <2>2. ctx' \in CtxType BY <1>1 DEF StartMeasure, TypeInv, TypeOK, CtxType, States
    <2>3. IndexInv' BY <1>1 DEF StartMeasure, TypeInv, TypeOK, CtxType, IndexInv
    <2> QED BY <1>1, <2>1, <2>2, <2>3 DEF StartMeasure, TypeInv, TypeOK, Waits
  <1>2. CASE ScanStart
    <2>1. ctx' = [ctx EXCEPT !.scan = TRUE, !.index = 0] BY <1>2 DEF ScanStart
    <2>3. ctx' \in CtxType BY <1>0, <2>1 DEF TypeInv, TypeOK, CtxType
    <2>2. IndexInv' BY <1>0, <1>2 DEF ScanStart, TypeInv, TypeOK, CtxType, IndexInv
    <2> QED BY <1>2, <2>2, <2>3 DEF ScanStart, TypeInv, TypeOK
  <1>3. ASSUME NEW rom \in Roms, Select(rom) PROVE TypeInv'
    <2>1. ctx' \in CtxType BY <1>3 DEF Select, TypeInv, TypeOK, CtxType
    <2>2. IndexInv' BY <1>3 DEF Select, TypeInv, TypeOK, CtxType, IndexInv
    <2> QED BY <1>3, <2>1, <2>2 DEF Select, TypeInv, TypeOK
  <1>4. ASSUME NEW on \in BOOLEAN, SetParasite(on) PROVE TypeInv'
    <2>1. ctx' \in CtxType BY <1>4 DEF SetParasite, TypeInv, TypeOK, CtxType
    <2>2. IndexInv' BY <1>4 DEF SetParasite, TypeInv, TypeOK, CtxType, IndexInv
    <2> QED BY <1>4, <2>1, <2>2 DEF SetParasite, TypeInv, TypeOK
  <1>5. ASSUME NEW alarm \in BOOLEAN, NEW max \in 0..MaxDevices, SearchBegin(alarm, max)
        PROVE  TypeInv'
    <2>1. port' \in PortType(Waits) BY <1>0, <1>5, PortCalls DEF SearchBegin, Ops
    <2>2. table' \in TableType BY <1>0, <1>5 DEF SearchBegin, TypeInv, TypeOK, TableType
    <2>3. search' \in SearchType BY <1>5 DEF SearchBegin, SearchType, SearchPhases, Roms
    <2>4. IndexInv' BY <1>5 DEF SearchBegin, TypeInv, IndexInv
    <2> QED BY <1>5, <2>1, <2>2, <2>3, <2>4 DEF SearchBegin, TypeInv, TypeOK, Waits
  <1>6. ASSUME NEW bits \in Resolutions, SetResolution(bits) PROVE TypeInv'
    <2>1. port' \in PortType(Waits) BY <1>0, <1>6, PortCalls DEF SetResolution, Ops
    <2>2. res' \in ResType BY <1>6 DEF SetResolution, ResType, ResPhases
    <2>3. pulses' \in PulsesType
      BY <1>6 DEF SetResolution, TypeInv, TypeOK, CtxType, PulsesType, BusCmds, Roms
    <2>4. IndexInv' BY <1>6 DEF SetResolution, TypeInv, IndexInv
    <2> QED BY <1>6, <2>1, <2>2, <2>3, <2>4 DEF SetResolution, TypeInv, TypeOK, Waits
  <1>7. ASSUME NEW cmd \in TxnCmds, TxnCall(cmd) PROVE TypeInv'
    <2>1. CASE TxnStart(cmd)
      <3>1. StrongPullup(port, FALSE) \in PortType(Waits) BY <1>0, PortCalls
      <3>2. port' \in PortType(Waits) BY <2>1, <3>1, PortCalls DEF TxnStart, Ops
      <3>3. txn' \in TxnType BY <2>1 DEF TxnStart, TypeInv, TypeOK, TxnType, TxnPhases
      <3>4. pulses' \in PulsesType
        BY <2>1 DEF TxnStart, TxnPulses, TypeInv, TypeOK, CtxType, PulsesType, BusCmds, Roms
      <3> QED BY <1>7, <3>2, <3>3, <3>4 DEF TxnCall, TypeInv, TypeOK, IndexInv, Waits
    <2>2. CASE UNCHANGED <<txn, pulses, port>>
      BY <1>7, <2>2 DEF TxnCall, TypeInv, TypeOK, IndexInv
    <2> QED BY <1>7, <2>1, <2>2 DEF TxnCall
  <1> QED BY <1>1, <1>2, <1>3, <1>4, <1>5, <1>6, <1>7 DEF Application

\* ds18b20_complete() appends a well-formed report.
LEMMA CompleteType ==
    ASSUME NEW c \in CtxType, NEW kind \in {"temp", "no_sensor", "crc_fail"},
           NEW rom \in Roms, NEW temp \in Temps, NEW rest,
           round \in Seq(Reports), Complete(c, kind, rom, temp, rest)
    PROVE  round' \in Seq(Reports) /\ cb' = rest
  <1> DEFINE report == [index |-> c.index, kind |-> kind, rom |-> rom, temp |-> temp,
                        asked |-> IF c.addr THEN c.rom ELSE NoRom]
  <1>1. NoRom \in Roms BY DEF Roms
  <1>2. c.index \in 0..MaxDevices /\ c.rom \in Roms BY DEF CtxType
  <1>3. report \in Reports BY <1>1, <1>2 DEF Reports
  <1>4. round' = Append(round, report) /\ cb' = rest BY DEF Complete
  <1>5. Append(round, report) \in Seq(Reports) BY <1>3, AppendProperties
  <1> QED BY <1>4, <1>5

\* issue_command() from a well-formed context and port.
LEMMA IssueType ==
    ASSUME TypeOK, NEW c \in CtxType, NEW p \in PortType(Waits),
           NEW cmd \in BusCmds, NEW next \in States, IssueCommand(c, p, cmd, next)
    PROVE  /\ port' \in PortType(Waits)
           /\ ctx' \in CtxType
           /\ pulses' \in PulsesType
           /\ cb' \in {cb, "parked"}
           /\ led' \in BOOLEAN
           /\ round' \in Seq(Reports)
           /\ ctx'.scan = c.scan /\ ctx'.index = c.index
           /\ cb' = "parked" => ctx'.state = "IDLE" \/ cb = "parked"
  <1>1. CASE line.seen
    <2>1. port' \in PortType(Waits) BY <1>1, PortCalls DEF IssueCommand, Ops
    <2>2. pulses' \in PulsesType
      BY <1>1 DEF IssueCommand, TypeOK, CtxType, PulsesType, Roms
    <2>3. ctx' = [c EXCEPT !.state = next] BY <1>1 DEF IssueCommand
    <2>4. ctx' \in CtxType /\ ctx'.scan = c.scan /\ ctx'.index = c.index
      BY <2>3 DEF CtxType
    <2> QED BY <1>1, <2>1, <2>2, <2>4 DEF IssueCommand, TypeOK
  <1>2. CASE ~line.seen
    <2>1. ctx' = [c EXCEPT !.state = "IDLE"] BY <1>2 DEF IssueCommand
    <2>2. /\ ctx' \in CtxType /\ ctx'.scan = c.scan /\ ctx'.index = c.index
          /\ ctx'.state = "IDLE"
      BY <2>1 DEF CtxType, States
    <2>3. Complete(c, "no_sensor", NoRom, "old", "parked") BY <1>2 DEF IssueCommand
    <2>4. NoRom \in Roms /\ "old" \in Temps BY DEF Roms, Temps
    <2>5. round' \in Seq(Reports) /\ cb' = "parked"
      BY <2>3, <2>4, CompleteType DEF TypeOK
    <2> QED BY <1>2, <2>2, <2>5 DEF IssueCommand, TypeOK
  <1> QED BY <1>1, <1>2

\* The contexts of the two commands of a cycle; a scan round reads its table
\* entry, which is where the index has to be in range.
LEMMA RoundContextType ==
    ASSUME ctx \in CtxType
    PROVE  RoundContext \in CtxType /\ (RoundContext.scan => RoundContext.index = 0)
  <1>1. 0 \in 0..MaxDevices BY MaxDevicesAssumption
  <1> QED BY <1>1 DEF RoundContext, CtxType

LEMMA ReadContextType ==
    ASSUME TypeInv, ctx.state = "REQUEST"
    PROVE  /\ ReadContext \in CtxType /\ ReadContext.scan = ctx.scan
           /\ ReadContext.index = ctx.index
  <1>0. ctx \in CtxType /\ MaxDevices \in Nat
    BY MaxDevicesAssumption DEF TypeInv, TypeOK
  <1>1. CASE ctx.scan
    <2>1. ctx.index \in 0..MaxDevices - 1 BY <1>0, <1>1 DEF TypeInv, IndexInv, CtxType
    <2>2. table.roms[ctx.index] \in Roms BY <2>1 DEF TypeInv, TypeOK, TableType
    <2> QED BY <1>0, <1>1, <2>2 DEF ReadContext, CtxType
  <1>2. CASE ~ctx.scan BY <1>0, <1>2 DEF ReadContext
  <1> QED BY <1>1, <1>2

LEMMA MeasureType == TypeInv /\ MeasurePoll => TypeInv'
  <1> SUFFICES ASSUME TypeInv, MeasurePoll PROVE TypeInv' OBVIOUS
  <1>0. /\ port \in PortType(Waits) /\ Consumed \in PortType(Waits)
        /\ ctx \in CtxType /\ line \in LineType /\ round \in Seq(Reports)
        /\ MaxDevices \in Nat /\ 0 < MaxDevices /\ 0 \in 0..MaxDevices
    BY MaxDevicesAssumption, ConsumedType DEF TypeInv, TypeOK, Waits
  <1>1. CASE PollIdle
    BY <1>0, <1>1 DEF PollIdle, TypeInv, TypeOK, IndexInv, Waits
  <1>2. CASE PollStart
    <2>1. port' \in PortType(Waits)
      BY <1>0, <1>2, ConsumedType, PortCalls DEF PollStart, Ops
    <2>2. ctx' = [ctx EXCEPT !.state = "CONVERT"] BY <1>2 DEF PollStart
    <2>3. ctx' \in CtxType BY <1>0, <2>2 DEF CtxType, States
    <2>4. dev' \in [Devices -> DeviceType]
      BY <1>2 DEF PollStart, TypeInv, TypeOK, DeviceType, Temps
    <2>5. IndexInv' BY <1>0, <1>2, <2>2 DEF PollStart, MeasureDone, IndexInv, CtxType
    <2>6. round' \in Seq(Reports) BY <1>2 DEF PollStart
    <2> QED BY <1>2, <2>1, <2>3, <2>4, <2>5, <2>6 DEF PollStart, TypeInv, TypeOK, Waits
  <1>3. CASE PollConvert
    <2>1. RoundContext \in CtxType /\ (RoundContext.scan => RoundContext.index = 0)
      BY <1>0, RoundContextType
    <2>2. PullupIf(Consumed, TRUE) \in PortType(Waits) BY <1>0, ConsumedType
    <2>3. IssueCommand(RoundContext, PullupIf(Consumed, TRUE), "convert_t", "WAIT")
      BY <1>3 DEF PollConvert
    <2>4. /\ port' \in PortType(Waits) /\ ctx' \in CtxType /\ pulses' \in PulsesType
          /\ cb' \in {cb, "parked"} /\ led' \in BOOLEAN /\ round' \in Seq(Reports)
          /\ ctx'.scan = RoundContext.scan /\ ctx'.index = RoundContext.index
      BY <2>1, <2>2, <2>3, IssueType DEF TypeInv, BusCmds, States
    <2>5. IndexInv' BY <1>0, <2>1, <2>4 DEF IndexInv
    <2> QED BY <1>3, <2>4, <2>5 DEF PollConvert, TypeInv, TypeOK, Waits
  <1>4. CASE PollWait
    <2>1. PullupIf(Consumed, TRUE) \in PortType(Waits) BY <1>0, ConsumedType
    <2>2. ConversionWait \in Waits BY <1>0 DEF ConversionWait, CtxType, Waits
    <2>3. port' \in PortType(Waits) BY <1>4, <2>1, <2>2, PortCalls DEF PollWait
    <2>4. ctx' = [ctx EXCEPT !.state = "CONTINUE"] BY <1>4 DEF PollWait
    <2>5. ctx' \in CtxType BY <1>0, <2>4 DEF CtxType, States
    <2>6. IndexInv' BY <1>0, <1>4, <2>4 DEF PollWait, MeasureDone, TypeInv, IndexInv, CtxType
    <2> QED BY <1>4, <2>3, <2>5, <2>6 DEF PollWait, TypeInv, TypeOK, Waits
  <1>5. CASE PollContinue
    <2>1. port' \in PortType(Waits)
      BY <1>0, <1>5, ConsumedType, PortCalls DEF PollContinue, Ops
    <2>2. ctx' = [ctx EXCEPT !.state = "REQUEST"] BY <1>5 DEF PollContinue
    <2>3. ctx' \in CtxType BY <1>0, <2>2 DEF CtxType, States
    <2>4. IndexInv'
      BY <1>0, <1>5, <2>2 DEF PollContinue, MeasureDone, TypeInv, IndexInv, CtxType
    <2> QED BY <1>5, <2>1, <2>3, <2>4 DEF PollContinue, TypeInv, TypeOK, Waits
  <1>6. CASE PollRequest
    <2>1. ctx.state = "REQUEST" BY <1>6 DEF PollRequest, MeasureDone
    <2>2. /\ ReadContext \in CtxType /\ ReadContext.scan = ctx.scan
          /\ ReadContext.index = ctx.index
      BY <2>1, ReadContextType
    <2>3. PullupIf(Consumed, TRUE) \in PortType(Waits) BY <1>0, ConsumedType
    <2>4. IssueCommand(ReadContext, PullupIf(Consumed, TRUE), "read_scratchpad", "READ")
      BY <1>6 DEF PollRequest
    <2>5. /\ port' \in PortType(Waits) /\ ctx' \in CtxType /\ pulses' \in PulsesType
          /\ cb' \in {cb, "parked"} /\ led' \in BOOLEAN /\ round' \in Seq(Reports)
          /\ ctx'.scan = ctx.scan /\ ctx'.index = ctx.index
      BY <2>2, <2>3, <2>4, IssueType DEF TypeInv, BusCmds, TxnCmds, ReadCmds, States
    <2>6. IndexInv' BY <1>0, <2>1, <2>5 DEF TypeInv, IndexInv
    <2> QED BY <1>6, <2>5, <2>6 DEF PollRequest, TypeInv, TypeOK, Waits
  <1>7. CASE PollRead
    <2>1. port' \in PortType(Waits)
      BY <1>0, <1>7, ConsumedType, PortCalls DEF PollRead, Ops
    <2>2. ctx' = [ctx EXCEPT !.state = "DECODE"] BY <1>7 DEF PollRead
    <2>3. ctx' \in CtxType BY <1>0, <2>2 DEF CtxType, States
    <2>4. IndexInv' BY <1>0, <1>7, <2>2 DEF PollRead, MeasureDone, TypeInv, IndexInv, CtxType
    <2> QED BY <1>7, <2>1, <2>3, <2>4 DEF PollRead, TypeInv, TypeOK, Waits
  <1>8. CASE PollDecode
    <2> DEFINE f    == line.frame
               kind == IF ValidScratchpad(f) THEN "temp"
                       ELSE IF ctx.addr /\ f.kind = "ones" THEN "no_sensor"
                       ELSE "crc_fail"
    <2>1. f.res \in Resolutions /\ f.rom \in Roms /\ f.temp \in Temps
      BY <1>0 DEF LineType, Frames
    <2>2. TrackedRes(f) \in Resolutions BY <1>0, <2>1 DEF TrackedRes, CtxType
    <2>3. ctx' = [ctx EXCEPT !.state = IF ctx.scan THEN "DECODE" ELSE "IDLE",
                             !.res = TrackedRes(f)]
      BY <1>8 DEF PollDecode
    <2>4. ctx' \in CtxType /\ ctx'.scan = ctx.scan /\ ctx'.index = ctx.index
      BY <1>0, <2>2, <2>3 DEF CtxType, States
    <2>5. Complete(ctx, kind, f.rom, f.temp, "finish") BY <1>8 DEF PollDecode
    <2>6. kind \in {"temp", "no_sensor", "crc_fail"} OBVIOUS
    <2> HIDE DEF f, kind
    <2>7. round' \in Seq(Reports) /\ cb' = "finish"
      BY <1>0, <2>1, <2>5, <2>6, CompleteType
    <2>8. ctx.state = "DECODE" BY <1>8 DEF PollDecode, MeasureDone
    <2>9. IndexInv' BY <1>0, <2>4, <2>8 DEF TypeInv, IndexInv
    <2>10. port' \in PortType(Waits) BY <1>0, <1>8 DEF PollDecode
    <2> QED
      BY <1>8, <2>4, <2>7, <2>9, <2>10 DEF PollDecode, TypeInv, TypeOK, Waits
  <1> QED
    BY <1>1, <1>2, <1>3, <1>4, <1>5, <1>6, <1>7, <1>8 DEF MeasurePoll

LEMMA CallbackType == TypeInv /\ CallbackReturn => TypeInv'
  <1> SUFFICES ASSUME TypeInv, CallbackReturn PROVE TypeInv' OBVIOUS
  <1>0. /\ port \in PortType(Waits) /\ ctx \in CtxType
        /\ MaxDevices \in Nat /\ 0 < MaxDevices
    BY MaxDevicesAssumption DEF TypeInv, TypeOK, Waits
  <1>1. PullupIf(port, TRUE) \in PortType(Waits) BY <1>0, PullupType
  <1>2. CASE CallbackReturnParked
    BY <1>1, <1>2 DEF CallbackReturnParked, TypeInv, TypeOK, IndexInv, Waits
  <1>3. CASE ScanFinishOrNext
    <2>1. CASE ~ctx.scan
      BY <1>1, <1>3, <2>1 DEF ScanFinishOrNext, TypeInv, TypeOK, IndexInv, Waits
    <2>2. CASE ctx.scan /\ ~LastDevice
      <3>1. table.count \in 0..MaxDevices BY DEF TypeInv, TypeOK, TableType
      <3>2. ctx' = [ctx EXCEPT !.index = @ + 1, !.state = "CONTINUE"]
        BY <1>3, <2>2 DEF ScanFinishOrNext
      <3>3. ctx.index \in 0..MaxDevices BY <1>0 DEF CtxType
      <3>4. ctx.index + 1 \in 0..MaxDevices /\ ctx.index + 1 < MaxDevices
        BY <1>0, <2>2, <3>1, <3>3 DEF LastDevice
      <3>5. ctx' \in CtxType /\ ctx'.index = ctx.index + 1
        BY <1>0, <3>2, <3>4 DEF CtxType, States
      <3>6. IndexInv' BY <3>4, <3>5 DEF IndexInv
      <3>7. port' = GapBeforeNext(port) BY <1>3, <2>2 DEF ScanFinishOrNext
      <3>8. port' \in PortType(Waits) BY <1>0, <3>7, PortCalls DEF GapBeforeNext, Waits
      <3> QED BY <1>3, <3>5, <3>6, <3>8 DEF ScanFinishOrNext, TypeInv, TypeOK, Waits
    <2>3. CASE ctx.scan /\ LastDevice
      <3>1. ctx' = [ctx EXCEPT !.index = @ + 1, !.state = "IDLE"]
        BY <1>3, <2>3 DEF ScanFinishOrNext
      <3>2. ctx.index \in 0..MaxDevices BY <1>0 DEF CtxType
      <3>3. ctx.index < MaxDevices BY <1>3, <2>3 DEF ScanFinishOrNext, TypeInv, IndexInv
      <3>4. ctx.index + 1 \in 0..MaxDevices BY <1>0, <3>2, <3>3
      <3>5. ctx' \in CtxType /\ ctx'.state = "IDLE" BY <1>0, <3>1, <3>4 DEF CtxType, States
      <3>6. cb' = "none" BY <1>3 DEF ScanFinishOrNext
      <3>7. IndexInv' BY <3>5, <3>6 DEF IndexInv
      <3>8. port' = PullupIf(port, TRUE) BY <1>3, <2>3 DEF ScanFinishOrNext
      <3> QED
        BY <1>1, <1>3, <3>5, <3>6, <3>7, <3>8 DEF ScanFinishOrNext, TypeInv, TypeOK, Waits
    <2> QED BY <2>1, <2>2, <2>3
  <1> QED BY <1>2, <1>3 DEF CallbackReturn

LEMMA SearchPollType == TypeInv /\ SearchPoll => TypeInv'
  <1> SUFFICES ASSUME TypeInv, SearchPoll PROVE TypeInv' OBVIOUS
  <1>0. /\ port \in PortType(Waits) /\ Consumed \in PortType(Waits)
        /\ search \in SearchType /\ table \in TableType
        /\ MaxDevices \in Nat /\ 0 < MaxDevices
    BY MaxDevicesAssumption, ConsumedType DEF TypeInv, TypeOK, Waits
  <1>1. ASSUME NEW operation \in Ops, NEW phase \in SearchPhases,
               SearchNext(operation, phase)
        PROVE  port' \in PortType(Waits) /\ search' \in SearchType
    BY <1>0, <1>1, PortCalls DEF SearchNext, SearchType
  <1>2. ASSUME SearchEnd PROVE port' \in PortType(Waits) /\ search' \in SearchType
    BY <1>0, <1>2 DEF SearchEnd, SearchType, SearchPhases
  <1>3. CASE SearchFinish
    <2>1. search' \in SearchType BY <1>0, <1>3 DEF SearchFinish, SearchType, Roms
    <2> QED BY <1>3, <2>1 DEF SearchFinish, TypeInv, TypeOK, IndexInv
  <1>4. CASE SearchReset
    <2>1. port' \in PortType(Waits) /\ search' \in SearchType
      BY <1>1, <1>2, <1>4 DEF SearchReset, Ops, SearchPhases
    <2> QED BY <1>4, <2>1 DEF SearchReset, TypeInv, TypeOK, IndexInv, Waits
  <1>5. CASE SearchCommand
    <2>1. port' \in PortType(Waits) /\ search' \in SearchType
      BY <1>1, <1>5 DEF SearchCommand, Ops, SearchPhases
    <2> QED BY <1>5, <2>1 DEF SearchCommand, TypeInv, TypeOK, IndexInv, Waits
  <1>6. CASE SearchPair
    <2>1. port' \in PortType(Waits) /\ search' \in SearchType
      BY <1>1, <1>2, <1>6 DEF SearchPair, Ops, SearchPhases
    <2> QED BY <1>6, <2>1 DEF SearchPair, TypeInv, TypeOK, IndexInv, Waits
  <1>7. CASE SearchRomBad
    <2>1. port' \in PortType(Waits) /\ search' \in SearchType
      BY <1>2, <1>7 DEF SearchRomBad
    <2> QED BY <1>7, <2>1 DEF SearchRomBad, TypeInv, TypeOK, IndexInv, Waits
  <1>8. ASSUME NEW d \in Devices, NEW stop \in BOOLEAN, NEW more \in BOOLEAN,
               SearchRom(d, stop, more)
        PROVE  TypeInv'
    <2> DEFINE s == [search EXCEPT !.left = @ \ {d}, !.prev = d, !.found = @ + 1]
    <2>1. s \in SearchType
      <3>1. search.found + 1 \in Nat BY <1>0 DEF SearchType
      <3>2. search.left \ {d} \in SUBSET Devices BY <1>0 DEF SearchType
      <3>3. d \in Roms BY DEF Roms
      <3> QED BY <1>0, <3>1, <3>2, <3>3 DEF SearchType
    <2> HIDE DEF s
    <2>2. \/ search' = [s EXCEPT !.phase = "DONE"] /\ port' = Consumed
          \/ search' = [s EXCEPT !.phase = "RESET"] /\ port' = Arm(Consumed, "reset")
      BY <1>8 DEF SearchRom, s
    <2>3. search' \in SearchType BY <2>1, <2>2 DEF SearchType, SearchPhases
    <2>4. port' \in PortType(Waits) BY <1>0, <2>2, PortCalls DEF Ops
    <2>5. table' \in TableType
      <3>1. CASE search.alarm \/ table.count >= MaxDevices
        BY <1>0, <1>8, <3>1 DEF SearchRom
      <3>2. CASE ~(search.alarm \/ table.count >= MaxDevices)
        <4>1. table' = [roms |-> [table.roms EXCEPT ![table.count] = d],
                        count |-> table.count + 1]
          BY <1>8, <3>2 DEF SearchRom
        <4>2. table.count \in 0..MaxDevices BY <1>0 DEF TableType
        <4>3. table.count + 1 \in 0..MaxDevices BY <1>0, <3>2, <4>2
        <4>4. d \in Roms BY DEF Roms
        <4> QED BY <1>0, <4>1, <4>3, <4>4 DEF TableType
      <3> QED BY <3>1, <3>2
    <2> QED BY <1>8, <2>3, <2>4, <2>5 DEF SearchRom, TypeInv, TypeOK, IndexInv, Waits
  <1> QED BY <1>3, <1>4, <1>5, <1>6, <1>7, <1>8 DEF SearchPoll

LEMMA ResPollType == TypeInv /\ ResPoll => TypeInv'
  <1> SUFFICES ASSUME TypeInv, ResPoll PROVE TypeInv' OBVIOUS
  <1>0. /\ port \in PortType(Waits) /\ Consumed \in PortType(Waits)
        /\ ctx \in CtxType /\ res \in ResType
    BY ConsumedType DEF TypeInv, TypeOK, Waits
  <1>1. CASE ResFinish
    <2>1. res' \in ResType BY <1>0, <1>1 DEF ResFinish, ResType
    <2>2. ctx' = [ctx EXCEPT !.res = IF res.applied THEN res.pending ELSE @]
      BY <1>1 DEF ResFinish
    <2>3. /\ ctx' \in CtxType /\ ctx'.scan = ctx.scan /\ ctx'.index = ctx.index
          /\ ctx'.state = ctx.state
      BY <1>0, <2>2 DEF CtxType, ResType
    <2> QED BY <1>1, <2>1, <2>3 DEF ResFinish, TypeInv, TypeOK, IndexInv
  <1>2. CASE ResReset
    <2>1. port' \in PortType(Waits) BY <1>0, <1>2, PortCalls DEF ResReset, Ops
    <2>2. res' \in ResType BY <1>0, <1>2 DEF ResReset, ResType, ResPhases
    <2> QED BY <1>2, <2>1, <2>2 DEF ResReset, TypeInv, TypeOK, IndexInv, Waits
  <1>3. CASE ResWrite
    <2>1. res' \in ResType BY <1>0, <1>3 DEF ResWrite, ResType, ResPhases
    <2> QED BY <1>0, <1>3, <2>1 DEF ResWrite, TypeInv, TypeOK, IndexInv, Waits
  <1> QED BY <1>1, <1>2, <1>3 DEF ResPoll

\* What the poll of a finished command applies keeps the context's shape.
LEMMA AppliedType ==
    ASSUME ctx \in CtxType, txn \in TxnType, NEW c, NEW x \in Applied(c, txn)
    PROVE  /\ x \in CtxType /\ x.scan = ctx.scan /\ x.index = ctx.index
           /\ x.state = ctx.state /\ x.addr = ctx.addr /\ x.rom = ctx.rom
  <1>1. txn.raw.res \in Resolutions /\ txn.raw.par \in BOOLEAN BY DEF TxnType, Frames
  <1>2. \/ x = ctx
        \/ \E r \in Resolutions : x = [ctx EXCEPT !.res = r]
        \/ \E b \in BOOLEAN : x = [ctx EXCEPT !.par = b]
    BY <1>1 DEF Applied
  <1> QED BY <1>2 DEF CtxType

LEMMA TxnPollType == TypeInv /\ (TxnPoll \/ TxnPollAgain) => TypeInv'
  <1> SUFFICES ASSUME TypeInv, TxnPoll \/ TxnPollAgain PROVE TypeInv' OBVIOUS
  <1>0. /\ port \in PortType(Waits) /\ Consumed \in PortType(Waits)
        /\ ctx \in CtxType /\ txn \in TxnType /\ line.frame \in Frames
    BY ConsumedType DEF TypeInv, TypeOK, LineType, Waits
  <1>1. CASE TxnReset
    <2>1. port' \in PortType(Waits) BY <1>0, <1>1, ConsumedType, PortCalls DEF TxnReset, Ops
    <2>2. txn' \in TxnType BY <1>0, <1>1 DEF TxnReset, TxnType, TxnPhases
    <2> QED BY <1>1, <2>1, <2>2 DEF TxnReset, TypeInv, TypeOK, IndexInv, Waits
  <1>2. CASE TxnWrite
    <2>1. /\ PullupIf(Consumed, TRUE) \in PortType(Waits)
          /\ PullupIf(Consumed, FALSE) \in PortType(Waits)
      BY <1>0, ConsumedType
    <2>2. port' \in PortType(Waits) BY <1>2, <2>1, PortCalls DEF TxnWrite, Ops, Waits
    <2>3. txn' \in TxnType BY <1>0, <1>2 DEF TxnWrite, TxnType, TxnPhases
    <2> QED BY <1>2, <2>2, <2>3 DEF TxnWrite, TypeInv, TypeOK, IndexInv, Waits
  <1>3. CASE TxnRead
    <2>1. txn' \in TxnType BY <1>0, <1>3 DEF TxnRead, TxnType, TxnPhases
    <2> QED BY <1>0, <1>3, <2>1 DEF TxnRead, TypeInv, TypeOK, IndexInv, Waits
  <1>4. CASE TxnWait
    <2>1. port' \in PortType(Waits) BY <1>0, <1>4, ConsumedType DEF TxnWait
    <2>2. txn' \in TxnType BY <1>0, <1>4 DEF TxnWait, TxnType, TxnPhases
    <2> QED BY <1>4, <2>1, <2>2 DEF TxnWait, TypeInv, TypeOK, IndexInv, Waits
  <1>5. CASE TxnFinish
    <2>1. txn' \in TxnType BY <1>0, <1>5 DEF TxnFinish, TxnType
    <2>2. /\ ctx' \in CtxType /\ ctx'.scan = ctx.scan /\ ctx'.index = ctx.index
          /\ ctx'.state = ctx.state
      BY <1>0, <1>5, AppliedType DEF TxnFinish
    <2> QED BY <1>5, <2>1, <2>2 DEF TxnFinish, TypeInv, TypeOK, IndexInv
  <1>6. CASE TxnPollAgain
    <2>1. /\ ctx' \in CtxType /\ ctx'.scan = ctx.scan /\ ctx'.index = ctx.index
          /\ ctx'.state = ctx.state
      BY <1>0, <1>6, AppliedType DEF TxnPollAgain
    <2> QED BY <1>6, <2>1 DEF TxnPollAgain, TypeInv, TypeOK, IndexInv
  <1> QED BY <1>1, <1>2, <1>3, <1>4, <1>5, <1>6 DEF TxnPoll

LEMMA ReadFramesType == TypeInv => ReadFrames \subseteq Frames
  <1> SUFFICES ASSUME TypeInv PROVE ReadFrames \subseteq Frames OBVIOUS
  <1>0. /\ pulses.cmd \in BusCmds /\ line.heard \in SUBSET Devices
        /\ DefaultRes \in Resolutions /\ NoRom \in Roms
    BY ResolutionAssumption DEF TypeInv, TypeOK, PulsesType, LineType, Roms
  <1> DEFINE ones == Frame("ones", pulses.cmd, NoRom, "old", DefaultRes, FALSE)
  <1>1. ones \in Frames BY <1>0, FrameType DEF Temps
  <1>2. \A b \in BOOLEAN : [ones EXCEPT !.kind = "bad", !.par = b] \in Frames
    BY <1>1 DEF Frames
  <1>3. \A d \in Answering : Scratchpad(d) \in Frames
    <2> SUFFICES ASSUME NEW d \in Answering PROVE Scratchpad(d) \in Frames OBVIOUS
    <2>1. d \in Devices /\ d \in Roms BY <1>0 DEF Answering, Roms
    <2>2. dev[d].temp \in Temps /\ dev[d].res \in Resolutions
      BY <2>1 DEF TypeInv, TypeOK, DeviceType
    <2>3. (d \in Parasitic) \in BOOLEAN OBVIOUS
    <2>4. ASSUME NEW b \in BOOLEAN
          PROVE  Frame("ok", pulses.cmd, d, dev[d].temp, dev[d].res, b) \in Frames
      BY <1>0, <2>1, <2>2, FrameType
    <2> QED BY <2>3, <2>4, Zenon DEF Scratchpad
  <1> QED BY <1>1, <1>2, <1>3 DEF ReadFrames

LEMMA HardwareType == TypeInv /\ Hardware => TypeInv'
  <1> SUFFICES ASSUME TypeInv, Hardware PROVE TypeInv' OBVIOUS
  <1>0. /\ port \in PortType(Waits) /\ line \in LineType
        /\ dev \in [Devices -> DeviceType] /\ pulses \in PulsesType
    BY DEF TypeInv, TypeOK, Waits
  <1>1. ASSUME NEW operation, HwEnds(operation), line' \in LineType,
               dev' \in [Devices -> DeviceType]
        PROVE  TypeInv'
    <2>1. port' \in PortType(Waits) BY <1>0, <1>1, PortCalls DEF HwEnds
    <2> QED BY <1>1, <2>1 DEF HwEnds, TypeInv, TypeOK, IndexInv, Waits
  <1>2. CASE HwReset
    <2>1. line' \in LineType BY <1>2, ZeroFrameType DEF HwReset, LineType
    <2> QED BY <1>0, <1>1, <1>2, <2>1 DEF HwReset
  <1>3. CASE HwWrite
    <2>1. line' \in LineType BY <1>0, <1>3 DEF HwWrite, LineType, Hearing
    <2>2. pulses.cfg \in Resolutions BY <1>0 DEF PulsesType
    <2>3. ASSUME NEW d \in Devices PROVE dev'[d] \in DeviceType
      <3>1. dev[d] \in DeviceType BY <1>0
      <3>2. \/ dev'[d] = dev[d]
            \/ dev'[d] = [dev[d] EXCEPT !.conv = TRUE]
            \/ dev'[d] = [dev[d] EXCEPT !.res = pulses.cfg]
        BY <1>3 DEF HwWrite
      <3> QED BY <2>2, <3>1, <3>2 DEF DeviceType
    <2>4. dev' = [d \in Devices |-> dev'[d]] BY <1>3 DEF HwWrite
    <2>5. dev' \in [Devices -> DeviceType] BY <2>3, <2>4
    <2> QED BY <1>1, <1>3, <2>1, <2>5 DEF HwWrite
  <1>4. CASE HwRead
    <2>1. ReadFrames \subseteq Frames BY ReadFramesType
    <2>2. \A r \in Resolutions : Frame("bad", pulses.cmd, NoRom, "old", r, FALSE) \in Frames
      BY <1>0, FrameType DEF PulsesType, Roms, Temps
    <2>3. Noise => Frame("zeros", pulses.cmd, NoRom, "old", ZeroRes, TRUE) \in Frames
      BY <1>0, FrameType, ResolutionAssumption DEF PulsesType, Roms, Temps
    <2>4. NoiseFrames \subseteq Frames BY <2>2, <2>3 DEF NoiseFrames
    <2>5. \E f \in Frames : line' = [line EXCEPT !.frame = f]
      BY <1>4, <2>1, <2>4 DEF HwRead
    <2>6. line' \in LineType BY <1>0, <2>5 DEF LineType
    <2> QED BY <1>0, <1>1, <1>4, <2>6 DEF HwRead
  <1>5. CASE HwWait
    <2>1. ASSUME NEW d \in Devices PROVE AfterWait(d) \in DeviceType
      <3> DEFINE n == IF dev[d].conv /\ ~Powered(d) THEN [dev[d] EXCEPT !.conv = FALSE]
                      ELSE IF dev[d].conv /\ port.us >= dev[d].res
                           THEN [dev[d] EXCEPT !.conv = FALSE, !.temp = "new"]
                      ELSE dev[d]
      <3>1. dev[d] \in DeviceType BY <1>0
      <3>2. n \in DeviceType BY <3>1 DEF DeviceType, Temps
      <3>3. \/ AfterWait(d) = n
            \/ AfterWait(d) = [n EXCEPT !.ee = n.res]
            \/ AfterWait(d) = [n EXCEPT !.res = n.ee]
        BY DEF AfterWait
      <3> HIDE DEF n
      <3> QED BY <3>2, <3>3 DEF DeviceType
    <2>2. dev' \in [Devices -> DeviceType] BY <1>5, <2>1 DEF HwWait
    <2> QED BY <1>0, <1>1, <1>5, <2>2 DEF HwWait
  <1>6. CASE HwSearchSlots
    <2>1. line' \in LineType BY <1>0, <1>6 DEF HwSearchSlots, LineType, Hearing
    <2> QED BY <1>0, <1>1, <1>6, <2>1 DEF HwSearchSlots
  <1> QED BY <1>2, <1>3, <1>4, <1>5, <1>6 DEF Hardware

LEMMA PlugType == ASSUME NEW d \in Devices PROVE TypeInv /\ Plug(d) => TypeInv'
  <1> SUFFICES ASSUME TypeInv, Plug(d) PROVE TypeInv' OBVIOUS
  <1>1. dev[d] \in DeviceType BY DEF TypeInv, TypeOK
  <1>2. dev' = [dev EXCEPT ![d] = [dev[d] EXCEPT !.present = ~dev[d].present,
                    !.res = dev[d].ee, !.temp = "old", !.conv = FALSE]]
    BY DEF Plug, TypeInv, TypeOK
  <1>3. [dev[d] EXCEPT !.present = ~dev[d].present, !.res = dev[d].ee,
                       !.temp = "old", !.conv = FALSE] \in DeviceType
    BY <1>1 DEF DeviceType, Temps
  <1>4. dev' \in [Devices -> DeviceType] BY <1>2, <1>3 DEF TypeInv, TypeOK
  <1> QED BY <1>4 DEF Plug, TypeInv, TypeOK, IndexInv

LEMMA TypeNext == TypeInv /\ [Next]_vars => TypeInv'
  <1> SUFFICES ASSUME TypeInv, [Next]_vars PROVE TypeInv' OBVIOUS
  <1>1. CASE UNCHANGED vars BY <1>1 DEF vars, TypeInv, TypeOK, IndexInv
  <1>2. CASE Next
    BY <1>2, ApplicationType, MeasureType, CallbackType, SearchPollType, ResPollType,
       TxnPollType, HardwareType, PlugType DEF Next
  <1> QED BY <1>1, <1>2

LEMMA TypeInvariant == Spec => []TypeInv
  BY InitType, TypeNext, PTL DEF Spec

(***************************************************************************)
(* Every variable keeps its shape - scan_index and dev_count within the    *)
(* table - for any number of devices, table length and set of API calls,   *)
(* those made from inside ds18b20_complete() included.                     *)
(***************************************************************************)
THEOREM TypeCorrect == Spec => []TypeOK
  <1>1. TypeInv => TypeOK BY DEF TypeInv
  <1> QED BY <1>1, TypeInvariant, PTL

-----------------------------------------------------------------------------
(***************************************************************************)
(* Ownership of the timer: at most one engine is active, the timer runs    *)
(* the operation that engine waits for, and the pulse table holds its      *)
(* command - for every number of devices and every application interface   *)
(* the theorems name.                                                      *)
(***************************************************************************)

(***************************************************************************)
(* OneOwner, engine by engine.  It is not inductive: the continuation of a *)
(* scan poll after ds18b20_complete() moves to CONTINUE without looking at *)
(* the other engines again, so we also need that nothing could have been   *)
(* started meanwhile, which is that the callback of a scan round runs      *)
(* while the state is still DECODE.  A callback that arms a scan round     *)
(* from a single-device report would break that, hence the assumption on   *)
(* CallbackCalls.                                                          *)
(***************************************************************************)
OwnersApart ==
    /\ ctx.state # "IDLE" => ~OthersBusy
    /\ SearchActive => res.finished /\ txn.finished
    /\ ~res.finished => txn.finished

ScanCallbackInDecode == cb = "finish" /\ ctx.scan => ctx.state = "DECODE"

OwnerInv == OwnersApart /\ ScanCallbackInDecode

LEMMA ApartIsOneOwner == OwnersApart => OneOwner
  BY DEF OwnersApart, OneOwner, Owners, Engines, OthersBusy, SearchActive

LEMMA OwnerInit == Init => OwnerInv
  BY DEF Init, OwnerInv, OwnersApart, ScanCallbackInDecode, OthersBusy, SearchActive

\* Steps that leave the engines' activity, the scan mode and cb alone.
LEMMA OwnerFrame ==
    ASSUME OwnerInv, cb' = cb, ctx'.state = ctx.state, ctx'.scan = ctx.scan,
           search'.finished = search.finished, res'.finished = res.finished,
           txn'.finished = txn.finished
    PROVE  OwnerInv'
  BY DEF OwnerInv, OwnersApart, ScanCallbackInDecode, OthersBusy, SearchActive

\* Steps of the measurement engine: no other engine is active, or becomes so.
LEMMA OwnerMeasure ==
    ASSUME ~OthersBusy, UNCHANGED <<search, res, txn>>,
           cb' = "finish" /\ ctx'.scan => ctx'.state = "DECODE"
    PROVE  OwnerInv'
  BY DEF OwnerInv, OwnersApart, ScanCallbackInDecode, OthersBusy, SearchActive

LEMMA OwnerApplication ==
    ASSUME "scan_start" \notin CallbackCalls, TypeOK, OwnerInv, Application
    PROVE  OwnerInv'
  <1>0. ctx \in CtxType /\ txn \in TxnType BY DEF TypeOK
  <1>1. CASE StartMeasure
    <2>1. ~OthersBusy /\ ctx.state = "IDLE" BY <1>1 DEF StartMeasure, TimerFree
    <2>2. ctx'.scan = ctx.scan BY <1>0, <1>1 DEF StartMeasure, CtxType
    <2>3. ~(cb = "finish" /\ ctx.scan) BY <2>1 DEF OwnerInv, ScanCallbackInDecode
    <2> QED BY <1>1, <2>1, <2>2, <2>3, OwnerMeasure DEF StartMeasure
  <1>2. CASE ScanStart
    <2>1. ~OthersBusy BY <1>2 DEF ScanStart, TimerFree
    <2>2. cb' = "none" BY <1>2 DEF ScanStart, May
    <2> QED BY <1>2, <2>1, <2>2, OwnerMeasure DEF ScanStart
  <1>3. ASSUME NEW rom \in Roms, Select(rom) PROVE OwnerInv'
    <2>1. ~OthersBusy BY <1>3 DEF Select, TimerFree
    <2>2. ctx'.scan = FALSE BY <1>0, <1>3 DEF Select, CtxType
    <2> QED BY <1>3, <2>1, <2>2, OwnerMeasure DEF Select
  <1>4. ASSUME NEW on \in BOOLEAN, SetParasite(on) PROVE OwnerInv'
    <2>1. ctx'.state = ctx.state /\ ctx'.scan = ctx.scan
      BY <1>0, <1>4 DEF SetParasite, CtxType
    <2> QED BY <1>4, <2>1, OwnerFrame DEF SetParasite
  <1>5. ASSUME NEW alarm \in BOOLEAN, NEW max \in 0..MaxDevices, SearchBegin(alarm, max)
        PROVE  OwnerInv'
    BY <1>5 DEF SearchBegin, TimerFree, OwnerInv, OwnersApart, ScanCallbackInDecode,
                OthersBusy, SearchActive
  <1>6. ASSUME NEW bits \in Resolutions, SetResolution(bits) PROVE OwnerInv'
    BY <1>6 DEF SetResolution, TimerFree, OwnerInv, OwnersApart, ScanCallbackInDecode,
                OthersBusy, SearchActive
  <1>7. ASSUME NEW cmd \in TxnCmds, TxnCall(cmd) PROVE OwnerInv'
    <2>1. CASE TxnStart(cmd)
      BY <1>7, <2>1 DEF TxnCall, TxnStart, TxnCanStart, TimerFree, OwnerInv, OwnersApart,
                        ScanCallbackInDecode, OthersBusy, SearchActive
    <2>2. CASE UNCHANGED <<txn, pulses, port>>
      BY <1>7, <2>2, OwnerFrame DEF TxnCall
    <2> QED BY <1>7, <2>1, <2>2 DEF TxnCall
  <1> QED
    BY <1>1, <1>2, <1>3, <1>4, <1>5, <1>6, <1>7 DEF Application

LEMMA OwnerPolls ==
    ASSUME TypeOK, OwnerInv, MeasurePoll \/ CallbackReturn
    PROVE  OwnerInv'
  <1>0. ctx \in CtxType BY DEF TypeOK
  <1>1. ASSUME MeasurePoll PROVE OwnerInv'
    <2>1. ~OthersBusy /\ cb = "none" /\ UNCHANGED <<search, res, txn>>
      BY <1>1 DEF MeasurePoll, MeasureDone, PollIdle, PollStart, PollConvert, PollWait,
                  PollContinue, PollRequest, PollRead, PollDecode
    <2>2. CASE PollDecode
      <3>1. ctx'.state = IF ctx.scan THEN "DECODE" ELSE "IDLE"
        BY <1>0, <2>2 DEF PollDecode, CtxType
      <3>2. ctx'.scan = ctx.scan BY <1>0, <2>2 DEF PollDecode, CtxType
      <3> QED BY <2>1, <3>1, <3>2, OwnerMeasure
    <2>3. CASE ~PollDecode
      <3>1. cb' # "finish"
        BY <1>1, <2>1, <2>3 DEF MeasurePoll, PollIdle, PollStart, PollConvert, PollWait,
           PollContinue, PollRequest, PollRead, IssueCommand, Complete
      <3> QED BY <2>1, <3>1, OwnerMeasure
    <2> QED BY <2>2, <2>3
  <1>2. ASSUME CallbackReturnParked PROVE OwnerInv'
    BY <1>2 DEF CallbackReturnParked, OwnerInv, OwnersApart, ScanCallbackInDecode,
                OthersBusy, SearchActive
  <1>3. ASSUME ScanFinishOrNext PROVE OwnerInv'
    <2>1. cb' = "none" /\ UNCHANGED <<search, res, txn>> BY <1>3 DEF ScanFinishOrNext
    <2>2. CASE ctx.scan
      <3>1. ~OthersBusy
        BY <1>3, <2>2 DEF ScanFinishOrNext, OwnerInv, OwnersApart, ScanCallbackInDecode
      <3> QED BY <2>1, <3>1, OwnerMeasure
    <2>3. CASE ~ctx.scan
      <3>1. UNCHANGED ctx BY <1>3, <2>3 DEF ScanFinishOrNext
      <3> QED
        BY <2>1, <3>1 DEF OwnerInv, OwnersApart, ScanCallbackInDecode, OthersBusy, SearchActive
    <2> QED BY <2>2, <2>3
  <1> QED BY <1>1, <1>2, <1>3 DEF CallbackReturn

LEMMA OwnerSearch == ASSUME TypeOK, OwnerInv, SearchPoll PROVE OwnerInv'
  <1>0. search \in SearchType BY DEF TypeOK
  <1>1. CASE SearchFinish
    <2>1. search'.finished = TRUE BY <1>0, <1>1 DEF SearchFinish, SearchType
    <2> QED
      BY <1>1, <2>1 DEF SearchFinish, OwnerInv, OwnersApart, ScanCallbackInDecode,
                        OthersBusy, SearchActive
  <1>2. CASE ~SearchFinish
    <2>1. search'.finished = search.finished
      BY <1>0, <1>2 DEF SearchPoll, SearchReset, SearchCommand, SearchPair, SearchRomBad,
         SearchRom, SearchNext, SearchEnd, SearchType
    <2>2. UNCHANGED <<ctx, res, txn, cb>>
      BY <1>2 DEF SearchPoll, SearchReset, SearchCommand, SearchPair, SearchRomBad, SearchRom
    <2> QED BY <2>1, <2>2, OwnerFrame
  <1> QED BY <1>1, <1>2

LEMMA OwnerRes == ASSUME TypeOK, OwnerInv, ResPoll PROVE OwnerInv'
  <1>0. ctx \in CtxType /\ res \in ResType BY DEF TypeOK
  <1>1. CASE ResFinish
    <2>1. ctx'.state = ctx.state /\ ctx'.scan = ctx.scan /\ res'.finished = TRUE
      BY <1>0, <1>1 DEF ResFinish, CtxType, ResType
    <2> QED
      BY <1>1, <2>1 DEF ResFinish, OwnerInv, OwnersApart, ScanCallbackInDecode,
                        OthersBusy, SearchActive
  <1>2. CASE ResReset \/ ResWrite
    <2>1. res'.finished = res.finished BY <1>0, <1>2 DEF ResReset, ResWrite, ResType
    <2> QED BY <1>2, <2>1, OwnerFrame DEF ResReset, ResWrite
  <1> QED BY <1>1, <1>2 DEF ResPoll

LEMMA OwnerTxn == ASSUME TypeOK, OwnerInv, TxnPoll \/ TxnPollAgain PROVE OwnerInv'
  <1>0. ctx \in CtxType /\ txn \in TxnType BY DEF TypeOK
  <1>1. CASE TxnFinish \/ TxnPollAgain
    <2>1. ctx'.state = ctx.state /\ ctx'.scan = ctx.scan
      BY <1>0, <1>1, AppliedType DEF TxnFinish, TxnPollAgain
    <2>2. txn'.finished = TRUE BY <1>0, <1>1 DEF TxnFinish, TxnPollAgain, TxnType
    <2> QED
      BY <1>1, <2>1, <2>2 DEF TxnFinish, TxnPollAgain, OwnerInv, OwnersApart,
         ScanCallbackInDecode, OthersBusy, SearchActive
  <1>2. CASE TxnReset \/ TxnWrite \/ TxnRead \/ TxnWait
    <2>1. txn'.finished = txn.finished
      BY <1>0, <1>2 DEF TxnReset, TxnWrite, TxnRead, TxnWait, TxnType
    <2> QED BY <1>2, <2>1, OwnerFrame DEF TxnReset, TxnWrite, TxnRead, TxnWait
  <1> QED BY <1>1, <1>2 DEF TxnPoll

LEMMA OwnerNext ==
    ASSUME "scan_start" \notin CallbackCalls, TypeOK, OwnerInv, [Next]_vars
    PROVE  OwnerInv'
  <1>1. CASE Hardware
    BY <1>1, OwnerFrame DEF Hardware, HwReset, HwWrite, HwRead, HwWait, HwSearchSlots, HwEnds
  <1>2. ASSUME NEW d \in Devices, Plug(d) PROVE OwnerInv'
    BY <1>2, OwnerFrame DEF Plug
  <1>3. CASE UNCHANGED vars BY <1>3, OwnerFrame DEF vars
  <1> QED
    BY <1>1, <1>2, <1>3, OwnerApplication, OwnerPolls, OwnerSearch, OwnerRes, OwnerTxn
    DEF Next

(***************************************************************************)
(* At most one engine uses the timer at any time, whatever the application *)
(* calls from its loop, and whatever ds18b20_complete() calls except       *)
(* ds18b20_scan_start().                                                   *)
(***************************************************************************)
THEOREM OneOwnerCorrect ==
    ASSUME "scan_start" \notin CallbackCalls
    PROVE  Spec => []OneOwner
  <1>1. TypeOK /\ OwnerInv /\ [Next]_vars => OwnerInv' BY OwnerNext
  <1>2. OwnerInv => OneOwner BY ApartIsOneOwner DEF OwnerInv
  <1> QED BY <1>1, <1>2, OwnerInit, TypeCorrect, PTL DEF Spec

-----------------------------------------------------------------------------
(***************************************************************************)
(* The timer serves its owner.  The strengthening says what holds while    *)
(* the application runs inside ds18b20_complete(): the poll that called it *)
(* has consumed its flag and left the timer stopped, so a measurement      *)
(* requested there only raises the flag, and the rest of the poll, which   *)
(* may arm the gap before the next device or move the pull-up, finds no    *)
(* operation in flight.  A callback that starts a command breaks this.     *)
(***************************************************************************)
CallbackQuiet ==
    cb # "none" =>
        /\ ~OthersBusy
        /\ ctx.state \in IF cb = "finish" /\ ctx.scan THEN {"DECODE"} ELSE {"IDLE", "START"}

TimerInv == OwnerInv /\ CallbackQuiet /\ TimerServesOwner

\* What the calls of src/ow_port.h do to the operation and the flag.
LEMMA PortEffects ==
    ASSUME NEW p \in PortType(Waits)
    PROVE  /\ \A operation : Arm(p, operation).op = operation /\ ~Arm(p, operation).uif
           /\ \A us : ArmWait(p, us).op = "wait" /\ ~ArmWait(p, us).uif
           /\ Kick(p).op = p.op /\ Kick(p).uif
           /\ BusDone(p).op = p.op /\ ~BusDone(p).uif
           /\ \A on \in BOOLEAN : StrongPullup(p, on).op = p.op /\ PullupIf(p, on).op = p.op
           /\ HwDone(p).op = "idle" /\ HwDone(p).uif
  <1>1. /\ \A operation : Arm(p, operation).op = operation /\ ~Arm(p, operation).uif
        /\ \A us : ArmWait(p, us).op = "wait" /\ ~ArmWait(p, us).uif
    BY DEF PortType, Arm, ArmWait
  <1>2. /\ Kick(p).op = p.op /\ Kick(p).uif
        /\ BusDone(p).op = p.op /\ ~BusDone(p).uif
        /\ HwDone(p).op = "idle" /\ HwDone(p).uif
    BY DEF PortType, Kick, BusDone, HwDone
  <1>3. \A on \in BOOLEAN : StrongPullup(p, on).op = p.op /\ PullupIf(p, on).op = p.op
    BY DEF PortType, StrongPullup, PullupIf
  <1> QED BY <1>1, <1>2, <1>3

\* The three ways a step keeps the timer with its owner, and a step that
\* touches neither.
LEMMA Armed ==
    ASSUME port'.op = WaitsFor', ~port'.uif, port'.op # "idle"
    PROVE  TimerServesOwner'
  BY DEF TimerServesOwner

LEMMA Raised == ASSUME port'.op = "idle", port'.uif PROVE TimerServesOwner'
  BY DEF TimerServesOwner

LEMMA Rests == ASSUME port'.op = "idle", WaitsFor' = "idle" PROVE TimerServesOwner'
  BY DEF TimerServesOwner

LEMMA Serves ==
    ASSUME TimerServesOwner, port' = port, WaitsFor' = WaitsFor
    PROVE  TimerServesOwner'
  BY DEF TimerServesOwner

\* Nobody is active: nobody waits, and the timer stands still.
LEMMA FreeTimerRests ==
    ASSUME TimerServesOwner, TimerFree
    PROVE  WaitsFor = "idle" /\ port.op = "idle"
  BY DEF TimerServesOwner, TimerFree, OthersBusy, SearchActive, WaitsFor

LEMMA FlagMeansStopped == ASSUME TimerServesOwner, port.uif PROVE port.op = "idle"
  BY DEF TimerServesOwner

LEMMA CallbackTimerRests ==
    ASSUME TypeOK, TimerInv, cb # "none"
    PROVE  port.op = "idle"
  <1>1. WaitsFor \in {"idle", "kick"}
    BY DEF TimerInv, CallbackQuiet, OthersBusy, SearchActive, WaitsFor, MeasureWaitsFor
  <1>2. port.op # "kick" BY DEF TypeOK, PortType, Ops
  <1> QED BY <1>1, <1>2 DEF TimerInv, TimerServesOwner

LEMMA TimerApplication ==
    ASSUME CallbackCalls \subseteq {"select", "set_parasite", "start_measure"},
           TypeOK, TimerInv, Application
    PROVE  CallbackQuiet' /\ TimerServesOwner'
  <1>0. /\ port \in PortType(Waits) /\ ctx \in CtxType /\ txn \in TxnType
        /\ TimerServesOwner
    BY DEF TypeOK, Waits, TimerInv
  <1>1. CASE StartMeasure
    <2>1. TimerFree /\ port' = Kick(port) /\ cb' = cb BY <1>1 DEF StartMeasure
    <2>2. ctx'.state = "START" /\ ctx'.scan = ctx.scan
      BY <1>0, <1>1 DEF StartMeasure, CtxType
    <2>3. ~(cb = "finish" /\ ctx.scan)
      BY <2>1 DEF TimerFree, TimerInv, OwnerInv, ScanCallbackInDecode
    <2>4. CallbackQuiet'
      BY <1>1, <2>1, <2>2, <2>3 DEF StartMeasure, TimerFree, CallbackQuiet, OthersBusy,
                                    SearchActive
    <2>5. port.op = "idle" BY <1>0, <2>1, FreeTimerRests
    <2>6. TimerServesOwner' BY <1>0, <2>1, <2>5, PortEffects, Raised
    <2> QED BY <2>4, <2>6
  <1>2. ASSUME TimerFree, UNCHANGED <<port, search, res, txn, cb>>, ctx'.state = ctx.state,
               cb # "none" => ctx'.scan \in {ctx.scan, FALSE}
        PROVE  CallbackQuiet' /\ TimerServesOwner'
    <2>1. CallbackQuiet'
      BY <1>2 DEF TimerFree, TimerInv, OwnerInv, ScanCallbackInDecode, CallbackQuiet,
                  OthersBusy, SearchActive
    <2>2. TimerFree' BY <1>2 DEF TimerFree, OthersBusy, SearchActive
    <2>3. WaitsFor' = "idle" BY <2>2 DEF TimerFree, OthersBusy, SearchActive, WaitsFor
    <2>4. port'.op = "idle" BY <1>0, <1>2, FreeTimerRests
    <2> QED BY <2>1, <2>3, <2>4, Rests
  <1>3. CASE ScanStart
    <2>1. cb = "none" BY <1>3 DEF ScanStart, May
    <2>2. ctx'.state = ctx.state BY <1>0, <1>3 DEF ScanStart, CtxType
    <2> QED BY <1>2, <1>3, <2>1, <2>2 DEF ScanStart
  <1>4. ASSUME NEW rom \in Roms, Select(rom) PROVE CallbackQuiet' /\ TimerServesOwner'
    <2>1. ctx'.state = ctx.state /\ ctx'.scan = FALSE BY <1>0, <1>4 DEF Select, CtxType
    <2> QED BY <1>2, <1>4, <2>1 DEF Select
  <1>5. ASSUME NEW on \in BOOLEAN, SetParasite(on) PROVE CallbackQuiet' /\ TimerServesOwner'
    <2>1. ctx'.state = ctx.state /\ ctx'.scan = ctx.scan
      BY <1>0, <1>5 DEF SetParasite, CtxType
    <2> QED BY <1>2, <1>5, <2>1 DEF SetParasite
  <1>6. ASSUME NEW alarm \in BOOLEAN, NEW max \in 0..MaxDevices, SearchBegin(alarm, max)
        PROVE  CallbackQuiet' /\ TimerServesOwner'
    <2>1. cb = "none" /\ CallbackQuiet' BY <1>6 DEF SearchBegin, May, CallbackQuiet
    <2>2. ctx'.state = "IDLE" /\ ~search'.finished BY <1>6 DEF SearchBegin, TimerFree
    <2>3. CASE max = 0
      <3>1. search'.phase = "DONE" /\ port' = port BY <1>6, <2>3 DEF SearchBegin
      <3>2. WaitsFor' = "idle" BY <2>2, <3>1 DEF WaitsFor, SearchWaitsFor
      <3>3. port'.op = "idle" BY <1>0, <1>6, <3>1, FreeTimerRests DEF SearchBegin
      <3> QED BY <2>1, <3>2, <3>3, Rests
    <2>4. CASE max # 0
      <3>1. search'.phase = "RESET" /\ port' = Arm(port, "reset")
        BY <1>6, <2>4 DEF SearchBegin
      <3>2. WaitsFor' = "reset" BY <2>2, <3>1 DEF WaitsFor, SearchWaitsFor
      <3> QED BY <1>0, <2>1, <3>1, <3>2, PortEffects, Armed
    <2> QED BY <2>3, <2>4
  <1>7. ASSUME NEW bits \in Resolutions, SetResolution(bits)
        PROVE  CallbackQuiet' /\ TimerServesOwner'
    <2>1. cb = "none" /\ CallbackQuiet' BY <1>7 DEF SetResolution, May, CallbackQuiet
    <2>2. /\ ctx'.state = "IDLE" /\ search'.finished /\ ~res'.finished
          /\ res'.phase = "RESET" /\ port' = Arm(port, "reset")
      BY <1>7 DEF SetResolution, TimerFree, OthersBusy, SearchActive
    <2>3. WaitsFor' = "reset" BY <2>2 DEF WaitsFor, ResWaitsFor
    <2> QED BY <1>0, <2>1, <2>2, <2>3, PortEffects, Armed
  <1>8. ASSUME NEW cmd \in TxnCmds, TxnCall(cmd) PROVE CallbackQuiet' /\ TimerServesOwner'
    <2>1. cb = "none" /\ CallbackQuiet'
      BY <1>8 DEF TxnCall, May, CallbackQuiet, TxnCmds, ReadCmds, WaitCmds
    <2>2. CASE TxnStart(cmd)
      <3> DEFINE p == StrongPullup(port, FALSE)
      <3>1. p \in PortType(Waits) BY <1>0, PortCalls
      <3>2. /\ ctx'.state = "IDLE" /\ search'.finished /\ res'.finished
            /\ port' = Arm(p, "reset")
        BY <1>8, <2>2 DEF TxnCall, TxnStart, TxnCanStart, TimerFree, OthersBusy, SearchActive
      <3> HIDE DEF p
      <3>3. ~txn'.finished /\ txn'.phase = "RESET" BY <1>0, <2>2 DEF TxnStart, TxnType
      <3>4. WaitsFor' = "reset" BY <3>2, <3>3 DEF WaitsFor, TxnWaitsFor
      <3>5. port'.op = "reset" /\ ~port'.uif BY <3>1, <3>2, PortEffects
      <3> QED BY <2>1, <3>4, <3>5, Armed
    <2>3. CASE UNCHANGED <<txn, pulses, port>>
      <3>1. WaitsFor' = WaitsFor
        BY <1>8, <2>3 DEF TxnCall, WaitsFor, MeasureWaitsFor, SearchWaitsFor, ResWaitsFor,
                          TxnWaitsFor
      <3> QED BY <1>0, <2>1, <2>3, <3>1, Serves
    <2> QED BY <1>8, <2>2, <2>3 DEF TxnCall
  <1> QED BY <1>1, <1>3, <1>4, <1>5, <1>6, <1>7, <1>8 DEF Application

LEMMA TimerMeasure ==
    ASSUME TypeInv, TimerInv, MeasurePoll
    PROVE  CallbackQuiet' /\ TimerServesOwner'
  <1>0. /\ port \in PortType(Waits) /\ Consumed \in PortType(Waits) /\ ctx \in CtxType
        /\ TimerServesOwner
    BY ConsumedType DEF TypeInv, TypeOK, Waits, TimerInv
  <1>1. /\ cb = "none" /\ ~OthersBusy /\ port.uif /\ UNCHANGED <<search, res, txn>>
    BY DEF MeasurePoll, MeasureDone, PollIdle, PollStart, PollConvert, PollWait,
           PollContinue, PollRequest, PollRead, PollDecode
  <1>2. ~OthersBusy' BY <1>1 DEF OthersBusy, SearchActive
  <1>3. port.op = "idle" BY <1>0, <1>1, FlagMeansStopped
  <1>4. Consumed.op = "idle" BY <1>0, <1>3, PortEffects DEF Consumed
  <1>5. \A on \in BOOLEAN : PullupIf(Consumed, on) \in PortType(Waits)
                            /\ PullupIf(Consumed, on).op = "idle"
    BY <1>0, <1>4, ConsumedType, PortEffects
  <1>6. \A on \in BOOLEAN : StrongPullup(Consumed, on) \in PortType(Waits)
    BY <1>0, ConsumedType
  <1>7. ASSUME ctx'.state # "IDLE", WaitsFor' = MeasureWaitsFor', cb' = "none",
               NEW p \in PortType(Waits), port' = Arm(p, MeasureWaitsFor'),
               MeasureWaitsFor' # "idle"
        PROVE  CallbackQuiet' /\ TimerServesOwner'
    <2>1. port'.op = WaitsFor' /\ ~port'.uif BY <1>7, PortEffects
    <2> QED BY <1>7, <2>1, Armed DEF CallbackQuiet
  <1>8. ASSUME NEW c \in CtxType, NEW p \in PortType(Waits), p.op = "idle", NEW cmd,
               NEW next \in {"WAIT", "READ"}, IssueCommand(c, p, cmd, next)
        PROVE  CallbackQuiet' /\ TimerServesOwner'
    <2>1. CASE line.seen
      <3>1. port' = Arm(p, "write") /\ ctx'.state = next /\ cb' = "none"
        BY <1>1, <1>8, <2>1 DEF IssueCommand, CtxType
      <3>2. WaitsFor' = MeasureWaitsFor' /\ MeasureWaitsFor' = "write"
        BY <3>1 DEF WaitsFor, MeasureWaitsFor
      <3> QED BY <1>7, <3>1, <3>2
    <2>2. CASE ~line.seen
      <3>1. port' = p /\ ctx'.state = "IDLE" /\ cb' = "parked"
        BY <1>8, <2>2 DEF IssueCommand, Complete, CtxType
      <3>2. WaitsFor' = "idle" BY <1>2, <3>1 DEF OthersBusy, SearchActive, WaitsFor
      <3> QED BY <1>2, <1>8, <3>1, <3>2, Rests DEF CallbackQuiet
    <2> QED BY <2>1, <2>2
  <1>9. CASE PollIdle
    <2>1. port' = Consumed /\ ctx'.state = "IDLE" /\ cb' = "none"
      BY <1>1, <1>9 DEF PollIdle, MeasureDone
    <2>2. WaitsFor' = "idle" BY <1>2, <2>1 DEF OthersBusy, SearchActive, WaitsFor
    <2> QED BY <1>4, <2>1, <2>2, Rests DEF CallbackQuiet
  <1>10. CASE PollStart
    <2>1. /\ port' = Arm(PullupIf(Consumed, FALSE), "reset")
          /\ ctx'.state = "CONVERT" /\ cb' = "none"
      BY <1>0, <1>1, <1>10 DEF PollStart, CtxType
    <2>2. WaitsFor' = MeasureWaitsFor' /\ MeasureWaitsFor' = "reset"
      BY <2>1 DEF WaitsFor, MeasureWaitsFor
    <2> QED BY <1>5, <1>7, <2>1, <2>2
  <1>11. CASE PollConvert
    <2> QED BY <1>5, <1>8, <1>11, RoundContextType DEF PollConvert, TypeInv, TypeOK
  <1>12. CASE PollWait
    <2> DEFINE p == PullupIf(Consumed, TRUE)
    <2>1. /\ port' = ArmWait(p, ConversionWait)
          /\ ctx'.state = "CONTINUE" /\ cb' = "none"
      BY <1>0, <1>1, <1>12 DEF PollWait, CtxType
    <2>4. p \in PortType(Waits) BY <1>5
    <2> HIDE DEF p
    <2>2. WaitsFor' = "wait" BY <2>1 DEF WaitsFor, MeasureWaitsFor
    <2>3. port'.op = "wait" /\ ~port'.uif BY <2>1, <2>4, PortEffects
    <2> QED BY <2>1, <2>2, <2>3, Armed DEF CallbackQuiet
  <1>13. CASE PollContinue
    <2>1. /\ port' = Arm(StrongPullup(Consumed, FALSE), "reset")
          /\ ctx'.state = "REQUEST" /\ cb' = "none"
      BY <1>0, <1>1, <1>13 DEF PollContinue, CtxType
    <2>2. WaitsFor' = MeasureWaitsFor' /\ MeasureWaitsFor' = "reset"
      BY <2>1 DEF WaitsFor, MeasureWaitsFor
    <2> QED BY <1>6, <1>7, <2>1, <2>2
  <1>14. CASE PollRequest
    <2>1. ReadContext \in CtxType BY <1>14, ReadContextType DEF PollRequest, MeasureDone
    <2> QED BY <1>5, <1>8, <1>14, <2>1 DEF PollRequest
  <1>15. CASE PollRead
    <2>1. /\ port' = Arm(PullupIf(Consumed, FALSE), "read")
          /\ ctx'.state = "DECODE" /\ cb' = "none"
      BY <1>0, <1>1, <1>15 DEF PollRead, CtxType
    <2>2. WaitsFor' = MeasureWaitsFor' /\ MeasureWaitsFor' = "read"
      BY <2>1 DEF WaitsFor, MeasureWaitsFor
    <2> QED BY <1>5, <1>7, <2>1, <2>2
  <1>16. CASE PollDecode
    <2>1. /\ port' = Consumed /\ cb' = "finish" /\ ctx'.scan = ctx.scan
          /\ ctx'.state = IF ctx.scan THEN "DECODE" ELSE "IDLE"
      BY <1>0, <1>16 DEF PollDecode, Complete, CtxType
    <2>2. WaitsFor' = "idle"
      BY <1>2, <2>1 DEF OthersBusy, SearchActive, WaitsFor, MeasureWaitsFor
    <2> QED BY <1>2, <1>4, <2>1, <2>2, Rests DEF CallbackQuiet
  <1> QED
    BY <1>9, <1>10, <1>11, <1>12, <1>13, <1>14, <1>15, <1>16 DEF MeasurePoll

LEMMA TimerCallback ==
    ASSUME TypeOK, TimerInv, CallbackReturn
    PROVE  CallbackQuiet' /\ TimerServesOwner'
  <1>0. /\ port \in PortType(Waits) /\ ctx \in CtxType /\ port.op = "idle"
        /\ TimerServesOwner /\ CallbackQuiet
    BY CallbackTimerRests DEF TypeOK, Waits, TimerInv, CallbackReturn, CallbackReturnParked,
                              ScanFinishOrNext
  <1>1. cb' = "none" /\ CallbackQuiet' /\ UNCHANGED <<search, res, txn>>
    BY DEF CallbackReturn, CallbackReturnParked, ScanFinishOrNext, CallbackQuiet
  <1>2. ~OthersBusy /\ ~OthersBusy'
    BY <1>0, <1>1 DEF CallbackReturn, CallbackReturnParked, ScanFinishOrNext, CallbackQuiet,
                      OthersBusy, SearchActive
  <1>3. ASSUME port' = PullupIf(port, TRUE), ctx'.state \in {"IDLE", "START"},
               ctx'.state = "START" => port.uif
        PROVE  TimerServesOwner'
    <2>1. port'.op = "idle" BY <1>0, <1>3, PortEffects
    <2>2. CASE ctx'.state = "IDLE"
      <3>1. WaitsFor' = "idle" BY <1>2, <2>2 DEF OthersBusy, SearchActive, WaitsFor
      <3> QED BY <2>1, <3>1, Rests
    <2>3. CASE ctx'.state = "START"
      <3>1. port'.uif BY <1>0, <1>3, <2>3 DEF PullupIf, StrongPullup, PortType
      <3> QED BY <2>1, <3>1, Raised
    <2> QED BY <1>3, <2>2, <2>3
  <1>4. ASSUME ctx.state = "START" PROVE port.uif
    BY <1>0, <1>4 DEF TimerServesOwner, WaitsFor, MeasureWaitsFor
  <1>5. CASE CallbackReturnParked
    BY <1>0, <1>1, <1>3, <1>4, <1>5 DEF CallbackReturnParked, CallbackQuiet
  <1>6. CASE ScanFinishOrNext
    <2>1. CASE ~ctx.scan
      BY <1>0, <1>1, <1>3, <1>4, <1>6, <2>1 DEF ScanFinishOrNext, CallbackQuiet
    <2>2. CASE ctx.scan /\ ~LastDevice
      <3>1. ctx'.state = "CONTINUE" /\ port' = ArmWait(port, 0)
        BY <1>0, <1>6, <2>2 DEF ScanFinishOrNext, GapBeforeNext, CtxType
      <3>2. WaitsFor' = "wait" BY <3>1 DEF WaitsFor, MeasureWaitsFor
      <3>3. port'.op = "wait" /\ ~port'.uif BY <1>0, <3>1, PortEffects
      <3> QED BY <1>1, <3>2, <3>3, Armed
    <2>3. CASE ctx.scan /\ LastDevice
      <3>1. ctx'.state = "IDLE" /\ port' = PullupIf(port, TRUE)
        BY <1>0, <1>6, <2>3 DEF ScanFinishOrNext, CtxType
      <3> QED BY <1>1, <1>3, <3>1
    <2> QED BY <2>1, <2>2, <2>3
  <1> QED BY <1>5, <1>6 DEF CallbackReturn

LEMMA TimerSearch ==
    ASSUME TypeInv, TimerInv, SearchPoll
    PROVE  CallbackQuiet' /\ TimerServesOwner'
  <1>0. /\ port \in PortType(Waits) /\ Consumed \in PortType(Waits)
        /\ search \in SearchType /\ TimerServesOwner
    BY ConsumedType DEF TypeInv, TypeOK, Waits, TimerInv
  <1>1. /\ cb' = "none" /\ ~search.finished /\ UNCHANGED <<ctx, res, txn>>
    BY DEF SearchPoll, SearchFinish, SearchReset, SearchCommand, SearchPair, SearchRomBad,
           SearchRom, SearchDone, SearchActive
  <1>2. ctx'.state = "IDLE" /\ res'.finished /\ txn'.finished
    BY <1>1 DEF TimerInv, OwnerInv, OwnersApart, OthersBusy, SearchActive
  <1>3. CallbackQuiet' BY <1>1 DEF CallbackQuiet
  <1>4. ASSUME port.uif PROVE Consumed.op = "idle"
    BY <1>0, <1>4, FlagMeansStopped, PortEffects DEF Consumed
  <1>5. ASSUME ~search'.finished PROVE WaitsFor' = SearchWaitsFor'
    BY <1>2, <1>5 DEF WaitsFor
  <1>6. ASSUME NEW operation \in Ops, NEW phase \in SearchPhases,
               SearchNext(operation, phase),
               search'.phase = phase => SearchWaitsFor' = operation
        PROVE  TimerServesOwner'
    <2>1. search'.phase = phase /\ ~search'.finished
      BY <1>0, <1>1, <1>6 DEF SearchNext, SearchType
    <2>2. port' = Arm(Consumed, operation) BY <1>6 DEF SearchNext
    <2>3. port'.op = operation /\ ~port'.uif BY <1>0, <2>2, PortEffects
    <2> QED BY <1>5, <1>6, <2>1, <2>3, Armed DEF Ops
  <1>7. ASSUME SearchEnd, port.uif PROVE TimerServesOwner'
    <2>1. search'.phase = "DONE" /\ ~search'.finished /\ port' = Consumed
      BY <1>0, <1>1, <1>7 DEF SearchEnd, SearchType
    <2>2. SearchWaitsFor' = "idle" BY <2>1 DEF SearchWaitsFor
    <2> QED BY <1>4, <1>5, <1>7, <2>1, <2>2, Rests
  <1>8. CASE SearchFinish
    <2>1. search'.finished = TRUE /\ port' = port /\ search.phase = "DONE"
      BY <1>0, <1>8 DEF SearchFinish, SearchType
    <2>2. WaitsFor' = "idle" BY <1>2, <2>1 DEF WaitsFor
    <2>3. WaitsFor = "idle" BY <1>1, <1>2, <2>1 DEF WaitsFor, SearchWaitsFor
    <2> QED BY <1>0, <1>3, <2>1, <2>2, <2>3, Serves
  <1>9. CASE SearchReset
    <2>1. CASE SearchNext("command", "CMD")
      BY <1>3, <1>6, <2>1 DEF Ops, SearchPhases, SearchWaitsFor
    <2>2. CASE SearchEnd BY <1>3, <1>7, <1>9, <2>2 DEF SearchReset, SearchDone
    <2> QED BY <1>9, <2>1, <2>2 DEF SearchReset
  <1>10. ASSUME NEW phase \in {"READ_PAIR", "WRITE_READ", "WRITE_DIR"},
                SearchNext("slots", phase)
         PROVE  TimerServesOwner'
    BY <1>6, <1>10 DEF Ops, SearchPhases, SearchWaitsFor
  <1>11. CASE SearchCommand BY <1>3, <1>10, <1>11 DEF SearchCommand
  <1>12. CASE SearchPair
    BY <1>3, <1>7, <1>10, <1>12 DEF SearchPair, SearchDone
  <1>13. CASE SearchRomBad BY <1>3, <1>7, <1>13 DEF SearchRomBad, SearchDone
  <1>14. ASSUME NEW d \in Devices, NEW stop \in BOOLEAN, NEW more \in BOOLEAN,
                SearchRom(d, stop, more)
         PROVE  TimerServesOwner'
    <2> DEFINE s == [search EXCEPT !.left = @ \ {d}, !.prev = d, !.found = @ + 1]
    <2>1. port.uif BY <1>14 DEF SearchRom, SearchDone
    <2>2. \/ search' = [s EXCEPT !.phase = "DONE"] /\ port' = Consumed
          \/ search' = [s EXCEPT !.phase = "RESET"] /\ port' = Arm(Consumed, "reset")
      BY <1>14 DEF SearchRom
    <2>3. CASE search' = [s EXCEPT !.phase = "DONE"] /\ port' = Consumed
      <3>1. search'.phase = "DONE" /\ ~search'.finished BY <1>0, <1>1, <2>3 DEF SearchType
      <3>2. SearchWaitsFor' = "idle" BY <3>1 DEF SearchWaitsFor
      <3> QED BY <1>4, <1>5, <2>1, <2>3, <3>1, <3>2, Rests
    <2>4. CASE search' = [s EXCEPT !.phase = "RESET"] /\ port' = Arm(Consumed, "reset")
      <3>1. search'.phase = "RESET" /\ ~search'.finished BY <1>0, <1>1, <2>4 DEF SearchType
      <3>2. SearchWaitsFor' = "reset" BY <3>1 DEF SearchWaitsFor
      <3>3. port'.op = "reset" /\ ~port'.uif BY <1>0, <2>4, PortEffects
      <3> QED BY <1>5, <3>1, <3>2, <3>3, Armed
    <2> QED BY <2>2, <2>3, <2>4
  <1> QED BY <1>3, <1>8, <1>9, <1>11, <1>12, <1>13, <1>14 DEF SearchPoll

LEMMA TimerRes ==
    ASSUME TypeInv, TimerInv, ResPoll
    PROVE  CallbackQuiet' /\ TimerServesOwner'
  <1>0. /\ port \in PortType(Waits) /\ Consumed \in PortType(Waits)
        /\ ctx \in CtxType /\ res \in ResType /\ TimerServesOwner
    BY ConsumedType DEF TypeInv, TypeOK, Waits, TimerInv
  <1>1. cb' = "none" /\ ~res.finished /\ UNCHANGED <<search, txn>>
    BY DEF ResPoll, ResFinish, ResReset, ResWrite, ResDone
  <1>2. ctx.state = "IDLE" /\ search'.finished /\ txn'.finished
    BY <1>1 DEF TimerInv, OwnerInv, OwnersApart, OthersBusy, SearchActive
  <1>3. CallbackQuiet' BY <1>1 DEF CallbackQuiet
  <1>4. ASSUME port.uif PROVE Consumed.op = "idle"
    BY <1>0, <1>4, FlagMeansStopped, PortEffects DEF Consumed
  <1>5. ctx'.state = "IDLE"
    BY <1>0, <1>2 DEF ResPoll, ResFinish, ResReset, ResWrite, CtxType
  <1>6. ASSUME ~res'.finished PROVE WaitsFor' = ResWaitsFor'
    BY <1>2, <1>5, <1>6 DEF WaitsFor
  <1>7. CASE ResFinish
    <2>1. res'.finished = TRUE /\ port' = port /\ res.phase = "DONE"
      BY <1>0, <1>7 DEF ResFinish, ResType
    <2>2. WaitsFor' = "idle" BY <1>2, <1>5, <2>1 DEF WaitsFor
    <2>3. WaitsFor = "idle" BY <1>1, <1>2, <2>1 DEF WaitsFor, ResWaitsFor
    <2> QED BY <1>0, <1>3, <2>1, <2>2, <2>3, Serves
  <1>8. ASSUME port.uif, port' = Consumed, res'.phase = "DONE", ~res'.finished
        PROVE  TimerServesOwner'
    <2>1. ResWaitsFor' = "idle" BY <1>8 DEF ResWaitsFor
    <2> QED BY <1>4, <1>6, <1>8, <2>1, Rests
  <1>9. CASE ResReset
    <2>1. port.uif BY <1>9 DEF ResReset, ResDone
    <2>2. CASE line.seen
      <3>1. port' = Arm(Consumed, "write") /\ res'.phase = "WRITE" /\ ~res'.finished
        BY <1>0, <1>1, <1>9, <2>2 DEF ResReset, ResType
      <3>2. ResWaitsFor' = "write" BY <3>1 DEF ResWaitsFor
      <3>3. port'.op = "write" /\ ~port'.uif BY <1>0, <3>1, PortEffects
      <3> QED BY <1>3, <1>6, <3>1, <3>2, <3>3, Armed
    <2>3. CASE ~line.seen
      <3>1. port' = Consumed /\ res'.phase = "DONE" /\ ~res'.finished
        BY <1>0, <1>1, <1>9, <2>3 DEF ResReset, ResType
      <3> QED BY <1>3, <1>8, <2>1, <3>1
    <2> QED BY <2>2, <2>3
  <1>10. CASE ResWrite
    <2>1. port.uif /\ port' = Consumed /\ res'.phase = "DONE" /\ ~res'.finished
      BY <1>0, <1>1, <1>10 DEF ResWrite, ResDone, ResType
    <2> QED BY <1>3, <1>8, <2>1
  <1> QED BY <1>7, <1>9, <1>10 DEF ResPoll

LEMMA TimerTxn ==
    ASSUME TypeInv, TimerInv, TxnPoll
    PROVE  CallbackQuiet' /\ TimerServesOwner'
  <1>0. /\ port \in PortType(Waits) /\ Consumed \in PortType(Waits)
        /\ ctx \in CtxType /\ txn \in TxnType /\ TimerServesOwner
    BY ConsumedType DEF TypeInv, TypeOK, Waits, TimerInv
  <1>1. cb' = "none" /\ ~txn.finished /\ UNCHANGED <<search, res>>
    BY DEF TxnPoll, TxnReset, TxnWrite, TxnRead, TxnWait, TxnFinish, TxnDone
  <1>2. ctx.state = "IDLE" /\ search'.finished /\ res'.finished
    BY <1>1 DEF TimerInv, OwnerInv, OwnersApart, OthersBusy, SearchActive
  <1>3. CallbackQuiet' BY <1>1 DEF CallbackQuiet
  <1>4. ASSUME port.uif PROVE Consumed.op = "idle"
    BY <1>0, <1>4, FlagMeansStopped, PortEffects DEF Consumed
  <1>5. ctx'.state = "IDLE"
    BY <1>0, <1>2, AppliedType DEF TxnPoll, TxnReset, TxnWrite, TxnRead, TxnWait, TxnFinish
  <1>6. ASSUME ~txn'.finished PROVE WaitsFor' = TxnWaitsFor'
    BY <1>2, <1>5, <1>6 DEF WaitsFor
  <1>7. CASE TxnFinish
    <2>1. txn'.finished = TRUE /\ port' = port /\ txn.phase = "DONE"
      BY <1>0, <1>7 DEF TxnFinish, TxnType
    <2>2. WaitsFor' = "idle" BY <1>2, <1>5, <2>1 DEF WaitsFor
    <2>3. WaitsFor = "idle" BY <1>1, <1>2, <2>1 DEF WaitsFor, TxnWaitsFor
    <2> QED BY <1>0, <1>3, <2>1, <2>2, <2>3, Serves
  <1>8. CASE TxnReset \/ TxnWrite \/ TxnRead \/ TxnWait
    <2>1. port.uif /\ ~txn'.finished
      BY <1>0, <1>1, <1>8 DEF TxnReset, TxnWrite, TxnRead, TxnWait, TxnDone, TxnType
    <2>2. \A on \in BOOLEAN :
              /\ PullupIf(Consumed, on) \in PortType(Waits)
              /\ PullupIf(Consumed, on).op = "idle" /\ StrongPullup(Consumed, on).op = "idle"
      BY <1>0, <1>4, <2>1, ConsumedType, PortEffects
    <2>3. \/ txn'.phase = "DONE" /\ port'.op = "idle"
          \/ \E p \in PortType(Waits) :
                \/ txn'.phase = "WRITE" /\ port' = Arm(p, "write")
                \/ txn'.phase = "READ" /\ port' = Arm(p, "read")
                \/ txn'.phase = "WAIT" /\ port' = ArmWait(p, 0)
      <3>1. CASE TxnReset BY <1>0, <1>4, <2>1, <2>2, <3>1 DEF TxnReset, TxnType
      <3>2. CASE TxnWrite BY <1>0, <2>2, <3>2 DEF TxnWrite, TxnType
      <3>3. CASE TxnRead BY <1>0, <1>4, <2>1, <3>3 DEF TxnRead, TxnType
      <3>4. CASE TxnWait BY <1>0, <2>2, <3>4 DEF TxnWait, TxnType
      <3> QED BY <1>8, <3>1, <3>2, <3>3, <3>4
    <2>4. CASE txn'.phase = "DONE" /\ port'.op = "idle"
      <3>1. TxnWaitsFor' = "idle" BY <2>4 DEF TxnWaitsFor
      <3> QED BY <1>3, <1>6, <2>1, <2>4, <3>1, Rests
    <2>5. ASSUME NEW p \in PortType(Waits),
                 \/ txn'.phase = "WRITE" /\ port' = Arm(p, "write")
                 \/ txn'.phase = "READ" /\ port' = Arm(p, "read")
                 \/ txn'.phase = "WAIT" /\ port' = ArmWait(p, 0)
          PROVE  TimerServesOwner'
      <3>1. port'.op = TxnWaitsFor' /\ ~port'.uif /\ port'.op # "idle"
        BY <2>5, PortEffects DEF TxnWaitsFor
      <3> QED BY <1>6, <2>1, <3>1, Armed
    <2> QED BY <1>3, <2>3, <2>4, <2>5
  <1> QED BY <1>7, <1>8 DEF TxnPoll

LEMMA TimerNext ==
    ASSUME CallbackCalls \subseteq {"select", "set_parasite", "start_measure"},
           TypeInv, TimerInv, [Next]_vars
    PROVE  TimerInv'
  <1>0. TypeOK /\ port \in PortType(Waits) /\ ctx \in CtxType /\ TimerServesOwner
    BY DEF TypeInv, TypeOK, Waits, TimerInv
  <1>1. OwnerInv' BY <1>0, OwnerNext DEF TimerInv
  <1>2. ASSUME ctx'.state = ctx.state, ctx'.scan = ctx.scan,
               UNCHANGED <<search, res, txn, cb>>
        PROVE  CallbackQuiet' /\ WaitsFor' = WaitsFor
    BY <1>2 DEF TimerInv, CallbackQuiet, OthersBusy, SearchActive, WaitsFor,
                MeasureWaitsFor, SearchWaitsFor, ResWaitsFor, TxnWaitsFor
  <1>3. CASE Hardware
    <2>1. PICK operation : HwEnds(operation)
      BY <1>3 DEF Hardware, HwReset, HwWrite, HwRead, HwWait, HwSearchSlots
    <2>2. CallbackQuiet' BY <1>2, <2>1 DEF HwEnds
    <2>3. port'.op = "idle" /\ port'.uif BY <1>0, <2>1, PortEffects DEF HwEnds
    <2> QED BY <1>1, <2>2, <2>3, Raised DEF TimerInv
  <1>4. ASSUME NEW d \in Devices, Plug(d) PROVE TimerInv'
    BY <1>0, <1>1, <1>2, <1>4, Serves DEF Plug, TimerInv
  <1>5. CASE UNCHANGED vars BY <1>0, <1>1, <1>2, <1>5, Serves DEF vars, TimerInv
  <1>6. CASE TxnPollAgain
    <2>1. ctx'.state = ctx.state /\ ctx'.scan = ctx.scan
      BY <1>0, <1>6, AppliedType DEF TxnPollAgain, TypeOK
    <2> QED BY <1>0, <1>1, <1>2, <1>6, <2>1, Serves DEF TxnPollAgain, TimerInv
  <1>7. CASE \/ Application \/ MeasurePoll \/ CallbackReturn \/ SearchPoll \/ ResPoll
             \/ TxnPoll
    <2>1. CallbackQuiet' /\ TimerServesOwner'
      BY <1>0, <1>7, TimerApplication, TimerMeasure, TimerCallback, TimerSearch, TimerRes,
         TimerTxn
    <2> QED BY <1>1, <2>1 DEF TimerInv
  <1> QED BY <1>3, <1>4, <1>5, <1>6, <1>7 DEF Next

LEMMA TimerInit == Init => TimerInv
  <1> SUFFICES ASSUME Init PROVE TimerInv OBVIOUS
  <1>1. WaitsFor = "idle" /\ port.op = "idle" /\ cb = "none"
    BY DEF Init, PortInit, WaitsFor
  <1> QED BY <1>1, OwnerInit DEF TimerInv, CallbackQuiet, TimerServesOwner

(***************************************************************************)
(* The timer runs what the active engine waits for, or the flag of that    *)
(* operation is still there: no completion is lost, stolen or stale.  It   *)
(* holds for every use of the API from the main loop, and with a callback  *)
(* that selects a device, sets the power mode or requests the next         *)
(* measurement.                                                            *)
(***************************************************************************)
THEOREM TimerCorrect ==
    ASSUME CallbackCalls \subseteq {"select", "set_parasite", "start_measure"}
    PROVE  Spec => []TimerServesOwner
  <1>1. TypeInv /\ TimerInv /\ [Next]_vars => TimerInv' BY TimerNext
  <1>2. TimerInv => TimerServesOwner BY DEF TimerInv
  <1> QED BY <1>1, <1>2, TimerInit, TypeInvariant, PTL DEF Spec

(***************************************************************************)
(* While an operation is in flight, only the hardware moves the port.      *)
(***************************************************************************)
LEMMA RunningOperationUntouched ==
    ASSUME TypeInv, TimerInv, [Next]_vars, port.op # "idle"
    PROVE  port' = port \/ port'.op = "idle"
  <1>0. TypeOK /\ port \in PortType(Waits) /\ TimerServesOwner
    BY DEF TypeInv, TypeOK, Waits, TimerInv
  <1>1. ~port.uif /\ cb = "none" /\ ~TimerFree
    BY <1>0, FlagMeansStopped, FreeTimerRests, CallbackTimerRests
  <1>2. CASE Application
    BY <1>1, <1>2 DEF Application, StartMeasure, ScanStart, Select, SetParasite,
       SearchBegin, SetResolution, TxnCall, TxnStart, TxnCanStart
  <1>3. CASE MeasurePoll
    BY <1>1, <1>3 DEF MeasurePoll, MeasureDone, PollIdle, PollStart, PollConvert, PollWait,
       PollContinue, PollRequest, PollRead, PollDecode
  <1>4. CASE CallbackReturn
    BY <1>1, <1>4 DEF CallbackReturn, CallbackReturnParked, ScanFinishOrNext
  <1>5. CASE SearchPoll
    BY <1>1, <1>5 DEF SearchPoll, SearchFinish, SearchReset, SearchCommand, SearchPair,
       SearchRomBad, SearchRom, SearchDone
  <1>6. CASE ResPoll BY <1>1, <1>6 DEF ResPoll, ResFinish, ResReset, ResWrite, ResDone
  <1>7. CASE TxnPoll \/ TxnPollAgain
    BY <1>1, <1>7 DEF TxnPoll, TxnPollAgain, TxnReset, TxnWrite, TxnRead, TxnWait, TxnFinish,
       TxnDone
  <1>8. CASE Hardware
    BY <1>0, <1>8, PortEffects DEF Hardware, HwReset, HwWrite, HwRead, HwWait,
       HwSearchSlots, HwEnds
  <1>9. ASSUME NEW d \in Devices, Plug(d) PROVE port' = port BY <1>9 DEF Plug
  <1>10. CASE UNCHANGED vars BY <1>10 DEF vars
  <1> QED
    BY <1>2, <1>3, <1>4, <1>5, <1>6, <1>7, <1>8, <1>9, <1>10 DEF Next

(***************************************************************************)
(* The strong pull-up, and with it the update flag, changes only between   *)
(* operations: the update event that engages it never hits a running one.  *)
(***************************************************************************)
THEOREM PullupCorrect ==
    ASSUME CallbackCalls \subseteq {"select", "set_parasite", "start_measure"}
    PROVE  Spec => PullupBetweenOperations
  <1>1. TypeInv /\ TimerInv /\ [Next]_vars => TimerInv' BY TimerNext
  <1>2. TypeInv /\ TimerInv /\ [Next]_vars =>
            [port.op # "idle" /\ port'.op # "idle" =>
                 port'.pin = port.pin /\ port'.uif = port.uif]_vars
    BY RunningOperationUntouched
  <1> QED
    BY <1>1, <1>2, TimerInit, TypeInvariant, PTL DEF Spec, PullupBetweenOperations

-----------------------------------------------------------------------------
(***************************************************************************)
(* The pulse table holds the owner's command.  Each builder runs only when *)
(* its engine owns the timer or is about to, so this is inductive together *)
(* with the ownership invariant.                                           *)
(***************************************************************************)
\* Steps that build nothing and leave every engine where it is, or further.
LEMMA PulsesFrame ==
    ASSUME PulsesServeOwner, UNCHANGED <<pulses, table>>,
           \/ ctx'.state \notin {"WAIT", "READ"}
           \/ /\ ctx'.state = ctx.state /\ ctx'.scan = ctx.scan /\ ctx'.addr = ctx.addr
              /\ ctx'.rom = ctx.rom /\ ctx'.index = ctx.index,
           res' = res \/ res'.finished \/ res'.phase = "DONE"
                      \/ (~res.finished /\ res.phase = "RESET" /\ res'.pending = res.pending),
           txn' = txn \/ txn'.finished \/ txn'.phase = "DONE"
                      \/ (~txn.finished /\ txn.phase # "DONE" /\ txn'.cmd = txn.cmd)
    PROVE  PulsesServeOwner'
  BY DEF PulsesServeOwner

LEMMA PulsesApplication ==
    ASSUME TypeInv, OwnerInv, PulsesServeOwner, Application
    PROVE  PulsesServeOwner'
  <1>0. ctx \in CtxType /\ txn \in TxnType BY DEF TypeInv, TypeOK
  <1>1. CASE StartMeasure
    <2>1. ctx'.state = "START" BY <1>0, <1>1 DEF StartMeasure, CtxType
    <2> QED BY <1>1, <2>1, PulsesFrame DEF StartMeasure
  <1>2. ASSUME ctx.state = "IDLE", ctx'.state = ctx.state,
               UNCHANGED <<pulses, table, res, txn>>
        PROVE  PulsesServeOwner'
    BY <1>2, PulsesFrame
  <1>3. CASE ScanStart
    <2>1. ctx.state = "IDLE" /\ ctx'.state = ctx.state
      BY <1>0, <1>3 DEF ScanStart, TimerFree, CtxType
    <2> QED BY <1>2, <1>3, <2>1 DEF ScanStart
  <1>4. ASSUME NEW rom \in Roms, Select(rom) PROVE PulsesServeOwner'
    <2>1. ctx.state = "IDLE" /\ ctx'.state = ctx.state
      BY <1>0, <1>4 DEF Select, TimerFree, CtxType
    <2> QED BY <1>2, <1>4, <2>1 DEF Select
  <1>5. ASSUME NEW on \in BOOLEAN, SetParasite(on) PROVE PulsesServeOwner'
    <2>1. ctx.state = "IDLE" /\ ctx'.state = ctx.state
      BY <1>0, <1>5 DEF SetParasite, TimerFree, CtxType
    <2> QED BY <1>2, <1>5, <2>1 DEF SetParasite
  <1>6. ASSUME NEW alarm \in BOOLEAN, NEW max \in 0..MaxDevices, SearchBegin(alarm, max)
        PROVE  PulsesServeOwner'
    BY <1>6 DEF SearchBegin, TimerFree, OthersBusy, PulsesServeOwner
  <1>7. ASSUME NEW bits \in Resolutions, SetResolution(bits) PROVE PulsesServeOwner'
    BY <1>7 DEF SetResolution, TimerFree, OthersBusy, PulsesServeOwner
  <1>8. ASSUME NEW cmd \in TxnCmds, TxnCall(cmd) PROVE PulsesServeOwner'
    <2>1. CASE TxnStart(cmd)
      <3>1. /\ ctx'.state = "IDLE" /\ res'.finished /\ pulses'.cmd = cmd
        BY <1>8, <2>1 DEF TxnCall, TxnStart, TxnPulses, TxnCanStart, TimerFree, OthersBusy
      <3>2. txn'.cmd = cmd BY <1>0, <2>1 DEF TxnStart, TxnType
      <3> QED BY <3>1, <3>2 DEF PulsesServeOwner
    <2>2. CASE UNCHANGED <<txn, pulses, port>> BY <1>8, <2>2, PulsesFrame DEF TxnCall
    <2> QED BY <1>8, <2>1, <2>2 DEF TxnCall
  <1> QED BY <1>1, <1>3, <1>4, <1>5, <1>6, <1>7, <1>8 DEF Application

LEMMA PulsesMeasure ==
    ASSUME TypeInv, PulsesServeOwner, MeasurePoll
    PROVE  PulsesServeOwner'
  <1>0. ctx \in CtxType /\ pulses \in PulsesType BY DEF TypeInv, TypeOK
  <1>1. res'.finished /\ txn'.finished /\ UNCHANGED table
    BY DEF MeasurePoll, MeasureDone, OthersBusy, PollIdle, PollStart, PollConvert, PollWait,
           PollContinue, PollRequest, PollRead, PollDecode
  <1>2. ASSUME ctx'.state \notin {"WAIT", "READ"} PROVE PulsesServeOwner'
    BY <1>1, <1>2 DEF PulsesServeOwner
  <1>3. CASE PollIdle \/ PollStart \/ PollWait \/ PollContinue \/ PollRead \/ PollDecode
    <2>1. ctx'.state \in {"IDLE", "CONVERT", "CONTINUE", "REQUEST", "DECODE"}
      <3>1. CASE PollIdle BY <3>1 DEF PollIdle, MeasureDone
      <3>2. CASE PollStart BY <1>0, <3>2 DEF PollStart, CtxType
      <3>3. CASE PollWait BY <1>0, <3>3 DEF PollWait, CtxType
      <3>4. CASE PollContinue BY <1>0, <3>4 DEF PollContinue, CtxType
      <3>5. CASE PollRead BY <1>0, <3>5 DEF PollRead, CtxType
      <3>6. CASE PollDecode BY <1>0, <3>6 DEF PollDecode, CtxType
      <3> QED BY <1>3, <3>1, <3>2, <3>3, <3>4, <3>5, <3>6
    <2> QED BY <1>2, <2>1
  <1>4. ASSUME NEW c \in CtxType, NEW p, NEW cmd, NEW next \in {"WAIT", "READ"},
               IssueCommand(c, p, cmd, next)
        PROVE  \/ ctx'.state = "IDLE"
               \/ /\ ctx'.state = next /\ ctx'.addr = c.addr /\ ctx'.rom = c.rom
                  /\ ctx'.scan = c.scan /\ ctx'.index = c.index
                  /\ pulses'.cmd = cmd /\ (c.addr => pulses'.rom = c.rom)
    BY <1>0, <1>4 DEF IssueCommand, CtxType, PulsesType
  <1>5. CASE PollConvert
    <2>1. RoundContext \in CtxType BY <1>0, RoundContextType
    <2>2. IssueCommand(RoundContext, PullupIf(Consumed, TRUE), "convert_t", "WAIT")
      BY <1>5 DEF PollConvert
    <2>3. \/ ctx'.state = "IDLE"
          \/ /\ ctx'.state = "WAIT" /\ pulses'.cmd = "convert_t"
             /\ ctx'.addr = RoundContext.addr /\ ctx'.rom = RoundContext.rom
             /\ (RoundContext.addr => pulses'.rom = RoundContext.rom)
      BY <1>4, <2>1, <2>2
    <2> QED BY <1>1, <1>2, <2>3 DEF PulsesServeOwner
  <1>6. CASE PollRequest
    <2>1. ReadContext \in CtxType BY <1>6, ReadContextType DEF PollRequest, MeasureDone
    <2>2. ReadContext.scan => ReadContext.addr /\ ReadContext.rom = table.roms[ReadContext.index]
      BY <1>0 DEF ReadContext, CtxType
    <2>3. IssueCommand(ReadContext, PullupIf(Consumed, TRUE), "read_scratchpad", "READ")
      BY <1>6 DEF PollRequest
    <2>4. \/ ctx'.state = "IDLE"
          \/ /\ ctx'.state = "READ" /\ pulses'.cmd = "read_scratchpad"
             /\ ctx'.addr = ReadContext.addr /\ ctx'.rom = ReadContext.rom
             /\ ctx'.scan = ReadContext.scan /\ ctx'.index = ReadContext.index
             /\ (ReadContext.addr => pulses'.rom = ReadContext.rom)
      BY <1>4, <2>1, <2>3
    <2> QED BY <1>1, <1>2, <2>2, <2>4 DEF PulsesServeOwner
  <1> QED BY <1>3, <1>5, <1>6 DEF MeasurePoll

LEMMA PulsesCallback ==
    ASSUME TypeInv, OwnerInv, PulsesServeOwner, CallbackReturn
    PROVE  PulsesServeOwner'
  <1>0. ctx \in CtxType BY DEF TypeInv, TypeOK
  <1>1. UNCHANGED ctx \/ ctx'.state \in {"IDLE", "CONTINUE"}
    BY <1>0 DEF CallbackReturn, CallbackReturnParked, ScanFinishOrNext, CtxType
  <1> QED
    BY <1>1, PulsesFrame DEF CallbackReturn, CallbackReturnParked, ScanFinishOrNext

LEMMA PulsesPolls ==
    ASSUME TypeInv, OwnerInv, PulsesServeOwner,
           SearchPoll \/ ResPoll \/ TxnPoll \/ TxnPollAgain
    PROVE  PulsesServeOwner'
  <1>0. ctx \in CtxType /\ res \in ResType /\ txn \in TxnType BY DEF TypeInv, TypeOK
  <1>1. CASE SearchPoll
    <2>1. ~search.finished /\ UNCHANGED <<ctx, res, txn, pulses>>
      BY <1>1 DEF SearchPoll, SearchFinish, SearchReset, SearchCommand, SearchPair,
                  SearchRomBad, SearchRom, SearchDone, SearchActive
    <2>2. ctx.state = "IDLE" /\ res.finished /\ txn.finished
      BY <2>1 DEF OwnerInv, OwnersApart, OthersBusy, SearchActive
    <2> QED BY <2>1, <2>2 DEF PulsesServeOwner
  <1>2. CASE ResPoll
    <2>1. ~res.finished /\ UNCHANGED <<txn, pulses, table>>
      BY <1>2 DEF ResPoll, ResFinish, ResReset, ResWrite, ResDone
    <2>2. ctx.state = "IDLE" BY <2>1 DEF OwnerInv, OwnersApart, OthersBusy, SearchActive
    <2>3. ctx'.state = "IDLE"
      BY <1>0, <1>2, <2>2 DEF ResPoll, ResFinish, ResReset, ResWrite, CtxType
    <2>4. \/ res'.finished \/ res'.phase = "DONE"
          \/ res.phase = "RESET" /\ res'.pending = res.pending
      BY <1>0, <1>2 DEF ResPoll, ResFinish, ResReset, ResWrite, ResDone, ResType
    <2> QED BY <2>1, <2>3, <2>4, PulsesFrame
  <1>3. CASE TxnPoll \/ TxnPollAgain
    <2>1. UNCHANGED <<res, pulses, table>>
      BY <1>3 DEF TxnPoll, TxnPollAgain, TxnReset, TxnWrite, TxnRead, TxnWait, TxnFinish
    <2>2. /\ ctx'.state = ctx.state /\ ctx'.scan = ctx.scan /\ ctx'.index = ctx.index
          /\ ctx.state \in {"WAIT", "READ"} => ctx'.addr = ctx.addr /\ ctx'.rom = ctx.rom
      <3>1. CASE TxnFinish \/ TxnPollAgain
        <4>1. ctx' \in Applied(want, txn) BY <3>1 DEF TxnFinish, TxnPollAgain
        <4>2. ctx'.addr = ctx.addr /\ ctx'.rom = ctx.rom BY <1>0, <4>1, AppliedType
        <4> QED BY <1>0, <4>1, <4>2, AppliedType
      <3>2. CASE TxnReset \/ TxnWrite \/ TxnRead \/ TxnWait
        BY <3>2 DEF TxnReset, TxnWrite, TxnRead, TxnWait
      <3> QED BY <1>3, <3>1, <3>2 DEF TxnPoll
    <2>3. \/ txn' = txn \/ txn'.finished \/ txn'.phase = "DONE"
          \/ ~txn.finished /\ txn.phase # "DONE" /\ txn'.cmd = txn.cmd
      BY <1>0, <1>3 DEF TxnPoll, TxnPollAgain, TxnReset, TxnWrite, TxnRead, TxnWait,
                        TxnFinish, TxnDone, TxnType
    <2> QED BY <2>1, <2>2, <2>3, PulsesFrame
  <1> QED BY <1>1, <1>2, <1>3

LEMMA PulsesNext ==
    ASSUME TypeInv, OwnerInv, PulsesServeOwner, [Next]_vars
    PROVE  PulsesServeOwner'
  <1>1. CASE Hardware
    BY <1>1, PulsesFrame DEF Hardware, HwReset, HwWrite, HwRead, HwWait, HwSearchSlots, HwEnds
  <1>2. ASSUME NEW d \in Devices, Plug(d) PROVE PulsesServeOwner'
    BY <1>2, PulsesFrame DEF Plug
  <1>3. CASE UNCHANGED vars BY <1>3, PulsesFrame DEF vars
  <1>4. CASE Application BY <1>4, PulsesApplication
  <1>5. CASE MeasurePoll BY <1>5, PulsesMeasure
  <1>6. CASE CallbackReturn BY <1>6, PulsesCallback
  <1>7. CASE SearchPoll \/ ResPoll \/ TxnPoll \/ TxnPollAgain BY <1>7, PulsesPolls
  <1> QED BY <1>1, <1>2, <1>3, <1>4, <1>5, <1>6, <1>7 DEF Next

(***************************************************************************)
(* What the feed DMA reads from phase_pulses is the command of the engine  *)
(* that armed it, addressed as that engine addressed it: no other builder  *)
(* touches the union meanwhile.                                            *)
(***************************************************************************)
THEOREM PulsesCorrect ==
    ASSUME "scan_start" \notin CallbackCalls
    PROVE  Spec => []PulsesServeOwner
  <1>1. Init => OwnerInv /\ PulsesServeOwner
    <2> SUFFICES ASSUME Init PROVE OwnerInv /\ PulsesServeOwner OBVIOUS
    <2>1. ctx.state = "IDLE" /\ res.finished /\ txn.finished BY DEF Init
    <2> QED BY <2>1, OwnerInit DEF PulsesServeOwner
  <1>2. TypeInv /\ OwnerInv /\ PulsesServeOwner /\ [Next]_vars =>
            OwnerInv' /\ PulsesServeOwner'
    BY OwnerNext, PulsesNext DEF TypeInv
  <1> QED BY <1>1, <1>2, TypeInvariant, PTL DEF Spec

=============================================================================
