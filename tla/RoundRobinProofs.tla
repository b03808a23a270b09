-------------------------- MODULE RoundRobinProofs --------------------------
(***************************************************************************)
(* The round-robin example, proved for every number of devices, every      *)
(* table size and every cycle of resolutions: it is one of the main loops  *)
(* the theorems about the driver speak of, and what it prints is right.    *)
(***************************************************************************)
EXTENDS RoundRobin, Ds18b20CycleProofs

-----------------------------------------------------------------------------
(***************************************************************************)
(* The inductive invariant.  The wait of a cycle follows the resolution    *)
(* the driver tracks, which is that of the device read before; so we       *)
(* follow the one device that is addressed now (Target) from the callback, *)
(* where the two part, to the end of the change that brings them together, *)
(* and show that no measurement runs in between.                           *)
(***************************************************************************)
Stages == {"power", "scan", "select", "first", "loop"}

RRType ==
    rr \in [stage : Stages, found : Seq(Devices), sel : Nat \ {0}, idx : 1..Len(ResCycle),
            next : Resolutions \cup {0}, busy : BOOLEAN, told : BOOLEAN]

\* The example uses single-device mode, no command and no pull-up.
PlainBus ==
    /\ ~ctx.scan /\ ~ctx.par /\ port.pin = "od" /\ txn.finished
    /\ pulses.cmd \in {"none", "convert_t", "read_scratchpad", "config"}

\* The one search: its pass never ends with the table full, so what the sink
\* is handed is what the search has just stored.
ScanInv ==
    ~search.finished =>
        /\ rr.stage = "scan"
        /\ ~search.alarm /\ search.max = MaxDevices /\ search.found = table.count
        /\ search.phase # "DONE" => table.count < MaxDevices

\* Whose turn it is, and what is queued when.
TurnInv ==
    /\ rr.sel = 1 \/ rr.sel \in 1..Len(rr.found)
    /\ rr.stage = "select" => rr.found # <<>>
    /\ Asked = IF rr.stage \in {"first", "loop"} THEN Current ELSE NoRom
    /\ rr.stage # "loop" => ctx.state = "IDLE" /\ res.finished /\ rr.next = 0 /\ cb = "none"
    /\ rr.busy <=> ~res.finished
    /\ rr.told => cb # "none"
    /\ cb # "none" => ctx.state = "IDLE"
    /\ rr.next # 0 => ctx.state = "IDLE" /\ ~rr.busy
    /\ cb # "none" /\ ~rr.told =>
           rr.next = 0 /\ Len(round) > 0 /\ round[Len(round)].asked = Asked

Target == Reach(Asked)

TargetCovered == \A d \in Target : dev[d].res <= ctx.res

\* A change reaches the device it is meant for, and is tracked when it ends.
ChangeInv ==
    /\ rr.next = 0 /\ res.finished => TargetCovered
    /\ ~res.finished =>
        /\ res.phase # "DONE" => ~res.applied /\ pulses.rom = Asked
        /\ res.phase = "RESET" /\ port.op = "idle" => line.seen \/ Devices = {}
        /\ res.phase = "DONE" => res.applied \/ Devices = {}
        /\ Rewritten => \A d \in Target : dev[d].res = res.pending

\* The scratchpad a cycle adopts the resolution from is that of its device.
AnswerInv ==
    /\ ctx.state = "DECODE" \/ (ctx.state = "READ" /\ port.op = "idle") => line.heard = Target
    /\ ctx.state = "DECODE" /\ port.op = "idle" /\ ValidScratchpad(line.frame) =>
           \A d \in Target : dev[d].res <= line.frame.res

RRInv == RRType /\ PlainBus /\ ScanInv /\ TurnInv /\ ChangeInv /\ AnswerInv

-----------------------------------------------------------------------------
(***************************************************************************)
(* Every step of the example is a call it may make, a step of the driver   *)
(* or of the hardware, or leaves them alone.                               *)
(***************************************************************************)
RRCalls ==
    \/ SetParasite(FALSE)
    \/ SearchBegin(FALSE, MaxDevices)
    \/ \E rom \in Roms : Select(rom)
    \/ StartMeasure
    \/ \E bits \in Resolutions : SetResolution(bits)

RRStep ==
    \/ RRCalls \/ MeasurePoll \/ CallbackReturn \/ SearchPoll \/ ResPoll \/ Hardware
    \/ UNCHANGED vars

LEMMA InTurnRange ==
    ASSUME NEW n \in Nat \ {0}, NEW i \in Nat
    PROVE  InTurn(i, n) \in 1..n
  <1>1. i % n \in 0..(n - 1) OBVIOUS
  <1> QED BY <1>1 DEF InTurn

LEMMA CycleOfResolutions ==
    /\ Len(ResCycle) \in Nat \ {0}
    /\ \A i \in 1..Len(ResCycle) : ResCycle[i] \in Resolutions /\ ResCycle[i] # 0
  <1>1. ResCycle \in Seq(Resolutions) /\ ResCycle # <<>> BY ResCycleAssumption
  <1>2. 0 \notin Resolutions BY ResolutionAssumption
  <1> QED BY <1>1, <1>2, EmptySeq, LenProperties, ElementOfSeq

\* The devices found, and the one whose turn it is.
LEMMA FoundAreDevices ==
    ASSUME RRType, TurnInv
    PROVE  /\ Len(rr.found) \in Nat /\ (Len(rr.found) = 0 <=> rr.found = <<>>)
           /\ \A i \in 1..Len(rr.found) : rr.found[i] \in Devices
           /\ rr.found # <<>> => rr.sel \in 1..Len(rr.found) /\ Current \in Devices
           /\ rr.found = <<>> => Current = NoRom
           /\ Current \in Roms
  <1>1. rr.found \in Seq(Devices) /\ rr.sel \in Nat \ {0} BY DEF RRType
  <1>2. /\ Len(rr.found) \in Nat /\ (Len(rr.found) = 0 <=> rr.found = <<>>)
        /\ \A i \in 1..Len(rr.found) : rr.found[i] \in Devices
    BY <1>1, EmptySeq, LenProperties, ElementOfSeq
  <1>3. rr.found # <<>> => rr.sel \in 1..Len(rr.found) BY <1>1, <1>2 DEF TurnInv
  <1> QED BY <1>1, <1>2, <1>3 DEF Current, Roms

\* The index the callback selects next.
LEMMA NextTurn ==
    ASSUME RRType, TurnInv, Len(rr.found) > 1
    PROVE  InTurn(rr.sel, Len(rr.found)) \in 1..Len(rr.found)
  <1>1. Len(rr.found) \in Nat \ {0} /\ rr.sel \in Nat BY FoundAreDevices DEF RRType
  <1> QED BY <1>1, InTurnRange

LEMMA Steps ==
    ASSUME Parasitic = {}, RRType, TurnInv, RRNext
    PROVE  RRStep /\ [Next]_vars
  <1>1. RRStep
    <2>1. CASE PowerMode BY <2>1 DEF PowerMode, RRStep, RRCalls
    <2>2. CASE ScanBegin BY <2>2 DEF ScanBegin, RRStep, RRCalls
    <2>3. CASE ScanPoll BY <2>3 DEF ScanPoll, RRStep, SearchPoll
    <2>4. CASE ScanEnd BY <2>4 DEF ScanEnd, RRStep, SearchPoll
    <2>5. CASE SelectFirst BY <2>5, FoundAreDevices DEF SelectFirst, RRStep, RRCalls
    <2>6. CASE MeasureFirst \/ PauseOver
      BY <2>6 DEF MeasureFirst, PauseOver, RRStep, RRCalls
    <2>7. CASE ChangePoll BY <2>7 DEF ChangePoll, RRStep
    <2>8. CASE ChangeStart
      <3>1. rr.next \in Resolutions /\ SetResolution(rr.next)
        BY <2>8 DEF ChangeStart, RRType
      <3> QED BY <3>1 DEF RRStep, RRCalls
    <2>9. CASE DriverPoll BY <2>9 DEF DriverPoll, RRStep
    <2>10. CASE Reported
      <3>1. CASE UNCHANGED vars BY <3>1 DEF RRStep
      <3>2. CASE Len(rr.found) > 1 /\ Select(rr.found[InTurn(rr.sel, Len(rr.found))])
        <4>1. rr.found[InTurn(rr.sel, Len(rr.found))] \in Roms
          BY <3>2, NextTurn, FoundAreDevices DEF Roms
        <4> QED BY <3>2, <4>1 DEF RRStep, RRCalls
      <3> QED BY <2>10, <3>1, <3>2 DEF Reported
    <2>11. CASE Returned BY <2>11 DEF Returned, RRStep
    <2>12. CASE RRHardware BY <2>12 DEF RRHardware, RRStep
    <2> QED
      BY <2>1, <2>2, <2>3, <2>4, <2>5, <2>6, <2>7, <2>8, <2>9, <2>10, <2>11, <2>12
      DEF RRNext, RRLoop
  <1>2. RRCalls => Application
    <2>1. MaxDevices \in 0..MaxDevices BY MaxDevicesAssumption
    <2> QED BY <2>1 DEF RRCalls, Application
  <1> QED BY <1>1, <1>2 DEF RRStep, Next

\* Readings stay fresh over a step of the example, whose devices stay.
LEMMA FreshStep ==
    ASSUME Parasitic = {}, TypeInv, TimerInv, PulsesServeOwner, CycleInv, FreshInv,
           ctx.state = "WAIT" => MeasuredCovered, RRStep
    PROVE  FreshInv'
  <1>0. TypeOK BY DEF TypeInv
  <1>1. RRCalls => Application
    <2>1. MaxDevices \in 0..MaxDevices BY MaxDevicesAssumption
    <2> QED BY <2>1 DEF RRCalls, Application
  <1>2. CASE UNCHANGED vars BY <1>2, FreshFrame DEF vars
  <1> QED
    BY <1>0, <1>1, <1>2, FreshOthers, FreshMeasure, FreshCallback, FreshHardware DEF RRStep

-----------------------------------------------------------------------------
(***************************************************************************)
(* The plain bus.                                                          *)
(***************************************************************************)
LEMMA PlainMeasure ==
    ASSUME TypeInv, PlainBus, MeasurePoll
    PROVE  PlainBus'
  <1> DEFINE engaged  == PullupIf(Consumed, TRUE)
             released == PullupIf(Consumed, FALSE)
  <1>0. /\ ctx \in CtxType /\ pulses \in PulsesType /\ ~ctx.scan /\ ~ctx.par
        /\ Consumed \in PortType(Waits) /\ Consumed.pin = "od"
        /\ engaged \in PortType(Waits) /\ engaged.pin = "od"
        /\ released \in PortType(Waits) /\ released.pin = "od"
    BY ConsumedPin DEF TypeInv, TypeOK, PlainBus
  <1>1. UNCHANGED txn
    BY DEF MeasurePoll, PollIdle, PollStart, PollConvert, PollWait, PollContinue, PollRequest,
           PollRead, PollDecode
  <1>2. RoundContext = ctx /\ ReadContext = ctx BY <1>0 DEF RoundContext, ReadContext
  <1> HIDE DEF engaged, released
  <1>3. StrongPullup(Consumed, FALSE) \in PortType(Waits) /\ StrongPullup(Consumed, FALSE).pin = "od"
    BY <1>0, PortCalls, PinEffects
  <1>4. \A p \in PortType(Waits) : p.pin = "od" =>
            \A operation, us : Arm(p, operation).pin = "od" /\ ArmWait(p, us).pin = "od"
    BY PinEffects
  <1>5. ASSUME NEW next, NEW cmd \in {"convert_t", "read_scratchpad"},
               IssueCommand(ctx, engaged, cmd, next)
        PROVE  PlainBus'
    <2>1. /\ ctx'.scan = ctx.scan /\ ctx'.par = ctx.par BY <1>0, <1>5 DEF IssueCommand, CtxType
    <2>2. pulses' = pulses \/ pulses'.cmd = cmd BY <1>0, <1>5 DEF IssueCommand, PulsesType
    <2>3. port'.pin = "od" BY <1>0, <1>4, <1>5 DEF IssueCommand
    <2> QED BY <1>0, <1>1, <2>1, <2>2, <2>3 DEF PlainBus
  <1>6. CASE PollConvert \/ PollRequest
    BY <1>2, <1>5, <1>6 DEF PollConvert, PollRequest, engaged
  <1>7. CASE ~(PollConvert \/ PollRequest)
    <2>1. ctx'.scan = ctx.scan /\ ctx'.par = ctx.par /\ UNCHANGED pulses
      BY <1>0, <1>7 DEF MeasurePoll, PollIdle, PollStart, PollWait, PollContinue, PollRead,
         PollDecode, CtxType
    <2>2. port'.pin = "od"
      <3>1. CASE PollIdle \/ PollDecode BY <1>0, <3>1 DEF PollIdle, PollDecode
      <3>2. CASE PollStart BY <1>0, <1>4, <3>2 DEF PollStart, released
      <3>3. CASE PollWait BY <1>0, <1>4, <3>3 DEF PollWait, engaged
      <3>4. CASE PollContinue BY <1>3, <1>4, <3>4 DEF PollContinue
      <3>5. CASE PollRead BY <1>0, <1>4, <3>5 DEF PollRead, released
      <3> QED BY <1>7, <3>1, <3>2, <3>3, <3>4, <3>5 DEF MeasurePoll
    <2> QED BY <1>0, <1>1, <2>1, <2>2 DEF PlainBus
  <1> QED BY <1>6, <1>7

LEMMA PlainKept ==
    ASSUME TypeInv, TimerInv, PlainBus, RRStep
    PROVE  PlainBus'
  <1>0. /\ ctx \in CtxType /\ pulses \in PulsesType /\ port \in PortType(Waits)
        /\ Consumed \in PortType(Waits) /\ Consumed.pin = "od"
        /\ ~ctx.scan /\ ~ctx.par /\ port.pin = "od"
    BY ConsumedPin DEF TypeInv, TypeOK, PlainBus, Waits
  <1>1. /\ Kick(port).pin = "od" /\ HwDone(port).pin = "od"
        /\ \A operation : Arm(port, operation).pin = "od" /\ Arm(Consumed, operation).pin = "od"
    BY <1>0, PinEffects
  <1>2. CASE RRCalls
    <2>1. UNCHANGED txn
      BY <1>2 DEF RRCalls, SetParasite, SearchBegin, Select, StartMeasure, SetResolution
    <2>2. ctx'.scan = FALSE /\ ctx'.par = FALSE
      BY <1>0, <1>2 DEF RRCalls, SetParasite, SearchBegin, Select, StartMeasure, SetResolution,
         CtxType
    <2>3. pulses' = pulses \/ pulses'.cmd = "config"
      <3>1. CASE \E bits \in Resolutions : SetResolution(bits)
        <4>1. PICK bits \in Resolutions : SetResolution(bits) BY <3>1
        <4> QED BY <4>1 DEF SetResolution
      <3>2. CASE ~\E bits \in Resolutions : SetResolution(bits)
        BY <1>2, <3>2 DEF RRCalls, SetParasite, SearchBegin, Select, StartMeasure
      <3> QED BY <3>1, <3>2
    <2>4. port'.pin = "od"
      BY <1>0, <1>1, <1>2 DEF RRCalls, SetParasite, SearchBegin, Select, StartMeasure,
         SetResolution
    <2> QED BY <2>1, <2>2, <2>3, <2>4 DEF PlainBus
  <1>3. CASE CallbackReturn
    <2>1. port' = PullupIf(port, TRUE) /\ UNCHANGED <<ctx, pulses, txn>>
      BY <1>0, <1>3 DEF CallbackReturn, CallbackReturnParked, ScanFinishOrNext
    <2>2. port'.pin = "od" BY <1>0, <2>1 DEF PullupIf
    <2> QED BY <2>1, <2>2 DEF PlainBus
  <1>4. CASE SearchPoll
    <2>1. UNCHANGED <<ctx, pulses, txn>>
      BY <1>4 DEF SearchPoll, SearchFinish, SearchReset, SearchCommand, SearchPair, SearchRomBad,
         SearchRom
    <2>2. port'.pin = "od"
      BY <1>0, <1>1, <1>4 DEF SearchPoll, SearchFinish, SearchReset, SearchCommand, SearchPair,
         SearchRomBad, SearchRom, SearchNext, SearchEnd
    <2> QED BY <2>1, <2>2 DEF PlainBus
  <1>5. CASE ResPoll
    <2>1. /\ ctx'.scan = ctx.scan /\ ctx'.par = ctx.par /\ UNCHANGED <<pulses, txn>>
      BY <1>0, <1>5 DEF ResPoll, ResFinish, ResReset, ResWrite, CtxType
    <2>2. port'.pin = "od" BY <1>0, <1>1, <1>5 DEF ResPoll, ResFinish, ResReset, ResWrite
    <2> QED BY <1>0, <2>1, <2>2 DEF PlainBus
  <1>6. CASE Hardware
    <2>1. port' = HwDone(port) /\ UNCHANGED <<ctx, pulses, txn>>
      BY <1>6 DEF Hardware, HwReset, HwWrite, HwRead, HwWait, HwSearchSlots, HwEnds
    <2> QED BY <1>1, <2>1 DEF PlainBus
  <1>7. CASE UNCHANGED vars BY <1>7 DEF vars, PlainBus
  <1> QED BY <1>2, <1>3, <1>4, <1>5, <1>6, <1>7, PlainMeasure DEF RRStep

-----------------------------------------------------------------------------
(***************************************************************************)
(* The search.                                                             *)
(***************************************************************************)
\* What the sink keeps is what the search has just stored.
LEMMA RomStored ==
    ASSUME TypeOK, ScanInv, NEW d \in Devices, NEW more \in BOOLEAN, SearchRom(d, FALSE, more)
    PROVE  /\ table'.roms[table.count] = d /\ table'.count = table.count + 1
           /\ search'.found = search.found + 1 /\ search'.max = search.max
           /\ search'.alarm = search.alarm /\ search'.finished = search.finished
           /\ ~search.finished /\ search.phase # "DONE"
           /\ search'.phase # "DONE" => search'.found < search.max
  <1>0. /\ search \in SearchType /\ table \in TableType /\ search.found \in Nat
        /\ search.max \in Nat /\ MaxDevices \in Nat
    BY MaxDevicesAssumption DEF TypeOK, SearchType
  <1>1. ~search.finished /\ search.phase = "WRITE_DIR"
    BY DEF SearchRom, SearchDone, SearchActive
  <1>2. ~search.alarm /\ table.count < MaxDevices BY <1>1 DEF ScanInv
  <1>3. table' = [roms |-> [table.roms EXCEPT ![table.count] = d], count |-> table.count + 1]
    BY <1>0, <1>2 DEF SearchRom, TableType
  <1>4. table.count \in 0..MaxDevices - 1 /\ table.roms \in [0..MaxDevices - 1 -> Roms]
    BY <1>0, <1>2 DEF TableType
  <1>5. table'.roms[table.count] = d /\ table'.count = table.count + 1 BY <1>3, <1>4
  <1> DEFINE s == [search EXCEPT !.left = @ \ {d}, !.prev = d, !.found = @ + 1]
  <1>6. /\ s.found = search.found + 1 /\ s.max = search.max /\ s.alarm = search.alarm
        /\ s.finished = search.finished /\ s \in SearchType
    <2> DEFINE left == search.left \ {d}
               found == search.found + 1
    <2>1. left \subseteq Devices /\ found \in Nat /\ d \in Roms BY <1>0 DEF SearchType, Roms
    <2>2. s = [search EXCEPT !.left = left, !.prev = d, !.found = found] OBVIOUS
    <2> HIDE DEF s, left, found
    <2>3. /\ s.found = found /\ s.max = search.max /\ s.alarm = search.alarm
          /\ s.finished = search.finished /\ s \in SearchType
      BY <1>0, <2>1, <2>2 DEF SearchType
    <2> QED BY <2>3 DEF found
  <1>7. \/ search' = [s EXCEPT !.phase = "DONE"]
        \/ search' = [s EXCEPT !.phase = "RESET"] /\ ~(s.found >= s.max)
    BY DEF SearchRom
  <1> HIDE DEF s
  <1>8. CASE search' = [s EXCEPT !.phase = "DONE"]
    <2>1. /\ search'.found = s.found /\ search'.max = s.max /\ search'.alarm = s.alarm
          /\ search'.finished = s.finished /\ search'.phase = "DONE"
      BY <1>6, <1>8 DEF SearchType
    <2> QED BY <1>1, <1>5, <1>6, <2>1
  <1>9. CASE search' = [s EXCEPT !.phase = "RESET"] /\ ~(s.found >= s.max)
    <2>1. /\ search'.found = s.found /\ search'.max = s.max /\ search'.alarm = s.alarm
          /\ search'.finished = s.finished
      BY <1>6, <1>9 DEF SearchType
    <2> QED BY <1>0, <1>1, <1>5, <1>6, <1>9, <2>1
  <1> QED BY <1>7, <1>8, <1>9

\* The other polls of the search find nothing.
LEMMA NothingFound ==
    ASSUME TypeOK, SearchReset \/ SearchCommand \/ SearchPair \/ SearchRomBad
    PROVE  /\ UNCHANGED table /\ search.phase # "DONE" /\ ~search.finished
           /\ search'.found = search.found /\ search'.max = search.max
           /\ search'.alarm = search.alarm /\ search'.finished = search.finished
  <1>1. search \in SearchType BY DEF TypeOK
  <1>2. ~search.finished /\ search.phase # "DONE" /\ UNCHANGED table
    BY DEF SearchReset, SearchCommand, SearchPair, SearchRomBad, SearchDone, SearchActive
  <1>3. \E phase : search' = [search EXCEPT !.phase = phase]
    BY DEF SearchReset, SearchCommand, SearchPair, SearchRomBad, SearchNext, SearchEnd
  <1> QED BY <1>1, <1>2, <1>3 DEF SearchType

\* Outside the search the table and its context stand still.
LEMMA SearchStands ==
    ASSUME RRNext, ~ScanBegin, ~ScanPoll, ~ScanEnd
    PROVE  UNCHANGED <<search, table>>
  <1>1. CASE \E rom \in Roms : Select(rom)
    BY <1>1 DEF Select
  <1>2. CASE PowerMode \/ SelectFirst \/ MeasureFirst \/ PauseOver \/ ChangeStart
    BY <1>2 DEF PowerMode, SetParasite, SelectFirst, Select, MeasureFirst, PauseOver,
       StartMeasure, ChangeStart, SetResolution
  <1>3. CASE ChangePoll \/ DriverPoll
    BY <1>3 DEF ChangePoll, ResPoll, ResFinish, ResReset, ResWrite, DriverPoll, MeasurePoll,
       PollIdle, PollStart, PollConvert, PollWait, PollContinue, PollRequest, PollRead, PollDecode
  <1>4. CASE Reported BY <1>4 DEF Reported, Select, vars
  <1>5. CASE Returned
    BY <1>5 DEF Returned, CallbackReturn, CallbackReturnParked, ScanFinishOrNext
  <1>6. CASE RRHardware
    BY <1>6 DEF RRHardware, Hardware, HwReset, HwWrite, HwRead, HwWait, HwSearchSlots, HwEnds
  <1> QED BY <1>2, <1>3, <1>4, <1>5, <1>6 DEF RRNext, RRLoop

LEMMA ScanKept ==
    ASSUME TypeOK, RRType, ScanInv, RRNext
    PROVE  ScanInv'
  <1>0. MaxDevices \in Nat \ {0} /\ search \in SearchType
    BY MaxDevicesAssumption DEF TypeOK
  <1>1. CASE ScanBegin
    <2>1. /\ rr.stage = "scan" /\ rr' = rr
          /\ table' = [table EXCEPT !.count = 0]
          /\ search' = [phase |-> IF MaxDevices = 0 THEN "DONE" ELSE "RESET", alarm |-> FALSE,
                        left |-> Devices, prev |-> NoRom, found |-> 0, max |-> MaxDevices,
                        finished |-> FALSE]
      BY <1>1 DEF ScanBegin, SearchBegin
    <2>2. table'.count = 0 BY <2>1 DEF TypeOK, TableType
    <2> QED BY <1>0, <2>1, <2>2 DEF ScanInv
  <1>2. CASE ScanPoll
    <2>1. rr'.stage = "scan" BY <1>2 DEF ScanPoll, RRType
    <2>2. CASE SearchReset \/ SearchCommand \/ SearchPair \/ SearchRomBad
      BY <2>1, <2>2, NothingFound DEF ScanInv
    <2>3. ASSUME NEW d \in Devices, NEW more \in BOOLEAN, SearchRom(d, FALSE, more)
          PROVE  ScanInv'
      BY <2>1, <2>3, RomStored DEF ScanInv
    <2> QED BY <1>2, <2>2, <2>3 DEF ScanPoll
  <1>3. CASE ScanEnd
    <2>1. search'.finished BY <1>0, <1>3 DEF ScanEnd, SearchFinish, SearchType
    <2> QED BY <2>1 DEF ScanInv
  <1>4. CASE ~ScanBegin /\ ~ScanPoll /\ ~ScanEnd
    <2>1. UNCHANGED <<search, table>> BY <1>4, SearchStands
    <2>2. rr.stage = "scan" => rr'.stage = "scan"
      BY <1>4 DEF RRType, RRNext, RRLoop, PowerMode, SelectFirst, MeasureFirst, ChangePoll,
         ChangeStart, DriverPoll, Reported, Returned, PauseOver, RRHardware
    <2> QED BY <2>1, <2>2 DEF ScanInv
  <1> QED BY <1>1, <1>2, <1>3, <1>4

LEMMA TypeKept ==
    ASSUME TypeOK, RRType, TurnInv, ScanInv, RRNext
    PROVE  RRType'
  <1>1. CASE ScanPoll
    <2>1. rr.found \in Seq(Devices) BY DEF RRType
    <2>2. rr' = [rr EXCEPT !.found = IF search'.found > search.found
                                     THEN Append(@, table'.roms[table.count]) ELSE @]
      BY <1>1 DEF ScanPoll
    <2>3. search.found \in Nat BY DEF TypeOK, SearchType
    <2>4. CASE SearchReset \/ SearchCommand \/ SearchPair \/ SearchRomBad
      <3>1. ~(search'.found > search.found) BY <2>3, <2>4, NothingFound
      <3> QED BY <2>2, <3>1 DEF RRType
    <2>5. ASSUME NEW d \in Devices, NEW more \in BOOLEAN, SearchRom(d, FALSE, more)
          PROVE  RRType'
      <3>1. search'.found > search.found /\ table'.roms[table.count] = d
        <4>1. search'.found = search.found + 1 /\ table'.roms[table.count] = d
          BY <2>5, RomStored
        <4> QED BY <2>3, <4>1
      <3>2. Append(rr.found, d) \in Seq(Devices) BY <2>1, AppendProperties
      <3>3. rr' = [rr EXCEPT !.found = Append(@, d)] BY <2>2, <3>1
      <3> QED BY <3>2, <3>3 DEF RRType
    <2> QED BY <1>1, <2>4, <2>5 DEF ScanPoll
  <1>2. CASE Reported
    <2> DEFINE turn == IF Len(rr.found) > 1 THEN InTurn(rr.sel, Len(rr.found)) ELSE rr.sel
               idx  == InTurn(rr.idx, Len(ResCycle))
    <2>1. rr' = [rr EXCEPT !.sel = turn, !.idx = idx, !.next = ResCycle[idx], !.told = TRUE]
      BY <1>2 DEF Reported
    <2>2. turn \in Nat \ {0}
      <3>1. Len(rr.found) > 1 => turn \in 1..Len(rr.found) BY NextTurn
      <3>2. Len(rr.found) \in Nat BY FoundAreDevices
      <3> QED BY <3>1, <3>2 DEF RRType
    <2>3. idx \in 1..Len(ResCycle)
      BY CycleOfResolutions, InTurnRange DEF RRType
    <2>4. ResCycle[idx] \in Resolutions BY <2>3, CycleOfResolutions
    <2> HIDE DEF turn, idx
    <2> QED BY <2>1, <2>2, <2>3, <2>4 DEF RRType
  <1>3. CASE ChangePoll
    <2>1. rr' = [rr EXCEPT !.busy = ~res'.finished] BY <1>3 DEF ChangePoll
    <2>2. (~res'.finished) \in BOOLEAN OBVIOUS
    <2> QED BY <2>1, <2>2 DEF RRType
  <1>4. CASE ~ScanPoll /\ ~Reported /\ ~ChangePoll
    BY <1>4 DEF RRType, Stages, RRNext, RRLoop, PowerMode, ScanBegin, ScanEnd, SelectFirst,
       MeasureFirst, ChangeStart, DriverPoll, Returned, PauseOver, RRHardware
  <1> QED BY <1>1, <1>2, <1>3, <1>4

-----------------------------------------------------------------------------
(***************************************************************************)
(* The turns.                                                              *)
(***************************************************************************)
\* A poll leaves the address alone; one that reports, reports about it.
LEMMA PollReports ==
    ASSUME TypeOK, PlainBus, MeasurePoll
    PROVE  /\ Asked' = Asked /\ UNCHANGED res
           /\ cb' # "none" => /\ ctx'.state = "IDLE" /\ Len(round') > 0
                              /\ round'[Len(round')].asked = Asked
  <1>0. /\ ctx \in CtxType /\ round \in Seq(Reports) /\ ~ctx.scan
        /\ RoundContext = ctx /\ ReadContext = ctx
    BY DEF TypeOK, PlainBus, RoundContext, ReadContext
  <1>1. cb = "none" /\ UNCHANGED res
    BY DEF MeasurePoll, MeasureDone, PollIdle, PollStart, PollConvert, PollWait, PollContinue,
           PollRequest, PollRead, PollDecode
  <1>2. ASSUME NEW kind, NEW rom, NEW temp, NEW rest, Complete(ctx, kind, rom, temp, rest)
        PROVE  Len(round') > 0 /\ round'[Len(round')].asked = Asked
    <2> DEFINE report == [index |-> ctx.index, kind |-> kind, rom |-> rom, temp |-> temp,
                          asked |-> IF ctx.addr THEN ctx.rom ELSE NoRom]
    <2>1. round' = Append(round, report) /\ report.asked = Asked
      BY <1>2 DEF Complete, Asked
    <2>2. Len(round') = Len(round) + 1 /\ round'[Len(round) + 1] = report /\ Len(round) \in Nat
      <3> HIDE DEF report
      <3>1. Len(round) \in Nat BY <1>0, LenProperties
      <3>2. Len(round') = Len(round) + 1 BY <1>0, <2>1
      <3>3. round'[Len(round) + 1] = report BY <1>0, <2>1, <3>1
      <3> QED BY <3>1, <3>2, <3>3
    <2> HIDE DEF report
    <2> QED BY <2>1, <2>2
  <1>3. ASSUME NEW next, NEW cmd, NEW p, IssueCommand(ctx, p, cmd, next)
        PROVE  /\ Asked' = Asked
               /\ cb' # "none" => /\ ctx'.state = "IDLE" /\ Len(round') > 0
                                  /\ round'[Len(round')].asked = Asked
    <2>1. Asked' = Asked BY <1>0, <1>3 DEF IssueCommand, CtxType, Asked
    <2>2. CASE line.seen BY <1>1, <1>3, <2>1, <2>2 DEF IssueCommand
    <2>3. CASE ~line.seen
      <3>1. Complete(ctx, "no_sensor", NoRom, "old", "parked") /\ ctx' = [ctx EXCEPT !.state = "IDLE"]
        BY <1>3, <2>3 DEF IssueCommand
      <3>2. ctx'.state = "IDLE" BY <1>0, <3>1 DEF CtxType
      <3> QED BY <1>2, <2>1, <3>1, <3>2
    <2> QED BY <2>2, <2>3
  <1>4. CASE PollConvert \/ PollRequest
    BY <1>0, <1>1, <1>3, <1>4 DEF PollConvert, PollRequest
  <1>5. CASE PollDecode
    <2>1. \E kind : Complete(ctx, kind, line.frame.rom, line.frame.temp, "finish")
      BY <1>5 DEF PollDecode
    <2>2. /\ ctx'.state = "IDLE" /\ ctx'.addr = ctx.addr /\ ctx'.rom = ctx.rom
      BY <1>0, <1>5 DEF PollDecode, CtxType
    <2> QED BY <1>1, <1>2, <2>1, <2>2 DEF Asked
  <1>6. CASE PollIdle \/ PollStart \/ PollWait \/ PollContinue \/ PollRead
    <2>1. cb' = "none" /\ ctx'.addr = ctx.addr /\ ctx'.rom = ctx.rom
      BY <1>0, <1>1, <1>6 DEF PollIdle, PollStart, PollWait, PollContinue, PollRead, CtxType
    <2> QED BY <1>1, <2>1 DEF Asked
  <1> QED BY <1>4, <1>5, <1>6 DEF MeasurePoll

\* Selecting a device addresses it.
LEMMA SelectAsks ==
    ASSUME ctx \in CtxType, NEW rom \in Roms, Select(rom)
    PROVE  /\ Asked' = rom /\ ctx'.state = ctx.state /\ ctx.state = "IDLE" /\ ctx'.res = ctx.res
           /\ UNCHANGED <<port, table, search, res, txn, pulses, line, dev, cb, led, want, round>>
  <1>1. ctx' = [ctx EXCEPT !.scan = FALSE, !.addr = (rom # NoRom),
                           !.rom = IF rom = NoRom THEN @ ELSE rom]
    BY DEF Select
  <1>2. CASE rom = NoRom
    <2>1. ctx' = [ctx EXCEPT !.scan = FALSE, !.addr = FALSE] BY <1>1, <1>2 DEF CtxType
    <2>2. ~ctx'.addr /\ ctx'.state = ctx.state /\ ctx'.res = ctx.res BY <2>1 DEF CtxType
    <2> QED BY <1>2, <2>2 DEF Asked, Select, TimerFree
  <1>3. CASE rom # NoRom
    <2>1. ctx' = [ctx EXCEPT !.scan = FALSE, !.addr = TRUE, !.rom = rom] BY <1>1, <1>3
    <2>2. ctx'.addr /\ ctx'.rom = rom /\ ctx'.state = ctx.state /\ ctx'.res = ctx.res
      BY <2>1 DEF CtxType
    <2> QED BY <2>2 DEF Asked, Select, TimerFree
  <1> QED BY <1>2, <1>3

\* Stages and queue are as they were.
LEMMA TurnFrame ==
    ASSUME TurnInv, rr' = rr, Asked' = Asked, res'.finished = res.finished,
           ctx'.state = ctx.state, UNCHANGED <<cb, round>>
    PROVE  TurnInv'
  BY DEF TurnInv, Current

LEMMA TurnScan ==
    ASSUME TypeOK, RRType, ScanInv, TurnInv, PowerMode \/ ScanBegin \/ ScanPoll \/ ScanEnd
    PROVE  TurnInv'
  <1>0. ctx \in CtxType /\ UNCHANGED <<cb, round, res>>
    BY DEF TypeOK, PowerMode, SetParasite, ScanBegin, SearchBegin, ScanPoll, SearchReset,
           SearchCommand, SearchPair, SearchRomBad, SearchRom, ScanEnd, SearchFinish
  <1>1. Asked' = Asked /\ ctx'.state = ctx.state
    BY <1>0 DEF CtxType, Asked, PowerMode, SetParasite, ScanBegin, SearchBegin, ScanPoll,
       SearchReset, SearchCommand, SearchPair, SearchRomBad, SearchRom, ScanEnd, SearchFinish
  <1>2. CASE PowerMode
    <2>1. rr.stage = "power" /\ rr' = [rr EXCEPT !.stage = "scan"] BY <1>2 DEF PowerMode
    <2> QED BY <1>0, <1>1, <2>1 DEF TurnInv, RRType
  <1>3. CASE ScanBegin BY <1>0, <1>1, <1>3, TurnFrame DEF ScanBegin
  <1>4. CASE ScanPoll
    <2>1. rr.stage = "scan" BY <1>4 DEF ScanPoll
    <2>2. rr' = rr \/ \E d \in Devices : rr' = [rr EXCEPT !.found = Append(@, d)]
      <3>1. search.found \in Nat BY DEF TypeOK, SearchType
      <3>2. rr' = [rr EXCEPT !.found = IF search'.found > search.found
                                       THEN Append(@, table'.roms[table.count]) ELSE @]
        BY <1>4 DEF ScanPoll
      <3>3. CASE SearchReset \/ SearchCommand \/ SearchPair \/ SearchRomBad
        <4>1. ~(search'.found > search.found) BY <3>1, <3>3, NothingFound
        <4> QED BY <3>2, <4>1 DEF RRType
      <3>4. ASSUME NEW d \in Devices, NEW more \in BOOLEAN, SearchRom(d, FALSE, more)
            PROVE  rr' = [rr EXCEPT !.found = Append(@, d)]
        <4>1. search'.found = search.found + 1 /\ table'.roms[table.count] = d
          BY <3>4, RomStored
        <4>2. search'.found > search.found BY <3>1, <4>1
        <4> QED BY <3>2, <4>1, <4>2
      <3> QED BY <1>4, <3>3, <3>4 DEF ScanPoll
    <2>3. CASE rr' = rr BY <1>0, <1>1, <2>3, TurnFrame
    <2>4. ASSUME NEW d \in Devices, rr' = [rr EXCEPT !.found = Append(@, d)] PROVE TurnInv'
      <3>1. /\ rr'.found = Append(rr.found, d) /\ rr'.sel = rr.sel /\ rr'.stage = rr.stage
            /\ rr'.next = rr.next /\ rr'.busy = rr.busy /\ rr'.told = rr.told
        BY <2>4 DEF RRType
      <3>2. rr.found \in Seq(Devices) BY DEF RRType
      <3>3. Len(rr'.found) = Len(rr.found) + 1 /\ Len(rr.found) \in Nat
        BY <3>1, <3>2, AppendProperties, LenProperties
      <3>4. rr'.sel = 1 \/ rr'.sel \in 1..Len(rr'.found) BY <3>1, <3>3 DEF TurnInv
      <3> QED BY <1>0, <1>1, <2>1, <3>1, <3>4 DEF TurnInv
    <2> QED BY <2>2, <2>3, <2>4
  <1>5. CASE ScanEnd
    <2>1. /\ rr.stage = "scan"
          /\ rr' = [rr EXCEPT !.stage = IF rr.found = <<>> THEN "loop" ELSE "select"]
      BY <1>5 DEF ScanEnd
    <2>2. /\ rr'.found = rr.found /\ rr'.sel = rr.sel /\ rr'.next = rr.next
          /\ rr'.busy = rr.busy /\ rr'.told = rr.told
          /\ rr'.stage = IF rr.found = <<>> THEN "loop" ELSE "select"
      BY <2>1 DEF RRType
    <2>3. rr.found = <<>> => Current' = NoRom BY <2>2 DEF Current
    <2> QED BY <1>0, <1>1, <2>1, <2>2, <2>3 DEF TurnInv
  <1> QED BY <1>2, <1>3, <1>4, <1>5

LEMMA TurnStart ==
    ASSUME TypeOK, TimerInv, RRType, TurnInv,
           SelectFirst \/ MeasureFirst \/ PauseOver \/ ChangeStart
    PROVE  TurnInv'
  <1>0. ctx \in CtxType BY DEF TypeOK
  <1>1. CASE SelectFirst
    <2>1. rr.stage = "select" /\ rr' = [rr EXCEPT !.stage = "first"] /\ Select(Current)
      BY <1>1 DEF SelectFirst
    <2>2. /\ Asked' = Current /\ ctx'.state = ctx.state /\ UNCHANGED <<cb, round, res>>
      BY <1>0, <2>1, FoundAreDevices, SelectAsks
    <2>3. /\ rr'.found = rr.found /\ rr'.sel = rr.sel /\ rr'.next = rr.next
          /\ rr'.busy = rr.busy /\ rr'.told = rr.told /\ rr'.stage = "first"
      BY <2>1 DEF RRType
    <2>4. Current' = Current BY <2>3 DEF Current
    <2> QED BY <2>1, <2>2, <2>3, <2>4 DEF TurnInv
  <1>2. CASE MeasureFirst \/ PauseOver
    <2>1. StartMeasure /\ rr.next = 0 /\ rr.stage \in {"first", "loop"} /\ cb = "none"
      BY <1>2 DEF MeasureFirst, PauseOver, InLoop, NothingQueued, TurnInv
    <2>2. /\ ctx'.state = "START" /\ Asked' = Asked /\ UNCHANGED <<cb, round, res>>
      BY <1>0, <2>1 DEF StartMeasure, CtxType, Asked
    <2>3. /\ rr'.found = rr.found /\ rr'.sel = rr.sel /\ rr'.next = rr.next
          /\ rr'.busy = rr.busy /\ rr'.told = rr.told /\ rr'.stage = "loop"
      BY <1>2 DEF MeasureFirst, PauseOver, InLoop, RRType
    <2>4. Current' = Current BY <2>3 DEF Current
    <2> QED BY <2>1, <2>2, <2>3, <2>4 DEF TurnInv
  <1>3. CASE ChangeStart
    <2>1. /\ rr.stage = "loop" /\ cb = "none" /\ SetResolution(rr.next)
          /\ rr' = [rr EXCEPT !.next = 0, !.busy = TRUE]
      BY <1>3 DEF ChangeStart, InLoop
    <2>2. ctx.state = "IDLE" /\ UNCHANGED <<ctx, cb, round>> /\ res'.finished = FALSE
      BY <2>1 DEF SetResolution, TimerFree
    <2>3. /\ rr'.found = rr.found /\ rr'.sel = rr.sel /\ rr'.next = 0
          /\ rr'.busy /\ rr'.told = rr.told /\ rr'.stage = "loop"
      BY <2>1 DEF RRType
    <2>4. Current' = Current /\ Asked' = Asked BY <2>2, <2>3 DEF Current, Asked
    <2> QED BY <2>1, <2>2, <2>3, <2>4 DEF TurnInv
  <1> QED BY <1>1, <1>2, <1>3

LEMMA TurnPoll ==
    ASSUME TypeOK, TimerInv, RRType, PlainBus, TurnInv, ChangePoll \/ DriverPoll \/ RRHardware
    PROVE  TurnInv'
  <1>0. ctx \in CtxType BY DEF TypeOK
  <1>1. CASE ChangePoll
    <2>1. /\ rr.stage = "loop" /\ cb = "none" /\ ResPoll
          /\ rr' = [rr EXCEPT !.busy = ~res'.finished]
      BY <1>1 DEF ChangePoll, InLoop
    <2>2. /\ Asked' = Asked /\ ctx'.state = ctx.state /\ UNCHANGED <<cb, round>>
      BY <1>0, <2>1 DEF ResPoll, ResFinish, ResReset, ResWrite, CtxType, Asked
    <2>3. /\ rr'.found = rr.found /\ rr'.sel = rr.sel /\ rr'.next = rr.next
          /\ rr'.told = rr.told /\ rr'.stage = "loop"
      BY <2>1 DEF RRType
    <2>4. rr'.busy <=> ~res'.finished BY <2>1 DEF RRType
    <2>5. Current' = Current BY <2>3 DEF Current
    <2>6. rr.next = 0 BY <1>1 DEF ChangePoll, TurnInv
    <2> QED BY <2>1, <2>2, <2>3, <2>4, <2>5, <2>6 DEF TurnInv
  <1>2. CASE DriverPoll
    <2>1. rr' = rr /\ MeasurePoll /\ cb = "none" /\ rr.stage = "loop" /\ rr.next = 0
      BY <1>2 DEF DriverPoll, InLoop, NothingQueued
    <2>2. /\ Asked' = Asked /\ UNCHANGED res
          /\ cb' # "none" => /\ ctx'.state = "IDLE" /\ Len(round') > 0
                             /\ round'[Len(round')].asked = Asked
      BY <2>1, PollReports
    <2>3. Current' = Current BY <2>1 DEF Current
    <2> QED BY <2>1, <2>2, <2>3 DEF TurnInv
  <1>3. CASE RRHardware
    <2>1. UNCHANGED <<ctx, res, cb, round, rr>>
      BY <1>3 DEF RRHardware, Hardware, HwReset, HwWrite, HwRead, HwWait, HwSearchSlots, HwEnds
    <2> QED BY <2>1, TurnFrame DEF Asked
  <1> QED BY <1>1, <1>2, <1>3

LEMMA TurnCallback ==
    ASSUME TypeOK, TimerInv, RRType, PlainBus, TurnInv, Reported \/ Returned
    PROVE  TurnInv'
  <1>0. ctx \in CtxType /\ cb # "none" /\ rr.stage = "loop" /\ ctx.state = "IDLE"
    BY DEF TypeOK, Reported, Returned, TurnInv
  <1>1. CASE Reported
    <2> DEFINE turn == IF Len(rr.found) > 1 THEN InTurn(rr.sel, Len(rr.found)) ELSE rr.sel
               idx  == InTurn(rr.idx, Len(ResCycle))
    <2>1. /\ ~rr.told
          /\ rr' = [rr EXCEPT !.sel = turn, !.idx = idx, !.next = ResCycle[idx], !.told = TRUE]
          /\ \/ Len(rr.found) > 1 /\ Select(rr.found[turn])
             \/ Len(rr.found) <= 1 /\ UNCHANGED vars
      BY <1>1 DEF Reported
    <2>2. /\ rr'.found = rr.found /\ rr'.sel = turn /\ rr'.busy = rr.busy
          /\ rr'.told /\ rr'.stage = "loop"
      <3> HIDE DEF turn, idx
      <3> QED BY <1>0, <2>1 DEF RRType
    <2>3. res.finished BY <1>0 DEF TimerInv, CallbackQuiet, OthersBusy
    <2>4. /\ Asked' = Current' /\ ctx'.state = "IDLE" /\ UNCHANGED <<res, cb>>
      <3>1. CASE Len(rr.found) > 1 /\ Select(rr.found[turn])
        <4>1. turn \in 1..Len(rr.found) BY <3>1, NextTurn
        <4>2. rr.found[turn] \in Roms BY <4>1, FoundAreDevices DEF Roms
        <4>3. Asked' = rr.found[turn] /\ ctx'.state = "IDLE" /\ UNCHANGED <<res, cb>>
          BY <1>0, <3>1, <4>2, SelectAsks
        <4>4. Current' = rr.found[turn]
          <5>1. rr.found # <<>> BY <3>1
          <5> QED BY <2>2, <5>1 DEF Current
        <4> QED BY <4>3, <4>4
      <3>2. CASE Len(rr.found) <= 1 /\ UNCHANGED vars
        <4>1. turn = rr.sel BY <3>2, FoundAreDevices
        <4>2. Current' = Current BY <2>2, <4>1 DEF Current
        <4>3. Asked' = Asked /\ UNCHANGED <<ctx, res, cb>> BY <3>2 DEF vars, Asked
        <4> QED BY <1>0, <4>2, <4>3 DEF TurnInv
      <3> QED BY <2>1, <3>1, <3>2
    <2>5. rr'.sel = 1 \/ rr'.sel \in 1..Len(rr'.found)
      <3>1. CASE Len(rr.found) > 1 BY <2>2, <3>1, NextTurn
      <3>2. CASE Len(rr.found) <= 1 BY <2>2, <3>2, FoundAreDevices DEF TurnInv
      <3> QED BY <3>1, <3>2, FoundAreDevices
    <2> HIDE DEF turn, idx
    <2>6. ~rr'.busy BY <2>2, <2>3 DEF TurnInv
    <2> QED BY <1>0, <2>2, <2>3, <2>4, <2>5, <2>6 DEF TurnInv
  <1>2. CASE Returned
    <2>1. rr' = [rr EXCEPT !.told = FALSE] /\ CallbackReturn BY <1>2 DEF Returned
    <2>2. UNCHANGED <<ctx, res>> /\ cb' = "none"
      BY <2>1 DEF CallbackReturn, CallbackReturnParked, ScanFinishOrNext, PlainBus
    <2>3. /\ rr'.found = rr.found /\ rr'.sel = rr.sel /\ rr'.next = rr.next
          /\ rr'.busy = rr.busy /\ ~rr'.told /\ rr'.stage = "loop"
      BY <1>0, <2>1 DEF RRType
    <2>4. Current' = Current /\ Asked' = Asked BY <2>2, <2>3 DEF Current, Asked
    <2> QED BY <1>0, <2>2, <2>3, <2>4 DEF TurnInv
  <1> QED BY <1>1, <1>2

LEMMA TurnKept ==
    ASSUME TypeOK, TimerInv, RRType, PlainBus, ScanInv, TurnInv, RRNext
    PROVE  TurnInv'
  BY TurnScan, TurnStart, TurnPoll, TurnCallback DEF RRNext, RRLoop

-----------------------------------------------------------------------------
(***************************************************************************)
(* The resolutions.                                                        *)
(***************************************************************************)
LEMMA AnswerRests == ASSUME ctx'.state \notin {"READ", "DECODE"} PROVE AnswerInv'
  BY DEF AnswerInv

LEMMA TargetsAreDevices == ASSUME TypeOK PROVE Target \subseteq Devices
  BY DEF TypeOK, CtxType, Target, Reach, Asked, Roms

\* No change runs, and none of the resolutions moves.
LEMMA ChangeRests ==
    ASSUME TypeOK, ChangeInv, res.finished, res'.finished, Asked' = Asked, ctx'.res = ctx.res,
           \A d \in Devices : dev'[d].res = dev[d].res, rr'.next = rr.next
    PROVE  ChangeInv'
  <1>1. Target' = Target /\ Target \subseteq Devices BY TargetsAreDevices DEF Target, Reach
  <1> QED BY <1>1 DEF ChangeInv, TargetCovered

LEMMA ChangeScan ==
    ASSUME TypeOK, TimerInv, RRType, TurnInv, ChangeInv,
           PowerMode \/ ScanBegin \/ ScanPoll \/ ScanEnd \/ MeasureFirst \/ PauseOver
    PROVE  ChangeInv' /\ AnswerInv'
  <1>0. ctx \in CtxType /\ UNCHANGED <<res, dev>>
    BY DEF TypeOK, PowerMode, SetParasite, ScanBegin, SearchBegin, ScanPoll, SearchReset,
           SearchCommand, SearchPair, SearchRomBad, SearchRom, ScanEnd, SearchFinish,
           MeasureFirst, PauseOver, StartMeasure
  <1>1. Asked' = Asked /\ ctx'.res = ctx.res
    BY <1>0 DEF CtxType, Asked, PowerMode, SetParasite, ScanBegin, SearchBegin, ScanPoll,
       SearchReset, SearchCommand, SearchPair, SearchRomBad, SearchRom, ScanEnd, SearchFinish,
       MeasureFirst, PauseOver, StartMeasure
  <1>2. ctx'.state \in {"IDLE", "START"} /\ res.finished
    <2>1. CASE MeasureFirst \/ PauseOver
      BY <1>0, <2>1 DEF MeasureFirst, PauseOver, StartMeasure, CtxType, TimerFree, OthersBusy
    <2>2. CASE PowerMode \/ ScanBegin \/ ScanPoll \/ ScanEnd
      <3>1. rr.stage # "loop" BY <2>2 DEF PowerMode, ScanBegin, ScanPoll, ScanEnd
      <3>2. ctx'.state = ctx.state
        BY <1>0, <2>2 DEF CtxType, PowerMode, SetParasite, ScanBegin, SearchBegin, ScanPoll,
           SearchReset, SearchCommand, SearchPair, SearchRomBad, SearchRom, ScanEnd, SearchFinish
      <3> QED BY <3>1, <3>2 DEF TurnInv
    <2> QED BY <2>1, <2>2
  <1>3. rr'.next = rr.next
    BY DEF RRType, PowerMode, ScanBegin, ScanPoll, ScanEnd, MeasureFirst, PauseOver
  <1>4. ChangeInv' BY <1>0, <1>1, <1>2, <1>3, ChangeRests
  <1> QED BY <1>2, <1>4, AnswerRests

\* The first device is covered by the default resolution, as all are.
LEMMA ChangeSelect ==
    ASSUME TypeOK, RRType, TurnInv, ChangeInv, SelectFirst
    PROVE  ChangeInv' /\ AnswerInv'
  <1>1. rr.stage = "select" /\ Select(Current) /\ ctx \in CtxType
    BY DEF SelectFirst, TypeOK
  <1>2. /\ Asked' = Current /\ ctx'.state = "IDLE" /\ ctx'.res = ctx.res
        /\ UNCHANGED <<dev, res>>
    BY <1>1, FoundAreDevices, SelectAsks
  <1>3. Asked = NoRom /\ rr.next = 0 /\ res.finished BY <1>1 DEF TurnInv
  <1>4. \A d \in Devices : dev[d].res <= ctx.res
    BY <1>3 DEF ChangeInv, TargetCovered, Target, Reach
  <1>5. Target' \subseteq Devices BY <1>2, FoundAreDevices DEF Target, Reach, Roms
  <1> QED BY <1>2, <1>3, <1>4, <1>5, AnswerRests DEF ChangeInv, TargetCovered

LEMMA ChangeStarts ==
    ASSUME TypeOK, RRType, PlainBus, ChangeStart
    PROVE  ChangeInv' /\ AnswerInv'
  <1>1. /\ SetResolution(rr.next) /\ port \in PortType(Waits) /\ ctx.state = "IDLE"
    BY DEF ChangeStart, SetResolution, TimerFree, TypeOK, Waits
  <1>2. /\ res' = [phase |-> "RESET", pending |-> rr.next, applied |-> FALSE, finished |-> FALSE]
        /\ pulses'.rom = Asked /\ port' = Arm(port, "reset") /\ UNCHANGED ctx
    BY <1>1 DEF SetResolution, PlainBus, Asked
  <1>3. port'.op = "reset" BY <1>1, <1>2, PortEffects
  <1>4. Asked' = Asked /\ ~Rewritten' BY <1>2, <1>3 DEF Asked, Rewritten
  <1> QED BY <1>1, <1>2, <1>3, <1>4, AnswerRests DEF ChangeInv

LEMMA ChangePolled ==
    ASSUME TypeOK, TimerInv, RRType, TurnInv, ChangeInv, ChangePoll
    PROVE  ChangeInv' /\ AnswerInv'
  <1>0. /\ ctx \in CtxType /\ res \in ResType /\ port \in PortType(Waits)
        /\ Consumed \in PortType(Waits) /\ Consumed.op = port.op
    BY ConsumedPin DEF TypeOK, Waits
  <1>1. ResPoll /\ ~res.finished /\ UNCHANGED <<dev, pulses, line>>
    BY DEF ChangePoll, ResPoll, ResFinish, ResReset, ResWrite, ResDone
  <1>2. ctx.state = "IDLE"
    BY <1>1 DEF TimerInv, OwnerInv, OwnersApart, OthersBusy, SearchActive
  <1>3. Asked' = Asked /\ ctx'.state = "IDLE" /\ Target' = Target
    BY <1>0, <1>1, <1>2 DEF ResPoll, ResFinish, ResReset, ResWrite, CtxType, Asked, Target, Reach
  <1>4. Target \subseteq Devices /\ \A d \in Devices : dev[d].res \in Nat
    BY TargetsAreDevices, ResolutionsAreNumbers
  <1>5. CASE ResFinish
    <2>1. res.phase = "DONE" /\ res'.finished
          /\ ctx'.res = IF res.applied THEN res.pending ELSE ctx.res
      BY <1>0, <1>5 DEF ResFinish, CtxType, ResType
    <2>2. \A d \in Target : dev[d].res <= ctx'.res
      <3>1. CASE res.applied
        <4>1. Rewritten BY <1>1, <2>1, <3>1 DEF Rewritten
        <4> QED BY <1>1, <1>4, <2>1, <3>1, <4>1 DEF ChangeInv
      <3>2. CASE Devices = {} BY <1>4, <3>2
      <3> QED BY <1>1, <2>1, <3>1, <3>2 DEF ChangeInv
    <2> QED BY <1>1, <1>3, <2>1, <2>2, AnswerRests DEF ChangeInv, TargetCovered
  <1>6. CASE ResReset
    <2>1. /\ res.phase = "RESET" /\ port.uif
          /\ \/ line.seen /\ res' = [res EXCEPT !.phase = "WRITE"] /\ port' = Arm(Consumed, "write")
             \/ ~line.seen /\ res' = [res EXCEPT !.phase = "DONE"]
      BY <1>6 DEF ResReset, ResDone
    <2>2. port.op = "idle" BY <2>1, FlagMeansStopped DEF TimerInv
    <2>3. ~res.applied /\ pulses.rom = Asked /\ (line.seen \/ Devices = {})
      BY <1>1, <2>1, <2>2 DEF ChangeInv
    <2>4. CASE res' = [res EXCEPT !.phase = "WRITE"] /\ port' = Arm(Consumed, "write")
      <3>1. port'.op = "write" BY <1>0, <2>4, PortEffects
      <3>2. res'.phase = "WRITE" /\ ~res'.applied /\ ~res'.finished
        BY <1>0, <1>1, <2>3, <2>4 DEF ResType
      <3>3. ~Rewritten' BY <3>1, <3>2 DEF Rewritten
      <3> QED BY <1>1, <1>3, <2>3, <3>2, <3>3, AnswerRests DEF ChangeInv
    <2>5. CASE ~line.seen /\ res' = [res EXCEPT !.phase = "DONE"]
      <3>1. res'.phase = "DONE" /\ ~res'.applied /\ ~res'.finished
        BY <1>0, <1>1, <2>3, <2>5 DEF ResType
      <3>2. ~Rewritten' BY <3>1 DEF Rewritten
      <3> QED BY <2>3, <2>5, <3>1, <3>2, <1>3, AnswerRests DEF ChangeInv
    <2> QED BY <2>1, <2>4, <2>5
  <1>7. CASE ResWrite
    <2>1. /\ res.phase = "WRITE" /\ port.uif
          /\ res' = [res EXCEPT !.phase = "DONE", !.applied = TRUE]
      BY <1>7 DEF ResWrite, ResDone
    <2>2. port.op = "idle" BY <2>1, FlagMeansStopped DEF TimerInv
    <2>3. Rewritten BY <1>1, <2>1, <2>2 DEF Rewritten
    <2>4. \A d \in Target : dev[d].res = res.pending BY <1>1, <2>3 DEF ChangeInv
    <2>5. res'.phase = "DONE" /\ res'.applied /\ res'.pending = res.pending /\ ~res'.finished
      BY <1>0, <1>1, <2>1 DEF ResType
    <2> QED BY <1>1, <1>3, <2>4, <2>5, AnswerRests DEF ChangeInv
  <1> QED BY <1>1, <1>5, <1>6, <1>7 DEF ResPoll

\* The callback queues a change, or returns.
LEMMA ChangeCallback ==
    ASSUME TypeOK, TimerInv, RRType, PlainBus, TurnInv, ChangeInv, Reported \/ Returned
    PROVE  ChangeInv' /\ AnswerInv'
  <1>0. ctx \in CtxType /\ cb # "none" /\ ctx.state = "IDLE" /\ res.finished
    BY DEF TypeOK, Reported, Returned, TurnInv, TimerInv, CallbackQuiet, OthersBusy
  <1>1. CASE Reported
    <2> DEFINE turn == IF Len(rr.found) > 1 THEN InTurn(rr.sel, Len(rr.found)) ELSE rr.sel
               idx  == InTurn(rr.idx, Len(ResCycle))
    <2>1. /\ rr' = [rr EXCEPT !.sel = turn, !.idx = idx, !.next = ResCycle[idx], !.told = TRUE]
          /\ \/ Len(rr.found) > 1 /\ Select(rr.found[turn])
             \/ Len(rr.found) <= 1 /\ UNCHANGED vars
      BY <1>1 DEF Reported
    <2>2. ResCycle[idx] # 0
      <3>1. idx \in 1..Len(ResCycle) BY CycleOfResolutions, InTurnRange DEF RRType
      <3> QED BY <3>1, CycleOfResolutions
    <2>3. ctx'.state = "IDLE" /\ UNCHANGED res
      <3>1. CASE Select(rr.found[turn]) BY <1>0, <3>1 DEF Select, CtxType
      <3>2. CASE UNCHANGED vars BY <1>0, <3>2 DEF vars
      <3> QED BY <2>1, <3>1, <3>2
    <2> HIDE DEF turn, idx
    <2>4. rr'.next # 0 BY <2>1, <2>2 DEF RRType
    <2> QED BY <1>0, <2>3, <2>4, AnswerRests DEF ChangeInv
  <1>2. CASE Returned
    <2>1. UNCHANGED <<ctx, res, dev>>
      BY <1>2 DEF Returned, CallbackReturn, CallbackReturnParked, ScanFinishOrNext, PlainBus
    <2>2. rr'.next = rr.next BY <1>2 DEF Returned, RRType
    <2>3. Asked' = Asked BY <2>1 DEF Asked
    <2>4. ChangeInv' BY <1>0, <2>1, <2>2, <2>3, ChangeRests
    <2> QED BY <1>0, <2>1, <2>4, AnswerRests
  <1> QED BY <1>1, <1>2

LEMMA ChangeMeasure ==
    ASSUME TypeInv, TimerInv, PlainBus, TurnInv, ChangeInv, AnswerInv, DriverPoll
    PROVE  ChangeInv' /\ AnswerInv'
  <1> DEFINE engaged  == PullupIf(Consumed, TRUE)
             released == PullupIf(Consumed, FALSE)
  <1>0. /\ ctx \in CtxType /\ TypeOK /\ dev \in [Devices -> DeviceType]
        /\ engaged \in PortType(Waits) /\ released \in PortType(Waits)
    BY ConsumedPin DEF TypeInv, TypeOK
  <1>1. /\ MeasurePoll /\ rr' = rr /\ rr.next = 0 /\ port.uif
        /\ res.finished /\ UNCHANGED <<res, line>>
    BY DEF DriverPoll, NothingQueued, MeasurePoll, MeasureDone, OthersBusy, PollIdle, PollStart,
           PollConvert, PollWait, PollContinue, PollRequest, PollRead, PollDecode
  <1>2. port.op = "idle" BY <1>1, FlagMeansStopped DEF TimerInv
  <1>3. Asked' = Asked /\ Target' = Target
    BY <1>0, <1>1, PollReports DEF Target, Reach
  <1> HIDE DEF engaged, released
  <1>4. ASSUME ctx'.res = ctx.res, \A d \in Devices : dev'[d].res = dev[d].res
        PROVE  ChangeInv'
    BY <1>0, <1>1, <1>3, <1>4, ChangeRests
  <1>5. ASSUME NEW cmd, NEW next \in {"WAIT", "READ"}, NEW p \in PortType(Waits),
               NEW c \in {ctx}, IssueCommand(c, p, cmd, next), UNCHANGED dev
        PROVE  ChangeInv' /\ AnswerInv'
    <2>1. ctx'.res = ctx.res /\ ctx'.state \in {"IDLE", next}
      BY <1>0, <1>5 DEF IssueCommand, CtxType
    <2>2. ctx'.state # "IDLE" => port'.op = "write"
      <3>1. CASE line.seen BY <1>5, <3>1, PortEffects DEF IssueCommand
      <3>2. CASE ~line.seen BY <1>0, <1>5, <3>2 DEF IssueCommand, CtxType
      <3> QED BY <3>1, <3>2
    <2>3. AnswerInv' BY <2>1, <2>2 DEF AnswerInv
    <2> QED BY <1>4, <1>5, <2>1, <2>3
  <1>6. CASE PollConvert \/ PollRequest
    <2>1. RoundContext = ctx /\ ReadContext = ctx BY DEF PlainBus, RoundContext, ReadContext
    <2> QED BY <1>0, <1>5, <1>6, <2>1 DEF PollConvert, PollRequest, engaged
  <1>7. CASE PollIdle \/ PollStart \/ PollWait \/ PollContinue
    <2>1. ctx'.res = ctx.res /\ ctx'.state \in {"IDLE", "CONVERT", "CONTINUE", "REQUEST"}
      BY <1>0, <1>7 DEF PollIdle, PollStart, PollWait, PollContinue, MeasureDone, CtxType
    <2>2. \A d \in Devices : dev'[d].res = dev[d].res
      <3>1. CASE UNCHANGED dev BY <3>1
      <3>2. CASE dev' = [d \in Devices |-> [dev[d] EXCEPT !.temp = "old"]]
        BY <1>0, <3>2 DEF DeviceType
      <3> QED BY <1>7, <3>1, <3>2 DEF PollIdle, PollStart, PollWait, PollContinue
    <2> QED BY <1>4, <2>1, <2>2, AnswerRests
  <1>8. CASE PollRead
    <2>1. /\ ctx.state = "READ" /\ ctx'.state = "DECODE" /\ ctx'.res = ctx.res
          /\ UNCHANGED dev /\ port' = Arm(released, "read")
      BY <1>0, <1>8 DEF PollRead, MeasureDone, CtxType, released
    <2>2. port'.op = "read" BY <1>0, <2>1, PortEffects
    <2>3. AnswerInv' BY <1>1, <1>2, <1>3, <2>1, <2>2 DEF AnswerInv
    <2> QED BY <1>4, <2>1, <2>3
  <1>9. CASE PollDecode
    <2>1. /\ ctx.state = "DECODE" /\ ctx'.state = "IDLE" /\ UNCHANGED dev
          /\ ctx'.res = TrackedRes(line.frame)
      BY <1>0, <1>9 DEF PollDecode, MeasureDone, CtxType, PlainBus
    <2>2. \A d \in Target : dev[d].res <= ctx'.res
      BY <1>1, <1>2, <2>1 DEF TrackedRes, AnswerInv, ChangeInv, TargetCovered
    <2> QED BY <1>1, <1>3, <2>1, <2>2, AnswerRests DEF ChangeInv, TargetCovered
  <1> QED BY <1>1, <1>6, <1>7, <1>8, <1>9 DEF MeasurePoll

(***************************************************************************)
(* The hardware: a reset finds the devices, the write of a new resolution  *)
(* reaches the target, a read is answered by it.                           *)
(***************************************************************************)
LEMMA ChangeHardware ==
    ASSUME TypeOK, TimerInv, PulsesServeOwner, CycleInv, AllPresent, PlainBus, TurnInv,
           ChangeInv, AnswerInv, RRHardware
    PROVE  ChangeInv' /\ AnswerInv'
  <1>0. /\ port \in PortType(Waits) /\ dev \in [Devices -> DeviceType] /\ ctx \in CtxType
        /\ line \in LineType /\ pulses \in PulsesType
    BY DEF TypeOK, Waits
  <1>1. PICK operation \in Ops : HwEnds(operation)
    BY DEF RRHardware, Ops, Hardware, HwReset, HwWrite, HwRead, HwWait, HwSearchSlots
  <1>2. port'.op = "idle" /\ port.op # "idle" BY <1>0, <1>1, PortEffects DEF HwEnds, Ops
  <1>3. /\ UNCHANGED <<ctx, pulses, res, rr>> /\ port.op = WaitsFor
    BY <1>1 DEF HwEnds, Ops, TimerInv, TimerServesOwner, RRHardware
  <1>4. Asked' = Asked /\ Target' = Target /\ Target \subseteq Devices
    BY <1>3, TargetsAreDevices DEF Asked, Target, Reach
  <1>5. ctx.state # "IDLE" => port.op = MeasureWaitsFor BY <1>3 DEF WaitsFor
  <1>6. ~res.finished => ctx.state = "IDLE" /\ search.finished /\ port.op = ResWaitsFor
    BY <1>3 DEF TimerInv, OwnerInv, OwnersApart, OthersBusy, SearchActive, WaitsFor
  \* A hardware step that writes no resolution, outside the reset of a change.
  <1>7. ASSUME \A d \in Devices : dev'[d].res = dev[d].res, port.op # "reset", port.op # "write"
        PROVE  ChangeInv'
    <2>1. CASE res.finished BY <1>3, <1>4, <1>7, <2>1, ChangeRests
    <2>2. CASE ~res.finished BY <1>2, <1>6, <1>7, <2>2 DEF ResWaitsFor
    <2> QED BY <2>1, <2>2
  <1>8. CASE HwReset
    <2>1. /\ port.op = "reset" /\ UNCHANGED dev
          /\ line' = [seen |-> port.pin = "od" /\ \E d \in Devices : dev[d].present,
                      frame |-> ZeroFrame, heard |-> {}]
      BY <1>8 DEF HwReset, HwEnds
    <2>2. AnswerInv'
      <3>1. ctx'.state \notin {"READ", "DECODE"} BY <1>3, <1>5, <2>1 DEF MeasureWaitsFor
      <3> QED BY <3>1, AnswerRests
    <2>3. line'.seen \/ Devices = {}
      <3>1. port.pin = "od" BY DEF PlainBus
      <3>2. Devices # {} => \E d \in Devices : dev[d].present BY DEF AllPresent
      <3> QED BY <2>1, <3>1, <3>2
    <2>4. CASE res.finished BY <1>3, <1>4, <2>1, <2>2, <2>4, ChangeRests
    <2>5. CASE ~res.finished
      <3>1. res.phase = "RESET" BY <1>6, <2>1, <2>5 DEF ResWaitsFor
      <3>2. ~Rewritten' BY <1>3, <3>1 DEF Rewritten
      <3> QED BY <1>3, <1>4, <2>2, <2>3, <2>5, <3>1, <3>2 DEF ChangeInv
    <2> QED BY <2>4, <2>5
  <1>9. CASE HwWrite
    <2>1. port.op = "write" BY <1>9 DEF HwWrite, HwEnds
    <2>2. pulses.rom = Asked => Hearing(pulses.rom) = Target
      <3>1. Asked \in Roms BY <1>0 DEF Asked, CtxType, Roms
      <3> QED BY <3>1 DEF Hearing, AllPresent, Target, Reach, Roms
    <2>3. line'.heard = Hearing(pulses.rom) BY <1>0, <1>9 DEF HwWrite, LineType
    <2>4. \A d \in Devices : dev'[d].res =
              IF d \in Hearing(pulses.rom) /\ pulses.cmd \in {"config", "set_alarm_thresholds"}
              THEN pulses.cfg ELSE dev[d].res
      BY <1>0, <1>9 DEF HwWrite, DeviceType
    <2>5. CASE ~res.finished
      <3>1. res.phase = "WRITE" BY <1>2, <1>6, <2>1, <2>5 DEF ResWaitsFor
      <3>2. pulses.cmd = "config" /\ pulses.cfg = res.pending BY <2>5, <3>1 DEF PulsesServeOwner
      <3>3. ~res.applied /\ pulses.rom = Asked BY <2>5, <3>1 DEF ChangeInv
      <3>4. \A d \in Target : dev'[d].res = res.pending BY <1>4, <2>2, <2>4, <3>2, <3>3
      <3>5. ChangeInv' BY <1>3, <1>4, <2>5, <3>1, <3>3, <3>4 DEF ChangeInv
      <3> QED BY <1>3, <1>6, <2>5, <3>5, AnswerRests
    <2>6. CASE res.finished
      <3>1. ctx.state \in {"WAIT", "READ"}
        BY <1>3, <2>1, <2>6 DEF WaitsFor, MeasureWaitsFor, SearchWaitsFor, PlainBus
      <3>2. pulses.cmd \in {"convert_t", "read_scratchpad"} BY <3>1 DEF PulsesServeOwner
      <3>3. \A d \in Devices : dev'[d].res = dev[d].res BY <2>4, <3>2
      <3>4. ChangeInv' BY <1>3, <1>4, <2>6, <3>3, ChangeRests
      <3>5. ctx.state = "READ" => line'.heard = Target
        BY <2>2, <2>3 DEF CycleInv, ReadBack
      <3> QED BY <1>3, <1>4, <3>1, <3>4, <3>5 DEF AnswerInv
    <2> QED BY <2>5, <2>6
  <1>10. CASE HwWait
    <2>1. port.op = "wait" /\ dev' = [d \in Devices |-> AfterWait(d)] /\ UNCHANGED line
      BY <1>10 DEF HwWait, HwEnds
    <2>2. \A d \in Devices : AfterWait(d).res = dev[d].res
      BY <1>0, ResAfterWait DEF PlainBus
    <2>3. ctx'.state \notin {"READ", "DECODE"} BY <1>3, <1>5, <2>1 DEF MeasureWaitsFor
    <2> QED BY <1>7, <2>1, <2>2, <2>3, AnswerRests
  <1>11. CASE HwSearchSlots
    <2>1. port.op \in {"command", "slots"} /\ UNCHANGED dev
      BY <1>11 DEF HwSearchSlots, HwEnds
    <2>2. ctx'.state \notin {"READ", "DECODE"} BY <1>3, <1>5, <2>1 DEF MeasureWaitsFor
    <2> QED BY <1>7, <2>1, <2>2, AnswerRests
  <1>12. CASE HwRead
    <2>1. port.op = "read" /\ UNCHANGED dev BY <1>12 DEF HwRead, HwEnds
    <2>2. PICK f \in ReadFrames \cup NoiseFrames : line' = [line EXCEPT !.frame = f]
      BY <1>12 DEF HwRead
    <2>3. line'.frame = f /\ line'.heard = line.heard BY <1>0, <2>2 DEF LineType
    <2>4. AnswerInv'
      <3>1. CASE ctx.state = "DECODE"
        <4>1. line.heard = Target BY <3>1 DEF AnswerInv
        <4>2. Answering = Target BY <1>4, <4>1 DEF Answering, AllPresent
        <4>3. ASSUME ValidScratchpad(f) PROVE \A d \in Target : dev[d].res <= f.res
          <5>1. PICK e \in line.heard :
                    f = Scratchpad(e) /\ \A d \in Answering : dev[d].res = dev[e].res
            BY <2>2, <4>3, FrameOfHearer
          <5>2. f.res = dev[e].res BY <5>1 DEF Scratchpad, Frame
          <5>3. \A d \in Devices : dev[d].res \in Nat BY ResolutionsAreNumbers
          <5> QED BY <1>4, <4>1, <4>2, <5>1, <5>2, <5>3
        <4> QED BY <1>3, <1>4, <2>1, <2>3, <4>1, <4>3 DEF AnswerInv, ValidScratchpad
      <3>2. CASE ctx.state # "DECODE"
        <4>1. ctx.state # "READ" BY <1>5, <2>1 DEF MeasureWaitsFor
        <4> QED BY <1>3, <3>2, <4>1 DEF AnswerInv
      <3> QED BY <3>1, <3>2
    <2> QED BY <1>7, <2>1, <2>4
  <1> QED BY <1>8, <1>9, <1>10, <1>11, <1>12 DEF RRHardware, Hardware

LEMMA ChangeKept ==
    ASSUME TypeInv, TimerInv, PulsesServeOwner, CycleInv, AllPresent, RRInv, RRNext
    PROVE  ChangeInv' /\ AnswerInv'
  <1>1. TypeOK /\ RRType /\ PlainBus /\ TurnInv /\ ChangeInv /\ AnswerInv BY DEF TypeInv, RRInv
  <1> QED
    BY <1>1, ChangeScan, ChangeSelect, ChangeStarts, ChangePolled, ChangeCallback,
       ChangeMeasure, ChangeHardware DEF RRNext, RRLoop

-----------------------------------------------------------------------------
(***************************************************************************)
(* The theorems.                                                           *)
(***************************************************************************)
\* Nothing that the example reads or calls changes without one of its steps.
LEMMA RRStutter ==
    ASSUME RRInv, UNCHANGED rrVars
    PROVE  RRInv'
  <1>1. UNCHANGED <<port, ctx, table, search, res, txn, pulses, line, dev, cb, led, want, round, rr>>
    BY DEF rrVars, vars
  <1>2. RRType' /\ PlainBus' /\ ScanInv' BY <1>1 DEF RRInv, RRType, PlainBus, ScanInv
  <1>3. Asked' = Asked /\ Target' = Target /\ Rewritten' = Rewritten /\ Current' = Current
    BY <1>1 DEF Asked, Target, Reach, Rewritten, Current
  <1>4. TurnInv' BY <1>1, <1>3 DEF RRInv, TurnInv
  <1>5. ChangeInv' BY <1>1, <1>3 DEF RRInv, ChangeInv, TargetCovered
  <1>6. AnswerInv' BY <1>1, <1>3 DEF RRInv, AnswerInv, ValidScratchpad
  <1> QED BY <1>2, <1>4, <1>5, <1>6 DEF RRInv

LEMMA RRInitial ==
    ASSUME \A r \in Resolutions : r <= DefaultRes, RRInit
    PROVE  Init /\ RRInv
  <1>1. Init /\ rr = [stage |-> "power", found |-> <<>>, sel |-> 1, idx |-> 1, next |-> 0,
                      busy |-> FALSE, told |-> FALSE]
    BY DEF RRInit
  <1>2. RRType
    <2>1. 1 \in 1..Len(ResCycle) BY CycleOfResolutions
    <2> QED BY <1>1, <2>1 DEF RRType, Stages
  <1>3. PlainBus /\ ScanInv BY <1>1 DEF Init, PortInit, PlainBus, ScanInv
  <1>4. Asked = NoRom BY <1>1 DEF Init, Asked
  <1>5. TurnInv BY <1>1, <1>4 DEF Init, TurnInv
  <1>6. \A d \in Devices : dev[d].res <= ctx.res BY <1>1 DEF Init
  <1>7. ChangeInv
    BY <1>1, <1>4, <1>6 DEF Init, ChangeInv, TargetCovered, Target, Reach
  <1>8. AnswerInv BY <1>1 DEF Init, AnswerInv
  <1> QED BY <1>1, <1>2, <1>3, <1>5, <1>7, <1>8 DEF RRInv

\* What the driver guarantees any of its applications, and what this one adds.
DriverInv == TypeInv /\ TimerInv /\ PulsesServeOwner /\ CycleInv

LEMMA RRInductive ==
    ASSUME Parasitic = {}, DriverInv, FreshInv, RRInv, [RRNext]_rrVars
    PROVE  FreshInv' /\ RRInv' /\ [Next]_vars
  <1>0. /\ TypeInv /\ TypeOK /\ TimerInv /\ PulsesServeOwner /\ CycleInv /\ AllPresent
        /\ RRType /\ PlainBus /\ ScanInv /\ TurnInv /\ ChangeInv /\ AnswerInv
    BY DEF DriverInv, TypeInv, FreshInv, RRInv
  <1>1. CASE RRNext
    <2>1. RRStep /\ [Next]_vars BY <1>0, <1>1, Steps
    <2>2. ctx.state = "WAIT" => MeasuredCovered
      <3> SUFFICES ASSUME ctx.state = "WAIT" PROVE MeasuredCovered OBVIOUS
      <3>1. rr.next = 0 /\ res.finished
        BY <1>0 DEF TurnInv, TimerInv, OwnerInv, OwnersApart, OthersBusy
      <3>2. Measured = Target BY <1>0 DEF PlainBus, Measured, Target
      <3> QED BY <1>0, <3>1, <3>2 DEF ChangeInv, TargetCovered, MeasuredCovered
    <2>3. FreshInv' BY <1>0, <2>1, <2>2, FreshStep
    <2>4. RRType' /\ ScanInv' BY <1>0, <1>1, TypeKept, ScanKept
    <2>5. PlainBus' BY <1>0, <2>1, PlainKept
    <2>6. TurnInv' BY <1>0, <1>1, TurnKept
    <2>7. ChangeInv' /\ AnswerInv' BY <1>0, <1>1, ChangeKept
    <2> QED BY <2>1, <2>3, <2>4, <2>5, <2>6, <2>7 DEF RRInv
  <1>2. CASE UNCHANGED rrVars
    <2>1. UNCHANGED vars BY <1>2 DEF rrVars
    <2> QED BY <1>2, <2>1, RRStutter, FreshFrame DEF vars
  <1> QED BY <1>1, <1>2

LEMMA RRInvariant ==
    ASSUME Parasitic = {}, \A r \in Resolutions : r <= DefaultRes
    PROVE  RRSpec => [](DriverInv /\ FreshInv /\ RRInv)
  <1>0. /\ CallbackCalls \subseteq {"select", "set_parasite", "start_measure"}
        /\ "scan_start" \notin CallbackCalls
    BY InterfaceAssumption
  <1>1. RRInit => DriverInv /\ FreshInv /\ RRInv
    <2> SUFFICES ASSUME RRInit PROVE DriverInv /\ FreshInv /\ RRInv OBVIOUS
    <2>1. Init /\ RRInv BY RRInitial
    <2>2. TypeInv /\ TimerInv /\ CycleInv /\ FreshInv
      BY <2>1, InitType, TimerInit, CycleInit, FreshInit
    <2>3. PulsesServeOwner BY <2>1 DEF Init, PulsesServeOwner
    <2> QED BY <2>1, <2>2, <2>3 DEF DriverInv
  <1>2. DriverInv /\ FreshInv /\ RRInv /\ [RRNext]_rrVars => DriverInv' /\ FreshInv' /\ RRInv'
    <2> SUFFICES ASSUME DriverInv, FreshInv, RRInv, [RRNext]_rrVars
                 PROVE  DriverInv' /\ FreshInv' /\ RRInv'
      OBVIOUS
    <2>1. FreshInv' /\ RRInv' /\ [Next]_vars BY RRInductive
    <2>2. TypeInv' BY <2>1, TypeNext DEF DriverInv
    <2>3. TimerInv' BY <1>0, <2>1, TimerNext DEF DriverInv
    <2>4. PulsesServeOwner' BY <1>0, <2>1, PulsesNext DEF DriverInv, TimerInv
    <2>5. CycleInv' BY <1>0, <2>1, CycleNext DEF DriverInv
    <2> QED BY <2>1, <2>2, <2>3, <2>4, <2>5 DEF DriverInv
  <1> QED BY <1>1, <1>2, PTL DEF RRSpec

(***************************************************************************)
(* The example is one of the main loops module Ds18b20 allows: each of its *)
(* steps is one call, one poll, a callback's return or the hardware.  So   *)
(* every theorem about the driver is one about the example as well.        *)
(***************************************************************************)
THEOREM RoundRobinIsAnApplication ==
    ASSUME Parasitic = {}, \A r \in Resolutions : r <= DefaultRes
    PROVE  RRSpec => Spec
  <1>1. RRInit => Init BY DEF RRInit
  <1>2. DriverInv /\ FreshInv /\ RRInv /\ [RRNext]_rrVars => [Next]_vars BY RRInductive
  <1> QED BY <1>1, <1>2, RRInvariant, PTL DEF RRSpec, Spec

(***************************************************************************)
(* What ds18b20_complete() prints is right for every number of devices:    *)
(* the temperature under a ROM is that device's and was converted in this  *)
(* cycle, although the driver follows one tracked resolution and every     *)
(* device has its own, changed before each of its measurements - with      *)
(* external supply, devices that stay, and none slower than the default    *)
(* resolution the first wait follows.                                      *)
(***************************************************************************)
THEOREM PrintedCorrect ==
    ASSUME Parasitic = {}, \A r \in Resolutions : r <= DefaultRes
    PROVE  RRSpec => []PrintedIsOwnAndFresh
  <1>1. DriverInv /\ FreshInv /\ RRInv => PrintedIsOwnAndFresh
    <2> SUFFICES ASSUME DriverInv, FreshInv, RRInv, cb # "none", ~rr.told,
                        round[Len(round)].kind = "temp"
                 PROVE  /\ round[Len(round)].temp = "new"
                        /\ Current \in {NoRom, round[Len(round)].rom}
      BY DEF PrintedIsOwnAndFresh
    <2>1. Len(round) > 0 /\ round[Len(round)].asked = Asked /\ Asked = Current
      BY DEF RRInv, TurnInv
    <2>2. Len(round) \in 1..Len(round)
      <3>1. Len(round) \in Nat BY LenProperties DEF DriverInv, TypeInv, TypeOK
      <3> QED BY <2>1, <3>1
    <2>3. round[Len(round)].temp = "new" BY <2>2 DEF FreshInv, FreshReadings
    <2>4. Current # NoRom => round[Len(round)].rom = Current
      BY <2>1, <2>2 DEF DriverInv, CycleInv, ReportsOfAskedDevices, ReadingsOfAsked
    <2> QED BY <2>3, <2>4
  <1> QED BY <1>1, RRInvariant, PTL

=============================================================================
