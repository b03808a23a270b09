------------------------------- MODULE OwRegs -------------------------------
(***************************************************************************)
(* The port at the level of its registers: each call of ow_port.h is a     *)
(* program, the sequence of register writes the code makes, executed one   *)
(* write at a time against the timer, the two DMA channels and the sleep   *)
(* logic of the core.  The order of the writes matters: preloads are       *)
(* latched by update events, DMA requests meet an armed channel or are     *)
(* lost, pending bits wake the core only when they rise.                   *)
(*                                                                         *)
(* Numbers are scaled: Periods stands for the 256 values of the 8-bit RCR, *)
(* MaxArr for 65535, ByteBits for 8.  Built with OW_LOW_POWER, without     *)
(* OW_DRIVE_ACTIVE.                                                        *)
(***************************************************************************)
EXTENDS OwPort, Sequences, SequencesExt

CONSTANTS
    Periods,     \* 256: update events the repetition counter can skip, plus one
    MaxArr,      \* 65535
    ByteBits,    \* ONEWIRE_BITS_PER_BYTE
    LongStage,   \* OW_PORT_LONG_STAGE_US
    ResetTime,   \* OW_PORT_RESET_TIMEOUT
    Tables,      \* pulse tables the engines write: sequences over {"one", "zero"}
    Bytes,       \* byte counts they read
    Waits        \* waits they schedule

\* The longest pass of a search step has three slots.
ASSUME ScaleAssumption ==
    /\ Periods \in Nat /\ Periods >= 3 /\ MaxArr \in Nat \ {0} /\ ByteBits \in Nat \ {0}
    /\ LongStage \in Nat /\ ResetTime \in 1..MaxArr
ASSUME RequestAssumption ==
    /\ \A t \in Tables : t \in Seq({"one", "zero"})
    /\ Bytes \subseteq Nat /\ Waits \subseteq Nat

MaxSlots == Periods              \* ONEWIRE_MAX_SLOTS
MaxReadBytes == MaxSlots \div ByteBits
Edges    == 2                    \* OW_PORT_CAPTURE_BUF_SIZE
SlotTime == 1

VARIABLES
    m,      \* the timer, the DMA channels and the core's event logic
    cpu,    \* the program being executed, and where ow_op_done() is
    call,   \* the last operation scheduled and what it asks of the bus
    bus,    \* what the bus saw of it: pulses, answers, time
    buf,    \* the capture buffer; operations share it
    port    \* history: the abstract port when the call being executed began

vars == <<m, cpu, call, bus, buf, port>>

Pulses == {"one", "zero", "reset", "none"}      \* "none": ONEWIRE_RELEASE_PULSE
Caught == {"short", "long", "release", "presence", "junk"}

Init ==
    /\ m = [cen |-> FALSE, arr |-> 1, rcr |-> 0, rep |-> 0, stage |-> "edge",
            pre |-> "none", ccr3 |-> "none", oc3pe |-> FALSE, cc4e |-> FALSE,
            dier |-> {}, uif |-> FALSE, pend |-> FALSE, evt |-> FALSE, pin |-> "od",
            cap |-> [en |-> FALSE, left |-> 0, at |-> 1], feed |-> <<>>]
    /\ cpu = [pc |-> "free", prog |-> <<>>]
    /\ call = [op |-> "reset", us |-> 0, pulses |-> <<>>, owed |-> FALSE]
    /\ bus = [sent |-> <<>>, answers |-> <<>>, time |-> 0]
    /\ buf = [i \in 1..MaxSlots |-> "junk"]
    /\ port = PortInit

-----------------------------------------------------------------------------
(***************************************************************************)
(* Register writes.                                                        *)
(***************************************************************************)
\* An interrupt that becomes pending is an event for WFE (SEVONPEND); one that
\* already is pending is none.
Latched(x) ==
    IF "UIE" \in x.dier /\ ~x.pend THEN [x EXCEPT !.pend = TRUE, !.evt = TRUE] ELSE x

UpdateEvent(x) == Latched([x EXCEPT !.uif = TRUE, !.ccr3 = x.pre, !.rep = x.rcr])

\* ow_port_dma_disable(): the wait for EN ends long before its guard.
CaptureOff(x) == [x EXCEPT !.cap.en = FALSE]

\* Programming a channel while it is enabled has no effect.
CaptureOn(x, n) ==
    IF x.cap.en THEN x ELSE [x EXCEPT !.cap = [en |-> TRUE, left |-> n, at |-> 1]]

\* NVIC_ClearPendingIRQ: while the timer still asserts the interrupt the bit
\* may stay.
ClearPending(x) ==
    {[x EXCEPT !.pend = p] : p \in IF x.uif /\ "UIE" \in x.dier THEN {FALSE, x.pend} ELSE {FALSE}}

Exec(x, i) ==
    CASE i[1] = "RCR"   -> [x EXCEPT !.rcr = i[2] % Periods]
      [] i[1] = "ARR"   -> [x EXCEPT !.arr = i[2]]
      [] i[1] = "CCR3"  -> [x EXCEPT !.pre = i[2], !.ccr3 = IF x.oc3pe THEN @ ELSE i[2]]
      [] i[1] = "CCMR2" -> [x EXCEPT !.oc3pe = i[2]]
      [] i[1] = "CC4E"  -> [x EXCEPT !.cc4e = i[2]]
      [] i[1] = "DIER"  -> [x EXCEPT !.dier = i[2]]
      [] i[1] = "UG"    -> UpdateEvent(x)
      [] i[1] = "SR"    -> [x EXCEPT !.uif = FALSE]
      [] i[1] = "CAPOFF" -> CaptureOff(x)
      [] i[1] = "CAP"   -> CaptureOn(x, i[2])
      [] i[1] = "FEED"  -> [x EXCEPT !.feed = i[2]]
      [] i[1] = "PIN"   -> [x EXCEPT !.pin = i[2]]
      [] i[1] = "CEN"   -> [x EXCEPT !.cen = TRUE, !.stage = "edge"]

-----------------------------------------------------------------------------
(***************************************************************************)
(* The programs.                                                           *)
(***************************************************************************)
\* Mutant: the flag the forced update event raises is not cleared.
ReloadKeepsFlag == << <<"UG">> >>

Reload == << <<"UG">>, <<"SR">> >>      \* ow_port_update_event()

\* ow_port_capture()
Capture(n) ==
    << <<"CCMR2", TRUE>>, <<"CC4E", TRUE>>, <<"DIER", {"CC4DE", "UIE"}>> >> \o Reload \o
    << <<"CCR3", "none">>, <<"CAPOFF">>, <<"CAP", n>>, <<"CEN">> >>

Reset == << <<"RCR", 0>>, <<"ARR", ResetTime>>, <<"CCR3", "reset">> >> \o Capture(Edges)

ReadData(bytes) ==
    LET bits == bytes * ByteBits
    IN << <<"RCR", bits - 1>>, <<"ARR", SlotTime>>, <<"CCR3", "one">> >> \o Capture(bits)

ReadPair == << <<"RCR", 1>>, <<"ARR", SlotTime>>, <<"CCR3", "one">> >> \o Capture(2)

\* One slot needs no DMA; the preload releases the line when the timer stops.
WriteSlot(pulse) ==
    << <<"RCR", 0>>, <<"ARR", SlotTime>>, <<"CCR3", pulse>>, <<"CCMR2", TRUE>>, <<"CC4E", FALSE>>,
       <<"DIER", {"UIE"}>> >> \o Reload \o << <<"CCR3", "none">>, <<"CEN">> >>

\* Mutant: one transfer short, without the release pulse at the table's end.
FeedNoRelease(t) ==
    << <<"RCR", Len(t) - 1>>, <<"ARR", SlotTime>>, <<"CCR3", t[1]>>, <<"CCMR2", FALSE>>,
       <<"CC4E", FALSE>>, <<"DIER", {"CC2DE", "UIE"}>> >> \o Reload \o
    << <<"FEED", Tail(t)>>, <<"CEN">> >>

\* ow_port_feed(): the entry after the last slot releases the line.
Feed(t) ==
    << <<"RCR", Len(t) - 1>>, <<"ARR", SlotTime>>, <<"CCR3", t[1]>>, <<"CCMR2", FALSE>>,
       <<"CC4E", FALSE>>, <<"DIER", {"CC2DE", "UIE"}>> >> \o Reload \o
    << <<"FEED", Append(Tail(t), "none")>>, <<"CEN">> >>

WriteSlots(t) == IF Len(t) = 1 THEN WriteSlot(t[1]) ELSE Feed(t)

\* The direction bit and the next id/complement pair in one pass.
WriteThenRead(pulse) ==
    << <<"RCR", 2>>, <<"ARR", SlotTime>>, <<"CCR3", pulse>>, <<"CCMR2", FALSE>>, <<"CC4E", TRUE>>,
       <<"DIER", {"UIE"}>> >> \o Reload \o
    << <<"CAPOFF">>, <<"CAP", 3>>, <<"FEED", <<"one", "one", "none">> >>,
       <<"DIER", {"CC4DE", "CC2DE", "UIE"}>>, <<"CCR3", pulse>>, <<"CEN">> >>

CeilDiv(a, b) == a \div b + (IF a % b = 0 THEN 0 ELSE 1)

Clamp(x, top) == IF x = 0 THEN 1 ELSE IF x > top THEN top ELSE x

\* Mutant: the period is rounded down.
PlanWaitFloor(us) ==
    LET n == Clamp(CeilDiv(us, MaxArr), Periods)
    IN [n |-> n, arr |-> Clamp(us \div n, MaxArr)]

\* ow_port_plan_wait(): the fewest periods, then the shortest that cover us.
PlanWait(us) ==
    LET n == Clamp(CeilDiv(us, MaxArr), Periods)
    IN [n |-> n, arr |-> Clamp(CeilDiv(us, n), MaxArr)]

IsLong(n, arr) == n * arr > LongStage

\* ow_port_start_wait()
StartWait(us) ==
    LET p == PlanWait(us)
    IN << <<"ARR", p.arr>>, <<"RCR", p.n - 1>>,
          <<"DIER", IF IsLong(p.n, p.arr) THEN {"UIE"} ELSE {}>> >> \o Reload \o << <<"CEN">> >>

StrongPullupProgram(on) ==
    IF on THEN << <<"CCR3", "none">>, <<"UG">>, <<"PIN", "pp">> >> ELSE << <<"PIN", "od">> >>

-----------------------------------------------------------------------------
(***************************************************************************)
(* The calls.  Their callers own the idle timer: the operation before has  *)
(* been reported (Ds18b20Props!OneOwner, Ds2431Props!TimerServesPhase).    *)
(***************************************************************************)
Executing == cpu.prog # <<>>

AbstractPort ==
    IF Executing THEN port
    ELSE [op |-> IF m.cen THEN call.op ELSE "idle", us |-> call.us, uif |-> m.uif, pin |-> m.pin]

Begin(program) ==
    /\ cpu.pc = "free" /\ ~Executing /\ ~call.owed
    /\ cpu' = [cpu EXCEPT !.prog = program]
    /\ port' = AbstractPort
    /\ UNCHANGED <<m, buf>>

Schedule(operation, us, program, pulses) ==
    /\ Begin(program)
    /\ call' = [op |-> operation, us |-> us, pulses |-> pulses, owed |-> TRUE]
    /\ bus' = [sent |-> <<>>, answers |-> <<>>, time |-> 0]

Ones(n) == [i \in 1..n |-> "one"]

CallReset == Schedule("reset", call.us, Reset, <<"reset">>)

\* Out-of-range lengths are refused before anything is scheduled.
WriteFits(t) == Len(t) \in 1..MaxSlots

CallWrite ==
    \E t \in Tables : WriteFits(t) /\ Schedule("write", call.us, WriteSlots(t), t)

ReadFits(bytes) == bytes \in 1..MaxReadBytes

CallRead ==
    \E n \in Bytes : ReadFits(n) /\ Schedule("read", call.us, ReadData(n), Ones(n * ByteBits))

CallSearchSlots ==
    \/ Schedule("slots", call.us, ReadPair, Ones(2))
    \/ \E pulse \in {"one", "zero"} :
          \/ Schedule("slots", call.us, WriteThenRead(pulse), <<pulse, "one", "one">>)
          \/ Schedule("slots", call.us, WriteSlots(<<pulse>>), <<pulse>>)

CallWait == \E us \in Waits : Schedule("wait", us, StartWait(us), <<>>)

CallStrongPullup ==
    /\ \E on \in BOOLEAN : Begin(StrongPullupProgram(on))
    /\ UNCHANGED <<call, bus>>

\* The kick is answered for like an operation: its caller polls for it.
CallKick ==
    /\ Begin(<< <<"UG">> >>)
    /\ call' = [call EXCEPT !.owed = TRUE]
    /\ UNCHANGED bus

Calls == CallReset \/ CallWrite \/ CallRead \/ CallSearchSlots \/ CallWait \/ CallStrongPullup \/ CallKick

Execute ==
    /\ Executing
    /\ m' = Exec(m, Head(cpu.prog))
    /\ cpu' = [cpu EXCEPT !.prog = Tail(cpu.prog)]
    /\ port' = IF Len(cpu.prog) = 1 THEN PortInit ELSE port
    /\ UNCHANGED <<call, bus, buf>>

-----------------------------------------------------------------------------
(***************************************************************************)
(* ow_op_done(): test, and sleep through what is left of a long stage.     *)
(***************************************************************************)
Goto(pc) == cpu' = [cpu EXCEPT !.pc = pc]

LongWaitPending == m.cen /\ ~m.uif /\ IsLong(m.rcr + 1, m.arr)

At(pc) == cpu.pc = pc /\ ~Executing /\ UNCHANGED <<bus, buf, port>>

BusIsDone ==
    /\ At("free") /\ call.owed
    /\ m.uif
    /\ m' \in {[x EXCEPT !.uif = FALSE] : x \in ClearPending(m)}
    /\ call' = [call EXCEPT !.owed = FALSE]
    /\ UNCHANGED cpu

GoToSleep ==
    /\ At("free") /\ call.owed
    /\ LongWaitPending
    /\ Goto("clear")
    /\ UNCHANGED <<m, call>>

\* Mutant: the pending bit of the last re-arm is left when the core sleeps.
BeforeSleepKept(x) == {x}

BeforeSleep(x) == ClearPending(x)

SleepClear  == At("clear") /\ m' \in BeforeSleep(m) /\ Goto("sev") /\ UNCHANGED call
SleepSev    == At("sev") /\ m' = [m EXCEPT !.evt = TRUE] /\ Goto("flush") /\ UNCHANGED call
SleepFlush  == At("flush") /\ m.evt /\ m' = [m EXCEPT !.evt = FALSE] /\ Goto("test") /\ UNCHANGED call
SleepTest   == At("test") /\ Goto(IF m.uif THEN "awake" ELSE "wfe") /\ UNCHANGED <<m, call>>
SleepAwake  == At("awake") /\ m' \in ClearPending(m) /\ Goto("free") /\ UNCHANGED call

\* WFE consumes an event, or the core sleeps on.
SleepWfe ==
    /\ At("wfe")
    /\ IF m.evt THEN m' = [m EXCEPT !.evt = FALSE] /\ Goto("test") ELSE UNCHANGED <<m, cpu>>
    /\ UNCHANGED call

OpDone == BusIsDone \/ GoToSleep \/ SleepClear \/ SleepSev \/ SleepFlush \/ SleepTest \/ SleepWfe \/ SleepAwake

-----------------------------------------------------------------------------
(***************************************************************************)
(* The timer runs a period in three steps: the pulse at its start (and the *)
(* edges that end it), the compare that reloads CCR3, the period's end.    *)
(***************************************************************************)
Running(stage) == m.cen /\ m.stage = stage

\* The widths the line may show: a device holds a read slot low for a zero, and
\* answers a reset with a presence pulse.
Answers(pulse) ==
    CASE pulse = "one"   -> {<<"short">>, <<"long">>}
      [] pulse = "zero"  -> {<<"long">>}
      [] pulse = "reset" -> {<<"release">>, <<"release", "presence">>}
      [] OTHER           -> {<<>>}

\* The DMA stores as many of the captured widths as it is armed for.
Stored(n) ==
    IF ~m.cc4e \/ "CC4DE" \notin m.dier \/ ~m.cap.en THEN 0
    ELSE IF n < m.cap.left THEN n ELSE m.cap.left

HwEdge ==
    /\ Running("edge")
    /\ \E es \in Answers(m.ccr3) :
          LET n == Stored(Len(es)) IN
          /\ bus' = [bus EXCEPT !.sent = IF m.ccr3 = "none" THEN @ ELSE Append(@, m.ccr3),
                                !.answers = IF m.cc4e THEN @ \o es ELSE @]
          /\ buf' = [i \in DOMAIN buf |-> IF i \in m.cap.at..(m.cap.at + n - 1)
                                          THEN es[i - m.cap.at + 1] ELSE buf[i]]
          /\ m' = [m EXCEPT !.stage = "compare",
                            !.cap = [en |-> m.cap.en /\ n < m.cap.left,
                                     left |-> m.cap.left - n, at |-> m.cap.at + n]]
    /\ UNCHANGED <<cpu, call, port>>

HwCompare ==
    /\ Running("compare")
    /\ m' = IF "CC2DE" \in m.dier /\ m.feed # <<>>
            THEN [Exec(m, <<"CCR3", Head(m.feed)>>) EXCEPT !.feed = Tail(@), !.stage = "end"]
            ELSE [m EXCEPT !.stage = "end"]
    /\ UNCHANGED <<cpu, call, bus, buf, port>>

HwEnd ==
    /\ Running("end")
    /\ m' = IF m.rep > 0 THEN [m EXCEPT !.rep = @ - 1, !.stage = "edge"]
            ELSE [UpdateEvent(m) EXCEPT !.cen = FALSE]
    /\ bus' = [bus EXCEPT !.time = @ + m.arr]
    /\ UNCHANGED <<cpu, call, buf, port>>

Hardware == HwEdge \/ HwCompare \/ HwEnd

Next == Calls \/ Execute \/ OpDone \/ Hardware

\* The timer counts, the core executes, and the main loop polls.
Fairness == WF_vars(Hardware) /\ WF_vars(Execute) /\ WF_vars(OpDone)

Spec == Init /\ [][Next]_vars /\ Fairness

-----------------------------------------------------------------------------
(***************************************************************************)
(* onewire_present(): the count of captured edges, then their widths.      *)
(***************************************************************************)
ResetCaptured == IF m.cap.left > Edges THEN 0 ELSE Edges - m.cap.left

\* Mutant: only the widths in the buffer are looked at.
PresentByWidths == buf[1] = "release" /\ buf[2] = "presence"

Present == ResetCaptured = Edges /\ buf[1] = "release" /\ buf[2] = "presence"

=============================================================================
