---------------------------- MODULE OwRegsProofs ----------------------------
(***************************************************************************)
(* The register programs of OwRegs achieve what OwRegsProps asks, and each *)
(* of their steps is a step of OwTimer: theorems for every length of the   *)
(* repetition counter and of the period, every table, read and wait.       *)
(***************************************************************************)
EXTENDS OwRegsProps, SequenceTheorems, TLAPS

(***************************************************************************)
(* The operations that send pulses are of four kinds: with the preloaded   *)
(* compare register (a single slot, or slots that are all captured) or     *)
(* with one fed by DMA, captured or not.                                   *)
(***************************************************************************)
Kinds == {"capture", "slot", "feed", "both"}
Preloaded(kind) == kind \in {"capture", "slot"}
Captured(kind)  == kind \in {"capture", "both"}

Period(c)   == IF c.op = "reset" THEN ResetTime ELSE SlotTime
Expected(c) == IF c.op = "reset" THEN Edges ELSE Len(c.pulses)
Table(c)    == Append(c.pulses, "none")

Requests(kind) ==
    {"UIE"} \cup (IF Captured(kind) THEN {"CC4DE"} ELSE {})
            \cup (IF Preloaded(kind) THEN {} ELSE {"CC2DE"})

\* Every program of such a call: load the registers, then start.
Setup(kind, c) ==
    << <<"RCR", Len(c.pulses) - 1>>, <<"ARR", Period(c)>>, <<"CCR3", c.pulses[1]>>,
       <<"CCMR2", Preloaded(kind)>>, <<"CC4E", Captured(kind)>>,
       <<"DIER", IF kind = "both" THEN {"UIE"} ELSE Requests(kind)>>, <<"UG">>, <<"SR">> >>

Launch(kind, c) ==
    CASE kind = "capture" ->
            << <<"CCR3", "none">>, <<"CAPOFF">>, <<"CAP", Expected(c)>>, <<"CEN">> >>
      [] kind = "slot" -> << <<"CCR3", "none">>, <<"CEN">> >>
      [] kind = "feed" -> << <<"FEED", Tail(Table(c))>>, <<"CEN">> >>
      [] kind = "both" ->
            << <<"CAPOFF">>, <<"CAP", Expected(c)>>, <<"FEED", Tail(Table(c))>>,
               <<"DIER", Requests(kind)>>, <<"CCR3", c.pulses[1]>>, <<"CEN">> >>

Program(kind, c) == Setup(kind, c) \o Launch(kind, c)

Size(kind) == CASE kind = "capture" -> 12 [] kind = "both" -> 14 [] OTHER -> 10

\* The calls each kind serves.
Serves(kind, c) ==
    /\ c.owed
    /\ Len(c.pulses) \in 1..Periods
    /\ kind = "capture" =>
          \/ c.op = "reset" /\ c.pulses = <<"reset">>
          \/ c.op \in {"read", "slots"} /\ \A i \in 1..Len(c.pulses) : c.pulses[i] = "one"
    /\ kind # "capture" =>
          c.op \in {"write", "slots"} /\ \A i \in 1..Len(c.pulses) : c.pulses[i] \in {"one", "zero"}
    /\ kind = "slot" => Len(c.pulses) = 1

-----------------------------------------------------------------------------
(***************************************************************************)
(* Types.                                                                  *)
(***************************************************************************)
Registers ==
    [cen : BOOLEAN, arr : 1..MaxArr, rcr : 0..(Periods - 1), rep : 0..(Periods - 1),
     stage : {"edge", "compare", "end"}, pre : Pulses, ccr3 : Pulses, oc3pe : BOOLEAN,
     cc4e : BOOLEAN, dier : SUBSET {"CC2DE", "CC4DE", "UIE"}, uif : BOOLEAN, pend : BOOLEAN,
     evt : BOOLEAN, pin : Pins, cap : [en : BOOLEAN, left : Nat, at : Nat], feed : Seq(Pulses)]

CallType == [op : Ops, us : Nat, pulses : Seq(Pulses), owed : BOOLEAN]

RegsTyped ==
    /\ m \in Registers
    /\ cpu.pc \in {"free", "clear", "sev", "flush", "test", "wfe", "awake"}
    /\ cpu = [pc |-> cpu.pc, prog |-> cpu.prog]
    /\ call \in CallType
    /\ bus \in [sent : Seq(Pulses), answers : Seq(Caught), time : Nat]
    /\ buf \in [1..MaxSlots -> Caught]
    /\ port \in PortType(Nat)

(***************************************************************************)
(* A program under execution: what its first n writes have achieved.       *)
(***************************************************************************)
Rest(program, n) == SubSeq(program, n + 1, Len(program))

SetupDone(kind, n) ==
    /\ n >= 1 => m.rcr = Len(call.pulses) - 1
    /\ n >= 2 => m.arr = Period(call)
    /\ n \in 3..8 => m.pre = call.pulses[1]
    /\ n >= 4 => m.oc3pe = Preloaded(kind)
    /\ n >= 5 => m.cc4e = Captured(kind)
    /\ n >= 6 /\ kind # "both" => m.dier = Requests(kind)
    /\ n >= 7 => m.rep = m.rcr /\ m.ccr3 = call.pulses[1]
    /\ n >= 8 => ~m.uif

ArmedCapture == m.cap = [en |-> TRUE, left |-> Expected(call), at |-> 1]

LaunchDone(kind, n) ==
    /\ n >= 9 /\ Preloaded(kind) => m.pre = "none"
    /\ n >= 9 /\ kind = "feed" => m.feed = Tail(Table(call))
    /\ n = 10 /\ kind = "capture" => ~m.cap.en
    /\ n >= 11 /\ kind = "capture" => ArmedCapture
    /\ n = 9 /\ kind = "both" => ~m.cap.en
    /\ n >= 10 /\ kind = "both" => ArmedCapture
    /\ n >= 11 /\ kind = "both" => m.feed = Tail(Table(call))
    /\ n >= 12 /\ kind = "both" => m.dier = Requests(kind)

NothingYet == bus = [sent |-> <<>>, answers |-> <<>>, time |-> 0]

Starting ==
    /\ NothingYet /\ port.us = call.us
    /\ \E kind \in Kinds : \E n \in 0..(Size(kind) - 1) :
          /\ Serves(kind, call)
          /\ cpu.prog = Rest(Program(kind, call), n)
          /\ SetupDone(kind, n) /\ LaunchDone(kind, n)

\* A timed wait sends no pulse: the release pulse is loaded and stays.
Released == m.pre = "none" /\ m.ccr3 = "none"
Planned  == m.arr = PlanWait(call.us).arr /\ m.rcr + 1 = PlanWait(call.us).n
Waiting  == call.op = "wait" /\ call.owed /\ call.us \in Waits /\ call.pulses = <<>>

StartingWait ==
    /\ NothingYet /\ Waiting /\ Released
    /\ \E n \in 0..5 :
          /\ cpu.prog = Rest(StartWait(call.us), n)
          /\ n >= 1 => m.arr = PlanWait(call.us).arr
          /\ n >= 2 => m.rcr + 1 = PlanWait(call.us).n
          /\ n >= 3 => m.dier \subseteq {"UIE"}
          /\ n >= 4 => m.rep = m.rcr
          /\ n >= 5 => ~m.uif

(***************************************************************************)
(* The timer at rest: what the last operation left.                        *)
(***************************************************************************)
Kept ==
    /\ Len(bus.answers) <= MaxSlots
    /\ \A i \in 1..Len(bus.answers) : buf[i] = bus.answers[i]

Standing ==
    /\ Released
    /\ bus.sent = call.pulses
    /\ Kept
    /\ call.op = "reset" /\ bus.sent # <<>> =>
          bus.answers \in Answers("reset") /\ m.cap.left = Edges - Len(bus.answers)
    /\ call.op = "wait" => Planned /\ bus.time = (m.rcr + 1) * m.arr

\* The calls that schedule nothing; the flag they leave is the last one's.
Signalling ==
    /\ Standing /\ port.us = call.us
    /\ \/ cpu.prog \in { << <<"UG">> >>, << <<"PIN", "od">> >> } /\ port.uif = m.uif
       \/ cpu.prog \in { << <<"CCR3", "none">>, <<"UG">>, <<"PIN", "pp">> >>,
                         << <<"UG">>, <<"PIN", "pp">> >> }
       \/ cpu.prog = << <<"PIN", "pp">> >> /\ m.uif

(***************************************************************************)
(* The timer running: slot number Slot of the operation, and how far the   *)
(* pulses, the DMA that feeds them and the one that stores the answers are.*)
(***************************************************************************)
Slot == Len(call.pulses) - m.rep

Loaded(kind) ==
    /\ m.rcr = Len(call.pulses) - 1 /\ m.rep <= m.rcr
    /\ m.oc3pe = Preloaded(kind) /\ m.cc4e = Captured(kind) /\ m.dier = Requests(kind)

Sending == bus.sent = SubSeq(call.pulses, 1, IF m.stage = "edge" THEN Slot - 1 ELSE Slot)

\* The entry in the compare register; entries follow to the table's end.
Entry == IF m.stage = "end" THEN Slot + 1 ELSE Slot

Feeding(kind) ==
    IF Preloaded(kind) THEN m.pre = "none" /\ m.ccr3 = call.pulses[Slot]
    ELSE /\ m.ccr3 = Table(call)[Entry]
         /\ m.stage = "end" => m.pre = m.ccr3
         /\ m.feed = SubSeq(Table(call), Entry + 1, Len(call.pulses) + 1)

Storing(kind) ==
    IF ~Captured(kind) THEN bus.answers = <<>>
    ELSE /\ m.cap = [en |-> Len(bus.answers) < Expected(call),
                     left |-> Expected(call) - Len(bus.answers), at |-> Len(bus.answers) + 1]
         /\ Kept
         /\ IF call.op = "reset"
            THEN IF m.stage = "edge" THEN bus.answers = <<>> ELSE bus.answers \in Answers("reset")
            ELSE Len(bus.answers) = IF m.stage = "edge" THEN Slot - 1 ELSE Slot

Sweeping ==
    \E kind \in Kinds :
        Serves(kind, call) /\ Loaded(kind) /\ Sending /\ Feeding(kind) /\ Storing(kind)

WaitingOut ==
    /\ Waiting /\ Released /\ Planned
    /\ bus.sent = <<>> /\ bus.answers = <<>>
    /\ m.dier \subseteq {"UIE"} /\ m.rep <= m.rcr
    /\ bus.time = (m.rcr - m.rep) * m.arr

RegsInv ==
    /\ RegsTyped
    /\ IF Executing
       THEN /\ ~m.cen /\ port.op = "idle" /\ port.pin = m.pin
            /\ Starting \/ StartingWait \/ Signalling
       ELSE IF m.cen THEN call.owed /\ ~m.uif /\ (Sweeping \/ WaitingOut)
            ELSE Standing

-----------------------------------------------------------------------------
(***************************************************************************)
(* Arithmetic.                                                             *)
(***************************************************************************)
LEMMA Division ==
    ASSUME NEW a \in Nat, NEW b \in Nat \ {0}
    PROVE  /\ a \div b \in Nat /\ a % b \in 0..(b - 1)
           /\ a = b * (a \div b) + (a % b)
  OBVIOUS

\* Rounding up: the smallest q with q * b >= a.
LEMMA CeilDivBounds ==
    ASSUME NEW a \in Nat, NEW b \in Nat \ {0}
    PROVE  /\ CeilDiv(a, b) \in Nat
           /\ CeilDiv(a, b) * b >= a
           /\ CeilDiv(a, b) * b < a + b
           /\ a > 0 => CeilDiv(a, b) > 0
  <1> DEFINE q == a \div b
             r == a % b
  <1>1. q \in Nat /\ r \in 0..(b - 1) /\ a = b * q + r BY Division
  <1>2. CeilDiv(a, b) = q + (IF r = 0 THEN 0 ELSE 1) BY DEF CeilDiv
  <1> HIDE DEF q, r
  <1>3. (q + 1) * b = b * q + b /\ q * b = b * q BY <1>1
  <1>4. CASE r = 0 BY <1>1, <1>2, <1>3, <1>4
  <1>5. CASE r # 0
    <2>1. CeilDiv(a, b) = q + 1 BY <1>2, <1>5
    <2> QED BY <1>1, <1>3, <2>1, <1>5
  <1> QED BY <1>4, <1>5

LEMMA ProductMonotone ==
    ASSUME NEW a \in Nat, NEW b \in Nat, NEW c \in Nat, a <= b
    PROVE  a * c <= b * c
  <1>1. b * c = a * c + (b - a) * c OBVIOUS
  <1>2. (b - a) * c >= 0 OBVIOUS
  <1> QED BY <1>1, <1>2

\* The plan of a wait fits the registers and covers the request, as far as the
\* timer reaches, by less than a tick per period too much.
LEMMA PlanCovers ==
    ASSUME NEW us \in Nat
    PROVE  LET p == PlanWait(us) IN
           /\ p.n \in 1..Periods /\ p.arr \in 1..MaxArr
           /\ us <= Periods * MaxArr => p.n * p.arr >= us
           /\ us > Periods * MaxArr => p.n * p.arr = Periods * MaxArr
           /\ us > 0 => p.n * p.arr < us + p.n
  <1> DEFINE w == CeilDiv(us, MaxArr)
             n == Clamp(w, Periods)
             q == CeilDiv(us, n)
             arr == Clamp(q, MaxArr)
  <1>1. Periods \in Nat \ {0} /\ MaxArr \in Nat \ {0} BY ScaleAssumption
  <1>2. w \in Nat /\ w * MaxArr >= us /\ w * MaxArr < us + MaxArr /\ (us > 0 => w > 0)
    BY <1>1, CeilDivBounds
  <1>3. n \in 1..Periods /\ n \in Nat \ {0} BY <1>1, <1>2 DEF Clamp
  <1>4. q \in Nat /\ q * n >= us /\ q * n < us + n /\ (us > 0 => q > 0)
    BY <1>3, CeilDivBounds
  <1>5. arr \in 1..MaxArr BY <1>1, <1>4 DEF Clamp
  <1>6. PlanWait(us) = [n |-> n, arr |-> arr] BY DEF PlanWait
  <1>7. (w <= Periods => us <= n * MaxArr) /\ (w > Periods => n = Periods)
    BY <1>1, <1>2 DEF Clamp
  <1>8. (q = 0 => arr = 1) /\ (q > MaxArr => arr = MaxArr) /\ (q \in 1..MaxArr => arr = q)
    BY <1>1, <1>4 DEF Clamp
  <1> HIDE DEF w, n, q, arr
  <1>9. us <= Periods * MaxArr => us <= n * MaxArr BY <1>1, <1>2, <1>3, <1>7
  <1>10. us <= n * MaxArr => q <= MaxArr
    <2> SUFFICES ASSUME us <= n * MaxArr, q >= MaxArr + 1 PROVE FALSE BY <1>1, <1>4
    <2>1. (MaxArr + 1) * n <= q * n BY <1>1, <1>3, <1>4, ProductMonotone
    <2>2. (MaxArr + 1) * n = n * MaxArr + n BY <1>1, <1>3
    <2> QED BY <2>1, <2>2, <1>1, <1>3, <1>4
  <1>11. us <= Periods * MaxArr => n * arr >= us
    <2>1. CASE q = 0
      <3>1. us = 0 BY <2>1, <1>4
      <3> QED BY <3>1, <1>3, <1>5
    <2>2. CASE q # 0
      <3>1. us <= Periods * MaxArr => arr = q BY <2>2, <1>4, <1>8, <1>9, <1>10
      <3> QED BY <3>1, <1>3, <1>4
    <2> QED BY <2>1, <2>2
  <1>12. us > Periods * MaxArr => n = Periods /\ arr = MaxArr
    <2> SUFFICES ASSUME us > Periods * MaxArr PROVE n = Periods /\ arr = MaxArr OBVIOUS
    <2>1. w > Periods
      <3> SUFFICES ASSUME w <= Periods PROVE FALSE BY <1>1, <1>2
      <3>1. w * MaxArr <= Periods * MaxArr BY <1>1, <1>2, ProductMonotone
      <3> QED BY <3>1, <1>1, <1>2
    <2>2. n = Periods BY <2>1, <1>7
    <2>3. q > MaxArr
      <3> SUFFICES ASSUME q <= MaxArr PROVE FALSE BY <1>1, <1>4
      <3>1. q * n <= MaxArr * n BY <1>1, <1>3, <1>4, ProductMonotone
      <3> QED BY <3>1, <2>2, <1>1, <1>3, <1>4
    <2> QED BY <2>2, <2>3, <1>8
  <1>13. us > 0 => n * arr < us + n
    <2> SUFFICES ASSUME us > 0 PROVE n * arr < us + n OBVIOUS
    <2>1. arr <= q BY <1>1, <1>4, <1>8
    <2>2. arr * n <= q * n BY <2>1, <1>3, <1>4, <1>5, ProductMonotone
    <2> QED BY <2>2, <1>3, <1>4, <1>5
  <1> QED BY <1>1, <1>3, <1>5, <1>6, <1>11, <1>12, <1>13

\* As many bits as a read may have fit the repetition counter.
LEMMA ReadFitsSlots ==
    ASSUME NEW n \in Nat, ReadFits(n)
    PROVE  n * ByteBits \in 1..Periods
  <1>1. Periods \in Nat \ {0} /\ ByteBits \in Nat \ {0} BY ScaleAssumption
  <1>2. MaxReadBytes \in Nat /\ MaxReadBytes * ByteBits <= Periods
    <2> DEFINE q == Periods \div ByteBits
               r == Periods % ByteBits
    <2>1. Periods = ByteBits * q + r /\ q \in Nat /\ r \in Nat BY <1>1
    <2>2. MaxReadBytes = q BY DEF MaxReadBytes, MaxSlots
    <2> HIDE DEF q, r
    <2>3. ByteBits * q = q * ByteBits BY <2>1, <1>1
    <2> QED BY <2>1, <2>2, <2>3, <1>1
  <1>3. n >= 1 /\ n <= MaxReadBytes BY DEF ReadFits
  <1>4. n * ByteBits <= MaxReadBytes * ByteBits BY <1>1, <1>2, <1>3, ProductMonotone
  <1>5. 1 * ByteBits <= n * ByteBits BY <1>1, <1>3, ProductMonotone
  <1> QED BY <1>1, <1>2, <1>4, <1>5

-----------------------------------------------------------------------------
(***************************************************************************)
(* Sequences and programs.                                                 *)
(***************************************************************************)
\* What is left of a program, and its next instruction.
LEMMA RestOfProgram ==
    ASSUME NEW S, NEW program \in Seq(S), NEW n \in 0..(Len(program) - 1)
    PROVE  /\ Rest(program, n) # <<>>
           /\ Head(Rest(program, n)) = program[n + 1]
           /\ Tail(Rest(program, n)) = Rest(program, n + 1)
           /\ Len(Rest(program, n)) = Len(program) - n
           /\ n = Len(program) - 1 <=> Tail(Rest(program, n)) = <<>>
  <1>1. Len(program) \in Nat BY LenProperties
  <1>2. \A i \in (n + 1)..Len(program) : program[i] \in S BY ElementOfSeq
  <1>3. Len(Rest(program, n)) = Len(program) - n
    BY <1>1, <1>2, SubSeqProperties DEF Rest
  <1>4. /\ Head(Rest(program, n)) = program[n + 1]
        /\ Tail(Rest(program, n)) = Rest(program, n + 1)
    BY <1>1, HeadTailOfSubSeq DEF Rest
  <1>5. Rest(program, n) # <<>> BY <1>1, <1>3, EmptySeq
  <1>6. \A i \in (n + 2)..Len(program) : program[i] \in S BY <1>1, <1>2
  <1>7. Len(Rest(program, n + 1)) = Len(program) - (n + 1)
    BY <1>1, <1>6, SubSeqProperties DEF Rest
  <1>8. Len(<<>>) = 0 OBVIOUS
  <1>9. CASE n = Len(program) - 1 BY <1>9, <1>4, <1>5, <1>3, SubSeqEmpty, <1>1 DEF Rest
  <1>10. CASE n # Len(program) - 1
    <2>1. Len(Rest(program, n + 1)) # Len(<<>>) BY <1>10, <1>1, <1>7, <1>8
    <2>2. Tail(Rest(program, n)) # <<>> BY <2>1, <1>4
    <2> QED BY <1>10, <1>3, <1>4, <1>5, <2>2
  <1> QED BY <1>9, <1>10

LEMMA WholeProgram ==
    ASSUME NEW S, NEW program \in Seq(S)
    PROVE  program = Rest(program, 0)
  BY SubSeqFull DEF Rest

\* One instruction of each name.
LEMMA Instructions ==
    ASSUME NEW x, NEW v
    PROVE  /\ Exec(x, <<"RCR", v>>) = [x EXCEPT !.rcr = v % Periods]
           /\ Exec(x, <<"ARR", v>>) = [x EXCEPT !.arr = v]
           /\ Exec(x, <<"CCR3", v>>) = [x EXCEPT !.pre = v, !.ccr3 = IF x.oc3pe THEN @ ELSE v]
           /\ Exec(x, <<"CCMR2", v>>) = [x EXCEPT !.oc3pe = v]
           /\ Exec(x, <<"CC4E", v>>) = [x EXCEPT !.cc4e = v]
           /\ Exec(x, <<"DIER", v>>) = [x EXCEPT !.dier = v]
           /\ Exec(x, <<"UG">>) = UpdateEvent(x)
           /\ Exec(x, <<"SR">>) = [x EXCEPT !.uif = FALSE]
           /\ Exec(x, <<"CAPOFF">>) = CaptureOff(x)
           /\ Exec(x, <<"CAP", v>>) = CaptureOn(x, v)
           /\ Exec(x, <<"FEED", v>>) = [x EXCEPT !.feed = v]
           /\ Exec(x, <<"PIN", v>>) = [x EXCEPT !.pin = v]
           /\ Exec(x, <<"CEN">>) = [x EXCEPT !.cen = TRUE, !.stage = "edge"]
  BY DEF Exec

\* The elements of a program of each kind.
LEMMA SetupElements ==
    ASSUME NEW kind, NEW c
    PROVE  /\ Setup(kind, c) \in Seq({Setup(kind, c)[i] : i \in 1..8}) /\ Len(Setup(kind, c)) = 8
           /\ Setup(kind, c)[1] = <<"RCR", Len(c.pulses) - 1>>
           /\ Setup(kind, c)[2] = <<"ARR", Period(c)>>
           /\ Setup(kind, c)[3] = <<"CCR3", c.pulses[1]>>
           /\ Setup(kind, c)[4] = <<"CCMR2", Preloaded(kind)>>
           /\ Setup(kind, c)[5] = <<"CC4E", Captured(kind)>>
           /\ Setup(kind, c)[6] = <<"DIER", IF kind = "both" THEN {"UIE"} ELSE Requests(kind)>>
           /\ Setup(kind, c)[7] = <<"UG">>
           /\ Setup(kind, c)[8] = <<"SR">>
  <1> DEFINE a == <<"RCR", Len(c.pulses) - 1>>
             b == <<"ARR", Period(c)>>
             d == <<"CCR3", c.pulses[1]>>
             e == <<"CCMR2", Preloaded(kind)>>
             f == <<"CC4E", Captured(kind)>>
             g == <<"DIER", IF kind = "both" THEN {"UIE"} ELSE Requests(kind)>>
             h == <<"UG">>
             k == <<"SR">>
             t == <<a, b, d, e, f, g, h, k>>
  <1>1. Setup(kind, c) = t BY DEF Setup
  <1> HIDE DEF a, b, d, e, f, g, h, k
  <1>2. /\ t \in Seq({t[i] : i \in 1..8}) /\ Len(t) = 8
        /\ t[1] = a /\ t[2] = b /\ t[3] = d /\ t[4] = e
        /\ t[5] = f /\ t[6] = g /\ t[7] = h /\ t[8] = k
    OBVIOUS
  <1> HIDE DEF t
  <1>3. \A i \in 1..8 : Setup(kind, c)[i] = t[i] BY <1>1
  <1> QED BY <1>1, <1>2 DEF a, b, d, e, f, g, h, k

LEMMA LaunchElements ==
    ASSUME NEW c
    PROVE  /\ Len(Launch("capture", c)) = 4
           /\ Launch("capture", c) \in Seq({Launch("capture", c)[i] : i \in 1..4})
           /\ Launch("capture", c)[1] = <<"CCR3", "none">>
           /\ Launch("capture", c)[2] = <<"CAPOFF">>
           /\ Launch("capture", c)[3] = <<"CAP", Expected(c)>>
           /\ Launch("capture", c)[4] = <<"CEN">>
           /\ Len(Launch("slot", c)) = 2
           /\ Launch("slot", c) \in Seq({Launch("slot", c)[i] : i \in 1..2})
           /\ Launch("slot", c)[1] = <<"CCR3", "none">>
           /\ Launch("slot", c)[2] = <<"CEN">>
           /\ Len(Launch("feed", c)) = 2
           /\ Launch("feed", c) \in Seq({Launch("feed", c)[i] : i \in 1..2})
           /\ Launch("feed", c)[1] = <<"FEED", Tail(Table(c))>>
           /\ Launch("feed", c)[2] = <<"CEN">>
           /\ Len(Launch("both", c)) = 6
           /\ Launch("both", c) \in Seq({Launch("both", c)[i] : i \in 1..6})
           /\ Launch("both", c)[1] = <<"CAPOFF">>
           /\ Launch("both", c)[2] = <<"CAP", Expected(c)>>
           /\ Launch("both", c)[3] = <<"FEED", Tail(Table(c))>>
           /\ Launch("both", c)[4] = <<"DIER", Requests("both")>>
           /\ Launch("both", c)[5] = <<"CCR3", c.pulses[1]>>
           /\ Launch("both", c)[6] = <<"CEN">>
  <1> DEFINE a == << <<"CCR3", "none">>, <<"CAPOFF">>, <<"CAP", Expected(c)>>, <<"CEN">> >>
             b == << <<"CCR3", "none">>, <<"CEN">> >>
             d == << <<"FEED", Tail(Table(c))>>, <<"CEN">> >>
             e == << <<"CAPOFF">>, <<"CAP", Expected(c)>>, <<"FEED", Tail(Table(c))>>,
                     <<"DIER", Requests("both")>>, <<"CCR3", c.pulses[1]>>, <<"CEN">> >>
  <1>1. Launch("capture", c) = a /\ Launch("slot", c) = b /\ Launch("feed", c) = d
        /\ Launch("both", c) = e
    BY DEF Launch
  <1>2. /\ Len(a) = 4 /\ a \in Seq({a[i] : i \in 1..4})
        /\ a[1] = <<"CCR3", "none">> /\ a[2] = <<"CAPOFF">> /\ a[3] = <<"CAP", Expected(c)>>
        /\ a[4] = <<"CEN">>
    OBVIOUS
  <1>3. /\ Len(b) = 2 /\ b \in Seq({b[i] : i \in 1..2})
        /\ b[1] = <<"CCR3", "none">> /\ b[2] = <<"CEN">>
    OBVIOUS
  <1>4. /\ Len(d) = 2 /\ d \in Seq({d[i] : i \in 1..2})
        /\ d[1] = <<"FEED", Tail(Table(c))>> /\ d[2] = <<"CEN">>
    OBVIOUS
  <1>5. /\ Len(e) = 6 /\ e \in Seq({e[i] : i \in 1..6})
        /\ e[1] = <<"CAPOFF">> /\ e[2] = <<"CAP", Expected(c)>> /\ e[3] = <<"FEED", Tail(Table(c))>>
        /\ e[4] = <<"DIER", Requests("both")>> /\ e[5] = <<"CCR3", c.pulses[1]>>
        /\ e[6] = <<"CEN">>
    OBVIOUS
  <1> HIDE DEF a, b, d, e
  <1> QED BY <1>1, <1>2, <1>3, <1>4, <1>5

\* Setup and launch one after the other.
LEMMA ProgramElements ==
    ASSUME NEW kind \in Kinds, NEW c
    PROVE  /\ \E S : Program(kind, c) \in Seq(S)
           /\ Len(Program(kind, c)) = Size(kind)
           /\ \A i \in 1..8 : Program(kind, c)[i] = Setup(kind, c)[i]
           /\ \A i \in 9..Size(kind) : Program(kind, c)[i] = Launch(kind, c)[i - 8]
  <1> DEFINE n == Size(kind) - 8
             s == Setup(kind, c)
             t == Launch(kind, c)
             p == Program(kind, c)
  <1>1. kind = "capture" \/ kind = "slot" \/ kind = "feed" \/ kind = "both" BY DEF Kinds
  <1>2. n = (IF kind = "capture" THEN 4 ELSE IF kind = "both" THEN 6 ELSE 2)
        /\ Size(kind) = 8 + n
    BY <1>1 DEF Size
  <1> HIDE DEF n
  <1>3. (\E B : t \in Seq(B)) /\ Len(t) = n
    <2>1. CASE kind = "capture"
      <3>1. (\E B : Launch("capture", c) \in Seq(B)) /\ Len(Launch("capture", c)) = 4
        BY LaunchElements
      <3> QED BY <2>1, <3>1, <1>2
    <2>2. CASE kind = "both"
      <3>1. (\E B : Launch("both", c) \in Seq(B)) /\ Len(Launch("both", c)) = 6
        BY LaunchElements
      <3> QED BY <2>2, <3>1, <1>2
    <2>3. CASE kind = "slot"
      <3>1. (\E B : Launch("slot", c) \in Seq(B)) /\ Len(Launch("slot", c)) = 2
        BY LaunchElements
      <3> QED BY <2>3, <3>1, <1>2
    <2>4. CASE kind = "feed"
      <3>1. (\E B : Launch("feed", c) \in Seq(B)) /\ Len(Launch("feed", c)) = 2
        BY LaunchElements
      <3> QED BY <2>4, <3>1, <1>2
    <2> QED BY <1>1, <2>1, <2>2, <2>3, <2>4
  <1>4. PICK A : s \in Seq(A) BY SetupElements
  <1>5. PICK B : t \in Seq(B) BY <1>3
  <1>6. Len(s) = 8 BY SetupElements
  <1>7. p = s \o t BY DEF Program
  <1>8. n \in Nat BY <1>2
  <1> HIDE DEF s, t, p
  <1>9. s \in Seq(A \cup B) /\ t \in Seq(A \cup B) BY <1>4, <1>5, SeqMonotonic
  <1>10. /\ s \o t \in Seq(A \cup B) /\ Len(s \o t) = Len(s) + Len(t)
         /\ \A i \in 1..(Len(s) + Len(t)) : (s \o t)[i] = IF i <= Len(s) THEN s[i] ELSE t[i - Len(s)]
    BY <1>9, ConcatProperties
  <1>11. /\ p \in Seq(A \cup B) /\ Len(p) = 8 + n
         /\ \A i \in 1..(8 + n) : p[i] = IF i <= 8 THEN s[i] ELSE t[i - 8]
    BY <1>3, <1>6, <1>7, <1>10, Zenon
  <1>12. /\ Len(p) = Size(kind)
         /\ \A i \in 1..8 : p[i] = s[i]
         /\ \A i \in 9..Size(kind) : p[i] = t[i - 8]
    BY <1>2, <1>8, <1>11
  <1> QED BY <1>11, <1>12 DEF s, t, p

\* The programs of the calls are of these kinds.
LEMMA ResetProgram ==
    ASSUME NEW c, c.op = "reset", c.pulses = <<"reset">>
    PROVE  Reset = Program("capture", c)
  <1>1. Period(c) = ResetTime /\ Expected(c) = Edges BY DEF Period, Expected
  <1>2. Len(c.pulses) - 1 = 0 /\ c.pulses[1] = "reset" OBVIOUS
  <1>3. Requests("capture") = {"CC4DE", "UIE"} BY DEF Requests, Captured, Preloaded
  <1>4. Preloaded("capture") = TRUE /\ Captured("capture") = TRUE BY DEF Captured, Preloaded
  <1> DEFINE a == <<"RCR", 0>>
             b == <<"ARR", ResetTime>>
             d == <<"CCR3", "reset">>
             e == <<"CCMR2", TRUE>>
             f == <<"CC4E", TRUE>>
             g == <<"DIER", {"CC4DE", "UIE"}>>
             h == <<"UG">>
             k == <<"SR">>
             p == <<"CCR3", "none">>
             q == <<"CAPOFF">>
             r == <<"CAP", Edges>>
             s == <<"CEN">>
  <1>5. Setup("capture", c) = << a, b, d, e, f, g, h, k >>
    BY <1>1, <1>2, <1>3, <1>4 DEF Setup
  <1>6. Launch("capture", c) = << p, q, r, s >>
    <2>1. Launch("capture", c) =
             << <<"CCR3", "none">>, <<"CAPOFF">>, <<"CAP", Expected(c)>>, <<"CEN">> >>
      BY DEF Launch
    <2> QED BY <1>1, <2>1
  <1>7. Reset = << a, b, d >> \o (<< e, f, g >> \o << h, k >> \o << p, q, r, s >>)
    BY DEF Reset, Capture, Reload
  <1> HIDE DEF a, b, d, e, f, g, h, k, p, q, r, s
  <1>8. << a, b, d >> \o (<< e, f, g >> \o << h, k >> \o << p, q, r, s >>) =
              << a, b, d, e, f, g, h, k >> \o << p, q, r, s >>
    OBVIOUS
  <1> QED BY <1>5, <1>6, <1>7, <1>8 DEF Program

\* All other captures: n slots that send ones.
LEMMA ReadProgram ==
    ASSUME NEW c, NEW n \in 1..Periods, c.op \in {"read", "slots"}, c.pulses = Ones(n)
    PROVE  << <<"RCR", n - 1>>, <<"ARR", SlotTime>>, <<"CCR3", "one">> >> \o Capture(n) =
               Program("capture", c)
  <1>1. Len(c.pulses) = n /\ c.pulses[1] = "one" BY ScaleAssumption DEF Ones
  <1>2. Period(c) = SlotTime /\ Expected(c) = n BY <1>1 DEF Period, Expected
  <1>3. Requests("capture") = {"CC4DE", "UIE"} BY DEF Requests, Captured, Preloaded
  <1>4. Preloaded("capture") = TRUE /\ Captured("capture") = TRUE BY DEF Captured, Preloaded
  <1> DEFINE a == <<"RCR", n - 1>>
             b == <<"ARR", SlotTime>>
             d == <<"CCR3", "one">>
             e == <<"CCMR2", TRUE>>
             f == <<"CC4E", TRUE>>
             g == <<"DIER", {"CC4DE", "UIE"}>>
             h == <<"UG">>
             k == <<"SR">>
             p == <<"CCR3", "none">>
             q == <<"CAPOFF">>
             r == <<"CAP", n>>
             s == <<"CEN">>
  <1>5. Setup("capture", c) = << a, b, d, e, f, g, h, k >>
    BY <1>1, <1>2, <1>3, <1>4 DEF Setup
  <1>6. Launch("capture", c) = << p, q, r, s >>
    <2>1. Launch("capture", c) =
             << <<"CCR3", "none">>, <<"CAPOFF">>, <<"CAP", Expected(c)>>, <<"CEN">> >>
      BY DEF Launch
    <2> QED BY <1>2, <2>1
  <1>7. << a, b, d >> \o Capture(n) =
            << a, b, d >> \o (<< e, f, g >> \o << h, k >> \o << p, q, r, s >>)
    BY DEF Capture, Reload
  <1> HIDE DEF a, b, d, e, f, g, h, k, p, q, r, s
  <1>8. << a, b, d >> \o (<< e, f, g >> \o << h, k >> \o << p, q, r, s >>) =
              << a, b, d, e, f, g, h, k >> \o << p, q, r, s >>
    OBVIOUS
  <1>9. << a, b, d >> \o Capture(n) = Program("capture", c)
    BY <1>5, <1>6, <1>7, <1>8 DEF Program
  <1> QED BY <1>9 DEF a, b, d

LEMMA SlotProgram ==
    ASSUME NEW c, c.op # "reset", Len(c.pulses) = 1
    PROVE  WriteSlot(c.pulses[1]) = Program("slot", c)
  <1>1. Period(c) = SlotTime BY DEF Period
  <1>2. Len(c.pulses) - 1 = 0 OBVIOUS
  <1>3. Requests("slot") = {"UIE"} BY DEF Requests, Captured, Preloaded
  <1>4. Preloaded("slot") = TRUE /\ Captured("slot") = FALSE BY DEF Captured, Preloaded
  <1> DEFINE a == <<"RCR", 0>>
             b == <<"ARR", SlotTime>>
             d == <<"CCR3", c.pulses[1]>>
             e == <<"CCMR2", TRUE>>
             f == <<"CC4E", FALSE>>
             g == <<"DIER", {"UIE"}>>
             h == <<"UG">>
             k == <<"SR">>
             p == <<"CCR3", "none">>
             q == <<"CEN">>
  <1>5. Setup("slot", c) = << a, b, d, e, f, g, h, k >>
    BY <1>1, <1>2, <1>3, <1>4 DEF Setup
  <1>6. Launch("slot", c) = << p, q >> BY DEF Launch
  <1>7. WriteSlot(c.pulses[1]) = << a, b, d, e, f, g >> \o << h, k >> \o << p, q >>
    BY DEF WriteSlot, Reload
  <1> HIDE DEF a, b, d, e, f, g, h, k, p, q
  <1>8. << a, b, d, e, f, g >> \o << h, k >> \o << p, q >> =
              << a, b, d, e, f, g, h, k >> \o << p, q >>
    OBVIOUS
  <1> QED BY <1>5, <1>6, <1>7, <1>8 DEF Program

\* The DMA is fed the table from its second entry on.
LEMMA TableTail ==
    ASSUME NEW t \in Seq(Pulses), t # <<>>
    PROVE  Tail(Append(t, "none")) = Append(Tail(t), "none")
  BY HeadTailAppend

LEMMA FeedProgram ==
    ASSUME NEW c, c.op # "reset", c.pulses \in Seq(Pulses), Len(c.pulses) > 1
    PROVE  Feed(c.pulses) = Program("feed", c)
  <1>1. Period(c) = SlotTime BY DEF Period
  <1>2. Tail(Table(c)) = Append(Tail(c.pulses), "none")
    <2>1. c.pulses # <<>> BY EmptySeq
    <2> QED BY <2>1, TableTail DEF Table
  <1>3. Requests("feed") = {"CC2DE", "UIE"} BY DEF Requests, Captured, Preloaded
  <1>4. Preloaded("feed") = FALSE /\ Captured("feed") = FALSE BY DEF Captured, Preloaded
  <1> DEFINE a == <<"RCR", Len(c.pulses) - 1>>
             b == <<"ARR", SlotTime>>
             d == <<"CCR3", c.pulses[1]>>
             e == <<"CCMR2", FALSE>>
             f == <<"CC4E", FALSE>>
             g == <<"DIER", {"CC2DE", "UIE"}>>
             h == <<"UG">>
             k == <<"SR">>
             p == <<"FEED", Append(Tail(c.pulses), "none")>>
             q == <<"CEN">>
  <1>5. Setup("feed", c) = << a, b, d, e, f, g, h, k >>
    BY <1>1, <1>3, <1>4 DEF Setup
  <1>6. Launch("feed", c) = << p, q >>
    <2>1. Launch("feed", c) = << <<"FEED", Tail(Table(c))>>, <<"CEN">> >> BY DEF Launch
    <2> QED BY <1>2, <2>1
  <1>7. Feed(c.pulses) = << a, b, d, e, f, g >> \o << h, k >> \o << p, q >>
    BY DEF Feed, Reload
  <1> HIDE DEF a, b, d, e, f, g, h, k, p, q
  <1>8. << a, b, d, e, f, g >> \o << h, k >> \o << p, q >> =
              << a, b, d, e, f, g, h, k >> \o << p, q >>
    OBVIOUS
  <1> QED BY <1>5, <1>6, <1>7, <1>8 DEF Program

LEMMA BothProgram ==
    ASSUME NEW c, NEW pulse \in {"one", "zero"}, c.op = "slots",
           c.pulses = <<pulse, "one", "one">>
    PROVE  WriteThenRead(pulse) = Program("both", c)
  <1>1. Period(c) = SlotTime /\ Expected(c) = 3 BY DEF Period, Expected
  <1>2. Len(c.pulses) - 1 = 2 /\ c.pulses[1] = pulse OBVIOUS
  <1>3. Requests("both") = {"CC4DE", "CC2DE", "UIE"} BY DEF Requests, Captured, Preloaded
  <1>4. Preloaded("both") = FALSE /\ Captured("both") = TRUE BY DEF Captured, Preloaded
  <1>5. Tail(Table(c)) = <<"one", "one", "none">>
    <2>1. Table(c) = <<pulse, "one", "one", "none">>
      <3> DEFINE u == Append(c.pulses, "none")
                 v == <<pulse, "one", "one", "none">>
      <3>1. c.pulses \in Seq(Pulses) /\ Len(c.pulses) = 3 BY DEF Pulses
      <3>2. "none" \in Pulses BY DEF Pulses
      <3>3. /\ u \in Seq(Pulses) /\ Len(u) = 3 + 1
            /\ \A i \in 1..3 : u[i] = c.pulses[i]
            /\ u[3 + 1] = "none"
        BY <3>1, <3>2, AppendProperties
      <3>4. v \in Seq(Pulses) /\ Len(v) = 4 BY DEF Pulses
      <3> HIDE DEF u
      <3>5. \A i \in 1..4 : u[i] = v[i] BY <3>3
      <3>6. u = v BY <3>3, <3>4, <3>5, SeqEqual
      <3> QED BY <3>6 DEF u, Table
    <2>2. Tail(<<pulse, "one", "one", "none">>) = <<"one", "one", "none">> OBVIOUS
    <2> QED BY <2>1, <2>2
  <1> DEFINE a == <<"RCR", 2>>
             b == <<"ARR", SlotTime>>
             d == <<"CCR3", pulse>>
             e == <<"CCMR2", FALSE>>
             f == <<"CC4E", TRUE>>
             g == <<"DIER", {"UIE"}>>
             h == <<"UG">>
             k == <<"SR">>
             p == <<"CAPOFF">>
             q == <<"CAP", 3>>
             r == <<"FEED", <<"one", "one", "none">> >>
             s == <<"DIER", {"CC4DE", "CC2DE", "UIE"}>>
             t == <<"CEN">>
  <1>6. Setup("both", c) = << a, b, d, e, f, g, h, k >>
    BY <1>1, <1>2, <1>4 DEF Setup
  <1>7. Launch("both", c) = << p, q, r, s, d, t >>
    <2>1. Launch("both", c) =
             << <<"CAPOFF">>, <<"CAP", Expected(c)>>, <<"FEED", Tail(Table(c))>>,
                <<"DIER", Requests("both")>>, <<"CCR3", c.pulses[1]>>, <<"CEN">> >>
      BY DEF Launch
    <2> QED BY <1>1, <1>2, <1>3, <1>5, <2>1
  <1>8. WriteThenRead(pulse) =
            << a, b, d, e, f, g >> \o << h, k >> \o << p, q, r, s, d, t >>
    BY DEF WriteThenRead, Reload
  <1> HIDE DEF a, b, d, e, f, g, h, k, p, q, r, s, t
  <1>9. << a, b, d, e, f, g >> \o << h, k >> \o << p, q, r, s, d, t >> =
            << a, b, d, e, f, g, h, k >> \o << p, q, r, s, d, t >>
    OBVIOUS
  <1> QED BY <1>6, <1>7, <1>8, <1>9 DEF Program

LEMMA WaitProgram ==
    ASSUME NEW us \in Nat
    PROVE  /\ \E S : StartWait(us) \in Seq(S)
           /\ Len(StartWait(us)) = 6
           /\ StartWait(us)[1] = <<"ARR", PlanWait(us).arr>>
           /\ StartWait(us)[2] = <<"RCR", PlanWait(us).n - 1>>
           /\ \E d \in SUBSET {"UIE"} : StartWait(us)[3] = <<"DIER", d>>
           /\ StartWait(us)[4] = <<"UG">>
           /\ StartWait(us)[5] = <<"SR">>
           /\ StartWait(us)[6] = <<"CEN">>
  <1> DEFINE p == PlanWait(us)
             x == IF IsLong(p.n, p.arr) THEN {"UIE"} ELSE {}
             a == <<"ARR", p.arr>>
             b == <<"RCR", p.n - 1>>
             d == <<"DIER", x>>
             e == <<"UG">>
             f == <<"SR">>
             g == <<"CEN">>
             all == StartWait(us)
  <1>1. x \in SUBSET {"UIE"} OBVIOUS
  <1>2. all = << a, b, d >> \o << e, f >> \o << g >> BY DEF StartWait, Reload
  <1> HIDE DEF all, a, b, d, e, f, g
  <1> DEFINE S == {a, b, d, e, f, g}
             s == << a, b, d >>
             t == << e, f >>
             u == << g >>
  <1>3. s \in Seq(S) /\ t \in Seq(S) /\ u \in Seq(S) /\ Len(s) = 3 /\ Len(t) = 2 /\ Len(u) = 1
        /\ s[1] = a /\ s[2] = b /\ s[3] = d /\ t[1] = e /\ t[2] = f /\ u[1] = g
    OBVIOUS
  <1> HIDE DEF S, s, t, u
  <1> DEFINE st == s \o t
             stu == st \o u
  <1>4. /\ s \o t \in Seq(S) /\ Len(s \o t) = Len(s) + Len(t)
        /\ \A i \in 1..(Len(s) + Len(t)) : (s \o t)[i] = IF i <= Len(s) THEN s[i] ELSE t[i - Len(s)]
    BY <1>3, ConcatProperties
  <1>9. st \in Seq(S) /\ Len(st) = 3 + 2
        /\ \A i \in 1..(3 + 2) : st[i] = IF i <= 3 THEN s[i] ELSE t[i - 3]
    BY <1>3, <1>4, Zenon
  <1> HIDE DEF st
  <1>10. /\ st \o u \in Seq(S) /\ Len(st \o u) = Len(st) + Len(u)
        /\ \A i \in 1..(Len(st) + Len(u)) :
              (st \o u)[i] = IF i <= Len(st) THEN st[i] ELSE u[i - Len(st)]
    BY <1>3, <1>9, ConcatProperties
  <1>11. Len(st) = 5 BY <1>9
  <1>5. stu \in Seq(S) /\ Len(stu) = 5 + 1
        /\ \A i \in 1..(5 + 1) : stu[i] = IF i <= 5 THEN st[i] ELSE u[i - 5]
    BY <1>3, <1>10, <1>11, Zenon
  <1>6. all = stu BY <1>2 DEF s, t, u, st
  <1> HIDE DEF stu
  <1>7. stu[1] = a /\ stu[2] = b /\ stu[3] = d /\ stu[4] = e /\ stu[5] = f /\ stu[6] = g
    BY <1>3, <1>9, <1>5
  <1>8. all \in Seq(S) /\ Len(all) = 6 /\ all[1] = a /\ all[2] = b /\ all[3] = d /\ all[4] = e
        /\ all[5] = f /\ all[6] = g
    BY <1>5, <1>6, <1>7
  <1> QED BY <1>1, <1>8 DEF all, a, b, d, e, f, g

-----------------------------------------------------------------------------
(***************************************************************************)
(* The instructions of a program that starts an operation.                 *)
(***************************************************************************)
LEMMA UpdateEffect ==
    ASSUME NEW x \in Registers
    PROVE  /\ UpdateEvent(x) \in Registers
           /\ UpdateEvent(x).uif /\ UpdateEvent(x).ccr3 = x.pre /\ UpdateEvent(x).rep = x.rcr
           /\ UpdateEvent(x).cen = x.cen /\ UpdateEvent(x).arr = x.arr
           /\ UpdateEvent(x).rcr = x.rcr /\ UpdateEvent(x).stage = x.stage
           /\ UpdateEvent(x).pre = x.pre /\ UpdateEvent(x).oc3pe = x.oc3pe
           /\ UpdateEvent(x).cc4e = x.cc4e /\ UpdateEvent(x).dier = x.dier
           /\ UpdateEvent(x).pin = x.pin /\ UpdateEvent(x).cap = x.cap
           /\ UpdateEvent(x).feed = x.feed
  BY DEF UpdateEvent, Latched, Registers

\* The values the programs load are of their registers' types.
LEMMA ServedCall ==
    ASSUME NEW c \in CallType, NEW kind \in Kinds, Serves(kind, c)
    PROVE  /\ Len(c.pulses) \in 1..Periods /\ Len(c.pulses) \in Nat
           /\ Len(c.pulses) - 1 \in 0..(Periods - 1)
           /\ (Len(c.pulses) - 1) % Periods = Len(c.pulses) - 1
           /\ Period(c) \in 1..MaxArr
           /\ \A i \in 1..Len(c.pulses) : c.pulses[i] \in Pulses
           /\ "none" \in Pulses
           /\ Expected(c) \in Nat
           /\ Tail(Table(c)) \in Seq(Pulses)
           /\ Table(c) \in Seq(Pulses) /\ Len(Table(c)) = Len(c.pulses) + 1
           /\ \A i \in 1..Len(c.pulses) : Table(c)[i] = c.pulses[i]
           /\ Table(c)[Len(c.pulses) + 1] = "none"
           /\ Requests(kind) \in SUBSET {"CC2DE", "CC4DE", "UIE"}
           /\ {"UIE"} \in SUBSET {"CC2DE", "CC4DE", "UIE"}
           /\ Preloaded(kind) \in BOOLEAN /\ Captured(kind) \in BOOLEAN
           /\ c.op \in Ops \ {"wait"} /\ c.owed
  <1> DEFINE n == Len(c.pulses)
  <1>1. c.pulses \in Seq(Pulses) BY DEF CallType
  <1>2. n \in 1..Periods /\ n \in Nat /\ n - 1 \in 0..(Periods - 1)
    BY <1>1, LenProperties, ScaleAssumption DEF Serves
  <1>3. \A r \in 0..(Periods - 1) : r % Periods = r BY ScaleAssumption
  <1>4. Period(c) \in 1..MaxArr BY ScaleAssumption DEF Period, SlotTime
  <1>5. \A i \in 1..n : c.pulses[i] \in Pulses BY <1>1, ElementOfSeq
  <1>6. "none" \in Pulses BY DEF Pulses
  <1>7. Expected(c) \in Nat BY <1>2 DEF Expected, Edges
  <1>8. /\ Table(c) \in Seq(Pulses) /\ Len(Table(c)) = n + 1 /\ Table(c) # <<>>
        /\ \A i \in 1..n : Table(c)[i] = c.pulses[i]
        /\ Table(c)[n + 1] = "none"
    BY <1>1, <1>6, AppendProperties DEF Table
  <1>9. Tail(Table(c)) \in Seq(Pulses) BY <1>8, HeadTailProperties
  <1>10. Requests(kind) \in SUBSET {"CC2DE", "CC4DE", "UIE"}
         /\ {"UIE"} \in SUBSET {"CC2DE", "CC4DE", "UIE"}
    BY DEF Requests
  <1>11. Preloaded(kind) \in BOOLEAN /\ Captured(kind) \in BOOLEAN BY DEF Preloaded, Captured
  <1>12. c.op \in Ops \ {"wait"} /\ c.owed BY DEF Serves, Ops, Kinds
  <1> QED BY <1>2, <1>3, <1>4, <1>5, <1>6, <1>7, <1>8, <1>9, <1>10, <1>11, <1>12

\* The first eight instructions load the registers.
LEMMA ExecuteSetup ==
    ASSUME RegsTyped, NEW kind \in Kinds, Serves(kind, call), NEW n \in 0..7,
           SetupDone(kind, n), m' = Exec(m, Setup(kind, call)[n + 1]), UNCHANGED call
    PROVE  /\ m' \in Registers /\ m'.cen = m.cen /\ m'.pin = m.pin
           /\ SetupDone(kind, n + 1)' /\ LaunchDone(kind, n + 1)'
  <1> DEFINE v == call.pulses[1]
             last == Len(call.pulses) - 1
             per == Period(call)
             pl == Preloaded(kind)
             ca == Captured(kind)
             rq == Requests(kind)
             both == kind = "both"
             Done(x, k) ==
                /\ k >= 1 => x.rcr = last
                /\ k >= 2 => x.arr = per
                /\ k \in 3..8 => x.pre = v
                /\ k >= 4 => x.oc3pe = pl
                /\ k >= 5 => x.cc4e = ca
                /\ k >= 6 /\ ~both => x.dier = rq
                /\ k >= 7 => x.rep = x.rcr /\ x.ccr3 = v
                /\ k >= 8 => x.uif = FALSE
  <1>1. m \in Registers BY DEF RegsTyped
  <1>2. call \in CallType BY DEF RegsTyped
  <1>3. /\ last % Periods = last /\ last \in 0..(Periods - 1)
        /\ per \in 1..MaxArr /\ v \in Pulses
        /\ rq \in SUBSET {"CC2DE", "CC4DE", "UIE"} /\ {"UIE"} \in SUBSET {"CC2DE", "CC4DE", "UIE"}
        /\ pl \in BOOLEAN /\ ca \in BOOLEAN
    <2>1. 1 \in 1..Len(call.pulses) BY <1>2, ServedCall
    <2> QED BY <1>2, <2>1, ServedCall
  <1>4. Done(m, n) BY <1>1 DEF SetupDone, Registers
  <1>5. Done(m', n + 1) => SetupDone(kind, n + 1)' BY DEF SetupDone, Period
  <1>6. LaunchDone(kind, n + 1)' BY DEF LaunchDone
  <1> DEFINE s == Setup(kind, call)
  <1>7. /\ s[1] = <<"RCR", last>>
        /\ s[2] = <<"ARR", per>>
        /\ s[3] = <<"CCR3", v>>
        /\ s[4] = <<"CCMR2", pl>>
        /\ s[5] = <<"CC4E", ca>>
        /\ s[6] = <<"DIER", IF both THEN {"UIE"} ELSE rq>>
        /\ s[7] = <<"UG">>
        /\ s[8] = <<"SR">>
    BY SetupElements
  <1>8. m' = Exec(m, s[n + 1]) OBVIOUS
  <1> HIDE DEF s, v, last, per, pl, ca, rq, both
  <1>9. /\ n = 0 => m' = [m EXCEPT !.rcr = last % Periods]
        /\ n = 1 => m' = [m EXCEPT !.arr = per]
        /\ n = 2 => m' = [m EXCEPT !.pre = v, !.ccr3 = IF m.oc3pe THEN @ ELSE v]
        /\ n = 3 => m' = [m EXCEPT !.oc3pe = pl]
        /\ n = 4 => m' = [m EXCEPT !.cc4e = ca]
        /\ n = 5 => m' = [m EXCEPT !.dier = IF both THEN {"UIE"} ELSE rq]
        /\ n = 6 => m' = UpdateEvent(m)
        /\ n = 7 => m' = [m EXCEPT !.uif = FALSE]
    <2>1. ASSUME n = 0 PROVE m' = [m EXCEPT !.rcr = last % Periods]
      <3>1. s[n + 1] = <<"RCR", last>> BY <1>7, <2>1
      <3>2. Exec(m, <<"RCR", last>>) = [m EXCEPT !.rcr = last % Periods] BY Instructions, Zenon
      <3> QED BY <1>8, <3>1, <3>2, Zenon
    <2>2. ASSUME n = 1 PROVE m' = [m EXCEPT !.arr = per]
      <3>1. s[n + 1] = <<"ARR", per>> BY <1>7, <2>2
      <3>2. Exec(m, <<"ARR", per>>) = [m EXCEPT !.arr = per] BY Instructions, Zenon
      <3> QED BY <1>8, <3>1, <3>2, Zenon
    <2>3. ASSUME n = 2 PROVE m' = [m EXCEPT !.pre = v, !.ccr3 = IF m.oc3pe THEN @ ELSE v]
      <3>1. s[n + 1] = <<"CCR3", v>> BY <1>7, <2>3
      <3>2. Exec(m, <<"CCR3", v>>) = [m EXCEPT !.pre = v, !.ccr3 = IF m.oc3pe THEN @ ELSE v]
        BY Instructions, Zenon
      <3> QED BY <1>8, <3>1, <3>2, Zenon
    <2>4. ASSUME n = 3 PROVE m' = [m EXCEPT !.oc3pe = pl]
      <3>1. s[n + 1] = <<"CCMR2", pl>> BY <1>7, <2>4
      <3>2. Exec(m, <<"CCMR2", pl>>) = [m EXCEPT !.oc3pe = pl] BY Instructions, Zenon
      <3> QED BY <1>8, <3>1, <3>2, Zenon
    <2>5. ASSUME n = 4 PROVE m' = [m EXCEPT !.cc4e = ca]
      <3>1. s[n + 1] = <<"CC4E", ca>> BY <1>7, <2>5
      <3>2. Exec(m, <<"CC4E", ca>>) = [m EXCEPT !.cc4e = ca] BY Instructions, Zenon
      <3> QED BY <1>8, <3>1, <3>2, Zenon
    <2> DEFINE d == IF both THEN {"UIE"} ELSE rq
    <2>6. ASSUME n = 5 PROVE m' = [m EXCEPT !.dier = d]
      <3>1. s[n + 1] = <<"DIER", d>> BY <1>7, <2>6
      <3>2. Exec(m, <<"DIER", d>>) = [m EXCEPT !.dier = d] BY Instructions, Zenon
      <3> QED BY <1>8, <3>1, <3>2, Zenon
    <2>7. ASSUME n = 6 PROVE m' = UpdateEvent(m)
      <3>1. s[n + 1] = <<"UG">> BY <1>7, <2>7
      <3>2. Exec(m, <<"UG">>) = UpdateEvent(m) BY Instructions, Zenon
      <3> QED BY <1>8, <3>1, <3>2, Zenon
    <2>8. ASSUME n = 7 PROVE m' = [m EXCEPT !.uif = FALSE]
      <3>1. s[n + 1] = <<"SR">> BY <1>7, <2>8
      <3>2. Exec(m, <<"SR">>) = [m EXCEPT !.uif = FALSE] BY Instructions, Zenon
      <3> QED BY <1>8, <3>1, <3>2, Zenon
    <2> QED BY <2>1, <2>2, <2>3, <2>4, <2>5, <2>6, <2>7, <2>8
  <1>10. m' \in Registers /\ m'.cen = m.cen /\ m'.pin = m.pin /\ Done(m', n + 1)
    <2>1. CASE n = 0 BY <1>1, <1>3, <1>4, <1>9, <2>1 DEF Registers
    <2>2. CASE n = 1 BY <1>1, <1>3, <1>4, <1>9, <2>2 DEF Registers
    <2>3. CASE n = 2
      <3> DEFINE w == IF m.oc3pe THEN m.ccr3 ELSE v
      <3>1. w \in Pulses BY <1>1, <1>3 DEF Registers
      <3>2. m' = [m EXCEPT !.pre = v, !.ccr3 = w] BY <1>9, <2>3
      <3> HIDE DEF w
      <3>3. m' \in Registers /\ m'.pre = v BY <1>1, <1>3, <3>1, <3>2 DEF Registers
      <3>4. /\ m'.cen = m.cen /\ m'.pin = m.pin /\ m'.rcr = m.rcr /\ m'.arr = m.arr
        BY <1>1, <3>2 DEF Registers
      <3> QED BY <1>4, <2>3, <3>3, <3>4
    <2>4. CASE n = 3 BY <1>1, <1>3, <1>4, <1>9, <2>4 DEF Registers
    <2>5. CASE n = 4 BY <1>1, <1>3, <1>4, <1>9, <2>5 DEF Registers
    <2>6. CASE n = 5 BY <1>1, <1>3, <1>4, <1>9, <2>6 DEF Registers
    <2>7. CASE n = 6 BY <1>1, <1>3, <1>4, <1>9, <2>7, UpdateEffect
    <2>8. CASE n = 7
      <3>1. m' = [m EXCEPT !.uif = FALSE] BY <1>9, <2>8
      <3>2. m' \in Registers /\ m'.uif = FALSE BY <1>1, <3>1 DEF Registers
      <3>3. /\ m'.cen = m.cen /\ m'.pin = m.pin /\ m'.rcr = m.rcr /\ m'.arr = m.arr
            /\ m'.pre = m.pre /\ m'.oc3pe = m.oc3pe /\ m'.cc4e = m.cc4e /\ m'.dier = m.dier
            /\ m'.rep = m.rep /\ m'.ccr3 = m.ccr3
        BY <1>1, <3>1 DEF Registers
      <3> QED BY <1>4, <2>8, <3>2, <3>3
    <2>9. n = 0 \/ n = 1 \/ n = 2 \/ n = 3 \/ n = 4 \/ n = 5 \/ n = 6 \/ n = 7 OBVIOUS
    <2> HIDE DEF Done
    <2> QED BY <2>1, <2>2, <2>3, <2>4, <2>5, <2>6, <2>7, <2>8, <2>9
  <1> QED BY <1>5, <1>6, <1>10

\* y differs from x in the named registers at most.
Agree(x, y, names) ==
    /\ "cen"   \in names \/ y.cen   = x.cen
    /\ "arr"   \in names \/ y.arr   = x.arr
    /\ "rcr"   \in names \/ y.rcr   = x.rcr
    /\ "rep"   \in names \/ y.rep   = x.rep
    /\ "stage" \in names \/ y.stage = x.stage
    /\ "pre"   \in names \/ y.pre   = x.pre
    /\ "ccr3"  \in names \/ y.ccr3  = x.ccr3
    /\ "oc3pe" \in names \/ y.oc3pe = x.oc3pe
    /\ "cc4e"  \in names \/ y.cc4e  = x.cc4e
    /\ "dier"  \in names \/ y.dier  = x.dier
    /\ "uif"   \in names \/ y.uif   = x.uif
    /\ "pin"   \in names \/ y.pin   = x.pin
    /\ "cap"   \in names \/ y.cap   = x.cap
    /\ "feed"  \in names \/ y.feed  = x.feed

\* The instructions that prepare the slots after the first, one by one.
LEMMA PreloadEffect ==
    ASSUME NEW x \in Registers, NEW v \in Pulses, NEW y, y = Exec(x, <<"CCR3", v>>)
    PROVE  /\ y \in Registers /\ y.pre = v /\ Agree(x, y, {"pre", "ccr3"})
           /\ y.ccr3 = IF x.oc3pe THEN x.ccr3 ELSE v
  <1> DEFINE w == IF x.oc3pe THEN x.ccr3 ELSE v
  <1>1. Exec(x, <<"CCR3", v>>) = [x EXCEPT !.pre = v, !.ccr3 = IF x.oc3pe THEN @ ELSE v]
    BY Instructions, Zenon
  <1>2. y = [x EXCEPT !.pre = v, !.ccr3 = w] BY <1>1
  <1>3. w \in Pulses BY DEF Registers
  <1> HIDE DEF w
  <1>4. y \in Registers /\ y.pre = v /\ y.ccr3 = w BY <1>2, <1>3 DEF Registers
  <1>5. Agree(x, y, {"pre", "ccr3"}) BY <1>2 DEF Agree, Registers
  <1> QED BY <1>4, <1>5 DEF w

LEMMA CaptureOffEffect ==
    ASSUME NEW x \in Registers, NEW y, y = Exec(x, <<"CAPOFF">>)
    PROVE  y \in Registers /\ y.cap.en = FALSE /\ Agree(x, y, {"cap"})
  <1>1. Exec(x, <<"CAPOFF">>) = CaptureOff(x) BY Instructions, Zenon
  <1>2. y = [x EXCEPT !.cap = [x.cap EXCEPT !.en = FALSE]] BY <1>1 DEF CaptureOff
  <1> DEFINE w == [x.cap EXCEPT !.en = FALSE]
  <1>3. w \in [en : BOOLEAN, left : Nat, at : Nat] /\ w.en = FALSE BY DEF Registers
  <1> HIDE DEF w
  <1>4. y = [x EXCEPT !.cap = w] BY <1>2 DEF w
  <1>5. y \in Registers /\ y.cap = w BY <1>3, <1>4 DEF Registers
  <1>6. Agree(x, y, {"cap"}) BY <1>4 DEF Agree, Registers
  <1> QED BY <1>3, <1>5, <1>6

LEMMA CaptureOnEffect ==
    ASSUME NEW x \in Registers, NEW n \in Nat, NEW y, x.cap.en = FALSE,
           y = Exec(x, <<"CAP", n>>)
    PROVE  y \in Registers /\ y.cap = [en |-> TRUE, left |-> n, at |-> 1] /\ Agree(x, y, {"cap"})
  <1>1. Exec(x, <<"CAP", n>>) = CaptureOn(x, n) BY Instructions, Zenon
  <1> DEFINE w == [en |-> TRUE, left |-> n, at |-> 1]
  <1>2. y = [x EXCEPT !.cap = w] BY <1>1 DEF CaptureOn
  <1>3. w \in [en : BOOLEAN, left : Nat, at : Nat] OBVIOUS
  <1> HIDE DEF w
  <1>4. y \in Registers /\ y.cap = w BY <1>2, <1>3 DEF Registers
  <1>5. Agree(x, y, {"cap"}) BY <1>2 DEF Agree, Registers
  <1> QED BY <1>4, <1>5 DEF w

LEMMA FeedEffect ==
    ASSUME NEW x \in Registers, NEW t \in Seq(Pulses), NEW y, y = Exec(x, <<"FEED", t>>)
    PROVE  y \in Registers /\ y.feed = t /\ Agree(x, y, {"feed"})
  <1>1. Exec(x, <<"FEED", t>>) = [x EXCEPT !.feed = t] BY Instructions, Zenon
  <1>2. y \in Registers /\ y.feed = t BY <1>1 DEF Registers
  <1>3. Agree(x, y, {"feed"}) BY <1>1 DEF Agree, Registers
  <1> QED BY <1>2, <1>3

LEMMA RequestEffect ==
    ASSUME NEW x \in Registers, NEW d \in SUBSET {"CC2DE", "CC4DE", "UIE"}, NEW y,
           y = Exec(x, <<"DIER", d>>)
    PROVE  y \in Registers /\ y.dier = d /\ Agree(x, y, {"dier"})
  <1>1. Exec(x, <<"DIER", d>>) = [x EXCEPT !.dier = d] BY Instructions, Zenon
  <1>2. y \in Registers /\ y.dier = d BY <1>1 DEF Registers
  <1>3. Agree(x, y, {"dier"}) BY <1>1 DEF Agree, Registers
  <1> QED BY <1>2, <1>3

LEMMA StartEffect ==
    ASSUME NEW x \in Registers, NEW y, y = Exec(x, <<"CEN">>)
    PROVE  y \in Registers /\ y.cen = TRUE /\ y.stage = "edge" /\ Agree(x, y, {"cen", "stage"})
  <1>1. Exec(x, <<"CEN">>) = [x EXCEPT !.cen = TRUE, !.stage = "edge"] BY Instructions, Zenon
  <1>2. y \in Registers /\ y.cen = TRUE /\ y.stage = "edge" BY <1>1 DEF Registers
  <1>3. Agree(x, y, {"cen", "stage"}) BY <1>1 DEF Agree, Registers
  <1> QED BY <1>2, <1>3

LEMMA PinEffect ==
    ASSUME NEW x \in Registers, NEW p \in Pins, NEW y, y = Exec(x, <<"PIN", p>>)
    PROVE  y \in Registers /\ y.pin = p /\ Agree(x, y, {"pin"})
  <1>1. Exec(x, <<"PIN", p>>) = [x EXCEPT !.pin = p] BY Instructions, Zenon
  <1>2. y \in Registers /\ y.pin = p BY <1>1 DEF Registers
  <1>3. Agree(x, y, {"pin"}) BY <1>1 DEF Agree, Registers
  <1> QED BY <1>2, <1>3

LEMMA FlagEffect ==
    ASSUME NEW x \in Registers, NEW y, y = Exec(x, <<"SR">>)
    PROVE  y \in Registers /\ y.uif = FALSE /\ Agree(x, y, {"uif"})
  <1>1. Exec(x, <<"SR">>) = [x EXCEPT !.uif = FALSE] BY Instructions, Zenon
  <1>2. y \in Registers /\ y.uif = FALSE BY <1>1 DEF Registers
  <1>3. Agree(x, y, {"uif"}) BY <1>1 DEF Agree, Registers
  <1> QED BY <1>2, <1>3

LEMMA ForceEffect ==
    ASSUME NEW x \in Registers, NEW y, y = Exec(x, <<"UG">>)
    PROVE  /\ y \in Registers /\ y.uif = TRUE /\ y.ccr3 = x.pre /\ y.rep = x.rcr
           /\ Agree(x, y, {"uif", "ccr3", "rep"})
  <1>1. y = UpdateEvent(x) BY Instructions, Zenon
  <1>2. y \in Registers /\ y.uif /\ y.ccr3 = x.pre /\ y.rep = x.rcr BY <1>1, UpdateEffect
  <1>3. y.uif = TRUE BY <1>2 DEF Registers
  <1>4. Agree(x, y, {"uif", "ccr3", "rep"}) BY <1>1, UpdateEffect DEF Agree
  <1> QED BY <1>2, <1>3, <1>4

\* Then the compare register is prepared for the slots after the first one, the
\* DMA channels are armed, and the timer is started last.
LEMMA ExecuteLaunch ==
    ASSUME RegsTyped, NEW kind \in Kinds, Serves(kind, call), NEW n \in 8..(Size(kind) - 2),
           SetupDone(kind, n), LaunchDone(kind, n),
           m' = Exec(m, Launch(kind, call)[n - 7]), UNCHANGED call
    PROVE  /\ m' \in Registers /\ m'.cen = m.cen /\ m'.pin = m.pin
           /\ SetupDone(kind, n + 1)' /\ LaunchDone(kind, n + 1)'
  <1> DEFINE v == call.pulses[1]
             last == Len(call.pulses) - 1
             per == Period(call)
             pl == Preloaded(kind)
             ca == Captured(kind)
             rq == Requests(kind)
             e == Expected(call)
             t == Tail(Table(call))
             s == Launch(kind, call)
             Base(x) ==
                /\ x \in Registers
                /\ x.rcr = last /\ x.arr = per /\ x.oc3pe = pl /\ x.cc4e = ca /\ x.rep = last
                /\ x.ccr3 = v /\ x.uif = FALSE
  <1>1. m \in Registers /\ call \in CallType BY DEF RegsTyped
  <1>2. /\ v \in Pulses /\ "none" \in Pulses /\ e \in Nat /\ t \in Seq(Pulses)
        /\ rq \in SUBSET {"CC2DE", "CC4DE", "UIE"}
    <2>1. 1 \in 1..Len(call.pulses) BY <1>1, ServedCall
    <2> QED BY <1>1, <2>1, ServedCall
  <1>3. n >= 8 /\ n + 1 >= 8 /\ n \in Nat /\ Size(kind) \in {10, 12, 14} BY DEF Size
  <1>4. Base(m) /\ (kind # "both" => m.dier = rq)
    BY <1>1, <1>3 DEF SetupDone, Registers
  <1>5. ASSUME Base(m'), kind # "both" => m'.dier = rq
        PROVE  SetupDone(kind, n + 1)'
    <2>1. call' = call /\ ~(n + 1 \in 3..8) BY <1>3
    <2>2. m'.rcr = last /\ m'.arr = per /\ m'.oc3pe = pl /\ m'.cc4e = ca /\ m'.rep = m'.rcr
          /\ m'.ccr3 = v /\ ~m'.uif
      BY <1>5
    <2> QED BY <1>5, <2>1, <2>2 DEF SetupDone, Period
  <1>6. m' = Exec(m, s[n - 7]) OBVIOUS
  <1>7. e' = e /\ t' = t BY DEF Expected, Table
  <1> HIDE DEF s, v, last, per, pl, ca, rq, e, t
  <1>8. CASE kind = "capture"
    <2>1. s[1] = <<"CCR3", "none">> /\ s[2] = <<"CAPOFF">> /\ s[3] = <<"CAP", e>>
      BY <1>8, LaunchElements DEF s, e
    <2>2. n = 8 \/ n = 9 \/ n = 10 BY <1>3, <1>8 DEF Size
    <2>3. pl = TRUE /\ Preloaded(kind) BY <1>8 DEF Preloaded, pl
    <2>4. CASE n = 8
      <3>1. m' = Exec(m, <<"CCR3", "none">>) BY <1>6, <2>1, <2>4
      <3>2. m' \in Registers /\ m'.pre = "none" /\ Agree(m, m', {"pre", "ccr3"}) /\ m'.ccr3 = m.ccr3
        <4>1. m.oc3pe BY <1>4, <2>3
        <4>2. /\ m' \in Registers /\ m'.pre = "none" /\ Agree(m, m', {"pre", "ccr3"})
              /\ m'.ccr3 = IF m.oc3pe THEN m.ccr3 ELSE "none"
          BY <1>1, <1>2, <3>1, PreloadEffect
        <4> QED BY <4>1, <4>2
      <3>3. Base(m') /\ m'.dier = m.dier /\ m'.cen = m.cen /\ m'.pin = m.pin
        BY <1>4, <3>2 DEF Agree
      <3>4. LaunchDone(kind, n + 1)' BY <1>8, <2>4, <3>2 DEF LaunchDone
      <3> QED BY <1>4, <1>5, <3>3, <3>4
    <2>5. CASE n = 9
      <3>1. m' = Exec(m, <<"CAPOFF">>) BY <1>6, <2>1, <2>5
      <3>2. m' \in Registers /\ m'.cap.en = FALSE /\ Agree(m, m', {"cap"})
        BY <1>1, <3>1, CaptureOffEffect
      <3>3. Base(m') /\ m'.dier = m.dier /\ m'.cen = m.cen /\ m'.pin = m.pin
        BY <1>4, <3>2 DEF Agree
      <3>4. m.pre = "none" BY <2>3, <2>5 DEF LaunchDone
      <3>5. m'.pre = "none" BY <3>2, <3>4 DEF Agree
      <3>6. LaunchDone(kind, n + 1)' BY <1>8, <2>5, <3>2, <3>5 DEF LaunchDone
      <3> QED BY <1>4, <1>5, <3>3, <3>6
    <2>6. CASE n = 10
      <3>1. m' = Exec(m, <<"CAP", e>>) BY <1>6, <2>1, <2>6
      <3>2. m.pre = "none" /\ ~m.cap.en BY <1>8, <2>3, <2>6 DEF LaunchDone
      <3>3. m.cap.en = FALSE BY <1>1, <3>2 DEF Registers
      <3>4. m' \in Registers /\ m'.cap = [en |-> TRUE, left |-> e, at |-> 1] /\ Agree(m, m', {"cap"})
        BY <1>1, <1>2, <3>1, <3>3, CaptureOnEffect
      <3>5. Base(m') /\ m'.dier = m.dier /\ m'.cen = m.cen /\ m'.pin = m.pin
        BY <1>4, <3>4 DEF Agree
      <3>6. m'.pre = "none" BY <3>2, <3>4 DEF Agree
      <3>7. ArmedCapture' BY <1>7, <3>4 DEF ArmedCapture, e
      <3>8. LaunchDone(kind, n + 1)' BY <1>8, <2>6, <3>6, <3>7 DEF LaunchDone
      <3> QED BY <1>4, <1>5, <3>5, <3>8
    <2> QED BY <2>2, <2>4, <2>5, <2>6
  <1>9. CASE kind = "slot"
    <2>1. s[1] = <<"CCR3", "none">> BY <1>9, LaunchElements DEF s
    <2>2. n = 8 BY <1>3, <1>9 DEF Size
    <2>3. pl = TRUE BY <1>9 DEF Preloaded, pl
    <2>4. m' = Exec(m, <<"CCR3", "none">>) BY <1>6, <2>1, <2>2
    <2>5. m' \in Registers /\ m'.pre = "none" /\ Agree(m, m', {"pre", "ccr3"}) /\ m'.ccr3 = m.ccr3
      <3>1. m.oc3pe BY <1>4, <2>3
      <3>2. /\ m' \in Registers /\ m'.pre = "none" /\ Agree(m, m', {"pre", "ccr3"})
            /\ m'.ccr3 = IF m.oc3pe THEN m.ccr3 ELSE "none"
        BY <1>1, <1>2, <2>4, PreloadEffect
      <3> QED BY <3>1, <3>2
    <2>6. Base(m') /\ m'.dier = m.dier /\ m'.cen = m.cen /\ m'.pin = m.pin
      BY <1>4, <2>5 DEF Agree
    <2>7. LaunchDone(kind, n + 1)' BY <1>9, <2>2, <2>5 DEF LaunchDone
    <2> QED BY <1>4, <1>5, <2>6, <2>7
  <1>10. CASE kind = "feed"
    <2>1. s[1] = <<"FEED", t>> BY <1>10, LaunchElements DEF s, t
    <2>2. n = 8 BY <1>3, <1>10 DEF Size
    <2>3. m' = Exec(m, <<"FEED", t>>) BY <1>6, <2>1, <2>2
    <2>4. m' \in Registers /\ m'.feed = t /\ Agree(m, m', {"feed"})
      BY <1>1, <1>2, <2>3, FeedEffect
    <2>5. Base(m') /\ m'.dier = m.dier /\ m'.cen = m.cen /\ m'.pin = m.pin
      BY <1>4, <2>4 DEF Agree
    <2>6. m'.feed = Tail(Table(call))' BY <1>7, <2>4 DEF t
    <2>7. ~Preloaded(kind) BY <1>10 DEF Preloaded
    <2>8. LaunchDone(kind, n + 1)' BY <1>10, <2>2, <2>6, <2>7 DEF LaunchDone
    <2> QED BY <1>4, <1>5, <2>5, <2>8
  <1>11. CASE kind = "both"
    <2>1. /\ s[1] = <<"CAPOFF">> /\ s[2] = <<"CAP", e>> /\ s[3] = <<"FEED", t>>
          /\ s[4] = <<"DIER", rq>> /\ s[5] = <<"CCR3", v>>
      BY <1>11, LaunchElements DEF s, e, t, rq, v
    <2>2. n = 8 \/ n = 9 \/ n = 10 \/ n = 11 \/ n = 12 BY <1>3, <1>11 DEF Size
    <2>3. pl = FALSE /\ ~Preloaded(kind) BY <1>11 DEF Preloaded, pl
    <2> DEFINE cap == [en |-> TRUE, left |-> e, at |-> 1]
               Fed(x, k) ==
                /\ k = 9 => x.cap.en = FALSE
                /\ k >= 10 => x.cap = cap
                /\ k >= 11 => x.feed = t
                /\ k >= 12 => x.dier = rq
    <2>4. Fed(m, n) BY <1>1, <1>3, <1>11 DEF LaunchDone, ArmedCapture, t, rq, e, Registers
    <2>5. ASSUME Fed(m', n + 1) PROVE LaunchDone(kind, n + 1)'
      <3>1. n + 1 >= 10 => ArmedCapture' BY <1>7, <2>5 DEF ArmedCapture, e
      <3>2. n + 1 >= 11 => m'.feed = Tail(Table(call))' BY <1>7, <2>5 DEF t
      <3>3. (n + 1 = 9 => ~m'.cap.en) /\ (n + 1 >= 12 => m'.dier = Requests(kind))
        BY <2>5 DEF rq
      <3> QED BY <1>11, <2>3, <3>1, <3>2, <3>3 DEF LaunchDone
    <2> HIDE DEF cap
    <2>6. Base(m') /\ m'.cen = m.cen /\ m'.pin = m.pin /\ Fed(m', n + 1)
      <3>1. CASE n = 8
        <4>1. m' = Exec(m, <<"CAPOFF">>) BY <1>6, <2>1, <3>1
        <4>2. m' \in Registers /\ m'.cap.en = FALSE /\ Agree(m, m', {"cap"})
          BY <1>1, <4>1, CaptureOffEffect
        <4> QED BY <1>4, <3>1, <4>2 DEF Agree
      <3>2. CASE n = 9
        <4>1. m' = Exec(m, <<"CAP", e>>) BY <1>6, <2>1, <3>2
        <4>2. m.cap.en = FALSE BY <2>4, <3>2
        <4>3. m' \in Registers /\ m'.cap = cap /\ Agree(m, m', {"cap"})
          BY <1>1, <1>2, <4>1, <4>2, CaptureOnEffect DEF cap
        <4> QED BY <1>4, <3>2, <4>3 DEF Agree
      <3>3. CASE n = 10
        <4>1. m' = Exec(m, <<"FEED", t>>) BY <1>6, <2>1, <3>3
        <4>2. m' \in Registers /\ m'.feed = t /\ Agree(m, m', {"feed"})
          BY <1>1, <1>2, <4>1, FeedEffect
        <4> QED BY <1>4, <2>4, <3>3, <4>2 DEF Agree
      <3>4. CASE n = 11
        <4>1. m' = Exec(m, <<"DIER", rq>>) BY <1>6, <2>1, <3>4
        <4>2. m' \in Registers /\ m'.dier = rq /\ Agree(m, m', {"dier"})
          BY <1>1, <1>2, <4>1, RequestEffect
        <4> QED BY <1>4, <2>4, <3>4, <4>2 DEF Agree
      <3>5. CASE n = 12
        <4>1. m' = Exec(m, <<"CCR3", v>>) BY <1>6, <2>1, <3>5
        <4>2. m' \in Registers /\ m'.ccr3 = v /\ Agree(m, m', {"pre", "ccr3"})
          BY <1>1, <1>2, <1>4, <2>3, <4>1, PreloadEffect
        <4> QED BY <1>4, <2>4, <3>5, <4>2 DEF Agree
      <3> QED BY <2>2, <3>1, <3>2, <3>3, <3>4, <3>5
    <2> QED BY <1>5, <1>11, <2>5, <2>6
  <1> QED BY <1>8, <1>9, <1>10, <1>11 DEF Kinds

-----------------------------------------------------------------------------
(***************************************************************************)
(* One instruction of a program.                                           *)
(***************************************************************************)
LEMMA ProgramStep ==
    ASSUME RegsTyped, Execute, NEW S, NEW p \in Seq(S), NEW n \in 0..(Len(p) - 1),
           cpu.prog = Rest(p, n)
    PROVE  /\ m' = Exec(m, p[n + 1])
           /\ cpu' = [pc |-> cpu'.pc, prog |-> cpu'.prog]
           /\ cpu'.pc = cpu.pc /\ cpu'.prog = Rest(p, n + 1)
           /\ n < Len(p) - 1 => Executing' /\ port' = port
           /\ n = Len(p) - 1 => ~Executing' /\ port' = PortInit
           /\ UNCHANGED <<call, bus, buf>>
  <1>1. /\ Head(cpu.prog) = p[n + 1] /\ Tail(cpu.prog) = Rest(p, n + 1)
        /\ Len(cpu.prog) = Len(p) - n
        /\ n = Len(p) - 1 <=> Rest(p, n + 1) = <<>>
    BY RestOfProgram
  <1>2. Len(p) \in Nat /\ n \in Nat BY LenProperties
  <1>3. cpu = [pc |-> cpu.pc, prog |-> cpu.prog] BY DEF RegsTyped
  <1>4. /\ m' = Exec(m, p[n + 1]) /\ cpu' = [cpu EXCEPT !.prog = Rest(p, n + 1)]
        /\ port' = IF Len(cpu.prog) = 1 THEN PortInit ELSE port
        /\ UNCHANGED <<call, bus, buf>>
    BY <1>1 DEF Execute
  <1>5. cpu' = [pc |-> cpu.pc, prog |-> Rest(p, n + 1)] BY <1>3, <1>4
  <1>6. cpu'.pc = cpu.pc /\ cpu'.prog = Rest(p, n + 1) BY <1>5
  <1>7. n < Len(p) - 1 => Executing' /\ port' = port BY <1>1, <1>2, <1>4, <1>6 DEF Executing
  <1>8. n = Len(p) - 1 => ~Executing' /\ port' = PortInit BY <1>1, <1>2, <1>4, <1>6 DEF Executing
  <1> QED BY <1>4, <1>5, <1>6, <1>7, <1>8

\* The registers' types are kept by a step that leaves the rest of the state alone.
LEMMA TypedStep ==
    ASSUME RegsTyped, m' \in Registers, UNCHANGED <<call, bus, buf>>,
           cpu' = [pc |-> cpu'.pc, prog |-> cpu'.prog], cpu'.pc = cpu.pc,
           port' = port \/ port' = PortInit
    PROVE  RegsTyped'
  <1>1. PortInit \in PortType(Nat) BY DEF PortInit, PortType, Pins
  <1>2. port' \in PortType(Nat) BY <1>1 DEF RegsTyped
  <1>3. call' \in CallType /\ cpu'.pc \in {"free", "clear", "sev", "flush", "test", "wfe", "awake"}
    BY DEF RegsTyped
  <1>4. bus' \in [sent : Seq(Pulses), answers : Seq(Caught), time : Nat]
        /\ buf' \in [1..MaxSlots -> Caught]
    BY DEF RegsTyped
  <1> QED BY <1>2, <1>3, <1>4 DEF RegsTyped

\* What the calls make of the abstract port.
LEMMA PortChanges ==
    ASSUME NEW p \in PortType(Nat)
    PROVE  /\ \A operation : Arm(p, operation) =
                  [op |-> operation, us |-> p.us, uif |-> FALSE, pin |-> p.pin]
           /\ \A us : ArmWait(p, us) = [op |-> "wait", us |-> us, uif |-> FALSE, pin |-> p.pin]
           /\ Kick(p) = [op |-> p.op, us |-> p.us, uif |-> TRUE, pin |-> p.pin]
           /\ BusDone(p) = [op |-> p.op, us |-> p.us, uif |-> FALSE, pin |-> p.pin]
           /\ HwDone(p) = [op |-> "idle", us |-> p.us, uif |-> TRUE, pin |-> p.pin]
           /\ StrongPullup(p, TRUE) = [op |-> p.op, us |-> p.us, uif |-> TRUE, pin |-> "pp"]
           /\ StrongPullup(p, FALSE) = [op |-> p.op, us |-> p.us, uif |-> p.uif, pin |-> "od"]
  <1>1. p = [op |-> p.op, us |-> p.us, uif |-> p.uif, pin |-> p.pin] BY DEF PortType
  <1> DEFINE a == p.op
             b == p.us
             c == p.uif
             d == p.pin
             t == TRUE
             f == FALSE
             q == [op |-> a, us |-> b, uif |-> c, pin |-> d]
  <1>2. p = q BY <1>1
  <1> HIDE DEF a, b, c, d, t, f
  <1>3. \A v : [q EXCEPT !.op = v, !.uif = f] = [op |-> v, us |-> b, uif |-> f, pin |-> d]
    <2> TAKE v
    <2> DEFINE w == [q EXCEPT !.op = v, !.uif = f]
               r == [op |-> v, us |-> b, uif |-> f, pin |-> d]
               T == [op : {a, v}, us : {b}, uif : {c, f}, pin : {d}]
    <2>1. w \in T /\ w.op = v /\ w.us = b /\ w.uif = f /\ w.pin = d OBVIOUS
    <2>2. r \in T /\ r.op = v /\ r.us = b /\ r.uif = f /\ r.pin = d OBVIOUS
    <2> HIDE DEF w, r
    <2>3. w = r BY <2>1, <2>2
    <2> QED BY <2>3 DEF w, r
  <1>4. \A v, w : [[op |-> v, us |-> b, uif |-> f, pin |-> d] EXCEPT !.us = w] =
                     [op |-> v, us |-> w, uif |-> f, pin |-> d]
    OBVIOUS
  <1>5. [q EXCEPT !.uif = t] = [op |-> a, us |-> b, uif |-> t, pin |-> d] OBVIOUS
  <1>6. [q EXCEPT !.uif = f] = [op |-> a, us |-> b, uif |-> f, pin |-> d] OBVIOUS
  <1>7. [q EXCEPT !.op = "idle", !.uif = t] = [op |-> "idle", us |-> b, uif |-> t, pin |-> d]
    <2> DEFINE w == [q EXCEPT !.op = "idle", !.uif = t]
               r == [op |-> "idle", us |-> b, uif |-> t, pin |-> d]
               T == [op : {a, "idle"}, us : {b}, uif : {c, t}, pin : {d}]
    <2>1. w \in T /\ w.op = "idle" /\ w.us = b /\ w.uif = t /\ w.pin = d OBVIOUS
    <2>2. r \in T /\ r.op = "idle" /\ r.us = b /\ r.uif = t /\ r.pin = d OBVIOUS
    <2> HIDE DEF w, r
    <2>3. w = r BY <2>1, <2>2
    <2> QED BY <2>3 DEF w, r
  <1>8. [q EXCEPT !.uif = t, !.pin = "pp"] = [op |-> a, us |-> b, uif |-> t, pin |-> "pp"]
    <2> DEFINE w == [q EXCEPT !.uif = t, !.pin = "pp"]
               r == [op |-> a, us |-> b, uif |-> t, pin |-> "pp"]
               T == [op : {a}, us : {b}, uif : {c, t}, pin : {d, "pp"}]
    <2>1. w \in T /\ w.op = a /\ w.us = b /\ w.uif = t /\ w.pin = "pp" OBVIOUS
    <2>2. r \in T /\ r.op = a /\ r.us = b /\ r.uif = t /\ r.pin = "pp" OBVIOUS
    <2> HIDE DEF w, r
    <2>3. w = r BY <2>1, <2>2
    <2> QED BY <2>3 DEF w, r
  <1>9. [q EXCEPT !.pin = "od"] = [op |-> a, us |-> b, uif |-> c, pin |-> "od"] OBVIOUS
  <1> HIDE DEF q
  <1>10. \A v : Arm(p, v) = [op |-> v, us |-> b, uif |-> f, pin |-> d]
    BY <1>2, <1>3, Zenon DEF Arm, f
  <1>11. \A v : ArmWait(p, v) = [op |-> "wait", us |-> v, uif |-> f, pin |-> d]
    BY <1>4, <1>10, Zenon DEF ArmWait
  <1>12. Kick(p) = [op |-> a, us |-> b, uif |-> t, pin |-> d] BY <1>2, <1>5, Zenon DEF Kick, t
  <1>13. BusDone(p) = [op |-> a, us |-> b, uif |-> f, pin |-> d]
    BY <1>2, <1>6, Zenon DEF BusDone, f
  <1>14. HwDone(p) = [op |-> "idle", us |-> b, uif |-> t, pin |-> d]
    BY <1>2, <1>7, Zenon DEF HwDone, t
  <1>15. StrongPullup(p, TRUE) = [op |-> a, us |-> b, uif |-> t, pin |-> "pp"]
    BY <1>2, <1>8, Zenon DEF StrongPullup, t
  <1>16. StrongPullup(p, FALSE) = [op |-> a, us |-> b, uif |-> c, pin |-> "od"]
    BY <1>2, <1>9, Zenon DEF StrongPullup
  <1> QED BY <1>10, <1>11, <1>12, <1>13, <1>14, <1>15, <1>16, Zenon DEF a, b, c, d, t, f

\* The timer module's steps, as the registers make them.
LEMMA ArmStep ==
    ASSUME AbstractPort.op = "idle", NEW operation \in Ops \ {"wait"},
           AbstractPort' = Arm(AbstractPort, operation)
    PROVE  [Timer!Next]_AbstractPort
  BY DEF Timer!Next, Timer!Schedule, Timer!Arm, Arm, Timer!Ops, Ops

-----------------------------------------------------------------------------
(***************************************************************************)
(* The last instruction starts the timer, with everything loaded.          *)
(***************************************************************************)
LEMMA ExecuteLast ==
    ASSUME RegsTyped, NEW kind \in Kinds, Serves(kind, call), NothingYet,
           SetupDone(kind, Size(kind) - 1), LaunchDone(kind, Size(kind) - 1),
           m' = Exec(m, <<"CEN">>), UNCHANGED <<call, bus, buf>>
    PROVE  /\ m' \in Registers /\ m'.cen = TRUE /\ m'.uif = FALSE /\ m'.pin = m.pin
           /\ Sweeping'
  <1> DEFINE k == Len(call.pulses)
  <1>1. m \in Registers /\ call \in CallType BY DEF RegsTyped
  <1>2. m' \in Registers /\ m'.cen = TRUE /\ m'.stage = "edge" /\ Agree(m, m', {"cen", "stage"})
    BY <1>1, StartEffect
  <1>3. /\ k \in 1..Periods /\ k \in Nat
        /\ Table(call) \in Seq(Pulses) /\ Len(Table(call)) = k + 1
        /\ Table(call)[1] = call.pulses[1]
    BY <1>1, ServedCall
  <1>4. Size(kind) - 1 \in Nat /\ Size(kind) - 1 >= 9 BY DEF Size
  <1>5. /\ m.rcr = k - 1 /\ m.rep = k - 1 /\ m.oc3pe = Preloaded(kind) /\ m.cc4e = Captured(kind)
        /\ m.ccr3 = call.pulses[1] /\ ~m.uif
        /\ kind # "both" => m.dier = Requests(kind)
    BY <1>4 DEF SetupDone
  <1>6. kind = "both" => m.dier = Requests(kind) BY DEF LaunchDone, Size
  <1>7. /\ m'.rcr = k - 1 /\ m'.rep = k - 1 /\ m'.oc3pe = Preloaded(kind) /\ m'.cc4e = Captured(kind)
        /\ m'.ccr3 = call.pulses[1] /\ m'.dier = Requests(kind)
        /\ m'.uif = m.uif /\ m'.pin = m.pin /\ m'.pre = m.pre /\ m'.feed = m.feed /\ m'.cap = m.cap
    BY <1>2, <1>5, <1>6 DEF Agree
  <1>8. m'.uif = FALSE BY <1>1, <1>5, <1>7 DEF Registers
  <1>9. bus.sent = <<>> /\ bus.answers = <<>> /\ Len(bus.answers) = 0 BY DEF NothingYet
  <1>10. Slot' = 1 BY <1>3, <1>7 DEF Slot
  <1>11. Loaded(kind)' BY <1>7 DEF Loaded
  <1>12. Sending'
    <2>1. SubSeq(call.pulses, 1, 1 - 1) = <<>> BY SubSeqEmpty
    <2> QED BY <1>2, <1>9, <1>10, <2>1 DEF Sending
  <1>13. Feeding(kind)'
    <2>1. CASE Preloaded(kind)
      <3>1. m.pre = "none" BY <1>4, <2>1 DEF LaunchDone
      <3> QED BY <1>7, <1>10, <2>1, <3>1 DEF Feeding
    <2>2. CASE ~Preloaded(kind)
      <3>1. m.feed = Tail(Table(call)) BY <2>2, <1>4 DEF LaunchDone, Preloaded, Kinds, Size
      <3>2. Tail(Table(call)) = SubSeq(Table(call), 2, k + 1)
        <4>1. Table(call) # <<>> BY <1>3
        <4> QED BY <1>3, <4>1, TailIsSubSeq
      <3>3. Entry' = 1 BY <1>2, <1>10 DEF Entry
      <3>4. Table(call)' = Table(call) BY DEF Table
      <3>5. m'.stage # "end" BY <1>2
      <3>6. m'.ccr3 = Table(call)'[Entry'] BY <1>3, <1>7, <3>3, <3>4
      <3>7. m'.feed = SubSeq(Table(call)', Entry' + 1, k' + 1)
        <4>1. k' = k /\ Entry' + 1 = 2 BY <3>3
        <4> HIDE DEF k
        <4> QED BY <1>7, <3>1, <3>2, <3>4, <4>1
      <3> QED BY <2>2, <3>5, <3>6, <3>7 DEF Feeding
    <2> QED BY <2>1, <2>2
  <1>14. Storing(kind)'
    <2>1. CASE Captured(kind)
      <3>1. m.cap = [en |-> TRUE, left |-> Expected(call), at |-> 1]
        BY <2>1, <1>4 DEF LaunchDone, Captured, Kinds, Size, ArmedCapture
      <3>2. Expected(call) \in Nat /\ Expected(call) > 0 BY <1>3 DEF Expected, Edges
      <3>3. Expected(call)' = Expected(call) BY DEF Expected
      <3>4. Kept'
        <4>1. Len(bus'.answers) <= MaxSlots BY <1>9, ScaleAssumption DEF MaxSlots
        <4>2. \A i \in 1..Len(bus'.answers) : FALSE BY <1>9
        <4> QED BY <4>1, <4>2 DEF Kept
      <3>5. m'.cap = [en |-> Len(bus'.answers) < Expected(call)',
                      left |-> Expected(call)' - Len(bus'.answers), at |-> Len(bus'.answers) + 1]
        <4>1. (0 < Expected(call)) = TRUE /\ Expected(call) - 0 = Expected(call) /\ 0 + 1 = 1 BY <3>2
        <4> QED BY <1>7, <1>9, <3>1, <3>3, <4>1
      <3> QED BY <1>2, <1>9, <1>10, <2>1, <3>4, <3>5 DEF Storing
    <2>2. CASE ~Captured(kind) BY <1>9, <2>2 DEF Storing
    <2> QED BY <2>1, <2>2
  <1>15. Serves(kind, call)' BY DEF Serves
  <1> QED BY <1>2, <1>7, <1>8, <1>11, <1>12, <1>13, <1>14, <1>15 DEF Sweeping

\* A program of one of the four kinds goes on, or its operation is under way.
LEMMA StartingStep ==
    ASSUME RegsTyped, Execute, ~m.cen, port.op = "idle", port.pin = m.pin, Starting
    PROVE  RegsInv' /\ [Timer!Next]_AbstractPort
  <1>1. PICK kind \in Kinds : \E n \in 0..(Size(kind) - 1) :
            /\ Serves(kind, call)
            /\ cpu.prog = Rest(Program(kind, call), n)
            /\ SetupDone(kind, n) /\ LaunchDone(kind, n)
    BY DEF Starting
  <1>2. PICK n \in 0..(Size(kind) - 1) :
            /\ Serves(kind, call)
            /\ cpu.prog = Rest(Program(kind, call), n)
            /\ SetupDone(kind, n) /\ LaunchDone(kind, n)
    BY <1>1
  <1> DEFINE p == Program(kind, call)
             size == Size(kind)
             setup == Setup(kind, call)
             launch == Launch(kind, call)
  <1>3. PICK S : p \in Seq(S) BY ProgramElements
  <1>4. /\ Len(p) = size
        /\ \A i \in 1..8 : p[i] = setup[i]
        /\ \A i \in 9..size : p[i] = launch[i - 8]
    BY ProgramElements
  <1>5. size \in Nat /\ size >= 10 /\ n \in Nat /\ n <= size - 1 BY DEF Size
  <1>6. /\ m' = Exec(m, p[n + 1])
        /\ cpu' = [pc |-> cpu'.pc, prog |-> cpu'.prog]
        /\ cpu'.pc = cpu.pc /\ cpu'.prog = Rest(p, n + 1)
        /\ n < size - 1 => Executing' /\ port' = port
        /\ n = size - 1 => ~Executing' /\ port' = PortInit
        /\ UNCHANGED <<call, bus, buf>>
    <2>1. cpu.prog = Rest(p, n) BY <1>2
    <2>2. n \in 0..(Len(p) - 1) BY <1>4
    <2> HIDE DEF p, size
    <2>3. /\ m' = Exec(m, p[n + 1])
          /\ cpu' = [pc |-> cpu'.pc, prog |-> cpu'.prog]
          /\ cpu'.pc = cpu.pc /\ cpu'.prog = Rest(p, n + 1)
          /\ n < Len(p) - 1 => Executing' /\ port' = port
          /\ n = Len(p) - 1 => ~Executing' /\ port' = PortInit
          /\ UNCHANGED <<call, bus, buf>>
      BY <1>3, <2>1, <2>2, ProgramStep
    <2> QED BY <1>4, <2>3
  <1>7. NothingYet /\ port.us = call.us BY DEF Starting
  <1>8. /\ call \in CallType /\ m \in Registers /\ call.op \in Ops \ {"wait"} /\ call.owed
        /\ call.us \in Nat
    <2>1. call \in CallType /\ m \in Registers BY DEF RegsTyped
    <2> QED BY <1>2, <2>1, ServedCall DEF CallType
  <1> HIDE DEF p, size, setup, launch
  <1>9. CASE n < size - 1
    <2>1. /\ m' \in Registers /\ m'.cen = m.cen /\ m'.pin = m.pin
          /\ SetupDone(kind, n + 1)' /\ LaunchDone(kind, n + 1)'
      <3>1. CASE n <= 7
        <4>1. n \in 0..7 /\ n + 1 \in 1..8 BY <1>5, <3>1
        <4>2. m' = Exec(m, Setup(kind, call)[n + 1]) BY <1>4, <1>6, <4>1 DEF setup
        <4> QED BY <1>2, <1>6, <4>1, <4>2, ExecuteSetup
      <3>2. CASE n > 7
        <4>1. n \in 8..(Size(kind) - 2) /\ n + 1 \in 9..size /\ (n + 1) - 8 = n - 7
          BY <1>5, <1>9, <3>2 DEF size
        <4>2. m' = Exec(m, Launch(kind, call)[n - 7]) BY <1>4, <1>6, <4>1 DEF launch
        <4> QED BY <1>2, <1>6, <4>1, <4>2, ExecuteLaunch
      <3> QED BY <1>5, <3>1, <3>2
    <2>2. Starting'
      <3>1. n + 1 \in 0..(Size(kind) - 1) BY <1>5, <1>9 DEF size
      <3>2. Program(kind, call)' = p BY <1>6 DEF p, Program, Setup, Launch, Period, Expected, Table
      <3>3. Serves(kind, call)' BY <1>2, <1>6 DEF Serves
      <3>4. Rest(Program(kind, call), n + 1)' = Rest(p, n + 1) BY <3>2 DEF Rest
      <3>5. NothingYet' /\ port'.us = call'.us BY <1>6, <1>7, <1>9 DEF NothingYet
      <3> QED BY <1>6, <2>1, <3>1, <3>3, <3>4, <3>5 DEF Starting
    <2>3. RegsTyped' BY <1>6, <1>9, <2>1, TypedStep
    <2>4. ~m'.cen /\ port'.op = "idle" /\ port'.pin = m'.pin BY <1>6, <1>9, <2>1
    <2>5. UNCHANGED AbstractPort
      <3>1. Executing BY <1>2, <1>3, <1>4, <1>5, RestOfProgram DEF Executing, p
      <3> QED BY <1>6, <1>9, <3>1 DEF AbstractPort
    <2> QED BY <1>6, <1>9, <2>2, <2>3, <2>4, <2>5 DEF RegsInv
  <1>10. CASE n = size - 1
    <2>1. m' = Exec(m, <<"CEN">>)
      <3>1. n + 1 \in 9..size /\ n + 1 = size BY <1>5, <1>10
      <3>2. p[n + 1] = launch[size - 8] BY <1>4, <3>1
      <3>3. launch[size - 8] = <<"CEN">>
        <4>1. CASE kind = "capture"
          <5>1. Launch("capture", call)[4] = <<"CEN">> BY LaunchElements
          <5>2. size = 12 /\ size - 8 = 4 BY <4>1 DEF size, Size
          <5>3. launch[size - 8] = Launch("capture", call)[4] BY <4>1, <5>2 DEF launch
          <5> QED BY <5>1, <5>3
        <4>2. CASE kind = "slot"
          <5>1. Launch("slot", call)[2] = <<"CEN">> BY LaunchElements
          <5>2. size = 10 /\ size - 8 = 2 BY <4>2 DEF size, Size
          <5>3. launch[size - 8] = Launch("slot", call)[2] BY <4>2, <5>2 DEF launch
          <5> QED BY <5>1, <5>3
        <4>3. CASE kind = "feed"
          <5>1. Launch("feed", call)[2] = <<"CEN">> BY LaunchElements
          <5>2. size = 10 /\ size - 8 = 2 BY <4>3 DEF size, Size
          <5>3. launch[size - 8] = Launch("feed", call)[2] BY <4>3, <5>2 DEF launch
          <5> QED BY <5>1, <5>3
        <4>4. CASE kind = "both"
          <5>1. Launch("both", call)[6] = <<"CEN">> BY LaunchElements
          <5>2. size = 14 /\ size - 8 = 6 BY <4>4 DEF size, Size
          <5>3. launch[size - 8] = Launch("both", call)[6] BY <4>4, <5>2 DEF launch
          <5> QED BY <5>1, <5>3
        <4> QED BY <4>1, <4>2, <4>3, <4>4 DEF Kinds
      <3> QED BY <1>6, <3>2, <3>3
    <2>2. /\ m' \in Registers /\ m'.cen = TRUE /\ m'.uif = FALSE /\ m'.pin = m.pin
          /\ Sweeping'
      <3>1. SetupDone(kind, Size(kind) - 1) /\ LaunchDone(kind, Size(kind) - 1)
        BY <1>2, <1>10 DEF size
      <3> QED BY <1>2, <1>6, <1>7, <2>1, <3>1, ExecuteLast
    <2>3. RegsTyped' BY <1>6, <1>10, <2>2, TypedStep
    <2>4. RegsInv'
      <3>1. ~Executing' /\ m'.cen /\ ~m'.uif /\ call'.owed BY <1>6, <1>8, <1>10, <2>2
      <3> QED BY <2>2, <2>3, <3>1 DEF RegsInv
    <2>5. AbstractPort' = Arm(AbstractPort, call.op)
      <3>1. Executing BY <1>2, <1>3, <1>4, <1>5, RestOfProgram DEF Executing, p
      <3>2. AbstractPort = port BY <3>1 DEF AbstractPort
      <3>3. AbstractPort' = [op |-> call.op, us |-> call.us, uif |-> FALSE, pin |-> m.pin]
        BY <1>6, <1>10, <2>2 DEF AbstractPort
      <3>4. port \in PortType(Nat) BY DEF RegsTyped
      <3>5. Arm(port, call.op) = [op |-> call.op, us |-> port.us, uif |-> FALSE, pin |-> port.pin]
        BY <3>4, PortChanges
      <3> QED BY <1>7, <3>2, <3>3, <3>5
    <2>6. AbstractPort.op = "idle"
      <3>1. Executing BY <1>2, <1>3, <1>4, <1>5, RestOfProgram DEF Executing, p
      <3> QED BY <3>1 DEF AbstractPort
    <2> QED BY <1>8, <2>4, <2>5, <2>6, ArmStep
  <1> QED BY <1>5, <1>9, <1>10

LEMMA ArmWaitStep ==
    ASSUME AbstractPort.op = "idle", NEW us \in Waits,
           AbstractPort' = ArmWait(AbstractPort, us)
    PROVE  [Timer!Next]_AbstractPort
  BY DEF Timer!Next, Timer!Schedule, Timer!ArmWait, Timer!Arm, ArmWait, Arm

LEMMA KickStep ==
    ASSUME AbstractPort.op = "idle", AbstractPort' = Kick(AbstractPort)
    PROVE  [Timer!Next]_AbstractPort
  BY DEF Timer!Next, Timer!Signal, Timer!Kick, Kick

LEMMA PullupStep ==
    ASSUME AbstractPort.op = "idle", NEW on \in BOOLEAN,
           AbstractPort' = StrongPullup(AbstractPort, on)
    PROVE  [Timer!Next]_AbstractPort
  BY DEF Timer!Next, Timer!Signal, Timer!StrongPullup, StrongPullup

LEMMA FinishStep ==
    ASSUME AbstractPort.op # "idle", AbstractPort' = HwDone(AbstractPort)
    PROVE  [Timer!Next]_AbstractPort
  BY DEF Timer!Next, Timer!Finish, Timer!HwDone, HwDone

LEMMA ConsumeStep ==
    ASSUME AbstractPort.uif, AbstractPort' = BusDone(AbstractPort)
    PROVE  [Timer!Next]_AbstractPort
  BY DEF Timer!Next, Timer!Consume, Timer!BusDone, BusDone

\* The two registers a wait's plan is written to, and the repetition count it needs.
LEMMA PlanEffect ==
    ASSUME NEW x \in Registers, NEW us \in Nat
    PROVE  /\ \A y : y = Exec(x, <<"ARR", PlanWait(us).arr>>) =>
                  y \in Registers /\ y.arr = PlanWait(us).arr /\ Agree(x, y, {"arr"})
           /\ \A y : y = Exec(x, <<"RCR", PlanWait(us).n - 1>>) =>
                  y \in Registers /\ y.rcr + 1 = PlanWait(us).n /\ Agree(x, y, {"rcr"})
  <1> DEFINE a == PlanWait(us).arr
             c == PlanWait(us).n
  <1>1. a \in 1..MaxArr /\ c \in 1..Periods BY PlanCovers
  <1> HIDE DEF a, c
  <1> DEFINE r == c - 1
  <1>2. r \in 0..(Periods - 1) /\ r % Periods = r /\ r + 1 = c BY <1>1, ScaleAssumption
  <1> HIDE DEF r
  <1>3. Exec(x, <<"ARR", a>>) = [x EXCEPT !.arr = a] BY Instructions, Zenon
  <1>4. Exec(x, <<"RCR", r>>) = [x EXCEPT !.rcr = r]
    <2>1. Exec(x, <<"RCR", r>>) = [x EXCEPT !.rcr = r % Periods] BY Instructions, Zenon
    <2> QED BY <1>2, <2>1
  <1>5. ASSUME NEW y, y = [x EXCEPT !.arr = a]
        PROVE  y \in Registers /\ y.arr = a /\ Agree(x, y, {"arr"})
    <2>1. y \in Registers /\ y.arr = a BY <1>1, <1>5 DEF Registers
    <2>2. Agree(x, y, {"arr"}) BY <1>5 DEF Agree, Registers
    <2> QED BY <2>1, <2>2
  <1>6. ASSUME NEW y, y = [x EXCEPT !.rcr = r]
        PROVE  y \in Registers /\ y.rcr = r /\ Agree(x, y, {"rcr"})
    <2>1. r \in 0..(Periods - 1) BY <1>2
    <2>2. y \in Registers BY <1>6, <2>1 DEF Registers
    <2>3. y.rcr = r BY <1>6 DEF Registers
    <2>4. Agree(x, y, {"rcr"}) BY <1>6 DEF Agree, Registers
    <2> QED BY <2>2, <2>3, <2>4
  <1> QED BY <1>2, <1>3, <1>4, <1>5, <1>6 DEF a, c, r

\* A timed wait is being programmed, or has begun.
LEMMA StartingWaitStep ==
    ASSUME RegsTyped, Execute, ~m.cen, port.op = "idle", port.pin = m.pin, StartingWait
    PROVE  RegsInv' /\ [Timer!Next]_AbstractPort
  <1> DEFINE us == call.us
             p == StartWait(us)
             a == PlanWait(us).arr
             c == PlanWait(us).n
             Done(x, k) ==
                /\ x.pre = "none" /\ x.ccr3 = "none"
                /\ k >= 1 => x.arr = a
                /\ k >= 2 => x.rcr + 1 = c
                /\ k >= 3 => x.dier \subseteq {"UIE"}
                /\ k >= 4 => x.rep = x.rcr
                /\ k >= 5 => x.uif = FALSE
  <1>1. m \in Registers /\ call \in CallType /\ us \in Nat /\ port \in PortType(Nat)
    BY DEF RegsTyped, CallType
  <1>2. NothingYet /\ Waiting BY DEF StartingWait
  <1>3. PICK n \in 0..5 : cpu.prog = Rest(p, n) /\ Done(m, n)
    <2>1. PICK n \in 0..5 :
            /\ cpu.prog = Rest(p, n)
            /\ n >= 1 => m.arr = PlanWait(call.us).arr
            /\ n >= 2 => m.rcr + 1 = PlanWait(call.us).n
            /\ n >= 3 => m.dier \subseteq {"UIE"}
            /\ n >= 4 => m.rep = m.rcr
            /\ n >= 5 => ~m.uif
      BY DEF StartingWait
    <2>2. n >= 5 => m.uif = FALSE BY <1>1, <2>1 DEF Registers
    <2>3. m.pre = "none" /\ m.ccr3 = "none" BY DEF StartingWait, Released
    <2> QED BY <2>1, <2>2, <2>3
  <1>4. PICK S : p \in Seq(S) BY <1>1, WaitProgram
  <1>5. PICK d \in SUBSET {"UIE"} : p[3] = <<"DIER", d>> BY <1>1, WaitProgram
  <1>6. /\ Len(p) = 6
        /\ p[1] = <<"ARR", a>> /\ p[2] = <<"RCR", c - 1>> /\ p[4] = <<"UG">>
        /\ p[5] = <<"SR">> /\ p[6] = <<"CEN">>
    BY <1>1, WaitProgram
  <1> HIDE DEF p
  <1>7. /\ m' = Exec(m, p[n + 1])
        /\ cpu' = [pc |-> cpu'.pc, prog |-> cpu'.prog]
        /\ cpu'.pc = cpu.pc /\ cpu'.prog = Rest(p, n + 1)
        /\ n < 5 => Executing' /\ port' = port
        /\ n = 5 => ~Executing' /\ port' = PortInit
        /\ UNCHANGED <<call, bus, buf>>
    <2>1. n \in 0..(Len(p) - 1) BY <1>6
    <2>2. /\ m' = Exec(m, p[n + 1])
          /\ cpu' = [pc |-> cpu'.pc, prog |-> cpu'.prog]
          /\ cpu'.pc = cpu.pc /\ cpu'.prog = Rest(p, n + 1)
          /\ n < Len(p) - 1 => Executing' /\ port' = port
          /\ n = Len(p) - 1 => ~Executing' /\ port' = PortInit
          /\ UNCHANGED <<call, bus, buf>>
      BY <1>3, <1>4, <2>1, ProgramStep
    <2> QED BY <1>6, <2>2
  <1>8. Executing
    <2>1. n \in 0..(Len(p) - 1) BY <1>6
    <2> QED BY <1>3, <1>4, <2>1, RestOfProgram DEF Executing
  <1>9. AbstractPort = port BY <1>8 DEF AbstractPort
  <1>10. /\ \A y : y = Exec(m, <<"ARR", a>>) =>
               y \in Registers /\ y.arr = a /\ Agree(m, y, {"arr"})
         /\ \A y : y = Exec(m, <<"RCR", c - 1>>) =>
               y \in Registers /\ y.rcr + 1 = c /\ Agree(m, y, {"rcr"})
    BY <1>1, PlanEffect
  <1> HIDE DEF us, a, c
  <1>11. CASE n < 5
    <2>1. m' \in Registers /\ m'.cen = m.cen /\ m'.pin = m.pin /\ Done(m', n + 1)
      <3>1. CASE n = 0
        <4>1. m' = Exec(m, <<"ARR", a>>) BY <1>6, <1>7, <3>1
        <4>2. m' \in Registers /\ m'.arr = a /\ Agree(m, m', {"arr"}) BY <1>10, <4>1
        <4> QED BY <1>3, <3>1, <4>2 DEF Agree
      <3>2. CASE n = 1
        <4>1. m' = Exec(m, <<"RCR", c - 1>>) BY <1>6, <1>7, <3>2
        <4>2. m' \in Registers /\ m'.rcr + 1 = c /\ Agree(m, m', {"rcr"}) BY <1>10, <4>1
        <4> QED BY <1>3, <3>2, <4>2 DEF Agree
      <3>3. CASE n = 2
        <4>1. m' = Exec(m, <<"DIER", d>>) BY <1>5, <1>7, <3>3
        <4>2. d \in SUBSET {"CC2DE", "CC4DE", "UIE"} OBVIOUS
        <4>3. m' \in Registers /\ m'.dier = d /\ Agree(m, m', {"dier"})
          BY <1>1, <4>1, <4>2, RequestEffect
        <4>4. m'.dier \subseteq {"UIE"} BY <4>3
        <4> QED BY <1>3, <3>3, <4>3, <4>4 DEF Agree
      <3>4. CASE n = 3
        <4>1. m' = Exec(m, <<"UG">>) BY <1>6, <1>7, <3>4
        <4>2. /\ m' \in Registers /\ m'.ccr3 = m.pre /\ m'.rep = m.rcr
              /\ Agree(m, m', {"uif", "ccr3", "rep"})
          BY <1>1, <4>1, ForceEffect
        <4> QED BY <1>3, <3>4, <4>2 DEF Agree
      <3>5. CASE n = 4
        <4>1. m' = Exec(m, <<"SR">>) BY <1>6, <1>7, <3>5
        <4>2. m' \in Registers /\ m'.uif = FALSE /\ Agree(m, m', {"uif"})
          BY <1>1, <4>1, FlagEffect
        <4> QED BY <1>3, <3>5, <4>2 DEF Agree
      <3>6. n = 0 \/ n = 1 \/ n = 2 \/ n = 3 \/ n = 4 BY <1>11
      <3> HIDE DEF Done
      <3> QED BY <3>1, <3>2, <3>3, <3>4, <3>5, <3>6
    <2>2. StartingWait'
      <3>1. NothingYet' /\ Waiting' BY <1>2, <1>7 DEF NothingYet, Waiting
      <3>2. Released' BY <2>1 DEF Released
      <3>3. n + 1 \in 0..5 BY <1>11
      <3>4. us' = us BY <1>7 DEF us
      <3>5. cpu'.prog = Rest(StartWait(call'.us), n + 1) BY <1>7, <3>4 DEF p, us
      <3>6. /\ n + 1 >= 1 => m'.arr = PlanWait(call'.us).arr
            /\ n + 1 >= 2 => m'.rcr + 1 = PlanWait(call'.us).n
            /\ n + 1 >= 3 => m'.dier \subseteq {"UIE"}
            /\ n + 1 >= 4 => m'.rep = m'.rcr
            /\ n + 1 >= 5 => ~m'.uif
        BY <2>1, <3>4 DEF a, c, us
      <3> HIDE DEF Done
      <3> QED BY <3>1, <3>2, <3>3, <3>5, <3>6 DEF StartingWait
    <2>3. RegsTyped' BY <1>7, <1>11, <2>1, TypedStep
    <2>4. ~m'.cen /\ port'.op = "idle" /\ port'.pin = m'.pin BY <1>7, <1>11, <2>1
    <2>5. UNCHANGED AbstractPort BY <1>7, <1>8, <1>11 DEF AbstractPort
    <2> QED BY <1>7, <1>11, <2>2, <2>3, <2>4, <2>5 DEF RegsInv
  <1>12. CASE n = 5
    <2>1. m' = Exec(m, <<"CEN">>) BY <1>6, <1>7, <1>12
    <2>2. m' \in Registers /\ m'.cen = TRUE /\ m'.stage = "edge" /\ Agree(m, m', {"cen", "stage"})
      BY <1>1, <2>1, StartEffect
    <2>3. m.arr = a /\ m.rcr + 1 = c /\ m.dier \subseteq {"UIE"} /\ m.rep = m.rcr /\ m.uif = FALSE
          /\ m.pre = "none" /\ m.ccr3 = "none"
      BY <1>3, <1>12
    <2>4. m'.arr = a /\ m'.rcr + 1 = c /\ m'.dier \subseteq {"UIE"} /\ m'.rep = m'.rcr
          /\ m'.uif = FALSE /\ m'.pre = "none" /\ m'.ccr3 = "none" /\ m'.pin = m.pin
      BY <2>2, <2>3 DEF Agree
    <2>5. RegsTyped' BY <1>7, <1>12, <2>2, TypedStep
    <2>6. WaitingOut'
      <3>1. Waiting' BY <1>2, <1>7 DEF Waiting
      <3>2. Released' BY <2>4 DEF Released
      <3>3. us' = us BY <1>7 DEF us
      <3>4. Planned' BY <2>4, <3>3 DEF Planned, a, c, us
      <3>5. bus'.sent = <<>> /\ bus'.answers = <<>> /\ bus'.time = 0 BY <1>2, <1>7 DEF NothingYet
      <3>6. m'.rep \in Nat /\ m'.rcr \in Nat /\ m'.arr \in Nat
        BY <2>2, ScaleAssumption DEF Registers
      <3>7. m'.rep <= m'.rcr /\ (m'.rcr - m'.rep) * m'.arr = 0 BY <2>4, <3>6
      <3> QED BY <2>4, <3>1, <3>2, <3>4, <3>5, <3>7 DEF WaitingOut
    <2>7. RegsInv'
      <3>1. ~Executing' /\ m'.cen /\ ~m'.uif /\ call'.owed
        BY <1>2, <1>7, <1>12, <2>2, <2>4 DEF Waiting
      <3> QED BY <2>5, <2>6, <3>1 DEF RegsInv
    <2>8. AbstractPort' = ArmWait(AbstractPort, us)
      <3>1. AbstractPort' = [op |-> call.op, us |-> call.us, uif |-> FALSE, pin |-> m.pin]
        BY <1>7, <1>12, <2>2, <2>4 DEF AbstractPort
      <3>2. call.op = "wait" BY <1>2 DEF Waiting
      <3>3. ArmWait(port, us) = [op |-> "wait", us |-> us, uif |-> FALSE, pin |-> port.pin]
        BY <1>1, PortChanges
      <3> QED BY <1>9, <3>1, <3>2, <3>3 DEF us
    <2>9. AbstractPort.op = "idle" BY <1>9
    <2>10. us \in Waits BY <1>2 DEF Waiting, us
    <2> QED BY <2>7, <2>8, <2>9, <2>10, ArmWaitStep
  <1> QED BY <1>11, <1>12

-----------------------------------------------------------------------------
(***************************************************************************)
(* Between operations.                                                     *)
(***************************************************************************)
LEMMA StandingKept ==
    ASSUME Standing, call'.op = call.op, call'.us = call.us, call'.pulses = call.pulses,
           UNCHANGED <<bus, buf>>, m'.pre = "none", m'.ccr3 = "none",
           m'.cap = m.cap, m'.arr = m.arr, m'.rcr = m.rcr
    PROVE  Standing'
  <1>1. Released' BY DEF Released
  <1>2. Kept' BY DEF Standing, Kept
  <1>3. Planned => Planned' BY DEF Planned
  <1>4. bus'.sent = call'.pulses BY DEF Standing
  <1>5. call'.op = "reset" /\ bus'.sent # <<>> =>
            bus'.answers \in Answers("reset") /\ m'.cap.left = Edges - Len(bus'.answers)
    BY DEF Standing
  <1>6. call'.op = "wait" => Planned' /\ bus'.time = (m'.rcr + 1) * m'.arr
    BY <1>3 DEF Standing
  <1> QED BY <1>1, <1>2, <1>4, <1>5, <1>6 DEF Standing

\* A call that schedules nothing: what it leaves of the timer, and what its
\* caller sees of it.
LEMMA SignallingStep ==
    ASSUME RegsTyped, Execute, ~m.cen, port.op = "idle", port.pin = m.pin, Signalling
    PROVE  RegsInv' /\ [Timer!Next]_AbstractPort
  <1> DEFINE ug == <<"UG">>
             od == <<"PIN", "od">>
             pp == <<"PIN", "pp">>
             none == <<"CCR3", "none">>
  <1>1. m \in Registers /\ port \in PortType(Nat) BY DEF RegsTyped
  <1>2. Standing /\ port.us = call.us BY DEF Signalling
  <1>3. m.pre = "none" /\ m.ccr3 = "none" BY <1>2 DEF Standing, Released
  <1>4. \/ cpu.prog = << ug >> /\ port.uif = m.uif
        \/ cpu.prog = << od >> /\ port.uif = m.uif
        \/ cpu.prog = << none, ug, pp >>
        \/ cpu.prog = << ug, pp >>
        \/ cpu.prog = << pp >> /\ m.uif
    BY DEF Signalling
  <1>5. cpu = [pc |-> cpu.pc, prog |-> cpu.prog] BY DEF RegsTyped
  <1>6. /\ m' = Exec(m, Head(cpu.prog)) /\ cpu' = [cpu EXCEPT !.prog = Tail(cpu.prog)]
        /\ port' = IF Len(cpu.prog) = 1 THEN PortInit ELSE port
        /\ UNCHANGED <<call, bus, buf>>
    BY DEF Execute
  <1>7. /\ cpu' = [pc |-> cpu'.pc, prog |-> cpu'.prog] /\ cpu'.pc = cpu.pc
        /\ cpu'.prog = Tail(cpu.prog)
    <2>1. cpu' = [pc |-> cpu.pc, prog |-> Tail(cpu.prog)] BY <1>5, <1>6
    <2> QED BY <2>1
  <1>8. AbstractPort = port BY DEF AbstractPort, Execute
  <1>9. ASSUME m' \in Registers, Agree(m, m', {"pre", "ccr3", "uif", "rep", "pin"}),
               m'.pre = "none", m'.ccr3 = "none"
        PROVE  RegsTyped' /\ Standing' /\ ~m'.cen
    <2>1. m'.cap = m.cap /\ m'.arr = m.arr /\ m'.rcr = m.rcr /\ m'.cen = m.cen BY <1>9 DEF Agree
    <2>2. Standing' BY <1>2, <1>6, <1>9, <2>1, StandingKept
    <2>3. port' = port \/ port' = PortInit BY <1>6
    <2>4. RegsTyped' BY <1>6, <1>7, <1>9, <2>3, TypedStep
    <2> QED BY <2>1, <2>2, <2>4
  <1> HIDE DEF ug, od, pp, none
  \* The last instruction.
  <1>10. ASSUME Tail(cpu.prog) = <<>>, Len(cpu.prog) = 1, RegsTyped', Standing', ~m'.cen
         PROVE  /\ RegsInv'
                /\ AbstractPort' = [op |-> "idle", us |-> port.us, uif |-> m'.uif, pin |-> m'.pin]
    <2>1. ~Executing' BY <1>7, <1>10 DEF Executing
    <2>2. RegsInv' BY <1>10, <2>1 DEF RegsInv
    <2> QED BY <1>2, <1>6, <1>10, <2>1, <2>2 DEF AbstractPort
  \* One that is not the last.
  <1>11. ASSUME Tail(cpu.prog) # <<>>, Len(cpu.prog) # 1, RegsTyped', Standing', ~m'.cen,
                m'.pin = m.pin,
                Tail(cpu.prog) = << ug, pp >> \/ (Tail(cpu.prog) = << pp >> /\ m'.uif)
         PROVE  RegsInv' /\ AbstractPort' = AbstractPort
    <2>1. Executing' /\ port' = port BY <1>6, <1>7, <1>11 DEF Executing
    <2>2. Signalling'
      <3>1. cpu'.prog = << ug, pp >> \/ (cpu'.prog = << pp >> /\ m'.uif) BY <1>7, <1>11
      <3>2. port'.us = call'.us BY <1>2, <1>6, <2>1
      <3> QED BY <1>11, <3>1, <3>2 DEF Signalling, ug, pp
    <2>3. RegsInv' BY <1>11, <2>1, <2>2 DEF RegsInv
    <2>4. AbstractPort' = port' BY <2>1 DEF AbstractPort
    <2> QED BY <1>8, <2>1, <2>3, <2>4
  <1>12. CASE cpu.prog = << ug >> /\ port.uif = m.uif
    <2>1. Head(cpu.prog) = ug /\ Tail(cpu.prog) = <<>> /\ Len(cpu.prog) = 1 BY <1>12
    <2>2. m' = Exec(m, <<"UG">>) BY <1>6, <2>1 DEF ug
    <2>3. /\ m' \in Registers /\ m'.uif = TRUE /\ m'.ccr3 = m.pre
          /\ Agree(m, m', {"uif", "ccr3", "rep"})
      BY <1>1, <2>2, ForceEffect
    <2>4. m'.pin = m.pin /\ m'.pre = m.pre /\ Agree(m, m', {"pre", "ccr3", "uif", "rep", "pin"})
      BY <2>3 DEF Agree
    <2>5. RegsTyped' /\ Standing' /\ ~m'.cen BY <1>3, <1>9, <2>3, <2>4
    <2>6. RegsInv' /\ AbstractPort' =
              [op |-> "idle", us |-> port.us, uif |-> TRUE, pin |-> port.pin]
      BY <1>10, <2>1, <2>3, <2>4, <2>5
    <2>7. AbstractPort' = Kick(AbstractPort) BY <1>1, <1>8, <2>6, PortChanges
    <2> QED BY <1>8, <2>6, <2>7, KickStep
  <1>13. CASE cpu.prog = << od >> /\ port.uif = m.uif
    <2>1. Head(cpu.prog) = od /\ Tail(cpu.prog) = <<>> /\ Len(cpu.prog) = 1 BY <1>13
    <2>2. m' = Exec(m, <<"PIN", "od">>) BY <1>6, <2>1 DEF od
    <2>3. m' \in Registers /\ m'.pin = "od" /\ Agree(m, m', {"pin"})
      BY <1>1, <2>2, PinEffect DEF Pins
    <2>4. m'.pre = m.pre /\ m'.ccr3 = m.ccr3 /\ m'.uif = m.uif
          /\ Agree(m, m', {"pre", "ccr3", "uif", "rep", "pin"})
      BY <2>3 DEF Agree
    <2>5. RegsTyped' /\ Standing' /\ ~m'.cen BY <1>3, <1>9, <2>3, <2>4
    <2>6. RegsInv' /\ AbstractPort' =
              [op |-> "idle", us |-> port.us, uif |-> port.uif, pin |-> "od"]
      BY <1>10, <1>13, <2>1, <2>3, <2>4, <2>5
    <2>7. AbstractPort' = StrongPullup(AbstractPort, FALSE) BY <1>1, <1>8, <2>6, PortChanges
    <2> QED BY <1>8, <2>6, <2>7, PullupStep
  <1>14. CASE cpu.prog = << none, ug, pp >>
    <2>1. Head(cpu.prog) = none /\ Tail(cpu.prog) = << ug, pp >> /\ Len(cpu.prog) = 3 BY <1>14
    <2>2. m' = Exec(m, <<"CCR3", "none">>) BY <1>6, <2>1 DEF none
    <2>3. /\ m' \in Registers /\ m'.pre = "none" /\ Agree(m, m', {"pre", "ccr3"})
          /\ m'.ccr3 = IF m.oc3pe THEN m.ccr3 ELSE "none"
      BY <1>1, <2>2, PreloadEffect DEF Pulses
    <2>4. m'.pin = m.pin /\ m'.ccr3 = "none" /\ Agree(m, m', {"pre", "ccr3", "uif", "rep", "pin"})
      BY <1>3, <2>3 DEF Agree
    <2>5. RegsTyped' /\ Standing' /\ ~m'.cen BY <1>9, <2>3, <2>4
    <2>6. << ug, pp >> # <<>> OBVIOUS
    <2> QED BY <1>11, <2>1, <2>4, <2>5, <2>6
  <1>15. CASE cpu.prog = << ug, pp >>
    <2>1. Head(cpu.prog) = ug /\ Tail(cpu.prog) = << pp >> /\ Len(cpu.prog) = 2 BY <1>15
    <2>2. m' = Exec(m, <<"UG">>) BY <1>6, <2>1 DEF ug
    <2>3. /\ m' \in Registers /\ m'.uif = TRUE /\ m'.ccr3 = m.pre
          /\ Agree(m, m', {"uif", "ccr3", "rep"})
      BY <1>1, <2>2, ForceEffect
    <2>4. m'.pin = m.pin /\ m'.pre = m.pre /\ Agree(m, m', {"pre", "ccr3", "uif", "rep", "pin"})
      BY <2>3 DEF Agree
    <2>5. RegsTyped' /\ Standing' /\ ~m'.cen BY <1>3, <1>9, <2>3, <2>4
    <2>6. << pp >> # <<>> OBVIOUS
    <2> QED BY <1>11, <2>1, <2>3, <2>4, <2>5, <2>6
  <1>16. CASE cpu.prog = << pp >> /\ m.uif
    <2>1. Head(cpu.prog) = pp /\ Tail(cpu.prog) = <<>> /\ Len(cpu.prog) = 1 BY <1>16
    <2>2. m' = Exec(m, <<"PIN", "pp">>) BY <1>6, <2>1 DEF pp
    <2>3. m' \in Registers /\ m'.pin = "pp" /\ Agree(m, m', {"pin"})
      BY <1>1, <2>2, PinEffect DEF Pins
    <2>4. m.uif = TRUE BY <1>1, <1>16 DEF Registers
    <2>5. m'.pre = m.pre /\ m'.ccr3 = m.ccr3 /\ m'.uif = TRUE
          /\ Agree(m, m', {"pre", "ccr3", "uif", "rep", "pin"})
      BY <2>3, <2>4 DEF Agree
    <2>6. RegsTyped' /\ Standing' /\ ~m'.cen BY <1>3, <1>9, <2>3, <2>5
    <2>7. RegsInv' /\ AbstractPort' = [op |-> "idle", us |-> port.us, uif |-> TRUE, pin |-> "pp"]
      BY <1>10, <2>1, <2>3, <2>5, <2>6
    <2>8. AbstractPort' = StrongPullup(AbstractPort, TRUE) BY <1>1, <1>8, <2>7, PortChanges
    <2> QED BY <1>8, <2>7, <2>8, PullupStep
  <1> QED BY <1>4, <1>12, <1>13, <1>14, <1>15, <1>16

\* Any instruction.
LEMMA ExecuteStep ==
    ASSUME RegsInv, Execute
    PROVE  RegsInv' /\ [Timer!Next]_AbstractPort
  <1>1. /\ RegsTyped /\ ~m.cen /\ port.op = "idle" /\ port.pin = m.pin
        /\ Starting \/ StartingWait \/ Signalling
    BY DEF RegsInv, Execute
  <1> QED BY <1>1, StartingStep, StartingWaitStep, SignallingStep

-----------------------------------------------------------------------------
(***************************************************************************)
(* The calls.                                                              *)
(***************************************************************************)
\* A call changes nothing yet: it leaves the program to the core.
LEMMA BeginStep ==
    ASSUME RegsInv, NEW program, Begin(program), program # <<>>
    PROVE  /\ RegsTyped /\ Standing /\ ~m.cen /\ ~Executing /\ Executing'
           /\ cpu' = [pc |-> cpu'.pc, prog |-> cpu'.prog] /\ cpu'.prog = program
           /\ cpu'.pc \in {"free", "clear", "sev", "flush", "test", "wfe", "awake"}
           /\ UNCHANGED <<m, buf>> /\ UNCHANGED AbstractPort
           /\ port' \in PortType(Nat) /\ port'.op = "idle" /\ port'.pin = m'.pin
           /\ port'.us = call.us /\ port'.uif = m'.uif
  <1>1. ~Executing /\ RegsTyped /\ ~call.owed BY DEF RegsInv, Begin
  <1>2. ~m.cen /\ Standing BY <1>1 DEF RegsInv
  <1>3. cpu = [pc |-> cpu.pc, prog |-> cpu.prog] BY <1>1 DEF RegsTyped
  <1>4. cpu' = [cpu EXCEPT !.prog = program] /\ port' = AbstractPort /\ UNCHANGED <<m, buf>>
    BY DEF Begin
  <1>5. cpu' = [pc |-> cpu.pc, prog |-> program] BY <1>3, <1>4
  <1>6. cpu' = [pc |-> cpu'.pc, prog |-> cpu'.prog] /\ cpu'.prog = program /\ cpu'.pc = cpu.pc
    BY <1>5
  <1>7. Executing' BY <1>6 DEF Executing
  <1>8. AbstractPort = [op |-> "idle", us |-> call.us, uif |-> m.uif, pin |-> m.pin]
    BY <1>1, <1>2 DEF AbstractPort
  <1>9. AbstractPort' = port' BY <1>7 DEF AbstractPort
  <1>10. call.us \in Nat /\ m.uif \in BOOLEAN /\ m.pin \in Pins
    BY <1>1 DEF RegsTyped, CallType, Registers
  <1>11. port' \in PortType(Nat) BY <1>4, <1>8, <1>10 DEF PortType
  <1>12. port'.op = "idle" /\ port'.pin = m'.pin /\ port'.us = call.us /\ port'.uif = m'.uif
    BY <1>4, <1>8
  <1> QED BY <1>1, <1>2, <1>4, <1>6, <1>7, <1>9, <1>11, <1>12 DEF RegsTyped

\* The start of an operation that sends pulses.
LEMMA ScheduleStep ==
    ASSUME RegsInv, NEW operation \in Ops, NEW program, NEW pulses \in Seq(Pulses),
           Schedule(operation, call.us, program, pulses),
           NEW kind \in Kinds,
           Serves(kind, [op |-> operation, us |-> call.us, pulses |-> pulses, owed |-> TRUE]),
           program = Program(kind, [op |-> operation, us |-> call.us, pulses |-> pulses, owed |-> TRUE])
    PROVE  RegsInv' /\ UNCHANGED AbstractPort
  <1> DEFINE c == [op |-> operation, us |-> call.us, pulses |-> pulses, owed |-> TRUE]
  <1>1. Begin(program) /\ call' = c /\ bus' = [sent |-> <<>>, answers |-> <<>>, time |-> 0]
    BY DEF Schedule
  <1>2. \E S : program \in Seq(S) BY ProgramElements
  <1>3. Len(program) = Size(kind) /\ Size(kind) >= 10
    <2>1. Len(program) = Size(kind) BY ProgramElements
    <2>2. Size(kind) >= 10 BY DEF Size
    <2> QED BY <2>1, <2>2
  <1>4. program # <<>> BY <1>2, <1>3
  <1>5. /\ RegsTyped /\ Standing /\ ~m.cen /\ ~Executing /\ Executing'
        /\ cpu' = [pc |-> cpu'.pc, prog |-> cpu'.prog] /\ cpu'.prog = program
        /\ cpu'.pc \in {"free", "clear", "sev", "flush", "test", "wfe", "awake"}
        /\ UNCHANGED <<m, buf>> /\ UNCHANGED AbstractPort
        /\ port' \in PortType(Nat) /\ port'.op = "idle" /\ port'.pin = m'.pin
        /\ port'.us = call.us
    BY <1>1, <1>4, BeginStep
  <1>6. c \in CallType /\ c.us = call.us
    <2>1. call.us \in Nat BY <1>5 DEF RegsTyped, CallType
    <2> QED BY <2>1 DEF CallType
  <1>7. RegsTyped'
    <2>1. bus' \in [sent : Seq(Pulses), answers : Seq(Caught), time : Nat] BY <1>1
    <2> QED BY <1>1, <1>5, <1>6, <2>1 DEF RegsTyped
  <1>8. Starting'
    <2>1. Serves(kind, call') /\ cpu'.prog = Program(kind, call') BY <1>1, <1>5
    <2>2. Program(kind, call') = Rest(Program(kind, call'), 0) BY <1>1, <1>2, WholeProgram
    <2>3. 0 \in 0..(Size(kind) - 1) BY DEF Size
    <2>4. SetupDone(kind, 0)' /\ LaunchDone(kind, 0)' BY DEF SetupDone, LaunchDone
    <2>5. NothingYet' /\ port'.us = call'.us BY <1>1, <1>5, <1>6 DEF NothingYet
    <2>6. cpu'.prog = Rest(Program(kind, call'), 0) BY <2>1, <2>2
    <2> QED BY <2>1, <2>3, <2>4, <2>5, <2>6 DEF Starting
  <1>9. ~m'.cen BY <1>5
  <1> QED BY <1>5, <1>7, <1>8, <1>9 DEF RegsInv

LEMMA CallResetStep ==
    ASSUME RegsInv, CallReset
    PROVE  RegsInv' /\ UNCHANGED AbstractPort
  <1> DEFINE pulses == <<"reset">>
             c == [op |-> "reset", us |-> call.us, pulses |-> pulses, owed |-> TRUE]
  <1>1. pulses \in Seq(Pulses) /\ Len(pulses) = 1 BY DEF Pulses
  <1>2. Serves("capture", c) BY <1>1, ScaleAssumption DEF Serves
  <1>3. Reset = Program("capture", c) BY ResetProgram
  <1>4. Schedule("reset", call.us, Reset, pulses) BY DEF CallReset
  <1>5. "capture" \in Kinds /\ "reset" \in Ops BY DEF Kinds, Ops
  <1> QED BY <1>1, <1>2, <1>3, <1>4, <1>5, ScheduleStep

\* A table of one slot goes through the preload, a longer one through the DMA.
LEMMA WriteSlotsStep ==
    ASSUME RegsInv, NEW operation \in {"write", "slots"}, NEW t \in Seq({"one", "zero"}),
           WriteFits(t), Schedule(operation, call.us, WriteSlots(t), t)
    PROVE  RegsInv' /\ UNCHANGED AbstractPort
  <1> DEFINE c == [op |-> operation, us |-> call.us, pulses |-> t, owed |-> TRUE]
  <1>1. {"one", "zero"} \subseteq Pulses /\ operation \in Ops BY DEF Pulses, Ops
  <1>2. t \in Seq(Pulses) BY <1>1, SeqMonotonic
  <1>3. Len(t) \in 1..Periods /\ Len(t) \in Nat
    BY <1>2, LenProperties DEF WriteFits, MaxSlots
  <1>4. \A i \in 1..Len(t) : t[i] \in {"one", "zero"} BY ElementOfSeq
  <1>5. CASE Len(t) = 1
    <2>1. Serves("slot", c) BY <1>3, <1>4, <1>5 DEF Serves
    <2>2. WriteSlots(t) = Program("slot", c)
      <3>1. c.op # "reset" /\ Len(c.pulses) = 1 BY <1>5
      <3>2. WriteSlot(c.pulses[1]) = Program("slot", c) BY <3>1, SlotProgram
      <3> QED BY <1>5, <3>2 DEF WriteSlots
    <2>3. "slot" \in Kinds BY DEF Kinds
    <2> QED BY <1>1, <1>2, <2>1, <2>2, <2>3, ScheduleStep
  <1>6. CASE Len(t) # 1
    <2>1. Serves("feed", c) BY <1>3, <1>4 DEF Serves
    <2>2. WriteSlots(t) = Program("feed", c)
      <3>1. c.op # "reset" /\ c.pulses \in Seq(Pulses) /\ Len(c.pulses) > 1 BY <1>2, <1>3, <1>6
      <3>2. Feed(c.pulses) = Program("feed", c) BY <3>1, FeedProgram
      <3> QED BY <1>6, <3>2 DEF WriteSlots
    <2>3. "feed" \in Kinds BY DEF Kinds
    <2> QED BY <1>1, <1>2, <2>1, <2>2, <2>3, ScheduleStep
  <1> QED BY <1>5, <1>6

LEMMA CallWriteStep ==
    ASSUME RegsInv, CallWrite
    PROVE  RegsInv' /\ UNCHANGED AbstractPort
  <1>1. PICK t \in Tables : WriteFits(t) /\ Schedule("write", call.us, WriteSlots(t), t)
    BY DEF CallWrite
  <1>2. t \in Seq({"one", "zero"}) BY RequestAssumption
  <1> QED BY <1>1, <1>2, WriteSlotsStep

\* Reading n slots is writing n ones and capturing the edges that end them.
LEMMA ReadSlotsStep ==
    ASSUME RegsInv, NEW operation \in {"read", "slots"}, NEW n \in 1..Periods,
           Schedule(operation, call.us,
                    << <<"RCR", n - 1>>, <<"ARR", SlotTime>>, <<"CCR3", "one">> >> \o Capture(n),
                    Ones(n))
    PROVE  RegsInv' /\ UNCHANGED AbstractPort
  <1> DEFINE t == Ones(n)
             program == << <<"RCR", n - 1>>, <<"ARR", SlotTime>>, <<"CCR3", "one">> >> \o Capture(n)
             c == [op |-> operation, us |-> call.us, pulses |-> t, owed |-> TRUE]
  <1>1. n \in Nat BY ScaleAssumption
  <1>2. t \in Seq(Pulses) /\ Len(t) = n /\ \A i \in 1..n : t[i] = "one"
    BY <1>1 DEF Ones, Pulses
  <1>3. operation \in Ops /\ "capture" \in Kinds BY DEF Ops, Kinds
  <1>4. program = Program("capture", c)
    <2>1. c.op \in {"read", "slots"} /\ c.pulses = Ones(n) OBVIOUS
    <2> QED BY <2>1, ReadProgram
  <1> HIDE DEF t, program
  <1>5. Serves("capture", c) BY <1>2 DEF Serves
  <1>6. Schedule(operation, call.us, program, t) BY DEF program, t
  <1> QED BY <1>2, <1>3, <1>4, <1>5, <1>6, ScheduleStep

LEMMA CallReadStep ==
    ASSUME RegsInv, CallRead
    PROVE  RegsInv' /\ UNCHANGED AbstractPort
  <1>1. PICK n \in Bytes :
            ReadFits(n) /\ Schedule("read", call.us, ReadData(n), Ones(n * ByteBits))
    BY DEF CallRead
  <1>2. n \in Nat BY RequestAssumption
  <1>3. n * ByteBits \in 1..Periods BY <1>1, <1>2, ReadFitsSlots
  <1> DEFINE bits == n * ByteBits
  <1>4. ReadData(n) =
            << <<"RCR", bits - 1>>, <<"ARR", SlotTime>>, <<"CCR3", "one">> >> \o Capture(bits)
    BY DEF ReadData
  <1> HIDE DEF bits
  <1>5. Schedule("read", call.us,
                 << <<"RCR", bits - 1>>, <<"ARR", SlotTime>>, <<"CCR3", "one">> >> \o Capture(bits),
                 Ones(bits))
    BY <1>1, <1>4 DEF bits
  <1>6. bits \in 1..Periods BY <1>3 DEF bits
  <1> QED BY <1>5, <1>6, ReadSlotsStep

LEMMA CallSearchSlotsStep ==
    ASSUME RegsInv, CallSearchSlots
    PROVE  RegsInv' /\ UNCHANGED AbstractPort
  <1>1. CASE Schedule("slots", call.us, ReadPair, Ones(2))
    <2>1. 2 \in 1..Periods BY ScaleAssumption
    <2> DEFINE n == 2
    <2>2. ReadPair = << <<"RCR", n - 1>>, <<"ARR", SlotTime>>, <<"CCR3", "one">> >> \o Capture(n)
      <3>1. n - 1 = 1 OBVIOUS
      <3> QED BY <3>1 DEF ReadPair
    <2>3. Schedule("slots", call.us,
                   << <<"RCR", n - 1>>, <<"ARR", SlotTime>>, <<"CCR3", "one">> >> \o Capture(n),
                   Ones(n))
      BY <1>1, <2>2
    <2>4. n \in 1..Periods BY <2>1
    <2> HIDE DEF n
    <2> QED BY <2>3, <2>4, ReadSlotsStep
  <1>2. ASSUME NEW pulse \in {"one", "zero"},
               Schedule("slots", call.us, WriteThenRead(pulse), <<pulse, "one", "one">>)
        PROVE  RegsInv' /\ UNCHANGED AbstractPort
    <2> DEFINE t == <<pulse, "one", "one">>
               c == [op |-> "slots", us |-> call.us, pulses |-> t, owed |-> TRUE]
    <2>1. t \in Seq(Pulses) /\ Len(t) = 3 BY DEF Pulses
    <2>2. \A i \in 1..3 : t[i] \in {"one", "zero"} OBVIOUS
    <2>3. Serves("both", c) BY <2>1, <2>2, ScaleAssumption DEF Serves
    <2>4. WriteThenRead(pulse) = Program("both", c) BY BothProgram
    <2>5. "slots" \in Ops /\ "both" \in Kinds BY DEF Ops, Kinds
    <2> QED BY <1>2, <2>1, <2>3, <2>4, <2>5, ScheduleStep
  <1>3. ASSUME NEW pulse \in {"one", "zero"},
               Schedule("slots", call.us, WriteSlots(<<pulse>>), <<pulse>>)
        PROVE  RegsInv' /\ UNCHANGED AbstractPort
    <2> DEFINE t == <<pulse>>
    <2>1. t \in Seq({"one", "zero"}) /\ Len(t) = 1 OBVIOUS
    <2>2. WriteFits(t) BY <2>1, ScaleAssumption DEF WriteFits, MaxSlots
    <2> QED BY <1>3, <2>1, <2>2, WriteSlotsStep
  <1> QED BY <1>1, <1>2, <1>3 DEF CallSearchSlots

LEMMA CallWaitStep ==
    ASSUME RegsInv, CallWait
    PROVE  RegsInv' /\ UNCHANGED AbstractPort
  <1>1. PICK us \in Waits : Schedule("wait", us, StartWait(us), <<>>) BY DEF CallWait
  <1>2. us \in Nat BY RequestAssumption
  <1> DEFINE p == StartWait(us)
  <1>3. (\E S : p \in Seq(S)) /\ Len(p) = 6 BY <1>2, WaitProgram
  <1> HIDE DEF p
  <1>4. p # <<>>
    <2>1. Len(<<>>) = 0 OBVIOUS
    <2> SUFFICES ASSUME p = <<>> PROVE FALSE OBVIOUS
    <2>2. Len(p) = 0 BY <2>1
    <2> QED BY <1>3, <2>2
  <1>5. /\ Begin(p)
        /\ call' = [op |-> "wait", us |-> us, pulses |-> <<>>, owed |-> TRUE]
        /\ bus' = [sent |-> <<>>, answers |-> <<>>, time |-> 0]
    BY <1>1 DEF Schedule, p
  <1>6. /\ RegsTyped /\ Standing /\ ~m.cen /\ ~Executing /\ Executing'
        /\ cpu' = [pc |-> cpu'.pc, prog |-> cpu'.prog] /\ cpu'.prog = p
        /\ cpu'.pc \in {"free", "clear", "sev", "flush", "test", "wfe", "awake"}
        /\ UNCHANGED <<m, buf>> /\ UNCHANGED AbstractPort
        /\ port' \in PortType(Nat) /\ port'.op = "idle" /\ port'.pin = m'.pin
    BY <1>4, <1>5, BeginStep
  <1>7. RegsTyped'
    <2>1. <<>> \in Seq(Pulses) /\ "wait" \in Ops BY DEF Ops
    <2>2. call' \in CallType BY <1>2, <1>5, <2>1 DEF CallType
    <2>3. bus' \in [sent : Seq(Pulses), answers : Seq(Caught), time : Nat] BY <1>5
    <2> QED BY <1>6, <2>2, <2>3 DEF RegsTyped
  <1>8. StartingWait'
    <2>1. NothingYet' BY <1>5 DEF NothingYet
    <2>2. Waiting' BY <1>5 DEF Waiting
    <2>3. Released' BY <1>6 DEF Standing, Released
    <2>4. cpu'.prog = Rest(StartWait(call'.us), 0)
      <3>1. p = Rest(p, 0) BY <1>3, WholeProgram
      <3>2. call'.us = us BY <1>5
      <3> QED BY <1>6, <3>1, <3>2 DEF p
    <2>5. 0 \in 0..5 OBVIOUS
    <2> QED BY <2>1, <2>2, <2>3, <2>4, <2>5 DEF StartingWait
  <1> QED BY <1>6, <1>7, <1>8 DEF RegsInv

LEMMA CallStrongPullupStep ==
    ASSUME RegsInv, CallStrongPullup
    PROVE  RegsInv' /\ UNCHANGED AbstractPort
  <1>1. PICK on \in BOOLEAN : Begin(StrongPullupProgram(on)) BY DEF CallStrongPullup
  <1>2. UNCHANGED <<call, bus>> BY DEF CallStrongPullup
  <1> DEFINE p == StrongPullupProgram(on)
             od == << <<"PIN", "od">> >>
             pp == << <<"CCR3", "none">>, <<"UG">>, <<"PIN", "pp">> >>
  <1>3. p = od \/ p = pp BY DEF StrongPullupProgram
  <1>4. od # <<>> /\ pp # <<>> OBVIOUS
  <1> HIDE DEF p, od, pp
  <1>5. p # <<>> BY <1>3, <1>4
  <1>6. /\ RegsTyped /\ Standing /\ ~m.cen /\ ~Executing /\ Executing'
        /\ cpu' = [pc |-> cpu'.pc, prog |-> cpu'.prog] /\ cpu'.prog = p
        /\ cpu'.pc \in {"free", "clear", "sev", "flush", "test", "wfe", "awake"}
        /\ UNCHANGED <<m, buf>> /\ UNCHANGED AbstractPort
        /\ port' \in PortType(Nat) /\ port'.op = "idle" /\ port'.pin = m'.pin
        /\ port'.us = call.us /\ port'.uif = m'.uif
    BY <1>1, <1>5, BeginStep DEF p
  <1>7. RegsTyped' BY <1>2, <1>6 DEF RegsTyped
  <1>8. Standing' BY <1>2, <1>6, StandingKept DEF Standing, Released
  <1>9. Signalling'
    <2>1. cpu'.prog = od \/ cpu'.prog = pp BY <1>3, <1>6
    <2>2. port'.us = call'.us BY <1>2, <1>6
    <2>3. CASE cpu'.prog = od
      <3>1. cpu'.prog \in { << <<"UG">> >>, << <<"PIN", "od">> >> } BY <2>3 DEF od
      <3> QED BY <1>6, <1>8, <2>2, <3>1 DEF Signalling
    <2>4. CASE cpu'.prog = pp
      <3>1. cpu'.prog \in { << <<"CCR3", "none">>, <<"UG">>, <<"PIN", "pp">> >>,
                            << <<"UG">>, <<"PIN", "pp">> >> }
        BY <2>4 DEF pp
      <3> QED BY <1>8, <2>2, <3>1 DEF Signalling
    <2> QED BY <2>1, <2>3, <2>4
  <1> QED BY <1>6, <1>7, <1>9 DEF RegsInv

LEMMA CallKickStep ==
    ASSUME RegsInv, CallKick
    PROVE  RegsInv' /\ UNCHANGED AbstractPort
  <1> DEFINE p == << <<"UG">> >>
  <1>1. Begin(p) /\ call' = [call EXCEPT !.owed = TRUE] /\ bus' = bus BY DEF CallKick
  <1>2. p # <<>> OBVIOUS
  <1> HIDE DEF p
  <1>3. /\ RegsTyped /\ Standing /\ ~m.cen /\ ~Executing /\ Executing'
        /\ cpu' = [pc |-> cpu'.pc, prog |-> cpu'.prog] /\ cpu'.prog = p
        /\ cpu'.pc \in {"free", "clear", "sev", "flush", "test", "wfe", "awake"}
        /\ UNCHANGED <<m, buf>> /\ UNCHANGED AbstractPort
        /\ port' \in PortType(Nat) /\ port'.op = "idle" /\ port'.pin = m'.pin
        /\ port'.us = call.us /\ port'.uif = m'.uif
    BY <1>1, <1>2, BeginStep
  <1>4. call \in CallType BY <1>3 DEF RegsTyped
  <1>5. call' \in CallType /\ call'.op = call.op /\ call'.us = call.us /\ call'.pulses = call.pulses
    BY <1>1, <1>4 DEF CallType
  <1>6. RegsTyped' BY <1>1, <1>3, <1>5 DEF RegsTyped
  <1>7. Standing' BY <1>1, <1>3, <1>5, StandingKept DEF Standing, Released
  <1>8. Signalling' BY <1>3, <1>5, <1>7 DEF Signalling, p
  <1> QED BY <1>3, <1>6, <1>8 DEF RegsInv

-----------------------------------------------------------------------------
(***************************************************************************)
(* ow_op_done() touches the flags of the core's event logic, and consumes  *)
(* the update flag of a timer that has stopped.                            *)
(***************************************************************************)
\* The running operation is blind to the core's event logic.
LEMMA RunningKept ==
    ASSUME UNCHANGED <<call, bus, buf>>,
           Agree(m, m', {})
    PROVE  (Sweeping => Sweeping') /\ (WaitingOut => WaitingOut')
  <1>1. UNCHANGED <<call, bus, buf>> OBVIOUS
  <1>2. /\ m'.cen = m.cen /\ m'.arr = m.arr /\ m'.rcr = m.rcr /\ m'.rep = m.rep
        /\ m'.stage = m.stage /\ m'.pre = m.pre /\ m'.ccr3 = m.ccr3 /\ m'.oc3pe = m.oc3pe
        /\ m'.cc4e = m.cc4e /\ m'.dier = m.dier /\ m'.cap = m.cap /\ m'.feed = m.feed
    BY DEF Agree
  <1>3. Slot' = Slot BY <1>1, <1>2 DEF Slot
  <1>4. Entry' = Entry BY <1>2, <1>3 DEF Entry
  <1>5. Kept => Kept' BY <1>1 DEF Kept
  <1>6. ASSUME NEW kind \in Kinds, Serves(kind, call), Loaded(kind), Sending, Feeding(kind),
               Storing(kind)
        PROVE  Serves(kind, call)' /\ Loaded(kind)' /\ Sending' /\ Feeding(kind)' /\ Storing(kind)'
    <2>1. Serves(kind, call)' BY <1>1, <1>6 DEF Serves
    <2>2. Loaded(kind)' BY <1>1, <1>2, <1>6 DEF Loaded
    <2>3. Sending' BY <1>1, <1>2, <1>3, <1>6 DEF Sending
    <2>4. Feeding(kind)' BY <1>1, <1>2, <1>3, <1>4, <1>6 DEF Feeding, Table
    <2>5. Storing(kind)' BY <1>1, <1>2, <1>3, <1>5, <1>6 DEF Storing, Expected
    <2> QED BY <2>1, <2>2, <2>3, <2>4, <2>5
  <1>7. Sweeping => Sweeping' BY <1>6 DEF Sweeping
  <1>8. WaitingOut => WaitingOut'
    BY <1>1, <1>2 DEF WaitingOut, Waiting, Released, Planned
  <1> QED BY <1>7, <1>8

LEMMA ClearPendingEffect ==
    ASSUME NEW x \in Registers, NEW y \in ClearPending(x)
    PROVE  y \in Registers /\ Agree(x, y, {})
  <1>1. PICK p \in BOOLEAN : y = [x EXCEPT !.pend = p] BY DEF ClearPending, Registers
  <1>2. y \in Registers BY <1>1 DEF Registers
  <1>3. Agree(x, y, {}) BY <1>1 DEF Agree, Registers
  <1> QED BY <1>2, <1>3

LEMMA CoreStep ==
    ASSUME RegsInv, ~Executing, UNCHANGED <<call, bus, buf, port>>,
           m' \in Registers, Agree(m, m', {}),
           NEW q \in {"free", "clear", "sev", "flush", "test", "wfe", "awake"},
           cpu' = [cpu EXCEPT !.pc = q]
    PROVE  RegsInv' /\ UNCHANGED AbstractPort
  <1>1. RegsTyped BY DEF RegsInv
  <1>2. cpu = [pc |-> cpu.pc, prog |-> cpu.prog] BY <1>1 DEF RegsTyped
  <1>3. cpu' = [pc |-> q, prog |-> cpu.prog] BY <1>2
  <1>4. cpu' = [pc |-> cpu'.pc, prog |-> cpu'.prog] /\ cpu'.pc = q /\ cpu'.prog = cpu.prog
    BY <1>3
  <1>5. ~Executing' BY <1>4 DEF Executing
  <1>6. RegsTyped' BY <1>1, <1>4 DEF RegsTyped
  <1>7. m'.cen = m.cen /\ m'.uif = m.uif /\ m'.pin = m.pin
        /\ m'.pre = m.pre /\ m'.ccr3 = m.ccr3 /\ m'.cap = m.cap /\ m'.arr = m.arr /\ m'.rcr = m.rcr
    BY DEF Agree
  <1>8. IF m'.cen THEN call'.owed /\ ~m'.uif /\ (Sweeping' \/ WaitingOut') ELSE Standing'
    <2>1. CASE m.cen
      <3>1. call.owed /\ ~m.uif /\ (Sweeping \/ WaitingOut) BY <2>1 DEF RegsInv
      <3> QED BY <1>7, <2>1, <3>1, RunningKept
    <2>2. CASE ~m.cen
      <3>1. Standing BY <2>2 DEF RegsInv
      <3>2. m.pre = "none" /\ m.ccr3 = "none" BY <3>1 DEF Standing, Released
      <3> QED BY <1>7, <2>2, <3>1, <3>2, StandingKept
    <2> QED BY <2>1, <2>2
  <1>9. RegsInv' BY <1>5, <1>6, <1>8 DEF RegsInv
  <1>10. UNCHANGED AbstractPort BY <1>5, <1>7 DEF AbstractPort
  <1> QED BY <1>9, <1>10

LEMMA BusIsDoneStep ==
    ASSUME RegsInv, BusIsDone
    PROVE  RegsInv' /\ [Timer!Next]_AbstractPort
  <1>1. /\ ~Executing /\ m.uif /\ UNCHANGED <<cpu, bus, buf, port>>
        /\ call' = [call EXCEPT !.owed = FALSE]
    BY DEF BusIsDone, At
  <1>2. PICK x \in ClearPending(m) : m' = [x EXCEPT !.uif = FALSE] BY DEF BusIsDone
  <1>3. RegsTyped /\ ~m.cen /\ Standing BY <1>1 DEF RegsInv
  <1>4. m \in Registers /\ call \in CallType BY <1>3 DEF RegsTyped
  <1>5. x \in Registers /\ Agree(m, x, {}) BY <1>4, ClearPendingEffect
  <1>6. m' \in Registers /\ m'.uif = FALSE BY <1>2, <1>5 DEF Registers
  <1>7. Agree(x, m', {"uif"}) BY <1>2, <1>5 DEF Agree, Registers
  <1>8. m'.cen = m.cen /\ m'.pin = m.pin /\ m'.pre = m.pre /\ m'.ccr3 = m.ccr3 /\ m'.cap = m.cap
        /\ m'.arr = m.arr /\ m'.rcr = m.rcr
    BY <1>5, <1>7 DEF Agree
  <1>9. call' \in CallType /\ call'.op = call.op /\ call'.us = call.us /\ call'.pulses = call.pulses
    BY <1>1, <1>4 DEF CallType
  <1>10. Standing' BY <1>1, <1>3, <1>8, <1>9, StandingKept DEF Standing, Released
  <1>11. RegsTyped' BY <1>1, <1>3, <1>6, <1>9 DEF RegsTyped
  <1>12. ~Executing' BY <1>1 DEF Executing
  <1>13. RegsInv' BY <1>3, <1>8, <1>10, <1>11, <1>12 DEF RegsInv
  <1>14. AbstractPort = [op |-> "idle", us |-> call.us, uif |-> m.uif, pin |-> m.pin]
    BY <1>1, <1>3 DEF AbstractPort
  <1>15. AbstractPort' = [op |-> "idle", us |-> call.us, uif |-> FALSE, pin |-> m.pin]
    BY <1>3, <1>6, <1>8, <1>9, <1>12 DEF AbstractPort
  <1>16. AbstractPort \in PortType(Nat)
    <2>1. call.us \in Nat /\ m.uif \in BOOLEAN /\ m.pin \in Pins
      BY <1>4 DEF CallType, Registers
    <2> QED BY <1>14, <2>1 DEF PortType
  <1>17. AbstractPort' = BusDone(AbstractPort)
    <2>1. AbstractPort.op = "idle" /\ AbstractPort.us = call.us /\ AbstractPort.pin = m.pin
      BY <1>14
    <2> QED BY <1>15, <1>16, <2>1, PortChanges
  <1>18. AbstractPort.uif BY <1>1, <1>14
  <1> QED BY <1>13, <1>17, <1>18, ConsumeStep

LEMMA OpDoneStep ==
    ASSUME RegsInv, OpDone
    PROVE  RegsInv' /\ [Timer!Next]_AbstractPort
  <1> DEFINE pcs == {"free", "clear", "sev", "flush", "test", "wfe", "awake"}
  <1>1. m \in Registers BY DEF RegsInv, RegsTyped
  <1>2. Agree(m, m, {}) BY DEF Agree
  <1>3. ASSUME NEW b \in BOOLEAN, m' = [m EXCEPT !.evt = b]
        PROVE  m' \in Registers /\ Agree(m, m', {})
    <2>1. m' \in Registers BY <1>1, <1>3 DEF Registers
    <2>2. Agree(m, m', {}) BY <1>1, <1>3 DEF Agree, Registers
    <2> QED BY <2>1, <2>2
  <1>4. ASSUME m' \in ClearPending(m) PROVE m' \in Registers /\ Agree(m, m', {})
    BY <1>1, <1>4, ClearPendingEffect
  <1>5. CASE BusIsDone BY <1>5, BusIsDoneStep
  <1>6. CASE GoToSleep
    <2>1. ~Executing /\ UNCHANGED <<m, call, bus, buf, port>> /\ cpu' = [cpu EXCEPT !.pc = "clear"]
      BY <1>6 DEF GoToSleep, At, Goto
    <2> QED BY <1>1, <1>2, <2>1, CoreStep
  <1>7. CASE SleepClear
    <2>1. ~Executing /\ UNCHANGED <<call, bus, buf, port>> /\ cpu' = [cpu EXCEPT !.pc = "sev"]
          /\ m' \in ClearPending(m)
      BY <1>7 DEF SleepClear, At, Goto, BeforeSleep
    <2> QED BY <1>4, <2>1, CoreStep
  <1>8. CASE SleepSev
    <2>1. ~Executing /\ UNCHANGED <<call, bus, buf, port>> /\ cpu' = [cpu EXCEPT !.pc = "flush"]
          /\ m' = [m EXCEPT !.evt = TRUE]
      BY <1>8 DEF SleepSev, At, Goto
    <2> QED BY <1>3, <2>1, CoreStep
  <1>9. CASE SleepFlush
    <2>1. ~Executing /\ UNCHANGED <<call, bus, buf, port>> /\ cpu' = [cpu EXCEPT !.pc = "test"]
          /\ m' = [m EXCEPT !.evt = FALSE]
      BY <1>9 DEF SleepFlush, At, Goto
    <2> QED BY <1>3, <2>1, CoreStep
  <1>10. CASE SleepTest
    <2> DEFINE q == IF m.uif THEN "awake" ELSE "wfe"
    <2>1. ~Executing /\ UNCHANGED <<m, call, bus, buf, port>> /\ cpu' = [cpu EXCEPT !.pc = q]
      BY <1>10 DEF SleepTest, At, Goto
    <2>2. q \in pcs OBVIOUS
    <2> HIDE DEF q
    <2> QED BY <1>1, <1>2, <2>1, <2>2, CoreStep
  <1>11. CASE SleepWfe
    <2>1. CASE m.evt
      <3>1. ~Executing /\ UNCHANGED <<call, bus, buf, port>> /\ cpu' = [cpu EXCEPT !.pc = "test"]
            /\ m' = [m EXCEPT !.evt = FALSE]
        BY <1>11, <2>1 DEF SleepWfe, At, Goto
      <3> QED BY <1>3, <3>1, CoreStep
    <2>2. CASE ~m.evt
      <3>1. UNCHANGED <<m, cpu, call, bus, buf, port>> BY <1>11, <2>2 DEF SleepWfe, At
      <3>2. cpu = [pc |-> cpu.pc, prog |-> cpu.prog] /\ cpu.pc \in pcs
        BY DEF RegsInv, RegsTyped
      <3>3. cpu' = [cpu EXCEPT !.pc = cpu.pc] BY <3>1, <3>2
      <3>4. ~Executing BY <1>11 DEF SleepWfe, At
      <3> QED BY <1>1, <1>2, <3>1, <3>2, <3>3, <3>4, CoreStep
    <2> QED BY <2>1, <2>2
  <1>12. CASE SleepAwake
    <2>1. ~Executing /\ UNCHANGED <<call, bus, buf, port>> /\ cpu' = [cpu EXCEPT !.pc = "free"]
          /\ m' \in ClearPending(m)
      BY <1>12 DEF SleepAwake, At, Goto
    <2> QED BY <1>4, <2>1, CoreStep
  <1> QED BY <1>5, <1>6, <1>7, <1>8, <1>9, <1>10, <1>11, <1>12 DEF OpDone

-----------------------------------------------------------------------------
(***************************************************************************)
(* The timer runs.                                                         *)
(***************************************************************************)
\* The DMA stores no more edges than it is armed for.
LEMMA StoredBounds ==
    ASSUME m \in Registers, NEW k \in Nat
    PROVE  Stored(k) \in Nat /\ Stored(k) <= m.cap.left /\ Stored(k) <= k
  BY DEF Stored, Registers

LEMMA EdgeEffect ==
    ASSUME m \in Registers, NEW k \in Nat, k <= m.cap.left,
           m' = [m EXCEPT !.stage = "compare",
                          !.cap = [en |-> m.cap.en /\ k < m.cap.left,
                                   left |-> m.cap.left - k, at |-> m.cap.at + k]]
    PROVE  /\ m' \in Registers /\ m'.stage = "compare" /\ Agree(m, m', {"stage", "cap"})
           /\ m'.cap = [en |-> m.cap.en /\ k < m.cap.left, left |-> m.cap.left - k,
                        at |-> m.cap.at + k]
  <1> DEFINE w == [en |-> m.cap.en /\ k < m.cap.left, left |-> m.cap.left - k, at |-> m.cap.at + k]
  <1>1. m.cap \in [en : BOOLEAN, left : Nat, at : Nat] BY DEF Registers
  <1>2. w \in [en : BOOLEAN, left : Nat, at : Nat] BY <1>1
  <1>3. m' = [m EXCEPT !.stage = "compare", !.cap = w] OBVIOUS
  <1> HIDE DEF w
  <1>4. ASSUME NEW y, y = [m EXCEPT !.stage = "compare", !.cap = w]
        PROVE  y \in Registers /\ y.stage = "compare" /\ y.cap = w /\ Agree(m, y, {"stage", "cap"})
    <2> DEFINE z == [m EXCEPT !.stage = "compare"]
    <2>1. z \in Registers /\ z.stage = "compare" /\ Agree(m, z, {"stage"})
      BY DEF Registers, Agree
    <2>2. y = [z EXCEPT !.cap = w] BY <1>4
    <2> HIDE DEF z
    <2>3. y \in Registers BY <1>2, <2>1, <2>2 DEF Registers
    <2>4. y.cap = w BY <2>1, <2>2 DEF Registers
    <2>5. Agree(z, y, {"cap"}) BY <2>1, <2>2 DEF Registers, Agree
    <2>6. y.stage = "compare" /\ Agree(m, y, {"stage", "cap"}) BY <2>1, <2>5 DEF Agree
    <2> QED BY <2>3, <2>4, <2>6
  <1> QED BY <1>3, <1>4 DEF w

LEMMA StageEffect ==
    ASSUME NEW x \in Registers, NEW s \in {"edge", "compare", "end"}, NEW y,
           y = [x EXCEPT !.stage = s]
    PROVE  y \in Registers /\ y.stage = s /\ Agree(x, y, {"stage"})
  <1>1. y \in Registers /\ y.stage = s BY DEF Registers
  <1>2. Agree(x, y, {"stage"}) BY DEF Registers, Agree
  <1> QED BY <1>1, <1>2

\* The next period begins.
LEMMA RoundEffect ==
    ASSUME NEW x \in Registers, x.rep > 0, NEW y, y = [x EXCEPT !.rep = @ - 1, !.stage = "edge"]
    PROVE  y \in Registers /\ y.rep = x.rep - 1 /\ y.stage = "edge" /\ Agree(x, y, {"rep", "stage"})
  <1> DEFINE r == x.rep - 1
  <1>1. r \in 0..(Periods - 1) BY ScaleAssumption DEF Registers
  <1>2. y = [x EXCEPT !.rep = r, !.stage = "edge"] OBVIOUS
  <1> HIDE DEF r
  <1> DEFINE z == [x EXCEPT !.rep = r]
  <1>3. z \in Registers BY <1>1 DEF Registers
  <1>4. z.rep = r /\ Agree(x, z, {"rep"}) BY DEF Registers, Agree
  <1>5. y = [z EXCEPT !.stage = "edge"] BY <1>2
  <1> HIDE DEF z
  <1>6. y \in Registers /\ y.stage = "edge" /\ Agree(z, y, {"stage"}) BY <1>3, <1>5, StageEffect
  <1>7. y.rep = r /\ Agree(x, y, {"rep", "stage"}) BY <1>4, <1>6 DEF Agree
  <1> QED BY <1>6, <1>7 DEF r

\* The one-pulse timer stops.
LEMMA StopEffect ==
    ASSUME NEW x \in Registers, NEW y, y = [UpdateEvent(x) EXCEPT !.cen = FALSE]
    PROVE  /\ y \in Registers /\ y.cen = FALSE /\ y.uif = TRUE /\ y.ccr3 = x.pre
           /\ Agree(x, y, {"cen", "uif", "ccr3", "rep"})
  <1> DEFINE u == UpdateEvent(x)
  <1>1. u \in Registers /\ u.uif = TRUE /\ u.ccr3 = x.pre BY UpdateEffect DEF Registers
  <1>2. Agree(x, u, {"uif", "ccr3", "rep"}) BY UpdateEffect DEF Agree
  <1> HIDE DEF u
  <1>3. y = [u EXCEPT !.cen = FALSE] BY DEF u
  <1>4. y \in Registers BY <1>1, <1>3 DEF Registers
  <1>5. y.cen = FALSE BY <1>1, <1>3 DEF Registers
  <1>6. Agree(u, y, {"cen"}) BY <1>1, <1>3 DEF Registers, Agree
  <1>7. y.uif = TRUE /\ y.ccr3 = x.pre BY <1>1, <1>6 DEF Agree
  <1>8. Agree(x, y, {"cen", "uif", "ccr3", "rep"}) BY <1>2, <1>6 DEF Agree
  <1> QED BY <1>4, <1>5, <1>7, <1>8

\* The DMA feeds the compare register the next entry of the table.
LEMMA TransferEffect ==
    ASSUME NEW x \in Registers, x.oc3pe = FALSE, x.feed # <<>>, NEW y,
           y = [Exec(x, <<"CCR3", Head(x.feed)>>) EXCEPT !.feed = Tail(@), !.stage = "end"]
    PROVE  /\ y \in Registers /\ y.stage = "end" /\ y.pre = Head(x.feed) /\ y.ccr3 = Head(x.feed)
           /\ y.feed = Tail(x.feed) /\ Agree(x, y, {"pre", "ccr3", "feed", "stage"})
  <1> DEFINE h == Head(x.feed)
             t == Tail(x.feed)
             z == Exec(x, <<"CCR3", h>>)
  <1>1. h \in Pulses /\ t \in Seq(Pulses) BY HeadTailProperties DEF Registers
  <1> HIDE DEF z, h, t
  <1>2. /\ z \in Registers /\ z.pre = h /\ Agree(x, z, {"pre", "ccr3"})
        /\ z.ccr3 = IF x.oc3pe THEN x.ccr3 ELSE h
    BY <1>1, PreloadEffect DEF z
  <1>3. z.ccr3 = h BY <1>2
  <1>4. z.feed = x.feed BY <1>2 DEF Agree
  <1>5. y = [z EXCEPT !.feed = Tail(z.feed), !.stage = "end"] BY DEF z, h
  <1>6. Tail(z.feed) = t BY <1>4 DEF t
  <1>7. y = [z EXCEPT !.feed = t, !.stage = "end"] BY <1>5, <1>6
  <1> DEFINE w == [z EXCEPT !.feed = t]
  <1>8. w \in Registers /\ w.feed = t /\ Agree(z, w, {"feed"})
    BY <1>1, <1>2 DEF Registers, Agree
  <1>9. y = [w EXCEPT !.stage = "end"] BY <1>7
  <1> HIDE DEF w
  <1>10. y \in Registers /\ y.stage = "end" /\ Agree(w, y, {"stage"})
    BY <1>8, <1>9, StageEffect
  <1>11. y.feed = t /\ y.pre = h /\ y.ccr3 = h BY <1>2, <1>3, <1>8, <1>10 DEF Agree
  <1>12. Agree(x, y, {"pre", "ccr3", "feed", "stage"}) BY <1>2, <1>8, <1>10 DEF Agree
  <1> QED BY <1>10, <1>11, <1>12 DEF h, t

\* What the polling code sees of it: nothing, then the end.
LEMMA RunningStep ==
    ASSUME RegsInv, m.cen, UNCHANGED <<cpu, call, port>>, RegsTyped', Sweeping' \/ WaitingOut',
           m'.cen = m.cen, m'.uif = m.uif, m'.pin = m.pin
    PROVE  RegsInv' /\ UNCHANGED AbstractPort
  <1>1. ~Executing /\ call.owed /\ ~m.uif BY DEF RegsInv
  <1>2. ~Executing' BY <1>1 DEF Executing
  <1>3. RegsInv' BY <1>1, <1>2 DEF RegsInv
  <1>4. UNCHANGED AbstractPort BY <1>1, <1>2 DEF AbstractPort
  <1> QED BY <1>3, <1>4

LEMMA StoppingStep ==
    ASSUME RegsInv, m.cen, UNCHANGED <<cpu, call, port>>, RegsTyped', Standing',
           m'.cen = FALSE, m'.uif = TRUE, m'.pin = m.pin
    PROVE  RegsInv' /\ [Timer!Next]_AbstractPort
  <1>1. ~Executing /\ RegsTyped BY DEF RegsInv
  <1>2. ~Executing' BY <1>1 DEF Executing
  <1>3. RegsInv' BY <1>2 DEF RegsInv
  <1>4. AbstractPort = [op |-> call.op, us |-> call.us, uif |-> m.uif, pin |-> m.pin]
    BY <1>1 DEF AbstractPort
  <1>5. AbstractPort' = [op |-> "idle", us |-> call.us, uif |-> TRUE, pin |-> m.pin]
    BY <1>2 DEF AbstractPort
  <1>6. call.op \in Ops /\ call.us \in Nat /\ m.uif \in BOOLEAN /\ m.pin \in Pins
    BY <1>1 DEF RegsTyped, CallType, Registers
  <1>7. AbstractPort \in PortType(Nat) BY <1>4, <1>6 DEF PortType
  <1>8. AbstractPort' = HwDone(AbstractPort)
    <2>1. AbstractPort.us = call.us /\ AbstractPort.pin = m.pin BY <1>4
    <2> QED BY <1>5, <1>7, <2>1, PortChanges
  <1>9. AbstractPort.op # "idle" BY <1>4, <1>6 DEF Ops
  <1> QED BY <1>3, <1>8, <1>9, FinishStep

\* A timed wait: no pulse, no edge, only time.
LEMMA WaitingOutStep ==
    ASSUME RegsInv, m.cen, WaitingOut, Hardware
    PROVE  RegsInv' /\ [Timer!Next]_AbstractPort
  <1>1. m \in Registers /\ RegsTyped /\ bus \in [sent : Seq(Pulses), answers : Seq(Caught), time : Nat]
        /\ buf \in [1..MaxSlots -> Caught]
    BY DEF RegsInv, RegsTyped
  <1>2. /\ Waiting /\ Planned /\ m.pre = "none" /\ m.ccr3 = "none"
        /\ bus.sent = <<>> /\ bus.answers = <<>>
        /\ m.dier \subseteq {"UIE"} /\ m.rep <= m.rcr
        /\ bus.time = (m.rcr - m.rep) * m.arr
    BY DEF WaitingOut, Released
  <1>3. ASSUME UNCHANGED <<cpu, call, port, buf, bus>>, m' \in Registers,
               m'.cen = m.cen, m'.uif = m.uif, m'.pin = m.pin,
               m'.arr = m.arr, m'.rcr = m.rcr, m'.rep = m.rep, m'.dier = m.dier,
               m'.pre = "none", m'.ccr3 = "none"
        PROVE  RegsInv' /\ UNCHANGED AbstractPort
    <2>1. RegsTyped' BY <1>1, <1>3 DEF RegsTyped
    <2>2. Waiting' /\ Released' /\ Planned' BY <1>2, <1>3 DEF Waiting, Released, Planned
    <2>3. WaitingOut' BY <1>2, <1>3, <2>2 DEF WaitingOut
    <2> QED BY <1>3, <2>1, <2>3, RunningStep
  <1>4. CASE HwEdge
    <2>1. UNCHANGED <<cpu, call, port>> BY <1>4 DEF HwEdge
    <2>2. PICK es \in Answers(m.ccr3) :
            LET n == Stored(Len(es)) IN
            /\ bus' = [bus EXCEPT !.sent = IF m.ccr3 = "none" THEN @ ELSE Append(@, m.ccr3),
                                  !.answers = IF m.cc4e THEN @ \o es ELSE @]
            /\ buf' = [i \in DOMAIN buf |-> IF i \in m.cap.at..(m.cap.at + n - 1)
                                            THEN es[i - m.cap.at + 1] ELSE buf[i]]
            /\ m' = [m EXCEPT !.stage = "compare",
                              !.cap = [en |-> m.cap.en /\ n < m.cap.left,
                                       left |-> m.cap.left - n, at |-> m.cap.at + n]]
      BY <1>4 DEF HwEdge
    <2>3. Answers("none") = { <<>> } BY DEF Answers
    <2>4. es = <<>> BY <1>2, <2>2, <2>3
    <2> DEFINE n == Stored(Len(es))
    <2>5. n \in Nat /\ n <= m.cap.left /\ n <= 0
      <3>1. Len(es) = 0 BY <2>4
      <3> QED BY <1>1, <3>1, StoredBounds
    <2>6. m' = [m EXCEPT !.stage = "compare",
                         !.cap = [en |-> m.cap.en /\ n < m.cap.left,
                                  left |-> m.cap.left - n, at |-> m.cap.at + n]]
      BY <2>2
    <2>7. buf' = [i \in DOMAIN buf |-> IF i \in m.cap.at..(m.cap.at + n - 1)
                                       THEN es[i - m.cap.at + 1] ELSE buf[i]]
      BY <2>2
    <2>8. bus' = bus
      <3> DEFINE a == IF m.cc4e THEN bus.answers \o es ELSE bus.answers
      <3>1. <<>> \o <<>> = <<>> OBVIOUS
      <3>2. a = <<>> BY <1>2, <2>4, <3>1
      <3>3. bus' = [bus EXCEPT !.sent = bus.sent, !.answers = a] BY <1>2, <2>2
      <3> HIDE DEF a
      <3>4. bus' = [bus EXCEPT !.sent = <<>>, !.answers = <<>>] BY <1>2, <3>2, <3>3
      <3> QED BY <1>1, <1>2, <3>4
    <2> HIDE DEF n
    <2>9. m' \in Registers /\ Agree(m, m', {"stage", "cap"}) BY <1>1, <2>5, <2>6, EdgeEffect
    <2>10. buf' = buf
      <3>1. m.cap.at \in Nat /\ n = 0 BY <1>1, <2>5 DEF Registers
      <3>2. \A i \in DOMAIN buf : ~(i \in m.cap.at..(m.cap.at + n - 1)) BY <3>1
      <3>3. buf' = [i \in DOMAIN buf |-> buf[i]] BY <2>7, <3>2
      <3> QED BY <1>1, <3>3
    <2> QED BY <1>2, <1>3, <2>1, <2>8, <2>9, <2>10 DEF Agree
  <1>5. CASE HwCompare
    <2>1. UNCHANGED <<cpu, call, port, bus, buf>> BY <1>5 DEF HwCompare
    <2>2. m' = [m EXCEPT !.stage = "end"]
      <3>1. "CC2DE" \notin m.dier BY <1>2
      <3> QED BY <1>5, <3>1 DEF HwCompare
    <2>3. m' \in Registers /\ Agree(m, m', {"stage"}) BY <1>1, <2>2, StageEffect
    <2> QED BY <1>2, <1>3, <2>1, <2>3 DEF Agree
  <1>6. CASE HwEnd
    <2>1. /\ UNCHANGED <<cpu, call, port, buf>>
          /\ m' = IF m.rep > 0 THEN [m EXCEPT !.rep = @ - 1, !.stage = "edge"]
                  ELSE [UpdateEvent(m) EXCEPT !.cen = FALSE]
          /\ bus' = [bus EXCEPT !.time = @ + m.arr]
      BY <1>6 DEF HwEnd
    <2>2. m.rep \in Nat /\ m.rcr \in Nat /\ m.arr \in Nat /\ bus.time \in Nat
      BY <1>1, ScaleAssumption DEF Registers
    <2>3. bus'.sent = <<>> /\ bus'.answers = <<>> /\ bus'.time = bus.time + m.arr
          /\ bus' \in [sent : Seq(Pulses), answers : Seq(Caught), time : Nat]
      BY <1>1, <1>2, <2>1, <2>2
    <2>4. bus'.time = (m.rcr - m.rep + 1) * m.arr BY <1>2, <2>2, <2>3
    <2>5. CASE m.rep > 0
      <3>1. m' \in Registers /\ m'.rep = m.rep - 1 /\ Agree(m, m', {"rep", "stage"})
        BY <1>1, <2>1, <2>5, RoundEffect
      <3>2. m'.arr = m.arr /\ m'.rcr = m.rcr /\ m'.dier = m.dier /\ m'.pre = m.pre
            /\ m'.ccr3 = m.ccr3 /\ m'.cen = m.cen /\ m'.uif = m.uif /\ m'.pin = m.pin
        BY <3>1 DEF Agree
      <3>3. RegsTyped' BY <1>1, <2>1, <2>3, <3>1 DEF RegsTyped
      <3>4. Waiting' /\ Released' /\ Planned'
        BY <1>2, <2>1, <3>2 DEF Waiting, Released, Planned
      <3>5. m'.rep <= m'.rcr /\ m'.rcr - m'.rep = m.rcr - m.rep + 1
        BY <1>2, <2>2, <2>5, <3>1, <3>2
      <3>6. WaitingOut' BY <1>2, <2>3, <2>4, <3>2, <3>4, <3>5 DEF WaitingOut
      <3> QED BY <2>1, <3>2, <3>3, <3>6, RunningStep
    <2>6. CASE ~(m.rep > 0)
      <3>1. /\ m' \in Registers /\ m'.cen = FALSE /\ m'.uif = TRUE /\ m'.ccr3 = m.pre
            /\ Agree(m, m', {"cen", "uif", "ccr3", "rep"})
        BY <1>1, <2>1, <2>6, StopEffect
      <3>2. m'.arr = m.arr /\ m'.rcr = m.rcr /\ m'.pre = m.pre /\ m'.pin = m.pin
        BY <3>1 DEF Agree
      <3>3. RegsTyped' BY <1>1, <2>1, <2>3, <3>1 DEF RegsTyped
      <3>4. Standing'
        <4>1. Released' BY <1>2, <3>1, <3>2 DEF Released
        <4>2. call'.op = "wait" /\ call'.pulses = <<>> BY <1>2, <2>1 DEF Waiting
        <4>3. Kept'
          <5>1. Len(bus'.answers) <= MaxSlots BY <2>3, ScaleAssumption DEF MaxSlots
          <5>2. \A i \in 1..Len(bus'.answers) : FALSE BY <2>3
          <5> QED BY <5>1, <5>2 DEF Kept
        <4>4. Planned' BY <1>2, <2>1, <3>2 DEF Planned
        <4>5. m.rep = 0 BY <2>2, <2>6
        <4>6. bus'.time = (m'.rcr + 1) * m'.arr BY <2>2, <2>4, <3>2, <4>5
        <4> QED BY <2>3, <4>1, <4>2, <4>3, <4>4, <4>6 DEF Standing
      <3> QED BY <2>1, <3>1, <3>2, <3>3, <3>4, StoppingStep
    <2> QED BY <2>5, <2>6
  <1> QED BY <1>4, <1>5, <1>6 DEF Hardware

\* The slots of an operation under way.
LEMMA SweepFacts ==
    ASSUME RegsTyped, NEW kind \in Kinds, Serves(kind, call), Loaded(kind)
    PROVE  LET k == Len(call.pulses) IN
           /\ call.pulses \in Seq(Pulses) /\ k \in Nat
           /\ Slot \in 1..k /\ Slot \in Nat /\ m.rep = k - Slot /\ m.rep \in Nat
           /\ Expected(call) \in 1..MaxSlots /\ MaxSlots \in Nat
           /\ call.pulses[Slot] \in {"one", "zero", "reset"}
           /\ call.op = "reset" =>
                 kind = "capture" /\ call.pulses = <<"reset">> /\ k = 1 /\ Slot = 1
                 /\ Expected(call) = 2
           /\ call.op # "reset" => call.pulses[Slot] \in {"one", "zero"} /\ Expected(call) = k
           /\ Preloaded(kind) => \A i \in 1..k : call.pulses[i] = call.pulses[1]
  <1> DEFINE k == Len(call.pulses)
  <1>1. m \in Registers /\ call \in CallType BY DEF RegsTyped
  <1>2. call.pulses \in Seq(Pulses) /\ k \in 1..Periods /\ k \in Nat
    BY <1>1, ServedCall DEF CallType
  <1>3. m.rep \in Nat /\ m.rep <= k - 1
    BY <1>1, ScaleAssumption DEF Loaded, Registers
  <1> DEFINE s == Slot
  <1>4. s = k - m.rep BY DEF Slot
  <1>5. MaxSlots \in Nat /\ MaxSlots = Periods /\ Periods >= 3 BY ScaleAssumption DEF MaxSlots
  <1>6. call.op = "reset" =>
            kind = "capture" /\ call.pulses = <<"reset">> /\ k = 1 /\ Expected(call) = 2
    <2> SUFFICES ASSUME call.op = "reset"
                 PROVE  kind = "capture" /\ call.pulses = <<"reset">> /\ k = 1 /\ Expected(call) = 2
      OBVIOUS
    <2>1. kind = "capture" BY DEF Serves
    <2>2. call.pulses = <<"reset">> BY <2>1 DEF Serves
    <2>3. k = 1 BY <2>2
    <2>4. Expected(call) = 2 BY DEF Expected, Edges
    <2> QED BY <2>1, <2>2, <2>3, <2>4
  <1>7. call.op # "reset" => Expected(call) = k BY DEF Expected
  <1>8. call.op # "reset" => \A i \in 1..k : call.pulses[i] \in {"one", "zero"}
    BY DEF Serves
  <1>9. Preloaded(kind) => \A i \in 1..k : call.pulses[i] = call.pulses[1]
    BY <1>2 DEF Serves, Preloaded
  <1> HIDE DEF k, s
  <1>10. s \in 1..k /\ s \in Nat /\ m.rep = k - s BY <1>2, <1>3, <1>4
  <1>11. call.op = "reset" => s = 1 BY <1>6, <1>10
  <1>12. Expected(call) \in 1..MaxSlots BY <1>2, <1>5, <1>6, <1>7
  <1>13. call.op = "reset" => call.pulses[s] = "reset" BY <1>6, <1>11
  <1>14. call.op # "reset" => call.pulses[s] \in {"one", "zero"} BY <1>8, <1>10
  <1>15. call.pulses[s] \in {"one", "zero", "reset"} BY <1>13, <1>14
  <1> QED BY <1>2, <1>3, <1>5, <1>6, <1>7, <1>9, <1>10, <1>11, <1>12, <1>14, <1>15 DEF k, s

\* The edges of one slot are stored where they belong, and leave the channel
\* armed for those to come.
LEMMA EdgesStored ==
    ASSUME m \in Registers, NEW a \in Seq(Caught), NEW es \in Seq(Caught), NEW top \in 1..MaxSlots,
           Len(es) >= 1, Len(a) + Len(es) <= top,
           buf \in [1..MaxSlots -> Caught],
           \A i \in 1..Len(a) : buf[i] = a[i],
           m.cc4e = TRUE, "CC4DE" \in m.dier,
           m.cap = [en |-> Len(a) < top, left |-> top - Len(a), at |-> Len(a) + 1],
           buf' = [i \in DOMAIN buf |->
                      IF i \in m.cap.at..(m.cap.at + Stored(Len(es)) - 1)
                      THEN es[i - m.cap.at + 1] ELSE buf[i]]
    PROVE  /\ Stored(Len(es)) = Len(es)
           /\ Len(a \o es) = Len(a) + Len(es)
           /\ \A i \in 1..Len(a \o es) : buf'[i] = (a \o es)[i]
  <1> DEFINE l == Len(a)
             e == Len(es)
  <1>1. l \in Nat /\ e \in Nat /\ top \in Nat /\ MaxSlots \in Nat /\ top <= MaxSlots
    BY LenProperties, ScaleAssumption DEF MaxSlots
  <1>2. /\ Len(a \o es) = l + e
        /\ \A i \in 1..(l + e) : (a \o es)[i] = IF i <= l THEN a[i] ELSE es[i - l]
    BY ConcatProperties
  <1>3. m.cap.left = top - l /\ m.cap.at = l + 1 /\ m.cap.en = (l < top) OBVIOUS
  <1>4. l + e <= top /\ e >= 1 OBVIOUS
  <1> HIDE DEF l, e
  <1>5. m.cap.en
    <2>1. l < top BY <1>1, <1>4
    <2> QED BY <1>3, <2>1
  <1>6. Stored(e) = e
    <2>1. Stored(e) = IF e < m.cap.left THEN e ELSE m.cap.left BY <1>5 DEF Stored
    <2> QED BY <1>1, <1>3, <1>4, <2>1
  <1>7. ASSUME NEW i \in 1..(l + e) PROVE buf'[i] = (a \o es)[i]
    <2>1. buf' = [j \in DOMAIN buf |-> IF j \in (l + 1)..((l + 1) + e - 1)
                                       THEN es[j - (l + 1) + 1] ELSE buf[j]]
      BY <1>3, <1>6 DEF e
    <2>2. i \in DOMAIN buf BY <1>1, <1>4
    <2>3. buf'[i] = IF i \in (l + 1)..((l + 1) + e - 1) THEN es[i - (l + 1) + 1] ELSE buf[i]
      BY <2>1, <2>2
    <2>4. (i \in (l + 1)..((l + 1) + e - 1) <=> ~(i <= l)) /\ i - (l + 1) + 1 = i - l
      BY <1>1
    <2>5. i <= l => buf[i] = a[i] BY <1>1 DEF l
    <2> QED BY <1>2, <2>3, <2>4, <2>5
  <1> QED BY <1>2, <1>6, <1>7 DEF l, e

\* The types of what the edges change.
LEMMA EdgeTyped ==
    ASSUME RegsTyped, NEW es \in Seq(Caught),
           LET n == Stored(Len(es)) IN
           buf' = [i \in DOMAIN buf |-> IF i \in m.cap.at..(m.cap.at + n - 1)
                                        THEN es[i - m.cap.at + 1] ELSE buf[i]]
    PROVE  buf' \in [1..MaxSlots -> Caught]
  <1> DEFINE n == Stored(Len(es))
             at == m.cap.at
             e == Len(es)
  <1>1. m \in Registers /\ buf \in [1..MaxSlots -> Caught] BY DEF RegsTyped
  <1>2. n \in Nat /\ n <= e /\ e \in Nat /\ at \in Nat
    <2>1. e \in Nat /\ at \in Nat BY <1>1, LenProperties DEF Registers
    <2> QED BY <1>1, <2>1, StoredBounds
  <1>3. MaxSlots \in Nat BY ScaleAssumption DEF MaxSlots
  <1>4. \A j \in 1..e : es[j] \in Caught BY ElementOfSeq
  <1>5. buf' = [i \in DOMAIN buf |-> IF i \in at..(at + n - 1) THEN es[i - at + 1] ELSE buf[i]]
    OBVIOUS
  <1> HIDE DEF n, at, e
  <1>6. \A i \in 1..MaxSlots : i \in at..(at + n - 1) => i - at + 1 \in 1..e BY <1>2, <1>3
  <1>7. \A i \in 1..MaxSlots :
            (IF i \in at..(at + n - 1) THEN es[i - at + 1] ELSE buf[i]) \in Caught
    BY <1>1, <1>4, <1>6
  <1> QED BY <1>1, <1>5, <1>7

\* What a device may answer to a pulse.
LEMMA AnswerShape ==
    ASSUME NEW p \in {"one", "zero", "reset"}, NEW es \in Answers(p)
    PROVE  /\ es \in Seq(Caught) /\ Len(es) \in 1..2
           /\ p # "reset" => Len(es) = 1
  <1> DEFINE short == <<"short">>
             long  == <<"long">>
             gone  == <<"release">>
             here  == <<"release", "presence">>
  <1>1. /\ Answers("one") = {short, long} /\ Answers("zero") = {long}
        /\ Answers("reset") = {gone, here}
    BY DEF Answers
  <1>2. /\ short \in Seq(Caught) /\ long \in Seq(Caught)
        /\ gone \in Seq(Caught) /\ here \in Seq(Caught)
    BY DEF Caught
  <1>3. /\ Len(short) = 1 /\ Len(long) = 1 /\ Len(gone) = 1 /\ Len(here) = 2
    OBVIOUS
  <1> HIDE DEF short, long, gone, here
  <1>4. es \in {short, long} \/ (p = "reset" /\ es \in {gone, here})
    BY <1>1
  <1>5. CASE es \in {short, long} BY <1>2, <1>3, <1>5
  <1>6. CASE p = "reset" /\ es \in {gone, here} BY <1>2, <1>3, <1>6
  <1> QED BY <1>4, <1>5, <1>6

\* One more pulse of the table has been sent.
LEMMA NextPulse ==
    ASSUME NEW t \in Seq(Pulses), NEW i \in 1..Len(t)
    PROVE  Append(SubSeq(t, 1, i - 1), t[i]) = SubSeq(t, 1, i) /\ SubSeq(t, 1, i) \in Seq(Pulses)
  <1> DEFINE k == Len(t)
  <1>1. k \in Nat BY LenProperties
  <1>2. \A j \in 1..k : t[j] \in Pulses BY ElementOfSeq
  <1> HIDE DEF k
  <1>3. i \in 1..k /\ i \in Nat /\ i - 1 \in Int BY <1>1 DEF k
  <1>4. (\A j \in 1..(i - 1) : j \in 1..k) /\ (\A j \in 1..i : j \in 1..k) BY <1>1, <1>3
  <1>5. SubSeq(t, 1, i - 1) \in Seq(Pulses) BY <1>2, <1>3, <1>4, SubSeqProperties
  <1>6. SubSeq(t, 1, i) \in Seq(Pulses) BY <1>2, <1>3, <1>4, SubSeqProperties
  <1>7. 1 \in 1..Len(t) /\ i \in 1..Len(t) BY <1>1, <1>3 DEF k
  <1>8. SubSeq(t, 1, i) = SubSeq(t, 1, i - 1) \o << t[i] >>
    <2>1. \A seq \in Seq(Pulses) : \A f \in 1..Len(seq) : \A l \in f..Len(seq) :
            SubSeq(seq, f, l) = SubSeq(seq, f, l - 1) \o << seq[l] >>
      BY SubSeqRecursiveSecond
    <2> QED BY <1>7, <2>1
  <1>9. t[i] \in Pulses BY <1>2, <1>3
  <1>10. Append(SubSeq(t, 1, i - 1), t[i]) = SubSeq(t, 1, i - 1) \o << t[i] >>
    BY <1>5, <1>9, AppendIsConcat
  <1> QED BY <1>6, <1>8, <1>10

\* A slot starts: its pulse, and the edges the devices answer with.
LEMMA SweepEdge ==
    ASSUME RegsInv, m.cen, NEW kind \in Kinds, Serves(kind, call), Loaded(kind), Sending,
           Feeding(kind), Storing(kind), HwEdge
    PROVE  RegsInv' /\ UNCHANGED AbstractPort
  <1> DEFINE k == Len(call.pulses)
             s == Slot
             p == call.pulses[s]
             a == bus.answers
             top == Expected(call)
  <1>1. /\ RegsTyped /\ m \in Registers /\ call \in CallType
        /\ bus \in [sent : Seq(Pulses), answers : Seq(Caught), time : Nat]
        /\ buf \in [1..MaxSlots -> Caught]
    BY DEF RegsInv, RegsTyped
  <1>2. /\ call.pulses \in Seq(Pulses) /\ k \in Nat
        /\ s \in 1..k /\ s \in Nat
        /\ top \in 1..MaxSlots /\ MaxSlots \in Nat
        /\ p \in {"one", "zero", "reset"}
        /\ call.op = "reset" => kind = "capture" /\ s = 1 /\ top = 2
        /\ call.op = "reset" => call.pulses = <<"reset">>
        /\ call.op # "reset" => p \in {"one", "zero"} /\ top = k
    BY <1>1, SweepFacts
  <1>3. UNCHANGED <<cpu, call, port>> /\ m.stage = "edge" BY DEF HwEdge, Running
  <1>4. m.ccr3 = p
    <2>1. CASE Preloaded(kind) BY <2>1 DEF Feeding
    <2>2. CASE ~Preloaded(kind)
      <3>1. Entry = s BY <1>3 DEF Entry
      <3>2. Table(call)[s] = p BY <1>1, <1>2, ServedCall
      <3> QED BY <2>2, <3>1, <3>2 DEF Feeding
    <2> QED BY <2>1, <2>2
  <1>5. PICK es \in Answers(m.ccr3) :
            LET n == Stored(Len(es)) IN
            /\ bus' = [bus EXCEPT !.sent = IF m.ccr3 = "none" THEN @ ELSE Append(@, m.ccr3),
                                  !.answers = IF m.cc4e THEN @ \o es ELSE @]
            /\ buf' = [i \in DOMAIN buf |-> IF i \in m.cap.at..(m.cap.at + n - 1)
                                            THEN es[i - m.cap.at + 1] ELSE buf[i]]
            /\ m' = [m EXCEPT !.stage = "compare",
                              !.cap = [en |-> m.cap.en /\ n < m.cap.left,
                                       left |-> m.cap.left - n, at |-> m.cap.at + n]]
    BY DEF HwEdge
  <1>6. es \in Answers(p) /\ es \in Seq(Caught) /\ Len(es) \in 1..2 /\ (p # "reset" => Len(es) = 1)
    BY <1>2, <1>4, <1>5, AnswerShape
  <1> DEFINE n == Stored(Len(es))
             e == Len(es)
  <1>7. m' = [m EXCEPT !.stage = "compare",
                       !.cap = [en |-> m.cap.en /\ n < m.cap.left,
                                left |-> m.cap.left - n, at |-> m.cap.at + n]]
    BY <1>5
  <1>8. n \in Nat /\ n <= m.cap.left BY <1>1, <1>6, StoredBounds
  <1>9. buf' = [i \in DOMAIN buf |-> IF i \in m.cap.at..(m.cap.at + n - 1)
                                     THEN es[i - m.cap.at + 1] ELSE buf[i]]
    BY <1>5
  <1>10. buf' \in [1..MaxSlots -> Caught] BY <1>1, <1>6, <1>9, EdgeTyped
  <1> HIDE DEF n
  <1>11. /\ m' \in Registers /\ m'.stage = "compare" /\ Agree(m, m', {"stage", "cap"})
         /\ m'.cap = [en |-> m.cap.en /\ n < m.cap.left, left |-> m.cap.left - n,
                      at |-> m.cap.at + n]
    BY <1>1, <1>7, <1>8, EdgeEffect
  <1>12. /\ bus'.sent = SubSeq(call.pulses, 1, s)
         /\ bus'.answers = IF m.cc4e THEN a \o es ELSE a
         /\ bus' \in [sent : Seq(Pulses), answers : Seq(Caught), time : Nat]
    <2> DEFINE sent == SubSeq(call.pulses, 1, s)
               answers == IF m.cc4e THEN a \o es ELSE a
    <2>1. bus.sent = SubSeq(call.pulses, 1, s - 1) BY <1>3 DEF Sending
    <2>2. Append(bus.sent, p) = sent /\ sent \in Seq(Pulses) BY <1>2, <2>1, NextPulse
    <2>3. a \o es \in Seq(Caught) BY <1>1, <1>6, ConcatProperties
    <2>4. answers \in Seq(Caught) BY <1>1, <2>3
    <2>5. bus' = [bus EXCEPT !.sent = Append(bus.sent, p), !.answers = answers]
      BY <1>2, <1>4, <1>5
    <2> HIDE DEF sent, answers, p
    <2>6. bus' = [bus EXCEPT !.sent = sent, !.answers = answers] BY <2>2, <2>5
    <2>7. bus'.sent = sent /\ bus'.answers = answers
          /\ bus' \in [sent : Seq(Pulses), answers : Seq(Caught), time : Nat]
      BY <1>1, <2>2, <2>4, <2>6
    <2> QED BY <2>7 DEF sent, answers
  <1>13. /\ m'.cen = m.cen /\ m'.arr = m.arr /\ m'.rcr = m.rcr /\ m'.rep = m.rep
         /\ m'.pre = m.pre /\ m'.ccr3 = m.ccr3 /\ m'.oc3pe = m.oc3pe
         /\ m'.cc4e = m.cc4e /\ m'.dier = m.dier /\ m'.feed = m.feed
         /\ m'.uif = m.uif /\ m'.pin = m.pin
    BY <1>11 DEF Agree
  <1>14. RegsTyped' BY <1>1, <1>3, <1>10, <1>11, <1>12 DEF RegsTyped
  <1>15. Slot' = Slot BY <1>3, <1>13 DEF Slot
  <1>16. Entry = Slot /\ Entry' = Slot BY <1>3, <1>11, <1>15 DEF Entry
  <1>17. Serves(kind, call)' BY <1>3 DEF Serves
  <1>18. Loaded(kind)' BY <1>3, <1>13 DEF Loaded
  <1>19. Sending' BY <1>3, <1>11, <1>12, <1>15 DEF Sending
  <1>20. Feeding(kind)'
    <2>1. CASE Preloaded(kind) BY <1>3, <1>13, <1>15, <2>1 DEF Feeding
    <2>2. CASE ~Preloaded(kind)
      <3>1. m.ccr3 = Table(call)[Slot] /\ m.feed = SubSeq(Table(call), Slot + 1, k + 1)
        BY <1>16, <2>2 DEF Feeding
      <3>2. Table(call)' = Table(call) BY <1>3 DEF Table
      <3> QED BY <1>3, <1>11, <1>13, <1>16, <2>2, <3>1, <3>2 DEF Feeding
    <2> QED BY <2>1, <2>2
  <1>21. Storing(kind)'
    <2>1. CASE ~Captured(kind)
      <3>1. m.cc4e = FALSE BY <2>1 DEF Loaded
      <3>2. bus'.answers = <<>> BY <1>12, <2>1, <3>1 DEF Storing
      <3> QED BY <2>1, <3>2 DEF Storing
    <2>2. CASE Captured(kind)
      <3>1. m.cc4e = TRUE /\ "CC4DE" \in m.dier BY <2>2 DEF Loaded, Requests
      <3>2. /\ m.cap = [en |-> Len(a) < top, left |-> top - Len(a), at |-> Len(a) + 1]
            /\ \A i \in 1..Len(a) : buf[i] = a[i]
        BY <2>2 DEF Storing, Kept
      <3>3. /\ call.op = "reset" => a = <<>>
            /\ call.op # "reset" => Len(a) = s - 1
        BY <1>3, <2>2 DEF Storing
      <3>4. Len(a) \in Nat /\ a \in Seq(Caught) /\ e \in Nat BY <1>1, <1>6
      <3>5. e >= 1 /\ Len(a) + e <= top
        <4>1. CASE call.op = "reset"
          <5>1. Len(a) = 0 BY <3>3, <4>1
          <5>2. top = 2 BY <1>2, <4>1
          <5>3. e \in 1..2 BY <1>6
          <5> HIDE DEF e, top
          <5> QED BY <5>1, <5>2, <5>3
        <4>2. CASE call.op # "reset"
          <5>1. e = 1 BY <1>2, <1>6, <4>2
          <5> QED BY <1>2, <3>3, <4>2, <5>1
        <4> QED BY <4>1, <4>2
      <3>6. /\ n = e /\ Len(a \o es) = Len(a) + e
            /\ \A i \in 1..Len(a \o es) : buf'[i] = (a \o es)[i]
        <4>1. buf' = [i \in DOMAIN buf |->
                         IF i \in m.cap.at..(m.cap.at + Stored(Len(es)) - 1)
                         THEN es[i - m.cap.at + 1] ELSE buf[i]]
          BY <1>9 DEF n
        <4>2. a \in Seq(Caught) /\ es \in Seq(Caught) /\ top \in 1..MaxSlots
              /\ Len(es) >= 1 /\ Len(a) + Len(es) <= top
          BY <1>2, <1>6, <3>4, <3>5
        <4> HIDE DEF a, top
        <4>3. /\ Stored(Len(es)) = Len(es)
              /\ Len(a \o es) = Len(a) + Len(es)
              /\ \A i \in 1..Len(a \o es) : buf'[i] = (a \o es)[i]
          BY <1>1, <3>1, <3>2, <4>1, <4>2, EdgesStored, Zenon
        <4> QED BY <4>3 DEF n
      <3> DEFINE b == a \o es
      <3>7. bus'.answers = b BY <1>12, <3>1
      <3>8. Len(b) = Len(a) + e /\ n = e BY <3>6
      <3>9. m'.cap = [en |-> Len(b) < top, left |-> top - Len(b), at |-> Len(b) + 1]
        <4> DEFINE l == Len(a)
                   q == Len(b)
        <4>1. m.cap.en = (l < top) /\ m.cap.left = top - l /\ m.cap.at = l + 1 BY <3>2
        <4>2. l \in Nat /\ q = l + e /\ n = e /\ e >= 1 /\ e \in Nat /\ top \in Nat /\ l + e <= top
          BY <1>2, <3>4, <3>5, <3>8
        <4> HIDE DEF l, q, e, top
        <4>3. top - l - e = top - q /\ l + 1 + e = q + 1 BY <4>2
        <4>4. (l < top) /\ (e < top - l <=> q < top) BY <4>2
        <4>5. (m.cap.en /\ n < m.cap.left) = (q < top)
          <5>1. m.cap.en BY <4>1, <4>4
          <5>2. n < m.cap.left <=> q < top BY <4>1, <4>2, <4>4
          <5> QED BY <5>1, <5>2
        <4>6. m.cap.left - n = top - q /\ m.cap.at + n = q + 1 BY <4>1, <4>2, <4>3
        <4>7. m'.cap = [en |-> q < top, left |-> top - q, at |-> q + 1]
          BY <1>11, <4>5, <4>6
        <4> QED BY <4>7 DEF q, top
      <3>10. Kept'
        <4>1. Len(b) <= MaxSlots BY <1>2, <3>4, <3>5, <3>8
        <4> QED BY <3>6, <3>7, <4>1 DEF Kept
      <3>11. call.op = "reset" => b \in Answers("reset")
        <4> SUFFICES ASSUME call.op = "reset" PROVE b \in Answers("reset") OBVIOUS
        <4>1. p = "reset"
          <5>1. call.pulses = <<"reset">> /\ s = 1 BY <1>2
          <5> QED BY <5>1
        <4>2. b = es
          <5>1. a = <<>> BY <3>3
          <5>2. b = <<>> \o es BY <5>1
          <5> QED BY <1>6, <5>2, ConcatEmptySeq
        <4> QED BY <1>6, <4>1, <4>2
      <3>12. call.op # "reset" => Len(b) = s BY <1>2, <1>6, <3>3, <3>8
      <3>13. Expected(call)' = top /\ m'.stage # "edge" BY <1>3, <1>11 DEF Expected
      <3> HIDE DEF b, top
      <3> QED BY <1>3, <1>15, <2>2, <3>7, <3>9, <3>10, <3>11, <3>12, <3>13 DEF Storing
    <2> QED BY <2>1, <2>2
  <1>22. Sweeping' BY <1>17, <1>18, <1>19, <1>20, <1>21 DEF Sweeping
  <1> QED BY <1>3, <1>13, <1>14, <1>22, RunningStep

\* The middle of a slot: the DMA feeds the next entry, if it feeds.
LEMMA SweepCompare ==
    ASSUME RegsInv, m.cen, NEW kind \in Kinds, Serves(kind, call), Loaded(kind), Sending,
           Feeding(kind), Storing(kind), HwCompare
    PROVE  RegsInv' /\ UNCHANGED AbstractPort
  <1> DEFINE k == Len(call.pulses)
             s == Slot
             t == Table(call)
  <1>1. /\ RegsTyped /\ m \in Registers /\ call \in CallType BY DEF RegsInv, RegsTyped
  <1>2. k \in Nat /\ s \in 1..k /\ s \in Nat BY <1>1, SweepFacts
  <1>3. UNCHANGED <<cpu, call, bus, buf, port>> /\ m.stage = "compare" BY DEF HwCompare, Running
  <1>4. Entry = s BY <1>3 DEF Entry
  <1>5. ASSUME m' \in Registers, m'.stage = "end", Agree(m, m', {"pre", "ccr3", "feed", "stage"}),
               Feeding(kind)'
        PROVE  RegsInv' /\ UNCHANGED AbstractPort
    <2>1. /\ m'.cen = m.cen /\ m'.arr = m.arr /\ m'.rcr = m.rcr /\ m'.rep = m.rep
          /\ m'.oc3pe = m.oc3pe /\ m'.cc4e = m.cc4e /\ m'.dier = m.dier /\ m'.cap = m.cap
          /\ m'.uif = m.uif /\ m'.pin = m.pin
      BY <1>5 DEF Agree
    <2>2. RegsTyped' BY <1>1, <1>3, <1>5 DEF RegsTyped
    <2>3. Slot' = Slot BY <1>3, <2>1 DEF Slot
    <2>4. Serves(kind, call)' BY <1>3 DEF Serves
    <2>5. Loaded(kind)' BY <1>3, <2>1 DEF Loaded
    <2>6. Sending'
      <3>1. bus.sent = SubSeq(call.pulses, 1, Slot) BY <1>3 DEF Sending
      <3> QED BY <1>3, <1>5, <2>3, <3>1 DEF Sending
    <2>7. Kept => Kept' BY <1>3 DEF Kept
    <2>8. Storing(kind)'
      <3>1. CASE ~Captured(kind) BY <1>3, <3>1 DEF Storing
      <3>2. CASE Captured(kind)
        <4>1. /\ m.cap = [en |-> Len(bus.answers) < Expected(call),
                          left |-> Expected(call) - Len(bus.answers), at |-> Len(bus.answers) + 1]
              /\ Kept
              /\ IF call.op = "reset" THEN bus.answers \in Answers("reset")
                 ELSE Len(bus.answers) = Slot
          BY <1>3, <3>2 DEF Storing
        <4>2. Expected(call)' = Expected(call) BY <1>3 DEF Expected
        <4> QED BY <1>3, <1>5, <2>1, <2>3, <2>7, <3>2, <4>1, <4>2 DEF Storing
      <3> QED BY <3>1, <3>2
    <2>9. Sweeping' BY <1>5, <2>4, <2>5, <2>6, <2>8 DEF Sweeping
    <2> QED BY <1>3, <2>1, <2>2, <2>9, RunningStep
  <1>6. CASE Preloaded(kind)
    <2>1. "CC2DE" \notin m.dier BY <1>6 DEF Loaded, Requests
    <2>2. m' = [m EXCEPT !.stage = "end"] BY <2>1 DEF HwCompare
    <2>3. m' \in Registers /\ m'.stage = "end" /\ Agree(m, m', {"stage"})
      BY <1>1, <2>2, StageEffect
    <2>4. Agree(m, m', {"pre", "ccr3", "feed", "stage"}) BY <2>3 DEF Agree
    <2>5. m'.pre = m.pre /\ m'.ccr3 = m.ccr3 /\ m'.rep = m.rep BY <2>3 DEF Agree
    <2>6. Slot' = Slot BY <1>3, <2>5 DEF Slot
    <2>7. Feeding(kind)' BY <1>3, <1>6, <2>5, <2>6 DEF Feeding
    <2> QED BY <1>5, <2>3, <2>4, <2>7
  <1>7. CASE ~Preloaded(kind)
    <2>1. "CC2DE" \in m.dier /\ m.oc3pe = FALSE BY <1>7 DEF Loaded, Requests
    <2>2. m.feed = SubSeq(t, s + 1, k + 1) BY <1>4, <1>7 DEF Feeding
    <2>3. t \in Seq(Pulses) /\ Len(t) = k + 1 BY <1>1, ServedCall
    <2>4. s + 1 \in 1..Len(t) /\ k + 1 \in (s + 1)..Len(t) BY <1>2, <2>3
    <2>5. Head(m.feed) = t[s + 1] /\ Tail(m.feed) = SubSeq(t, (s + 1) + 1, k + 1)
      BY <2>2, <2>3, <2>4, HeadTailOfSubSeq
    <2>6. m.feed # <<>>
      <3>1. \A i \in (s + 1)..(k + 1) : t[i] \in Pulses
        <4>1. \A i \in 1..Len(t) : t[i] \in Pulses BY <2>3, ElementOfSeq
        <4> HIDE DEF t, s, k
        <4> QED BY <1>2, <2>3, <4>1
      <3>2. Len(m.feed) = (k + 1) - (s + 1) + 1
        <4>1. s + 1 \in Int /\ k + 1 \in Int /\ s + 1 <= k + 1 BY <1>2
        <4> HIDE DEF t, s, k
        <4> QED BY <2>2, <3>1, <4>1, SubSeqProperties
      <3>3. Len(m.feed) >= 1 BY <1>2, <3>2
      <3> QED BY <3>3
    <2>7. m' = [Exec(m, <<"CCR3", Head(m.feed)>>) EXCEPT !.feed = Tail(@), !.stage = "end"]
      BY <2>1, <2>6 DEF HwCompare
    <2>8. /\ m' \in Registers /\ m'.stage = "end" /\ m'.pre = Head(m.feed) /\ m'.ccr3 = Head(m.feed)
          /\ m'.feed = Tail(m.feed) /\ Agree(m, m', {"pre", "ccr3", "feed", "stage"})
      BY <1>1, <2>1, <2>6, <2>7, TransferEffect
    <2>9. m'.rep = m.rep BY <2>8 DEF Agree
    <2>10. Slot' = Slot BY <1>3, <2>9 DEF Slot
    <2>11. Entry' = Slot + 1 BY <2>8, <2>10 DEF Entry
    <2>12. Table(call)' = Table(call) BY <1>3 DEF Table
    <2>13. Feeding(kind)' BY <1>3, <1>7, <2>5, <2>8, <2>11, <2>12 DEF Feeding
    <2> QED BY <1>5, <2>8, <2>13
  <1> QED BY <1>6, <1>7

\* A slot ends, and the operation with the last one.
LEMMA SweepEnd ==
    ASSUME RegsInv, m.cen, NEW kind \in Kinds, Serves(kind, call), Loaded(kind), Sending,
           Feeding(kind), Storing(kind), HwEnd
    PROVE  RegsInv' /\ [Timer!Next]_AbstractPort
  <1> DEFINE k == Len(call.pulses)
             s == Slot
             t == Table(call)
             top == Expected(call)
  <1>1. /\ RegsTyped /\ m \in Registers /\ call \in CallType
        /\ bus \in [sent : Seq(Pulses), answers : Seq(Caught), time : Nat]
    BY DEF RegsInv, RegsTyped
  <1>2. /\ call.pulses \in Seq(Pulses) /\ k \in Nat /\ s \in 1..k /\ s \in Nat
        /\ m.rep = k - s /\ m.rep \in Nat
        /\ call.op = "reset" => k = 1 /\ kind = "capture" /\ top = 2
        /\ Preloaded(kind) => \A i \in 1..k : call.pulses[i] = call.pulses[1]
    BY <1>1, SweepFacts
  <1>3. /\ UNCHANGED <<cpu, call, buf, port>> /\ m.stage = "end"
        /\ bus' = [bus EXCEPT !.time = @ + m.arr]
    BY DEF HwEnd, Running
  <1>4. /\ bus' \in [sent : Seq(Pulses), answers : Seq(Caught), time : Nat]
        /\ bus'.sent = bus.sent /\ bus'.answers = bus.answers
    <2>1. m.arr \in Nat /\ bus.time \in Nat BY <1>1, ScaleAssumption DEF Registers
    <2> QED BY <1>1, <1>3, <2>1
  <1>5. Entry = s + 1 /\ bus.sent = SubSeq(call.pulses, 1, s) BY <1>3 DEF Entry, Sending
  <1>6. /\ t \in Seq(Pulses) /\ t[k + 1] = "none" /\ call.op # "wait"
    BY <1>1, ServedCall
  <1>7. Kept => Kept' BY <1>3, <1>4 DEF Kept
  <1>8. Captured(kind) =>
          /\ m.cap = [en |-> Len(bus.answers) < Expected(call),
                      left |-> Expected(call) - Len(bus.answers), at |-> Len(bus.answers) + 1]
          /\ Kept
          /\ IF call.op = "reset" THEN bus.answers \in Answers("reset")
             ELSE Len(bus.answers) = Slot
    BY <1>3 DEF Storing
  <1>9. CASE m.rep > 0
    <2>1. m' = [m EXCEPT !.rep = @ - 1, !.stage = "edge"] BY <1>9 DEF HwEnd
    <2>2. /\ m' \in Registers /\ m'.rep = m.rep - 1 /\ m'.stage = "edge"
          /\ Agree(m, m', {"rep", "stage"})
      BY <1>1, <1>9, <2>1, RoundEffect
    <2>3. /\ m'.cen = m.cen /\ m'.arr = m.arr /\ m'.rcr = m.rcr /\ m'.pre = m.pre
          /\ m'.ccr3 = m.ccr3 /\ m'.oc3pe = m.oc3pe /\ m'.cc4e = m.cc4e /\ m'.dier = m.dier
          /\ m'.cap = m.cap /\ m'.feed = m.feed /\ m'.uif = m.uif /\ m'.pin = m.pin
      BY <2>2 DEF Agree
    <2>4. RegsTyped' BY <1>1, <1>3, <1>4, <2>2 DEF RegsTyped
    <2>5. Slot' = s + 1
      <3>1. Slot' = k - m'.rep BY <1>3 DEF Slot
      <3> HIDE DEF k, s
      <3> QED BY <1>2, <2>2, <3>1
    <2>6. s + 1 \in 1..k /\ (s + 1) - 1 = s BY <1>2, <1>9
    <2>7. Entry' = s + 1 BY <2>2, <2>5 DEF Entry
    <2>8. Serves(kind, call)' BY <1>3 DEF Serves
    <2>9. Loaded(kind)'
      <3>1. m'.rep <= m'.rcr
        <4>1. m.rep <= m.rcr /\ m.rcr \in Nat BY <1>1, ScaleAssumption DEF Loaded, Registers
        <4> QED BY <1>2, <2>2, <2>3, <4>1
      <3> QED BY <1>3, <2>3, <3>1 DEF Loaded
    <2>10. Sending' BY <1>3, <1>4, <1>5, <2>2, <2>5, <2>6 DEF Sending
    <2>11. Feeding(kind)'
      <3>1. CASE Preloaded(kind)
        <4>1. m.pre = "none" /\ m.ccr3 = call.pulses[s] BY <3>1 DEF Feeding
        <4>2. call.pulses[s] = call.pulses[s + 1] BY <1>2, <2>6, <3>1
        <4> QED BY <1>3, <2>3, <2>5, <3>1, <4>1, <4>2 DEF Feeding
      <3>2. CASE ~Preloaded(kind)
        <4>1. m.ccr3 = t[s + 1] /\ m.feed = SubSeq(t, (s + 1) + 1, k + 1)
          BY <1>5, <3>2 DEF Feeding
        <4>2. Table(call)' = t BY <1>3 DEF Table
        <4> QED BY <1>3, <2>2, <2>3, <2>7, <3>2, <4>1, <4>2 DEF Feeding
      <3> QED BY <3>1, <3>2
    <2>12. Storing(kind)'
      <3>1. CASE ~Captured(kind) BY <1>4, <3>1 DEF Storing
      <3>2. CASE Captured(kind)
        <4>1. call.op # "reset"
          <5> SUFFICES ASSUME call.op = "reset" PROVE FALSE OBVIOUS
          <5>1. k = 1 BY <1>2
          <5> HIDE DEF k, s
          <5> QED BY <1>2, <1>9, <5>1
        <4>2. Len(bus.answers) = s BY <1>8, <3>2, <4>1
        <4>3. Len(bus'.answers) = Slot' - 1 BY <1>4, <2>5, <2>6, <4>2
        <4>4. Expected(call)' = Expected(call) /\ call'.op = call.op BY <1>3 DEF Expected
        <4>5. m'.cap = [en |-> Len(bus'.answers) < Expected(call)',
                        left |-> Expected(call)' - Len(bus'.answers),
                        at |-> Len(bus'.answers) + 1]
          BY <1>4, <1>8, <2>3, <3>2, <4>4
        <4>6. Kept' BY <1>7, <1>8, <3>2
        <4> QED BY <2>2, <3>2, <4>1, <4>3, <4>4, <4>5, <4>6 DEF Storing
      <3> QED BY <3>1, <3>2
    <2>13. Sweeping' BY <2>8, <2>9, <2>10, <2>11, <2>12 DEF Sweeping
    <2>14. RegsInv' /\ UNCHANGED AbstractPort BY <1>3, <2>3, <2>4, <2>13, RunningStep
    <2> QED BY <2>14
  <1>10. CASE ~(m.rep > 0)
    <2>1. m' = [UpdateEvent(m) EXCEPT !.cen = FALSE] BY <1>10 DEF HwEnd
    <2>2. /\ m' \in Registers /\ m'.cen = FALSE /\ m'.uif = TRUE /\ m'.ccr3 = m.pre
          /\ Agree(m, m', {"cen", "uif", "ccr3", "rep"})
      BY <1>1, <2>1, StopEffect
    <2>3. m'.pre = m.pre /\ m'.cap = m.cap /\ m'.pin = m.pin BY <2>2 DEF Agree
    <2>4. RegsTyped' BY <1>1, <1>3, <1>4, <2>2 DEF RegsTyped
    <2>5. s = k BY <1>2, <1>10
    <2>6. m.pre = "none"
      <3>1. CASE Preloaded(kind) BY <3>1 DEF Feeding
      <3>2. CASE ~Preloaded(kind)
        <4>1. m.pre = m.ccr3 /\ m.ccr3 = t[s + 1] BY <1>3, <1>5, <3>2 DEF Feeding
        <4> QED BY <1>6, <2>5, <4>1
      <3> QED BY <3>1, <3>2
    <2>7. Released' BY <2>2, <2>3, <2>6 DEF Released
    <2>8. bus'.sent = call'.pulses
      <3>1. SubSeq(call.pulses, 1, k) = call.pulses BY <1>2, SubSeqFull
      <3> QED BY <1>3, <1>4, <1>5, <2>5, <3>1
    <2>9. Kept'
      <3>1. CASE Captured(kind) BY <1>7, <1>8, <3>1
      <3>2. CASE ~Captured(kind)
        <4>1. bus'.answers = <<>> BY <1>4, <3>2 DEF Storing
        <4>2. Len(bus'.answers) = 0 BY <4>1
        <4>3. MaxSlots \in Nat BY ScaleAssumption DEF MaxSlots
        <4>4. Len(bus'.answers) <= MaxSlots BY <4>2, <4>3
        <4>5. \A i \in 1..Len(bus'.answers) : FALSE BY <4>2
        <4> QED BY <4>4, <4>5 DEF Kept
      <3> QED BY <3>1, <3>2
    <2>10. call.op = "reset" =>
             bus'.answers \in Answers("reset") /\ m'.cap.left = Edges - Len(bus'.answers)
      <3> SUFFICES ASSUME call.op = "reset"
                   PROVE  bus'.answers \in Answers("reset") /\ m'.cap.left = Edges - Len(bus'.answers)
        OBVIOUS
      <3>1. Captured(kind) BY <1>2 DEF Captured
      <3>2. Expected(call) = Edges BY DEF Expected
      <3>3. bus.answers \in Answers("reset") /\ m.cap.left = Expected(call) - Len(bus.answers)
        BY <1>8, <3>1
      <3> QED BY <1>4, <2>3, <3>2, <3>3
    <2>11. Standing' BY <1>3, <1>6, <2>7, <2>8, <2>9, <2>10 DEF Standing
    <2> QED BY <1>3, <2>2, <2>3, <2>4, <2>11, StoppingStep
  <1> QED BY <1>9, <1>10

LEMMA HardwareStep ==
    ASSUME RegsInv, Hardware
    PROVE  RegsInv' /\ [Timer!Next]_AbstractPort
  <1>1. m.cen BY DEF Hardware, HwEdge, HwCompare, HwEnd, Running
  <1>2. Sweeping \/ WaitingOut BY <1>1 DEF RegsInv
  <1>3. CASE WaitingOut BY <1>1, <1>3, WaitingOutStep
  <1>4. CASE Sweeping
    <2>1. PICK kind \in Kinds :
            Serves(kind, call) /\ Loaded(kind) /\ Sending /\ Feeding(kind) /\ Storing(kind)
      BY <1>4 DEF Sweeping
    <2>2. CASE HwEdge BY <1>1, <2>1, <2>2, SweepEdge
    <2>3. CASE HwCompare BY <1>1, <2>1, <2>3, SweepCompare
    <2>4. CASE HwEnd BY <1>1, <2>1, <2>4, SweepEnd
    <2> QED BY <2>2, <2>3, <2>4 DEF Hardware
  <1> QED BY <1>2, <1>3, <1>4

-----------------------------------------------------------------------------
(***************************************************************************)
(* The invariant, and that every step is one of the timer of OwTimer.      *)
(***************************************************************************)
LEMMA RegsInit ==
    ASSUME Init
    PROVE  RegsInv /\ Timer!Init
  <1> DEFINE off == FALSE
             cap == [en |-> off, left |-> 0, at |-> 1]
             regs == [cen |-> off, arr |-> 1, rcr |-> 0, rep |-> 0, stage |-> "edge",
                      pre |-> "none", ccr3 |-> "none", oc3pe |-> off, cc4e |-> off,
                      dier |-> {}, uif |-> off, pend |-> off, evt |-> off, pin |-> "od",
                      cap |-> cap, feed |-> <<>>]
  <1>1. m = regs BY DEF Init
  <1>2. off \in BOOLEAN /\ off = FALSE OBVIOUS
  <1>3. 1 \in 1..MaxArr /\ 0 \in 0..(Periods - 1) BY ScaleAssumption
  <1>4. "none" \in Pulses /\ "od" \in Pins /\ "junk" \in Caught /\ "reset" \in Ops
    BY DEF Pulses, Pins, Caught, Ops
  <1> HIDE DEF off
  <1>5. cap \in [en : BOOLEAN, left : Nat, at : Nat] BY <1>2
  <1> HIDE DEF cap
  <1>6. <<>> \in Seq(Pulses) /\ <<>> \in Seq(Caught) OBVIOUS
  <1>7. regs \in Registers BY <1>2, <1>3, <1>4, <1>5, <1>6 DEF Registers
  <1>8. /\ regs.cen = off /\ regs.pre = "none" /\ regs.ccr3 = "none" /\ regs.uif = off
        /\ regs.pin = "od"
    OBVIOUS
  <1> HIDE DEF regs
  <1>9. /\ m \in Registers /\ m.cen = FALSE /\ m.pre = "none" /\ m.ccr3 = "none"
        /\ m.uif = FALSE /\ m.pin = "od"
    BY <1>1, <1>2, <1>7, <1>8
  <1>10. /\ cpu = [pc |-> cpu.pc, prog |-> cpu.prog] /\ cpu.pc = "free" /\ cpu.prog = <<>>
    BY DEF Init
  <1>11. /\ call \in CallType /\ call.op = "reset" /\ call.us = 0 /\ call.pulses = <<>>
    <2>1. call = [op |-> "reset", us |-> 0, pulses |-> <<>>, owed |-> off] BY DEF Init, off
    <2> QED BY <1>2, <1>4, <1>6, <2>1 DEF CallType
  <1>12. /\ bus \in [sent : Seq(Pulses), answers : Seq(Caught), time : Nat]
         /\ bus.sent = <<>> /\ bus.answers = <<>>
    BY <1>6 DEF Init
  <1>13. buf \in [1..MaxSlots -> Caught] BY <1>4 DEF Init
  <1>14. port \in PortType(Nat)
    <2>1. port = [op |-> "idle", us |-> 0, uif |-> off, pin |-> "od"] BY DEF Init, PortInit, off
    <2> QED BY <1>2, <1>4, <2>1 DEF PortType
  <1>15. RegsTyped BY <1>9, <1>10, <1>11, <1>12, <1>13, <1>14 DEF RegsTyped
  <1>16. ~Executing BY <1>10 DEF Executing
  <1>17. Standing
    <2>1. Released BY <1>9 DEF Released
    <2>2. Kept
      <3>1. Len(bus.answers) = 0 BY <1>12
      <3>2. MaxSlots \in Nat BY ScaleAssumption DEF MaxSlots
      <3>3. Len(bus.answers) <= MaxSlots BY <3>1, <3>2
      <3>4. \A i \in 1..Len(bus.answers) : FALSE BY <3>1
      <3> QED BY <3>3, <3>4 DEF Kept
    <2> QED BY <1>11, <1>12, <2>1, <2>2 DEF Standing
  <1>18. RegsInv BY <1>9, <1>15, <1>16, <1>17 DEF RegsInv
  <1>19. Timer!Init
    <2>1. AbstractPort = [op |-> "idle", us |-> 0, uif |-> off, pin |-> "od"]
      BY <1>2, <1>9, <1>11, <1>16 DEF AbstractPort
    <2> QED BY <2>1 DEF Timer!Init, Timer!PortInit, off
  <1> QED BY <1>18, <1>19

\* An idle step.
LEMMA RegsStutter ==
    ASSUME RegsInv, UNCHANGED vars
    PROVE  RegsInv' /\ UNCHANGED AbstractPort
  <1>1. UNCHANGED <<m, cpu, call, bus, buf, port>> BY DEF vars
  <1>2. AbstractPort' = AbstractPort BY <1>1 DEF AbstractPort, Executing
  <1>3. Executing' = Executing BY <1>1 DEF Executing
  <1>4. RegsTyped' BY <1>1 DEF RegsInv, RegsTyped
  <1>5. CASE Executing
    <2>1. ~m.cen /\ port.op = "idle" /\ port.pin = m.pin /\ (Starting \/ StartingWait \/ Signalling)
      BY <1>5 DEF RegsInv
    <2>2. Starting => Starting'
      <3> SUFFICES ASSUME Starting PROVE Starting' OBVIOUS
      <3> PICK kind \in Kinds : \E n \in 0..(Size(kind) - 1) :
               /\ Serves(kind, call)
               /\ cpu.prog = Rest(Program(kind, call), n)
               /\ SetupDone(kind, n) /\ LaunchDone(kind, n)
        BY DEF Starting
      <3>1. PICK n \in 0..(Size(kind) - 1) :
               /\ Serves(kind, call)
               /\ cpu.prog = Rest(Program(kind, call), n)
               /\ SetupDone(kind, n) /\ LaunchDone(kind, n)
        OBVIOUS
      <3>2. NothingYet' /\ port'.us = call'.us BY <1>1 DEF Starting, NothingYet
      <3>3. Serves(kind, call)' BY <1>1, <3>1 DEF Serves
      <3>4. cpu'.prog = Rest(Program(kind, call'), n) BY <1>1, <3>1
      <3>5. SetupDone(kind, n)' BY <1>1, <3>1 DEF SetupDone, Period
      <3>6. LaunchDone(kind, n)' BY <1>1, <3>1 DEF LaunchDone, ArmedCapture, Expected, Table
      <3> QED BY <3>2, <3>3, <3>4, <3>5, <3>6 DEF Starting
    <2>3. StartingWait => StartingWait' BY <1>1 DEF StartingWait, NothingYet, Waiting, Released
    <2>4. Signalling => Signalling'
      <3>1. Standing => Standing' BY <1>1, StandingKept DEF Standing, Released
      <3> QED BY <1>1, <3>1 DEF Signalling
    <2> QED BY <1>1, <1>2, <1>3, <1>4, <1>5, <2>1, <2>2, <2>3, <2>4 DEF RegsInv
  <1>6. CASE ~Executing /\ m.cen
    <2>1. call.owed /\ ~m.uif /\ (Sweeping \/ WaitingOut) BY <1>6 DEF RegsInv
    <2>2. Sweeping' \/ WaitingOut'
      <3>1. Agree(m, m', {}) BY <1>1 DEF Agree
      <3> QED BY <1>1, <2>1, <3>1, RunningKept
    <2> QED BY <1>1, <1>2, <1>3, <1>4, <1>6, <2>1, <2>2 DEF RegsInv
  <1>7. CASE ~Executing /\ ~m.cen
    <2>1. Standing BY <1>7 DEF RegsInv
    <2>2. Standing' BY <1>1, <2>1, StandingKept DEF Standing, Released
    <2> QED BY <1>1, <1>2, <1>3, <1>4, <1>7, <2>2 DEF RegsInv
  <1> QED BY <1>5, <1>6, <1>7

LEMMA RegsStep ==
    ASSUME RegsInv, [Next]_vars
    PROVE  RegsInv' /\ [Timer!Next]_AbstractPort
  <1>1. CASE Calls
    <2>1. RegsInv' /\ UNCHANGED AbstractPort
      BY <1>1, CallResetStep, CallWriteStep, CallReadStep, CallSearchSlotsStep, CallWaitStep,
         CallStrongPullupStep, CallKickStep DEF Calls
    <2> QED BY <2>1
  <1>2. CASE Execute BY <1>2, ExecuteStep
  <1>3. CASE OpDone BY <1>3, OpDoneStep
  <1>4. CASE Hardware BY <1>4, HardwareStep
  <1>5. CASE UNCHANGED vars
    <2>1. RegsInv' /\ UNCHANGED AbstractPort BY <1>5, RegsStutter
    <2> QED BY <2>1
  <1> QED BY <1>1, <1>2, <1>3, <1>4, <1>5 DEF Next

\* The registers, the program under execution and the history of the bus fit
\* together in every reachable state.
THEOREM RegsSafe == Spec => []RegsInv
  <1>1. Init => RegsInv BY RegsInit
  <1>2. RegsInv /\ [Next]_vars => RegsInv' BY RegsStep
  <1> QED BY <1>1, <1>2, PTL DEF Spec

\* Every step of the registers is a step of the timer the engines are written
\* against, or none of its steps: an operation runs to its end and ends once, and
\* no forced update event is taken for an end.
THEOREM RegsRefineTimer == Spec => Timer!Init /\ [][Timer!Next]_AbstractPort
  <1>1. Init => Timer!Init BY RegsInit
  <1>2. RegsInv /\ [Next]_vars => [Timer!Next]_AbstractPort BY RegsStep
  <1> QED BY <1>1, <1>2, RegsSafe, PTL DEF Spec

-----------------------------------------------------------------------------
(***************************************************************************)
(* What OwRegsProps asks of the programs.                                  *)
(***************************************************************************)
\* What was sent is the beginning of what was asked for.
LEMMA SentIsPrefix ==
    ASSUME NEW t \in Seq(Pulses), NEW j \in 0..Len(t), NEW s, s = SubSeq(t, 1, j)
    PROVE  IsPrefix(s, t)
  <1> DEFINE k == Len(t)
  <1>1. k \in Nat /\ j \in 0..k /\ j \in Nat BY LenProperties
  <1>2. \A i \in 1..k : t[i] \in Pulses BY ElementOfSeq
  <1> HIDE DEF k
  <1>3. \A i \in 1..j : t[i] \in Pulses BY <1>1, <1>2
  <1>4. s \in Seq(Pulses) /\ Len(s) = j BY <1>1, <1>3, SubSeqProperties
  <1>5. SubSeq(s, 1, Len(s)) = s BY <1>4, SubSeqFull
  <1> QED BY <1>1, <1>4, <1>5 DEF IsPrefix, k

\* On the line: the pulses asked for, once each and in order, all of them when the
\* timer stops, and the released line then and through a timed wait.
THEOREM PulsesSentAsAsked == Spec => []PulsesAsAsked
  <1>1. ASSUME RegsInv PROVE PulsesAsAsked
    <2> DEFINE t == call.pulses
    <2>1. RegsTyped /\ call \in CallType /\ t \in Seq(Pulses) /\ Len(t) \in Nat
      BY <1>1 DEF RegsInv, RegsTyped, CallType
    <2>2. bus.sent = <<>> => IsPrefix(bus.sent, t)
      <3>1. 0 \in 0..Len(t) /\ SubSeq(t, 1, 0) = <<>> BY <2>1, SubSeqEmpty
      <3> QED BY <2>1, <3>1, SentIsPrefix
    <2>3. bus.sent = t => IsPrefix(bus.sent, t)
      <3>1. Len(t) \in 0..Len(t) /\ SubSeq(t, 1, Len(t)) = t BY <2>1, SubSeqFull
      <3> QED BY <2>1, <3>1, SentIsPrefix
    <2>4. CASE Executing
      <3>1. ~m.cen /\ (Starting \/ StartingWait \/ Signalling) BY <1>1, <2>4 DEF RegsInv
      <3>2. bus.sent = <<>> \/ bus.sent = t
        BY <3>1 DEF Starting, StartingWait, Signalling, NothingYet, Standing
      <3> QED BY <2>2, <2>3, <2>4, <3>1, <3>2 DEF PulsesAsAsked, Stopped
    <2>5. CASE ~Executing /\ m.cen
      <3>1. CASE WaitingOut
        <4>1. bus.sent = <<>> /\ m.ccr3 = "none" BY <3>1 DEF WaitingOut, Released
        <4> QED BY <2>2, <2>5, <4>1 DEF PulsesAsAsked, Stopped
      <3>2. CASE Sweeping
        <4>1. PICK kind \in Kinds : Serves(kind, call) /\ Loaded(kind) /\ Sending
          BY <3>2 DEF Sweeping
        <4>2. Slot \in 1..Len(t) /\ call.op # "wait" BY <2>1, <4>1, SweepFacts, ServedCall
        <4> DEFINE j == IF m.stage = "edge" THEN Slot - 1 ELSE Slot
        <4>3. j \in 0..Len(t) BY <2>1, <4>2
        <4>4. bus.sent = SubSeq(t, 1, j) BY <4>1 DEF Sending
        <4> HIDE DEF j
        <4>5. IsPrefix(bus.sent, t) BY <2>1, <4>3, <4>4, SentIsPrefix
        <4> QED BY <2>5, <4>2, <4>5 DEF PulsesAsAsked, Stopped
      <3> QED BY <1>1, <2>5, <3>1, <3>2 DEF RegsInv
    <2>6. CASE ~Executing /\ ~m.cen
      <3>1. bus.sent = t /\ m.ccr3 = "none" BY <1>1, <2>6 DEF RegsInv, Standing, Released
      <3> QED BY <2>3, <2>6, <3>1 DEF PulsesAsAsked, Stopped
    <2> QED BY <2>4, <2>5, <2>6
  <1> QED BY <1>1, RegsSafe, PTL

\* Every edge of a capture operation is in the buffer when the timer stops, and the
\* presence verdict of a reset is that reset's.
THEOREM CapturesAreComplete == Spec => []CapturesComplete
  <1>1. ASSUME RegsInv PROVE CapturesComplete
    <2> SUFFICES ASSUME Stopped
                 PROVE  /\ SubSeq(buf, 1, Len(bus.answers)) = bus.answers
                        /\ call.op = "reset" /\ bus.sent # <<>> =>
                             Present = ("presence" \in {bus.answers[i] : i \in DOMAIN bus.answers})
      BY DEF CapturesComplete
    <2> DEFINE a == bus.answers
    <2>1. /\ Standing /\ m \in Registers /\ buf \in [1..MaxSlots -> Caught] /\ a \in Seq(Caught)
      BY <1>1 DEF RegsInv, RegsTyped, Stopped
    <2>2. Len(a) <= MaxSlots /\ \A i \in 1..Len(a) : buf[i] = a[i] BY <2>1 DEF Standing, Kept
    <2>3. Len(a) \in Nat /\ MaxSlots \in Nat /\ MaxSlots >= 3
      BY <2>1, LenProperties, ScaleAssumption DEF MaxSlots
    <2>4. SubSeq(buf, 1, Len(a)) = a
      <3> DEFINE b == SubSeq(buf, 1, Len(a))
                 l == Len(a)
      <3>1. \A i \in 1..l : buf[i] \in Caught
        <4> HIDE DEF l
        <4> QED BY <2>1, <2>2, <2>3 DEF l
      <3>2. b \in Seq(Caught) /\ Len(b) = l /\ \A i \in 1..l : b[i] = buf[i]
        <4>1. l \in Int /\ 1 \in Int BY <2>3
        <4>2. /\ b \in Seq(Caught)
              /\ Len(b) = IF 1 <= l THEN l - 1 + 1 ELSE 0
              /\ \A i \in 1..(l - 1 + 1) : b[i] = buf[1 + i - 1]
          BY <3>1, <4>1, SubSeqProperties
        <4> HIDE DEF b, l
        <4>3. l \in Nat BY <2>3 DEF l
        <4> QED BY <4>2, <4>3
      <3>3. \A i \in 1..l : b[i] = a[i] BY <2>2, <3>2
      <3> HIDE DEF a, b
      <3>4. b = a BY <2>1, <3>2, <3>3, SeqEqual DEF l
      <3> QED BY <3>4 DEF b
    <2>5. ASSUME call.op = "reset", bus.sent # <<>>
          PROVE  Present = ("presence" \in {a[i] : i \in DOMAIN a})
      <3>1. a \in Answers("reset") /\ m.cap.left = Edges - Len(a) BY <2>1, <2>5 DEF Standing
      <3>2. a = <<"release">> \/ a = <<"release", "presence">> BY <3>1 DEF Answers
      <3>3. CASE a = <<"release">>
        <4>1. Len(a) = 1 /\ DOMAIN a = 1..1 /\ a[1] = "release" BY <3>3
        <4>2. m.cap.left = 1 BY <3>1, <4>1 DEF Edges
        <4>3. ResetCaptured = 1 BY <4>2 DEF ResetCaptured, Edges
        <4>4. Present = FALSE BY <4>3 DEF Present, Edges
        <4>5. ("presence" \in {a[i] : i \in DOMAIN a}) = FALSE BY <4>1
        <4> QED BY <4>4, <4>5
      <3>4. CASE a = <<"release", "presence">>
        <4>1. Len(a) = 2 /\ DOMAIN a = 1..2 /\ a[1] = "release" /\ a[2] = "presence" BY <3>4
        <4>2. m.cap.left = 0 BY <3>1, <4>1 DEF Edges
        <4>3. ResetCaptured = Edges BY <4>2 DEF ResetCaptured, Edges
        <4>4. buf[1] = "release" /\ buf[2] = "presence" BY <2>2, <4>1
        <4>5. Present = TRUE BY <4>3, <4>4 DEF Present
        <4>6. 2 \in DOMAIN a /\ a[2] = "presence" BY <4>1
        <4>7. ("presence" \in {a[i] : i \in DOMAIN a}) = TRUE BY <4>6
        <4> QED BY <4>5, <4>7
      <3> QED BY <3>2, <3>3, <3>4
    <2> QED BY <2>4, <2>5
  <1> QED BY <1>1, RegsSafe, PTL

\* A timed wait covers what was asked for, as far as the timer reaches, by less
\* than a tick per period too much.
THEOREM WaitsCover == Spec => []WaitCovers
  <1>1. ASSUME RegsInv PROVE WaitCovers
    <2> DEFINE us == call.us
               p == PlanWait(us)
    <2>1. m \in Registers /\ call \in CallType BY <1>1 DEF RegsInv, RegsTyped
    <2>2. m.arr \in 1..MaxArr /\ m.rcr \in 0..(Periods - 1) BY <2>1 DEF Registers
    <2>3. ASSUME Stopped, call.op = "wait"
          PROVE  /\ bus.time >= IF us > Periods * MaxArr THEN Periods * MaxArr ELSE us
                 /\ us > 0 => bus.time < us + m.rcr + 1
      <3>1. Standing BY <1>1, <2>3 DEF RegsInv, Stopped
      <3>2. m.arr = p.arr /\ m.rcr + 1 = p.n /\ bus.time = (m.rcr + 1) * m.arr
        BY <2>3, <3>1 DEF Standing, Planned
      <3>3. us \in Nat BY <2>1 DEF CallType
      <3>4. /\ p.n \in 1..Periods /\ p.arr \in 1..MaxArr
            /\ us <= Periods * MaxArr => p.n * p.arr >= us
            /\ us > Periods * MaxArr => p.n * p.arr = Periods * MaxArr
            /\ us > 0 => p.n * p.arr < us + p.n
        BY <3>3, PlanCovers
      <3>5. bus.time = p.n * p.arr BY <3>2
      <3> DEFINE reach == Periods * MaxArr
                 time == p.n * p.arr
                 n == p.n
      <3>6. reach \in Nat /\ time \in Nat /\ n \in Nat /\ m.rcr \in Nat /\ n = m.rcr + 1
        BY <2>2, <3>2, <3>4, ScaleAssumption
      <3>7. /\ us <= reach => time >= us
            /\ us > reach => time = reach
            /\ us > 0 => time < us + n
        BY <3>4
      <3> HIDE DEF reach, time, n, us
      <3>8. /\ time >= IF us > reach THEN reach ELSE us
            /\ us > 0 => time < us + m.rcr + 1
        BY <3>3, <3>6, <3>7
      <3> QED BY <3>5, <3>8 DEF reach, time, us
    <2> QED BY <2>2, <2>3 DEF WaitCovers
  <1> QED BY <1>1, RegsSafe, PTL

=============================================================================
