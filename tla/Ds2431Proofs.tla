---------------------------- MODULE Ds2431Proofs ----------------------------
(***************************************************************************)
(* Theorems about the DS2431 driver: for any devices, blocks and payloads, *)
(* any scenarios, and with the 8_ds2431 example or the free application    *)
(* as its caller.                                                          *)
(***************************************************************************)
EXTENDS Ds2431Props, Demo2431, FiniteSetTheorems, TLAPS

Quiet == {"IDLE", "DONE"}

\* The devices the driver addresses, and those whose scratchpad may be copied:
\* it holds the last write, all of it - or the device will refuse.
Addressed   == {d \in Devices : Selected = NoRom \/ d = Selected}
HoldsWrite(d) ==
    \/ dev[d].sp.pf
    \/ dev[d].sp.ta = asked.wta /\ dev[d].sp.data = asked.wdata /\ asked.wlen = 8
HasBlock(d) == dev[d].eeprom[asked.wta] = asked.wdata

(***************************************************************************)
(* Whoever calls: the engine and the timer go together, a command is on    *)
(* the wire while its phases last, and devices program in the window of a  *)
(* copy only.                                                              *)
(***************************************************************************)
EngineInv ==
    /\ search => ctx.phase \in Quiet
    /\ TimerServesPhase
    /\ PendingBelongsToSelected
    /\ ctx.phase \in {"CMD", "WAIT", "READ"} => wire.cmd = ctx.cmd
    /\ ctx.phase = "WAIT" => ctx.cmd = "copy_scratchpad"
    /\ ctx.phase \notin Quiet => ~ctx.ok

DevicesInv ==
    \A d \in Devices :
        /\ ~dev[d].present => dev[d].sp.pf
        /\ ~dev[d].sp.pf => dev[d].sp.es = 7
        /\ dev[d].prog =>
              /\ ctx.cmd = "copy_scratchpad"
              /\ \/ ctx.phase = "CMD" /\ port.op = "idle"
                 \/ ctx.phase = "WAIT" /\ port.op = "wait"

(***************************************************************************)
(* A careful application: what it has declared, and what the driver keeps  *)
(* of its last call while the operation runs.                              *)
(***************************************************************************)
CallInv ==
    /\ ~ctx.finished => ctx.par = (Parasitic # {})
    /\ port.pin = IF ctx.phase \in {"CMD", "WAIT"} /\ ctx.par THEN "pp" ELSE "od"
    /\ app.cycle # "none" =>
          /\ ctx.pending /\ ctx.ta = asked.wta /\ ctx.data = asked.wdata
          /\ ctx.es = asked.wlen - 1
    /\ app.cycle = "verified" /\ ~ctx.finished => ctx.cmd = "read_scratchpad"
    /\ ~ctx.finished /\ ctx.cmd = "read_scratchpad" => ctx.echo /\ ctx.len = FrameLen
    /\ ~ctx.finished /\ ctx.cmd \in {"read_memory", "copy_scratchpad"} => ctx.ta = asked.ta
    /\ ~ctx.finished /\ ctx.cmd = "copy_scratchpad" => ctx.ta = asked.wta
    /\ ctx.phase \in {"CMD", "WAIT", "READ"} \/ (~ctx.finished /\ ctx.ok) =>
          wire.rom = Selected /\ wire.ta = ctx.ta

(***************************************************************************)
(* What has been verified: from the echo to the copy every device that is  *)
(* addressed holds the last write or refuses.                              *)
(***************************************************************************)
Verified ==
    \/ app.cycle = "verified"
    \/ ~ctx.finished /\ ctx.cmd = "copy_scratchpad" /\ ctx.phase \in {"RESET", "CMD", "WAIT"}
    \/ ~ctx.finished /\ ctx.cmd = "read_scratchpad" /\ ctx.phase = "DONE" /\ ctx.ok
          /\ app.cycle = "written"

EchoInv ==
    /\ Verified => \A d \in Addressed : HoldsWrite(d)
    /\ \A d \in Devices : dev[d].prog => d \in Addressed /\ ~dev[d].sp.pf
    /\ ctx.cmd = "read_scratchpad"
          /\ ((ctx.phase = "CMD" /\ port.op = "idle") \/ ctx.phase = "READ") =>
              \A d \in Addressed : d \in line.heard \/ dev[d].sp.pf
    /\ ctx.cmd = "read_scratchpad" /\ ctx.phase = "READ" /\ port.op = "idle"
          /\ line.raw.kind = "frame" =>
              \A d \in Addressed :
                  \/ dev[d].sp.pf
                  \/ dev[d].sp.ta = line.raw.ta /\ dev[d].sp.es = line.raw.es
                     /\ dev[d].sp.data = line.raw.data

(***************************************************************************)
(* What is reported: a status comes from a device that programmed the      *)
(* block, data from the block asked for - or, where noise may change the   *)
(* address on its way, from any (BlocksRead).                              *)
(***************************************************************************)
AfterReset == (ctx.phase = "RESET" /\ port.op = "idle") \/ ctx.phase \in {"CMD", "WAIT", "READ"}
Reported   == ~ctx.finished /\ ctx.phase = "DONE" /\ ctx.ok

ReplyInv ==
    /\ AfterReset /\ (ctx.phase = "READ" => port.op = "read") => line.raw = BadRaw
    /\ AfterReset => \A d \in Devices : dev[d].done =>
          ctx.phase \in {"WAIT", "READ"} /\ d \in Addressed /\ HasBlock(d)
    /\ ctx.cmd = "copy_scratchpad"
          /\ ((ctx.phase = "READ" /\ line.raw.kind = "status") \/ Reported) =>
              \E d \in Addressed : HasBlock(d)
    /\ ctx.cmd = "read_memory" /\ (ctx.phase = "READ" \/ Reported) =>
          \/ line.raw.data \in {"garbled", "ones"}
          \/ \E d \in Devices, b \in BlocksRead : line.raw.data = dev[d].eeprom[b]

CarefulInv == app.scene.careful => CallInv /\ EchoInv /\ ReplyInv

DriverInv == TypeOK2431 /\ EngineInv /\ DevicesInv /\ CarefulInv
-----------------------------------------------------------------------------
(***************************************************************************)
(* Types.                                                                  *)
(***************************************************************************)
\* The values every reset leaves have the types of what follows.
LEMMA ConstantTypes ==
    /\ AnyBlock \in Blocks /\ NoRom \in Roms /\ "ones" \in Contents /\ "garbled" \in Contents
    /\ BadRaw \in RawType /\ CtxInit \in CtxType2431 /\ PortInit \in PortType({0, TProg})
    /\ NoScratch \in [ta : Blocks, es : 0..7, pf : BOOLEAN, data : Contents] /\ NoScratch.pf
    /\ NoWire \in [cmd : Commands \cup {"none"}, rom : Roms, ta : Blocks, es : 0..7, plen : 0..8,
                   data : Contents]
    /\ HoldOff = TProg /\ FrameLen = 13
  <1>1. AnyBlock \in Blocks BY BlocksAssumption DEF AnyBlock
  <1>2. NoRom \in Roms /\ "ones" \in Contents /\ "garbled" \in Contents BY DEF Roms, Contents
  <1>3. BadRaw \in RawType BY <1>1, <1>2 DEF BadRaw, Raw, RawType
  <1>4. CtxInit \in CtxType2431 BY <1>1, <1>2 DEF CtxInit, CtxType2431, Phases2431, FrameLen
  <1>5. PortInit \in PortType({0, TProg}) BY DEF PortInit, PortType, Pins
  <1>6. NoScratch \in [ta : Blocks, es : 0..7, pf : BOOLEAN, data : Contents] /\ NoScratch.pf
    BY <1>1, <1>2 DEF NoScratch
  <1>7. NoWire \in [cmd : Commands \cup {"none"}, rom : Roms, ta : Blocks, es : 0..7, plen : 0..8,
                    data : Contents]
    BY <1>1, <1>2 DEF NoWire
  <1> QED BY <1>1, <1>2, <1>3, <1>4, <1>5, <1>6, <1>7 DEF HoldOff, FrameLen

\* The calls of OwPort keep the port well-formed; what each of them leaves.
LEMMA PortCalls ==
    ASSUME NEW p \in PortType({0, TProg})
    PROVE  /\ \A o \in Ops : /\ Arm(p, o) \in PortType({0, TProg})
                             /\ Arm(p, o).op = o /\ ~Arm(p, o).uif /\ Arm(p, o).pin = p.pin
           /\ /\ ArmWait(p, HoldOff) \in PortType({0, TProg})
              /\ ArmWait(p, HoldOff).op = "wait" /\ ~ArmWait(p, HoldOff).uif
              /\ ArmWait(p, HoldOff).pin = p.pin
           /\ /\ BusDone(p) \in PortType({0, TProg})
              /\ BusDone(p).op = p.op /\ ~BusDone(p).uif /\ BusDone(p).pin = p.pin
           /\ /\ HwDone(p) \in PortType({0, TProg})
              /\ HwDone(p).op = "idle" /\ HwDone(p).uif /\ HwDone(p).pin = p.pin
           /\ \A on \in BOOLEAN :
                 /\ StrongPullup(p, on) \in PortType({0, TProg})
                 /\ StrongPullup(p, on).op = p.op
                 /\ StrongPullup(p, on).pin = IF on THEN "pp" ELSE "od"
                 /\ ~on => StrongPullup(p, on).uif = p.uif
  BY DEF PortType, Arm, ArmWait, BusDone, HwDone, StrongPullup, HoldOff, Ops, Pins

LEMMA PullupIfCalls ==
    ASSUME NEW p \in PortType({0, TProg}), NEW on \in BOOLEAN, ctx \in CtxType2431
    PROVE  /\ PullupIf(p, on) \in PortType({0, TProg}) /\ PullupIf(p, on).op = p.op
           /\ PullupIf(p, on).pin = IF ctx.par THEN (IF on THEN "pp" ELSE "od") ELSE p.pin
           /\ ~on => PullupIf(p, on).uif = p.uif
  <1>1. CASE ctx.par BY <1>1, PortCalls DEF PullupIf
  <1>2. CASE ~ctx.par BY <1>2 DEF PullupIf
  <1> QED BY <1>1, <1>2

\* A call that is accepted, or is not.
LEMMA SelectedType == ctx \in CtxType2431 => Selected \in Roms
  BY DEF Selected, CtxType2431, Roms

LEMMA StartedType ==
    ASSUME NEW c \in CtxType2431, NEW cmd \in Commands
    PROVE  LET t == Started(c, cmd) IN
           /\ t \in CtxType2431 /\ t.cmd = cmd /\ ~t.ok /\ ~t.finished /\ ~t.echo /\ t.phase = "RESET"
           /\ t.addr = c.addr /\ t.par = c.par /\ t.pending = c.pending /\ t.ta = c.ta
           /\ t.len = c.len /\ t.plen = c.plen /\ t.es = c.es /\ t.data = c.data /\ t.rom = c.rom
  BY DEF Started, CtxType2431, Phases2431

\* What a command leaves in a device that hears it.
LEMMA HeardType ==
    ASSUME NEW x \in DeviceType2431, TypeOK2431, NEW y \in Heard(x)
    PROVE  /\ y \in DeviceType2431
           /\ y.present = x.present /\ y.done = x.done /\ y.eeprom = x.eeprom
           /\ wire.cmd # "write_scratchpad" => y.sp = x.sp
           /\ wire.cmd # "copy_scratchpad" => y.prog = x.prog
           /\ wire.cmd = "copy_scratchpad" =>
                 y.prog = x.prog \/ y.prog = Authorized(x.sp)
           /\ (x.sp.pf \/ x.sp.es = 7) => (y.sp.pf \/ y.sp.es = 7)
  <1>1. wire \in [cmd : Commands \cup {"none"}, rom : Roms, ta : Blocks, es : 0..7, plen : 0..8,
                  data : Contents]
    BY DEF TypeOK2431
  <1>2. \A b \in Blocks, v \in Contents :
            /\ Scratch(b, wire.plen, v) \in [ta : Blocks, es : 0..7, pf : BOOLEAN, data : Contents]
            /\ Scratch(b, wire.plen, v).pf \/ Scratch(b, wire.plen, v).es = 7
    <2>1. \A n \in 0..8 : (n + 7) % 8 \in 0..7 /\ (n = 8 => (n + 7) % 8 = 7) OBVIOUS
    <2> QED BY <1>1, <2>1 DEF Scratch
  <1>3. "garbled" \in Contents BY ConstantTypes
  <1>4. CASE wire.cmd = "write_scratchpad"
    <2>1. \/ y = x
          \/ \E b \in Blocks, v \in Contents : y = [x EXCEPT !.sp = Scratch(b, wire.plen, v)]
      BY <1>1, <1>3, <1>4 DEF Heard
    <2>2. CASE y = x BY <1>4, <2>2
    <2>3. ASSUME NEW b \in Blocks, NEW v \in Contents, y = [x EXCEPT !.sp = Scratch(b, wire.plen, v)]
          PROVE  /\ y \in DeviceType2431 /\ y.present = x.present /\ y.done = x.done
                 /\ y.eeprom = x.eeprom /\ y.prog = x.prog /\ (y.sp.pf \/ y.sp.es = 7)
      BY <1>2, <2>3 DEF DeviceType2431
    <2> QED BY <1>4, <2>1, <2>2, <2>3
  <1>5. CASE wire.cmd = "copy_scratchpad"
    <2>1. y = x \/ y = [x EXCEPT !.prog = Authorized(x.sp)] BY <1>5 DEF Heard
    <2>2. Authorized(x.sp) \in BOOLEAN BY DEF Authorized
    <2> HIDE DEF Authorized
    <2> QED BY <1>5, <2>1, <2>2 DEF DeviceType2431
  <1>6. CASE wire.cmd \notin {"write_scratchpad", "copy_scratchpad"}
    <2>1. y = x BY <1>6 DEF Heard
    <2> QED BY <1>6, <2>1
  <1> QED BY <1>4, <1>5, <1>6

LEMMA RepliesType ==
    ASSUME TypeOK2431, NEW r \in Replies \cup NoisyReplies
    PROVE  r \in RawType
  <1>1. BadRaw \in RawType /\ [BadRaw EXCEPT !.data = "garbled"] \in RawType
    BY ConstantTypes DEF RawType
  <1>2. ASSUME NEW d \in Devices PROVE Reply(d) \in RawType
    <2>1. dev[d] \in DeviceType2431 /\ wire.ta \in Blocks BY DEF TypeOK2431
    <2> QED BY <1>1, <2>1, ConstantTypes DEF Reply, Raw, RawType, DeviceType2431
  <1>3. ASSUME NEW d \in Devices, NEW b \in Blocks
        PROVE  Raw("data", b, 7, FALSE, dev[d].eeprom[b]) \in RawType
    BY <1>3, ConstantTypes DEF TypeOK2431, DeviceType2431, Raw, RawType
  <1>4. Answering \subseteq Devices BY DEF Answering, TypeOK2431
  <1>5. \/ r \in {[BadRaw EXCEPT !.data = "garbled"], BadRaw}
        \/ r \in {Reply(d) : d \in Answering}
        \/ \E d \in Answering, b \in Blocks : r = Raw("data", b, 7, FALSE, dev[d].eeprom[b])
    <2>1. CASE r \in Replies BY <2>1 DEF Replies
    <2>2. CASE r \in NoisyReplies BY <2>2 DEF NoisyReplies
    <2> QED BY <2>1, <2>2
  <1> QED BY <1>1, <1>2, <1>3, <1>4, <1>5

-----------------------------------------------------------------------------
(***************************************************************************)
(* The API calls: accepted, or ignored but for ta, len, plen and echo.     *)
(***************************************************************************)
Accepted ==
    /\ CanStart
    /\ ctx'.phase = "RESET" /\ ~ctx'.ok /\ ~ctx'.finished /\ ctx'.cmd \in Commands
    /\ ctx'.addr = ctx.addr /\ ctx'.rom = ctx.rom /\ ctx'.par = ctx.par
    /\ \/ ctx'.pending = ctx.pending /\ asked'.wrom = asked.wrom
       \/ asked'.wrom = Selected
    /\ port' = ResetPort(port)

Ignored ==
    /\ ~CanStart
    /\ ctx'.phase = ctx.phase /\ ctx'.ok = ctx.ok /\ ctx'.finished = ctx.finished
    /\ ctx'.cmd = ctx.cmd /\ ctx'.addr = ctx.addr /\ ctx'.rom = ctx.rom /\ ctx'.par = ctx.par
    /\ ctx'.pending = ctx.pending
    /\ UNCHANGED <<port, asked>>

Calls ==
    \/ \E b \in Blocks : ReadMemory(b)
    \/ \E b \in Blocks, n \in 1..8, v \in Contents : WriteScratchpad(b, n, v)
    \/ ReadScratchpad
    \/ CopyScratchpad

AskedType ==
    [cmd : Commands \cup {"none"}, ta : Blocks, len : {0, 1, 8, FrameLen},
     wta : Blocks, wlen : 0..8, wdata : Contents, wrom : Roms]

LEMMA ResetPortType ==
    ASSUME port \in PortType({0, TProg})
    PROVE  /\ ResetPort(port) \in PortType({0, TProg}) /\ ResetPort(port).op = "reset"
           /\ ~ResetPort(port).uif /\ ResetPort(port).pin = "od"
  BY DEF ResetPort, Arm, StrongPullup, PortType, Ops, Pins

\* ds2431_start() with well-formed contexts.
LEMMA StartTypes ==
    ASSUME TypeOK2431, NEW acc \in CtxType2431, NEW rej \in CtxType2431, NEW asks \in AskedType,
           Start(acc, rej, asks)
    PROVE  /\ ctx' \in CtxType2431 /\ port' \in PortType({0, TProg}) /\ asked' \in AskedType
           /\ \/ CanStart /\ ctx' = acc /\ port' = ResetPort(port) /\ asked' = asks
              \/ ~CanStart /\ ctx' = rej /\ UNCHANGED <<port, asked>>
  BY ResetPortType DEF TypeOK2431, AskedType, Start

LEMMA SceneWrites ==
    ASSUME TypeOK2431, NEW w \in app.scene.writes
    PROVE  w[1] \in Blocks /\ w[2] \in 1..8
  BY ScenarioAssumption2431 DEF TypeOK2431

\* What a call writes into the context before ds2431_start().
LEMMA LengthsType ==
    ASSUME ctx \in CtxType2431, NEW n \in {0, 1, 8, FrameLen}, NEW p \in 0..8
    PROVE  LET c == [ctx EXCEPT !.len = n, !.plen = p] IN
           /\ c \in CtxType2431 /\ c.len = n /\ c.ta = ctx.ta /\ c.addr = ctx.addr /\ c.rom = ctx.rom
           /\ c.par = ctx.par /\ c.pending = ctx.pending /\ c.phase = ctx.phase /\ c.ok = ctx.ok
           /\ c.finished = ctx.finished /\ c.cmd = ctx.cmd /\ c.es = ctx.es /\ c.data = ctx.data
  BY DEF CtxType2431

LEMMA TargetType ==
    ASSUME ctx \in CtxType2431, NEW b \in Blocks, NEW n \in {0, 1, 8, FrameLen}, NEW p \in 0..8
    PROVE  LET c == [ctx EXCEPT !.ta = b, !.len = n, !.plen = p] IN
           /\ c \in CtxType2431 /\ c.ta = b /\ c.addr = ctx.addr /\ c.rom = ctx.rom
           /\ c.par = ctx.par /\ c.pending = ctx.pending /\ c.phase = ctx.phase /\ c.ok = ctx.ok
           /\ c.finished = ctx.finished /\ c.cmd = ctx.cmd
  BY DEF CtxType2431

LEMMA ReadMemoryCall ==
    ASSUME TypeOK2431, NEW b \in Blocks, ReadMemory(b)
    PROVE  /\ TypeOK2431' /\ (Accepted \/ Ignored) /\ UNCHANGED <<wire, line, dev, search>>
           /\ CanStart =>
                 /\ ctx'.cmd = "read_memory" /\ ctx'.ta = asked'.ta /\ ~ctx'.ok /\ ctx'.phase = "RESET"
                 /\ ~ctx'.finished
                 /\ asked'.wta = asked.wta /\ asked'.wdata = asked.wdata /\ asked'.wlen = asked.wlen
           /\ app'.scene = app.scene /\ app'.cycle = "none"
  <1> DEFINE c == [ctx EXCEPT !.ta = b, !.len = 8, !.plen = 0]
             acc == Started(c, "read_memory")
             asks == [asked EXCEPT !.cmd = "read_memory", !.ta = b, !.len = 8]
  <1>2. c \in CtxType2431 /\ c.ta = b /\ c.addr = ctx.addr /\ c.rom = ctx.rom /\ c.par = ctx.par
        /\ c.pending = ctx.pending /\ c.phase = ctx.phase /\ c.ok = ctx.ok /\ c.finished = ctx.finished
        /\ c.cmd = ctx.cmd
    <2>1. ctx \in CtxType2431 /\ 8 \in {0, 1, 8, FrameLen} /\ 0 \in 0..8 BY DEF TypeOK2431
    <2> QED BY <2>1, TargetType
  <1>3. asks \in AskedType /\ asks.ta = b /\ asks.wta = asked.wta /\ asks.wdata = asked.wdata
        /\ asks.wlen = asked.wlen /\ asks.wrom = asked.wrom
    BY DEF TypeOK2431, AskedType, Commands
  <1>4. Start(acc, c, asks) /\ AppAt("none") /\ UNCHANGED <<wire, line, dev, search>>
    BY DEF ReadMemory
  <1> HIDE DEF c, asks
  <1>5. "read_memory" \in Commands BY DEF Commands
  <1>6. acc \in CtxType2431 /\ acc.cmd = "read_memory" /\ ~acc.ok /\ ~acc.finished /\ acc.phase = "RESET"
        /\ acc.addr = c.addr /\ acc.rom = c.rom /\ acc.par = c.par /\ acc.pending = c.pending
        /\ acc.ta = c.ta
    BY <1>2, <1>5, StartedType
  <1> HIDE DEF acc
  <1>7. /\ ctx' \in CtxType2431 /\ port' \in PortType({0, TProg}) /\ asked' \in AskedType
        /\ \/ CanStart /\ ctx' = acc /\ port' = ResetPort(port) /\ asked' = asks
           \/ ~CanStart /\ ctx' = c /\ UNCHANGED <<port, asked>>
    BY <1>2, <1>3, <1>4, <1>6, StartTypes
  <1>8. app' = [app EXCEPT !.cycle = "none"] /\ app' \in [scene : Scenarios, cycle : {"none", "written", "verified"}]
        /\ app'.scene = app.scene /\ app'.cycle = "none"
    BY <1>4 DEF AppAt, TypeOK2431
  <1>9. TypeOK2431' BY <1>4, <1>7, <1>8 DEF TypeOK2431, AskedType
  <1>10. Accepted \/ Ignored BY <1>2, <1>3, <1>5, <1>6, <1>7 DEF Accepted, Ignored
  <1> QED BY <1>2, <1>3, <1>4, <1>6, <1>7, <1>8, <1>9, <1>10

LEMMA WriteScratchpadCall ==
    ASSUME TypeOK2431, NEW b \in Blocks, NEW n \in 1..8, NEW v \in Contents,
           WriteScratchpad(b, n, v)
    PROVE  /\ TypeOK2431' /\ Accepted /\ UNCHANGED <<wire, line, dev, search>>
           /\ ctx'.cmd = "write_scratchpad" /\ ctx'.pending /\ ctx'.ta = asked'.wta
           /\ ctx'.data = asked'.wdata /\ ctx'.es = asked'.wlen - 1 /\ ~ctx'.ok /\ ~ctx'.finished
           /\ ctx'.phase = "RESET"
           /\ app'.scene = app.scene /\ app'.cycle = "written"
  <1> DEFINE c == Started(ctx, "write_scratchpad")
             acc == [c EXCEPT !.ta = b, !.es = n - 1, !.len = 0, !.plen = n, !.data = v, !.pending = TRUE]
             asks == [cmd |-> "write_scratchpad", ta |-> b, len |-> 0, wta |-> b, wlen |-> n,
                      wdata |-> v, wrom |-> Selected]
  <1>1. Selected \in Roms /\ ctx \in CtxType2431 BY SelectedType DEF TypeOK2431
  <1>2. "write_scratchpad" \in Commands BY DEF Commands
  <1>3. c \in CtxType2431 /\ c.cmd = "write_scratchpad" /\ ~c.ok /\ ~c.finished /\ c.phase = "RESET"
        /\ c.addr = ctx.addr /\ c.rom = ctx.rom /\ c.par = ctx.par
    BY <1>1, <1>2, StartedType
  <1>4. Start(acc, ctx, asks) /\ CanStart /\ AppAt("written") /\ UNCHANGED <<wire, line, dev, search>>
    BY DEF WriteScratchpad
  <1>5. asks \in AskedType /\ asks.wta = b /\ asks.wdata = v /\ asks.wlen = n /\ asks.wrom = Selected
    BY <1>1, <1>2 DEF AskedType
  <1> HIDE DEF c, asks
  <1>6. n - 1 \in 0..7 /\ n \in 0..8 OBVIOUS
  <1>7. acc \in CtxType2431 /\ acc.cmd = "write_scratchpad" /\ ~acc.ok /\ ~acc.finished
        /\ acc.phase = "RESET" /\ acc.addr = ctx.addr /\ acc.rom = ctx.rom /\ acc.par = ctx.par
        /\ acc.pending /\ acc.ta = b /\ acc.data = v /\ acc.es = n - 1
    BY <1>1, <1>3, <1>6 DEF CtxType2431
  <1> HIDE DEF acc
  <1>8. /\ ctx' \in CtxType2431 /\ port' \in PortType({0, TProg}) /\ asked' \in AskedType
        /\ ctx' = acc /\ port' = ResetPort(port) /\ asked' = asks
    BY <1>1, <1>4, <1>5, <1>7, StartTypes
  <1>9. app' \in [scene : Scenarios, cycle : {"none", "written", "verified"}]
        /\ app'.scene = app.scene /\ app'.cycle = "written"
    BY <1>4 DEF AppAt, TypeOK2431
  <1>10. TypeOK2431' BY <1>4, <1>8, <1>9 DEF TypeOK2431, AskedType
  <1>11. Accepted BY <1>2, <1>4, <1>5, <1>7, <1>8 DEF Accepted
  <1> QED BY <1>4, <1>5, <1>7, <1>8, <1>9, <1>10, <1>11

LEMMA ReadScratchpadCall ==
    ASSUME TypeOK2431, ReadScratchpad
    PROVE  /\ TypeOK2431' /\ (Accepted \/ Ignored) /\ UNCHANGED <<wire, line, dev, search, app>>
           /\ CanStart =>
                 /\ ctx'.cmd = "read_scratchpad" /\ ctx'.echo /\ ctx'.len = FrameLen /\ ~ctx'.ok
                 /\ ctx'.phase = "RESET" /\ ~ctx'.finished
                 /\ ctx'.pending = ctx.pending /\ ctx'.ta = ctx.ta /\ ctx'.es = ctx.es
                 /\ ctx'.data = ctx.data
                 /\ asked'.wta = asked.wta /\ asked'.wdata = asked.wdata /\ asked'.wlen = asked.wlen
  <1> DEFINE c == [ctx EXCEPT !.len = FrameLen, !.plen = 0]
             t == Started(c, "read_scratchpad")
             acc == [t EXCEPT !.echo = TRUE]
             rej == [c EXCEPT !.echo = TRUE]
             asks == [asked EXCEPT !.cmd = "read_scratchpad", !.len = FrameLen]
  <1>1. c \in CtxType2431 /\ c.addr = ctx.addr /\ c.rom = ctx.rom /\ c.par = ctx.par
        /\ c.pending = ctx.pending /\ c.phase = ctx.phase /\ c.ok = ctx.ok /\ c.finished = ctx.finished
        /\ c.cmd = ctx.cmd /\ c.ta = ctx.ta /\ c.es = ctx.es /\ c.data = ctx.data /\ c.len = FrameLen
    <2>1. ctx \in CtxType2431 /\ FrameLen \in {0, 1, 8, FrameLen} /\ 0 \in 0..8 BY DEF TypeOK2431
    <2> QED BY <2>1, LengthsType
  <1>2. asks \in AskedType /\ asks.wta = asked.wta /\ asks.wdata = asked.wdata
        /\ asks.wlen = asked.wlen /\ asks.wrom = asked.wrom
    BY DEF TypeOK2431, AskedType, Commands
  <1>3. Start(acc, rej, asks) /\ UNCHANGED <<wire, line, dev, search, app>>
    BY DEF ReadScratchpad
  <1> HIDE DEF c, asks
  <1>4. "read_scratchpad" \in Commands BY DEF Commands
  <1>5. t \in CtxType2431 /\ t.cmd = "read_scratchpad" /\ ~t.ok /\ ~t.finished /\ t.phase = "RESET"
        /\ t.addr = c.addr /\ t.rom = c.rom /\ t.par = c.par /\ t.pending = c.pending
        /\ t.ta = c.ta /\ t.es = c.es /\ t.data = c.data /\ t.len = c.len
    BY <1>1, <1>4, StartedType
  <1> HIDE DEF t
  <1>6. acc \in CtxType2431 /\ acc.cmd = "read_scratchpad" /\ ~acc.ok /\ ~acc.finished /\ acc.phase = "RESET"
        /\ acc.addr = c.addr /\ acc.rom = c.rom /\ acc.par = c.par /\ acc.pending = c.pending
        /\ acc.ta = c.ta /\ acc.es = c.es /\ acc.data = c.data /\ acc.len = c.len /\ acc.echo
    BY <1>5 DEF CtxType2431
  <1>7. rej \in CtxType2431 /\ rej.addr = ctx.addr /\ rej.rom = ctx.rom /\ rej.par = ctx.par
        /\ rej.pending = ctx.pending /\ rej.phase = ctx.phase /\ rej.ok = ctx.ok
        /\ rej.finished = ctx.finished /\ rej.cmd = ctx.cmd
    BY <1>1 DEF CtxType2431
  <1> HIDE DEF acc, rej
  <1>8. /\ ctx' \in CtxType2431 /\ port' \in PortType({0, TProg}) /\ asked' \in AskedType
        /\ \/ CanStart /\ ctx' = acc /\ port' = ResetPort(port) /\ asked' = asks
           \/ ~CanStart /\ ctx' = rej /\ UNCHANGED <<port, asked>>
    BY <1>2, <1>3, <1>6, <1>7, StartTypes
  <1>9. TypeOK2431' BY <1>3, <1>8 DEF TypeOK2431, AskedType
  <1>10. Accepted \/ Ignored BY <1>1, <1>2, <1>4, <1>6, <1>7, <1>8 DEF Accepted, Ignored
  <1> QED BY <1>1, <1>2, <1>3, <1>6, <1>8, <1>9, <1>10

LEMMA CopyScratchpadCall ==
    ASSUME TypeOK2431, CopyScratchpad
    PROVE  /\ TypeOK2431' /\ (Accepted \/ Ignored) /\ UNCHANGED <<wire, line, dev, search>>
           /\ app.scene.careful => app.cycle = "verified"
           /\ CanStart =>
                 /\ ctx'.cmd = "copy_scratchpad" /\ ctx'.ta = ctx.ta /\ asked'.ta = asked.wta
                 /\ ~ctx'.ok /\ ctx'.phase = "RESET" /\ ~ctx'.finished
                 /\ asked'.wta = asked.wta /\ asked'.wdata = asked.wdata /\ asked'.wlen = asked.wlen
           /\ app'.scene = app.scene /\ app'.cycle = "none"
  <1> DEFINE c == [ctx EXCEPT !.len = 1, !.plen = 0]
             acc == Started(c, "copy_scratchpad")
             asks == [asked EXCEPT !.cmd = "copy_scratchpad", !.ta = asked.wta, !.len = 1]
  <1>1. c \in CtxType2431 /\ c.ta = ctx.ta /\ c.addr = ctx.addr /\ c.rom = ctx.rom /\ c.par = ctx.par
        /\ c.pending = ctx.pending /\ c.phase = ctx.phase /\ c.ok = ctx.ok /\ c.finished = ctx.finished
        /\ c.cmd = ctx.cmd
    <2>1. ctx \in CtxType2431 /\ 1 \in {0, 1, 8, FrameLen} /\ 0 \in 0..8 BY DEF TypeOK2431
    <2> QED BY <2>1, LengthsType
  <1>2. asks \in AskedType /\ asks.ta = asked.wta /\ asks.wta = asked.wta /\ asks.wdata = asked.wdata
        /\ asks.wlen = asked.wlen /\ asks.wrom = asked.wrom
    BY DEF TypeOK2431, AskedType, Commands
  <1>3. Start(acc, c, asks) /\ AppAt("none") /\ UNCHANGED <<wire, line, dev, search>>
        /\ (app.scene.careful => app.cycle = "verified")
    BY DEF CopyScratchpad
  <1> HIDE DEF c, asks
  <1>4. "copy_scratchpad" \in Commands BY DEF Commands
  <1>5. acc \in CtxType2431 /\ acc.cmd = "copy_scratchpad" /\ ~acc.ok /\ ~acc.finished /\ acc.phase = "RESET"
        /\ acc.addr = c.addr /\ acc.rom = c.rom /\ acc.par = c.par /\ acc.pending = c.pending
        /\ acc.ta = c.ta
    BY <1>1, <1>4, StartedType
  <1> HIDE DEF acc
  <1>6. /\ ctx' \in CtxType2431 /\ port' \in PortType({0, TProg}) /\ asked' \in AskedType
        /\ \/ CanStart /\ ctx' = acc /\ port' = ResetPort(port) /\ asked' = asks
           \/ ~CanStart /\ ctx' = c /\ UNCHANGED <<port, asked>>
    BY <1>1, <1>2, <1>3, <1>5, StartTypes
  <1>7. app' \in [scene : Scenarios, cycle : {"none", "written", "verified"}]
        /\ app'.scene = app.scene /\ app'.cycle = "none"
    BY <1>3 DEF AppAt, TypeOK2431
  <1>8. TypeOK2431' BY <1>3, <1>6, <1>7 DEF TypeOK2431, AskedType
  <1>9. Accepted \/ Ignored BY <1>1, <1>2, <1>4, <1>5, <1>6 DEF Accepted, Ignored
  <1> QED BY <1>1, <1>2, <1>3, <1>5, <1>6, <1>7, <1>8, <1>9

-----------------------------------------------------------------------------
(***************************************************************************)
(* What the other steps do, one lemma per action.                          *)
(***************************************************************************)
\* The fields of the context that nothing but a call changes.
SameCall(c) ==
    /\ c.addr = ctx.addr /\ c.rom = ctx.rom /\ c.pending = ctx.pending
    /\ c.echo = ctx.echo /\ c.cmd = ctx.cmd /\ c.ta = ctx.ta /\ c.len = ctx.len /\ c.plen = ctx.plen
    /\ c.es = ctx.es /\ c.data = ctx.data

LEMMA SetPhase ==
    ASSUME ctx \in CtxType2431, NEW phase \in Phases2431, NEW ok \in BOOLEAN
    PROVE  /\ LET c == [ctx EXCEPT !.phase = phase] IN
              c \in CtxType2431 /\ SameCall(c) /\ c.par = ctx.par /\ c.phase = phase /\ c.ok = ctx.ok
                 /\ c.finished = ctx.finished
           /\ LET c == [ctx EXCEPT !.phase = phase, !.ok = ok] IN
              c \in CtxType2431 /\ SameCall(c) /\ c.par = ctx.par /\ c.phase = phase /\ c.ok = ok
                 /\ c.finished = ctx.finished
  BY DEF CtxType2431, SameCall

WireType ==
    [cmd : Commands \cup {"none"}, rom : Roms, ta : Blocks, es : 0..7, plen : 0..8, data : Contents]

LEMMA SelectStep ==
    ASSUME TypeOK2431, NEW rom \in Roms, Select(rom)
    PROVE  /\ TypeOK2431' /\ UNCHANGED <<port, wire, line, dev, search, asked>>
           /\ CanStart /\ ctx'.phase = ctx.phase /\ ctx'.ok = ctx.ok /\ ctx'.finished = ctx.finished
           /\ ctx'.cmd = ctx.cmd /\ ctx'.par = ctx.par /\ ~ctx'.pending
           /\ (app.scene.careful => ctx.finished)
           /\ app'.scene = app.scene /\ app'.cycle = "none"
  <1>1. ctx \in CtxType2431 /\ app \in [scene : Scenarios, cycle : {"none", "written", "verified"}]
    BY DEF TypeOK2431
  <1>2. /\ ctx' \in CtxType2431 /\ ctx'.phase = ctx.phase /\ ctx'.ok = ctx.ok
        /\ ctx'.finished = ctx.finished /\ ctx'.cmd = ctx.cmd /\ ctx'.par = ctx.par /\ ~ctx'.pending
    <2> DEFINE addr == rom # NoRom
               to == IF rom = NoRom THEN ctx.rom ELSE rom
    <2>1. ctx' = [ctx EXCEPT !.addr = addr, !.pending = FALSE, !.rom = to]
      BY <1>1 DEF Select, CtxType2431
    <2>2. addr \in BOOLEAN /\ to \in Roms BY <1>1 DEF CtxType2431
    <2> HIDE DEF addr, to
    <2> QED BY <1>1, <2>1, <2>2 DEF CtxType2431
  <1>3. app' \in [scene : Scenarios, cycle : {"none", "written", "verified"}]
        /\ app'.scene = app.scene /\ app'.cycle = "none"
    BY <1>1 DEF Select, AppAt
  <1>4. UNCHANGED <<port, wire, line, dev, search, asked>> /\ CanStart
        /\ (app.scene.careful => ctx.finished)
    BY DEF Select, MayCall
  <1>5. TypeOK2431' BY <1>2, <1>3, <1>4 DEF TypeOK2431
  <1> QED BY <1>2, <1>3, <1>4, <1>5

LEMMA SetParasiteStep ==
    ASSUME TypeOK2431, NEW on \in BOOLEAN, SetParasite(on)
    PROVE  /\ TypeOK2431' /\ UNCHANGED <<port, wire, line, dev, search, asked, app>>
           /\ SameCall(ctx') /\ ctx'.phase = ctx.phase /\ ctx'.ok = ctx.ok
           /\ ctx'.finished = ctx.finished
           /\ (app.scene.careful => ctx.finished)
  <1>1. ctx \in CtxType2431 BY DEF TypeOK2431
  <1>2. ctx' \in CtxType2431 /\ SameCall(ctx') /\ ctx'.phase = ctx.phase /\ ctx'.ok = ctx.ok
        /\ ctx'.finished = ctx.finished
    BY <1>1 DEF SetParasite, SameCall, CtxType2431
  <1> QED BY <1>1, <1>2 DEF SetParasite, TypeOK2431

LEMMA SearchSteps ==
    ASSUME TypeOK2431, SearchStart \/ SearchPoll
    PROVE  /\ TypeOK2431' /\ UNCHANGED <<ctx, wire, line, dev, app, asked>>
           /\ port'.pin = port.pin /\ ~port'.uif
           /\ \/ SearchStart /\ ~search /\ ctx.phase \in Quiet /\ search' /\ port'.op = "slots"
              \/ SearchPoll /\ search /\ ~search' /\ port'.op = port.op /\ port.uif
  <1>1. port \in PortType({0, TProg}) BY DEF TypeOK2431
  <1>2. CASE SearchStart
    <2>1. port' = Arm(port, "slots") BY <1>2 DEF SearchStart
    <2>2. port' \in PortType({0, TProg}) /\ port'.op = "slots" /\ ~port'.uif /\ port'.pin = port.pin
      BY <1>1, <2>1, PortCalls DEF Ops
    <2> QED BY <1>2, <2>2 DEF SearchStart, TypeOK2431, Quiet
  <1>3. CASE SearchPoll
    <2>1. port' = BusDone(port) BY <1>3 DEF SearchPoll
    <2>2. port' \in PortType({0, TProg}) /\ port'.op = port.op /\ ~port'.uif /\ port'.pin = port.pin
      BY <1>1, <2>1, PortCalls
    <2> QED BY <1>3, <2>2 DEF SearchPoll, TypeOK2431
  <1> QED BY <1>2, <1>3

LEMMA PollResetStep ==
    ASSUME TypeOK2431, PollReset
    PROVE  /\ TypeOK2431' /\ UNCHANGED <<line, dev, search, app, asked>>
           /\ ~ctx.finished /\ ctx.phase = "RESET" /\ port.uif
           /\ SameCall(ctx') /\ ctx'.par = ctx.par /\ ctx'.ok = ctx.ok /\ ctx'.finished = ctx.finished
           /\ \/ /\ ctx'.phase = "CMD" /\ port'.op = "write" /\ ~port'.uif
                 /\ port'.pin = IF ctx.par THEN "pp" ELSE port.pin
                 /\ wire'.cmd = ctx.cmd /\ wire'.rom = Selected /\ wire'.ta = ctx.ta
              \/ /\ ctx'.phase = "DONE" /\ port'.op = port.op /\ ~port'.uif /\ port'.pin = port.pin
                 /\ UNCHANGED wire
  <1>1. /\ ctx \in CtxType2431 /\ port \in PortType({0, TProg}) /\ wire \in WireType
        /\ "CMD" \in Phases2431 /\ "DONE" \in Phases2431 /\ "write" \in Ops
    BY DEF TypeOK2431, WireType, Phases2431, Ops
  <1>2. UNCHANGED <<line, dev, search, app, asked>> /\ ~ctx.finished /\ ctx.phase = "RESET" /\ port.uif
    BY DEF PollReset, PhaseDone
  <1>3. Consumed \in PortType({0, TProg}) /\ Consumed.op = port.op /\ ~Consumed.uif
        /\ Consumed.pin = port.pin
    BY <1>1, PortCalls DEF Consumed
  <1>4. CASE line.seen
    <2> DEFINE p == PullupIf(Consumed, TRUE)
    <2>1. p \in PortType({0, TProg}) /\ p.op = port.op /\ p.pin = IF ctx.par THEN "pp" ELSE port.pin
      BY <1>1, <1>3, PullupIfCalls
    <2>2. wire' = Build(ctx) /\ port' = Arm(p, "write") /\ ctx' = [ctx EXCEPT !.phase = "CMD"]
      BY <1>4 DEF PollReset
    <2> HIDE DEF p
    <2>3. port' \in PortType({0, TProg}) /\ port'.op = "write" /\ ~port'.uif /\ port'.pin = p.pin
      BY <2>1, <2>2 DEF PortType, Arm, Ops, Pins
    <2>4. wire' \in WireType /\ wire'.cmd = ctx.cmd /\ wire'.rom = Selected /\ wire'.ta = ctx.ta
      BY <1>1, <2>2, SelectedType DEF Build, CtxType2431, WireType
    <2>5. ctx' \in CtxType2431 /\ SameCall(ctx') /\ ctx'.par = ctx.par /\ ctx'.phase = "CMD"
          /\ ctx'.ok = ctx.ok /\ ctx'.finished = ctx.finished
      BY <1>1, <2>2, SetPhase
    <2>6. TypeOK2431' BY <1>2, <2>3, <2>4, <2>5 DEF TypeOK2431, WireType
    <2> QED BY <1>2, <2>1, <2>3, <2>4, <2>5, <2>6
  <1>5. CASE ~line.seen
    <2>1. port' = Consumed /\ ctx' = [ctx EXCEPT !.phase = "DONE"] /\ UNCHANGED wire
      BY <1>5 DEF PollReset, AbsentPhase
    <2>2. ctx' \in CtxType2431 /\ SameCall(ctx') /\ ctx'.par = ctx.par /\ ctx'.phase = "DONE"
          /\ ctx'.ok = ctx.ok /\ ctx'.finished = ctx.finished
      BY <1>1, <2>1, SetPhase
    <2>3. TypeOK2431' BY <1>2, <1>3, <2>1, <2>2 DEF TypeOK2431
    <2> QED BY <1>2, <1>3, <2>1, <2>2, <2>3
  <1> QED BY <1>4, <1>5

LEMMA PollCmdStep ==
    ASSUME TypeOK2431, PollCmd
    PROVE  /\ TypeOK2431' /\ UNCHANGED <<wire, line, dev, search, app, asked>>
           /\ ~ctx.finished /\ ctx.phase = "CMD" /\ port.uif
           /\ SameCall(ctx') /\ ctx'.par = ctx.par /\ ctx'.finished = ctx.finished /\ ~port'.uif
           /\ \/ /\ ctx.cmd = "copy_scratchpad" /\ ctx'.phase = "WAIT" /\ ctx'.ok = ctx.ok
                 /\ port'.op = "wait" /\ port'.pin = port.pin
              \/ /\ ctx.cmd # "copy_scratchpad" /\ ctx'.phase = "READ" /\ ctx'.ok = ctx.ok
                 /\ port'.op = "read" /\ port'.pin = IF ctx.par THEN "od" ELSE port.pin
              \/ /\ ctx.cmd # "copy_scratchpad" /\ ctx'.phase = "DONE" /\ ctx.len = 0
                 /\ port'.op = port.op /\ port'.pin = IF ctx.par THEN "od" ELSE port.pin
  <1>1. /\ ctx \in CtxType2431 /\ port \in PortType({0, TProg})
        /\ "WAIT" \in Phases2431 /\ "DONE" \in Phases2431 /\ "READ" \in Phases2431 /\ "read" \in Ops
    BY DEF TypeOK2431, Phases2431, Ops
  <1>2. UNCHANGED <<wire, line, dev, search, app, asked>> /\ ~ctx.finished /\ ctx.phase = "CMD" /\ port.uif
    BY DEF PollCmd, PhaseDone
  <1>3. Consumed \in PortType({0, TProg}) /\ Consumed.op = port.op /\ ~Consumed.uif
        /\ Consumed.pin = port.pin
    BY <1>1, PortCalls DEF Consumed
  <1> DEFINE p == PullupIf(Consumed, FALSE)
  <1>4. p \in PortType({0, TProg}) /\ p.op = port.op /\ ~p.uif
        /\ p.pin = IF ctx.par THEN "od" ELSE port.pin
    BY <1>1, <1>3, PullupIfCalls
  <1>5. \/ /\ ctx.cmd = "copy_scratchpad" /\ port' = ArmWait(Consumed, HoldOff)
           /\ ctx' = [ctx EXCEPT !.phase = "WAIT"]
        \/ /\ ctx.cmd # "copy_scratchpad" /\ port' = Arm(p, "read")
           /\ ctx' = [ctx EXCEPT !.phase = "READ"]
        \/ /\ ctx.cmd # "copy_scratchpad" /\ port' = p /\ ctx.len = 0
           /\ ctx' = [ctx EXCEPT !.phase = "DONE", !.ok = TRUE]
    BY DEF PollCmd
  <1> HIDE DEF p
  <1>6. /\ port' \in PortType({0, TProg}) /\ ~port'.uif /\ ctx' \in CtxType2431 /\ SameCall(ctx')
        /\ ctx'.par = ctx.par /\ ctx'.finished = ctx.finished
        /\ \/ /\ ctx.cmd = "copy_scratchpad" /\ ctx'.phase = "WAIT" /\ ctx'.ok = ctx.ok
              /\ port'.op = "wait" /\ port'.pin = port.pin
           \/ /\ ctx.cmd # "copy_scratchpad" /\ ctx'.phase = "READ" /\ ctx'.ok = ctx.ok
              /\ port'.op = "read" /\ port'.pin = IF ctx.par THEN "od" ELSE port.pin
           \/ /\ ctx.cmd # "copy_scratchpad" /\ ctx'.phase = "DONE" /\ ctx.len = 0
              /\ port'.op = port.op /\ port'.pin = IF ctx.par THEN "od" ELSE port.pin
    <2>1. CASE ctx.cmd = "copy_scratchpad" /\ port' = ArmWait(Consumed, HoldOff)
               /\ ctx' = [ctx EXCEPT !.phase = "WAIT"]
      BY <1>1, <1>3, <2>1, PortCalls, SetPhase
    <2>2. CASE ctx.cmd # "copy_scratchpad" /\ port' = Arm(p, "read")
               /\ ctx' = [ctx EXCEPT !.phase = "READ"]
      <3>1. port' \in PortType({0, TProg}) /\ ~port'.uif /\ port'.op = "read" /\ port'.pin = p.pin
        BY <1>4, <2>2 DEF PortType, Arm, Ops, Pins
      <3> QED BY <1>1, <1>4, <2>2, <3>1, SetPhase
    <2>3. CASE ctx.cmd # "copy_scratchpad" /\ port' = p /\ ctx.len = 0
               /\ ctx' = [ctx EXCEPT !.phase = "DONE", !.ok = TRUE]
      BY <1>1, <1>4, <2>3, SetPhase
    <2> QED BY <1>5, <2>1, <2>2, <2>3
  <1>7. TypeOK2431' BY <1>2, <1>6 DEF TypeOK2431
  <1> QED BY <1>2, <1>6, <1>7

LEMMA PollReadStep ==
    ASSUME TypeOK2431, PollRead
    PROVE  /\ TypeOK2431' /\ UNCHANGED <<wire, line, dev, search, app, asked>>
           /\ ~ctx.finished /\ ctx.phase = "READ" /\ port.uif
           /\ SameCall(ctx') /\ ctx'.par = ctx.par /\ ctx'.phase = "DONE"
           /\ ctx'.finished = ctx.finished /\ ctx'.ok \in Verdicts
           /\ port'.op = port.op /\ port'.pin = port.pin /\ ~port'.uif
  <1>1. ctx \in CtxType2431 /\ port \in PortType({0, TProg}) /\ "DONE" \in Phases2431
    BY DEF TypeOK2431, Phases2431
  <1>2. /\ UNCHANGED <<wire, line, dev, search, app, asked>> /\ ~ctx.finished /\ ctx.phase = "READ"
        /\ port.uif /\ port' = BusDone(port)
    BY DEF PollRead, PhaseDone, Consumed
  <1>3. PICK ok \in Verdicts : ctx' = [ctx EXCEPT !.phase = "DONE", !.ok = ok] BY DEF PollRead
  <1>4. Verdicts \subseteq BOOLEAN BY DEF Verdicts, ReadOk, EchoOk
  <1>5. ctx' \in CtxType2431 /\ SameCall(ctx') /\ ctx'.par = ctx.par /\ ctx'.phase = "DONE"
        /\ ctx'.finished = ctx.finished /\ ctx'.ok = ok
    BY <1>1, <1>3, <1>4, SetPhase
  <1>6. port' \in PortType({0, TProg}) /\ port'.op = port.op /\ port'.pin = port.pin /\ ~port'.uif
    BY <1>1, <1>2, PortCalls
  <1>7. TypeOK2431' BY <1>2, <1>5, <1>6 DEF TypeOK2431
  <1> QED BY <1>2, <1>3, <1>5, <1>6, <1>7

LEMMA PollWaitStep ==
    ASSUME TypeOK2431, PollWait
    PROVE  /\ TypeOK2431' /\ UNCHANGED <<wire, line, dev, search, app, asked>>
           /\ ~ctx.finished /\ ctx.phase = "WAIT" /\ port.uif
           /\ SameCall(ctx') /\ ctx'.par = ctx.par /\ ctx'.phase = "READ"
           /\ ctx'.finished = ctx.finished /\ ctx'.ok = ctx.ok
           /\ port'.op = "read" /\ port'.pin = "od" /\ ~port'.uif
  <1>1. ctx \in CtxType2431 /\ port \in PortType({0, TProg}) /\ "READ" \in Phases2431
    BY DEF TypeOK2431, Phases2431
  <1>2. /\ UNCHANGED <<wire, line, dev, search, app, asked>> /\ ~ctx.finished /\ ctx.phase = "WAIT"
        /\ port.uif /\ port' = Arm(StrongPullup(BusDone(port), FALSE), "read")
        /\ ctx' = [ctx EXCEPT !.phase = "READ"]
    BY DEF PollWait, PhaseDone, Consumed
  <1>3. port' \in PortType({0, TProg}) /\ port'.op = "read" /\ port'.pin = "od" /\ ~port'.uif
    BY <1>1, <1>2 DEF PortType, Arm, StrongPullup, BusDone, Ops, Pins
  <1>4. ctx' \in CtxType2431 /\ SameCall(ctx') /\ ctx'.par = ctx.par /\ ctx'.phase = "READ"
        /\ ctx'.finished = ctx.finished /\ ctx'.ok = ctx.ok
    BY <1>1, <1>2, SetPhase
  <1>5. TypeOK2431' BY <1>2, <1>3, <1>4 DEF TypeOK2431
  <1> QED BY <1>2, <1>3, <1>4, <1>5

LEMMA PollFinishStep ==
    ASSUME TypeOK2431, PollFinish
    PROVE  /\ TypeOK2431' /\ UNCHANGED <<port, wire, line, dev, search, asked>>
           /\ ~ctx.finished /\ ctx.phase = "DONE"
           /\ SameCall(ctx') /\ ctx'.par = ctx.par /\ ctx'.phase = "DONE" /\ ctx'.finished
           /\ ctx'.ok = ctx.ok
           /\ app'.scene = app.scene
           /\ \/ app'.cycle = "none"
              \/ app'.cycle = app.cycle /\ ctx.cmd # "read_scratchpad"
              \/ app'.cycle = "verified" /\ ctx.cmd = "read_scratchpad" /\ ctx.ok /\ app.cycle = "written"
  <1>1. ctx \in CtxType2431 /\ app \in [scene : Scenarios, cycle : {"none", "written", "verified"}]
    BY DEF TypeOK2431
  <1>2. /\ UNCHANGED <<port, wire, line, dev, search, asked>> /\ ~ctx.finished /\ ctx.phase = "DONE"
        /\ ctx' = [ctx EXCEPT !.finished = TRUE]
    BY DEF PollFinish
  <1>3. ctx' \in CtxType2431 /\ SameCall(ctx') /\ ctx'.par = ctx.par /\ ctx'.phase = "DONE"
        /\ ctx'.finished /\ ctx'.ok = ctx.ok
    BY <1>1, <1>2 DEF CtxType2431, SameCall
  <1>4. PICK stage : /\ app' = [app EXCEPT !.cycle = stage]
                     /\ \/ stage = "none"
                        \/ stage = app.cycle /\ ctx.cmd # "read_scratchpad"
                        \/ /\ stage = "verified" /\ ctx.cmd = "read_scratchpad"
                           /\ ctx.ok /\ app.cycle = "written"
    BY DEF PollFinish, AppAt
  <1>5. app' \in [scene : Scenarios, cycle : {"none", "written", "verified"}]
        /\ app'.scene = app.scene /\ app'.cycle = stage
    BY <1>1, <1>4
  <1>6. TypeOK2431' BY <1>2, <1>3, <1>5 DEF TypeOK2431
  <1> QED BY <1>2, <1>3, <1>4, <1>5, <1>6

\* The timer ends the operation it ran.
LEMMA HwEndsStep ==
    ASSUME TypeOK2431, NEW o \in Ops, HwEnds(o)
    PROVE  /\ port' \in PortType({0, TProg}) /\ port.op = o /\ port'.op = "idle" /\ port'.uif
           /\ port'.pin = port.pin /\ UNCHANGED <<ctx, search, app, asked>>
  BY PortCalls DEF HwEnds, TypeOK2431

LEMMA HwResetStep ==
    ASSUME TypeOK2431, HwReset
    PROVE  /\ TypeOK2431' /\ UNCHANGED <<ctx, search, app, asked>>
           /\ port.op = "reset" /\ port'.op = "idle" /\ port'.uif /\ port'.pin = port.pin
           /\ line'.heard = {} /\ line'.raw = BadRaw
           /\ \A d \in Devices : /\ ~dev'[d].prog /\ ~dev'[d].done /\ dev'[d].sp = dev[d].sp
                                 /\ dev'[d].present = dev[d].present /\ dev'[d].eeprom = dev[d].eeprom
  <1>1. dev \in [Devices -> DeviceType2431] BY DEF TypeOK2431
  <1>2. /\ port' \in PortType({0, TProg}) /\ port.op = "reset" /\ port'.op = "idle" /\ port'.uif
        /\ port'.pin = port.pin /\ UNCHANGED <<ctx, search, app, asked>>
    BY HwEndsStep DEF HwReset, Ops
  <1>3. /\ line' \in [seen : BOOLEAN, heard : SUBSET Devices, raw : RawType]
        /\ line'.heard = {} /\ line'.raw = BadRaw
    BY ConstantTypes DEF HwReset
  <1>4. ASSUME NEW d \in Devices
        PROVE  /\ dev'[d] \in DeviceType2431 /\ ~dev'[d].prog /\ ~dev'[d].done
               /\ dev'[d].sp = dev[d].sp
               /\ dev'[d].present = dev[d].present /\ dev'[d].eeprom = dev[d].eeprom
    BY <1>1 DEF HwReset, DeviceType2431
  <1>5. dev' \in [Devices -> DeviceType2431] BY <1>4 DEF HwReset
  <1>6. wire' = NoWire BY DEF HwReset
  <1>7. TypeOK2431' BY <1>2, <1>3, <1>5, <1>6, ConstantTypes DEF TypeOK2431
  <1> QED BY <1>2, <1>3, <1>4, <1>7

LEMMA HwWriteStep ==
    ASSUME TypeOK2431, HwWrite
    PROVE  /\ TypeOK2431' /\ UNCHANGED <<ctx, wire, search, app, asked>>
           /\ port.op = "write" /\ port'.op = "idle" /\ port'.uif /\ port'.pin = port.pin
           /\ line'.heard = Hearing /\ line'.raw = line.raw
           /\ \A d \in Devices : /\ d \in Hearing => dev'[d] \in Heard(dev[d])
                                 /\ d \notin Hearing => dev'[d] = dev[d]
  <1>1. dev \in [Devices -> DeviceType2431] BY DEF TypeOK2431
  <1>2. /\ port' \in PortType({0, TProg}) /\ port.op = "write" /\ port'.op = "idle" /\ port'.uif
        /\ port'.pin = port.pin /\ UNCHANGED <<ctx, search, app, asked>>
    BY HwEndsStep DEF HwWrite, Ops
  <1>3. /\ line' \in [seen : BOOLEAN, heard : SUBSET Devices, raw : RawType]
        /\ line'.heard = Hearing /\ line'.raw = line.raw
    BY DEF HwWrite, Hearing, TypeOK2431
  <1>4. DOMAIN dev' = Devices /\ dev' = [d \in Devices |-> dev'[d]] BY DEF HwWrite
  <1>5. \A d \in Devices : /\ d \in Hearing => dev'[d] \in Heard(dev[d])
                           /\ d \notin Hearing => dev'[d] = dev[d]
    BY DEF HwWrite
  <1>6. ASSUME NEW d \in Devices PROVE dev'[d] \in DeviceType2431
    <2>1. CASE d \in Hearing BY <1>1, <1>5, <2>1, HeardType
    <2>2. CASE d \notin Hearing BY <1>1, <1>5, <2>2
    <2> QED BY <2>1, <2>2
  <1>7. dev' \in [Devices -> DeviceType2431] BY <1>4, <1>6
  <1>8. UNCHANGED wire BY DEF HwWrite
  <1>9. TypeOK2431' BY <1>2, <1>3, <1>7, <1>8 DEF TypeOK2431
  <1> QED BY <1>2, <1>3, <1>5, <1>8, <1>9

LEMMA HwWaitStep ==
    ASSUME TypeOK2431, HwWait
    PROVE  /\ TypeOK2431' /\ UNCHANGED <<ctx, wire, line, search, app, asked>>
           /\ port.op = "wait" /\ port'.op = "idle" /\ port'.uif /\ port'.pin = port.pin
           /\ \A d \in Devices :
                 /\ ~dev'[d].prog /\ dev'[d].sp = dev[d].sp /\ dev'[d].present = dev[d].present
                 /\ ~dev[d].prog => dev'[d] = dev[d]
                 /\ dev[d].prog /\ Powered(d) =>
                       dev'[d].done
                       /\ dev'[d].eeprom = [dev[d].eeprom EXCEPT ![dev[d].sp.ta] = dev[d].sp.data]
  <1>1. dev \in [Devices -> DeviceType2431] BY DEF TypeOK2431
  <1>2. /\ port' \in PortType({0, TProg}) /\ port.op = "wait" /\ port'.op = "idle" /\ port'.uif
        /\ port'.pin = port.pin /\ UNCHANGED <<ctx, search, app, asked>>
    BY HwEndsStep DEF HwWait, Ops
  <1>3. ASSUME NEW d \in Devices
        PROVE  /\ dev'[d] \in DeviceType2431
               /\ ~dev'[d].prog /\ dev'[d].sp = dev[d].sp /\ dev'[d].present = dev[d].present
               /\ ~dev[d].prog => dev'[d] = dev[d]
               /\ dev[d].prog /\ Powered(d) =>
                     dev'[d].done
                     /\ dev'[d].eeprom = [dev[d].eeprom EXCEPT ![dev[d].sp.ta] = dev[d].sp.data]
    <2> DEFINE v == IF Powered(d) THEN dev[d].sp.data ELSE "garbled"
               on == Powered(d)
               x == dev[d]
    <2>1. v \in Contents /\ on \in BOOLEAN /\ x \in DeviceType2431
      BY <1>1, ConstantTypes DEF DeviceType2431, Powered
    <2>2. dev'[d] = IF ~x.prog THEN x
                    ELSE [x EXCEPT !.prog = FALSE, !.done = on, !.eeprom[x.sp.ta] = v]
      BY DEF HwWait
    <2>3. on => v = x.sp.data OBVIOUS
    <2> HIDE DEF v, on
    <2>4. CASE ~x.prog BY <2>1, <2>2, <2>4 DEF DeviceType2431
    <2>5. CASE x.prog
      <3>1. dev'[d] \in DeviceType2431 /\ ~dev'[d].prog /\ dev'[d].sp = x.sp
            /\ dev'[d].present = x.present /\ dev'[d].done = on
            /\ dev'[d].eeprom = [x.eeprom EXCEPT ![x.sp.ta] = v]
        <4> DEFINE b == x.sp.ta
                   y == [x EXCEPT !.prog = FALSE, !.done = on, !.eeprom[b] = v]
        <4>1. b \in Blocks BY <2>1 DEF DeviceType2431
        <4>2. dev'[d] = y BY <2>2, <2>5
        <4> HIDE DEF b, x
        <4>3. /\ y \in DeviceType2431 /\ ~y.prog /\ y.sp = x.sp /\ y.present = x.present
              /\ y.done = on /\ y.eeprom = [x.eeprom EXCEPT ![b] = v]
          BY <2>1, <4>1 DEF DeviceType2431
        <4> HIDE DEF y
        <4> QED BY <4>2, <4>3 DEF b
      <3> QED BY <2>3, <2>5, <3>1 DEF on
    <2> QED BY <2>4, <2>5
  <1>4. dev' \in [Devices -> DeviceType2431] BY <1>3 DEF HwWait
  <1>5. UNCHANGED <<wire, line>> BY DEF HwWait
  <1>6. TypeOK2431' BY <1>2, <1>4, <1>5 DEF TypeOK2431
  <1> QED BY <1>2, <1>3, <1>5, <1>6

LEMMA HwReadStep ==
    ASSUME TypeOK2431, HwRead
    PROVE  /\ TypeOK2431' /\ UNCHANGED <<ctx, wire, dev, search, app, asked>>
           /\ port.op = "read" /\ port'.op = "idle" /\ port'.uif /\ port'.pin = port.pin
           /\ line'.heard = line.heard
           /\ line'.raw \in Replies \cup NoisyReplies
  <1>1. /\ port' \in PortType({0, TProg}) /\ port.op = "read" /\ port'.op = "idle" /\ port'.uif
        /\ port'.pin = port.pin /\ UNCHANGED <<ctx, search, app, asked>>
    BY HwEndsStep DEF HwRead, Ops
  <1>2. PICK r \in Replies \cup NoisyReplies : line' = [line EXCEPT !.raw = r]
    BY DEF HwRead
  <1>3. r \in RawType BY <1>2, RepliesType
  <1>4. line' \in [seen : BOOLEAN, heard : SUBSET Devices, raw : RawType]
        /\ line'.heard = line.heard /\ line'.raw = r
    BY <1>2, <1>3 DEF TypeOK2431
  <1>5. UNCHANGED <<wire, dev>> BY DEF HwRead
  <1>6. TypeOK2431' BY <1>1, <1>4, <1>5 DEF TypeOK2431
  <1> QED BY <1>1, <1>2, <1>4, <1>5, <1>6

LEMMA HwSlotsStep ==
    ASSUME TypeOK2431, HwSlots
    PROVE  /\ TypeOK2431' /\ UNCHANGED <<ctx, wire, line, dev, search, app, asked>>
           /\ port.op = "slots" /\ port'.op = "idle" /\ port'.uif /\ port'.pin = port.pin
  <1>1. /\ port' \in PortType({0, TProg}) /\ port.op = "slots" /\ port'.op = "idle" /\ port'.uif
        /\ port'.pin = port.pin /\ UNCHANGED <<ctx, wire, line, dev, search, app, asked>>
    BY HwEndsStep DEF HwSlots, Ops
  <1> QED BY <1>1 DEF TypeOK2431

LEMMA PlugStep ==
    ASSUME TypeOK2431, NEW d \in Devices, Plug(d)
    PROVE  /\ TypeOK2431' /\ UNCHANGED <<port, ctx, wire, line, search, app, asked>>
           /\ dev'[d].sp = NoScratch /\ ~dev'[d].prog /\ ~dev'[d].done
           /\ dev'[d].present # dev[d].present
           /\ ~dev[d].prog => dev'[d].eeprom = dev[d].eeprom
           /\ \A e \in Devices : e # d => dev'[e] = dev[e]
  <1>1. dev \in [Devices -> DeviceType2431] /\ dev[d] \in DeviceType2431 BY DEF TypeOK2431
  <1> DEFINE x == dev[d]
  <1>2. PICK v \in Contents :
           /\ ~x.prog => v = x.eeprom[x.sp.ta]
           /\ dev' = [dev EXCEPT ![d] = [present |-> ~x.present, sp |-> NoScratch, prog |-> FALSE,
                          done |-> FALSE, eeprom |-> [x.eeprom EXCEPT ![x.sp.ta] = v]]]
    <2>1. x.eeprom[x.sp.ta] \in Contents /\ "garbled" \in Contents
      BY <1>1, ConstantTypes DEF DeviceType2431
    <2> QED BY <1>1, <2>1 DEF Plug
  <1> DEFINE y == [present |-> ~x.present, sp |-> NoScratch, prog |-> FALSE,
                   done |-> FALSE, eeprom |-> [x.eeprom EXCEPT ![x.sp.ta] = v]]
  <1>3. y \in DeviceType2431 /\ y.sp = NoScratch /\ ~y.prog /\ ~y.done /\ y.present # x.present
        /\ (~x.prog => y.eeprom = x.eeprom)
    BY <1>1, <1>2, ConstantTypes DEF DeviceType2431
  <1>4. dev' = [dev EXCEPT ![d] = y] BY <1>2
  <1> HIDE DEF y, x
  <1>5. dev'[d] = y /\ (\A e \in Devices : e # d => dev'[e] = dev[e])
        /\ dev' \in [Devices -> DeviceType2431]
    BY <1>1, <1>3, <1>4
  <1>6. UNCHANGED <<port, ctx, wire, line, search, app, asked>> BY DEF Plug
  <1>7. TypeOK2431' BY <1>5, <1>6 DEF TypeOK2431
  <1> QED BY <1>3, <1>5, <1>6, <1>7 DEF x

LEMMA DemoResetStep ==
    ASSUME TypeOK2431, DemoReset
    PROVE  /\ TypeOK2431' /\ UNCHANGED <<line, dev, asked>>
           /\ port' = PortInit /\ ctx' = CtxInit /\ wire' = NoWire /\ ~search'
           /\ \A d \in Devices : ~dev[d].prog
           /\ app'.scene = app.scene /\ app'.cycle = "none"
  <1>1. /\ app' \in [scene : Scenarios, cycle : {"none", "written", "verified"}]
        /\ app'.scene = app.scene /\ app'.cycle = "none"
    BY DEF DemoReset, AppAt, TypeOK2431
  <1> QED BY <1>1, ConstantTypes DEF DemoReset, TypeOK2431

-----------------------------------------------------------------------------
(***************************************************************************)
(* The engine, the timer and the devices: one lemma per action.            *)
(***************************************************************************)
SafeInv == TypeOK2431 /\ EngineInv /\ DevicesInv

\* Every step of the driver, its callers, the hardware and the devices.
DriverStep ==
    \/ Calls
    \/ \E rom \in Roms : Select(rom)
    \/ \E on \in BOOLEAN : SetParasite(on)
    \/ SearchStart \/ SearchPoll
    \/ Poll \/ Hardware
    \/ \E d \in Devices : Plug(d)
    \/ DemoReset
    \/ UNCHANGED vars

LEMMA CallTypes ==
    ASSUME TypeOK2431, Calls
    PROVE  TypeOK2431' /\ (Accepted \/ Ignored) /\ UNCHANGED <<wire, line, dev, search>>
           /\ app'.scene = app.scene
  BY ReadMemoryCall, WriteScratchpadCall, ReadScratchpadCall, CopyScratchpadCall DEF Calls

LEMMA EngineOnCalls ==
    ASSUME SafeInv, Calls
    PROVE  SafeInv'
  <1>1. TypeOK2431' /\ (Accepted \/ Ignored) /\ UNCHANGED <<wire, line, dev, search>>
    BY CallTypes DEF SafeInv
  <1>2. CASE Accepted
    <2>1. /\ ~search' /\ ctx'.phase = "RESET" /\ ~ctx'.ok /\ ~ctx'.finished
          /\ port'.op = "reset" /\ ~port'.uif
          /\ ctx.phase \in Quiet
      BY <1>1, <1>2, ResetPortType DEF Accepted, CanStart, SafeInv, TypeOK2431, Quiet
    <2>2. PendingBelongsToSelected'
      BY <1>2 DEF Accepted, SafeInv, EngineInv, PendingBelongsToSelected, Selected
    <2>3. TimerServesPhase' BY <2>1 DEF TimerServesPhase, WaitsFor2431
    <2>4. EngineInv' BY <2>1, <2>2, <2>3 DEF EngineInv, Quiet
    <2>5. DevicesInv' BY <1>1, <2>1 DEF SafeInv, DevicesInv, Quiet
    <2> QED BY <1>1, <2>4, <2>5 DEF SafeInv
  <1>3. CASE Ignored
    <2>1. EngineInv'
      BY <1>1, <1>3 DEF Ignored, SafeInv, EngineInv, PendingBelongsToSelected, Selected,
         TimerServesPhase, WaitsFor2431
    <2>2. DevicesInv' BY <1>1, <1>3 DEF Ignored, SafeInv, DevicesInv
    <2> QED BY <1>1, <2>1, <2>2 DEF SafeInv
  <1> QED BY <1>1, <1>2, <1>3

LEMMA EngineOnSettings ==
    ASSUME SafeInv, (\E rom \in Roms : Select(rom)) \/ (\E on \in BOOLEAN : SetParasite(on))
    PROVE  SafeInv'
  <1>1. ASSUME NEW rom \in Roms, Select(rom) PROVE SafeInv'
    <2>1. TypeOK2431' /\ UNCHANGED <<port, wire, line, dev, search, asked>>
          /\ ctx'.phase = ctx.phase /\ ctx'.ok = ctx.ok /\ ctx'.finished = ctx.finished
          /\ ctx'.cmd = ctx.cmd /\ ~ctx'.pending
      BY <1>1, SelectStep DEF SafeInv
    <2> QED BY <2>1 DEF SafeInv, EngineInv, DevicesInv, PendingBelongsToSelected,
               TimerServesPhase, WaitsFor2431
  <1>2. ASSUME NEW on \in BOOLEAN, SetParasite(on) PROVE SafeInv'
    <2>1. TypeOK2431' /\ UNCHANGED <<port, wire, line, dev, search, asked, app>>
          /\ SameCall(ctx') /\ ctx'.phase = ctx.phase /\ ctx'.ok = ctx.ok
          /\ ctx'.finished = ctx.finished
      BY <1>2, SetParasiteStep DEF SafeInv
    <2> QED BY <2>1 DEF SafeInv, EngineInv, DevicesInv, PendingBelongsToSelected, SameCall, Selected,
               TimerServesPhase, WaitsFor2431
  <1> QED BY <1>1, <1>2

LEMMA EngineOnSearch ==
    ASSUME SafeInv, SearchStart \/ SearchPoll
    PROVE  SafeInv' /\ ctx.phase \in Quiet
  <1>1. /\ TypeOK2431' /\ UNCHANGED <<ctx, wire, line, dev, app, asked>> /\ ~port'.uif
        /\ \/ SearchStart /\ ~search /\ ctx.phase \in Quiet /\ search' /\ port'.op = "slots"
           \/ SearchPoll /\ search /\ ~search' /\ port'.op = port.op /\ port.uif
    BY SearchSteps DEF SafeInv
  <1>2. ctx.phase \in Quiet BY <1>1 DEF SafeInv, EngineInv
  <1>3. TimerServesPhase'
    BY <1>1, <1>2 DEF SafeInv, EngineInv, TimerServesPhase, WaitsFor2431, Quiet
  <1>4. EngineInv'
    BY <1>1, <1>2, <1>3 DEF SafeInv, EngineInv, PendingBelongsToSelected, Selected
  <1>5. DevicesInv' BY <1>1, <1>2 DEF SafeInv, DevicesInv, Quiet
  <1> QED BY <1>1, <1>2, <1>4, <1>5 DEF SafeInv

LEMMA EngineOnPollReset ==
    ASSUME SafeInv, PollReset
    PROVE  SafeInv'
  <1>1. /\ TypeOK2431' /\ UNCHANGED <<line, dev, search, app, asked>>
        /\ ~ctx.finished /\ ctx.phase = "RESET" /\ port.uif
        /\ SameCall(ctx') /\ ctx'.par = ctx.par /\ ctx'.ok = ctx.ok /\ ctx'.finished = ctx.finished
        /\ \/ ctx'.phase = "CMD" /\ port'.op = "write" /\ ~port'.uif /\ wire'.cmd = ctx.cmd
           \/ ctx'.phase = "DONE" /\ port'.op = port.op /\ ~port'.uif
    BY PollResetStep DEF SafeInv
  <1>2. ~search /\ port.op = "idle" /\ ~ctx.ok
    BY <1>1 DEF SafeInv, EngineInv, TimerServesPhase, Quiet
  <1>3. TimerServesPhase' BY <1>1, <1>2 DEF TimerServesPhase, WaitsFor2431
  <1>4. PendingBelongsToSelected'
    BY <1>1 DEF SafeInv, EngineInv, PendingBelongsToSelected, Selected, SameCall
  <1>5. EngineInv' BY <1>1, <1>2, <1>3, <1>4 DEF EngineInv, SameCall
  <1>6. DevicesInv' BY <1>1 DEF SafeInv, DevicesInv, SameCall
  <1> QED BY <1>1, <1>5, <1>6 DEF SafeInv

LEMMA EngineOnPollCmd ==
    ASSUME SafeInv, PollCmd
    PROVE  SafeInv'
  <1>1. /\ TypeOK2431' /\ UNCHANGED <<wire, line, dev, search, app, asked>>
        /\ ~ctx.finished /\ ctx.phase = "CMD" /\ port.uif
        /\ SameCall(ctx') /\ ctx'.finished = ctx.finished /\ ~port'.uif
        /\ \/ /\ ctx.cmd = "copy_scratchpad" /\ ctx'.phase = "WAIT" /\ ctx'.ok = ctx.ok
              /\ port'.op = "wait"
           \/ /\ ctx.cmd # "copy_scratchpad" /\ ctx'.phase = "READ" /\ ctx'.ok = ctx.ok
              /\ port'.op = "read"
           \/ ctx.cmd # "copy_scratchpad" /\ ctx'.phase = "DONE" /\ port'.op = port.op
    BY PollCmdStep DEF SafeInv
  <1>2. ~search /\ port.op = "idle" /\ ~ctx.ok
    BY <1>1 DEF SafeInv, EngineInv, TimerServesPhase, Quiet
  <1>3. TimerServesPhase' BY <1>1, <1>2 DEF TimerServesPhase, WaitsFor2431
  <1>4. PendingBelongsToSelected'
    BY <1>1 DEF SafeInv, EngineInv, PendingBelongsToSelected, Selected, SameCall
  <1>5. EngineInv' BY <1>1, <1>2, <1>3, <1>4 DEF SafeInv, EngineInv, SameCall, Quiet
  <1>6. DevicesInv' BY <1>1 DEF SafeInv, DevicesInv, SameCall
  <1> QED BY <1>1, <1>5, <1>6 DEF SafeInv

LEMMA EngineOnPollRead ==
    ASSUME SafeInv, PollRead
    PROVE  SafeInv'
  <1>1. /\ TypeOK2431' /\ UNCHANGED <<wire, line, dev, search, app, asked>>
        /\ ~ctx.finished /\ ctx.phase = "READ" /\ port.uif
        /\ SameCall(ctx') /\ ctx'.phase = "DONE" /\ ctx'.finished = ctx.finished
        /\ port'.op = port.op /\ ~port'.uif
    BY PollReadStep DEF SafeInv
  <1>2. ~search /\ port.op = "idle"
    BY <1>1 DEF SafeInv, EngineInv, TimerServesPhase, Quiet
  <1>3. TimerServesPhase' BY <1>1, <1>2 DEF TimerServesPhase, WaitsFor2431
  <1>4. PendingBelongsToSelected'
    BY <1>1 DEF SafeInv, EngineInv, PendingBelongsToSelected, Selected, SameCall
  <1>5. EngineInv' BY <1>1, <1>2, <1>3, <1>4 DEF EngineInv, Quiet
  <1>6. DevicesInv' BY <1>1 DEF SafeInv, DevicesInv
  <1> QED BY <1>1, <1>5, <1>6 DEF SafeInv

LEMMA EngineOnPollWait ==
    ASSUME SafeInv, PollWait
    PROVE  SafeInv'
  <1>1. /\ TypeOK2431' /\ UNCHANGED <<wire, line, dev, search, app, asked>>
        /\ ~ctx.finished /\ ctx.phase = "WAIT" /\ port.uif
        /\ SameCall(ctx') /\ ctx'.phase = "READ" /\ ctx'.finished = ctx.finished /\ ctx'.ok = ctx.ok
        /\ port'.op = "read" /\ ~port'.uif
    BY PollWaitStep DEF SafeInv
  <1>2. ~search /\ port.op = "idle" /\ ~ctx.ok /\ wire.cmd = ctx.cmd
    BY <1>1 DEF SafeInv, EngineInv, TimerServesPhase, Quiet
  <1>3. TimerServesPhase' BY <1>1, <1>2 DEF TimerServesPhase, WaitsFor2431
  <1>4. PendingBelongsToSelected'
    BY <1>1 DEF SafeInv, EngineInv, PendingBelongsToSelected, Selected, SameCall
  <1>5. EngineInv' BY <1>1, <1>2, <1>3, <1>4 DEF EngineInv, SameCall
  <1>6. DevicesInv' BY <1>1, <1>2 DEF SafeInv, DevicesInv
  <1> QED BY <1>1, <1>5, <1>6 DEF SafeInv

LEMMA EngineOnPollFinish ==
    ASSUME SafeInv, PollFinish
    PROVE  SafeInv'
  <1>1. /\ TypeOK2431' /\ UNCHANGED <<port, wire, line, dev, search, asked>>
        /\ ctx.phase = "DONE" /\ SameCall(ctx') /\ ctx'.phase = "DONE" /\ ctx'.ok = ctx.ok
    BY PollFinishStep DEF SafeInv
  <1>2. TimerServesPhase' BY <1>1 DEF SafeInv, EngineInv, TimerServesPhase, WaitsFor2431
  <1>3. PendingBelongsToSelected'
    BY <1>1 DEF SafeInv, EngineInv, PendingBelongsToSelected, Selected, SameCall
  <1>4. EngineInv' BY <1>1, <1>2, <1>3 DEF SafeInv, EngineInv, Quiet
  <1>5. DevicesInv' BY <1>1 DEF SafeInv, DevicesInv
  <1> QED BY <1>1, <1>4, <1>5 DEF SafeInv

LEMMA EngineOnReset ==
    ASSUME SafeInv, HwReset
    PROVE  SafeInv' /\ ctx.phase = "RESET" /\ ~search
  <1>1. /\ TypeOK2431' /\ UNCHANGED <<ctx, search, app, asked>>
        /\ port.op = "reset" /\ port'.op = "idle" /\ port'.uif
        /\ \A d \in Devices : /\ ~dev'[d].prog /\ dev'[d].sp = dev[d].sp
                              /\ dev'[d].present = dev[d].present
    BY HwResetStep DEF SafeInv
  <1>2. ctx.phase = "RESET" /\ ~search
    BY <1>1 DEF SafeInv, EngineInv, TimerServesPhase, WaitsFor2431
  <1>3. TimerServesPhase'
    BY <1>1, <1>2 DEF SafeInv, EngineInv, TimerServesPhase, WaitsFor2431
  <1>4. EngineInv'
    BY <1>1, <1>2, <1>3 DEF SafeInv, EngineInv, PendingBelongsToSelected, Selected
  <1>5. DevicesInv' BY <1>1 DEF SafeInv, DevicesInv
  <1> QED BY <1>1, <1>2, <1>4, <1>5 DEF SafeInv

\* An operation other than the reset ends: the engine does not move.
LEMMA EngineWaits ==
    ASSUME SafeInv, TypeOK2431', UNCHANGED <<ctx, wire, search, app, asked>>,
           port'.op = "idle", port'.uif
    PROVE  EngineInv'
  <1>1. TimerServesPhase' BY DEF SafeInv, EngineInv, TimerServesPhase, WaitsFor2431
  <1> QED BY <1>1 DEF SafeInv, EngineInv, PendingBelongsToSelected, Selected

LEMMA EngineOnWrite ==
    ASSUME SafeInv, HwWrite
    PROVE  SafeInv' /\ ctx.phase = "CMD" /\ ~search /\ (\A d \in Devices : ~dev[d].prog)
  <1>1. /\ TypeOK2431' /\ UNCHANGED <<ctx, wire, search, app, asked>>
        /\ port.op = "write" /\ port'.op = "idle" /\ port'.uif
        /\ \A d \in Devices : /\ d \in Hearing => dev'[d] \in Heard(dev[d])
                              /\ d \notin Hearing => dev'[d] = dev[d]
    BY HwWriteStep DEF SafeInv
  <1>2. ctx.phase = "CMD" /\ ~search /\ wire.cmd = ctx.cmd
    BY <1>1 DEF SafeInv, EngineInv, TimerServesPhase, WaitsFor2431
  <1>3. \A d \in Devices : ~dev[d].prog BY <1>1, <1>2 DEF SafeInv, DevicesInv
  <1>4. EngineInv' BY <1>1, EngineWaits
  <1>5. ASSUME NEW d \in Devices
        PROVE  /\ ~dev'[d].present => dev'[d].sp.pf
               /\ ~dev'[d].sp.pf => dev'[d].sp.es = 7
               /\ dev'[d].prog => ctx.cmd = "copy_scratchpad"
    <2>1. CASE d \in Hearing
      <3>1. dev[d] \in DeviceType2431 /\ TypeOK2431 /\ dev[d].present
        BY <2>1 DEF SafeInv, TypeOK2431, Hearing
      <3>2. /\ dev'[d] \in DeviceType2431
            /\ dev'[d].present = dev[d].present
            /\ wire.cmd # "copy_scratchpad" => dev'[d].prog = dev[d].prog
            /\ (dev[d].sp.pf \/ dev[d].sp.es = 7) => (dev'[d].sp.pf \/ dev'[d].sp.es = 7)
        BY <1>1, <2>1, <3>1, HeardType
      <3> QED BY <1>2, <1>3, <3>1, <3>2 DEF SafeInv, DevicesInv
    <2>2. CASE d \notin Hearing
      BY <1>1, <1>3, <2>2 DEF SafeInv, DevicesInv
    <2> QED BY <2>1, <2>2
  <1>6. DevicesInv' BY <1>1, <1>2, <1>5 DEF DevicesInv
  <1> QED BY <1>1, <1>2, <1>3, <1>4, <1>6 DEF SafeInv

LEMMA EngineOnWait ==
    ASSUME SafeInv, HwWait
    PROVE  SafeInv' /\ ctx.phase = "WAIT" /\ ~search
  <1>1. /\ TypeOK2431' /\ UNCHANGED <<ctx, wire, search, app, asked>>
        /\ port.op = "wait" /\ port'.op = "idle" /\ port'.uif
        /\ \A d \in Devices : /\ ~dev'[d].prog /\ dev'[d].sp = dev[d].sp
                              /\ dev'[d].present = dev[d].present
    BY HwWaitStep DEF SafeInv
  <1>2. EngineInv' BY <1>1, EngineWaits
  <1>3. ctx.phase = "WAIT" /\ ~search
    BY <1>1 DEF SafeInv, EngineInv, TimerServesPhase, WaitsFor2431
  <1>4. DevicesInv' BY <1>1 DEF SafeInv, DevicesInv
  <1> QED BY <1>1, <1>2, <1>3, <1>4 DEF SafeInv

LEMMA EngineOnRead ==
    ASSUME SafeInv, HwRead
    PROVE  SafeInv' /\ ctx.phase = "READ" /\ ~search /\ (\A d \in Devices : ~dev[d].prog)
  <1>1. /\ TypeOK2431' /\ UNCHANGED <<ctx, wire, dev, search, app, asked>>
        /\ port.op = "read" /\ port'.op = "idle" /\ port'.uif
    BY HwReadStep DEF SafeInv
  <1>2. ctx.phase = "READ" /\ ~search
    BY <1>1 DEF SafeInv, EngineInv, TimerServesPhase, WaitsFor2431
  <1>3. EngineInv' BY <1>1, EngineWaits
  <1>4. \A d \in Devices : ~dev[d].prog BY <1>2 DEF SafeInv, DevicesInv
  <1>5. DevicesInv' BY <1>1, <1>4 DEF SafeInv, DevicesInv
  <1> QED BY <1>1, <1>2, <1>3, <1>4, <1>5 DEF SafeInv

LEMMA EngineOnSlots ==
    ASSUME SafeInv, HwSlots
    PROVE  SafeInv' /\ search
  <1>1. /\ TypeOK2431' /\ UNCHANGED <<ctx, wire, line, dev, search, app, asked>>
        /\ port.op = "slots" /\ port'.op = "idle" /\ port'.uif
    BY HwSlotsStep DEF SafeInv
  <1>2. search BY <1>1 DEF SafeInv, EngineInv, TimerServesPhase, WaitsFor2431
  <1>3. EngineInv' BY <1>1, EngineWaits
  <1>4. \A d \in Devices : ~dev[d].prog BY <1>2 DEF SafeInv, EngineInv, DevicesInv, Quiet
  <1>5. DevicesInv' BY <1>1, <1>4 DEF SafeInv, DevicesInv
  <1> QED BY <1>1, <1>2, <1>3, <1>5 DEF SafeInv

LEMMA EngineOnPlug ==
    ASSUME SafeInv, NEW d \in Devices, Plug(d)
    PROVE  SafeInv'
  <1>1. /\ TypeOK2431' /\ UNCHANGED <<port, ctx, wire, line, search, app, asked>>
        /\ dev'[d].sp = NoScratch /\ ~dev'[d].prog
        /\ \A e \in Devices : e # d => dev'[e] = dev[e]
    BY PlugStep DEF SafeInv
  <1>2. EngineInv'
    BY <1>1 DEF SafeInv, EngineInv, PendingBelongsToSelected, Selected, TimerServesPhase, WaitsFor2431
  <1>3. ASSUME NEW e \in Devices
        PROVE  /\ ~dev'[e].present => dev'[e].sp.pf
               /\ ~dev'[e].sp.pf => dev'[e].sp.es = 7
               /\ dev'[e].prog =>
                     /\ ctx.cmd = "copy_scratchpad"
                     /\ \/ ctx.phase = "CMD" /\ port.op = "idle"
                        \/ ctx.phase = "WAIT" /\ port.op = "wait"
    <2>1. CASE e = d BY <1>1, <2>1, ConstantTypes
    <2>2. CASE e # d BY <1>1, <2>2 DEF SafeInv, DevicesInv
    <2> QED BY <2>1, <2>2
  <1>4. DevicesInv' BY <1>1, <1>3 DEF DevicesInv
  <1> QED BY <1>1, <1>2, <1>4 DEF SafeInv

LEMMA EngineOnBoardReset ==
    ASSUME SafeInv, DemoReset
    PROVE  SafeInv'
  <1>1. /\ TypeOK2431' /\ UNCHANGED <<line, dev, asked>>
        /\ port' = PortInit /\ ctx' = CtxInit /\ ~search' /\ \A d \in Devices : ~dev[d].prog
    BY DemoResetStep DEF SafeInv
  <1>2. EngineInv'
    BY <1>1 DEF EngineInv, PendingBelongsToSelected, TimerServesPhase, WaitsFor2431, CtxInit,
       PortInit, Quiet
  <1>3. DevicesInv' BY <1>1 DEF SafeInv, DevicesInv
  <1> QED BY <1>1, <1>2, <1>3 DEF SafeInv

\* The engine's invariant is kept by every step.
LEMMA EngineSteps == SafeInv /\ DriverStep => SafeInv'
  <1> SUFFICES ASSUME SafeInv, DriverStep PROVE SafeInv' OBVIOUS
  <1>1. CASE Calls BY <1>1, EngineOnCalls
  <1>2. CASE (\E rom \in Roms : Select(rom)) \/ (\E on \in BOOLEAN : SetParasite(on))
    BY <1>2, EngineOnSettings
  <1>3. CASE SearchStart \/ SearchPoll BY <1>3, EngineOnSearch
  <1>4. CASE Poll
    BY <1>4, EngineOnPollReset, EngineOnPollCmd, EngineOnPollRead, EngineOnPollWait,
       EngineOnPollFinish DEF Poll
  <1>5. CASE Hardware
    BY <1>5, EngineOnReset, EngineOnWrite, EngineOnWait, EngineOnRead, EngineOnSlots DEF Hardware
  <1>6. CASE \E d \in Devices : Plug(d) BY <1>6, EngineOnPlug
  <1>7. CASE DemoReset BY <1>7, EngineOnBoardReset
  <1>8. CASE UNCHANGED vars
    BY <1>8 DEF vars, SafeInv, TypeOK2431, EngineInv, DevicesInv, PendingBelongsToSelected,
       Selected, TimerServesPhase, WaitsFor2431
  <1> QED BY <1>1, <1>2, <1>3, <1>4, <1>5, <1>6, <1>7, <1>8 DEF DriverStep

-----------------------------------------------------------------------------
(***************************************************************************)
(* The careful application: what its last call asked for is kept, what the *)
(* echo verified stays verified until the copy, and what is reported has   *)
(* been done.  One lemma per action.                                       *)
(***************************************************************************)
CarefulSafe == SafeInv /\ app.scene.careful /\ CallInv /\ EchoInv /\ ReplyInv
Kept        == CallInv' /\ EchoInv' /\ ReplyInv'

\* Nothing programs outside the window of a copy.
LEMMA NothingPrograms ==
    ASSUME SafeInv, ctx.phase \in Quiet \cup {"RESET", "READ"}
    PROVE  \A d \in Devices : ~dev[d].prog
  BY DEF SafeInv, DevicesInv, Quiet

\* A careful application calls between operations, so its calls are accepted.
LEMMA CarefulCalls ==
    ASSUME CarefulSafe, MayCall
    PROVE  /\ ctx.finished /\ ~search /\ ctx.par = (Parasitic # {}) /\ CanStart
           /\ ctx.phase \in Quiet /\ (\A d \in Devices : ~dev[d].prog)
  <1>1. ctx.finished /\ ~search /\ ctx.par = (Parasitic # {}) BY DEF CarefulSafe, MayCall
  <1>2. ctx.phase \in Quiet BY <1>1 DEF CarefulSafe, SafeInv, EngineInv, TimerServesPhase, Quiet
  <1> QED BY <1>1, <1>2, NothingPrograms DEF CarefulSafe, CanStart, Quiet

LEMMA CarefulOnCalls ==
    ASSUME CarefulSafe, Calls
    PROVE  Kept
  <1>1. MayCall BY DEF Calls, ReadMemory, WriteScratchpad, ReadScratchpad, CopyScratchpad
  <1>2. /\ ctx.finished /\ ~search /\ ctx.par = (Parasitic # {}) /\ CanStart
        /\ ctx.phase \in Quiet /\ (\A d \in Devices : ~dev[d].prog)
    BY <1>1, CarefulCalls
  <1>3. Accepted /\ UNCHANGED <<wire, line, dev, search>>
    BY <1>2, CallTypes DEF CarefulSafe, SafeInv, Ignored
  <1>4. /\ ctx'.phase = "RESET" /\ ~ctx'.ok /\ ~ctx'.finished /\ ctx'.par = (Parasitic # {})
        /\ ctx'.addr = ctx.addr /\ ctx'.rom = ctx.rom /\ port'.op = "reset" /\ port'.pin = "od"
    BY <1>2, <1>3, ResetPortType DEF Accepted, CarefulSafe, SafeInv, TypeOK2431
  <1>5. /\ app'.cycle # "none" =>
              /\ ctx'.pending /\ ctx'.ta = asked'.wta /\ ctx'.data = asked'.wdata
              /\ ctx'.es = asked'.wlen - 1
        /\ app'.cycle = "verified" => ctx'.cmd = "read_scratchpad"
        /\ ctx'.cmd = "read_scratchpad" => ctx'.echo /\ ctx'.len = FrameLen
        /\ ctx'.cmd \in {"read_memory", "copy_scratchpad"} => ctx'.ta = asked'.ta
        /\ ctx'.cmd = "copy_scratchpad" => ctx'.ta = asked'.wta
        /\ app'.cycle = "verified" \/ ctx'.cmd = "copy_scratchpad" =>
              /\ app.cycle = "verified"
              /\ asked'.wta = asked.wta /\ asked'.wdata = asked.wdata /\ asked'.wlen = asked.wlen
    <2>1. ASSUME NEW b \in Blocks, ReadMemory(b)
          PROVE  ctx'.cmd = "read_memory" /\ ctx'.ta = asked'.ta /\ app'.cycle = "none"
      BY <1>2, <2>1, ReadMemoryCall DEF CarefulSafe, SafeInv
    <2>2. ASSUME NEW b \in Blocks, NEW n \in 1..8, NEW v \in Contents, WriteScratchpad(b, n, v)
          PROVE  /\ ctx'.cmd = "write_scratchpad" /\ ctx'.pending /\ ctx'.ta = asked'.wta
                 /\ ctx'.data = asked'.wdata /\ ctx'.es = asked'.wlen - 1 /\ app'.cycle = "written"
      BY <1>2, <2>2, WriteScratchpadCall DEF CarefulSafe, SafeInv
    <2>3. CASE ReadScratchpad
      <3>1. /\ ctx'.cmd = "read_scratchpad" /\ ctx'.echo /\ ctx'.len = FrameLen
            /\ ctx'.pending = ctx.pending /\ ctx'.ta = ctx.ta /\ ctx'.es = ctx.es
            /\ ctx'.data = ctx.data /\ UNCHANGED app
            /\ asked'.wta = asked.wta /\ asked'.wdata = asked.wdata /\ asked'.wlen = asked.wlen
        BY <1>2, <2>3, ReadScratchpadCall DEF CarefulSafe, SafeInv
      <3> QED BY <3>1 DEF CarefulSafe, CallInv
    <2>4. CASE CopyScratchpad
      <3>1. /\ ctx'.cmd = "copy_scratchpad" /\ ctx'.ta = ctx.ta /\ asked'.ta = asked.wta
            /\ app'.cycle = "none" /\ app.cycle = "verified"
            /\ asked'.wta = asked.wta /\ asked'.wdata = asked.wdata /\ asked'.wlen = asked.wlen
        BY <1>2, <2>4, CopyScratchpadCall DEF CarefulSafe, SafeInv
      <3> QED BY <3>1 DEF CarefulSafe, CallInv
    <2> QED BY <2>1, <2>2, <2>3, <2>4 DEF Calls
  <1>6. CallInv' BY <1>4, <1>5 DEF CallInv
  <1>7. EchoInv'
    <2>1. Verified' => app.cycle = "verified" /\ asked'.wta = asked.wta
                       /\ asked'.wdata = asked.wdata /\ asked'.wlen = asked.wlen
      BY <1>4, <1>5 DEF Verified
    <2>2. Addressed' = Addressed BY <1>4 DEF Addressed, Selected
    <2>3. Verified' => \A d \in Addressed' : HoldsWrite(d)'
      BY <1>3, <2>1, <2>2 DEF CarefulSafe, EchoInv, Verified, HoldsWrite
    <2> QED BY <1>2, <1>3, <1>4, <2>3 DEF EchoInv
  <1>8. ReplyInv' BY <1>4 DEF ReplyInv, AfterReset, Reported
  <1> QED BY <1>6, <1>7, <1>8 DEF Kept

LEMMA CarefulOnSettings ==
    ASSUME CarefulSafe, (\E rom \in Roms : Select(rom)) \/ (\E on \in BOOLEAN : SetParasite(on))
    PROVE  Kept
  <1>1. ctx.finished => ctx.phase \in Quiet /\ (\A d \in Devices : ~dev[d].prog)
    <2>1. ctx.finished => ctx.phase \in Quiet
      BY DEF CarefulSafe, SafeInv, EngineInv, TimerServesPhase, Quiet
    <2> QED BY <2>1, NothingPrograms DEF CarefulSafe
  <1>2. ASSUME NEW rom \in Roms, Select(rom) PROVE Kept
    <2>1. /\ UNCHANGED <<port, wire, line, dev, search, asked>>
          /\ ctx'.phase = ctx.phase /\ ctx'.finished /\ ctx.finished
          /\ ctx'.cmd = ctx.cmd /\ ctx'.par = ctx.par /\ app'.cycle = "none"
      BY <1>2, SelectStep DEF CarefulSafe, SafeInv
    <2>2. CallInv' BY <1>1, <2>1 DEF CarefulSafe, CallInv, Quiet
    <2>3. EchoInv' BY <1>1, <2>1 DEF EchoInv, Verified, Quiet
    <2>4. ReplyInv' BY <1>1, <2>1 DEF ReplyInv, AfterReset, Reported, Quiet
    <2> QED BY <2>2, <2>3, <2>4 DEF Kept
  <1>3. ASSUME NEW on \in BOOLEAN, SetParasite(on) PROVE Kept
    <2>1. /\ UNCHANGED <<port, wire, line, dev, search, asked, app>>
          /\ SameCall(ctx') /\ ctx'.phase = ctx.phase /\ ctx'.finished /\ ctx.finished
      BY <1>3, SetParasiteStep DEF CarefulSafe, SafeInv
    <2>2. CallInv' BY <1>1, <2>1 DEF CarefulSafe, CallInv, Quiet, SameCall
    <2>3. Addressed' = Addressed BY <2>1 DEF Addressed, Selected, SameCall
    <2>4. EchoInv'
      BY <1>1, <2>1, <2>3 DEF CarefulSafe, EchoInv, Verified, HoldsWrite, Quiet
    <2>5. ReplyInv' BY <1>1, <2>1 DEF ReplyInv, AfterReset, Reported, Quiet
    <2> QED BY <2>2, <2>4, <2>5 DEF Kept
  <1> QED BY <1>2, <1>3

\* Steps of a device search, which runs between operations.
LEMMA CarefulOnSearch ==
    ASSUME CarefulSafe, UNCHANGED <<ctx, wire, line, dev, app, asked>>, port'.pin = port.pin,
           ctx.phase \in Quiet
    PROVE  Kept
  <1>1. CallInv' BY DEF CarefulSafe, CallInv, Quiet, Selected
  <1>2. Addressed' = Addressed BY DEF Addressed, Selected
  <1>3. EchoInv' BY <1>2 DEF CarefulSafe, EchoInv, Verified, HoldsWrite, Quiet
  <1>4. ReplyInv'
    BY <1>2 DEF CarefulSafe, ReplyInv, AfterReset, Reported, HasBlock, Quiet, BlocksRead
  <1> QED BY <1>1, <1>3, <1>4 DEF Kept

LEMMA CarefulOnPollReset ==
    ASSUME CarefulSafe, PollReset
    PROVE  Kept
  <1>1. /\ UNCHANGED <<line, dev, search, app, asked>>
        /\ ~ctx.finished /\ ctx.phase = "RESET" /\ port.uif
        /\ SameCall(ctx') /\ ctx'.par = ctx.par /\ ctx'.ok = ctx.ok /\ ctx'.finished = ctx.finished
        /\ \/ /\ ctx'.phase = "CMD" /\ port'.op = "write"
              /\ port'.pin = IF ctx.par THEN "pp" ELSE port.pin
              /\ wire'.rom = Selected /\ wire'.ta = ctx.ta
           \/ ctx'.phase = "DONE" /\ port'.pin = port.pin
    BY PollResetStep DEF CarefulSafe, SafeInv
  <1>2. port.op = "idle" /\ ~ctx.ok
    BY <1>1 DEF CarefulSafe, SafeInv, EngineInv, TimerServesPhase, Quiet
  <1>3. Addressed' = Addressed /\ Selected' = Selected
    BY <1>1 DEF Addressed, Selected, SameCall
  <1>4. \A d \in Devices : ~dev[d].prog BY <1>1, NothingPrograms DEF CarefulSafe
  <1>5. CallInv' BY <1>1, <1>2, <1>3 DEF CarefulSafe, CallInv, SameCall
  <1>6. EchoInv'
    <2>1. Verified' => Verified BY <1>1, <1>2 DEF Verified, SameCall
    <2>2. \A d : HoldsWrite(d)' <=> HoldsWrite(d) BY <1>1 DEF HoldsWrite
    <2> QED BY <1>1, <1>3, <1>4, <2>1, <2>2 DEF CarefulSafe, EchoInv
  <1>7. ReplyInv'
    BY <1>1, <1>2 DEF CarefulSafe, ReplyInv, AfterReset, Reported
  <1> QED BY <1>5, <1>6, <1>7 DEF Kept

LEMMA CarefulOnPollCmd ==
    ASSUME CarefulSafe, PollCmd
    PROVE  Kept
  <1>1. /\ UNCHANGED <<wire, line, dev, search, app, asked>>
        /\ ~ctx.finished /\ ctx.phase = "CMD" /\ port.uif
        /\ SameCall(ctx') /\ ctx'.par = ctx.par /\ ctx'.finished = ctx.finished
        /\ \/ /\ ctx.cmd = "copy_scratchpad" /\ ctx'.phase = "WAIT" /\ port'.pin = port.pin
           \/ /\ ctx.cmd # "copy_scratchpad" /\ ctx'.phase = "READ"
              /\ port'.op = "read" /\ port'.pin = IF ctx.par THEN "od" ELSE port.pin
           \/ /\ ctx.cmd # "copy_scratchpad" /\ ctx'.phase = "DONE" /\ ctx.len = 0
              /\ port'.pin = IF ctx.par THEN "od" ELSE port.pin
    BY PollCmdStep DEF CarefulSafe, SafeInv
  <1>2. port.op = "idle"
    BY <1>1 DEF CarefulSafe, SafeInv, EngineInv, TimerServesPhase
  <1>3. Addressed' = Addressed /\ Selected' = Selected
    BY <1>1 DEF Addressed, Selected, SameCall
  <1>4. ctx'.phase = "DONE" => ctx.cmd # "read_scratchpad"
    BY <1>1, ConstantTypes DEF CarefulSafe, CallInv
  <1>5. CallInv' BY <1>1, <1>3 DEF CarefulSafe, CallInv, SameCall
  <1>6. EchoInv'
    <2>1. Verified' => Verified BY <1>1, <1>4 DEF Verified, SameCall
    <2>2. \A d : HoldsWrite(d)' <=> HoldsWrite(d) BY <1>1 DEF HoldsWrite
    <2>3. ctx'.phase # "CMD" /\ (ctx'.phase = "READ" => port'.op = "read") BY <1>1
    <2> QED BY <1>1, <1>2, <1>3, <2>1, <2>2, <2>3 DEF CarefulSafe, EchoInv, SameCall
  <1>7. ReplyInv'
    <2>1. line.raw = BadRaw /\ \A d \in Devices : ~dev[d].done
      BY <1>1 DEF CarefulSafe, ReplyInv, AfterReset
    <2>2. BadRaw.data = "ones" BY DEF BadRaw, Raw
    <2> QED BY <1>1, <2>1, <2>2 DEF ReplyInv, AfterReset, Reported, SameCall
  <1> QED BY <1>5, <1>6, <1>7 DEF Kept

LEMMA CarefulOnPollRead ==
    ASSUME CarefulSafe, PollRead
    PROVE  Kept
  <1>1. /\ UNCHANGED <<wire, line, dev, search, app, asked>>
        /\ ~ctx.finished /\ ctx.phase = "READ" /\ port.uif
        /\ SameCall(ctx') /\ ctx'.par = ctx.par /\ ctx'.phase = "DONE"
        /\ ctx'.finished = ctx.finished /\ ctx'.ok \in Verdicts /\ port'.pin = port.pin
    BY PollReadStep DEF CarefulSafe, SafeInv
  <1>2. port.op = "idle"
    BY <1>1 DEF CarefulSafe, SafeInv, EngineInv, TimerServesPhase
  <1>3. Addressed' = Addressed /\ Selected' = Selected
    BY <1>1 DEF Addressed, Selected, SameCall
  <1>4. \A d \in Devices : ~dev[d].prog BY <1>1, NothingPrograms DEF CarefulSafe
  <1>5. ctx'.ok = ReadOk(ctx, line.raw)
    BY <1>1 DEF CarefulSafe, CallInv, Verdicts, FrameLen
  <1>6. CallInv' BY <1>1, <1>3 DEF CarefulSafe, CallInv, SameCall
  <1>7. EchoInv'
    <2>1. ASSUME ctx.cmd = "read_scratchpad", ctx'.ok, app.cycle = "written", NEW d \in Addressed
          PROVE  HoldsWrite(d)
      <3>1. ctx.echo /\ ctx.pending /\ ctx.ta = asked.wta /\ ctx.data = asked.wdata
            /\ ctx.es = asked.wlen - 1
        BY <1>1, <2>1 DEF CarefulSafe, CallInv
      <3>2. EchoOk(ctx, line.raw) BY <1>5, <2>1 DEF ReadOk
      <3>3. line.raw.kind = "frame" /\ line.raw.ta = asked.wta /\ line.raw.es = asked.wlen - 1
            /\ line.raw.data = asked.wdata
        BY <3>1, <3>2 DEF EchoOk
      <3>4. \/ dev[d].sp.pf
            \/ dev[d].sp.ta = asked.wta /\ dev[d].sp.es = asked.wlen - 1
               /\ dev[d].sp.data = asked.wdata
        BY <1>1, <1>2, <2>1, <3>3 DEF CarefulSafe, EchoInv
      <3>5. d \in Devices /\ (~dev[d].sp.pf => dev[d].sp.es = 7)
        BY DEF Addressed, CarefulSafe, SafeInv, DevicesInv
      <3>6. asked.wlen \in 0..8 BY DEF CarefulSafe, SafeInv, TypeOK2431
      <3> QED BY <3>4, <3>5, <3>6 DEF HoldsWrite
    <2>2. Verified' => \A d \in Addressed : HoldsWrite(d)
      BY <1>1, <2>1 DEF CarefulSafe, EchoInv, Verified, SameCall
    <2>3. \A d : HoldsWrite(d)' <=> HoldsWrite(d) BY <1>1 DEF HoldsWrite
    <2> QED BY <1>1, <1>3, <1>4, <2>2, <2>3 DEF EchoInv
  <1>8. ReplyInv'
    <2>1. ctx.cmd = "copy_scratchpad" /\ ctx'.ok => \E d \in Addressed : HasBlock(d)
      BY <1>1, <1>5 DEF CarefulSafe, ReplyInv, ReadOk
    <2>2. \A d : HasBlock(d)' <=> HasBlock(d) BY <1>1 DEF HasBlock
    <2>3. ctx.cmd = "read_memory" =>
             \/ line.raw.data \in {"garbled", "ones"}
             \/ \E d \in Devices, b \in BlocksRead : line.raw.data = dev[d].eeprom[b]
      BY <1>1 DEF CarefulSafe, ReplyInv
    <2> QED BY <1>1, <1>3, <2>1, <2>2, <2>3 DEF ReplyInv, AfterReset, Reported, SameCall, BlocksRead
  <1> QED BY <1>6, <1>7, <1>8 DEF Kept

LEMMA CarefulOnPollWait ==
    ASSUME CarefulSafe, PollWait
    PROVE  Kept
  <1>1. /\ UNCHANGED <<wire, line, dev, search, app, asked>>
        /\ ~ctx.finished /\ ctx.phase = "WAIT" /\ port.uif
        /\ SameCall(ctx') /\ ctx'.par = ctx.par /\ ctx'.phase = "READ"
        /\ ctx'.finished = ctx.finished /\ port'.op = "read" /\ port'.pin = "od"
    BY PollWaitStep DEF CarefulSafe, SafeInv
  <1>2. port.op = "idle" /\ ctx.cmd = "copy_scratchpad"
    BY <1>1 DEF CarefulSafe, SafeInv, EngineInv, TimerServesPhase
  <1>3. Addressed' = Addressed /\ Selected' = Selected
    BY <1>1 DEF Addressed, Selected, SameCall
  <1>4. \A d \in Devices : ~dev[d].prog
    BY <1>1, <1>2 DEF CarefulSafe, SafeInv, DevicesInv
  <1>5. CallInv' BY <1>1, <1>3 DEF CarefulSafe, CallInv, SameCall
  <1>6. EchoInv'
    <2>1. Verified' => Verified BY <1>1 DEF Verified
    <2>2. \A d : HoldsWrite(d)' <=> HoldsWrite(d) BY <1>1 DEF HoldsWrite
    <2> QED BY <1>1, <1>2, <1>3, <1>4, <2>1, <2>2 DEF CarefulSafe, EchoInv, SameCall
  <1>7. ReplyInv'
    <2>1. line.raw = BadRaw /\ \A d \in Devices : dev[d].done => d \in Addressed /\ HasBlock(d)
      BY <1>1 DEF CarefulSafe, ReplyInv, AfterReset
    <2>2. BadRaw.kind = "bad" BY DEF BadRaw, Raw
    <2>3. \A d : HasBlock(d)' <=> HasBlock(d) BY <1>1 DEF HasBlock
    <2> QED BY <1>1, <1>2, <1>3, <2>1, <2>2, <2>3 DEF ReplyInv, AfterReset, Reported, SameCall
  <1> QED BY <1>5, <1>6, <1>7 DEF Kept

LEMMA CarefulOnPollFinish ==
    ASSUME CarefulSafe, PollFinish
    PROVE  Kept
  <1>1. /\ UNCHANGED <<port, wire, line, dev, search, asked>>
        /\ ~ctx.finished /\ ctx.phase = "DONE"
        /\ SameCall(ctx') /\ ctx'.par = ctx.par /\ ctx'.phase = "DONE" /\ ctx'.finished
        /\ \/ app'.cycle = "none"
           \/ app'.cycle = app.cycle
           \/ app'.cycle = "verified" /\ ctx.cmd = "read_scratchpad" /\ ctx.ok
              /\ app.cycle = "written"
    BY PollFinishStep DEF CarefulSafe, SafeInv
  <1>2. Addressed' = Addressed BY <1>1 DEF Addressed, Selected, SameCall
  <1>3. \A d \in Devices : ~dev[d].prog BY <1>1, NothingPrograms DEF CarefulSafe, Quiet
  <1>4. CallInv' BY <1>1 DEF CarefulSafe, CallInv, SameCall
  <1>5. EchoInv'
    <2>1. Verified' => Verified BY <1>1 DEF Verified
    <2>2. \A d : HoldsWrite(d)' <=> HoldsWrite(d) BY <1>1 DEF HoldsWrite
    <2> QED BY <1>1, <1>2, <1>3, <2>1, <2>2 DEF CarefulSafe, EchoInv
  <1>6. ReplyInv' BY <1>1 DEF ReplyInv, AfterReset, Reported
  <1> QED BY <1>4, <1>5, <1>6 DEF Kept

LEMMA CarefulOnReset ==
    ASSUME CarefulSafe, HwReset
    PROVE  Kept
  <1>1. /\ UNCHANGED <<ctx, search, app, asked>>
        /\ port'.op = "idle" /\ port'.pin = port.pin /\ line'.raw = BadRaw
        /\ \A d \in Devices : ~dev'[d].prog /\ ~dev'[d].done /\ dev'[d].sp = dev[d].sp
    BY HwResetStep DEF CarefulSafe, SafeInv
  <1>2. ctx.phase = "RESET" /\ ~ctx.ok
    BY EngineOnReset DEF CarefulSafe, SafeInv, EngineInv, Quiet
  <1>3. Addressed' = Addressed /\ Addressed \subseteq Devices BY <1>1 DEF Addressed, Selected
  <1>4. CallInv' BY <1>1, <1>2 DEF CarefulSafe, CallInv
  <1>5. EchoInv'
    <2>1. Verified' => Verified BY <1>1 DEF Verified
    <2>2. \A d \in Devices : HoldsWrite(d)' <=> HoldsWrite(d) BY <1>1 DEF HoldsWrite
    <2> QED BY <1>1, <1>2, <1>3, <2>1, <2>2 DEF CarefulSafe, EchoInv
  <1>6. ReplyInv' BY <1>1, <1>2 DEF ReplyInv, AfterReset, Reported
  <1> QED BY <1>4, <1>5, <1>6 DEF Kept

\* A device that is addressed hears the command, or it is away.
LEMMA CarefulOnWrite ==
    ASSUME CarefulSafe, HwWrite
    PROVE  Kept
  <1>1. /\ UNCHANGED <<ctx, wire, search, app, asked>> /\ TypeOK2431
        /\ port'.op = "idle" /\ port'.pin = port.pin
        /\ line'.heard = Hearing /\ line'.raw = line.raw
        /\ \A d \in Devices : /\ d \in Hearing => dev'[d] \in Heard(dev[d])
                              /\ d \notin Hearing => dev'[d] = dev[d]
    BY HwWriteStep DEF CarefulSafe, SafeInv
  <1>2. ctx.phase = "CMD" /\ ~ctx.finished /\ wire.cmd = ctx.cmd /\ wire.rom = Selected
        /\ \A d \in Devices : ~dev[d].prog
    BY EngineOnWrite DEF CarefulSafe, SafeInv, EngineInv, TimerServesPhase, CallInv
  <1>3. Addressed' = Addressed /\ Addressed \subseteq Devices BY <1>1 DEF Addressed, Selected
  <1>4. Hearing = {d \in Addressed : dev[d].present} BY <1>2 DEF Hearing, Addressed
  <1>5. ASSUME NEW d \in Devices
        PROVE  /\ dev'[d].done = dev[d].done
               /\ ctx.cmd # "write_scratchpad" => dev'[d].sp = dev[d].sp
               /\ dev'[d].prog => d \in Addressed /\ ~dev'[d].sp.pf
    <2>1. CASE d \in Hearing
      <3>1. dev[d] \in DeviceType2431 BY <1>1 DEF TypeOK2431
      <3>2. /\ dev'[d].done = dev[d].done
            /\ wire.cmd # "write_scratchpad" => dev'[d].sp = dev[d].sp
            /\ wire.cmd # "copy_scratchpad" => dev'[d].prog = dev[d].prog
            /\ wire.cmd = "copy_scratchpad" =>
                  dev'[d].prog = dev[d].prog \/ dev'[d].prog = Authorized(dev[d].sp)
        BY <1>1, <2>1, <3>1, HeardType
      <3>3. Authorized(dev[d].sp) => ~dev[d].sp.pf BY DEF Authorized
      <3> QED BY <1>2, <1>4, <2>1, <3>2, <3>3
    <2>2. CASE d \notin Hearing BY <1>1, <1>2, <2>2
    <2> QED BY <2>1, <2>2
  <1>6. CallInv' BY <1>1 DEF CarefulSafe, CallInv, Selected
  <1>7. EchoInv'
    <2>1. Verified' => Verified /\ ctx.cmd # "write_scratchpad"
      BY <1>1, <1>2 DEF Verified, CarefulSafe, CallInv
    <2>2. Verified' => \A d \in Addressed : HoldsWrite(d)'
      BY <1>1, <1>3, <1>5, <2>1 DEF CarefulSafe, EchoInv, HoldsWrite
    <2>3. ctx.cmd = "read_scratchpad" => \A d \in Addressed : d \in line'.heard \/ dev'[d].sp.pf
      <3> SUFFICES ASSUME ctx.cmd = "read_scratchpad", NEW d \in Addressed, ~dev[d].present
                   PROVE  dev'[d].sp.pf
        BY <1>1, <1>4
      <3> QED BY <1>3, <1>5 DEF CarefulSafe, SafeInv, DevicesInv
    <2> QED BY <1>1, <1>2, <1>3, <1>5, <2>2, <2>3 DEF EchoInv
  <1>8. ReplyInv'
    <2>1. line.raw = BadRaw /\ \A d \in Devices : ~dev[d].done
      BY <1>2 DEF CarefulSafe, ReplyInv, AfterReset
    <2> QED BY <1>1, <1>2, <1>5, <2>1 DEF ReplyInv, AfterReset, Reported
  <1> QED BY <1>6, <1>7, <1>8 DEF Kept

\* The window of a copy: the supply has been there, so what programs now holds
\* the last write.
LEMMA WindowPrograms ==
    ASSUME CarefulSafe, HwWait, NEW d \in Devices, dev[d].prog
    PROVE  /\ d \in Addressed /\ Powered(d) /\ dev'[d].done
           /\ dev[d].sp.ta = asked.wta /\ dev[d].sp.data = asked.wdata /\ asked.wlen = 8
           /\ dev'[d].eeprom = [dev[d].eeprom EXCEPT ![asked.wta] = asked.wdata]
  <1>1. ctx.phase = "WAIT" BY EngineOnWait DEF CarefulSafe
  <1>2. ~ctx.finished /\ ctx.cmd = "copy_scratchpad"
    BY <1>1 DEF CarefulSafe, SafeInv, EngineInv, TimerServesPhase
  <1>3. Powered(d)
    <2>1. ctx.par = (Parasitic # {}) /\ port.pin = IF ctx.par THEN "pp" ELSE "od"
      BY <1>1, <1>2 DEF CarefulSafe, CallInv
    <2> QED BY <2>1 DEF Powered
  <1>4. d \in Addressed /\ ~dev[d].sp.pf BY DEF CarefulSafe, EchoInv
  <1>5. HoldsWrite(d) BY <1>1, <1>2, <1>4 DEF CarefulSafe, EchoInv, Verified
  <1>6. dev[d].sp.ta = asked.wta /\ dev[d].sp.data = asked.wdata /\ asked.wlen = 8
    BY <1>4, <1>5 DEF HoldsWrite
  <1>7. dev'[d].done /\ dev'[d].eeprom = [dev[d].eeprom EXCEPT ![dev[d].sp.ta] = dev[d].sp.data]
    BY <1>3, HwWaitStep DEF CarefulSafe, SafeInv
  <1> QED BY <1>3, <1>4, <1>6, <1>7

LEMMA CarefulOnWait ==
    ASSUME CarefulSafe, HwWait
    PROVE  Kept
  <1>1. /\ UNCHANGED <<ctx, wire, line, search, app, asked>> /\ TypeOK2431
        /\ port'.op = "idle" /\ port'.pin = port.pin
        /\ \A d \in Devices : /\ ~dev'[d].prog /\ dev'[d].sp = dev[d].sp
                              /\ ~dev[d].prog => dev'[d] = dev[d]
    BY HwWaitStep DEF CarefulSafe, SafeInv
  <1>2. ctx.phase = "WAIT" BY EngineOnWait DEF CarefulSafe
  <1>3. Addressed' = Addressed /\ Addressed \subseteq Devices BY <1>1 DEF Addressed, Selected
  <1>4. CallInv' BY <1>1 DEF CarefulSafe, CallInv, Selected
  <1>5. EchoInv'
    <2>1. Verified' => Verified BY <1>1 DEF Verified
    <2>2. \A d \in Devices : HoldsWrite(d)' <=> HoldsWrite(d) BY <1>1 DEF HoldsWrite
    <2> QED BY <1>1, <1>2, <1>3, <2>1, <2>2 DEF CarefulSafe, EchoInv
  <1>6. ReplyInv'
    <2>1. line.raw = BadRaw /\ \A d \in Devices : dev[d].done => d \in Addressed /\ HasBlock(d)
      BY <1>2 DEF CarefulSafe, ReplyInv, AfterReset
    <2>2. ASSUME NEW d \in Devices, dev'[d].done PROVE d \in Addressed /\ HasBlock(d)'
      <3>1. CASE ~dev[d].prog BY <1>1, <2>1, <2>2, <3>1 DEF HasBlock
      <3>2. CASE dev[d].prog
        <4>1. dev[d].eeprom \in [Blocks -> Contents] /\ asked.wta \in Blocks
          BY <1>1 DEF TypeOK2431, DeviceType2431
        <4>2. d \in Addressed /\ dev'[d].eeprom = [dev[d].eeprom EXCEPT ![asked.wta] = asked.wdata]
          BY <3>2, WindowPrograms
        <4> QED BY <1>1, <4>1, <4>2 DEF HasBlock
      <3> QED BY <3>1, <3>2
    <2> QED BY <1>1, <1>2, <1>3, <2>1, <2>2 DEF ReplyInv, AfterReset, Reported
  <1> QED BY <1>4, <1>5, <1>6 DEF Kept

\* What a device answers that took the address of a Read Memory for another.
OtherBlock(r) ==
    /\ app.scene.noise /\ wire.cmd = "read_memory"
    /\ \E d \in Answering, b \in Blocks : r = Raw("data", b, 7, FALSE, dev[d].eeprom[b])

\* An answer other than garbage is the one of every device that answers.
LEMMA AnswersAgree ==
    ASSUME TypeOK2431, NEW r \in Replies \cup NoisyReplies
    PROVE  \/ r.kind = "bad" /\ r.data \in {"ones", "garbled"}
           \/ /\ \E d \in Answering : r = Reply(d)
              /\ \A d \in Answering : Reply(d) = BadRaw \/ Reply(d) = r
           \/ OtherBlock(r)
  <1>1. CASE r = BadRaw \/ r = [BadRaw EXCEPT !.data = "garbled"]
    BY <1>1 DEF BadRaw, Raw
  <1>2. CASE r \in {Reply(d) : d \in Answering} \ {BadRaw}
             /\ \A a, b \in {Reply(d) : d \in Answering} \ {BadRaw} : a = b
    BY <1>2
  <1>3. CASE r \in NoisyReplies BY <1>1, <1>3 DEF NoisyReplies, OtherBlock
  <1> QED BY <1>1, <1>2, <1>3 DEF Replies

LEMMA CarefulOnRead ==
    ASSUME CarefulSafe, HwRead
    PROVE  Kept
  <1>1. /\ UNCHANGED <<ctx, wire, dev, search, app, asked>> /\ TypeOK2431
        /\ port'.op = "idle" /\ port'.pin = port.pin /\ line'.heard = line.heard
        /\ line'.raw \in Replies \cup NoisyReplies
    BY HwReadStep DEF CarefulSafe, SafeInv
  <1>2. /\ ctx.phase = "READ" /\ ~ctx.finished /\ wire.cmd = ctx.cmd /\ wire.ta = ctx.ta
        /\ \A d \in Devices : ~dev[d].prog
    BY EngineOnRead DEF CarefulSafe, SafeInv, EngineInv, TimerServesPhase, CallInv
  <1>3. Addressed' = Addressed /\ Addressed \subseteq Devices BY <1>1 DEF Addressed, Selected
  <1> DEFINE r == line'.raw
  <1>4. \/ r.kind = "bad" /\ r.data \in {"ones", "garbled"}
        \/ /\ \E d \in Answering : r = Reply(d)
           /\ \A d \in Answering : Reply(d) = BadRaw \/ Reply(d) = r
        \/ OtherBlock(r)
    BY <1>1, AnswersAgree
  <1>5. Answering = {d \in line.heard : dev[d].present} /\ line.heard \subseteq Devices
    BY <1>1 DEF Answering, TypeOK2431
  <1>6. BadRaw.kind = "bad" /\ BadRaw.data = "ones" BY DEF BadRaw, Raw
  <1> HIDE DEF r
  <1>7. CallInv' BY <1>1 DEF CarefulSafe, CallInv, Selected
  <1>8. EchoInv'
    <2>1. Verified' => Verified BY <1>1 DEF Verified
    <2>2. \A d \in Devices : HoldsWrite(d)' <=> HoldsWrite(d) BY <1>1 DEF HoldsWrite
    <2>3. ASSUME ctx.cmd = "read_scratchpad", r.kind = "frame", NEW d \in Addressed, ~dev[d].sp.pf
          PROVE  dev[d].sp.ta = r.ta /\ dev[d].sp.es = r.es /\ dev[d].sp.data = r.data
      <3>1. d \in line.heard BY <1>2, <2>3 DEF CarefulSafe, EchoInv
      <3>2. dev[d].present BY <1>3, <2>3 DEF CarefulSafe, SafeInv, DevicesInv
      <3>3. Reply(d) = Raw("frame", dev[d].sp.ta, dev[d].sp.es, dev[d].sp.pf, dev[d].sp.data)
        BY <1>2, <2>3 DEF Reply
      <3>4. Reply(d) # BadRaw BY <1>6, <3>3 DEF Raw
      <3>5. ~OtherBlock(r) BY <1>2, <2>3 DEF OtherBlock
      <3>6. Reply(d) = r BY <1>4, <1>5, <2>3, <3>1, <3>2, <3>4, <3>5
      <3> QED BY <3>3, <3>6 DEF Raw
    <2> QED BY <1>1, <1>2, <1>3, <2>1, <2>2, <2>3 DEF CarefulSafe, EchoInv, r
  <1>9. ReplyInv'
    <2>1. \A d \in Devices : dev[d].done => d \in Addressed /\ HasBlock(d)
      BY <1>2 DEF CarefulSafe, ReplyInv, AfterReset
    <2>2. \A d : HasBlock(d)' <=> HasBlock(d) BY <1>1 DEF HasBlock
    <2>3. ASSUME ctx.cmd = "copy_scratchpad", r.kind = "status"
          PROVE  \E d \in Addressed : HasBlock(d)
      <3>0. ~OtherBlock(r) BY <1>2, <2>3 DEF OtherBlock
      <3>1. PICK d \in Answering : r = Reply(d) BY <1>4, <2>3, <3>0
      <3>2. dev[d].done BY <1>2, <1>6, <2>3, <3>1 DEF Reply
      <3> QED BY <1>5, <2>1, <3>1, <3>2
    <2>4. ASSUME ctx.cmd = "read_memory"
          PROVE  \/ r.data \in {"garbled", "ones"}
                 \/ \E d \in Devices, b \in BlocksRead : r.data = dev[d].eeprom[b]
      <3>1. CASE r.data \in {"ones", "garbled"} BY <3>1
      <3>2. CASE \E d \in Answering : r = Reply(d)
        <4>1. PICK d \in Answering : r = Reply(d) BY <3>2
        <4>2. wire.ta = asked.ta BY <1>2, <2>4 DEF CarefulSafe, CallInv
        <4>3. Reply(d).data = dev[d].eeprom[asked.ta] BY <1>2, <2>4, <4>2 DEF Reply, Raw
        <4>4. asked.ta \in BlocksRead BY <1>1 DEF BlocksRead, TypeOK2431
        <4> QED BY <1>5, <4>1, <4>3, <4>4
      <3>3. CASE OtherBlock(r)
        <4>1. PICK d \in Answering, b \in Blocks : r = Raw("data", b, 7, FALSE, dev[d].eeprom[b])
          BY <3>3 DEF OtherBlock
        <4>2. b \in BlocksRead BY <3>3 DEF OtherBlock, BlocksRead
        <4> QED BY <1>5, <4>1, <4>2 DEF Raw
      <3> QED BY <1>4, <3>1, <3>2, <3>3
    <2> QED BY <1>1, <1>2, <1>3, <2>1, <2>2, <2>3, <2>4 DEF ReplyInv, AfterReset, Reported, BlocksRead, r
  <1> QED BY <1>7, <1>8, <1>9 DEF Kept

LEMMA CarefulOnPlug ==
    ASSUME CarefulSafe, NEW d \in Devices, Plug(d)
    PROVE  Kept
  <1>1. /\ UNCHANGED <<port, ctx, wire, line, search, app, asked>>
        /\ dev'[d].sp.pf /\ ~dev'[d].prog /\ ~dev'[d].done
        /\ ~dev[d].prog => dev'[d].eeprom = dev[d].eeprom
        /\ \A e \in Devices : e # d => dev'[e] = dev[e]
    BY PlugStep, ConstantTypes DEF CarefulSafe, SafeInv
  <1>2. Addressed' = Addressed /\ Addressed \subseteq Devices BY <1>1 DEF Addressed, Selected
  <1>3. CallInv' BY <1>1 DEF CarefulSafe, CallInv, Selected
  <1>4. EchoInv'
    <2>1. Verified' => Verified BY <1>1 DEF Verified
    <2>2. \A e \in Devices : HoldsWrite(e) => HoldsWrite(e)' BY <1>1 DEF HoldsWrite
    <2>3. \A e \in Devices : dev'[e].prog => dev[e].prog /\ dev'[e] = dev[e] BY <1>1
    <2>4. \A e \in Devices : dev'[e].sp.pf \/ dev'[e] = dev[e] BY <1>1
    <2>5. Verified' => \A e \in Addressed' : HoldsWrite(e)'
      BY <1>2, <2>1, <2>2 DEF CarefulSafe, EchoInv
    <2> QED BY <1>1, <1>2, <2>3, <2>4, <2>5 DEF CarefulSafe, EchoInv
  <1>5. ReplyInv'
    <2>1. \A e \in Devices : dev'[e].done => dev'[e] = dev[e] BY <1>1
    <2>2. ctx.phase \in {"READ", "DONE"} => \A e \in Devices : dev'[e].eeprom = dev[e].eeprom
      BY <1>1, NothingPrograms DEF CarefulSafe, Quiet
    <2>3. ctx.phase \in {"READ", "DONE"} => \A e \in Devices : HasBlock(e)' <=> HasBlock(e)
      BY <1>1, <2>2 DEF HasBlock
    <2>4. AfterReset' <=> AfterReset BY <1>1 DEF AfterReset
    <2>5. \A e \in Devices : AfterReset' /\ dev'[e].done =>
             ctx.phase \in {"WAIT", "READ"} /\ e \in Addressed /\ HasBlock(e)'
      BY <1>1, <2>1, <2>4 DEF CarefulSafe, ReplyInv, HasBlock
    <2>6. ctx.cmd = "copy_scratchpad"
             /\ ((ctx.phase = "READ" /\ line.raw.kind = "status") \/ Reported) =>
                  \E e \in Addressed : HasBlock(e)'
      BY <1>2, <2>3 DEF CarefulSafe, ReplyInv, Reported
    <2>7. ctx.cmd = "read_memory" /\ (ctx.phase = "READ" \/ Reported) =>
             \/ line.raw.data \in {"garbled", "ones"}
             \/ \E e \in Devices, b \in BlocksRead : line.raw.data = dev'[e].eeprom[b]
      BY <2>2 DEF CarefulSafe, ReplyInv, Reported
    <2> QED BY <1>1, <1>2, <2>4, <2>5, <2>6, <2>7 DEF CarefulSafe, ReplyInv, Reported, BlocksRead
  <1> QED BY <1>3, <1>4, <1>5 DEF Kept

LEMMA CarefulOnBoardReset ==
    ASSUME CarefulSafe, DemoReset
    PROVE  Kept
  <1>1. /\ UNCHANGED <<line, dev, asked>>
        /\ port' = PortInit /\ ctx' = CtxInit /\ \A d \in Devices : ~dev[d].prog
        /\ app'.cycle = "none"
    BY DemoResetStep DEF CarefulSafe, SafeInv
  <1>2. ctx'.finished /\ ctx'.phase = "IDLE" /\ ctx'.cmd = "none" /\ port'.pin = "od"
    BY <1>1 DEF CtxInit, PortInit
  <1>3. CallInv' BY <1>1, <1>2 DEF CallInv
  <1>4. EchoInv' BY <1>1, <1>2 DEF EchoInv, Verified
  <1>5. ReplyInv' BY <1>2 DEF ReplyInv, AfterReset, Reported
  <1> QED BY <1>3, <1>4, <1>5 DEF Kept

LEMMA CarefulOnSlots ==
    ASSUME CarefulSafe, HwSlots
    PROVE  Kept
  <1>1. UNCHANGED <<ctx, wire, line, dev, search, app, asked>> /\ port'.pin = port.pin
    BY HwSlotsStep DEF CarefulSafe, SafeInv
  <1>2. search BY EngineOnSlots DEF CarefulSafe
  <1>3. ctx.phase \in Quiet BY <1>2 DEF CarefulSafe, SafeInv, EngineInv
  <1> QED BY <1>1, <1>3, CarefulOnSearch

LEMMA CarefulOnStutter ==
    ASSUME CarefulSafe, UNCHANGED vars
    PROVE  Kept
  <1>1. CallInv' BY DEF vars, CarefulSafe, CallInv, Selected
  <1>2. Addressed' = Addressed BY DEF vars, Addressed, Selected
  <1>3. EchoInv' BY <1>2 DEF vars, CarefulSafe, EchoInv, Verified, HoldsWrite
  <1>4. ReplyInv' BY <1>2 DEF vars, CarefulSafe, ReplyInv, AfterReset, Reported, HasBlock, BlocksRead
  <1> QED BY <1>1, <1>3, <1>4 DEF Kept

\* Which scenario it is never changes.
LEMMA SceneFixed ==
    ASSUME TypeOK2431, DriverStep
    PROVE  app'.scene = app.scene
  <1>1. CASE Calls BY <1>1, CallTypes
  <1>2. CASE \E rom \in Roms : Select(rom) BY <1>2, SelectStep
  <1>3. CASE \E on \in BOOLEAN : SetParasite(on) BY <1>3 DEF SetParasite
  <1>4. CASE SearchStart \/ SearchPoll BY <1>4 DEF SearchStart, SearchPoll
  <1>5. CASE Poll
    BY <1>5, PollFinishStep DEF Poll, PollReset, PollCmd, PollRead, PollWait
  <1>6. CASE Hardware
    BY <1>6 DEF Hardware, HwReset, HwWrite, HwWait, HwRead, HwSlots, HwEnds
  <1>7. CASE \E d \in Devices : Plug(d) BY <1>7 DEF Plug
  <1>8. CASE DemoReset BY <1>8, DemoResetStep
  <1>9. CASE UNCHANGED vars BY <1>9 DEF vars
  <1> QED BY <1>1, <1>2, <1>3, <1>4, <1>5, <1>6, <1>7, <1>8, <1>9 DEF DriverStep

\* What holds for a careful application is kept by every step.
LEMMA CarefulSteps == CarefulSafe /\ DriverStep => Kept
  <1> SUFFICES ASSUME CarefulSafe, DriverStep PROVE Kept OBVIOUS
  <1>1. CASE Calls BY <1>1, CarefulOnCalls
  <1>2. CASE (\E rom \in Roms : Select(rom)) \/ (\E on \in BOOLEAN : SetParasite(on))
    BY <1>2, CarefulOnSettings
  <1>3. CASE SearchStart \/ SearchPoll
    <2>1. UNCHANGED <<ctx, wire, line, dev, app, asked>> /\ port'.pin = port.pin
      BY <1>3, SearchSteps DEF CarefulSafe, SafeInv
    <2>2. ctx.phase \in Quiet BY <1>3, EngineOnSearch DEF CarefulSafe
    <2> QED BY <2>1, <2>2, CarefulOnSearch
  <1>4. CASE Poll
    BY <1>4, CarefulOnPollReset, CarefulOnPollCmd, CarefulOnPollRead, CarefulOnPollWait,
       CarefulOnPollFinish DEF Poll
  <1>5. CASE Hardware
    BY <1>5, CarefulOnReset, CarefulOnWrite, CarefulOnWait, CarefulOnRead, CarefulOnSlots
       DEF Hardware
  <1>6. CASE \E d \in Devices : Plug(d) BY <1>6, CarefulOnPlug
  <1>7. CASE DemoReset BY <1>7, CarefulOnBoardReset
  <1>8. CASE UNCHANGED vars BY <1>8, CarefulOnStutter
  <1> QED BY <1>1, <1>2, <1>3, <1>4, <1>5, <1>6, <1>7, <1>8 DEF DriverStep

LEMMA DriverSteps == DriverInv /\ DriverStep => DriverInv'
  <1> SUFFICES ASSUME DriverInv, DriverStep PROVE DriverInv' OBVIOUS
  <1>1. SafeInv BY DEF DriverInv, SafeInv
  <1>2. SafeInv' BY <1>1, EngineSteps
  <1>3. app'.scene = app.scene BY SceneFixed DEF DriverInv
  <1>4. app'.scene.careful => CarefulSafe BY <1>1, <1>3 DEF DriverInv, CarefulInv, CarefulSafe
  <1>5. CarefulInv' BY <1>4, CarefulSteps DEF Kept, CarefulInv
  <1> QED BY <1>2, <1>5 DEF SafeInv, DriverInv

-----------------------------------------------------------------------------
(***************************************************************************)
(* What the invariant says of the run's properties.                        *)
(***************************************************************************)
LEMMA DriverTypes == DriverInv => TypeOK2431 /\ TimerServesPhase /\ PendingBelongsToSelected
  BY DEF DriverInv, EngineInv

\* A device programs between the copy command and the end of the window, when
\* the line is driven; at any other time it is not.
LEMMA DriverPullup == DriverInv => PullupForProgramming
  <1> SUFFICES ASSUME DriverInv, app.scene.careful PROVE PullupForProgramming
    BY DEF PullupForProgramming
  <1>1. /\ TypeOK2431 /\ EngineInv /\ DevicesInv /\ CallInv
    BY DEF DriverInv, CarefulInv
  <1>2. ASSUME NEW d \in Devices, dev[d].prog PROVE Powered(d)
    <2>1. ctx.phase \in {"CMD", "WAIT"} BY <1>1, <1>2 DEF DevicesInv
    <2>2. ~ctx.finished BY <1>1, <2>1 DEF EngineInv, TimerServesPhase
    <2>3. ctx.par = (Parasitic # {}) /\ port.pin = IF ctx.par THEN "pp" ELSE "od"
      BY <1>1, <2>1, <2>2 DEF CallInv
    <2> QED BY <2>3 DEF Powered
  <1>3. ASSUME port.op \in {"reset", "read", "slots"} PROVE port.pin = "od"
    <2>1. ctx.phase \notin {"CMD", "WAIT"}
      BY <1>1, <1>3 DEF EngineInv, TimerServesPhase, WaitsFor2431, Quiet
    <2> QED BY <1>1, <2>1 DEF CallInv
  <1> QED BY <1>2, <1>3 DEF PullupForProgramming

\* Only the window of a copy and a device that leaves change an EEPROM.
LEMMA EepromKept ==
    ASSUME TypeOK2431, DriverStep, ~HwWait, NEW d \in Devices, dev'[d].present = dev[d].present
    PROVE  dev'[d].eeprom = dev[d].eeprom
  <1>1. CASE Calls BY <1>1, CallTypes
  <1>2. CASE \E rom \in Roms : Select(rom) BY <1>2 DEF Select
  <1>3. CASE \E on \in BOOLEAN : SetParasite(on) BY <1>3 DEF SetParasite
  <1>4. CASE SearchStart \/ SearchPoll BY <1>4 DEF SearchStart, SearchPoll
  <1>5. CASE Poll
    BY <1>5 DEF Poll, PollReset, PollCmd, PollRead, PollWait, PollFinish
  <1>6. CASE HwReset BY <1>6, HwResetStep
  <1>7. CASE HwWrite
    <2>1. dev[d] \in DeviceType2431 BY DEF TypeOK2431
    <2>2. dev'[d] \in Heard(dev[d]) \/ dev'[d] = dev[d] BY <1>7, HwWriteStep
    <2> QED BY <2>1, <2>2, HeardType
  <1>8. CASE HwRead \/ HwSlots BY <1>8 DEF HwRead, HwSlots
  <1>9. CASE \E e \in Devices : Plug(e) BY <1>9, PlugStep
  <1>10. CASE DemoReset BY <1>10 DEF DemoReset
  <1>11. CASE UNCHANGED vars BY <1>11 DEF vars
  <1> QED BY <1>1, <1>2, <1>3, <1>4, <1>5, <1>6, <1>7, <1>8, <1>9, <1>10, <1>11
          DEF DriverStep, Hardware

LEMMA CommitStep ==
    ASSUME DriverInv, DriverStep, app.scene.careful, NEW d \in Devices, NEW b \in Blocks,
           dev'[d].present = dev[d].present, dev'[d].eeprom[b] # dev[d].eeprom[b]
    PROVE  b = asked.wta /\ dev'[d].eeprom[b] = asked.wdata /\ asked.wlen = 8
  <1>1. CarefulSafe BY DEF DriverInv, CarefulInv, CarefulSafe, SafeInv
  <1>2. TypeOK2431 /\ dev[d].eeprom \in [Blocks -> Contents] /\ asked.wta \in Blocks
    BY DEF DriverInv, TypeOK2431, DeviceType2431
  <1>3. HwWait BY <1>2, EepromKept
  <1>4. dev[d].prog BY <1>2, <1>3, HwWaitStep
  <1>5. dev'[d].eeprom = [dev[d].eeprom EXCEPT ![asked.wta] = asked.wdata] /\ asked.wlen = 8
    BY <1>1, <1>3, <1>4, WindowPrograms
  <1> QED BY <1>2, <1>5

LEMMA FinishStep ==
    ASSUME DriverInv, app.scene.careful, PollFinish, ctx.ok
    PROVE  /\ ctx.cmd = "copy_scratchpad" =>
                 \E d \in Devices : wire.rom \in {NoRom, d}
                                    /\ dev[d].eeprom[asked.wta] = asked.wdata
           /\ ctx.cmd = "read_memory" =>
                 \/ line.raw.data \in {"garbled", "ones"}
                 \/ \E d \in Devices, b \in BlocksRead : line.raw.data = dev[d].eeprom[b]
  <1>1. CallInv /\ ReplyInv BY DEF DriverInv, CarefulInv
  <1>2. Reported BY DEF PollFinish, Reported
  <1>3. wire.rom = Selected BY <1>1, <1>2 DEF CallInv, Reported
  <1>4. ASSUME ctx.cmd = "copy_scratchpad"
        PROVE  \E d \in Devices : wire.rom \in {NoRom, d} /\ dev[d].eeprom[asked.wta] = asked.wdata
    <2>1. PICK d \in Addressed : HasBlock(d) BY <1>1, <1>2, <1>4 DEF ReplyInv
    <2> QED BY <1>3, <2>1 DEF Addressed, HasBlock
  <1>5. ASSUME ctx.cmd = "read_memory"
        PROVE  \/ line.raw.data \in {"garbled", "ones"}
               \/ \E d \in Devices, b \in BlocksRead : line.raw.data = dev[d].eeprom[b]
    BY <1>1, <1>2, <1>5 DEF ReplyInv
  <1> QED BY <1>4, <1>5

-----------------------------------------------------------------------------
\* After power-up nothing runs and nothing is on the wire.
LEMMA DriverStarts == Init => DriverInv
  <1> SUFFICES ASSUME Init PROVE DriverInv OBVIOUS
  <1>1. /\ port = PortInit /\ ctx = CtxInit /\ wire = NoWire /\ search = FALSE
        /\ line = [seen |-> FALSE, heard |-> {}, raw |-> BadRaw]
        /\ asked = [cmd |-> "none", ta |-> AnyBlock, len |-> 0, wta |-> AnyBlock, wlen |-> 0,
                    wdata |-> "ones", wrom |-> NoRom]
    BY DEF Init
  <1>2. app \in [scene : Scenarios, cycle : {"none", "written", "verified"}] /\ app.cycle = "none"
    BY DEF Init
  <1>3. /\ dev \in [Devices -> DeviceType2431]
        /\ \A d \in Devices : dev[d].sp = NoScratch /\ ~dev[d].prog /\ ~dev[d].done
    BY ConstantTypes DEF Init, DeviceType2431
  <1>4. TypeOK2431
    <2>1. asked \in [cmd : Commands \cup {"none"}, ta : Blocks, len : {0, 1, 8, FrameLen},
                     wta : Blocks, wlen : 0..8, wdata : Contents, wrom : Roms]
      BY <1>1, ConstantTypes
    <2>2. line \in [seen : BOOLEAN, heard : SUBSET Devices, raw : RawType]
      BY <1>1, ConstantTypes
    <2> QED BY <1>1, <1>2, <1>3, <2>1, <2>2, ConstantTypes DEF TypeOK2431
  <1>5. /\ ctx.phase = "IDLE" /\ ctx.finished /\ ~ctx.ok /\ ~ctx.pending /\ ctx.cmd = "none"
        /\ port.op = "idle" /\ ~port.uif /\ port.pin = "od"
    BY <1>1 DEF CtxInit, PortInit
  <1>6. EngineInv
    BY <1>1, <1>5 DEF EngineInv, TimerServesPhase, WaitsFor2431, PendingBelongsToSelected, Quiet
  <1>7. DevicesInv BY <1>3, ConstantTypes DEF DevicesInv
  <1>8. CallInv BY <1>2, <1>5 DEF CallInv
  <1>9. EchoInv BY <1>2, <1>3, <1>5 DEF EchoInv, Verified
  <1>10. ReplyInv BY <1>5 DEF ReplyInv, AfterReset, Reported
  <1> QED BY <1>4, <1>6, <1>7, <1>8, <1>9, <1>10 DEF DriverInv, CarefulInv

-----------------------------------------------------------------------------
(***************************************************************************)
(* The DS2431 driver under the 8_ds2431 example, or under the free         *)
(* application of Ds2431 where DemoScenes is empty: theorems for any       *)
(* devices, blocks and scenarios.                                          *)
(***************************************************************************)

CycleSteps ==
    {"READ_BASELINE", "WRITE_SCRATCHPAD", "READ_SCRATCHPAD", "COPY_SCRATCHPAD", "READ_BACK"}

\* The row the example writes: zero bytes, and the two values RowNext knows.
Rows == {"zeros", "ones"}

DemoType ==
    [step : CycleSteps \cup {"FREE", "BOOT", "SEARCH", "SELECT", "DONE"}, running : BOOLEAN,
     done : BOOLEAN, found : Seq(Devices), next : Nat \ {0}, written : Rows,
     verdict : {"none", "matches", "differs"}, truthful : BOOLEAN, copied : BOOLEAN,
     boots : Nat]

\* While a step of the cycle is served there is a device that it goes to.
DemoTyped ==
    /\ demo \in DemoType
    /\ demo.step \in CycleSteps => demo.next <= Len(demo.found)

(***************************************************************************)
(* The example and the driver go together: an operation that has not been  *)
(* reported belongs to the step the example is in.                         *)
(***************************************************************************)
DemoServes ==
    /\ demo.running => demo.step \in CycleSteps
    /\ demo.step # "FREE" /\ ~ctx.finished =>
          /\ demo.running
          /\ ctx.cmd = "copy_scratchpad" => demo.step = "COPY_SCRATCHPAD"

(***************************************************************************)
(* After a truthful baseline the row differs from what is to be written    *)
(* until this cycle has programmed it.                                     *)
(***************************************************************************)
CopyPending ==
    demo.truthful /\ demo.step \in CycleSteps \ {"READ_BASELINE"} =>
        demo.copied \/ dev[Current].eeprom[Row] # demo.written

CycleInv ==
    /\ DemoTyped
    /\ DemoServes
    /\ CopyPending
    /\ demo.step \in CycleSteps => demo.verdict = "none"
    /\ demo.step = "READ_BASELINE" => ~demo.truthful
    /\ MatchAfterBaseline

DemoInv == DriverInv /\ CycleInv

-----------------------------------------------------------------------------
\* The order of the steps.
LEMMA CycleOrder ==
    /\ ToSet(Steps) = CycleSteps /\ Head(Steps) = "READ_BASELINE"
    /\ Following("READ_BASELINE") = "WRITE_SCRATCHPAD"
    /\ Following("WRITE_SCRATCHPAD") = "READ_SCRATCHPAD"
    /\ Following("READ_SCRATCHPAD") = "COPY_SCRATCHPAD"
    /\ Following("COPY_SCRATCHPAD") = "READ_BACK"
    /\ Following("READ_BACK") = "SELECT"
  <1>1. DOMAIN Steps = 1..5 /\ Len(Steps) = 5 /\ Steps[5] = "READ_BACK" BY DEF Steps
  <1>2. ToSet(Steps) = CycleSteps BY <1>1 DEF ToSet, Steps, CycleSteps
  <1>3. Last(Steps) = "READ_BACK" /\ Head(Steps) = "READ_BASELINE" BY <1>1 DEF Last, Steps
  <1>4. \A k \in 1..4 : \A i \in 1..5 : Steps[i] = Steps[k] => i = k BY DEF Steps
  <1>5. ASSUME NEW k \in 1..4 PROVE (CHOOSE i \in 1..Len(Steps) : Steps[i] = Steps[k]) = k
    BY <1>1, <1>4
  <1>6. ASSUME NEW k \in 1..4 PROVE Following(Steps[k]) = Steps[1 + k]
    <2>1. Steps[k] # Last(Steps) BY <1>3 DEF Steps
    <2> QED BY <1>5, <2>1 DEF Following
  <1>7. Following("READ_BACK") = "SELECT" BY <1>3 DEF Following
  <1>8. Steps[1] = "READ_BASELINE" /\ Steps[2] = "WRITE_SCRATCHPAD" /\ Steps[3] = "READ_SCRATCHPAD"
        /\ Steps[4] = "COPY_SCRATCHPAD"
    BY DEF Steps
  <1>9. /\ Following(Steps[1]) = Steps[2] /\ Following(Steps[2]) = Steps[3]
        /\ Following(Steps[3]) = Steps[4] /\ Following(Steps[4]) = Steps[5]
    BY <1>6
  <1> QED BY <1>1, <1>2, <1>3, <1>7, <1>8, <1>9

\* What a search collects are devices of the bus, each once.
LEMMA CollectedType == \A found \in Collected : found \in Seq(Devices)
  <1> SUFFICES ASSUME NEW found \in Collected PROVE found \in Seq(Devices) OBVIOUS
  <1>1. PICK there \in SUBSET Devices : found \in SetToSeqs(there) BY DEF Collected
  <1>2. Cardinality(there) \in Nat
    <2>1. IsFiniteSet(there) BY DemoAssumption, FS_Subset
    <2> QED BY <2>1, FS_CardinalityType
  <1>3. found \in [1..Cardinality(there) -> there] BY <1>1 DEF SetToSeqs
  <1> QED BY <1>2, <1>3

\* A row and the one that follows it differ.
LEMMA RowChanges == \A v : RowNext(v) \in Rows /\ RowNext(v) # v
  BY DEF RowNext, Rows

LEMMA RowValues == Row \in Blocks /\ Rows \subseteq Contents /\ "garbled" \notin Rows
  BY ConstantTypes, DemoAssumption DEF Row, Rows, Contents

\* The device the cycle serves.
LEMMA CurrentDevice ==
    ASSUME DemoTyped, demo.next <= Len(demo.found)
    PROVE  Current \in Devices
  BY DEF DemoTyped, DemoType, Current

-----------------------------------------------------------------------------
\* Whatever the example, or the free application, does is a step of the driver
\* by one of its callers.
LEMMA DemoSteps ==
    ASSUME TypeOK2431, DemoTyped, [DemoNext]_demoVars
    PROVE  DriverStep
  <1>1. CASE PowerMode BY <1>1 DEF PowerMode, DriverStep
  <1>2. CASE DemoSearch BY <1>2 DEF DemoSearch, DriverStep
  <1>3. CASE DemoFound BY <1>3 DEF DemoFound, DriverStep
  <1>4. CASE DemoSelect
    <2>1. CASE demo.next <= Len(demo.found) /\ Select(Current)
      <3>1. Current \in Roms BY <2>1, CurrentDevice DEF Roms
      <3> QED BY <2>1, <3>1 DEF DriverStep
    <2>2. CASE UNCHANGED vars BY <2>2 DEF DriverStep
    <2> QED BY <1>4, <2>1, <2>2 DEF DemoSelect
  <1>5. CASE DemoStart
    <2>1. Row \in Blocks /\ demo.written \in Contents BY RowValues DEF DemoTyped, DemoType
    <2>2. 8 \in 1..8 OBVIOUS
    <2>3. \/ WriteScratchpad(Row, 8, demo.written) \/ ReadScratchpad \/ CopyScratchpad
          \/ ReadMemory(Row)
      BY <1>5 DEF DemoStart
    <2>4. Calls BY <2>1, <2>2, <2>3 DEF Calls
    <2> QED BY <2>4 DEF DriverStep
  <1>6. CASE DemoPoll BY <1>6 DEF DemoPoll, DriverStep
  <1>7. CASE DemoFinish BY <1>7 DEF DemoFinish, DriverStep
  <1>8. CASE DemoHardware BY <1>8 DEF DemoHardware, DriverStep
  <1>9. CASE DemoPlug BY <1>9 DEF DemoPlug, DriverStep
  <1>10. CASE DemoReset BY <1>10 DEF DriverStep
  <1>11. CASE FreeCall
    <2>1. ASSUME NEW w \in app.scene.writes, NEW v \in Values,
                 ReadMemory(w[1]) \/ WriteScratchpad(w[1], w[2], v)
          PROVE  Calls
      BY <2>1, SceneWrites DEF Calls, Contents
    <2>2. ASSUME NEW w \in app.scene.writes, ReadMemory(w[1]) PROVE Calls
      BY <2>2, SceneWrites DEF Calls
    <2>3. app.scene.devices \cup {NoRom} \subseteq Roms
      BY ScenarioAssumption2431 DEF TypeOK2431, Roms
    <2> QED BY <1>11, <2>1, <2>2, <2>3 DEF FreeCall, Application, Calls, DriverStep
  <1>12. CASE FreePoll \/ FreeSearchPoll BY <1>12 DEF FreePoll, FreeSearchPoll, DriverStep
  <1>13. CASE UNCHANGED demoVars BY <1>13 DEF demoVars, DriverStep
  <1> QED BY <1>1, <1>2, <1>3, <1>4, <1>5, <1>6, <1>7, <1>8, <1>9, <1>10, <1>11, <1>12, <1>13
          DEF DemoNext, MainLoop

-----------------------------------------------------------------------------
(***************************************************************************)
(* The cycle of the example: one lemma per action.                         *)
(***************************************************************************)
\* The search before and after a cycle, and the choice of the next device.
LEMMA CycleOnSearch ==
    ASSUME DemoInv, PowerMode \/ DemoSearch
    PROVE  CycleInv'
  <1>1. demo \in DemoType BY DEF DemoInv, CycleInv, DemoTyped
  <1>2. demo' \in DemoType /\ demo'.step = "SEARCH" /\ demo'.running = demo.running
        /\ demo'.verdict = demo.verdict /\ demo'.truthful = demo.truthful
        /\ demo'.copied = demo.copied
    <2>1. CASE PowerMode BY <1>1, <2>1 DEF PowerMode, DemoType
    <2>2. CASE DemoSearch
      <3> DEFINE done == demo.done \/ demo.step = "DONE"
      <3>1. demo' = [demo EXCEPT !.step = "SEARCH", !.found = <<>>, !.next = 1, !.done = done]
        BY <1>1, <2>2 DEF DemoSearch, DemoType
      <3>2. done \in BOOLEAN BY <1>1 DEF DemoType
      <3> HIDE DEF done
      <3>3. <<>> \in Seq(Devices) /\ 1 \in Nat \ {0} OBVIOUS
      <3>4. \A none \in Seq(Devices), first \in Nat \ {0} :
               LET searching == [demo EXCEPT !.step = "SEARCH", !.found = none, !.next = first,
                                             !.done = done]
               IN  /\ searching \in DemoType /\ searching.step = "SEARCH"
                   /\ searching.running = demo.running /\ searching.verdict = demo.verdict
                   /\ searching.truthful = demo.truthful /\ searching.copied = demo.copied
        BY <1>1, <3>2 DEF DemoType
      <3> QED BY <3>1, <3>3, <3>4
    <2> QED BY <2>1, <2>2
  <1>3. demo.step \in {"BOOT", "SEARCH", "DONE"} BY DEF PowerMode, DemoSearch
  <1>4. ctx'.finished = ctx.finished
    <2>1. ASSUME NEW on \in BOOLEAN, SetParasite(on) PROVE ctx'.finished = ctx.finished
      BY <2>1, SetParasiteStep DEF DemoInv, DriverInv
    <2> QED BY <2>1 DEF PowerMode, DemoSearch, SearchStart
  <1>5. ~demo'.running /\ ctx'.finished
    BY <1>1, <1>2, <1>3, <1>4 DEF DemoInv, CycleInv, DemoServes, CycleSteps
  <1> QED BY <1>2, <1>5 DEF DemoInv, CycleInv, DemoTyped, DemoServes, CopyPending,
             MatchAfterBaseline, CycleSteps

LEMMA CycleOnFound ==
    ASSUME DemoInv, DemoFound
    PROVE  CycleInv'
  <1>1. demo \in DemoType BY DEF DemoInv, CycleInv, DemoTyped
  <1>2. PICK found \in Collected :
           demo' = [demo EXCEPT !.found = found,
                                !.step = IF ~demo.done /\ found # <<>> THEN "SELECT" ELSE "DONE"]
    BY DEF DemoFound
  <1>3. found \in Seq(Devices) BY CollectedType
  <1>4. demo' \in DemoType /\ demo'.step \in {"SELECT", "DONE"} /\ demo'.running = demo.running
        /\ demo'.verdict = demo.verdict /\ demo'.truthful = demo.truthful
        /\ demo'.copied = demo.copied
    BY <1>1, <1>2, <1>3 DEF DemoType
  <1>5. demo.step = "SEARCH" /\ UNCHANGED ctx BY DEF DemoFound, SearchPoll
  <1>6. ~demo'.running /\ ctx'.finished
    BY <1>4, <1>5 DEF DemoInv, CycleInv, DemoServes, CycleSteps
  <1> QED BY <1>4, <1>6 DEF DemoInv, CycleInv, DemoTyped, DemoServes, CopyPending,
             MatchAfterBaseline, CycleSteps

LEMMA CycleOnSelect ==
    ASSUME DemoInv, DemoSelect
    PROVE  CycleInv'
  <1>1. demo \in DemoType /\ demo.step = "SELECT" BY DEF DemoInv, CycleInv, DemoTyped, DemoSelect
  <1>2. ~demo.running /\ ctx.finished
    BY <1>1 DEF DemoInv, CycleInv, DemoServes, CycleSteps
  <1>3. CASE /\ demo.next <= Len(demo.found) /\ Select(Current)
             /\ demo' = [demo EXCEPT !.step = Head(Steps), !.verdict = "none",
                                     !.truthful = FALSE, !.copied = FALSE]
    <2>2. demo' \in DemoType /\ demo'.step = "READ_BASELINE" /\ demo'.verdict = "none"
          /\ ~demo'.truthful /\ ~demo'.running /\ demo'.next = demo.next /\ demo'.found = demo.found
      BY <1>1, <1>2, <1>3, CycleOrder DEF DemoType, CycleSteps
    <2>3. ctx'.finished
      <3>1. Current \in Roms BY <1>3, CurrentDevice DEF DemoInv, CycleInv, Roms
      <3> QED BY <1>2, <1>3, <3>1, SelectStep DEF DemoInv, DriverInv
    <2> QED BY <1>3, <2>2, <2>3 DEF CycleInv, DemoTyped, DemoServes, CopyPending,
               MatchAfterBaseline, CycleSteps
  <1>4. CASE demo' = [demo EXCEPT !.step = "DONE"] /\ UNCHANGED vars
    <2>1. demo' \in DemoType /\ demo'.step = "DONE" /\ ~demo'.running
          /\ demo'.verdict = demo.verdict /\ demo'.truthful = demo.truthful
          /\ demo'.copied = demo.copied
      BY <1>1, <1>2, <1>4 DEF DemoType
    <2> QED BY <1>2, <1>4, <2>1 DEF vars, DemoInv, CycleInv, DemoTyped, DemoServes, CopyPending,
               MatchAfterBaseline, CycleSteps
  <1> QED BY <1>3, <1>4 DEF DemoSelect

LEMMA CycleOnReset ==
    ASSUME DemoInv, DemoReset
    PROVE  CycleInv'
  <1>1. demo \in DemoType BY DEF DemoInv, CycleInv, DemoTyped
  <1>2. demo' = DemoBoot("BOOT", demo.boots + 1) /\ ctx' = CtxInit BY DEF DemoReset
  <1>3. demo' \in DemoType /\ demo'.step = "BOOT" /\ ~demo'.running /\ demo'.verdict = "none"
    BY <1>1, <1>2 DEF DemoBoot, DemoType, Rows
  <1>4. ctx'.finished BY <1>2 DEF CtxInit
  <1> QED BY <1>3, <1>4 DEF CycleInv, DemoTyped, DemoServes, CopyPending, MatchAfterBaseline,
             CycleSteps

\* The calls and polls of a step leave the devices alone.
LEMMA CycleOnStart ==
    ASSUME DemoInv, DemoStart
    PROVE  CycleInv'
  <1>1. demo \in DemoType /\ TypeOK2431 /\ CanStart
    BY DEF DemoInv, CycleInv, DemoTyped, DriverInv, DemoStart
  <1>2. demo.step \in CycleSteps /\ demo' = [demo EXCEPT !.running = TRUE]
    BY CycleOrder DEF DemoStart
  <1>3. demo' \in DemoType /\ demo'.running /\ demo'.step = demo.step /\ demo'.next = demo.next
        /\ demo'.found = demo.found /\ demo'.verdict = demo.verdict
        /\ demo'.truthful = demo.truthful /\ demo'.copied = demo.copied
        /\ demo'.written = demo.written
    BY <1>1, <1>2 DEF DemoType
  <1>4. UNCHANGED dev /\ (ctx'.cmd = "copy_scratchpad" => demo.step = "COPY_SCRATCHPAD")
    <2>1. Row \in Blocks /\ demo.written \in Contents /\ 8 \in 1..8
      BY <1>1, RowValues DEF DemoType
    <2>2. CASE demo.step = "WRITE_SCRATCHPAD"
      <3>1. WriteScratchpad(Row, 8, demo.written) BY <2>2 DEF DemoStart
      <3> QED BY <1>1, <2>1, <3>1, WriteScratchpadCall
    <2>3. CASE demo.step = "READ_SCRATCHPAD"
      <3>1. ReadScratchpad BY <2>3 DEF DemoStart
      <3> QED BY <1>1, <3>1, ReadScratchpadCall
    <2>4. CASE demo.step = "COPY_SCRATCHPAD"
      <3>1. CopyScratchpad BY <2>4 DEF DemoStart
      <3> QED BY <1>1, <2>4, <3>1, CopyScratchpadCall
    <2>5. CASE demo.step \in {"READ_BASELINE", "READ_BACK"}
      <3>1. ReadMemory(Row) BY <2>5 DEF DemoStart
      <3> QED BY <1>1, <2>1, <3>1, ReadMemoryCall
    <2> QED BY <1>2, <2>2, <2>3, <2>4, <2>5 DEF CycleSteps
  <1>5. Current' = Current BY <1>3 DEF Current
  <1>6. CopyPending' BY <1>3, <1>4, <1>5 DEF DemoInv, CycleInv, CopyPending
  <1> QED BY <1>2, <1>3, <1>4, <1>6 DEF DemoInv, CycleInv, DemoTyped, DemoServes,
             MatchAfterBaseline

LEMMA CycleOnPoll ==
    ASSUME DemoInv, DemoPoll
    PROVE  CycleInv'
  <1>1. UNCHANGED <<demo, dev>> /\ ~ctx.finished
    BY DEF DemoPoll, Poll, PollReset, PollCmd, PollRead, PollWait, PollFinish, PhaseDone
  <1>2. ctx'.cmd = ctx.cmd
    <2>1. ctx \in CtxType2431 BY DEF DemoInv, DriverInv, TypeOK2431
    <2> QED BY <2>1 DEF DemoPoll, Poll, PollReset, PollCmd, PollRead, PollWait, PollFinish,
               CtxType2431
  <1>3. Current' = Current BY <1>1 DEF Current
  <1> QED BY <1>1, <1>2, <1>3 DEF DemoInv, CycleInv, DemoTyped, DemoServes, CopyPending,
             MatchAfterBaseline

\* finish_step(): a truthful baseline leaves a row to write that differs from
\* the one read; a match with truthful reads finds the written row there.
LEMMA CycleOnFinish ==
    ASSUME DemoInv, DemoFinish
    PROVE  CycleInv'
  <1> DEFINE c == Concluded(demo.step, line.raw.data)
             there == dev[Current].eeprom[Row]
  <1>1. /\ demo \in DemoType /\ UNCHANGED vars /\ ctx.finished
        /\ demo.step \in CycleSteps /\ demo.next <= Len(demo.found)
        /\ demo.verdict = "none" /\ (demo.step = "READ_BASELINE" => ~demo.truthful)
        /\ CopyPending
    BY DEF DemoInv, CycleInv, DemoTyped, DemoServes, DemoFinish
  <1>2. /\ c \in DemoType /\ c.step = demo.step /\ c.next = demo.next /\ c.found = demo.found
        /\ c.copied = demo.copied
        /\ demo.step # "READ_BACK" => c.verdict = "none"
        /\ demo.step = "READ_BASELINE" /\ c.truthful => there # c.written
        /\ demo.step \notin {"READ_BASELINE", "READ_BACK"} =>
              c.truthful = demo.truthful /\ c.written = demo.written
        /\ demo.step = "READ_BACK" /\ c.verdict = "matches" /\ c.truthful => demo.copied
    <2>1. CASE c = demo BY <1>1, <2>1
    <2>2. CASE demo.step = "READ_BASELINE" /\ c # demo
      <3> DEFINE true == line.raw.data = there
                 row == RowNext(line.raw.data)
      <3>1. c = [demo EXCEPT !.written = row, !.truthful = true] BY <2>2 DEF Concluded
      <3>2. row \in Rows /\ row # line.raw.data /\ true \in BOOLEAN BY RowChanges
      <3>3. true => there # row BY <3>2
      <3> HIDE DEF true, row, there
      <3>4. /\ c \in DemoType /\ c.step = demo.step /\ c.next = demo.next /\ c.found = demo.found
            /\ c.copied = demo.copied /\ c.verdict = demo.verdict /\ c.written = row
            /\ c.truthful = true
        BY <1>1, <3>1, <3>2 DEF DemoType
      <3> HIDE DEF c
      <3> QED BY <1>1, <2>2, <3>3, <3>4
    <2>3. CASE demo.step = "READ_BACK" /\ c # demo
      <3> DEFINE verdict == IF line.raw.data = demo.written THEN "matches" ELSE "differs"
                 true == demo.truthful /\ line.raw.data = there
      <3>1. c = [demo EXCEPT !.verdict = verdict, !.truthful = true] BY <2>3 DEF Concluded
      <3>2. verdict \in {"matches", "differs"} /\ true \in BOOLEAN BY <1>1 DEF DemoType
      <3>3. verdict = "matches" /\ true => demo.copied
        BY <1>1, <2>3 DEF CopyPending, CycleSteps
      <3> HIDE DEF true, verdict, there
      <3>4. /\ c \in DemoType /\ c.step = demo.step /\ c.next = demo.next /\ c.found = demo.found
            /\ c.copied = demo.copied /\ c.verdict = verdict /\ c.truthful = true
        BY <1>1, <3>1, <3>2 DEF DemoType
      <3> HIDE DEF c
      <3> QED BY <1>1, <2>3, <3>3, <3>4
    <2> QED BY <2>1, <2>2, <2>3 DEF Concluded
  <1> DEFINE to == Following(demo.step)
             n == IF to = "SELECT" THEN c.next + 1 ELSE c.next
  <1>3. demo' = [c EXCEPT !.running = FALSE, !.step = to, !.next = n] BY DEF DemoFinish
  <1>4. to \in (CycleSteps \ {"READ_BASELINE"}) \cup {"SELECT"} /\ (to = "SELECT" <=> demo.step = "READ_BACK")
    BY <1>1, CycleOrder DEF CycleSteps
  <1> HIDE DEF c, to
  <1>5. n \in Nat \ {0} BY <1>2 DEF DemoType
  <1> HIDE DEF n
  <1>6. /\ demo' \in DemoType /\ ~demo'.running /\ demo'.step = to /\ demo'.next = n
        /\ demo'.found = c.found /\ demo'.verdict = c.verdict /\ demo'.truthful = c.truthful
        /\ demo'.copied = c.copied /\ demo'.written = c.written
    BY <1>2, <1>3, <1>4, <1>5 DEF DemoType, CycleSteps
  <1>7. ctx'.finished BY <1>1 DEF vars
  <1>8. MatchAfterBaseline' BY <1>2, <1>6 DEF MatchAfterBaseline
  <1>9. CASE demo.step = "READ_BACK"
    BY <1>4, <1>6, <1>7, <1>8, <1>9 DEF CycleInv, DemoTyped, DemoServes, CopyPending, CycleSteps
  <1>10. CASE demo.step # "READ_BACK"
    <2>1. demo'.next = demo.next /\ Current' = Current
      BY <1>2, <1>4, <1>6, <1>10 DEF n, Current
    <2>2. there' = there BY <1>1, <2>1 DEF vars
    <2>3. CopyPending'
      <3>1. CASE demo.step = "READ_BASELINE" BY <1>2, <1>6, <2>2, <3>1 DEF CopyPending
      <3>2. CASE demo.step # "READ_BASELINE"
        BY <1>1, <1>2, <1>6, <1>10, <2>2, <3>2 DEF CopyPending
      <3> QED BY <3>1, <3>2
    <2> QED BY <1>1, <1>2, <1>4, <1>6, <1>7, <1>8, <1>10, <2>1, <2>3
            DEF CycleInv, DemoTyped, DemoServes
  <1> QED BY <1>9, <1>10

\* Without its supply the window of a copy leaves garbage.
LEMMA WindowUnpowered ==
    ASSUME TypeOK2431, HwWait, NEW d \in Devices, dev[d].prog, ~Powered(d)
    PROVE  dev'[d].eeprom = [dev[d].eeprom EXCEPT ![dev[d].sp.ta] = "garbled"]
  <1>1. dev[d] \in DeviceType2431 BY DEF TypeOK2431
  <1> DEFINE done == Powered(d)
             ta == dev[d].sp.ta
  <1>2. dev'[d] = [dev[d] EXCEPT !.prog = FALSE, !.done = done, !.eeprom[ta] = "garbled"]
    BY DEF HwWait
  <1> HIDE DEF done, ta
  <1>3. dev'[d].eeprom = [dev[d].eeprom EXCEPT ![ta] = "garbled"]
    BY <1>1, <1>2 DEF DeviceType2431
  <1> QED BY <1>3 DEF ta

\* The row comes to hold what is being written only by the copy of this cycle.
LEMMA CycleOnHardware ==
    ASSUME DemoInv, DemoHardware
    PROVE  CycleInv'
  <1> DEFINE programmed == /\ demo.step = "COPY_SCRATCHPAD"
                           /\ dev[Current].prog /\ dev'[Current].done
                           /\ dev'[Current].eeprom[Row] = demo.written
             copied == demo.copied \/ programmed
  <1>1. demo \in DemoType /\ DriverInv /\ Hardware /\ CopyPending
    BY DEF DemoInv, CycleInv, DemoTyped, DemoHardware
  <1>2. demo' = [demo EXCEPT !.copied = copied] BY DEF DemoHardware
  <1>3. copied \in BOOLEAN BY <1>1 DEF DemoType
  <1> HIDE DEF copied
  <1>4. /\ demo' \in DemoType /\ demo'.step = demo.step /\ demo'.running = demo.running
        /\ demo'.next = demo.next /\ demo'.found = demo.found /\ demo'.verdict = demo.verdict
        /\ demo'.truthful = demo.truthful /\ demo'.written = demo.written /\ demo'.copied = copied
    BY <1>1, <1>2, <1>3 DEF DemoType
  <1>5. UNCHANGED ctx
    BY <1>1 DEF Hardware, HwReset, HwWrite, HwWait, HwRead, HwSlots, HwEnds
  <1>6. Current' = Current BY <1>4 DEF Current
  <1>7. ASSUME demo.truthful, demo.step \in CycleSteps \ {"READ_BASELINE"}, ~demo.copied,
               dev'[Current].eeprom[Row] = demo.written
        PROVE  programmed
    <2>1. Current \in Devices BY <1>7, CurrentDevice DEF DemoInv, CycleInv, DemoTyped
    <2>2. dev[Current].eeprom[Row] # demo.written BY <1>1, <1>7 DEF CopyPending
    <2>3. dev'[Current].present = dev[Current].present
      <3>1. TypeOK2431 /\ dev[Current] \in DeviceType2431
        BY <1>1, <2>1 DEF DriverInv, TypeOK2431
      <3>2. CASE HwReset BY <2>1, <3>1, <3>2, HwResetStep
      <3>3. CASE HwWrite
        <4>1. dev'[Current] \in Heard(dev[Current]) \/ dev'[Current] = dev[Current]
          BY <2>1, <3>1, <3>3, HwWriteStep
        <4> QED BY <3>1, <4>1, HeardType
      <3>4. CASE HwWait BY <2>1, <3>1, <3>4, HwWaitStep
      <3>5. CASE HwRead \/ HwSlots BY <3>5 DEF HwRead, HwSlots
      <3> QED BY <1>1, <3>2, <3>3, <3>4, <3>5 DEF Hardware
    <2>4. HwWait
      BY <1>1, <1>7, <2>1, <2>2, <2>3, EepromKept DEF DriverInv, DriverStep
    <2>5. dev[Current].prog BY <1>1, <1>7, <2>1, <2>2, <2>4, HwWaitStep DEF DriverInv
    <2>6. demo.step = "COPY_SCRATCHPAD"
      <3>1. ctx.cmd = "copy_scratchpad" /\ ctx.phase \in {"CMD", "WAIT"}
        BY <1>1, <2>1, <2>5 DEF DriverInv, DevicesInv
      <3>2. ~ctx.finished BY <1>1, <3>1 DEF DriverInv, EngineInv, TimerServesPhase
      <3> QED BY <1>7, <3>1, <3>2 DEF DemoInv, CycleInv, DemoServes, CycleSteps
    <2>7. Powered(Current)
      <3> SUFFICES ASSUME ~Powered(Current) PROVE FALSE OBVIOUS
      <3>1. dev'[Current].eeprom = [dev[Current].eeprom EXCEPT ![dev[Current].sp.ta] = "garbled"]
        BY <1>1, <2>1, <2>4, <2>5, WindowUnpowered DEF DriverInv
      <3>2. dev[Current].eeprom \in [Blocks -> Contents] BY <1>1, <2>1 DEF DriverInv, TypeOK2431, DeviceType2431
      <3>3. dev'[Current].eeprom[Row] \in {dev[Current].eeprom[Row], "garbled"}
        BY <3>1, <3>2, RowValues
      <3> QED BY <1>1, <1>7, <2>2, <3>3, RowValues DEF DemoType
    <2>8. dev'[Current].done BY <1>1, <2>1, <2>4, <2>5, <2>7, HwWaitStep DEF DriverInv
    <2> QED BY <1>7, <2>5, <2>6, <2>8
  <1>8. CopyPending'
    BY <1>1, <1>4, <1>6, <1>7 DEF CopyPending, copied
  <1>9. MatchAfterBaseline' BY <1>4 DEF DemoInv, CycleInv, MatchAfterBaseline, copied
  <1> HIDE DEF programmed
  <1> QED BY <1>4, <1>5, <1>8, <1>9 DEF DemoInv, CycleInv, DemoTyped, DemoServes

\* A device that leaves while it programs may hold garbage, never the row.
LEMMA CycleOnPlug ==
    ASSUME DemoInv, DemoPlug
    PROVE  CycleInv'
  <1>1. demo \in DemoType /\ TypeOK2431 /\ UNCHANGED demo
    BY DEF DemoInv, CycleInv, DemoTyped, DriverInv, DemoPlug
  <1>2. PICK d \in Devices : Plug(d) BY DEF DemoPlug
  <1>3. UNCHANGED ctx BY <1>2 DEF Plug
  <1>4. Current' = Current BY <1>1 DEF Current
  <1>5. ASSUME demo.step \in CycleSteps, dev[Current].eeprom[Row] # demo.written
        PROVE  dev'[Current].eeprom[Row] # demo.written
    <2>1. Current \in Devices BY <1>5, CurrentDevice DEF DemoInv, CycleInv, DemoTyped
    <2>2. CASE Current # d BY <1>1, <1>2, <1>5, <2>1, <2>2, PlugStep
    <2>3. CASE Current = d
      <3> DEFINE x == dev[d]
      <3>1. x \in DeviceType2431 BY <1>1 DEF TypeOK2431
      <3>2. dev \in [Devices -> DeviceType2431] BY <1>1 DEF TypeOK2431
      <3>3. PICK v \in {x.eeprom[x.sp.ta], "garbled"} :
               dev'[d].eeprom = [x.eeprom EXCEPT ![x.sp.ta] = v]
        BY <1>2, <3>2 DEF Plug
      <3>4. dev'[d].eeprom[Row] \in {x.eeprom[Row], "garbled"}
        BY <3>1, <3>3, RowValues DEF DeviceType2431
      <3> QED BY <1>1, <1>5, <2>3, <3>4, RowValues DEF DemoType
    <2> QED BY <2>2, <2>3
  <1>6. CopyPending' BY <1>1, <1>4, <1>5 DEF DemoInv, CycleInv, CopyPending
  <1> QED BY <1>1, <1>3, <1>6 DEF DemoInv, CycleInv, DemoTyped, DemoServes, MatchAfterBaseline

\* Where the application is the free one the example stands still.
LEMMA CycleOnFree ==
    ASSUME DemoInv, demo.step = "FREE", UNCHANGED demo
    PROVE  CycleInv'
  BY DEF DemoInv, CycleInv, DemoTyped, DemoServes, CopyPending, MatchAfterBaseline, CycleSteps

LEMMA CycleOnStutter ==
    ASSUME DemoInv, UNCHANGED demoVars
    PROVE  CycleInv'
  <1>1. Current' = Current BY DEF demoVars, Current
  <1> QED BY <1>1 DEF demoVars, vars, DemoInv, CycleInv, DemoTyped, DemoServes, CopyPending,
             MatchAfterBaseline

-----------------------------------------------------------------------------
(***************************************************************************)
(* The invariant of the driver and its callers.                            *)
(***************************************************************************)
LEMMA DemoStarts == DemoInit => DemoInv
  <1> SUFFICES ASSUME DemoInit PROVE DemoInv OBVIOUS
  <1>1. DriverInv BY DriverStarts DEF DemoInit
  <1>2. demo \in DemoType /\ demo.step \in {"BOOT", "FREE"} /\ ~demo.running
        /\ demo.verdict = "none"
    <2> DEFINE step == IF app.scene \in DemoScenes THEN "BOOT" ELSE "FREE"
    <2>1. demo = DemoBoot(step, 0) BY DEF DemoInit
    <2>2. step \in {"BOOT", "FREE"} OBVIOUS
    <2> HIDE DEF step
    <2> QED BY <2>1, <2>2 DEF DemoBoot, DemoType, Rows
  <1>3. ctx.finished BY DEF DemoInit, Init, CtxInit
  <1> QED BY <1>1, <1>2, <1>3 DEF DemoInv, CycleInv, DemoTyped, DemoServes, CopyPending,
             MatchAfterBaseline, CycleSteps

LEMMA DemoKeeps == DemoInv /\ [DemoNext]_demoVars => DemoInv'
  <1> SUFFICES ASSUME DemoInv, [DemoNext]_demoVars PROVE DemoInv' OBVIOUS
  <1>1. DriverInv' BY DemoSteps, DriverSteps DEF DemoInv, CycleInv, DriverInv
  <1>2. CycleInv'
    <2>1. CASE PowerMode \/ DemoSearch BY <2>1, CycleOnSearch
    <2>2. CASE DemoFound BY <2>2, CycleOnFound
    <2>3. CASE DemoSelect BY <2>3, CycleOnSelect
    <2>4. CASE DemoStart BY <2>4, CycleOnStart
    <2>5. CASE DemoPoll BY <2>5, CycleOnPoll
    <2>6. CASE DemoFinish BY <2>6, CycleOnFinish
    <2>7. CASE DemoHardware BY <2>7, CycleOnHardware
    <2>8. CASE DemoPlug BY <2>8, CycleOnPlug
    <2>9. CASE DemoReset BY <2>9, CycleOnReset
    <2>10. CASE FreeCall \/ FreePoll \/ FreeSearchPoll
      BY <2>10, CycleOnFree DEF FreeCall, FreePoll, FreeSearchPoll
    <2>11. CASE UNCHANGED demoVars BY <2>11, CycleOnStutter
    <2> QED BY <2>1, <2>2, <2>3, <2>4, <2>5, <2>6, <2>7, <2>8, <2>9, <2>10, <2>11
            DEF DemoNext, MainLoop
  <1> QED BY <1>1, <1>2 DEF DemoInv

LEMMA DemoInvariant == DemoSpec => []DemoInv
  BY DemoStarts, DemoKeeps, PTL DEF DemoSpec

(***************************************************************************)
(* Every variable keeps its shape: whatever is written, echoed, corrupted  *)
(* or lost, offsets stay within a block and lengths within a reply.        *)
(***************************************************************************)
THEOREM DriverTyped == DemoSpec => []TypeOK2431
  <1>1. DemoInv => TypeOK2431 BY DriverTypes DEF DemoInv
  <1> QED BY <1>1, DemoInvariant, PTL

(***************************************************************************)
(* ds2431_poll() consumes only the update flag of the operation its phase  *)
(* waits for, and no flag is lost: whoever calls whatever and whenever,    *)
(* with device searches and board resets in between.                       *)
(***************************************************************************)
THEOREM PhaseServed == DemoSpec => []TimerServesPhase
  <1>1. DemoInv => TimerServesPhase BY DriverTypes DEF DemoInv
  <1> QED BY <1>1, DemoInvariant, PTL

(***************************************************************************)
(* A latched write cycle belongs to the device addressed now:              *)
(* ds2431_select() drops it, so a copy never goes to another device.       *)
(***************************************************************************)
THEOREM PendingIsOwn == DemoSpec => []PendingBelongsToSelected
  <1>1. DemoInv => PendingBelongsToSelected BY DriverTypes DEF DemoInv
  <1> QED BY <1>1, DemoInvariant, PTL

(***************************************************************************)
(* A device that programs is supplied, and no reset, read or search starts *)
(* against the engaged pull-up, as long as the application has declared    *)
(* the power mode and waits for its operations.                            *)
(***************************************************************************)
THEOREM ProgrammingPowered == DemoSpec => []PullupForProgramming
  <1>1. DemoInv => PullupForProgramming BY DriverPullup DEF DemoInv
  <1> QED BY <1>1, DemoInvariant, PTL

(***************************************************************************)
(* Only what an echo has verified is ever programmed: the payload of the   *)
(* last write, whole and in its block, although bytes are corrupted and    *)
(* devices lose their scratchpads between the echo and the copy.           *)
(***************************************************************************)
THEOREM OnlyVerifiedCommits == DemoSpec => CommitsVerified
  <1>1. DemoInv /\ [DemoNext]_demoVars =>
           [\A d \in Devices, b \in Blocks :
               app.scene.careful /\ dev'[d].present = dev[d].present
                   /\ dev'[d].eeprom[b] # dev[d].eeprom[b] =>
                      b = asked.wta /\ dev'[d].eeprom[b] = asked.wdata /\ asked.wlen = 8]_vars
    <2> SUFFICES ASSUME DemoInv, [DemoNext]_demoVars, NEW d \in Devices, NEW b \in Blocks,
                        app.scene.careful, dev'[d].present = dev[d].present,
                        dev'[d].eeprom[b] # dev[d].eeprom[b]
                 PROVE  b = asked.wta /\ dev'[d].eeprom[b] = asked.wdata /\ asked.wlen = 8
      OBVIOUS
    <2>1. DriverInv /\ DriverStep BY DemoSteps DEF DemoInv, CycleInv, DriverInv
    <2> QED BY <2>1, CommitStep
  <1> QED BY <1>1, DemoInvariant, PTL DEF DemoSpec, CommitsVerified

(***************************************************************************)
(* What ds2431_poll() reports OK is so: a copy has programmed the block on *)
(* a device it was sent to, a read hands out the block asked for where no  *)
(* noise may change its address.                                           *)
(***************************************************************************)
THEOREM ReportsAreTrue == DemoSpec => OkMeansDone
  <1>1. DemoInv /\ [DemoNext]_demoVars =>
           [app.scene.careful /\ PollFinish /\ ctx.ok =>
               /\ ctx.cmd = "copy_scratchpad" =>
                     \E d \in Devices : wire.rom \in {NoRom, d}
                                        /\ dev[d].eeprom[asked.wta] = asked.wdata
               /\ ctx.cmd = "read_memory" =>
                     \/ line.raw.data \in {"garbled", "ones"}
                     \/ \E d \in Devices, b \in BlocksRead : line.raw.data = dev[d].eeprom[b]]_vars
    BY FinishStep DEF DemoInv
  <1> QED BY <1>1, DemoInvariant, PTL DEF DemoSpec, OkMeansDone

(***************************************************************************)
(* The read-back of the example proves its copy: "read-back matches the    *)
(* write" after a truthful baseline means that this cycle programmed the   *)
(* row, although failed steps are followed by the next and the echo is     *)
(* looked at by nobody.                                                    *)
(***************************************************************************)
THEOREM MatchProvesCopy == DemoSpec => []MatchAfterBaseline
  <1>1. DemoInv => MatchAfterBaseline BY DEF DemoInv, CycleInv
  <1> QED BY <1>1, DemoInvariant, PTL

=============================================================================
