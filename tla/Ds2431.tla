------------------------------- MODULE Ds2431 -------------------------------
(***************************************************************************)
(* The DS2431 EEPROM driver: one engine (reset, command, then a read or a  *)
(* timed programming window) on the timer of OwPort, and the write cycle   *)
(* Write Scratchpad - Read Scratchpad - Copy Scratchpad it is used for.    *)
(*                                                                         *)
(* The application is of one of two kinds, chosen at the start.  A careful *)
(* one keeps to the documented cycle: it waits for every operation, calls  *)
(* nothing between a write and the copy of it but the echo read, and       *)
(* copies only what that has verified.  A careless one calls anything at   *)
(* any time; the driver promises to ignore what comes while it is busy.    *)
(***************************************************************************)
EXTENDS OwPort

CONSTANTS
    Devices,     \* ROM addresses of the DS2431s wired to the bus
    NoRom,       \* Skip ROM
    Blocks,      \* addresses of 8-byte EEPROM blocks
    Values,      \* contents of a block the application writes
    Parasitic,   \* the devices powered over the data line
    Scenarios    \* what may happen in a run: one of these is chosen at the start

(***************************************************************************)
(* A scenario: the kind of application, the devices there are, whether     *)
(* they come and go and transfers are corrupted, and the blocks and        *)
(* lengths the application writes (8 is the whole block).                  *)
(***************************************************************************)
ASSUME ScenarioAssumption2431 ==
    Scenarios \subseteq [careful : BOOLEAN, devices : SUBSET Devices, hotplug : BOOLEAN,
                         noise : BOOLEAN, writes : SUBSET (Blocks \X (1..8))]
ASSUME RomAssumption2431  == NoRom \notin Devices
ASSUME BlocksAssumption   == Blocks # {}
ASSUME PowerAssumption2431 == Parasitic \subseteq Devices
\* A byte pattern nobody wrote, and the line read while nobody drives it.
ASSUME ValuesAssumption   == {"garbled", "ones"} \cap Values = {}

VARIABLES
    port,    \* the timer and the pin (OwPort)
    ctx,     \* DS2431_ctx_t without the capture and command buffers
    wire,    \* ctx.u.cmd: the command the DMA sends
    line,    \* the captures: presence, last read; and the devices addressed
    dev,     \* the devices
    search,  \* onewire_search_active()
    app,     \* the application: the scenario, and where it is in a write cycle
    asked    \* history: the arguments of the accepted call and of the last write

vars == <<port, ctx, wire, line, dev, search, app, asked>>

Roms     == Devices \cup {NoRom}
Commands == {"read_memory", "write_scratchpad", "read_scratchpad", "copy_scratchpad"}
Phases2431 == {"RESET", "CMD", "READ", "WAIT", "DONE", "IDLE"}
Contents == Values \cup {"garbled", "ones"}

FrameLen == 13      \* DS2431_SCRATCH_FRAME_CRC
TProg    == 11000   \* DS2431_TPROG_US

(***************************************************************************)
(* What a read decodes to.  kind "frame": a scratchpad reply with a valid  *)
(* header and CRC; "data": a block; "status": the completion pattern 0xAA; *)
(* "bad": anything that is none of these.                                  *)
(***************************************************************************)
Raw(kind, ta, es, pf, data) ==
    [kind |-> kind, ta |-> ta, es |-> es, pf |-> pf, data |-> data]

AnyBlock == CHOOSE b \in Blocks : TRUE
BadRaw   == Raw("bad", AnyBlock, 7, TRUE, "ones")
NoWire   == [cmd |-> "none", rom |-> NoRom, ta |-> AnyBlock, es |-> 0, plen |-> 0, data |-> "ones"]

\* A powered-up scratchpad holds nothing that may be copied.
NoScratch == [ta |-> AnyBlock, es |-> 7, pf |-> TRUE, data |-> "ones"]

\* The driver after reset.
CtxInit ==
    [addr |-> FALSE, par |-> FALSE, ok |-> FALSE, finished |-> TRUE, pending |-> FALSE,
     echo |-> FALSE, phase |-> "IDLE", cmd |-> "none", ta |-> AnyBlock, len |-> 0,
     plen |-> 0, es |-> 0, data |-> "ones", rom |-> NoRom]

Init ==
    /\ port = PortInit
    /\ ctx = CtxInit
    /\ wire = NoWire
    /\ line = [seen |-> FALSE, heard |-> {}, raw |-> BadRaw]
    /\ search = FALSE
    /\ \E scene \in Scenarios : app = [scene |-> scene, cycle |-> "none"]
    /\ dev = [d \in Devices |-> [present |-> d \in app.scene.devices, sp |-> NoScratch, prog |-> FALSE,
                 done |-> FALSE, eeprom |-> [b \in Blocks |-> "ones"]]]
    /\ asked = [cmd |-> "none", ta |-> AnyBlock, len |-> 0, wta |-> AnyBlock, wlen |-> 0,
                wdata |-> "ones", wrom |-> NoRom]

-----------------------------------------------------------------------------
(***************************************************************************)
(* The API.  The result of ds2431_can_start() decides whether a call runs; *)
(* what a call writes into the context before (read memory, copy) or after *)
(* (the echo flag) ds2431_start() it writes in either case.                *)
(***************************************************************************)
\* Mutant: the search engine may own the timer.
CanStartNoSearch == ctx.phase \in {"IDLE", "DONE"}

CanStart == ctx.phase \in {"IDLE", "DONE"} /\ ~search

\* A careful application declares the power mode of the bus first and waits
\* until the poll has reported the end of an operation.
MayCall == app.scene.careful => ctx.finished /\ ~search /\ ctx.par = (Parasitic # {})

\* The device the next command goes to.
Selected == IF ctx.addr THEN ctx.rom ELSE NoRom

Started(c, cmd) ==
    [c EXCEPT !.cmd = cmd, !.ok = FALSE, !.finished = FALSE, !.echo = FALSE, !.phase = "RESET"]

ResetPort(p) == Arm(StrongPullup(p, FALSE), "reset")

\* ds2431_start(): the context becomes acc if the operation is accepted and rej
\* if it is not; asks are the arguments of the call.
Start(acc, rej, asks) ==
    \/ /\ CanStart
       /\ ctx' = acc
       /\ port' = ResetPort(port)
       /\ asked' = asks
    \/ /\ ~CanStart
       /\ ctx' = rej
       /\ UNCHANGED <<port, asked>>

\* Where the application is in its write cycle.
AppAt(stage) == app' = [app EXCEPT !.cycle = stage]

ReadMemory(b) ==
    /\ MayCall
    /\ LET c == [ctx EXCEPT !.ta = b, !.len = 8, !.plen = 0]
       IN Start(Started(c, "read_memory"), c,
                [asked EXCEPT !.cmd = "read_memory", !.ta = b, !.len = 8])
    /\ AppAt("none")
    /\ UNCHANGED <<wire, line, dev, search>>

\* Scheduled first, latched only if accepted; a rejected call changes nothing.
WriteScratchpad(b, n, v) ==
    /\ MayCall
    /\ CanStart
    /\ Start([Started(ctx, "write_scratchpad") EXCEPT
                 !.ta = b, !.es = n - 1, !.len = 0, !.plen = n, !.data = v, !.pending = TRUE], ctx,
             [cmd |-> "write_scratchpad", ta |-> b, len |-> 0, wta |-> b, wlen |-> n,
              wdata |-> v, wrom |-> Selected])
    /\ AppAt("written")
    /\ UNCHANGED <<wire, line, dev, search>>

ReadScratchpad ==
    /\ MayCall
    /\ LET c == [ctx EXCEPT !.len = FrameLen, !.plen = 0]
       IN Start([Started(c, "read_scratchpad") EXCEPT !.echo = TRUE], [c EXCEPT !.echo = TRUE],
                [asked EXCEPT !.cmd = "read_scratchpad", !.len = FrameLen])
    /\ UNCHANGED <<wire, line, dev, search, app>>

CopyScratchpad ==
    /\ MayCall
    /\ app.scene.careful => app.cycle = "verified"
    /\ ctx.pending
    /\ LET c == [ctx EXCEPT !.len = 1, !.plen = 0]
       IN Start(Started(c, "copy_scratchpad"), c,
                [asked EXCEPT !.cmd = "copy_scratchpad", !.ta = asked.wta, !.len = 1])
    /\ AppAt("none")
    /\ UNCHANGED <<wire, line, dev, search>>

\* Mutant: the pending write cycle of the other device survives.
SelectKeepsPending(rom) ==
    /\ MayCall
    /\ CanStart
    /\ ctx' = [ctx EXCEPT !.addr = (rom # NoRom), !.rom = IF rom = NoRom THEN @ ELSE rom]
    /\ AppAt("none")
    /\ UNCHANGED <<port, wire, line, dev, search, asked>>

Select(rom) ==
    /\ MayCall
    /\ CanStart
    /\ ctx' = [ctx EXCEPT !.addr = (rom # NoRom), !.pending = FALSE,
                          !.rom = IF rom = NoRom THEN @ ELSE rom]
    /\ AppAt("none")
    /\ UNCHANGED <<port, wire, line, dev, search, asked>>

\* ds2431_set_parasite() has no guard.
SetParasite(on) ==
    /\ app.scene.careful => ctx.finished /\ ~search /\ on = (Parasitic # {})
    /\ ctx' = [ctx EXCEPT !.par = on]
    /\ UNCHANGED <<port, wire, line, dev, search, app, asked>>

(***************************************************************************)
(* A device search takes the timer for a while.  onewire_search_start()    *)
(* leaves the arbitration to its caller, who starts it between operations. *)
(***************************************************************************)
SearchStart ==
    /\ ~search
    /\ ctx.phase \in {"IDLE", "DONE"}
    /\ search' = TRUE
    /\ port' = Arm(port, "slots")
    /\ UNCHANGED <<ctx, wire, line, dev, app, asked>>

SearchPoll ==
    /\ search
    /\ port.uif
    /\ search' = FALSE
    /\ port' = BusDone(port)
    /\ UNCHANGED <<ctx, wire, line, dev, app, asked>>

-----------------------------------------------------------------------------
(***************************************************************************)
(* ds2431_poll().                                                          *)
(***************************************************************************)
PhaseDone(phase) == ~ctx.finished /\ ctx.phase = phase /\ port.uif

Consumed == BusDone(port)

\* Mutant: the pull-up is only ever released.
PullupIfRelease(p, on) == IF ctx.par THEN StrongPullup(p, FALSE) ELSE p

PullupIf(p, on) == IF ctx.par THEN StrongPullup(p, on) ELSE p

\* ds2431_build(): prefix, command, target address, and E/S or the payload.
Build(c) ==
    [cmd |-> c.cmd, rom |-> Selected, ta |-> c.ta, es |-> c.es,
     plen |-> c.plen, data |-> c.data]

\* Mutant: without a presence pulse the reset is waited for again.
AbsentRetries == "RESET"

\* Where a reset that nobody answers leads.
AbsentPhase == "DONE"

PollReset ==
    /\ PhaseDone("RESET")
    /\ IF line.seen
          THEN /\ wire' = Build(ctx)
               /\ port' = Arm(PullupIf(Consumed, TRUE), "write")
               /\ ctx' = [ctx EXCEPT !.phase = "CMD"]
          ELSE /\ port' = Consumed
               /\ ctx' = [ctx EXCEPT !.phase = AbsentPhase]
               /\ UNCHANGED wire
    /\ UNCHANGED <<line, dev, search, app, asked>>

\* Mutant: a tenth of the programming time.
HoldOffShort == TProg \div 10

HoldOff == TProg

PollCmd ==
    /\ PhaseDone("CMD")
    /\ \/ /\ ctx.cmd = "copy_scratchpad"
          /\ port' = ArmWait(Consumed, HoldOff)
          /\ ctx' = [ctx EXCEPT !.phase = "WAIT"]
       \/ /\ ctx.cmd # "copy_scratchpad"
          /\ ctx.len > 0
          /\ port' = Arm(PullupIf(Consumed, FALSE), "read")
          /\ ctx' = [ctx EXCEPT !.phase = "READ"]
       \/ /\ ctx.cmd # "copy_scratchpad"
          /\ ctx.len = 0
          /\ port' = PullupIf(Consumed, FALSE)
          /\ ctx' = [ctx EXCEPT !.phase = "DONE", !.ok = TRUE]
    /\ UNCHANGED <<wire, line, dev, search, app, asked>>

(***************************************************************************)
(* The scratchpad reply is accepted: header and CRC hold and, while a      *)
(* write is pending, it echoes that write with all its bytes.              *)
(***************************************************************************)
\* Mutant: the read-back bytes are not compared with the payload.
EchoOkHeaderOnly(c, r) ==
    /\ r.kind = "frame"
    /\ c.echo /\ c.pending => r.ta = c.ta /\ r.es = c.es /\ ~r.pf

EchoOk(c, r) ==
    /\ r.kind = "frame"
    /\ c.echo /\ c.pending => r.ta = c.ta /\ r.es = c.es /\ ~r.pf /\ r.data = c.data

\* Mutant: any answer after the programming window counts as success.
ReadOkAnyStatus(c, r) ==
    CASE c.cmd = "copy_scratchpad" -> TRUE
      [] c.cmd = "read_scratchpad" -> EchoOk(c, r)
      [] OTHER -> TRUE

ReadOk(c, r) ==
    CASE c.cmd = "copy_scratchpad" -> r.kind = "status"
      [] c.cmd = "read_scratchpad" -> EchoOk(c, r)
      [] OTHER -> TRUE

\* A scratchpad read that a rejected call has cut short is judged with what is
\* left of earlier frames in raw[]: either way.
Verdicts ==
    IF ctx.cmd = "read_scratchpad" /\ ctx.len < FrameLen THEN BOOLEAN ELSE {ReadOk(ctx, line.raw)}

PollRead ==
    /\ PhaseDone("READ")
    /\ port' = Consumed
    /\ \E ok \in Verdicts : ctx' = [ctx EXCEPT !.phase = "DONE", !.ok = ok]
    /\ UNCHANGED <<wire, line, dev, search, app, asked>>

PollWait ==
    /\ PhaseDone("WAIT")
    /\ port' = Arm(StrongPullup(Consumed, FALSE), "read")
    /\ ctx' = [ctx EXCEPT !.phase = "READ"]
    /\ UNCHANGED <<wire, line, dev, search, app, asked>>

\* The poll that returns 1 first: now the caller has the bytes read (those of
\* line.raw, if ok) and knows whether the echo verified its write.
PollFinish ==
    /\ ~ctx.finished
    /\ ctx.phase = "DONE"
    /\ ctx' = [ctx EXCEPT !.finished = TRUE]
    /\ AppAt(CASE ctx.cmd # "read_scratchpad" -> app.cycle
               [] ctx.cmd = "read_scratchpad" /\ ctx.ok /\ app.cycle = "written" -> "verified"
               [] OTHER -> "none")
    /\ UNCHANGED <<port, wire, line, dev, search, asked>>

Poll == PollReset \/ PollCmd \/ PollRead \/ PollWait \/ PollFinish

-----------------------------------------------------------------------------
(***************************************************************************)
(* The hardware and the devices.                                           *)
(***************************************************************************)
HwEnds(operation) ==
    /\ port.op = operation
    /\ port' = HwDone(port)
    /\ UNCHANGED <<ctx, search, app, asked>>

\* The captured pulses overwrite the command table, which shares their memory.
\* A reset ends what a device was doing: it stops sending its status.
HwReset ==
    /\ HwEnds("reset")
    /\ line' = [seen |-> port.pin = "od" /\ \E d \in Devices : dev[d].present,
                heard |-> {}, raw |-> BadRaw]
    /\ dev' = [d \in Devices |-> [dev[d] EXCEPT !.prog = FALSE, !.done = FALSE]]
    /\ wire' = NoWire

Hearing == {d \in Devices : dev[d].present /\ (wire.rom = NoRom \/ d = wire.rom)}

\* The end offset of n bytes written from the start of a block; a partial
\* block sets PF.
Scratch(ta, n, v) == [ta |-> ta, es |-> (n + 7) % 8, pf |-> n # 8, data |-> v]

\* Copy Scratchpad needs the authorization pattern: TA and E/S as latched.
Authorized(sp) == sp.ta = wire.ta /\ sp.es = wire.es /\ ~sp.pf

\* What the command does to a device that hears it, bytes corrupted or not (a
\* Read Memory's are in NoisyReplies: it leaves nothing behind).
Heard(x) ==
    CASE wire.cmd = "write_scratchpad" ->
            {[x EXCEPT !.sp = Scratch(wire.ta, wire.plen, wire.data)]} \cup
            (IF app.scene.noise THEN {x, [x EXCEPT !.sp = Scratch(wire.ta, wire.plen, "garbled")]} \cup
                           {[x EXCEPT !.sp = Scratch(b, wire.plen, wire.data)] : b \in Blocks}
                      ELSE {})
      [] wire.cmd = "copy_scratchpad" ->
            {[x EXCEPT !.prog = Authorized(x.sp)]} \cup (IF app.scene.noise THEN {x} ELSE {})
      [] OTHER -> {x}

HwWrite ==
    /\ HwEnds("write")
    /\ line' = [line EXCEPT !.heard = Hearing]
    /\ dev' \in {f \in [Devices -> UNION {Heard(dev[d]) : d \in Devices} \cup {dev[d] : d \in Devices}] :
                    \A d \in Devices : f[d] \in IF d \in Hearing THEN Heard(dev[d]) ELSE {dev[d]}}
    /\ UNCHANGED wire

Powered(d) == d \notin Parasitic \/ port.pin = "pp"

\* The programming window has passed: the block holds the scratchpad, or
\* nobody knows what if the supply was missing.
HwWait ==
    /\ HwEnds("wait")
    /\ dev' = [d \in Devices |->
                 IF ~dev[d].prog THEN dev[d]
                 ELSE [dev[d] EXCEPT !.prog = FALSE, !.done = Powered(d),
                          !.eeprom[dev[d].sp.ta] = IF Powered(d) THEN dev[d].sp.data ELSE "garbled"]]
    /\ UNCHANGED <<wire, line>>

Answering == {d \in line.heard : dev[d].present}

Reply(d) ==
    CASE wire.cmd = "read_memory" -> Raw("data", wire.ta, 7, FALSE, dev[d].eeprom[wire.ta])
      [] wire.cmd = "read_scratchpad" ->
            Raw("frame", dev[d].sp.ta, dev[d].sp.es, dev[d].sp.pf, dev[d].sp.data)
      [] wire.cmd = "copy_scratchpad" /\ dev[d].done -> Raw("status", wire.ta, 7, FALSE, "ones")
      [] OTHER -> BadRaw

\* The line is the AND of the answers; a refused copy answers with ones, and
\* so does nobody at all.
Replies ==
    LET r == {Reply(d) : d \in Answering} \ {BadRaw}
    IN IF port.pin = "pp" \/ r = {} THEN {BadRaw}
       ELSE IF \A a, b \in r : a = b THEN r
       ELSE {[BadRaw EXCEPT !.data = "garbled"]}

\* Noise garbles an answer, or has garbled the address of a Read Memory: then
\* another block's bytes come back, and nothing in the answer tells.
NoisyReplies ==
    IF ~app.scene.noise THEN {}
    ELSE {[BadRaw EXCEPT !.data = "garbled"]} \cup
         (IF wire.cmd = "read_memory"
             THEN UNION {{Raw("data", b, 7, FALSE, dev[d].eeprom[b]) : b \in Blocks} : d \in Answering}
             ELSE {})

HwRead ==
    /\ HwEnds("read")
    /\ \E r \in Replies \cup NoisyReplies : line' = [line EXCEPT !.raw = r]
    /\ UNCHANGED <<wire, dev>>

HwSlots == HwEnds("slots") /\ UNCHANGED <<wire, line, dev>>

Hardware == HwReset \/ HwWrite \/ HwWait \/ HwRead \/ HwSlots

\* A device leaves the bus or comes back: the scratchpad is lost, and a block
\* that was being programmed holds the old data or garbage.
Plug(d) ==
    /\ app.scene.hotplug /\ d \in app.scene.devices
    /\ \E v \in IF dev[d].prog THEN {dev[d].eeprom[dev[d].sp.ta], "garbled"}
                ELSE {dev[d].eeprom[dev[d].sp.ta]} :
           dev' = [dev EXCEPT ![d] = [present |-> ~@.present, sp |-> NoScratch, prog |-> FALSE,
                       done |-> FALSE, eeprom |-> [@.eeprom EXCEPT ![@.sp.ta] = v]]]
    /\ UNCHANGED <<port, ctx, wire, line, search, app, asked>>

-----------------------------------------------------------------------------
Application ==
    \/ \E w \in app.scene.writes : ReadMemory(w[1])
    \/ \E w \in app.scene.writes, v \in Values : WriteScratchpad(w[1], w[2], v)
    \/ ReadScratchpad
    \/ CopyScratchpad
    \/ \E rom \in app.scene.devices \cup {NoRom} : Select(rom)
    \/ \E on \in BOOLEAN : SetParasite(on)
    \/ SearchStart

Next ==
    \/ Application \/ SearchPoll \/ Poll \/ Hardware
    \/ \E d \in Devices : Plug(d)

\* The timer reaches its end and the main loop keeps polling.
Fairness == WF_vars(Hardware) /\ WF_vars(Poll) /\ WF_vars(SearchPoll)

Spec     == Init /\ [][Next]_vars
FairSpec == Spec /\ Fairness

=============================================================================
