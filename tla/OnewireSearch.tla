---------------------------- MODULE OnewireSearch ---------------------------
(***************************************************************************)
(* The generic Search ROM engine: the Maxim walk over the tree of ROM      *)
(* addresses as a polled state machine, one timed operation per poll, and  *)
(* the devices that take part in the walk bit by bit.                      *)
(*                                                                         *)
(* A ROM has Bits bits instead of 64; its first bit stands for the family  *)
(* byte.  Legal are the bit patterns whose CRC-8 is zero.                  *)
(***************************************************************************)
EXTENDS OwPort, FiniteSets

CONSTANTS
    Bits,        \* ONEWIRE_ROM_BITS
    Legal,       \* ROMs with a valid CRC
    Devices,     \* ROMs of the devices that may be wired
    Scenarios    \* the requests and what may happen to the bus

ASSUME BitsAssumption    == Bits \in Nat \ {0}
ASSUME LegalAssumption   == Legal \subseteq [1..Bits -> {0, 1}]
ASSUME DevicesAssumption == Devices \subseteq Legal

AnyFamily == 2       \* family 0 in the code: accept every family

\* still: no device comes or goes and nothing is corrupted; devices are those that
\* may be wired; families and limits are the requests of the callers.
ASSUME ScenarioAssumption ==
    Scenarios \subseteq [still : BOOLEAN, devices : SUBSET Devices,
                         families : SUBSET {0, 1, AnyFamily}, limits : SUBSET Nat]

\* A limit is a uint8_t: there is a largest one.
ASSUME LimitAssumption ==
    LET limits == UNION {s.limits : s \in Scenarios}
    IN  \E most \in limits : \A n \in limits : n <= most

VARIABLES
    port,    \* the timer (OwPort)
    ctx,     \* search_ctx
    wire,    \* the slots being sent: a direction bit or none, and a pair read or none
    line,    \* the captures: presence, and the id/complement pair
    walk,    \* the devices that still take part, and the bit they are at
    bus,     \* the scenario; the devices present, and those in alarm
    sink     \* what the callback has been given since the request, and whether it stopped

vars == <<port, ctx, wire, line, walk, bus, sink>>

Phases == {"RESET", "CMD", "READ_PAIR", "WRITE_READ", "WRITE_DIR", "DONE"}
ZeroRom == [i \in 1..Bits |-> 0]
NoLeaf  == <<>>          \* PREV_LEAF_VALID not set
NoDir   == 2

Init ==
    /\ port = PortInit
    /\ ctx = [phase |-> "DONE", alarm |-> FALSE, family |-> AnyFamily, rom |-> ZeroRom, n |-> 1,
              lastDiscrepancy |-> 0, lastZero |-> 0, found |-> 0, max |-> 0, finished |-> TRUE,
              prevLeaf |-> NoLeaf]
    /\ wire = [dir |-> NoDir, pair |-> FALSE]
    /\ line = [seen |-> FALSE, id |-> 1, cmp |-> 1]
    /\ walk = [in |-> {}, at |-> 1]
    /\ bus \in [scene : Scenarios, present : SUBSET Devices, alarmed : SUBSET Devices]
    /\ bus.alarmed \subseteq bus.present /\ bus.present \subseteq bus.scene.devices
    /\ sink = [asked |-> FALSE, given |-> {}, twice |-> FALSE, stopped |-> FALSE]

-----------------------------------------------------------------------------
\* What onewire_search_start() resets.
Fresh(alarm, family, max) ==
    [phase |-> IF max = 0 THEN "DONE" ELSE "RESET", alarm |-> alarm, family |-> family,
     rom |-> ZeroRom, n |-> ctx.n, lastDiscrepancy |-> 0, lastZero |-> ctx.lastZero,
     found |-> 0, max |-> max, finished |-> FALSE, prevLeaf |-> NoLeaf]

SearchStart(alarm, family, max) ==
    /\ ctx.finished
    /\ ctx' = Fresh(alarm, family, max)
    /\ port' = IF max = 0 THEN port ELSE Arm(port, "reset")
    /\ sink' = [asked |-> TRUE, given |-> {}, twice |-> FALSE, stopped |-> FALSE]
    /\ UNCHANGED <<wire, line, walk, bus>>

-----------------------------------------------------------------------------
(***************************************************************************)
(* onewire_search_poll().                                                  *)
(***************************************************************************)
PhaseDone(phase) == ~ctx.finished /\ ctx.phase = phase /\ port.uif

Consumed == BusDone(port)

\* Mutant: an empty bus is asked again.
PollResetRetries ==
    /\ PhaseDone("RESET")
    /\ port' = Arm(Consumed, IF line.seen THEN "command" ELSE "reset")
    /\ ctx' = [ctx EXCEPT !.phase = IF line.seen THEN "CMD" ELSE @]
    /\ UNCHANGED <<wire, line, walk, bus, sink>>

PollReset ==
    /\ PhaseDone("RESET")
    /\ IF line.seen
          THEN port' = Arm(Consumed, "command") /\ ctx' = [ctx EXCEPT !.phase = "CMD"]
          ELSE port' = Consumed /\ ctx' = [ctx EXCEPT !.phase = "DONE"]
    /\ UNCHANGED <<wire, line, walk, bus, sink>>

PollCmd ==
    /\ PhaseDone("CMD")
    /\ ctx' = [ctx EXCEPT !.phase = "READ_PAIR", !.n = 1, !.lastZero = 0]
    /\ port' = Arm(Consumed, "slots")
    /\ wire' = [dir |-> NoDir, pair |-> TRUE]
    /\ UNCHANGED <<line, walk, bus, sink>>

\* Both branches are open: neither bit is 1.
Discrepancy == line.id = 0 /\ line.cmp = 0

\* Mutant: the complement decides instead of the bit.
DirectionFromComplement(n) ==
    IF ~Discrepancy THEN line.cmp
    ELSE IF n < ctx.lastDiscrepancy THEN ctx.rom[n]
    ELSE IF n = ctx.lastDiscrepancy THEN 1 ELSE 0

(***************************************************************************)
(* One device on the path fixes the direction; before the last discrepancy *)
(* the walk repeats the path taken, there it takes the 1 branch, after it  *)
(* the 0 branch.                                                           *)
(***************************************************************************)
Direction(n) ==
    IF ~Discrepancy THEN line.id
    ELSE IF n < ctx.lastDiscrepancy THEN ctx.rom[n]
    ELSE IF n = ctx.lastDiscrepancy THEN 1 ELSE 0

\* Mutant: a 0 branch on the repeated path is not remembered.
ZeroBranchNewOnly(n) == Discrepancy /\ Direction(n) = 0 /\ n > ctx.lastDiscrepancy

ZeroBranch(n) == Discrepancy /\ Direction(n) = 0

\* onewire_search_advance_bit() at position n.
AdvanceBit(n) ==
    IF line.id = 1 /\ line.cmp = 1
    THEN /\ ctx' = [ctx EXCEPT !.n = n, !.phase = "DONE"]
         /\ port' = Consumed
         /\ UNCHANGED wire
    ELSE /\ ctx' = [ctx EXCEPT !.n = n, !.rom[n] = Direction(n),
                               !.lastZero = IF ZeroBranch(n) THEN n ELSE @,
                               !.phase = IF n < Bits THEN "WRITE_READ" ELSE "WRITE_DIR"]
         /\ port' = Arm(Consumed, "slots")
         /\ wire' = [dir |-> Direction(n), pair |-> n < Bits]

PollReadPair ==
    /\ PhaseDone("READ_PAIR")
    /\ AdvanceBit(ctx.n)
    /\ UNCHANGED <<line, walk, bus, sink>>

PollWriteRead ==
    /\ PhaseDone("WRITE_READ")
    /\ AdvanceBit(ctx.n + 1)
    /\ UNCHANGED <<line, walk, bus, sink>>

Accepted == ctx.rom \in Legal /\ ctx.family \in {AnyFamily, ctx.rom[1]}

Given(rom, stop) ==
    [sink EXCEPT !.given = @ \cup {rom}, !.twice = @ \/ rom \in sink.given, !.stopped = stop]

\* A walk that ends where the one before ended has made no progress.
SameLeaf == ctx.prevLeaf = ctx.rom

LimitReached(found) == found >= ctx.max

\* The last direction bit is out: found is the count and stop what the sink
\* returned.
WalkEnds(found, stop) ==
    LET over == \/ ctx.rom \notin Legal
                \/ Accepted /\ (stop \/ LimitReached(found))
                \/ ctx.lastZero = 0
                \/ SameLeaf
        next == [ctx EXCEPT !.n = @ + 1, !.lastDiscrepancy = ctx.lastZero, !.found = found]
    IN IF over
       THEN ctx' = [next EXCEPT !.phase = "DONE"] /\ port' = Consumed
       ELSE /\ ctx' = [next EXCEPT !.phase = "RESET", !.prevLeaf = ctx.rom]
            /\ port' = Arm(Consumed, "reset")

PollWriteDir ==
    /\ PhaseDone("WRITE_DIR")
    /\ \/ /\ Accepted
          /\ \E stop \in BOOLEAN :
                /\ sink' = Given(ctx.rom, stop)
                /\ WalkEnds(ctx.found + 1, stop)
       \/ /\ ~Accepted
          /\ WalkEnds(ctx.found, FALSE)
          /\ UNCHANGED sink
    /\ UNCHANGED <<wire, line, walk, bus>>

PollDone ==
    /\ ~ctx.finished
    /\ ctx.phase = "DONE"
    /\ ctx' = [ctx EXCEPT !.finished = TRUE]
    /\ UNCHANGED <<port, wire, line, walk, bus, sink>>

Poll == PollReset \/ PollCmd \/ PollReadPair \/ PollWriteRead \/ PollWriteDir \/ PollDone

-----------------------------------------------------------------------------
(***************************************************************************)
(* The bus.  A device that takes part sends its bit and the complement and *)
(* drops out when the direction bit is not its own; the line is the AND.   *)
(***************************************************************************)
HwEnds(operation) ==
    port.op = operation /\ port' = HwDone(port) /\ UNCHANGED <<ctx, wire, bus, sink>>

HwReset ==
    /\ HwEnds("reset")
    /\ walk' = [in |-> bus.present, at |-> 1]
    /\ line' = [line EXCEPT !.seen = bus.present # {}]

HwCommand ==
    /\ HwEnds("command")
    /\ walk' = [walk EXCEPT !.in = IF ctx.alarm THEN @ \cap bus.alarmed ELSE @]
    /\ UNCHANGED line

And(bits) == IF 0 \in bits THEN 0 ELSE 1

\* Slots of corrupted or broken answers may show any pair.
Pairs(w) ==
    {<<And({d[w.at] : d \in w.in}), And({1 - d[w.at] : d \in w.in})>>} \cup
    (IF bus.scene.still THEN {} ELSE {0, 1} \X {0, 1})

HwSlots ==
    /\ HwEnds("slots")
    /\ walk' = IF wire.dir = NoDir THEN walk
               ELSE [in |-> {d \in walk.in : d[walk.at] = wire.dir}, at |-> walk.at + 1]
    /\ IF wire.pair THEN \E p \in Pairs(walk') : line' = [line EXCEPT !.id = p[1], !.cmp = p[2]]
                    ELSE UNCHANGED line

Hardware == HwReset \/ HwCommand \/ HwSlots

\* A device comes or goes; a newcomer waits for the next reset.
Plug(d) ==
    /\ ~bus.scene.still /\ d \in bus.scene.devices
    /\ bus' = [bus EXCEPT !.present = IF d \in @ THEN @ \ {d} ELSE @ \cup {d}, !.alarmed = @ \ {d}]
    /\ walk' = [walk EXCEPT !.in = @ \ {d}]
    /\ UNCHANGED <<port, ctx, wire, line, sink>>

Request ==
    \E alarm \in BOOLEAN, family \in bus.scene.families, max \in bus.scene.limits :
        SearchStart(alarm, family, max)

Next == Request \/ Poll \/ Hardware \/ \E d \in Devices : Plug(d)

Fairness == WF_vars(Poll) /\ WF_vars(Hardware)

Spec == Init /\ [][Next]_vars /\ Fairness

=============================================================================
