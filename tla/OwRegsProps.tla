---------------------------- MODULE OwRegsProps ----------------------------
(***************************************************************************)
(* What the register programs of OwRegs have to achieve on the bus, and    *)
(* that they implement the timer the engines are written against.          *)
(***************************************************************************)
EXTENDS OwRegs

Stopped == ~m.cen /\ ~Executing

(***************************************************************************)
(* The pulses on the line are the ones asked for, each once and in order,  *)
(* and all of them when the timer stops: a table is fed from its second    *)
(* entry on, a length that the repetition counter cannot hold is refused.  *)
(* The timer stands still, and runs through a timed wait, with the release *)
(* pulse in the compare register: whichever of the two mechanisms (preload *)
(* or DMA) had to release it, the line idles high.                         *)
(***************************************************************************)
PulsesAsAsked ==
    /\ IsPrefix(bus.sent, call.pulses)
    /\ Stopped => bus.sent = call.pulses
    /\ Stopped \/ (m.cen /\ call.op = "wait") => m.ccr3 = "none"

(***************************************************************************)
(* When the timer stops, every edge of a capture operation is in the       *)
(* buffer, in order - the channel is armed before the first edge and for   *)
(* all of them - and the presence verdict of a reset is this reset's: the  *)
(* widths an earlier operation left there never pass for a device.         *)
(***************************************************************************)
CapturesComplete ==
    Stopped =>
        /\ call.op \in {"reset", "read", "slots"} =>
              SubSeq(buf, 1, Len(bus.answers)) = bus.answers
        /\ call.op = "reset" /\ bus.sent # <<>> =>
              Present = ("presence" \in {bus.answers[i] : i \in DOMAIN bus.answers})

(***************************************************************************)
(* The period and repetition count fit their registers, and a timed wait   *)
(* is never short, up to the reach of the timer, and exceeds the request   *)
(* by less than a tick per period.                                         *)
(***************************************************************************)
WaitCovers ==
    /\ m.arr \in 1..MaxArr /\ m.rcr \in 0..(Periods - 1)
    /\ Stopped /\ call.op = "wait" =>
          /\ bus.time >= IF call.us > Periods * MaxArr THEN Periods * MaxArr ELSE call.us
          /\ call.us > 0 => bus.time < call.us + m.rcr + 1

\* The registers implement the timer of module OwTimer: operations run to their
\* end, end once, and no forced update event is taken for an end.
Timer == INSTANCE OwTimer WITH port <- AbstractPort
ImplementsTimer == Timer!Spec

\* An operation that was scheduled is reported: the core may sleep through a
\* long one, and is always woken.
OperationReported == call.owed ~> ~call.owed

=============================================================================
