------------------------- MODULE OnewireSearchProps -------------------------
(***************************************************************************)
(* What the search engine has to guarantee, stated over OnewireSearch.     *)
(***************************************************************************)
EXTENDS OnewireSearch

Running == ~ctx.finished

\* The devices the running request is about.
Wanted ==
    {d \in IF ctx.alarm THEN bus.alarmed ELSE bus.present : ctx.family \in {AnyFamily, d[1]}}

(***************************************************************************)
(* On any bus the bit number never indexes beyond the ROM, and no more     *)
(* devices are counted than asked for.  On a bus that keeps still the      *)
(* devices that take part in a walk are those whose address begins with    *)
(* the bits assembled so far, there is one - every walk reaches a leaf -   *)
(* and it is never one the sink was given before.                          *)
(***************************************************************************)
WalkFollowsRom ==
    /\ ctx.phase \in {"READ_PAIR", "WRITE_READ", "WRITE_DIR"} => ctx.n <= Bits
    /\ ctx.found <= ctx.max
    /\ bus.scene.still => ~sink.twice
    /\ bus.scene.still /\ port.uif /\ ctx.phase \in {"WRITE_READ", "WRITE_DIR"} =>
          /\ walk.in = {d \in IF ctx.alarm THEN bus.alarmed ELSE bus.present :
                           \A i \in 1..ctx.n : d[i] = ctx.rom[i]}
          /\ walk.in # {}

(***************************************************************************)
(* On a still bus a search does what DeviceSearch promises: it reports     *)
(* every device wanted, none twice, none else, and ends.  A bus that does  *)
(* not keep still is no business of DeviceSearch.                          *)
(***************************************************************************)
MaxLimit == CHOOSE n \in UNION {s.limits : s \in Scenarios} :
                \A k \in UNION {s.limits : s \in Scenarios} : k <= n

Still(value, nothing) == IF bus.scene.still THEN value ELSE nothing

Search ==
    INSTANCE DeviceSearch WITH
        running    <- Still(Running, FALSE),
        wanted     <- Still(IF sink.asked THEN Wanted ELSE {}, {}),
        limit      <- Still(ctx.max, 0),
        reported   <- Still(sink.given, {}),
        enough     <- Still(sink.stopped, FALSE),
        MaxDevices <- MaxLimit
FindsEveryDevice == Search!Spec

\* Every search that accepts any family ends, on any bus: each walk counts
\* towards the limit or is the last.
SearchEnds == Running /\ (bus.scene.still \/ ctx.family = AnyFamily) ~> ~Running

=============================================================================
