------------------------- MODULE OnewireSearchProofs ------------------------
(***************************************************************************)
(* The walk over the tree of ROM addresses, proved for addresses of any    *)
(* length, any code that decides which of them are legal, and any set of   *)
(* devices: it meets every device once, in the order of the addresses.     *)
(*                                                                         *)
(* The argument follows the walk bit by bit, so that no induction over the *)
(* address is needed: what would be an induction hypothesis for a prefix   *)
(* is a conjunct of the inductive invariant.                               *)
(***************************************************************************)
EXTENDS OnewireSearchProps, FiniteSetTheorems, TLAPS

-----------------------------------------------------------------------------
(***************************************************************************)
(* The shape of the state.                                                 *)
(***************************************************************************)
Addresses == [1..Bits -> {0, 1}]

CtxType ==
    [phase : Phases, alarm : BOOLEAN, family : {0, 1, AnyFamily}, rom : Addresses, n : Nat,
     lastDiscrepancy : 0..Bits, lastZero : 0..Bits, found : Nat, max : Nat,
     finished : BOOLEAN, prevLeaf : Addresses \cup {NoLeaf}]

TypeInv ==
    /\ port \in PortType({0})
    /\ ctx \in CtxType
    /\ wire \in [dir : {0, 1, NoDir}, pair : BOOLEAN]
    /\ line \in [seen : BOOLEAN, id : {0, 1}, cmp : {0, 1}]
    /\ walk \in [in : SUBSET Devices, at : Nat]
    /\ bus \in [scene : Scenarios, present : SUBSET Devices, alarmed : SUBSET Devices]
    /\ bus.alarmed \subseteq bus.present /\ bus.present \subseteq bus.scene.devices
    /\ sink \in [asked : BOOLEAN, given : SUBSET Legal, twice : BOOLEAN, stopped : BOOLEAN]

(***************************************************************************)
(* On any bus: the timer runs the operation of the phase or has raised its *)
(* flag; the bit number belongs to the phase, and the direction bit on its *)
(* way is the one last assembled.                                          *)
(***************************************************************************)
Writing == {"WRITE_READ", "WRITE_DIR"}
Walking == {"READ_PAIR"} \cup Writing

PhaseOp == IF ctx.phase = "RESET" THEN "reset" ELSE IF ctx.phase = "CMD" THEN "command" ELSE "slots"

PortInv ==
    /\ ctx.phase = "DONE" => port.op = "idle" /\ ~port.uif
    /\ ctx.phase # "DONE" => port.op = IF port.uif THEN "idle" ELSE PhaseOp

EngineInv ==
    /\ PortInv
    /\ ctx.finished => ctx.phase = "DONE"
    /\ ~sink.asked => ctx.finished
    /\ ctx.found <= ctx.max
    /\ ctx.phase # "DONE" => ctx.found < ctx.max
    /\ ctx.phase = "READ_PAIR" => ctx.n = 1 /\ wire.dir = NoDir /\ wire.pair
    /\ ctx.phase = "WRITE_READ" => ctx.n \in 1..Bits /\ ctx.n # Bits /\ wire.pair
    /\ ctx.phase = "WRITE_DIR" => ctx.n = Bits /\ ~wire.pair
    /\ ctx.phase \in Writing => wire.dir = ctx.rom[ctx.n]

(***************************************************************************)
(* Paths through the tree.  A device that parts from the path r at bit i   *)
(* towards the 1 comes later in the order of the addresses: it is Beyond.  *)
(***************************************************************************)
Follows(d, r, n) == \A i \in 1..n : d[i] = r[i]

\* The path r with its bit n decided.
Decide(r, n, b) == [r EXCEPT ![n] = b]

Branches(d, r, i) == d[i] = 1 /\ r[i] = 0 /\ Follows(d, r, i - 1)

\* z is the deepest of the first k bits at which a device of T parts from r towards
\* the 1, or 0 when there is none.
Deepest(T, r, k, z) ==
    /\ z <= k
    /\ z # 0 => \E d \in T : Branches(d, r, z)
    /\ \A d \in T : \A i \in 1..k : Branches(d, r, i) => i <= z

\* Each device of L is on the first k bits of r or beyond them.
Accounted(L, r, k) ==
    \A d \in L : Follows(d, r, k) \/ \E i \in 1..k : Branches(d, r, i)

\* Who takes part in every walk of the request.
Taking == IF ctx.alarm THEN bus.alarmed ELSE bus.present

Beyond(r) == {d \in Taking : \E i \in 1..Bits : Branches(d, r, i)}

\* The devices no walk has met before this one.
Left == IF ctx.lastDiscrepancy = 0 THEN Taking ELSE Beyond(ctx.prevLeaf)

\* The number of bits of ctx.rom this walk has decided.
Settled == IF ctx.phase \in Writing THEN ctx.n ELSE 0

(***************************************************************************)
(* On a still bus, the devices: who still takes part, and what they show.  *)
(***************************************************************************)
WalkInv ==
    /\ ctx.phase = "RESET" /\ port.uif =>
           walk.in = bus.present /\ walk.at = 1 /\ line.seen = (bus.present # {})
    /\ ctx.phase = "CMD" => walk.in = (IF port.uif THEN Taking ELSE bus.present) /\ walk.at = 1
    /\ ctx.phase = "READ_PAIR" => walk.in = Taking /\ walk.at = 1
    /\ ctx.phase \in Writing =>
           LET sent == IF port.uif THEN ctx.n ELSE ctx.n - 1
           IN  walk.in = {d \in Taking : Follows(d, ctx.rom, sent)} /\ walk.at = sent + 1
    /\ ctx.phase \in {"READ_PAIR", "WRITE_READ"} /\ port.uif =>
           /\ line.id = And({d[walk.at] : d \in walk.in})
           /\ line.cmp = And({1 - d[walk.at] : d \in walk.in})

(***************************************************************************)
(* The last discrepancy is the deepest bit at which a device is beyond the *)
(* leaf the walk before ended at, so it starts the next device's path.     *)
(***************************************************************************)
LeafInv ==
    ctx.phase # "DONE" =>
        IF ctx.lastDiscrepancy = 0
        THEN ctx.prevLeaf = NoLeaf
        ELSE ctx.prevLeaf \in Addresses /\ Deepest(Taking, ctx.prevLeaf, Bits, ctx.lastDiscrepancy)

(***************************************************************************)
(* The path so far: that of the leaf before up to the last discrepancy, 1  *)
(* there; somebody is on it; lastZero is the deepest bit at which somebody *)
(* is beyond it; and whoever was not met yet is on it or beyond it.        *)
(***************************************************************************)
PathInv ==
    /\ ctx.phase # "DONE" =>
           /\ \A i \in 1..Bits : i < ctx.lastDiscrepancy => ctx.rom[i] = ctx.prevLeaf[i]
           /\ ctx.lastDiscrepancy \in 1..Settled => ctx.rom[ctx.lastDiscrepancy] = 1
    /\ ctx.phase \in Walking => Deepest(Taking, ctx.rom, Settled, ctx.lastZero)
    /\ ctx.phase \in Walking => Accounted(Left, ctx.rom, Settled)
    /\ ctx.phase \in Writing => \E d \in Taking : Follows(d, ctx.rom, ctx.n)

\* What the callback has been given: those of the family that were met, each counted.
OfFamily(d) == ctx.family \in {AnyFamily, d[1]}

SinkInv ==
    /\ ~sink.twice
    /\ IsFiniteSet(sink.given) /\ ctx.found = Cardinality(sink.given)
    /\ ctx.phase # "DONE" =>
           ~sink.stopped /\ sink.given = {d \in Taking \ Left : OfFamily(d)}
    /\ ~ctx.finished /\ ctx.phase = "DONE" =>
           sink.stopped \/ ctx.found = ctx.max \/ sink.given = Wanted

StillInv == bus.scene.still => WalkInv /\ LeafInv /\ PathInv /\ SinkInv

SearchInv == TypeInv /\ EngineInv /\ StillInv

-----------------------------------------------------------------------------
(***************************************************************************)
(* Lemmas about the calls of the port and about paths.                     *)
(***************************************************************************)

\* The scheduling calls, the consumed flag and the end of an operation.
LEMMA ArmEffect ==
    ASSUME NEW p \in PortType({0}), NEW operation \in Ops
    PROVE  /\ Arm(p, operation) \in PortType({0})
           /\ Arm(p, operation).op = operation
           /\ Arm(p, operation).uif = FALSE
  BY DEF Arm, PortType

LEMMA BusDoneEffect ==
    ASSUME NEW p \in PortType({0})
    PROVE  BusDone(p) \in PortType({0}) /\ BusDone(p).op = p.op /\ BusDone(p).uif = FALSE
  BY DEF BusDone, PortType

LEMMA HwDoneEffect ==
    ASSUME NEW p \in PortType({0})
    PROVE  HwDone(p) \in PortType({0}) /\ HwDone(p).op = "idle" /\ HwDone(p).uif = TRUE
  BY DEF HwDone, PortType

\* Deciding bit n of a path changes what follows and branches at n and beyond, only.
LEMMA DecideEffect ==
    ASSUME NEW r \in Addresses, NEW n \in 1..Bits, NEW b \in {0, 1}
    PROVE  /\ Decide(r, n, b) \in Addresses
           /\ Decide(r, n, b)[n] = b
           /\ \A i \in 1..Bits : i # n => Decide(r, n, b)[i] = r[i]
  BY DEF Decide, Addresses

LEMMA Extend ==
    ASSUME NEW r \in Addresses, NEW n \in 1..Bits, NEW b \in {0, 1}, NEW d \in Addresses
    PROVE  /\ Follows(d, Decide(r, n, b), n - 1) <=> Follows(d, r, n - 1)
           /\ Follows(d, Decide(r, n, b), n) <=> Follows(d, r, n - 1) /\ d[n] = b
           /\ \A i \in 1..Bits :
                  i < n => (Branches(d, Decide(r, n, b), i) <=> Branches(d, r, i))
           /\ Branches(d, Decide(r, n, b), n) <=> d[n] = 1 /\ b = 0 /\ Follows(d, r, n - 1)
  <1> DEFINE q == Decide(r, n, b)
  <1>1. q \in Addresses /\ q[n] = b /\ \A i \in 1..Bits : i # n => q[i] = r[i]
    BY DecideEffect
  <1>n. Bits \in Nat
    BY BitsAssumption
  <1> HIDE DEF q
  <1>2. Follows(d, q, n - 1) <=> Follows(d, r, n - 1)
    BY <1>1, <1>n DEF Follows
  <1>3. Follows(d, q, n) <=> Follows(d, r, n - 1) /\ d[n] = b
    BY <1>1, <1>n DEF Follows
  <1>4. \A i \in 1..Bits : i < n => (Branches(d, q, i) <=> Branches(d, r, i))
    BY <1>1, <1>n DEF Branches, Follows
  <1>5. Branches(d, q, n) <=> d[n] = 1 /\ b = 0 /\ Follows(d, r, n - 1)
    BY <1>1, <1>2 DEF Branches
  <1> QED
    BY <1>2, <1>3, <1>4, <1>5 DEF q

(***************************************************************************)
(* One bit of the walk: r is the path and n its next bit; id and cmp are   *)
(* the pair the devices on it show, b the direction the engine takes, ld   *)
(* the last discrepancy, prev the leaf before, L the devices left, lz the  *)
(* last 0 branch.                                                          *)
(***************************************************************************)
PathStep(T, L, r, prev, ld, lz, n, id, cmp, b) ==
    /\ T \in SUBSET Addresses /\ L \in SUBSET T /\ r \in Addresses
    /\ ld \in 0..Bits /\ lz \in 0..Bits /\ n \in 1..Bits
    /\ id \in {0, 1} /\ cmp \in {0, 1} /\ b \in {0, 1}
    /\ id = 0 <=> \E d \in T : Follows(d, r, n - 1) /\ d[n] = 0
    /\ cmp = 0 <=> \E d \in T : Follows(d, r, n - 1) /\ d[n] = 1
    /\ ~(id = 1 /\ cmp = 1)
    /\ ~(id = 0 /\ cmp = 0) => b = id
    /\ id = 0 /\ cmp = 0 => b = IF n < ld THEN r[n] ELSE IF n = ld THEN 1 ELSE 0
    /\ ld # 0 => /\ prev \in Addresses /\ Deepest(T, prev, Bits, ld)
                 /\ L = {d \in T : \E i \in 1..Bits : Branches(d, prev, i)}
    /\ \A i \in 1..Bits : i < ld => r[i] = prev[i]
    /\ ld \in 1..(n - 1) => r[ld] = 1
    /\ Deepest(T, r, n - 1, lz)
    /\ Accounted(L, r, n - 1)

ZeroAfter(n, id, cmp, b, lz) == IF id = 0 /\ cmp = 0 /\ b = 0 THEN n ELSE lz

LEMMA PathExtends ==
    ASSUME NEW T, NEW L, NEW r, NEW prev, NEW ld, NEW lz, NEW n, NEW id, NEW cmp, NEW b,
           PathStep(T, L, r, prev, ld, lz, n, id, cmp, b)
    PROVE  /\ \A i \in 1..Bits : i < ld => Decide(r, n, b)[i] = prev[i]
           /\ ld \in 1..n => Decide(r, n, b)[ld] = 1
           /\ Deepest(T, Decide(r, n, b), n, ZeroAfter(n, id, cmp, b, lz))
           /\ Accounted(L, Decide(r, n, b), n)
           /\ \E d \in T : Follows(d, Decide(r, n, b), n)
  <1> DEFINE z == ZeroAfter(n, id, cmp, b, lz)
  <1>x. /\ T \in SUBSET Addresses /\ L \in SUBSET T /\ r \in Addresses
        /\ ld \in 0..Bits /\ lz \in 0..Bits /\ n \in 1..Bits
        /\ id \in {0, 1} /\ cmp \in {0, 1} /\ b \in {0, 1}
    BY DEF PathStep
  <1>y. /\ id = 0 <=> \E d \in T : Follows(d, r, n - 1) /\ d[n] = 0
        /\ cmp = 0 <=> \E d \in T : Follows(d, r, n - 1) /\ d[n] = 1
        /\ ~(id = 1 /\ cmp = 1)
        /\ ~(id = 0 /\ cmp = 0) => b = id
        /\ id = 0 /\ cmp = 0 => b = IF n < ld THEN r[n] ELSE IF n = ld THEN 1 ELSE 0
        /\ ld # 0 => /\ prev \in Addresses /\ Deepest(T, prev, Bits, ld)
                     /\ L = {d \in T : \E i \in 1..Bits : Branches(d, prev, i)}
        /\ \A i \in 1..Bits : i < ld => r[i] = prev[i]
        /\ ld \in 1..(n - 1) => r[ld] = 1
        /\ Deepest(T, r, n - 1, lz)
        /\ Accounted(L, r, n - 1)
    BY DEF PathStep
  <1>z. /\ id = 0 /\ cmp = 0 /\ b = 0 => z = n
        /\ ~(id = 0 /\ cmp = 0 /\ b = 0) => z = lz
        /\ z \in Nat /\ lz \in Nat
    BY <1>x, BitsAssumption DEF ZeroAfter
  <1> HIDE DEF z
  <1> USE <1>x, <1>y, <1>z
  <1> DEFINE q == Decide(r, n, b)
  <1>n. Bits \in Nat /\ n \in Nat /\ ld \in Nat
    BY BitsAssumption
  <1>q. q \in Addresses /\ q[n] = b /\ \A i \in 1..Bits : i # n => q[i] = r[i]
    BY DecideEffect
  <1>e. ASSUME NEW d \in T
        PROVE  /\ Follows(d, q, n) <=> Follows(d, r, n - 1) /\ d[n] = b
               /\ \A i \in 1..Bits : i < n => (Branches(d, q, i) <=> Branches(d, r, i))
               /\ Branches(d, q, n) <=> d[n] = 1 /\ b = 0 /\ Follows(d, r, n - 1)
    <2>1. d \in Addresses
      OBVIOUS
    <2> QED
      BY <2>1, Extend
  <1>f. \A d \in T : Follows(d, q, n) <=> Follows(d, r, n - 1) /\ d[n] = b
    BY <1>e
  <1>b. \A d \in T : \A i \in 1..Bits : i < n => (Branches(d, q, i) <=> Branches(d, r, i))
    BY <1>e
  <1>c. \A d \in T : Branches(d, q, n) <=> d[n] = 1 /\ b = 0 /\ Follows(d, r, n - 1)
    BY <1>e
  <1>l. lz <= n - 1 /\ (lz # 0 => \E d \in T : Branches(d, r, lz))
        /\ \A d \in T : \A i \in 1..(n - 1) : Branches(d, r, i) => i <= lz
    BY DEF Deepest
  <1>d. ld # 0 => (\E d \in T : Branches(d, prev, ld))
                  /\ \A d \in T : \A i \in 1..Bits : Branches(d, prev, i) => i <= ld
    BY DEF Deepest
  <1> HIDE DEF q
  <1>t. \A d \in T : d[n] \in {0, 1}
    BY DEF Addresses
  \* The device that starts at the last discrepancy is on the path up to there.
  <1>p. n <= ld => \E d \in T : Branches(d, prev, ld) /\ Follows(d, r, n - 1)
    <2> SUFFICES ASSUME n <= ld PROVE \E d \in T : Branches(d, prev, ld) /\ Follows(d, r, n - 1)
      OBVIOUS
    <2>1. PICK d \in T : Branches(d, prev, ld)
      BY <1>d, <1>n
    <2>2. \A i \in 1..(ld - 1) : d[i] = prev[i]
      BY <2>1 DEF Branches, Follows
    <2>3. Follows(d, r, n - 1)
      BY <2>2, <1>n DEF Follows
    <2> QED
      BY <2>1, <2>3
  <1>1. ASSUME NEW i \in 1..Bits, i < ld PROVE q[i] = prev[i]
    <2>1. CASE i # n
      BY <2>1, <1>1, <1>q
    <2>2. CASE i = n /\ id = 0 /\ cmp = 0
      BY <2>2, <1>1, <1>q
    <2>3. CASE i = n /\ ~(id = 0 /\ cmp = 0)
      <3>1. PICK d \in T : Branches(d, prev, ld) /\ Follows(d, r, n - 1)
        BY <2>3, <1>1, <1>p, <1>n
      <3>2. d[n] = prev[n]
        BY <3>1, <2>3, <1>1, <1>n DEF Branches, Follows
      <3>3. d[n] = id
        BY <3>1, <2>3, <1>t
      <3> QED
        BY <3>2, <3>3, <2>3, <1>q
    <2> QED
      BY <2>1, <2>2, <2>3
  <1>2. ASSUME ld \in 1..n PROVE q[ld] = 1
    <2>1. CASE ld < n
      BY <2>1, <1>2, <1>q, <1>n
    <2>2. CASE ld = n /\ id = 0 /\ cmp = 0
      BY <2>2, <1>q, <1>n
    <2>3. CASE ld = n /\ ~(id = 0 /\ cmp = 0)
      <3>1. PICK d \in T : Branches(d, prev, ld) /\ Follows(d, r, n - 1)
        BY <2>3, <1>p, <1>n
      <3>2. d[n] = 1
        BY <3>1, <2>3 DEF Branches
      <3>3. cmp = 0
        BY <3>1, <3>2
      <3> QED
        BY <3>3, <2>3, <1>q
    <2> QED
      BY <2>1, <2>2, <2>3, <1>2, <1>n
  <1>3. Deepest(T, q, n, z)
    <2>1. z <= n
      BY <1>l, <1>n
    <2>2. ASSUME z # 0 PROVE \E d \in T : Branches(d, q, z)
      <3>1. CASE id = 0 /\ cmp = 0 /\ b = 0
        BY <3>1, <1>c
      <3>2. CASE ~(id = 0 /\ cmp = 0 /\ b = 0)
        BY <3>2, <2>2, <1>l, <1>b, <1>n
      <3> QED
        BY <3>1, <3>2
    <2>3. ASSUME NEW d \in T, NEW i \in 1..n, Branches(d, q, i) PROVE i <= z
      <3>1. CASE i < n
        BY <3>1, <2>3, <1>b, <1>l, <1>n
      <3>2. CASE i = n
        <4>1. d[n] = 1 /\ b = 0 /\ Follows(d, r, n - 1)
          BY <3>2, <2>3, <1>c
        <4>2. cmp = 0
          BY <4>1
        <4>3. id = 0
          BY <4>1, <4>2
        <4> QED
          BY <4>1, <4>2, <4>3, <3>2, <1>n
      <3> QED
        BY <3>1, <3>2, <1>n
    <2> QED
      BY <2>1, <2>2, <2>3 DEF Deepest
  <1>4. Accounted(L, q, n)
    <2> SUFFICES ASSUME NEW d \in L PROVE Follows(d, q, n) \/ \E i \in 1..n : Branches(d, q, i)
      BY DEF Accounted
    <2>1. CASE \E i \in 1..(n - 1) : Branches(d, r, i)
      BY <2>1, <1>b, <1>n
    <2>2. CASE Follows(d, r, n - 1) /\ d[n] = b
      BY <2>2, <1>f
    <2>3. CASE Follows(d, r, n - 1) /\ d[n] = 1 /\ b = 0
      BY <2>3, <1>c, <1>n
    <2>4. CASE Follows(d, r, n - 1) /\ d[n] = 0 /\ b = 1
      \* A device that falls behind was met before: contradiction with d in L.
      <3>1. id = 0 /\ cmp = 0
        BY <2>4
      <3>2. n <= ld
        BY <3>1, <2>4, <1>n
      <3>3. PICK i \in 1..Bits : Branches(d, prev, i)
        BY <3>2, <1>n
      <3>4. i <= ld
        BY <3>3, <3>2, <1>d, <1>n
      <3>5. d[i] = 1 /\ prev[i] = 0 /\ \A j \in 1..(i - 1) : d[j] = prev[j]
        BY <3>3 DEF Branches, Follows
      <3>6. CASE i < n
        <4>1. r[i] = prev[i]
          BY <3>6, <3>2, <1>n
        <4>2. d[i] = r[i]
          BY <3>6, <2>4, <1>n DEF Follows
        <4> QED
          BY <4>1, <4>2, <3>5
      <3>7. CASE i = n
        BY <3>7, <3>5, <2>4
      <3>8. CASE i > n
        <4>1. n < ld
          BY <3>8, <3>4, <1>n
        <4>2. r[n] = 1
          BY <4>1, <3>1, <2>4
        <4>3. r[n] = prev[n]
          BY <4>1
        <4>4. d[n] = prev[n]
          BY <3>5, <3>8, <1>n
        <4> QED
          BY <4>2, <4>3, <4>4, <2>4
      <3> QED
        BY <3>6, <3>7, <3>8, <1>n
    <2> QED
      BY <2>1, <2>2, <2>3, <2>4, <1>t DEF Accounted
  <1>5. \E d \in T : Follows(d, q, n)
    BY <1>f
  <1> QED
    BY <1>1, <1>2, <1>3, <1>4, <1>5 DEF q, z

(***************************************************************************)
(* The end of a walk: its path r is the address of a device not met before *)
(* and the devices beyond r are those left after it.                       *)
(***************************************************************************)
PathEnd(T, L, r, prev, ld, lz) ==
    /\ T \in SUBSET Addresses /\ L \in SUBSET T /\ r \in Addresses
    /\ ld \in 0..Bits /\ lz \in 0..Bits
    /\ ld = 0 => L = T
    /\ ld # 0 => /\ prev \in Addresses /\ Deepest(T, prev, Bits, ld)
                 /\ L = {d \in T : \E i \in 1..Bits : Branches(d, prev, i)}
    /\ \A i \in 1..Bits : i < ld => r[i] = prev[i]
    /\ ld # 0 => r[ld] = 1
    /\ Deepest(T, r, Bits, lz)
    /\ Accounted(L, r, Bits)
    /\ \E d \in T : Follows(d, r, Bits)

LEMMA LeafFound ==
    ASSUME NEW T, NEW L, NEW r, NEW prev, NEW ld, NEW lz, PathEnd(T, L, r, prev, ld, lz)
    PROVE  /\ r \in T /\ r \in L
           /\ {d \in T : \E i \in 1..Bits : Branches(d, r, i)} = L \ {r}
           /\ lz = 0 => L = {r}
           /\ ld # 0 => prev # r
  <1> USE DEF PathEnd
  <1>n. Bits \in Nat /\ ld \in Nat /\ lz \in Nat
    BY BitsAssumption
  <1>e. ASSUME NEW d \in Addresses, Follows(d, r, Bits) PROVE d = r
    <2>1. \A i \in 1..Bits : d[i] = r[i]
      BY <1>e DEF Follows
    <2>2. d = [i \in 1..Bits |-> d[i]] /\ r = [i \in 1..Bits |-> r[i]]
      BY <1>e DEF Addresses
    <2> QED
      BY <2>1, <2>2
  <1>1. r \in T
    BY <1>e
  <1>p. ld # 0 => prev[ld] = 0
    BY DEF Deepest, Branches
  <1>2. r \in L
    <2>1. CASE ld = 0
      BY <2>1, <1>1
    <2>2. CASE ld # 0
      <3>1. Follows(r, prev, ld - 1)
        BY <2>2, <1>n DEF Follows
      <3>2. Branches(r, prev, ld)
        BY <3>1, <2>2, <1>p DEF Branches
      <3> QED
        BY <3>2, <2>2, <1>1, <1>n
    <2> QED
      BY <2>1, <2>2
  <1>3. ASSUME NEW d \in L, d # r PROVE \E i \in 1..Bits : Branches(d, r, i)
    BY <1>3, <1>e DEF Accounted
  <1>4. ASSUME NEW d \in T, NEW i \in 1..Bits, Branches(d, r, i) PROVE d \in L /\ d # r
    <2>1. d[i] = 1 /\ r[i] = 0 /\ \A j \in 1..(i - 1) : d[j] = r[j]
      BY <1>4 DEF Branches, Follows
    <2>2. d # r
      BY <2>1
    <2>3. CASE ld = 0
      BY <2>2, <2>3
    <2>4. CASE ld # 0 /\ i < ld
      <3>1. prev[i] = 0
        BY <2>1, <2>4
      <3>2. Follows(d, prev, i - 1)
        BY <2>1, <2>4, <1>n DEF Follows
      <3>3. Branches(d, prev, i)
        BY <3>1, <3>2, <2>1 DEF Branches
      <3> QED
        BY <3>3, <2>2, <2>4
    <2>5. CASE ld # 0 /\ i = ld
      BY <2>5, <2>1
    <2>6. CASE ld # 0 /\ i > ld
      <3>1. d[ld] = 1
        BY <2>6, <2>1, <1>n
      <3>2. Follows(d, prev, ld - 1)
        BY <2>1, <2>6, <1>n DEF Follows
      <3>3. Branches(d, prev, ld)
        BY <3>1, <3>2, <1>p, <2>6 DEF Branches
      <3> QED
        BY <3>3, <2>2, <2>6, <1>n
    <2> QED
      BY <2>3, <2>4, <2>5, <2>6, <1>n
  <1>5. {d \in T : \E i \in 1..Bits : Branches(d, r, i)} = L \ {r}
    BY <1>3, <1>4
  <1>6. lz = 0 => L = {r}
    <2> SUFFICES ASSUME lz = 0, NEW d \in L, d # r PROVE FALSE
      BY <1>2
    <2>1. PICK i \in 1..Bits : Branches(d, r, i)
      BY <1>3
    <2> QED
      BY <2>1, <1>n DEF Deepest
  <1>7. ld # 0 => prev # r
    BY <1>p
  <1> QED
    BY <1>1, <1>2, <1>5, <1>6, <1>7

-----------------------------------------------------------------------------
(***************************************************************************)
(* The invariants of any bus.                                              *)
(***************************************************************************)

\* What deciding a bit does to the context, field by field.
LEMMA AdvanceEffect ==
    ASSUME TypeInv, NEW n \in 1..Bits, AdvanceBit(n), ~(line.id = 1 /\ line.cmp = 1)
    PROVE  /\ Direction(n) \in {0, 1}
           /\ ctx' \in CtxType
           /\ ctx'.phase = (IF n < Bits THEN "WRITE_READ" ELSE "WRITE_DIR")
           /\ ctx'.rom = Decide(ctx.rom, n, Direction(n))
           /\ ctx'.n = n
           /\ ctx'.lastZero = (IF ZeroBranch(n) THEN n ELSE ctx.lastZero)
           /\ ctx'.lastDiscrepancy = ctx.lastDiscrepancy /\ ctx'.prevLeaf = ctx.prevLeaf
           /\ ctx'.alarm = ctx.alarm /\ ctx'.family = ctx.family
           /\ ctx'.found = ctx.found /\ ctx'.max = ctx.max /\ ctx'.finished = ctx.finished
           /\ port' = Arm(BusDone(port), "slots")
           /\ wire' = [dir |-> Direction(n), pair |-> n < Bits]
  <1>1. ctx \in CtxType /\ line.id \in {0, 1}
    BY DEF TypeInv
  <1>r. ctx.rom \in Addresses
    BY <1>1 DEF CtxType
  <1>2. Direction(n) \in {0, 1}
    BY <1>1, <1>r DEF Direction, Addresses
  <1> DEFINE b == Direction(n)
             z == IF ZeroBranch(n) THEN n ELSE ctx.lastZero
             p == IF n < Bits THEN "WRITE_READ" ELSE "WRITE_DIR"
  <1>3. ctx' = [ctx EXCEPT !.n = n, !.rom = Decide(ctx.rom, n, b), !.lastZero = z, !.phase = p]
    BY <1>1 DEF AdvanceBit, Decide, CtxType
  <1>4. Decide(ctx.rom, n, b) \in Addresses
    BY <1>r, <1>2, DecideEffect
  <1>5. z \in 0..Bits /\ n \in Nat
    BY <1>1, BitsAssumption DEF CtxType
  <1>6. p \in Phases
    BY DEF Phases
  <1>7. port' = Arm(BusDone(port), "slots") /\ wire' = [dir |-> b, pair |-> n < Bits]
    BY DEF AdvanceBit, Consumed
  <1> HIDE DEF b, z, p
  <1>8. ctx' \in CtxType
    BY <1>1, <1>3, <1>4, <1>5, <1>6 DEF CtxType
  <1>9. ctx'.phase = p /\ ctx'.rom = Decide(ctx.rom, n, b) /\ ctx'.n = n /\ ctx'.lastZero = z
    BY <1>1, <1>3 DEF CtxType
  <1>10. /\ ctx'.lastDiscrepancy = ctx.lastDiscrepancy /\ ctx'.prevLeaf = ctx.prevLeaf
         /\ ctx'.alarm = ctx.alarm /\ ctx'.family = ctx.family
         /\ ctx'.found = ctx.found /\ ctx'.max = ctx.max /\ ctx'.finished = ctx.finished
    BY <1>1, <1>3 DEF CtxType
  <1> QED
    BY <1>2, <1>7, <1>8, <1>9, <1>10 DEF b, z, p

\* The engine finds nobody to go on with.
LEMMA AdvanceStops ==
    ASSUME TypeInv, NEW n \in 1..Bits, AdvanceBit(n), line.id = 1 /\ line.cmp = 1
    PROVE  /\ ctx' = [ctx EXCEPT !.n = n, !.phase = "DONE"]
           /\ ctx' \in CtxType
           /\ port' = BusDone(port) /\ wire' = wire
  <1>1. ctx' = [ctx EXCEPT !.n = n, !.phase = "DONE"] /\ port' = BusDone(port) /\ wire' = wire
    BY DEF AdvanceBit, Consumed
  <1>2. ctx \in CtxType /\ n \in Nat /\ "DONE" \in Phases
    BY BitsAssumption DEF TypeInv, Phases
  <1>3. ctx' \in CtxType
    BY <1>1, <1>2 DEF CtxType
  <1> QED
    BY <1>1, <1>3

\* What the end of a walk does to the context.
LEMMA WalkEndsEffect ==
    ASSUME TypeInv, NEW found \in Nat, NEW stop \in BOOLEAN, WalkEnds(found, stop)
    PROVE  /\ ctx' \in CtxType
           /\ ctx'.found = found /\ ctx'.lastDiscrepancy = ctx.lastZero
           /\ ctx'.rom = ctx.rom /\ ctx'.lastZero = ctx.lastZero
           /\ ctx'.alarm = ctx.alarm /\ ctx'.family = ctx.family
           /\ ctx'.max = ctx.max /\ ctx'.finished = ctx.finished
           /\ \/ /\ ctx'.phase = "DONE" /\ port' = BusDone(port)
                 /\ \/ ctx.rom \notin Legal
                    \/ Accepted /\ (stop \/ found >= ctx.max)
                    \/ ctx.lastZero = 0
                    \/ ctx.prevLeaf = ctx.rom
              \/ /\ ctx'.phase = "RESET" /\ port' = Arm(BusDone(port), "reset")
                 /\ ctx'.prevLeaf = ctx.rom
                 /\ ~(Accepted /\ (stop \/ found >= ctx.max)) /\ ctx.lastZero # 0
  <1>1. ctx \in CtxType
    BY DEF TypeInv
  <1>2. "DONE" \in Phases /\ "RESET" \in Phases
    BY DEF Phases
  <1> DEFINE over == \/ ctx.rom \notin Legal
                     \/ Accepted /\ (stop \/ LimitReached(found))
                     \/ ctx.lastZero = 0
                     \/ SameLeaf
             next == [ctx EXCEPT !.n = @ + 1, !.lastDiscrepancy = ctx.lastZero, !.found = found]
  <1>3. /\ next \in CtxType
        /\ next.found = found /\ next.lastDiscrepancy = ctx.lastZero
        /\ next.rom = ctx.rom /\ next.lastZero = ctx.lastZero
        /\ next.alarm = ctx.alarm /\ next.family = ctx.family
        /\ next.max = ctx.max /\ next.finished = ctx.finished
    <2>1. ctx.n + 1 \in Nat /\ ctx.lastZero \in 0..Bits
      BY <1>1 DEF CtxType
    <2>2. next = [ctx EXCEPT !.n = ctx.n + 1, !.lastDiscrepancy = ctx.lastZero, !.found = found]
      BY <1>1 DEF CtxType
    <2> HIDE DEF next
    <2>3. next \in CtxType
      BY <1>1, <2>1, <2>2 DEF CtxType
    <2>4. next.found = found /\ next.lastDiscrepancy = ctx.lastZero
      BY <1>1, <2>2 DEF CtxType
    <2>5. /\ next.rom = ctx.rom /\ next.lastZero = ctx.lastZero
          /\ next.alarm = ctx.alarm /\ next.family = ctx.family
          /\ next.max = ctx.max /\ next.finished = ctx.finished
      BY <1>1, <2>2 DEF CtxType
    <2> QED
      BY <2>3, <2>4, <2>5
  <1>4. CASE over
    <2>1. ctx' = [next EXCEPT !.phase = "DONE"] /\ port' = BusDone(port)
      BY <1>4 DEF WalkEnds, Consumed
    <2>2. \/ ctx.rom \notin Legal
          \/ Accepted /\ (stop \/ found >= ctx.max)
          \/ ctx.lastZero = 0
          \/ ctx.prevLeaf = ctx.rom
      BY <1>4 DEF LimitReached, SameLeaf
    <2> HIDE DEF next
    <2>3. /\ ctx' \in CtxType /\ ctx'.phase = "DONE"
          /\ ctx'.found = found /\ ctx'.lastDiscrepancy = ctx.lastZero
          /\ ctx'.rom = ctx.rom /\ ctx'.lastZero = ctx.lastZero
          /\ ctx'.alarm = ctx.alarm /\ ctx'.family = ctx.family
          /\ ctx'.max = ctx.max /\ ctx'.finished = ctx.finished
      BY <2>1, <1>2, <1>3 DEF CtxType
    <2> QED
      BY <2>1, <2>2, <2>3
  <1>5. CASE ~over
    <2>1. /\ ctx' = [next EXCEPT !.phase = "RESET", !.prevLeaf = ctx.rom]
          /\ port' = Arm(BusDone(port), "reset")
      BY <1>5 DEF WalkEnds, Consumed
    <2>2. ~(Accepted /\ (stop \/ found >= ctx.max)) /\ ctx.lastZero # 0
      BY <1>5 DEF LimitReached
    <2>r. ctx.rom \in Addresses
      BY <1>1 DEF CtxType
    <2> HIDE DEF next
    <2>3. /\ ctx' \in CtxType /\ ctx'.phase = "RESET" /\ ctx'.prevLeaf = ctx.rom
          /\ ctx'.found = found /\ ctx'.lastDiscrepancy = ctx.lastZero
          /\ ctx'.rom = ctx.rom /\ ctx'.lastZero = ctx.lastZero
          /\ ctx'.alarm = ctx.alarm /\ ctx'.family = ctx.family
          /\ ctx'.max = ctx.max /\ ctx'.finished = ctx.finished
      BY <2>1, <2>r, <1>2, <1>3 DEF CtxType
    <2> QED
      BY <2>1, <2>2, <2>3
  <1> QED
    BY <1>4, <1>5

LEMMA RequestEngine ==
    ASSUME TypeInv, EngineInv, Request PROVE TypeInv' /\ EngineInv'
  <1>1. PICK alarm \in BOOLEAN, family \in bus.scene.families, max \in bus.scene.limits :
            SearchStart(alarm, family, max)
    BY DEF Request
  <1>2. family \in {0, 1, AnyFamily} /\ max \in Nat
    BY ScenarioAssumption DEF TypeInv
  <1>3. ctx \in CtxType /\ port \in PortType({0})
    BY DEF TypeInv
  <1>4. ctx' = Fresh(alarm, family, max) /\ ctx.finished
    BY <1>1 DEF SearchStart
  <1>5. ZeroRom \in Addresses
    BY DEF ZeroRom, Addresses
  <1>6. "DONE" \in Phases /\ "RESET" \in Phases
    BY DEF Phases
  <1>7. /\ ctx' \in CtxType
        /\ ctx'.phase = (IF max = 0 THEN "DONE" ELSE "RESET")
        /\ ctx'.found = 0 /\ ctx'.max = max /\ ctx'.finished = FALSE
    BY <1>2, <1>3, <1>4, <1>5, <1>6, BitsAssumption DEF Fresh, CtxType
  <1>8. ctx.phase = "DONE" /\ port.op = "idle" /\ ~port.uif
    BY <1>4 DEF EngineInv, PortInv
  <1>9. /\ port' \in PortType({0}) /\ port'.uif = FALSE
        /\ max = 0 => port'.op = "idle"
        /\ max # 0 => port'.op = "reset"
    <2>1. CASE max = 0
      BY <2>1, <1>1, <1>3, <1>8 DEF SearchStart, PortType
    <2>2. CASE max # 0
      <3>1. port' = Arm(port, "reset")
        BY <2>2, <1>1 DEF SearchStart
      <3> QED
        BY <3>1, <2>2, <1>3, ArmEffect DEF Ops
    <2> QED
      BY <2>1, <2>2
  <1>10. sink' = [asked |-> TRUE, given |-> {}, twice |-> FALSE, stopped |-> FALSE]
         /\ UNCHANGED <<wire, line, walk, bus>>
    BY <1>1 DEF SearchStart
  <1>11. TypeInv'
    BY <1>7, <1>9, <1>10 DEF TypeInv
  <1>12. EngineInv'
    BY <1>2, <1>7, <1>9, <1>10 DEF EngineInv, PortInv, PhaseOp, Writing
  <1> QED
    BY <1>11, <1>12

LEMMA ResetEngine ==
    ASSUME TypeInv, EngineInv, PollReset PROVE TypeInv' /\ EngineInv'
  <1>1. ctx \in CtxType /\ port \in PortType({0})
    BY DEF TypeInv
  <1>2. ~ctx.finished /\ ctx.phase = "RESET" /\ port.uif /\ port.op = "idle"
    BY DEF PollReset, PhaseDone, EngineInv, PortInv
  <1>3. Consumed \in PortType({0}) /\ Consumed.op = "idle" /\ Consumed.uif = FALSE
    BY <1>1, <1>2, BusDoneEffect DEF Consumed
  <1>4. UNCHANGED <<wire, line, walk, bus, sink>>
    BY DEF PollReset
  <1>5. "CMD" \in Phases /\ "DONE" \in Phases
    BY DEF Phases
  <1>6. CASE line.seen
    <2>1. port' = Arm(Consumed, "command") /\ ctx' = [ctx EXCEPT !.phase = "CMD"]
      BY <1>6 DEF PollReset
    <2>2. ctx' \in CtxType /\ ctx'.phase = "CMD" /\ ctx'.found = ctx.found /\ ctx'.max = ctx.max
          /\ ctx'.finished = ctx.finished
      BY <2>1, <1>1, <1>5 DEF CtxType
    <2>3. port' \in PortType({0}) /\ port'.op = "command" /\ port'.uif = FALSE
      BY <2>1, <1>3, ArmEffect DEF Ops
    <2>4. TypeInv'
      BY <2>2, <2>3, <1>4 DEF TypeInv
    <2>5. EngineInv'
      BY <2>2, <2>3, <1>2, <1>4 DEF EngineInv, PortInv, PhaseOp, Writing
    <2> QED
      BY <2>4, <2>5
  <1>7. CASE ~line.seen
    <2>1. port' = Consumed /\ ctx' = [ctx EXCEPT !.phase = "DONE"]
      BY <1>7 DEF PollReset
    <2>2. ctx' \in CtxType /\ ctx'.phase = "DONE" /\ ctx'.found = ctx.found /\ ctx'.max = ctx.max
          /\ ctx'.finished = ctx.finished
      BY <2>1, <1>1, <1>5 DEF CtxType
    <2>3. port' \in PortType({0}) /\ port'.op = "idle" /\ port'.uif = FALSE
      BY <2>1, <1>3
    <2>4. TypeInv'
      BY <2>2, <2>3, <1>4 DEF TypeInv
    <2>5. EngineInv'
      BY <2>2, <2>3, <1>2, <1>4 DEF EngineInv, PortInv, Writing
    <2> QED
      BY <2>4, <2>5
  <1> QED
    BY <1>6, <1>7

LEMMA CmdEngine ==
    ASSUME TypeInv, EngineInv, PollCmd PROVE TypeInv' /\ EngineInv'
  <1>1. ctx \in CtxType /\ port \in PortType({0})
    BY DEF TypeInv
  <1>2. ~ctx.finished /\ ctx.phase = "CMD"
    BY DEF PollCmd, PhaseDone
  <1>3. Consumed \in PortType({0})
    BY <1>1, BusDoneEffect DEF Consumed
  <1>4. port' \in PortType({0}) /\ port'.op = "slots" /\ port'.uif = FALSE
    BY <1>3, ArmEffect DEF PollCmd, Ops
  <1>5. ctx' = [ctx EXCEPT !.phase = "READ_PAIR", !.n = 1, !.lastZero = 0]
        /\ wire' = [dir |-> NoDir, pair |-> TRUE] /\ UNCHANGED <<line, walk, bus, sink>>
    BY DEF PollCmd
  <1>6. "READ_PAIR" \in Phases /\ 0 \in 0..Bits
    BY BitsAssumption DEF Phases
  <1>7. ctx' \in CtxType /\ ctx'.phase = "READ_PAIR" /\ ctx'.n = 1 /\ ctx'.found = ctx.found
        /\ ctx'.max = ctx.max /\ ctx'.finished = ctx.finished
    BY <1>1, <1>5, <1>6 DEF CtxType
  <1>8. TypeInv'
    BY <1>4, <1>5, <1>7 DEF TypeInv
  <1>9. EngineInv'
    BY <1>2, <1>4, <1>5, <1>7 DEF EngineInv, PortInv, PhaseOp, Writing
  <1> QED
    BY <1>8, <1>9

\* Both phases that have read a pair, at the bit they decide.
LEMMA PairEngine ==
    ASSUME TypeInv, EngineInv, NEW n \in 1..Bits, AdvanceBit(n), ~ctx.finished,
           ctx.phase \in {"READ_PAIR", "WRITE_READ"}, port.uif,
           UNCHANGED <<line, walk, bus, sink>>
    PROVE  TypeInv' /\ EngineInv'
  <1>1. port \in PortType({0}) /\ port.op = "idle" /\ ctx \in CtxType
    BY DEF TypeInv, EngineInv, PortInv
  <1>2. BusDone(port) \in PortType({0}) /\ BusDone(port).op = "idle" /\ BusDone(port).uif = FALSE
    BY <1>1, BusDoneEffect
  <1>3. CASE line.id = 1 /\ line.cmp = 1
    <2>1. ctx' = [ctx EXCEPT !.n = n, !.phase = "DONE"] /\ ctx' \in CtxType
          /\ port' = BusDone(port) /\ wire' = wire
      BY <1>3, AdvanceStops
    <2>2. ctx'.phase = "DONE" /\ ctx'.found = ctx.found /\ ctx'.max = ctx.max
          /\ ctx'.finished = ctx.finished
      BY <2>1, <1>1 DEF CtxType
    <2>3. TypeInv'
      BY <2>1, <1>2 DEF TypeInv
    <2>4. EngineInv'
      BY <2>1, <2>2, <1>2 DEF EngineInv, PortInv, Writing
    <2> QED
      BY <2>3, <2>4
  <1>4. CASE ~(line.id = 1 /\ line.cmp = 1)
    <2>1. /\ Direction(n) \in {0, 1}
          /\ ctx' \in CtxType
          /\ ctx'.phase = (IF n < Bits THEN "WRITE_READ" ELSE "WRITE_DIR")
          /\ ctx'.rom = Decide(ctx.rom, n, Direction(n))
          /\ ctx'.n = n
          /\ ctx'.found = ctx.found /\ ctx'.max = ctx.max /\ ctx'.finished = ctx.finished
          /\ port' = Arm(BusDone(port), "slots")
          /\ wire' = [dir |-> Direction(n), pair |-> n < Bits]
      BY <1>4, AdvanceEffect
    <2>2. port' \in PortType({0}) /\ port'.op = "slots" /\ port'.uif = FALSE
      BY <2>1, <1>2, ArmEffect DEF Ops
    <2>3. ctx'.rom[n] = Direction(n)
      BY <2>1, <1>1, DecideEffect DEF CtxType
    <2>4. wire' \in [dir : {0, 1, NoDir}, pair : BOOLEAN]
      BY <2>1
    <2>5. wire'.dir = Direction(n) /\ wire'.pair = (n < Bits)
      BY <2>1
    <2>6. TypeInv'
      BY <2>1, <2>2, <2>4 DEF TypeInv
    <2>7. EngineInv'
      <3>1. PortInv'
        BY <2>1, <2>2 DEF PortInv, PhaseOp
      <3>2. ctx'.found < ctx'.max /\ ctx'.found <= ctx'.max
        BY <2>1 DEF EngineInv
      <3>3. ~ctx'.finished /\ sink'.asked
        BY <2>1 DEF EngineInv
      <3>a. n < Bits \/ n = Bits
        BY BitsAssumption
      <3>d. n < Bits => n # Bits /\ ctx'.phase = "WRITE_READ"
        BY <2>1, BitsAssumption
      <3>e. n = Bits => ~(n < Bits) /\ ctx'.phase = "WRITE_DIR"
        BY <2>1, BitsAssumption
      <3>b. n < Bits => ctx'.phase = "WRITE_READ" /\ n # Bits /\ wire'.pair
        BY <2>5, <3>d, Zenon
      <3>c. n = Bits => ctx'.phase = "WRITE_DIR" /\ ~wire'.pair
        BY <2>5, <3>e, Zenon
      <3>4. ctx'.phase = "WRITE_READ" => n # Bits /\ wire'.pair
        BY <3>a, <3>b, <3>c
      <3>5. ctx'.phase = "WRITE_DIR" => n = Bits /\ ~wire'.pair
        BY <3>a, <3>b, <3>c
      <3>6. ctx'.phase # "READ_PAIR"
        BY <2>1
      <3> QED
        BY <3>1, <3>2, <3>3, <3>4, <3>5, <3>6, <2>1, <2>3, <2>5 DEF EngineInv, Writing
    <2> QED
      BY <2>6, <2>7
  <1> QED
    BY <1>3, <1>4

\* What the last direction bit's completion does, whether the address is taken or not.
LEMMA WriteDirEffect ==
    ASSUME TypeInv, EngineInv, PollWriteDir
    PROVE  \E found \in Nat, stop \in BOOLEAN :
               /\ WalkEnds(found, stop)
               /\ found <= ctx.max
               /\ Accepted => found = ctx.found + 1 /\ sink' = Given(ctx.rom, stop)
               /\ ~Accepted => found = ctx.found /\ stop = FALSE /\ sink' = sink
  <1>1. ctx.found \in Nat /\ ctx.max \in Nat
    BY DEF TypeInv, CtxType
  <1>2. ctx.phase = "WRITE_DIR" /\ ctx.found < ctx.max
    BY DEF PollWriteDir, PhaseDone, EngineInv
  <1>3. CASE Accepted
    <2>1. PICK stop \in BOOLEAN : sink' = Given(ctx.rom, stop) /\ WalkEnds(ctx.found + 1, stop)
      BY <1>3 DEF PollWriteDir
    <2>2. ctx.found + 1 \in Nat /\ ctx.found + 1 <= ctx.max
      BY <1>1, <1>2
    <2> QED
      BY <2>1, <2>2, <1>3
  <1>4. CASE ~Accepted
    <2>1. WalkEnds(ctx.found, FALSE) /\ sink' = sink
      BY <1>4 DEF PollWriteDir
    <2>2. ctx.found <= ctx.max
      BY <1>1, <1>2
    <2> QED
      BY <2>1, <2>2, <1>1, <1>4, Zenon
  <1> QED
    BY <1>3, <1>4

\* The callback's record after it is given a legal address.
LEMMA GivenEffect ==
    ASSUME TypeInv, NEW rom \in Legal, NEW stop \in BOOLEAN
    PROVE  /\ Given(rom, stop) \in [asked : BOOLEAN, given : SUBSET Legal, twice : BOOLEAN,
                                    stopped : BOOLEAN]
           /\ Given(rom, stop).asked = sink.asked
           /\ Given(rom, stop).given = sink.given \cup {rom}
           /\ ~sink.twice /\ rom \notin sink.given => ~Given(rom, stop).twice
           /\ Given(rom, stop).stopped = stop
  <1>1. sink \in [asked : BOOLEAN, given : SUBSET Legal, twice : BOOLEAN, stopped : BOOLEAN]
    BY DEF TypeInv
  <1> DEFINE g == sink.given \cup {rom}
             t == sink.twice \/ rom \in sink.given
  <1>2. Given(rom, stop) = [sink EXCEPT !.given = g, !.twice = t, !.stopped = stop]
    BY <1>1 DEF Given
  <1>3. g \in SUBSET Legal /\ t \in BOOLEAN
    BY <1>1
  <1>4. ~sink.twice /\ rom \notin sink.given => t = FALSE
    BY <1>1
  <1> HIDE DEF g, t
  <1>5. Given(rom, stop) \in [asked : BOOLEAN, given : SUBSET Legal, twice : BOOLEAN,
                              stopped : BOOLEAN]
    BY <1>1, <1>2, <1>3
  <1>6. Given(rom, stop).given = g
    BY <1>1, <1>2
  <1>7. Given(rom, stop).stopped = stop
    BY <1>1, <1>2
  <1>8. Given(rom, stop).asked = sink.asked
    BY <1>1, <1>2
  <1>9. Given(rom, stop).twice = t
    BY <1>1, <1>2
  <1>10. ~sink.twice /\ rom \notin sink.given => ~Given(rom, stop).twice
    BY <1>4, <1>9, Zenon
  <1> QED
    BY <1>5, <1>6, <1>7, <1>8, <1>10 DEF g

LEMMA DirEngine ==
    ASSUME TypeInv, EngineInv, PollWriteDir PROVE TypeInv' /\ EngineInv'
  <1>1. PICK found \in Nat : \E stop \in BOOLEAN :
               /\ WalkEnds(found, stop)
               /\ found <= ctx.max
               /\ Accepted => found = ctx.found + 1 /\ sink' = Given(ctx.rom, stop)
               /\ ~Accepted => found = ctx.found /\ stop = FALSE /\ sink' = sink
    BY WriteDirEffect
  <1>2. PICK stop \in BOOLEAN :
               /\ WalkEnds(found, stop)
               /\ found <= ctx.max
               /\ Accepted => found = ctx.found + 1 /\ sink' = Given(ctx.rom, stop)
               /\ ~Accepted => found = ctx.found /\ stop = FALSE /\ sink' = sink
    BY <1>1
  <1>3. ~ctx.finished /\ ctx.phase = "WRITE_DIR" /\ port.uif /\ port.op = "idle"
        /\ ctx.found < ctx.max /\ sink.asked
    BY DEF PollWriteDir, PhaseDone, EngineInv, PortInv
  <1>4. UNCHANGED <<wire, line, walk, bus>>
    BY DEF PollWriteDir
  <1>5. sink' \in [asked : BOOLEAN, given : SUBSET Legal, twice : BOOLEAN, stopped : BOOLEAN]
        /\ sink'.asked
    <2>1. CASE Accepted
      <3>1. ctx.rom \in Legal
        BY <2>1 DEF Accepted
      <3>2. sink' = Given(ctx.rom, stop)
        BY <1>2, <2>1
      <3> QED
        BY <3>1, <3>2, <1>3, GivenEffect
    <2>2. CASE ~Accepted
      BY <2>2, <1>2, <1>3 DEF TypeInv
    <2> QED
      BY <2>1, <2>2
  <1>6. port \in PortType({0}) /\ ctx \in CtxType
    BY DEF TypeInv
  <1>7. /\ ctx' \in CtxType /\ ctx'.found = found /\ ctx'.max = ctx.max
        /\ ctx'.finished = ctx.finished
        /\ \/ ctx'.phase = "DONE" /\ port' = BusDone(port)
           \/ /\ ctx'.phase = "RESET" /\ port' = Arm(BusDone(port), "reset")
              /\ ~(Accepted /\ (stop \/ found >= ctx.max))
    BY <1>2, WalkEndsEffect
  <1>8. BusDone(port) \in PortType({0}) /\ BusDone(port).op = "idle" /\ BusDone(port).uif = FALSE
    BY <1>3, <1>6, BusDoneEffect
  <1>9. CASE ctx'.phase = "DONE" /\ port' = BusDone(port)
    <2>1. TypeInv'
      BY <1>4, <1>5, <1>7, <1>8, <1>9 DEF TypeInv
    <2>2. EngineInv'
      BY <1>2, <1>3, <1>5, <1>7, <1>8, <1>9 DEF EngineInv, PortInv, Writing
    <2> QED
      BY <2>1, <2>2
  <1>10. CASE /\ ctx'.phase = "RESET" /\ port' = Arm(BusDone(port), "reset")
              /\ ~(Accepted /\ (stop \/ found >= ctx.max))
    <2>1. port' \in PortType({0}) /\ port'.op = "reset" /\ port'.uif = FALSE
      BY <1>8, <1>10, ArmEffect DEF Ops
    <2>2. found < ctx.max
      BY <1>2, <1>3, <1>6, <1>10 DEF CtxType
    <2>3. TypeInv'
      BY <2>1, <1>4, <1>5, <1>7 DEF TypeInv
    <2>4. EngineInv'
      BY <2>1, <2>2, <1>2, <1>3, <1>5, <1>7, <1>10 DEF EngineInv, PortInv, PhaseOp, Writing
    <2> QED
      BY <2>3, <2>4
  <1> QED
    BY <1>7, <1>9, <1>10

LEMMA DoneEngine ==
    ASSUME TypeInv, EngineInv, PollDone PROVE TypeInv' /\ EngineInv'
  <1>1. ctx \in CtxType
    BY DEF TypeInv
  <1>2. ctx.phase = "DONE" /\ ctx' = [ctx EXCEPT !.finished = TRUE]
        /\ UNCHANGED <<port, wire, line, walk, bus, sink>>
    BY DEF PollDone
  <1>3. ctx' \in CtxType /\ ctx'.phase = "DONE" /\ ctx'.found = ctx.found /\ ctx'.max = ctx.max
        /\ ctx'.finished = TRUE
    BY <1>1, <1>2 DEF CtxType
  <1>4. TypeInv'
    BY <1>2, <1>3 DEF TypeInv
  <1>5. EngineInv'
    BY <1>2, <1>3 DEF EngineInv, PortInv, Writing
  <1> QED
    BY <1>4, <1>5

\* The operation whose end the timer reports is that of the phase.
LEMMA HwEngine ==
    ASSUME TypeInv, EngineInv, NEW operation \in Ops, HwEnds(operation)
    PROVE  /\ ctx.phase # "DONE" /\ operation = PhaseOp /\ ~port.uif
           /\ port' \in PortType({0}) /\ port'.uif = TRUE
           /\ EngineInv'
  <1>1. port.op = operation /\ port' = HwDone(port) /\ UNCHANGED <<ctx, wire, bus, sink>>
    BY DEF HwEnds
  <1>2. operation # "idle"
    BY DEF Ops
  <1>3. port \in PortType({0})
    BY DEF TypeInv
  <1>4. ctx.phase # "DONE" /\ operation = PhaseOp /\ ~port.uif
    BY <1>1, <1>2 DEF EngineInv, PortInv
  <1>5. port' \in PortType({0}) /\ port'.op = "idle" /\ port'.uif = TRUE
    BY <1>1, <1>3, HwDoneEffect
  <1>6. EngineInv'
    BY <1>1, <1>4, <1>5 DEF EngineInv, PortInv
  <1> QED
    BY <1>4, <1>5, <1>6

LEMMA AndBit == \A bits : And(bits) \in {0, 1}
  BY DEF And

LEMMA HardwareTypes ==
    ASSUME TypeInv, EngineInv, Hardware PROVE TypeInv' /\ EngineInv'
  <1>1. /\ walk \in [in : SUBSET Devices, at : Nat]
        /\ line \in [seen : BOOLEAN, id : {0, 1}, cmp : {0, 1}]
        /\ bus.present \in SUBSET Devices
    BY DEF TypeInv
  <1>2. ASSUME NEW operation \in Ops, HwEnds(operation),
               walk' \in [in : SUBSET Devices, at : Nat],
               line' \in [seen : BOOLEAN, id : {0, 1}, cmp : {0, 1}]
        PROVE  TypeInv' /\ EngineInv'
    <2>1. UNCHANGED <<ctx, wire, bus, sink>>
      BY <1>2 DEF HwEnds
    <2>2. port' \in PortType({0}) /\ EngineInv'
      BY <1>2, HwEngine
    <2> QED
      BY <1>2, <2>1, <2>2 DEF TypeInv
  <1>3. CASE HwReset
    <2>1. walk' = [in |-> bus.present, at |-> 1]
          /\ line' = [line EXCEPT !.seen = bus.present # {}] /\ HwEnds("reset")
      BY <1>3 DEF HwReset
    <2> DEFINE answered == bus.present # {}
    <2>2. answered \in BOOLEAN /\ line' = [line EXCEPT !.seen = answered]
      BY <2>1
    <2> HIDE DEF answered
    <2>3. line' \in [seen : BOOLEAN, id : {0, 1}, cmp : {0, 1}]
      BY <2>2, <1>1
    <2> QED
      BY <2>1, <2>3, <1>1, <1>2 DEF Ops
  <1>4. CASE HwCommand
    <2>1. walk' = [walk EXCEPT !.in = IF ctx.alarm THEN @ \cap bus.alarmed ELSE @]
          /\ line' = line /\ HwEnds("command")
      BY <1>4 DEF HwCommand
    <2>2. walk' \in [in : SUBSET Devices, at : Nat]
      BY <2>1, <1>1
    <2> QED
      BY <2>1, <2>2, <1>1, <1>2 DEF Ops
  <1>5. CASE HwSlots
    <2>1. HwEnds("slots")
      BY <1>5 DEF HwSlots
    <2>2. walk' \in [in : SUBSET Devices, at : Nat]
      <3>1. CASE wire.dir = NoDir
        BY <3>1, <1>5, <1>1 DEF HwSlots
      <3>2. CASE wire.dir # NoDir
        <4>1. walk' = [in |-> {d \in walk.in : d[walk.at] = wire.dir}, at |-> walk.at + 1]
          BY <3>2, <1>5 DEF HwSlots
        <4>2. {d \in walk.in : d[walk.at] = wire.dir} \in SUBSET Devices /\ walk.at + 1 \in Nat
          BY <1>1
        <4> QED
          BY <4>1, <4>2
      <3> QED
        BY <3>1, <3>2
    <2>3. line' \in [seen : BOOLEAN, id : {0, 1}, cmp : {0, 1}]
      <3>1. CASE wire.pair
        <4>1. PICK p \in Pairs(walk') : line' = [line EXCEPT !.id = p[1], !.cmp = p[2]]
          BY <1>5, <3>1 DEF HwSlots
        <4>2. p[1] \in {0, 1} /\ p[2] \in {0, 1}
          BY AndBit DEF Pairs
        <4> QED
          BY <4>1, <4>2, <1>1
      <3>2. CASE ~wire.pair
        BY <3>2, <1>5, <1>1 DEF HwSlots
      <3> QED
        BY <3>1, <3>2
    <2> QED
      BY <2>1, <2>2, <2>3, <1>2 DEF Ops
  <1> QED
    BY <1>3, <1>4, <1>5 DEF Hardware

LEMMA PlugTypes ==
    ASSUME TypeInv, EngineInv, NEW d \in Devices, Plug(d) PROVE TypeInv' /\ EngineInv'
  <1>1. /\ bus \in [scene : Scenarios, present : SUBSET Devices, alarmed : SUBSET Devices]
        /\ bus.alarmed \subseteq bus.present /\ bus.present \subseteq bus.scene.devices
        /\ walk \in [in : SUBSET Devices, at : Nat]
    BY DEF TypeInv
  <1> DEFINE here  == IF d \in bus.present THEN bus.present \ {d} ELSE bus.present \cup {d}
             alarm == bus.alarmed \ {d}
  <1>2. /\ bus' = [bus EXCEPT !.present = here, !.alarmed = alarm]
        /\ walk' = [walk EXCEPT !.in = @ \ {d}]
        /\ d \in bus.scene.devices
        /\ UNCHANGED <<port, ctx, wire, line, sink>>
    BY DEF Plug
  <1>3. here \in SUBSET Devices /\ alarm \in SUBSET Devices
        /\ alarm \subseteq here /\ here \subseteq bus.scene.devices
    BY <1>1, <1>2
  <1>4. walk' \in [in : SUBSET Devices, at : Nat]
    BY <1>1, <1>2
  <1> HIDE DEF here, alarm
  <1>5. bus' \in [scene : Scenarios, present : SUBSET Devices, alarmed : SUBSET Devices]
    BY <1>1, <1>2, <1>3
  <1>6. bus'.present = here /\ bus'.alarmed = alarm /\ bus'.scene = bus.scene
    BY <1>1, <1>2
  <1>7. TypeInv'
    BY <1>2, <1>3, <1>4, <1>5, <1>6 DEF TypeInv
  <1>8. EngineInv'
    BY <1>2 DEF EngineInv, PortInv, PhaseOp, Writing
  <1> QED
    BY <1>7, <1>8

LEMMA EngineInitial == ASSUME Init PROVE TypeInv /\ EngineInv
  <1>1. ZeroRom \in Addresses
    BY DEF ZeroRom, Addresses
  <1>2. port \in PortType({0}) /\ port.op = "idle" /\ port.uif = FALSE
    BY DEF Init, PortInit, PortType, Ops, Pins
  <1>3. ctx \in CtxType /\ ctx.phase = "DONE" /\ ctx.finished = TRUE /\ ctx.found = ctx.max
    BY <1>1, BitsAssumption DEF Init, CtxType, Phases
  <1>4. wire \in [dir : {0, 1, NoDir}, pair : BOOLEAN]
    BY DEF Init
  <1>5. line \in [seen : BOOLEAN, id : {0, 1}, cmp : {0, 1}]
    BY DEF Init
  <1>6. walk \in [in : SUBSET Devices, at : Nat]
    BY DEF Init
  <1>7. sink \in [asked : BOOLEAN, given : SUBSET Legal, twice : BOOLEAN, stopped : BOOLEAN]
    BY DEF Init
  <1>8. TypeInv
    BY <1>2, <1>3, <1>4, <1>5, <1>6, <1>7 DEF Init, TypeInv
  <1>9. EngineInv
    BY <1>2, <1>3, <1>8 DEF EngineInv, PortInv, Writing, TypeInv, CtxType
  <1> QED
    BY <1>8, <1>9

LEMMA EngineInductive ==
    ASSUME TypeInv, EngineInv, [Next]_vars PROVE TypeInv' /\ EngineInv'
  <1>1. CASE Request
    BY <1>1, RequestEngine
  <1>2. CASE PollReset
    BY <1>2, ResetEngine
  <1>3. CASE PollCmd
    BY <1>3, CmdEngine
  <1>4. CASE PollReadPair
    <2>1. ctx.n = 1 /\ AdvanceBit(ctx.n) /\ ~ctx.finished /\ ctx.phase = "READ_PAIR" /\ port.uif
          /\ UNCHANGED <<line, walk, bus, sink>>
      BY <1>4 DEF PollReadPair, PhaseDone, EngineInv
    <2>2. ctx.n \in 1..Bits
      BY <2>1, BitsAssumption
    <2> QED
      BY <2>1, <2>2, PairEngine
  <1>5. CASE PollWriteRead
    <2>1. AdvanceBit(ctx.n + 1) /\ ~ctx.finished /\ ctx.phase = "WRITE_READ" /\ port.uif
          /\ UNCHANGED <<line, walk, bus, sink>>
      BY <1>5 DEF PollWriteRead, PhaseDone
    <2>2. ctx.n + 1 \in 1..Bits
      BY <2>1, BitsAssumption DEF EngineInv
    <2> QED
      BY <2>1, <2>2, PairEngine
  <1>6. CASE PollWriteDir
    BY <1>6, DirEngine
  <1>7. CASE PollDone
    BY <1>7, DoneEngine
  <1>8. CASE Hardware
    BY <1>8, HardwareTypes
  <1>9. CASE \E d \in Devices : Plug(d)
    BY <1>9, PlugTypes
  <1>10. CASE UNCHANGED vars
    BY <1>10 DEF vars, TypeInv, EngineInv, PortInv, PhaseOp
  <1> QED
    BY <1>1, <1>2, <1>3, <1>4, <1>5, <1>6, <1>7, <1>8, <1>9, <1>10 DEF Next, Poll

-----------------------------------------------------------------------------
(***************************************************************************)
(* The invariants of a still bus.                                          *)
(***************************************************************************)

\* A still bus keeps its devices, and no bus changes its scenario.
LEMMA BusKeeps ==
    ASSUME TypeInv, [Next]_vars
    PROVE  bus'.scene = bus.scene /\ (bus.scene.still => bus' = bus)
  <1>1. CASE \E d \in Devices : Plug(d)
    BY <1>1 DEF Plug, TypeInv
  <1>2. CASE Request \/ Poll
    BY <1>2 DEF Request, SearchStart, Poll, PollReset, PollCmd, PollReadPair, PollWriteRead,
                PollWriteDir, PollDone
  <1>3. CASE Hardware
    BY <1>3 DEF Hardware, HwReset, HwCommand, HwSlots, HwEnds
  <1>4. CASE UNCHANGED vars
    BY <1>4 DEF vars
  <1> QED
    BY <1>1, <1>2, <1>3, <1>4 DEF Next

\* The devices are addresses.
LEMMA DevicesAreAddresses ==
    ASSUME TypeInv PROVE Taking \in SUBSET Addresses /\ Left \in SUBSET Taking
  <1>1. Taking \in SUBSET Devices
    BY DEF TypeInv, Taking
  <1>2. Devices \subseteq Addresses
    BY DevicesAssumption, LegalAssumption DEF Addresses
  <1>3. Left \in SUBSET Taking
    BY DEF Left, Beyond
  <1> QED
    BY <1>1, <1>2, <1>3

\* The paths and the callback's record are of the context and the bus alone.
LEMMA TreeSteady ==
    ASSUME LeafInv, PathInv, SinkInv, UNCHANGED <<ctx, bus, sink>>
    PROVE  LeafInv' /\ PathInv' /\ SinkInv'
  <1>1. LeafInv'
    BY DEF LeafInv, Taking, Deepest
  <1>2. PathInv'
    BY DEF PathInv, Settled, Taking, Left, Beyond, Deepest, Accounted
  <1>3. SinkInv'
    BY DEF SinkInv, Taking, Left, Beyond, OfFamily, Wanted
  <1> QED
    BY <1>1, <1>2, <1>3

\* A step that changes nothing of the context but the phase.
LEMMA PhaseChange ==
    ASSUME TypeInv, NEW p, ctx' = [ctx EXCEPT !.phase = p]
    PROVE  /\ ctx'.phase = p
           /\ ctx'.alarm = ctx.alarm /\ ctx'.family = ctx.family /\ ctx'.rom = ctx.rom
           /\ ctx'.n = ctx.n /\ ctx'.lastDiscrepancy = ctx.lastDiscrepancy
           /\ ctx'.lastZero = ctx.lastZero /\ ctx'.found = ctx.found /\ ctx'.max = ctx.max
           /\ ctx'.finished = ctx.finished /\ ctx'.prevLeaf = ctx.prevLeaf
  BY DEF TypeInv, CtxType

\* The request in hand goes on: who takes part and who is left stay the same.
LEMMA SameRequest ==
    ASSUME bus' = bus, ctx'.alarm = ctx.alarm, ctx'.family = ctx.family,
           ctx'.lastDiscrepancy = ctx.lastDiscrepancy, ctx'.prevLeaf = ctx.prevLeaf
    PROVE  Taking' = Taking /\ Left' = Left /\ Wanted' = Wanted
           /\ \A d : OfFamily(d)' <=> OfFamily(d)
  BY DEF Taking, Left, Beyond, Wanted, OfFamily

LEMMA LeafKept ==
    ASSUME LeafInv, ctx.phase # "DONE", bus' = bus, ctx'.alarm = ctx.alarm,
           ctx'.lastDiscrepancy = ctx.lastDiscrepancy, ctx'.prevLeaf = ctx.prevLeaf
    PROVE  LeafInv'
  BY DEF LeafInv, Taking, Deepest

LEMMA SinkKept ==
    ASSUME SinkInv, ctx.phase # "DONE", ctx'.phase # "DONE", bus' = bus, sink' = sink,
           ctx'.alarm = ctx.alarm, ctx'.family = ctx.family, ctx'.found = ctx.found,
           ctx'.lastDiscrepancy = ctx.lastDiscrepancy, ctx'.prevLeaf = ctx.prevLeaf
    PROVE  SinkInv'
  BY SameRequest DEF SinkInv, OfFamily

\* A search that stops when nobody is left has given all it was asked for.
LEMMA SinkComplete ==
    ASSUME SinkInv, ctx.phase # "DONE", Taking = {}, bus' = bus, sink' = sink,
           ctx'.alarm = ctx.alarm, ctx'.family = ctx.family, ctx'.found = ctx.found,
           ctx'.phase = "DONE"
    PROVE  SinkInv'
  <1>1. sink.given = {} /\ Wanted = {}
    BY DEF SinkInv, Wanted, Taking
  <1>2. Wanted' = Wanted
    BY DEF Wanted
  <1> QED
    BY <1>1, <1>2 DEF SinkInv

LEMMA RequestStill ==
    ASSUME TypeInv, EngineInv, bus' = bus, Request
    PROVE  WalkInv' /\ LeafInv' /\ PathInv' /\ SinkInv'
  <1>1. PICK alarm \in BOOLEAN, family \in bus.scene.families, max \in bus.scene.limits :
            SearchStart(alarm, family, max)
    BY DEF Request
  <1>2. ctx' = Fresh(alarm, family, max)
        /\ sink' = [asked |-> TRUE, given |-> {}, twice |-> FALSE, stopped |-> FALSE]
    BY <1>1 DEF SearchStart
  <1>3. /\ ctx'.phase = (IF max = 0 THEN "DONE" ELSE "RESET")
        /\ ctx'.lastDiscrepancy = 0 /\ ctx'.prevLeaf = NoLeaf
        /\ ctx'.found = 0 /\ ctx'.max = max
    BY <1>2 DEF Fresh
  <1>4. max # 0 => port' = Arm(port, "reset")
    BY <1>1 DEF SearchStart
  <1>5. port \in PortType({0})
    BY DEF TypeInv
  <1>6. max # 0 => ~port'.uif
    BY <1>4, <1>5, ArmEffect DEF Ops
  <1>7. WalkInv'
    BY <1>3, <1>6 DEF WalkInv, Writing
  <1>8. LeafInv'
    BY <1>3 DEF LeafInv
  <1>9. PathInv'
    BY <1>3, BitsAssumption DEF PathInv, Settled, Writing, Walking
  <1>10. SinkInv'
    <2>1. IsFiniteSet({}) /\ Cardinality({}) = 0
      BY FS_EmptySet
    <2>2. Left' = Taking'
      BY <1>3 DEF Left
    <2> QED
      BY <2>1, <2>2, <1>2, <1>3 DEF SinkInv
  <1> QED
    BY <1>7, <1>8, <1>9, <1>10

LEMMA ResetStill ==
    ASSUME TypeInv, EngineInv, WalkInv, LeafInv, PathInv, SinkInv, bus' = bus, PollReset
    PROVE  WalkInv' /\ LeafInv' /\ PathInv' /\ SinkInv'
  <1>1. ctx.phase = "RESET" /\ port.uif /\ port \in PortType({0})
    BY DEF PollReset, PhaseDone, TypeInv
  <1>2. UNCHANGED <<wire, line, walk, bus, sink>>
    BY DEF PollReset
  <1>3. walk.in = bus.present /\ walk.at = 1 /\ line.seen = (bus.present # {})
    BY <1>1 DEF WalkInv
  <1>4. CASE line.seen
    <2>1. ctx' = [ctx EXCEPT !.phase = "CMD"] /\ port' = Arm(BusDone(port), "command")
      BY <1>4 DEF PollReset, Consumed
    <2>2. ~port'.uif
      BY <2>1, <1>1, BusDoneEffect, ArmEffect DEF Ops
    <2>3. WalkInv'
      BY <2>1, <2>2, <1>2, <1>3, PhaseChange DEF WalkInv, Writing
    <2>4. LeafInv'
      BY <2>1, <1>1, PhaseChange, LeafKept
    <2>5. PathInv'
      BY <2>1, <1>1, PhaseChange DEF PathInv, Settled, Writing, Walking
    <2>6. SinkInv'
      BY <2>1, <1>1, <1>2, PhaseChange, SinkKept
    <2> QED
      BY <2>3, <2>4, <2>5, <2>6
  <1>5. CASE ~line.seen
    <2>1. ctx' = [ctx EXCEPT !.phase = "DONE"]
      BY <1>5 DEF PollReset
    <2>2. Taking = {}
      BY <1>3, <1>5 DEF Taking, TypeInv
    <2>3. WalkInv' /\ LeafInv' /\ PathInv'
      BY <2>1, PhaseChange DEF WalkInv, LeafInv, PathInv, Writing, Walking
    <2>4. SinkInv'
      BY <2>1, <2>2, <1>1, <1>2, PhaseChange, SinkComplete
    <2> QED
      BY <2>3, <2>4
  <1> QED
    BY <1>4, <1>5

LEMMA CmdStill ==
    ASSUME TypeInv, EngineInv, WalkInv, LeafInv, PathInv, SinkInv, bus' = bus, PollCmd
    PROVE  WalkInv' /\ LeafInv' /\ PathInv' /\ SinkInv'
  <1>1. ctx.phase = "CMD" /\ port.uif /\ port \in PortType({0}) /\ ctx \in CtxType
    BY DEF PollCmd, PhaseDone, TypeInv
  <1>2. /\ ctx' = [ctx EXCEPT !.phase = "READ_PAIR", !.n = 1, !.lastZero = 0]
        /\ port' = Arm(BusDone(port), "slots")
        /\ UNCHANGED <<line, walk, bus, sink>>
    BY DEF PollCmd, Consumed
  <1>3. ~port'.uif
    BY <1>1, <1>2, BusDoneEffect, ArmEffect DEF Ops
  <1>4. ctx'.phase = "READ_PAIR" /\ ctx'.lastZero = 0
    BY <1>1, <1>2 DEF CtxType
  <1>5. /\ ctx'.alarm = ctx.alarm /\ ctx'.family = ctx.family /\ ctx'.rom = ctx.rom
        /\ ctx'.lastDiscrepancy = ctx.lastDiscrepancy
        /\ ctx'.found = ctx.found /\ ctx'.prevLeaf = ctx.prevLeaf
    BY <1>1, <1>2 DEF CtxType
  <1>6. WalkInv'
    BY <1>1, <1>2, <1>3, <1>4, <1>5 DEF WalkInv, Writing, Taking
  <1>7. LeafInv'
    BY <1>1, <1>5, LeafKept
  <1>8. PathInv'
    <2>1. Settled' = 0 /\ ctx'.phase # "DONE"
      BY <1>4 DEF Settled, Writing
    <2>2. \A i \in 1..Bits : i < ctx'.lastDiscrepancy => ctx'.rom[i] = ctx'.prevLeaf[i]
      BY <1>1, <1>5 DEF PathInv
    <2>3. ctx'.lastDiscrepancy \notin 1..Settled'
      BY <2>1
    <2>4. Deepest(Taking', ctx'.rom, Settled', ctx'.lastZero)
      BY <2>1, <1>4 DEF Deepest
    <2>5. Accounted(Left', ctx'.rom, Settled')
      BY <2>1 DEF Accounted, Follows
    <2>6. ctx'.phase \notin Writing
      BY <1>4 DEF Writing
    <2> QED
      BY <2>2, <2>3, <2>4, <2>5, <2>6 DEF PathInv
  <1>9. SinkInv'
    BY <1>1, <1>2, <1>4, <1>5, SinkKept
  <1> QED
    BY <1>6, <1>7, <1>8, <1>9

\* What the pair tells of the devices on the path, at the bit it was read for.
LEMMA PairRead ==
    ASSUME TypeInv, EngineInv, WalkInv, NEW n \in 1..Bits, n = Settled + 1,
           ctx.phase \in {"READ_PAIR", "WRITE_READ"}, port.uif
    PROVE  /\ walk.in = {d \in Taking : Follows(d, ctx.rom, n - 1)} /\ walk.at = n
           /\ line.id = 0 <=> \E d \in Taking : Follows(d, ctx.rom, n - 1) /\ d[n] = 0
           /\ line.cmp = 0 <=> \E d \in Taking : Follows(d, ctx.rom, n - 1) /\ d[n] = 1
  <1>1. line.id = And({d[walk.at] : d \in walk.in})
        /\ line.cmp = And({1 - d[walk.at] : d \in walk.in})
    BY DEF WalkInv
  <1>2. walk.in = {d \in Taking : Follows(d, ctx.rom, n - 1)} /\ walk.at = n
    <2>1. CASE ctx.phase = "READ_PAIR"
      <3>1. n = 1 /\ walk.in = Taking /\ walk.at = 1
        BY <2>1 DEF WalkInv, Settled, Writing
      <3>2. \A d \in Taking : Follows(d, ctx.rom, 0)
        BY DEF Follows
      <3> QED
        BY <3>1, <3>2
    <2>2. CASE ctx.phase = "WRITE_READ"
      <3>1. ctx.n = n - 1 /\ ctx.n + 1 = n
        BY <2>2, BitsAssumption DEF Settled, Writing, EngineInv
      <3> QED
        BY <3>1, <2>2 DEF WalkInv, Writing
    <2> QED
      BY <2>1, <2>2
  <1>3. \A d \in walk.in : d[n] \in {0, 1}
    BY <1>2, DevicesAreAddresses DEF Addresses
  <1>4. line.id = 0 <=> 0 \in {d[n] : d \in walk.in}
    BY <1>1, <1>2 DEF And
  <1>5. line.cmp = 0 <=> 0 \in {1 - d[n] : d \in walk.in}
    BY <1>1, <1>2 DEF And
  <1>6. line.id = 0 <=> \E d \in walk.in : d[n] = 0
    BY <1>4
  <1>7. line.cmp = 0 <=> \E d \in walk.in : d[n] = 1
    BY <1>5, <1>3
  <1> QED
    BY <1>2, <1>6, <1>7

LEMMA PairStill ==
    ASSUME TypeInv, EngineInv, WalkInv, LeafInv, PathInv, SinkInv, bus' = bus,
           NEW n \in 1..Bits, n = Settled + 1, AdvanceBit(n),
           ctx.phase \in {"READ_PAIR", "WRITE_READ"}, port.uif,
           UNCHANGED <<line, walk, bus, sink>>
    PROVE  WalkInv' /\ LeafInv' /\ PathInv' /\ SinkInv'
  <1>1. /\ walk.in = {d \in Taking : Follows(d, ctx.rom, n - 1)} /\ walk.at = n
        /\ line.id = 0 <=> \E d \in Taking : Follows(d, ctx.rom, n - 1) /\ d[n] = 0
        /\ line.cmp = 0 <=> \E d \in Taking : Follows(d, ctx.rom, n - 1) /\ d[n] = 1
    BY PairRead
  <1>2. /\ line.id \in {0, 1} /\ line.cmp \in {0, 1} /\ ctx.rom \in Addresses
        /\ ctx.lastDiscrepancy \in 0..Bits /\ ctx.lastZero \in 0..Bits
        /\ ctx \in CtxType /\ port \in PortType({0}) /\ Bits \in Nat
    BY BitsAssumption DEF TypeInv, CtxType
  <1>3. Taking \in SUBSET Addresses /\ Left \in SUBSET Taking
    BY DevicesAreAddresses
  <1>4. \A d \in Taking : d[n] \in {0, 1}
    BY <1>3 DEF Addresses
  <1>5. CASE line.id = 1 /\ line.cmp = 1
    <2>1. ctx' = [ctx EXCEPT !.n = n, !.phase = "DONE"]
      BY <1>5, AdvanceStops
    <2>2. ctx'.phase = "DONE" /\ ctx'.alarm = ctx.alarm /\ ctx'.family = ctx.family
          /\ ctx'.found = ctx.found
      BY <2>1, <1>2 DEF CtxType
    <2>3. \A d \in Taking : ~Follows(d, ctx.rom, n - 1)
      BY <1>1, <1>4, <1>5
    <2>4. ctx.phase # "WRITE_READ"
      <3>1. ctx.phase = "WRITE_READ" => ctx.n = n - 1
        BY <1>2 DEF Settled, Writing, EngineInv
      <3> QED
        BY <3>1, <2>3 DEF PathInv, Writing
    <2>5. n = 1
      BY <2>4 DEF Settled, Writing
    <2>6. Taking = {}
      BY <2>3, <2>5 DEF Follows
    <2>7. WalkInv' /\ LeafInv' /\ PathInv'
      BY <2>2 DEF WalkInv, LeafInv, PathInv, Writing, Walking
    <2>8. SinkInv'
      BY <2>2, <2>6, SinkComplete
    <2> QED
      BY <2>7, <2>8
  <1>6. CASE ~(line.id = 1 /\ line.cmp = 1)
    <2>1. /\ Direction(n) \in {0, 1}
          /\ ctx'.phase = (IF n < Bits THEN "WRITE_READ" ELSE "WRITE_DIR")
          /\ ctx'.rom = Decide(ctx.rom, n, Direction(n))
          /\ ctx'.n = n
          /\ ctx'.lastZero = (IF ZeroBranch(n) THEN n ELSE ctx.lastZero)
          /\ ctx'.lastDiscrepancy = ctx.lastDiscrepancy /\ ctx'.prevLeaf = ctx.prevLeaf
          /\ ctx'.alarm = ctx.alarm /\ ctx'.family = ctx.family
          /\ ctx'.found = ctx.found /\ ctx'.max = ctx.max /\ ctx'.finished = ctx.finished
          /\ port' = Arm(BusDone(port), "slots")
      BY <1>6, AdvanceEffect
    <2> DEFINE b == Direction(n)
               z == ctx'.lastZero
               q == Decide(ctx.rom, n, b)
    <2>2. /\ ~(line.id = 0 /\ line.cmp = 0) => b = line.id
          /\ line.id = 0 /\ line.cmp = 0 =>
                 b = IF n < ctx.lastDiscrepancy THEN ctx.rom[n]
                     ELSE IF n = ctx.lastDiscrepancy THEN 1 ELSE 0
      BY DEF Direction, Discrepancy
    <2>3. z = ZeroAfter(n, line.id, line.cmp, b, ctx.lastZero)
      BY <2>1 DEF ZeroBranch, Discrepancy, ZeroAfter
    <2>5. ctx.phase # "DONE" /\ ctx.phase \in Walking /\ Settled = n - 1
      BY <1>2 DEF Walking, Writing, Settled, EngineInv
    <2>6. ctx.lastDiscrepancy # 0 =>
              /\ ctx.prevLeaf \in Addresses
              /\ Deepest(Taking, ctx.prevLeaf, Bits, ctx.lastDiscrepancy)
              /\ Left = {d \in Taking : \E i \in 1..Bits : Branches(d, ctx.prevLeaf, i)}
      BY <2>5 DEF LeafInv, Left, Beyond
    <2>7. /\ \A i \in 1..Bits : i < ctx.lastDiscrepancy => ctx.rom[i] = ctx.prevLeaf[i]
          /\ ctx.lastDiscrepancy \in 1..(n - 1) => ctx.rom[ctx.lastDiscrepancy] = 1
          /\ Deepest(Taking, ctx.rom, n - 1, ctx.lastZero)
          /\ Accounted(Left, ctx.rom, n - 1)
      BY <2>5 DEF PathInv
    <2>8. b \in {0, 1}
      BY <2>1
    <2> HIDE DEF b, z, q
    <2>4. PathStep(Taking, Left, ctx.rom, ctx.prevLeaf, ctx.lastDiscrepancy, ctx.lastZero, n,
                   line.id, line.cmp, b)
      BY <1>1, <1>2, <1>3, <1>6, <2>2, <2>6, <2>7, <2>8, Zenon DEF PathStep
    <2>9. /\ \A i \in 1..Bits : i < ctx.lastDiscrepancy => q[i] = ctx.prevLeaf[i]
          /\ ctx.lastDiscrepancy \in 1..n => q[ctx.lastDiscrepancy] = 1
          /\ Deepest(Taking, q, n, z)
          /\ Accounted(Left, q, n)
          /\ \E d \in Taking : Follows(d, q, n)
      <3> DEFINE y == ZeroAfter(n, line.id, line.cmp, b, ctx.lastZero)
                 e == Decide(ctx.rom, n, b)
      <3>1. /\ \A i \in 1..Bits : i < ctx.lastDiscrepancy => e[i] = ctx.prevLeaf[i]
            /\ ctx.lastDiscrepancy \in 1..n => e[ctx.lastDiscrepancy] = 1
            /\ Deepest(Taking, e, n, y)
            /\ Accounted(Left, e, n)
            /\ \E d \in Taking : Follows(d, e, n)
        BY <2>4, PathExtends
      <3> QED
        BY <3>1, <2>3 DEF q
    <2>10. ctx'.rom = q /\ ctx'.lastZero = z
      BY <2>1 DEF b, z, q
    <2>11. Taking' = Taking /\ Left' = Left
      BY <2>1, SameRequest
    <2>12. ctx'.phase \in Writing /\ ctx'.phase # "DONE" /\ ctx'.phase # "READ_PAIR"
           /\ Settled' = n /\ ctx'.phase \in Walking
      BY <2>1 DEF Writing, Walking, Settled
    <2>13. ~port'.uif
      BY <2>1, <1>2, BusDoneEffect, ArmEffect DEF Ops
    <2>14. WalkInv'
      <3>1. walk'.in = {d \in Taking : Follows(d, q, n - 1)} /\ walk'.at = n
        <4>1. \A d \in Taking : Follows(d, q, n - 1) <=> Follows(d, ctx.rom, n - 1)
          BY <1>2, <1>3, <2>8, Extend DEF q
        <4> QED
          BY <4>1, <1>1
      <3>2. walk'.in = {d \in Taking' : Follows(d, ctx'.rom, ctx'.n - 1)}
            /\ walk'.at = (ctx'.n - 1) + 1
        BY <3>1, <2>1, <2>10, <2>11
      <3> QED
        BY <3>2, <2>12, <2>13 DEF WalkInv, Writing
    <2>15. LeafInv'
      BY <2>1, <2>5, LeafKept
    <2>16. PathInv'
      <3>1. \A i \in 1..Bits : i < ctx'.lastDiscrepancy => ctx'.rom[i] = ctx'.prevLeaf[i]
        BY <2>1, <2>9, <2>10
      <3>2. ctx'.lastDiscrepancy \in 1..Settled' => ctx'.rom[ctx'.lastDiscrepancy] = 1
        BY <2>1, <2>9, <2>10, <2>12
      <3>3. Deepest(Taking', ctx'.rom, Settled', ctx'.lastZero)
        BY <2>9, <2>10, <2>11, <2>12
      <3>4. Accounted(Left', ctx'.rom, Settled')
        BY <2>9, <2>10, <2>11, <2>12
      <3>5. \E d \in Taking' : Follows(d, ctx'.rom, ctx'.n)
        BY <2>1, <2>9, <2>10, <2>11
      <3> QED
        BY <3>1, <3>2, <3>3, <3>4, <3>5 DEF PathInv
    <2>17. SinkInv'
      BY <2>1, <2>5, <2>12, SinkKept
    <2> QED
      BY <2>14, <2>15, <2>16, <2>17
  <1> QED
    BY <1>5, <1>6

\* A walk on a still bus ends at a device that was not met before.
LEMMA LeafMet ==
    ASSUME TypeInv, EngineInv, LeafInv, PathInv, ctx.phase = "WRITE_DIR"
    PROVE  /\ ctx.rom \in Taking /\ ctx.rom \in Left /\ ctx.rom \in Legal
           /\ ctx.rom \in Addresses /\ Deepest(Taking, ctx.rom, Bits, ctx.lastZero)
           /\ {d \in Taking : \E i \in 1..Bits : Branches(d, ctx.rom, i)} = Left \ {ctx.rom}
           /\ ctx.lastZero = 0 => Left = {ctx.rom}
           /\ ctx.prevLeaf # ctx.rom
  <1>3. ctx.n = Bits
    BY DEF EngineInv
  <1>4. /\ ctx.rom \in Addresses /\ Bits \in Nat
        /\ ctx.lastDiscrepancy \in 0..Bits /\ ctx.lastZero \in 0..Bits
    BY BitsAssumption DEF TypeInv, CtxType
  <1> DEFINE r  == ctx.rom
             ld == ctx.lastDiscrepancy
             lz == ctx.lastZero
  <1>5. PathEnd(Taking, Left, r, ctx.prevLeaf, ld, lz)
    <2>1. Settled = Bits /\ ctx.phase \in Walking /\ ctx.phase \in Writing /\ ctx.phase # "DONE"
      BY <1>3 DEF Settled, Walking, Writing
    <2>2. /\ ld = 0 => Left = Taking
          /\ ld # 0 => /\ ctx.prevLeaf \in Addresses
                       /\ Deepest(Taking, ctx.prevLeaf, Bits, ld)
                       /\ Left = {d \in Taking : \E i \in 1..Bits : Branches(d, ctx.prevLeaf, i)}
      BY <2>1 DEF LeafInv, Left, Beyond
    <2>3. /\ \A i \in 1..Bits : i < ld => r[i] = ctx.prevLeaf[i]
          /\ ld \in 1..Bits => r[ld] = 1
          /\ Deepest(Taking, r, Bits, lz)
          /\ Accounted(Left, r, Bits)
          /\ \E d \in Taking : Follows(d, r, Bits)
      BY <2>1, <1>3 DEF PathInv
    <2>4. ld # 0 => ld \in 1..Bits
      BY <1>4
    <2>5. ld # 0 => r[ld] = 1
      BY <2>3, <2>4
    <2> QED
      BY <2>2, <2>3, <2>5, <1>4, DevicesAreAddresses, Zenon DEF PathEnd
  <1>6. /\ r \in Taking /\ r \in Left
        /\ {d \in Taking : \E i \in 1..Bits : Branches(d, r, i)} = Left \ {r}
        /\ lz = 0 => Left = {r}
        /\ ld # 0 => ctx.prevLeaf # r
    BY <1>5, LeafFound
  <1>7. r \in Legal
    BY <1>6, DevicesAssumption DEF Taking, TypeInv
  <1>9. ctx.prevLeaf # r
    <2>1. CASE ld = 0
      <3>1. ctx.prevLeaf = NoLeaf
        BY <2>1 DEF LeafInv
      <3>2. DOMAIN r = 1..Bits /\ 1 \in 1..Bits
        BY <1>4, BitsAssumption DEF Addresses
      <3>3. DOMAIN NoLeaf = 1..0
        BY DEF NoLeaf
      <3>4. DOMAIN r # DOMAIN NoLeaf
        BY <3>2, <3>3
      <3> QED
        BY <3>1, <3>4, Zenon
    <2> QED
      BY <2>1, <1>6
  <1> QED
    BY <1>5, <1>6, <1>7, <1>9 DEF PathEnd

LEMMA DirStill ==
    ASSUME TypeInv, EngineInv, WalkInv, LeafInv, PathInv, SinkInv, bus' = bus, PollWriteDir
    PROVE  WalkInv' /\ LeafInv' /\ PathInv' /\ SinkInv'
  <1>1. PICK found \in Nat : \E stop \in BOOLEAN :
               /\ WalkEnds(found, stop)
               /\ found <= ctx.max
               /\ Accepted => found = ctx.found + 1 /\ sink' = Given(ctx.rom, stop)
               /\ ~Accepted => found = ctx.found /\ stop = FALSE /\ sink' = sink
    BY WriteDirEffect
  <1>2. PICK stop \in BOOLEAN :
               /\ WalkEnds(found, stop)
               /\ found <= ctx.max
               /\ Accepted => found = ctx.found + 1 /\ sink' = Given(ctx.rom, stop)
               /\ ~Accepted => found = ctx.found /\ stop = FALSE /\ sink' = sink
    BY <1>1
  <1>3. ctx.phase = "WRITE_DIR" /\ ctx.n = Bits /\ ~ctx.finished
    BY DEF PollWriteDir, PhaseDone, EngineInv
  <1>4. /\ ctx \in CtxType /\ ctx.rom \in Addresses /\ port \in PortType({0})
        /\ ctx.lastDiscrepancy \in 0..Bits /\ ctx.lastZero \in 0..Bits
        /\ ctx.found \in Nat /\ ctx.max \in Nat /\ Bits \in Nat
    BY BitsAssumption DEF TypeInv, CtxType
  <1> DEFINE r  == ctx.rom
             ld == ctx.lastDiscrepancy
             lz == ctx.lastZero
  <1>5. Deepest(Taking, r, Bits, lz) /\ r \in Addresses
    BY <1>3, LeafMet
  <1>6. /\ r \in Taking /\ r \in Left
        /\ {d \in Taking : \E i \in 1..Bits : Branches(d, r, i)} = Left \ {r}
        /\ lz = 0 => Left = {r}
    BY <1>3, LeafMet
  <1>7. r \in Legal
    BY <1>3, LeafMet
  <1>8. Accepted <=> OfFamily(r)
    BY <1>7 DEF Accepted, OfFamily
  <1>9. ctx.prevLeaf # r
    BY <1>3, LeafMet
  <1>10. /\ ~sink.twice /\ IsFiniteSet(sink.given) /\ ctx.found = Cardinality(sink.given)
         /\ ~sink.stopped /\ sink.given = {d \in Taking \ Left : OfFamily(d)}
    BY <1>3 DEF SinkInv
  <1>11. r \notin sink.given
    BY <1>6, <1>10
  \* What the callback has been given now.
  <1>12. /\ ~sink'.twice /\ IsFiniteSet(sink'.given) /\ found = Cardinality(sink'.given)
         /\ sink'.given = {d \in (Taking \ Left) \cup {r} : OfFamily(d)}
         /\ sink'.stopped = stop
    <2>1. CASE Accepted
      <3>1. sink' = Given(r, stop) /\ found = ctx.found + 1
        BY <2>1, <1>2
      <3>2. sink'.given = sink.given \cup {r} /\ ~sink'.twice /\ sink'.stopped = stop
        BY <3>1, <1>7, <1>10, <1>11, GivenEffect
      <3>3. IsFiniteSet(sink'.given) /\ Cardinality(sink'.given) = Cardinality(sink.given) + 1
        <4> DEFINE g == sink.given
        <4>1. IsFiniteSet(g) /\ r \notin g
          BY <1>10, <1>11
        <4> HIDE DEF g, r
        <4>2. IsFiniteSet(g \cup {r}) /\ Cardinality(g \cup {r}) = Cardinality(g) + 1
          BY <4>1, FS_AddElement
        <4> QED
          BY <3>2, <4>2 DEF g
      <3>4. sink'.given = {d \in (Taking \ Left) \cup {r} : OfFamily(d)}
        BY <3>2, <1>8, <1>10, <2>1
      <3> QED
        BY <3>1, <3>2, <3>3, <3>4, <1>10
    <2>2. CASE ~Accepted
      <3>1. sink' = sink /\ found = ctx.found /\ stop = FALSE
        BY <2>2, <1>2
      <3>2. sink.given = {d \in (Taking \ Left) \cup {r} : OfFamily(d)}
        BY <1>8, <1>10, <2>2
      <3>3. sink.stopped = FALSE
        BY <1>10 DEF TypeInv
      <3> QED
        BY <3>1, <3>2, <3>3, <1>10
    <2> QED
      BY <2>1, <2>2
  <1>13. /\ ctx'.found = found /\ ctx'.lastDiscrepancy = lz
         /\ ctx'.rom = r /\ ctx'.lastZero = lz
         /\ ctx'.alarm = ctx.alarm /\ ctx'.family = ctx.family
         /\ ctx'.max = ctx.max /\ ctx'.finished = ctx.finished
         /\ \/ /\ ctx'.phase = "DONE" /\ port' = BusDone(port)
               /\ r \notin Legal \/ (Accepted /\ (stop \/ found >= ctx.max)) \/ lz = 0
                  \/ ctx.prevLeaf = r
            \/ /\ ctx'.phase = "RESET" /\ port' = Arm(BusDone(port), "reset")
               /\ ctx'.prevLeaf = r
               /\ ~(Accepted /\ (stop \/ found >= ctx.max)) /\ lz # 0
    BY <1>2, WalkEndsEffect
  <1>14. Taking' = Taking /\ Wanted' = Wanted /\ \A d : OfFamily(d)' <=> OfFamily(d)
    BY <1>13 DEF Taking, Wanted, OfFamily
  <1> HIDE DEF r, ld, lz
  <1>15. CASE ctx'.phase = "DONE"
    <2>1. WalkInv' /\ LeafInv' /\ PathInv'
      BY <1>15 DEF WalkInv, LeafInv, PathInv, Writing, Walking
    <2>2. (Accepted /\ (stop \/ found >= ctx.max)) \/ lz = 0
      BY <1>7, <1>9, <1>13, <1>15
    <2>3. stop \/ found = ctx.max \/ sink'.given = Wanted
      <3>1. CASE lz = 0
        <4>1. (Taking \ Left) \cup {r} = Taking
          BY <3>1, <1>6
        <4>2. Wanted = {d \in Taking : OfFamily(d)}
          BY DEF Wanted, Taking, OfFamily
        <4> QED
          BY <4>1, <4>2, <1>12
      <3>2. CASE Accepted /\ (stop \/ found >= ctx.max)
        BY <3>2, <1>2, <1>4
      <3> QED
        BY <3>1, <3>2, <2>2
    <2>4. SinkInv'
      BY <2>3, <1>12, <1>13, <1>14, <1>15 DEF SinkInv
    <2> QED
      BY <2>1, <2>4
  <1>16. CASE ctx'.phase = "RESET"
    <2>1. /\ port' = Arm(BusDone(port), "reset") /\ ctx'.prevLeaf = r
          /\ ~(Accepted /\ stop) /\ lz # 0
      BY <1>13, <1>16
    <2>2. ~port'.uif
      BY <2>1, <1>4, BusDoneEffect, ArmEffect DEF Ops
    <2>3. WalkInv'
      BY <2>2, <1>16 DEF WalkInv, Writing
    <2>4. LeafInv'
      <3>1. Deepest(Taking, r, Bits, lz)
        BY <1>5
      <3>2. r \in Addresses
        BY <1>5
      <3>3. ctx'.prevLeaf \in Addresses
            /\ Deepest(Taking', ctx'.prevLeaf, Bits, ctx'.lastDiscrepancy)
        BY <3>1, <3>2, <2>1, <1>13, <1>14
      <3> QED
        BY <3>3, <2>1, <1>13 DEF LeafInv
    <2>5. PathInv'
      <3>1. Settled' = 0 /\ ctx'.phase \notin Walking /\ ctx'.phase \notin Writing
        BY <1>16 DEF Settled, Writing, Walking
      <3>2. ctx'.lastDiscrepancy \notin 1..Settled'
        BY <3>1
      <3> QED
        BY <3>1, <3>2, <2>1, <1>13 DEF PathInv
    <2>6. Left' = Left \ {r}
      BY <2>1, <1>6, <1>13, <1>14 DEF Left, Beyond
    <2>7. ~stop
      BY <2>1, <1>2
    <2>8. (Taking \ Left) \cup {r} = Taking \ (Left \ {r})
      BY <1>6
    <2>9. sink'.given = {d \in Taking' \ Left' : OfFamily(d)'}
      BY <2>6, <2>8, <1>12, <1>14
    <2>10. ~sink'.stopped
      BY <2>7, <1>12
    <2>11. SinkInv'
      BY <2>9, <2>10, <1>12, <1>13, <1>16 DEF SinkInv
    <2> QED
      BY <2>3, <2>4, <2>5, <2>11
  <1> QED
    BY <1>13, <1>15, <1>16

LEMMA DoneStill ==
    ASSUME TypeInv, WalkInv, LeafInv, PathInv, SinkInv, bus' = bus, PollDone
    PROVE  WalkInv' /\ LeafInv' /\ PathInv' /\ SinkInv'
  <1>1. ctx \in CtxType /\ ctx.phase = "DONE" /\ ctx' = [ctx EXCEPT !.finished = TRUE]
        /\ sink' = sink
    BY DEF PollDone, TypeInv
  <1>2. ctx'.phase = "DONE" /\ ctx'.found = ctx.found /\ ctx'.finished = TRUE
    BY <1>1 DEF CtxType
  <1>3. WalkInv' /\ LeafInv' /\ PathInv'
    BY <1>2 DEF WalkInv, LeafInv, PathInv, Writing, Walking
  <1>4. SinkInv'
    BY <1>1, <1>2 DEF SinkInv
  <1> QED
    BY <1>3, <1>4

LEMMA HardwareStill ==
    ASSUME TypeInv, EngineInv, bus.scene.still, WalkInv, LeafInv, PathInv, SinkInv, bus' = bus,
           Hardware
    PROVE  WalkInv' /\ LeafInv' /\ PathInv' /\ SinkInv'
  <1>1. PICK operation \in Ops : HwEnds(operation)
    BY DEF Hardware, HwReset, HwCommand, HwSlots, Ops
  <1>2. /\ ctx.phase # "DONE" /\ port.op = PhaseOp /\ ~port.uif /\ port'.uif
        /\ UNCHANGED <<ctx, wire, bus, sink>>
    BY <1>1, HwEngine DEF HwEnds
  <1>3. LeafInv' /\ PathInv' /\ SinkInv'
    BY <1>2, TreeSteady
  <1>4. /\ walk \in [in : SUBSET Devices, at : Nat]
        /\ line \in [seen : BOOLEAN, id : {0, 1}, cmp : {0, 1}]
    BY DEF TypeInv
  <1>5. ctx.phase \in Phases
    BY DEF TypeInv, CtxType
  <1>6. CASE HwReset
    <2>1. ctx.phase = "RESET"
      BY <1>2, <1>6 DEF HwReset, HwEnds, PhaseOp
    <2>2. walk' = [in |-> bus.present, at |-> 1]
          /\ line' = [line EXCEPT !.seen = bus.present # {}]
      BY <1>6 DEF HwReset
    <2>3. line'.seen = (bus.present # {})
      BY <2>2, <1>4
    <2>4. walk'.in = bus'.present /\ walk'.at = 1 /\ ctx'.phase = "RESET"
      BY <2>1, <2>2, <1>2
    <2>5. WalkInv'
      BY <2>3, <2>4, <1>2 DEF WalkInv, Writing
    <2> QED
      BY <2>5, <1>3
  <1>7. CASE HwCommand
    <2>1. ctx.phase = "CMD"
      BY <1>2, <1>7 DEF HwCommand, HwEnds, PhaseOp
    <2>2. walk' = [walk EXCEPT !.in = IF ctx.alarm THEN @ \cap bus.alarmed ELSE @]
      BY <1>7 DEF HwCommand
    <2>3. walk.in = bus.present /\ walk.at = 1
      BY <2>1, <1>2 DEF WalkInv
    <2>4. bus.alarmed \subseteq bus.present
      BY DEF TypeInv
    <2>5. walk'.in = Taking /\ walk'.at = 1
      BY <2>2, <2>3, <2>4, <1>4 DEF Taking
    <2>6. Taking' = Taking
      BY <1>2 DEF Taking
    <2>7. WalkInv'
      BY <2>1, <2>5, <2>6, <1>2 DEF WalkInv, Writing
    <2> QED
      BY <2>7, <1>3
  <1>8. CASE HwSlots
    <2>1. ctx.phase \in Walking
      BY <1>2, <1>5, <1>8 DEF HwSlots, HwEnds, PhaseOp, Phases, Walking, Writing
    <2>2. Taking' = Taking
      BY <1>2 DEF Taking
    <2>3. ctx.phase = "READ_PAIR" => walk' = walk /\ walk.in = Taking /\ walk.at = 1
      BY <1>8 DEF HwSlots, EngineInv, WalkInv
    <2>4. ctx.phase \in Writing =>
              walk'.in = {d \in Taking : Follows(d, ctx.rom, ctx.n)} /\ walk'.at = ctx.n + 1
      <3> SUFFICES ASSUME ctx.phase \in Writing
                   PROVE  walk'.in = {d \in Taking : Follows(d, ctx.rom, ctx.n)}
                          /\ walk'.at = ctx.n + 1
        OBVIOUS
      <3>1. ctx.n \in 1..Bits /\ wire.dir = ctx.rom[ctx.n] /\ ctx.rom \in Addresses
        BY BitsAssumption DEF EngineInv, Writing, TypeInv, CtxType
      <3>2. wire.dir # NoDir
        <4>1. ctx.rom[ctx.n] \in {0, 1}
          BY <3>1 DEF Addresses
        <4> QED
          BY <3>1, <4>1 DEF NoDir
      <3>3. walk' = [in |-> {d \in walk.in : d[walk.at] = wire.dir}, at |-> walk.at + 1]
        BY <3>2, <1>8 DEF HwSlots
      <3>4. walk.in = {d \in Taking : Follows(d, ctx.rom, ctx.n - 1)} /\ walk.at = ctx.n
        BY <3>1, <1>2 DEF WalkInv
      <3>5. \A d : Follows(d, ctx.rom, ctx.n)
                       <=> Follows(d, ctx.rom, ctx.n - 1) /\ d[ctx.n] = ctx.rom[ctx.n]
        BY <3>1, BitsAssumption DEF Follows
      <3> QED
        BY <3>1, <3>3, <3>4, <3>5
    <2>5. ctx.phase \in {"READ_PAIR", "WRITE_READ"} =>
              /\ line'.id = And({d[walk'.at] : d \in walk'.in})
              /\ line'.cmp = And({1 - d[walk'.at] : d \in walk'.in})
      <3> SUFFICES ASSUME ctx.phase \in {"READ_PAIR", "WRITE_READ"}
                   PROVE  /\ line'.id = And({d[walk'.at] : d \in walk'.in})
                          /\ line'.cmp = And({1 - d[walk'.at] : d \in walk'.in})
        OBVIOUS
      <3>1. wire.pair
        BY DEF EngineInv
      <3> DEFINE x == And({d[walk'.at] : d \in walk'.in})
                 y == And({1 - d[walk'.at] : d \in walk'.in})
      <3>2. Pairs(walk') = {<<x, y>>}
        BY DEF Pairs
      <3> HIDE DEF x, y
      <3>3. line' = [line EXCEPT !.id = x, !.cmp = y]
        BY <3>1, <3>2, <1>8 DEF HwSlots
      <3>4. line'.id = x /\ line'.cmp = y
        BY <3>3, <1>4
      <3> QED
        BY <3>4 DEF x, y
    <2>6. WalkInv'
      BY <2>1, <2>2, <2>3, <2>4, <2>5, <1>2 DEF WalkInv, Writing, Walking
    <2> QED
      BY <2>6, <1>3
  <1> QED
    BY <1>6, <1>7, <1>8 DEF Hardware

LEMMA SearchInitial == Init => SearchInv
  <1> SUFFICES ASSUME Init PROVE SearchInv
    OBVIOUS
  <1>1. TypeInv /\ EngineInv
    BY EngineInitial
  <1>2. ctx.phase = "DONE" /\ ctx.finished = TRUE /\ ctx.found = 0
        /\ sink.given = {} /\ sink.twice = FALSE
    BY DEF Init
  <1>3. WalkInv /\ LeafInv /\ PathInv
    BY <1>2 DEF WalkInv, LeafInv, PathInv, Writing, Walking
  <1>4. IsFiniteSet({}) /\ Cardinality({}) = 0
    BY FS_EmptySet
  <1>5. SinkInv
    BY <1>2, <1>4 DEF SinkInv
  <1> QED
    BY <1>1, <1>3, <1>5 DEF SearchInv, StillInv

LEMMA SearchInductive == SearchInv /\ [Next]_vars => SearchInv'
  <1> SUFFICES ASSUME SearchInv, [Next]_vars PROVE SearchInv'
    OBVIOUS
  <1>1. TypeInv /\ EngineInv
    BY DEF SearchInv
  <1>2. TypeInv' /\ EngineInv'
    BY <1>1, EngineInductive
  <1>3. StillInv'
    <2> SUFFICES ASSUME bus.scene.still, bus' = bus
                 PROVE  WalkInv' /\ LeafInv' /\ PathInv' /\ SinkInv'
      BY <1>1, BusKeeps DEF StillInv
    <2>1. WalkInv /\ LeafInv /\ PathInv /\ SinkInv
      BY DEF SearchInv, StillInv
    <2>2. CASE Request
      BY <2>2, <1>1, RequestStill
    <2>3. CASE PollReset
      BY <2>3, <2>1, <1>1, ResetStill
    <2>4. CASE PollCmd
      BY <2>4, <2>1, <1>1, CmdStill
    <2>5. CASE PollReadPair
      <3>1. ctx.n = 1 /\ Settled = 0 /\ AdvanceBit(ctx.n) /\ ctx.phase = "READ_PAIR" /\ port.uif
            /\ UNCHANGED <<line, walk, bus, sink>>
        BY <2>5, <1>1 DEF PollReadPair, PhaseDone, EngineInv, Settled, Writing
      <3>2. ctx.n \in 1..Bits /\ ctx.n = Settled + 1
        BY <3>1, BitsAssumption
      <3> QED
        BY <3>1, <3>2, <2>1, <1>1, PairStill
    <2>6. CASE PollWriteRead
      <3>1. AdvanceBit(ctx.n + 1) /\ ctx.phase = "WRITE_READ" /\ port.uif /\ Settled = ctx.n
            /\ UNCHANGED <<line, walk, bus, sink>>
        BY <2>6 DEF PollWriteRead, PhaseDone, Settled, Writing
      <3>2. ctx.n + 1 \in 1..Bits /\ ctx.n + 1 = Settled + 1
        BY <3>1, <1>1, BitsAssumption DEF EngineInv
      <3> QED
        BY <3>1, <3>2, <2>1, <1>1, PairStill
    <2>7. CASE PollWriteDir
      BY <2>7, <2>1, <1>1, DirStill
    <2>8. CASE PollDone
      BY <2>8, <2>1, <1>1, DoneStill
    <2>9. CASE Hardware
      BY <2>9, <2>1, <1>1, HardwareStill
    <2>10. CASE \E d \in Devices : Plug(d)
      BY <2>10 DEF Plug
    <2>11. CASE UNCHANGED vars
      BY <2>11, <2>1 DEF vars, WalkInv, LeafInv, PathInv, SinkInv, Settled, Taking, Left, Beyond,
                         Deepest, Accounted, Wanted, OfFamily
    <2> QED
      BY <2>2, <2>3, <2>4, <2>5, <2>6, <2>7, <2>8, <2>9, <2>10, <2>11 DEF Next, Poll
  <1> QED
    BY <1>1, <1>2, <1>3 DEF SearchInv

-----------------------------------------------------------------------------
(***************************************************************************)
(* The theorems.                                                           *)
(***************************************************************************)

\* The inductive invariant holds of every behaviour.
THEOREM SearchSafe == Spec => []SearchInv
  BY SearchInitial, SearchInductive, PTL DEF Spec

\* The bit number stays inside the ROM and no more devices are counted than asked
\* for, whatever the bus shows; on a still bus the devices that take part are those
\* whose address begins with the bits assembled, there is one, and none is given
\* to the callback twice.
THEOREM WalksReachNewLeaves == Spec => []WalkFollowsRom
  <1>1. SearchInv => WalkFollowsRom
    <2> SUFFICES ASSUME SearchInv PROVE WalkFollowsRom
      OBVIOUS
    <2>1. TypeInv /\ EngineInv /\ StillInv
      BY DEF SearchInv
    <2>2. ctx.phase \in {"READ_PAIR", "WRITE_READ", "WRITE_DIR"} => ctx.n <= Bits
      BY <2>1, BitsAssumption DEF EngineInv
    <2>3. ctx.found <= ctx.max
      BY <2>1 DEF EngineInv
    <2>4. bus.scene.still => ~sink.twice
      BY <2>1 DEF StillInv, SinkInv
    <2>5. ASSUME bus.scene.still, port.uif, ctx.phase \in {"WRITE_READ", "WRITE_DIR"}
          PROVE  /\ walk.in = {d \in IF ctx.alarm THEN bus.alarmed ELSE bus.present :
                                  \A i \in 1..ctx.n : d[i] = ctx.rom[i]}
                 /\ walk.in # {}
      <3>1. walk.in = {d \in Taking : Follows(d, ctx.rom, ctx.n)}
        BY <2>1, <2>5 DEF StillInv, WalkInv, Writing
      <3>2. \E d \in Taking : Follows(d, ctx.rom, ctx.n)
        BY <2>1, <2>5 DEF StillInv, PathInv, Writing
      <3>3. walk.in = {d \in IF ctx.alarm THEN bus.alarmed ELSE bus.present :
                          \A i \in 1..ctx.n : d[i] = ctx.rom[i]}
        BY <3>1 DEF Taking, Follows
      <3> QED
        BY <3>1, <3>2, <3>3
    <2> QED
      BY <2>2, <2>3, <2>4, <2>5 DEF WalkFollowsRom
  <1> QED
    BY <1>1, SearchSafe, PTL

\* What DeviceSearch sees of a search on a still bus.
LEMMA AbstractState ==
    ASSUME bus.scene.still
    PROVE  /\ Still(Running, FALSE) = ~ctx.finished
           /\ Still(IF sink.asked THEN Wanted ELSE {}, {}) = (IF sink.asked THEN Wanted ELSE {})
           /\ Still(ctx.max, 0) = ctx.max
           /\ Still(sink.given, {}) = sink.given
           /\ Still(sink.stopped, FALSE) = sink.stopped
  BY DEF Still, Running

\* DeviceSearch counts as this module does.
LEMMA SameCardinality == \A S : Search!Cardinality(S) = Cardinality(S)
  BY DEF Search!Cardinality, Cardinality

LEMMA LargestLimit ==
    ASSUME NEW scene \in Scenarios, NEW limit \in scene.limits
    PROVE  limit \in 0..MaxLimit
  <1> DEFINE limits == UNION {s.limits : s \in Scenarios}
  <1>1. \E most \in limits : \A n \in limits : n <= most
    BY LimitAssumption
  <1>2. MaxLimit = CHOOSE most \in limits : \A n \in limits : n <= most
    BY DEF MaxLimit
  <1> HIDE DEF limits
  <1>3. MaxLimit \in limits /\ \A n \in limits : n <= MaxLimit
    BY <1>1, <1>2
  <1>4. limit \in limits /\ limits \subseteq Nat
    BY ScenarioAssumption DEF limits
  <1> QED
    BY <1>3, <1>4

\* A step that the caller of a search does not see.
LEMMA UnseenStep ==
    ASSUME bus' = bus, sink' = sink, ctx'.finished = ctx.finished, ctx'.alarm = ctx.alarm,
           ctx'.family = ctx.family, ctx'.max = ctx.max
    PROVE  UNCHANGED Search!vars
  BY DEF Search!vars, Still, Running, Wanted

\* Each step of a search on a still bus is one that DeviceSearch allows, or none.
LEMMA SearchSteps ==
    ASSUME SearchInv, SearchInv', [Next]_vars PROVE [Search!Next]_(Search!vars)
  <1>1. TypeInv /\ EngineInv
    BY DEF SearchInv
  <1>2. bus'.scene = bus.scene /\ (bus.scene.still => bus' = bus)
    BY <1>1, BusKeeps
  <1>3. CASE ~bus.scene.still
    BY <1>2, <1>3 DEF Search!vars, Still
  <1>4. CASE bus.scene.still
    <2> USE <1>4
    <2>1. bus' = bus /\ bus'.scene.still
      BY <1>2
    <2>2. WalkInv /\ LeafInv /\ PathInv /\ SinkInv
      BY DEF SearchInv, StillInv
    <2>3. ctx \in CtxType
      BY <1>1 DEF TypeInv
    <2>4. CASE Request
      <3>1. PICK alarm \in BOOLEAN, family \in bus.scene.families, max \in bus.scene.limits :
                SearchStart(alarm, family, max)
        BY <2>4 DEF Request
      <3>2. ctx.finished /\ ctx' = Fresh(alarm, family, max)
            /\ sink' = [asked |-> TRUE, given |-> {}, twice |-> FALSE, stopped |-> FALSE]
        BY <3>1 DEF SearchStart
      <3>3. ctx'.finished = FALSE /\ ctx'.max = max
        BY <3>2 DEF Fresh
      <3>4. max \in 0..MaxLimit
        BY <1>1, LargestLimit DEF TypeInv
      <3>5. Wanted' \in SUBSET Devices
        BY <1>1, <2>1 DEF Wanted, TypeInv
      <3>6. Search!Start
        BY <2>1, <3>2, <3>3, <3>4, <3>5 DEF Search!Start, Still, Running
      <3> QED
        BY <3>6 DEF Search!Next
    <2>5. CASE PollReset \/ PollCmd
      <3>1. /\ ctx'.finished = ctx.finished /\ ctx'.alarm = ctx.alarm
            /\ ctx'.family = ctx.family /\ ctx'.max = ctx.max /\ sink' = sink
        BY <2>3, <2>5 DEF PollReset, PollCmd, CtxType
      <3> QED
        BY <3>1, <2>1, UnseenStep
    <2>6. ASSUME NEW n \in 1..Bits, AdvanceBit(n), sink' = sink
          PROVE  UNCHANGED Search!vars
      <3>1. CASE line.id = 1 /\ line.cmp = 1
        <4>1. ctx' = [ctx EXCEPT !.n = n, !.phase = "DONE"]
          BY <1>1, <2>6, <3>1, AdvanceStops
        <4>2. /\ ctx'.finished = ctx.finished /\ ctx'.alarm = ctx.alarm
              /\ ctx'.family = ctx.family /\ ctx'.max = ctx.max
          BY <4>1, <2>3 DEF CtxType
        <4> QED
          BY <4>2, <2>1, <2>6, UnseenStep
      <3>2. CASE ~(line.id = 1 /\ line.cmp = 1)
        <4>1. /\ ctx'.finished = ctx.finished /\ ctx'.alarm = ctx.alarm
              /\ ctx'.family = ctx.family /\ ctx'.max = ctx.max
          BY <1>1, <2>6, <3>2, AdvanceEffect
        <4> QED
          BY <4>1, <2>1, <2>6, UnseenStep
      <3> QED
        BY <3>1, <3>2
    <2>7. CASE PollReadPair
      <3>1. AdvanceBit(ctx.n) /\ sink' = sink /\ ctx.n = 1
        BY <2>7, <1>1 DEF PollReadPair, PhaseDone, EngineInv
      <3>2. ctx.n \in 1..Bits
        BY <3>1, BitsAssumption
      <3> QED
        BY <3>1, <3>2, <2>6
    <2>8. CASE PollWriteRead
      <3>1. AdvanceBit(ctx.n + 1) /\ sink' = sink /\ ctx.phase = "WRITE_READ"
        BY <2>8 DEF PollWriteRead, PhaseDone
      <3>2. ctx.n + 1 \in 1..Bits
        BY <3>1, <1>1, BitsAssumption DEF EngineInv
      <3> QED
        BY <3>1, <3>2, <2>6
    <2>9. CASE PollWriteDir
      <3>1. PICK found \in Nat : \E stop \in BOOLEAN :
                   /\ WalkEnds(found, stop)
                   /\ found <= ctx.max
                   /\ Accepted => found = ctx.found + 1 /\ sink' = Given(ctx.rom, stop)
                   /\ ~Accepted => found = ctx.found /\ stop = FALSE /\ sink' = sink
        BY <1>1, <2>9, WriteDirEffect
      <3>2. PICK stop \in BOOLEAN :
                   /\ WalkEnds(found, stop)
                   /\ found <= ctx.max
                   /\ Accepted => found = ctx.found + 1 /\ sink' = Given(ctx.rom, stop)
                   /\ ~Accepted => found = ctx.found /\ stop = FALSE /\ sink' = sink
        BY <3>1
      <3>3. /\ ctx'.finished = ctx.finished /\ ctx'.alarm = ctx.alarm
            /\ ctx'.family = ctx.family /\ ctx'.max = ctx.max
        BY <1>1, <3>2, WalkEndsEffect
      <3>4. CASE ~Accepted
        BY <3>2, <3>3, <3>4, <2>1, UnseenStep
      <3>5. CASE Accepted
        <4>1. ctx.phase = "WRITE_DIR" /\ ~ctx.finished /\ sink.asked /\ ctx.found < ctx.max
          BY <2>9, <1>1 DEF PollWriteDir, PhaseDone, EngineInv
        <4>2. ctx.rom \in Taking /\ ctx.rom \in Left /\ ctx.rom \in Legal
          BY <4>1, <1>1, <2>2, LeafMet
        <4>3. ctx.rom \in Wanted
          BY <4>2, <3>5 DEF Wanted, Taking, Accepted
        <4>4. ~sink.stopped /\ ctx.rom \notin sink.given /\ Cardinality(sink.given) = ctx.found
          BY <4>1, <4>2, <2>2 DEF SinkInv
        <4>5. sink'.given = sink.given \cup {ctx.rom} /\ sink'.stopped = stop
              /\ sink'.asked = sink.asked
          BY <1>1, <3>2, <3>5, <4>2, GivenEffect
        <4>6. Wanted' = Wanted
          BY <2>1, <3>3 DEF Wanted
        <4>7. /\ Still(Running, FALSE) = TRUE /\ Still(Running, FALSE)' = TRUE
              /\ Still(IF sink.asked THEN Wanted ELSE {}, {}) = Wanted
              /\ Still(IF sink.asked THEN Wanted ELSE {}, {})' = Wanted
              /\ Still(ctx.max, 0) = ctx.max /\ Still(ctx.max, 0)' = ctx.max
              /\ Still(sink.given, {}) = sink.given
              /\ Still(sink.given, {})' = sink.given \cup {ctx.rom}
              /\ Still(sink.stopped, FALSE) = sink.stopped /\ Still(sink.stopped, FALSE)' = stop
          BY <2>1, <3>3, <4>1, <4>5, <4>6 DEF Still, Running
        <4> DEFINE run    == Still(Running, FALSE)
                   want   == Still(IF sink.asked THEN Wanted ELSE {}, {})
                   most   == Still(ctx.max, 0)
                   told   == Still(sink.given, {})
                   enough == Still(sink.stopped, FALSE)
        <4>9. run /\ ~enough
          BY <4>4, <4>7
        <4>10. Cardinality(told) < most
          BY <4>1, <4>4, <4>7
        <4>11. \E d \in want \ told : told' = told \cup {d}
          BY <4>3, <4>4, <4>7
        <4>12. enough' \in BOOLEAN
          BY <4>7
        <4>13. run' = run /\ want' = want /\ most' = most
          BY <4>7
        <4>8. Search!Report
          BY <4>9, <4>10, <4>11, <4>12, <4>13, SameCardinality DEF Search!Report
        <4> QED
          BY <4>8 DEF Search!Next
      <3> QED
        BY <3>4, <3>5
    <2>10. CASE PollDone
      <3>1. ctx.phase = "DONE" /\ ~ctx.finished /\ ctx' = [ctx EXCEPT !.finished = TRUE]
            /\ sink' = sink
        BY <2>10 DEF PollDone
      <3>2. /\ ctx'.finished = TRUE /\ ctx'.alarm = ctx.alarm
            /\ ctx'.family = ctx.family /\ ctx'.max = ctx.max
        BY <3>1, <2>3 DEF CtxType
      <3>3. sink.asked
        BY <3>1, <1>1 DEF EngineInv
      <3>4. sink.stopped \/ Cardinality(sink.given) = ctx.max \/ sink.given = Wanted
        BY <3>1, <2>2 DEF SinkInv
      <3>5. Wanted' = Wanted
        BY <2>1, <3>2 DEF Wanted
      <3>6. Search!Finish
        <4> DEFINE run    == Still(Running, FALSE)
                   want   == Still(IF sink.asked THEN Wanted ELSE {}, {})
                   most   == Still(ctx.max, 0)
                   told   == Still(sink.given, {})
                   enough == Still(sink.stopped, FALSE)
        <4>1. run /\ ~run'
          BY <2>1, <3>1, <3>2 DEF Still, Running
        <4>2. want = Wanted /\ want' = want
          BY <2>1, <3>1, <3>3, <3>5 DEF Still
        <4>3. most = ctx.max /\ most' = most
          BY <2>1, <3>2 DEF Still
        <4>4. told = sink.given /\ told' = told
          BY <2>1, <3>1 DEF Still
        <4>5. enough = sink.stopped /\ enough' = enough
          BY <2>1, <3>1 DEF Still
        <4>6. enough \/ Cardinality(told) = most \/ told = want
          <5>1. CASE sink.stopped
            BY <5>1, <4>5, Zenon
          <5>2. CASE Cardinality(sink.given) = ctx.max \/ sink.given = Wanted
            BY <5>2, <4>2, <4>3, <4>4
          <5> QED
            BY <5>1, <5>2, <3>4
        <4>7. run' = FALSE
          BY <2>1, <3>2 DEF Still, Running
        <4> QED
          BY <4>1, <4>2, <4>3, <4>4, <4>5, <4>6, <4>7, SameCardinality DEF Search!Finish
      <3> QED
        BY <3>6 DEF Search!Next
    <2>11. CASE Hardware
      <3>1. ctx' = ctx /\ sink' = sink
        BY <2>11 DEF Hardware, HwReset, HwCommand, HwSlots, HwEnds
      <3> QED
        BY <3>1, <2>1, UnseenStep
    <2>12. CASE \E d \in Devices : Plug(d)
      BY <2>12 DEF Plug
    <2>13. CASE UNCHANGED vars
      BY <2>13, UnseenStep DEF vars
    <2> QED
      BY <2>4, <2>5, <2>7, <2>8, <2>9, <2>10, <2>11, <2>12, <2>13 DEF Next, Poll
  <1> QED
    BY <1>3, <1>4

\* The bit-by-bit walk implements DeviceSearch, whatever the length of an address
\* and the devices on the bus: a search on a still bus reports only devices
\* wanted, none twice, no more than the limit, and stops only when it has reported
\* them all, reached the limit or been told to.  That it does stop is left to TLC.
THEOREM SearchRefines == Spec => Search!Init /\ [][Search!Next]_(Search!vars)
  <1>1. Init => Search!Init
    <2> SUFFICES ASSUME Init PROVE Search!Init
      OBVIOUS
    <2>1. ctx.finished = TRUE /\ ctx.max = 0 /\ sink.asked = FALSE /\ sink.given = {}
          /\ sink.stopped = FALSE
      BY DEF Init
    <2> QED
      BY <2>1 DEF Search!Init, Still, Running
  <1>2. SearchInv /\ SearchInv' /\ [Next]_vars => [Search!Next]_(Search!vars)
    BY SearchSteps
  <1> QED
    BY <1>1, <1>2, SearchSafe, PTL DEF Spec

=============================================================================
