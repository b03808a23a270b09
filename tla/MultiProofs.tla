----------------------------- MODULE MultiProofs ----------------------------
(***************************************************************************)
(* Theorems about the temperature recorder, for any number of sensors, any *)
(* temperatures and device tables, either supply and any number of power   *)
(* failures.                                                               *)
(***************************************************************************)
EXTENDS MultiProps, FiniteSetTheorems, SequenceTheorems, TLAPS

States == EepromStates \cup {"SEARCH_DS18", "SEARCH_ALL", "WAIT", "MEASURE_START",
                             "MEASURE_WAIT", "STOP"}

Devices   == 1..Sensors
Positions == 1..MaxDevices
Readings  == [Positions -> Nat \cup {Failed}]
Roms      == Devices \cup {NoRom}

Records == {r \in [valid : BOOLEAN, temp : Nat, sensor : Devices] : r.valid \/ r = Invalid}

Jobs == [isRom : BOOLEAN, slot : Slots, temp : Nat, sensor : Devices]

AppType ==
    [state : States, found : Seq(Devices), have : BOOLEAN, boot : Seq(BOOLEAN), seq : BOOLEAN,
     cur : 1..(MaxDevices + 1), reported : Nat, drain : BOOLEAN, temps : Readings,
     jobs : Seq(Jobs), fails : Nat, off : BOOLEAN]

DriverType == [par : BOOLEAN, scan : BOOLEAN, running : BOOLEAN, index : Positions]
SlotsType == [Slots -> [rec : Records, rom : Roms]]
LogType == [restarts : Nat, blind : [Slots -> BOOLEAN], blindRom : [Slots -> BOOLEAN],
            cut : BOOLEAN]

TypeInv ==
    /\ app \in AppType
    /\ Count(app) \in 0..MaxDevices
    /\ slots \in SlotsType
    /\ eeprom \in [rec : [Slots -> Records], rom : [Slots -> Roms]]
    /\ ds18 \in DriverType
    /\ log \in LogType

(***************************************************************************)
(* The measurement round.  A scan round that is not yet drained reports    *)
(* the devices in their order, and what is not reported has no reading; or *)
(* it was cut short, has started again, and the last position it reported  *)
(* before, or a later one, has none: such a round never ends all good.  A  *)
(* driver that runs into the next round is at its beginning, but for the   *)
(* sequential path, whose cursor it is never behind.  Before it, the boot. *)
(***************************************************************************)
NoReading(from) == \A i \in 1..Count(app) : i >= from => app.temps[i] = Failed

RoundSoFar ==
    \/ ds18.running /\ ds18.index = app.reported + 1 /\ NoReading(app.reported + 1)
    \/ /\ app.reported >= 1 /\ NoReading(app.reported)
       /\ ds18.running => ds18.index <= app.reported

RoundInv ==
    /\ app.state \in Writing \cup {"WAIT", "MEASURE_START", "MEASURE_WAIT"} => Count(app) > 0
    /\ ds18.running => /\ app.state \in {"WAIT", "MEASURE_START", "MEASURE_WAIT"}
                       /\ ds18.index <= Count(app)
    /\ app.state \in {"WAIT", "MEASURE_START"} /\ ds18.running =>
          ds18.scan /\ (~app.seq => ds18.index = 1)
    /\ app.state = "MEASURE_WAIT" /\ app.seq =>
          app.cur <= Count(app) /\ ds18.running /\ (ds18.scan => app.cur <= ds18.index)
    /\ Scanning => ds18.scan /\ (~app.drain => app.reported < Count(app) /\ RoundSoFar)
    /\ IF app.state = "BOOT_READ" THEN Len(app.boot) < 4 ELSE app.boot = <<>>
    /\ app.state \in {"SEARCH_DS18", "SEARCH_ALL"} => ~app.have

(***************************************************************************)
(* The jobs of a session: at most a ROM and a record for each slot, in     *)
(* that order and for one sensor; a record that is still to be written is  *)
(* beyond the one in RAM, and is or will be next to the ROM of its sensor. *)
(***************************************************************************)
JobsInOrder(jobs) ==
    /\ Len(jobs) <= 4
    /\ \A i, k \in 1..Len(jobs) :
          i < k /\ jobs[i].slot = jobs[k].slot =>
              jobs[i].isRom /\ ~jobs[k].isRom /\ jobs[i].sensor = jobs[k].sensor

JobsFit(jobs, all) ==
    \A k \in 1..Len(jobs) :
        ~jobs[k].isRom =>
            /\ \/ ~all[jobs[k].slot].rec.valid
               \/ Outward(jobs[k].slot, jobs[k].temp, all[jobs[k].slot].rec.temp)
            /\ \/ all[jobs[k].slot].rom = jobs[k].sensor
               \/ \E i \in 1..(k - 1) : jobs[i].isRom /\ jobs[i].slot = jobs[k].slot

SessionInv ==
    /\ app.state \in Writing => app.jobs # <<>> /\ app.have /\ ~app.off
    /\ app.state \notin Writing => app.jobs = <<>>
    /\ app.fails <= FailLimit /\ (~app.off => app.fails < FailLimit)
    /\ JobsInOrder(app.jobs)
    /\ JobsFit(app.jobs, slots)

(***************************************************************************)
(* What RAM knows of the EEPROM: after boot, in a session that persists,   *)
(* and but for the block that was just programmed and is not yet read      *)
(* back, a block holds what RAM says or was torn.                          *)
(***************************************************************************)
Booted     == app.state \notin {"SEARCH_DS18", "SEARCH_ALL", "BOOT_READ"}
Persisting == Booted /\ app.have /\ ~app.off
Unread(s, isRom) ==
    app.state = "WRITE_READBACK" /\ app.jobs[1].slot = s /\ app.jobs[1].isRom = isRom

RecStored(s) ==
    ~log.blind[s] =>
        \/ eeprom.rec[s] = slots[s].rec
        \/ ~eeprom.rec[s].valid
        \/ Unread(s, FALSE) /\ eeprom.rec[s] = Record(app.jobs[1].temp, app.jobs[1].sensor)

RomStored(s) ==
    ~log.blindRom[s] /\ slots[s].rom # NoRom /\ ~Unread(s, TRUE) =>
        eeprom.rom[s] = slots[s].rom

StoredInv ==
    /\ ~Booted => slots = NoSlots
    /\ Persisting => \A s \in Slots : RecStored(s) /\ RomStored(s)

MultiInv == TypeInv /\ RoundInv /\ SessionInv /\ StoredInv

(***************************************************************************)
(* What the readings, the jobs and the records were filed under: as long   *)
(* as no round on a parasite bus was cut short, the device that the driver *)
(* asks is the one the result is stored for.  A scan round reports every   *)
(* position once, a deadline passes only with the driver parked, and a     *)
(* round that restarts itself restarts after its last report.              *)
(***************************************************************************)
AlignedInv ==
    /\ app.state \in {"WAIT", "MEASURE_START"} /\ ds18.running => ds18.index = 1
    /\ Scanning /\ ds18.running => ~app.drain /\ ds18.index = app.reported + 1
    /\ Scanning /\ ~ds18.running /\ app.reported < Count(app) => ~ds18.par
    /\ app.state = "MEASURE_WAIT" /\ app.seq /\ ds18.scan => ds18.index = app.cur

JobsMeasured(jobs) == \A k \in 1..Len(jobs) : jobs[k].temp \in TempsOf[jobs[k].sensor]

TempsMeasured(a) ==
    \A i \in 1..Count(a) : a.temps[i] # Failed => a.temps[i] \in TempsOf[a.found[i]]

MeasuredInv ==
    /\ app.state = "MEASURE_WAIT" => TempsMeasured(app)
    /\ JobsMeasured(app.jobs)
    /\ SensorOfRecord

FiledInv ==
    /\ log.cut => ds18.par
    /\ ~log.cut => AlignedInv /\ MeasuredInv
-----------------------------------------------------------------------------
(***************************************************************************)
(* The extremes of a round.                                                *)
(***************************************************************************)
\* A strict order on a finite set has a maximal element: the one with the
\* fewest above it.
LEMMA MaximalElement ==
    ASSUME NEW S, IsFiniteSet(S), S # {}, NEW R,
           \A x \in S : <<x, x>> \notin R,
           \A x, y, z \in S : <<x, y>> \in R /\ <<y, z>> \in R => <<x, z>> \in R
    PROVE  \E x \in S : \A y \in S : <<y, x>> \notin R
  <1> DEFINE Above(x) == {y \in S : <<y, x>> \in R}
             Uppers   == {Above(x) : x \in S}
  <1>1. Uppers \subseteq FiniteSubsetsOf(S) /\ Uppers # {}
    <2>1. ASSUME NEW x \in S PROVE Above(x) \in FiniteSubsetsOf(S)
      <3>1. Above(x) \in SUBSET S OBVIOUS
      <3>2. IsFiniteSet(Above(x)) BY <3>1, FS_Subset, Zenon
      <3> QED BY <3>1, <3>2 DEF FiniteSubsetsOf
    <2>2. Uppers \subseteq FiniteSubsetsOf(S) BY <2>1
    <2>3. Uppers # {}
      <3>1. PICK x : x \in S OBVIOUS
      <3>2. Above(x) \in Uppers BY <3>1
      <3> QED BY <3>2
    <2> QED BY <2>2, <2>3
  <1>2. IsWellFoundedOn(StrictSubsetOrdering(S), FiniteSubsetsOf(S))
    BY FS_StrictSubsetOrderingWellFounded
  <1>3. \E U \in Uppers : \A V \in Uppers : <<V, U>> \notin StrictSubsetOrdering(S)
    <2> HIDE DEF Uppers
    <2> QED BY <1>1, <1>2, WFMin
  <1>4. PICK x \in S : \A V \in Uppers : <<V, Above(x)>> \notin StrictSubsetOrdering(S)
    BY <1>3
  <1>5. ASSUME NEW y \in S, <<y, x>> \in R PROVE FALSE
    <2>1. Above(y) \subseteq Above(x) /\ Above(y) # Above(x) BY <1>5
    <2>2. <<Above(y), Above(x)>> \in StrictSubsetOrdering(S)
      BY <2>1 DEF StrictSubsetOrdering
    <2> QED BY <2>2, <1>4
  <1> QED BY <1>5

\* CHOOSE finds what the loop of evaluate() finds, if a sensor answered.
LEMMA Extremes ==
    ASSUME NEW a, Count(a) \in 0..MaxDevices, a.temps \in Readings, Good(a) # {}
    PROVE  Highest(a) \in Good(a) /\ Lowest(a) \in Good(a)
  <1> DEFINE G == Good(a)
             Hotter == {p \in G \X G : \/ a.temps[p[1]] > a.temps[p[2]]
                                       \/ a.temps[p[1]] = a.temps[p[2]] /\ p[1] < p[2]}
             Colder == {p \in G \X G : \/ a.temps[p[1]] < a.temps[p[2]]
                                       \/ a.temps[p[1]] = a.temps[p[2]] /\ p[1] < p[2]}
  <1>1. G \subseteq 1..Count(a) /\ IsFiniteSet(1..Count(a)) /\ G \subseteq Nat
    <2>1. Count(a) \in Int /\ 1 \in Int BY RoundsAssumption
    <2>2. IsFiniteSet(1..Count(a)) BY <2>1, FS_Interval
    <2> QED BY <2>1, <2>2 DEF Good
  <1>2. IsFiniteSet(G) /\ G # {} BY <1>1, FS_Subset
  <1>3. \A i \in G : a.temps[i] \in Int
    BY <1>1, RoundsAssumption DEF Good, Readings, Positions, Failed
  <1>4. PICK hi \in G : \A k \in G : <<k, hi>> \notin Hotter
    <2>1. \A x \in G : <<x, x>> \notin Hotter BY <1>1, <1>3
    <2>2. \A x, y, z \in G : <<x, y>> \in Hotter /\ <<y, z>> \in Hotter => <<x, z>> \in Hotter
      BY <1>1, <1>3
    <2> HIDE DEF G, Hotter
    <2> QED BY <2>1, <2>2, <1>2, MaximalElement
  <1>5. PICK lo \in G : \A k \in G : <<k, lo>> \notin Colder
    <2>1. \A x \in G : <<x, x>> \notin Colder BY <1>1, <1>3
    <2>2. \A x, y, z \in G : <<x, y>> \in Colder /\ <<y, z>> \in Colder => <<x, z>> \in Colder
      BY <1>1, <1>3
    <2> HIDE DEF G, Colder
    <2> QED BY <2>1, <2>2, <1>2, MaximalElement
  <1>6. \A k \in G : a.temps[k] < a.temps[hi] \/ (a.temps[k] = a.temps[hi] /\ hi <= k)
    <2>1. TAKE k \in G
    <2>2. <<k, hi>> \notin Hotter BY <1>4
    <2>3. a.temps[k] \in Int /\ a.temps[hi] \in Int /\ k \in Int /\ hi \in Int BY <1>1, <1>3
    <2> QED BY <2>2, <2>3
  <1>7. \A k \in G : a.temps[k] > a.temps[lo] \/ (a.temps[k] = a.temps[lo] /\ lo <= k)
    <2>1. TAKE k \in G
    <2>2. <<k, lo>> \notin Colder BY <1>5
    <2>3. a.temps[k] \in Int /\ a.temps[lo] \in Int /\ k \in Int /\ lo \in Int BY <1>1, <1>3
    <2> QED BY <2>2, <2>3
  <1> QED BY <1>6, <1>7 DEF Highest, Lowest

-----------------------------------------------------------------------------
(***************************************************************************)
(* The jobs of a round.                                                    *)
(***************************************************************************)
\* The jobs of one slot: none, the record, or the ROM and the record.
SlotJobs(q, s) ==
    /\ q \in Seq(Jobs) /\ Len(q) <= 2
    /\ \A k \in 1..Len(q) : q[k].slot = s
    /\ JobsInOrder(q) /\ JobsFit(q, slots)

LEMMA NoJobs == \A s : SlotJobs(<<>>, s)
  BY DEF SlotJobs, JobsInOrder, JobsFit

LEMMA QueuedJobs ==
    ASSUME slots \in SlotsType, NEW s \in Slots, NEW sensor \in Devices, NEW temp \in Nat,
           IsNew(s, temp)
    PROVE  SlotJobs(Queued(s, temp, sensor), s)
  <1>2. \A isRom \in BOOLEAN : Job(isRom, s, temp, sensor) \in Jobs BY DEF Job, Jobs
  <1>3. ~slots[s].rec.valid \/ Outward(s, temp, slots[s].rec.temp)
    BY DEF IsNew, Beyond, Outward, Slots
  <1> DEFINE q   == Queued(s, temp, sensor)
             rom == Job(TRUE, s, temp, sensor)
             rec == Job(FALSE, s, temp, sensor)
  <1>4. /\ rom.isRom = TRUE /\ rom.slot = s /\ rom.sensor = sensor
        /\ rec.isRom = FALSE /\ rec.slot = s /\ rec.sensor = sensor /\ rec.temp = temp
    BY DEF Job
  <1>5. CASE slots[s].rom # sensor
    <2>1. q = <<rom>> \o <<rec>> BY <1>5 DEF Queued
    <2>2. q \in Seq(Jobs) /\ Len(q) = 2 /\ q[1] = rom /\ q[2] = rec
      <3>1. rom \in Jobs /\ rec \in Jobs BY <1>2
      <3> HIDE DEF rom, rec
      <3>2. <<rom>> \in Seq(Jobs) /\ <<rec>> \in Seq(Jobs) /\ Len(<<rom>>) = 1 /\ Len(<<rec>>) = 1
        BY <3>1
      <3> QED BY <2>1, <3>2, ConcatProperties
    <2> HIDE DEF q, rom, rec
    <2>3. \A k \in 1..Len(q) : k \in {1, 2} BY <2>2
    <2>4. JobsInOrder(q) BY <2>2, <2>3, <1>4 DEF JobsInOrder
    <2>5. JobsFit(q, slots)
      <3>1. ASSUME NEW k \in 1..Len(q), ~q[k].isRom
            PROVE  k = 2 /\ 1 \in 1..(k - 1) /\ q[1].isRom /\ q[1].slot = q[k].slot /\ q[k] = rec
        BY <3>1, <2>2, <2>3, <1>4
      <3> QED BY <3>1, <1>3, <1>4 DEF JobsFit
    <2> QED BY <2>2, <2>3, <2>4, <2>5, <1>4 DEF SlotJobs, q
  <1>6. CASE slots[s].rom = sensor
    <2>1. q = <<>> \o <<rec>> BY <1>6 DEF Queued
    <2>2. q \in Seq(Jobs) /\ Len(q) = 1 /\ q[1] = rec
      <3>1. rec \in Jobs BY <1>2
      <3> HIDE DEF rec
      <3>2. <<>> \in Seq(Jobs) /\ <<rec>> \in Seq(Jobs) /\ Len(<<>>) = 0 /\ Len(<<rec>>) = 1
        BY <3>1
      <3> QED BY <2>1, <3>2, ConcatProperties
    <2> HIDE DEF q, rom, rec
    <2>3. \A k \in 1..Len(q) : k = 1 BY <2>2
    <2>4. JobsInOrder(q) BY <2>2, <2>3, <1>4 DEF JobsInOrder
    <2>5. JobsFit(q, slots) BY <2>2, <2>3, <1>3, <1>4, <1>6 DEF JobsFit
    <2> QED BY <2>2, <2>3, <2>4, <2>5, <1>4 DEF SlotJobs, q
  <1> QED BY <1>5, <1>6

LEMMA JoinedJobs ==
    ASSUME NEW p, NEW q, SlotJobs(p, "peak"), SlotJobs(q, "low")
    PROVE  p \o q \in Seq(Jobs) /\ JobsInOrder(p \o q) /\ JobsFit(p \o q, slots)
  <1> DEFINE j == p \o q
  <1>1. p \in Seq(Jobs) /\ q \in Seq(Jobs) BY DEF SlotJobs
  <1>2. j \in Seq(Jobs) /\ Len(j) = Len(p) + Len(q) BY <1>1, ConcatProperties
  <1>3. /\ Len(p) \in Nat /\ Len(q) \in Nat
        /\ \A k \in 1..Len(p) : j[k] = p[k] /\ j[k].slot = "peak"
        /\ \A k \in (Len(p) + 1)..Len(j) :
              j[k] = q[k - Len(p)] /\ k - Len(p) \in 1..Len(q) /\ j[k].slot = "low"
    BY <1>1, <1>2, ConcatProperties, LenProperties DEF SlotJobs
  <1>4. JobsInOrder(p) /\ JobsInOrder(q) /\ JobsFit(p, slots) /\ JobsFit(q, slots)
        /\ Len(p) <= 2 /\ Len(q) <= 2
    BY DEF SlotJobs
  <1> HIDE DEF j
  <1>5. JobsInOrder(j)
    <2>1. Len(j) <= 4 BY <1>2, <1>3, <1>4
    <2>2. ASSUME NEW i \in 1..Len(j), NEW k \in 1..Len(j), i < k, j[i].slot = j[k].slot
          PROVE  j[i].isRom /\ ~j[k].isRom /\ j[i].sensor = j[k].sensor
      <3>1. CASE i <= Len(p)
        <4>1. k <= Len(p) BY <1>2, <1>3, <2>2, <3>1
        <4> QED BY <4>1, <1>3, <1>4, <2>2, <3>1 DEF JobsInOrder
      <3>2. CASE i > Len(p)
        <4> DEFINE x == i - Len(p)
                   y == k - Len(p)
        <4>1. x \in 1..Len(q) /\ y \in 1..Len(q) /\ j[i] = q[x] /\ j[k] = q[y] /\ x < y
          BY <1>2, <1>3, <2>2, <3>2
        <4>2. q[x].slot = q[y].slot BY <4>1, <2>2
        <4> HIDE DEF x, y
        <4>3. q[x].isRom /\ ~q[y].isRom /\ q[x].sensor = q[y].sensor
          BY <4>1, <4>2, <1>4 DEF JobsInOrder
        <4> QED BY <4>1, <4>3
      <3> QED BY <3>1, <3>2, <1>3, <1>2
    <2> QED BY <2>1, <2>2 DEF JobsInOrder
  <1>6. JobsFit(j, slots)
    <2> SUFFICES ASSUME NEW k \in 1..Len(j), ~j[k].isRom
                 PROVE  /\ \/ ~slots[j[k].slot].rec.valid
                           \/ Outward(j[k].slot, j[k].temp, slots[j[k].slot].rec.temp)
                        /\ \/ slots[j[k].slot].rom = j[k].sensor
                           \/ \E i \in 1..(k - 1) : j[i].isRom /\ j[i].slot = j[k].slot
      BY DEF JobsFit
    <2>1. CASE k <= Len(p)
      <3>1. k \in 1..Len(p) /\ j[k] = p[k] BY <2>1, <1>3
      <3>2. \A i \in 1..(k - 1) : j[i] = p[i] BY <2>1, <1>3
      <3> QED BY <3>1, <3>2, <1>4 DEF JobsFit
    <2>2. CASE k > Len(p)
      <3> DEFINE l == k - Len(p)
      <3>1. l \in 1..Len(q) /\ j[k] = q[l] BY <2>2, <1>2, <1>3
      <3>2. \A i \in 1..(l - 1) : i + Len(p) \in 1..(k - 1) /\ j[i + Len(p)] = q[i]
        <4>1. TAKE i \in 1..(l - 1)
        <4>2. i + Len(p) \in (Len(p) + 1)..Len(j) /\ i + Len(p) \in 1..(k - 1)
              /\ (i + Len(p)) - Len(p) = i
          BY <1>2, <1>3, <2>2
        <4> QED BY <4>2, <1>3
      <3> HIDE DEF l
      <3> QED BY <3>1, <3>2, <1>4 DEF JobsFit
    <2> QED BY <2>1, <2>2, <1>2, <1>3
  <1> QED BY <1>2, <1>5, <1>6 DEF j

LEMMA JobsOfRound ==
    ASSUME NEW a, a.found \in Seq(Devices), Count(a) \in 0..MaxDevices, a.temps \in Readings,
           slots \in SlotsType
    PROVE  JobsOf(a) \in Seq(Jobs) /\ JobsInOrder(JobsOf(a)) /\ JobsFit(JobsOf(a), slots)
  <1>1. CASE Good(a) = {}
    <2>1. JobsOf(a) = <<>> BY <1>1 DEF JobsOf
    <2> QED BY <2>1 DEF JobsInOrder, JobsFit
  <1>2. CASE Good(a) # {}
    <2> DEFINE hi == Highest(a)
               lo == Lowest(a)
               p == IF IsNew("peak", a.temps[hi]) THEN Queued("peak", a.temps[hi], a.found[hi]) ELSE <<>>
               q == IF IsNew("low", a.temps[lo]) THEN Queued("low", a.temps[lo], a.found[lo]) ELSE <<>>
    <2>1. hi \in Good(a) /\ lo \in Good(a) BY <1>2, Extremes
    <2>2. \A i \in Good(a) : a.found[i] \in Devices /\ a.temps[i] \in Nat
      BY ElementOfSeq, RoundsAssumption DEF Good, Readings, Positions, Count
    <2>3. SlotJobs(p, "peak")
      <3> HIDE DEF hi
      <3> QED BY <2>1, <2>2, QueuedJobs, NoJobs DEF Slots
    <2>4. SlotJobs(q, "low")
      <3> HIDE DEF lo
      <3> QED BY <2>1, <2>2, QueuedJobs, NoJobs DEF Slots
    <2>5. JobsOf(a) = p \o q BY <1>2 DEF JobsOf
    <2> HIDE DEF p, q
    <2> QED BY <2>3, <2>4, <2>5, JoinedJobs
  <1> QED BY <1>1, <1>2

\* After a job is done the remaining ones fit the records as they are then.
LEMMA RemainingJobs ==
    ASSUME NEW jobs \in Seq(Jobs), jobs # <<>>, JobsInOrder(jobs),
           slots \in SlotsType, JobsFit(jobs, slots)
    PROVE  /\ jobs[1] \in Jobs /\ Tail(jobs) \in Seq(Jobs) /\ JobsInOrder(Tail(jobs))
           /\ JobsFit(Tail(jobs), Commit(slots, jobs[1]))
  <1> DEFINE t == Tail(jobs)
             new == Commit(slots, jobs[1])
  <1>1. /\ Len(jobs) \in Nat \ {0} /\ t \in Seq(Jobs) /\ Len(t) = Len(jobs) - 1
        /\ \A k \in 1..Len(t) : t[k] = jobs[k + 1]
        /\ \A k \in 1..Len(jobs) : jobs[k] \in Jobs
    BY EmptySeq, HeadTailProperties, ElementOfSeq, LenProperties
  <1>2. jobs[1] \in Jobs BY <1>1
  <1>3. \A k \in 1..Len(t) : k + 1 \in 1..Len(jobs) BY <1>1
  <1> HIDE DEF t
  <1>4. JobsInOrder(t)
    <2>1. ASSUME NEW i \in 1..Len(t), NEW k \in 1..Len(t), i < k, t[i].slot = t[k].slot
          PROVE  t[i].isRom /\ ~t[k].isRom /\ t[i].sensor = t[k].sensor
      <3>1. i + 1 < k + 1 BY <2>1
      <3> QED BY <3>1, <2>1, <1>1, <1>3 DEF JobsInOrder
    <2> QED BY <2>1, <1>1 DEF JobsInOrder
  <1>5. JobsFit(t, new)
    <2> SUFFICES ASSUME NEW k \in 1..Len(t), ~t[k].isRom
                 PROVE  /\ \/ ~new[t[k].slot].rec.valid
                           \/ Outward(t[k].slot, t[k].temp, new[t[k].slot].rec.temp)
                        /\ \/ new[t[k].slot].rom = t[k].sensor
                           \/ \E i \in 1..(k - 1) : t[i].isRom /\ t[i].slot = t[k].slot
      BY DEF JobsFit
    <2> DEFINE s == t[k].slot
    <2>1. t[k] = jobs[k + 1] /\ k + 1 \in 1..Len(jobs) /\ 1 \in 1..Len(jobs) /\ 1 < k + 1
          /\ jobs[k + 1] \in Jobs
      BY <1>1, <1>3
    <2>2. s \in Slots BY <2>1 DEF Jobs
    <2>3. /\ \/ ~slots[s].rec.valid \/ Outward(s, t[k].temp, slots[s].rec.temp)
          /\ \/ slots[s].rom = t[k].sensor
             \/ \E i \in 1..k : jobs[i].isRom /\ jobs[i].slot = s
      BY <2>1 DEF JobsFit
    <2>4. CASE jobs[1].slot = s
      <3>1. jobs[1].isRom /\ jobs[1].sensor = t[k].sensor BY <2>1, <2>4 DEF JobsInOrder
      <3>2. new[s].rec = slots[s].rec /\ new[s].rom = t[k].sensor
        BY <2>2, <2>4, <3>1 DEF Commit, SlotsType
      <3> QED BY <3>2, <2>3
    <2>5. CASE jobs[1].slot # s
      <3>1. new[s] = slots[s] BY <1>2, <2>2, <2>5 DEF Commit, SlotsType, Jobs
      <3>2. ASSUME NEW i \in 1..k, jobs[i].isRom, jobs[i].slot = s
            PROVE  \E h \in 1..(k - 1) : t[h].isRom /\ t[h].slot = s
        <4>1. i # 1 /\ i - 1 \in 1..(k - 1) /\ i - 1 \in 1..Len(t) /\ (i - 1) + 1 = i
          BY <3>2, <2>5, <1>1
        <4>2. t[i - 1] = jobs[i] BY <4>1, <1>1
        <4> QED BY <4>1, <4>2, <3>2
      <3> QED BY <3>1, <3>2, <2>3
    <2> QED BY <2>4, <2>5
  <1> QED BY <1>1, <1>2, <1>4, <1>5 DEF t

-----------------------------------------------------------------------------
(***************************************************************************)
(* The invariant holds initially and through every step.                   *)
(***************************************************************************)
LEMMA InvalidIsRecord == Invalid \in Records /\ NoSlots \in SlotsType
  BY SensorsAssumption DEF Invalid, Records, Devices, NoSlots, SlotsType, Roms, NoRom

LEMMA PoweredUp ==
    /\ Powered \in AppType /\ Powered.state = "SEARCH_DS18" /\ Powered.jobs = <<>>
    /\ Powered.boot = <<>> /\ ~Powered.have /\ ~Powered.off /\ Powered.fails = 0
    /\ Count(Powered) = 0 /\ Powered.found = <<>>
  <1>1. <<>> \in Seq(Devices) /\ Len(<<>>) = 0 OBVIOUS
  <1>2. 1 \in 1..(MaxDevices + 1) /\ [i \in 1..MaxDevices |-> Failed] \in Readings
    BY RoundsAssumption DEF Readings, Positions
  <1> QED BY <1>1, <1>2 DEF Powered, AppType, States, Count

LEMMA ParkedType == \A par \in BOOLEAN : Parked(par) \in DriverType /\ ~Parked(par).running
  BY RoundsAssumption DEF Parked, DriverType, Positions

LEMMA MultiInit == Init => MultiInv
  <1> SUFFICES ASSUME Init PROVE MultiInv OBVIOUS
  <1>0. ds18 \in DriverType /\ ~ds18.running BY ParkedType DEF Init
  <1>1. TypeInv
    BY <1>0, PoweredUp, InvalidIsRecord, RoundsAssumption
    DEF Init, TypeInv, LogType, Slots, Devices, Roms, NoRom
  <1>2. RoundInv BY <1>0, PoweredUp DEF Init, RoundInv, Writing, Scanning
  <1>3. SessionInv
    BY PoweredUp DEF Init, SessionInv, Writing, FailLimit, JobsInOrder, JobsFit
  <1>4. StoredInv BY PoweredUp DEF Init, StoredInv, Persisting, Booted
  <1> QED BY <1>1, <1>2, <1>3, <1>4 DEF MultiInv

\* History that a step of a round may write: that it was cut short.
LogOfRound == log' \in LogType /\ log'.blind = log.blind /\ log'.blindRom = log.blindRom

\* A step that starts or ends no write and touches no record: what is left to
\* show is about the round.
LEMMA RoundStep ==
    ASSUME MultiInv, NEW a \in AppType, app' = a, UNCHANGED <<slots, eeprom>>, LogOfRound,
           Count(a) \in 0..MaxDevices, ds18' \in DriverType, RoundInv',
           app.state \notin Writing, a.state \notin Writing,
           a.jobs = app.jobs, a.off = app.off, a.fails = app.fails,
           Persisting' => Persisting, Booted => Booted'
    PROVE  MultiInv'
  <1>1. TypeInv' BY DEF MultiInv, TypeInv, LogOfRound, Count
  <1>2. SessionInv' BY DEF MultiInv, SessionInv
  <1>3. StoredInv'
    <2>1. \A s \in Slots : \A r \in BOOLEAN : ~Unread(s, r) BY DEF Unread, Writing
    <2> QED BY <2>1 DEF MultiInv, StoredInv, RecStored, RomStored, LogOfRound
  <1> QED BY <1>1, <1>2, <1>3 DEF MultiInv

LEMMA AfterBootLeaves ==
    ASSUME NEW b \in AppType
    PROVE  /\ AfterBoot(b) \in AppType
           /\ AfterBoot(b).jobs = b.jobs /\ AfterBoot(b).off = b.off /\ AfterBoot(b).found = b.found
           /\ AfterBoot(b).fails = b.fails /\ AfterBoot(b).temps = b.temps
           /\ AfterBoot(b).boot = b.boot /\ AfterBoot(b).have = b.have
           /\ \/ AfterBoot(b).state = "STOP"
              \/ AfterBoot(b).state = "WAIT" /\ Count(b) > 0
  <1>1. CASE Count(b) > 0
    <2>1. AfterBoot(b) = [b EXCEPT !.state = "WAIT"] BY <1>1 DEF AfterBoot
    <2> QED BY <1>1, <2>1 DEF AppType, States
  <1>2. CASE ~(Count(b) > 0)
    <2>1. AfterBoot(b) = [b EXCEPT !.state = "STOP"] BY <1>2 DEF AfterBoot
    <2> QED BY <2>1 DEF AppType, States
  <1> QED BY <1>1, <1>2

LEMMA SearchesKeep == MultiInv /\ (SearchDs18 \/ SearchAll) => MultiInv'
  <1>1. ASSUME MultiInv, SearchDs18 PROVE MultiInv'
    <2>1. PICK table \in Tables : app' = [app EXCEPT !.found = table, !.state = "SEARCH_ALL"]
      BY <1>1 DEF SearchDs18
    <2> DEFINE a == [app EXCEPT !.found = table, !.state = "SEARCH_ALL"]
    <2>2. /\ app.state = "SEARCH_DS18" /\ UNCHANGED <<slots, eeprom, ds18, log>>
          /\ TypeInv /\ RoundInv /\ ~ds18.running
      BY <1>1 DEF SearchDs18, MultiInv, RoundInv
    <2>3. table \in Seq(Devices) /\ Len(table) \in 0..MaxDevices
      <3>1. PICK k \in 0..MaxDevices : table \in [1..k -> 1..Sensors] BY TablesAssumption
      <3>2. k \in Nat /\ table \in [1..k -> Devices] BY <3>1, RoundsAssumption DEF Devices
      <3>3. table \in Seq(Devices) BY <3>2, SeqDef
      <3>4. Len(table) = k
        <4>1. DOMAIN table = 1..k /\ DOMAIN table = 1..Len(table) /\ Len(table) \in Nat
          BY <3>2, <3>3, LenProperties
        <4> QED BY <4>1, <3>2
      <3> QED BY <3>1, <3>3, <3>4
    <2>4. a \in AppType /\ a.state = "SEARCH_ALL" /\ a.jobs = app.jobs /\ a.off = app.off
          /\ a.fails = app.fails /\ a.boot = app.boot /\ a.have = app.have
          /\ Count(a) \in 0..MaxDevices
      BY <2>2, <2>3 DEF TypeInv, AppType, States, Count
    <2>5. app' = a BY <2>1
    <2> HIDE DEF a
    <2>6. RoundInv' BY <2>2, <2>4, <2>5 DEF RoundInv, Writing, Scanning
    <2>7. LogOfRound BY <2>2 DEF LogOfRound, TypeInv
    <2> QED BY <1>1, <2>2, <2>4, <2>5, <2>6, <2>7, RoundStep
        DEF TypeInv, Writing, Persisting, Booted
  <1>2. ASSUME MultiInv, SearchAll PROVE MultiInv'
    <2>1. app.state = "SEARCH_ALL" /\ UNCHANGED <<slots, eeprom, ds18, log>> /\ ~app.have
          /\ TypeInv /\ RoundInv /\ ~ds18.running
      BY <1>2 DEF SearchAll, MultiInv, RoundInv
    <2> DEFINE a == app'
    <2>2. \/ app' = [app EXCEPT !.have = TRUE, !.state = "BOOT_READ"]
          \/ app' = AfterBoot(app)
      BY <1>2 DEF SearchAll
    <2>3. a \in AppType /\ a.jobs = app.jobs /\ a.off = app.off /\ a.fails = app.fails
          /\ a.found = app.found /\ a.boot = app.boot
          /\ \/ a.state = "BOOT_READ"
             \/ a.state = "STOP" /\ ~a.have
             \/ a.state = "WAIT" /\ ~a.have /\ Count(app) > 0
      <3>1. app \in AppType BY <2>1 DEF TypeInv
      <3>2. CASE app' = [app EXCEPT !.have = TRUE, !.state = "BOOT_READ"]
        BY <3>1, <3>2 DEF AppType, States, EepromStates
      <3>3. CASE app' = AfterBoot(app) BY <3>1, <3>3, <2>1, AfterBootLeaves
      <3> QED BY <3>2, <3>3, <2>2
    <2>4. app' = a OBVIOUS
    <2> HIDE DEF a
    <2>5. Count(a) = Count(app) BY <2>3 DEF Count
    <2>6. RoundInv'
      <3>1. Count(app)' = Count(app) BY <2>4, <2>5 DEF Count
      <3> QED BY <2>1, <2>3, <2>4, <3>1 DEF RoundInv, Writing, Scanning
    <2>7. LogOfRound BY <2>1 DEF LogOfRound, TypeInv
    <2> QED BY <1>2, <2>1, <2>3, <2>4, <2>5, <2>6, <2>7, RoundStep
        DEF TypeInv, Writing, Persisting, Booted
  <1> QED BY <1>1, <1>2

LEMMA BootReadKeeps == MultiInv /\ BootRead => MultiInv'
  <1> SUFFICES ASSUME MultiInv, BootRead PROVE MultiInv' OBVIOUS
  <1>1. PICK ok \in BOOLEAN :
          LET boot == Append(app.boot, ok) IN
          IF Len(boot) < Len(BootBlocks)
          THEN app' = [app EXCEPT !.boot = boot] /\ UNCHANGED <<slots, log>>
          ELSE /\ app' = AfterBoot([app EXCEPT !.boot = <<>>])
               /\ slots' = Loaded(boot)
               /\ log' = [log EXCEPT !.blind =
                             [s \in Slots |-> eeprom.rec[s].valid /\ ~boot[IF s = "peak" THEN 1 ELSE 2]]]
    BY DEF BootRead
  <1> DEFINE boot == Append(app.boot, ok)
  <1>2. app.state = "BOOT_READ" /\ UNCHANGED <<eeprom, ds18>> /\ TypeInv /\ ~ds18.running
        /\ RoundInv
    BY DEF BootRead, MultiInv, RoundInv
  <1>3. boot \in Seq(BOOLEAN) /\ Len(boot) = Len(app.boot) + 1 /\ Len(app.boot) \in 0..3
        /\ Len(BootBlocks) = 4
    <2>1. app.boot \in Seq(BOOLEAN) /\ Len(app.boot) < 4
      BY <1>2 DEF TypeInv, AppType, MultiInv, RoundInv
    <2>2. Len(app.boot) \in Nat BY <2>1, LenProperties
    <2>3. boot \in Seq(BOOLEAN) /\ Len(boot) = Len(app.boot) + 1 BY <2>1, AppendProperties
    <2>4. Len(BootBlocks) = 4 BY DEF BootBlocks
    <2>5. Len(app.boot) \in 0..3
      <3> DEFINE len == Len(app.boot)
      <3>1. len \in Nat /\ len < 4 BY <2>1, <2>2
      <3> HIDE DEF len
      <3>2. len \in 0..3 BY <3>1
      <3> QED BY <3>2 DEF len
    <2> HIDE DEF boot
    <2> QED BY <2>3, <2>4, <2>5
  <1> HIDE DEF boot
  <1>4. CASE Len(boot) < 4
    <2> DEFINE a == [app EXCEPT !.boot = boot]
    <2>1. app' = a /\ UNCHANGED <<slots, log>> BY <1>1, <1>3, <1>4 DEF boot
    <2>2. a \in AppType /\ a.state = "BOOT_READ" /\ a.boot = boot /\ a.jobs = app.jobs
          /\ a.off = app.off /\ a.fails = app.fails /\ a.found = app.found
      BY <1>2, <1>3 DEF TypeInv, AppType
    <2> HIDE DEF a
    <2>3. RoundInv' BY <1>2, <1>4, <2>1, <2>2 DEF RoundInv, Writing, Scanning
    <2>4. LogOfRound /\ Count(a) = Count(app) BY <1>2, <2>1, <2>2 DEF LogOfRound, TypeInv, Count
    <2> QED BY <1>2, <2>1, <2>2, <2>3, <2>4, RoundStep DEF TypeInv, Writing, Persisting, Booted
  <1>5. CASE ~(Len(boot) < 4)
    <2>1. /\ app' = AfterBoot([app EXCEPT !.boot = <<>>])
          /\ slots' = Loaded(boot)
          /\ log' = [log EXCEPT !.blind =
                        [s \in Slots |-> eeprom.rec[s].valid /\ ~boot[IF s = "peak" THEN 1 ELSE 2]]]
      BY <1>1, <1>3, <1>5 DEF boot
    <2>2. \A k \in 1..4 : boot[k] \in BOOLEAN BY <1>3, <1>5, ElementOfSeq
    <2>3. app' \in AppType /\ app'.boot = <<>> /\ app'.jobs = app.jobs /\ app'.off = app.off
          /\ app'.fails = app.fails /\ app'.found = app.found /\ app'.have = app.have
          /\ \/ app'.state = "STOP"
             \/ app'.state = "WAIT" /\ Count(app) > 0
      <3> DEFINE b == [app EXCEPT !.boot = <<>>]
      <3>1. b \in AppType /\ b.boot = <<>> /\ b.jobs = app.jobs /\ b.off = app.off
            /\ b.fails = app.fails /\ b.found = app.found /\ b.have = app.have
        <4>1. app \in AppType /\ <<>> \in Seq(BOOLEAN) BY <1>2 DEF TypeInv
        <4> QED BY <4>1 DEF AppType
      <3>2. app' = AfterBoot(b) BY <2>1
      <3> HIDE DEF b
      <3>3. Count(b) = Count(app) BY <3>1 DEF Count
      <3> QED BY <3>1, <3>2, <3>3, AfterBootLeaves
    <2>4. slots' \in SlotsType
      BY <1>2, <2>1, <2>2, InvalidIsRecord DEF TypeInv, SlotsType, Loaded, Slots, Roms, NoRom
    <2>5. log' \in LogType
      <3>1. \A s \in Slots : eeprom.rec[s].valid \in BOOLEAN BY <1>2 DEF TypeInv, Records
      <3> QED BY <1>2, <2>1, <2>2, <3>1 DEF TypeInv, LogType, Slots
    <2>6. TypeInv' BY <1>2, <2>3, <2>4, <2>5 DEF TypeInv, Count
    <2>7. RoundInv'
      <3>1. Count(app)' = Count(app) BY <2>3 DEF Count
      <3> QED BY <1>2, <2>3, <3>1 DEF RoundInv, Writing, Scanning
    <2>8. SessionInv'
      <3>1. app.jobs = <<>> /\ app.fails <= FailLimit /\ (~app.off => app.fails < FailLimit)
        BY <1>2 DEF MultiInv, SessionInv, Writing
      <3> QED BY <3>1, <2>3 DEF SessionInv, Writing, JobsInOrder, JobsFit
    <2>9. StoredInv'
      <3>1. ASSUME NEW s \in Slots
            PROVE  /\ ~log'.blind[s] => eeprom'.rec[s] = slots'[s].rec \/ ~eeprom'.rec[s].valid
                   /\ slots'[s].rom # NoRom => eeprom'.rom[s] = slots'[s].rom
        BY <1>2, <2>1, <2>2 DEF Loaded, Slots, TypeInv, LogType
      <3> QED BY <3>1, <2>3 DEF StoredInv, RecStored, RomStored, Booted
    <2> QED BY <2>6, <2>7, <2>8, <2>9 DEF MultiInv
  <1> QED BY <1>4, <1>5

\* The driver, as calls and polls leave it.
LEMMA DriverSteps ==
    ASSUME ds18 \in DriverType
    PROVE  /\ Polled \in DriverType
           /\ Polled = ds18 \/ (Polled.running /\ Polled.index = 1 /\ Polled.scan = ds18.scan)
           /\ Polled.par = ds18.par /\ Polled.scan = ds18.scan
           /\ \A scan \in BOOLEAN, d \in DriverType :
                 /\ Selected(d) \in DriverType /\ Started(d, scan) \in DriverType
                 /\ Selected(d).running = d.running /\ Selected(d).par = d.par
                 /\ d.running => Selected(d) = d /\ Started(d, scan) = d
                 /\ Started(d, scan).running /\ Started(d, scan).par = d.par
                 /\ ~d.running => Started(d, scan).index = 1 /\ Started(d, scan).scan = scan
  <1>1. 1 \in Positions BY RoundsAssumption DEF Positions
  <1>2. /\ Polled \in DriverType
        /\ Polled = ds18 \/ (Polled.running /\ Polled.index = 1 /\ Polled.scan = ds18.scan)
        /\ Polled.par = ds18.par /\ Polled.scan = ds18.scan
    <2>1. CASE RestartsItself
      <3>1. Polled = [ds18 EXCEPT !.running = TRUE, !.index = 1] BY <2>1 DEF Polled
      <3> QED BY <1>1, <3>1 DEF DriverType
    <2>2. CASE ~RestartsItself BY <2>2 DEF Polled
    <2> QED BY <2>1, <2>2
  <1>3. ASSUME NEW scan \in BOOLEAN, NEW d \in DriverType
        PROVE  /\ Selected(d) \in DriverType /\ Started(d, scan) \in DriverType
               /\ Selected(d).running = d.running /\ Selected(d).par = d.par
               /\ d.running => Selected(d) = d /\ Started(d, scan) = d
               /\ Started(d, scan).running /\ Started(d, scan).par = d.par
               /\ ~d.running => Started(d, scan).index = 1 /\ Started(d, scan).scan = scan
    BY <1>1, <1>3 DEF Selected, Started, DriverType
  <1> QED BY <1>2, <1>3

\* What a step between two results leaves to the application.
LEMMA RoundsKeep ==
    MultiInv /\ (Wait \/ MeasureStart \/ ScanRestarts \/ ScanTimeout \/ ScanDrained) => MultiInv'
  <1> SUFFICES ASSUME MultiInv, Wait \/ MeasureStart \/ ScanRestarts \/ ScanTimeout \/ ScanDrained
               PROVE  MultiInv'
    OBVIOUS
  <1> DEFINE a == app'
  <1>1. /\ app.state \in {"WAIT", "MEASURE_START", "MEASURE_WAIT"}
        /\ TypeInv /\ RoundInv /\ UNCHANGED <<slots, eeprom, log>>
        /\ app \in AppType /\ ds18 \in DriverType /\ Count(app) \in 1..MaxDevices
        /\ app.boot = <<>>
    BY RoundsAssumption
    DEF MultiInv, TypeInv, RoundInv, Wait, MeasureStart, ScanRestarts, ScanTimeout, ScanDrained,
        Scanning, SwitchToSequential
  <1>2. \/ /\ Wait /\ a = [app EXCEPT !.state = "MEASURE_START"] /\ ds18' = ds18
        \/ /\ MeasureStart /\ ds18' = Started(ds18, ~app.seq)
           /\ a = [app EXCEPT !.state = "MEASURE_WAIT", !.reported = 0, !.drain = FALSE, !.cur = 1,
                              !.temps = [i \in 1..MaxDevices |-> Failed]]
        \/ /\ ScanRestarts /\ a = app /\ ds18' = Polled
        \/ /\ ScanTimeout /\ a = [app EXCEPT !.drain = TRUE] /\ ds18' = Polled
        \/ /\ ScanDrained /\ a = [app EXCEPT !.seq = TRUE, !.state = "WAIT"]
           /\ ds18' = Selected(Polled)
        \/ /\ ScanDrained /\ ~AllReported(app) /\ Overdue(ScanRounds + DrainRounds)
           /\ a = [app EXCEPT !.state = "WAIT"] /\ ds18' = Polled
    BY DEF Wait, MeasureStart, ScanRestarts, ScanTimeout, ScanDrained, SwitchToSequential
  <1>3. /\ a \in AppType /\ a.jobs = app.jobs /\ a.off = app.off /\ a.fails = app.fails
        /\ a.boot = app.boot /\ a.found = app.found /\ a.have = app.have
        /\ a.state \in {"WAIT", "MEASURE_START", "MEASURE_WAIT"}
        /\ ds18' \in DriverType
    <2> DEFINE none == [i \in 1..MaxDevices |-> Failed]
    <2>1. none \in Readings /\ 1 \in 1..(MaxDevices + 1) /\ 0 \in Nat
      BY RoundsAssumption DEF Readings, Positions
    <2>2. ds18' \in DriverType
      <3> DEFINE scan == ~app.seq
      <3>1. scan \in BOOLEAN OBVIOUS
      <3>2. Polled \in DriverType BY <1>1, DriverSteps
      <3>3. ds18' \in {ds18, Started(ds18, scan), Polled, Selected(Polled)} BY <1>2
      <3> HIDE DEF scan
      <3>4. Started(ds18, scan) \in DriverType /\ Selected(Polled) \in DriverType
        BY <1>1, <3>1, <3>2, DriverSteps
      <3> QED BY <1>1, <3>2, <3>3, <3>4
    <2>3. CASE a = [app EXCEPT !.state = "MEASURE_WAIT", !.reported = 0, !.drain = FALSE,
                               !.cur = 1, !.temps = none]
      <3> HIDE DEF none, a
      <3> QED BY <1>1, <2>1, <2>2, <2>3 DEF AppType, States
    <2>4. CASE \/ a = [app EXCEPT !.state = "MEASURE_START"]
               \/ a = [app EXCEPT !.state = "WAIT"]
               \/ a = [app EXCEPT !.seq = TRUE, !.state = "WAIT"]
      <3> HIDE DEF a
      <3> QED BY <1>1, <2>2, <2>4 DEF AppType, States
    <2>5. CASE (a = app \/ a = [app EXCEPT !.drain = TRUE]) /\ app.state = "MEASURE_WAIT"
      <3> HIDE DEF a
      <3> QED BY <1>1, <2>2, <2>5 DEF AppType, States
    <2> QED BY <1>2, <2>3, <2>4, <2>5 DEF ScanRestarts, ScanTimeout, Scanning
  <1>4. app' = a OBVIOUS
  <1> HIDE DEF a
  <1>5. Count(a) = Count(app) /\ Count(app)' = Count(app) BY <1>3, <1>4 DEF Count
  <1>6. RoundInv'
    <2> USE <1>1, <1>3, <1>4, <1>5
    <2>1. CASE Wait /\ a = [app EXCEPT !.state = "MEASURE_START"] /\ ds18' = ds18
      BY <2>1 DEF RoundInv, Wait, AppType, Scanning, Writing
    <2>2. CASE /\ MeasureStart /\ ds18' = Started(ds18, ~app.seq)
               /\ a = [app EXCEPT !.state = "MEASURE_WAIT", !.reported = 0, !.drain = FALSE,
                                  !.cur = 1, !.temps = [i \in 1..MaxDevices |-> Failed]]
      <3>1. /\ a.state = "MEASURE_WAIT" /\ a.reported = 0 /\ a.cur = 1 /\ a.seq = app.seq
            /\ \A i \in 1..MaxDevices : a.temps[i] = Failed
        BY <2>2 DEF AppType
      <3>2. /\ ds18'.running /\ ds18'.index <= Count(app) /\ ds18'.index >= 1
            /\ ~app.seq => ds18'.scan /\ ds18'.index = 1
        <4> DEFINE scan == ~app.seq
        <4>1. app.state = "MEASURE_START" /\ scan \in BOOLEAN /\ ds18' = Started(ds18, scan)
          BY <2>2 DEF MeasureStart
        <4>2. CASE ds18.running
          <5> HIDE DEF scan
          <5>1. ds18' = ds18 BY <4>1, <4>2, DriverSteps
          <5>2. /\ ds18.running /\ ds18.index <= Count(app) /\ ds18.index >= 1 /\ ds18.scan
                /\ ~app.seq => ds18.index = 1
            BY <4>1, <4>2, RoundsAssumption DEF RoundInv, DriverType, Positions
          <5> QED BY <5>1, <5>2
        <4>3. CASE ~ds18.running
          <5> HIDE DEF scan
          <5>1. ds18'.running /\ ds18'.index = 1 /\ ds18'.scan = scan
            BY <4>1, <4>3, DriverSteps
          <5>2. Count(app) \in Nat /\ 1 <= Count(app) BY RoundsAssumption
          <5>3. ~app.seq => ds18'.scan BY <5>1 DEF scan
          <5> QED BY <5>1, <5>2, <5>3
        <4> QED BY <4>2, <4>3
      <3>3. \A i \in 1..Count(app) : i \in 1..MaxDevices BY RoundsAssumption
      <3>4. Scanning' <=> ~app.seq BY <3>1 DEF Scanning
      <3>5. ~app.seq => RoundSoFar' BY <3>1, <3>2, <3>3 DEF RoundSoFar, NoReading
      <3> QED BY <3>1, <3>2, <3>4, <3>5 DEF RoundInv, Writing
    <2>3. CASE /\ ScanRestarts \/ ScanTimeout
               /\ a = app \/ a = [app EXCEPT !.drain = TRUE]
               /\ ds18' = Polled /\ (a = app => ScanRestarts)
      <3>1. /\ Scanning /\ a.state = "MEASURE_WAIT" /\ ~a.seq /\ a.reported = app.reported
            /\ a.temps = app.temps /\ (~a.drain => ~app.drain /\ ScanRestarts)
        BY <2>3 DEF ScanRestarts, ScanTimeout, Scanning, AppType
      <3>2. ds18'.scan /\ (ds18'.running => ds18'.index <= Count(app))
        BY <2>3, <3>1, DriverSteps DEF RoundInv
      <3>3. ASSUME ~a.drain PROVE RoundSoFar'
        <4>1. RoundSoFar /\ ~ds18.running /\ ds18'.index = 1
          BY <2>3, <3>1, <3>3 DEF RoundInv, ScanRestarts, RestartsItself, Polled, DriverType
        <4> QED BY <3>1, <4>1 DEF RoundSoFar, NoReading, AppType
      <3> QED BY <3>1, <3>2, <3>3 DEF RoundInv, Writing, Scanning
    <2>4. CASE /\ ScanDrained /\ a = [app EXCEPT !.seq = TRUE, !.state = "WAIT"]
               /\ ds18' = Selected(Polled)
      <3>1. Scanning /\ a.state = "WAIT" /\ a.seq BY <2>4 DEF ScanDrained, AppType
      <3>2. Polled \in DriverType /\ Polled.scan /\ (Polled.running => Polled.index <= Count(app))
        BY <3>1, DriverSteps DEF RoundInv
      <3>3. ds18'.running => ds18' = Polled BY <2>4, <3>2, DriverSteps
      <3> QED BY <3>1, <3>2, <3>3 DEF RoundInv, Writing, Scanning
    <2>5. CASE /\ ScanDrained /\ ~AllReported(app) /\ Overdue(ScanRounds + DrainRounds)
               /\ a = [app EXCEPT !.state = "WAIT"] /\ ds18' = Polled
      <3>1. Scanning /\ a.state = "WAIT" BY <2>5 DEF ScanDrained, AppType
      <3>2. Polled \in DriverType /\ Polled.scan /\ (Polled.running => Polled.index <= Count(app))
        BY <3>1, DriverSteps DEF RoundInv
      <3>3. ASSUME Polled.running PROVE Polled.index = 1
        <4> DEFINE i == Polled.index
                   r == app.reported
        <4>1. r - (i - 1) >= ScanRounds + DrainRounds /\ r < Count(app)
          BY <2>5, <3>3 DEF Overdue, AllReported, AppType
        <4>2. i \in Nat /\ i >= 1 /\ r \in Nat
          BY <3>2, RoundsAssumption DEF DriverType, Positions, AppType
        <4> HIDE DEF i, r
        <4>3. i = 1 BY <4>1, <4>2, RoundsAssumption
        <4> QED BY <4>3 DEF i
      <3> QED BY <2>5, <3>1, <3>2, <3>3 DEF RoundInv, Writing, Scanning
    <2>6. CASE ScanRestarts /\ a = app /\ ds18' = Polled BY <2>3, <2>6
    <2>7. CASE ScanTimeout /\ a = [app EXCEPT !.drain = TRUE] /\ ds18' = Polled
      <3>1. a # app BY <2>7 DEF ScanTimeout, AppType
      <3> QED BY <2>3, <2>7, <3>1
    <2> QED BY <1>2, <2>1, <2>2, <2>4, <2>5, <2>6, <2>7
  <1>7. LogOfRound BY <1>1 DEF LogOfRound, TypeInv
  <1> QED BY <1>1, <1>3, <1>4, <1>5, <1>6, <1>7, RoundStep DEF TypeInv, Writing, Persisting, Booted

\* A session that does not persist: records only move outward.
LEMMA CommitAllKeeps ==
    ASSUME slots \in SlotsType, NEW jobs \in Seq(Jobs), JobsFit(jobs, slots)
    PROVE  /\ CommitAll(slots, jobs) \in SlotsType
           /\ jobs = <<>> => CommitAll(slots, jobs) = slots
           /\ \A s \in Slots : slots[s].rec.valid =>
                 \/ CommitAll(slots, jobs)[s].rec = slots[s].rec
                 \/ Outward(s, CommitAll(slots, jobs)[s].rec.temp, slots[s].rec.temp)
  <1> DEFINE new == CommitAll(slots, jobs)
             Recs(s) == {k \in DOMAIN jobs : jobs[k].slot = s /\ ~jobs[k].isRom}
             Last(s) == jobs[CHOOSE k \in Recs(s) : TRUE]
  <1>1. DOMAIN jobs = 1..Len(jobs) /\ \A k \in 1..Len(jobs) : jobs[k] \in Jobs
    BY LenProperties, ElementOfSeq
  <1>2. new = [s \in Slots |-> IF Recs(s) = {} THEN slots[s]
                               ELSE [rec |-> Record(Last(s).temp, Last(s).sensor), rom |-> Last(s).sensor]]
    BY DEF CommitAll
  <1>3. ASSUME NEW s \in Slots, Recs(s) # {}
        PROVE  /\ Last(s) \in Jobs
               /\ slots[s].rec.valid => Outward(s, Last(s).temp, slots[s].rec.temp)
    <2>1. PICK k \in Recs(s) : Last(s) = jobs[k] BY <1>3
    <2>2. k \in 1..Len(jobs) /\ jobs[k].slot = s /\ ~jobs[k].isRom BY <2>1, <1>1
    <2> HIDE DEF Last
    <2> QED BY <2>1, <2>2, <1>1 DEF JobsFit
  <1> HIDE DEF Last, new
  <1>4. ASSUME NEW s \in Slots PROVE new[s] \in [rec : Records, rom : Roms]
    <2>1. CASE Recs(s) = {} BY <2>1, <1>2 DEF SlotsType
    <2>2. CASE Recs(s) # {}
      <3>1. Last(s).temp \in Nat /\ Last(s).sensor \in Devices
        BY <1>3, <2>2 DEF Jobs
      <3>2. new[s] = [rec |-> Record(Last(s).temp, Last(s).sensor), rom |-> Last(s).sensor]
        BY <1>2, <2>2
      <3> QED BY <3>1, <3>2 DEF Records, Record, Roms
    <2> QED BY <2>1, <2>2
  <1>5. new \in SlotsType BY <1>2, <1>4 DEF SlotsType
  <1>6. ASSUME jobs = <<>> PROVE new = slots
    <2>1. \A s \in Slots : Recs(s) = {} BY <1>6, <1>1
    <2> HIDE DEF Recs
    <2>2. \A s \in Slots : new[s] = slots[s] BY <1>2, <2>1
    <2> QED BY <1>5, <2>2 DEF SlotsType
  <1>7. ASSUME NEW s \in Slots, slots[s].rec.valid
        PROVE  new[s].rec = slots[s].rec \/ Outward(s, new[s].rec.temp, slots[s].rec.temp)
    <2> HIDE DEF Recs
    <2> QED BY <1>2, <1>3, <1>7 DEF Record
  <1> QED BY <1>5, <1>6, <1>7 DEF new

\* A step that leaves a record of RAM as it is, or moves it outward.
RamOutward ==
    \A s \in Slots : slots[s].rec.valid =>
        slots'[s].rec = slots[s].rec \/ Outward(s, slots'[s].rec.temp, slots[s].rec.temp)

\* The end of a round: the records and the jobs follow from its readings.
LEMMA EvaluateKeeps ==
    ASSUME MultiInv, app.state = "MEASURE_WAIT", NEW a \in AppType,
           a.found = app.found, a.have = app.have, a.off = app.off, a.fails = app.fails,
           a.boot = app.boot, a.jobs = app.jobs,
           Evaluate(a), UNCHANGED eeprom, LogOfRound,
           ds18' \in DriverType, ~ds18'.running
    PROVE  MultiInv' /\ RamOutward
  <1> DEFINE jobs == JobsOf(a)
  <1>1. /\ TypeInv /\ app.jobs = <<>> /\ app.boot = <<>> /\ Count(app) > 0
        /\ app.fails <= FailLimit /\ (~app.off => app.fails < FailLimit)
        /\ Count(a) = Count(app) /\ Count(app) \in 0..MaxDevices
    BY DEF MultiInv, RoundInv, SessionInv, Writing, Count, TypeInv
  <1>2. slots \in SlotsType /\ jobs \in Seq(Jobs) /\ JobsInOrder(jobs) /\ JobsFit(jobs, slots)
    BY <1>1, JobsOfRound DEF TypeInv, AppType
  <1>3. \/ /\ jobs = <<>> \/ RamOnly(a)
           /\ app' = [a EXCEPT !.state = "WAIT"] /\ slots' = CommitAll(slots, jobs)
        \/ /\ jobs # <<>> /\ ~RamOnly(a)
           /\ app' = [a EXCEPT !.state = "WRITE_SCRATCH", !.jobs = jobs] /\ slots' = slots
    BY DEF Evaluate
  <1> HIDE DEF jobs
  <1>4. /\ slots' \in SlotsType
        /\ jobs = <<>> => slots' = slots
        /\ RamOutward
    BY <1>2, <1>3, CommitAllKeeps DEF RamOutward
  <1>5. /\ app' \in AppType /\ app'.found = app.found /\ app'.boot = <<>>
        /\ app'.have = app.have /\ app'.off = app.off /\ app'.fails = app.fails
        /\ \/ /\ app'.state = "WAIT" /\ app'.jobs = <<>>
              /\ jobs = <<>> \/ RamOnly(a)
           \/ /\ app'.state = "WRITE_SCRATCH" /\ app'.jobs = jobs
              /\ jobs # <<>> /\ ~RamOnly(a) /\ slots' = slots
    BY <1>1, <1>2, <1>3 DEF AppType, States, EepromStates
  <1>6. Count(app)' = Count(app) BY <1>5 DEF Count
  <1>7. TypeInv' BY <1>1, <1>4, <1>5, <1>6 DEF TypeInv, LogOfRound
  <1>8. RoundInv' BY <1>1, <1>5, <1>6 DEF RoundInv, Writing, Scanning
  <1>9. SessionInv'
    BY <1>1, <1>2, <1>5 DEF SessionInv, Writing, RamOnly, JobsInOrder, JobsFit
  <1>10. StoredInv'
    <2>1. \A s \in Slots : \A r \in BOOLEAN : ~Unread(s, r) BY DEF Unread
    <2>2. Persisting' => Persisting /\ slots' = slots
      BY <1>4, <1>5 DEF Persisting, Booted, RamOnly
    <2>3. Booted' BY <1>5 DEF Booted
    <2> QED BY <2>1, <2>2, <2>3 DEF MultiInv, StoredInv, RecStored, RomStored, LogOfRound
  <1> QED BY <1>4, <1>7, <1>8, <1>9, <1>10 DEF MultiInv

\* What one result changes.
LEMMA StoredResult ==
    ASSUME app \in AppType, Index \in Positions, NEW temp \in Nat \cup {Failed}
    PROVE  /\ Stored(temp) \in AppType
           /\ Stored(temp).reported = app.reported + 1 /\ Stored(temp).cur = app.cur
           /\ Stored(temp).state = app.state /\ Stored(temp).found = app.found
           /\ Stored(temp).have = app.have /\ Stored(temp).off = app.off
           /\ Stored(temp).fails = app.fails /\ Stored(temp).boot = app.boot
           /\ Stored(temp).jobs = app.jobs /\ Stored(temp).seq = app.seq
           /\ Stored(temp).drain = app.drain
           /\ Stored(temp).temps[Index] = temp
           /\ \A i \in Positions \ {Index} : Stored(temp).temps[i] = app.temps[i]
  <1> DEFINE x == Index
             temps == [app.temps EXCEPT ![x] = temp]
  <1>1. app.temps \in Readings /\ app.reported + 1 \in Nat BY DEF AppType
  <1>2. Stored(temp) = [app EXCEPT !.temps = temps, !.reported = app.reported + 1]
    BY <1>1 DEF Stored, AppType
  <1> HIDE DEF x
  <1>3. x \in Positions BY DEF x
  <1>4. temps \in Readings /\ temps[x] = temp /\ \A i \in Positions \ {x} : temps[i] = app.temps[i]
    BY <1>1, <1>3 DEF Readings
  <1> HIDE DEF temps
  <1>5. Stored(temp).temps = temps BY <1>2 DEF AppType
  <1> QED BY <1>1, <1>2, <1>4, <1>5 DEF AppType, x

\* The driver after a report: it reads the next device of its round, or parked.
LEMMA ReportedDriver ==
    ASSUME ds18 \in DriverType, ds18.index <= Count(app), Count(app) \in 1..MaxDevices,
           NEW absent \in BOOLEAN, NEW d, d = AfterReport(absent)
    PROVE  /\ d \in DriverType /\ d.par = ds18.par /\ d.scan = ds18.scan
           /\ \/ ~d.running /\ (absent \/ ~ds18.scan \/ ds18.index = Count(app))
              \/ /\ ds18.scan /\ ~absent /\ ds18.index < Count(app)
                 /\ d.index = ds18.index + 1 /\ d.running = ds18.running
  <1>1. 1 \in Positions /\ ds18.index \in 1..Count(app) /\ MaxDevices \in Nat
    BY RoundsAssumption DEF Positions, DriverType
  <1>2. CASE absent \/ ~ds18.scan \/ ds18.index = Count(app)
    <2>1. AfterReport(absent) = [ds18 EXCEPT !.running = FALSE, !.index = 1]
      BY <1>2 DEF AfterReport
    <2> QED BY <1>1, <1>2, <2>1 DEF DriverType
  <1>3. CASE ~(absent \/ ~ds18.scan \/ ds18.index = Count(app))
    <2> DEFINE next == ds18.index + 1
    <2>1. AfterReport(absent) = [ds18 EXCEPT !.index = next] BY <1>3 DEF AfterReport
    <2>2. next \in Positions /\ ds18.index < Count(app) BY <1>1, <1>3 DEF Positions
    <2> HIDE DEF next
    <2>3. AfterReport(absent).index = next BY <2>1 DEF DriverType
    <2> QED BY <1>3, <2>1, <2>2, <2>3 DEF DriverType, next
  <1> QED BY <1>2, <1>3

\* A round whose last position has no reading is not evaluated.
LEMMA BadAtTheEnd ==
    ASSUME NEW a, Count(a) \in Nat \ {0}, a.temps[Count(a)] = Failed PROVE ~GoodRound(a)
  <1> SUFFICES ASSUME GoodRound(a) PROVE FALSE OBVIOUS
  <1> DEFINE All == 1..Count(a)
  <1>1. IsFiniteSet(All) /\ Cardinality(All) = Count(a)
    <2>1. Count(a) \in Int /\ 1 \in Int /\ ~(1 > Count(a)) /\ Count(a) - 1 + 1 = Count(a) OBVIOUS
    <2> QED BY <2>1, FS_Interval
  <1>2. Good(a) \in SUBSET All /\ Cardinality(Good(a)) = Count(a) BY DEF Good, GoodRound
  <1>3. Count(a) \in All /\ Count(a) \notin Good(a) BY DEF Good
  <1> HIDE DEF All
  <1>4. Good(a) = All BY <1>1, <1>2, FS_Subset
  <1> QED BY <1>3, <1>4

\* What a result finds.
LEMMA AtReport ==
    ASSUME MultiInv, app.state = "MEASURE_WAIT", ds18.running
    PROVE  /\ TypeInv /\ RoundInv /\ app \in AppType /\ ds18 \in DriverType
           /\ Count(app) \in 1..MaxDevices /\ ds18.index \in 1..Count(app)
           /\ app.jobs = <<>> /\ app.boot = <<>>
           /\ app.seq => app.cur \in 1..Count(app)
           /\ Index \in Positions /\ Asked \in Devices
           /\ TempsOf[Asked] \cup {Failed} \subseteq Nat \cup {Failed}
  <1>1. /\ TypeInv /\ RoundInv /\ app \in AppType /\ ds18 \in DriverType
        /\ app.jobs = <<>> /\ app.boot = <<>> /\ app.found \in Seq(Devices)
    BY DEF MultiInv, TypeInv, RoundInv, SessionInv, Writing, AppType
  <1>2. Count(app) \in 1..MaxDevices /\ ds18.index \in 1..Count(app)
    BY <1>1, RoundsAssumption DEF TypeInv, RoundInv, DriverType, Positions
  <1>3. app.seq => app.cur \in 1..Count(app)
    BY <1>1, <1>2, RoundsAssumption DEF RoundInv, AppType
  <1>4. ~app.seq => ds18.scan BY <1>1 DEF RoundInv, Scanning
  <1>5. Index \in Positions
    <2>1. Index \in 1..Count(app) BY <1>2, <1>3 DEF Index
    <2> QED BY <1>2, <2>1, RoundsAssumption DEF Positions
  <1>6. Asked \in Devices
    <2>1. (IF ds18.scan THEN ds18.index ELSE app.cur) \in 1..Len(app.found)
      BY <1>2, <1>3, <1>4 DEF Count
    <2> QED BY <1>1, <2>1, ElementOfSeq DEF Asked
  <1>7. TempsOf[Asked] \subseteq Nat BY <1>6, TempsAssumption DEF Devices
  <1> QED BY <1>1, <1>2, <1>3, <1>5, <1>6, <1>7

LEMMA ScanReportKeeps == MultiInv /\ ScanReport => MultiInv' /\ RamOutward
  <1> SUFFICES ASSUME MultiInv, ScanReport PROVE MultiInv' /\ RamOutward OBVIOUS
  <1>1. /\ app.state = "MEASURE_WAIT" /\ ~app.seq /\ ds18.running /\ Scanning /\ ds18.scan
        /\ TypeInv /\ RoundInv /\ app \in AppType /\ ds18 \in DriverType
        /\ Count(app) \in 1..MaxDevices /\ ds18.index \in 1..Count(app)
        /\ app.jobs = <<>> /\ app.boot = <<>> /\ Index = ds18.index /\ Index \in Positions
        /\ UNCHANGED eeprom
    BY AtReport DEF ScanReport, Scanning, Index, RoundInv
  <1>2. PICK temp \in TempsOf[Asked] \cup {Failed}, absent \in BOOLEAN :
          LET a == Stored(temp)  d == AfterReport(absent) IN
          /\ absent => temp = Failed
          /\ \/ /\ ~app.drain /\ GoodRound(a)
                /\ Evaluate(a) /\ ds18' = d
             \/ /\ ~(~app.drain /\ GoodRound(a)) /\ ~(app.drain /\ AllReported(a))
                /\ app' = [a EXCEPT !.drain = @ \/ AllReported(a)]
                /\ ds18' = d /\ UNCHANGED slots
             \/ /\ app.drain /\ AllReported(a)
                /\ SwitchToSequential(a, d) /\ UNCHANGED slots
          /\ log' = [log EXCEPT !.cut = @ \/ (absent /\ ds18.par /\ ds18.index < Count(app))]
    BY DEF ScanReport
  <1> DEFINE a == Stored(temp)
             d == AfterReport(absent)
  <1>3. LogOfRound
    <2> DEFINE cut == log.cut \/ (absent /\ ds18.par /\ ds18.index < Count(app))
    <2>1. cut \in BOOLEAN /\ log' = [log EXCEPT !.cut = cut] BY <1>2 DEF TypeInv, LogType
    <2> HIDE DEF cut
    <2> QED BY <1>1, <2>1 DEF LogOfRound, TypeInv, LogType
  <1>4. temp \in Nat \cup {Failed} BY <1>1, AtReport
  <1>5. /\ a \in AppType /\ a.reported = app.reported + 1 /\ a.state = "MEASURE_WAIT"
        /\ a.found = app.found /\ a.have = app.have /\ a.off = app.off /\ a.fails = app.fails
        /\ a.boot = app.boot /\ a.jobs = app.jobs /\ ~a.seq /\ a.drain = app.drain
        /\ a.temps[ds18.index] = temp
        /\ \A i \in Positions \ {ds18.index} : a.temps[i] = app.temps[i]
    BY <1>1, <1>4, StoredResult
  <1>6. /\ d \in DriverType /\ d.scan
        /\ \/ ~d.running /\ (absent \/ ds18.index = Count(app))
           \/ ds18.index < Count(app) /\ d.index = ds18.index + 1 /\ d.running
    <2>1. d = AfterReport(absent) /\ ds18.index <= Count(app) BY <1>1
    <2> HIDE DEF d
    <2> QED BY <1>1, <2>1, ReportedDriver
  <1>7. /\ absent => temp = Failed
        /\ \/ ~app.drain /\ GoodRound(a) /\ Evaluate(a) /\ ds18' = d
           \/ /\ app' = [a EXCEPT !.drain = a.drain \/ AllReported(a)]
              /\ ds18' = d /\ UNCHANGED slots
           \/ SwitchToSequential(a, d) /\ UNCHANGED slots
    BY <1>2
  <1> HIDE DEF a, d
  <1>8. Count(a) = Count(app) /\ \A i \in 1..Count(app) : i \in Positions
    BY <1>1, <1>5, RoundsAssumption DEF Count, Positions
  <1>9. app.reported \in Nat BY <1>1 DEF AppType
  <1>10. ASSUME ~app.drain
         PROVE  \/ /\ ds18.index = a.reported
                   /\ \A i \in 1..Count(app) : i > a.reported => a.temps[i] = Failed
                \/ /\ ds18.index < a.reported
                   /\ \A i \in 1..Count(app) : i >= a.reported => a.temps[i] = Failed
    <2>1. app.reported < Count(app) /\ RoundSoFar BY <1>1, <1>10 DEF RoundInv
    <2>2. CASE ds18.index = app.reported + 1 /\ NoReading(app.reported + 1)
      <3>1. ASSUME NEW i \in 1..Count(app), i > a.reported PROVE a.temps[i] = Failed
        <4>1. i # ds18.index /\ i >= app.reported + 1 BY <1>5, <1>9, <2>2, <3>1
        <4> QED BY <1>5, <1>8, <2>2, <4>1 DEF NoReading
      <3> QED BY <1>5, <2>2, <3>1
    <2>3. CASE NoReading(app.reported) /\ ds18.index <= app.reported
      <3>1. ASSUME NEW i \in 1..Count(app), i >= a.reported PROVE a.temps[i] = Failed
        <4>1. i # ds18.index /\ i >= app.reported BY <1>1, <1>5, <1>9, <2>3, <3>1
        <4> QED BY <1>5, <1>8, <2>3, <4>1 DEF NoReading
      <3>2. ds18.index < a.reported BY <1>1, <1>5, <1>9, <2>3
      <3> QED BY <3>1, <3>2
    <2> QED BY <1>1, <2>1, <2>2, <2>3 DEF RoundSoFar
  <1>11. CASE ~app.drain /\ GoodRound(a) /\ Evaluate(a) /\ ds18' = d
    <2>1. a.reported >= Count(app) /\ app.reported < Count(app)
      BY <1>1, <1>8, <1>11 DEF GoodRound, AllReported, RoundInv
    <2>2. a.reported = Count(app) BY <1>1, <1>5, <1>9, <2>1
    <2>3. a.temps[Count(app)] # Failed
      BY <1>1, <1>8, <1>11, BadAtTheEnd
    <2>4. ds18.index = Count(app) BY <1>1, <1>10, <1>11, <2>2, <2>3
    <2>5. ~d.running BY <1>1, <1>6, <2>4
    <2> QED BY <1>1, <1>3, <1>5, <1>6, <1>11, <2>5, EvaluateKeeps
  <1>12. CASE /\ app' = [a EXCEPT !.drain = a.drain \/ AllReported(a)]
              /\ ds18' = d /\ UNCHANGED slots
    <2> DEFINE b == app'
               drain == a.drain \/ AllReported(a)
    <2>1. drain \in BOOLEAN BY <1>5 DEF AppType, AllReported
    <2>2. /\ ~drain => ~app.drain /\ a.reported < Count(app)
      BY <1>1, <1>5, <1>8, <1>9 DEF AllReported
    <2>3. b = [a EXCEPT !.drain = drain] BY <1>12
    <2>4. app' = b OBVIOUS
    <2> HIDE DEF b, drain
    <2>5. /\ b \in AppType /\ b.reported = a.reported /\ b.state = "MEASURE_WAIT"
          /\ b.found = app.found /\ b.have = app.have /\ b.off = app.off /\ b.fails = app.fails
          /\ b.boot = app.boot /\ b.jobs = app.jobs /\ ~b.seq /\ b.drain = drain
          /\ b.temps = a.temps
      BY <1>5, <2>1, <2>3 DEF AppType
    <2>6. Count(b) = Count(app) /\ Count(app)' = Count(app) BY <2>4, <2>5 DEF Count
    <2>7. ASSUME ~b.drain PROVE b.reported < Count(app) /\ RoundSoFar'
      <3>1. ~app.drain /\ a.reported < Count(app) BY <2>2, <2>5, <2>7
      <3>2. CASE /\ ds18.index = a.reported
                 /\ \A i \in 1..Count(app) : i > a.reported => a.temps[i] = Failed
        <4>1. CASE d.running
          <5>1. d.index = a.reported + 1 BY <1>1, <1>6, <3>2, <4>1
          <5>2. \A i \in 1..Count(app) : i >= a.reported + 1 => a.temps[i] = Failed
            BY <1>5, <1>9, <3>2
          <5> QED BY <1>12, <2>4, <2>5, <2>6, <3>1, <4>1, <5>1, <5>2 DEF RoundSoFar, NoReading
        <4>2. CASE ~d.running
          <5>1. a.temps[ds18.index] = Failed BY <1>1, <1>5, <1>6, <1>7, <3>1, <3>2, <4>2
          <5>2. \A i \in 1..Count(app) : i >= a.reported => a.temps[i] = Failed
            BY <1>5, <1>9, <3>2, <5>1
          <5>3. a.reported >= 1 BY <1>5, <1>9
          <5> QED BY <1>12, <2>4, <2>5, <2>6, <3>1, <4>2, <5>2, <5>3 DEF RoundSoFar, NoReading
        <4> QED BY <4>1, <4>2
      <3>3. CASE /\ ds18.index < a.reported
                 /\ \A i \in 1..Count(app) : i >= a.reported => a.temps[i] = Failed
        <4>1. a.reported >= 1 /\ (d.running => d.index <= a.reported)
          BY <1>1, <1>5, <1>6, <1>9, <3>3
        <4> QED BY <1>12, <2>4, <2>5, <2>6, <3>1, <3>3, <4>1 DEF RoundSoFar, NoReading
      <3> QED BY <1>10, <2>5, <3>1, <3>2, <3>3
    <2>8. d.running => d.index <= Count(app) BY <1>1, <1>6
    <2>9. RoundInv'
      BY <1>1, <1>6, <1>12, <2>4, <2>5, <2>6, <2>7, <2>8 DEF RoundInv, Writing, Scanning
    <2>10. /\ Count(b) \in 0..MaxDevices /\ ds18' \in DriverType /\ UNCHANGED <<slots, eeprom>>
           /\ app.state \notin Writing /\ b.state \notin Writing
           /\ Persisting' => Persisting /\ Booted /\ Booted'
      <3>1. Count(b) \in 0..MaxDevices /\ ds18' \in DriverType /\ UNCHANGED <<slots, eeprom>>
        BY <1>1, <1>6, <1>12, <2>6, RoundsAssumption
      <3> QED BY <1>1, <2>4, <2>5, <3>1 DEF Writing, Persisting, Booted
    <2>11. MultiInv' BY <1>3, <1>5, <2>4, <2>5, <2>9, <2>10, RoundStep DEF Writing, Persisting, Booted
    <2> QED BY <1>12, <2>11 DEF RamOutward
  <1>13. CASE SwitchToSequential(a, d) /\ UNCHANGED slots
    <2> DEFINE b == app'
    <2>1. b = [a EXCEPT !.seq = TRUE, !.state = "WAIT"] /\ ds18' = Selected(d)
      BY <1>13 DEF SwitchToSequential
    <2>2. app' = b OBVIOUS
    <2> HIDE DEF b
    <2>3. /\ b \in AppType /\ b.state = "WAIT" /\ b.seq
          /\ b.found = app.found /\ b.have = app.have /\ b.off = app.off /\ b.fails = app.fails
          /\ b.boot = app.boot /\ b.jobs = app.jobs
      BY <1>5, <2>1 DEF AppType, States
    <2>4. Count(b) = Count(app) /\ Count(app)' = Count(app) BY <2>2, <2>3 DEF Count
    <2>5. ds18' \in DriverType /\ (ds18'.running => ds18' = d) BY <1>1, <1>6, <2>1, DriverSteps
    <2>6. d.running => d.index <= Count(app) BY <1>1, <1>6
    <2>7. RoundInv'
      BY <1>1, <1>6, <2>2, <2>3, <2>4, <2>5, <2>6 DEF RoundInv, Writing, Scanning
    <2>8. /\ Count(b) \in 0..MaxDevices /\ UNCHANGED <<slots, eeprom>>
          /\ app.state \notin Writing /\ b.state \notin Writing
          /\ Persisting' => Persisting /\ Booted /\ Booted'
      BY <1>1, <1>13, <2>2, <2>3, <2>4, RoundsAssumption DEF Writing, Persisting, Booted
    <2>9. MultiInv' BY <1>3, <2>2, <2>3, <2>5, <2>7, <2>8, RoundStep DEF Writing, Persisting, Booted
    <2> QED BY <1>13, <2>9 DEF RamOutward
  <1> QED BY <1>7, <1>11, <1>12, <1>13

LEMMA SequentialReportKeeps == MultiInv /\ SequentialReport => MultiInv' /\ RamOutward
  <1> SUFFICES ASSUME MultiInv, SequentialReport PROVE MultiInv' /\ RamOutward OBVIOUS
  <1>1. /\ app.state = "MEASURE_WAIT" /\ app.seq /\ ds18.running
        /\ TypeInv /\ RoundInv /\ app \in AppType /\ ds18 \in DriverType
        /\ Count(app) \in 1..MaxDevices /\ ds18.index \in 1..Count(app)
        /\ app.cur \in 1..Count(app) /\ (ds18.scan => app.cur <= ds18.index)
        /\ app.jobs = <<>> /\ app.boot = <<>> /\ Index \in Positions
        /\ UNCHANGED <<eeprom, log>>
    BY AtReport DEF SequentialReport, RoundInv
  <1>2. PICK temp \in TempsOf[Asked] \cup {Failed}, absent \in BOOLEAN :
          LET a == [Stored(temp) EXCEPT !.cur = @ + 1]  d == AfterReport(absent) IN
          \/ a.cur <= Count(a) /\ app' = a /\ ds18' = Started(d, FALSE) /\ UNCHANGED slots
          \/ a.cur > Count(a) /\ Evaluate(a) /\ ds18' = d
    BY DEF SequentialReport
  <1> DEFINE b == Stored(temp)
             a == [b EXCEPT !.cur = b.cur + 1]
             d == AfterReport(absent)
  <1>3. temp \in Nat \cup {Failed} BY <1>1, AtReport
  <1>4. /\ b \in AppType /\ b.cur = app.cur /\ b.state = "MEASURE_WAIT" /\ b.found = app.found
        /\ b.have = app.have /\ b.off = app.off /\ b.fails = app.fails /\ b.boot = app.boot
        /\ b.jobs = app.jobs /\ b.seq
    BY <1>1, <1>3, StoredResult
  <1>5. \/ a.cur <= Count(a) /\ app' = a /\ ds18' = Started(d, FALSE) /\ UNCHANGED slots
        \/ a.cur > Count(a) /\ Evaluate(a) /\ ds18' = d
    BY <1>2
  <1>6. /\ d \in DriverType /\ d.scan = ds18.scan
        /\ \/ ~d.running
           \/ ds18.scan /\ ds18.index < Count(app) /\ d.index = ds18.index + 1 /\ d.running
    <2>1. d = AfterReport(absent) /\ ds18.index <= Count(app) BY <1>1
    <2> HIDE DEF d
    <2> QED BY <1>1, <2>1, ReportedDriver
  <1> HIDE DEF b, d
  <1>7. /\ a \in AppType /\ a.state = "MEASURE_WAIT" /\ a.found = app.found
        /\ a.have = app.have /\ a.off = app.off /\ a.fails = app.fails /\ a.boot = app.boot
        /\ a.jobs = app.jobs /\ a.seq /\ a.cur = app.cur + 1
    <2>1. app.cur + 1 \in 1..(MaxDevices + 1) BY <1>1, RoundsAssumption
    <2> QED BY <1>1, <1>4, <2>1 DEF AppType
  <1> HIDE DEF a
  <1>8. Count(a) = Count(app) BY <1>7 DEF Count
  <1>9. LogOfRound BY <1>1 DEF LogOfRound, TypeInv
  <1>10. CASE a.cur <= Count(a) /\ app' = a /\ ds18' = Started(d, FALSE) /\ UNCHANGED slots
    <2>1. Count(app)' = Count(app) BY <1>8, <1>10 DEF Count
    <2>2. /\ ds18' \in DriverType /\ ds18'.running /\ ds18'.index <= Count(app)
          /\ ds18'.scan => a.cur <= ds18'.index
      <3>1. ds18' \in DriverType /\ ds18'.running BY <1>1, <1>6, <1>10, DriverSteps
      <3>2. CASE d.running
        <4>1. ds18' = d BY <1>1, <1>6, <1>10, <3>2, DriverSteps
        <4> QED BY <1>1, <1>6, <1>7, <3>1, <3>2, <4>1
      <3>3. CASE ~d.running
        <4>1. ds18'.index = 1 /\ ds18'.scan = FALSE BY <1>1, <1>6, <1>10, <3>3, DriverSteps
        <4> QED BY <1>1, <3>1, <4>1
      <3> QED BY <3>2, <3>3
    <2>3. RoundInv' BY <1>1, <1>7, <1>8, <1>10, <2>1, <2>2 DEF RoundInv, Writing, Scanning
    <2>4. /\ Count(a) \in 0..MaxDevices /\ UNCHANGED <<slots, eeprom>>
          /\ app.state \notin Writing /\ a.state \notin Writing
          /\ Persisting' => Persisting /\ Booted /\ Booted'
      BY <1>1, <1>7, <1>8, <1>10, RoundsAssumption DEF Writing, Persisting, Booted
    <2>5. MultiInv'
      BY <1>4, <1>7, <1>9, <1>10, <2>2, <2>3, <2>4, RoundStep DEF Writing, Persisting, Booted
    <2> QED BY <1>10, <2>5 DEF RamOutward
  <1>11. CASE a.cur > Count(a) /\ Evaluate(a) /\ ds18' = d
    <2>1. ~d.running BY <1>1, <1>6, <1>7, <1>8, <1>11
    <2> QED BY <1>1, <1>6, <1>7, <1>9, <1>11, <2>1, EvaluateKeeps
  <1> QED BY <1>5, <1>10, <1>11

LEMMA AbortedType ==
    ASSUME app \in AppType, SessionInv, app.state \in Writing
    PROVE  /\ Aborted \in AppType /\ Aborted.state = "WAIT" /\ Aborted.jobs = <<>>
           /\ Aborted.found = app.found /\ Aborted.boot = app.boot /\ Aborted.have = app.have
           /\ (~Aborted.off => ~app.off)
           /\ Aborted.fails <= FailLimit /\ (~Aborted.off => Aborted.fails < FailLimit)
  <1> DEFINE off == app.off \/ app.fails + 1 >= FailLimit
  <1>1. app.fails \in Nat /\ app.fails < FailLimit /\ app.off = FALSE
    BY DEF SessionInv, AppType
  <1>2. Aborted = [app EXCEPT !.jobs = <<>>, !.fails = app.fails + 1, !.off = off, !.state = "WAIT"]
    BY DEF Aborted, AppType
  <1>3. off \in BOOLEAN /\ <<>> \in Seq(Jobs) /\ (~off => app.fails + 1 < FailLimit)
    BY <1>1 DEF FailLimit
  <1> HIDE DEF off
  <1>4. app.fails + 1 \in Nat /\ app.fails + 1 <= FailLimit BY <1>1 DEF FailLimit
  <1> QED BY <1>1, <1>2, <1>3, <1>4 DEF AppType, States

\* What a copy does to the EEPROM: to the block of its job, and to no other.
Blocks == [rec : [Slots -> Records], rom : [Slots -> Roms]]

LEMMA Copied ==
    ASSUME eeprom \in Blocks, NEW j \in Jobs, NEW e \in {Programmed(j), Torn(j), eeprom}
    PROVE  /\ e \in Blocks
           /\ \A s \in Slots :
                 /\ s # j.slot \/ j.isRom => e.rec[s] = eeprom.rec[s]
                 /\ s # j.slot \/ ~j.isRom => e.rom[s] = eeprom.rom[s]
           /\ \/ e.rec[j.slot] = eeprom.rec[j.slot] \/ ~e.rec[j.slot].valid
              \/ ~j.isRom /\ e.rec[j.slot] = Record(j.temp, j.sensor)
           /\ e = Programmed(j) =>
                 IF j.isRom THEN e.rom[j.slot] = j.sensor ELSE e.rec[j.slot] = Record(j.temp, j.sensor)
           /\ ~j.isRom /\ e.rec[j.slot] = Record(j.temp, j.sensor) => e = Programmed(j)
  <1>1. /\ j.slot \in Slots /\ j.sensor \in Devices /\ j.temp \in Nat /\ j.isRom \in BOOLEAN
    BY DEF Jobs
  <1>2. /\ Record(j.temp, j.sensor) \in Records /\ Invalid \in Records /\ ~Invalid.valid
        /\ j.sensor \in Roms /\ NoRom \in Roms /\ Record(j.temp, j.sensor).valid
    BY <1>1, InvalidIsRecord DEF Records, Record, Roms, Invalid
  <1>3. CASE e = Programmed(j) BY <1>1, <1>2, <1>3 DEF Programmed, Blocks
  <1>4. CASE e = Torn(j) /\ e # Programmed(j) BY <1>1, <1>2, <1>4 DEF Torn, Blocks
  <1>5. CASE e = eeprom /\ e # Programmed(j)
    <2>1. ASSUME ~j.isRom, eeprom.rec[j.slot] = Record(j.temp, j.sensor) PROVE FALSE
      <3> DEFINE rec == [eeprom.rec EXCEPT ![j.slot] = Record(j.temp, j.sensor)]
      <3>1. rec = eeprom.rec BY <1>1, <2>1 DEF Blocks
      <3>2. Programmed(j) = [eeprom EXCEPT !.rec = rec] BY <2>1 DEF Programmed, Blocks
      <3> HIDE DEF rec
      <3>3. Programmed(j) = eeprom BY <3>1, <3>2 DEF Blocks
      <3> QED BY <3>3, <1>5
    <2> QED BY <1>1, <1>5, <2>1
  <1> QED BY <1>3, <1>4, <1>5

\* A session that aborts: the block of the job was left as it was, or the
\* application no longer knows it.
LEMMA AbortKeeps ==
    ASSUME MultiInv, app.state \in Writing, app' = Aborted, UNCHANGED <<slots, ds18>>,
           \/ app.state # "WRITE_READBACK" /\ UNCHANGED <<eeprom, log>>
           \/ /\ eeprom' \in {Programmed(app.jobs[1]), Torn(app.jobs[1]), eeprom}
              /\ log' = Uncommitted(app.jobs[1], eeprom')
    PROVE  MultiInv'
  <1> DEFINE j == app.jobs[1]
  <1>1. /\ TypeInv /\ RoundInv /\ SessionInv /\ StoredInv /\ j \in Jobs /\ Persisting
        /\ eeprom \in Blocks /\ log \in LogType
    BY RemainingJobs
    DEF MultiInv, SessionInv, TypeInv, AppType, Persisting, Booted, Writing, Blocks
  <1>2. /\ app' \in AppType /\ app'.state = "WAIT" /\ app'.jobs = <<>> /\ app'.found = app.found
        /\ app'.boot = app.boot /\ app'.have = app.have
        /\ app'.fails <= FailLimit /\ (~app'.off => app'.fails < FailLimit)
    BY <1>1, AbortedType DEF TypeInv
  <1>3. j.slot \in Slots /\ j.isRom \in BOOLEAN BY <1>1 DEF Jobs
  <1>4. CASE app.state # "WRITE_READBACK" /\ UNCHANGED <<eeprom, log>>
    <2>1. \A s \in Slots : ~Unread(s, FALSE) /\ ~Unread(s, TRUE) /\ RecStored(s) /\ RomStored(s)
      BY <1>1, <1>4 DEF Unread, StoredInv
    <2>2. StoredInv' BY <1>2, <1>4, <2>1 DEF StoredInv, RecStored, RomStored, Booted
    <2>3. TypeInv' /\ Count(app)' = Count(app) BY <1>1, <1>2, <1>4 DEF TypeInv, Count
    <2>4. RoundInv' BY <1>1, <1>2, <2>3 DEF RoundInv, Writing, Scanning
    <2>5. SessionInv' BY <1>2 DEF SessionInv, Writing, JobsInOrder, JobsFit
    <2> QED BY <2>2, <2>3, <2>4, <2>5 DEF MultiInv
  <1>5. CASE /\ eeprom' \in {Programmed(j), Torn(j), eeprom}
             /\ log' = Uncommitted(j, eeprom')
    <2> DEFINE x == log.blind[j.slot] \/ (~j.isRom /\ Programmed(j) = eeprom')
               y == slots[j.slot].rom # eeprom'.rom[j.slot]
    <2>1. x \in BOOLEAN /\ y \in BOOLEAN BY <1>1, <1>3 DEF LogType
    <2>2. log' = [log EXCEPT !.blind[j.slot] = x, !.blindRom[j.slot] = y]
      BY <1>5 DEF Uncommitted
    <2>3. /\ ~x => ~log.blind[j.slot] /\ (j.isRom \/ Programmed(j) # eeprom')
          /\ ~y => slots[j.slot].rom = eeprom'.rom[j.slot]
      OBVIOUS
    <2> HIDE DEF x, y, j
    <2>4. log' \in LogType /\ log'.blind[j.slot] = x /\ log'.blindRom[j.slot] = y
          /\ \A s \in Slots \ {j.slot} :
                log'.blind[s] = log.blind[s] /\ log'.blindRom[s] = log.blindRom[s]
      BY <1>1, <1>3, <2>1, <2>2 DEF LogType
    <2>5. /\ eeprom' \in Blocks
          /\ \A s \in Slots :
                /\ s # j.slot \/ j.isRom => eeprom'.rec[s] = eeprom.rec[s]
                /\ s # j.slot => eeprom'.rom[s] = eeprom.rom[s]
          /\ \/ eeprom'.rec[j.slot] = eeprom.rec[j.slot] \/ ~eeprom'.rec[j.slot].valid
             \/ ~j.isRom /\ eeprom'.rec[j.slot] = Record(j.temp, j.sensor)
          /\ ~j.isRom /\ eeprom'.rec[j.slot] = Record(j.temp, j.sensor) => eeprom' = Programmed(j)
      BY <1>1, <1>5, Copied
    <2>6. TypeInv' /\ Count(app)' = Count(app)
      BY <1>1, <1>2, <2>4, <2>5 DEF TypeInv, Count, Blocks
    <2>7. RoundInv' BY <1>1, <1>2, <2>6 DEF RoundInv, Writing, Scanning
    <2>8. SessionInv' BY <1>2 DEF SessionInv, Writing, JobsInOrder, JobsFit
    <2>9. StoredInv'
      <3> SUFFICES ASSUME NEW s \in Slots
                   PROVE  /\ ~log'.blind[s] =>
                                eeprom'.rec[s] = slots[s].rec \/ ~eeprom'.rec[s].valid
                          /\ ~log'.blindRom[s] /\ slots[s].rom # NoRom =>
                                eeprom'.rom[s] = slots[s].rom
        BY <1>2 DEF StoredInv, RecStored, RomStored, Booted
      <3>1. RecStored(s) /\ RomStored(s) BY <1>1 DEF StoredInv
      <3>2. CASE s # j.slot
        <4>1. ~Unread(s, FALSE) /\ ~Unread(s, TRUE) BY <3>2 DEF Unread, j
        <4> QED BY <2>4, <2>5, <3>1, <3>2, <4>1 DEF RecStored, RomStored
      <3>3. CASE s = j.slot
        <4>1. ASSUME ~log'.blind[s] PROVE eeprom'.rec[s] = slots[s].rec \/ ~eeprom'.rec[s].valid
          <5>1. ~log.blind[s] /\ (j.isRom \/ Programmed(j) # eeprom') BY <2>3, <2>4, <3>3, <4>1
          <5>2. ~j.isRom => eeprom'.rec[s] # Record(j.temp, j.sensor) BY <2>5, <3>3, <5>1
          <5>3. Unread(s, FALSE) => ~j.isRom BY <1>3 DEF Unread, j
          <5>4. \/ eeprom.rec[s] = slots[s].rec
                \/ ~eeprom.rec[s].valid
                \/ Unread(s, FALSE) /\ eeprom.rec[s] = Record(j.temp, j.sensor)
            BY <3>1, <5>1 DEF RecStored, j
          <5> QED BY <2>5, <3>3, <5>2, <5>3, <5>4
        <4>2. ASSUME ~log'.blindRom[s] PROVE eeprom'.rom[s] = slots[s].rom
          BY <2>3, <2>4, <3>3, <4>2
        <4> QED BY <4>1, <4>2
      <3> QED BY <3>2, <3>3
    <2> QED BY <2>6, <2>7, <2>8, <2>9 DEF MultiInv
  <1> QED BY <1>4, <1>5

\* The job at the head of a session that is writing.
LEMMA WritingSession ==
    ASSUME MultiInv, app.state \in Writing
    PROVE  /\ TypeInv /\ RoundInv /\ SessionInv /\ Persisting
           /\ \A s \in Slots : RecStored(s) /\ RomStored(s)
           /\ app.jobs \in Seq(Jobs) /\ app.jobs # <<>> /\ app.jobs[1] \in Jobs
           /\ app.jobs[1].slot \in Slots /\ app.jobs[1].isRom \in BOOLEAN
           /\ Tail(app.jobs) \in Seq(Jobs) /\ JobsInOrder(Tail(app.jobs))
           /\ JobsFit(Tail(app.jobs), Commit(slots, app.jobs[1]))
  <1>1. /\ TypeInv /\ RoundInv /\ SessionInv /\ StoredInv /\ Persisting
        /\ app.jobs \in Seq(Jobs) /\ app.jobs # <<>> /\ slots \in SlotsType
    BY DEF MultiInv, SessionInv, TypeInv, AppType, Persisting, Booted, Writing
  <1>2. \A s \in Slots : RecStored(s) /\ RomStored(s) BY <1>1 DEF StoredInv
  <1>3. /\ app.jobs[1] \in Jobs /\ Tail(app.jobs) \in Seq(Jobs) /\ JobsInOrder(Tail(app.jobs))
        /\ JobsFit(Tail(app.jobs), Commit(slots, app.jobs[1]))
    BY <1>1, RemainingJobs DEF SessionInv
  <1> QED BY <1>1, <1>2, <1>3 DEF Jobs

LEMMA WritingKeeps ==
    ASSUME MultiInv, WriteScratch \/ WriteVerify \/ WriteCopy PROVE MultiInv'
  <1>1. app.state \in Writing /\ app.state # "WRITE_READBACK" /\ UNCHANGED <<slots, ds18>>
    BY DEF WriteScratch, WriteVerify, StepTo, WriteCopy, Writing
  <1>2. \/ app' = Aborted /\ UNCHANGED <<eeprom, log>>
        \/ /\ app' = Aborted
           /\ eeprom' \in {Programmed(app.jobs[1]), Torn(app.jobs[1]), eeprom}
           /\ log' = Uncommitted(app.jobs[1], eeprom')
        \/ /\ app' = [app EXCEPT !.state = "WRITE_VERIFY"] /\ UNCHANGED <<eeprom, log>>
        \/ /\ app' = [app EXCEPT !.state = "WRITE_COPY"] /\ UNCHANGED <<eeprom, log>>
        \/ /\ app.state = "WRITE_COPY" /\ app' = [app EXCEPT !.state = "WRITE_READBACK"]
           /\ eeprom' \in {Programmed(app.jobs[1]), Torn(app.jobs[1]), eeprom} /\ UNCHANGED log
    BY DEF WriteScratch, WriteVerify, StepTo, WriteCopy
  <1>3. CASE app' = Aborted /\ UNCHANGED <<eeprom, log>> BY <1>1, <1>3, AbortKeeps
  <1>4. CASE /\ app' = Aborted
             /\ eeprom' \in {Programmed(app.jobs[1]), Torn(app.jobs[1]), eeprom}
             /\ log' = Uncommitted(app.jobs[1], eeprom')
    BY <1>1, <1>4, AbortKeeps
  <1>5. ASSUME NEW to \in Writing, app' = [app EXCEPT !.state = to], UNCHANGED log,
               \/ to # "WRITE_READBACK" /\ UNCHANGED eeprom
               \/ /\ to = "WRITE_READBACK"
                  /\ eeprom' \in {Programmed(app.jobs[1]), Torn(app.jobs[1]), eeprom}
        PROVE  MultiInv'
    <2> DEFINE j == app.jobs[1]
    <2>1. /\ TypeInv /\ RoundInv /\ SessionInv /\ Persisting /\ j \in Jobs
          /\ \A s \in Slots : RecStored(s) /\ RomStored(s)
          /\ j.slot \in Slots /\ j.isRom \in BOOLEAN
      BY <1>1, WritingSession
    <2>2. /\ app' \in AppType /\ app'.state = to /\ app'.jobs = app.jobs /\ app'.found = app.found
          /\ app'.boot = app.boot /\ app'.have = app.have
          /\ app'.fails = app.fails /\ app'.off = app.off
      BY <1>5, <2>1 DEF TypeInv, AppType, States, EepromStates, Writing
    <2>3. /\ eeprom' \in Blocks
          /\ \A s \in Slots :
                /\ \/ eeprom'.rec[s] = eeprom.rec[s] \/ ~eeprom'.rec[s].valid
                   \/ /\ to = "WRITE_READBACK" /\ s = j.slot /\ ~j.isRom
                      /\ eeprom'.rec[s] = Record(j.temp, j.sensor)
                /\ \/ eeprom'.rom[s] = eeprom.rom[s]
                   \/ to = "WRITE_READBACK" /\ s = j.slot /\ j.isRom
      <3>1. eeprom \in Blocks BY <2>1 DEF TypeInv, Blocks
      <3>2. CASE to # "WRITE_READBACK" /\ UNCHANGED eeprom BY <3>1, <3>2
      <3>3. CASE to = "WRITE_READBACK" /\ eeprom' \in {Programmed(j), Torn(j), eeprom}
        <4> HIDE DEF j
        <4> QED BY <2>1, <3>1, <3>3, Copied
      <3> QED BY <3>2, <3>3, <1>5
    <2>4. TypeInv' /\ Count(app)' = Count(app)
      BY <1>1, <1>5, <2>1, <2>2, <2>3 DEF TypeInv, Blocks, Count
    <2>5. RoundInv' BY <1>1, <1>5, <2>1, <2>2, <2>4 DEF RoundInv, Writing, Scanning
    <2>6. SessionInv' BY <1>1, <1>5, <2>1, <2>2 DEF SessionInv
    <2>7. StoredInv'
      <3> SUFFICES ASSUME NEW s \in Slots PROVE RecStored(s)' /\ RomStored(s)'
        BY <1>5, <2>2 DEF StoredInv, Booted, Writing
      <3>1. /\ ~Unread(s, FALSE) /\ ~Unread(s, TRUE)
            /\ Unread(s, FALSE)' <=> to = "WRITE_READBACK" /\ s = j.slot /\ ~j.isRom
            /\ Unread(s, TRUE)' <=> to = "WRITE_READBACK" /\ s = j.slot /\ j.isRom
        BY <1>1, <2>1, <2>2 DEF Unread
      <3>2. RecStored(s) /\ RomStored(s) BY <2>1
      <3>3. app'.jobs[1] = j BY <2>2
      <3> HIDE DEF j
      <3>4. RecStored(s)' BY <1>1, <1>5, <2>3, <3>1, <3>2, <3>3 DEF RecStored
      <3>5. RomStored(s)' BY <1>1, <1>5, <2>3, <3>1, <3>2 DEF RomStored
      <3> QED BY <3>4, <3>5
    <2> QED BY <2>4, <2>5, <2>6, <2>7 DEF MultiInv
  <1> QED BY <1>2, <1>3, <1>4, <1>5 DEF Writing

LEMMA WriteReadBackKeeps == ASSUME MultiInv, WriteReadBack PROVE MultiInv'
  <1> DEFINE j == app.jobs[1]
  <1>1. app.state = "WRITE_READBACK" /\ UNCHANGED <<eeprom, ds18>> /\ app.state \in Writing
    BY DEF WriteReadBack, Writing
  <1>2. /\ TypeInv /\ RoundInv /\ SessionInv /\ Persisting /\ j \in Jobs
        /\ \A s \in Slots : RecStored(s) /\ RomStored(s)
        /\ j.slot \in Slots /\ j.isRom \in BOOLEAN /\ app.jobs \in Seq(Jobs) /\ app.jobs # <<>>
        /\ Tail(app.jobs) \in Seq(Jobs) /\ JobsInOrder(Tail(app.jobs))
        /\ JobsFit(Tail(app.jobs), Commit(slots, j))
    BY <1>1, WritingSession
  <1>3. CASE /\ ReadsBack(j)
             /\ slots' = Commit(slots, j)
             /\ app' = [app EXCEPT !.jobs = Tail(@), !.fails = 0,
                                   !.state = IF Len(app.jobs) > 1 THEN "WRITE_SCRATCH" ELSE "WAIT"]
             /\ log' = IF j.isRom THEN [log EXCEPT !.blindRom[j.slot] = FALSE]
                       ELSE [log EXCEPT !.blind[j.slot] = FALSE]
    <2> DEFINE rest == Tail(app.jobs)
               to == IF Len(app.jobs) > 1 THEN "WRITE_SCRATCH" ELSE "WAIT"
    <2>1. to = IF rest = <<>> THEN "WAIT" ELSE "WRITE_SCRATCH"
      <3>1. Len(app.jobs) \in Nat \ {0} /\ Len(rest) = Len(app.jobs) - 1 /\ rest \in Seq(Jobs)
        BY <1>2, EmptySeq, HeadTailProperties, LenProperties
      <3>2. rest = <<>> <=> Len(rest) = 0 BY <3>1, EmptySeq
      <3> QED BY <3>1, <3>2
    <2>2. app' = [app EXCEPT !.jobs = rest, !.fails = 0, !.state = to] BY <1>3
    <2>3. rest \in Seq(Jobs) /\ JobsInOrder(rest) /\ JobsFit(rest, slots') BY <1>2, <1>3
    <2> HIDE DEF rest, to
    <2>4. to \in States /\ app \in AppType BY <1>2, <2>1 DEF States, EepromStates, TypeInv
    <2>5. /\ app' \in AppType /\ app'.state = to /\ app'.jobs = rest /\ app'.found = app.found
          /\ app'.boot = app.boot /\ app'.have = app.have
          /\ app'.fails = 0 /\ app'.off = app.off
      BY <2>2, <2>3, <2>4 DEF AppType
    <2>6. /\ slots' \in SlotsType /\ log' \in LogType
          /\ slots'[j.slot].rec =
                IF j.isRom THEN slots[j.slot].rec ELSE Record(j.temp, j.sensor)
          /\ slots'[j.slot].rom = IF j.isRom THEN j.sensor ELSE slots[j.slot].rom
          /\ \A s \in Slots \ {j.slot} : slots'[s] = slots[s]
          /\ \A s \in Slots :
                /\ s # j.slot \/ j.isRom => log'.blind[s] = log.blind[s]
                /\ s # j.slot \/ ~j.isRom => log'.blindRom[s] = log.blindRom[s]
      <3>1. Record(j.temp, j.sensor) \in Records /\ j.sensor \in Roms
        BY <1>2 DEF Jobs, Records, Record, Roms
      <3>2. slots \in SlotsType /\ log \in LogType BY <1>2 DEF TypeInv
      <3> HIDE DEF j
      <3>3. CASE j.isRom
        <4>1. slots' = [slots EXCEPT ![j.slot].rom = j.sensor]
              /\ log' = [log EXCEPT !.blindRom[j.slot] = FALSE]
          BY <1>3, <3>3 DEF Commit
        <4> QED BY <1>2, <3>1, <3>2, <3>3, <4>1 DEF SlotsType, LogType
      <3>4. CASE ~j.isRom
        <4>1. slots' = [slots EXCEPT ![j.slot].rec = Record(j.temp, j.sensor)]
              /\ log' = [log EXCEPT !.blind[j.slot] = FALSE]
          BY <1>3, <3>4 DEF Commit
        <4> QED BY <1>2, <3>1, <3>2, <3>4, <4>1 DEF SlotsType, LogType
      <3> QED BY <3>3, <3>4
    <2>7. TypeInv' /\ Count(app)' = Count(app) BY <1>1, <1>2, <2>5, <2>6 DEF TypeInv, Count
    <2>8. RoundInv' BY <1>1, <1>2, <2>1, <2>5, <2>7 DEF RoundInv, Writing, Scanning
    <2>9. SessionInv'
      <3>1. app.have /\ ~app.off BY <1>2 DEF Persisting
      <3> QED BY <3>1, <2>1, <2>3, <2>5 DEF SessionInv, Writing, FailLimit
    <2>10. IF j.isRom THEN eeprom.rom[j.slot] = j.sensor
           ELSE eeprom.rec[j.slot] = Record(j.temp, j.sensor)
      <3>1. eeprom = Programmed(j) /\ eeprom \in Blocks BY <1>2, <1>3 DEF ReadsBack, TypeInv, Blocks
      <3> HIDE DEF j
      <3> QED BY <1>2, <3>1, Copied
    <2>11. StoredInv'
      <3> SUFFICES ASSUME NEW s \in Slots PROVE RecStored(s)' /\ RomStored(s)'
        BY <2>1, <2>5 DEF StoredInv, Booted
      <3>1. ~Unread(s, FALSE)' /\ ~Unread(s, TRUE)' BY <2>1, <2>5 DEF Unread
      <3>2. /\ s # j.slot \/ j.isRom => ~Unread(s, FALSE)
            /\ s # j.slot \/ ~j.isRom => ~Unread(s, TRUE)
        BY <1>2 DEF Unread
      <3>3. RecStored(s) /\ RomStored(s) BY <1>2
      <3> HIDE DEF j
      <3>4. RecStored(s)' BY <1>1, <2>6, <2>10, <3>1, <3>2, <3>3 DEF RecStored
      <3>5. RomStored(s)' BY <1>1, <2>6, <2>10, <3>1, <3>2, <3>3 DEF RomStored
      <3> QED BY <3>4, <3>5
    <2> QED BY <2>7, <2>8, <2>9, <2>11 DEF MultiInv
  <1>4. CASE app' = Aborted /\ log' = Uncommitted(j, eeprom) /\ UNCHANGED slots
    BY <1>1, <1>4, AbortKeeps
  <1> QED BY <1>3, <1>4 DEF WriteReadBack

LEMMA RestartKeeps == ASSUME MultiInv, Restart PROVE MultiInv'
  <1>1. /\ app' = Powered /\ slots' = NoSlots /\ ds18' = Parked(ds18.par)
        /\ \/ eeprom' = eeprom
           \/ /\ app.state = "WRITE_COPY"
              /\ eeprom' \in {eeprom, Programmed(app.jobs[1]), Torn(app.jobs[1])}
    BY DEF Restart
  <1>2. TypeInv /\ ds18' \in DriverType /\ ~ds18'.running
    BY <1>1, ParkedType DEF MultiInv, TypeInv, DriverType
  <1>3. eeprom' \in Blocks
    <2>1. eeprom \in Blocks BY <1>2 DEF TypeInv, Blocks
    <2>2. CASE app.state = "WRITE_COPY"
               /\ eeprom' \in {eeprom, Programmed(app.jobs[1]), Torn(app.jobs[1])}
      <3>1. app.jobs[1] \in Jobs BY <2>2, WritingSession DEF Writing
      <3> QED BY <2>1, <2>2, <3>1, Copied
    <2> QED BY <1>1, <2>1, <2>2
  <1>4. log' \in LogType
    <2> DEFINE r    == log.restarts + 1
               none == [s \in Slots |-> FALSE]
    <2>1. log \in LogType /\ r \in Nat /\ none \in [Slots -> BOOLEAN] BY <1>2 DEF TypeInv, LogType
    <2>2. log' = [log EXCEPT !.restarts = r, !.blind = none, !.blindRom = none]
      BY DEF Restart, LogType, TypeInv
    <2> HIDE DEF r, none
    <2> QED BY <2>1, <2>2 DEF LogType
  <1>5. TypeInv' /\ Count(app)' = 0
    BY <1>1, <1>2, <1>3, <1>4, PoweredUp, InvalidIsRecord, RoundsAssumption DEF TypeInv, Blocks, Count
  <1>6. RoundInv' BY <1>1, <1>2, <1>5, PoweredUp DEF RoundInv, Writing, Scanning
  <1>7. SessionInv' BY <1>1, PoweredUp DEF SessionInv, Writing, FailLimit, JobsInOrder, JobsFit
  <1>8. StoredInv' BY <1>1, PoweredUp DEF StoredInv, Persisting, Booted
  <1> QED BY <1>5, <1>6, <1>7, <1>8 DEF MultiInv

LEMMA MultiNext == MultiInv /\ [Next]_vars => MultiInv'
  <1> SUFFICES ASSUME MultiInv, [Next]_vars PROVE MultiInv' OBVIOUS
  <1>1. CASE SearchDs18 \/ SearchAll BY <1>1, SearchesKeep
  <1>2. CASE BootRead BY <1>2, BootReadKeeps
  <1>3. CASE Wait \/ MeasureStart \/ ScanRestarts \/ ScanTimeout \/ ScanDrained
    BY <1>3, RoundsKeep
  <1>4. CASE ScanReport BY <1>4, ScanReportKeeps
  <1>5. CASE SequentialReport BY <1>5, SequentialReportKeeps
  <1>6. CASE WriteScratch \/ WriteVerify \/ WriteCopy BY <1>6, WritingKeeps
  <1>7. CASE WriteReadBack BY <1>7, WriteReadBackKeeps
  <1>8. CASE Restart BY <1>8, RestartKeeps
  <1>9. CASE UNCHANGED vars
    <2>1. TypeInv' /\ Count(app)' = Count(app) BY <1>9 DEF vars, MultiInv, TypeInv, Count
    <2>2. RoundInv' BY <1>9, <2>1 DEF vars, MultiInv, RoundInv, Scanning, RoundSoFar, NoReading
    <2>3. SessionInv' /\ StoredInv'
      BY <1>9 DEF vars, MultiInv, SessionInv, StoredInv, Booted, Persisting, RecStored, RomStored,
                  Unread
    <2> QED BY <2>1, <2>2, <2>3 DEF MultiInv
  <1> QED BY <1>1, <1>2, <1>3, <1>4, <1>5, <1>6, <1>7, <1>8, <1>9 DEF Next, Recorder

LEMMA MultiSafe == Spec => []MultiInv
  BY MultiInit, MultiNext, PTL DEF Spec

-----------------------------------------------------------------------------
(***************************************************************************)
(* What results and records are filed under.                               *)
(***************************************************************************)
\* Once a round was cut short that is history, and it was on a parasite bus.
LEMMA CutStays ==
    ASSUME MultiInv, [Next]_vars
    PROVE  (log.cut => log'.cut) /\ (log'.cut => log.cut \/ ds18.par)
  <1>0. log \in LogType BY DEF MultiInv, TypeInv
  <1>1. CASE UNCHANGED log BY <1>1
  <1>2. CASE BootRead
    <2>1. \/ UNCHANGED log
          \/ \E f : log' = [log EXCEPT !.blind = f]
      BY <1>2 DEF BootRead
    <2> QED BY <1>0, <2>1 DEF LogType
  <1>3. CASE ScanReport
    <2>1. PICK absent \in BOOLEAN :
            log' = [log EXCEPT !.cut = @ \/ (absent /\ ds18.par /\ ds18.index < Count(app))]
      BY <1>3 DEF ScanReport
    <2> DEFINE x == absent /\ ds18.par /\ ds18.index < Count(app)
    <2>2. x => ds18.par OBVIOUS
    <2>3. log' = [log EXCEPT !.cut = log.cut \/ x] BY <1>0, <2>1 DEF LogType
    <2> HIDE DEF x
    <2>4. log'.cut = (log.cut \/ x) BY <1>0, <2>3 DEF LogType
    <2> QED BY <2>2, <2>4
  <1>4. ASSUME NEW j, NEW e, log' = Uncommitted(j, e) PROVE log'.cut = log.cut
    BY <1>0, <1>4 DEF Uncommitted, LogType
  <1>5. CASE WriteCopy BY <1>1, <1>4, <1>5 DEF WriteCopy
  <1>6. CASE WriteReadBack
    <2>1. \/ log' = Uncommitted(app.jobs[1], eeprom)
          \/ \E s : log' = [log EXCEPT !.blindRom[s] = FALSE] \/ log' = [log EXCEPT !.blind[s] = FALSE]
      BY <1>6 DEF WriteReadBack
    <2> QED BY <1>0, <1>4, <2>1 DEF LogType
  <1>7. CASE Restart BY <1>0, <1>7 DEF Restart, LogType
  <1> QED BY <1>1, <1>2, <1>3, <1>5, <1>6, <1>7
      DEF Next, Recorder, vars, SearchDs18, SearchAll, Wait, MeasureStart, ScanRestarts,
          ScanTimeout, ScanDrained, SequentialReport, WriteScratch, WriteVerify, StepTo

\* The supply of the DS18B20s is the board's.
LEMMA SupplyStays == ASSUME MultiInv, [Next]_vars PROVE ds18'.par = ds18.par
  <1>1. ds18 \in DriverType BY DEF MultiInv, TypeInv
  <1>2. ASSUME NEW d, d.par = ds18.par, NEW x, DOMAIN d = DOMAIN ds18
        PROVE  Selected(d).par = d.par /\ Started(d, x).par = d.par
    BY <1>1, <1>2 DEF Selected, Started, DriverType
  <1>3. ASSUME NEW absent
        PROVE  AfterReport(absent).par = ds18.par /\ DOMAIN AfterReport(absent) = DOMAIN ds18
    BY <1>1 DEF AfterReport, DriverType
  <1>4. Polled.par = ds18.par /\ DOMAIN Polled = DOMAIN ds18 BY <1>1 DEF Polled, DriverType
  <1>5. CASE ScanReport
    <2>1. \E absent \in BOOLEAN : ds18' \in {AfterReport(absent), Selected(AfterReport(absent))}
      BY <1>5 DEF ScanReport, SwitchToSequential
    <2> QED BY <1>2, <1>3, <2>1
  <1>6. CASE SequentialReport
    <2> DEFINE scan == FALSE
    <2>1. PICK absent \in BOOLEAN : ds18' \in {AfterReport(absent), Started(AfterReport(absent), scan)}
      BY <1>6 DEF SequentialReport
    <2> HIDE DEF scan
    <2> QED BY <1>2, <1>3, <2>1
  <1>7. CASE MeasureStart BY <1>2, <1>7 DEF MeasureStart
  <1>8. CASE ScanRestarts \/ ScanTimeout \/ ScanDrained
    <2>1. ds18' \in {Polled, Selected(Polled)}
      BY <1>8 DEF ScanRestarts, ScanTimeout, ScanDrained, SwitchToSequential
    <2> QED BY <1>2, <1>4, <2>1
  <1>9. CASE Restart BY <1>9 DEF Restart, Parked
  <1>10. CASE UNCHANGED ds18 BY <1>10
  <1> QED BY <1>5, <1>6, <1>7, <1>8, <1>9, <1>10
      DEF Next, Recorder, vars, SearchDs18, SearchAll, BootRead, Wait, WriteScratch, WriteVerify,
          StepTo, WriteCopy, WriteReadBack

\* Outside a round the driver is parked, and nothing is aligned with it.
LEMMA ParkedIsAligned ==
    ASSUME app'.state # "MEASURE_WAIT", ~ds18'.running PROVE AlignedInv'
  BY DEF AlignedInv, Scanning

\* The jobs of a round file each temperature under the sensor it came from.
LEMMA QueuedMeasured ==
    ASSUME NEW s, NEW temp, NEW sensor, temp \in TempsOf[sensor]
    PROVE  JobsMeasured(Queued(s, temp, sensor))
  <1> DEFINE rom == Job(TRUE, s, temp, sensor)
             rec == Job(FALSE, s, temp, sensor)
             q   == Queued(s, temp, sensor)
  <1>1. rom.temp = temp /\ rom.sensor = sensor /\ rec.temp = temp /\ rec.sensor = sensor
    BY DEF Job
  <1>2. q = <<rom>> \o <<rec>> \/ q = <<>> \o <<rec>> BY DEF Queued
  <1> HIDE DEF rom, rec, q
  <1>3. <<rom>> \in Seq({rom, rec}) /\ <<rec>> \in Seq({rom, rec}) /\ <<>> \in Seq({rom, rec})
    OBVIOUS
  <1>4. q \in Seq({rom, rec}) BY <1>2, <1>3, ConcatProperties
  <1>5. \A k \in 1..Len(q) : q[k] \in {rom, rec} BY <1>4, ElementOfSeq
  <1>6. \A k \in 1..Len(q) : q[k].temp = temp /\ q[k].sensor = sensor BY <1>1, <1>5
  <1>7. JobsMeasured(q) BY <1>6 DEF JobsMeasured
  <1> QED BY <1>7 DEF q

LEMMA JoinedMeasured ==
    ASSUME NEW S, NEW p \in Seq(S), NEW q \in Seq(S), JobsMeasured(p), JobsMeasured(q)
    PROVE  JobsMeasured(p \o q)
  <1> DEFINE j == p \o q
  <1>1. /\ j \in Seq(S) /\ Len(j) = Len(p) + Len(q) /\ Len(p) \in Nat /\ Len(q) \in Nat
        /\ \A k \in 1..Len(p) : j[k] = p[k]
        /\ \A k \in (Len(p) + 1)..Len(j) : j[k] = q[k - Len(p)]
    BY ConcatProperties, LenProperties
  <1> HIDE DEF j
  <1>2. ASSUME NEW k \in 1..Len(j) PROVE j[k].temp \in TempsOf[j[k].sensor]
    <2>1. CASE k <= Len(p)
      <3>1. k \in 1..Len(p) BY <1>1, <2>1
      <3> QED BY <1>1, <3>1 DEF JobsMeasured
    <2>2. CASE ~(k <= Len(p))
      <3>1. k \in (Len(p) + 1)..Len(j) /\ k - Len(p) \in 1..Len(q) BY <1>1, <2>2
      <3> QED BY <1>1, <3>1 DEF JobsMeasured
    <2> QED BY <2>1, <2>2
  <1> QED BY <1>2 DEF JobsMeasured, j

LEMMA RoundMeasured ==
    ASSUME NEW a, a.found \in Seq(Devices), Count(a) \in 0..MaxDevices, a.temps \in Readings,
           slots \in SlotsType, TempsMeasured(a)
    PROVE  JobsMeasured(JobsOf(a))
  <1>1. CASE Good(a) = {}
    <2>1. JobsOf(a) = <<>> BY <1>1 DEF JobsOf
    <2> QED BY <2>1 DEF JobsMeasured
  <1>2. CASE Good(a) # {}
    <2> DEFINE hi == Highest(a)
               lo == Lowest(a)
               p == IF IsNew("peak", a.temps[hi]) THEN Queued("peak", a.temps[hi], a.found[hi]) ELSE <<>>
               q == IF IsNew("low", a.temps[lo]) THEN Queued("low", a.temps[lo], a.found[lo]) ELSE <<>>
    <2>1. hi \in Good(a) /\ lo \in Good(a) BY <1>2, Extremes
    <2>2. \A i \in Good(a) : a.found[i] \in Devices /\ a.temps[i] \in Nat
                             /\ a.temps[i] \in TempsOf[a.found[i]]
      BY ElementOfSeq, RoundsAssumption DEF Good, Readings, Positions, Count, TempsMeasured
    <2>3. JobsMeasured(<<>>) /\ <<>> \in Seq(Jobs) BY DEF JobsMeasured
    <2>4. JobsMeasured(p) /\ p \in Seq(Jobs)
      <3> HIDE DEF hi
      <3> QED BY <2>1, <2>2, <2>3, QueuedMeasured, QueuedJobs DEF Slots, SlotJobs
    <2>5. JobsMeasured(q) /\ q \in Seq(Jobs)
      <3> HIDE DEF lo
      <3> QED BY <2>1, <2>2, <2>3, QueuedMeasured, QueuedJobs DEF Slots, SlotJobs
    <2>6. JobsOf(a) = p \o q BY <1>2 DEF JobsOf
    <2> HIDE DEF p, q
    <2> QED BY <2>4, <2>5, <2>6, JoinedMeasured
  <1> QED BY <1>1, <1>2

\* A round that is evaluated: its readings become jobs or records.
LEMMA EvaluateFiles ==
    ASSUME MultiInv, SensorOfRecord, NEW a \in AppType, Count(a) \in 0..MaxDevices,
           TempsMeasured(a), a.jobs = <<>>, Evaluate(a), UNCHANGED eeprom
    PROVE  JobsMeasured(app'.jobs) /\ SensorOfRecord' /\ app'.state # "MEASURE_WAIT"
  <1> DEFINE jobs == JobsOf(a)
  <1>1. slots \in SlotsType /\ a.found \in Seq(Devices) /\ a.temps \in Readings
    BY DEF MultiInv, TypeInv, AppType
  <1>2. jobs \in Seq(Jobs) /\ JobsMeasured(jobs) BY <1>1, JobsOfRound, RoundMeasured
  <1>3. \/ app' = [a EXCEPT !.state = "WAIT"] /\ slots' = CommitAll(slots, jobs)
        \/ app' = [a EXCEPT !.state = "WRITE_SCRATCH", !.jobs = jobs] /\ slots' = slots
    BY DEF Evaluate
  <1> HIDE DEF jobs
  <1>4. JobsMeasured(<<>>) BY DEF JobsMeasured
  <1>5. JobsMeasured(app'.jobs) /\ app'.state # "MEASURE_WAIT" BY <1>2, <1>3, <1>4 DEF AppType
  <1>6. ASSUME NEW s \in Slots, slots' = CommitAll(slots, jobs), slots'[s].rec.valid
        PROVE  slots'[s].rec.temp \in TempsOf[slots'[s].rec.sensor]
    <2> DEFINE Recs == {k \in DOMAIN jobs : jobs[k].slot = s /\ ~jobs[k].isRom}
               last == CHOOSE k \in Recs : TRUE
    <2>1. slots'[s] = IF Recs = {} THEN slots[s]
                      ELSE [rec |-> Record(jobs[last].temp, jobs[last].sensor),
                            rom |-> jobs[last].sensor]
      BY <1>6 DEF CommitAll
    <2>2. CASE Recs = {} BY <1>6, <2>1, <2>2 DEF SensorOfRecord
    <2>3. CASE Recs # {}
      <3>1. last \in Recs BY <2>3
      <3>2. last \in 1..Len(jobs) BY <1>2, <3>1, LenProperties
      <3> HIDE DEF last
      <3> QED BY <1>2, <2>1, <2>3, <3>2 DEF JobsMeasured, Record
    <2> QED BY <2>2, <2>3
  <1>7. SensorOfRecord' BY <1>3, <1>6 DEF SensorOfRecord
  <1> QED BY <1>5, <1>7

\* The condition of the lemmas on the steps of a round.
Filed == MultiInv /\ AlignedInv /\ MeasuredInv

LEMMA RoundsAligned ==
    ASSUME Filed, MultiInv', Wait \/ MeasureStart \/ ScanRestarts \/ ScanTimeout \/ ScanDrained
    PROVE  AlignedInv' /\ MeasuredInv'
  <1>1. /\ TypeInv /\ RoundInv /\ UNCHANGED <<slots, eeprom, log>>
        /\ app \in AppType /\ ds18 \in DriverType /\ Count(app) \in 0..MaxDevices
        /\ AlignedInv /\ MeasuredInv
    BY DEF Filed, MultiInv, TypeInv, Wait, MeasureStart, ScanRestarts, ScanTimeout, ScanDrained,
           SwitchToSequential
  <1>2. ~ScanRestarts /\ (Scanning /\ RestartsItself => AllReported(app))
    BY <1>1 DEF ScanRestarts, RestartsItself, AlignedInv, AllReported, RoundInv, AppType
  <1>3. CASE Wait
    <2>1. app' = [app EXCEPT !.state = "MEASURE_START"] /\ ds18' = ds18 /\ app.state = "WAIT"
      BY <1>3 DEF Wait
    <2>2. app'.state = "MEASURE_START" /\ app'.jobs = app.jobs BY <1>1, <2>1 DEF AppType
    <2> QED BY <1>1, <2>1, <2>2 DEF AlignedInv, MeasuredInv, SensorOfRecord, Scanning
  <1>4. CASE MeasureStart
    <2> DEFINE none == [i \in 1..MaxDevices |-> Failed]
               scan == ~app.seq
    <2>1. app.state = "MEASURE_START" /\ scan \in BOOLEAN /\ ds18' = Started(ds18, scan)
          /\ app' = [app EXCEPT !.state = "MEASURE_WAIT", !.reported = 0, !.drain = FALSE,
                                !.cur = 1, !.temps = none]
      BY <1>4 DEF MeasureStart
    <2>2. \A i \in 1..MaxDevices : none[i] = Failed OBVIOUS
    <2> HIDE DEF none
    <2>3. /\ app'.state = "MEASURE_WAIT" /\ app'.reported = 0 /\ ~app'.drain /\ app'.cur = 1
          /\ app'.temps = none /\ app'.found = app.found /\ app'.jobs = app.jobs
          /\ app'.seq = app.seq
      BY <1>1, <2>1 DEF AppType
    <2>4. ds18'.running /\ ds18'.index = 1
      <3> HIDE DEF scan
      <3>1. CASE ds18.running
        <4>1. ds18' = ds18 BY <1>1, <2>1, <3>1, DriverSteps
        <4> QED BY <1>1, <2>1, <3>1, <4>1 DEF AlignedInv
      <3>2. CASE ~ds18.running BY <1>1, <2>1, <3>2, DriverSteps
      <3> QED BY <3>1, <3>2
    <2>5. AlignedInv' BY <2>3, <2>4 DEF AlignedInv, Scanning
    <2>6. TempsMeasured(app)'
      <3>1. \A i \in 1..Count(app) : i \in 1..MaxDevices BY <1>1, RoundsAssumption
      <3>2. Count(app)' = Count(app) BY <2>3 DEF Count
      <3> QED BY <2>2, <2>3, <3>1, <3>2 DEF TempsMeasured
    <2> QED BY <1>1, <2>3, <2>5, <2>6 DEF MeasuredInv, SensorOfRecord
  <1>5. CASE ScanTimeout
    <2>1. /\ Scanning /\ ~app.drain /\ ~AllReported(app) /\ Overdue(ScanRounds)
          /\ app' = [app EXCEPT !.drain = TRUE] /\ ds18' = Polled
      BY <1>5 DEF ScanTimeout
    <2>2. Polled = ds18 BY <1>2, <2>1 DEF Polled
    <2>3. ~ds18.running
      <3>1. ASSUME ds18.running PROVE FALSE
        <4>1. ds18.index = app.reported + 1 BY <1>1, <2>1, <3>1 DEF AlignedInv
        <4>2. app.reported - (ds18.index - 1) >= ScanRounds BY <2>1, <2>2, <3>1 DEF Overdue
        <4>3. app.reported \in Nat BY <1>1 DEF AppType
        <4> QED BY <4>1, <4>2, <4>3, RoundsAssumption
      <3> QED BY <3>1
    <2>4. /\ app'.state = app.state /\ app'.reported = app.reported /\ app'.found = app.found
          /\ app'.temps = app.temps /\ app'.jobs = app.jobs /\ app'.seq = app.seq
      BY <1>1, <2>1 DEF AppType
    <2>5. Count(app)' = Count(app) BY <2>4 DEF Count
    <2>6. AlignedInv' BY <1>1, <2>1, <2>2, <2>3, <2>4, <2>5 DEF AlignedInv, Scanning
    <2>7. TempsMeasured(app)' BY <1>1, <2>1, <2>4, <2>5 DEF MeasuredInv, TempsMeasured, Scanning
    <2> QED BY <1>1, <2>4, <2>6, <2>7 DEF MeasuredInv, SensorOfRecord
  <1>6. CASE ScanDrained
    <2>1. /\ Scanning /\ app.drain
          /\ \/ app' = [app EXCEPT !.seq = TRUE, !.state = "WAIT"] /\ ds18' = Selected(Polled)
             \/ app' = [app EXCEPT !.state = "WAIT"] /\ ds18' = Polled
      BY <1>6 DEF ScanDrained, SwitchToSequential
    <2>2. ~ds18.running BY <1>1, <2>1 DEF AlignedInv
    <2>3. Polled \in DriverType /\ (Polled.running => Polled.index = 1)
      BY <1>1, <2>2, DriverSteps
    <2>4. ds18'.running => ds18'.index = 1 BY <2>1, <2>3 DEF Selected, DriverType
    <2>5. app'.state = "WAIT" /\ app'.jobs = app.jobs BY <1>1, <2>1 DEF AppType
    <2> QED BY <1>1, <2>4, <2>5 DEF AlignedInv, MeasuredInv, SensorOfRecord, Scanning
  <1> QED BY <1>2, <1>3, <1>4, <1>5, <1>6

\* What a result leaves in the table of readings.
LEMMA StoredMeasured ==
    ASSUME Filed, app.state = "MEASURE_WAIT", ds18.running,
           NEW temp \in TempsOf[Asked] \cup {Failed}
    PROVE  TempsMeasured(Stored(temp))
  <1>1. /\ app \in AppType /\ ds18 \in DriverType /\ Count(app) \in 1..MaxDevices
        /\ Index \in Positions /\ RoundInv /\ AlignedInv /\ TempsMeasured(app)
        /\ TempsOf[Asked] \cup {Failed} \subseteq Nat \cup {Failed}
    BY AtReport DEF Filed, MeasuredInv
  <1>2. Asked = app.found[Index]
    <2>1. ~app.seq => ds18.scan BY <1>1 DEF RoundInv, Scanning
    <2>2. app.seq /\ ds18.scan => ds18.index = app.cur BY <1>1 DEF AlignedInv
    <2> QED BY <2>1, <2>2 DEF Asked, Index
  <1> DEFINE a == Stored(temp)
  <1>3. temp \in Nat \cup {Failed} BY <1>1
  <1>4. /\ a.found = app.found /\ a.temps[Index] = temp
        /\ \A i \in Positions \ {Index} : a.temps[i] = app.temps[i]
    BY <1>1, <1>3, StoredResult
  <1> HIDE DEF a
  <1>5. Count(a) = Count(app) /\ \A i \in 1..Count(app) : i \in Positions
    BY <1>1, <1>4, RoundsAssumption DEF Count, Positions
  <1>6. ASSUME NEW i \in 1..Count(a), a.temps[i] # Failed PROVE a.temps[i] \in TempsOf[a.found[i]]
    <2>1. CASE i = Index BY <1>2, <1>4, <1>6, <2>1
    <2>2. CASE i # Index BY <1>1, <1>4, <1>5, <1>6, <2>2 DEF TempsMeasured
    <2> QED BY <2>1, <2>2
  <1> QED BY <1>6 DEF TempsMeasured, a

LEMMA ScanReportAligned ==
    ASSUME Filed, MultiInv', ScanReport, ~log'.cut PROVE AlignedInv' /\ MeasuredInv'
  <1>1. /\ app.state = "MEASURE_WAIT" /\ ~app.seq /\ ds18.running /\ Scanning /\ MultiInv
        /\ app \in AppType /\ ds18 \in DriverType /\ SensorOfRecord /\ ~app.drain
        /\ Count(app) \in 1..MaxDevices /\ ds18.index \in 1..Count(app)
        /\ app.jobs = <<>> /\ Index \in Positions /\ ds18.index = app.reported + 1
        /\ UNCHANGED eeprom /\ log \in LogType
    BY AtReport DEF ScanReport, Scanning, Filed, AlignedInv, MeasuredInv, TypeInv
  <1>2. PICK temp \in TempsOf[Asked] \cup {Failed}, absent \in BOOLEAN :
          LET a == Stored(temp)  d == AfterReport(absent) IN
          /\ \/ /\ ~app.drain /\ GoodRound(a)
                /\ Evaluate(a) /\ ds18' = d
             \/ /\ ~(~app.drain /\ GoodRound(a)) /\ ~(app.drain /\ AllReported(a))
                /\ app' = [a EXCEPT !.drain = @ \/ AllReported(a)]
                /\ ds18' = d /\ UNCHANGED slots
             \/ /\ app.drain /\ AllReported(a)
                /\ SwitchToSequential(a, d) /\ UNCHANGED slots
          /\ log' = [log EXCEPT !.cut = @ \/ (absent /\ ds18.par /\ ds18.index < Count(app))]
    BY <1>1 DEF ScanReport
  <1> DEFINE a == Stored(temp)
             d == AfterReport(absent)
  <1>3. ~(absent /\ ds18.par /\ ds18.index < Count(app))
    <2> DEFINE x == absent /\ ds18.par /\ ds18.index < Count(app)
    <2>1. log' = [log EXCEPT !.cut = log.cut \/ x] BY <1>1, <1>2 DEF LogType
    <2> HIDE DEF x
    <2>2. log'.cut = (log.cut \/ x) BY <1>1, <2>1 DEF LogType
    <2>3. ~x BY <2>2
    <2> QED BY <2>3 DEF x
  <1>4. temp \in Nat \cup {Failed} BY <1>1, AtReport
  <1>5. /\ a \in AppType /\ a.reported = app.reported + 1 /\ a.state = "MEASURE_WAIT"
        /\ a.found = app.found /\ a.jobs = <<>> /\ ~a.seq /\ a.drain = FALSE
    BY <1>1, <1>4, StoredResult
  <1>6. TempsMeasured(a) BY <1>1, StoredMeasured
  <1>7. /\ d.par = ds18.par
        /\ \/ ~d.running /\ (absent \/ ds18.index = Count(app))
           \/ ds18.index < Count(app) /\ d.index = ds18.index + 1 /\ d.running
    <2>1. d = AfterReport(absent) /\ ds18.index <= Count(app) BY <1>1
    <2>2. ds18.scan BY <1>1 DEF MultiInv, RoundInv
    <2> HIDE DEF d
    <2> QED BY <1>1, <2>1, <2>2, ReportedDriver
  <1>8. \/ GoodRound(a) /\ Evaluate(a) /\ ds18' = d
        \/ app' = [a EXCEPT !.drain = a.drain \/ AllReported(a)] /\ ds18' = d /\ UNCHANGED slots
    BY <1>1, <1>2
  <1> HIDE DEF a, d
  <1>9. Count(a) = Count(app) BY <1>5 DEF Count
  <1>10. CASE GoodRound(a) /\ Evaluate(a) /\ ds18' = d
    <2>1. JobsMeasured(app'.jobs) /\ SensorOfRecord' /\ app'.state # "MEASURE_WAIT"
      BY <1>1, <1>5, <1>6, <1>9, <1>10, RoundsAssumption, EvaluateFiles
    <2>2. a.reported >= Count(app) BY <1>9, <1>10 DEF GoodRound, AllReported
    <2>3. ~ds18'.running BY <1>1, <1>5, <1>7, <1>10, <2>2
    <2> QED BY <2>1, <2>3, ParkedIsAligned DEF MeasuredInv
  <1>11. CASE app' = [a EXCEPT !.drain = a.drain \/ AllReported(a)] /\ ds18' = d /\ UNCHANGED slots
    <2> DEFINE drain == a.drain \/ AllReported(a)
    <2>1. drain => a.reported >= Count(app) BY <1>5, <1>9 DEF AllReported
    <2>2. app' = [a EXCEPT !.drain = drain] BY <1>11
    <2> HIDE DEF drain
    <2>3. /\ app'.reported = app.reported + 1 /\ app'.state = "MEASURE_WAIT"
          /\ app'.found = a.found /\ app'.jobs = <<>> /\ ~app'.seq /\ app'.drain = drain
          /\ app'.temps = a.temps
      BY <1>5, <2>2 DEF AppType
    <2>4. Count(app)' = Count(app) BY <1>5, <2>3 DEF Count
    <2>5. AlignedInv'
      <3>1. CASE ~d.running
        <4>1. app'.reported < Count(app) => ~d.par BY <1>1, <1>3, <1>7, <2>3, <3>1
        <4> QED BY <1>11, <2>3, <2>4, <3>1, <4>1 DEF AlignedInv, Scanning
      <3>2. CASE d.running
        <4>1. ~drain /\ d.index = app'.reported + 1 BY <1>1, <1>5, <1>7, <2>1, <2>3, <3>2
        <4> QED BY <1>11, <2>3, <2>4, <3>2, <4>1 DEF AlignedInv, Scanning
      <3> QED BY <3>1, <3>2
    <2>6. TempsMeasured(app)' BY <1>5, <1>6, <1>9, <2>3, <2>4 DEF TempsMeasured
    <2>7. JobsMeasured(app'.jobs) BY <2>3 DEF JobsMeasured
    <2> QED BY <1>1, <1>11, <2>5, <2>6, <2>7 DEF MeasuredInv, SensorOfRecord
  <1> QED BY <1>8, <1>10, <1>11

LEMMA SequentialReportAligned ==
    ASSUME Filed, MultiInv', SequentialReport PROVE AlignedInv' /\ MeasuredInv'
  <1>1. /\ app.state = "MEASURE_WAIT" /\ app.seq /\ ds18.running /\ MultiInv
        /\ app \in AppType /\ ds18 \in DriverType /\ SensorOfRecord
        /\ Count(app) \in 1..MaxDevices /\ ds18.index \in 1..Count(app)
        /\ app.cur \in 1..Count(app) /\ (ds18.scan => ds18.index = app.cur)
        /\ app.jobs = <<>> /\ Index \in Positions
        /\ UNCHANGED <<eeprom, log>>
    BY AtReport DEF SequentialReport, Filed, AlignedInv, MeasuredInv
  <1>2. PICK temp \in TempsOf[Asked] \cup {Failed}, absent \in BOOLEAN :
          LET a == [Stored(temp) EXCEPT !.cur = @ + 1]  d == AfterReport(absent) IN
          \/ a.cur <= Count(a) /\ app' = a /\ ds18' = Started(d, FALSE) /\ UNCHANGED slots
          \/ a.cur > Count(a) /\ Evaluate(a) /\ ds18' = d
    BY <1>1 DEF SequentialReport
  <1> DEFINE b == Stored(temp)
             a == [b EXCEPT !.cur = b.cur + 1]
             d == AfterReport(absent)
  <1>3. temp \in Nat \cup {Failed} BY <1>1, AtReport
  <1>4. /\ b \in AppType /\ b.cur = app.cur /\ b.state = "MEASURE_WAIT" /\ b.found = app.found
        /\ b.jobs = <<>> /\ b.seq
    BY <1>1, <1>3, StoredResult
  <1>5. TempsMeasured(b) BY <1>1, StoredMeasured
  <1>6. \/ app' = a /\ ds18' = Started(d, FALSE) /\ UNCHANGED slots
        \/ a.cur > Count(a) /\ Evaluate(a) /\ ds18' = d
    BY <1>2
  <1>7. /\ d \in DriverType /\ d.scan = ds18.scan
        /\ \/ ~d.running
           \/ ds18.scan /\ ds18.index < Count(app) /\ d.index = ds18.index + 1 /\ d.running
    <2>1. d = AfterReport(absent) /\ ds18.index <= Count(app) BY <1>1
    <2> HIDE DEF d
    <2> QED BY <1>1, <2>1, ReportedDriver
  <1> HIDE DEF b, d
  <1>8. /\ a \in AppType /\ a.state = "MEASURE_WAIT" /\ a.found = app.found
        /\ a.jobs = <<>> /\ a.seq /\ a.cur = app.cur + 1 /\ a.temps = b.temps
    <2>1. app.cur + 1 \in 1..(MaxDevices + 1) BY <1>1, RoundsAssumption
    <2> QED BY <1>1, <1>4, <2>1 DEF AppType
  <1> HIDE DEF a
  <1>9. Count(a) = Count(app) /\ TempsMeasured(a)
    BY <1>4, <1>5, <1>8 DEF Count, TempsMeasured
  <1>10. CASE app' = a /\ ds18' = Started(d, FALSE) /\ UNCHANGED slots
    <2>1. ds18'.scan => ds18'.index = a.cur
      <3>1. CASE d.running
        <4>1. ds18' = d BY <1>7, <1>10, <3>1, DriverSteps, <1>1
        <4> QED BY <1>1, <1>7, <1>8, <3>1, <4>1
      <3>2. CASE ~d.running
        <4>1. ds18'.scan = FALSE BY <1>7, <1>10, <3>2, DriverSteps, <1>1
        <4> QED BY <4>1
      <3> QED BY <3>1, <3>2
    <2>2. AlignedInv' BY <1>8, <1>10, <2>1 DEF AlignedInv, Scanning
    <2>3. TempsMeasured(app)' BY <1>9, <1>10 DEF TempsMeasured, Count
    <2>4. JobsMeasured(app'.jobs) BY <1>8, <1>10 DEF JobsMeasured
    <2> QED BY <1>1, <1>10, <2>2, <2>3, <2>4 DEF MeasuredInv, SensorOfRecord
  <1>11. CASE a.cur > Count(a) /\ Evaluate(a) /\ ds18' = d
    <2>1. JobsMeasured(app'.jobs) /\ SensorOfRecord' /\ app'.state # "MEASURE_WAIT"
      BY <1>1, <1>8, <1>9, <1>11, RoundsAssumption, EvaluateFiles
    <2>2. ~ds18'.running BY <1>1, <1>7, <1>8, <1>9, <1>11
    <2> QED BY <2>1, <2>2, ParkedIsAligned DEF MeasuredInv
  <1> QED BY <1>6, <1>10, <1>11

\* Outside a round: what is written was measured, or is a block as it was.
LEMMA BootsFiled ==
    ASSUME Filed, SearchDs18 \/ SearchAll \/ BootRead PROVE AlignedInv' /\ MeasuredInv'
  <1>1. /\ MultiInv /\ RoundInv /\ app \in AppType /\ SensorOfRecord /\ JobsMeasured(app.jobs)
        /\ UNCHANGED <<eeprom, ds18>> /\ ~ds18.running
    BY DEF Filed, MultiInv, TypeInv, RoundInv, MeasuredInv, SearchDs18, SearchAll, BootRead
  <1>2. app'.state # "MEASURE_WAIT" /\ app'.jobs = app.jobs
    <2>1. CASE SearchDs18 BY <1>1, <2>1 DEF SearchDs18, AppType
    <2>2. CASE SearchAll
      <3>1. \/ app' = [app EXCEPT !.have = TRUE, !.state = "BOOT_READ"]
            \/ app' = AfterBoot(app)
        BY <2>2 DEF SearchAll
      <3> QED BY <1>1, <3>1, AfterBootLeaves DEF AppType
    <2>3. CASE BootRead
      <3> DEFINE b == [app EXCEPT !.boot = <<>>]
      <3>1. \/ app.state = "BOOT_READ" /\ \E boot : app' = [app EXCEPT !.boot = boot]
            \/ app' = AfterBoot(b)
        BY <2>3 DEF BootRead
      <3>2. <<>> \in Seq(BOOLEAN) OBVIOUS
      <3>3. b \in AppType /\ b.jobs = app.jobs BY <1>1, <3>2 DEF AppType
      <3> HIDE DEF b
      <3>4. AfterBoot(b).state # "MEASURE_WAIT" /\ AfterBoot(b).jobs = app.jobs
        BY <3>3, AfterBootLeaves
      <3> QED BY <1>1, <3>1, <3>4 DEF AppType
    <2> QED BY <2>1, <2>2, <2>3
  <1>3. UNCHANGED slots \/ \E boot : slots' = Loaded(boot)
    BY DEF SearchDs18, SearchAll, BootRead
  <1>4. SensorOfRecord'
    BY <1>1, <1>3 DEF SensorOfRecord, Loaded, Invalid
  <1> QED BY <1>1, <1>2, <1>4, ParkedIsAligned DEF MeasuredInv

LEMMA WritesFiled ==
    ASSUME Filed, WriteScratch \/ WriteVerify \/ WriteCopy \/ WriteReadBack
    PROVE  AlignedInv' /\ MeasuredInv'
  <1> DEFINE j == app.jobs[1]
  <1>1. /\ app.state \in Writing /\ UNCHANGED ds18
        /\ MultiInv /\ RoundInv /\ app \in AppType /\ SensorOfRecord /\ JobsMeasured(app.jobs)
    BY DEF Filed, MultiInv, TypeInv, MeasuredInv, WriteScratch, WriteVerify, StepTo, WriteCopy,
           WriteReadBack, Writing
  <1>2. /\ app.jobs \in Seq(Jobs) /\ app.jobs # <<>> /\ j \in Jobs /\ SessionInv /\ TypeInv
        /\ j.slot \in Slots /\ j.isRom \in BOOLEAN /\ ~ds18.running
    BY <1>1, WritingSession DEF RoundInv, Writing
  <1>3. /\ Len(app.jobs) \in Nat \ {0} /\ Tail(app.jobs) \in Seq(Jobs)
        /\ Len(Tail(app.jobs)) = Len(app.jobs) - 1
        /\ \A k \in 1..Len(Tail(app.jobs)) : Tail(app.jobs)[k] = app.jobs[k + 1]
    BY <1>2, EmptySeq, HeadTailProperties, LenProperties
  <1>4. j.temp \in TempsOf[j.sensor]
    <2>1. 1 \in 1..Len(app.jobs) BY <1>3
    <2> QED BY <1>1, <2>1 DEF JobsMeasured
  <1>5. JobsMeasured(Tail(app.jobs)) /\ JobsMeasured(<<>>)
    <2> DEFINE t == Tail(app.jobs)
    <2>1. \A k \in 1..Len(t) : t[k] = app.jobs[k + 1] /\ k + 1 \in 1..Len(app.jobs) BY <1>3
    <2> HIDE DEF t
    <2>2. JobsMeasured(t) BY <1>1, <2>1 DEF JobsMeasured
    <2> QED BY <2>2 DEF JobsMeasured, t
  <1>6. /\ app'.state # "MEASURE_WAIT" /\ app'.jobs \in {app.jobs, Tail(app.jobs), <<>>}
    <2>1. CASE app' = Aborted BY <1>1, <1>2, <2>1, AbortedType
    <2>2. CASE \/ app' = [app EXCEPT !.state = "WRITE_VERIFY"]
               \/ app' = [app EXCEPT !.state = "WRITE_COPY"]
               \/ app' = [app EXCEPT !.state = "WRITE_READBACK"]
      BY <1>1, <2>2 DEF AppType
    <2>3. CASE app' = [app EXCEPT !.jobs = Tail(@), !.fails = 0,
                                  !.state = IF Len(app.jobs) > 1 THEN "WRITE_SCRATCH" ELSE "WAIT"]
      BY <1>1, <2>3 DEF AppType
    <2> QED BY <2>1, <2>2, <2>3
        DEF WriteScratch, WriteVerify, StepTo, WriteCopy, WriteReadBack
  <1>7. /\ slots' = slots \/ slots' = Commit(slots, j)
        /\ eeprom' \in {Programmed(j), Torn(j), eeprom}
    BY DEF WriteScratch, WriteVerify, StepTo, WriteCopy, WriteReadBack
  <1> HIDE DEF j
  <1>8. ASSUME NEW s \in Slots
        PROVE  /\ slots'[s].rec \in {slots[s].rec, Record(j.temp, j.sensor)}
               /\ \/ eeprom'.rec[s] \in {eeprom.rec[s], Record(j.temp, j.sensor)}
                  \/ ~eeprom'.rec[s].valid
    <2>1. slots \in SlotsType /\ eeprom \in Blocks BY <1>2 DEF TypeInv, Blocks
    <2>2. slots'[s].rec \in {slots[s].rec, Record(j.temp, j.sensor)}
      BY <1>2, <1>7, <2>1 DEF Commit, SlotsType
    <2>3. \/ eeprom'.rec[s] \in {eeprom.rec[s], Record(j.temp, j.sensor)}
          \/ ~eeprom'.rec[s].valid
      BY <1>2, <1>7, <2>1, Copied
    <2> QED BY <2>2, <2>3
  <1>9. SensorOfRecord'
    <2> SUFFICES ASSUME NEW s \in Slots, NEW r \in {slots'[s].rec, eeprom'.rec[s]}, r.valid
                 PROVE  r.temp \in TempsOf[r.sensor]
      BY DEF SensorOfRecord
    <2>1. r \in {slots[s].rec, eeprom.rec[s], Record(j.temp, j.sensor)} BY <1>8
    <2>2. CASE r = Record(j.temp, j.sensor) BY <1>4, <2>2 DEF Record
    <2> QED BY <1>1, <2>1, <2>2 DEF SensorOfRecord
  <1> QED BY <1>1, <1>2, <1>5, <1>6, <1>9, ParkedIsAligned DEF MeasuredInv

LEMMA RestartFiled == ASSUME Filed, Restart PROVE AlignedInv' /\ MeasuredInv'
  <1>1. /\ app' = Powered /\ slots' = NoSlots /\ ds18' = Parked(ds18.par)
        /\ \/ eeprom' = eeprom
           \/ /\ app.state = "WRITE_COPY"
              /\ eeprom' \in {eeprom, Programmed(app.jobs[1]), Torn(app.jobs[1])}
    BY DEF Restart
  <1>2. MultiInv /\ SensorOfRecord /\ ~ds18'.running /\ eeprom \in Blocks /\ JobsMeasured(app.jobs)
    BY <1>1, ParkedType DEF Filed, MultiInv, TypeInv, DriverType, MeasuredInv, Blocks
  <1>3. ASSUME NEW s \in Slots, eeprom'.rec[s].valid
        PROVE  eeprom'.rec[s].temp \in TempsOf[eeprom'.rec[s].sensor]
    <2>1. CASE eeprom'.rec[s] = eeprom.rec[s] BY <1>2, <1>3, <2>1 DEF SensorOfRecord
    <2>2. CASE eeprom'.rec[s] # eeprom.rec[s]
      <3> DEFINE j == app.jobs[1]
      <3>1. app.state = "WRITE_COPY" /\ eeprom' \in {Programmed(j), Torn(j), eeprom}
        BY <1>1, <2>2
      <3>2. j \in Jobs /\ app.jobs \in Seq(Jobs) /\ app.jobs # <<>>
        BY <1>2, <3>1, WritingSession DEF Writing
      <3>3. j.temp \in TempsOf[j.sensor]
        <4>1. 1 \in 1..Len(app.jobs) BY <3>2, EmptySeq, LenProperties
        <4> QED BY <1>2, <4>1 DEF JobsMeasured
      <3> HIDE DEF j
      <3>4. eeprom'.rec[s] = Record(j.temp, j.sensor) BY <1>2, <1>3, <2>2, <3>1, <3>2, Copied
      <3> QED BY <3>3, <3>4 DEF Record
    <2> QED BY <2>1, <2>2
  <1>4. SensorOfRecord' BY <1>1, <1>3 DEF SensorOfRecord, NoSlots, Invalid
  <1>5. app'.state # "MEASURE_WAIT" /\ JobsMeasured(app'.jobs)
    BY <1>1, PoweredUp DEF JobsMeasured
  <1> QED BY <1>2, <1>4, <1>5, ParkedIsAligned DEF MeasuredInv

LEMMA FiledInit == Init => FiledInv
  <1> SUFFICES ASSUME Init PROVE AlignedInv /\ MeasuredInv BY DEF FiledInv, Init
  <1>1. app.state # "MEASURE_WAIT" /\ app.jobs = <<>> /\ ~ds18.running
    BY PoweredUp, ParkedType DEF Init
  <1>2. SensorOfRecord BY DEF Init, SensorOfRecord, NoSlots, Invalid
  <1> QED BY <1>1, <1>2 DEF AlignedInv, MeasuredInv, JobsMeasured, Scanning

LEMMA FiledNext == MultiInv /\ FiledInv /\ [Next]_vars => FiledInv'
  <1> SUFFICES ASSUME MultiInv, FiledInv, [Next]_vars, ~log'.cut PROVE AlignedInv' /\ MeasuredInv'
    BY CutStays, SupplyStays DEF FiledInv
  <1>1. Filed /\ MultiInv' BY CutStays, MultiNext DEF FiledInv, Filed
  <1>2. CASE SearchDs18 \/ SearchAll \/ BootRead BY <1>1, <1>2, BootsFiled
  <1>3. CASE Wait \/ MeasureStart \/ ScanRestarts \/ ScanTimeout \/ ScanDrained
    BY <1>1, <1>3, RoundsAligned
  <1>4. CASE ScanReport BY <1>1, <1>4, ScanReportAligned
  <1>5. CASE SequentialReport BY <1>1, <1>5, SequentialReportAligned
  <1>6. CASE WriteScratch \/ WriteVerify \/ WriteCopy \/ WriteReadBack BY <1>1, <1>6, WritesFiled
  <1>7. CASE Restart BY <1>1, <1>7, RestartFiled
  <1>8. CASE UNCHANGED vars
    BY <1>1, <1>8 DEF vars, Filed, AlignedInv, MeasuredInv, Scanning, Count, TempsMeasured,
                      JobsMeasured, SensorOfRecord
  <1> QED BY <1>2, <1>3, <1>4, <1>5, <1>6, <1>7, <1>8 DEF Next, Recorder

LEMMA FiledSafe == Spec => []FiledInv
  BY MultiSafe, FiledInit, FiledNext, PTL DEF Spec
-----------------------------------------------------------------------------
(***************************************************************************)
(* Theorems.                                                               *)
(***************************************************************************)

\* No EEPROM command runs while a measurement cycle is unfinished: writes only
\* follow a round that is complete and all good, and its last result is the
\* one that parks the DS18B20 driver - also when the round started again before.
THEOREM DriversTakeTurns == Spec => []OneDriverAtATime
  <1>1. MultiInv => OneDriverAtATime
    BY DEF MultiInv, RoundInv, OneDriverAtATime, EepromStates
  <1> QED BY <1>1, MultiSafe, PTL

\* Whatever fails and whenever power goes, a record in RAM or in EEPROM is a
\* temperature that the sensor it names did measure: on an external supply
\* always, on a parasite bus as long as no round was cut short there.
THEOREM RecordsAreMeasured == Spec => []RecordOfItsSensor
  <1>1. FiledInv => RecordOfItsSensor BY DEF FiledInv, MeasuredInv, RecordOfItsSensor
  <1> QED BY <1>1, FiledSafe, PTL

\* In a session that persists and but for the write in progress, a record the
\* application knows is in the EEPROM, or its block was torn.
THEOREM KnownRecordsAreStored == Spec => []KnownIsStored
  <1>1. MultiInv => KnownIsStored
    <2> SUFFICES ASSUME MultiInv, NEW s \in Slots,
                        app.have, ~app.off, slots[s].rec.valid, ~log.blind[s],
                        app.state \notin {"WRITE_COPY", "WRITE_READBACK"}
                 PROVE  eeprom.rec[s] \in {slots[s].rec, Invalid}
      BY DEF KnownIsStored
    <2>1. Booted
      <3>1. slots # NoSlots BY DEF NoSlots, Invalid
      <3> QED BY <3>1 DEF MultiInv, StoredInv
    <2>2. RecStored(s) BY <2>1 DEF MultiInv, StoredInv, Persisting
    <2>3. ~Unread(s, FALSE) BY DEF Unread
    <2>4. eeprom.rec[s] \in Records BY DEF MultiInv, TypeInv
    <2> QED BY <2>2, <2>3, <2>4 DEF RecStored, Records
  <1> QED BY <1>1, MultiSafe, PTL

\* The recorder writes only in a session that persists, gives up after its
\* third failure in a row and never overflows its job table.
THEOREM GivesUp == Spec => []NoWriteAfterGivingUp
  <1>1. MultiInv => NoWriteAfterGivingUp
    BY DEF MultiInv, SessionInv, NoWriteAfterGivingUp, JobsInOrder
  <1> QED BY <1>1, MultiSafe, PTL

\* The job at the head of a session, when it is a record, is beyond the one in
\* RAM, and the ROM of its sensor is in place.
LEMMA HeadFits ==
    ASSUME MultiInv, app.state \in Writing, ~app.jobs[1].isRom
    PROVE  LET j == app.jobs[1] IN
           /\ slots[j.slot].rec.valid => Outward(j.slot, j.temp, slots[j.slot].rec.temp)
           /\ slots[j.slot].rom = j.sensor
  <1>1. JobsFit(app.jobs, slots) /\ app.jobs \in Seq(Jobs) /\ app.jobs # <<>>
    BY WritingSession DEF SessionInv
  <1>2. 1 \in 1..Len(app.jobs) BY <1>1, EmptySeq, LenProperties
  <1>3. \A i \in 1..(1 - 1) : FALSE OBVIOUS
  <1> QED BY <1>1, <1>2, <1>3 DEF JobsFit

\* Only a copy changes the EEPROM, also one that a power failure cut short, and
\* only in the block of its job.
LEMMA EepromChanges ==
    ASSUME MultiInv, [Next]_vars, NEW s \in Slots, eeprom'.rec[s] # eeprom.rec[s],
           eeprom'.rec[s].valid
    PROVE  LET j == app.jobs[1] IN
           /\ app.state = "WRITE_COPY" /\ j.slot = s /\ ~j.isRom /\ j \in Jobs
           /\ eeprom'.rec[s] = Record(j.temp, j.sensor)
  <1> DEFINE j == app.jobs[1]
  <1>1. app.state = "WRITE_COPY" /\ eeprom' \in {Programmed(j), Torn(j), eeprom}
    BY DEF Next, Recorder, vars, SearchDs18, SearchAll, BootRead, Wait, MeasureStart, ScanRestarts,
           ScanReport, ScanTimeout, ScanDrained, SequentialReport, WriteScratch, WriteVerify, StepTo,
           WriteCopy, WriteReadBack, Restart
  <1>2. j \in Jobs /\ eeprom \in Blocks
    BY <1>1, WritingSession DEF Writing, TypeInv, Blocks
  <1> HIDE DEF j
  <1>3. s = j.slot /\ ~j.isRom /\ eeprom'.rec[s] = Record(j.temp, j.sensor)
    BY <1>1, <1>2, Copied
  <1> QED BY <1>1, <1>2, <1>3 DEF j

\* A record of RAM moves when a round ends without persistence, or when its
\* block was read back; at boot there is none.
LEMMA RamMovesOutward ==
    ASSUME MultiInv, [Next]_vars, log'.restarts = log.restarts PROVE RamOutward
  <1>1. CASE ScanReport \/ SequentialReport BY <1>1, ScanReportKeeps, SequentialReportKeeps
  <1>2. CASE BootRead
    <2>1. slots = NoSlots BY <1>2 DEF BootRead, MultiInv, StoredInv, Booted
    <2> QED BY <2>1 DEF RamOutward, NoSlots, Invalid
  <1>3. CASE WriteReadBack /\ slots' # slots
    <2> DEFINE j == app.jobs[1]
    <2>1. slots' = Commit(slots, j) /\ app.state \in Writing
      BY <1>3 DEF WriteReadBack, Writing
    <2>2. slots \in SlotsType /\ j.slot \in Slots /\ j.isRom \in BOOLEAN
      BY <2>1, WritingSession DEF TypeInv
    <2>3. ~j.isRom /\ slots[j.slot].rec.valid => Outward(j.slot, j.temp, slots[j.slot].rec.temp)
      BY <2>1, HeadFits
    <2> HIDE DEF j
    <2> QED BY <2>1, <2>2, <2>3 DEF Commit, SlotsType, RamOutward, Record
  <1>4. CASE Restart
    <2>1. log.restarts \in Nat /\ log'.restarts = log.restarts + 1
      BY <1>4 DEF MultiInv, TypeInv, LogType, Restart
    <2> QED BY <2>1
  <1>5. CASE UNCHANGED slots BY <1>5 DEF RamOutward
  <1> QED BY <1>1, <1>2, <1>3, <1>4, <1>5
      DEF Next, Recorder, vars, SearchDs18, SearchAll, Wait, MeasureStart, ScanRestarts,
          ScanTimeout, ScanDrained, WriteScratch, WriteVerify, StepTo, WriteCopy

\* A record of RAM or of EEPROM moves in its own direction only, whatever fails
\* and across power failures, unless the application could not read its block.
THEOREM RecordsMoveOutward == Spec => RecordsMoveOneWay
  <1> DEFINE Step == \A s \in Slots :
          /\ slots[s].rec.valid /\ log'.restarts = log.restarts =>
                slots'[s].rec = slots[s].rec
                    \/ Outward(s, slots'[s].rec.temp, slots[s].rec.temp)
          /\ eeprom.rec[s].valid /\ eeprom'.rec[s].valid /\ ~log.blind[s] =>
                eeprom'.rec[s] = eeprom.rec[s]
                    \/ Outward(s, eeprom'.rec[s].temp, eeprom.rec[s].temp)
  <1>1. ASSUME MultiInv, [Next]_vars PROVE Step
    <2>1. ASSUME NEW s \in Slots, slots[s].rec.valid, log'.restarts = log.restarts
          PROVE  slots'[s].rec = slots[s].rec \/ Outward(s, slots'[s].rec.temp, slots[s].rec.temp)
      BY <1>1, <2>1, RamMovesOutward DEF RamOutward
    <2>2. ASSUME NEW s \in Slots, eeprom.rec[s].valid, eeprom'.rec[s].valid, ~log.blind[s],
                 eeprom'.rec[s] # eeprom.rec[s]
          PROVE  Outward(s, eeprom'.rec[s].temp, eeprom.rec[s].temp)
      <3> DEFINE j == app.jobs[1]
      <3>1. /\ app.state = "WRITE_COPY" /\ j.slot = s /\ ~j.isRom
            /\ eeprom'.rec[s] = Record(j.temp, j.sensor)
        BY <1>1, <2>2, EepromChanges
      <3>2. RecStored(s) /\ ~Unread(s, FALSE)
        BY <1>1, <3>1, WritingSession DEF Writing, Unread
      <3>3. eeprom.rec[s] = slots[s].rec BY <2>2, <3>2 DEF RecStored
      <3>4. Outward(s, j.temp, slots[s].rec.temp)
        BY <1>1, <2>2, <3>1, <3>3, HeadFits DEF Writing
      <3> QED BY <3>1, <3>3, <3>4 DEF Record
    <2> QED BY <2>1, <2>2
  <1> QED BY <1>1, MultiSafe, PTL DEF Spec, RecordsMoveOneWay

\* A record is programmed only next to the ROM of its sensor, unless a ROM job
\* failed after its copy and the application does not know that block.
THEOREM RomsComeFirst == Spec => RomBeforeRecord
  <1> DEFINE Step == \A s \in Slots :
          eeprom'.rec[s].valid /\ eeprom'.rec[s] # eeprom.rec[s] /\ ~log.blindRom[s] =>
              eeprom.rom[s] = eeprom'.rec[s].sensor
  <1>1. ASSUME MultiInv, [Next]_vars PROVE Step
    <2> SUFFICES ASSUME NEW s \in Slots, eeprom'.rec[s].valid, eeprom'.rec[s] # eeprom.rec[s],
                        ~log.blindRom[s]
                 PROVE  eeprom.rom[s] = eeprom'.rec[s].sensor
      OBVIOUS
    <2> DEFINE j == app.jobs[1]
    <2>1. /\ app.state = "WRITE_COPY" /\ j.slot = s /\ ~j.isRom /\ j \in Jobs
          /\ eeprom'.rec[s] = Record(j.temp, j.sensor)
      BY <1>1, EepromChanges
    <2>2. slots[s].rom = j.sensor BY <1>1, <2>1, HeadFits DEF Writing
    <2>3. j.sensor # NoRom BY <2>1 DEF Jobs, Devices, NoRom
    <2>4. RomStored(s) /\ ~Unread(s, TRUE) BY <1>1, <2>1, WritingSession DEF Writing, Unread
    <2>5. eeprom'.rec[s].sensor = j.sensor BY <2>1 DEF Record
    <2> HIDE DEF j
    <2>6. eeprom.rom[s] = slots[s].rom BY <2>2, <2>3, <2>4 DEF RomStored
    <2> QED BY <2>2, <2>5, <2>6
  <1> QED BY <1>1, MultiSafe, PTL DEF Spec, RomBeforeRecord

=============================================================================
