-------------------------- MODULE StatisticsProofs --------------------------
(***************************************************************************)
(* The statistics and the transmit ring: theorems for any devices, any     *)
(* size of the table and of the ring, any number of sweeps, and whatever   *)
(* is read.                                                                *)
(***************************************************************************)
EXTENDS StatisticsProps, FiniteSetTheorems, TLAPS

Width == 0..255

Record ==
    [rom : Devices, min : Width, max : Width, count : Nat, crcErr : Nat, noPresence : Nat]

Stats == [sensors : Seq(Record), cycles : Nat, errors : Nat]

Batch ==
    [captured : [Devices -> Nat], widths : [Devices -> SUBSET Width],
     failed : [Devices -> Nat], reports : [Devices -> Nat]]

App ==
    [found : Seq(Devices), searching : BOOLEAN, index : Nat \ {0}, sweeps : Nat,
     dumpBusy : BOOLEAN, pending : BOOLEAN]

Ring == [head : 0..(RingSize - 1), tail : 0..(RingSize - 1)]

LogTyped ==
    /\ log = [batch |-> log.batch, report |-> log.report, held |-> log.held,
              lost |-> log.lost, drained |-> log.drained]
    /\ log.batch \in Batch
    /\ log.held \in 0..(RingSize - 1)
    /\ log.lost \in BOOLEAN /\ log.drained \in BOOLEAN

Increasing(s) == \A i, j \in DOMAIN s : i < j => s[i] < s[j]

Typed ==
    /\ drv \in [state : {"IDLE", "measuring"}, selected : Devices \cup {NoDevice}]
    /\ app \in App /\ Increasing(app.found)
    /\ st \in Stats
    /\ dump \in [phase : 0..4, sensor : Nat \ {0}]
    /\ tx \in Ring
    /\ LogTyped

-----------------------------------------------------------------------------
(***************************************************************************)
(* The turns.  Between two dumps the sweeps so far and the place in the    *)
(* current one say how many cycles were counted and how often each device  *)
(* was reported; and while a measurement runs, is queued or waits for the  *)
(* end of a dump, the device whose turn it is is selected.                 *)
(***************************************************************************)
Engaged == drv.state = "measuring" \/ app.pending \/ app.dumpBusy

ReportsOf(sweeps, index, i) == sweeps + (IF i < index THEN 1 ELSE 0)

TurnInv ==
    /\ Engaged => ~app.searching /\ app.found # <<>> /\ drv.selected = app.found[app.index]
    /\ app.index # 1 => ~app.searching /\ app.index <= Len(app.found)
    /\ app.dumpBusy => drv.state = "IDLE" /\ app.index = 1 /\ app.sweeps = Sweeps
    /\ ~app.dumpBusy => app.sweeps < Sweeps
    /\ st.cycles = app.sweeps * Len(app.found) + (app.index - 1)
    /\ \A i \in DOMAIN app.found :
          log.batch.reports[app.found[i]] = ReportsOf(app.sweeps, app.index, i)

(***************************************************************************)
(* The ring.  No line is lost because the lines of the report and of the   *)
(* dump so far are few: we count them by the phase of the dump.            *)
(***************************************************************************)
Fill(r) == ((RingSize + r.head) - r.tail) % RingSize

LinesSoFar ==
    CASE dump.phase = 1 -> 2
      [] dump.phase = 2 -> 2 + dump.sensor
      [] dump.phase = 3 -> 3 + Len(st.sensors)
      [] dump.phase = 4 -> 4 + Len(st.sensors)

RingInv ==
    /\ Fill(tx) = log.held
    /\ ~log.lost
    /\ app.dumpBusy <=> dump.phase # 0
    /\ dump.phase = 2 => dump.sensor <= Len(st.sensors) + 1
    /\ dump.phase # 0 /\ log.drained => log.held <= LinesSoFar

(***************************************************************************)
(* The records.  A device without one was not read in this batch, as long  *)
(* as there is room: it gets one at its first read, or before it, when the *)
(* error of another is counted against it.                                 *)
(***************************************************************************)
Known(sensors) == {sensors[i].rom : i \in DOMAIN sensors}

Extremes(s, w) ==
    IF w = {} THEN s.min = 255 /\ s.max = 0
    ELSE s.min \in w /\ s.max \in w /\ \A x \in w : s.min <= x /\ x <= s.max

RecordTrue(s, batch) ==
    s.count = batch.captured[s.rom] /\ Extremes(s, batch.widths[s.rom])

Unread(d, batch) == batch.captured[d] = 0 /\ batch.widths[d] = {}

RecordsTrue(sensors, batch, found) ==
    /\ sensors \in Seq(Record) /\ batch \in Batch
    /\ Len(sensors) <= MaxSensors
    /\ \A i, j \in DOMAIN sensors : sensors[i].rom = sensors[j].rom => i = j
    /\ Known(sensors) \subseteq Range(found)
    /\ \A i \in DOMAIN sensors : RecordTrue(sensors[i], batch)
    /\ Len(sensors) < MaxSensors =>
          \A d \in Devices \ Known(sensors) : Unread(d, batch)

ErrorCounts(sensors) ==
    [i \in DOMAIN sensors |-> sensors[i].crcErr + sensors[i].noPresence]

FailedReads(batch, found) == [i \in DOMAIN found |-> batch.failed[found[i]]]

RecordInv ==
    /\ RecordsTrue(st.sensors, log.batch, app.found)
    /\ IsTotal(st.errors, FailedReads(log.batch, app.found))
    /\ Len(app.found) <= MaxSensors => IsTotal(st.errors, ErrorCounts(st.sensors))

Inv == Typed /\ TurnInv /\ RingInv /\ RecordInv

-----------------------------------------------------------------------------
(***************************************************************************)
(* The ring: what Room and the two indices say of the lines it holds.      *)
(***************************************************************************)
\* The remainder of a number in 0..2n-1.
LEMMA Wrap ==
    ASSUME NEW n \in Nat \ {0}, NEW a \in Nat, a < 2 * n
    PROVE  a % n = IF a < n THEN a ELSE a - n
  <1> DEFINE q == a \div n
             r == a % n
  <1>1. q \in Nat /\ r \in 0..(n - 1) /\ a = (n * q) + r
    OBVIOUS
  <1> HIDE DEF q, r
  <1>2. q = 0 \/ q = 1 \/ q >= 2
    BY <1>1
  <1>3. ASSUME q >= 2 PROVE n * q >= 2 * n
    <2>1. PICK k \in Nat : q = 2 + k
      <3>1. q - 2 \in Nat /\ q = 2 + (q - 2) BY <1>1, <1>3
      <3> QED BY <3>1
    <2>2. n * q = (2 * n) + (n * k) BY <2>1
    <2>3. n * k \in Nat BY <2>1
    <2> QED BY <2>2, <2>3
  <1>4. q < 2 BY <1>1, <1>2, <1>3
  <1>5. CASE q = 0
    <2>1. n * q = 0 BY <1>5
    <2> QED BY <1>1, <2>1 DEF r
  <1>6. CASE q = 1
    <2>1. n * q = n BY <1>6
    <2> QED BY <1>1, <2>1 DEF r
  <1> QED BY <1>2, <1>4, <1>5, <1>6

LEMMA RingSizeNat == RingSize \in Nat /\ RingSize >= 7 /\ RingSize - 1 >= 5 + MaxSensors
  BY RingAssumption, MaxSensorsAssumption

LEMMA FillOfRing ==
    ASSUME NEW h \in 0..(RingSize - 1), NEW t \in 0..(RingSize - 1)
    PROVE  /\ ((RingSize + h) - t) % RingSize = IF h >= t THEN h - t ELSE (RingSize + h) - t
           /\ ((RingSize + t) - (h + 1)) % RingSize =
                 IF h >= t THEN ((RingSize + t) - h) - 1 ELSE (t - h) - 1
  <1>1. (RingSize + h) - t \in Nat /\ (RingSize + h) - t < 2 * RingSize
    BY RingSizeNat
  <1>2. (RingSize + t) - (h + 1) \in Nat /\ (RingSize + t) - (h + 1) < 2 * RingSize
    BY RingSizeNat
  <1>3. RingSize \in Nat \ {0} BY RingSizeNat
  <1>4. ((RingSize + h) - t) % RingSize =
          IF (RingSize + h) - t < RingSize THEN (RingSize + h) - t
          ELSE ((RingSize + h) - t) - RingSize
    BY <1>1, <1>3, Wrap
  <1>5. ((RingSize + t) - (h + 1)) % RingSize =
          IF (RingSize + t) - (h + 1) < RingSize THEN (RingSize + t) - (h + 1)
          ELSE ((RingSize + t) - (h + 1)) - RingSize
    BY <1>2, <1>3, Wrap
  <1> QED BY <1>4, <1>5, RingSizeNat

\* One slot stays free.
LEMMA RoomOfRing ==
    ASSUME NEW r \in Ring
    PROVE  Fill(r) \in 0..(RingSize - 1) /\ Room(r) = (RingSize - 1) - Fill(r)
  <1> DEFINE h == r.head
             t == r.tail
  <1>1. h \in 0..(RingSize - 1) /\ t \in 0..(RingSize - 1) BY DEF Ring
  <1>2. Fill(r) = ((RingSize + h) - t) % RingSize BY DEF Fill
  <1>3. Room(r) = ((RingSize + t) - (h + 1)) % RingSize BY DEF Room
  <1> HIDE DEF h, t
  <1>4. Fill(r) = IF h >= t THEN h - t ELSE (RingSize + h) - t BY <1>1, <1>2, FillOfRing
  <1>5. Room(r) = IF h >= t THEN ((RingSize + t) - h) - 1 ELSE (t - h) - 1
    BY <1>1, <1>3, FillOfRing
  <1>6. CASE h >= t BY <1>1, <1>4, <1>5, <1>6, RingSizeNat
  <1>7. CASE ~(h >= t) BY <1>1, <1>4, <1>5, <1>7, RingSizeNat
  <1> QED BY <1>6, <1>7

LEMMA WrittenFills ==
    ASSUME NEW r \in Ring, NEW n \in Nat
    PROVE  Written(r, n) \in Ring /\ Fill(Written(r, n)) = Fill(r) + Min2(n, Room(r))
  <1> DEFINE h == r.head
             t == r.tail
             m == Min2(n, Room(r))
             w == Written(r, n)
  <1>1. h \in 0..(RingSize - 1) /\ t \in 0..(RingSize - 1) BY DEF Ring
  <1>2. Fill(r) \in 0..(RingSize - 1) /\ Room(r) = (RingSize - 1) - Fill(r) BY RoomOfRing
  <1>3. m \in Nat /\ m <= (RingSize - 1) - Fill(r) BY <1>2, RingSizeNat DEF Min2
  <1>4. (h + m) % RingSize = IF h + m < RingSize THEN h + m ELSE (h + m) - RingSize
    <2>1. h + m \in Nat /\ h + m < 2 * RingSize BY <1>1, <1>2, <1>3, RingSizeNat
    <2>2. RingSize \in Nat \ {0} BY RingSizeNat
    <2> QED BY <2>1, <2>2, Wrap
  <1>5. w = [r EXCEPT !.head = (h + m) % RingSize] BY DEF Written
  <1>6. (h + m) % RingSize \in 0..(RingSize - 1) BY <1>1, <1>3, <1>4, RingSizeNat
  <1> HIDE DEF m
  <1>7. w \in Ring /\ w.head = (h + m) % RingSize /\ w.tail = t BY <1>5, <1>6 DEF Ring
  <1>8. Fill(r) = IF h >= t THEN h - t ELSE (RingSize + h) - t
    BY <1>1, FillOfRing DEF Fill
  <1>9. Fill(w) = IF w.head >= t THEN w.head - t ELSE (RingSize + w.head) - t
    <2>1. w.head \in 0..(RingSize - 1) BY <1>6, <1>7
    <2> HIDE DEF w
    <2> QED BY <1>1, <1>7, <2>1, FillOfRing DEF Fill
  <1>10. Fill(w) = Fill(r) + m
    BY <1>1, <1>3, <1>4, <1>7, <1>8, <1>9, RingSizeNat
  <1> QED BY <1>7, <1>10 DEF m

LEMMA PolledDrains ==
    ASSUME NEW r \in Ring, NEW txe \in BOOLEAN
    PROVE  /\ Polled(r, txe) \in Ring
           /\ Fill(Polled(r, txe)) = Fill(r) - (IF txe /\ Fill(r) > 0 THEN 1 ELSE 0)
  <1> DEFINE h == r.head
             t == r.tail
             p == Polled(r, txe)
  <1>1. h \in 0..(RingSize - 1) /\ t \in 0..(RingSize - 1) BY DEF Ring
  <1>2. Fill(r) = IF h >= t THEN h - t ELSE (RingSize + h) - t
    BY <1>1, FillOfRing DEF Fill
  <1>3. Fill(r) > 0 <=> t # h BY <1>1, <1>2, RingSizeNat
  <1>4. CASE ~(txe /\ t # h)
    <2>1. p = r BY <1>4 DEF Polled
    <2> QED BY <2>1, <1>2, <1>3, <1>4, <1>1, RingSizeNat
  <1>5. CASE txe /\ t # h
    <2>1. p = [r EXCEPT !.tail = (t + 1) % RingSize] BY <1>5 DEF Polled
    <2>2. (t + 1) % RingSize = IF t + 1 < RingSize THEN t + 1 ELSE (t + 1) - RingSize
      <3>1. t + 1 \in Nat /\ t + 1 < 2 * RingSize BY <1>1, RingSizeNat
      <3>2. RingSize \in Nat \ {0} BY RingSizeNat
      <3> QED BY <3>1, <3>2, Wrap
    <2>3. (t + 1) % RingSize \in 0..(RingSize - 1) BY <1>1, <2>2, RingSizeNat
    <2>4. p \in Ring /\ p.tail = (t + 1) % RingSize /\ p.head = h BY <2>1, <2>3 DEF Ring
    <2>5. Fill(p) = IF h >= p.tail THEN h - p.tail ELSE (RingSize + h) - p.tail
      <3>1. p.tail \in 0..(RingSize - 1) BY <2>3, <2>4
      <3> HIDE DEF p
      <3> QED BY <1>1, <2>4, <3>1, FillOfRing DEF Fill
    <2>6. Fill(p) = Fill(r) - 1
      <3> HIDE DEF h, t, p
      <3>1. CASE t + 1 < RingSize
        <4>1. p.tail = t + 1 BY <2>2, <2>4, <3>1
        <4>2. CASE h >= t BY <1>1, <1>2, <1>5, <2>5, <4>1, <4>2
        <4>3. CASE h < t BY <1>1, <1>2, <2>5, <4>1, <4>3, RingSizeNat
        <4> QED BY <1>1, <4>2, <4>3
      <3>2. CASE t + 1 = RingSize
        <4>1. p.tail = 0 BY <2>2, <2>4, <3>2, RingSizeNat
        <4>2. h < t BY <1>1, <1>5, <3>2, RingSizeNat
        <4> QED BY <1>1, <1>2, <2>5, <3>2, <4>1, <4>2, RingSizeNat
      <3> QED BY <1>1, <3>1, <3>2, RingSizeNat
    <2> QED BY <2>4, <2>6, <1>3, <1>5
  <1> QED BY <1>4, <1>5

\* The history counts the lines the ring holds.
LEMMA LoopEndHolds ==
    ASSUME tx \in Ring, Fill(tx) = log.held,
           NEW n \in Nat, NEW txe \in BOOLEAN, LoopEnd(n, txe)
    PROVE  /\ tx' \in Ring
           /\ Fill(tx)' = Held(n, txe)
           /\ Held(n, txe) \in 0..(RingSize - 1)
           /\ Held(n, txe) <= log.held + n
           /\ Room(tx) = (RingSize - 1) - log.held
  <1> DEFINE w == Written(tx, n)
             all == log.held + Min2(n, Room(tx))
  <1>1. w \in Ring /\ Fill(w) = all BY WrittenFills
  <1>2. Room(tx) = (RingSize - 1) - log.held /\ log.held \in 0..(RingSize - 1) BY RoomOfRing
  <1>3. all \in 0..(RingSize - 1) /\ all <= log.held + n BY <1>2, RingSizeNat DEF Min2
  <1>4. tx' = Polled(w, txe) BY DEF LoopEnd
  <1>5. Held(n, txe) = all - (IF txe /\ all > 0 THEN 1 ELSE 0) BY DEF Held
  <1> HIDE DEF w, all
  <1>6. /\ Polled(w, txe) \in Ring
        /\ Fill(Polled(w, txe)) = Fill(w) - (IF txe /\ Fill(w) > 0 THEN 1 ELSE 0)
    BY <1>1, PolledDrains
  <1>7. Fill(tx)' = Fill(Polled(w, txe)) BY <1>4 DEF Fill
  <1> QED BY <1>1, <1>2, <1>3, <1>4, <1>5, <1>6, <1>7, RingSizeNat

-----------------------------------------------------------------------------
(***************************************************************************)
(* Running totals.                                                         *)
(***************************************************************************)
LEMMA CountsLen ==
    ASSUME NEW n \in Nat, NEW c \in [1..n -> Nat]
    PROVE  c \in Seq(Nat) /\ Len(c) = n /\ DOMAIN c = 1..n
  OBVIOUS

LEMMA TotalOfZeros ==
    ASSUME NEW n \in Nat, NEW c \in [1..n -> Nat], \A i \in 1..n : c[i] = 0
    PROVE  IsTotal(0, c)
  <1> DEFINE sum == [i \in 0..n |-> 0]
  <1>1. Len(c) = n /\ DOMAIN c = 1..n BY CountsLen
  <1>2. sum \in [0..n -> 0..0] BY SMT
  <1>3. sum[0] = 0 /\ sum[n] = 0 BY SMT
  <1>4. \A i \in 1..n : sum[i] = sum[i - 1] + c[i] BY SMT
  <1> HIDE DEF sum
  <1> QED BY <1>1, <1>2, <1>3, <1>4 DEF IsTotal

\* One more counter, still at zero.
LEMMA TotalAppended ==
    ASSUME NEW n \in Nat, NEW c \in [1..n -> Nat], NEW t \in Nat, IsTotal(t, c),
           NEW d \in [1..(n + 1) -> Nat], d[n + 1] = 0, \A i \in 1..n : d[i] = c[i]
    PROVE  IsTotal(t, d)
  <1>1. Len(c) = n /\ DOMAIN c = 1..n BY CountsLen
  <1>2. Len(d) = n + 1 /\ DOMAIN d = 1..(n + 1) BY CountsLen
  <1>3. PICK sum \in [0..n -> 0..t] :
            /\ sum[0] = 0
            /\ \A i \in 1..n : sum[i] = sum[i - 1] + c[i]
            /\ sum[n] = t
    BY <1>1 DEF IsTotal
  <1> DEFINE more == [i \in 0..(n + 1) |-> IF i <= n THEN sum[i] ELSE t]
  <1>4. more \in [0..(n + 1) -> 0..t] OBVIOUS
  <1>5. more[0] = 0 /\ more[n + 1] = t BY <1>3
  <1>6. ASSUME NEW i \in 1..(n + 1) PROVE more[i] = more[i - 1] + d[i]
    <2>1. CASE i <= n BY <2>1, <1>3
    <2>2. CASE i = n + 1 BY <2>2, <1>3
    <2> QED BY <2>1, <2>2
  <1> HIDE DEF more
  <1> QED BY <1>2, <1>4, <1>5, <1>6 DEF IsTotal

\* One event counted at one place.
CountedAt(n, c, d, k) ==
    /\ n \in Nat /\ c \in [1..n -> Nat] /\ d \in [1..n -> Nat] /\ k \in 1..n
    /\ d[k] = c[k] + 1 /\ \A i \in 1..n : i # k => d[i] = c[i]

LEMMA TotalCounted ==
    ASSUME NEW n, NEW c, NEW d, NEW k, CountedAt(n, c, d, k),
           NEW t \in Nat, IsTotal(t, c)
    PROVE  IsTotal(t + 1, d)
  <1>0. /\ n \in Nat /\ c \in [1..n -> Nat] /\ d \in [1..n -> Nat] /\ k \in 1..n
        /\ d[k] = c[k] + 1 /\ \A i \in 1..n : i # k => d[i] = c[i]
    BY DEF CountedAt
  <1>1. Len(c) = n /\ DOMAIN c = 1..n BY <1>0, CountsLen
  <1>2. Len(d) = n /\ DOMAIN d = 1..n BY <1>0, CountsLen
  <1>3. PICK sum \in [0..n -> 0..t] :
            /\ sum[0] = 0
            /\ \A i \in 1..n : sum[i] = sum[i - 1] + c[i]
            /\ sum[n] = t
    BY <1>1 DEF IsTotal
  <1> DEFINE more == [i \in 0..n |-> IF i < k THEN sum[i] ELSE sum[i] + 1]
  <1>4. more \in [0..n -> 0..(t + 1)] BY <1>0
  <1>5. more[0] = 0 /\ more[n] = t + 1 BY <1>0, <1>3
  <1>6. ASSUME NEW i \in 1..n PROVE more[i] = more[i - 1] + d[i]
    <2>0. i - 1 \in 0..n /\ sum[i] \in Nat /\ sum[i - 1] \in Nat /\ c[i] \in Nat
      BY <1>0, <1>3
    <2>1. CASE i < k BY <2>0, <2>1, <1>0, <1>3
    <2>2. CASE i = k BY <2>0, <2>2, <1>0, <1>3
    <2>3. CASE i > k BY <2>0, <2>3, <1>0, <1>3
    <2> QED BY <1>0, <2>1, <2>2, <2>3
  <1> HIDE DEF more
  <1> QED BY <1>0, <1>2, <1>4, <1>5, <1>6 DEF IsTotal

-----------------------------------------------------------------------------
(***************************************************************************)
(* What is read: its shortest and longest pulse, and its verdict.          *)
(***************************************************************************)
Verdicts == {"no_sensor", "crc_fail", "temp"}

LEMMA VerdictKinds == \A scratch : Verdict(scratch).kind \in Verdicts
  BY DEF Verdict, Verdicts

LEMMA ExtremesOfWidths ==
    ASSUME NEW W \in SUBSET {OnePulse + 1, 30}, W # {}
    PROVE  Min(W) \in Width /\ Max(W) \in Width /\ Min(W) <= Max(W)
  <1>1. W \subseteq {6, 30} BY DEF OnePulse
  <1>2. W = {6} \/ W = {30} \/ W = {6, 30} BY <1>1
  <1>3. \E x \in W : \A y \in W : x =< y BY <1>2
  <1>4. \E x \in W : \A y \in W : x >= y BY <1>2
  <1>5. Min(W) \in W /\ \A y \in W : Min(W) =< y BY <1>3 DEF Min
  <1>6. Max(W) \in W /\ \A y \in W : Max(W) >= y BY <1>4 DEF Max
  <1>7. Min(W) \in {6, 30} /\ Max(W) \in {6, 30} BY <1>1, <1>5, <1>6
  <1>8. Min(W) <= Max(W) BY <1>5, <1>6
  <1>9. 6 \in Width /\ 30 \in Width BY DEF Width
  <1> QED BY <1>7, <1>8, <1>9

LEMMA ReadBounds ==
    ASSUME NEW r \in Reads
    PROVE  /\ r.min \in Width /\ r.max \in Width /\ r.min <= r.max
           /\ r.verdict.kind \in Verdicts
  <1>1. PICK f \in Frames : r = Read(f) BY DEF Reads
  <1> DEFINE w == Widths(f)
             high == High(f)
  <1>2. w = [k \in 1..72 |-> IF k \in high THEN OnePulse + 1 ELSE 30] BY DEF Widths
  <1>3. r.min = Min(Range(w)) /\ r.max = Max(Range(w)) /\ r.verdict = Verdict(DecodePulses(w))
    BY <1>1 DEF Read
  <1> HIDE DEF w, high
  <1>4. Range(w) \in SUBSET {OnePulse + 1, 30} BY <1>2 DEF Range
  <1>5. w[1] \in Range(w) BY <1>2 DEF Range
  <1> QED BY <1>3, <1>4, <1>5, ExtremesOfWidths, VerdictKinds

-----------------------------------------------------------------------------
(***************************************************************************)
(* ow_stats.c: what a call makes of the table.                             *)
(***************************************************************************)
LEMMA FreshRecord == \A d \in Devices : Fresh(d) \in Record
  BY DEF Fresh, Record, Width

LEMMA TableWithSensor ==
    ASSUME NEW s \in Seq(Record), NEW d \in Devices
    PROVE  /\ WithSensor(s, d) \in Seq(Record)
           /\ \/ WithSensor(s, d) = s /\ (d \in Known(s) \/ Len(s) >= MaxSensors)
              \/ /\ WithSensor(s, d) = Append(s, Fresh(d))
                 /\ d \notin Known(s) /\ Len(s) < MaxSensors
  <1>1. Fresh(d) \in Record BY FreshRecord
  <1>2. d \in Known(s) <=> ~(\A i \in DOMAIN s : s[i].rom # d) BY DEF Known
  <1>3. MaxSensors \in Nat /\ Len(s) \in Nat BY MaxSensorsAssumption
  <1>4. CASE Len(s) < MaxSensors /\ \A i \in DOMAIN s : s[i].rom # d
    <2>1. WithSensor(s, d) = Append(s, Fresh(d)) BY <1>4 DEF WithSensor
    <2>2. Append(s, Fresh(d)) \in Seq(Record) BY <1>1
    <2> QED BY <1>2, <1>4, <2>1, <2>2
  <1>5. CASE ~(Len(s) < MaxSensors /\ \A i \in DOMAIN s : s[i].rom # d)
    <2>1. WithSensor(s, d) = s BY <1>5 DEF WithSensor
    <2> QED BY <1>2, <1>3, <1>5, <2>1
  <1> QED BY <1>4, <1>5

\* A new record is that of a device nothing was read of.
LEMMA TrueWithSensor ==
    ASSUME NEW s, NEW batch, RecordsTrue(s, batch, app.found), NEW d \in Devices, d \in Range(app.found)
    PROVE  /\ RecordsTrue(WithSensor(s, d), batch, app.found)
           /\ d \in Known(WithSensor(s, d)) \/ Len(WithSensor(s, d)) >= MaxSensors
  <1> DEFINE w == WithSensor(s, d)
  <1>0. s \in Seq(Record) /\ batch \in Batch BY DEF RecordsTrue
  <1>1. CASE w = s /\ (d \in Known(s) \/ Len(s) >= MaxSensors)
    BY <1>1
  <1>2. CASE w = Append(s, Fresh(d)) /\ d \notin Known(s) /\ Len(s) < MaxSensors
    <2> DEFINE n == Len(s)
    <2>1. n \in Nat /\ DOMAIN s = 1..n /\ MaxSensors \in Nat BY <1>0, MaxSensorsAssumption
    <2>2. w \in Seq(Record) BY <1>0, TableWithSensor
    <2>3. Len(w) = n + 1 /\ DOMAIN w = 1..(n + 1) BY <1>0, <1>2, FreshRecord
    <2>4. w[n + 1] = Fresh(d) /\ \A i \in 1..n : w[i] = s[i] BY <1>0, <1>2, FreshRecord
    <2>5. \A i \in 1..n : s[i].rom # d BY <1>2, <2>1 DEF Known
    <2>6. Fresh(d).rom = d /\ Fresh(d).count = 0 /\ Fresh(d).min = 255 /\ Fresh(d).max = 0
      BY DEF Fresh
    <2> HIDE DEF w, n
    <2>7. \A i, j \in 1..(n + 1) : w[i].rom = w[j].rom => i = j
      <3>1. \A i, j \in 1..n : s[i].rom = s[j].rom => i = j
        BY <2>1 DEF RecordsTrue
      <3> QED BY <2>1, <2>4, <2>5, <2>6, <3>1
    <2>8. Known(w) = Known(s) \cup {d}
      <3>1. Known(w) = {w[i].rom : i \in 1..(n + 1)} BY <2>3 DEF Known
      <3>2. Known(s) = {s[i].rom : i \in 1..n} BY <2>1 DEF Known
      <3> QED BY <2>1, <2>4, <2>6, <3>1, <3>2
    <2>9. Unread(d, batch) BY <1>2, <2>1 DEF RecordsTrue, n
    <2>10. \A i \in 1..(n + 1) : RecordTrue(w[i], batch)
      <3>1. \A i \in 1..n : RecordTrue(s[i], batch) BY <2>1 DEF RecordsTrue
      <3>2. RecordTrue(Fresh(d), batch)
        BY <2>6, <2>9 DEF RecordTrue, Extremes, Unread
      <3>3. \A i \in 1..(n + 1) : i \in 1..n \/ i = n + 1 BY <2>1
      <3> QED BY <2>4, <3>1, <3>2, <3>3
    <2>11. \A e \in Devices \ Known(w) : Unread(e, batch)
      BY <1>2, <2>8 DEF RecordsTrue
    <2>12. Len(w) <= MaxSensors BY <1>2, <2>1, <2>3 DEF n
    <2>13. Known(w) \subseteq Range(app.found) BY <2>8 DEF RecordsTrue
    <2>14. RecordsTrue(w, batch, app.found)
      BY <1>0, <2>2, <2>3, <2>7, <2>10, <2>11, <2>12, <2>13 DEF RecordsTrue
    <2> QED BY <2>8, <2>14 DEF w
  <1> QED BY <1>0, <1>1, <1>2, TableWithSensor

LEMMA WidthBounds == \A x \in Width : x \in Int /\ 0 <= x /\ x <= 255
  BY DEF Width

LEMMA MaxOfTwo ==
    ASSUME NEW a \in Width, NEW b \in Width
    PROVE  Max({a, b}) = (IF a <= b THEN b ELSE a) /\ Max({a, b}) \in Width
  <1> DEFINE m == IF a <= b THEN b ELSE a
  <1>1. m \in {a, b} /\ m \in Width /\ \A y \in {a, b} : m >= y BY DEF Width
  <1> HIDE DEF m
  <1>2. \A x \in {a, b} : (\A y \in {a, b} : x >= y) => x = m BY <1>1 DEF Width
  <1>3. Max({a, b}) \in {a, b} /\ \A y \in {a, b} : Max({a, b}) >= y BY <1>1 DEF Max
  <1>4. Max({a, b}) = m BY <1>2, <1>3
  <1> QED BY <1>1, <1>4 DEF m

LEMMA MinOfTwo ==
    ASSUME NEW a \in Width, NEW b \in Width
    PROVE  Min2(a, b) \in {a, b} /\ Min2(a, b) <= a /\ Min2(a, b) <= b
  BY DEF Width, Min2

Captured(r, c) == [r EXCEPT !.min = Min2(@, c.min), !.max = Max({@, c.max}), !.count = @ + 1]

LEMMA CapturedRecord ==
    ASSUME NEW r \in Record, NEW c \in Reads
    PROVE  /\ Captured(r, c) \in Record
           /\ Captured(r, c).rom = r.rom
           /\ Captured(r, c).min = Min2(r.min, c.min)
           /\ Captured(r, c).max = Max({r.max, c.max})
           /\ Captured(r, c).count = r.count + 1
           /\ Captured(r, c).crcErr = r.crcErr
           /\ Captured(r, c).noPresence = r.noPresence
  <1>1. c.min \in Width /\ c.max \in Width BY ReadBounds
  <1>2. r.min \in Width /\ r.max \in Width /\ r.count \in Nat BY DEF Record
  <1>3. Min2(r.min, c.min) \in Width BY <1>1, <1>2, MinOfTwo
  <1>4. Max({r.max, c.max}) \in Width BY <1>1, <1>2, MaxOfTwo
  <1>5. r.count + 1 \in Nat BY <1>2
  <1> QED BY <1>3, <1>4, <1>5 DEF Captured, Record

\* ow_stats_capture_pulse(), record by record.
LEMMA CaptureShape ==
    ASSUME NEW s \in Stats, NEW c \in Reads, NEW d \in Devices
    PROVE  LET w == WithSensor(s.sensors, d)
               q == CapturePulse(s, c, d)
           IN /\ q \in Stats /\ q.cycles = s.cycles /\ q.errors = s.errors
              /\ Len(q.sensors) = Len(w)
              /\ \A i \in 1..Len(w) :
                    q.sensors[i] = IF w[i].rom = d THEN Captured(w[i], c) ELSE w[i]
  <1> DEFINE w == WithSensor(s.sensors, d)
             q == CapturePulse(s, c, d)
             f == [i \in DOMAIN w |-> IF w[i].rom = d THEN Captured(w[i], c) ELSE w[i]]
  <1>1. w \in Seq(Record) BY TableWithSensor DEF Stats
  <1>2. q = [s EXCEPT !.sensors = f] BY DEF CapturePulse, Captured
  <1> HIDE DEF w, q
  <1>3. Len(w) \in Nat /\ DOMAIN w = 1..Len(w) /\ \A i \in 1..Len(w) : w[i] \in Record
    BY <1>1
  <1>4. \A i \in 1..Len(w) : f[i] \in Record BY <1>3, CapturedRecord
  <1>5. f \in [1..Len(w) -> Record] BY <1>3, <1>4
  <1>6. f \in Seq(Record) /\ Len(f) = Len(w)
    <2> HIDE DEF f
    <2> QED BY <1>3, <1>5
  <1>7. q \in Stats /\ q.cycles = s.cycles /\ q.errors = s.errors /\ q.sensors = f
    <2> HIDE DEF f
    <2> QED BY <1>2, <1>6 DEF Stats
  <1>8. Len(q.sensors) = Len(w)
    <2> HIDE DEF f
    <2> QED BY <1>6, <1>7
  <1>9. \A i \in 1..Len(w) :
           q.sensors[i] = IF w[i].rom = d THEN Captured(w[i], c) ELSE w[i]
    BY <1>3, <1>7
  <1> QED BY <1>7, <1>8, <1>9 DEF w, q

Erred(r, error) ==
    IF error = "crc_fail" THEN [r EXCEPT !.crcErr = @ + 1] ELSE [r EXCEPT !.noPresence = @ + 1]

LEMMA ErredRecord ==
    ASSUME NEW r \in Record, NEW error
    PROVE  /\ Erred(r, error) \in Record
           /\ Erred(r, error).rom = r.rom
           /\ Erred(r, error).min = r.min /\ Erred(r, error).max = r.max
           /\ Erred(r, error).count = r.count
           /\ Erred(r, error).crcErr + Erred(r, error).noPresence
                = (r.crcErr + r.noPresence) + 1
  <1>1. r.crcErr \in Nat /\ r.noPresence \in Nat BY DEF Record
  <1>2. r.crcErr + 1 \in Nat /\ r.noPresence + 1 \in Nat BY <1>1
  <1>3. CASE error = "crc_fail" BY <1>1, <1>2, <1>3 DEF Erred, Record
  <1>4. CASE error # "crc_fail" BY <1>1, <1>2, <1>4 DEF Erred, Record
  <1> QED BY <1>3, <1>4

\* ow_stats_count_error(), record by record.
LEMMA ErrorShape ==
    ASSUME NEW s \in Stats, NEW error, NEW d \in Devices
    PROVE  LET w == WithSensor(s.sensors, d)
               q == CountError(s, error, d)
           IN /\ q \in Stats /\ q.cycles = s.cycles /\ q.errors = s.errors + 1
              /\ Len(q.sensors) = Len(w)
              /\ \A i \in 1..Len(w) :
                    q.sensors[i] = IF w[i].rom = d THEN Erred(w[i], error) ELSE w[i]
  <1> DEFINE w == WithSensor(s.sensors, d)
             q == CountError(s, error, d)
             f == [i \in DOMAIN w |-> IF w[i].rom = d THEN Erred(w[i], error) ELSE w[i]]
             g == [i \in DOMAIN w |->
                      LET r == w[i] IN
                      IF r.rom # d THEN r
                      ELSE IF error = "crc_fail" THEN [r EXCEPT !.crcErr = @ + 1]
                      ELSE [r EXCEPT !.noPresence = @ + 1]]
  <1>1. w \in Seq(Record) BY TableWithSensor DEF Stats
  <1>2. q = [s EXCEPT !.errors = @ + 1, !.sensors = g] BY DEF CountError
  <1> HIDE DEF w, q
  <1>3. Len(w) \in Nat /\ DOMAIN w = 1..Len(w) /\ \A i \in 1..Len(w) : w[i] \in Record
    BY <1>1
  <1>4. g = f BY DEF Erred
  <1>5. \A i \in 1..Len(w) : f[i] \in Record BY <1>3, ErredRecord
  <1>6. f \in [1..Len(w) -> Record] BY <1>3, <1>5
  <1>7. f \in Seq(Record) /\ Len(f) = Len(w)
    <2> HIDE DEF f
    <2> QED BY <1>3, <1>6
  <1>8. q \in Stats /\ q.cycles = s.cycles /\ q.errors = s.errors + 1 /\ q.sensors = f
    <2> HIDE DEF f, g
    <2>1. q = [s EXCEPT !.errors = @ + 1, !.sensors = f] BY <1>2, <1>4
    <2>2. s.errors \in Nat /\ s.errors + 1 \in Nat BY DEF Stats
    <2>3. s = [sensors |-> s.sensors, cycles |-> s.cycles, errors |-> s.errors] BY DEF Stats
    <2>4. q = [sensors |-> f, cycles |-> s.cycles, errors |-> s.errors + 1] BY <2>1, <2>3
    <2>5. s.cycles \in Nat BY DEF Stats
    <2> QED BY <2>2, <2>4, <2>5, <1>7 DEF Stats
  <1>9. Len(q.sensors) = Len(w)
    <2> HIDE DEF f
    <2> QED BY <1>7, <1>8
  <1>10. \A i \in 1..Len(w) :
            q.sensors[i] = IF w[i].rom = d THEN Erred(w[i], error) ELSE w[i]
    BY <1>3, <1>8
  <1> QED BY <1>8, <1>9, <1>10 DEF w, q

\* A read of device d by way of the table w.
ReadInto(w, batch, q, after, c, d) ==
    /\ c \in Reads /\ d \in Devices
    /\ d \in Known(w) \/ Len(w) >= MaxSensors
    /\ q \in Seq(Record) /\ Len(q) = Len(w)
    /\ \A i \in 1..Len(w) : q[i] = IF w[i].rom = d THEN Captured(w[i], c) ELSE w[i]
    /\ after \in Batch
    /\ after.captured = [batch.captured EXCEPT ![d] = @ + 1]
    /\ after.widths = [batch.widths EXCEPT ![d] = @ \cup {c.min, c.max}]

\* The records after a read: those of its device have it, the others do not care.
LEMMA TrueCaptured ==
    ASSUME NEW w, NEW batch, RecordsTrue(w, batch, app.found),
           NEW c, NEW d, NEW q, NEW after, ReadInto(w, batch, q, after, c, d)
    PROVE  RecordsTrue(q, after, app.found)
  <1>0. /\ c \in Reads /\ d \in Devices
        /\ d \in Known(w) \/ Len(w) >= MaxSensors
        /\ q \in Seq(Record) /\ Len(q) = Len(w)
        /\ \A i \in 1..Len(w) : q[i] = IF w[i].rom = d THEN Captured(w[i], c) ELSE w[i]
        /\ after \in Batch
        /\ after.captured = [batch.captured EXCEPT ![d] = @ + 1]
        /\ after.widths = [batch.widths EXCEPT ![d] = @ \cup {c.min, c.max}]
    BY DEF ReadInto
  <1> DEFINE n == Len(w)
  <1>1. w \in Seq(Record) /\ batch \in Batch BY DEF RecordsTrue
  <1>2. n \in Nat /\ DOMAIN w = 1..n /\ DOMAIN q = 1..n BY <1>0, <1>1
  <1>3. \A i \in 1..n : w[i] \in Record BY <1>1
  <1> HIDE DEF n
  <1>4. ASSUME NEW i \in 1..n PROVE q[i].rom = w[i].rom
    <2>1. q[i] = IF w[i].rom = d THEN Captured(w[i], c) ELSE w[i] BY <1>0 DEF n
    <2>2. w[i] \in Record BY <1>3
    <2>3. Captured(w[i], c).rom = w[i].rom BY <1>0, <2>2, CapturedRecord
    <2> QED BY <2>1, <2>3
  <1>5. Known(q) = Known(w) BY <1>2, <1>4 DEF Known
  <1>6. batch.captured \in [Devices -> Nat] /\ batch.widths \in [Devices -> SUBSET Width]
    BY <1>1 DEF Batch
  <1>7. \A e \in Devices : e # d => /\ after.captured[e] = batch.captured[e]
                                    /\ after.widths[e] = batch.widths[e]
    BY <1>0, <1>6
  <1>8. /\ after.captured[d] = batch.captured[d] + 1
        /\ after.widths[d] = batch.widths[d] \cup {c.min, c.max}
    BY <1>0, <1>6
  <1>9. ASSUME NEW i \in 1..n PROVE RecordTrue(q[i], after)
    <2> DEFINE r == w[i]
               v == batch.widths[d]
    <2>1. r \in Record /\ r.rom \in Devices BY <1>3 DEF Record
    <2>2. RecordTrue(r, batch) BY <1>2 DEF RecordsTrue
    <2>3. CASE r.rom # d
      <3>1. q[i] = r BY <1>0, <2>3 DEF n
      <3> QED BY <3>1, <2>1, <2>2, <2>3, <1>7 DEF RecordTrue
    <2>4. CASE r.rom = d
      <3>1. q[i] = Captured(r, c) BY <1>0, <2>4 DEF n
      <3>2. c.min \in Width /\ c.max \in Width /\ c.min <= c.max BY <1>0, ReadBounds
      <3>3. r.min \in Width /\ r.max \in Width BY <2>1 DEF Record
      <3>4. r.count = batch.captured[d] /\ Extremes(r, v) BY <2>2, <2>4 DEF RecordTrue
      <3>5. v \subseteq Width BY <1>0, <1>6
      <3>6. /\ q[i].rom = d /\ q[i].count = r.count + 1
            /\ q[i].min = Min2(r.min, c.min) /\ q[i].max = Max({r.max, c.max})
        <4>1. r \in Record BY <2>1
        <4> HIDE DEF r
        <4>2. /\ Captured(r, c).rom = r.rom /\ Captured(r, c).count = r.count + 1
              /\ Captured(r, c).min = Min2(r.min, c.min)
              /\ Captured(r, c).max = Max({r.max, c.max})
          BY <1>0, <4>1, CapturedRecord
        <4> QED BY <4>2, <2>4, <3>1
      <3> HIDE DEF r, v
      <3>7. Min2(r.min, c.min) = IF r.min <= c.min THEN r.min ELSE c.min BY DEF Min2
      <3>8. Max({r.max, c.max}) = IF r.max <= c.max THEN c.max ELSE r.max
        BY <3>2, <3>3, MaxOfTwo
      <3>9. Extremes(q[i], v \cup {c.min, c.max})
        <4>0. /\ r.min \in Int /\ r.max \in Int /\ c.min \in Int /\ c.max \in Int
              /\ 0 <= c.max /\ c.min <= 255 /\ 0 <= r.max /\ r.min <= 255
          BY <3>2, <3>3, WidthBounds
        <4>1. q[i].min = IF r.min <= c.min THEN r.min ELSE c.min BY <3>6, <3>7
        <4>2. q[i].max = IF r.max <= c.max THEN c.max ELSE r.max BY <3>6, <3>8
        <4>3. CASE v = {}
          <5>1. r.min = 255 /\ r.max = 0 BY <3>4, <4>3 DEF Extremes
          <5>2. q[i].min = c.min /\ q[i].max = c.max BY <4>0, <4>1, <4>2, <5>1
          <5>3. \A x \in v \cup {c.min, c.max} : c.min <= x /\ x <= c.max
            BY <4>0, <4>3, <3>2
          <5> QED BY <5>2, <5>3 DEF Extremes
        <4>4. CASE v # {}
          <5>1. r.min \in v /\ r.max \in v /\ \A x \in v : r.min <= x /\ x <= r.max
            BY <3>4, <4>4 DEF Extremes
          <5>2. q[i].min \in v \cup {c.min, c.max} /\ q[i].max \in v \cup {c.min, c.max}
            BY <4>1, <4>2, <5>1
          <5>3. q[i].min <= r.min /\ q[i].min <= c.min /\ r.max <= q[i].max /\ c.max <= q[i].max
            BY <4>0, <4>1, <4>2
          <5>4. q[i].min \in Int /\ q[i].max \in Int BY <4>0, <4>1, <4>2
          <5>5. \A x \in v \cup {c.min, c.max} : q[i].min <= x /\ x <= q[i].max
            <6> TAKE x \in v \cup {c.min, c.max}
            <6>1. CASE x \in v
              <7>1. r.min <= x /\ x <= r.max BY <6>1, <5>1
              <7>2. x \in Int BY <6>1, <3>5, WidthBounds
              <7> QED BY <7>1, <7>2, <4>0, <5>3, <5>4
            <6>2. CASE x \in {c.min, c.max}
              <7> QED BY <6>2, <4>0, <3>2, <5>3, <5>4
            <6> QED BY <6>1, <6>2
          <5> QED BY <5>2, <5>5, <4>4 DEF Extremes
        <4> QED BY <4>3, <4>4
      <3> QED BY <1>8, <3>4, <3>6, <3>9 DEF RecordTrue, v
    <2> QED BY <2>3, <2>4
  <1>10. ASSUME n < MaxSensors, NEW e \in Devices \ Known(q) PROVE Unread(e, after)
    <2>1. e # d BY <1>0, <1>2, <1>5, <1>10, MaxSensorsAssumption DEF n
    <2>2. Unread(e, batch) BY <1>5, <1>10 DEF RecordsTrue, n
    <2> QED BY <2>1, <2>2, <1>7 DEF Unread
  <1>11. n <= MaxSensors /\ Known(w) \subseteq Range(app.found) BY DEF RecordsTrue, n
  <1>12. \A i, j \in 1..n : q[i].rom = q[j].rom => i = j
    <2>1. \A i, j \in 1..n : w[i].rom = w[j].rom => i = j BY <1>2 DEF RecordsTrue
    <2> QED BY <2>1, <1>4
  <1> QED BY <1>0, <1>2, <1>5, <1>9, <1>10, <1>11, <1>12 DEF RecordsTrue, n

\* Error counters are no part of it.
LEMMA TrueAlike ==
    ASSUME NEW w, NEW batch, RecordsTrue(w, batch, app.found),
           NEW q \in Seq(Record), Len(q) = Len(w),
           \A i \in 1..Len(w) : /\ q[i].rom = w[i].rom /\ q[i].count = w[i].count
                                /\ q[i].min = w[i].min /\ q[i].max = w[i].max,
           NEW after \in Batch, after.captured = batch.captured, after.widths = batch.widths
    PROVE  RecordsTrue(q, after, app.found)
  <1>1. DOMAIN w = 1..Len(w) /\ DOMAIN q = 1..Len(w) BY DEF RecordsTrue
  <1>2. Known(q) = Known(w) BY <1>1 DEF Known
  <1>3. \A i \in 1..Len(w) : RecordTrue(q[i], after)
    <2>1. \A i \in 1..Len(w) : RecordTrue(w[i], batch) BY <1>1 DEF RecordsTrue
    <2> QED BY <2>1 DEF RecordTrue, Extremes
  <1>4. \A i, j \in 1..Len(w) : q[i].rom = q[j].rom => i = j BY <1>1 DEF RecordsTrue
  <1>5. Len(w) < MaxSensors => \A e \in Devices \ Known(w) : Unread(e, after)
    BY DEF RecordsTrue, Unread
  <1>6. Len(w) <= MaxSensors /\ Known(w) \subseteq Range(app.found) BY DEF RecordsTrue
  <1> QED BY <1>1, <1>2, <1>3, <1>4, <1>5, <1>6 DEF RecordsTrue

-----------------------------------------------------------------------------
(***************************************************************************)
(* Sums of the error counters.                                             *)
(***************************************************************************)
LEMMA CountsTyped ==
    ASSUME NEW s \in Seq(Record)
    PROVE  /\ ErrorCounts(s) \in [1..Len(s) -> Nat]
           /\ \A i \in 1..Len(s) : ErrorCounts(s)[i] = s[i].crcErr + s[i].noPresence
  <1>1. \A i \in 1..Len(s) : s[i] \in Record OBVIOUS
  <1>2. \A i \in 1..Len(s) : s[i].crcErr + s[i].noPresence \in Nat BY <1>1 DEF Record
  <1>3. DOMAIN s = 1..Len(s) OBVIOUS
  <1> QED BY <1>2, <1>3 DEF ErrorCounts

LEMMA TotalWithSensor ==
    ASSUME NEW s \in Seq(Record), NEW d \in Devices, NEW t \in Nat,
           IsTotal(t, ErrorCounts(s))
    PROVE  IsTotal(t, ErrorCounts(WithSensor(s, d)))
  <1> DEFINE w == WithSensor(s, d)
             n == Len(s)
  <1>1. w \in Seq(Record) /\ (w = s \/ w = Append(s, Fresh(d))) BY TableWithSensor
  <1>2. CASE w = s BY <1>2
  <1>3. CASE w = Append(s, Fresh(d))
    <2>1. Len(w) = n + 1 /\ w[n + 1] = Fresh(d) /\ \A i \in 1..n : w[i] = s[i]
      BY <1>3, FreshRecord
    <2>2. n \in Nat OBVIOUS
    <2>3. Fresh(d).crcErr = 0 /\ Fresh(d).noPresence = 0 BY DEF Fresh
    <2> HIDE DEF w, n
    <2>4. ErrorCounts(w) \in [1..(n + 1) -> Nat] BY <1>1, <2>1, CountsTyped
    <2>5. ErrorCounts(w)[n + 1] = 0
      <3>1. n + 1 \in 1..Len(w) BY <2>1, <2>2
      <3>2. ErrorCounts(w)[n + 1] = w[n + 1].crcErr + w[n + 1].noPresence
        BY <1>1, <3>1, CountsTyped
      <3> QED BY <2>1, <2>3, <3>2
    <2>6. ErrorCounts(s) \in [1..n -> Nat] BY CountsTyped DEF n
    <2>7. \A i \in 1..n : ErrorCounts(w)[i] = ErrorCounts(s)[i]
      <3> TAKE i \in 1..n
      <3>1. i \in 1..Len(w) /\ i \in 1..Len(s) BY <2>1, <2>2 DEF n
      <3>2. ErrorCounts(w)[i] = w[i].crcErr + w[i].noPresence BY <1>1, <3>1, CountsTyped
      <3>3. ErrorCounts(s)[i] = s[i].crcErr + s[i].noPresence BY <3>1, CountsTyped
      <3> QED BY <2>1, <3>2, <3>3
    <2> QED BY <2>2, <2>4, <2>5, <2>6, <2>7, TotalAppended DEF w
  <1> QED BY <1>1, <1>2, <1>3

LEMMA TotalCaptured ==
    ASSUME NEW w \in Seq(Record), NEW q \in Seq(Record), Len(q) = Len(w), NEW t \in Nat,
           \A i \in 1..Len(w) : /\ q[i].crcErr = w[i].crcErr
                                /\ q[i].noPresence = w[i].noPresence,
           IsTotal(t, ErrorCounts(w))
    PROVE  IsTotal(t, ErrorCounts(q))
  <1>1. DOMAIN q = DOMAIN w /\ DOMAIN w = 1..Len(w) OBVIOUS
  <1>2. ErrorCounts(q) = ErrorCounts(w) BY <1>1 DEF ErrorCounts
  <1> QED BY <1>2

\* An error is counted in the one record its device has.
LEMMA TotalErred ==
    ASSUME NEW w, NEW batch, RecordsTrue(w, batch, app.found), NEW d \in Known(w), NEW error,
           NEW q \in Seq(Record), Len(q) = Len(w),
           \A i \in 1..Len(w) : q[i] = IF w[i].rom = d THEN Erred(w[i], error) ELSE w[i],
           NEW t \in Nat, IsTotal(t, ErrorCounts(w))
    PROVE  IsTotal(t + 1, ErrorCounts(q))
  <1> DEFINE n == Len(w)
  <1>1. w \in Seq(Record) /\ n \in Nat /\ DOMAIN w = 1..n BY DEF RecordsTrue
  <1>2. PICK k \in 1..n : w[k].rom = d BY <1>1 DEF Known
  <1>3. \A i \in 1..n : i # k => w[i].rom # d BY <1>1, <1>2 DEF RecordsTrue
  <1>4. ErrorCounts(w) \in [1..n -> Nat] BY <1>1, CountsTyped
  <1>5. ErrorCounts(q) \in [1..n -> Nat] BY CountsTyped
  <1>6. ErrorCounts(q)[k] = ErrorCounts(w)[k] + 1
    <2>1. q[k] = Erred(w[k], error) BY <1>2
    <2>2. w[k] \in Record BY <1>1, <1>2
    <2>3. ErrorCounts(w)[k] = w[k].crcErr + w[k].noPresence BY <1>1, CountsTyped
    <2>4. ErrorCounts(q)[k] = q[k].crcErr + q[k].noPresence BY CountsTyped
    <2>5. q[k].crcErr + q[k].noPresence = (w[k].crcErr + w[k].noPresence) + 1
      BY <2>1, <2>2, ErredRecord
    <2> QED BY <2>3, <2>4, <2>5
  <1>7. ASSUME NEW i \in 1..n, i # k PROVE ErrorCounts(q)[i] = ErrorCounts(w)[i]
    <2>1. q[i] = w[i] BY <1>3, <1>7
    <2>2. ErrorCounts(w)[i] = w[i].crcErr + w[i].noPresence BY <1>1, CountsTyped
    <2>3. ErrorCounts(q)[i] = q[i].crcErr + q[i].noPresence BY CountsTyped
    <2> QED BY <2>1, <2>2, <2>3
  <1> DEFINE c == ErrorCounts(w)
             e == ErrorCounts(q)
  <1>8. CountedAt(n, c, e, k) BY <1>1, <1>2, <1>4, <1>5, <1>6, <1>7 DEF CountedAt
  <1> HIDE DEF n, c, e
  <1>9. IsTotal(t + 1, e)
    <2>1. IsTotal(t, c) BY DEF c
    <2> QED BY <1>8, <2>1, TotalCounted
  <1> QED BY <1>9 DEF e

(***************************************************************************)
(* A table with room for every device found has a record for each that an  *)
(* error is counted against: its records speak of different devices.       *)
(***************************************************************************)
LEMMA RoomForAll ==
    ASSUME NEW s, NEW batch, RecordsTrue(s, batch, app.found), NEW d \in Devices,
           d \in Range(app.found), app.found \in Seq(Devices), Len(app.found) <= MaxSensors
    PROVE  d \in Known(WithSensor(s, d))
  <1> SUFFICES ASSUME d \notin Known(WithSensor(s, d)) PROVE FALSE
    OBVIOUS
  <1> DEFINE n == Len(s)
             m == Len(app.found)
             S == 1..n
             F == Range(app.found)
             T == F \ {d}
             f == [i \in 1..n |-> s[i].rom]
             g == [i \in 1..m |-> app.found[i]]
  <1>1. s \in Seq(Record) /\ n \in Nat /\ m \in Nat /\ DOMAIN s = 1..n BY DEF RecordsTrue
  <1>2. d \in Known(WithSensor(s, d)) \/ Len(WithSensor(s, d)) >= MaxSensors
    BY TrueWithSensor
  <1>3. WithSensor(s, d) = s
    <2>1. WithSensor(s, d) = s \/ WithSensor(s, d) = Append(s, Fresh(d)) BY <1>1, TableWithSensor
    <2>2. ASSUME WithSensor(s, d) = Append(s, Fresh(d)) PROVE FALSE
      <3>1. Append(s, Fresh(d))[n + 1] = Fresh(d) /\ n + 1 \in DOMAIN Append(s, Fresh(d))
        BY <1>1, FreshRecord
      <3>2. Fresh(d).rom = d BY DEF Fresh
      <3> QED BY <2>2, <3>1, <3>2 DEF Known
    <2> QED BY <2>1, <2>2
  <1>4. n >= MaxSensors /\ d \notin Known(s) BY <1>2, <1>3
  <1>5. f \in Injection(S, T)
    <2>1. \A i \in S : f[i] \in T
      <3>1. \A i \in S : s[i].rom \in Known(s) BY <1>1 DEF Known
      <3>2. Known(s) \subseteq F BY DEF RecordsTrue
      <3> QED BY <1>4, <3>1, <3>2
    <2>2. \A i, j \in S : f[i] = f[j] => i = j BY <1>1 DEF RecordsTrue
    <2>3. f \in [S -> T] BY <2>1
    <2> HIDE DEF f, S, T
    <2> QED BY <2>2, <2>3 DEF Injection, IsInjective
  <1>6. g \in Surjection(1..m, F)
    <2>1. DOMAIN app.found = 1..m OBVIOUS
    <2>2. g \in [1..m -> F] BY <2>1 DEF Range
    <2>3. \A t \in F : \E i \in 1..m : g[i] = t BY <2>1 DEF Range
    <2> HIDE DEF g, F
    <2> QED BY <2>2, <2>3 DEF Surjection
  <1>7. IsFiniteSet(1..m) /\ Cardinality(1..m) = m
    <2> HIDE DEF m
    <2>0. m \in Int /\ 1 \in Int BY <1>1
    <2>1. IsFiniteSet(1..m) /\ Cardinality(1..m) = IF 1 > m THEN 0 ELSE (m - 1) + 1
      BY <2>0, FS_Interval
    <2> QED BY <1>1, <2>1
  <1>8. IsFiniteSet(S) /\ Cardinality(S) = n
    <2> HIDE DEF n
    <2>0. n \in Int /\ 1 \in Int BY <1>1
    <2>1. IsFiniteSet(1..n) /\ Cardinality(1..n) = IF 1 > n THEN 0 ELSE (n - 1) + 1
      BY <2>0, FS_Interval
    <2> QED BY <1>1, <2>1
  <1> HIDE DEF f, g, S, F
  <1>9. IsFiniteSet(F) /\ Cardinality(F) <= Cardinality(1..m) BY <1>6, <1>7, FS_Surjection
  <1>10. IsFiniteSet(T) /\ Cardinality(T) = Cardinality(F) - 1
    <2>1. d \in F BY DEF F
    <2> QED BY <1>9, <2>1, FS_RemoveElement
  <1> HIDE DEF T
  <1>11. Cardinality(S) <= Cardinality(T) BY <1>5, <1>10, FS_Injection
  <1>12. Cardinality(F) \in Nat BY <1>9, FS_CardinalityType
  <1>13. m <= n BY <1>1, <1>4, MaxSensorsAssumption
  <1> QED BY <1>1, <1>7, <1>8, <1>9, <1>10, <1>11, <1>12, <1>13

-----------------------------------------------------------------------------
(***************************************************************************)
(* The history, field by field.                                            *)
(***************************************************************************)
LEMMA LogIdle ==
    ASSUME LogTyped, NEW report, NEW held \in 0..(RingSize - 1),
           log' = [log EXCEPT !.report = report, !.held = held]
    PROVE  /\ LogTyped'
           /\ log'.batch = log.batch /\ log'.held = held
           /\ log'.lost = log.lost /\ log'.drained = log.drained
  <1> DEFINE b == log.batch
             l == log.lost
             e == log.drained
             r == log.report
             h == log.held
             after == log'
  <1>1. log = [batch |-> b, report |-> r, held |-> h, lost |-> l, drained |-> e]
    BY DEF LogTyped
  <1>2. b \in Batch /\ l \in BOOLEAN /\ e \in BOOLEAN BY DEF LogTyped
  <1> HIDE DEF b, l, e, r, h
  <1>3. after = [batch |-> b, report |-> report, held |-> held, lost |-> l, drained |-> e]
    BY <1>1
  <1>4. /\ after.batch = b /\ after.report = report /\ after.held = held
        /\ after.lost = l /\ after.drained = e
    <2> HIDE DEF after
    <2> QED BY <1>3
  <1>5. LogTyped' BY <1>2, <1>3, <1>4 DEF LogTyped
  <1> QED BY <1>4, <1>5 DEF b, l, e

\* The device has been reported once more.
MoreReports(batch, d) == [batch EXCEPT !.reports[d] = @ + 1]

MoreReads(batch, d, r) ==
    [batch EXCEPT !.captured[d] = @ + 1,
                  !.widths[d] = @ \cup {r.min, r.max},
                  !.failed[d] = @ + (IF r.verdict.kind = "temp" THEN 0 ELSE 1)]

LEMMA BatchReports ==
    ASSUME NEW batch \in Batch, NEW d \in Devices
    PROVE  LET after == MoreReports(batch, d) IN
           /\ after \in Batch
           /\ after.captured = batch.captured /\ after.widths = batch.widths
           /\ after.failed = batch.failed
           /\ after.reports = [batch.reports EXCEPT ![d] = @ + 1]
  <1> DEFINE reports == [batch.reports EXCEPT ![d] = @ + 1]
             after == MoreReports(batch, d)
  <1>1. batch.reports \in [Devices -> Nat] BY DEF Batch
  <1>2. reports \in [Devices -> Nat] BY <1>1
  <1>3. after = [batch EXCEPT !.reports = reports] BY DEF MoreReports
  <1> HIDE DEF reports, after
  <1>4. /\ after \in Batch
        /\ after.captured = batch.captured /\ after.widths = batch.widths
        /\ after.failed = batch.failed
        /\ after.reports = reports
    BY <1>2, <1>3 DEF Batch
  <1> QED BY <1>4 DEF reports, after

LEMMA BatchReads ==
    ASSUME NEW batch \in Batch, NEW d \in Devices, NEW r \in Reads
    PROVE  LET after == MoreReads(batch, d, r) IN
           /\ after \in Batch
           /\ after.captured = [batch.captured EXCEPT ![d] = @ + 1]
           /\ after.widths = [batch.widths EXCEPT ![d] = @ \cup {r.min, r.max}]
           /\ after.failed =
                 [batch.failed EXCEPT ![d] = @ + (IF r.verdict.kind = "temp" THEN 0 ELSE 1)]
           /\ after.reports = batch.reports
  <1> DEFINE captured == [batch.captured EXCEPT ![d] = @ + 1]
             widths   == [batch.widths EXCEPT ![d] = @ \cup {r.min, r.max}]
             failed   == [batch.failed EXCEPT
                             ![d] = @ + (IF r.verdict.kind = "temp" THEN 0 ELSE 1)]
             after    == MoreReads(batch, d, r)
  <1>1. /\ batch.captured \in [Devices -> Nat] /\ batch.failed \in [Devices -> Nat]
        /\ batch.widths \in [Devices -> SUBSET Width]
    BY DEF Batch
  <1>2. r.min \in Width /\ r.max \in Width BY ReadBounds
  <1>3. captured \in [Devices -> Nat] BY <1>1
  <1>4. widths \in [Devices -> SUBSET Width] BY <1>1, <1>2
  <1>5. failed \in [Devices -> Nat]
    <2> DEFINE k == IF r.verdict.kind = "temp" THEN 0 ELSE 1
    <2>1. k \in Nat OBVIOUS
    <2>2. failed = [batch.failed EXCEPT ![d] = @ + k] OBVIOUS
    <2> HIDE DEF k, failed
    <2>3. batch.failed[d] + k \in Nat BY <1>1, <2>1
    <2> QED BY <1>1, <2>2, <2>3
  <1>6. after = [[[batch EXCEPT !.captured = captured] EXCEPT !.widths = widths]
                    EXCEPT !.failed = failed]
    BY DEF MoreReads, Batch
  <1> HIDE DEF captured, widths, failed, after
  <1>7. /\ after \in Batch
        /\ after.captured = captured /\ after.widths = widths
        /\ after.failed = failed /\ after.reports = batch.reports
    BY <1>3, <1>4, <1>5, <1>6 DEF Batch
  <1> QED BY <1>7 DEF captured, widths, failed, after

LEMMA ReportedFields ==
    ASSUME LogTyped, NEW d \in Devices, NEW report, NEW drained \in BOOLEAN, NEW n, NEW txe
    PROVE  Reported(d, report, drained, n, txe) =
              [batch |-> MoreReports(log.batch, d), report |-> report,
               held |-> Held(n, txe), lost |-> drained /\ n > Room(tx), drained |-> drained]
  <1> DEFINE b == MoreReports(log.batch, d)
             h == Held(n, txe)
             l == drained /\ n > Room(tx)
             e == Reported(d, report, drained, n, txe)
  <1>1. log = [batch |-> log.batch, report |-> log.report, held |-> log.held,
               lost |-> log.lost, drained |-> log.drained]
    BY DEF LogTyped
  <1>2. e = [log EXCEPT !.report = report, !.batch = b, !.drained = drained,
                        !.held = h, !.lost = l]
    BY <1>1 DEF Reported, MoreReports
  <1> HIDE DEF b, h, l, e
  <1>3. e = [batch |-> b, report |-> report, held |-> h, lost |-> l, drained |-> drained]
    BY <1>1, <1>2
  <1> QED BY <1>3 DEF b, h, l, e

LEMMA LogReport ==
    ASSUME LogTyped, NEW d \in Devices, NEW report, NEW drained \in BOOLEAN,
           NEW n, NEW txe, Held(n, txe) \in 0..(RingSize - 1),
           log' = Reported(d, report, drained, n, txe)
    PROVE  /\ LogTyped'
           /\ log'.batch = MoreReports(log.batch, d) /\ log'.held = Held(n, txe)
           /\ log'.lost = (drained /\ n > Room(tx)) /\ log'.drained = drained
  <1> DEFINE b == MoreReports(log.batch, d)
             h == Held(n, txe)
             l == drained /\ n > Room(tx)
  <1>1. b \in Batch BY BatchReports DEF LogTyped
  <1>2. l \in BOOLEAN /\ h \in 0..(RingSize - 1) OBVIOUS
  <1>3. log' = [batch |-> b, report |-> report, held |-> h, lost |-> l, drained |-> drained]
    BY ReportedFields
  <1> HIDE DEF b, h, l
  <1>4. /\ log'.batch = b /\ log'.report = report /\ log'.held = h
        /\ log'.lost = l /\ log'.drained = drained
    BY <1>3
  <1>5. LogTyped' BY <1>1, <1>2, <1>3, <1>4 DEF LogTyped
  <1> QED BY <1>4, <1>5 DEF b, h, l

Decoded(d, report, drained, n, txe, r) ==
    [Reported(d, report, drained, n, txe)
     EXCEPT !.batch.captured[d] = @ + 1,
            !.batch.widths[d] = @ \cup {r.min, r.max},
            !.batch.failed[d] = @ + (IF r.verdict.kind = "temp" THEN 0 ELSE 1)]

LEMMA LogDecoded ==
    ASSUME LogTyped, NEW d \in Devices, NEW report, NEW drained \in BOOLEAN,
           NEW n, NEW txe, Held(n, txe) \in 0..(RingSize - 1), NEW r \in Reads,
           log' = Decoded(d, report, drained, n, txe, r)
    PROVE  /\ LogTyped'
           /\ log'.batch = MoreReads(MoreReports(log.batch, d), d, r)
           /\ log'.held = Held(n, txe)
           /\ log'.lost = (drained /\ n > Room(tx)) /\ log'.drained = drained
  <1> DEFINE b == MoreReports(log.batch, d)
             m == MoreReads(b, d, r)
             h == Held(n, txe)
             l == drained /\ n > Room(tx)
             e == Reported(d, report, drained, n, txe)
             after == log'
  <1>1. b \in Batch BY BatchReports DEF LogTyped
  <1>2. m \in Batch
    <2> HIDE DEF b
    <2> QED BY <1>1, BatchReads
  <1>3. l \in BOOLEAN /\ h \in 0..(RingSize - 1) OBVIOUS
  <1>4. e = [batch |-> b, report |-> report, held |-> h, lost |-> l, drained |-> drained]
    BY ReportedFields
  <1>5. after = [e EXCEPT !.batch = MoreReads(e.batch, d, r)]
    <2> HIDE DEF b, h, l, e
    <2>1. e.batch = b /\ DOMAIN e = {"batch", "report", "held", "lost", "drained"} BY <1>4
    <2>2. DOMAIN b = {"captured", "widths", "failed", "reports"} BY <1>1 DEF Batch
    <2> QED BY <2>1, <2>2 DEF Decoded, MoreReads, e
  <1> HIDE DEF b, h, l, e, after, m
  <1>6. e.batch = b BY <1>4
  <1>7. after = [batch |-> m, report |-> report, held |-> h, lost |-> l, drained |-> drained]
    <2>1. after = [e EXCEPT !.batch = m] BY <1>5, <1>6 DEF m
    <2> QED BY <1>4, <2>1
  <1>8. /\ after.batch = m /\ after.report = report /\ after.held = h
        /\ after.lost = l /\ after.drained = drained
    BY <1>7
  <1>9. LogTyped' BY <1>2, <1>3, <1>7, <1>8 DEF LogTyped, after
  <1> QED BY <1>8, <1>9 DEF b, h, l, m, after

-----------------------------------------------------------------------------
(***************************************************************************)
(* Branches that report nothing and touch neither the statistics nor the   *)
(* dump.                                                                   *)
(***************************************************************************)
LEMMA IdleKeeps ==
    ASSUME Inv, ~app.dumpBusy, NEW n \in Nat, NEW txe \in BOOLEAN, LoopEnd(n, txe),
           log' = [log EXCEPT !.report = <<>>, !.held = Held(n, txe)],
           UNCHANGED <<st, dump>>, app'.found = app.found, ~app'.dumpBusy
    PROVE  /\ tx' \in Ring /\ LogTyped' /\ log'.batch = log.batch
           /\ RingInv' /\ RecordInv'
  <1>1. tx \in Ring /\ Fill(tx) = log.held /\ LogTyped BY DEF Inv, Typed, RingInv
  <1>2. /\ tx' \in Ring /\ Fill(tx)' = Held(n, txe)
        /\ Held(n, txe) \in 0..(RingSize - 1)
    BY <1>1, LoopEndHolds
  <1>3. /\ LogTyped' /\ log'.batch = log.batch /\ log'.held = Held(n, txe)
        /\ log'.lost = log.lost /\ log'.drained = log.drained
    <2> DEFINE held == Held(n, txe)
    <2>1. held \in 0..(RingSize - 1) BY <1>2
    <2>2. log' = [log EXCEPT !.report = <<>>, !.held = held] OBVIOUS
    <2> HIDE DEF held
    <2>3. /\ LogTyped' /\ log'.batch = log.batch /\ log'.held = held
          /\ log'.lost = log.lost /\ log'.drained = log.drained
      BY <1>1, <2>1, <2>2, LogIdle
    <2> QED BY <2>3 DEF held
  <1>4. dump' = dump /\ st' = st OBVIOUS
  <1>5. dump.phase = 0 /\ ~log.lost BY DEF Inv, RingInv
  <1>6. Fill(tx)' = log'.held BY <1>2, <1>3
  <1>7. RingInv' BY <1>3, <1>4, <1>5, <1>6 DEF RingInv
  <1>8. RecordInv
    BY DEF Inv
  <1>9. RecordInv'
    BY <1>3, <1>4, <1>8 DEF RecordInv
  <1> QED BY <1>2, <1>3, <1>7, <1>9

LEMMA AppFields ==
    ASSUME Typed
    PROVE  /\ app.found \in Seq(Devices) /\ app.index \in Nat \ {0} /\ app.sweeps \in Nat
           /\ app.searching \in BOOLEAN /\ app.dumpBusy \in BOOLEAN /\ app.pending \in BOOLEAN
  BY DEF Typed, App

LEMMA SearchBranchKeeps ==
    ASSUME Inv, NEW txe \in BOOLEAN, SearchBranch(txe)
    PROVE  Inv'
  <1> DEFINE found == app.found
  <1>1. Typed /\ TurnInv BY DEF Inv
  <1>2. ~app.dumpBusy /\ app.searching BY DEF SearchBranch
  <1>3. app' = [app EXCEPT !.searching = FALSE] BY DEF SearchBranch
  <1>5. /\ app' \in App /\ app'.found = found /\ app'.searching = FALSE
        /\ app'.index = app.index /\ app'.sweeps = app.sweeps
        /\ app'.dumpBusy = app.dumpBusy /\ app'.pending = app.pending
    BY <1>1, <1>3 DEF Typed, App
  <1>6. /\ tx' \in Ring /\ LogTyped' /\ log'.batch = log.batch
        /\ RingInv' /\ RecordInv'
    <2>1. /\ LoopEnd(1, txe) /\ log' = [log EXCEPT !.report = <<>>, !.held = Held(1, txe)]
          /\ UNCHANGED <<st, dump>>
      BY DEF SearchBranch
    <2> QED BY <1>2, <1>5, <2>1, IdleKeeps
  <1>7. st' = st /\ dump' = dump BY DEF SearchBranch
  <1>8. ~Engaged /\ app.index = 1 BY <1>1, <1>2 DEF TurnInv
  <1>9. CASE found = <<>>
    <2>1. drv' = drv BY <1>9 DEF SearchBranch
    <2>2. ~Engaged' BY <1>5, <1>8, <2>1 DEF Engaged
    <2>3. TurnInv' BY <1>1, <1>2, <1>5, <1>6, <1>7, <1>8, <2>1, <2>2 DEF TurnInv
    <2>4. Typed' BY <1>1, <1>5, <1>6, <1>7, <2>1 DEF Typed
    <2> QED BY <1>6, <2>3, <2>4 DEF Inv
  <1>10. CASE found # <<>>
    <2>1. drv' = [state |-> "measuring", selected |-> found[1]] BY <1>10 DEF SearchBranch
    <2>2. found[1] \in Devices BY <1>1, <1>10, AppFields
    <2>3. drv' \in [state : {"IDLE", "measuring"}, selected : Devices \cup {NoDevice}]
      <3> DEFINE d == found[1]
      <3>1. d \in Devices BY <2>2
      <3>2. drv' = [state |-> "measuring", selected |-> d] BY <2>1
      <3> HIDE DEF d
      <3> QED BY <3>1, <3>2
    <2>4. drv'.selected = found[1] BY <2>1
    <2>5. TurnInv' BY <1>1, <1>2, <1>5, <1>6, <1>7, <1>8, <1>10, <2>4 DEF TurnInv
    <2>6. Typed' BY <1>1, <1>5, <1>6, <1>7, <2>3 DEF Typed
    <2> QED BY <1>6, <2>5, <2>6 DEF Inv
  <1> QED BY <1>9, <1>10

LEMMA PollRunningKeeps ==
    ASSUME Inv, NEW txe \in BOOLEAN, PollRunning(txe)
    PROVE  Inv'
  <1>1. Typed /\ TurnInv BY DEF Inv
  <1>2. drv' = drv /\ app' = app /\ st' = st /\ dump' = dump /\ ~app.dumpBusy
    BY DEF PollRunning, Measuring
  <1>3. /\ tx' \in Ring /\ LogTyped' /\ log'.batch = log.batch
        /\ RingInv' /\ RecordInv'
    <2>1. /\ LoopEnd(0, txe) /\ log' = [log EXCEPT !.report = <<>>, !.held = Held(0, txe)]
          /\ UNCHANGED <<st, dump>>
      BY DEF PollRunning
    <2> QED BY <1>2, <2>1, IdleKeeps
  <1>4. TurnInv' BY <1>1, <1>2, <1>3 DEF TurnInv, Engaged
  <1>5. Typed' BY <1>1, <1>2, <1>3 DEF Typed
  <1> QED BY <1>3, <1>4, <1>5 DEF Inv

LEMMA StartPendingKeeps ==
    ASSUME Inv, NEW txe \in BOOLEAN, StartPending(txe)
    PROVE  Inv'
  <1> DEFINE found == app.found
  <1>1. Typed /\ TurnInv BY DEF Inv
  <1>2. ~app.dumpBusy /\ app.pending BY DEF StartPending
  <1>3. app' = [app EXCEPT !.pending = FALSE] BY DEF StartPending
  <1>5. /\ app' \in App /\ app'.found = found /\ app'.searching = app.searching
        /\ app'.index = app.index /\ app'.sweeps = app.sweeps
        /\ app'.dumpBusy = app.dumpBusy /\ app'.pending = FALSE
    BY <1>1, <1>3 DEF Typed, App
  <1>6. /\ tx' \in Ring /\ LogTyped' /\ log'.batch = log.batch
        /\ RingInv' /\ RecordInv'
    <2>1. /\ LoopEnd(0, txe) /\ log' = [log EXCEPT !.report = <<>>, !.held = Held(0, txe)]
          /\ UNCHANGED <<st, dump>>
      BY DEF StartPending
    <2> QED BY <1>2, <1>5, <2>1, IdleKeeps
  <1>7. st' = st /\ dump' = dump BY DEF StartPending
  <1>8. drv' = [drv EXCEPT !.state = "measuring"] BY DEF StartPending
  <1>9. /\ drv' \in [state : {"IDLE", "measuring"}, selected : Devices \cup {NoDevice}]
        /\ drv'.selected = drv.selected
    BY <1>1, <1>8 DEF Typed
  <1>10. Engaged BY <1>2 DEF Engaged
  <1>11. TurnInv' BY <1>1, <1>2, <1>5, <1>6, <1>7, <1>9, <1>10 DEF TurnInv
  <1>12. Typed' BY <1>1, <1>5, <1>6, <1>7, <1>9 DEF Typed
  <1> QED BY <1>6, <1>11, <1>12 DEF Inv

-----------------------------------------------------------------------------
(***************************************************************************)
(* ds18b20_complete(): the next device in turn.                            *)
(***************************************************************************)
LEMMA TurnCases ==
    ASSUME Inv, Measuring
    PROVE  /\ Len(app.found) \in Nat \ {0} /\ app.index \in 1..Len(app.found)
           /\ drv.selected = app.found[app.index]
           /\ Turn = IF app.index = Len(app.found) THEN 1 ELSE app.index + 1
           /\ Reselected = app.found[Turn]
           /\ ~app.dumpBusy /\ app.sweeps < Sweeps
           /\ ~app.searching
  <1> DEFINE n == Len(app.found)
  <1>1. Typed /\ TurnInv BY DEF Inv
  <1>2. Engaged /\ ~app.dumpBusy BY DEF Measuring, Engaged
  <1>3. ~app.searching /\ app.found # <<>> /\ drv.selected = app.found[app.index]
    BY <1>1, <1>2 DEF TurnInv
  <1>4. n \in Nat \ {0} /\ app.index \in Nat \ {0}
    BY <1>1, <1>3, AppFields
  <1>5. app.index \in 1..n BY <1>1, <1>4 DEF TurnInv
  <1> HIDE DEF n
  <1>6. Turn = IF app.index = n THEN 1 ELSE app.index + 1
    <2>1. CASE n > 1
      <3>1. Turn = (app.index % n) + 1 BY <2>1 DEF Turn, n
      <3>2. app.index % n = IF app.index < n THEN app.index ELSE app.index - n
        <4> DEFINE i == app.index
        <4>1. i \in Nat /\ i < 2 * n BY <1>4, <1>5
        <4> HIDE DEF i
        <4>2. i % n = IF i < n THEN i ELSE i - n BY <1>4, <4>1, Wrap
        <4> QED BY <4>2 DEF i
      <3> QED BY <1>4, <1>5, <3>1, <3>2
    <2>2. CASE n = 1
      <3>1. Turn = app.index BY <2>2 DEF Turn, n
      <3> QED BY <1>5, <2>2, <3>1
    <2> QED BY <1>4, <2>1, <2>2
  <1>7. Reselected = app.found[Turn]
    <2>1. CASE n > 1 BY <2>1 DEF Reselected, n
    <2>2. CASE n = 1
      <3>1. Turn = app.index BY <1>5, <1>6, <2>2
      <3>2. Reselected = drv.selected BY <2>2 DEF Reselected, n
      <3> QED BY <1>3, <3>1, <3>2
    <2> QED BY <1>4, <2>1, <2>2
  <1>8. app.sweeps < Sweeps BY <1>1, <1>2 DEF TurnInv
  <1> QED BY <1>2, <1>3, <1>4, <1>5, <1>6, <1>7, <1>8 DEF n

\* The devices of a turn are devices of the search.
LEMMA TurnDevices ==
    ASSUME Inv, Measuring
    PROVE  /\ drv.selected \in Devices /\ drv.selected \in Range(app.found)
           /\ Reselected \in Devices /\ Reselected \in Range(app.found)
           /\ Turn \in 1..Len(app.found)
  <1> DEFINE n == Len(app.found)
  <1>1. app.found \in Seq(Devices) BY AppFields DEF Inv
  <1>2. DOMAIN app.found = 1..n /\ \A i \in 1..n : app.found[i] \in Devices BY <1>1
  <1>3. n \in Nat \ {0} /\ app.index \in 1..n BY TurnCases
  <1>4. Turn \in 1..n
    <2>1. Turn = IF app.index = n THEN 1 ELSE app.index + 1 BY TurnCases
    <2> HIDE DEF n
    <2> QED BY <1>3, <2>1
  <1>5. drv.selected = app.found[app.index] /\ Reselected = app.found[Turn] BY TurnCases
  <1> HIDE DEF n
  <1>6. \A i \in 1..n : app.found[i] \in Range(app.found) BY <1>2 DEF Range
  <1> QED BY <1>2, <1>3, <1>4, <1>5, <1>6 DEF n

LEMMA FoundOnce ==
    ASSUME Typed, NEW i \in DOMAIN app.found, NEW j \in DOMAIN app.found,
           app.found[i] = app.found[j]
    PROVE  i = j
  <1>1. i \in Nat /\ j \in Nat BY AppFields
  <1>2. app.found[i] \in Nat /\ app.found[j] \in Nat
    <2>1. app.found \in Seq(Devices) BY AppFields
    <2>2. app.found[i] \in Devices /\ app.found[j] \in Devices BY <2>1
    <2> QED BY <2>2, DevicesAssumption
  <1>3. i < j => app.found[i] < app.found[j] BY DEF Typed, Increasing
  <1>4. j < i => app.found[j] < app.found[i] BY DEF Typed, Increasing
  <1> QED BY <1>1, <1>2, <1>3, <1>4

LEMMA CompleteTurns ==
    ASSUME Inv, Measuring, Complete, st'.cycles = st.cycles + 1,
           log'.batch.reports = [log.batch.reports EXCEPT ![drv.selected] = @ + 1]
    PROVE  /\ TurnInv'
           /\ drv' \in [state : {"IDLE", "measuring"}, selected : Devices \cup {NoDevice}]
           /\ app' \in App /\ app'.found = app.found /\ app'.dumpBusy = DumpDue
           /\ dump' \in [phase : 0..4, sensor : Nat \ {0}]
  <1> DEFINE n == Len(app.found)
             k == app.index
             found == app.found
             before == log.batch.reports
             after == log'.batch.reports
  <1>1. Typed /\ TurnInv BY DEF Inv
  <1>2. /\ n \in Nat \ {0} /\ k \in 1..n /\ drv.selected = found[k]
        /\ Turn = (IF k = n THEN 1 ELSE k + 1) /\ Reselected = found[Turn]
        /\ ~app.dumpBusy /\ app.sweeps < Sweeps /\ ~app.searching
    BY TurnCases
  <1>3. Turn \in 1..n /\ Reselected \in Devices BY TurnDevices
  <1>4. app.sweeps \in Nat /\ found \in Seq(Devices) BY <1>1, AppFields
  <1>5. Turn = 1 <=> k = n BY <1>2
  <1>6. Swept = app.sweeps + (IF k = n THEN 1 ELSE 0) /\ Swept \in Nat
    BY <1>4, <1>5 DEF Swept
  <1>7. DumpDue <=> Swept = Sweeps
    BY <1>2, <1>4, <1>6, SweepsAssumption DEF DumpDue
  <1>8. DumpDue => k = n BY <1>2, <1>4, <1>6, <1>7, SweepsAssumption
  <1>9. /\ app' \in App /\ app'.found = found /\ app'.searching = app.searching
        /\ app'.index = Turn /\ app'.sweeps = Swept /\ app'.dumpBusy = DumpDue
        /\ app'.pending = app.pending
    <2>1. app' = [app EXCEPT !.index = Turn, !.sweeps = Swept, !.dumpBusy = DumpDue]
      BY DEF Complete
    <2>2. DumpDue \in BOOLEAN BY DEF DumpDue
    <2>3. Turn \in Nat \ {0} BY <1>2, <1>3
    <2> QED BY <1>1, <1>6, <2>1, <2>2, <2>3 DEF Typed, App
  <1>10. drv' = [state |-> IF DumpDue THEN "IDLE" ELSE "measuring", selected |-> Reselected]
    BY DEF Complete
  <1>11. /\ drv'.state \in {"IDLE", "measuring"} /\ drv'.selected = found[Turn]
         /\ DumpDue => drv'.state = "IDLE"
    BY <1>2, <1>10
  <1>12. drv' \in [state : {"IDLE", "measuring"}, selected : Devices \cup {NoDevice}]
    BY <1>3, <1>10
  <1>13. dump' \in [phase : 0..4, sensor : Nat \ {0}]
    <2>1. dump' = IF DumpDue THEN [phase |-> 1, sensor |-> 1] ELSE dump BY DEF Complete
    <2> QED BY <1>1, <2>1 DEF Typed
  <1>14. st'.cycles = Swept * n + (Turn - 1)
    <2>1. st.cycles = app.sweeps * n + (k - 1) BY <1>1 DEF TurnInv
    <2> HIDE DEF n, k
    <2>2. app.sweeps * n \in Nat BY <1>2, <1>4
    <2>3. CASE k = n
      <3>1. (app.sweeps + 1) * n = app.sweeps * n + n BY <1>2, <1>4
      <3>2. Swept = app.sweeps + 1 /\ Turn = 1 BY <1>5, <1>6, <2>3
      <3> QED BY <1>2, <1>4, <2>1, <2>2, <2>3, <3>1, <3>2
    <2>4. CASE k # n
      <3>1. Swept = app.sweeps /\ Turn = k + 1 BY <1>2, <1>4, <1>6, <2>4
      <3> QED BY <1>2, <2>1, <2>2, <3>1
    <2> QED BY <2>3, <2>4
  <1>15. ASSUME NEW i \in DOMAIN found PROVE after[found[i]] = ReportsOf(Swept, Turn, i)
    <2>1. DOMAIN found = 1..n BY <1>4
    <2>2. found[i] \in Devices /\ found[k] \in Devices BY <1>2, <1>4, <2>1
    <2>3. before \in [Devices -> Nat] BY <1>1 DEF Typed, LogTyped, Batch
    <2>4. after = [before EXCEPT ![found[k]] = @ + 1] BY <1>2
    <2>5. before[found[i]] = app.sweeps + (IF i < k THEN 1 ELSE 0)
      BY <1>1 DEF TurnInv, ReportsOf
    <2>6. found[i] = found[k] => i = k BY <1>1, <1>2, <2>1, FoundOnce
    <2> HIDE DEF before, after, n, k
    <2>7. after[found[i]] = before[found[i]] + (IF i = k THEN 1 ELSE 0)
      <3>1. CASE i = k
        <4>1. after[found[i]] = before[found[i]] + 1 BY <2>2, <2>3, <2>4, <3>1
        <4> QED BY <4>1, <3>1
      <3>2. CASE i # k
        <4>1. found[i] # found[k] BY <2>6, <3>2
        <4>2. after[found[i]] = before[found[i]] BY <2>2, <2>3, <2>4, <4>1
        <4> QED BY <2>2, <2>3, <4>2, <3>2
      <3> QED BY <3>1, <3>2
    <2>8. i \in 1..n BY <2>1
    <2>9. ReportsOf(Swept, Turn, i) = Swept + (IF i < Turn THEN 1 ELSE 0) BY DEF ReportsOf
    <2>10. CASE k = n
      <3>1. Swept = app.sweeps + 1 /\ Turn = 1 BY <1>5, <1>6, <2>10
      <3> QED BY <1>2, <1>4, <2>5, <2>7, <2>8, <2>9, <2>10, <3>1
    <2>11. CASE k # n
      <3>1. Swept = app.sweeps /\ Turn = k + 1 BY <1>2, <1>4, <1>6, <2>11
      <3> QED BY <1>2, <1>4, <2>5, <2>7, <2>8, <2>9, <2>11, <3>1
    <2> QED BY <2>10, <2>11
  <1>16. TurnInv'
    <2>1. ~app'.searching /\ app'.found # <<>> /\ drv'.selected = app'.found[app'.index]
      <3>1. found # <<>> BY <1>2
      <3> QED BY <1>2, <1>9, <1>11, <3>1
    <2>2. app'.index # 1 => ~app'.searching /\ app'.index <= Len(app'.found)
      BY <1>2, <1>3, <1>9
    <2>3. app'.dumpBusy => drv'.state = "IDLE" /\ app'.index = 1 /\ app'.sweeps = Sweeps
      BY <1>5, <1>7, <1>8, <1>9, <1>11
    <2>4. ~app'.dumpBusy => app'.sweeps < Sweeps
      BY <1>2, <1>4, <1>6, <1>7, <1>9, SweepsAssumption
    <2>5. st'.cycles = app'.sweeps * Len(app'.found) + (app'.index - 1)
      BY <1>9, <1>14
    <2>6. \A i \in DOMAIN app'.found :
             log'.batch.reports[app'.found[i]] = ReportsOf(app'.sweeps, app'.index, i)
      BY <1>9, <1>15
    <2> QED BY <2>1, <2>2, <2>3, <2>4, <2>5, <2>6 DEF TurnInv, ReportsOf
  <1> QED BY <1>9, <1>12, <1>13, <1>16

LEMMA CompleteRing ==
    ASSUME Inv, Measuring, Complete, NEW txe \in BOOLEAN, NEW drained \in BOOLEAN,
           LoopEnd(CallbackLines, txe), log'.held = Held(CallbackLines, txe),
           log'.lost = (drained /\ CallbackLines > Room(tx)), log'.drained = drained,
           drained => tx.tail = tx.head, Len(st'.sensors) \in Nat, app'.dumpBusy = DumpDue
    PROVE  RingInv'
  <1> DEFINE n == CallbackLines
  <1>1. tx \in Ring /\ Fill(tx) = log.held /\ dump.phase = 0
    BY TurnCases DEF Inv, Typed, RingInv
  <1>2. n \in 1..2 BY DEF CallbackLines
  <1>3. /\ Fill(tx)' = Held(n, txe) /\ Held(n, txe) \in 0..(RingSize - 1)
        /\ Held(n, txe) <= log.held + n /\ Room(tx) = (RingSize - 1) - log.held
    <2>1. n \in Nat BY <1>2
    <2> HIDE DEF n
    <2>2. LoopEnd(n, txe) BY DEF n
    <2> QED BY <1>1, <2>1, <2>2, LoopEndHolds
  <1>4. drained => log.held = 0
    <2>1. ASSUME tx.tail = tx.head PROVE Fill(tx) = 0
      <3> DEFINE h == tx.head
      <3>1. h \in 0..(RingSize - 1) BY <1>1 DEF Ring
      <3>2. Fill(tx) = ((RingSize + h) - h) % RingSize BY <2>1 DEF Fill
      <3> HIDE DEF h
      <3>3. ((RingSize + h) - h) % RingSize = IF h >= h THEN h - h ELSE (RingSize + h) - h
        BY <3>1, FillOfRing
      <3> QED BY <3>1, <3>2, <3>3
    <2> QED BY <1>1, <2>1
  <1>5. drained => /\ ~(n > Room(tx)) /\ Held(n, txe) <= 2
    <2> HIDE DEF n
    <2> QED BY <1>2, <1>3, <1>4, RingSizeNat, MaxSensorsAssumption
  <1>6. ~log'.lost BY <1>5
  <1>7. dump' = IF DumpDue THEN [phase |-> 1, sensor |-> 1] ELSE dump BY DEF Complete
  <1>8. (DumpDue => dump'.phase = 1) /\ (~DumpDue => dump'.phase = 0) BY <1>1, <1>7
  <1>9. app'.dumpBusy <=> dump'.phase # 0 BY <1>8
  <1>10. dump'.phase # 2 BY <1>8
  <1>11. dump'.phase # 0 /\ log'.drained => log'.held <= LinesSoFar'
    <2>1. dump'.phase = 1 => LinesSoFar' = 2 BY DEF LinesSoFar
    <2> QED BY <1>5, <1>8, <2>1
  <1> QED BY <1>3, <1>6, <1>9, <1>10, <1>11 DEF RingInv

-----------------------------------------------------------------------------
(***************************************************************************)
(* The reports.                                                            *)
(***************************************************************************)
LEMMA PollAbsentKeeps ==
    ASSUME Inv, NEW txe \in BOOLEAN, PollAbsent(txe)
    PROVE  Inv'
  <1> DEFINE d == drv.selected
             b == log.batch
             report == [kind |-> "no_sensor", tenths |-> 0, frame |-> <<>>]
  <1>1. Typed /\ RecordInv BY DEF Inv
  <1>2. Measuring /\ Complete /\ LoopEnd(CallbackLines, txe) BY DEF PollAbsent
  <1>3. d \in Devices BY <1>2, TurnDevices
  <1>4. Held(CallbackLines, txe) \in 0..(RingSize - 1) /\ tx' \in Ring
    <2>1. tx \in Ring /\ Fill(tx) = log.held BY DEF Inv, Typed, RingInv
    <2> DEFINE n == CallbackLines
    <2>2. n \in Nat /\ LoopEnd(n, txe) BY <1>2 DEF CallbackLines
    <2> HIDE DEF n
    <2>3. Held(n, txe) \in 0..(RingSize - 1) /\ tx' \in Ring BY <2>1, <2>2, LoopEndHolds
    <2> QED BY <2>3 DEF n
  <1>5. /\ LogTyped' /\ log'.batch = MoreReports(b, d)
        /\ log'.held = Held(CallbackLines, txe)
        /\ log'.lost = (FALSE /\ CallbackLines > Room(tx)) /\ log'.drained = FALSE
    <2>1. log' = Reported(d, report, FALSE, CallbackLines, txe) BY DEF PollAbsent
    <2>2. LogTyped BY <1>1 DEF Typed
    <2> DEFINE drained == FALSE
               n == CallbackLines
    <2>3. /\ drained \in BOOLEAN /\ log' = Reported(d, report, drained, n, txe)
          /\ Held(n, txe) \in 0..(RingSize - 1)
      BY <1>4, <2>1
    <2> HIDE DEF d, b, report, drained, n
    <2>4. /\ LogTyped' /\ log'.batch = MoreReports(log.batch, d)
          /\ log'.held = Held(n, txe)
          /\ log'.lost = (drained /\ n > Room(tx)) /\ log'.drained = drained
      BY <1>3, <2>2, <2>3, LogReport
    <2> QED BY <2>4 DEF b, drained, n
  <1>6. /\ log'.batch.captured = b.captured /\ log'.batch.widths = b.widths
        /\ log'.batch.failed = b.failed
        /\ log'.batch.reports = [b.reports EXCEPT ![d] = @ + 1]
    <2>1. b \in Batch BY <1>1 DEF Typed, LogTyped
    <2> HIDE DEF b, d
    <2> QED BY <1>3, <1>5, <2>1, BatchReports
  <1>7. st' \in Stats /\ st'.sensors = st.sensors /\ st'.errors = st.errors
        /\ st'.cycles = st.cycles + 1
    <2>1. st' = [st EXCEPT !.cycles = @ + 1] BY DEF PollAbsent, Ticked
    <2>2. st.cycles + 1 \in Nat BY <1>1 DEF Typed, Stats
    <2> QED BY <1>1, <2>1, <2>2 DEF Typed, Stats
  <1>8. /\ TurnInv'
        /\ drv' \in [state : {"IDLE", "measuring"}, selected : Devices \cup {NoDevice}]
        /\ app' \in App /\ app'.found = app.found /\ app'.dumpBusy = DumpDue
        /\ dump' \in [phase : 0..4, sensor : Nat \ {0}]
    BY <1>2, <1>6, <1>7, CompleteTurns
  <1>9. RingInv'
    <2>1. Len(st'.sensors) \in Nat BY <1>1, <1>7 DEF Typed, Stats
    <2>2. FALSE \in BOOLEAN OBVIOUS
    <2>3. FALSE => tx.tail = tx.head OBVIOUS
    <2> QED BY <1>2, <1>5, <1>8, <2>1, <2>2, <2>3, CompleteRing
  <1>10. RecordInv'
    <2>1. RecordsTrue(st'.sensors, log'.batch, app'.found)
      <3>1. RecordsTrue(st.sensors, b, app.found) BY <1>1 DEF RecordInv
      <3>2. st.sensors \in Seq(Record) BY <1>1 DEF Typed, Stats
      <3>3. log'.batch \in Batch BY <1>5 DEF LogTyped
      <3>4. RecordsTrue(st.sensors, log'.batch, app.found)
        <4> DEFINE s == st.sensors
                   a == log'.batch
        <4>1. /\ RecordsTrue(s, b, app.found) /\ s \in Seq(Record) /\ a \in Batch
              /\ a.captured = b.captured /\ a.widths = b.widths
          BY <1>6, <3>1, <3>2, <3>3
        <4> HIDE DEF s, a, b
        <4>2. RecordsTrue(s, a, app.found) BY <4>1, TrueAlike
        <4> QED BY <4>2 DEF s, a
      <3> QED BY <1>7, <1>8, <3>4
    <2>2. FailedReads(log'.batch, app'.found) = FailedReads(b, app.found)
      BY <1>6, <1>8 DEF FailedReads
    <2> QED BY <1>1, <1>7, <1>8, <2>1, <2>2 DEF RecordInv
  <1>11. Typed' BY <1>1, <1>4, <1>5, <1>7, <1>8 DEF Typed
  <1> QED BY <1>8, <1>9, <1>10, <1>11 DEF Inv

\* The failed reads, device by device of the search.
LEMMA FailedTyped ==
    ASSUME NEW batch \in Batch, Typed
    PROVE  /\ FailedReads(batch, app.found) \in [1..Len(app.found) -> Nat]
           /\ \A i \in 1..Len(app.found) :
                 FailedReads(batch, app.found)[i] = batch.failed[app.found[i]]
  <1>1. app.found \in Seq(Devices) BY AppFields
  <1>2. DOMAIN app.found = 1..Len(app.found) BY <1>1
  <1>3. \A i \in 1..Len(app.found) : app.found[i] \in Devices BY <1>1
  <1>4. batch.failed \in [Devices -> Nat] BY DEF Batch
  <1>5. \A i \in 1..Len(app.found) : batch.failed[app.found[i]] \in Nat BY <1>3, <1>4
  <1> QED BY <1>2, <1>5 DEF FailedReads

LEMMA FailedCounted ==
    ASSUME Typed, NEW batch \in Batch, NEW after \in Batch, NEW k \in 1..Len(app.found),
           after.failed = [batch.failed EXCEPT ![app.found[k]] = @ + 1],
           NEW t \in Nat, IsTotal(t, FailedReads(batch, app.found))
    PROVE  IsTotal(t + 1, FailedReads(after, app.found))
  <1> DEFINE n == Len(app.found)
             c == FailedReads(batch, app.found)
             e == FailedReads(after, app.found)
             d == app.found[k]
  <1>1. n \in Nat /\ DOMAIN app.found = 1..n /\ \A i \in 1..n : app.found[i] \in Devices
    BY AppFields
  <1>2. c \in [1..n -> Nat] /\ \A i \in 1..n : c[i] = batch.failed[app.found[i]]
    BY FailedTyped
  <1>3. e \in [1..n -> Nat] /\ \A i \in 1..n : e[i] = after.failed[app.found[i]]
    BY FailedTyped
  <1>4. batch.failed \in [Devices -> Nat] BY DEF Batch
  <1>5. e[k] = c[k] + 1
    <2>1. after.failed[d] = batch.failed[d] + 1 BY <1>1, <1>4
    <2> HIDE DEF c, e
    <2> QED BY <1>2, <1>3, <2>1
  <1>6. ASSUME NEW i \in 1..n, i # k PROVE e[i] = c[i]
    <2>1. app.found[i] # app.found[k] BY <1>1, <1>6, FoundOnce
    <2>2. after.failed[app.found[i]] = batch.failed[app.found[i]] BY <1>1, <1>4, <2>1
    <2> HIDE DEF c, e
    <2> QED BY <1>2, <1>3, <2>2
  <1>7. CountedAt(n, c, e, k) /\ IsTotal(t, c)
    <2> HIDE DEF c, e
    <2>1. CountedAt(n, c, e, k) BY <1>1, <1>2, <1>3, <1>5, <1>6 DEF CountedAt
    <2> QED BY <2>1 DEF c
  <1> HIDE DEF n, c, e
  <1>8. IsTotal(t + 1, e) BY <1>7, TotalCounted
  <1> QED BY <1>8 DEF e

(***************************************************************************)
(* The statistics after a read: its device first, and then the one the     *)
(* error is counted against.                                               *)
(***************************************************************************)
TableTotal(errors, sensors) ==
    Len(app.found) <= MaxSensors => IsTotal(errors, ErrorCounts(sensors))

LEMMA CaptureKeeps ==
    ASSUME Typed, NEW s, s \in Stats, NEW batch, RecordsTrue(s.sensors, batch, app.found),
           TableTotal(s.errors, s.sensors), NEW r \in Reads,
           NEW d \in Devices, d \in Range(app.found),
           NEW after \in Batch,
           after.captured = [batch.captured EXCEPT ![d] = @ + 1],
           after.widths = [batch.widths EXCEPT ![d] = @ \cup {r.min, r.max}]
    PROVE  LET q == CapturePulse(s, r, d) IN
           /\ q \in Stats /\ q.cycles = s.cycles /\ q.errors = s.errors
           /\ RecordsTrue(q.sensors, after, app.found)
           /\ TableTotal(s.errors, q.sensors)
  <1> DEFINE w == WithSensor(s.sensors, d)
             q == CapturePulse(s, r, d)
             z == q.sensors
  <1>1. /\ q \in Stats /\ q.cycles = s.cycles /\ q.errors = s.errors
        /\ Len(z) = Len(w)
        /\ \A i \in 1..Len(w) : z[i] = IF w[i].rom = d THEN Captured(w[i], r) ELSE w[i]
    BY CaptureShape
  <1>2. /\ RecordsTrue(w, batch, app.found)
        /\ d \in Known(w) \/ Len(w) >= MaxSensors
    <2> DEFINE v == s.sensors
    <2>1. RecordsTrue(v, batch, app.found) OBVIOUS
    <2> HIDE DEF v
    <2> QED BY <2>1, TrueWithSensor DEF v
  <1>3. z \in Seq(Record) /\ s.sensors \in Seq(Record) /\ s.errors \in Nat
    BY <1>1 DEF Stats
  <1> HIDE DEF z, q
  <1>4. w \in Seq(Record) BY <1>3, TableWithSensor
  <1>5. RecordsTrue(z, after, app.found)
    <2> HIDE DEF w
    <2>1. /\ after.captured = [batch.captured EXCEPT ![d] = @ + 1]
          /\ after.widths = [batch.widths EXCEPT ![d] = @ \cup {r.min, r.max}]
      OBVIOUS
    <2>2. ReadInto(w, batch, z, after, r, d) BY <1>1, <1>2, <1>3, <2>1 DEF ReadInto
    <2> QED BY <1>2, <2>2, TrueCaptured
  <1>6. ASSUME Len(app.found) <= MaxSensors PROVE IsTotal(s.errors, ErrorCounts(z))
    <2> DEFINE v == s.sensors
               t == s.errors
    <2>1. IsTotal(t, ErrorCounts(v)) /\ t \in Nat /\ v \in Seq(Record)
      BY <1>3, <1>6 DEF TableTotal
    <2>2. IsTotal(t, ErrorCounts(w))
      <3> HIDE DEF v, t
      <3>1. IsTotal(t, ErrorCounts(WithSensor(v, d))) BY <2>1, TotalWithSensor
      <3> QED BY <3>1 DEF v
    <2>3. \A i \in 1..Len(w) : z[i].crcErr = w[i].crcErr /\ z[i].noPresence = w[i].noPresence
      <3> HIDE DEF w
      <3> TAKE i \in 1..Len(w)
      <3>1. w[i] \in Record BY <1>4
      <3>2. /\ Captured(w[i], r).crcErr = w[i].crcErr
            /\ Captured(w[i], r).noPresence = w[i].noPresence
        BY <3>1, CapturedRecord
      <3> QED BY <1>1, <3>2
    <2> HIDE DEF w, t
    <2>4. IsTotal(t, ErrorCounts(z)) BY <1>1, <1>3, <1>4, <2>1, <2>2, <2>3, TotalCaptured
    <2> QED BY <2>4 DEF t
  <1> QED BY <1>1, <1>5, <1>6 DEF TableTotal, z, q

LEMMA ErrorKeeps ==
    ASSUME Typed, NEW s, s \in Stats, NEW batch, RecordsTrue(s.sensors, batch, app.found),
           TableTotal(s.errors, s.sensors), NEW error,
           NEW d \in Devices, d \in Range(app.found)
    PROVE  LET q == CountError(s, error, d) IN
           /\ q \in Stats /\ q.cycles = s.cycles /\ q.errors = s.errors + 1
           /\ RecordsTrue(q.sensors, batch, app.found)
           /\ TableTotal(q.errors, q.sensors)
  <1> DEFINE w == WithSensor(s.sensors, d)
             q == CountError(s, error, d)
             z == q.sensors
             v == s.sensors
             t == s.errors
  <1>1. /\ q \in Stats /\ q.cycles = s.cycles /\ q.errors = s.errors + 1
        /\ Len(z) = Len(w)
        /\ \A i \in 1..Len(w) : z[i] = IF w[i].rom = d THEN Erred(w[i], error) ELSE w[i]
    BY ErrorShape
  <1>2. RecordsTrue(w, batch, app.found)
    <2>1. RecordsTrue(v, batch, app.found) OBVIOUS
    <2> HIDE DEF v
    <2> QED BY <2>1, TrueWithSensor DEF v
  <1>3. z \in Seq(Record) /\ v \in Seq(Record) /\ t \in Nat BY <1>1 DEF Stats
  <1>4. batch \in Batch BY DEF RecordsTrue
  <1> HIDE DEF z, q
  <1>5. w \in Seq(Record) BY <1>3, TableWithSensor
  <1>6. RecordsTrue(z, batch, app.found)
    <2> HIDE DEF w
    <2>1. \A i \in 1..Len(w) : /\ z[i].rom = w[i].rom /\ z[i].count = w[i].count
                               /\ z[i].min = w[i].min /\ z[i].max = w[i].max
      <3> TAKE i \in 1..Len(w)
      <3>1. w[i] \in Record BY <1>5
      <3>2. /\ Erred(w[i], error).rom = w[i].rom /\ Erred(w[i], error).count = w[i].count
            /\ Erred(w[i], error).min = w[i].min /\ Erred(w[i], error).max = w[i].max
        BY <3>1, ErredRecord
      <3> QED BY <1>1, <3>2
    <2> QED BY <1>1, <1>2, <1>3, <1>4, <2>1, TrueAlike
  <1>7. ASSUME Len(app.found) <= MaxSensors PROVE IsTotal(t + 1, ErrorCounts(z))
    <2>1. IsTotal(t, ErrorCounts(v)) BY <1>7 DEF TableTotal
    <2>2. IsTotal(t, ErrorCounts(w))
      <3> HIDE DEF v, t
      <3>1. IsTotal(t, ErrorCounts(WithSensor(v, d))) BY <1>3, <2>1, TotalWithSensor
      <3> QED BY <3>1 DEF v
    <2>3. d \in Known(w)
      <3>1. app.found \in Seq(Devices) BY AppFields
      <3>2. RecordsTrue(v, batch, app.found) OBVIOUS
      <3> HIDE DEF v
      <3>3. d \in Known(WithSensor(v, d)) BY <1>7, <3>1, <3>2, RoomForAll
      <3> QED BY <3>3 DEF v
    <2> HIDE DEF w, t
    <2> QED BY <1>1, <1>2, <1>3, <2>2, <2>3, TotalErred
  <1> QED BY <1>1, <1>6, <1>7 DEF TableTotal, z, q, t

\* What a decoded read makes of the statistics and of the two sums.
DecodeOf(r, d, e, kind, q, after) ==
    /\ r \in Reads /\ d \in Devices /\ e \in Devices
    /\ d \in Range(app.found) /\ e \in Range(app.found)
    /\ q = IF kind = "temp" THEN Ticked(CapturePulse(st, r, d))
           ELSE CountError(Ticked(CapturePulse(st, r, d)), kind, e)
    /\ after \in Batch
    /\ after.captured = [log.batch.captured EXCEPT ![d] = @ + 1]
    /\ after.widths = [log.batch.widths EXCEPT ![d] = @ \cup {r.min, r.max}]

LEMMA DecodeStats ==
    ASSUME Inv, NEW r, NEW d, NEW e, NEW kind, NEW q, NEW after,
           DecodeOf(r, d, e, kind, q, after)
    PROVE  /\ q \in Stats /\ q.cycles = st.cycles + 1
           /\ q.errors = st.errors + (IF kind = "temp" THEN 0 ELSE 1)
           /\ RecordsTrue(q.sensors, after, app.found)
           /\ TableTotal(q.errors, q.sensors)
  <1> DEFINE c == CapturePulse(st, r, d)
             t == Ticked(c)
             s == st
             b == log.batch
  <1>0. /\ r \in Reads /\ d \in Devices /\ e \in Devices
        /\ d \in Range(app.found) /\ e \in Range(app.found)
        /\ q = IF kind = "temp" THEN Ticked(CapturePulse(st, r, d))
               ELSE CountError(Ticked(CapturePulse(st, r, d)), kind, e)
        /\ after \in Batch
        /\ after.captured = [log.batch.captured EXCEPT ![d] = @ + 1]
        /\ after.widths = [log.batch.widths EXCEPT ![d] = @ \cup {r.min, r.max}]
    BY DEF DecodeOf
  <1>1. Typed /\ s \in Stats /\ RecordsTrue(s.sensors, b, app.found) BY DEF Inv, Typed, RecordInv
  <1>2. TableTotal(s.errors, s.sensors) BY DEF Inv, RecordInv, TableTotal
  <1>3. /\ c \in Stats /\ c.cycles = s.cycles /\ c.errors = s.errors
        /\ RecordsTrue(c.sensors, after, app.found)
        /\ TableTotal(s.errors, c.sensors)
    <2>1. /\ after.captured = [b.captured EXCEPT ![d] = @ + 1]
          /\ after.widths = [b.widths EXCEPT ![d] = @ \cup {r.min, r.max}]
      BY <1>0
    <2> HIDE DEF s, b
    <2>2. LET x == CapturePulse(s, r, d) IN
          /\ x \in Stats /\ x.cycles = s.cycles /\ x.errors = s.errors
          /\ RecordsTrue(x.sensors, after, app.found)
          /\ TableTotal(s.errors, x.sensors)
      BY <1>0, <1>1, <1>2, <2>1, CaptureKeeps
    <2> QED BY <2>2 DEF s
  <1> HIDE DEF c
  <1>4. /\ t \in Stats /\ t.sensors = c.sensors /\ t.errors = c.errors
        /\ t.cycles = c.cycles + 1
    BY <1>3 DEF Ticked, Stats
  <1>5. CASE kind = "temp"
    <2>1. q = t BY <1>0, <1>5 DEF c
    <2>2. s.errors \in Nat BY <1>1 DEF Stats
    <2> HIDE DEF t
    <2> QED BY <1>3, <1>4, <1>5, <2>1, <2>2
  <1>6. CASE kind # "temp"
    <2>1. q = CountError(t, kind, e) BY <1>0, <1>6 DEF c
    <2> HIDE DEF t
    <2>2. RecordsTrue(t.sensors, after, app.found) /\ TableTotal(t.errors, t.sensors)
      BY <1>3, <1>4
    <2>3. LET x == CountError(t, kind, e) IN
          /\ x \in Stats /\ x.cycles = t.cycles /\ x.errors = t.errors + 1
          /\ RecordsTrue(x.sensors, after, app.found)
          /\ TableTotal(x.errors, x.sensors)
      BY <1>0, <1>1, <1>4, <2>2, ErrorKeeps
    <2> QED BY <1>3, <1>4, <1>6, <2>1, <2>3
  <1> QED BY <1>5, <1>6

LEMMA PollDecodeKeeps ==
    ASSUME Inv, NEW r \in Reads, NEW txe \in BOOLEAN, PollDecode(r, txe)
    PROVE  Inv'
  <1> DEFINE d == drv.selected
             b == log.batch
             kind == r.verdict.kind
             a == log'.batch
             q == st'
             k == IF kind = "temp" THEN 0 ELSE 1
             report == [kind |-> r.verdict.kind, tenths |-> r.verdict.tenths, frame |-> r.frame]
  <1>1. Typed /\ RecordInv /\ LogTyped /\ b \in Batch BY DEF Inv, Typed, LogTyped
  <1>2. Measuring /\ Complete /\ LoopEnd(CallbackLines, txe) /\ tx.tail = tx.head
    BY DEF PollDecode
  <1>3. d \in Devices /\ d \in Range(app.found)
        /\ Reselected \in Devices /\ Reselected \in Range(app.found)
    BY <1>2, TurnDevices
  <1>4. Held(CallbackLines, txe) \in 0..(RingSize - 1) /\ tx' \in Ring
    <2>1. tx \in Ring /\ Fill(tx) = log.held BY DEF Inv, Typed, RingInv
    <2> DEFINE n == CallbackLines
    <2>2. n \in Nat /\ LoopEnd(n, txe) BY <1>2 DEF CallbackLines
    <2> HIDE DEF n
    <2>3. Held(n, txe) \in 0..(RingSize - 1) /\ tx' \in Ring BY <2>1, <2>2, LoopEndHolds
    <2> QED BY <2>3 DEF n
  <1>5. /\ LogTyped' /\ a = MoreReads(MoreReports(b, d), d, r)
        /\ log'.held = Held(CallbackLines, txe)
        /\ log'.lost = (TRUE /\ CallbackLines > Room(tx)) /\ log'.drained = TRUE
    <2> DEFINE drained == TRUE
               n == CallbackLines
    <2>1. log' = Decoded(d, report, drained, n, txe, r) BY DEF PollDecode, Decoded
    <2>2. drained \in BOOLEAN /\ Held(n, txe) \in 0..(RingSize - 1) BY <1>4
    <2> HIDE DEF d, report, drained, n
    <2>3. /\ LogTyped'
          /\ log'.batch = MoreReads(MoreReports(log.batch, d), d, r)
          /\ log'.held = Held(n, txe)
          /\ log'.lost = (drained /\ n > Room(tx)) /\ log'.drained = drained
      BY <1>1, <1>3, <2>1, <2>2, LogDecoded
    <2> QED BY <2>3 DEF drained, n
  <1>6. /\ a \in Batch
        /\ a.captured = [b.captured EXCEPT ![d] = @ + 1]
        /\ a.widths = [b.widths EXCEPT ![d] = @ \cup {r.min, r.max}]
        /\ a.failed = [b.failed EXCEPT ![d] = @ + k]
        /\ a.reports = [b.reports EXCEPT ![d] = @ + 1]
    <2> DEFINE m == MoreReports(b, d)
               x == MoreReads(m, d, r)
    <2> HIDE DEF b, d, a
    <2>1. /\ m \in Batch /\ m.captured = b.captured /\ m.widths = b.widths
          /\ m.failed = b.failed /\ m.reports = [b.reports EXCEPT ![d] = @ + 1]
      BY <1>1, <1>3, BatchReports
    <2>2. a = x BY <1>5
    <2> HIDE DEF m
    <2>3. /\ x \in Batch
          /\ x.captured = [m.captured EXCEPT ![d] = @ + 1]
          /\ x.widths = [m.widths EXCEPT ![d] = @ \cup {r.min, r.max}]
          /\ x.failed = [m.failed EXCEPT ![d] = @ + k]
          /\ x.reports = m.reports
      BY <1>3, <2>1, BatchReads
    <2> HIDE DEF x, k
    <2> QED BY <2>1, <2>2, <2>3
  <1>7. /\ q \in Stats /\ q.cycles = st.cycles + 1
        /\ q.errors = st.errors + k
        /\ RecordsTrue(q.sensors, a, app.found)
        /\ TableTotal(q.errors, q.sensors)
    <2>1. q = (IF kind = "temp" THEN Ticked(CapturePulse(st, r, d))
               ELSE CountError(Ticked(CapturePulse(st, r, d)), kind, Reselected))
      BY DEF PollDecode
    <2> DEFINE e == Reselected
    <2>2. e \in Devices /\ e \in Range(app.found) BY <1>3
    <2>3. q = (IF kind = "temp" THEN Ticked(CapturePulse(st, r, d))
               ELSE CountError(Ticked(CapturePulse(st, r, d)), kind, e))
      BY <2>1
    <2>4. /\ a.captured = [log.batch.captured EXCEPT ![d] = @ + 1]
          /\ a.widths = [log.batch.widths EXCEPT ![d] = @ \cup {r.min, r.max}]
      BY <1>6
    <2>5. DecodeOf(r, d, e, kind, q, a)
      <3> HIDE DEF q, kind, d, e, a
      <3> QED BY <1>3, <1>6, <2>2, <2>3, <2>4 DEF DecodeOf
    <2> HIDE DEF q, kind, d, e, a, k
    <2>6. /\ q \in Stats /\ q.cycles = st.cycles + 1
          /\ q.errors = st.errors + (IF kind = "temp" THEN 0 ELSE 1)
          /\ RecordsTrue(q.sensors, a, app.found)
          /\ TableTotal(q.errors, q.sensors)
      BY <2>5, DecodeStats
    <2> QED BY <2>6 DEF k
  <1>8. /\ TurnInv'
        /\ drv' \in [state : {"IDLE", "measuring"}, selected : Devices \cup {NoDevice}]
        /\ app' \in App /\ app'.found = app.found /\ app'.dumpBusy = DumpDue
        /\ dump' \in [phase : 0..4, sensor : Nat \ {0}]
    BY <1>2, <1>6, <1>7, CompleteTurns
  <1>9. RingInv'
    <2>1. Len(st'.sensors) \in Nat BY <1>7 DEF Stats
    <2> DEFINE drained == TRUE
    <2>2. drained \in BOOLEAN /\ (drained => tx.tail = tx.head) BY <1>2
    <2>3. log'.lost = (drained /\ CallbackLines > Room(tx)) /\ log'.drained = drained BY <1>5
    <2> HIDE DEF drained
    <2> QED BY <1>2, <1>5, <1>8, <2>1, <2>2, <2>3, CompleteRing
  <1>10. IsTotal(q.errors, FailedReads(a, app.found))
    <2> DEFINE t == st.errors
    <2>1. IsTotal(t, FailedReads(b, app.found)) /\ t \in Nat
      BY <1>1 DEF RecordInv, Typed, Stats
    <2>2. CASE kind = "temp"
      <3>1. k = 0 BY <2>2
      <3>2. b.failed \in [Devices -> Nat] BY <1>1 DEF Batch
      <3> HIDE DEF k, a, b, d, q, t
      <3>3. a.failed = b.failed BY <1>3, <1>6, <3>1, <3>2
      <3>4. q.errors = t BY <1>7, <2>1, <3>1 DEF t
      <3> QED BY <2>1, <3>3, <3>4 DEF FailedReads
    <2>3. CASE kind # "temp"
      <3>1. k = 1 BY <2>3
      <3>2. PICK j \in DOMAIN app.found : app.found[j] = d BY <1>3 DEF Range
      <3>3. j \in 1..Len(app.found)
        <4>1. app.found \in Seq(Devices) BY <1>1, AppFields
        <4> QED BY <4>1
      <3> HIDE DEF k, a, b, d, q, t
      <3>4. a.failed = [b.failed EXCEPT ![app.found[j]] = @ + 1] BY <1>6, <3>1, <3>2
      <3>5. IsTotal(t + 1, FailedReads(a, app.found))
        BY <1>1, <1>6, <2>1, <3>3, <3>4, FailedCounted
      <3>6. q.errors = t + 1 BY <1>7, <3>1 DEF t
      <3> QED BY <3>5, <3>6
    <2> QED BY <2>2, <2>3
  <1>11. RecordInv' BY <1>7, <1>8, <1>10 DEF RecordInv, TableTotal
  <1>12. Typed' BY <1>1, <1>4, <1>5, <1>7, <1>8 DEF Typed
  <1> QED BY <1>8, <1>9, <1>11, <1>12 DEF Inv

-----------------------------------------------------------------------------
(***************************************************************************)
(* The dump, and the reset at its end.                                     *)
(***************************************************************************)
LEMMA NoBatchTyped ==
    /\ NoBatch \in Batch
    /\ \A d \in Devices : /\ NoBatch.captured[d] = 0 /\ NoBatch.widths[d] = {}
                          /\ NoBatch.failed[d] = 0 /\ NoBatch.reports[d] = 0
  <1> DEFINE zeros == [d \in Devices |-> 0]
             none  == [d \in Devices |-> {}]
  <1>1. zeros \in [Devices -> Nat] /\ \A d \in Devices : zeros[d] = 0 OBVIOUS
  <1>2. none \in [Devices -> SUBSET Width] /\ \A d \in Devices : none[d] = {} OBVIOUS
  <1>3. NoBatch = [captured |-> zeros, widths |-> none, failed |-> zeros, reports |-> zeros]
    BY DEF NoBatch
  <1> HIDE DEF zeros, none
  <1>4. NoBatch \in Batch BY <1>1, <1>2, <1>3 DEF Batch
  <1>5. /\ NoBatch.captured = zeros /\ NoBatch.widths = none
        /\ NoBatch.failed = zeros /\ NoBatch.reports = zeros
    BY <1>3
  <1> QED BY <1>1, <1>2, <1>4, <1>5

\* No batch has begun: nothing failed.
LEMMA NoFailures ==
    ASSUME Typed
    PROVE  IsTotal(0, FailedReads(NoBatch, app.found))
  <1> DEFINE n == Len(app.found)
             c == FailedReads(NoBatch, app.found)
  <1>1. n \in Nat /\ \A i \in 1..n : app.found[i] \in Devices BY AppFields
  <1>2. c \in [1..n -> Nat] /\ \A i \in 1..n : c[i] = NoBatch.failed[app.found[i]]
    BY NoBatchTyped, FailedTyped
  <1>3. \A i \in 1..n : c[i] = 0
    <2> HIDE DEF c, n
    <2> QED BY <1>1, <1>2, NoBatchTyped
  <1> HIDE DEF n, c
  <1>4. IsTotal(0, c) BY <1>1, <1>2, <1>3, TotalOfZeros
  <1> QED BY <1>4 DEF c

LEMMA ResetKeeps ==
    ASSUME Inv
    PROVE  /\ StatsReset \in Stats /\ StatsReset.cycles = 0 /\ StatsReset.errors = 0
           /\ RecordsTrue(StatsReset.sensors, NoBatch, app.found)
           /\ IsTotal(0, ErrorCounts(StatsReset.sensors))
  <1> DEFINE s == st.sensors
             n == Len(s)
             q == [i \in DOMAIN s |-> Fresh(s[i].rom)]
  <1>1. s \in Seq(Record) /\ RecordsTrue(s, log.batch, app.found)
    BY DEF Inv, Typed, Stats, RecordInv
  <1>2. n \in Nat /\ DOMAIN s = 1..n /\ \A i \in 1..n : s[i] \in Record /\ s[i].rom \in Devices
    <2> HIDE DEF s
    <2>1. n \in Nat /\ DOMAIN s = 1..n /\ \A i \in 1..n : s[i] \in Record BY <1>1
    <2>2. \A e \in Record : e.rom \in Devices BY DEF Record
    <2> QED BY <2>1, <2>2
  <1>3. q \in [1..n -> Record] /\ \A i \in 1..n : q[i] = Fresh(s[i].rom)
    <2> HIDE DEF n, s
    <2> QED BY <1>2, FreshRecord
  <1>4. StatsReset = [sensors |-> q, cycles |-> 0, errors |-> 0] BY DEF StatsReset
  <1> HIDE DEF s, n, q
  <1>5. q \in Seq(Record) /\ Len(q) = n /\ DOMAIN q = 1..n BY <1>2, <1>3
  <1>6. \A i \in 1..n : /\ q[i].rom = s[i].rom /\ q[i].count = 0 /\ q[i].min = 255
                        /\ q[i].max = 0 /\ q[i].crcErr = 0 /\ q[i].noPresence = 0
    BY <1>3 DEF Fresh
  <1>7. \A i \in 1..n : RecordTrue(q[i], NoBatch)
    <2> TAKE i \in 1..n
    <2>1. NoBatch.captured[q[i].rom] = 0 /\ NoBatch.widths[q[i].rom] = {}
      BY <1>2, <1>6, NoBatchTyped
    <2> QED BY <1>6, <2>1 DEF RecordTrue, Extremes
  <1>8. Known(q) = Known(s) BY <1>2, <1>5, <1>6 DEF Known
  <1>9. \A i, j \in 1..n : q[i].rom = q[j].rom => i = j
    BY <1>1, <1>2, <1>6 DEF RecordsTrue
  <1>10. n <= MaxSensors /\ Known(s) \subseteq Range(app.found)
    BY <1>1 DEF RecordsTrue, n
  <1>11. RecordsTrue(q, NoBatch, app.found)
    BY <1>5, <1>7, <1>8, <1>9, <1>10, NoBatchTyped DEF RecordsTrue, Unread
  <1>12. IsTotal(0, ErrorCounts(q))
    <2> DEFINE c == ErrorCounts(q)
    <2>1. c \in [1..n -> Nat] /\ \A i \in 1..n : c[i] = q[i].crcErr + q[i].noPresence
      BY <1>5, CountsTyped
    <2> HIDE DEF c
    <2>2. \A i \in 1..n : c[i] = 0 BY <1>6, <2>1
    <2>3. IsTotal(0, c) BY <1>2, <2>1, <2>2, TotalOfZeros
    <2> QED BY <2>3 DEF c
  <1> QED BY <1>4, <1>5, <1>11, <1>12 DEF Stats

\* Nothing of the dump is lost: the lines so far leave room for another.
LEMMA DumpRing ==
    ASSUME Inv, app.dumpBusy, NEW txe \in BOOLEAN, LoopEnd(DumpLines, txe)
    PROVE  /\ tx' \in Ring /\ Fill(tx)' = Held(DumpLines, txe)
           /\ Held(DumpLines, txe) \in 0..(RingSize - 1)
           /\ Held(DumpLines, txe) <= log.held + DumpLines
           /\ ~(log.lost \/ (log.drained /\ DumpLines > Room(tx)))
  <1> DEFINE n == DumpLines
  <1>1. n \in 0..1 BY DEF DumpLines
  <1>2. tx \in Ring /\ Fill(tx) = log.held /\ ~log.lost /\ log.held \in Nat
        /\ dump.phase \in 1..4
    BY DEF Inv, Typed, LogTyped, RingInv
  <1>3. /\ tx' \in Ring /\ Fill(tx)' = Held(n, txe) /\ Held(n, txe) \in 0..(RingSize - 1)
        /\ Held(n, txe) <= log.held + n /\ Room(tx) = (RingSize - 1) - log.held
    <2>1. n \in Nat BY <1>1
    <2> HIDE DEF n
    <2>2. LoopEnd(n, txe) BY DEF n
    <2> QED BY <1>2, <2>1, <2>2, LoopEndHolds
  <1>4. ASSUME log.drained PROVE n <= Room(tx)
    <2> DEFINE k == Len(st.sensors)
    <2>1. k \in Nat /\ k <= MaxSensors BY DEF Inv, Typed, Stats, RecordInv, RecordsTrue
    <2>2. log.held <= LinesSoFar BY <1>2, <1>4 DEF Inv, RingInv
    <2>3. dump.phase = 2 => dump.sensor <= k + 1 BY DEF Inv, RingInv
    <2>4. dump.sensor \in Nat BY DEF Inv, Typed
    <2> HIDE DEF n, k
    <2>5. LinesSoFar <= 4 + k
      <3>1. CASE dump.phase = 1 BY <3>1, <2>1 DEF LinesSoFar
      <3>2. CASE dump.phase = 2 BY <3>2, <2>1, <2>3, <2>4 DEF LinesSoFar
      <3>3. CASE dump.phase = 3 BY <3>3, <2>1 DEF LinesSoFar, k
      <3>4. CASE dump.phase = 4 BY <3>4, <2>1 DEF LinesSoFar, k
      <3> QED BY <1>2, <3>1, <3>2, <3>3, <3>4
    <2>6. LinesSoFar \in Nat
      <3>1. CASE dump.phase = 1 BY <3>1 DEF LinesSoFar
      <3>2. CASE dump.phase = 2 BY <3>2, <2>4 DEF LinesSoFar
      <3>3. CASE dump.phase = 3 BY <3>3, <2>1 DEF LinesSoFar, k
      <3>4. CASE dump.phase = 4 BY <3>4, <2>1 DEF LinesSoFar, k
      <3> QED BY <1>2, <3>1, <3>2, <3>3, <3>4
    <2> QED BY <1>1, <1>2, <1>3, <2>1, <2>2, <2>5, <2>6, RingSizeNat, MaxSensorsAssumption
  <1>5. ~(n > Room(tx)) \/ ~log.drained
    <2>1. n \in Int /\ Room(tx) \in Int BY <1>1, <1>2, <1>3, RingSizeNat
    <2> HIDE DEF n
    <2> QED BY <1>4, <2>1
  <1> QED BY <1>2, <1>3, <1>5

LEMMA LogDump ==
    ASSUME LogTyped, NEW held \in 0..(RingSize - 1), NEW lost \in BOOLEAN,
           NEW batch \in Batch,
           log' = [log EXCEPT !.report = <<>>, !.held = held, !.lost = lost, !.batch = batch]
    PROVE  /\ LogTyped'
           /\ log'.batch = batch /\ log'.held = held
           /\ log'.lost = lost /\ log'.drained = log.drained
  <1> DEFINE b == log.batch
             l == log.lost
             e == log.drained
             r == log.report
             h == log.held
             none == <<>>
             after == log'
  <1>1. log = [batch |-> b, report |-> r, held |-> h, lost |-> l, drained |-> e]
    BY DEF LogTyped
  <1>2. e \in BOOLEAN BY DEF LogTyped
  <1>3. after = [log EXCEPT !.report = none, !.held = held, !.lost = lost, !.batch = batch]
    OBVIOUS
  <1> HIDE DEF b, l, e, r, h, none
  <1>4. after = [batch |-> batch, report |-> none, held |-> held, lost |-> lost, drained |-> e]
    BY <1>1, <1>3
  <1>5. /\ after.batch = batch /\ after.report = none /\ after.held = held
        /\ after.lost = lost /\ after.drained = e
    <2> HIDE DEF after
    <2> QED BY <1>4
  <1>6. LogTyped' BY <1>2, <1>4, <1>5 DEF LogTyped
  <1> QED BY <1>5, <1>6 DEF e

LEMMA DumpBranchKeeps ==
    ASSUME Inv, NEW txe \in BOOLEAN, DumpBranch(txe)
    PROVE  Inv'
  <1> DEFINE n == DumpLines
             next == DumpStep
             k == Len(st.sensors)
             lost == log.lost \/ (log.drained /\ DumpLines > Room(tx))
             batch == IF DumpStep.phase = 0 THEN NoBatch ELSE log.batch
  <1>1. Typed /\ TurnInv /\ RingInv /\ RecordInv /\ LogTyped BY DEF Inv, Typed
  <1>2. app.dumpBusy /\ LoopEnd(DumpLines, txe) /\ dump' = DumpStep /\ drv' = drv
    BY DEF DumpBranch
  <1>3. /\ tx' \in Ring /\ Fill(tx)' = Held(n, txe) /\ Held(n, txe) \in 0..(RingSize - 1)
        /\ Held(n, txe) <= log.held + n /\ ~lost
    BY <1>2, DumpRing
  <1>4. dump.phase \in 1..4 /\ dump.sensor \in Nat \ {0} /\ k \in Nat
    BY <1>1, <1>2 DEF Typed, RingInv, Stats
  <1>5. dump.phase = 2 => dump.sensor <= k + 1 BY <1>1 DEF RingInv
  <1>6. /\ LogTyped' /\ log'.batch = batch /\ log'.held = Held(n, txe)
        /\ log'.lost = lost /\ log'.drained = log.drained
    <2> DEFINE held == Held(n, txe)
    <2>1. log' = [log EXCEPT !.report = <<>>, !.held = held, !.lost = lost, !.batch = batch]
      BY DEF DumpBranch
    <2>2. lost \in BOOLEAN /\ held \in 0..(RingSize - 1) BY <1>3
    <2>3. batch \in Batch BY <1>1, NoBatchTyped DEF LogTyped
    <2> HIDE DEF lost, batch, held, n
    <2>4. /\ LogTyped' /\ log'.batch = batch /\ log'.held = held
          /\ log'.lost = lost /\ log'.drained = log.drained
      BY <1>1, <2>1, <2>2, <2>3, LogDump
    <2> QED BY <2>4 DEF held
  <1>7. next \in [phase : 0..4, sensor : Nat \ {0}]
    <2>1. dump.sensor + 1 \in Nat \ {0} BY <1>4
    <2>2. CASE dump.phase = 1 BY <2>2 DEF DumpStep
    <2>3. CASE dump.phase = 2 /\ dump.sensor <= k BY <1>4, <2>1, <2>3 DEF DumpStep
    <2>4. CASE dump.phase = 2 /\ dump.sensor > k BY <1>4, <2>4 DEF DumpStep
    <2>5. CASE dump.phase = 3 BY <1>4, <2>5 DEF DumpStep
    <2>6. CASE dump.phase = 4 BY <1>4, <2>6 DEF DumpStep
    <2> QED BY <1>4, <2>2, <2>3, <2>4, <2>5, <2>6
  <1>8. next.phase = 0 <=> dump.phase = 4
    <2>2. CASE dump.phase = 1 BY <2>2 DEF DumpStep
    <2>3. CASE dump.phase = 2 /\ dump.sensor <= k BY <1>4, <2>3 DEF DumpStep
    <2>4. CASE dump.phase = 2 /\ dump.sensor > k BY <1>4, <2>4 DEF DumpStep
    <2>5. CASE dump.phase = 3 BY <1>4, <2>5 DEF DumpStep
    <2>6. CASE dump.phase = 4 BY <1>4, <2>6 DEF DumpStep
    <2> QED BY <1>4, <2>2, <2>3, <2>4, <2>5, <2>6
  <1>9. CASE next.phase # 0
    <2>1. app' = app /\ st' = st BY <1>9 DEF DumpBranch
    <2>2. log'.batch = log.batch BY <1>6, <1>9
    <2>3. TurnInv' BY <1>1, <1>2, <2>1, <2>2 DEF TurnInv, Engaged
    <2>4. RecordInv' BY <1>1, <2>1, <2>2 DEF RecordInv
    <2>5. Typed' BY <1>1, <1>2, <1>3, <1>6, <1>7, <2>1 DEF Typed
    <2>6. dump'.phase = 2 => dump'.sensor <= k + 1
      <3>1. CASE dump.phase = 1 BY <1>2, <1>4, <3>1 DEF DumpStep
      <3>2. CASE dump.phase = 2 /\ dump.sensor <= k BY <1>2, <1>4, <3>2 DEF DumpStep
      <3>3. CASE dump.phase = 2 /\ dump.sensor > k BY <1>2, <1>4, <3>3 DEF DumpStep
      <3>4. CASE dump.phase = 3 BY <1>2, <1>4, <3>4 DEF DumpStep
      <3> QED BY <1>4, <1>8, <1>9, <3>1, <3>2, <3>3, <3>4
    <2>7. ASSUME log.drained PROVE log'.held <= LinesSoFar'
      <3>1. log.held <= LinesSoFar /\ log.held \in Nat
        BY <1>1, <1>4, <2>7 DEF RingInv, LogTyped
      <3>2. log'.held <= log.held + n /\ log'.held \in Nat BY <1>3, <1>6, RingSizeNat
      <3>3. Len(st'.sensors) = k BY <2>1
      <3> HIDE DEF k, n
      <3>4. LinesSoFar' = CASE dump'.phase = 1 -> 2
                            [] dump'.phase = 2 -> 2 + dump'.sensor
                            [] dump'.phase = 3 -> 3 + k
                            [] dump'.phase = 4 -> 4 + k
        BY <3>3 DEF LinesSoFar
      <3>5. CASE dump.phase = 1
        <4>1. LinesSoFar = 2 /\ n = 1 BY <3>5 DEF LinesSoFar, DumpLines, n
        <4>2. dump'.phase = 2 /\ dump'.sensor = 1 BY <1>2, <3>5 DEF DumpStep
        <4>3. LinesSoFar' = 3 BY <3>4, <4>2
        <4> QED BY <3>1, <3>2, <4>1, <4>3
      <3>6. CASE dump.phase = 2 /\ dump.sensor <= k
        <4>1. LinesSoFar = 2 + dump.sensor /\ n = 1
          BY <3>6, <1>4 DEF LinesSoFar, DumpLines, n, k
        <4>2. dump'.phase = 2 /\ dump'.sensor = dump.sensor + 1
          BY <1>2, <3>6, <1>4 DEF DumpStep, k
        <4>3. LinesSoFar' = 2 + (dump.sensor + 1) BY <3>4, <4>2
        <4> QED BY <1>4, <3>1, <3>2, <4>1, <4>3
      <3>7. CASE dump.phase = 2 /\ dump.sensor > k
        <4>1. LinesSoFar = 2 + dump.sensor /\ n = 0
          BY <3>7, <1>4 DEF LinesSoFar, DumpLines, n, k
        <4>2. dump'.phase = 3 BY <1>2, <3>7, <1>4 DEF DumpStep, k
        <4>3. LinesSoFar' = 3 + k BY <3>4, <4>2
        <4> QED BY <1>4, <1>5, <3>1, <3>2, <3>7, <4>1, <4>3
      <3>8. CASE dump.phase = 3
        <4>1. LinesSoFar = 3 + k /\ n = 1 BY <3>8 DEF LinesSoFar, DumpLines, n, k
        <4>2. dump'.phase = 4 BY <1>2, <3>8 DEF DumpStep
        <4>3. LinesSoFar' = 4 + k BY <3>4, <4>2
        <4> QED BY <1>4, <3>1, <3>2, <4>1, <4>3
      <3> QED BY <1>4, <1>8, <1>9, <3>5, <3>6, <3>7, <3>8
    <2>8. RingInv'
      BY <1>2, <1>3, <1>6, <1>9, <2>1, <2>6, <2>7 DEF RingInv
    <2> QED BY <2>3, <2>4, <2>5, <2>8 DEF Inv
  <1>10. CASE next.phase = 0
    <2>1. st' = StatsReset /\ app' = [app EXCEPT !.dumpBusy = FALSE, !.sweeps = 0, !.pending = TRUE]
      BY <1>10 DEF DumpBranch, Resume
    <2>2. log'.batch = NoBatch BY <1>6, <1>10
    <2>3. /\ app' \in App /\ app'.found = app.found /\ app'.searching = app.searching
          /\ app'.index = app.index /\ app'.sweeps = 0
          /\ app'.dumpBusy = FALSE /\ app'.pending = TRUE
      BY <1>1, <2>1 DEF Typed, App
    <2>4. /\ st' \in Stats /\ st'.cycles = 0 /\ st'.errors = 0
          /\ RecordsTrue(st'.sensors, NoBatch, app.found)
          /\ IsTotal(0, ErrorCounts(st'.sensors))
      BY <2>1, ResetKeeps
    <2>5. RecordInv' BY <1>1, <2>2, <2>3, <2>4, NoFailures DEF RecordInv
    <2>6. Typed' BY <1>1, <1>2, <1>3, <1>6, <1>7, <2>3, <2>4 DEF Typed
    <2>7. RingInv'
      <3>1. dump'.phase = 0 BY <1>2, <1>10
      <3>2. Fill(tx)' = log'.held BY <1>3, <1>6
      <3> HIDE DEF lost
      <3>3. ~log'.lost BY <1>3, <1>6
      <3>4. app'.dumpBusy = FALSE BY <2>3
      <3> QED BY <3>1, <3>2, <3>3, <3>4 DEF RingInv
    <2>8. TurnInv'
      <3> DEFINE m == Len(app.found)
      <3>1. /\ ~app.searching /\ app.found # <<>> /\ drv.selected = app.found[app.index]
            /\ app.index = 1
        BY <1>1, <1>2 DEF TurnInv, Engaged
      <3>2. m \in Nat /\ \A i \in 1..m : app.found[i] \in Devices BY <1>1, AppFields
      <3>3. DOMAIN app.found = 1..m BY <1>1, AppFields
      <3> HIDE DEF m
      <3>4. \A i \in 1..m : NoBatch.reports[app.found[i]] = ReportsOf(0, 1, i)
        BY <3>2, NoBatchTyped DEF ReportsOf
      <3>5. 0 = 0 * m + (1 - 1) BY <3>2
      <3>6. 0 < Sweeps BY SweepsAssumption
      <3> QED BY <1>2, <2>2, <2>3, <2>4, <3>1, <3>3, <3>4, <3>5, <3>6 DEF TurnInv, m
    <2> QED BY <2>5, <2>6, <2>7, <2>8 DEF Inv
  <1> QED BY <1>9, <1>10

-----------------------------------------------------------------------------
(***************************************************************************)
(* The theorems.                                                           *)
(***************************************************************************)
LEMMA InitInv == Init => Inv
  <1> SUFFICES ASSUME Init PROVE Inv OBVIOUS
  <1> DEFINE found == app.found
             n == Len(found)
  <1>1. /\ drv = [state |-> "IDLE", selected |-> NoDevice]
        /\ st = [sensors |-> <<>>, cycles |-> 0, errors |-> 0]
        /\ dump = [phase |-> 0, sensor |-> 1]
        /\ tx = [head |-> 0, tail |-> 0]
        /\ log = [batch |-> NoBatch, report |-> <<>>, held |-> 0, lost |-> FALSE,
                  drained |-> TRUE]
    BY DEF Init
  <1>2. /\ found \in SeqOf(Devices, Cardinality(Devices)) /\ Increasing(found)
        /\ app.searching = TRUE /\ app.index = 1 /\ app.sweeps = 0
        /\ app.dumpBusy = FALSE /\ app.pending = FALSE
        /\ app = [found |-> found, searching |-> TRUE, index |-> 1, sweeps |-> 0,
                  dumpBusy |-> FALSE, pending |-> FALSE]
    BY DEF Init, Increasing
  <1>3. found \in Seq(Devices)
    <2>1. PICK m \in 0..Cardinality(Devices) : found \in [1..m -> Devices]
      BY <1>2 DEF SeqOf
    <2>2. m \in Nat BY <2>1, FS_CardinalityType, DevicesAssumption
    <2> HIDE DEF found
    <2> QED BY <2>1, <2>2
  <1>4. app \in App
    <2> HIDE DEF found
    <2> QED BY <1>2, <1>3 DEF App
  <1>5. RingSize \in Nat /\ RingSize >= 7 BY RingSizeNat
  <1>6. LogTyped BY <1>1, <1>5, NoBatchTyped DEF LogTyped
  <1>7. tx \in Ring BY <1>1, <1>5 DEF Ring
  <1>8. Typed BY <1>1, <1>2, <1>4, <1>6, <1>7 DEF Typed, Stats, NoDevice
  <1>9. n \in Nat /\ DOMAIN found = 1..n /\ \A i \in 1..n : found[i] \in Devices BY <1>3
  <1>10. TurnInv
    <2>1. ~Engaged BY <1>1, <1>2 DEF Engaged
    <2>2. 0 < Sweeps BY SweepsAssumption
    <2>3. st.cycles = app.sweeps * n + (app.index - 1)
      <3> HIDE DEF n
      <3> QED BY <1>1, <1>2, <1>9
    <2>4. \A i \in 1..n : NoBatch.reports[found[i]] = ReportsOf(0, 1, i)
      <3> HIDE DEF n, found
      <3> QED BY <1>9, NoBatchTyped DEF ReportsOf
    <2> QED BY <1>1, <1>2, <1>9, <2>1, <2>2, <2>3, <2>4 DEF TurnInv
  <1>11. RingInv
    <2>1. Fill(tx) = ((RingSize + 0) - 0) % RingSize BY <1>1 DEF Fill
    <2>2. ((RingSize + 0) - 0) % RingSize = IF 0 >= 0 THEN 0 - 0 ELSE (RingSize + 0) - 0
      <3>1. 0 \in 0..(RingSize - 1) BY <1>5
      <3> QED BY <3>1, FillOfRing
    <2>3. Fill(tx) = log.held BY <1>1, <2>1, <2>2
    <2> QED BY <1>1, <1>2, <2>3 DEF RingInv
  <1>12. RecordInv
    <2> DEFINE none == <<>>
               c == ErrorCounts(none)
    <2>1. none \in Seq(Record) /\ Len(none) = 0 /\ DOMAIN none = {} OBVIOUS
    <2>2. RecordsTrue(none, NoBatch, found)
      <3> HIDE DEF none
      <3> QED BY <2>1, NoBatchTyped, MaxSensorsAssumption DEF RecordsTrue, Known, Unread
    <2>3. IsTotal(0, c)
      <3> HIDE DEF none
      <3>1. c \in [1..0 -> Nat] BY <2>1, CountsTyped
      <3> HIDE DEF c
      <3>2. 0 \in Nat /\ \A i \in 1..0 : c[i] = 0 OBVIOUS
      <3> QED BY <3>1, <3>2, TotalOfZeros
    <2>4. IsTotal(0, FailedReads(NoBatch, found)) BY <1>8, NoFailures
    <2>5. st.sensors = none /\ st.errors = 0 /\ log.batch = NoBatch BY <1>1
    <2> HIDE DEF none
    <2> QED BY <2>2, <2>3, <2>4, <2>5 DEF RecordInv
  <1> QED BY <1>8, <1>10, <1>11, <1>12 DEF Inv

LEMMA NextInv == Inv /\ [Next]_vars => Inv'
  <1> SUFFICES ASSUME Inv, [Next]_vars PROVE Inv' OBVIOUS
  <1>1. CASE UNCHANGED vars
    <2>1. drv' = drv /\ app' = app /\ st' = st /\ dump' = dump /\ tx' = tx /\ log' = log
      BY <1>1 DEF vars
    <2>2. Typed' BY <2>1 DEF Inv, Typed, LogTyped
    <2>3. TurnInv' BY <2>1 DEF Inv, TurnInv, Engaged
    <2>4. RingInv' BY <2>1 DEF Inv, RingInv, LinesSoFar
    <2>5. RecordInv' BY <2>1 DEF Inv, RecordInv
    <2> QED BY <2>2, <2>3, <2>4, <2>5 DEF Inv
  <1>2. ASSUME NEW txe \in BOOLEAN, SearchBranch(txe) PROVE Inv' BY <1>2, SearchBranchKeeps
  <1>3. ASSUME NEW txe \in BOOLEAN, PollRunning(txe) PROVE Inv' BY <1>3, PollRunningKeeps
  <1>4. ASSUME NEW txe \in BOOLEAN, PollAbsent(txe) PROVE Inv' BY <1>4, PollAbsentKeeps
  <1>5. ASSUME NEW txe \in BOOLEAN, NEW r \in Reads, PollDecode(r, txe) PROVE Inv'
    BY <1>5, PollDecodeKeeps
  <1>6. ASSUME NEW txe \in BOOLEAN, DumpBranch(txe) PROVE Inv' BY <1>6, DumpBranchKeeps
  <1>7. ASSUME NEW txe \in BOOLEAN, StartPending(txe) PROVE Inv' BY <1>7, StartPendingKeeps
  <1> QED BY <1>1, <1>2, <1>3, <1>4, <1>5, <1>6, <1>7 DEF Next

(***************************************************************************)
(* The turns, the ring and the records, in every state.                    *)
(***************************************************************************)
THEOREM StatisticsInvariant == Spec => []Inv
  BY InitInv, NextInv, PTL DEF Spec

(***************************************************************************)
(* A dump covers Sweeps reports of each device found, and no line of it is *)
(* dropped: for every ring that holds a report and a whole dump, however   *)
(* slowly the transmitter takes the bytes.                                 *)
(***************************************************************************)
THEOREM WholeBatchDumpedHolds == Spec => []WholeBatchDumped
  <1>1. Inv => WholeBatchDumped
    <2> SUFFICES ASSUME Inv PROVE WholeBatchDumped OBVIOUS
    <2>1. BatchOfSweeps
      <3> SUFFICES ASSUME app.dumpBusy PROVE /\ st.cycles = Sweeps * Len(app.found)
                                             /\ \A i \in DOMAIN app.found :
                                                   log.batch.reports[app.found[i]] = Sweeps
        BY DEF BatchOfSweeps
      <3> DEFINE n == Len(app.found)
      <3>1. app.index = 1 /\ app.sweeps = Sweeps BY DEF Inv, TurnInv
      <3>2. n \in Nat /\ DOMAIN app.found = 1..n BY AppFields DEF Inv
      <3>3. st.cycles = Sweeps * n + (1 - 1) BY <3>1 DEF Inv, TurnInv
      <3>4. \A i \in DOMAIN app.found : log.batch.reports[app.found[i]] = ReportsOf(Sweeps, 1, i)
        BY <3>1 DEF Inv, TurnInv
      <3>5. \A i \in 1..n : ReportsOf(Sweeps, 1, i) = Sweeps
        BY <3>2, SweepsAssumption DEF ReportsOf
      <3>6. Sweeps * n + (1 - 1) = Sweeps * n
        <4> HIDE DEF n
        <4>1. Sweeps * n \in Nat BY <3>2, SweepsAssumption
        <4> QED BY <4>1
      <3> QED BY <3>2, <3>3, <3>4, <3>5, <3>6
    <2>2. RingWhole BY DEF Inv, RingInv, RingWhole, Fill
    <2> QED BY <2>1, <2>2 DEF WholeBatchDumped
  <1> QED BY <1>1, StatisticsInvariant, PTL

(***************************************************************************)
(* The records are those of the reads, and the sums agree with them.       *)
(***************************************************************************)
THEOREM RecordsOfReadsHolds == Spec => []RecordsOfReads
  <1>1. Inv => RecordsOfReads
    <2> SUFFICES ASSUME Inv PROVE RecordsOfReads OBVIOUS
    <2>1. RecordsTrue(st.sensors, log.batch, app.found) BY DEF Inv, RecordInv
    <2>2. OneRecordEach BY <2>1 DEF RecordsTrue, OneRecordEach
    <2>3. ASSUME NEW i \in DOMAIN st.sensors
          PROVE  LET s == st.sensors[i]
                     w == log.batch.widths[s.rom]
                 IN /\ s.count = log.batch.captured[s.rom]
                    /\ w # {} => s.min = Min(w) /\ s.max = Max(w)
      <3> DEFINE s == st.sensors[i]
                 w == log.batch.widths[s.rom]
      <3>1. s.count = log.batch.captured[s.rom] /\ Extremes(s, w)
        BY <2>1 DEF RecordsTrue, RecordTrue
      <3>2. s \in Record /\ w \in SUBSET Width
        <4>1. s \in Record BY <2>1 DEF RecordsTrue
        <4>2. s.rom \in Devices BY <4>1 DEF Record
        <4> QED BY <2>1, <4>1, <4>2 DEF RecordsTrue, Batch
      <3> HIDE DEF s, w
      <3>3. ASSUME w # {} PROVE s.min = Min(w) /\ s.max = Max(w)
        <4>1. s.min \in w /\ s.max \in w /\ \A x \in w : s.min <= x /\ x <= s.max
          BY <3>1, <3>3 DEF Extremes
        <4>2. \A x \in w : x \in Int BY <3>2, WidthBounds
        <4>3. Min(w) \in w /\ \A y \in w : Min(w) =< y BY <4>1 DEF Min
        <4>4. Max(w) \in w /\ \A y \in w : Max(w) >= y
          <5>1. \A y \in w : s.max >= y BY <4>1, <4>2
          <5> QED BY <4>1, <5>1 DEF Max
        <4> QED BY <4>1, <4>2, <4>3, <4>4
      <3> QED BY <3>1, <3>3 DEF s, w
    <2>4. CountsOfReads BY <2>3 DEF CountsOfReads
    <2>5. ErrorsOfReads BY DEF Inv, RecordInv, ErrorsOfReads, FailedReads
    <2>6. ErrorsInRecords BY DEF Inv, RecordInv, ErrorsInRecords, ErrorCounts
    <2> QED BY <2>2, <2>4, <2>5, <2>6 DEF RecordsOfReads
  <1> QED BY <1>1, StatisticsInvariant, PTL

(* Two bytes make a signed word. *)
LEMMA SignedBytes ==
    ASSUME NEW low \in Int, low >= 0, low <= 255,
           NEW high \in Int, high >= 0, high <= 255
    PROVE  LET raw == Int16(256 * high + low)
           IN  raw \in Int /\ raw >= -32768 /\ raw <= 32767
  <1> DEFINE word == 256 * high + low
  <1>1. word \in Int /\ word >= 0 /\ word <= 65535 OBVIOUS
  <1> HIDE DEF word
  <1>2. Int16(word) \in Int /\ Int16(word) >= -32768 /\ Int16(word) <= 32767
    BY <1>1 DEF Int16
  <1> QED BY <1>2 DEF word

(* What decode_temperature() makes of a signed word, half by half. *)
LEMMA RoundedUp ==
    ASSUME NEW raw \in Int, raw >= 0, raw <= 32767
    PROVE  LET tenths == Quotient(10 * raw + 8, 16)
           IN  /\ tenths \in Int /\ tenths >= 0 /\ tenths <= 20480
               /\ 16 * tenths - 10 * raw <= 8
               /\ 16 * tenths - 10 * raw > -8
               /\ 16 * tenths - 10 * raw = 8 => raw > 0
  <1> DEFINE n == 10 * raw + 8
             q == n \div 16
  <1>1. n \in Nat /\ n <= 327678 /\ 0 < n OBVIOUS
  <1>2. Quotient(10 * raw + 8, 16) = q BY <1>1 DEF Quotient
  <1>3. n = 10 * raw + 8 OBVIOUS
  <1> HIDE DEF n
  <1>4. q \in Nat /\ 16 * q <= n /\ n < 16 * q + 16 BY <1>1
  <1> HIDE DEF q
  <1>5. q \in Int /\ q >= 0 /\ q <= 20480 BY <1>1, <1>4
  <1>6. /\ 16 * q - 10 * raw <= 8
        /\ 16 * q - 10 * raw > -8
        /\ 16 * q - 10 * raw = 8 => raw > 0
    BY <1>3, <1>4, <1>5
  <1> QED BY <1>2, <1>5, <1>6

LEMMA RoundedDown ==
    ASSUME NEW raw \in Int, raw >= -32768, raw < 0
    PROVE  LET tenths == Quotient(10 * raw + (-8), 16)
           IN  /\ tenths \in Int /\ tenths >= -20480 /\ tenths <= 0
               /\ 16 * tenths - 10 * raw >= -8
               /\ 16 * tenths - 10 * raw < 8
  <1> DEFINE n == 8 - 10 * raw
             q == n \div 16
  <1>1. n \in Nat /\ n <= 327688 /\ 0 < n OBVIOUS
  <1>2. 10 * raw + (-8) < 0 /\ -(10 * raw + (-8)) = n OBVIOUS
  <1>3. Quotient(10 * raw + (-8), 16) = -q BY <1>2 DEF Quotient
  <1>4. n = 8 - 10 * raw OBVIOUS
  <1> HIDE DEF n
  <1>5. q \in Nat /\ 16 * q <= n /\ n < 16 * q + 16 BY <1>1
  <1> HIDE DEF q
  <1>6. q \in Int /\ q >= 0 /\ q <= 20480 BY <1>1, <1>5
  <1>7. /\ -q \in Int /\ -q >= -20480 /\ -q <= 0
        /\ 16 * (-q) - 10 * raw >= -8
        /\ 16 * (-q) - 10 * raw < 8
    BY <1>4, <1>5, <1>6
  <1> QED BY <1>3, <1>7

(***************************************************************************)
(* decode_temperature() rounds to the nearest tenth of a degree, a half    *)
(* away from zero, and its result fits in an int16_t - for every value of  *)
(* the two temperature bytes, the negative and the impossible ones too.    *)
(***************************************************************************)
THEOREM TemperatureRounded ==
    ASSUME NEW scratch, scratch[1] \in 0..255, scratch[2] \in 0..255
    PROVE  LET raw    == Int16(256 * scratch[2] + scratch[1])
               tenths == DecodeTemperature(scratch)
           IN  /\ tenths \in Int /\ tenths >= -20480 /\ tenths <= 20480
               /\ 16 * tenths - 10 * raw >= -8
               /\ 16 * tenths - 10 * raw <= 8
               /\ 16 * tenths - 10 * raw = 8 => raw > 0
               /\ 16 * tenths - 10 * raw = -8 => raw < 0
  <1> DEFINE raw    == Int16(256 * scratch[2] + scratch[1])
             tenths == DecodeTemperature(scratch)
             Rounded == /\ tenths \in Int /\ tenths >= -20480 /\ tenths <= 20480
                        /\ 16 * tenths - 10 * raw >= -8
                        /\ 16 * tenths - 10 * raw <= 8
                        /\ 16 * tenths - 10 * raw = 8 => raw > 0
                        /\ 16 * tenths - 10 * raw = -8 => raw < 0
  <1>2. tenths = Quotient(10 * raw + (IF raw < 0 THEN -8 ELSE 8), 16)
    BY DEF DecodeTemperature
  <1>3. raw \in Int /\ raw >= -32768 /\ raw <= 32767
    <2> DEFINE low  == scratch[1]
               high == scratch[2]
    <2>1. /\ low \in Int /\ low >= 0 /\ low <= 255
          /\ high \in Int /\ high >= 0 /\ high <= 255
      OBVIOUS
    <2>2. raw = Int16(256 * high + low) OBVIOUS
    <2> HIDE DEF low, high, raw
    <2> QED BY <2>1, <2>2, SignedBytes
  <1> HIDE DEF raw, tenths
  <1>4. ASSUME raw < 0 PROVE Rounded
    <2>1. tenths = Quotient(10 * raw + (-8), 16) BY <1>2, <1>4
    <2>2. /\ tenths \in Int /\ tenths >= -20480 /\ tenths <= 0
          /\ 16 * tenths - 10 * raw >= -8
          /\ 16 * tenths - 10 * raw < 8
      BY <1>3, <1>4, <2>1, RoundedDown
    <2> QED BY <1>3, <1>4, <2>2
  <1>5. ASSUME raw >= 0 PROVE Rounded
    <2>1. tenths = Quotient(10 * raw + 8, 16) BY <1>2, <1>3, <1>5
    <2>2. /\ tenths \in Int /\ tenths >= 0 /\ tenths <= 20480
          /\ 16 * tenths - 10 * raw <= 8
          /\ 16 * tenths - 10 * raw > -8
          /\ 16 * tenths - 10 * raw = 8 => raw > 0
      BY <1>3, <1>5, <2>1, RoundedUp
    <2> QED BY <1>3, <2>2
  <1>6. raw < 0 \/ raw >= 0 BY <1>3
  <1>7. Rounded BY <1>4, <1>5, <1>6
  <1> QED BY <1>7 DEF raw, tenths

=============================================================================
