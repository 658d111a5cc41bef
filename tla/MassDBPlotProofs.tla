--------------------------- MODULE MassDBPlotProofs ---------------------------
(***************************************************************************)
(* Machine-checked proofs about MassDBPlot: the checkpoints are crash-safe *)
(* for every bit length, every pair of hash functions, every record size,  *)
(* every amount of memory found free and any number of stops and crashes.  *)
(***************************************************************************)
EXTENDS MassDBPlot, NaturalsInduction, WellFoundedInduction, TLAPS

-----------------------------------------------------------------------------
(* Windows.                                                                *)

\* Records that fit into len bytes.
LEMMA Records ==
  ASSUME NEW len \in Nat, NEW r \in Nat \ {0}
  PROVE  /\ len \div r \in Nat
         /\ len % r \in 0 .. r - 1
         /\ len = r * (len \div r) + (len % r)
  BY SMT

\* No more than k records fit into at most k * r bytes, and a remainder is part
\* of one of them.
LEMMA RecordsAtMost ==
  ASSUME NEW len \in Nat, NEW r \in Nat \ {0}, NEW k \in Nat, len <= k * r
  PROVE  /\ len \div r <= k
         /\ len % r # 0 => len \div r + 1 <= k
  <1> DEFINE n == len \div r
             q == len % r
  <1>1. n \in Nat /\ q \in 0 .. r - 1 /\ len = r * n + q
    BY Records
  <1> HIDE DEF n, q
  <1>2. ASSUME n > k PROVE FALSE
    <2>1. n - (k + 1) \in Nat
      BY <1>1, <1>2
    <2>2. r * (n - (k + 1)) >= 0
      BY <2>1, SMT
    <2>3. r * n >= r * k + r
      BY <1>1, <2>2, SMT
    <2> QED
      BY <1>1, <2>3, SMT
  <1>3. ASSUME q # 0, n = k PROVE FALSE
    BY <1>1, <1>3, SMT
  <1> QED
    BY <1>1, <1>2, <1>3 DEF n, q

\* At least k records fit into at least k * r bytes.
LEMMA RecordsAtLeast ==
  ASSUME NEW len \in Nat, NEW r \in Nat \ {0}, NEW k \in Nat, len >= k * r
  PROVE  len \div r >= k
  <1> DEFINE n == len \div r
             q == len % r
  <1>1. n \in Nat /\ q \in 0 .. r - 1 /\ len = r * n + q
    BY Records
  <1> HIDE DEF n, q
  <1>2. ASSUME n < k PROVE FALSE
    <2>1. k - (n + 1) \in Nat
      BY <1>1, <1>2
    <2>2. r * (k - (n + 1)) >= 0
      BY <2>1, SMT
    <2>3. r * k >= r * n + r
      BY <1>1, <2>2, SMT
    <2> QED
      BY <1>1, <2>3, SMT
  <1> QED
    BY <1>1, <1>2 DEF n

\* The cache of a window: the window lies in the map, the cache covers it and
\* ends in the map too.  The window is empty only where one slot of A is left.
LEMMA WindowFits ==
  ASSUME NEW m \in Maps, NEW s \in Nat, s < Units(m),
         NEW avail \in Available, ~MemoryShort(m, s, avail)
  PROVE  LET len == CacheLen(m, s, avail)
             w   == CalcWindowSize(m, len)
             k   == CacheSlots(m, len)
         IN  /\ w \in Nat /\ k \in Nat
             /\ w * SlotsPerUnit(m) <= k
             /\ s * SlotsPerUnit(m) + k <= Volume
             /\ w > 0 \/ (m = "A" /\ s = Volume - 1)
  <1> USE ConstantsAssumption, SizesAssumption
  <1> DEFINE N   == (Units(m) - s) * RecordsPerUnit(m)
             len == CacheLen(m, s, avail)
             n   == len \div RecordSize
             q   == len % RecordSize
  <1>1. N \in Nat \ {0} /\ (m = "B" => N >= 4)
    BY DEF Units, RecordsPerUnit, Maps, Volume
  <1>2. avail \in Nat /\ avail \div MinMem \in Nat /\ avail % MinMem \in 0 .. MinMem - 1
        /\ avail = MinMem * (avail \div MinMem) + (avail % MinMem)
    BY Records
  <1>3. Required(m, s) \in Nat /\ Required(m, s) <= N * RecordSize
        /\ (Required(m, s) = N * RecordSize \/ Required(m, s) >= MinMem)
    <2>1. N * RecordSize \in Nat
      BY <1>1, SMT
    <2> HIDE DEF N
    <2> QED
      BY <2>1 DEF Required, N
  <1>4. len \in Nat /\ len <= N * RecordSize
        /\ (len = N * RecordSize \/ len >= MinMem)
    <2>1. CASE ~(Required(m, s) > avail)
      BY <1>3, <2>1 DEF CacheLen
    <2>2. CASE Required(m, s) > avail
      <3>1. len = (avail \div MinMem) * MinMem /\ avail >= MinMem
        BY <1>2, <2>2 DEF CacheLen, MemoryShort
      <3>2. avail \div MinMem >= 1
        BY <1>2, <3>1, RecordsAtLeast
      <3>3. len \in Nat /\ len <= avail /\ len >= MinMem
        <4> DEFINE d == avail \div MinMem
        <4>1. d \in Nat /\ d >= 1 /\ avail >= MinMem * d /\ len = d * MinMem
          BY <1>2, <3>1, <3>2, SMT
        <4> HIDE DEF d, len
        <4>2. d - 1 \in Nat /\ (d - 1) * MinMem >= 0
          BY <4>1, SMT
        <4> QED
          BY <4>1, <4>2, SMT
      <3> HIDE DEF len, N
      <3>4. N * RecordSize \in Nat
        BY <1>1, SMT
      <3> QED
        BY <1>2, <1>3, <2>2, <3>3, <3>4
    <2> QED
      BY <2>1, <2>2
  <1> HIDE DEF len
  <1>5. n \in Nat /\ q \in 0 .. RecordSize - 1 /\ n <= N /\ (q # 0 => n + 1 <= N)
    BY <1>1, <1>4, Records, RecordsAtMost
  <1>6. n = N \/ n >= 4
    <2>1. CASE len = N * RecordSize
      <3>1. N \in Nat /\ len >= N * RecordSize
        BY <1>1, <1>4, <2>1
      <3>2. len \div RecordSize >= N
        BY <1>4, <3>1, RecordsAtLeast
      <3> QED
        BY <1>1, <1>5, <3>2
    <2>2. CASE len >= MinMem
      <3>1. len >= 4 * RecordSize
        BY <1>4, <2>2
      <3> QED
        BY <1>4, <3>1, RecordsAtLeast
    <2> QED
      BY <1>4, <2>1, <2>2
  <1> HIDE DEF n, q
  <1>7. CASE m = "A"
    <2>1. /\ CalcWindowSize(m, len) = n - (n % 2)
          /\ CacheSlots(m, len) = n + (IF q = 0 THEN 0 ELSE 1)
      BY <1>7 DEF CalcWindowSize, CacheSlots, n, q
    <2>2. N = Volume - s /\ SlotsPerUnit(m) = 1
      BY <1>7 DEF Units, RecordsPerUnit, SlotsPerUnit, Volume
    <2>3. Volume \in Nat
      BY DEF Volume
    <2> HIDE DEF N
    <2>4. /\ n - (n % 2) \in Nat /\ n - (n % 2) <= n
          /\ n - (n % 2) > 0 \/ s = Volume - 1
          /\ s + n + (IF q = 0 THEN 0 ELSE 1) <= Volume
      BY <1>1, <1>5, <1>6, <2>2, <2>3
    <2> QED
      BY <1>5, <1>7, <2>1, <2>2, <2>3, <2>4 DEF len
  <1>8. CASE m = "B"
    <2>1. /\ CalcWindowSize(m, len) = n \div 4
          /\ CacheSlots(m, len) = (n + (IF q = 0 THEN 0 ELSE 1) + 1) \div 2
      BY <1>8 DEF CalcWindowSize, CacheSlots, n, q
    <2>2. N = 4 * (Half - s) /\ SlotsPerUnit(m) = 2
      BY <1>8 DEF Units, RecordsPerUnit, SlotsPerUnit, Volume
    <2> HIDE DEF N
    <2> QED
      BY <1>1, <1>5, <1>6, <2>1, <2>2 DEF len, Volume
  <1> QED
    BY <1>7, <1>8 DEF Maps

-----------------------------------------------------------------------------
(* The inductive invariant.                                                *)

USE ConstantsAssumption DEF fileVars, windowVars, InWindow

\* A new database has nothing below its checkpoints.
LEMMA InitPlotInv == Init => PlotInv
  <1> SUFFICES ASSUME Init PROVE PlotInv
    OBVIOUS
  <1> USE DEF Init
  <1>1. Shape
    BY DEF Shape, Units, Volume, Maps
  <1>2. WindowPlaced /\ BelowWindow /\ KeptA /\ StableA
    BY DEF WindowPlaced, BelowWindow, KeptA, StableA, Maps
  <1>3. BelowCheckpoint
    BY DEF BelowCheckpoint, SlotsPerUnit, Slots, Maps
  <1> QED
    BY <1>1, <1>2, <1>3 DEF PlotInv

\* A step that only moves between points outside a window.
LEMMA QuietMove ==
  ASSUME PlotInv, UNCHANGED <<data, ck, synced, syncCk, hasA, fileA>>,
         UNCHANGED <<map, windowVars>>,
         pc' \in {"ended", "idle"}
  PROVE  PlotInv'
  <1> USE DEF PlotInv
  <1>1. Shape'
    BY DEF Shape, Units
  <1>2. BelowCheckpoint'
    BY DEF BelowCheckpoint, Right, SlotsPerUnit
  <1>3. WindowPlaced' /\ BelowWindow' /\ StableA' /\ KeptA'
    BY DEF WindowPlaced, BelowWindow, StableA, KeptA
  <1> QED
    BY <1>1, <1>2, <1>3

\* Syncing the file of the map in work.
LEMMA SyncedFile ==
  ASSUME Shape, SyncFile, map \in Maps
  PROVE  /\ synced' = [m \in Maps |-> [i \in Slots |-> synced'[m][i]]]
         /\ syncCk' \in [Maps -> Nat]
         /\ synced'[map] = data[map] /\ syncCk'[map] = ck[map]
         /\ \A m \in Maps : m # map => synced'[m] = synced[m] /\ syncCk'[m] = syncCk[m]
  BY DEF Shape, SyncFile

\* A Sync of the map in work: the file is as it is read, and nothing below a
\* checkpoint is lost (HashMapB depends on the synced HashMapA).
LEMMA SyncKeeps ==
  ASSUME PlotInv, SyncFile, UNCHANGED <<data, ck>>,
         pc \in {"sync", "checkSync", "lastSync"}
  PROVE  /\ synced' = [m \in Maps |-> [i \in Slots |-> synced'[m][i]]]
         /\ syncCk' \in [Maps -> Nat]
         /\ \A m \in Maps : syncCk[m] <= syncCk'[m] /\ syncCk'[m] <= ck[m]
         /\ synced'[map] = data[map] /\ syncCk'[map] = ck[map]
         /\ \A m \in Maps : m # map => synced'[m] = synced[m] /\ syncCk'[m] = syncCk[m]
         /\ map = "B" => /\ ck["A"] = Volume /\ syncCk'["A"] = Volume
                         /\ data["A"] = synced'["A"]
         /\ \A i \in Slots : Right(data, map, i) => Right(synced', map, i)
         /\ BelowCheckpoint'
  <1> USE DEF PlotInv
  <1>m. Shape /\ map \in Maps /\ (map = "A" \/ map = "B")
    BY DEF Shape, Maps
  <1>1. /\ synced' = [m \in Maps |-> [i \in Slots |-> synced'[m][i]]]
        /\ syncCk' \in [Maps -> Nat]
        /\ synced'[map] = data[map] /\ syncCk'[map] = ck[map]
        /\ \A m \in Maps : m # map => synced'[m] = synced[m] /\ syncCk'[m] = syncCk[m]
    BY <1>m, SyncedFile
  <1>2. \A m \in Maps : syncCk[m] <= syncCk'[m] /\ syncCk'[m] <= ck[m]
    <2> SUFFICES ASSUME NEW m \in Maps
                 PROVE  syncCk[m] <= syncCk'[m] /\ syncCk'[m] <= ck[m]
      OBVIOUS
    <2>1. syncCk[m] \in Nat /\ ck[m] \in Nat /\ syncCk[m] <= ck[m]
      BY DEF Shape
    <2>2. syncCk'[m] = ck[m] \/ syncCk'[m] = syncCk[m]
      BY <1>1
    <2> QED
      BY <2>1, <2>2
  <1>3. map = "B" => /\ ck["A"] = Volume /\ syncCk'["A"] = Volume
                     /\ data["A"] = synced'["A"] /\ synced'["A"] = synced["A"]
    BY <1>1 DEF StableA, Maps
  <1>4. \A i \in Slots : Right(data, map, i) => Right(synced', map, i)
    BY <1>m, <1>1, <1>3 DEF Right
  <1>5. BelowCheckpoint'
    <2> SUFFICES ASSUME NEW m \in Maps, NEW i \in Slots, i < ck[m] * SlotsPerUnit(m)
                 PROVE  Right(data, m, i) /\ Right(synced', m, i)
      BY DEF BelowCheckpoint, Right, SlotsPerUnit
    <2>1. Right(data, m, i) /\ Right(synced, m, i)
      BY DEF BelowCheckpoint
    <2>2. CASE m = map
      BY <1>4, <2>1, <2>2
    <2>3. CASE m # map /\ m = "A"
      BY <1>1, <2>1, <2>3 DEF Right
    <2>4. CASE m # map /\ m = "B"
      <3>1. map = "A" /\ ck["B"] > 0
        BY <1>m, <2>4 DEF Shape, Slots, SlotsPerUnit, Maps
      <3>2. synced'["A"] = synced["A"]
        BY <1>1, <3>1 DEF StableA
      <3> QED
        BY <1>1, <2>1, <2>4, <3>2 DEF Right
    <2> QED
      BY <2>2, <2>3, <2>4 DEF Maps
  <1> QED
    BY <1>1, <1>2, <1>3, <1>4, <1>5

\* A block writes slots of the map in work that lie past its checkpoint and past
\* the window's start, and writes the right value wherever the window reaches.
LEMMA BlockWritten ==
  ASSUME PlotInv, WriteBlock
  PROVE  /\ data' = [m \in Maps |-> [i \in Slots |-> data'[m][i]]]
         /\ \A m \in Maps : m # map => data'[m] = data[m]
         /\ count' \in Nat /\ count' > count /\ count' <= slots
         /\ pc' = "write" \/ (pc' = "sync" /\ count' = slots)
         /\ \A i \in Slots : i < start * SlotsPerUnit(map) + count =>
                             data'[map][i] = data[map][i]
         /\ \A i \in Slots :
              /\ start * SlotsPerUnit(map) + count <= i
              /\ i < start * SlotsPerUnit(map) + count'
              /\ i < end * SlotsPerUnit(map)
              => data'[map][i] = Computed(map, i)
  <1>s. /\ data = [m \in Maps |-> [i \in Slots |-> data[m][i]]] /\ map \in Maps
        /\ start \in Nat /\ end \in Nat /\ slots \in Nat /\ count \in Nat
    BY DEF PlotInv, Shape
  <1> DEFINE base == start * SlotsPerUnit(map) + count
  <1>1. base \in Nat
    BY <1>s DEF SlotsPerUnit
  <1>2. PICK k \in 1 .. slots - count :
          /\ data' = [data EXCEPT ![map] =
                        [i \in Slots |-> IF i \in base .. base + k - 1
                                         THEN IF i < end * SlotsPerUnit(map)
                                              THEN Computed(map, i) ELSE Zero(map)
                                         ELSE data[map][i]]]
          /\ count' = count + k
          /\ pc' = IF count + k = slots THEN "sync" ELSE "write"
    BY Zenon DEF WriteBlock
  <1>3. k \in Nat /\ k > 0 /\ count + k <= slots
    BY <1>s, <1>2
  <1> HIDE DEF base
  <1>4. \A i \in Slots : data'[map][i] = IF i \in base .. base + k - 1
                                         THEN IF i < end * SlotsPerUnit(map)
                                              THEN Computed(map, i) ELSE Zero(map)
                                         ELSE data[map][i]
    BY <1>s, <1>2
  <1>5. data' = [m \in Maps |-> [i \in Slots |-> data'[m][i]]]
    BY <1>s, <1>2
  <1>6. \A m \in Maps : m # map => data'[m] = data[m]
    BY <1>s, <1>2
  <1>7. \A i \in Slots : i < base => data'[map][i] = data[map][i]
    BY <1>1, <1>3, <1>4 DEF Slots
  <1>8. \A i \in Slots : base <= i /\ i < base + k /\ i < end * SlotsPerUnit(map)
                         => data'[map][i] = Computed(map, i)
    <2> SUFFICES ASSUME NEW i \in Slots, base <= i, i < base + k,
                        i < end * SlotsPerUnit(map)
                 PROVE  data'[map][i] = Computed(map, i)
      OBVIOUS
    <2>1. i \in base .. base + k - 1
      <3>1. i \in Int
        BY DEF Slots
      <3> QED
        BY <1>1, <1>3, <3>1
    <2> QED
      BY <1>4, <2>1
  <1>9. start * SlotsPerUnit(map) + count' = base + k
    BY <1>s, <1>2, <1>3 DEF base, SlotsPerUnit
  <1> QED
    BY <1>s, <1>2, <1>3, <1>5, <1>6, <1>7, <1>8, <1>9 DEF base

\* Every step keeps the invariant, action by action.
LEMMA NextPlotInv == PlotInv /\ [Next]_vars => PlotInv'
  <1> SUFFICES ASSUME PlotInv, [Next]_vars PROVE PlotInv'
    OBVIOUS
  <1> USE DEF PlotInv
  <1>u. Units("A") = Volume /\ Units("B") = Half /\ Volume = 2 * Half
        /\ SlotsPerUnit("A") = 1 /\ SlotsPerUnit("B") = 2
    BY DEF Units, SlotsPerUnit, Volume
  <1>m. Shape /\ map \in Maps /\ (map = "A" \/ map = "B")
    BY DEF Shape, Maps
  <1>1. CASE UNCHANGED vars
    <2>1. Shape' /\ WindowPlaced' /\ KeptA'
      BY <1>1 DEF vars, Shape, WindowPlaced, KeptA, Units, SlotsPerUnit
    <2>2. BelowCheckpoint' /\ BelowWindow' /\ StableA'
      BY <1>1 DEF vars, BelowCheckpoint, BelowWindow, StableA, Right, SlotsPerUnit
    <2> QED
      BY <2>1, <2>2
  <1>2. CASE Plot
    <2> USE <1>2 DEF Plot
    <2>1. Shape'
      BY <1>u DEF Shape, Maps
    <2>2. BelowCheckpoint'
      BY DEF BelowCheckpoint, Right, SlotsPerUnit
    <2>3. WindowPlaced' /\ BelowWindow' /\ KeptA'
      BY DEF WindowPlaced, BelowWindow, KeptA
    <2>4. StableA'
      BY DEF StableA
    <2> QED
      BY <2>1, <2>2, <2>3, <2>4
  <1>3. CASE StopPlot
    <2> USE <1>3 DEF StopPlot
    <2>1. Shape' /\ WindowPlaced' /\ KeptA'
      BY DEF Shape, WindowPlaced, KeptA, Units, SlotsPerUnit
    <2>2. BelowCheckpoint' /\ BelowWindow' /\ StableA'
      BY DEF BelowCheckpoint, BelowWindow, StableA, Right, SlotsPerUnit
    <2> QED
      BY <2>1, <2>2
  <1>4. CASE ReadCheckpoint
    <2> USE <1>4 DEF ReadCheckpoint
    <2>1. Shape'
      BY <1>u DEF Shape, Maps
    <2>2. BelowCheckpoint'
      BY DEF BelowCheckpoint, Right, SlotsPerUnit
    <2>3. WindowPlaced'
      BY <1>m DEF WindowPlaced, Shape
    <2>4. BelowWindow'
      BY <1>m DEF BelowCheckpoint, BelowWindow, Right, SlotsPerUnit
    <2>5. StableA' /\ KeptA'
      BY <1>m DEF StableA, KeptA
    <2> QED
      BY <2>1, <2>2, <2>3, <2>4, <2>5
  <1>5. CASE Window
    <2>1. PICK avail \in Available :
            \/ /\ MemoryShort(map, start, avail)
               /\ pc' = "ended"
               /\ UNCHANGED <<end, slots>>
            \/ /\ ~MemoryShort(map, start, avail)
               /\ end' = start + CalcWindowSize(map, CacheLen(map, start, avail))
               /\ slots' = CacheSlots(map, CacheLen(map, start, avail))
               /\ pc' = "scan"
      BY <1>5 DEF Window
    <2>2. /\ pc = "window" /\ start < Units(map) /\ count' = 0
          /\ UNCHANGED <<fileVars, start, map, stop, runs>>
      BY <1>5 DEF Window
    <2>3. BelowCheckpoint'
      BY <2>2 DEF BelowCheckpoint, Right, SlotsPerUnit
    <2>4. CASE pc' = "ended"
      <3>1. Shape'
        BY <1>u, <2>1, <2>2, <2>4 DEF Shape, Maps
      <3>2. WindowPlaced' /\ BelowWindow' /\ StableA' /\ KeptA'
        BY <2>2, <2>4 DEF WindowPlaced, BelowWindow, StableA, KeptA
      <3> QED
        BY <2>3, <3>1, <3>2
    <2>5. CASE pc' = "scan"
      <3> DEFINE w == CalcWindowSize(map, CacheLen(map, start, avail))
                 k == CacheSlots(map, CacheLen(map, start, avail))
      <3>1. end' = start + w /\ slots' = k
        BY <2>1, <2>5
      <3>2. /\ w \in Nat /\ k \in Nat
            /\ w * SlotsPerUnit(map) <= k
            /\ start * SlotsPerUnit(map) + k <= Volume
            /\ w > 0 \/ (map = "A" /\ start = Volume - 1)
        BY <2>1, <2>2, <2>5, <1>m, WindowFits DEF Shape
      <3> HIDE DEF w, k
      <3>3. Shape'
        BY <1>u, <2>2, <3>1, <3>2 DEF Shape, Maps
      <3>4. WindowPlaced'
        BY <1>u, <1>m, <2>2, <2>5, <3>1, <3>2 DEF WindowPlaced, Shape
      <3>5. BelowWindow'
        BY <1>m, <2>2, <2>5 DEF BelowWindow, Right, SlotsPerUnit
      <3>6. StableA' /\ KeptA'
        BY <1>m, <1>u, <2>2, <2>5 DEF StableA, KeptA
      <3> QED
        BY <2>3, <3>3, <3>4, <3>5, <3>6
    <2> QED
      BY <2>1, <2>4, <2>5
  <1>6. CASE Scan
    <2>1. CASE stop
      BY <1>6, <2>1, QuietMove DEF Scan
    <2>2. CASE ~stop
      <3> USE <1>6, <2>2 DEF Scan
      <3>1. Shape' /\ WindowPlaced' /\ KeptA'
        BY <1>m DEF Shape, WindowPlaced, KeptA, Units, SlotsPerUnit
      <3>2. BelowCheckpoint' /\ StableA'
        BY DEF BelowCheckpoint, StableA, Right, SlotsPerUnit
      <3>3. BelowWindow'
        <4>1. count = 0
          BY DEF WindowPlaced
        <4>2. \A i \in Slots : i < start * SlotsPerUnit(map) + count
                               => i < start * SlotsPerUnit(map)
          BY <1>m, <4>1 DEF SlotsPerUnit, Shape, Slots
        <4>3. \A i \in Slots : i < start * SlotsPerUnit(map) =>
                Right(data, map, i) /\ Right(synced, map, i)
          BY DEF BelowWindow
        <4> QED
          BY <4>2, <4>3 DEF BelowWindow, Right, SlotsPerUnit
      <3> QED
        BY <3>1, <3>2, <3>3
    <2> QED
      BY <2>1, <2>2
  <1>7. CASE WriteBlock
    <2> DEFINE s == start * SlotsPerUnit(map)
               e == end * SlotsPerUnit(map)
    <2>1. /\ pc = "write"
          /\ UNCHANGED <<ck, synced, syncCk, hasA, fileA, start, end, slots, map>>
      BY <1>7 DEF WriteBlock
    <2>2. /\ data' = [m \in Maps |-> [i \in Slots |-> data'[m][i]]]
          /\ \A m \in Maps : m # map => data'[m] = data[m]
          /\ count' \in Nat /\ count' > count /\ count' <= slots
          /\ pc' = "write" \/ (pc' = "sync" /\ count' = slots)
      BY <1>7, BlockWritten
    <2>3. \A i \in Slots : i < s + count => data'[map][i] = data[map][i]
      BY <1>7, BlockWritten
    <2>4. \A i \in Slots : s + count <= i /\ i < s + count' /\ i < e
                           => data'[map][i] = Computed(map, i)
      BY <1>7, BlockWritten
    <2>5. s \in Nat /\ e \in Nat /\ count \in Nat /\ e <= s + slots
      BY <1>m, <1>u, <2>1 DEF WindowPlaced, Shape
    <2>6. \A i \in Slots : i \in Nat
      BY DEF Slots
    <2>7. map = "B" => data'["A"] = data["A"]
      BY <2>2 DEF Maps
    <2>8. \A i \in Slots : i < s + count /\ Right(data, map, i) => Right(data', map, i)
      BY <1>m, <2>3, <2>7 DEF Right
    <2>9. \A i \in Slots : s + count <= i /\ i < s + count' /\ i < e
                           => Right(data', map, i)
      BY <1>m, <2>4, <2>7 DEF Right, Computed
    <2> HIDE DEF s, e
    <2>10. \A i \in Slots : i < s + count' /\ i < e => Right(data', map, i)
      BY <2>1, <2>2, <2>5, <2>6, <2>8, <2>9 DEF BelowWindow, s, e
    <2>11. \A i \in Slots : i < s => Right(data', map, i) /\ Right(synced, map, i)
      BY <2>1, <2>5, <2>6, <2>8 DEF BelowWindow, s
    <2>12. pc' = "sync" => \A i \in Slots : i < e => Right(data', map, i)
      BY <2>2, <2>5, <2>6, <2>10
    <2>13. Shape'
      BY <1>m, <2>1, <2>2 DEF Shape, Units
    <2>14. WindowPlaced'
      BY <2>1, <2>2 DEF WindowPlaced, Units, SlotsPerUnit
    <2>15. BelowWindow'
      BY <2>1, <2>2, <2>10, <2>11, <2>12 DEF BelowWindow, Right, s, e, SlotsPerUnit
    <2>16. BelowCheckpoint'
      <3> SUFFICES ASSUME NEW m \in Maps, NEW i \in Slots, i < ck[m] * SlotsPerUnit(m)
                   PROVE  Right(data', m, i) /\ Right(synced, m, i)
        BY <2>1 DEF BelowCheckpoint, Right, SlotsPerUnit
      <3>1. Right(data, m, i) /\ Right(synced, m, i)
        BY DEF BelowCheckpoint
      <3>2. CASE m = map
        <4>1. i < s \/ (i = Volume - 1 /\ m = "A")
          <5>1. ck[map] <= start \/ (map = "A" /\ start = Volume - 1)
            BY <2>1 DEF WindowPlaced
          <5>2. ck[map] \in Nat /\ start \in Nat /\ i \in Nat /\ i <= Volume - 1
            BY <1>m DEF Shape, Slots, Volume
          <5>3. CASE map = "A"
            BY <1>u, <3>2, <5>1, <5>2, <5>3 DEF s
          <5>4. CASE map = "B"
            BY <1>u, <3>2, <5>1, <5>2, <5>4 DEF s
          <5> QED
            BY <1>m, <5>3, <5>4
        <4> QED
          BY <2>11, <3>1, <3>2, <4>1 DEF Right
      <3>3. CASE m # map
        <4>1. m = "B" => FALSE
          BY <1>m, <1>u, <2>1, <2>6, <3>3 DEF StableA, Shape, Maps
        <4> QED
          BY <2>2, <3>1, <3>3, <4>1 DEF Right, Maps
      <3> QED
        BY <3>2, <3>3
    <2>17. StableA' /\ KeptA'
      BY <1>m, <2>1, <2>2, <2>7 DEF StableA, KeptA
    <2> QED
      BY <2>13, <2>14, <2>15, <2>16, <2>17
  <1>8. CASE WriteAborts
    BY <1>8, QuietMove DEF WriteAborts
  <1>9. CASE Sync
    <2>1. /\ pc = "sync" /\ pc' = "check"
          /\ SyncFile /\ UNCHANGED <<data, ck, hasA, fileA, windowVars, map>>
      BY <1>9 DEF Sync
    <2>2. /\ synced' = [m \in Maps |-> [i \in Slots |-> synced'[m][i]]]
          /\ syncCk' \in [Maps -> Nat]
          /\ \A m \in Maps : syncCk'[m] <= ck[m]
          /\ synced'[map] = data[map] /\ syncCk'[map] = ck[map]
          /\ map = "B" => /\ ck["A"] = Volume /\ syncCk'["A"] = Volume
                          /\ data["A"] = synced'["A"]
          /\ \A i \in Slots : Right(data, map, i) => Right(synced', map, i)
          /\ BelowCheckpoint'
      BY <2>1, SyncKeeps
    <2>3. Shape'
      BY <1>m, <1>u, <2>1, <2>2 DEF Shape, Maps
    <2>4. WindowPlaced'
      BY <2>1 DEF WindowPlaced, Units, SlotsPerUnit
    <2>5. BelowWindow'
      <3>1. \A i \in Slots : i < start * SlotsPerUnit(map) => Right(data, map, i)
        BY <2>1 DEF BelowWindow
      <3>2. \A i \in Slots : i < end * SlotsPerUnit(map) => Right(data, map, i)
        BY <2>1 DEF BelowWindow
      <3> QED
        BY <2>1, <2>2, <3>1, <3>2 DEF BelowWindow, Right, SlotsPerUnit
    <2>6. StableA'
      BY <1>m, <2>1, <2>2 DEF StableA
    <2>7. KeptA'
      BY <2>1 DEF KeptA
    <2> QED
      BY <2>2, <2>3, <2>4, <2>5, <2>6, <2>7
  <1>10. CASE Checkpoint
    <2>1. /\ pc = "check" /\ pc' = "checkSync"
          /\ ck' = [ck EXCEPT ![map] = start + 1]
          /\ UNCHANGED <<data, synced, syncCk, hasA, fileA, windowVars, map>>
      BY <1>10 DEF Checkpoint, UpdateCheckpoint
    <2>2. /\ ck' \in [Maps -> Nat] /\ ck'[map] = start + 1
          /\ \A m \in Maps : m # map => ck'[m] = ck[m]
          /\ start + 1 <= Units(map) /\ ck[map] <= start + 1
      BY <1>m, <1>u, <2>1 DEF Shape, WindowPlaced
    <2>3. Shape'
      BY <1>m, <1>u, <2>1, <2>2 DEF Shape, Maps
    <2>4. WindowPlaced'
      BY <2>1, <2>2 DEF WindowPlaced, Units, SlotsPerUnit
    <2>5. BelowCheckpoint'
      <3> SUFFICES ASSUME NEW m \in Maps, NEW i \in Slots, i < ck'[m] * SlotsPerUnit(m)
                   PROVE  Right(data, m, i) /\ Right(synced, m, i)
        BY <2>1 DEF BelowCheckpoint, Right, SlotsPerUnit
      <3>1. CASE m # map
        BY <2>2, <3>1 DEF BelowCheckpoint
      <3>2. CASE m = map
        <4>1. \/ i < end * SlotsPerUnit(map)
              \/ i < start * SlotsPerUnit(map)
              \/ (map = "A" /\ i = Volume - 1)
          <5>1. i \in Nat /\ start \in Nat /\ end \in Nat
            BY <1>m DEF Slots, Shape
          <5>2. start < end \/ (map = "A" /\ start = Volume - 1)
            BY <2>1 DEF WindowPlaced
          <5>3. i < (start + 1) * SlotsPerUnit(map)
            BY <2>2, <3>2
          <5> QED
            BY <1>m, <1>u, <5>1, <5>2, <5>3
        <4> QED
          BY <2>1, <3>2, <4>1 DEF BelowWindow, Right
      <3> QED
        BY <3>1, <3>2
    <2>6. BelowWindow'
      BY <2>1 DEF BelowWindow, Right, SlotsPerUnit
    <2>7. StableA'
      BY <1>m, <2>1, <2>2 DEF StableA, Shape, Maps, Units
    <2>8. KeptA'
      BY <2>1 DEF KeptA
    <2> QED
      BY <2>3, <2>4, <2>5, <2>6, <2>7, <2>8
  <1>11. CASE CheckpointSync
    <2>1. /\ pc = "checkSync" /\ pc' = "window" /\ start' = end
          /\ SyncFile /\ UNCHANGED <<data, ck, hasA, fileA, end, slots, count, map>>
      BY <1>11 DEF CheckpointSync
    <2>2. /\ synced' = [m \in Maps |-> [i \in Slots |-> synced'[m][i]]]
          /\ syncCk' \in [Maps -> Nat]
          /\ \A m \in Maps : syncCk'[m] <= ck[m]
          /\ synced'[map] = data[map] /\ syncCk'[map] = ck[map]
          /\ map = "B" => /\ ck["A"] = Volume /\ syncCk'["A"] = Volume
                          /\ data["A"] = synced'["A"]
          /\ \A i \in Slots : Right(data, map, i) => Right(synced', map, i)
          /\ BelowCheckpoint'
      BY <2>1, SyncKeeps
    <2>3. /\ start <= end /\ end <= Units(map) /\ ck[map] = start + 1
          /\ start < end \/ (map = "A" /\ start = Volume - 1)
      BY <2>1 DEF WindowPlaced
    <2>4. Shape'
      BY <1>m, <1>u, <2>1, <2>2, <2>3 DEF Shape, Maps
    <2>5. WindowPlaced'
      <3>1. start \in Nat /\ end \in Nat
        BY <1>m DEF Shape
      <3>2. ck[map] <= end \/ (map = "A" /\ end = Volume - 1)
        BY <2>3, <1>u, <3>1
      <3> QED
        BY <2>1, <3>2 DEF WindowPlaced
    <2>6. BelowWindow'
      <3>1. \A i \in Slots : i < end * SlotsPerUnit(map) => Right(data, map, i)
        BY <2>1 DEF BelowWindow
      <3> QED
        BY <2>1, <2>2, <3>1 DEF BelowWindow, Right, SlotsPerUnit
    <2>7. StableA'
      BY <1>m, <2>1, <2>2 DEF StableA
    <2>8. KeptA'
      BY <2>1 DEF KeptA
    <2> QED
      BY <2>2, <2>4, <2>5, <2>6, <2>7, <2>8
  <1>12. CASE MapDone
    <2>1. /\ pc = "window" /\ pc' = "lastSync" /\ start >= Units(map)
          /\ ck' = [ck EXCEPT ![map] = Units(map)]
          /\ UNCHANGED <<data, synced, syncCk, hasA, fileA, windowVars, map>>
      BY <1>12 DEF MapDone, UpdateCheckpoint
    <2>2. /\ ck' \in [Maps -> Nat] /\ ck'[map] = Units(map)
          /\ \A m \in Maps : m # map => ck'[m] = ck[m]
          /\ start = Units(map) /\ ck[map] <= ck'[map]
      <3>1. Units(map) \in Nat
        BY <1>m, <1>u
      <3>2. /\ start \in Nat /\ start <= Units(map)
            /\ ck[map] <= Units(map) /\ ck \in [Maps -> Nat]
        BY <1>m DEF Shape
      <3>3. ck' \in [Maps -> Nat] /\ ck'[map] = Units(map)
            /\ \A m \in Maps : m # map => ck'[m] = ck[m]
        BY <1>m, <2>1, <3>1, <3>2
      <3> QED
        BY <2>1, <3>1, <3>2, <3>3
    <2>3. Shape'
      BY <1>m, <1>u, <2>1, <2>2 DEF Shape, Maps
    <2>4. WindowPlaced' /\ BelowWindow'
      BY <2>1 DEF WindowPlaced, BelowWindow
    <2>5. BelowCheckpoint'
      <3> SUFFICES ASSUME NEW m \in Maps, NEW i \in Slots, i < ck'[m] * SlotsPerUnit(m)
                   PROVE  Right(data, m, i) /\ Right(synced, m, i)
        BY <2>1 DEF BelowCheckpoint, Right, SlotsPerUnit
      <3>1. CASE m # map
        BY <2>2, <3>1 DEF BelowCheckpoint
      <3>2. CASE m = map
        BY <2>1, <2>2, <3>2 DEF BelowWindow
      <3> QED
        BY <3>1, <3>2
    <2>6. StableA'
      BY <1>m, <1>u, <2>1, <2>2 DEF StableA, Shape, Maps
    <2>7. KeptA'
      BY <1>m, <2>1, <2>2 DEF KeptA, Units
    <2> QED
      BY <2>3, <2>4, <2>5, <2>6, <2>7
  <1>13. CASE LastSync
    <2>1. /\ pc = "lastSync" /\ SyncFile
          /\ UNCHANGED <<data, ck, hasA, fileA>>
          /\ \/ /\ map = "A" /\ map' = "B" /\ pc' = "begin"
                /\ start' = 0 /\ end' = 0 /\ slots' = 0 /\ count' = 0
             \/ /\ map = "B" /\ pc' = "cleanup"
                /\ UNCHANGED <<map, windowVars>>
      BY <1>13, <1>m DEF LastSync
    <2>2. /\ synced' = [m \in Maps |-> [i \in Slots |-> synced'[m][i]]]
          /\ syncCk' \in [Maps -> Nat]
          /\ \A m \in Maps : syncCk'[m] <= ck[m]
          /\ synced'[map] = data[map] /\ syncCk'[map] = ck[map]
          /\ map = "B" => /\ ck["A"] = Volume /\ syncCk'["A"] = Volume
                          /\ data["A"] = synced'["A"]
          /\ BelowCheckpoint'
      BY <2>1, SyncKeeps
    <2>3. ck[map] = Units(map) /\ fileA
      BY <2>1 DEF KeptA
    <2>4. Shape'
      BY <1>m, <1>u, <2>1, <2>2 DEF Shape, Maps
    <2>5. WindowPlaced' /\ BelowWindow'
      BY <2>1 DEF WindowPlaced, BelowWindow
    <2>6. StableA'
      BY <1>m, <1>u, <2>1, <2>2, <2>3 DEF StableA
    <2>7. KeptA'
      BY <1>u, <2>1, <2>2, <2>3 DEF KeptA
    <2> QED
      BY <2>2, <2>4, <2>5, <2>6, <2>7
  <1>14. CASE Cleanup
    <2> USE <1>14 DEF Cleanup
    <2>1. Shape'
      BY DEF Shape, Units
    <2>2. BelowCheckpoint'
      BY DEF BelowCheckpoint, Right, SlotsPerUnit
    <2>3. WindowPlaced' /\ BelowWindow' /\ StableA' /\ KeptA'
      BY DEF WindowPlaced, BelowWindow, StableA, KeptA
    <2> QED
      BY <2>1, <2>2, <2>3
  <1>15. CASE Crash
    <2>1. /\ data' = [m \in Maps |-> [i \in Slots |-> data'[m][i]]]
          /\ \A m \in Maps, i \in Slots : \/ data'[m][i] = data[m][i]
                                          \/ data'[m][i] = synced[m][i]
      BY <1>15 DEF Crash
    <2>2. /\ ck' = [m \in Maps |-> ck'[m]]
          /\ \A m \in Maps : ck'[m] = ck[m] \/ ck'[m] = syncCk[m]
      BY <1>15 DEF Crash
    <2>3. /\ synced' = data' /\ syncCk' = ck' /\ pc' = "idle"
          /\ hasA' = (ck'["B"] < Half)
          /\ UNCHANGED <<fileA, windowVars, map>>
      BY <1>15 DEF Crash
    <2>4. ck' \in [Maps -> Nat] /\ \A m \in Maps : syncCk[m] <= ck'[m] /\ ck'[m] <= ck[m]
      <3>1. \A m \in Maps : ck[m] \in Nat /\ syncCk[m] \in Nat /\ syncCk[m] <= ck[m]
        BY DEF Shape
      <3>2. \A m \in Maps : ck'[m] \in Nat
        BY <2>2, <3>1
      <3>3. ck' \in [Maps -> Nat]
        BY <2>2, <3>2
      <3> QED
        BY <2>2, <3>1, <3>3
    <2>5. Shape'
      BY <1>m, <1>u, <2>1, <2>3, <2>4 DEF Shape, Maps
    <2>6. ck'["B"] > 0 => ck["B"] > 0
      BY <1>m, <2>4 DEF Shape, Maps
    <2>7. ck["B"] > 0 => data'["A"] = data["A"]
      <3> SUFFICES ASSUME ck["B"] > 0 PROVE data'["A"] = data["A"]
        OBVIOUS
      <3>1. data["A"] = synced["A"]
        BY DEF StableA
      <3>2. data'["A"] = [i \in Slots |-> data'["A"][i]]
            /\ data["A"] = [i \in Slots |-> data["A"][i]]
        BY <2>1 DEF Shape, Maps
      <3>3. \A i \in Slots : data'["A"][i] = data["A"][i]
        BY <2>1, <3>1 DEF Maps
      <3> QED
        BY <3>2, <3>3
    <2>8. BelowCheckpoint'
      <3> SUFFICES ASSUME NEW m \in Maps, NEW i \in Slots, i < ck'[m] * SlotsPerUnit(m)
                   PROVE  Right(data', m, i)
        BY <2>3 DEF BelowCheckpoint, Right, SlotsPerUnit
      <3>1. i < ck[m] * SlotsPerUnit(m)
        <4>1. i \in Int /\ ck[m] \in Nat /\ ck'[m] \in Nat /\ ck'[m] <= ck[m]
          BY <2>4 DEF Shape, Slots
        <4>2. SlotsPerUnit(m) = 1 \/ SlotsPerUnit(m) = 2
          BY DEF SlotsPerUnit
        <4> QED
          BY <4>1, <4>2
      <3>2. Right(data, m, i) /\ Right(synced, m, i)
        BY <3>1 DEF BelowCheckpoint
      <3>3. data'[m][i] = data[m][i] \/ data'[m][i] = synced[m][i]
        BY <2>1
      <3>4. CASE m = "A"
        BY <3>2, <3>3, <3>4 DEF Right
      <3>5. CASE m = "B"
        <4>1. ck["B"] > 0
          <5>1. i \in Nat /\ ck["B"] \in Nat
            BY DEF Shape, Slots, Maps
          <5> QED
            BY <1>u, <3>1, <3>5, <5>1
        <4>2. data["A"] = synced["A"] /\ data'["A"] = data["A"]
          BY <2>7, <4>1 DEF StableA
        <4> QED
          BY <3>2, <3>3, <3>5, <4>2 DEF Right
      <3> QED
        BY <3>4, <3>5 DEF Maps
    <2>9. WindowPlaced' /\ BelowWindow'
      BY <2>3 DEF WindowPlaced, BelowWindow
    <2>10. StableA'
      <3>1. ck["A"] = Volume /\ syncCk["A"] = Volume => ck'["A"] = Volume
        BY <2>2 DEF Maps
      <3> QED
        BY <2>3, <2>6, <3>1 DEF StableA
    <2>11. KeptA'
      <3>1. syncCk["B"] <= ck'["B"] /\ ck'["B"] <= Half
            /\ syncCk["B"] \in Nat /\ ck'["B"] \in Nat
        BY <1>u, <2>4 DEF Shape, Maps
      <3>2. syncCk["B"] = Half => ck'["B"] = Half /\ ~(ck'["B"] < Half)
        BY <3>1
      <3>3. syncCk["B"] = Half => ~hasA' /\ syncCk'["B"] = Half
        BY <2>3, <3>2, Zenon
      <3> QED
        BY <2>3, <3>3 DEF KeptA
    <2> QED
      BY <2>5, <2>8, <2>9, <2>10, <2>11
  <1>16. CASE Return
    BY <1>16, QuietMove DEF Return
  <1> QED
    BY <1>1, <1>2, <1>3, <1>4, <1>5, <1>6, <1>7, <1>8, <1>9, <1>10, <1>11, <1>12,
       <1>13, <1>14, <1>15, <1>16
    DEF Next, PlotStep

-----------------------------------------------------------------------------
(* What follows from it.                                                   *)

\* The inductive invariant holds of every reachable state.
THEOREM PlotInvariant == Spec => []PlotInv
  BY InitPlotInv, NextPlotInv, PTL DEF Spec

\* Whatever a crash of the machine leaves of the two files, every slot below a
\* checkpoint holds what the plot computes for it (prePlotWork and plotWork
\* sync the data before they move the checkpoint).
THEOREM CheckpointsAreSound == Spec => []CheckpointSound
  <1>1. PlotInv => CheckpointSound
    <2> SUFFICES ASSUME PlotInv PROVE CheckpointSound
      OBVIOUS
    <2>1. \A m \in Maps : syncCk[m] \in Nat /\ ck[m] \in Nat /\ syncCk[m] <= ck[m]
      BY DEF PlotInv, Shape
    <2>2. \A m \in Maps, i \in Slots : i < syncCk[m] * SlotsPerUnit(m)
                                        => Right(synced, m, i)
      <3> SUFFICES ASSUME NEW m \in Maps, NEW i \in Slots,
                          i < syncCk[m] * SlotsPerUnit(m)
                   PROVE  Right(synced, m, i)
        OBVIOUS
      <3>1. i < ck[m] * SlotsPerUnit(m)
        BY <2>1 DEF Slots, SlotsPerUnit
      <3> QED
        BY <3>1 DEF PlotInv, BelowCheckpoint
    <2> QED
      BY <2>1, <2>2 DEF CheckpointSound, Right, SlotsPerUnit, Maps, Slots, Volume
  <1> QED
    BY <1>1, PlotInvariant, PTL

\* HashMapA's file is removed only once a complete HashMapB is durable.
THEOREM SourceIsKept == Spec => []SourceKept
  <1>1. PlotInv => SourceKept
    BY DEF PlotInv, KeptA, SourceKept
  <1> QED
    BY <1>1, PlotInvariant, PTL

\* No step of a plot, no stop and no crash takes a durable checkpoint back.
THEOREM CheckpointsGrow == Spec => CheckpointGrows
  <1> DEFINE Grows == \A m \in Maps : syncCk'[m] >= syncCk[m]
  <1>1. PlotInv /\ [Next]_vars => [Grows]_vars
    <2> SUFFICES ASSUME PlotInv, Next PROVE Grows
      BY DEF vars
    <2>1. \A m \in Maps : syncCk[m] \in Nat /\ ck[m] \in Nat /\ syncCk[m] <= ck[m]
      BY DEF PlotInv, Shape
    <2>2. CASE syncCk' = syncCk
      BY <2>1, <2>2
    <2>3. CASE Sync \/ CheckpointSync \/ LastSync
      <3>1. /\ SyncFile /\ UNCHANGED <<data, ck>>
            /\ pc \in {"sync", "checkSync", "lastSync"}
        BY <2>3 DEF Sync, CheckpointSync, LastSync
      <3>2. syncCk' \in [Maps -> Nat] /\ \A m \in Maps : syncCk[m] <= syncCk'[m]
        BY <3>1, SyncKeeps
      <3> QED
        BY <2>1, <3>2
    <2>4. CASE Crash
      <3>1. \A m \in Maps : syncCk'[m] = ck[m] \/ syncCk'[m] = syncCk[m]
        BY <2>4 DEF Crash
      <3> QED
        BY <2>1, <3>1
    <2>5. CASE Plot \/ StopPlot \/ ReadCheckpoint \/ Window \/ Scan \/ WriteBlock
               \/ WriteAborts \/ Checkpoint \/ MapDone \/ Cleanup \/ Return
      <3>1. syncCk' = syncCk
        BY <2>5 DEF Plot, StopPlot, ReadCheckpoint, Window, Scan, WriteBlock,
                    WriteAborts, Checkpoint, MapDone, Cleanup, Return
      <3> QED
        BY <2>2, <3>1
    <2> QED
      BY <2>3, <2>4, <2>5 DEF Next, PlotStep
  <1> QED
    BY <1>1, PlotInvariant, PTL DEF Spec, CheckpointGrows

-----------------------------------------------------------------------------
(* The first run: a finished plot is whole.                                *)

\* A window of HashMapA has an even number of slots.
LEMMA WindowEven ==
  ASSUME NEW s \in Nat, s < Volume, NEW avail \in Available
  PROVE  CalcWindowSize("A", CacheLen("A", s, avail)) % 2 = 0
  <1> DEFINE len == CacheLen("A", s, avail)
             n   == len \div RecordSize
  <1>1. Required("A", s) \in Nat
    <2>1. Volume - s \in Nat
      BY DEF Volume
    <2>2. (Volume - s) * RecordSize \in Nat
      BY <2>1, SMT
    <2>3. (Units("A") - s) * RecordsPerUnit("A") * RecordSize = (Volume - s) * RecordSize
      BY <2>1 DEF Units, RecordsPerUnit
    <2> QED
      BY <2>2, <2>3 DEF Required
  <1>2. avail \in Nat /\ avail \div MinMem \in Nat
    BY Records
  <1>3. len \in Nat
    <2>1. (avail \div MinMem) * MinMem \in Nat
      BY <1>2, SMT
    <2> QED
      BY <1>1, <2>1 DEF CacheLen
  <1> HIDE DEF len
  <1>4. n \in Nat
    BY <1>3, Records
  <1> HIDE DEF n
  <1>5. (n - (n % 2)) % 2 = 0
    BY <1>4
  <1> QED
    BY <1>5 DEF CalcWindowSize, n, len

\* The first run begins from empty files.
LEMMA InitFirstInv == Init => FirstInv
  BY DEF Init, FirstInv, EvenWindows, LastSlot, Maps, Volume

\* A step that leaves the files and moves out of every window.
LEMMA FirstQuiet ==
  ASSUME FirstInv, UNCHANGED <<data, ck, synced, mem, map, runs>>,
         runs > 0, pc' \in {"ended", "idle", "cleanup"}
  PROVE  FirstInv'
  BY DEF FirstInv, EvenWindows, LastSlot, LastRight

\* Every step keeps the first run's invariant.
LEMMA NextFirstInv == PlotInv /\ FirstInv /\ [Next]_vars => FirstInv'
  <1> SUFFICES ASSUME PlotInv, FirstInv, [Next]_vars PROVE FirstInv'
    OBVIOUS
  <1>s. /\ ck \in [Maps -> Nat] /\ ck["A"] \in Nat /\ ck["A"] <= Volume
        /\ syncCk["A"] \in Nat /\ syncCk["A"] <= ck["A"]
        /\ map \in Maps /\ start \in Nat /\ end \in Nat
        /\ slots \in Nat /\ count \in Nat
        /\ map = "A" => start <= Volume
    BY DEF PlotInv, Shape, Maps, Units
  <1>v. Volume \in Nat /\ Volume > 0 /\ Volume % 2 = 0 /\ Volume - 1 \in Slots
    BY DEF Volume, Slots
  <1>r. runs \in Nat /\ mem = ck
    BY DEF FirstInv
  <1>z. runs = 0 => pc = "idle"
    BY DEF FirstInv, EvenWindows
  <1>1. CASE UNCHANGED vars
    BY <1>1 DEF vars, FirstInv, EvenWindows, LastSlot, LastRight
  <1>2. CASE Plot
    <2>1. /\ pc' = "begin" /\ runs' = runs + 1
          /\ UNCHANGED <<data, ck, synced, mem>>
      BY <1>2 DEF Plot
    <2>2. runs' <= 1 => runs = 0 /\ runs' # 0
      BY <1>r, <2>1
    <2>3. runs' <= 1 => ck["A"] = 0
      BY <2>2 DEF FirstInv, EvenWindows
    <2>4. runs' <= 1 => EvenWindows'
      BY <2>1, <2>2, <2>3 DEF EvenWindows
    <2>5. runs' <= 1 => LastSlot'
      BY <1>v, <2>1, <2>3 DEF LastSlot
    <2> QED
      BY <1>r, <2>1, <2>4, <2>5 DEF FirstInv
  <1>3. CASE StopPlot
    BY <1>3 DEF StopPlot, FirstInv, EvenWindows, LastSlot, LastRight
  <1>4. CASE ReadCheckpoint
    <2>1. /\ pc = "begin" /\ start' = ck[map] /\ pc' = "window"
          /\ UNCHANGED <<data, ck, synced, mem, map, runs>>
      BY <1>4 DEF ReadCheckpoint
    <2>2. runs <= 1 => EvenWindows'
      BY <1>r, <1>z, <2>1 DEF FirstInv, EvenWindows
    <2>3. runs <= 1 => LastSlot'
      BY <1>v, <2>1 DEF FirstInv, EvenWindows, LastSlot, LastRight
    <2> QED
      BY <1>r, <2>1, <2>2, <2>3 DEF FirstInv
  <1>5. CASE Window
    <2>1. PICK avail \in Available :
            \/ /\ MemoryShort(map, start, avail)
               /\ pc' = "ended"
               /\ UNCHANGED <<end, slots>>
            \/ /\ ~MemoryShort(map, start, avail)
               /\ end' = start + CalcWindowSize(map, CacheLen(map, start, avail))
               /\ slots' = CacheSlots(map, CacheLen(map, start, avail))
               /\ pc' = "scan"
      BY <1>5 DEF Window
    <2>2. /\ pc = "window" /\ start < Units(map) /\ count' = 0
          /\ UNCHANGED <<data, ck, synced, mem, start, map, runs>>
      BY <1>5 DEF Window
    <2>3. CASE pc' = "ended"
      BY <1>r, <1>z, <2>2, <2>3, FirstQuiet
    <2>4. CASE pc' = "scan"
      <3> DEFINE w == CalcWindowSize("A", CacheLen("A", start, avail))
      <3>1. map = "A" => /\ start < Volume /\ end' = start + w
                         /\ w \in Nat /\ w % 2 = 0
        <4> SUFFICES ASSUME map = "A" PROVE start < Volume /\ end' = start + w
                                            /\ w \in Nat /\ w % 2 = 0
          OBVIOUS
        <4>1. start < Volume /\ start < Units("A")
          BY <2>2 DEF Units
        <4>2. end' = start + w /\ ~MemoryShort("A", start, avail)
          BY <2>1, <2>4
        <4>3. w % 2 = 0
          BY <1>s, <4>1, WindowEven
        <4>4. w \in Nat
          BY <1>s, <4>1, <4>2, WindowFits
        <4> QED
          BY <4>1, <4>2, <4>3, <4>4
      <3> HIDE DEF w
      <3>2. runs <= 1 => EvenWindows'
        <4>1. runs <= 1 /\ map = "A" => start % 2 = 0
          BY <2>2 DEF FirstInv, EvenWindows
        <4>2. runs <= 1 /\ map = "A" => end' % 2 = 0
          BY <1>s, <3>1, <4>1
        <4> QED
          BY <1>r, <1>z, <2>2, <2>4, <4>1, <4>2 DEF EvenWindows
      <3>3. runs <= 1 => LastSlot'
        BY <2>2, <2>4 DEF FirstInv, LastSlot, LastRight
      <3> QED
        BY <1>r, <2>2, <3>2, <3>3 DEF FirstInv
    <2> QED
      BY <2>1, <2>3, <2>4
  <1>6. CASE Scan
    <2>1. CASE stop
      BY <1>6, <1>r, <1>z, <2>1, FirstQuiet DEF Scan
    <2>2. CASE ~stop
      <3>1. /\ pc = "scan" /\ pc' = "write" /\ count = 0
            /\ UNCHANGED <<data, ck, synced, mem, map, runs, start, end, count>>
        BY <1>6, <2>2 DEF Scan, PlotInv, WindowPlaced
      <3>2. runs <= 1 => EvenWindows'
        BY <3>1 DEF FirstInv, EvenWindows
      <3>3. map = "A" => start # Volume \/ end # Volume
        BY <1>s, <3>1 DEF PlotInv, WindowPlaced
      <3>4. map = "A" /\ end = Volume => start + count # Volume
        BY <1>s, <3>1, <3>3
      <3>5. runs <= 1 => LastSlot'
        BY <3>1, <3>4 DEF FirstInv, LastSlot, LastRight
      <3> QED
        BY <1>r, <3>1, <3>2, <3>5 DEF FirstInv
    <2> QED
      BY <2>1, <2>2
  <1>7. CASE WriteBlock
    <2>1. /\ pc = "write"
          /\ UNCHANGED <<ck, synced, mem, start, end, slots, map, runs>>
      BY <1>7 DEF WriteBlock
    <2>2. /\ \A m \in Maps : m # map => data'[m] = data[m]
          /\ count' \in Nat /\ count' > count /\ count' <= slots
          /\ pc' = "write" \/ (pc' = "sync" /\ count' = slots)
      BY <1>7, BlockWritten
    <2>3. runs <= 1 => EvenWindows'
      BY <2>1, <2>2 DEF FirstInv, EvenWindows
    <2>4. CASE map # "A"
      <3>1. data'["A"] = data["A"]
        BY <2>2, <2>4 DEF Maps
      <3>2. runs <= 1 => LastSlot'
        BY <2>1, <2>4, <3>1 DEF FirstInv, LastSlot, LastRight
      <3> QED
        BY <1>r, <2>1, <2>3, <3>2 DEF FirstInv
    <2>5. CASE map = "A"
      <3>1. /\ start <= end /\ end <= Volume /\ end - start <= slots
            /\ start + slots <= Volume
            /\ start < end \/ start = Volume - 1
            /\ ck["A"] <= start \/ start = Volume - 1
        BY <1>s, <2>1, <2>5 DEF PlotInv, WindowPlaced, Units, SlotsPerUnit
      <3>2. end = Volume /\ start + count' = Volume => LastRight(data')
        <4> SUFFICES ASSUME end = Volume, start + count' = Volume
                     PROVE  data'["A"][Volume - 1] = RecordA(Volume - 1)
          BY DEF LastRight
        <4>1. \A i \in Slots :
                /\ start * SlotsPerUnit(map) + count <= i
                /\ i < start * SlotsPerUnit(map) + count'
                /\ i < end * SlotsPerUnit(map)
                => data'[map][i] = Computed(map, i)
          BY <1>7, BlockWritten
        <4>2. SlotsPerUnit(map) = 1
          BY <2>5 DEF SlotsPerUnit
        <4>3. start + count <= Volume - 1
          <5>1. /\ start \in Nat /\ count \in Nat /\ count' \in Nat /\ count' > count
                /\ start + count' = Volume
            BY <1>s, <2>2
          <5> QED
            BY <5>1
        <4>4. /\ start * SlotsPerUnit(map) + count <= Volume - 1
              /\ Volume - 1 < start * SlotsPerUnit(map) + count'
              /\ Volume - 1 < end * SlotsPerUnit(map)
          <5>1. /\ start \in Nat /\ Volume \in Nat /\ start + count' = Volume
                /\ end = Volume
            BY <1>s, <1>v
          <5> QED
            BY <4>2, <4>3, <5>1
        <4>5. data'[map][Volume - 1] = Computed(map, Volume - 1)
          BY <1>v, <4>1, <4>4
        <4> QED
          BY <2>5, <4>5 DEF Computed
      <3>3. pc' = "sync" /\ end = Volume => start + count' = Volume
        BY <1>s, <1>v, <2>2, <3>1
      <3>4. runs <= 1 => ck["A"] < Volume
        <4>1. runs <= 1 => start % 2 = 0
          BY <2>1, <2>5 DEF FirstInv, EvenWindows
        <4>2. start % 2 = 0 => start # Volume - 1
          BY <1>s, <1>v
        <4> QED
          BY <1>s, <1>v, <3>1, <4>1, <4>2
      <3>5. runs <= 1 => LastSlot'
        <4>1. /\ pc' \in {"write", "sync"} /\ start' = start /\ end' = end
              /\ runs <= 1 => ck'["A"] # Volume
          BY <1>s, <1>v, <2>1, <2>2, <3>4
        <4>2. pc' = "write" /\ end = Volume /\ start + count' = Volume => LastRight(data')
          BY <3>2
        <4>3. pc' = "sync" /\ end = Volume => LastRight(data')
          BY <3>2, <3>3
        <4> QED
          BY <4>1, <4>2, <4>3 DEF LastSlot
      <3> QED
        BY <1>r, <2>1, <2>3, <3>5 DEF FirstInv
    <2> QED
      BY <2>4, <2>5
  <1>8. CASE WriteAborts
    BY <1>8, <1>r, <1>z, FirstQuiet DEF WriteAborts
  <1>9. CASE Sync
    <2>1. /\ pc = "sync" /\ pc' = "check"
          /\ UNCHANGED <<data, ck, mem, start, end, count, map, runs>>
      BY <1>9 DEF Sync
    <2>2. synced'["A"] = synced["A"] \/ synced'["A"] = data["A"]
      BY <1>9, <1>s, SyncKeeps DEF Sync, Maps
    <2>3. map = "A" => synced'["A"] = data["A"]
      BY <1>9, <1>s, SyncKeeps DEF Sync
    <2>4. runs <= 1 => EvenWindows'
      BY <2>1 DEF FirstInv, EvenWindows
    <2>5. runs <= 1 => LastSlot'
      BY <2>1, <2>2, <2>3 DEF FirstInv, LastSlot, LastRight
    <2> QED
      BY <1>r, <2>1, <2>4, <2>5 DEF FirstInv
  <1>10. CASE Checkpoint
    <2>1. /\ pc = "check" /\ pc' = "checkSync"
          /\ mem' = [mem EXCEPT ![map] = start + 1]
          /\ ck' = [ck EXCEPT ![map] = start + 1]
          /\ UNCHANGED <<data, synced, start, end, count, map, runs>>
      BY <1>10 DEF Checkpoint, UpdateCheckpoint
    <2>2. mem' = ck'
      BY <1>r, <2>1
    <2>3. runs <= 1 => EvenWindows'
      BY <1>z, <2>1 DEF FirstInv, EvenWindows
    <2>4. CASE map # "A"
      <3>1. ck'["A"] = ck["A"]
        BY <1>s, <2>1, <2>4 DEF Maps
      <3>2. runs <= 1 => LastSlot'
        BY <2>1, <2>4, <3>1 DEF FirstInv, LastSlot, LastRight
      <3> QED
        BY <1>r, <2>1, <2>2, <2>3, <3>2 DEF FirstInv
    <2>5. CASE map = "A"
      <3>1. ck'["A"] = start + 1
        BY <1>s, <2>1, <2>5 DEF Maps
      <3>2. runs <= 1 => ck'["A"] # Volume
        <4>1. runs <= 1 => start % 2 = 0
          BY <2>1, <2>5 DEF FirstInv, EvenWindows
        <4> QED
          BY <1>s, <1>v, <3>1, <4>1
      <3>3. runs <= 1 => LastSlot'
        BY <2>1, <3>2 DEF FirstInv, LastSlot, LastRight
      <3> QED
        BY <1>r, <2>1, <2>2, <2>3, <3>3 DEF FirstInv
    <2> QED
      BY <2>4, <2>5
  <1>11. CASE CheckpointSync
    <2>1. /\ pc = "checkSync" /\ pc' = "window" /\ start' = end
          /\ UNCHANGED <<data, ck, mem, end, count, map, runs>>
      BY <1>11 DEF CheckpointSync
    <2>2. synced'["A"] = synced["A"] \/ synced'["A"] = data["A"]
      BY <1>11, <1>s, SyncKeeps DEF CheckpointSync, Maps
    <2>3. runs <= 1 => EvenWindows'
      BY <1>z, <2>1 DEF FirstInv, EvenWindows
    <2>4. runs <= 1 => LastSlot'
      BY <2>1, <2>2 DEF FirstInv, LastSlot, LastRight
    <2> QED
      BY <1>r, <2>1, <2>3, <2>4 DEF FirstInv
  <1>12. CASE MapDone
    <2>1. /\ pc = "window" /\ pc' = "lastSync" /\ start >= Units(map)
          /\ mem' = [mem EXCEPT ![map] = Units(map)]
          /\ ck' = [ck EXCEPT ![map] = Units(map)]
          /\ UNCHANGED <<data, synced, map, runs>>
      BY <1>12 DEF MapDone, UpdateCheckpoint
    <2>2. mem' = ck'
      BY <1>r, <2>1
    <2>3. runs <= 1 => EvenWindows'
      BY <1>z, <2>1 DEF FirstInv, EvenWindows
    <2>4. ck'["A"] = Volume => ck["A"] = Volume \/ (map = "A" /\ start = Volume)
      <3>1. CASE map = "A"
        BY <1>s, <1>v, <2>1, <3>1 DEF Units
      <3>2. CASE map # "A"
        BY <1>s, <2>1, <3>2 DEF Maps
      <3> QED
        BY <3>1, <3>2
    <2>5. runs <= 1 => LastSlot'
      BY <2>1, <2>4 DEF FirstInv, LastSlot, LastRight
    <2> QED
      BY <1>r, <2>1, <2>2, <2>3, <2>5 DEF FirstInv
  <1>13. CASE LastSync
    <2>1. /\ pc = "lastSync" /\ SyncFile /\ UNCHANGED <<data, ck, mem, runs>>
          /\ \/ map' = "B" /\ pc' = "begin"
             \/ map' = map /\ pc' = "cleanup"
      BY <1>13 DEF LastSync
    <2>2. synced'["A"] = synced["A"] \/ synced'["A"] = data["A"]
      BY <1>s, <2>1, SyncKeeps DEF Maps
    <2>3. runs <= 1 => EvenWindows'
      BY <1>z, <2>1 DEF FirstInv, EvenWindows
    <2>4. runs <= 1 => LastSlot'
      BY <2>1, <2>2 DEF FirstInv, LastSlot, LastRight
    <2> QED
      BY <1>r, <2>1, <2>3, <2>4 DEF FirstInv
  <1>14. CASE Cleanup
    BY <1>14, <1>r, <1>z, FirstQuiet DEF Cleanup
  <1>15. CASE Return
    BY <1>15, <1>r, <1>z, FirstQuiet DEF Return
  <1>16. CASE Crash
    <2>1. /\ pc # "idle" /\ pc' = "idle" /\ synced' = data' /\ mem' = ck'
          /\ UNCHANGED <<map, runs>>
      BY <1>16 DEF Crash
    <2>2. \A i \in Slots : data'["A"][i] = data["A"][i] \/ data'["A"][i] = synced["A"][i]
      <3>1. /\ data' = [m \in Maps |-> [i \in Slots |-> data'[m][i]]]
            /\ \A m \in Maps, i \in Slots : \/ data'[m][i] = data[m][i]
                                            \/ data'[m][i] = synced[m][i]
        BY <1>16 DEF Crash
      <3> QED
        BY <3>1 DEF Maps
    <2>3. ck'["A"] = ck["A"] \/ ck'["A"] = syncCk["A"]
      BY <1>16 DEF Crash, Maps
    <2>4. ck'["A"] = Volume => ck["A"] = Volume
      BY <1>s, <1>v, <2>3
    <2>5. data'["A"][Volume - 1] = data["A"][Volume - 1]
          \/ data'["A"][Volume - 1] = synced["A"][Volume - 1]
      BY <1>v, <2>2
    <2>6. runs <= 1 => EvenWindows'
      BY <1>z, <2>1 DEF EvenWindows
    <2>7. runs <= 1 => LastSlot'
      BY <2>1, <2>4, <2>5 DEF FirstInv, LastSlot, LastRight
    <2> QED
      BY <1>r, <2>1, <2>6, <2>7 DEF FirstInv
  <1> QED
    BY <1>1, <1>2, <1>3, <1>4, <1>5, <1>6, <1>7, <1>8, <1>9, <1>10, <1>11, <1>12,
       <1>13, <1>14, <1>15, <1>16
    DEF Next, PlotStep

\* The invariant of the first run holds of every reachable state.
THEOREM FirstInvariant == Spec => []FirstInv
  BY InitFirstInv, NextFirstInv, PlotInvariant, PTL DEF Spec

-----------------------------------------------------------------------------
(* What is read and looked up in a finished plot.                          *)

\* A set of numbers that is not empty has a least element.
LEMMA Least ==
  ASSUME NEW T \in SUBSET Nat, T # {}
  PROVE  \E n \in T : \A k \in T : n <= k
  <1> DEFINE R == OpToRel(<, Nat)
  <1>1. PICK n \in T : \A k \in T : ~(<<k, n>> \in R)
    <2>1. IsWellFoundedOn(R, Nat)
      BY NatLessThanWellFounded
    <2> QED
      BY <2>1, WFMin
  <1>2. \A k \in T : ~(k < n)
    BY <1>1 DEF OpToRel
  <1> QED
    BY <1>2

\* The largest element of a bounded set is one of it.
LEMMA MaxIn ==
  ASSUME NEW b \in Nat, NEW T \in SUBSET (0 .. b), T # {}
  PROVE  Max(T) \in T
  <1> DEFINE U == {k \in Nat : k <= b /\ b - k \in T}
  <1>1. U \in SUBSET Nat /\ U # {}
    <2>1. PICK t \in T : TRUE
      OBVIOUS
    <2>2. b - t \in U
      <3>1. b - t \in Nat /\ b - t <= b /\ b - (b - t) = t
        BY <2>1
      <3> QED
        BY <2>1, <3>1
    <2> QED
      BY <2>2
  <1>2. PICK n \in U : \A k \in U : n <= k
    BY <1>1, Least
  <1>3. \A t \in T : b - n >= t
    <2> SUFFICES ASSUME NEW t \in T PROVE b - n >= t
      OBVIOUS
    <2>1. t \in 0 .. b /\ b - t \in Nat /\ b - t <= b /\ b - (b - t) = t
      OBVIOUS
    <2>2. b - t \in U
      BY <2>1
    <2>3. n <= b - t /\ n \in Nat
      BY <1>2, <2>2
    <2> QED
      BY <2>1, <2>3
  <1>4. b - n \in T
    BY <1>2
  <1> QED
    BY <1>3, <1>4 DEF Max

\* Quotient and remainder of k * r + j.
LEMMA DivMod ==
  ASSUME NEW k \in Nat, NEW r \in Nat \ {0}, NEW j \in 0 .. r - 1
  PROVE  (k * r + j) \div r = k /\ (k * r + j) % r = j
  <1> DEFINE len == k * r + j
             n   == len \div r
             q   == len % r
  <1>1. len \in Nat
    BY SMT
  <1>2. n \in Nat /\ q \in 0 .. r - 1 /\ len = r * n + q
    BY <1>1, Records
  <1>3. n <= k
    <2>1. k + 1 \in Nat /\ len < (k + 1) * r
      BY SMT
    <2> HIDE DEF n, q
    <2>2. ASSUME n > k PROVE FALSE
      <3>1. n - (k + 1) \in Nat
        BY <1>2, <2>2
      <3>2. r * (n - (k + 1)) >= 0
        BY <3>1, SMT
      <3> QED
        BY <1>2, <2>1, <3>2, SMT
    <2> QED
      BY <1>2, <2>2
  <1>4. n >= k
    BY <1>1, RecordsAtLeast
  <1>5. n = k
    BY <1>2, <1>3, <1>4
  <1>6. q = j
    <2>1. r * n = k * r
      BY <1>5, SMT
    <2>2. k * r \in Nat
      BY SMT
    <2> HIDE DEF n, q
    <2> QED
      BY <1>2, <2>1, <2>2 DEF len
  <1> QED
    BY <1>5, <1>6

\* Where the buffer never ends inside a pair, the y-th Read hands out the y-th
\* pair of the file.
LEMMA ReadsInPlace ==
  ASSUME WholePairs, NEW a, NEW y \in 0 .. Half - 1, NEW j \in 0 .. PairSize - 1
  PROVE  ReadByte(a, y, j) = FileByte(a, y * PairSize + j)
  <1> DEFINE R == ReadsPerBuffer
             d == y \div R
             m == y % R
  <1>p. PairSize \in Nat \ {0} /\ y \in Nat /\ Half \in Nat /\ BufSize \in Nat \ {0}
    BY DEF PairSize
  <1>1. CASE BufSize % PairSize = 0
    <2> DEFINE q == BufSize \div PairSize
    <2>1. q \in Nat /\ BufSize = q * PairSize
      <3>1. q \in Nat /\ BufSize = PairSize * q + (BufSize % PairSize)
        BY <1>p, Records
      <3> HIDE DEF q
      <3>2. BufSize = PairSize * q
        <4>1. PairSize * q \in Nat
          BY <1>p, <3>1, SMT
        <4> QED
          BY <1>1, <3>1, <4>1
      <3> QED
        BY <1>p, <3>1, <3>2, SMT
    <2> HIDE DEF q
    <2>2. R = q
      <3>1. PairSize - 1 \in 0 .. PairSize - 1
        BY <1>p
      <3>2. (q * PairSize + (PairSize - 1)) \div PairSize = q
        BY <1>p, <2>1, <3>1, DivMod
      <3>3. BufSize + PairSize - 1 = q * PairSize + (PairSize - 1)
        <4>1. q * PairSize \in Nat
          BY <1>p, <2>1
        <4> QED
          BY <1>p, <2>1, <4>1
      <3> QED
        BY <3>2, <3>3 DEF ReadsPerBuffer
    <2>3. q # 0
      BY <1>p, <2>1, SMT
    <2>4. d \in Nat /\ m \in 0 .. q - 1 /\ y = q * d + m
      BY <1>p, <2>1, <2>2, <2>3, Records
    <2> HIDE DEF d, m, R
    <2>5. m * PairSize + j < BufSize
      <3>1. (q - 1) - m \in Nat
        BY <2>1, <2>4
      <3>2. ((q - 1) - m) * PairSize >= 0
        BY <1>p, <3>1, SMT
      <3>3. ((q - 1) - m) * PairSize = q * PairSize - PairSize - m * PairSize
        BY <1>p, <2>1, <2>4, SMT
      <3>4. q * PairSize \in Nat /\ m * PairSize \in Nat
        BY <1>p, <2>1, <2>4, SMT
      <3> HIDE DEF PairSize
      <3> QED
        BY <1>p, <2>1, <3>2, <3>3, <3>4
    <2>6. d * BufSize + m * PairSize = y * PairSize
      <3>1. d * BufSize = d * (q * PairSize)
        BY <2>1
      <3>2. d * (q * PairSize) + m * PairSize = (q * d + m) * PairSize
        BY <1>p, <2>1, <2>4, SMT
      <3> QED
        BY <2>4, <3>1, <3>2
    <2> QED
      BY <2>5, <2>6 DEF ReadByte, d, m, R
  <1>2. CASE BufSize >= Half * PairSize
    <2>1. R \in Nat /\ R >= Half
      <3>1. BufSize + PairSize - 1 \in Nat /\ BufSize + PairSize - 1 >= Half * PairSize
        <4>1. Half * PairSize \in Nat
          BY <1>p, SMT
        <4> HIDE DEF PairSize
        <4> QED
          BY <1>p, <1>2, <4>1
      <3>2. (BufSize + PairSize - 1) \div PairSize \in Nat
        BY <1>p, <3>1, Records
      <3>3. (BufSize + PairSize - 1) \div PairSize >= Half
        BY <1>p, <3>1, RecordsAtLeast
      <3> QED
        BY <3>2, <3>3 DEF ReadsPerBuffer
    <2>2. d = 0 /\ m = y
      <3>1. y \in 0 .. R - 1 /\ R \in Nat \ {0}
        BY <1>p, <2>1
      <3> HIDE DEF R
      <3>2. (0 * R + y) \div R = 0 /\ (0 * R + y) % R = y
        BY <3>1, DivMod
      <3>3. 0 * R + y = y
        BY <1>p, <3>1, SMT
      <3> QED
        BY <3>2, <3>3 DEF R
    <2> HIDE DEF d, m, R
    <2>3. y * PairSize + j < BufSize
      <3>1. (Half - 1) - y \in Nat
        BY <1>p
      <3>2. ((Half - 1) - y) * PairSize >= 0
        BY <1>p, <3>1, SMT
      <3>3. ((Half - 1) - y) * PairSize = Half * PairSize - PairSize - y * PairSize
        BY <1>p, SMT
      <3>4. Half * PairSize \in Nat /\ y * PairSize \in Nat
        BY <1>p, SMT
      <3> HIDE DEF PairSize
      <3> QED
        BY <1>2, <1>p, <3>2, <3>3, <3>4
    <2>4. d * BufSize + m * PairSize = y * PairSize /\ m * PairSize = y * PairSize
      <3>1. y * PairSize \in Nat
        BY <1>p, SMT
      <3>2. d * BufSize = 0
        BY <1>p, <2>2, SMT
      <3> QED
        BY <2>2, <3>1, <3>2
    <2> QED
      BY <2>3, <2>4 DEF ReadByte, d, m, R
  <1> QED
    BY <1>1, <1>2 DEF WholePairs

\* The two records of the y-th Read are those of slots 2y and 2y + 1.
LEMMA ReadsRecords ==
  ASSUME WholePairs, NEW a \in [Slots -> Value], NEW y \in 0 .. Half - 1
  PROVE  ReadRecord(a, y, 0) = a[2 * y] /\ ReadRecord(a, y, RecordSize) = a[2 * y + 1]
  <1> DEFINE D == 0 .. RecordSize - 1
  <1>s. 2 * y \in Slots /\ 2 * y + 1 \in Slots
    BY DEF Slots, Volume
  <1>e. ASSUME NEW v \in Value PROVE Encode(v) = [j \in D |-> Encode(v)[j]]
    BY Zenon DEF Encode
  <1>1. ASSUME NEW h \in {0, 1}
        PROVE  ReadRecord(a, y, h * RecordSize) = a[2 * y + h]
    <2> DEFINE k == 2 * y + h
    <2>1. k \in Nat /\ k \in Slots /\ a[k] \in Value
      <3>1. k = 2 * y \/ k = 2 * y + 1
        OBVIOUS
      <3>2. k \in Slots
        BY <1>s, <3>1
      <3> HIDE DEF k
      <3>3. k \in Nat
        BY <3>2 DEF Slots
      <3> QED
        BY <3>2, <3>3
    <2>2. ASSUME NEW j \in D
          PROVE  ReadByte(a, y, h * RecordSize + j) = Encode(a[k])[j]
      <3>1. h * RecordSize + j \in 0 .. PairSize - 1
        BY DEF PairSize
      <3>2. y * PairSize + (h * RecordSize + j) = k * RecordSize + j
        <4>1. y * PairSize = (2 * y) * RecordSize
          BY SMT DEF PairSize
        <4>2. (2 * y) * RecordSize + h * RecordSize = (2 * y + h) * RecordSize
          BY SMT
        <4> QED
          BY <4>1, <4>2
      <3>3. ReadByte(a, y, h * RecordSize + j) = FileByte(a, k * RecordSize + j)
        BY <3>1, <3>2, ReadsInPlace
      <3> HIDE DEF k
      <3>4. (k * RecordSize + j) \div RecordSize = k /\ (k * RecordSize + j) % RecordSize = j
        BY <2>1, DivMod
      <3> QED
        BY <3>3, <3>4 DEF FileByte
    <2> HIDE DEF k
    <2>3. [j \in D |-> ReadByte(a, y, h * RecordSize + j)] = Encode(a[k])
      <3>1. [j \in D |-> ReadByte(a, y, h * RecordSize + j)] = [j \in D |-> Encode(a[k])[j]]
        BY <2>2
      <3> QED
        BY <1>e, <2>1, <3>1
    <2>4. ReadRecord(a, y, h * RecordSize) = Decode(Encode(a[k]))
      BY <2>3 DEF ReadRecord
    <2> QED
      BY <2>1, <2>4, RecordAssumption DEF k
  <1>2. 0 * RecordSize = 0 /\ 1 * RecordSize = RecordSize /\ 2 * y + 0 = 2 * y
    OBVIOUS
  <1>3. ReadRecord(a, y, 0 * RecordSize) = a[2 * y + 0]
    BY <1>1
  <1>4. ReadRecord(a, y, 1 * RecordSize) = a[2 * y + 1]
    BY <1>1
  <1> QED
    BY <1>2, <1>3, <1>4

\* A record is a value, and one that is not zero was set for its slot.
LEMMA RecordSet ==
  ASSUME NEW i \in Slots
  PROVE  /\ RecordA(i) \in Value
         /\ RecordA(i) # 0 => SlotOf(P[RecordA(i)]) = i
  <1>1. CASE Preimages(i) = {}
    BY <1>1 DEF RecordA, Value, Volume
  <1>2. CASE Preimages(i) # {}
    <2>1. Preimages(i) \in SUBSET (0 .. Volume - 1) /\ Volume - 1 \in Nat
      BY DEF Preimages, Value, Volume
    <2>2. Max(Preimages(i)) \in Preimages(i)
      BY <1>2, <2>1, MaxIn
    <2> QED
      BY <1>2, <2>2 DEF RecordA, Preimages
  <1> QED
    BY <1>1, <1>2

\* The value of which slot 2y or 2y + 1 holds a preimage.
LEMMA SlotsOfPair ==
  ASSUME NEW v \in Value, NEW y \in 0 .. Half - 1
  PROVE  /\ SlotOf(v) = 2 * y => v = y
         /\ SlotOf(v) = 2 * y + 1 => FlipValue(v) = y /\ v = FlipValue(y)
  <1>1. v \in Int /\ y \in Int /\ Half \in Int /\ 0 <= v /\ v < 2 * Half
        /\ 0 <= y /\ y < Half /\ Volume = 2 * Half
    BY DEF Value, Volume
  <1>2. CASE v < Half
    <2>1. SlotOf(v) = v * 2
      BY <1>2 DEF SlotOf
    <2> QED
      BY <1>1, <2>1
  <1>3. CASE ~(v < Half)
    <2>1. SlotOf(v) = (Volume - 1 - v) * 2 + 1
      BY <1>3 DEF SlotOf, FlipValue
    <2>2. SlotOf(v) # 2 * y
      BY <1>1, <2>1
    <2>3. SlotOf(v) = 2 * y + 1 => Volume - 1 - v = y /\ v = Volume - 1 - y
      BY <1>1, <2>1
    <2> QED
      BY <2>2, <2>3 DEF FlipValue
  <1> QED
    BY <1>2, <1>3

\* From a whole HashMapA a proof is stored for every z that a pair proves.
LEMMA ProofsFound ==
  ASSUME WholePairs, NEW a, a = [i \in Slots |-> RecordA(i)],
         NEW z \in Value, NEW y \in 0 .. Half - 1,
         Proves(PairA(y), z) \/ Proves(<<PairA(y)[2], PairA(y)[1]>>, z)
  PROVE  Proves(ProofB(a, z), z)
  <1>a. a \in [Slots -> Value]
    BY RecordSet
  <1>c. ASSUME NEW u \in 0 .. Half - 1, NEW n \in {2 * u, 2 * u + 1}
        PROVE  /\ n \in 0 .. Volume - 1
               /\ Candidate(a, n) = IF n = 2 * u THEN PairA(u)
                                                 ELSE <<PairA(u)[2], PairA(u)[1]>>
    <2>1. 2 * u \in Slots /\ 2 * u + 1 \in Slots
      BY DEF Slots, Volume
    <2>2. ReadRecord(a, u, 0) = RecordA(2 * u)
          /\ ReadRecord(a, u, RecordSize) = RecordA(2 * u + 1)
      BY <1>a, <2>1, ReadsRecords
    <2>3. n \div 2 = u /\ (n % 2 = 0 <=> n = 2 * u)
      OBVIOUS
    <2>4. n \in 0 .. Volume - 1
      BY <2>1 DEF Slots
    <2>5. Candidate(a, n) = IF n % 2 = 0 THEN <<RecordA(2 * u), RecordA(2 * u + 1)>>
                                         ELSE <<RecordA(2 * u + 1), RecordA(2 * u)>>
      BY <2>2, <2>3 DEF Candidate
    <2> QED
      BY <2>3, <2>4, <2>5 DEF PairA
  <1>1. Stored(a, z) # {}
    <2>1. CASE Proves(PairA(y), z)
      <3>1. 2 * y \in 0 .. Volume - 1 /\ Candidate(a, 2 * y) = PairA(y)
        BY <1>c
      <3>2. 2 * y \in Stored(a, z)
        BY <2>1, <3>1 DEF Stored, Proves
      <3> QED
        BY <3>2
    <2>2. CASE Proves(<<PairA(y)[2], PairA(y)[1]>>, z)
      <3>1. /\ 2 * y + 1 \in 0 .. Volume - 1
            /\ Candidate(a, 2 * y + 1) = <<PairA(y)[2], PairA(y)[1]>>
        <4>1. 2 * y + 1 # 2 * y
          OBVIOUS
        <4> QED
          BY <1>c, <4>1
      <3>2. 2 * y + 1 \in Stored(a, z)
        BY <2>2, <3>1 DEF Stored, Proves
      <3> QED
        BY <3>2
    <2> QED
      BY <2>1, <2>2
  <1> DEFINE n == Max(Stored(a, z))
             c == Candidate(a, n)
  <1>2. n \in Stored(a, z)
    <2>1. Stored(a, z) \in SUBSET (0 .. Volume - 1) /\ Volume - 1 \in Nat
      BY DEF Stored, Volume
    <2> QED
      BY <1>1, <2>1, MaxIn
  <1> HIDE DEF n
  <1>3. n \in 0 .. Volume - 1 /\ c[1] # 0 /\ c[2] # 0 /\ FB[c] = z
    BY <1>2 DEF Stored
  <1>4. PICK u \in 0 .. Half - 1 : n \in {2 * u, 2 * u + 1}
    <2>1. n \div 2 \in 0 .. Half - 1 /\ n \in {2 * (n \div 2), 2 * (n \div 2) + 1}
      BY <1>3 DEF Volume
    <2> QED
      BY <2>1
  <1> DEFINE x  == RecordA(2 * u)
             xp == RecordA(2 * u + 1)
  <1>5. c = <<x, xp>> \/ c = <<xp, x>>
    BY <1>4, <1>c DEF PairA
  <1>6. x # 0 /\ xp # 0
    BY <1>3, <1>5
  <1>7. P[x] = u /\ P[xp] = FlipValue(u) /\ FlipValue(P[xp]) = u
    <2>1. 2 * u \in Slots /\ 2 * u + 1 \in Slots
      BY DEF Slots, Volume
    <2>2. /\ x \in Value /\ xp \in Value
          /\ SlotOf(P[x]) = 2 * u /\ SlotOf(P[xp]) = 2 * u + 1
      BY <1>6, <2>1, RecordSet
    <2>3. P[x] \in Value /\ P[xp] \in Value
      BY <2>2
    <2> QED
      BY <2>2, <2>3, SlotsOfPair
  <1>8. P[c[1]] = FlipValue(P[c[2]])
    <2> HIDE DEF c, x, xp
    <2>1. CASE c = <<x, xp>>
      BY <1>7, <2>1
    <2>2. CASE c = <<xp, x>>
      BY <1>7, <2>2
    <2> QED
      BY <1>5, <2>1, <2>2
  <1> QED
    BY <1>1, <1>3, <1>8 DEF Proves, ProofB, n

\* Where the buffer never ends inside a pair, a first plot that is finished is
\* whole, whatever memory it found and wherever it was cut: HashMapA has every
\* record, the last one too, and HashMapB a proof that verifies for each z that a
\* pair of records proves.
THEOREM FirstPlotIsComplete ==
  ASSUME WholePairs
  PROVE  Spec => []PlotComplete
  <1>1. PlotInv /\ FirstInv => CheckpointComplete
    <2> SUFFICES ASSUME PlotInv, FirstInv, runs = 1, ck["A"] = Volume,
                        NEW i \in Slots
                 PROVE  data["A"][i] = RecordA(i)
      BY DEF CheckpointComplete
    <2>1. CASE i = Volume - 1
      BY <2>1 DEF FirstInv, LastSlot, LastRight
    <2>2. CASE i # Volume - 1
      <3>1. i < ck["A"] * SlotsPerUnit("A")
        BY DEF Slots, SlotsPerUnit, Volume
      <3>2. Right(data, "A", i)
        BY <3>1 DEF PlotInv, BelowCheckpoint, Maps
      <3> QED
        BY <2>2, <3>2 DEF Right
    <2> QED
      BY <2>1, <2>2
  <1>2. PlotInv /\ FirstInv => ProofsComplete
    <2> SUFFICES ASSUME PlotInv, FirstInv, runs = 1, mem["B"] = Half,
                        NEW z \in Value, NEW y \in 0 .. Half - 1,
                        Proves(PairA(y), z) \/ Proves(<<PairA(y)[2], PairA(y)[1]>>, z)
                 PROVE  Proves(data["B"][z], z)
      BY DEF ProofsComplete
    <2>1. ck["B"] = Half /\ ck["A"] = Volume
      <3>1. ck["B"] = Half
        BY DEF FirstInv
      <3> QED
        BY <3>1 DEF PlotInv, StableA
    <2>2. data["A"] = [i \in Slots |-> RecordA(i)]
      <3>1. \A i \in Slots : data["A"][i] = RecordA(i)
        BY <1>1, <2>1 DEF CheckpointComplete
      <3>2. data["A"] = [i \in Slots |-> data["A"][i]]
        BY DEF PlotInv, Shape, Maps
      <3> QED
        BY <3>1, <3>2
    <2>3. data["B"][z] = ProofB(data["A"], z)
      <3>1. z \in Slots /\ z < ck["B"] * SlotsPerUnit("B")
        BY <2>1 DEF Slots, Value, SlotsPerUnit, Volume
      <3>2. Right(data, "B", z)
        BY <3>1 DEF PlotInv, BelowCheckpoint, Maps
      <3> QED
        BY <3>2 DEF Right
    <2>4. Proves(ProofB(data["A"], z), z)
      BY <2>2, ProofsFound
    <2> QED
      BY <2>3, <2>4
  <1>3. PlotInv /\ FirstInv => PlotComplete
    BY <1>1, <1>2 DEF PlotComplete
  <1> QED
    BY <1>3, PlotInvariant, FirstInvariant, PTL

=============================================================================
