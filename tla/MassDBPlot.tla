------------------------------ MODULE MassDBPlot ------------------------------
(***************************************************************************)
(* Plotting one MassDB v1 (poc/engine/massdb/massdb.v1): executePlot makes *)
(* HashMapA (prePlotWork), from it HashMapB (plotWork), window by window,  *)
(* and records its checkpoints in the files.  A plot may be stopped, fail, *)
(* or be cut by a crash of the process or of the machine, and is resumed   *)
(* from the checkpoints.                                                   *)
(*                                                                         *)
(* A slot of a map holds a record (A: x for a value y) or a proof (B: the  *)
(* pair x, x' for a value z).  The checkpoint of A counts slots, that of B *)
(* pairs of slots.                                                         *)
(***************************************************************************)
EXTENDS Integers, FiniteSetsExt

CONSTANTS
    Half,        \* 1 << (bl - 1)
    P,           \* pocutil.P for the database's public key
    FB,          \* pocutil.FB for the database's public key
    RecordSize,  \* bytes of a record
    ByteBase,    \* how many values a byte has
    MaxMem,      \* maxPrePlotMem and maxPlotMem
    MinMem,      \* minPrePlotMem and minPlotMem
    Available,   \* what mem.VirtualMemory may report
    BufSize,     \* minMapABufMem, the size of the reader's buffer
    MaxRuns      \* bound: executePlot goroutines started

Volume == 2 * Half

Value == 0 .. Volume - 1

ASSUME ConstantsAssumption ==
    /\ Half \in Nat \ {0}
    /\ P \in [Value -> Value]
    /\ FB \in [Value \X Value -> Value]
    /\ RecordSize \in Nat \ {0}
    /\ ByteBase \in Nat \ {0}
    /\ MaxMem \in Nat /\ MinMem \in Nat \ {0}
    /\ Available \subseteq Nat
    /\ BufSize \in Nat \ {0}
    /\ MaxRuns \in Nat

\* a window is never empty for lack of memory; a buffer holds a pair of records
ASSUME SizesAssumption ==
    /\ MinMem >= 4 * RecordSize /\ MaxMem >= MinMem
    /\ BufSize >= 2 * RecordSize

VARIABLES
    data,    \* the proof data of each map file, as a reader sees it
    ck,      \* the checkpoint in the header of each map file
    synced,  \* the part of `data' that survives a crash of the machine
    syncCk,  \* the part of `ck' that does
    mem,     \* hm.checkpoint
    hasA,    \* HashMapA # nil
    fileA,   \* whether the file of HashMapA exists
    pc,      \* where executePlot is
    map,     \* the map it works on: A in prePlotWork, B in plotWork
    start,   \* startPoint
    end,     \* endPoint
    slots,   \* how many slots the cache covers
    count,   \* how many of them are written
    stop,    \* whether stopPlotCh is closed
    runs     \* executePlot goroutines started

vars == <<data, ck, synced, syncCk, mem, hasA, fileA, pc, map, start, end,
          slots, count, stop, runs>>

fileVars   == <<data, ck, synced, syncCk, mem, hasA, fileA>>
windowVars == <<start, end, slots, count>>

-----------------------------------------------------------------------------
(* Files.                                                                  *)

Maps == {"A", "B"}

Slots == 0 .. Volume - 1

Entry(m) == IF m = "A" THEN Value ELSE Value \X Value

Zero(m) == IF m = "A" THEN 0 ELSE <<0, 0>>

\* what a checkpoint counts: slots of A, pairs of slots of B
Units(m) == IF m = "A" THEN Volume ELSE Half

SlotsPerUnit(m) == IF m = "A" THEN 1 ELSE 2

RecordsPerUnit(m) == IF m = "A" THEN 1 ELSE 4

TypeOK ==
    /\ data["A"] \in [Slots -> Value] /\ data["B"] \in [Slots -> Value \X Value]
    /\ synced["A"] \in [Slots -> Value] /\ synced["B"] \in [Slots -> Value \X Value]
    /\ \A f \in {ck, syncCk, mem} : f \in [Maps -> Nat] /\ f["A"] <= Volume /\ f["B"] <= Half
    /\ hasA \in BOOLEAN /\ fileA \in BOOLEAN
    /\ pc \in {"idle", "begin", "window", "scan", "write", "sync", "check",
               "checkSync", "lastSync", "cleanup", "ended"}
    /\ map \in Maps
    /\ start \in 0 .. Units(map) /\ end \in 0 .. Units(map)
    /\ slots \in 0 .. Volume /\ count \in 0 .. slots
    /\ stop \in BOOLEAN
    /\ runs \in 0 .. MaxRuns

-----------------------------------------------------------------------------
(* HashMapA: for x = 0, 1, ... the slot of y = P(x) is set to x, so that   *)
(* the largest preimage stays.  A slot nobody sets holds zero bytes.       *)

FlipValue(y) == Volume - 1 - y

SlotOf(y) == IF y < Half THEN y * 2 ELSE FlipValue(y) * 2 + 1

Preimages(i) == {x \in Value : SlotOf(P[x]) = i}

RecordA(i) == IF Preimages(i) = {} THEN 0 ELSE Max(Preimages(i))

(* HashMapB: plotWork reads HashMapA pair by pair through a bufio.Reader.  *)
(* Its Read hands out what the buffer still holds: where the buffer ends   *)
(* inside a pair, bs keeps the rest of the pair before, and the next Read  *)
(* starts in the middle.                                                   *)

PairSize == 2 * RecordSize

ReadsPerBuffer == (BufSize + PairSize - 1) \div PairSize

\* a record's bytes, the least significant first, and the value they stand for
Encode(v) == [j \in 0 .. RecordSize - 1 |-> (v \div ByteBase ^ j) % ByteBase]

Decode(bs) == MapThenSumSet(LAMBDA j : bs[j] * ByteBase ^ j, DOMAIN bs) % Volume

\* a record has bytes enough for a value
ASSUME RecordAssumption == \A v \in Value : Decode(Encode(v)) = v

FileByte(a, o) == Encode(a[o \div RecordSize])[o % RecordSize]

\* byte j of bs after the y-th Read
ReadByte(a, y, j) ==
    LET inBuf == (y % ReadsPerBuffer) * PairSize
        base  == (y \div ReadsPerBuffer) * BufSize
    IN  IF inBuf + j < BufSize THEN FileByte(a, base + inBuf + j)
                               ELSE FileByte(a, base + inBuf - PairSize + j)

\* the record at bs[from:], decoded
ReadRecord(a, y, from) ==
    Decode([j \in 0 .. RecordSize - 1 |-> ReadByte(a, y, from + j)])

\* (x, xp) and (xp, x) of the y-th Read, in the order they are stored
Candidate(a, n) ==
    LET x  == ReadRecord(a, n \div 2, 0)
        xp == ReadRecord(a, n \div 2, RecordSize)
    IN  IF n % 2 = 0 THEN <<x, xp>> ELSE <<xp, x>>

\* mutant: a record that was never set is taken for one
StoredUnchecked(a, z) ==
    {n \in 0 .. Volume - 1 : FB[Candidate(a, n)] = z}

Stored(a, z) ==
    {n \in 0 .. Volume - 1 : LET c == Candidate(a, n) IN
                               c[1] # 0 /\ c[2] # 0 /\ FB[c] = z}

ProofB(a, z) == IF Stored(a, z) = {} THEN <<0, 0>> ELSE Candidate(a, Max(Stored(a, z)))

\* what a window computes for slot i of map m
Computed(m, i) == IF m = "A" THEN RecordA(i) ELSE ProofB(data["A"], i)

-----------------------------------------------------------------------------
(* Windows.                                                                *)

\* makeAvailableMemory, in records of the cache; None if memory is short
Required(m, s) ==
    LET bytes == (Units(m) - s) * RecordsPerUnit(m) * RecordSize
    IN  IF bytes > MaxMem THEN MaxMem ELSE bytes

MemoryShort(m, s, avail) == Required(m, s) > avail /\ avail < MinMem

CacheLen(m, s, avail) ==
    IF Required(m, s) > avail THEN (avail \div MinMem) * MinMem ELSE Required(m, s)

\* calcWindowSize: an even number of slots of A, whole units of B
CalcWindowSize(m, len) ==
    LET n == len \div RecordSize
    IN  IF m = "A" THEN n - (n % 2) ELSE n \div 4

\* slots the cache covers, the last one perhaps in part
CacheSlots(m, len) ==
    LET n    == len \div RecordSize
        part == IF len % RecordSize = 0 THEN 0 ELSE 1
    IN  IF m = "A" THEN n + part ELSE (n + part + 1) \div 2

-----------------------------------------------------------------------------
(* executePlot.                                                            *)

\* Plot of a database that is not plotted
Plot ==
    /\ pc = "idle" /\ hasA /\ runs < MaxRuns
    /\ pc' = "begin" /\ map' = "A"
    /\ start' = 0 /\ end' = 0 /\ slots' = 0 /\ count' = 0
    /\ stop' = FALSE
    /\ runs' = runs + 1
    /\ UNCHANGED fileVars

StopPlot ==
    /\ pc # "idle" /\ ~stop
    /\ stop' = TRUE
    /\ UNCHANGED <<fileVars, windowVars, pc, map, runs>>

\* mutant: a resumed plot starts again
ReadCheckpointForgets ==
    /\ pc = "begin"
    /\ start' = 0
    /\ pc' = "window"
    /\ UNCHANGED <<fileVars, end, slots, count, map, stop, runs>>

ReadCheckpoint ==
    /\ pc = "begin"
    /\ start' = ck[map]
    /\ pc' = "window"
    /\ UNCHANGED <<fileVars, end, slots, count, map, stop, runs>>

\* ensureCacheMemory and the window's end
Window ==
    /\ pc = "window" /\ start < Units(map)
    /\ \E avail \in Available :
         \/ /\ MemoryShort(map, start, avail)
            /\ pc' = "ended"
            /\ UNCHANGED <<end, slots>>
         \/ /\ ~MemoryShort(map, start, avail)
            /\ LET len == CacheLen(map, start, avail) IN
                 /\ end' = start + CalcWindowSize(map, len)
                 /\ slots' = CacheSlots(map, len)
            /\ pc' = "scan"
    /\ count' = 0
    /\ UNCHANGED <<fileVars, start, map, stop, runs>>

\* the computation looks at stopPlotCh, at its start at least
Scan ==
    /\ pc = "scan"
    /\ pc' = IF stop THEN "ended" ELSE "write"
    /\ UNCHANGED <<fileVars, windowVars, map, stop, runs>>

\* WriteToWriter writes the cache block by block (k slots), zeros past `end'
WriteBlock ==
    /\ pc = "write" /\ ~stop
    /\ \E k \in 1 .. slots - count :
         LET base == start * SlotsPerUnit(map) + count IN
         /\ data' = [data EXCEPT ![map] =
                       [i \in Slots |-> IF i \in base .. base + k - 1
                                        THEN IF i < end * SlotsPerUnit(map)
                                             THEN Computed(map, i) ELSE Zero(map)
                                        ELSE data[map][i]]]
         /\ count' = count + k
         /\ pc' = IF count + k = slots THEN "sync" ELSE "write"
    /\ UNCHANGED <<ck, synced, syncCk, mem, hasA, fileA, start, end, slots, map,
                   stop, runs>>

\* stopped between two blocks, or a write failed
WriteAborts ==
    /\ pc = "write"
    /\ pc' = "ended"
    /\ UNCHANGED <<fileVars, windowVars, map, stop, runs>>

\* data.Sync()
SyncFile ==
    /\ synced' = [synced EXCEPT ![map] = data[map]]
    /\ syncCk' = [syncCk EXCEPT ![map] = ck[map]]

\* mutant: no Sync between the data and its checkpoint
SyncSkipped ==
    /\ pc = "sync"
    /\ pc' = "check"
    /\ UNCHANGED <<fileVars, windowVars, map, stop, runs>>

Sync ==
    /\ pc = "sync"
    /\ SyncFile
    /\ pc' = "check"
    /\ UNCHANGED <<data, ck, mem, hasA, fileA, windowVars, map, stop, runs>>

\* hm.checkpoint = c; UpdateCheckpoint()
UpdateCheckpoint(c) ==
    /\ mem' = [mem EXCEPT ![map] = c]
    /\ ck' = [ck EXCEPT ![map] = c]

Checkpoint ==
    /\ pc = "check"
    /\ UpdateCheckpoint(start + 1)
    /\ pc' = "checkSync"
    /\ UNCHANGED <<data, synced, syncCk, hasA, fileA, windowVars, map, stop,
                   runs>>

\* mutant: startPoint is not moved on
CheckpointSyncStays ==
    /\ pc = "checkSync"
    /\ SyncFile
    /\ pc' = "window"
    /\ UNCHANGED <<data, ck, mem, hasA, fileA, windowVars, map, stop, runs>>

CheckpointSync ==
    /\ pc = "checkSync"
    /\ SyncFile
    /\ start' = end
    /\ pc' = "window"
    /\ UNCHANGED <<data, ck, mem, hasA, fileA, end, slots, count, map, stop,
                   runs>>

\* past the last window
MapDone ==
    /\ pc = "window" /\ start >= Units(map)
    /\ UpdateCheckpoint(Units(map))
    /\ pc' = "lastSync"
    /\ UNCHANGED <<data, synced, syncCk, hasA, fileA, windowVars, map, stop,
                   runs>>

\* mutant: the complete checkpoint is not synced
LastSyncSkipped ==
    /\ pc = "lastSync"
    /\ IF map = "A"
       THEN /\ map' = "B" /\ pc' = "begin"
            /\ start' = 0 /\ end' = 0 /\ slots' = 0 /\ count' = 0
       ELSE /\ pc' = "cleanup"
            /\ UNCHANGED <<map, windowVars>>
    /\ UNCHANGED <<fileVars, stop, runs>>

\* prePlotWork is followed by plotWork
LastSync ==
    /\ pc = "lastSync"
    /\ SyncFile
    /\ IF map = "A"
       THEN /\ map' = "B" /\ pc' = "begin"
            /\ start' = 0 /\ end' = 0 /\ slots' = 0 /\ count' = 0
       ELSE /\ pc' = "cleanup"
            /\ UNCHANGED <<map, windowVars>>
    /\ UNCHANGED <<data, ck, mem, hasA, fileA, stop, runs>>

Cleanup ==
    /\ pc = "cleanup"
    /\ hasA' = FALSE /\ fileA' = FALSE
    /\ pc' = "ended"
    /\ UNCHANGED <<data, ck, synced, syncCk, mem, windowVars, map, stop, runs>>

\* the deferred function: result sent, plotting cleared
Return ==
    /\ pc = "ended"
    /\ pc' = "idle"
    /\ UNCHANGED <<fileVars, windowVars, map, stop, runs>>

\* The process dies, or the whole machine: any part of what was written since
\* the last Sync may be lost.  NewWorkSpace then opens the database again.  (A
\* crash between two plots leaves no other files than one right before Return.)
Crash ==
    /\ pc # "idle"
    /\ \E kept \in SUBSET {e \in Maps \X Slots : data[e[1]][e[2]] # synced[e[1]][e[2]]} :
         data' = [m \in Maps |-> [i \in Slots |-> IF <<m, i>> \in kept THEN data[m][i]
                                                  ELSE synced[m][i]]]
    /\ \E kept \in SUBSET Maps :
         ck' = [m \in Maps |-> IF m \in kept THEN ck[m] ELSE syncCk[m]]
    /\ synced' = data' /\ syncCk' = ck'
    /\ mem' = ck'
    /\ hasA' = (ck'["B"] < Half)
    /\ pc' = "idle"
    /\ UNCHANGED <<fileA, windowVars, map, stop, runs>>

-----------------------------------------------------------------------------
\* CreateDB: nothing but the headers; a slot that is not written yet counts as
\* zero bytes, and no slot of A is read before all are written
Init ==
    /\ data = [m \in Maps |-> [i \in Slots |-> Zero(m)]]
    /\ synced = data
    /\ ck = [m \in Maps |-> 0] /\ syncCk = ck /\ mem = ck
    /\ hasA = TRUE /\ fileA = TRUE
    /\ pc = "idle" /\ map = "A"
    /\ start = 0 /\ end = 0 /\ slots = 0 /\ count = 0
    /\ stop = FALSE
    /\ runs = 0

PlotStep ==
    \/ ReadCheckpoint
    \/ Window
    \/ Scan
    \/ WriteBlock
    \/ WriteAborts
    \/ Sync
    \/ Checkpoint
    \/ CheckpointSync
    \/ MapDone
    \/ LastSync
    \/ Cleanup
    \/ Return

Next == Plot \/ StopPlot \/ PlotStep \/ Crash

Spec == Init /\ [][Next]_vars

\* the goroutine runs; whether it is stopped, fails or crashes is open
FairSpec == Spec /\ WF_vars(PlotStep)

-----------------------------------------------------------------------------
(* Properties.                                                             *)

\* The order "data, Sync, checkpoint, Sync" of the windows: whatever a crash
\* leaves, every slot below a checkpoint holds what the plot computes for it
\* (the last slot of A is CheckpointComplete's).
CheckpointSound ==
    /\ \A i \in Slots \ {Volume - 1} :
         i < syncCk["A"] => synced["A"][i] = RecordA(i)
    /\ \A i \in Slots :
         i < 2 * syncCk["B"] => synced["B"][i] = ProofB(synced["A"], i)

\* HashMapA is given up only for a complete HashMapB: wherever the crash comes,
\* OpenDB finds the files it needs.
SourceKept == fileA \/ syncCk["B"] = Half

\* A checkpoint never goes back, in a plot, over a stop or over a crash.
CheckpointGrows == [][\A m \in Maps : syncCk'[m] >= syncCk[m]]_vars

\* the pair of records of HashMapA for y and ~y, as the file format has it
PairA(y) == <<RecordA(2 * y), RecordA(2 * y + 1)>>

\* GetProof for the challenge z finds c: VerifyProof takes it
Proves(c, z) ==
    /\ c[1] # 0 /\ c[2] # 0
    /\ P[c[1]] = FlipValue(P[c[2]])
    /\ FB[c] = z

\* "Z(`*`) -> X, Value X for `Z = *`": once the database is plotted it has a
\* proof that verifies for every z that a pair of records of HashMapA proves.
\* (In the first run of executePlot: a resumed one may leave the last record out.)
ProofsComplete ==
    runs = 1 /\ mem["B"] = Half =>
      \A z \in Value :
        (\E y \in 0 .. Half - 1 : \/ Proves(PairA(y), z)
                                  \/ Proves(<<PairA(y)[2], PairA(y)[1]>>, z))
          => Proves(data["B"][z], z)

\* "Y(`~s`) -> X, Value X for `Y = ~s`": with a complete checkpoint all records
\* of HashMapA are there, the last one too, in the first run.
CheckpointComplete ==
    runs = 1 /\ ck["A"] = Volume => \A i \in Slots : data["A"][i] = RecordA(i)

\* The reader's buffer never ends inside a pair.
WholePairs == BufSize % PairSize = 0 \/ BufSize >= Half * PairSize

\* A finished first plot is whole: its records, and with them its proofs.
PlotComplete == ProofsComplete /\ CheckpointComplete

\* A plot that starts from nothing ends, also one that is stopped, fails or dies.
PlotEnds == pc = "begin" /\ runs = 1 ~> pc = "idle"

-----------------------------------------------------------------------------
(* The inductive invariant behind CheckpointSound, SourceKept and          *)
(* CheckpointGrows.                                                        *)

\* inside a window
InWindow == pc \in {"scan", "write", "sync", "check", "checkSync"}

\* slot i of map m holds, in the files f, what the plot computes for it
Right(f, m, i) ==
    IF m = "A" THEN i = Volume - 1 \/ f["A"][i] = RecordA(i)
               ELSE f["B"][i] = ProofB(f["A"], i)

Shape ==
    /\ data = [m \in Maps |-> [i \in Slots |-> data[m][i]]]
    /\ synced = [m \in Maps |-> [i \in Slots |-> synced[m][i]]]
    /\ ck \in [Maps -> Nat] /\ syncCk \in [Maps -> Nat]
    /\ \A m \in Maps : syncCk[m] <= ck[m] /\ ck[m] <= Units(m)
    /\ map \in Maps
    /\ start \in Nat /\ end \in Nat /\ slots \in Nat /\ count \in Nat
    /\ start <= Units(map)

\* The window lies past the checkpoint and inside the map.  The exception: with
\* one slot of A left the window is empty, and is taken again and again.
WindowPlaced ==
    /\ pc = "window" \/ InWindow =>
         \/ ck[map] <= start
         \/ map = "A" /\ start = Volume - 1
         \/ pc = "checkSync"
    /\ InWindow =>
         /\ start <= end /\ end <= Units(map)
         /\ (end - start) * SlotsPerUnit(map) <= slots
         /\ start * SlotsPerUnit(map) + slots <= Volume
         /\ count <= slots
         /\ start < end \/ (map = "A" /\ start = Volume - 1)
    /\ pc = "scan" => count = 0
    /\ pc = "checkSync" => ck[map] = start + 1

\* both what is written and what is durable is right below the checkpoint
BelowCheckpoint ==
    \A m \in Maps, i \in Slots :
      i < ck[m] * SlotsPerUnit(m) => Right(data, m, i) /\ Right(synced, m, i)

\* and below the window; in the window as far as it is written and synced
BelowWindow ==
    /\ pc = "window" \/ InWindow =>
         \A i \in Slots : i < start * SlotsPerUnit(map) =>
           Right(data, map, i) /\ Right(synced, map, i)
    /\ pc = "write" =>
         \A i \in Slots :
           i < start * SlotsPerUnit(map) + count /\ i < end * SlotsPerUnit(map)
             => Right(data, map, i)
    /\ pc \in {"sync", "check", "checkSync"} =>
         \A i \in Slots : i < end * SlotsPerUnit(map) => Right(data, map, i)
    /\ pc \in {"check", "checkSync"} =>
         \A i \in Slots : i < end * SlotsPerUnit(map) => Right(synced, map, i)

\* HashMapB is made from a complete HashMapA that does not change any more
StableA ==
    /\ (pc \notin {"idle", "ended"} /\ map = "B") \/ ck["B"] > 0 =>
         ck["A"] = Volume /\ syncCk["A"] = Volume /\ data["A"] = synced["A"]
    /\ map = "A" /\ ck["B"] > 0 =>
         ~InWindow /\ (pc = "window" => start = Volume)

\* the file of HashMapA goes last
KeptA ==
    /\ ~fileA => ~hasA /\ syncCk["B"] = Half /\ pc \in {"idle", "ended"}
    /\ pc = "cleanup" => syncCk["B"] = Half
    /\ pc \in {"lastSync", "cleanup"} => ck[map] = Units(map)
    /\ pc = "cleanup" => map = "B"

PlotInv ==
    /\ Shape
    /\ WindowPlaced
    /\ BelowCheckpoint
    /\ BelowWindow
    /\ StableA
    /\ KeptA


\* The inductive invariant behind PlotComplete: in the first run the windows of
\* HashMapA begin and end at even slots, so that no checkpoint `start + 1' is
\* complete and the last slot is written like every other.
LastRight(f) == f["A"][Volume - 1] = RecordA(Volume - 1)

EvenWindows ==
    /\ runs = 0 => pc = "idle" /\ map = "A"
    /\ runs = 0 \/ (pc = "begin" /\ map = "A") => ck["A"] = 0
    /\ map = "A" /\ (pc = "window" \/ InWindow) => start % 2 = 0
    /\ map = "A" /\ InWindow => end % 2 = 0

LastSlot ==
    /\ ck["A"] = Volume \/ (map = "A" /\ pc = "window" /\ start = Volume)
         => LastRight(data) /\ LastRight(synced)
    /\ map = "A" /\ InWindow /\ end = Volume =>
         /\ pc = "write" /\ start + count = Volume => LastRight(data)
         /\ pc \in {"sync", "check", "checkSync"} => LastRight(data)
         /\ pc \in {"check", "checkSync"} => LastRight(synced)

FirstInv ==
    /\ mem = ck
    /\ runs \in Nat
    /\ runs <= 1 => EvenWindows /\ LastSlot

=============================================================================
