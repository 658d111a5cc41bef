------------------------------ MODULE MapFile ------------------------------
(***************************************************************************)
(* The two files of a v1 plot (poc/engine/massdb/massdb.v1): their header, *)
(* where a record lies, and how CreateDB and OpenDB get a database from    *)
(* what is on the disk, a crash in CreateDB included.  A file is a set of  *)
(* at most one byte sequence.  What fills the files is module MassDBPlot.  *)
(***************************************************************************)
EXTENDS Bytes

CONSTANTS
    MapByte,      \* values of a byte
    FileCode,     \* massdb.DBFileCode
    Uint64Len,    \* bytes of the version and of the checkpoint: 8
    PubKeys,      \* the byte sequences that are public keys, all of one length
    PubKeyHash(_),  \* pocutil.PubKeyHash
    LenMetaInfo   \* 4096

MapTypeHashMapA == 1
MapTypeHashMapB == 2
DbVersion == 1

LenPubKey == Len(CHOOSE k \in PubKeys : TRUE)
LenPubKeyHash == Len(PubKeyHash(CHOOSE k \in PubKeys : TRUE))

\* Pos*: one field after the other
Positions ==
    LET v == Len(FileCode)
        b == v + Uint64Len
        h == b + 2 + Uint64Len
    IN  [FileCode |-> 0, Version |-> v, BitLength |-> b, Type |-> b + 1,
         Checkpoint |-> b + 2, PubKeyHash |-> h, PubKey |-> h + LenPubKeyHash]

\* Len*
Lengths == [FileCode |-> Len(FileCode), Version |-> Uint64Len, BitLength |-> 1, Type |-> 1,
            Checkpoint |-> Uint64Len, PubKeyHash |-> LenPubKeyHash, PubKey |-> LenPubKey]

PutUint64(n) == Reverse(Pad(Digits(n, MapByte), Uint64Len))
Uint64(bytes) == Number(Reverse(bytes), MapByte)

\* copy(bytes[Pos:], v), WriteAt(v, Pos)
CopyAt(bytes, pos, v) ==
    [i \in DOMAIN bytes |-> IF i - pos \in DOMAIN v THEN v[i - pos] ELSE bytes[i]]

FieldOf(bytes, f) == SubSeq(bytes, Positions[f] + 1, Positions[f] + Lengths[f])

\* createMapFile's header
HeaderBytes(typ, bl, pk) ==
    LET v == [FileCode |-> FileCode, Version |-> PutUint64(DbVersion), BitLength |-> <<bl>>,
              Type |-> <<typ>>, Checkpoint |-> PutUint64(0), PubKeyHash |-> PubKeyHash(pk),
              PubKey |-> pk]
        order == <<"FileCode", "Version", "BitLength", "Type", "Checkpoint", "PubKeyHash", "PubKey">>
    IN  FoldLeft(LAMBDA bytes, f : CopyAt(bytes, Positions[f], v[f]), Zeros(LenMetaInfo), order)

\* createMapFile: an existing file stays, whatever it is
CreateHashMap(file, typ, bl, pk) == IF file = {} THEN {HeaderBytes(typ, bl, pk)} ELSE file

\* UpdateCheckpoint
WriteCheckpoint(file, n) == {CopyAt(bytes, Positions.Checkpoint, PutUint64(n)) : bytes \in file}

\* loadHashMap, LoadHashMap: the header's checks; the file must be of the map's type
LoadHashMap(file, typ) ==
    IF \E bytes \in file :
         /\ Len(bytes) >= LenMetaInfo
         /\ FieldOf(bytes, "FileCode") = FileCode
         /\ Uint64(FieldOf(bytes, "Version")) = DbVersion
         /\ FieldOf(bytes, "PubKey") \in PubKeys
         /\ FieldOf(bytes, "PubKeyHash") = PubKeyHash(FieldOf(bytes, "PubKey"))
         /\ FieldOf(bytes, "Type") = <<typ>>
    THEN LET bytes == CHOOSE bytes \in file : TRUE
         IN  OK([bl |-> FieldOf(bytes, "BitLength")[1], pk |-> FieldOf(bytes, "PubKey"),
                 checkpoint |-> Uint64(FieldOf(bytes, "Checkpoint"))])
    ELSE Err

-----------------------------------------------------------------------------
(* Records *)

RecordSize(bl) == (bl + 7) \div 8

\* HashMapA.Get, HashMapA.Set: a value and its flip are neighbours
PositionA(y, bl) ==
    LenMetaInfo + RecordSize(bl) * (IF y < 2^bl \div 2 THEN 2 * y ELSE 2 * (2^bl - 1 - y) + 1)

\* HashMapB.Get, HashMapB.Set: two records to a value
PositionB(z, bl) == LenMetaInfo + 2 * RecordSize(bl) * z

\* calcSize
CalcSize(typ, bl) == LenMetaInfo + RecordSize(bl) * 2^bl * (IF typ = MapTypeHashMapA THEN 1 ELSE 2)

-----------------------------------------------------------------------------
(* Databases *)

LoadA(disk) == LoadHashMap(disk.a, MapTypeHashMapA)
LoadB(disk) == LoadHashMap(disk.b, MapTypeHashMapB)

PlottedB(hm) == hm.checkpoint >= 2^hm.bl \div 2

CreateFiles(disk, bl, pk) == [a |-> CreateHashMap(disk.a, MapTypeHashMapA, bl, pk),
                              b |-> CreateHashMap(disk.b, MapTypeHashMapB, bl, pk)]

\* CreateDB, once its files are there
CreateDB(disk) ==
    IF LoadA(disk).ok /\ LoadB(disk).ok
    THEN OK([a |-> {LoadA(disk).value}, b |-> LoadB(disk).value]) ELSE Err

\* a crash of CreateDB: before a file, or between opening it and its header
CutDisks(disk, bl, pk) ==
    LET made == CreateFiles(disk, bl, pk)
        cut(file) == IF file = {} THEN {<<>>} ELSE file
    IN  {disk, [disk EXCEPT !.a = cut(@)], [disk EXCEPT !.a = made.a],
         [a |-> made.a, b |-> cut(disk.b)]}

\* Bug: HashMapA is always wanted
OpenDBWithA(disk) == CreateDB(disk)

\* OpenDB: HashMapA only of a plot that is not finished
OpenDB(disk) ==
    IF ~LoadB(disk).ok THEN Err
    ELSE IF PlottedB(LoadB(disk).value) THEN OK([a |-> {}, b |-> LoadB(disk).value])
    ELSE CreateDB(disk)

\* Bug: a pair of records counts once
ProgressUnweighted(db) ==
    IF db.a = {} THEN [plotted |-> TRUE, done |-> 100, of |-> 100]
    ELSE [plotted |-> PlottedB(db.b),
          done |-> (CHOOSE hm \in db.a : TRUE).checkpoint + db.b.checkpoint, of |-> 2 * 2^db.b.bl]

\* MassDBV1.Progress: the records that are there, of those there will be; all if HashMapA is
\* not open
Progress(db) ==
    IF db.a = {} THEN [plotted |-> TRUE, done |-> 100, of |-> 100]
    ELSE [plotted |-> PlottedB(db.b),
          done |-> (CHOOSE hm \in db.a : TRUE).checkpoint + 2 * db.b.checkpoint,
          of |-> 2 * 2^db.b.bl]

\* MassDBV1.Delete: the files that are open, but for those the system does not let go
DeleteDB(disk, db, stuck) ==
    LET open == IF db.a = {} THEN {"b"} ELSE {"a", "b"}
    IN  [disk |-> [f \in {"a", "b"} |-> IF f \in open \ stuck THEN {} ELSE disk[f]],
         ok |-> open \cap stuck = {}]
=============================================================================
