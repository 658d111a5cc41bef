----------------------------- MODULE WalletDB -----------------------------
(***************************************************************************)
(* The wallet's database: buckets in buckets, kept by the leveldb driver   *)
(* (src/poc/wallet/db/ldb/leveldb.go) and the rocksdb driver               *)
(* (src/poc/wallet/db/rdb/rocksdb.go) in one flat, ordered key space.      *)
(*                                                                         *)
(* A flat key is a string: <depth>_<names>_<key> for a pair, and           *)
(* b_<depth>_<names> for a bucket.  Keys and names are sequences of        *)
(* characters here, because what is in question is whether the prefixes    *)
(* the drivers iterate over ever meet a key of another bucket: a key may   *)
(* hold the separator and a name may begin with another.                   *)
(*                                                                         *)
(* A write transaction is exclusive (OpenTransaction of leveldb waits for  *)
(* the one before; every Update of the wallet runs under its locks).  A    *)
(* bucket is used while it exists, as every caller does.                   *)
(***************************************************************************)
EXTENDS Naturals, Sequences, SequencesExt, FiniteSets

CONSTANTS
    Chars,          \* the characters of names and keys
    Names,          \* what callers name a bucket: sequences of characters
    Keys,           \* keys: sequences of characters
    Values,
    MaxDepth,       \* how deep buckets are nested
    MaxEntries      \* bound on the entries of the flat store

Sep == "_"
Depths == <<"1", "2", "3", "4", "5", "6", "7", "8", "9">>

ASSUME WalletDBAssumption ==
    /\ {"b", Sep} \cup Range(Depths) \subseteq Chars
    /\ Names \subseteq Seq(Chars) /\ IsFiniteSet(Names)
    /\ Keys \subseteq Seq(Chars)
    /\ MaxDepth \in 1 .. 8

VARIABLES
    driver,         \* which driver the process uses
    flat,           \* the committed store: flat keys to values
    tx              \* the open write transaction's view of it: one store or none

storeVars == <<driver, flat, tx>>

IsValidBucketName(n) == Len(n) > 0 /\ Sep \notin Range(n)

ValidNames == {n \in Names : IsValidBucketName(n)}
BucketPaths == UNION {[1 .. d -> ValidNames] : d \in 1 .. MaxDepth}

---------------------------------------------------------------------------
(* Flat keys.                                                              *)

\* joinBucketPath over the names of a bucket, with a depth in front.
JoinBucketPath(depth, p) ==
    LET join[i \in 0 .. Len(p)] ==
            IF i = 0 THEN <<Depths[depth]>> ELSE join[i - 1] \o <<Sep>> \o p[i]
    IN  join[Len(p)]

\* The path, the index entry, and what the entries one level down begin with.
PathOf == [p \in BucketPaths |-> JoinBucketPath(Len(p), p)]
IndexOf == [p \in BucketPaths |-> <<"b", Sep>> \o PathOf[p]]
ChildrenOf ==
    [p \in BucketPaths |-> <<"b", Sep>> \o JoinBucketPath(Len(p) + 1, p) \o <<Sep>>]

InnerKey(p, k) == PathOf[p] \o <<Sep>> \o k
BucketKey(p) == IndexOf[p]

\* subBucket: the depth in front is replaced, the name comes last.
SubBucket(p, n) == Append(p, n)

\* What an iterator over a prefix yields.
Iterate(s, prefix) == {f \in DOMAIN s : IsPrefix(prefix, f)}

Has(s, f) == f \in DOMAIN s
Store(s, f, v) == [g \in DOMAIN s \cup {f} |-> IF g = f THEN v ELSE s[g]]
Drop(s, F) == [g \in DOMAIN s \ F |-> s[g]]

---------------------------------------------------------------------------
(* Reads, of a transaction's view or of the committed store.               *)

FetchBucket(s, p) == Has(s, BucketKey(p))
Bucket(s, p, n) ==
    /\ IsValidBucketName(n)
    /\ Has(s, BucketKey(SubBucket(p, n)))
    /\ s[BucketKey(SubBucket(p, n))] = n

\* The value of a key, if it has one; an empty key has none.
Get(s, p, k) == {s[f] : f \in {g \in {InnerKey(p, k)} : Len(k) > 0 /\ Has(s, g)}}

\* BucketNames lists the index entries one level down.
BucketNames(s, p) == {s[f] : f \in Iterate(s, ChildrenOf[p])}
TopLevelNames(s) == {s[f] : f \in Iterate(s, <<"b", Sep, "1", Sep>>)}

\* GetByPrefix cuts the bucket's path off the keys it finds.
GetByPrefix(s, p, prefix) ==
    LET path == InnerKey(p, <<>>)
    IN  {<<SubSeq(f, Len(path) + 1, Len(f)), s[f]>> : f \in Iterate(s, InnerKey(p, prefix))}

---------------------------------------------------------------------------
(* Writes.                                                                 *)

\* Mutant of ClearKeys: the prefix lacks the separator at its end.
ClearKeysOpen(s, p) == Iterate(s, PathOf[p])

ClearKeys(s, p) == Iterate(s, PathOf[p] \o <<Sep>>)

\* A deletion on its way through the store s: the keys that are gone, and
\* those in leveldb's batch, which is written at the end.
Deletions(s) ==
    LET keys == DOMAIN s \cup {IndexOf[p] : p \in BucketPaths}
    IN  [gone : SUBSET keys, batch : SUBSET keys]

\* What the transaction reads meanwhile.
Left(s, a) == Drop(s, a.gone)

\* The end of deleteBucket: the pairs, which leveldb puts in the batch, and
\* the index entry.
DropBucket(d, s, p, a) ==
    LET pairs == ClearKeys(Left(s, a), p)
    IN  IF d = "leveldb"
        THEN [gone |-> a.gone \cup {BucketKey(p)}, batch |-> a.batch \cup pairs]
        ELSE [gone |-> a.gone \cup pairs \cup {BucketKey(p)}, batch |-> a.batch]

\* The loop of deleteBucket over the names it listed: a sub bucket that is
\* still there is deleted, which is what inner does one level down.
DeleteSub(s, p, n, inner, a) ==
    IF Bucket(Left(s, a), p, n) THEN inner[SubBucket(p, n)][a] ELSE a

DeleteSubs(s, p, names, inner, a) ==
    LET after[i \in 0 .. Len(names)] ==
            IF i = 0 THEN a ELSE DeleteSub(s, p, names[i], inner, after[i - 1])
    IN  after[Len(names)]

\* deleteBucket of both drivers, for buckets over h more levels.
deleteBucket(d, s) ==
    LET level[h \in 0 .. MaxDepth] ==
            [p \in BucketPaths |-> [a \in Deletions(s) |->
                DropBucket(d, s, p,
                    IF h = 0 THEN a
                    ELSE DeleteSubs(s, p, SetToSeq(BucketNames(Left(s, a), p)), level[h - 1], a))]]
    IN  level

StoreInit ==
    /\ driver \in {"leveldb", "rocksdb"}
    /\ flat = <<>>
    /\ tx = {}

BeginTx ==
    /\ tx = {}
    /\ tx' = {flat}
    /\ UNCHANGED <<driver, flat>>

Fits(s) == Cardinality(DOMAIN s) < MaxEntries
Writes(s) == tx' = {s} /\ UNCHANGED <<driver, flat>>

\* leveldb puts the entry of an existing bucket again, rocksdb refuses.
CreateTopLevelBucket(s, n) ==
    /\ IsValidBucketName(n)
    /\ Has(s, BucketKey(<<n>>)) => driver = "leveldb"
    /\ Has(s, BucketKey(<<n>>)) \/ Fits(s)
    /\ Writes(Store(s, BucketKey(<<n>>), n))

NewBucket(s, p, n) ==
    /\ Fits(s)
    /\ IsValidBucketName(n)
    /\ ~Has(s, BucketKey(SubBucket(p, n)))
    /\ Writes(Store(s, BucketKey(SubBucket(p, n)), n))

\* An empty key is refused; so is an empty value, which Values has not.
Put(s, p, k, v) ==
    /\ Fits(s) \/ Get(s, p, k) # {}
    /\ Len(k) > 0
    /\ Writes(Store(s, InnerKey(p, k), v))

Delete(s, p, k) == Writes(IF Len(k) = 0 THEN s ELSE Drop(s, {InnerKey(p, k)}))

Clear(s, p) == Writes(Drop(s, ClearKeys(s, p)))

\* A bucket that is not there is no error and no change; leveldb writes the
\* batch last.
DeleteBucket(s, p, n) ==
    /\ Bucket(s, p, n)
    /\ LET a == deleteBucket(driver, s)[MaxDepth - Len(p) - 1][SubBucket(p, n)]
                                       [[gone |-> {}, batch |-> {}]]
       IN  Writes(Drop(Drop(s, a.gone), a.batch))

\* Update commits when its function returns nil.
Commit ==
    /\ tx # {}
    /\ \E s \in tx : flat' = s
    /\ tx' = {}
    /\ UNCHANGED driver

\* It returned an error, Commit failed, or the process ended.
Rollback ==
    /\ tx # {}
    /\ tx' = {}
    /\ UNCHANGED <<driver, flat>>

StoreNext ==
    \/ BeginTx
    \/ \E s \in tx :
          \/ \E n \in Names : CreateTopLevelBucket(s, n)
          \/ \E p \in {q \in BucketPaths : FetchBucket(s, q)} :
                \/ \E n \in Names :
                      Len(p) < MaxDepth /\ (NewBucket(s, p, n) \/ DeleteBucket(s, p, n))
                \/ \E k \in Keys : Delete(s, p, k) \/ \E v \in Values : Put(s, p, k, v)
                \/ Clear(s, p)
    \/ Commit
    \/ Rollback

StoreSpec == StoreInit /\ [][StoreNext]_storeVars

---------------------------------------------------------------------------
(* Properties.                                                             *)

\* The tree a store stands for: what FetchBucket and Get answer.
TreeOf(s) ==
    [buckets |-> {p \in BucketPaths : FetchBucket(s, p)},
     data |-> {e \in BucketPaths \X Keys \X Values : e[3] \in Get(s, e[1], e[2])}]

Tree == INSTANCE WalletTree WITH
    Paths <- BucketPaths,
    committed <- TreeOf(flat),
    working <- {TreeOf(s) : s \in tx}

\* Both drivers implement the tree of buckets: no call on one bucket changes
\* another, a deleted bucket leaves nothing behind, a new one begins empty,
\* and nothing of a transaction is seen before it commits.
IsTree == Tree!TreeSpec

\* The calls that list by prefix list exactly the bucket's own entries, cut
\* at the right place, although all buckets share one key space.
ListsExact ==
    \A s \in {flat} \cup tx :
        /\ TopLevelNames(s) = {n \in ValidNames : FetchBucket(s, <<n>>)}
        /\ \A p \in {q \in BucketPaths : FetchBucket(s, q)} :
              /\ Len(p) < MaxDepth =>
                    BucketNames(s, p) = {n \in ValidNames : FetchBucket(s, SubBucket(p, n))}
              /\ \A x \in Keys \cup {<<>>} :
                    GetByPrefix(s, p, x) =
                        {e \in Keys \X Values : IsPrefix(x, e[1]) /\ e[2] \in Get(s, p, e[1])}

\* Both drivers are the tree of buckets, for what they change and for what
\* they list.
Implements == IsTree /\ []ListsExact
===========================================================================
