----------------------------- MODULE MCHandlers -----------------------------
(***************************************************************************)
(* What one request does: the capacity handlers against the keeper         *)
(* (Configure), the questions about the ledger (Ledger), a stream of       *)
(* proofs (ProofStream), and the conversions in which values leave and     *)
(* enter the process (Amounts, Mnemonic, HDKeys, KeyRows, MapFile, Codec,  *)
(* Bindings, Spaces).  A behaviour is about one of them, job.kind, and leaves the  *)
(* others at rest; a conversion is its input.                              *)
(***************************************************************************)
EXTENDS Configure, Ledger, ProofStream, Amounts, Mnemonic, HDKeys, KeyRows, MapFile, Codec,
        Bindings, Spaces, TLC

CONSTANTS d1, d2, t1, t2

VARIABLE job

-----------------------------------------------------------------------------
(* Constants *)

\* d1 and d2 hold a file of an old name, the same space twice, a stranger's file and a larger
\* one, which no size counts
MCDisk == (d1 :> 42) @@ (d2 :> 25)
File(o, b, d, n) == [ord |-> o, bl |-> b, dir |-> d, name |-> n, whole |-> TRUE]
MCFound == {File(1, 24, d1, "old"), File(2, 26, d2, "new"), File(2, 26, d1, "new"),
            File(0, 24, d2, "new"), File(1, 30, d1, "new")}
MCCfgDirs == <<d1>>
MCWants == {(24 :> 2) @@ (26 :> 1)}
MCPaths == { << [dir |-> d1, size |-> 19], [dir |-> d2, size |-> 22] >>,
             << [dir |-> d2, size |-> 6], [dir |-> d2, size |-> 9] >>,
             << [dir |-> d1, size |-> 2] >> }

\* t2 spends an output of t1, which binds, and one of the first coinbase
MCIns == (t1 :> {<<1, 1>>}) @@ (t2 :> {<<t1, 1>>, <<1, 2>>})
MCBinding == <<t1, 1>>
MCSpecial == {MCBinding}

\* hashes that tell lengths and positions apart
MCHashByte(data) == FoldLeft(LAMBDA a, d : (a * 3 + d + 1) % 11, 0, data) % 4
MCMac(chainCode, data) ==
    LET h == FoldLeft(LAMBDA a, d : (a * 5 + d + 1) % 101, chainCode, data)
    IN  [il |-> h % 14, chain |-> h % 3]

MCFileCode == <<5, 0>>
MCPubKeys == {<<2, 1, 0>>, <<3, 0, 7>>}
MCPubKeyHash(pk) == <<(pk[1] + pk[2]) % 4, pk[3]>>

MCTie(key) == IF key = 1 THEN 2 ELSE 0

-----------------------------------------------------------------------------
(* Inputs of the conversions *)

Entropies == [1..4 -> 0..3] \cup [1..8 -> {0, 1, 3}]
Sentences == [1..3 -> 0..8] \cup [1..6 -> {0, 1, 7}] \cup [1..4 -> {0, 7}]
Secrets == [1..2 -> 0..3]

Hashes == [1..2 -> {0, 3}]
G1s == [1..1 -> 1..2]
AQuality(s, k, b, e) == [space_id |-> s, public_key |-> k, pool_public_key |-> <<3>>, index |-> 1,
    k_size |-> 2, quality |-> b, plot_id |-> <<0, 1>>, slot |-> 5, error |-> e]
AProof(s, k, c, p) == [space_id |-> s, challenge |-> c, pool_public_key |-> <<3>>,
    plot_public_key |-> k, k_size |-> 2, proof |-> p, public_key |-> k, ordinal |-> "unknown"]
Qualities == {AQuality(s, k, b, "nil") : s \in 1..2, k \in G1s, b \in {<<>>, <<0>>, <<2, 1>>}}
Messages ==
    {<<1, [task_id |-> i, challenge |-> c, parent_target |-> t, parent_slot |-> 2, height |-> 3]>> :
        i \in Hashes, c \in Hashes, t \in 0..20}
    \cup {<<2, [task_id |-> i, qualities |-> l]>> :
        i \in Hashes, l \in {<<>>} \cup {<<a>> : a \in Qualities} \cup {<<a, b>> : a, b \in Qualities}}
    \cup {<<3, [task_id |-> i, height |-> 1, space_id |-> s, challenge |-> c, index |-> 2]>> :
        i \in Hashes, c \in Hashes, s \in 1..2}
    \cup {<<4, [task_id |-> i, proof |-> AProof(s, k, c, p)]>> :
        i \in Hashes, s \in 1..2, k \in G1s, c \in Hashes, p \in {<<>>, <<0, 2>>}}
    \cup {<<5, [task_id |-> i, height |-> 1, space_id |-> s, hash |-> c]>> :
        i \in Hashes, c \in Hashes, s \in 1..2}
    \cup {<<6, [task_id |-> i, space_id |-> s, hash |-> c, signature |-> <<0, 3, 1>>]>> :
        i \in Hashes, c \in Hashes, s \in 1..2}

Blobs == UNION {[1..n -> {0, 3}] : n \in 0..3}
Accounts == [pub : Blobs, priv : Blobs, next : Blobs, account : {0, 1, 7}, index : {0, 5, 15}]

\* a plot's files: the checkpoints it came to, and whether HashMapA was removed
MapFiles == [bl : {2, 3, 9}, pk : MCPubKeys, a : {0, 4, 8, 511}, b : {0, 1, 2, 4, 256},
             gone : BOOLEAN]

PlotFiles == {f \in [plot : {1, 2}, regular : BOOLEAN, named : BOOLEAN, whole : BOOLEAN,
                     plotted : BOOLEAN] : (f.named => f.regular) /\ (f.plotted => f.whole)}
PlotDirs == {[ok |-> FALSE, files |-> <<>>], [ok |-> TRUE, files |-> <<>>]}
            \cup {[ok |-> TRUE, files |-> <<f>>] : f \in PlotFiles}
Lists == [dirs : [1..3 -> PlotDirs], owned : {{}, {1}, {1, 2}}, all : BOOLEAN]

\* what generateInitialIndex may come upon, in any order
FoundSpaces == {[key |-> k, ord |-> k, bl |-> b, state |-> st[1], using |-> st[2]] :
    k \in 1..2, b \in {24, 26},
    st \in {<<Registered, TRUE>>, <<Ready, FALSE>>, <<Mining, TRUE>>}}

About(kind, inputs) == \E in \in inputs : job = [kind |-> kind, in |-> in]

InitJob ==
    \/ \E kind \in {"configure", "ledger", "proofs"} : About(kind, {0})
    \/ About("amount", 0..(MaxAmount + 1))
    \/ About("entropy", Entropies)
    \/ About("sentence", Sentences)
    \/ About("key", Secrets)
    \/ About("message", Messages)
    \/ About("account", Accounts)
    \/ About("files", MapFiles)
    \/ About("list", Lists)
    \/ \E n \in 0..3 : About("spaces", [1..n -> FoundSpaces])

Init ==
    /\ ConfigureInit /\ LedgerInit /\ InitJob
    /\ StreamInit(IF job.kind = "proofs" THEN SUBSET ProofSpaces ELSE {{}})

Next ==
    \/ job.kind = "configure" /\ ConfigureNext /\ UNCHANGED <<ledgerVars, stream, job>>
    \/ job.kind = "ledger" /\ LedgerNext /\ UNCHANGED <<configureVars, stream, job>>
    \/ job.kind = "proofs" /\ StreamNext /\ UNCHANGED <<configureVars, ledgerVars, job>>

Spec == Init /\ [][Next]_<<configureVars, ledgerVars, stream, job>>

-----------------------------------------------------------------------------
(* What the conversions promise *)

\* An amount AmountToString writes is read back by StringToAmount as the same amount, up to
\* the largest; the amount above it is refused.
AmountRoundTrip ==
    job.kind = "amount" =>
        LET s == AmountToString(job.in)
        IN  IF job.in > MaxAmount THEN ~s.ok ELSE StringToAmount(s.value) = OK(job.in)

\* Every entropy becomes a sentence, also one with leading zeros, and EntropyFromMnemonic
\* gives it back with its length.
MnemonicRoundTrip ==
    job.kind = "entropy" =>
        LET words == NewMnemonic(job.in)
        IN  words.ok /\ EntropyFromMnemonic(words.value) = OK(job.in)

\* The two readers of a sentence, EntropyFromMnemonic (import) and MnemonicToByteArray
\* (validation, seeds), agree on every sequence of words: which are sentences, and of what.
ReadersAgree ==
    job.kind = "sentence" => EntropyFromMnemonic(job.in) = MnemonicToByteArray(job.in)

\* the next step of a computation that may have failed
Then(r, Op(_)) == IF r.ok THEN Op(r.value) ELSE Err

\* The private key Unlock derives for an address, from the account key read back from the
\* database, belongs to the public key the address was made from, derived from the branch's
\* public key read back: although Child shortens keys and String pads them.
AddressesMatch ==
    job.kind = "key" =>
        \A path \in [1..3 -> 0..1], branch \in 0..1, n \in 0..1 :
            LET acct == Then(NewMaster(job.in, 1), LAMBDA k : AccountKey(k, path))
                branchKey == Then(acct, LAMBDA k : Child(k, branch))
                private == Then(Then(acct, LAMBDA k : NewKeyFromString(String(k))),
                                LAMBDA k : AddressKey(k, branch, n))
                public == Then(Then(branchKey, LAMBDA k : NewKeyFromString(String(Neuter(k)))),
                               LAMBDA k : Child(k, n))
            IN  acct.ok /\ branchKey.ok /\ Scalar(acct.value.key) # 0
                    => /\ private.ok = public.ok
                       /\ private.ok => Neuter(private.value) = public.value

\* What the other side decodes is the message that was encoded, of the same kind, also with
\* empty lists and targets of any length; a proof arrives with the plot's key as its key.
CodecRoundTrip ==
    job.kind = "message" =>
        DecodeMessage(EncodeMessage(job.in[1], job.in[2]))
            = OK([type |-> job.in[1], m |-> job.in[2]])

\* A keystore that is created, has its private passphrase changed and makes an address gives
\* back what was put last: the public halves stay when only private ones are written (nil), the
\* account's two blobs of any length come back apart, and so do the paths of the addresses.
RowsRoundTrip ==
    job.kind = "account" =>
        LET r == job.in
            new == InitBranches(PutAccountInfo(
                        PutKeys(PutKeys(PutKeys(EmptyBucket, "m", {r.pub}, {r.priv}),
                                        "c", {r.priv}, {r.pub}), "mhd", {}, {r.pub}),
                        r.account, r.pub, r.priv), r.pub, r.priv)
            b == UpdateChildNumRow(PutKeys(PutKeys(new, "m", {}, {r.next}), "c", {}, {r.next}),
                                   TRUE, r.index)
            paths == PutEncryptedPubKey(PutEncryptedPubKey(EmptyBucket, 0, r.index, r.pub),
                                        r.index, 0, r.next)
        IN  /\ FetchKeys(b, "m") = OK([pub |-> {r.pub}, priv |-> {r.next}])
            /\ FetchKeys(b, "c") = OK([pub |-> {r.priv}, priv |-> {r.next}])
            /\ FetchMasterHDKeys(b) = [pub |-> {}, priv |-> {r.pub}]
            /\ FetchAccountUsage(b) = OK(r.account)
            /\ FetchAccountInfo(b, r.account) = OK([pub |-> r.pub, priv |-> r.priv])
            /\ GetChildNum(b, TRUE) = r.index /\ GetChildNum(b, FALSE) = 0
            /\ BranchPubKey(b, TRUE) = {r.pub} /\ BranchPubKey(b, FALSE) = {r.priv}
            /\ FetchEncryptedPubKeys(paths)
                 = {[branch |-> 0, index |-> r.index, pub |-> IF r.index = 0 THEN r.next ELSE r.pub],
                    [branch |-> r.index, index |-> 0, pub |-> r.next]}

\* What CreateDB leaves, OpenDB opens: with the bit length and key it was new for, and the
\* checkpoints written since, although HashMapA is gone once the plot is complete.  Whatever a
\* crash of CreateDB left, the next CreateDB gives a database with both headers whole, or fails
\* because a file was cut before its header, and then every later one fails too.
OpensAgain ==
    job.kind = "files" =>
        \A cut \in CutDisks([a |-> {}, b |-> {}], job.in.bl, job.in.pk) :
            LET f == job.in
                disk == CreateFiles(cut, f.bl, f.pk)
                db == CreateDB(disk)
                hm(c) == [bl |-> f.bl, pk |-> f.pk, checkpoint |-> c]
                later == [a |-> IF f.gone THEN {} ELSE WriteCheckpoint(disk.a, f.a),
                          b |-> WriteCheckpoint(disk.b, f.b)]
                complete == f.b >= 2^f.bl \div 2
            IN  IF <<>> \in disk.a \cup disk.b
                THEN ~db.ok /\ CreateFiles(disk, f.bl, f.pk) = disk
                ELSE /\ db = OK([a |-> {hm(0)}, b |-> hm(0)])
                     /\ (f.gone => complete)
                        => OpenDB(later) = OK([a |-> IF complete THEN {} ELSE {hm(f.a)}, b |-> hm(f.b)])

\* A database tells how far its plot is: never more than all, all only when every record of
\* both maps is there, and the same after it is opened anew.  One that is deleted
\* cannot be opened any more if Delete says so, and then no file is left but a HashMapA that a
\* crash left beside a complete plot; if Delete fails a file is left.
ProgressTells ==
    job.kind = "files" =>
        LET f == job.in
            new == CreateFiles([a |-> {}, b |-> {}], f.bl, f.pk)
            disk == [a |-> WriteCheckpoint(new.a, f.a), b |-> WriteCheckpoint(new.b, f.b)]
            db == OpenDB(disk).value
            p == Progress(db)
            open == Progress([a |-> {LoadA(disk).value}, b |-> LoadB(disk).value])
        IN  /\ f.a <= 2^f.bl /\ f.b <= 2^f.bl \div 2
                 => /\ open.done <= open.of /\ (open.done = open.of => open.plotted /\ f.a = 2^f.bl)
                    /\ (f.a = 2^f.bl \/ f.b = 0)
                          => open.done * p.of = p.done * open.of /\ (p.done = p.of <=> p.plotted)
            /\ \A stuck \in SUBSET {"a", "b"} :
                 LET d == DeleteDB(disk, db, stuck)
                 IN  IF d.ok THEN ~OpenDB(d.disk).ok /\ (d.disk.a # {} => p.plotted)
                     ELSE d.disk.a \cup d.disk.b # {}

\* The records of either map lie one beside the other from the header to calcSize, none on top
\* of another, and a value's flip is the neighbour plotWork reads it together with.
RecordsApart ==
    job.kind = "files" =>
        LET bl == job.in.bl
            values == 0..(2^bl - 1)
            size(typ) == CalcSize(typ, bl) - LenMetaInfo
        IN  /\ {PositionA(y, bl) : y \in values}
                 = {LenMetaInfo + RecordSize(bl) * i : i \in values}
            /\ size(MapTypeHashMapA) = Cardinality(values) * RecordSize(bl)
            /\ \A y \in values : y < 2^bl - 1 - y =>
                 PositionA(2^bl - 1 - y, bl) = PositionA(y, bl) + RecordSize(bl)
            /\ \A z \in values : PositionB(z, bl) + 2 * RecordSize(bl)
                 = IF z + 1 \in values THEN PositionB(z + 1, bl) ELSE CalcSize(MapTypeHashMapB, bl)

\* What a miner lists online the client also finds offline in the miner's directories: for v1
\* whatever duplicates, foreign and renamed files lie there, and exactly that if no file was
\* renamed, the wallet has every key and no plot lies there twice, or all are asked for (a file
\* renamed to another ordinal, key or bit length the miner passes over and the client lists);
\* for v2 if the names are regular and no keystore is asked.
ListsAgree ==
    job.kind = "list" =>
        LET l == job.in
            found == FilesIn(l.dirs)
            online == OnlineV1(l.dirs, l.owned, l.all)
            once == \A i, j \in DOMAIN found : found[i].plot = found[j].plot => i = j
        IN  ~OfflineFails(l.dirs) =>
              /\ online \subseteq OfflineV1(l.dirs, l.all)
              /\ (/\ l.owned = {1, 2} /\ (l.all \/ once)
                  /\ \A i \in DOMAIN found : found[i].regular => found[i].named)
                   => online = OfflineV1(l.dirs, l.all)
              /\ (\A i \in DOMAIN found : found[i].regular)
                   => /\ OnlineV2(l.dirs) = OfflineV2(l.dirs, FALSE, l.owned)
                      /\ OfflineV2(l.dirs, TRUE, l.owned) = OnlineV2(l.dirs) \cap l.owned

\* Every space of a keeper is listed once, in the order of the ordinals whatever order its
\* files were found in, for every set of flags that has its state and for no other; the id
\* it is listed with finds that space and none else, although two plots may share a key;
\* another writing of the id, or the id of the other keeper, finds none.  Removing a space by
\* its id leaves the others as they were.
SpacesFound ==
    job.kind = "spaces" =>
        LET path == PathOf(job.in)
            spaces == InUse(path)
            ids == {Sid(spaces[i]) : i \in DOMAIN spaces}
        IN  /\ Cardinality({<<f.key, f.bl>> : f \in ToSet(job.in)}) = Len(path)
            /\ \A i, j \in DOMAIN path : path[i].ord < path[j].ord => i < j
            /\ \A i \in DOMAIN spaces :
                 LET w == spaces[i]
                     gone == DeleteFromSlice(spaces, Sid(w))
                 IN  /\ w \in ToSet(job.in)
                     /\ GetCapacitySpace(spaces, Sid(w)) = OK(GetCapacitySpaces(spaces, SFAll)[i])
                     /\ GetCapacitySpaceV2(spaces, SidV2(w)) = OK(ProtoWorkSpaceV2(w))
                     /\ \A j \in DOMAIN spaces :
                          ProtoWorkSpace(w).target = ProtoWorkSpace(spaces[j]).target => i = j
                     /\ ~GetCapacitySpace(spaces, SidV2(w)).ok /\ ~GetCapacitySpaceV2(spaces, Sid(w)).ok
                     /\ ~GetCapacitySpace(spaces, [Sid(w) EXCEPT ![2].form = "other"]).ok
                     /\ ~GetCapacitySpace(gone, Sid(w)).ok
                     /\ \A id \in ids \ {Sid(w)} :
                          GetCapacitySpace(gone, id) = GetCapacitySpace(spaces, id)
                     /\ \A flags \in 0..SFAll : w \in ToSet(WorkSpaceInfos(spaces, flags))
                                               <=> (flags \div Flag(w.state)) % 2 = 1

-----------------------------------------------------------------------------
(* The same, by what they are about *)

\* What leaves the process in one form comes back from it as it was: amounts, sentences, HD
\* keys, the rows of a keystore, the messages of the cluster.
RoundTrips ==
    /\ AmountRoundTrip /\ MnemonicRoundTrip /\ ReadersAgree
    /\ AddressesMatch /\ RowsRoundTrip /\ CodecRoundTrip

\* The files of a plot: opened as they were made, also after a crash, their progress and their
\* removal told truly, their records apart.
FilesSound == OpensAgain /\ ProgressTells /\ RecordsApart

\* A space is found by whoever asks for it: by id and flags from the miner, offline from its
\* directories.
SpacesListed == SpacesFound /\ ListsAgree
=============================================================================
