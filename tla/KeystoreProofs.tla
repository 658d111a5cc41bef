--------------------------- MODULE KeystoreProofs ---------------------------
(***************************************************************************)
(* The safety of the PoC wallet, for any accounts, passphrases, branches   *)
(* and number of addresses: WalletInv is inductive.                        *)
(*                                                                         *)
(* Below it, the wallet's database, for any names, keys, values and        *)
(* entries: the flat key space of either driver implements WalletTree.     *)
(***************************************************************************)
EXTENDS Keystore, WalletDB, FiniteSetTheorems, NaturalsInduction, WellFoundedInduction,
        SequenceTheorems, TLAPS

-----------------------------------------------------------------------------
(* The inductive invariant.                                                *)

\* A process that does not run manages nothing and has no call under way.
QuietWhenClosed == ~open => DOMAIN mem = {} /\ gen = None

\* A GenerateNewPublicKey under way has put its key in the database, and has
\* derived it the way the wallet was locked, unless the keystore was deleted
\* or the lock changed since.
PendingStored ==
    gen # None =>
        /\ "delete" \notin gen.met =>
              gen.acct \in DOMAIN mem /\ gen.path \in disk[gen.acct].pks
        /\ "lock" \notin gen.met => gen.private = unlocked

WalletInv ==
    /\ TypeOK
    /\ QuietWhenClosed
    /\ PendingStored
    /\ OnePassphrase
    /\ MemoryIsDisk
    /\ Indexed
    /\ KeysMatchLock

-----------------------------------------------------------------------------
(* What the managers' operations change.                                   *)

Memory(ms) == DOMAIN ms \subseteq Accounts /\ \A a \in DOMAIN ms : ms[a] \in Manager

\* Two managers that differ in nothing but the cell of the master key.
Alike(m, n) ==
    /\ n.unlocked = m.unlocked /\ n.hash = m.hash
    /\ n.par = m.par /\ n.enc = m.enc
    /\ n.addrs = m.addrs /\ n.keys = m.keys /\ n.next = m.next

AllAlike(ms, ns) ==
    /\ Memory(ns) /\ DOMAIN ns = DOMAIN ms
    /\ \A a \in DOMAIN ms : Alike(ms[a], ns[a])

\* What is derived or zeroed through one manager changes master keys only.
LEMMA SetKeyAlike ==
    ASSUME NEW ms, Memory(ms), NEW a, NEW v \in Pass \cup {Zero}
    PROVE  /\ AllAlike(ms, SetKey(ms, a, v))
           /\ a \in DOMAIN ms => SetKey(ms, a, v)[a].master = v
<1>1. \A b \in DOMAIN ms : [ms[b] EXCEPT !.master = v] \in Manager
  BY DEF Memory, Manager
<1>2. \A b \in DOMAIN ms : Alike(ms[b], ms[b])
  BY DEF Alike
<1>3. \A b \in DOMAIN ms : Alike(ms[b], [ms[b] EXCEPT !.master = v])
  BY DEF Alike, Memory, Manager
<1>4. a \in DOMAIN ms => [ms[a] EXCEPT !.master = v].master = v
  BY DEF Memory, Manager
<1> QED
  BY <1>1, <1>2, <1>3, <1>4 DEF SetKey, AllAlike, Memory

\* The checks of a passphrase change master keys only.
LEMMA CheckAlike ==
    ASSUME NEW ms, Memory(ms), NEW a, NEW p \in Pass
    PROVE  /\ AllAlike(ms, ms)
           /\ AllAlike(ms, DeriveKey(ms, a, p))
           /\ AllAlike(ms, CheckPassword(ms, a, p))
           /\ AllAlike(ms, SafelyCheckPassword(ms, a, p))
<1>1. AllAlike(ms, ms)
  BY DEF AllAlike, Alike
<1>2. Derived(ms[a].par, p) \in Pass \cup {Zero} /\ Zero \in Pass \cup {Zero}
  BY DEF Derived
<1>3. AllAlike(ms, DeriveKey(ms, a, p)) /\ AllAlike(ms, SetKey(ms, a, Zero))
  BY <1>2, SetKeyAlike DEF DeriveKey
<1>4. AllAlike(ms, CheckPassword(ms, a, p))
  BY <1>1, <1>3 DEF CheckPassword
<1> QED
  BY <1>1, <1>3, <1>4 DEF SafelyCheckPassword

\* ClearPrivKeys locks the one manager it is called on.
LEMMA ClearParts ==
    ASSUME NEW ms, Memory(ms), NEW a \in DOMAIN ms
    PROVE  LET ns == ClearPrivKeys(ms, a)
           IN  /\ Memory(ns) /\ DOMAIN ns = DOMAIN ms
               /\ \A b \in DOMAIN ms \ {a} : Alike(ms[b], ns[b])
               /\ ns[a].unlocked = FALSE /\ ns[a].keys = {} /\ ns[a].hash = Zero
               /\ ns[a].par = ms[a].par /\ ns[a].enc = ms[a].enc
               /\ ns[a].addrs = ms[a].addrs /\ ns[a].next = ms[a].next
<1> DEFINE cs == SetKey(ms, a, Zero)
<1>1. AllAlike(ms, cs)
  BY SetKeyAlike
<1>2. ClearPrivKeys(ms, a) =
        [cs EXCEPT ![a] = [cs[a] EXCEPT !.unlocked = FALSE, !.keys = {}, !.hash = Zero]]
  BY <1>1 DEF ClearPrivKeys, AllAlike, Memory, Manager
<1> HIDE DEF cs
<1>3. cs[a] \in Manager
  BY <1>1 DEF AllAlike, Memory
<1>4. [cs[a] EXCEPT !.unlocked = FALSE, !.keys = {}, !.hash = Zero] \in Manager
  BY <1>3 DEF Manager
<1> QED
  BY <1>1, <1>2, <1>3, <1>4 DEF AllAlike, Alike, Memory, Manager

\* useKeystore: a keystore that can be used is unlocked with all its keys,
\* one that cannot stays as it was but for the hash.
LEMMA UseParts ==
    ASSUME NEW ms, Memory(ms), NEW a \in DOMAIN ms, NEW p \in Pass
    PROVE  LET m == UseKeystore(ms, a, p)[a]
           IN  /\ Memory(UseKeystore(ms, a, p))
               /\ DOMAIN UseKeystore(ms, a, p) = DOMAIN ms
               /\ \A b \in DOMAIN ms \ {a} : Alike(ms[b], UseKeystore(ms, a, p)[b])
               /\ m.par = ms[a].par /\ m.enc = ms[a].enc
               /\ m.addrs = ms[a].addrs /\ m.next = ms[a].next
               /\ m.hash = IF PasswordOK(ms, a, p) THEN p ELSE ms[a].hash
               /\ CanUse(ms, a, p) => m.unlocked /\ m.keys = ms[a].keys \cup ms[a].addrs
               /\ ~CanUse(ms, a, p) => m.unlocked = ms[a].unlocked /\ m.keys = ms[a].keys
<1> DEFINE cs == CheckPassword(ms, a, p)
           h == [cs[a] EXCEPT !.hash = p]
<1>1. AllAlike(ms, cs)
  BY CheckAlike
<1>2. [cs EXCEPT ![a].hash = p] = [cs EXCEPT ![a] = h]
  OBVIOUS
<1> HIDE DEF cs
<1>3. /\ h \in Manager /\ UpdatePrivKeys(h) \in Manager
      /\ h.unlocked = cs[a].unlocked /\ h.par = cs[a].par /\ h.enc = cs[a].enc
      /\ h.addrs = cs[a].addrs /\ h.keys = cs[a].keys /\ h.next = cs[a].next /\ h.hash = p
      /\ UpdatePrivKeys(h).unlocked /\ UpdatePrivKeys(h).keys = h.keys \cup h.addrs
      /\ UpdatePrivKeys(h).par = h.par /\ UpdatePrivKeys(h).enc = h.enc
      /\ UpdatePrivKeys(h).addrs = h.addrs /\ UpdatePrivKeys(h).next = h.next
      /\ UpdatePrivKeys(h).hash = h.hash
  BY <1>1 DEF AllAlike, Memory, Manager, UpdatePrivKeys
<1> HIDE DEF h
<1>4. CanUse(ms, a, p) => PasswordOK(ms, a, p)
  BY DEF CanUse
<1>5. UseKeystore(ms, a, p) =
        IF ~PasswordOK(ms, a, p) THEN cs
        ELSE IF ~CanUse(ms, a, p) THEN [cs EXCEPT ![a] = h]
        ELSE [cs EXCEPT ![a] = UpdatePrivKeys(h)]
  <2>1. [[cs EXCEPT ![a] = h] EXCEPT ![a] = UpdatePrivKeys(@)]
          = [cs EXCEPT ![a] = UpdatePrivKeys(h)]
    BY <1>1 DEF AllAlike
  <2> QED
    BY <1>2, <2>1 DEF UseKeystore, cs, h
<1> QED
  BY <1>1, <1>3, <1>4, <1>5 DEF AllAlike, Alike, Memory

\* A manager loaded from a row: locked, with the row's parameters and keys.
LEMMA LoadParts ==
    ASSUME NEW a \in Accounts, NEW row \in Row
    PROVE  LET m == LoadAddrManager(a, row)
           IN  /\ m \in Manager
               /\ m.unlocked = FALSE /\ m.keys = {} /\ m.hash = Zero
               /\ m.par = row.privPar /\ m.enc = row.privEnc
               /\ m.addrs = row.pks /\ m.next = row.next
  BY DEF LoadAddrManager, Manager, Row

-----------------------------------------------------------------------------
(* What is put in the database.                                            *)

\* create seals a keystore under one private and one public passphrase, with
\* the public keys below its child numbers.
LEMMA CreateParts ==
    ASSUME NEW p \in Pass, NEW q \in Pass, NEW n \in [Branches -> 0 .. MaxAddr]
    PROVE  /\ Create(p, q, n) \in Row
           /\ Create(p, q, n).privPar = p /\ Create(p, q, n).privEnc = p
           /\ Create(p, q, n).pubPar = q /\ Create(p, q, n).pubEnc = q
           /\ Create(p, q, n).next = n /\ Create(p, q, n).pks = Below(n)
<1> DEFINE par(r) == [r EXCEPT !.pubPar = q, !.privPar = p]
           enc(r) == [r EXCEPT !.pubEnc = q, !.privEnc = p]
<1>1. p # None /\ q # None
  BY NilAssumption
<1>2. Create(p, q, n) = enc(par(CreateManagerKeyScope(n)))
  BY <1>1 DEF Create, PutMasterKeyParams, PutCryptoKeys, Given
<1>3. Below(n) \in SUBSET Paths
  BY DEF Below
<1> DEFINE R == [privPar: Pass \cup {None}, privEnc: Pass \cup {None},
                 pubPar: Pass \cup {None}, pubEnc: Pass \cup {None},
                 next: [Branches -> 0 .. MaxAddr], pks: SUBSET Paths]
           s == CreateManagerKeyScope(n)
<1>4. s \in R /\ s.next = n /\ s.pks = Below(n)
  BY <1>3 DEF CreateManagerKeyScope
<1> HIDE DEF s
<1>5. /\ par(s) \in R /\ par(s).next = s.next /\ par(s).pks = s.pks
      /\ par(s).pubPar = q /\ par(s).privPar = p
  BY <1>4
<1> HIDE DEF par
<1>6. /\ enc(par(s)) \in R /\ enc(par(s)).next = par(s).next /\ enc(par(s)).pks = par(s).pks
      /\ enc(par(s)).pubPar = par(s).pubPar /\ enc(par(s)).privPar = par(s).privPar
      /\ enc(par(s)).pubEnc = q /\ enc(par(s)).privEnc = p
  BY <1>5
<1> HIDE DEF enc
<1>7. enc(par(s)) \in Row
  BY <1>4, <1>5, <1>6 DEF Row
<1> QED
  BY <1>2, <1>4, <1>5, <1>6, <1>7 DEF s

\* A new passphrase changes the boxes it seals and nothing else of a row.
LEMMA ResealParts ==
    ASSUME NEW row \in Row, NEW p \in Pass
    PROVE  /\ LET r == PutCryptoKeys(PutMasterKeyParams(row, p, None), p, None)
              IN  /\ r \in Row
                  /\ r.pubPar = p /\ r.pubEnc = p
                  /\ r.privPar = row.privPar /\ r.privEnc = row.privEnc
                  /\ r.next = row.next /\ r.pks = row.pks
           /\ LET r == PutCryptoKeys(PutMasterKeyParams(row, None, p), None, p)
              IN  /\ r \in Row
                  /\ r.privPar = p /\ r.privEnc = p
                  /\ r.pubPar = row.pubPar /\ r.pubEnc = row.pubEnc
                  /\ r.next = row.next /\ r.pks = row.pks
  BY NilAssumption DEF PutMasterKeyParams, PutCryptoKeys, Given, Row

\* The keys nextAddresses derives are the ones between the old child number
\* and the new one.
LEMMA AdvanceParts ==
    ASSUME NEW a \in DOMAIN disk, disk[a] \in Row, NEW br \in Branches,
           NEW n \in 1 .. MaxAddr, Room(a, br, n),
           disk[a].pks = Below(disk[a].next)
    PROVE  LET r == PutEncryptedPubKeys(UpdateChildNum(disk[a], br, disk[a].next[br] + n),
                                        NewPaths(a, br, n))
           IN  /\ r \in Row
               /\ r.privPar = disk[a].privPar /\ r.privEnc = disk[a].privEnc
               /\ r.pubPar = disk[a].pubPar /\ r.pubEnc = disk[a].pubEnc
               /\ r.pks = disk[a].pks \cup NewPaths(a, br, n)
               /\ r.pks = Below(r.next)
               /\ NewPaths(a, br, n) \subseteq Paths
               /\ NewPaths(a, br, n) \cap disk[a].pks = {}
<1> DEFINE nx == [disk[a].next EXCEPT ![br] = @ + n]
           new == NewPaths(a, br, n)
           r == [disk[a] EXCEPT !.next = nx, !.pks = @ \cup new]
<1>1. disk[a].next \in [Branches -> 0 .. MaxAddr] /\ disk[a].pks \subseteq Paths
  BY DEF Row
<1>2. disk[a].next[br] + n \in 0 .. MaxAddr
  BY <1>1, MaxAddrAssumption DEF Room
<1>3. nx \in [Branches -> 0 .. MaxAddr]
  BY <1>1, <1>2
<1>4. new \subseteq Paths
  BY DEF NewPaths
<1>5. PutEncryptedPubKeys(UpdateChildNum(disk[a], br, disk[a].next[br] + n), NewPaths(a, br, n)) = r
  BY DEF PutEncryptedPubKeys, UpdateChildNum, Row
<1>6. disk[a].pks \cup new = Below(nx) /\ new \cap disk[a].pks = {}
  <2> SUFFICES ASSUME NEW q \in Paths
               PROVE  /\ q \in Below(nx) <=> q \in Below(disk[a].next) \/ q \in new
                      /\ ~(q \in Below(disk[a].next) /\ q \in new)
    BY <1>1, <1>4 DEF Below
  <2>1. q[1] \in Branches /\ q[2] \in 0 .. MaxAddr - 1
    BY DEF Paths
  <2>2. nx[q[1]] = IF q[1] = br THEN disk[a].next[br] + n ELSE disk[a].next[q[1]]
    BY <1>1, <2>1
  <2>3. disk[a].next[q[1]] \in Nat /\ disk[a].next[br] \in Nat /\ n \in Nat
    BY <1>1, <2>1, MaxAddrAssumption
  <2>4. q \in new <=> q[1] = br /\ q[2] - disk[a].next[br] \in 0 .. n - 1
    BY DEF NewPaths
  <2>5. /\ q \in Below(nx) <=> q[2] < nx[q[1]]
        /\ q \in Below(disk[a].next) <=> q[2] < disk[a].next[q[1]]
    BY DEF Below
  <2> HIDE DEF nx, new
  <2> QED
    BY <2>1, <2>2, <2>3, <2>4, <2>5, MaxAddrAssumption
<1> HIDE DEF nx, new
<1>7. /\ r \in Row /\ r.next = nx /\ r.pks = disk[a].pks \cup new
      /\ r.privPar = disk[a].privPar /\ r.privEnc = disk[a].privEnc
      /\ r.pubPar = disk[a].pubPar /\ r.pubEnc = disk[a].pubEnc
  BY <1>1, <1>3, <1>4 DEF Row
<1> HIDE DEF r
<1> QED
  BY <1>4, <1>5, <1>6, <1>7 DEF new

-----------------------------------------------------------------------------
(* The invariant is inductive.                                             *)

\* A call that changes nothing but master keys and the exported file.
LEMMA AlikeKeeps ==
    ASSUME WalletInv, AllAlike(mem, mem'), file' \in Exported \cup {None},
           UNCHANGED <<disk, open, unlocked, pubPass, gen, raced>>
    PROVE  WalletInv'
<1> USE DEF WalletInv
<1>1. TypeOK' /\ DOMAIN mem' = DOMAIN mem
  BY DEF TypeOK, AllAlike, Memory
<1>2. \A a \in DOMAIN mem : Alike(mem[a], mem'[a])
  BY DEF AllAlike
<1>3. QuietWhenClosed' /\ PendingStored' /\ OnePassphrase'
  BY <1>1 DEF QuietWhenClosed, PendingStored, OnePassphrase
<1>4. MemoryIsDisk'
  BY <1>1, <1>2 DEF MemoryIsDisk, Alike
<1>5. Indexed'
  BY <1>1, <1>2 DEF Indexed, Alike
<1>6. KeysMatchLock'
  BY <1>1, <1>2 DEF KeysMatchLock, Alike, CanSign, GetAddrManager, SignPocec
<1> QED
  BY <1>1, <1>3, <1>4, <1>5, <1>6

\* A manager takes the passphrase of the database and no other.
LEMMA PasswordOfDisk ==
    ASSUME WalletInv, open, NEW a \in DOMAIN mem, NEW p
    PROVE  PasswordOK(mem, a, p) <=> p = disk[a].privPar
  BY DEF WalletInv, MemoryIsDisk, PasswordOK

\* The manager that is asked, if there is a keystore at all.
LEMMA AskedParts ==
    ASSUME WalletInv, open, NEW b \in Asked, NEW p \in Pass
    PROVE  /\ AllAlike(mem, AfterCheck(b, p))
           /\ b = None => DOMAIN mem = {} /\ DOMAIN disk = {}
           /\ b # None => b \in DOMAIN mem /\ b \in DOMAIN disk
           /\ Accepts(b, p) => \A a \in DOMAIN disk : disk[a].privPar = p
           /\ ~Accepts(b, p) => \A a \in DOMAIN disk : disk[a].privPar # p
<1>1. DOMAIN mem = DOMAIN disk /\ DOMAIN mem \subseteq Accounts /\ Memory(mem)
  BY DEF WalletInv, MemoryIsDisk, TypeOK, Memory
<1>2. AllAlike(mem, AfterCheck(b, p))
  BY <1>1, CheckAlike DEF AfterCheck
<1>3. CASE mem = [a \in {} |-> None]
  BY <1>1, <1>2, <1>3 DEF Asked, Accepts
<1>4. CASE mem # [a \in {} |-> None]
  <2>1. b \in DOMAIN mem /\ b # None
    BY <1>1, <1>4, NilAssumption DEF Asked
  <2>2. PasswordOK(mem, b, p) <=> p = disk[b].privPar
    BY <2>1, PasswordOfDisk
  <2>3. \A a \in DOMAIN disk : disk[a].privPar = disk[b].privPar
    BY <1>1, <2>1 DEF WalletInv, OnePassphrase
  <2> QED
    BY <1>1, <1>2, <2>1, <2>2, <2>3 DEF Accepts
<1> QED
  BY <1>3, <1>4

\* A keystore that is put in the wallet is as locked as the wallet.
LEMMA ManageParts ==
    ASSUME NEW ms, Memory(ms), NEW a \in Accounts, a \notin DOMAIN ms, unlocked \in BOOLEAN,
           NEW row \in Row, NEW p \in Pass, row.privPar = p, row.privEnc = p
    PROVE  LET ns == Manage(ms, a, row, p)
           IN  /\ Memory(ns) /\ DOMAIN ns = DOMAIN ms \cup {a}
               /\ \A b \in DOMAIN ms : Alike(ms[b], ns[b])
               /\ ns[a].par = p /\ ns[a].enc = p /\ ns[a].addrs = row.pks
               /\ ns[a].unlocked = unlocked
               /\ unlocked => ns[a].hash = p /\ ns[a].keys = row.pks
               /\ ~unlocked => ns[a].keys = {}
<1> DEFINE m == LoadAddrManager(a, row)
           ls == With(ms, a, m)
<1>1. /\ m \in Manager
      /\ m.unlocked = FALSE /\ m.keys = {} /\ m.hash = Zero
      /\ m.par = p /\ m.enc = p /\ m.addrs = row.pks
  BY LoadParts
<1> HIDE DEF m
<1>2. /\ Memory(ls) /\ DOMAIN ls = DOMAIN ms \cup {a} /\ ls[a] = m
      /\ \A b \in DOMAIN ms : ls[b] = ms[b]
  BY <1>1 DEF With, Memory
<1>3. \A b \in DOMAIN ms : Alike(ms[b], ls[b])
  BY <1>2 DEF Alike
<1>4. Manage(ms, a, row, p) = IF unlocked THEN UseKeystore(ls, a, p) ELSE ls
  BY DEF Manage, m
<1> HIDE DEF ls
<1>5. CASE ~unlocked
  BY <1>1, <1>2, <1>3, <1>4, <1>5
<1>6. CASE unlocked
  <2>1. PasswordOK(ls, a, p)
    BY <1>1, <1>2 DEF PasswordOK
  <2>2. CheckPassword(ls, a, p)[a].master = p
    <3>1. SetKey(ls, a, p)[a].master = p
      BY <1>2, SetKeyAlike
    <3> QED
      BY <1>1, <1>2, <3>1 DEF CheckPassword, DeriveKey, Derived
  <2>3. CanUse(ls, a, p)
    BY <1>1, <1>2, <2>1, <2>2, NilAssumption DEF CanUse, Decrypts
  <2> DEFINE ns == UseKeystore(ls, a, p)
  <2>4. /\ Memory(ns) /\ DOMAIN ns = DOMAIN ls
        /\ \A b \in DOMAIN ls \ {a} : Alike(ls[b], ns[b])
        /\ ns[a].par = ls[a].par /\ ns[a].enc = ls[a].enc /\ ns[a].addrs = ls[a].addrs
        /\ ns[a].hash = p /\ ns[a].unlocked /\ ns[a].keys = ls[a].keys \cup ls[a].addrs
    BY <1>2, <2>1, <2>3, UseParts
  <2>5. ns[a].unlocked = TRUE
    BY <1>2, <2>4 DEF Memory, Manager
  <2> HIDE DEF ns
  <2>6. \A b \in DOMAIN ms : Alike(ms[b], ns[b])
    BY <1>2, <2>4
  <2>7. Manage(ms, a, row, p) = ns
    BY <1>4, <1>6 DEF ns
  <2> QED
    BY <1>1, <1>2, <1>6, <2>4, <2>5, <2>6, <2>7
<1> QED
  BY <1>5, <1>6

\* NewKeystore and ImportKeystore: the passphrase is the one of the others.
LEMMA AddKeeps ==
    ASSUME WalletInv, open, NEW b \in Asked, NEW a \in Accounts, NEW p \in Pass,
           NEW n \in [Branches -> 0 .. MaxAddr], NEW c,
           AddKeystore(b, a, p, n, c),
           UNCHANGED <<open, unlocked, pubPass, gen, file, raced>>
    PROVE  WalletInv'
<1>1. TypeOK /\ Memory(mem) /\ file' \in Exported \cup {None} /\ DOMAIN mem = DOMAIN disk
  BY DEF WalletInv, TypeOK, Memory, MemoryIsDisk
<1>2. CASE ~(Accepts(b, p) /\ p # pubPass /\ a \notin DOMAIN disk /\ c)
  <2>1. mem' = AfterCheck(b, p) /\ disk' = disk
    BY <1>2 DEF AddKeystore
  <2> QED
    BY <1>1, <2>1, AskedParts, AlikeKeeps
<1>3. CASE Accepts(b, p) /\ p # pubPass /\ a \notin DOMAIN disk /\ c
  <2> DEFINE row == Create(p, pubPass, n)
             ms == AfterCheck(b, p)
  <2>1. pubPass \in Pass /\ unlocked \in BOOLEAN
    BY <1>1 DEF TypeOK
  <2>2. /\ row \in Row /\ row.privPar = p /\ row.privEnc = p
        /\ row.pubPar = pubPass /\ row.pubEnc = pubPass
        /\ row.next = n /\ row.pks = Below(n)
    BY <2>1, CreateParts
  <2>3. AllAlike(mem, ms) /\ \A d \in DOMAIN disk : disk[d].privPar = p
    BY <1>3, AskedParts
  <2>4. /\ disk' = With(disk, a, row)
        /\ mem' = Manage(ms, a, disk'[a], p)
    BY <1>3 DEF AddKeystore
  <2> HIDE DEF row, ms
  <2>5. DOMAIN disk' = DOMAIN disk \cup {a} /\ disk'[a] = row
        /\ \A d \in DOMAIN disk : disk'[d] = disk[d]
    BY <1>3, <2>4 DEF With
  <2>6. Memory(ms) /\ DOMAIN ms = DOMAIN mem /\ \A d \in DOMAIN mem : Alike(mem[d], ms[d])
    BY <2>3 DEF AllAlike
  <2>7. /\ Memory(mem') /\ DOMAIN mem' = DOMAIN ms \cup {a}
        /\ \A d \in DOMAIN ms : Alike(ms[d], mem'[d])
        /\ mem'[a].par = p /\ mem'[a].enc = p /\ mem'[a].addrs = row.pks
        /\ mem'[a].unlocked = unlocked
        /\ unlocked => mem'[a].hash = p /\ mem'[a].keys = row.pks
        /\ ~unlocked => mem'[a].keys = {}
    <3>1. mem' = Manage(ms, a, row, p)
      BY <2>4, <2>5
    <3>2. a \notin DOMAIN ms
      BY <1>1, <1>3, <2>6
    <3> DEFINE ns == Manage(ms, a, row, p)
    <3>3. /\ Memory(ns) /\ DOMAIN ns = DOMAIN ms \cup {a}
          /\ \A d \in DOMAIN ms : Alike(ms[d], ns[d])
          /\ ns[a].par = p /\ ns[a].enc = p /\ ns[a].addrs = row.pks
          /\ ns[a].unlocked = unlocked
          /\ unlocked => ns[a].hash = p /\ ns[a].keys = row.pks
          /\ ~unlocked => ns[a].keys = {}
      BY <2>1, <2>2, <2>6, <3>2, ManageParts
    <3> QED
      BY <3>1, <3>3
  <2>8. \A d \in DOMAIN mem : Alike(mem[d], mem'[d])
    BY <2>6, <2>7 DEF Alike
  <2>9. DOMAIN mem' = DOMAIN mem \cup {a} /\ a \notin DOMAIN mem
    BY <1>1, <1>3, <2>6, <2>7
  <2>10. TypeOK'
    BY <1>1, <2>2, <2>5, <2>7 DEF TypeOK, Memory
  <2>11. QuietWhenClosed' /\ PendingStored'
    BY <1>1, <2>5, <2>9 DEF WalletInv, QuietWhenClosed, PendingStored
  <2>12. OnePassphrase'
    BY <1>1, <1>3, <2>2, <2>3, <2>5 DEF WalletInv, OnePassphrase, MemoryIsDisk
  <2>13. MemoryIsDisk'
    <3>1. DOMAIN mem' = DOMAIN disk'
      BY <1>1, <2>5, <2>9
    <3>2. ASSUME NEW d \in DOMAIN mem
          PROVE  /\ mem'[d].par = disk'[d].privPar /\ mem'[d].enc = disk'[d].privEnc
                 /\ mem'[d].unlocked => mem'[d].hash = disk'[d].privPar
                 /\ disk'[d].pubPar = pubPass'
      BY <1>1, <2>5, <2>8 DEF WalletInv, MemoryIsDisk, Alike
    <3> QED
      BY <2>2, <2>5, <2>7, <2>9, <3>1, <3>2 DEF MemoryIsDisk
  <2>14. Indexed'
    <3>1. ~(gen # None /\ gen.acct = a /\ gen.met \subseteq {"lock"})
      BY <2>9 DEF WalletInv, PendingStored
    <3>2. \A d \in DOMAIN disk : mem'[d].addrs = mem[d].addrs
      BY <1>1, <2>8 DEF Alike
    <3> QED
      BY <1>1, <2>2, <2>5, <2>7, <2>9, <3>1, <3>2 DEF WalletInv, Indexed
  <2>15. KeysMatchLock'
    <3>1. ASSUME NEW d \in DOMAIN mem
          PROVE  mem'[d].unlocked = mem[d].unlocked /\ mem'[d].addrs = mem[d].addrs
                 /\ mem'[d].keys = mem[d].keys
      BY <2>8 DEF Alike
    <3> QED
      BY <2>7, <2>9, <3>1 DEF WalletInv, KeysMatchLock, CanSign, GetAddrManager, SignPocec
  <2> QED
    BY <2>10, <2>11, <2>12, <2>13, <2>14, <2>15 DEF WalletInv
<1> QED
  BY <1>2, <1>3

\* The end of the process, by a crash or by a panic.
LEMMA StoppedKeeps ==
    ASSUME WalletInv, Stopped, UNCHANGED <<disk, file>>
    PROVE  WalletInv'
<1>1. DOMAIN mem' = {} /\ gen' = None /\ open' = FALSE /\ raced' = {}
      /\ unlocked' = FALSE /\ pubPass' = pubPass
  BY DEF Stopped
<1> QED
  BY <1>1 DEF WalletInv, TypeOK, QuietWhenClosed, PendingStored, OnePassphrase,
       MemoryIsDisk, Indexed, KeysMatchLock

\* NewPoCWallet opens every keystore with the public passphrase it is given.
LEMMA OpenKeeps ==
    ASSUME WalletInv, NEW p \in Pass, Open(p)
    PROVE  WalletInv'
<1>1. \A a \in DOMAIN disk : disk[a] \in Row /\ a \in Accounts
  BY DEF WalletInv, TypeOK
<1>2. \A a \in DOMAIN disk : disk[a].pubPar = p
  BY DEF Open, PubOpens, Decrypts, Derived
<1>3. /\ DOMAIN mem' = DOMAIN disk
      /\ \A a \in DOMAIN disk : mem'[a] = LoadAddrManager(a, disk[a])
  BY DEF Open
<1>4. \A a \in DOMAIN disk :
         /\ mem'[a] \in Manager
         /\ mem'[a].unlocked = FALSE /\ mem'[a].keys = {}
         /\ mem'[a].par = disk[a].privPar /\ mem'[a].enc = disk[a].privEnc
         /\ mem'[a].addrs = disk[a].pks
  <2> TAKE a \in DOMAIN disk
  <2> DEFINE m == LoadAddrManager(a, disk[a])
  <2>1. /\ m \in Manager /\ m.unlocked = FALSE /\ m.keys = {}
        /\ m.par = disk[a].privPar /\ m.enc = disk[a].privEnc /\ m.addrs = disk[a].pks
    <3>1. a \in Accounts /\ disk[a] \in Row
      BY <1>1
    <3> QED
      BY <3>1 DEF LoadAddrManager, Manager, Row
  <2> QED
    BY <1>3, <2>1
<1>5. gen = None /\ gen' = None
  BY DEF WalletInv, QuietWhenClosed, Open
<1>6. /\ open' = TRUE /\ unlocked' = FALSE /\ pubPass' = p /\ disk' = disk
      /\ file' = file /\ raced' = raced
  BY DEF Open
<1>7. TypeOK' /\ QuietWhenClosed' /\ PendingStored' /\ OnePassphrase'
  <2>1. TypeOK'
    BY <1>1, <1>3, <1>4, <1>5, <1>6 DEF WalletInv, TypeOK
  <2>2. OnePassphrase'
    BY <1>6 DEF WalletInv, OnePassphrase
  <2> QED
    BY <1>5, <1>6, <2>1, <2>2 DEF QuietWhenClosed, PendingStored
<1>8. MemoryIsDisk' /\ Indexed'
  BY <1>2, <1>3, <1>4, <1>5, <1>6 DEF WalletInv, MemoryIsDisk, Indexed
<1>9. KeysMatchLock'
  BY <1>3, <1>4, <1>6 DEF KeysMatchLock
<1> QED
  BY <1>7, <1>8, <1>9 DEF WalletInv

\* What a call under way is left with when a Lock, an Unlock or a delete of
\* its keystore passes by.
LEMMA MeetParts ==
    ASSUME TypeOK, NEW w \in {"lock", "delete"}, Meet(w)
    PROVE  /\ gen' \in Pending \cup {None}
           /\ gen' = None <=> gen = None
           /\ gen # None =>
                 /\ gen'.acct = gen.acct /\ gen'.path = gen.path
                 /\ gen'.private = gen.private /\ gen'.met = gen.met \cup {w}
<1>1. CASE gen = None
  BY <1>1 DEF Meet
<1>2. CASE gen # None
  <2>1. gen \in Pending
    BY <1>2 DEF TypeOK
  <2>2. gen' = [gen EXCEPT !.met = @ \cup {w}]
    BY <1>2 DEF Meet
  <2>3. gen' \in Pending
    BY <2>1, <2>2 DEF Pending
  <2> QED
    BY <1>2, <2>1, <2>2, <2>3, NilAssumption DEF Pending
<1> QED
  BY <1>1, <1>2

\* DeleteKeystore drops a keystore from the database and from memory.
LEMMA DeleteKeeps ==
    ASSUME WalletInv, NEW a \in Accounts, NEW p \in Pass, NEW c, DeleteKeystore(a, p, c)
    PROVE  WalletInv'
<1>1. /\ open /\ a \in DOMAIN mem /\ DOMAIN mem = DOMAIN disk /\ Memory(mem) /\ TypeOK
      /\ open' = open /\ unlocked' = unlocked /\ pubPass' = pubPass /\ file' = file
  BY DEF DeleteKeystore, WalletInv, MemoryIsDisk, TypeOK, Memory
<1>2. CASE ~(PasswordOK(mem, a, p) /\ c)
  <2>1. mem' = SafelyCheckPassword(mem, a, p) /\ UNCHANGED <<disk, gen, raced>>
    BY <1>2 DEF DeleteKeystore
  <2>2. AllAlike(mem, mem')
    BY <1>1, <2>1, CheckAlike
  <2> QED
    BY <1>1, <2>1, <2>2, AlikeKeeps DEF TypeOK
<1>3. CASE PasswordOK(mem, a, p) /\ c
  <2> DEFINE ms == SafelyCheckPassword(mem, a, p)
             cs == ClearPrivKeys(ms, a)
  <2>1. /\ disk' = Restrict(disk, DOMAIN disk \ {a})
        /\ mem' = Restrict(cs, DOMAIN mem \ {a})
        /\ raced' = {r \in raced : r[1] # a}
        /\ IF gen # None /\ gen.acct = a THEN Meet("delete") ELSE UNCHANGED gen
    BY <1>3 DEF DeleteKeystore
  <2>2. AllAlike(mem, ms)
    BY <1>1, CheckAlike
  <2> HIDE DEF ms
  <2>3. Memory(cs) /\ DOMAIN cs = DOMAIN ms /\ \A b \in DOMAIN ms \ {a} : Alike(ms[b], cs[b])
    BY <1>1, <2>2, ClearParts DEF AllAlike
  <2> HIDE DEF cs
  <2>4. /\ DOMAIN mem' = DOMAIN mem \ {a} /\ DOMAIN disk' = DOMAIN mem \ {a}
        /\ \A b \in DOMAIN mem \ {a} :
              disk'[b] = disk[b] /\ mem'[b] \in Manager /\ Alike(mem[b], mem'[b])
    BY <1>1, <2>1, <2>2, <2>3 DEF Restrict, AllAlike, Alike, Memory
  <2>5. /\ gen' \in Pending \cup {None}
        /\ gen' = None <=> gen = None
        /\ gen # None => /\ gen'.acct = gen.acct /\ gen'.path = gen.path
                         /\ gen'.private = gen.private
                         /\ gen'.met = IF gen.acct = a THEN gen.met \cup {"delete"} ELSE gen.met
    <3>1. CASE gen # None /\ gen.acct = a
      BY <1>1, <2>1, <3>1, MeetParts
    <3>2. CASE ~(gen # None /\ gen.acct = a)
      BY <1>1, <2>1, <3>2 DEF TypeOK
    <3> QED
      BY <3>1, <3>2
  <2>6. TypeOK'
    BY <1>1, <2>1, <2>4, <2>5 DEF TypeOK
  <2>7. QuietWhenClosed' /\ PendingStored'
    <3>1. QuietWhenClosed'
      BY <1>1 DEF QuietWhenClosed
    <3>2. ASSUME gen # None, "delete" \notin gen'.met
          PROVE  gen.acct \in DOMAIN mem \ {a} /\ gen.path \in disk[gen.acct].pks
      BY <2>5, <3>2 DEF WalletInv, PendingStored
    <3> QED
      BY <1>1, <2>4, <2>5, <3>1, <3>2 DEF WalletInv, PendingStored
  <2>8. OnePassphrase'
    BY <1>1, <2>4 DEF WalletInv, OnePassphrase
  <2>9. MemoryIsDisk'
    BY <1>1, <2>4 DEF WalletInv, MemoryIsDisk, Alike
  <2>10. Indexed'
    <3> SUFFICES ASSUME NEW b \in DOMAIN mem \ {a}
                 PROVE  /\ disk'[b].pks = Below(disk'[b].next)
                        /\ mem'[b].addrs = disk'[b].pks \
                             (IF gen' # None /\ gen'.acct = b /\ gen'.met \subseteq {"lock"}
                              THEN {gen'.path} ELSE {})
      BY <2>4 DEF Indexed
    <3>1. /\ disk[b].pks = Below(disk[b].next)
          /\ mem[b].addrs = disk[b].pks \
               (IF gen # None /\ gen.acct = b /\ gen.met \subseteq {"lock"}
                THEN {gen.path} ELSE {})
      BY <1>1 DEF WalletInv, Indexed
    <3> QED
      BY <2>4, <2>5, <3>1 DEF Alike
  <2>11. KeysMatchLock'
    <3> SUFFICES ASSUME NEW b \in DOMAIN mem \ {a}
                 PROVE  /\ mem'[b].unlocked = unlocked'
                        /\ \A q \in mem'[b].addrs : <<b, q>> \notin raced' =>
                              IF unlocked' THEN mem'[b].unlocked /\ q \in mem'[b].keys
                              ELSE q \notin mem'[b].keys
      BY <2>4 DEF KeysMatchLock, CanSign, GetAddrManager, SignPocec
    <3>1. \A q : <<b, q>> \notin raced' => <<b, q>> \notin raced
      BY <2>1
    <3> QED
      BY <1>1, <2>4, <3>1
      DEF WalletInv, KeysMatchLock, CanSign, GetAddrManager, SignPocec, Alike
  <2> QED
    BY <2>6, <2>7, <2>8, <2>9, <2>10, <2>11 DEF WalletInv
<1> QED
  BY <1>2, <1>3

\* A locked keystore can be used with the passphrase of the database only.
LEMMA UsableWhenLocked ==
    ASSUME WalletInv, open, ~unlocked, NEW a \in DOMAIN mem, NEW p \in Pass
    PROVE  CanUse(mem, a, p) <=> p = disk[a].privPar
<1>1. /\ mem[a].unlocked = FALSE /\ Memory(mem) /\ a \in DOMAIN disk
      /\ mem[a].par = disk[a].privPar /\ mem[a].enc = disk[a].privPar
  BY DEF WalletInv, KeysMatchLock, MemoryIsDisk, OnePassphrase, TypeOK, Memory
<1>2. PasswordOK(mem, a, p) <=> p = disk[a].privPar
  BY PasswordOfDisk
<1>3. p = disk[a].privPar => CheckPassword(mem, a, p)[a].master = p
  <2>1. SetKey(mem, a, p)[a].master = p
    BY <1>1, SetKeyAlike
  <2> QED
    BY <1>1, <2>1 DEF CheckPassword, DeriveKey, Derived
<1> QED
  BY <1>1, <1>2, <1>3, NilAssumption DEF CanUse, Decrypts

\* An Unlock takes the keystores it reaches one by one.
LEMMA UseAllParts ==
    ASSUME NEW ms, Memory(ms), NEW S \in SUBSET DOMAIN ms, NEW p \in Pass
    PROVE  LET ns == UseAll(ms, S, p)
           IN  /\ Memory(ns) /\ DOMAIN ns = DOMAIN ms
               /\ \A b \in S : ns[b] = UseKeystore(ms, b, p)[b]
               /\ \A b \in DOMAIN ms \ S : Alike(ms[b], ns[b])
<1> DEFINE ns == UseAll(ms, S, p)
<1>1. DOMAIN ns = DOMAIN ms /\ \A b \in S : ns[b] = UseKeystore(ms, b, p)[b]
  BY DEF UseAll
<1>2. \A b \in S : ns[b] \in Manager
  <2> TAKE b \in S
  <2>1. Memory(UseKeystore(ms, b, p)) /\ DOMAIN UseKeystore(ms, b, p) = DOMAIN ms
    BY UseParts
  <2> QED
    BY <1>1, <2>1 DEF Memory
<1>3. ASSUME NEW b \in DOMAIN ms \ S
      PROVE  ns[b] \in Manager /\ Alike(ms[b], ns[b])
  <2>1. ns[b] = ms[b] \/ ns[b] = [ms[b] EXCEPT !.master = Derived(ms[b].par, p)]
    BY DEF UseAll
  <2>2. Derived(ms[b].par, p) \in Pass \cup {Zero} /\ ms[b] \in Manager
    BY DEF Derived, Memory
  <2> HIDE DEF ns
  <2> QED
    BY <2>1, <2>2 DEF Manager, Alike
<1> QED
  BY <1>1, <1>2, <1>3 DEF Memory

\* Unlock: all keystores or, with a wrong passphrase, none.
LEMMA UnlockKeeps ==
    ASSUME WalletInv, NEW p \in Pass, NEW S \in SUBSET DOMAIN mem, Unlock(p, S)
    PROVE  WalletInv'
<1> DEFINE bad == {a \in DOMAIN mem : ~CanUse(mem, a, p)}
<1>1. /\ open /\ DOMAIN mem = DOMAIN disk /\ Memory(mem) /\ TypeOK
      /\ disk' = disk /\ open' = open /\ pubPass' = pubPass /\ file' = file
      /\ mem' = UseAll(mem, S, p)
      /\ Meet("lock")
  BY DEF Unlock, WalletInv, MemoryIsDisk, TypeOK, Memory
<1>2. \/ bad = {} /\ S = DOMAIN mem /\ unlocked' = TRUE /\ raced' = {}
      \/ bad # {} /\ unlocked' = unlocked /\ raced' = raced
  BY DEF Unlock
<1>3. /\ Memory(mem') /\ DOMAIN mem' = DOMAIN mem
      /\ \A b \in S : mem'[b] = UseKeystore(mem, b, p)[b]
      /\ \A b \in DOMAIN mem \ S : Alike(mem[b], mem'[b])
  <2> DEFINE ns == UseAll(mem, S, p)
  <2>1. /\ Memory(ns) /\ DOMAIN ns = DOMAIN mem
        /\ \A b \in S : ns[b] = UseKeystore(mem, b, p)[b]
        /\ \A b \in DOMAIN mem \ S : Alike(mem[b], ns[b])
    BY <1>1, UseAllParts
  <2> QED
    BY <1>1, <2>1
<1>4. ASSUME NEW b \in DOMAIN mem
      PROVE  /\ mem'[b].par = mem[b].par /\ mem'[b].enc = mem[b].enc
             /\ mem'[b].addrs = mem[b].addrs
             /\ b \in S /\ CanUse(mem, b, p) =>
                   /\ mem'[b].unlocked = TRUE /\ mem'[b].hash = p
                   /\ mem'[b].keys = mem[b].keys \cup mem[b].addrs
             /\ ~(b \in S /\ CanUse(mem, b, p)) =>
                   /\ mem'[b].unlocked = mem[b].unlocked /\ mem'[b].keys = mem[b].keys
                   /\ mem'[b].hash = mem[b].hash \/ (mem'[b].hash = p /\ PasswordOK(mem, b, p))
  <2>1. CASE b \notin S
    BY <1>3, <2>1 DEF Alike
  <2>2. CASE b \in S
    <3> DEFINE m == UseKeystore(mem, b, p)[b]
    <3>1. /\ m.par = mem[b].par /\ m.enc = mem[b].enc /\ m.addrs = mem[b].addrs
          /\ m.hash = IF PasswordOK(mem, b, p) THEN p ELSE mem[b].hash
          /\ CanUse(mem, b, p) => m.unlocked /\ m.keys = mem[b].keys \cup mem[b].addrs
          /\ ~CanUse(mem, b, p) => m.unlocked = mem[b].unlocked /\ m.keys = mem[b].keys
      BY <1>1, UseParts
    <3>2. mem'[b] = m /\ m \in Manager
      BY <1>3, <2>2 DEF Memory
    <3>3. m.unlocked \in BOOLEAN
      BY <3>2 DEF Manager
    <3>4. CanUse(mem, b, p) => PasswordOK(mem, b, p)
      BY DEF CanUse
    <3> HIDE DEF m
    <3> QED
      BY <2>2, <3>1, <3>2, <3>3, <3>4
  <2> QED
    BY <2>1, <2>2
<1>5. /\ gen' \in Pending \cup {None}
      /\ gen' = None <=> gen = None
      /\ gen # None => /\ gen'.acct = gen.acct /\ gen'.path = gen.path
                       /\ gen'.private = gen.private /\ gen'.met = gen.met \cup {"lock"}
  BY <1>1, MeetParts
<1>6. TypeOK'
  BY <1>1, <1>2, <1>3, <1>5 DEF TypeOK, Memory
<1>7. QuietWhenClosed' /\ PendingStored' /\ OnePassphrase'
  BY <1>1, <1>3, <1>5 DEF WalletInv, QuietWhenClosed, PendingStored, OnePassphrase
<1>8. MemoryIsDisk'
  <2>1. ASSUME NEW b \in DOMAIN mem
        PROVE  /\ mem'[b].par = disk[b].privPar /\ mem'[b].enc = disk[b].privEnc
               /\ mem'[b].unlocked => mem'[b].hash = disk[b].privPar
               /\ disk[b].pubPar = pubPass
    <3>1. /\ mem[b].par = disk[b].privPar /\ mem[b].enc = disk[b].privEnc
          /\ mem[b].unlocked => mem[b].hash = disk[b].privPar
          /\ disk[b].pubPar = pubPass
      BY <1>1 DEF WalletInv, MemoryIsDisk
    <3>2. PasswordOK(mem, b, p) <=> p = disk[b].privPar
      BY <1>1, PasswordOfDisk
    <3>3. CanUse(mem, b, p) => PasswordOK(mem, b, p)
      BY DEF CanUse
    <3> QED
      BY <1>4, <3>1, <3>2, <3>3
  <2> QED
    BY <1>1, <1>3, <2>1 DEF MemoryIsDisk
<1>9. Indexed'
  <2> SUFFICES ASSUME NEW b \in DOMAIN mem
               PROVE  /\ disk'[b].pks = Below(disk'[b].next)
                      /\ mem'[b].addrs = disk'[b].pks \
                           (IF gen' # None /\ gen'.acct = b /\ gen'.met \subseteq {"lock"}
                            THEN {gen'.path} ELSE {})
    BY <1>1 DEF Indexed
  <2>1. /\ disk[b].pks = Below(disk[b].next)
        /\ mem[b].addrs = disk[b].pks \
             (IF gen # None /\ gen.acct = b /\ gen.met \subseteq {"lock"}
              THEN {gen.path} ELSE {})
    BY <1>1 DEF WalletInv, Indexed
  <2> QED
    BY <1>1, <1>4, <1>5, <2>1
<1>10. KeysMatchLock'
  <2> SUFFICES ASSUME NEW b \in DOMAIN mem
               PROVE  /\ mem'[b].unlocked = unlocked'
                      /\ \A q \in mem'[b].addrs : <<b, q>> \notin raced' =>
                            IF unlocked' THEN mem'[b].unlocked /\ q \in mem'[b].keys
                            ELSE q \notin mem'[b].keys
    BY <1>3 DEF KeysMatchLock, CanSign, GetAddrManager, SignPocec
  <2>1. /\ mem[b].unlocked = unlocked
        /\ \A q \in mem[b].addrs : <<b, q>> \notin raced =>
              IF unlocked THEN q \in mem[b].keys ELSE q \notin mem[b].keys
    BY DEF WalletInv, KeysMatchLock, CanSign, GetAddrManager, SignPocec
  <2>2. CASE bad = {} /\ S = DOMAIN mem /\ unlocked' = TRUE /\ raced' = {}
    BY <1>4, <2>2
  <2>3. CASE bad # {} /\ unlocked' = unlocked /\ raced' = raced
    <3>1. CASE unlocked
      <4>1. unlocked = TRUE
        BY <1>1, <3>1 DEF TypeOK
      <4> QED
        BY <1>4, <2>1, <2>3, <3>1, <4>1
    <3>2. CASE ~unlocked
      <4>1. PICK x \in DOMAIN mem : ~CanUse(mem, x, p)
        BY <2>3
      <4>2. disk[x].privPar = disk[b].privPar
        BY <1>1 DEF WalletInv, OnePassphrase
      <4>3. ~CanUse(mem, b, p)
        BY <1>1, <3>2, <4>1, <4>2, UsableWhenLocked
      <4> QED
        BY <1>4, <2>1, <2>3, <3>2, <4>3
    <3> QED
      BY <3>1, <3>2
  <2> QED
    BY <1>2, <2>2, <2>3
<1> QED
  BY <1>6, <1>7, <1>8, <1>9, <1>10 DEF WalletInv

\* Lock clears every manager.
LEMMA LockKeeps ==
    ASSUME WalletInv, Lock
    PROVE  WalletInv'
<1>1. /\ open /\ DOMAIN mem = DOMAIN disk /\ Memory(mem) /\ TypeOK
      /\ disk' = disk /\ open' = open /\ pubPass' = pubPass /\ file' = file
      /\ unlocked' = FALSE /\ raced' = {} /\ Meet("lock")
      /\ mem' = [a \in DOMAIN mem |-> ClearPrivKeys(mem, a)[a]]
  BY DEF Lock, WalletInv, MemoryIsDisk, TypeOK, Memory
<1>2. ASSUME NEW b \in DOMAIN mem
      PROVE  /\ mem'[b] \in Manager
             /\ mem'[b].unlocked = FALSE /\ mem'[b].keys = {}
             /\ mem'[b].par = mem[b].par /\ mem'[b].enc = mem[b].enc
             /\ mem'[b].addrs = mem[b].addrs
  <2> DEFINE ns == ClearPrivKeys(mem, b)
  <2>1. /\ Memory(ns) /\ DOMAIN ns = DOMAIN mem
        /\ ns[b].unlocked = FALSE /\ ns[b].keys = {}
        /\ ns[b].par = mem[b].par /\ ns[b].enc = mem[b].enc
        /\ ns[b].addrs = mem[b].addrs
    BY <1>1, ClearParts
  <2>2. mem'[b] = ns[b]
    BY <1>1
  <2> HIDE DEF ns
  <2> QED
    BY <2>1, <2>2 DEF Memory
<1>3. DOMAIN mem' = DOMAIN mem
  BY <1>1
<1>4. /\ gen' \in Pending \cup {None}
      /\ gen' = None <=> gen = None
      /\ gen # None => /\ gen'.acct = gen.acct /\ gen'.path = gen.path
                       /\ gen'.private = gen.private /\ gen'.met = gen.met \cup {"lock"}
  BY <1>1, MeetParts
<1>5. TypeOK'
  BY <1>1, <1>2, <1>3, <1>4 DEF TypeOK
<1>6. QuietWhenClosed' /\ PendingStored' /\ OnePassphrase'
  BY <1>1, <1>3, <1>4 DEF WalletInv, QuietWhenClosed, PendingStored, OnePassphrase
<1>7. MemoryIsDisk'
  BY <1>1, <1>2, <1>3 DEF WalletInv, MemoryIsDisk
<1>8. Indexed'
  <2> SUFFICES ASSUME NEW b \in DOMAIN mem
               PROVE  /\ disk'[b].pks = Below(disk'[b].next)
                      /\ mem'[b].addrs = disk'[b].pks \
                           (IF gen' # None /\ gen'.acct = b /\ gen'.met \subseteq {"lock"}
                            THEN {gen'.path} ELSE {})
    BY <1>1 DEF Indexed
  <2>1. /\ disk[b].pks = Below(disk[b].next)
        /\ mem[b].addrs = disk[b].pks \
             (IF gen # None /\ gen.acct = b /\ gen.met \subseteq {"lock"}
              THEN {gen.path} ELSE {})
    BY <1>1 DEF WalletInv, Indexed
  <2> QED
    BY <1>1, <1>2, <1>4, <2>1
<1>9. KeysMatchLock'
  BY <1>1, <1>2, <1>3 DEF KeysMatchLock
<1> QED
  BY <1>5, <1>6, <1>7, <1>8, <1>9 DEF WalletInv

\* A manager given other addresses, private keys and child numbers.
Managed(ms, a, addrs, keys, next) ==
    [ms EXCEPT ![a].addrs = addrs, ![a].keys = keys, ![a].next = next]

\* updateManagedAddress changes one manager.
LEMMA UpdateParts ==
    ASSUME NEW ms, Memory(ms), NEW a \in DOMAIN ms, NEW addrs \in SUBSET Paths,
           NEW keys \in SUBSET Paths, NEW next \in [Branches -> 0 .. MaxAddr]
    PROVE  LET ns == Managed(ms, a, addrs, keys, next)
           IN  /\ Memory(ns) /\ DOMAIN ns = DOMAIN ms
               /\ \A b \in DOMAIN ms \ {a} : ns[b] = ms[b]
               /\ ns[a].unlocked = ms[a].unlocked /\ ns[a].hash = ms[a].hash
               /\ ns[a].par = ms[a].par /\ ns[a].enc = ms[a].enc
               /\ ns[a].addrs = addrs /\ ns[a].keys = keys
<1> DEFINE m == [ms[a] EXCEPT !.addrs = addrs, !.keys = keys, !.next = next]
           ns == Managed(ms, a, addrs, keys, next)
<1>1. ms[a] \in Manager
  BY DEF Memory
<1>2. ns = [ms EXCEPT ![a] = m]
  BY <1>1 DEF Manager, Managed
<1>3. /\ m \in Manager
      /\ m.unlocked = ms[a].unlocked /\ m.hash = ms[a].hash
      /\ m.par = ms[a].par /\ m.enc = ms[a].enc
      /\ m.addrs = addrs /\ m.keys = keys
  BY <1>1 DEF Manager
<1> HIDE DEF m, ns
<1>4. /\ Memory(ns) /\ DOMAIN ns = DOMAIN ms
      /\ \A b \in DOMAIN ms \ {a} : ns[b] = ms[b]
      /\ ns[a] = m
  BY <1>2, <1>3 DEF Memory
<1> QED
  BY <1>3, <1>4 DEF ns

\* An Update of nextAddresses: one row changes, by new keys.
LEMMA AdvanceDisk ==
    ASSUME WalletInv, NEW a \in DOMAIN disk, NEW br \in Branches,
           NEW n \in 1 .. MaxAddr, Room(a, br, n), Advance(a, br, n)
    PROVE  /\ DOMAIN disk' = DOMAIN disk
           /\ \A b \in DOMAIN disk :
                 /\ disk'[b] \in Row
                 /\ disk'[b].privPar = disk[b].privPar /\ disk'[b].privEnc = disk[b].privEnc
                 /\ disk'[b].pubPar = disk[b].pubPar /\ disk'[b].pubEnc = disk[b].pubEnc
                 /\ disk'[b].pks = Below(disk'[b].next)
                 /\ disk'[b].pks = IF b = a THEN disk[a].pks \cup NewPaths(a, br, n)
                                   ELSE disk[b].pks
           /\ NewPaths(a, br, n) \subseteq Paths
           /\ NewPaths(a, br, n) \cap disk[a].pks = {}
<1> DEFINE r == PutEncryptedPubKeys(UpdateChildNum(disk[a], br, disk[a].next[br] + n),
                                    NewPaths(a, br, n))
<1>1. \A b \in DOMAIN disk : disk[b] \in Row /\ disk[b].pks = Below(disk[b].next)
  BY DEF WalletInv, TypeOK, Indexed
<1>2. /\ r \in Row
      /\ r.privPar = disk[a].privPar /\ r.privEnc = disk[a].privEnc
      /\ r.pubPar = disk[a].pubPar /\ r.pubEnc = disk[a].pubEnc
      /\ r.pks = disk[a].pks \cup NewPaths(a, br, n)
      /\ r.pks = Below(r.next)
      /\ NewPaths(a, br, n) \subseteq Paths
      /\ NewPaths(a, br, n) \cap disk[a].pks = {}
  BY <1>1, AdvanceParts
<1>3. disk' = [disk EXCEPT ![a] = r]
  BY DEF Advance
<1> HIDE DEF r
<1>4. DOMAIN disk' = DOMAIN disk /\ disk'[a] = r /\ \A b \in DOMAIN disk \ {a} : disk'[b] = disk[b]
  BY <1>3
<1> QED
  BY <1>1, <1>2, <1>4

\* The passphrases of the database stay when rows gain keys.
LEMMA SamePassphrases ==
    ASSUME OnePassphrase, DOMAIN disk' = DOMAIN disk,
           \A b \in DOMAIN disk :
              /\ disk'[b].privPar = disk[b].privPar /\ disk'[b].privEnc = disk[b].privEnc
              /\ disk'[b].pubPar = disk[b].pubPar /\ disk'[b].pubEnc = disk[b].pubEnc
    PROVE  OnePassphrase'
  BY DEF OnePassphrase

\* nextAddresses: the database and memory gain the same keys.
LEMMA NextAddressesKeeps ==
    ASSUME WalletInv, NEW a \in Accounts, NEW br \in Branches, NEW n \in 1 .. MaxAddr,
           NextAddresses(a, br, n)
    PROVE  WalletInv'
<1> DEFINE new == NewPaths(a, br, n)
<1>1. /\ open /\ a \in DOMAIN mem /\ DOMAIN mem = DOMAIN disk /\ Memory(mem) /\ TypeOK
      /\ open' = open /\ unlocked' = unlocked /\ pubPass' = pubPass /\ gen' = gen
      /\ file' = file /\ raced' = raced
      /\ Room(a, br, n) /\ Advance(a, br, n)
      /\ UpdateManagedAddress(a, new, mem[a].unlocked, disk'[a])
  BY DEF NextAddresses, WalletInv, MemoryIsDisk, TypeOK, Memory
<1>2. /\ DOMAIN disk' = DOMAIN disk
      /\ \A b \in DOMAIN disk :
            /\ disk'[b] \in Row
            /\ disk'[b].privPar = disk[b].privPar /\ disk'[b].privEnc = disk[b].privEnc
            /\ disk'[b].pubPar = disk[b].pubPar /\ disk'[b].pubEnc = disk[b].pubEnc
            /\ disk'[b].pks = Below(disk'[b].next)
            /\ disk'[b].pks = IF b = a THEN disk[a].pks \cup new ELSE disk[b].pks
      /\ new \subseteq Paths
      /\ new \cap disk[a].pks = {}
  BY <1>1, AdvanceDisk
<1> HIDE DEF new
<1>3. mem[a].unlocked = unlocked /\ unlocked \in BOOLEAN
  BY <1>1 DEF WalletInv, KeysMatchLock, TypeOK
<1>4. /\ Memory(mem') /\ DOMAIN mem' = DOMAIN mem
      /\ \A b \in DOMAIN mem \ {a} : mem'[b] = mem[b]
      /\ mem'[a].unlocked = mem[a].unlocked /\ mem'[a].hash = mem[a].hash
      /\ mem'[a].par = mem[a].par /\ mem'[a].enc = mem[a].enc
      /\ mem'[a].addrs = mem[a].addrs \cup new
      /\ mem'[a].keys = IF mem[a].unlocked THEN mem[a].keys \cup new ELSE mem[a].keys \ new
  <2>1. mem[a].unlocked \in BOOLEAN /\ disk'[a] \in Row
    BY <1>1, <1>2, <1>3
  <2> DEFINE addrs == mem[a].addrs \cup new
             keys == IF mem[a].unlocked THEN mem[a].keys \cup new ELSE mem[a].keys \ new
             ns == Managed(mem, a, addrs, keys, disk'[a].next)
  <2>2. mem' = ns
    BY <1>1 DEF UpdateManagedAddress, Managed
  <2>3. addrs \in SUBSET Paths /\ keys \in SUBSET Paths /\ disk'[a].next \in [Branches -> 0 .. MaxAddr]
    BY <1>1, <1>2, <2>1 DEF Memory, Manager, Row
  <2> HIDE DEF addrs, keys
  <2>4. /\ Memory(ns) /\ DOMAIN ns = DOMAIN mem
        /\ \A b \in DOMAIN mem \ {a} : ns[b] = mem[b]
        /\ ns[a].unlocked = mem[a].unlocked /\ ns[a].hash = mem[a].hash
        /\ ns[a].par = mem[a].par /\ ns[a].enc = mem[a].enc
        /\ ns[a].addrs = addrs /\ ns[a].keys = keys
    BY <1>1, <1>2, <2>1, <2>3, UpdateParts
  <2> HIDE DEF ns
  <2> QED
    BY <2>2, <2>4 DEF addrs, keys
<1>5. TypeOK'
  BY <1>1, <1>2, <1>4 DEF TypeOK, Memory
<1>6. OnePassphrase'
  BY <1>2, SamePassphrases DEF WalletInv
<1>7. QuietWhenClosed' /\ PendingStored'
  BY <1>1, <1>2, <1>4 DEF WalletInv, QuietWhenClosed, PendingStored
<1>8. MemoryIsDisk'
  BY <1>1, <1>2, <1>4 DEF WalletInv, MemoryIsDisk
<1>9. Indexed'
  <2> SUFFICES ASSUME NEW b \in DOMAIN mem
               PROVE  mem'[b].addrs = disk'[b].pks \
                           (IF gen' # None /\ gen'.acct = b /\ gen'.met \subseteq {"lock"}
                            THEN {gen'.path} ELSE {})
    BY <1>1, <1>2 DEF Indexed
  <2>1. mem[b].addrs = disk[b].pks \
             (IF gen # None /\ gen.acct = b /\ gen.met \subseteq {"lock"}
              THEN {gen.path} ELSE {})
    BY <1>1 DEF WalletInv, Indexed
  <2>2. gen # None /\ gen.acct = a /\ gen.met \subseteq {"lock"} => gen.path \notin new
    BY <1>2 DEF WalletInv, PendingStored
  <2> QED
    BY <1>1, <1>2, <1>4, <2>1, <2>2
<1>10. KeysMatchLock'
  <2> SUFFICES ASSUME NEW b \in DOMAIN mem
               PROVE  /\ mem'[b].unlocked = unlocked'
                      /\ \A q \in mem'[b].addrs : <<b, q>> \notin raced' =>
                            IF unlocked' THEN mem'[b].unlocked /\ q \in mem'[b].keys
                            ELSE q \notin mem'[b].keys
    BY <1>4 DEF KeysMatchLock, CanSign, GetAddrManager, SignPocec
  <2>1. /\ mem[b].unlocked = unlocked
        /\ \A q \in mem[b].addrs : <<b, q>> \notin raced =>
              IF unlocked THEN q \in mem[b].keys ELSE q \notin mem[b].keys
    BY DEF WalletInv, KeysMatchLock, CanSign, GetAddrManager, SignPocec
  <2> QED
    BY <1>1, <1>3, <1>4, <2>1
<1> QED
  BY <1>5, <1>6, <1>7, <1>8, <1>9, <1>10 DEF WalletInv

\* The key GenerateNewPublicKey puts in the database is not yet managed.
LEMMA GenerateStartsKeeps ==
    ASSUME WalletInv, NEW a \in Accounts, GenerateStarts(a)
    PROVE  WalletInv'
<1> DEFINE path == <<ExternalBranch, disk[a].next[ExternalBranch]>>
<1>1. /\ open /\ a \in DOMAIN mem /\ DOMAIN mem = DOMAIN disk /\ Memory(mem) /\ TypeOK
      /\ open' = open /\ unlocked' = unlocked /\ pubPass' = pubPass /\ mem' = mem
      /\ file' = file /\ raced' = raced
      /\ gen = None
      /\ Room(a, ExternalBranch, 1) /\ Advance(a, ExternalBranch, 1)
      /\ gen' = [acct |-> a, path |-> path, private |-> mem[a].unlocked, met |-> {}]
  BY DEF GenerateStarts, WalletInv, MemoryIsDisk, TypeOK, Memory
<1>2. ExternalBranch \in Branches /\ 1 \in 1 .. MaxAddr
  BY BranchAssumption, MaxAddrAssumption
<1>3. path \in Paths /\ NewPaths(a, ExternalBranch, 1) = {path}
  <2>1. disk[a].next[ExternalBranch] \in 0 .. MaxAddr
    BY <1>1, <1>2 DEF TypeOK, Row
  <2>2. path \in Paths
    BY <1>1, <1>2, <2>1, MaxAddrAssumption DEF Room, Paths
  <2>3. \A q \in Paths : q[1] = ExternalBranch /\ q[2] - disk[a].next[ExternalBranch] \in 0 .. 0
                            <=> q = path
    <3> SUFFICES ASSUME NEW br \in Branches, NEW k \in 0 .. MaxAddr - 1
                 PROVE  br = ExternalBranch /\ k - disk[a].next[ExternalBranch] \in 0 .. 0
                            <=> <<br, k>> = path
      BY DEF Paths
    <3> QED
      BY <2>1, MaxAddrAssumption
  <2>4. 1 - 1 = 0
    OBVIOUS
  <2> QED
    BY <2>2, <2>3, <2>4 DEF NewPaths
<1> HIDE DEF path
<1>4. /\ DOMAIN disk' = DOMAIN disk
      /\ \A b \in DOMAIN disk :
            /\ disk'[b] \in Row
            /\ disk'[b].privPar = disk[b].privPar /\ disk'[b].privEnc = disk[b].privEnc
            /\ disk'[b].pubPar = disk[b].pubPar /\ disk'[b].pubEnc = disk[b].pubEnc
            /\ disk'[b].pks = Below(disk'[b].next)
            /\ disk'[b].pks = IF b = a THEN disk[a].pks \cup {path} ELSE disk[b].pks
      /\ path \notin disk[a].pks
  BY <1>1, <1>2, <1>3, AdvanceDisk
<1>5. mem[a].unlocked = unlocked /\ unlocked \in BOOLEAN
  BY <1>1 DEF WalletInv, KeysMatchLock, TypeOK
<1>6. /\ gen' \in Pending /\ gen' # None
      /\ gen'.acct = a /\ gen'.path = path /\ gen'.private = unlocked /\ gen'.met = {}
  BY <1>1, <1>3, <1>5, NilAssumption DEF Pending
<1>7. TypeOK'
  BY <1>1, <1>4, <1>6 DEF TypeOK
<1>8. OnePassphrase'
  BY <1>4, SamePassphrases DEF WalletInv
<1>9. QuietWhenClosed' /\ PendingStored'
  BY <1>1, <1>4, <1>6 DEF QuietWhenClosed, PendingStored
<1>10. MemoryIsDisk'
  BY <1>1, <1>4 DEF WalletInv, MemoryIsDisk
<1>11. Indexed'
  <2>1. \A b \in DOMAIN disk : mem[b].addrs = disk[b].pks
    BY <1>1 DEF WalletInv, Indexed
  <2> QED
    BY <1>1, <1>4, <1>6, <2>1 DEF Indexed
<1>12. KeysMatchLock'
  BY <1>1 DEF WalletInv, KeysMatchLock, CanSign, GetAddrManager, SignPocec
<1> QED
  BY <1>7, <1>8, <1>9, <1>10, <1>11, <1>12 DEF WalletInv

\* The end of GenerateNewPublicKey: its key is managed, or its keystore was
\* deleted.
LEMMA GenerateEndsKeeps ==
    ASSUME WalletInv, GenerateEnds
    PROVE  WalletInv'
<1>1. /\ open /\ gen # None /\ disk' = disk /\ file' = file
      /\ DOMAIN mem = DOMAIN disk /\ Memory(mem) /\ TypeOK
  BY DEF GenerateEnds, WalletInv, MemoryIsDisk, TypeOK, Memory
<1>2. CASE gen.acct \notin DOMAIN disk
  BY <1>1, <1>2, StoppedKeeps DEF GenerateEnds
<1>3. CASE gen.acct \in DOMAIN disk
  <2> DEFINE a == gen.acct
  <2>1. /\ open' = open /\ unlocked' = unlocked /\ pubPass' = pubPass /\ gen' = None
        /\ raced' = IF gen.met = {"lock"} THEN raced \cup {<<a, gen.path>>} ELSE raced
    BY <1>3 DEF GenerateEnds
  <2>2. gen \in Pending /\ a \in Accounts /\ gen.path \in Paths /\ gen.private \in BOOLEAN
        /\ gen.met \subseteq {"lock", "delete"}
    BY <1>1 DEF TypeOK, Pending
  <2>3. raced' \subseteq Accounts \X Paths
    BY <1>1, <2>1, <2>2 DEF TypeOK
  <2>4. CASE "delete" \in gen.met
    <3>1. mem' = mem /\ raced' = raced /\ ~(gen.met \subseteq {"lock"})
      BY <1>3, <2>1, <2>4 DEF GenerateEnds
    <3>2. TypeOK' /\ QuietWhenClosed' /\ PendingStored' /\ OnePassphrase'
      BY <1>1, <2>1, <3>1
      DEF WalletInv, TypeOK, QuietWhenClosed, PendingStored, OnePassphrase
    <3>3. MemoryIsDisk' /\ Indexed'
      BY <1>1, <2>1, <3>1 DEF WalletInv, MemoryIsDisk, Indexed
    <3>4. KeysMatchLock'
      BY <2>1, <3>1 DEF WalletInv, KeysMatchLock, CanSign, GetAddrManager, SignPocec
    <3> QED
      BY <3>2, <3>3, <3>4 DEF WalletInv
  <2>5. CASE "delete" \notin gen.met
    <3>1. /\ UpdateManagedAddress(a, {gen.path}, gen.private, disk[a])
          /\ gen.met \subseteq {"lock"} /\ disk[a] \in Row /\ a \in DOMAIN mem
          /\ gen.path \in disk[a].pks
      BY <1>1, <1>3, <2>2, <2>5 DEF GenerateEnds, TypeOK, WalletInv, PendingStored
    <3>2. /\ Memory(mem') /\ DOMAIN mem' = DOMAIN mem
          /\ \A b \in DOMAIN mem \ {a} : mem'[b] = mem[b]
          /\ mem'[a].unlocked = mem[a].unlocked /\ mem'[a].hash = mem[a].hash
          /\ mem'[a].par = mem[a].par /\ mem'[a].enc = mem[a].enc
          /\ mem'[a].addrs = mem[a].addrs \cup {gen.path}
          /\ mem'[a].keys = IF gen.private THEN mem[a].keys \cup {gen.path}
                            ELSE mem[a].keys \ {gen.path}
      <4>1. {gen.path} \in SUBSET Paths
        BY <2>2
      <4> DEFINE addrs == mem[a].addrs \cup {gen.path}
                 keys == IF gen.private THEN mem[a].keys \cup {gen.path} ELSE mem[a].keys \ {gen.path}
                 ns == Managed(mem, a, addrs, keys, disk[a].next)
      <4>2. mem' = ns
        BY <3>1 DEF UpdateManagedAddress, Managed
      <4>3. addrs \in SUBSET Paths /\ keys \in SUBSET Paths /\ disk[a].next \in [Branches -> 0 .. MaxAddr]
        BY <1>1, <2>2, <3>1, <4>1 DEF Memory, Manager, Row
      <4> HIDE DEF addrs, keys
      <4>4. /\ Memory(ns) /\ DOMAIN ns = DOMAIN mem
            /\ \A b \in DOMAIN mem \ {a} : ns[b] = mem[b]
            /\ ns[a].unlocked = mem[a].unlocked /\ ns[a].hash = mem[a].hash
            /\ ns[a].par = mem[a].par /\ ns[a].enc = mem[a].enc
            /\ ns[a].addrs = addrs /\ ns[a].keys = keys
        BY <1>1, <2>2, <3>1, <4>1, <4>3, UpdateParts
      <4> HIDE DEF ns
      <4> QED
        BY <4>2, <4>4 DEF addrs, keys
    <3>3. TypeOK'
      BY <1>1, <2>1, <2>3, <3>2 DEF TypeOK, Memory
    <3>4. QuietWhenClosed' /\ PendingStored' /\ OnePassphrase'
      BY <1>1, <2>1 DEF WalletInv, QuietWhenClosed, PendingStored, OnePassphrase
    <3>5. MemoryIsDisk'
      BY <1>1, <2>1, <3>2 DEF WalletInv, MemoryIsDisk
    <3>6. Indexed'
      <4> SUFFICES ASSUME NEW b \in DOMAIN disk
                   PROVE  /\ disk[b].pks = Below(disk[b].next)
                          /\ mem'[b].addrs = disk[b].pks
        BY <1>1, <2>1 DEF Indexed
      <4>1. /\ disk[b].pks = Below(disk[b].next)
            /\ mem[b].addrs = disk[b].pks \ (IF a = b THEN {gen.path} ELSE {})
        BY <1>1, <3>1 DEF WalletInv, Indexed
      <4> QED
        BY <1>1, <3>1, <3>2, <4>1
    <3>7. KeysMatchLock'
      <4> SUFFICES ASSUME NEW b \in DOMAIN mem
                   PROVE  /\ mem'[b].unlocked = unlocked'
                          /\ \A q \in mem'[b].addrs : <<b, q>> \notin raced' =>
                                IF unlocked' THEN mem'[b].unlocked /\ q \in mem'[b].keys
                                ELSE q \notin mem'[b].keys
        BY <3>2 DEF KeysMatchLock, CanSign, GetAddrManager, SignPocec
      <4>1. /\ mem[b].unlocked = unlocked
            /\ \A q \in mem[b].addrs : <<b, q>> \notin raced =>
                  IF unlocked THEN q \in mem[b].keys ELSE q \notin mem[b].keys
        BY DEF WalletInv, KeysMatchLock, CanSign, GetAddrManager, SignPocec
      <4>2. /\ \A q : <<b, q>> \notin raced' => <<b, q>> \notin raced
            /\ <<a, gen.path>> \notin raced' => gen.private = unlocked
        BY <1>1, <2>1, <3>1 DEF WalletInv, PendingStored
      <4> QED
        BY <2>1, <3>2, <4>1, <4>2
    <3> QED
      BY <3>3, <3>4, <3>5, <3>6, <3>7 DEF WalletInv
  <2> QED
    BY <2>4, <2>5
<1> QED
  BY <1>2, <1>3

\* ChangePubPassphrase: the rows of all keystores change, in one Update, to a
\* passphrase that is not the private one.
LEMMA ChangePubKeeps ==
    ASSUME WalletInv, NEW b \in Asked, NEW old \in Pass, NEW p \in Pass, NEW c,
           ChangePubPassphrase(b, old, p, c)
    PROVE  WalletInv'
<1>1. /\ open /\ DOMAIN mem = DOMAIN disk /\ TypeOK
      /\ open' = open /\ unlocked' = unlocked /\ gen' = gen /\ file' = file /\ raced' = raced
      /\ mem' = AfterCheck(b, p)
  BY DEF ChangePubPassphrase, WalletInv, MemoryIsDisk
<1>2. AllAlike(mem, mem')
  BY <1>1, AskedParts
<1> DEFINE new == /\ ~(b # None /\ Accepts(b, p))
                  /\ c
                  /\ \A a \in DOMAIN mem : PubOpens(disk[a], old)
<1>3. CASE ~new
  <2>1. disk' = disk /\ pubPass' = pubPass
    BY <1>3 DEF ChangePubPassphrase
  <2> QED
    BY <1>1, <1>2, <2>1, AlikeKeeps DEF TypeOK
<1>4. CASE new
  <2>1. /\ DOMAIN disk' = DOMAIN disk /\ pubPass' = p
        /\ \A a \in DOMAIN disk :
              disk'[a] = PutCryptoKeys(PutMasterKeyParams(disk[a], p, None), p, None)
    BY <1>1, <1>4 DEF ChangePubPassphrase
  <2>2. ASSUME NEW a \in DOMAIN disk
        PROVE  /\ disk'[a] \in Row
               /\ disk'[a].pubPar = p /\ disk'[a].pubEnc = p
               /\ disk'[a].privPar = disk[a].privPar /\ disk'[a].privEnc = disk[a].privEnc
               /\ disk'[a].next = disk[a].next /\ disk'[a].pks = disk[a].pks
               /\ disk[a].privPar # p
    <3>1. disk[a] \in Row
      BY <1>1 DEF TypeOK
    <3> DEFINE r == PutCryptoKeys(PutMasterKeyParams(disk[a], p, None), p, None)
    <3>2. /\ r \in Row
          /\ r.pubPar = p /\ r.pubEnc = p
          /\ r.privPar = disk[a].privPar /\ r.privEnc = disk[a].privEnc
          /\ r.next = disk[a].next /\ r.pks = disk[a].pks
      BY <3>1, ResealParts
    <3>3. disk[a].privPar # p
      BY <1>1, <1>4, AskedParts
    <3> HIDE DEF r
    <3>4. disk'[a] = r
      BY <2>1 DEF r
    <3> QED
      BY <3>2, <3>3, <3>4
  <2>3. TypeOK'
    BY <1>1, <1>2, <2>1, <2>2 DEF TypeOK, AllAlike, Memory
  <2>4. OnePassphrase'
    BY <2>1, <2>2 DEF WalletInv, OnePassphrase
  <2>5. DOMAIN mem' = DOMAIN mem /\ \A a \in DOMAIN mem : Alike(mem[a], mem'[a])
    BY <1>2 DEF AllAlike
  <2>6. QuietWhenClosed' /\ PendingStored'
    BY <1>1, <2>1, <2>2, <2>5 DEF WalletInv, QuietWhenClosed, PendingStored
  <2>7. MemoryIsDisk'
    BY <1>1, <2>1, <2>2, <2>5 DEF WalletInv, MemoryIsDisk, Alike
  <2>8. Indexed'
    BY <1>1, <2>1, <2>2, <2>5 DEF WalletInv, Indexed, Alike
  <2>9. KeysMatchLock'
    BY <1>1, <2>5 DEF WalletInv, KeysMatchLock, CanSign, GetAddrManager, SignPocec, Alike
  <2> QED
    BY <2>3, <2>4, <2>6, <2>7, <2>8, <2>9 DEF WalletInv
<1> QED
  BY <1>3, <1>4

\* ChangePrivPassphrase: all rows and all managers change, or none.
LEMMA ChangePrivKeeps ==
    ASSUME WalletInv, NEW old \in Pass, NEW p \in Pass, NEW c, NEW S \in SUBSET DOMAIN mem,
           ChangePrivPassphrase(old, p, c, S)
    PROVE  WalletInv'
<1> DEFINE checked == [a \in DOMAIN mem |->
               IF \E b \in S : mem[b].key = mem[a].key /\ ~mem[b].unlocked
               THEN DeriveKey(mem, a, old)[a] ELSE mem[a]]
           bad == {a \in DOMAIN mem : ~Changes(a, old)}
<1>1. /\ open /\ DOMAIN mem = DOMAIN disk /\ TypeOK /\ Memory(mem) /\ p # pubPass
      /\ open' = open /\ unlocked' = unlocked /\ pubPass' = pubPass
      /\ gen' = gen /\ file' = file /\ raced' = raced
  BY DEF ChangePrivPassphrase, WalletInv, MemoryIsDisk, TypeOK, Memory
<1>2. CASE ~(bad = {} /\ c)
  <2>1. mem' = checked /\ disk' = disk
    BY <1>2 DEF ChangePrivPassphrase
  <2>2. ASSUME NEW a \in DOMAIN mem
        PROVE  checked[a] \in Manager /\ Alike(mem[a], checked[a])
    <3>1. AllAlike(mem, DeriveKey(mem, a, old)) /\ AllAlike(mem, mem)
      BY <1>1, CheckAlike
    <3>2. checked[a] = DeriveKey(mem, a, old)[a] \/ checked[a] = mem[a]
      OBVIOUS
    <3> HIDE DEF checked
    <3> QED
      BY <3>1, <3>2 DEF AllAlike, Memory
  <2>3. DOMAIN checked = DOMAIN mem
    OBVIOUS
  <2> HIDE DEF checked
  <2>4. AllAlike(mem, mem')
    BY <1>1, <2>1, <2>2, <2>3 DEF AllAlike, Memory
  <2> QED
    BY <1>1, <2>1, <2>4, AlikeKeeps DEF TypeOK
<1>3. CASE bad = {} /\ c
  <2>1. /\ disk' = [a \in DOMAIN disk |-> IF a \in DOMAIN mem THEN Reseal(a, p) ELSE disk[a]]
        /\ mem' = [a \in DOMAIN mem |->
                      [mem[a] EXCEPT !.par = p, !.enc = p, !.master = p,
                                     !.key = Shared,
                                     !.hash = IF mem[a].unlocked THEN p ELSE Zero]]
    BY <1>3 DEF ChangePrivPassphrase
  <2>2. DOMAIN disk' = DOMAIN disk /\ DOMAIN mem' = DOMAIN mem
    BY <2>1
  <2>3. ASSUME NEW a \in DOMAIN disk
        PROVE  /\ disk'[a] \in Row
               /\ disk'[a].privPar = p /\ disk'[a].privEnc = p
               /\ disk'[a].pubPar = disk[a].pubPar /\ disk'[a].pubEnc = disk[a].pubEnc
               /\ disk'[a].next = disk[a].next /\ disk'[a].pks = disk[a].pks
    <3>1. disk[a] \in Row
      BY <1>1 DEF TypeOK
    <3> DEFINE r == PutCryptoKeys(PutMasterKeyParams(disk[a], None, p), None, p)
    <3>2. /\ r \in Row
          /\ r.privPar = p /\ r.privEnc = p
          /\ r.pubPar = disk[a].pubPar /\ r.pubEnc = disk[a].pubEnc
          /\ r.next = disk[a].next /\ r.pks = disk[a].pks
      BY <3>1, ResealParts
    <3> HIDE DEF r
    <3>3. disk'[a] = r
      BY <1>1, <2>1 DEF r, Reseal
    <3> QED
      BY <3>2, <3>3
  <2>4. ASSUME NEW a \in DOMAIN mem
        PROVE  /\ mem'[a] \in Manager
               /\ mem'[a].par = p /\ mem'[a].enc = p
               /\ mem'[a].unlocked = mem[a].unlocked
               /\ mem[a].unlocked => mem'[a].hash = p
               /\ mem'[a].addrs = mem[a].addrs /\ mem'[a].keys = mem[a].keys
    <3> DEFINE h == IF mem[a].unlocked THEN p ELSE Zero
               m == [mem[a] EXCEPT !.par = p, !.enc = p, !.master = p,
                                   !.key = Shared, !.hash = h]
    <3>1. h \in Pass \cup {Zero} /\ mem[a] \in Manager /\ (mem[a].unlocked => h = p)
      BY <1>1 DEF Memory
    <3>2. mem'[a] = m
      BY <2>1
    <3> HIDE DEF h
    <3>3. /\ m \in Manager /\ m.par = p /\ m.enc = p /\ m.unlocked = mem[a].unlocked
          /\ m.hash = h /\ m.addrs = mem[a].addrs /\ m.keys = mem[a].keys
      BY <3>1 DEF Manager
    <3> HIDE DEF m
    <3> QED
      BY <3>1, <3>2, <3>3
  <2>5. TypeOK'
    BY <1>1, <2>2, <2>3, <2>4 DEF TypeOK
  <2>6. OnePassphrase'
    <3>1. \A a \in DOMAIN disk : disk[a].pubPar = pubPass /\ disk[a].pubEnc = pubPass
      BY <1>1 DEF WalletInv, OnePassphrase, MemoryIsDisk
    <3> QED
      BY <1>1, <2>2, <2>3, <3>1 DEF OnePassphrase
  <2>7. QuietWhenClosed' /\ PendingStored'
    BY <1>1, <2>2, <2>3 DEF WalletInv, QuietWhenClosed, PendingStored
  <2>8. MemoryIsDisk'
    BY <1>1, <2>2, <2>3, <2>4 DEF WalletInv, MemoryIsDisk
  <2>9. Indexed'
    BY <1>1, <2>2, <2>3, <2>4 DEF WalletInv, Indexed
  <2>10. KeysMatchLock'
    BY <1>1, <2>2, <2>4 DEF WalletInv, KeysMatchLock, CanSign, GetAddrManager, SignPocec
  <2> QED
    BY <2>5, <2>6, <2>7, <2>8, <2>9, <2>10 DEF WalletInv
<1> QED
  BY <1>2, <1>3

-----------------------------------------------------------------------------
(* The theorems.                                                           *)

\* The wallet's invariant holds of every behaviour: over calls that fail,
\* calls that overlap a GenerateNewPublicKey, and ends of the process.
THEOREM WalletInvariant == Spec => []WalletInv
<1>1. Init => WalletInv
  BY DEF Init, WalletInv, TypeOK, QuietWhenClosed, PendingStored, OnePassphrase,
         MemoryIsDisk, Indexed, KeysMatchLock
<1>2. WalletInv /\ [Next]_vars => WalletInv'
  <2> SUFFICES ASSUME WalletInv, [Next]_vars
               PROVE  WalletInv'
    OBVIOUS
  <2>1. CASE UNCHANGED vars
    <3>1. UNCHANGED <<disk, open, unlocked, pubPass, gen, raced>> /\ mem' = mem /\ file' = file
      BY <2>1 DEF vars
    <3>2. AllAlike(mem, mem')
      BY <3>1, CheckAlike DEF WalletInv, TypeOK, Memory, AllAlike, Alike
    <3> QED
      BY <3>1, <3>2, AlikeKeeps DEF WalletInv, TypeOK
  <2>2. ASSUME NEW p \in Pass, Open(p) PROVE WalletInv'
    BY <2>2, OpenKeeps
  <2>3. CASE Crash
    BY <2>3, StoppedKeeps DEF Crash
  <2>4. ASSUME NEW b \in Asked, NEW a \in Accounts, NEW p \in Pass, NEW c \in BOOLEAN,
               NewKeystore(b, a, p, c)
        PROVE  WalletInv'
    <3>1. [br \in Branches |-> 0] \in [Branches -> 0 .. MaxAddr]
      BY MaxAddrAssumption
    <3> QED
      BY <2>4, <3>1, AddKeeps DEF NewKeystore
  <2>5. ASSUME NEW b \in Asked, NEW old \in Pass, NEW p \in Pass, NEW c \in BOOLEAN,
               ImportKeystore(b, old, p, c)
        PROVE  WalletInv'
    <3>1. open /\ file \in Exported /\ UNCHANGED <<open, unlocked, pubPass, gen, file, raced>>
      BY <2>5 DEF ImportKeystore, WalletInv, TypeOK
    <3>2. file.acct \in Accounts /\ file.next \in [Branches -> 0 .. MaxAddr]
      BY <3>1 DEF Exported
    <3>3. CASE p = pubPass
      <4>1. UNCHANGED <<disk, mem>>
        BY <2>5, <3>3 DEF ImportKeystore
      <4>2. AllAlike(mem, mem')
        BY <4>1 DEF WalletInv, TypeOK, Memory, AllAlike, Alike
      <4> QED
        BY <3>1, <4>1, <4>2, AlikeKeeps
    <3>4. CASE p # pubPass
      <4>1. AddKeystore(b, file.acct, p, file.next, c /\ FileOpens(file, old))
        BY <2>5, <3>4 DEF ImportKeystore
      <4> QED
        BY <3>1, <3>2, <4>1, AddKeeps
    <3> QED
      BY <3>3, <3>4
  <2>6. ASSUME NEW a \in Accounts, NEW p \in Pass, ExportKeystore(a, p)
        PROVE  WalletInv'
    <3>1. /\ UNCHANGED <<disk, open, unlocked, pubPass, gen, raced>>
          /\ mem' = SafelyCheckPassword(mem, a, p) /\ Memory(mem)
          /\ open /\ a \in DOMAIN mem
          /\ file' = file \/ file' = Export(a)
      BY <2>6 DEF ExportKeystore, WalletInv, TypeOK, Memory
    <3>2. AllAlike(mem, mem')
      BY <3>1, CheckAlike
    <3>3. a \in DOMAIN disk /\ disk[a] \in Row
      BY <3>1 DEF WalletInv, MemoryIsDisk, TypeOK
    <3>4. file' \in Exported \cup {None}
      BY <3>1, <3>3 DEF Export, Exported, Row, WalletInv, TypeOK
    <3> QED
      BY <3>1, <3>2, <3>4, AlikeKeeps
  <2>7. ASSUME NEW a \in Accounts, NEW p \in Pass, NEW c \in BOOLEAN, DeleteKeystore(a, p, c)
        PROVE  WalletInv'
    BY <2>7, DeleteKeeps
  <2>8. ASSUME NEW p \in Pass, NEW S \in SUBSET DOMAIN mem, Unlock(p, S) PROVE WalletInv'
    BY <2>8, UnlockKeeps
  <2>9. CASE Lock
    BY <2>9, LockKeeps
  <2>10. ASSUME NEW a \in Accounts, NEW br \in Branches, NEW n \in 1 .. MaxAddr,
                NextAddresses(a, br, n)
         PROVE  WalletInv'
    BY <2>10, NextAddressesKeeps
  <2>11. ASSUME NEW a \in Accounts, GenerateStarts(a) PROVE WalletInv'
    BY <2>11, GenerateStartsKeeps
  <2>12. CASE GenerateEnds
    BY <2>12, GenerateEndsKeeps
  <2>13. ASSUME NEW b \in Asked, NEW old \in Pass, NEW p \in Pass, NEW c \in BOOLEAN,
                ChangePubPassphrase(b, old, p, c)
         PROVE  WalletInv'
    BY <2>13, ChangePubKeeps
  <2>14. ASSUME NEW old \in Pass, NEW p \in Pass, NEW c \in BOOLEAN,
                NEW S \in SUBSET DOMAIN mem, ChangePrivPassphrase(old, p, c, S)
         PROVE  WalletInv'
    BY <2>14, ChangePrivKeeps
  <2> QED
    BY <2>1, <2>2, <2>3, <2>4, <2>5, <2>6, <2>7, <2>8, <2>9, <2>10, <2>11, <2>12,
       <2>13, <2>14 DEF Next
<1> QED
  BY <1>1, <1>2, PTL DEF Spec

\* All keystores open with one private and one public passphrase, and the two
\* differ: checkPassword may ask any one manager for all.
THEOREM WalletHasOnePassphrase == Spec => []OnePassphrase
<1>1. WalletInv => OnePassphrase
  BY DEF WalletInv
<1> QED
  BY <1>1, WalletInvariant, PTL

\* Memory is what a restart would load, whatever update failed and whichever
\* call was overtaken; no child number is lost or used twice.
THEOREM WalletAgreesWithStore == Spec => []StoreAgrees
<1>1. WalletInv => StoreAgrees
  BY DEF WalletInv, StoreAgrees
<1> QED
  BY <1>1, WalletInvariant, PTL

\* An unlocked wallet signs with every key it manages and a locked one holds
\* no private key, but for the keys a Lock or an Unlock raced with.
THEOREM WalletKeysMatchLock == Spec => []KeysMatchLock
<1>1. WalletInv => KeysMatchLock
  BY DEF WalletInv
<1> QED
  BY <1>1, WalletInvariant, PTL

\* The wallet's state keeps its shape.
THEOREM WalletTyped == Spec => []TypeOK
<1>1. WalletInv => TypeOK
  BY DEF WalletInv
<1> QED
  BY <1>1, WalletInvariant, PTL

-----------------------------------------------------------------------------
(* The wallet's database.                                                  *)

\* a set of numbers that is not empty has a least one: induction below is
\* on the first number for which something fails
LEMMA Least ==
  ASSUME NEW T \in SUBSET Nat, T # {}
  PROVE  \E n \in T : \A k \in T : n <= k
  <1> DEFINE R == OpToRel(<, Nat)
  <1>1. PICK n \in T : \A k \in T : ~(<<k, n>> \in R)
    <2>1. IsWellFoundedOn(R, Nat)
      BY NatLessThanWellFounded
    <2> QED
      BY <2>1, WFMin
  <1>2. \A k \in T : ~(k < n)
    BY <1>1 DEF OpToRel
  <1> QED
    BY <1>2

-----------------------------------------------------------------------------
(* Sequences of characters with a separator.                               *)

Str == Seq(Chars)

\* n, the separator and r
Cut(n, r) == n \o <<Sep>> \o r

\* the same, element by element
LEMMA CutAt ==
  ASSUME NEW n \in Str, NEW r \in Str
  PROVE  /\ Cut(n, r) \in Str
         /\ Len(Cut(n, r)) = Len(n) + 1 + Len(r)
         /\ \A i \in 1 .. Len(n) : Cut(n, r)[i] = n[i]
         /\ Cut(n, r)[Len(n) + 1] = Sep
         /\ \A i \in 1 .. Len(r) : Cut(n, r)[Len(n) + 1 + i] = r[i]
  <1> DEFINE l == n \o <<Sep>>
  <1>1. /\ l \in Str /\ Len(l) = Len(n) + 1
        /\ \A i \in 1 .. Len(n) : l[i] = n[i]
        /\ l[Len(n) + 1] = Sep
    <2>1. <<Sep>> \in Seq(Chars) /\ Len(<<Sep>>) = 1 /\ <<Sep>>[1] = Sep
      <3>1. Sep \in Chars
        BY WalletDBAssumption
      <3> QED
        BY <3>1
    <2>2. Len(n) \in Nat
      BY DEF Str
    <2>3. \A i \in 1 .. Len(n) + 1 :
            l[i] = IF i <= Len(n) THEN n[i] ELSE <<Sep>>[i - Len(n)]
      BY <2>1, ConcatProperties DEF Str
    <2>4. l \in Seq(Chars) /\ Len(l) = Len(n) + 1
      BY <2>1, ConcatProperties DEF Str
    <2> HIDE DEF l
    <2> QED
      BY <2>1, <2>2, <2>3, <2>4 DEF Str
  <1> HIDE DEF l
  <1>2. /\ l \o r \in Str
        /\ Len(l \o r) = Len(l) + Len(r)
        /\ \A i \in 1 .. Len(l) : (l \o r)[i] = l[i]
        /\ \A i \in 1 .. Len(r) : (l \o r)[Len(l) + i] = r[i]
    <2>1. Len(l) \in Nat /\ Len(r) \in Nat
      BY <1>1 DEF Str
    <2>2. /\ l \o r \in Seq(Chars) /\ Len(l \o r) = Len(l) + Len(r)
          /\ \A i \in 1 .. Len(l) + Len(r) :
               (l \o r)[i] = IF i <= Len(l) THEN l[i] ELSE r[i - Len(l)]
      BY <1>1, ConcatProperties DEF Str
    <2> QED
      BY <2>1, <2>2 DEF Str
  <1>3. Len(n) \in Nat /\ Len(r) \in Nat
    BY DEF Str
  <1>4. \A i \in 1 .. Len(n) : (l \o r)[i] = n[i]
    BY <1>1, <1>2, <1>3
  <1>5. (l \o r)[Len(n) + 1] = Sep
    BY <1>1, <1>2, <1>3
  <1> QED
    BY <1>1, <1>2, <1>3, <1>4, <1>5 DEF l, Cut

\* strings with the same characters are the same
LEMMA SameStr ==
  ASSUME NEW x \in Str, NEW y \in Str, Len(x) = Len(y), \A i \in 1 .. Len(x) : x[i] = y[i]
  PROVE  x = y
  BY DEF Str

\* without a separator
Plain(n) == \A i \in 1 .. Len(n) : n[i] # Sep

\* a name has no separator, so where the first one is can be read off
LEMMA NameIsShorter ==
  ASSUME NEW n \in Str, NEW m \in Str, NEW r \in Str, NEW t \in Str,
         Cut(n, r) = Cut(m, t), Plain(m)
  PROVE  Len(m) <= Len(n)
  <1>1. Len(n) \in Nat /\ Len(m) \in Nat
    BY DEF Str
  <1> SUFFICES ASSUME Len(n) < Len(m) PROVE FALSE
    BY <1>1
  <1>2. Cut(n, r)[Len(n) + 1] = Sep
    BY CutAt
  <1>3. Len(n) + 1 \in 1 .. Len(m)
    BY <1>1
  <1>4. Cut(m, t)[Len(n) + 1] = m[Len(n) + 1]
    BY <1>3, CutAt
  <1> QED
    BY <1>2, <1>3, <1>4 DEF Plain

\* what is before the first separator and what is after it
LEMMA CutUnique ==
  ASSUME NEW n \in Str, NEW m \in Str, NEW r \in Str, NEW t \in Str,
         Cut(n, r) = Cut(m, t), Len(n) = Len(m)
  PROVE  n = m /\ r = t
  <1> DEFINE x == Cut(n, r)
             y == Cut(m, t)
  <1>1. /\ Len(x) = Len(n) + 1 + Len(r)
        /\ \A i \in 1 .. Len(n) : x[i] = n[i]
        /\ \A i \in 1 .. Len(r) : x[Len(n) + 1 + i] = r[i]
    BY CutAt
  <1>2. /\ Len(y) = Len(m) + 1 + Len(t)
        /\ \A i \in 1 .. Len(m) : y[i] = m[i]
        /\ \A i \in 1 .. Len(t) : y[Len(m) + 1 + i] = t[i]
    BY CutAt
  <1>3. x = y
    OBVIOUS
  <1> HIDE DEF x, y
  <1>4. Len(n) \in Nat /\ Len(m) \in Nat /\ Len(r) \in Nat /\ Len(t) \in Nat
    BY DEF Str
  <1>5. Len(r) = Len(t)
    BY <1>1, <1>2, <1>3, <1>4
  <1>6. \A i \in 1 .. Len(n) : n[i] = m[i]
    BY <1>1, <1>2, <1>3
  <1>7. ASSUME NEW i \in 1 .. Len(r) PROVE r[i] = t[i]
    <2>1. x[Len(n) + 1 + i] = r[i]
      BY <1>1
    <2>2. y[Len(m) + 1 + i] = t[i]
      BY <1>2, <1>5
    <2> QED
      BY <1>3, <2>1, <2>2
  <1> QED
    BY <1>5, <1>6, <1>7, SameStr

\* two names before the first separator are the same
LEMMA FirstName ==
  ASSUME NEW n \in Str, NEW m \in Str, NEW r \in Str, NEW t \in Str,
         Plain(n), Plain(m),
         Cut(n, r) = Cut(m, t)
  PROVE  n = m /\ r = t
  <1>1. Len(n) <= Len(m) /\ Len(m) <= Len(n)
    BY NameIsShorter
  <1>2. Len(n) \in Nat /\ Len(m) \in Nat
    BY DEF Str
  <1>3. Len(n) = Len(m)
    BY <1>1, <1>2
  <1> QED
    BY <1>3, CutUnique

\* (x _ n) _ r is x _ (n _ r)
LEMMA CutTwice ==
  ASSUME NEW x \in Str, NEW n \in Str, NEW r \in Str
  PROVE  Cut(Cut(x, n), r) = Cut(x, Cut(n, r))
  <1> DEFINE u == Cut(x, n)
             w == Cut(n, r)
             a == Cut(u, r)
             b == Cut(x, w)
  <1>0. Len(x) \in Nat /\ Len(n) \in Nat /\ Len(r) \in Nat
    BY DEF Str
  <1>1. /\ u \in Str /\ Len(u) = Len(x) + 1 + Len(n)
        /\ \A i \in 1 .. Len(x) : u[i] = x[i]
        /\ u[Len(x) + 1] = Sep
        /\ \A i \in 1 .. Len(n) : u[Len(x) + 1 + i] = n[i]
    BY CutAt
  <1>2. /\ w \in Str /\ Len(w) = Len(n) + 1 + Len(r)
        /\ \A i \in 1 .. Len(n) : w[i] = n[i]
        /\ w[Len(n) + 1] = Sep
        /\ \A i \in 1 .. Len(r) : w[Len(n) + 1 + i] = r[i]
    BY CutAt
  <1> HIDE DEF u, w
  <1>3. /\ a \in Str /\ Len(a) = Len(u) + 1 + Len(r)
        /\ \A i \in 1 .. Len(u) : a[i] = u[i]
        /\ a[Len(u) + 1] = Sep
        /\ \A i \in 1 .. Len(r) : a[Len(u) + 1 + i] = r[i]
    BY <1>1, CutAt
  <1>4. /\ b \in Str /\ Len(b) = Len(x) + 1 + Len(w)
        /\ \A i \in 1 .. Len(x) : b[i] = x[i]
        /\ b[Len(x) + 1] = Sep
        /\ \A i \in 1 .. Len(w) : b[Len(x) + 1 + i] = w[i]
    BY <1>2, CutAt
  <1> HIDE DEF a, b
  <1>5. Len(a) = Len(b) /\ Len(a) = Len(x) + Len(n) + Len(r) + 2
    BY <1>0, <1>1, <1>2, <1>3, <1>4
  <1>6. ASSUME NEW i \in 1 .. Len(a) PROVE a[i] = b[i]
    <2>1. CASE i <= Len(x)
      BY <1>0, <1>1, <1>3, <1>4, <2>1
    <2>2. CASE i = Len(x) + 1
      BY <1>0, <1>1, <1>3, <1>4, <2>2
    <2>3. CASE i > Len(x) + 1 /\ i <= Len(u)
      <3> DEFINE j == i - (Len(x) + 1)
      <3>1. j \in 1 .. Len(n) /\ i = Len(x) + 1 + j /\ j \in 1 .. Len(w)
        BY <1>0, <1>1, <1>2, <2>3
      <3> HIDE DEF j
      <3>2. a[i] = n[j]
        BY <1>0, <1>1, <1>3, <2>3, <3>1
      <3>3. b[i] = n[j]
        BY <1>2, <1>4, <3>1
      <3> QED
        BY <3>2, <3>3
    <2>4. CASE i = Len(u) + 1
      <3>1. i = Len(x) + 1 + (Len(n) + 1) /\ Len(n) + 1 \in 1 .. Len(w)
        BY <1>0, <1>1, <1>2, <2>4
      <3>2. b[Len(x) + 1 + (Len(n) + 1)] = w[Len(n) + 1]
        BY <1>4, <3>1
      <3> QED
        BY <1>2, <1>3, <2>4, <3>1, <3>2
    <2>5. CASE i > Len(u) + 1
      <3> DEFINE j == i - (Len(u) + 1)
      <3>1. /\ j \in 1 .. Len(r) /\ i = Len(u) + 1 + j
            /\ i = Len(x) + 1 + (Len(n) + 1 + j) /\ Len(n) + 1 + j \in 1 .. Len(w)
        BY <1>0, <1>1, <1>2, <1>5, <2>5
      <3> HIDE DEF j
      <3>2. a[i] = r[j]
        BY <1>3, <3>1
      <3>3. b[i] = w[Len(n) + 1 + j]
        BY <1>4, <3>1
      <3> QED
        BY <1>2, <3>1, <3>2, <3>3
    <2>6. /\ i <= Len(x) \/ i = Len(x) + 1 \/ i > Len(x) + 1
          /\ i <= Len(u) \/ i = Len(u) + 1 \/ i > Len(u) + 1
      BY <1>0, <1>1
    <2> QED
      BY <2>1, <2>2, <2>3, <2>4, <2>5, <2>6
  <1>7. a = b
    BY <1>3, <1>4, <1>5, <1>6, SameStr
  <1> QED
    BY <1>7 DEF a, b, u, w

-----------------------------------------------------------------------------
(* The flat keys of paths.                                                 *)

\* a valid name is a string of its own, without a separator
LEMMA NameFacts ==
  ASSUME NEW n \in ValidNames
  PROVE  n \in Str /\ n \in Names /\ Plain(n)
  <1>1. n \in Names /\ Sep \notin Range(n)
    BY DEF ValidNames, IsValidBucketName
  <1>2. n \in Str
    BY <1>1, WalletDBAssumption DEF Str
  <1>3. DOMAIN n = 1 .. Len(n)
    BY <1>2 DEF Str
  <1> QED
    BY <1>1, <1>2, <1>3 DEF Range, Plain

\* the paths of buckets: one to MaxDepth valid names
LEMMA PathFacts ==
  /\ MaxDepth \in Nat /\ MaxDepth <= 8 /\ MaxDepth >= 1
  /\ \A p \in BucketPaths : /\ p \in Seq(ValidNames) /\ Len(p) \in 1 .. MaxDepth
                            /\ \A i \in 1 .. Len(p) : p[i] \in ValidNames
  /\ \A p \in Seq(ValidNames) : Len(p) \in 1 .. MaxDepth => p \in BucketPaths
  <1>1. MaxDepth \in Nat /\ MaxDepth <= 8 /\ MaxDepth >= 1
    BY WalletDBAssumption
  <1>2. ASSUME NEW p \in BucketPaths
        PROVE  /\ p \in Seq(ValidNames) /\ Len(p) \in 1 .. MaxDepth
               /\ \A i \in 1 .. Len(p) : p[i] \in ValidNames
    <2>1. PICK d \in 1 .. MaxDepth : p \in [1 .. d -> ValidNames]
      BY DEF BucketPaths
    <2> QED
      BY <1>1, <2>1
  <1>3. ASSUME NEW p \in Seq(ValidNames), Len(p) \in 1 .. MaxDepth PROVE p \in BucketPaths
    <2>1. p \in [1 .. Len(p) -> ValidNames]
      OBVIOUS
    <2> QED
      BY <1>3, <2>1 DEF BucketPaths
  <1> QED
    BY <1>1, <1>2, <1>3

\* the depths are characters, all different, and none is the b of an index entry
LEMMA DepthFacts ==
  /\ \A d \in 1 .. 9 : Depths[d] \in Chars /\ Depths[d] # "b"
  /\ \A d, e \in 1 .. 9 : d # e => Depths[d] # Depths[e]
  /\ Depths[1] = "1" /\ "b" \in Chars /\ Sep \in Chars
  <1>1. DOMAIN Depths = 1 .. 9
    BY DEF Depths
  <1>2. \A d \in 1 .. 9 : Depths[d] \in Chars
    BY <1>1, WalletDBAssumption DEF Range
  <1>3. \A d \in 1 .. 9 : Depths[d] # "b"
    BY DEF Depths
  <1>4. \A d, e \in 1 .. 9 : d # e => Depths[d] # Depths[e]
    BY DEF Depths
  <1>5. Depths[1] = "1"
    BY DEF Depths
  <1> QED
    BY <1>2, <1>3, <1>4, <1>5, WalletDBAssumption

\* the loop of joinBucketPath
IsJoin(f, d, p) ==
    /\ f[0] = <<Depths[d]>>
    /\ \A i \in 1 .. Len(p) : f[i] = Cut(f[i - 1], p[i])

\* the loop of joinBucketPath, name by name
LEMMA JoinRounds ==
  ASSUME NEW d, NEW p \in Seq(ValidNames)
  PROVE  \E f : IsJoin(f, d, p) /\ JoinBucketPath(d, p) = f[Len(p)]
  <1> DEFINE m == Len(p)
             Round(i, x) == Cut(x, p[i])
             base == <<Depths[d]>>
             Loop(f, k) == f[0] = base /\ \A i \in 1 .. k : f[i] = Round(i, f[i - 1])
             Body(f) == [i \in 0 .. m |-> IF i = 0 THEN base ELSE Round(i, f[i - 1])]
             join == CHOOSE f : f = Body(f)
             T == {k \in 0 .. m : ~ \E f : Loop(f, k)}
  <1>0. JoinBucketPath(d, p) = join[m]
    BY DEF JoinBucketPath, Cut
  <1>1. m \in Nat
    OBVIOUS
  <1> HIDE DEF m, Round, base
  <1>2. T = {}
    <2> SUFFICES ASSUME T # {} PROVE FALSE
      OBVIOUS
    <2>1. PICK k \in T : \A j \in T : k <= j
      <3>1. T \in SUBSET Nat
        BY <1>1
      <3> QED
        BY <3>1, Least
    <2>2. k \in 0 .. m /\ ~ \E f : Loop(f, k)
      BY <2>1
    <2>3. CASE k = 0
      <3> DEFINE g == [n \in 0 .. 0 |-> base]
      <3>1. g[0] = base
        OBVIOUS
      <3>2. \A i \in 1 .. k : FALSE
        BY <2>3
      <3> HIDE DEF g
      <3>3. Loop(g, k)
        BY <3>1, <3>2
      <3> QED
        BY <2>2, <3>3
    <2>4. CASE k # 0
      <3>1. k - 1 \in 0 .. m /\ k \in 1 .. m /\ k \in Nat /\ k - 1 < k
        BY <1>1, <2>2, <2>4
      <3>2. k - 1 \notin T
        <4> HIDE DEF T
        <4> QED
          BY <2>1, <3>1
      <3>3. PICK g : Loop(g, k - 1)
        BY <3>1, <3>2
      <3> DEFINE h == [i \in 0 .. k |-> IF i = k THEN Round(k, g[k - 1]) ELSE g[i]]
      <3>4. h[0] = base
        BY <2>4, <3>1, <3>3
      <3>5. ASSUME NEW i \in 1 .. k PROVE h[i] = Round(i, h[i - 1])
        <4>1. i - 1 \in 0 .. k /\ i - 1 # k /\ h[i - 1] = g[i - 1]
          BY <3>1
        <4>2. CASE i = k
          BY <3>1, <4>1, <4>2
        <4>3. CASE i # k
          <5>1. i \in 1 .. k - 1 /\ h[i] = g[i]
            BY <3>1, <4>3
          <5> QED
            BY <3>3, <4>1, <5>1
        <4> QED
          BY <4>2, <4>3
      <3> HIDE DEF h
      <3>6. Loop(h, k)
        BY <3>4, <3>5
      <3> QED
        BY <2>2, <3>6
    <2> QED
      BY <2>3, <2>4
  <1>3. PICK f : Loop(f, m)
    <2>1. m \in 0 .. m
      BY <1>1
    <2> HIDE DEF Loop
    <2>2. \A k \in 0 .. m : \E f : Loop(f, k)
      BY <1>2
    <2> QED
      BY <2>1, <2>2
  <1>4. [i \in 0 .. m |-> f[i]] = Body([i \in 0 .. m |-> f[i]])
    <2> DEFINE g == [i \in 0 .. m |-> f[i]]
    <2>1. ASSUME NEW i \in 0 .. m
          PROVE  g[i] = IF i = 0 THEN base ELSE Round(i, g[i - 1])
      <3>1. CASE i = 0
        BY <1>3, <3>1
      <3>2. CASE i # 0
        <4>1. i \in 1 .. m /\ i - 1 \in 0 .. m
          BY <1>1, <3>2
        <4>2. g[i] = f[i] /\ g[i - 1] = f[i - 1]
          BY <4>1
        <4> QED
          BY <1>3, <3>2, <4>1, <4>2
      <3> QED
        BY <3>1, <3>2
    <2> QED
      BY <2>1
  <1>5. join = Body(join)
    BY <1>4
  <1> HIDE DEF join
  <1>6. join[0] = base /\ \A i \in 1 .. m : join[i] = Round(i, join[i - 1])
    BY <1>1, <1>5
  <1> QED
    BY <1>0, <1>6 DEF IsJoin, m, Round, base

\* what a join has after each name: characters, the depth first
LEMMA JoinTypes ==
  ASSUME NEW d \in 1 .. 9, NEW p \in Seq(ValidNames), NEW f, IsJoin(f, d, p)
  PROVE  \A i \in 0 .. Len(p) : f[i] \in Str /\ Len(f[i]) >= 1 /\ f[i][1] = Depths[d]
  <1> DEFINE T == {i \in 0 .. Len(p) : ~(f[i] \in Str /\ Len(f[i]) >= 1 /\ f[i][1] = Depths[d])}
  <1> SUFFICES ASSUME T # {} PROVE FALSE
    OBVIOUS
  <1>1. PICK k \in T : \A j \in T : k <= j
    <2>1. T \in SUBSET Nat
      OBVIOUS
    <2> QED
      BY <2>1, Least
  <1>2. k \in 0 .. Len(p) /\ ~(f[k] \in Str /\ Len(f[k]) >= 1 /\ f[k][1] = Depths[d])
    BY <1>1
  <1>3. CASE k = 0
    <2>1. Depths[d] \in Chars
      BY DepthFacts
    <2>2. f[k] = <<Depths[d]>>
      BY <1>3 DEF IsJoin
    <2> QED
      BY <1>2, <2>1, <2>2 DEF Str
  <1>4. CASE k # 0
    <2>1. k \in 1 .. Len(p) /\ k - 1 \in 0 .. Len(p) /\ k - 1 < k
      BY <1>2, <1>4
    <2>2. k - 1 \notin T
      <3> HIDE DEF T
      <3> QED
        BY <1>1, <2>1
    <2>3. f[k - 1] \in Str /\ Len(f[k - 1]) >= 1 /\ f[k - 1][1] = Depths[d]
      BY <2>1, <2>2
    <2>4. f[k] = Cut(f[k - 1], p[k])
      BY <2>1 DEF IsJoin
    <2>5. p[k] \in Str
      <3>1. p[k] \in ValidNames
        BY <2>1
      <3> QED
        BY <3>1, NameFacts
    <2> DEFINE x == f[k - 1]
               n == p[k]
               y == f[k]
    <2>6. x \in Str /\ n \in Str /\ y = Cut(x, n) /\ Len(x) >= 1 /\ x[1] = Depths[d]
      BY <2>3, <2>4, <2>5
    <2>7. ~(y \in Str /\ Len(y) >= 1 /\ y[1] = Depths[d])
      BY <1>2
    <2> HIDE DEF x, n, y
    <2>8. /\ y \in Str /\ Len(y) = Len(x) + 1 + Len(n)
          /\ \A i \in 1 .. Len(x) : y[i] = x[i]
      BY <2>6, CutAt
    <2>9. Len(x) \in Nat /\ Len(n) \in Nat
      BY <2>6 DEF Str
    <2>10. 1 \in 1 .. Len(x) /\ Len(y) >= 1
      BY <2>6, <2>8, <2>9
    <2> QED
      BY <2>6, <2>7, <2>8, <2>10
  <1> QED
    BY <1>3, <1>4

\* a joined path is a string that begins with its depth
LEMMA JoinType ==
  ASSUME NEW d \in 1 .. 9, NEW p \in Seq(ValidNames)
  PROVE  /\ JoinBucketPath(d, p) \in Str /\ Len(JoinBucketPath(d, p)) >= 1
         /\ JoinBucketPath(d, p)[1] = Depths[d]
  <1>1. PICK f : IsJoin(f, d, p) /\ JoinBucketPath(d, p) = f[Len(p)]
    BY JoinRounds
  <1>2. Len(p) \in 0 .. Len(p)
    OBVIOUS
  <1> QED
    BY <1>1, <1>2, JoinTypes

\* no names: the depth alone
LEMMA JoinEmpty ==
  ASSUME NEW d
  PROVE  JoinBucketPath(d, <<>>) = <<Depths[d]>>
  <1>1. PICK f : IsJoin(f, d, <<>>) /\ JoinBucketPath(d, <<>>) = f[Len(<<>>)]
    <2>1. <<>> \in Seq(ValidNames)
      OBVIOUS
    <2> QED
      BY <2>1, JoinRounds
  <1> QED
    BY <1>1 DEF IsJoin

\* subBucket's path is its parent's, the separator and the name
LEMMA JoinAppend ==
  ASSUME NEW d, NEW p \in Seq(ValidNames), NEW n \in ValidNames
  PROVE  JoinBucketPath(d, Append(p, n)) = Cut(JoinBucketPath(d, p), n)
  <1> DEFINE q == Append(p, n)
  <1>1. /\ q \in Seq(ValidNames) /\ Len(q) = Len(p) + 1 /\ q[Len(p) + 1] = n
        /\ \A i \in 1 .. Len(p) : q[i] = p[i]
    OBVIOUS
  <1> HIDE DEF q
  <1>2. PICK f : IsJoin(f, d, p) /\ JoinBucketPath(d, p) = f[Len(p)]
    BY JoinRounds
  <1>3. PICK g : IsJoin(g, d, q) /\ JoinBucketPath(d, q) = g[Len(q)]
    BY <1>1, JoinRounds
  <1> DEFINE T == {i \in 0 .. Len(p) : f[i] # g[i]}
  <1>4. T = {}
    <2> SUFFICES ASSUME T # {} PROVE FALSE
      OBVIOUS
    <2>1. PICK k \in T : \A j \in T : k <= j
      <3>1. T \in SUBSET Nat
        OBVIOUS
      <3> QED
        BY <3>1, Least
    <2>2. k \in 0 .. Len(p) /\ f[k] # g[k]
      BY <2>1
    <2>3. CASE k = 0
      BY <1>2, <1>3, <2>2, <2>3 DEF IsJoin
    <2>4. CASE k # 0
      <3>1. k \in 1 .. Len(p) /\ k \in 1 .. Len(q) /\ k - 1 \in 0 .. Len(p) /\ k - 1 < k
        BY <1>1, <2>2, <2>4
      <3>2. k - 1 \notin T
        <4> HIDE DEF T
        <4> QED
          BY <2>1, <3>1
      <3>3. f[k - 1] = g[k - 1]
        BY <3>1, <3>2
      <3>4. f[k] = Cut(f[k - 1], p[k])
        BY <1>2, <3>1 DEF IsJoin
      <3>5. g[k] = Cut(g[k - 1], q[k])
        BY <1>3, <3>1 DEF IsJoin
      <3> QED
        BY <1>1, <2>2, <3>1, <3>3, <3>4, <3>5
    <2> QED
      BY <2>3, <2>4
  <1>5. f[Len(p)] = g[Len(p)] /\ Len(q) \in 1 .. Len(q) /\ Len(q) - 1 = Len(p)
    <2>1. Len(p) \in 0 .. Len(p)
      OBVIOUS
    <2>2. f[Len(p)] = g[Len(p)]
      BY <1>4, <2>1
    <2> QED
      BY <1>1, <2>2
  <1>6. g[Len(q)] = Cut(g[Len(q) - 1], q[Len(q)])
    BY <1>3, <1>5 DEF IsJoin
  <1>7. JoinBucketPath(d, q) = Cut(JoinBucketPath(d, p), n)
    BY <1>1, <1>2, <1>3, <1>5, <1>6
  <1> QED
    BY <1>7 DEF q

\* a path with a name is one with a name less and its last
LEMMA LastName ==
  ASSUME NEW p \in Seq(ValidNames), NEW m \in Nat, Len(p) = m + 1
  PROVE  \E r \in Seq(ValidNames), n \in ValidNames : Len(r) = m /\ p = Append(r, n)
  <1> DEFINE r == SubSeq(p, 1, m)
  <1>1. r \in Seq(ValidNames) /\ Len(r) = m /\ \A i \in 1 .. m : r[i] = p[i]
    OBVIOUS
  <1>2. p[m + 1] \in ValidNames
    OBVIOUS
  <1> HIDE DEF r
  <1>3. Append(r, p[m + 1]) = p
    <2> DEFINE q == Append(r, p[m + 1])
    <2>1. q \in Seq(ValidNames) /\ Len(q) = m + 1 /\ q[m + 1] = p[m + 1] /\ \A i \in 1 .. m : q[i] = r[i]
      BY <1>1, <1>2
    <2> HIDE DEF q
    <2>2. \A i \in 1 .. m + 1 : q[i] = p[i]
      BY <1>1, <2>1
    <2>3. q = p
      BY <2>1, <2>2, SeqEqual
    <2> QED
      BY <2>3 DEF q
  <1> QED
    BY <1>1, <1>2, <1>3

\* The flat key tells the bucket and the key: the names hold no separator.
LEMMA JoinUnique ==
  ASSUME NEW d \in 1 .. 9, NEW p \in Seq(ValidNames), NEW q \in Seq(ValidNames), Len(p) = Len(q),
         NEW r \in Str, NEW t \in Str,
         Cut(JoinBucketPath(d, p), r) = Cut(JoinBucketPath(d, q), t)
  PROVE  p = q /\ r = t
  <1> DEFINE Same(k) ==
               \A x, y \in Seq(ValidNames) : \A u, v \in Str :
                 /\ Len(x) = k /\ Len(y) = k
                 /\ Cut(JoinBucketPath(d, x), u) = Cut(JoinBucketPath(d, y), v)
                 => x = y /\ u = v
             T == {k \in Nat : ~Same(k)}
  <1>1. T = {}
    <2> SUFFICES ASSUME T # {} PROVE FALSE
      OBVIOUS
    <2>1. PICK k \in T : \A j \in T : k <= j
      <3>1. T \in SUBSET Nat
        OBVIOUS
      <3> QED
        BY <3>1, Least
    <2>2. k \in Nat /\ ~Same(k)
      BY <2>1
    <2>3. PICK x \in Seq(ValidNames), y \in Seq(ValidNames), u \in Str, v \in Str :
            /\ Len(x) = k /\ Len(y) = k
            /\ Cut(JoinBucketPath(d, x), u) = Cut(JoinBucketPath(d, y), v)
            /\ ~(x = y /\ u = v)
      BY <2>2
    <2>4. CASE k = 0
      <3>1. x = <<>> /\ y = <<>>
        BY <2>3, <2>4
      <3>2. JoinBucketPath(d, <<>>) \in Str
        <4>1. <<>> \in Seq(ValidNames)
          OBVIOUS
        <4> QED
          BY <4>1, JoinType
      <3>3. u = v
        BY <2>3, <3>1, <3>2, CutUnique
      <3> QED
        BY <2>3, <3>1, <3>3
    <2>5. CASE k # 0
      <3>1. k - 1 \in Nat /\ k = (k - 1) + 1 /\ k - 1 < k
        BY <2>2, <2>5
      <3>2. k - 1 \notin T
        <4> HIDE DEF T
        <4> QED
          BY <2>1, <3>1
      <3>3. Same(k - 1)
        BY <3>1, <3>2
      <3>4. PICK x1 \in Seq(ValidNames), n \in ValidNames : Len(x1) = k - 1 /\ x = Append(x1, n)
        BY <2>3, <3>1, LastName
      <3>5. PICK y1 \in Seq(ValidNames), m \in ValidNames : Len(y1) = k - 1 /\ y = Append(y1, m)
        BY <2>3, <3>1, LastName
      <3> DEFINE a == JoinBucketPath(d, x1)
                 b == JoinBucketPath(d, y1)
                 nu == Cut(n, u)
                 mv == Cut(m, v)
      <3>6. a \in Str /\ b \in Str
        BY JoinType
      <3>7. n \in Str /\ m \in Str /\ Plain(n) /\ Plain(m)
        BY NameFacts
      <3>8. nu \in Str /\ mv \in Str
        BY <3>7, CutAt
      <3>9. JoinBucketPath(d, x) = Cut(a, n) /\ JoinBucketPath(d, y) = Cut(b, m)
        BY <3>4, <3>5, JoinAppend
      <3>10. /\ Cut(Cut(a, n), u) = Cut(a, nu)
             /\ Cut(Cut(b, m), v) = Cut(b, mv)
        BY <3>6, <3>7, CutTwice
      <3>11. Cut(a, nu) = Cut(b, mv)
        BY <2>3, <3>9, <3>10
      <3>12. x1 = y1 /\ nu = mv
        <4> HIDE DEF nu, mv
        <4> QED
          BY <3>3, <3>4, <3>5, <3>8, <3>11
      <3>13. n = m /\ u = v
        <4>1. Cut(n, u) = Cut(m, v)
          BY <3>12
        <4> HIDE DEF nu, mv
        <4> QED
          BY <3>7, <4>1, FirstName
      <3> QED
        BY <2>3, <3>4, <3>5, <3>12, <3>13
    <2> QED
      BY <2>4, <2>5
  <1>2. Same(Len(p))
    BY <1>1
  <1> QED
    BY <1>2

\* what x \o z begins with, and the other way round
LEMMA PrefixRest ==
  ASSUME NEW x \in Str, NEW y \in Str
  PROVE  IsPrefix(x, y) <=> \E z \in Str : y = x \o z
  <1>0. Len(x) \in Nat /\ Len(y) \in Nat
    BY DEF Str
  <1>1. ASSUME IsPrefix(x, y) PROVE \E z \in Str : y = x \o z
    <2> DEFINE z == SubSeq(y, Len(x) + 1, Len(y))
    <2>1. Len(x) <= Len(y) /\ SubSeq(x, 1, Len(x)) = SubSeq(y, 1, Len(x))
      BY <1>1 DEF IsPrefix
    <2>2. \A i \in 1 .. Len(x) : x[i] = y[i]
      <3>1. \A i \in 1 .. Len(x) : SubSeq(x, 1, Len(x))[i] = x[i] /\ SubSeq(y, 1, Len(x))[i] = y[i]
        BY <1>0, <2>1 DEF Str
      <3> QED
        BY <2>1, <3>1
    <2>3. z \in Str /\ Len(z) = Len(y) - Len(x) /\ \A i \in 1 .. Len(y) - Len(x) : z[i] = y[Len(x) + i]
      BY <1>0, <2>1 DEF Str
    <2> HIDE DEF z
    <2>4. /\ x \o z \in Str /\ Len(x \o z) = Len(x) + Len(z)
          /\ \A i \in 1 .. Len(x) + Len(z) :
               (x \o z)[i] = IF i <= Len(x) THEN x[i] ELSE z[i - Len(x)]
      BY <2>3, ConcatProperties DEF Str
    <2> DEFINE w == x \o z
    <2>5. ASSUME NEW i \in 1 .. Len(y) PROVE w[i] = y[i]
      <3>1. CASE i <= Len(x)
        BY <1>0, <2>1, <2>2, <2>3, <2>4, <3>1
      <3>2. CASE ~(i <= Len(x))
        <4>1. i - Len(x) \in 1 .. Len(y) - Len(x) /\ Len(x) + (i - Len(x)) = i
          BY <1>0, <2>1, <3>2
        <4>2. w[i] = z[i - Len(x)]
          BY <1>0, <2>1, <2>3, <2>4, <3>2
        <4> QED
          BY <2>3, <4>1, <4>2
      <3> QED
        BY <3>1, <3>2
    <2>6. w \in Str /\ Len(w) = Len(y)
      BY <1>0, <2>1, <2>3, <2>4
    <2>7. w = y
      BY <2>5, <2>6, SameStr
    <2> QED
      BY <2>3, <2>7
  <1>2. ASSUME NEW z \in Str, y = x \o z PROVE IsPrefix(x, y)
    <2>1. /\ Len(y) = Len(x) + Len(z) /\ Len(z) \in Nat
          /\ \A i \in 1 .. Len(x) + Len(z) :
               y[i] = IF i <= Len(x) THEN x[i] ELSE z[i - Len(x)]
      BY <1>2, ConcatProperties DEF Str
    <2>2. Len(x) <= Len(y) /\ \A i \in 1 .. Len(x) : y[i] = x[i]
      BY <1>0, <2>1
    <2> DEFINE a == SubSeq(x, 1, Len(x))
               b == SubSeq(y, 1, Len(x))
    <2>3. /\ a \in Str /\ Len(a) = Len(x) /\ \A i \in 1 .. Len(x) : a[i] = x[i]
          /\ b \in Str /\ Len(b) = Len(x) /\ \A i \in 1 .. Len(x) : b[i] = y[i]
      BY <1>0, <2>2 DEF Str
    <2> HIDE DEF a, b
    <2>4. a = b
      BY <2>2, <2>3, SameStr
    <2> QED
      BY <2>2, <2>4 DEF IsPrefix, a, b
  <1> QED
    BY <1>1, <1>2

\* what follows is appended behind the separator
LEMMA CutCat ==
  ASSUME NEW a \in Str, NEW x \in Str, NEW z \in Str
  PROVE  Cut(a, x \o z) = Cut(a, x) \o z
  <1>1. <<Sep>> \in Seq(Chars)
    <2>1. Sep \in Chars
      BY DepthFacts
    <2> QED
      BY <2>1
  <1>2. a \o <<Sep>> \in Seq(Chars)
    BY <1>1, ConcatProperties DEF Str
  <1> DEFINE l == a \o <<Sep>>
  <1> HIDE DEF l
  <1>3. (l \o x) \o z = l \o (x \o z)
    BY <1>2, ConcatAssociative DEF Str, l
  <1> QED
    BY <1>3 DEF Cut, l

\* a prefix that ends within what follows the separator
LEMMA CutPrefix ==
  ASSUME NEW a \in Str, NEW x \in Str, NEW y \in Str
  PROVE  IsPrefix(Cut(a, x), y) <=> \E z \in Str : y = Cut(a, x \o z)
  <1>1. Cut(a, x) \in Str
    BY CutAt
  <1>2. IsPrefix(Cut(a, x), y) <=> \E z \in Str : y = Cut(a, x) \o z
    BY <1>1, PrefixRest
  <1> QED
    BY <1>2, CutCat

\* a separator at the end
LEMMA CutEmpty ==
  ASSUME NEW a \in Str
  PROVE  <<>> \in Str /\ Cut(a, <<>>) = a \o <<Sep>>
  <1>1. Sep \in Chars
    BY DepthFacts
  <1>2. a \o <<Sep>> \in Seq(Chars)
    BY <1>1, ConcatProperties DEF Str
  <1> QED
    BY <1>2, ConcatEmptySeq DEF Cut, Str

\* the tag of an index entry
Tag == <<"b">>

\* an index entry is a tag, a separator and a path
LEMMA TagCut ==
  ASSUME NEW x \in Str
  PROVE  Tag \in Str /\ Len(Tag) = 1 /\ Tag[1] = "b" /\ <<"b", Sep>> \o x = Cut(Tag, x)
  <1>1. "b" \in Chars /\ Sep \in Chars
    BY DepthFacts
  <1>2. Tag \in Str /\ Len(Tag) = 1 /\ Tag[1] = "b"
    BY <1>1 DEF Tag, Str
  <1>3. Tag \o <<Sep>> = <<"b", Sep>>
    <2> DEFINE y == Tag \o <<Sep>>
               w == <<"b", Sep>>
    <2>1. <<Sep>> \in Str /\ Len(<<Sep>>) = 1 /\ <<Sep>>[1] = Sep
      BY <1>1 DEF Str
    <2>2. /\ y \in Str /\ Len(y) = Len(Tag) + Len(<<Sep>>)
          /\ \A i \in 1 .. Len(Tag) + Len(<<Sep>>) :
               y[i] = IF i <= Len(Tag) THEN Tag[i] ELSE <<Sep>>[i - Len(Tag)]
      BY <1>2, <2>1, ConcatProperties DEF Str
    <2>3. w \in Str /\ Len(w) = 2 /\ w[1] = "b" /\ w[2] = Sep
      BY <1>1 DEF Str
    <2> HIDE DEF y, w
    <2>4. Len(y) = 2 /\ y[1] = "b" /\ y[2] = Sep
      BY <1>2, <2>1, <2>2
    <2>5. y = w
      BY <2>2, <2>3, <2>4, SameStr
    <2> QED
      BY <2>5 DEF y, w
  <1> QED
    BY <1>2, <1>3 DEF Cut

\* the path of a bucket and its index entry
LEMMA KeyFacts ==
  ASSUME NEW p \in BucketPaths
  PROVE  /\ PathOf[p] = JoinBucketPath(Len(p), p) /\ PathOf[p] \in Str /\ Len(p) \in 1 .. 9
         /\ IndexOf[p] = Cut(Tag, PathOf[p]) /\ IndexOf[p] \in Str /\ IndexOf[p][1] = "b"
         /\ PathOf[p][1] = Depths[Len(p)] /\ Len(PathOf[p]) >= 1
         /\ p \in Seq(ValidNames) /\ Tag \in Str
  <1>1. p \in Seq(ValidNames) /\ Len(p) \in 1 .. 9
    <2>1. MaxDepth \in Nat /\ MaxDepth <= 8
      BY PathFacts
    <2>2. p \in Seq(ValidNames) /\ Len(p) \in 1 .. MaxDepth
      BY PathFacts
    <2>3. \A d \in 1 .. MaxDepth : d \in 1 .. 9
      BY <2>1
    <2> QED
      BY <2>2, <2>3
  <1>2. PathOf[p] = JoinBucketPath(Len(p), p)
    BY DEF PathOf
  <1>3. PathOf[p] \in Str /\ PathOf[p][1] = Depths[Len(p)] /\ Len(PathOf[p]) >= 1
    BY <1>1, <1>2, JoinType
  <1>4. IndexOf[p] = Cut(Tag, PathOf[p]) /\ Tag \in Str /\ Len(Tag) = 1 /\ Tag[1] = "b"
    BY <1>3, TagCut DEF IndexOf
  <1>5. IndexOf[p] \in Str /\ IndexOf[p][1] = "b"
    <2>1. 1 \in 1 .. Len(Tag)
      BY <1>4
    <2>2. Cut(Tag, PathOf[p]) \in Str /\ Cut(Tag, PathOf[p])[1] = Tag[1]
      BY <1>3, <1>4, <2>1, CutAt
    <2> QED
      BY <1>4, <2>2
  <1> QED
    BY <1>1, <1>2, <1>3, <1>4, <1>5

\* the key of a pair
LEMMA InnerFacts ==
  ASSUME NEW p \in BucketPaths, NEW k \in Str
  PROVE  /\ InnerKey(p, k) = Cut(PathOf[p], k) /\ InnerKey(p, k) \in Str
         /\ InnerKey(p, k)[1] = Depths[Len(p)]
         /\ Len(InnerKey(p, k)) = Len(PathOf[p]) + 1 + Len(k)
  <1>1. InnerKey(p, k) = Cut(PathOf[p], k)
    BY DEF InnerKey, Cut
  <1>2. PathOf[p] \in Str /\ PathOf[p][1] = Depths[Len(p)] /\ Len(PathOf[p]) >= 1
    BY KeyFacts
  <1>3. Len(PathOf[p]) \in Nat
    BY <1>2 DEF Str
  <1>4. 1 \in 1 .. Len(PathOf[p])
    BY <1>2, <1>3
  <1>5. Cut(PathOf[p], k) \in Str /\ Cut(PathOf[p], k)[1] = PathOf[p][1]
    BY <1>2, <1>4, CutAt
  <1> QED
    BY <1>1, <1>2, <1>5, CutAt

\* a pair's flat key tells its bucket and its key
LEMMA InnerUnique ==
  ASSUME NEW p \in BucketPaths, NEW q \in BucketPaths, NEW k \in Str, NEW j \in Str,
         Cut(PathOf[p], k) = Cut(PathOf[q], j)
  PROVE  p = q /\ k = j
  <1>1. /\ p \in Seq(ValidNames) /\ Len(p) \in 1 .. 9 /\ PathOf[p] = JoinBucketPath(Len(p), p)
        /\ Cut(PathOf[p], k)[1] = Depths[Len(p)]
    BY KeyFacts, InnerFacts
  <1>2. /\ q \in Seq(ValidNames) /\ Len(q) \in 1 .. 9 /\ PathOf[q] = JoinBucketPath(Len(q), q)
        /\ Cut(PathOf[q], j)[1] = Depths[Len(q)]
    BY KeyFacts, InnerFacts
  <1>3. Depths[Len(p)] = Depths[Len(q)]
    BY <1>1, <1>2
  <1>4. Len(p) = Len(q)
    BY <1>1, <1>2, <1>3, DepthFacts
  <1> DEFINE d == Len(p)
  <1>5. Cut(JoinBucketPath(d, p), k) = Cut(JoinBucketPath(d, q), j)
    BY <1>1, <1>2, <1>4
  <1>6. d \in 1 .. 9
    BY <1>1
  <1> HIDE DEF d
  <1> QED
    BY <1>1, <1>2, <1>4, <1>5, <1>6, JoinUnique

\* no two entries share a flat key: not two buckets, not two pairs, not a
\* bucket and a pair
LEMMA KeysDiffer ==
  ASSUME NEW p \in BucketPaths, NEW q \in BucketPaths, NEW k \in Str, NEW j \in Str
  PROVE  /\ IndexOf[p] # InnerKey(q, k)
         /\ (IndexOf[p] = IndexOf[q]) => p = q
         /\ (InnerKey(p, k) = InnerKey(q, j)) => p = q /\ k = j
  <1>1. IndexOf[p] # InnerKey(q, k)
    <2>1. IndexOf[p][1] = "b"
      BY KeyFacts
    <2>2. InnerKey(q, k)[1] = Depths[Len(q)] /\ Len(q) \in 1 .. 9
      BY InnerFacts, KeyFacts
    <2> QED
      BY <2>1, <2>2, DepthFacts
  <1>2. ASSUME InnerKey(p, k) = InnerKey(q, j) PROVE p = q /\ k = j
    <2>1. InnerKey(p, k) = Cut(PathOf[p], k)
      BY InnerFacts
    <2>2. InnerKey(q, j) = Cut(PathOf[q], j)
      BY InnerFacts
    <2>3. Cut(PathOf[p], k) = Cut(PathOf[q], j)
      BY <1>2, <2>1, <2>2
    <2> QED
      BY <2>3, InnerUnique
  <1>3. ASSUME IndexOf[p] = IndexOf[q] PROVE p = q
    <2>1. PathOf[p] \in Str /\ Tag \in Str /\ IndexOf[p] = Cut(Tag, PathOf[p])
      BY KeyFacts
    <2>2. PathOf[q] \in Str /\ IndexOf[q] = Cut(Tag, PathOf[q])
      BY KeyFacts
    <2>3. Cut(Tag, PathOf[p]) = Cut(Tag, PathOf[q])
      BY <1>3, <2>1, <2>2
    <2>4. PathOf[p] = PathOf[q]
      BY <2>1, <2>2, <2>3, CutUnique
    <2>5. Cut(PathOf[p], k) = Cut(PathOf[q], k)
      BY <2>4
    <2> QED
      BY <2>5, InnerUnique
  <1> QED
    BY <1>1, <1>2, <1>3

\* a prefix has the first character of what it begins
LEMMA SameFirst ==
  ASSUME NEW x \in Str, NEW y \in Str, IsPrefix(x, y), Len(x) >= 1
  PROVE  x[1] = y[1]
  <1>1. PICK z \in Str : y = x \o z
    BY PrefixRest
  <1>2. Len(x) \in Nat /\ Len(z) \in Nat
    BY DEF Str
  <1>3. \A i \in 1 .. Len(x) + Len(z) : y[i] = IF i <= Len(x) THEN x[i] ELSE z[i - Len(x)]
    BY <1>1, ConcatProperties DEF Str
  <1> QED
    BY <1>2, <1>3

\* what Clear and GetByPrefix iterate over: pairs of the bucket and no other
LEMMA InnerPrefix ==
  ASSUME NEW p \in BucketPaths, NEW q \in BucketPaths, NEW x \in Str, NEW k \in Str
  PROVE  /\ IsPrefix(InnerKey(p, x), InnerKey(q, k)) <=> (p = q /\ IsPrefix(x, k))
         /\ ~IsPrefix(InnerKey(p, x), IndexOf[q])
  <1>1. PathOf[p] \in Str /\ InnerKey(p, x) = Cut(PathOf[p], x) /\ InnerKey(p, x) \in Str
    BY KeyFacts, InnerFacts
  <1>2. InnerKey(q, k) = Cut(PathOf[q], k) /\ InnerKey(q, k) \in Str
    BY InnerFacts
  <1>3. IsPrefix(InnerKey(p, x), InnerKey(q, k)) <=> \E z \in Str : Cut(PathOf[q], k) = Cut(PathOf[p], x \o z)
    BY <1>1, <1>2, CutPrefix
  <1>4. IsPrefix(x, k) <=> \E z \in Str : k = x \o z
    BY PrefixRest
  <1>5. ASSUME IsPrefix(InnerKey(p, x), InnerKey(q, k)) PROVE p = q /\ IsPrefix(x, k)
    <2>1. PICK z \in Str : Cut(PathOf[q], k) = Cut(PathOf[p], x \o z)
      BY <1>3, <1>5
    <2> DEFINE w == x \o z
    <2>2. w \in Str
      BY ConcatProperties DEF Str
    <2>3. Cut(PathOf[q], k) = Cut(PathOf[p], w)
      BY <2>1
    <2> HIDE DEF w
    <2>4. q = p /\ k = w
      BY <2>2, <2>3, InnerUnique
    <2> QED
      BY <1>4, <2>4 DEF w
  <1>6. ASSUME p = q, IsPrefix(x, k) PROVE IsPrefix(InnerKey(p, x), InnerKey(q, k))
    <2>1. PICK z \in Str : k = x \o z
      BY <1>4, <1>6
    <2> QED
      BY <1>3, <1>6, <2>1
  <1>7. ~IsPrefix(InnerKey(p, x), IndexOf[q])
    <2> SUFFICES ASSUME IsPrefix(InnerKey(p, x), IndexOf[q]) PROVE FALSE
      OBVIOUS
    <2>1. IndexOf[q] \in Str /\ IndexOf[q][1] = "b"
      BY KeyFacts
    <2>2. /\ InnerKey(p, x)[1] = Depths[Len(p)] /\ Len(p) \in 1 .. 9
          /\ Len(InnerKey(p, x)) = Len(PathOf[p]) + 1 + Len(x)
      BY InnerFacts, KeyFacts
    <2>3. Len(PathOf[p]) \in Nat /\ Len(x) \in Nat
      BY <1>1 DEF Str
    <2>4. Len(InnerKey(p, x)) >= 1
      BY <2>2, <2>3
    <2>5. InnerKey(p, x)[1] = IndexOf[q][1]
      BY <1>1, <2>1, <2>4, SameFirst
    <2> QED
      BY <2>1, <2>2, <2>5, DepthFacts
  <1> QED
    BY <1>5, <1>6, <1>7

\* what Clear iterates over is the key of a pair without its key
LEMMA ClearPrefix ==
  ASSUME NEW p \in BucketPaths
  PROVE  <<>> \in Str /\ PathOf[p] \o <<Sep>> = InnerKey(p, <<>>)
  <1>1. PathOf[p] \in Str
    BY KeyFacts
  <1>2. <<>> \in Str /\ Cut(PathOf[p], <<>>) = PathOf[p] \o <<Sep>>
    BY <1>1, CutEmpty
  <1> QED
    BY <1>2 DEF InnerKey, Cut

\* everything begins with nothing
LEMMA EmptyPrefix ==
  ASSUME NEW k \in Str
  PROVE  IsPrefix(<<>>, k)
  <1>1. <<>> \in Str /\ k = <<>> \o k
    BY ConcatEmptySeq DEF Str
  <1> QED
    BY <1>1, PrefixRest

\* what BucketNames of the bucket p iterates over
IndexBelow(p) == <<"b", Sep>> \o JoinBucketPath(Len(p) + 1, p) \o <<Sep>>

\* what begins with the listing prefix has a path under the bucket
LEMMA BelowFacts ==
  ASSUME NEW p \in Seq(ValidNames), Len(p) + 1 \in 1 .. 9
  PROVE  /\ JoinBucketPath(Len(p) + 1, p) \in Str /\ IndexBelow(p) \in Str
         /\ Len(IndexBelow(p)) >= 1 /\ IndexBelow(p)[1] = "b"
         /\ \A y \in Str : IsPrefix(IndexBelow(p), Cut(Tag, y)) <=>
                             \E z \in Str : y = Cut(JoinBucketPath(Len(p) + 1, p), z)
  <1> DEFINE x == JoinBucketPath(Len(p) + 1, p)
             e == Cut(x, <<>>)
  <1>1. x \in Str
    BY JoinType
  <1>2. Tag \in Str /\ Len(Tag) = 1 /\ Tag[1] = "b" /\ <<"b", Sep>> \o x = Cut(Tag, x)
    <2> HIDE DEF x
    <2> QED
      BY <1>1, TagCut
  <1>3. IndexBelow(p) = Cut(Tag, x) \o <<Sep>>
    BY <1>2 DEF IndexBelow
  <1> HIDE DEF x
  <1>4. Cut(Tag, x) \in Str
    BY <1>1, <1>2, CutAt
  <1>5. <<>> \in Str /\ Cut(Cut(Tag, x), <<>>) = IndexBelow(p)
    BY <1>3, <1>4, CutEmpty
  <1>6. IndexBelow(p) = Cut(Tag, e)
    BY <1>1, <1>2, <1>5, CutTwice
  <1>7. e \in Str
    BY <1>1, <1>5, CutAt
  <1>8. IndexBelow(p) \in Str /\ Len(IndexBelow(p)) >= 1 /\ IndexBelow(p)[1] = "b"
    <2> HIDE DEF e
    <2>1. Cut(Tag, e) \in Str /\ Len(Cut(Tag, e)) = Len(Tag) + 1 + Len(e) /\ Cut(Tag, e)[1] = Tag[1]
      <3>1. 1 \in 1 .. Len(Tag)
        BY <1>2
      <3> QED
        BY <1>2, <1>7, <3>1, CutAt
    <2>2. Len(e) \in Nat
      BY <1>7 DEF Str
    <2> QED
      BY <1>2, <1>6, <2>1, <2>2
  <1>9. ASSUME NEW y \in Str
        PROVE  IsPrefix(IndexBelow(p), Cut(Tag, y)) <=> \E z \in Str : y = Cut(x, z)
    <2>1. Cut(Tag, y) \in Str
      BY <1>2, CutAt
    <2>2. IsPrefix(IndexBelow(p), Cut(Tag, y)) <=> \E z \in Str : Cut(Tag, y) = Cut(Tag, e \o z)
      <3> HIDE DEF e
      <3> QED
        BY <1>2, <1>6, <1>7, <2>1, CutPrefix
    <2>3. ASSUME NEW z \in Str PROVE e \o z = Cut(x, z) /\ e \o z \in Str
      <3>1. Cut(x, <<>> \o z) = Cut(x, <<>>) \o z
        BY <1>1, <1>5, CutCat
      <3>2. <<>> \o z = z
        BY ConcatEmptySeq DEF Str
      <3>3. Cut(x, z) \in Str
        BY <1>1, CutAt
      <3> QED
        BY <3>1, <3>2, <3>3
    <2> HIDE DEF e
    <2>4. ASSUME NEW z \in Str PROVE Cut(Tag, y) = Cut(Tag, e \o z) <=> y = Cut(x, z)
      <3> DEFINE w == e \o z
      <3>1. w \in Str /\ w = Cut(x, z)
        BY <2>3
      <3> HIDE DEF w
      <3>2. (Cut(Tag, y) = Cut(Tag, w)) => y = w
        BY <1>2, <3>1, CutUnique
      <3>3. (Cut(Tag, y) = Cut(Tag, w)) <=> y = Cut(x, z)
        BY <3>1, <3>2
      <3> QED
        BY <3>3 DEF w
    <2> QED
      BY <2>2, <2>4
  <1> QED
    BY <1>1, <1>8, <1>9 DEF x

\* BucketNames meets the index entries of sub buckets and nothing else
LEMMA BelowPrefix ==
  ASSUME NEW p \in Seq(ValidNames), Len(p) + 1 \in 1 .. 9, NEW q \in BucketPaths, NEW k \in Str
  PROVE  /\ IsPrefix(IndexBelow(p), IndexOf[q]) <=> \E n \in ValidNames : q = Append(p, n)
         /\ ~IsPrefix(IndexBelow(p), InnerKey(q, k))
  <1> DEFINE d == Len(p) + 1
             x == JoinBucketPath(d, p)
  <1>1. /\ PathOf[q] = JoinBucketPath(Len(q), q) /\ PathOf[q] \in Str /\ Len(q) \in 1 .. 9
        /\ IndexOf[q] = Cut(Tag, PathOf[q]) /\ PathOf[q][1] = Depths[Len(q)] /\ Tag \in Str
        /\ q \in Seq(ValidNames)
    BY KeyFacts
  <1>2. x \in Str /\ Len(x) >= 1 /\ x[1] = Depths[d]
    BY JoinType
  <1>3. IsPrefix(IndexBelow(p), IndexOf[q]) <=> \E z \in Str : PathOf[q] = Cut(x, z)
    BY <1>1, BelowFacts
  <1>4. d \in 1 .. 9 /\ d = Len(p) + 1 /\ Len(p) \in Nat
    OBVIOUS
  <1> HIDE DEF d
  <1>5. ASSUME IsPrefix(IndexBelow(p), IndexOf[q]) PROVE \E n \in ValidNames : q = Append(p, n)
    <2>1. PICK z \in Str : PathOf[q] = Cut(x, z)
      BY <1>3, <1>5
    <2>2. Len(x) \in Nat
      BY <1>2 DEF Str
    <2>3. 1 \in 1 .. Len(x)
      BY <1>2, <2>2
    <2>4. PathOf[q][1] = x[1]
      <3> HIDE DEF x
      <3> QED
        BY <1>2, <2>1, <2>3, CutAt
    <2>5. Len(q) = d
      BY <1>1, <1>2, <1>4, <2>4, DepthFacts
    <2>6. PICK r \in Seq(ValidNames), n \in ValidNames : Len(r) = Len(p) /\ q = Append(r, n)
      BY <1>1, <1>4, <2>5, LastName
    <2>7. JoinBucketPath(d, q) = Cut(JoinBucketPath(d, r), n)
      BY <2>6, JoinAppend
    <2>8. Cut(JoinBucketPath(d, r), n) = Cut(JoinBucketPath(d, p), z)
      BY <1>1, <2>1, <2>5, <2>7
    <2>9. n \in Str
      BY NameFacts
    <2>10. r = p
      BY <1>4, <2>6, <2>8, <2>9, JoinUnique
    <2> QED
      BY <2>6, <2>10
  <1>6. ASSUME NEW n \in ValidNames, q = Append(p, n) PROVE IsPrefix(IndexBelow(p), IndexOf[q])
    <2>1. Len(q) = d
      BY <1>4, <1>6
    <2>2. JoinBucketPath(d, q) = Cut(x, n)
      BY <1>6, JoinAppend
    <2>3. n \in Str
      BY NameFacts
    <2> QED
      BY <1>1, <1>3, <2>1, <2>2, <2>3
  <1>7. ~IsPrefix(IndexBelow(p), InnerKey(q, k))
    <2> SUFFICES ASSUME IsPrefix(IndexBelow(p), InnerKey(q, k)) PROVE FALSE
      OBVIOUS
    <2>1. IndexBelow(p) \in Str /\ Len(IndexBelow(p)) >= 1 /\ IndexBelow(p)[1] = "b"
      BY BelowFacts
    <2>2. InnerKey(q, k) \in Str /\ InnerKey(q, k)[1] = Depths[Len(q)]
      BY InnerFacts
    <2>3. IndexBelow(p)[1] = InnerKey(q, k)[1]
      BY <2>1, <2>2, SameFirst
    <2> QED
      BY <1>1, <2>1, <2>2, <2>3, DepthFacts
  <1> QED
    BY <1>5, <1>6, <1>7

\* the prefix of the top level is the one below no name at all
LEMMA TopPrefix ==
  /\ <<>> \in Seq(ValidNames) /\ Len(<<>>) + 1 \in 1 .. 9
  /\ IndexBelow(<<>>) = <<"b", Sep, "1", Sep>>
  <1>1. <<>> \in Seq(ValidNames) /\ Len(<<>>) = 0
    OBVIOUS
  <1>2. JoinBucketPath(1, <<>>) = <<"1">>
    BY JoinEmpty, DepthFacts
  <1>3. IndexBelow(<<>>) = <<"b", Sep>> \o <<"1">> \o <<Sep>>
    <2>1. Len(<<>>) + 1 = 1
      BY <1>1
    <2>2. IndexBelow(<<>>) = <<"b", Sep>> \o JoinBucketPath(1, <<>>) \o <<Sep>>
      BY <2>1, Zenon DEF IndexBelow
    <2> QED
      BY <1>2, <2>2, Zenon
  <1> DEFINE u == <<"b", Sep>>
             v == <<"1">>
             w == <<Sep>>
             g == <<"b", Sep, "1", Sep>>
  <1>4. "b" \in Chars /\ Sep \in Chars /\ "1" \in Chars
    BY DepthFacts
  <1>5. /\ u \in Seq(Chars) /\ Len(u) = 2 /\ u[1] = "b" /\ u[2] = Sep
        /\ v \in Seq(Chars) /\ Len(v) = 1 /\ v[1] = "1"
        /\ w \in Seq(Chars) /\ Len(w) = 1 /\ w[1] = Sep
        /\ g \in Seq(Chars) /\ Len(g) = 4 /\ g[1] = "b" /\ g[2] = Sep /\ g[3] = "1" /\ g[4] = Sep
    BY <1>4
  <1>6. IndexBelow(<<>>) = u \o v \o w
    BY <1>3
  <1> HIDE DEF u, v, w, g
  <1> DEFINE y == u \o v
  <1>7. /\ y \in Seq(Chars) /\ Len(y) = Len(u) + Len(v)
        /\ \A i \in 1 .. Len(u) + Len(v) : y[i] = IF i <= Len(u) THEN u[i] ELSE v[i - Len(u)]
    BY <1>5, ConcatProperties
  <1>8. Len(y) = 3 /\ y[1] = "b" /\ y[2] = Sep /\ y[3] = "1"
    <2> HIDE DEF y
    <2> QED
      BY <1>5, <1>7
  <1> HIDE DEF y
  <1> DEFINE x == y \o w
  <1>9. /\ x \in Seq(Chars) /\ Len(x) = Len(y) + Len(w)
        /\ \A i \in 1 .. Len(y) + Len(w) : x[i] = IF i <= Len(y) THEN y[i] ELSE w[i - Len(y)]
    <2>1. y \in Seq(Chars) /\ w \in Seq(Chars)
      BY <1>5, <1>7
    <2> QED
      BY <2>1, ConcatProperties
  <1>10. Len(x) = 4 /\ x[1] = "b" /\ x[2] = Sep /\ x[3] = "1" /\ x[4] = Sep
    <2> HIDE DEF x
    <2> QED
      BY <1>5, <1>8, <1>9
  <1> HIDE DEF x
  <1>11. x = g
    <2>1. ASSUME NEW i \in 1 .. 4 PROVE x[i] = g[i]
      <3>1. i = 1 \/ i = 2 \/ i = 3 \/ i = 4
        OBVIOUS
      <3> QED
        BY <1>5, <1>10, <3>1
    <2>2. x \in Str /\ g \in Str /\ Len(x) = 4 /\ Len(g) = 4
      BY <1>5, <1>9, <1>10 DEF Str
    <2> QED
      BY <2>1, <2>2, SameStr
  <1> QED
    BY <1>1, <1>6, <1>11 DEF g, x, y

-----------------------------------------------------------------------------
(* Paths within paths.                                                     *)

\* a path within a path, name by name
LEMMA PathPrefix ==
  ASSUME NEW p \in Seq(ValidNames), NEW q \in Seq(ValidNames)
  PROVE  IsPrefix(p, q) <=> Len(p) <= Len(q) /\ \A i \in 1 .. Len(p) : p[i] = q[i]
  <1>0. Len(p) \in Nat /\ Len(q) \in Nat
    OBVIOUS
  <1>1. ASSUME Len(p) <= Len(q)
        PROVE  (SubSeq(p, 1, Len(p)) = SubSeq(q, 1, Len(p))) <=> \A i \in 1 .. Len(p) : p[i] = q[i]
    <2> DEFINE a == SubSeq(p, 1, Len(p))
               b == SubSeq(q, 1, Len(p))
    <2>1. /\ a \in Seq(ValidNames) /\ Len(a) = Len(p) /\ \A i \in 1 .. Len(p) : a[i] = p[i]
          /\ b \in Seq(ValidNames) /\ Len(b) = Len(p) /\ \A i \in 1 .. Len(p) : b[i] = q[i]
      BY <1>0, <1>1
    <2> HIDE DEF a, b
    <2>2. (\A i \in 1 .. Len(p) : p[i] = q[i]) => a = b
      BY <2>1, SeqEqual
    <2>3. (a = b) => \A i \in 1 .. Len(p) : p[i] = q[i]
      BY <2>1
    <2>4. (a = b) <=> \A i \in 1 .. Len(p) : p[i] = q[i]
      BY <2>2, <2>3
    <2> QED
      BY <2>4 DEF a, b
  <1> QED
    BY <1>1 DEF IsPrefix

\* a sub bucket's path
LEMMA Appended ==
  ASSUME NEW p \in Seq(ValidNames), NEW n \in ValidNames
  PROVE  /\ Append(p, n) \in Seq(ValidNames) /\ Len(Append(p, n)) = Len(p) + 1
         /\ Append(p, n)[Len(p) + 1] = n /\ Last(Append(p, n)) = n /\ Front(Append(p, n)) = p
         /\ \A i \in 1 .. Len(p) : Append(p, n)[i] = p[i]
  <1> DEFINE q == Append(p, n)
  <1>1. /\ q \in Seq(ValidNames) /\ Len(q) = Len(p) + 1 /\ q[Len(p) + 1] = n
        /\ \A i \in 1 .. Len(p) : q[i] = p[i]
    OBVIOUS
  <1> HIDE DEF q
  <1>2. Last(q) = n
    BY <1>1 DEF Last
  <1>3. Front(q) = p
    <2> DEFINE r == SubSeq(q, 1, Len(q) - 1)
    <2>1. r \in Seq(ValidNames) /\ Len(r) = Len(p) /\ \A i \in 1 .. Len(p) : r[i] = q[i]
      BY <1>1
    <2> HIDE DEF r
    <2>2. r = p
      BY <1>1, <2>1, SeqEqual
    <2> QED
      BY <2>2 DEF Front, r
  <1> QED
    BY <1>1, <1>2, <1>3 DEF q

\* a sub bucket that is not too deep is a bucket
LEMMA SubPath ==
  ASSUME NEW p \in BucketPaths, NEW n \in ValidNames, Len(p) < MaxDepth
  PROVE  Append(p, n) \in BucketPaths
  <1>1. p \in Seq(ValidNames) /\ Len(p) \in 1 .. MaxDepth /\ MaxDepth \in Nat
    BY PathFacts
  <1>2. Append(p, n) \in Seq(ValidNames) /\ Len(Append(p, n)) = Len(p) + 1
    BY <1>1, Appended
  <1>3. Len(p) + 1 \in 1 .. MaxDepth
    BY <1>1
  <1> QED
    BY <1>2, <1>3, PathFacts

\* a path is within itself
LEMMA PrefixReflexive ==
  ASSUME NEW p \in BucketPaths
  PROVE  IsPrefix(p, p)
  <1>1. p \in Seq(ValidNames)
    BY PathFacts
  <1> QED
    BY <1>1, PathPrefix

\* within is transitive
LEMMA PrefixTransitive ==
  ASSUME NEW p \in BucketPaths, NEW q \in BucketPaths, NEW r \in BucketPaths,
         IsPrefix(p, q), IsPrefix(q, r)
  PROVE  IsPrefix(p, r)
  <1>1. p \in Seq(ValidNames) /\ q \in Seq(ValidNames) /\ r \in Seq(ValidNames)
    BY PathFacts
  <1>2. Len(p) \in Nat /\ Len(q) \in Nat /\ Len(r) \in Nat
    BY <1>1
  <1>3. Len(p) <= Len(q) /\ \A i \in 1 .. Len(p) : p[i] = q[i]
    BY <1>1, PathPrefix
  <1>4. Len(q) <= Len(r) /\ \A i \in 1 .. Len(q) : q[i] = r[i]
    BY <1>1, PathPrefix
  <1>5. Len(p) <= Len(r) /\ \A i \in 1 .. Len(p) : p[i] = r[i]
    BY <1>2, <1>3, <1>4
  <1> QED
    BY <1>1, <1>5, PathPrefix

\* what is within a path is the path or within one of its sub buckets
LEMMA PrefixStep ==
  ASSUME NEW p \in BucketPaths, NEW q \in BucketPaths, IsPrefix(p, q), p # q
  PROVE  /\ Len(p) < MaxDepth
         /\ \E n \in ValidNames : IsPrefix(Append(p, n), q)
  <1>1. p \in Seq(ValidNames) /\ q \in Seq(ValidNames) /\ Len(q) \in 1 .. MaxDepth
    BY PathFacts
  <1>2. Len(p) \in Nat /\ Len(q) \in Nat /\ MaxDepth \in Nat
    BY <1>1, PathFacts
  <1>3. Len(p) <= Len(q) /\ \A i \in 1 .. Len(p) : p[i] = q[i]
    BY <1>1, PathPrefix
  <1>4. Len(p) # Len(q)
    BY <1>1, <1>3, SeqEqual
  <1>5. Len(p) + 1 \in 1 .. Len(q) /\ Len(p) < MaxDepth
    BY <1>1, <1>2, <1>3, <1>4
  <1> DEFINE n == q[Len(p) + 1]
             r == Append(p, n)
  <1>6. n \in ValidNames
    BY <1>1, <1>5
  <1>7. n = q[Len(p) + 1]
    OBVIOUS
  <1> HIDE DEF n
  <1>8. /\ r \in Seq(ValidNames) /\ Len(r) = Len(p) + 1 /\ r[Len(p) + 1] = n
        /\ \A i \in 1 .. Len(p) : r[i] = p[i]
    BY <1>1, <1>6, Appended
  <1> HIDE DEF r
  <1>9. Len(r) <= Len(q) /\ \A i \in 1 .. Len(r) : r[i] = q[i]
    BY <1>2, <1>3, <1>5, <1>7, <1>8
  <1>10. IsPrefix(r, q)
    BY <1>1, <1>8, <1>9, PathPrefix
  <1> QED
    BY <1>5, <1>6, <1>10 DEF r

\* what a sub bucket is within: itself and what its parent is within
LEMMA PrefixAppend ==
  ASSUME NEW p \in BucketPaths, NEW n \in ValidNames, Len(p) < MaxDepth
  PROVE  /\ IsPrefix(p, Append(p, n))
         /\ ~IsPrefix(Append(p, n), p)
         /\ \A r \in BucketPaths : IsPrefix(r, Append(p, n)) => r = Append(p, n) \/ IsPrefix(r, p)
  <1> DEFINE q == Append(p, n)
  <1>1. p \in Seq(ValidNames) /\ Len(p) \in Nat
    BY PathFacts
  <1>2. /\ q \in Seq(ValidNames) /\ Len(q) = Len(p) + 1
        /\ \A i \in 1 .. Len(p) : q[i] = p[i]
    BY <1>1, Appended
  <1> HIDE DEF q
  <1>3. IsPrefix(p, q)
    BY <1>1, <1>2, PathPrefix
  <1>4. ~IsPrefix(q, p)
    BY <1>1, <1>2, PathPrefix
  <1>5. ASSUME NEW r \in BucketPaths, IsPrefix(r, q) PROVE r = q \/ IsPrefix(r, p)
    <2>1. r \in Seq(ValidNames) /\ Len(r) \in Nat
      BY PathFacts
    <2>2. Len(r) <= Len(q) /\ \A i \in 1 .. Len(r) : r[i] = q[i]
      BY <1>2, <1>5, <2>1, PathPrefix
    <2>3. CASE Len(r) = Len(q)
      BY <1>2, <2>1, <2>2, <2>3, SeqEqual
    <2>4. CASE Len(r) # Len(q)
      <3>1. Len(r) <= Len(p) /\ \A i \in 1 .. Len(r) : r[i] = p[i]
        BY <1>1, <1>2, <2>1, <2>2, <2>4
      <3> QED
        BY <1>1, <2>1, <3>1, PathPrefix
    <2> QED
      BY <2>3, <2>4
  <1> QED
    BY <1>3, <1>4, <1>5 DEF q

-----------------------------------------------------------------------------
(* What a store holds.                                                     *)

Buckets(s) == {q \in BucketPaths : IndexOf[q] \in DOMAIN s}
PairsOf(s, q) == {f \in DOMAIN s : \E k \in Keys : f = InnerKey(q, k)}

\* Each entry is the index entry of a bucket, with its name, or a pair.
Shaped(s) ==
    \A f \in DOMAIN s :
        \/ \E q \in BucketPaths : f = IndexOf[q] /\ s[f] = Last(q)
        \/ \E q \in BucketPaths, k \in Keys : Len(k) > 0 /\ f = InnerKey(q, k) /\ s[f] \in Values

\* A bucket of L is in buckets of L.
UpClosed(L) == \A q \in L : \A r \in BucketPaths : IsPrefix(r, q) => r \in L

\* The pairs are in buckets that exist, and so are the buckets.
StoreOK(s) ==
    /\ Shaped(s)
    /\ UpClosed(Buckets(s))
    /\ \A q \in BucketPaths, k \in Keys : InnerKey(q, k) \in DOMAIN s => q \in Buckets(s)

\* keys are strings
LEMMA KeysAreStr == \A k \in Keys : k \in Str
  BY WalletDBAssumption DEF Str

\* what is left when entries are dropped
LEMMA Dropped ==
  ASSUME NEW s, NEW F
  PROVE  DOMAIN Drop(s, F) = DOMAIN s \ F /\ \A f \in DOMAIN s \ F : Drop(s, F)[f] = s[f]
  BY DEF Drop

\* what is left keeps its shape
LEMMA ShapedDrop ==
  ASSUME NEW s, NEW F, Shaped(s)
  PROVE  Shaped(Drop(s, F))
  <1>1. DOMAIN Drop(s, F) = DOMAIN s \ F /\ \A f \in DOMAIN s \ F : Drop(s, F)[f] = s[f]
    BY Dropped
  <1> DEFINE t == Drop(s, F)
  <1> HIDE DEF t
  <1>2. DOMAIN t \subseteq DOMAIN s /\ \A f \in DOMAIN t : t[f] = s[f]
    BY <1>1 DEF t
  <1>3. Shaped(t)
    BY <1>2 DEF Shaped
  <1> QED
    BY <1>3 DEF t

\* a bucket's index entry has the bucket's name
LEMMA IndexValue ==
  ASSUME NEW s, Shaped(s), NEW q \in BucketPaths, IndexOf[q] \in DOMAIN s
  PROVE  s[IndexOf[q]] = Last(q)
  <1> DEFINE f == IndexOf[q]
  <1>1. \/ \E r \in BucketPaths : f = IndexOf[r] /\ s[f] = Last(r)
        \/ \E r \in BucketPaths, k \in Keys : f = InnerKey(r, k)
    BY DEF Shaped
  <1>2. ~ \E r \in BucketPaths, k \in Keys : f = InnerKey(r, k)
    BY KeysAreStr, KeysDiffer
  <1>3. PICK r \in BucketPaths : f = IndexOf[r] /\ s[f] = Last(r)
    BY <1>1, <1>2
  <1>4. q = r
    <2>1. <<>> \in Str
      BY ClearPrefix
    <2> QED
      BY <1>3, <2>1, KeysDiffer
  <1> QED
    BY <1>3, <1>4

\* a pair's value is a value
LEMMA PairValue ==
  ASSUME NEW s, Shaped(s), NEW q \in BucketPaths, NEW k \in Keys, InnerKey(q, k) \in DOMAIN s
  PROVE  Len(k) > 0 /\ s[InnerKey(q, k)] \in Values
  <1> DEFINE f == InnerKey(q, k)
  <1>0. k \in Str
    BY KeysAreStr
  <1>1. \/ \E r \in BucketPaths : f = IndexOf[r]
        \/ \E r \in BucketPaths, j \in Keys : Len(j) > 0 /\ f = InnerKey(r, j) /\ s[f] \in Values
    BY DEF Shaped
  <1>2. ~ \E r \in BucketPaths : f = IndexOf[r]
    BY <1>0, KeysDiffer
  <1>3. PICK r \in BucketPaths, j \in Keys : Len(j) > 0 /\ f = InnerKey(r, j) /\ s[f] \in Values
    BY <1>1, <1>2
  <1>4. j \in Str
    BY KeysAreStr
  <1>5. k = j
    BY <1>0, <1>3, <1>4, KeysDiffer
  <1> QED
    BY <1>3, <1>5

\* Listing one level down yields the names of the sub buckets.
LEMMA NamesBelow ==
  ASSUME NEW s, Shaped(s), NEW p \in Seq(ValidNames), Len(p) < MaxDepth
  PROVE  {s[f] : f \in Iterate(s, IndexBelow(p))} = {n \in ValidNames : Append(p, n) \in Buckets(s)}
  <1>0. Len(p) + 1 \in 1 .. 9 /\ Len(p) + 1 \in 1 .. MaxDepth
    <2>1. MaxDepth \in Nat /\ MaxDepth <= 8
      BY PathFacts
    <2>2. \A d \in Nat : d < MaxDepth => d + 1 \in 1 .. 9 /\ d + 1 \in 1 .. MaxDepth
      BY <2>1
    <2>3. Len(p) \in Nat
      OBVIOUS
    <2> QED
      BY <2>2, <2>3
  <1>1. ASSUME NEW f \in Iterate(s, IndexBelow(p))
        PROVE  s[f] \in {n \in ValidNames : Append(p, n) \in Buckets(s)}
    <2>1. f \in DOMAIN s /\ IsPrefix(IndexBelow(p), f)
      BY DEF Iterate
    <2>2. \/ \E q \in BucketPaths : f = IndexOf[q] /\ s[f] = Last(q)
          \/ \E q \in BucketPaths, k \in Keys : f = InnerKey(q, k)
      BY <2>1 DEF Shaped
    <2>3. ~ \E q \in BucketPaths, k \in Keys : f = InnerKey(q, k)
      BY <1>0, <2>1, KeysAreStr, BelowPrefix
    <2>4. PICK q \in BucketPaths : f = IndexOf[q] /\ s[f] = Last(q)
      BY <2>2, <2>3
    <2>5. PICK n \in ValidNames : q = Append(p, n)
      <3>1. <<>> \in Str
        BY <2>4, ClearPrefix
      <3> QED
        BY <1>0, <2>1, <2>4, <3>1, BelowPrefix
    <2>6. Last(q) = n
      BY <2>5, Appended
    <2> QED
      BY <2>1, <2>4, <2>5, <2>6 DEF Buckets
  <1>2. ASSUME NEW n \in ValidNames, Append(p, n) \in Buckets(s)
        PROVE  n \in {s[f] : f \in Iterate(s, IndexBelow(p))}
    <2> DEFINE q == Append(p, n)
               f == IndexOf[q]
    <2>1. q \in BucketPaths /\ f \in DOMAIN s
      BY <1>2 DEF Buckets
    <2>2. s[f] = Last(q)
      <3> HIDE DEF q
      <3> QED
        BY <2>1, IndexValue
    <2>3. Last(q) = n
      BY Appended
    <2>4. IsPrefix(IndexBelow(p), f)
      <3>1. <<>> \in Str
        BY <2>1, ClearPrefix
      <3>2. \E m \in ValidNames : q = Append(p, m)
        OBVIOUS
      <3> HIDE DEF q
      <3> QED
        BY <1>0, <2>1, <3>1, <3>2, BelowPrefix
    <2> HIDE DEF f
    <2> QED
      BY <2>1, <2>2, <2>3, <2>4 DEF Iterate
  <1> QED
    BY <1>1, <1>2

\* BucketNames, Bucket and ClearKeys meet the bucket's own entries only
LEMMA Listed ==
  ASSUME NEW s, Shaped(s), NEW p \in BucketPaths
  PROVE  /\ Len(p) < MaxDepth =>
              BucketNames(s, p) = {n \in ValidNames : Append(p, n) \in Buckets(s)}
         /\ \A n \in ValidNames : Len(p) < MaxDepth =>
              (Bucket(s, p, n) <=> Append(p, n) \in Buckets(s))
         /\ ClearKeys(s, p) = PairsOf(s, p)
  <1>1. p \in Seq(ValidNames)
    BY PathFacts
  <1>2. ASSUME Len(p) < MaxDepth
        PROVE  BucketNames(s, p) = {n \in ValidNames : Append(p, n) \in Buckets(s)}
    <2>1. ChildrenOf[p] = IndexBelow(p)
      BY DEF ChildrenOf, IndexBelow
    <2> QED
      BY <1>1, <1>2, <2>1, NamesBelow DEF BucketNames
  <1>3. ASSUME NEW n \in ValidNames, Len(p) < MaxDepth
        PROVE  Bucket(s, p, n) <=> Append(p, n) \in Buckets(s)
    <2> DEFINE q == Append(p, n)
    <2>1. q \in BucketPaths
      BY <1>3, SubPath
    <2>2. Last(q) = n
      BY <1>1, Appended
    <2>3. IsValidBucketName(n)
      BY DEF ValidNames
    <2>4. Bucket(s, p, n) <=> (IndexOf[q] \in DOMAIN s /\ s[IndexOf[q]] = n)
      BY <2>3 DEF Bucket, Has, BucketKey, SubBucket
    <2> HIDE DEF q
    <2>5. (IndexOf[q] \in DOMAIN s) => s[IndexOf[q]] = Last(q)
      BY <2>1, IndexValue
    <2>6. Bucket(s, p, n) <=> q \in Buckets(s)
      BY <2>1, <2>2, <2>4, <2>5 DEF Buckets
    <2> QED
      BY <2>6 DEF q
  <1>4. ClearKeys(s, p) = PairsOf(s, p)
    <2>1. ClearKeys(s, p) = Iterate(s, InnerKey(p, <<>>)) /\ <<>> \in Str
      BY ClearPrefix DEF ClearKeys
    <2>2. ASSUME NEW f \in Iterate(s, InnerKey(p, <<>>)) PROVE f \in PairsOf(s, p)
      <3>1. f \in DOMAIN s /\ IsPrefix(InnerKey(p, <<>>), f)
        BY DEF Iterate
      <3>2. \/ \E q \in BucketPaths : f = IndexOf[q]
            \/ \E q \in BucketPaths, k \in Keys : f = InnerKey(q, k)
        BY <3>1 DEF Shaped
      <3>3. ~ \E q \in BucketPaths : f = IndexOf[q]
        BY <2>1, <3>1, InnerPrefix
      <3>4. PICK q \in BucketPaths, k \in Keys : f = InnerKey(q, k)
        BY <3>2, <3>3
      <3>5. k \in Str
        BY KeysAreStr
      <3>6. p = q
        BY <2>1, <3>1, <3>4, <3>5, InnerPrefix
      <3> QED
        BY <3>1, <3>4, <3>6 DEF PairsOf
    <2>3. ASSUME NEW f \in PairsOf(s, p) PROVE f \in Iterate(s, InnerKey(p, <<>>))
      <3>1. f \in DOMAIN s
        BY DEF PairsOf
      <3>2. PICK k \in Keys : f = InnerKey(p, k)
        BY DEF PairsOf
      <3>3. k \in Str /\ IsPrefix(<<>>, k)
        BY KeysAreStr, EmptyPrefix
      <3>4. IsPrefix(InnerKey(p, <<>>), InnerKey(p, k))
        BY <2>1, <3>3, InnerPrefix
      <3> QED
        BY <3>1, <3>2, <3>4 DEF Iterate
    <2> QED
      BY <2>1, <2>2, <2>3
  <1> QED
    BY <1>2, <1>3, <1>4

-----------------------------------------------------------------------------
(* deleteBucket.                                                           *)

Live(s, a) == Buckets(Left(s, a))
Total(a) == a.gone \cup a.batch
Under(p) == {q \in BucketPaths : IsPrefix(p, q)}
Entries(s, Q) == {f \in DOMAIN s : \E q \in Q : f = IndexOf[q] \/ f \in PairsOf(s, q)}

\* b is the deletion a when the buckets Q are gone as well
Removes(s, a, b, Q) ==
    /\ b \in Deletions(s)
    /\ Live(s, b) = Live(s, a) \ Q
    /\ Total(b) \cap DOMAIN s = (Total(a) \cap DOMAIN s) \cup Entries(s, Q \cap Live(s, a))

\* the buckets a deletion has left
LEMMA LiveDef ==
  ASSUME NEW s, NEW a
  PROVE  Live(s, a) = {q \in BucketPaths : IndexOf[q] \in DOMAIN s /\ IndexOf[q] \notin a.gone}
  <1>1. DOMAIN Left(s, a) = DOMAIN s \ a.gone
    BY Dropped DEF Left
  <1> QED
    BY <1>1 DEF Live, Buckets

\* what a deletion is
LEMMA DeletionType ==
  ASSUME NEW s, NEW a
  PROVE  (a \in Deletions(s)) <=>
           /\ a = [gone |-> a.gone, batch |-> a.batch]
           /\ a.gone \subseteq DOMAIN s \cup {IndexOf[p] : p \in BucketPaths}
           /\ a.batch \subseteq DOMAIN s \cup {IndexOf[p] : p \in BucketPaths}
  BY DEF Deletions

\* one removal after another
LEMMA RemovesBoth ==
  ASSUME NEW s, NEW a, NEW b, NEW c, NEW Q, NEW R, Removes(s, a, b, Q), Removes(s, b, c, R)
  PROVE  Removes(s, a, c, Q \cup R)
  <1>1. Live(s, c) = Live(s, a) \ (Q \cup R)
    BY DEF Removes
  <1>2. Entries(s, (Q \cup R) \cap Live(s, a)) =
          Entries(s, Q \cap Live(s, a)) \cup Entries(s, R \cap Live(s, b))
    BY DEF Removes, Entries
  <1> QED
    BY <1>1, <1>2 DEF Removes

\* buckets that are not there are removed by doing nothing
LEMMA RemovesNothing ==
  ASSUME NEW s, NEW a \in Deletions(s), NEW Q, Q \cap Live(s, a) = {}
  PROVE  Removes(s, a, a, Q)
  <1>1. Entries(s, Q \cap Live(s, a)) = {}
    BY DEF Entries
  <1> QED
    BY <1>1 DEF Removes

\* only the buckets that are there count
LEMMA RemovesSame ==
  ASSUME NEW s, NEW a, NEW b, NEW Q, NEW R, Removes(s, a, b, Q),
         Q \cap Live(s, a) = R \cap Live(s, a)
  PROVE  Removes(s, a, b, R)
  <1>1. Live(s, a) \ Q = Live(s, a) \ R
    OBVIOUS
  <1> QED
    BY <1>1 DEF Removes

\* the end of deleteBucket removes its own bucket
LEMMA BucketDropped ==
  ASSUME NEW d, NEW s, Shaped(s), NEW p \in BucketPaths, NEW a \in Deletions(s), p \in Live(s, a)
  PROVE  Removes(s, a, DropBucket(d, s, p, a), {p})
  <1> DEFINE b == DropBucket(d, s, p, a)
             pairs == ClearKeys(Left(s, a), p)
             keys == DOMAIN s \cup {IndexOf[q] : q \in BucketPaths}
  <1>1. pairs = {f \in PairsOf(s, p) : f \notin a.gone}
    <2>1. Shaped(Left(s, a))
      BY ShapedDrop DEF Left
    <2>2. pairs = PairsOf(Left(s, a), p)
      BY <2>1, Listed
    <2>3. DOMAIN Left(s, a) = DOMAIN s \ a.gone
      BY Dropped DEF Left
    <2> QED
      BY <2>2, <2>3 DEF PairsOf
  <1>2. b.gone = a.gone \cup {IndexOf[p]} \cup (IF d = "leveldb" THEN {} ELSE pairs)
    BY DEF DropBucket, BucketKey
  <1>3. b.batch = a.batch \cup (IF d = "leveldb" THEN pairs ELSE {})
    BY DEF DropBucket, BucketKey
  <1>4. b = [gone |-> b.gone, batch |-> b.batch]
    BY DEF DropBucket
  <1> HIDE DEF b, pairs
  <1>5. a.gone \subseteq keys /\ a.batch \subseteq keys
    BY DeletionType
  <1>6. pairs \subseteq DOMAIN s /\ \A f \in pairs : \A q \in BucketPaths : f # IndexOf[q]
    <2>1. ASSUME NEW f \in pairs, NEW q \in BucketPaths PROVE f # IndexOf[q]
      <3>1. PICK k \in Keys : f = InnerKey(p, k)
        BY <1>1, <2>1 DEF PairsOf
      <3>2. k \in Str
        BY KeysAreStr
      <3> QED
        BY <3>1, <3>2, KeysDiffer
    <2> QED
      BY <1>1, <2>1 DEF PairsOf
  <1>7. b \in Deletions(s)
    <2>1. b.gone \subseteq keys
      BY <1>2, <1>5, <1>6
    <2>2. b.batch \subseteq keys
      BY <1>3, <1>5, <1>6
    <2> QED
      BY <1>4, <2>1, <2>2, DeletionType
  <1>8. Live(s, b) = Live(s, a) \ {p}
    <2>1. ASSUME NEW q \in BucketPaths
          PROVE  IndexOf[q] \in b.gone <=> (IndexOf[q] \in a.gone \/ q = p)
      <3>1. (IndexOf[q] = IndexOf[p]) => q = p
        <4>1. <<>> \in Str
          BY ClearPrefix
        <4> QED
          BY <4>1, KeysDiffer
      <3>2. IndexOf[q] \notin pairs
        BY <1>6
      <3> QED
        BY <1>2, <3>1, <3>2
    <2> QED
      BY <2>1, LiveDef
  <1>9. Total(b) \cap DOMAIN s = (Total(a) \cap DOMAIN s) \cup Entries(s, {p} \cap Live(s, a))
    <2>1. {p} \cap Live(s, a) = {p}
      OBVIOUS
    <2>2. Entries(s, {p}) = PairsOf(s, p) \cup {IndexOf[p]}
      <3>1. IndexOf[p] \in DOMAIN s
        BY LiveDef
      <3> QED
        BY <3>1 DEF Entries, PairsOf
    <2>3. Total(b) = Total(a) \cup {IndexOf[p]} \cup pairs
      BY <1>2, <1>3 DEF Total
    <2>4. Total(b) = Total(a) \cup {IndexOf[p]} \cup PairsOf(s, p)
      BY <1>1, <2>3 DEF Total
    <2>5. PairsOf(s, p) \cup {IndexOf[p]} \subseteq DOMAIN s
      BY <2>2 DEF Entries
    <2> QED
      BY <2>1, <2>2, <2>4, <2>5
  <1>10. Removes(s, a, b, {p})
    BY <1>7, <1>8, <1>9 DEF Removes
  <1> QED
    BY <1>10 DEF b

\* the loop over the sub buckets
IsSubs(f, s, p, names, inner, a) ==
    /\ f[0] = a
    /\ \A i \in 1 .. Len(names) : f[i] = DeleteSub(s, p, names[i], inner, f[i - 1])

\* the loop of deleteBucket, name by name
LEMMA SubsRounds ==
  ASSUME NEW s, NEW p, NEW names \in Seq(ValidNames), NEW inner, NEW a
  PROVE  \E f : IsSubs(f, s, p, names, inner, a) /\ DeleteSubs(s, p, names, inner, a) = f[Len(names)]
  <1> DEFINE m == Len(names)
             Round(i, x) == DeleteSub(s, p, names[i], inner, x)
             Loop(f, k) == f[0] = a /\ \A i \in 1 .. k : f[i] = Round(i, f[i - 1])
             Body(f) == [i \in 0 .. m |-> IF i = 0 THEN a ELSE Round(i, f[i - 1])]
             after == CHOOSE f : f = Body(f)
             T == {k \in 0 .. m : ~ \E f : Loop(f, k)}
  <1>0. DeleteSubs(s, p, names, inner, a) = after[m]
    BY DEF DeleteSubs
  <1>1. m \in Nat
    OBVIOUS
  <1> HIDE DEF m, Round
  <1>2. T = {}
    <2> SUFFICES ASSUME T # {} PROVE FALSE
      OBVIOUS
    <2>1. PICK k \in T : \A j \in T : k <= j
      <3>1. T \in SUBSET Nat
        BY <1>1
      <3> QED
        BY <3>1, Least
    <2>2. k \in 0 .. m /\ ~ \E f : Loop(f, k)
      BY <2>1
    <2>3. CASE k = 0
      <3> DEFINE g == [n \in 0 .. 0 |-> a]
      <3>1. g[0] = a
        OBVIOUS
      <3>2. \A i \in 1 .. k : FALSE
        BY <2>3
      <3> HIDE DEF g
      <3>3. Loop(g, k)
        BY <3>1, <3>2
      <3> QED
        BY <2>2, <3>3
    <2>4. CASE k # 0
      <3>1. k - 1 \in 0 .. m /\ k \in 1 .. m /\ k \in Nat /\ k - 1 < k
        BY <1>1, <2>2, <2>4
      <3>2. k - 1 \notin T
        <4> HIDE DEF T
        <4> QED
          BY <2>1, <3>1
      <3>3. PICK g : Loop(g, k - 1)
        BY <3>1, <3>2
      <3> DEFINE h == [i \in 0 .. k |-> IF i = k THEN Round(k, g[k - 1]) ELSE g[i]]
      <3>4. h[0] = a
        BY <2>4, <3>1, <3>3
      <3>5. ASSUME NEW i \in 1 .. k PROVE h[i] = Round(i, h[i - 1])
        <4>1. i - 1 \in 0 .. k /\ i - 1 # k /\ h[i - 1] = g[i - 1]
          BY <3>1
        <4>2. CASE i = k
          BY <3>1, <4>1, <4>2
        <4>3. CASE i # k
          <5>1. i \in 1 .. k - 1 /\ h[i] = g[i]
            BY <3>1, <4>3
          <5> QED
            BY <3>3, <4>1, <5>1
        <4> QED
          BY <4>2, <4>3
      <3> HIDE DEF h
      <3>6. Loop(h, k)
        BY <3>4, <3>5
      <3> QED
        BY <2>2, <3>6
    <2> QED
      BY <2>3, <2>4
  <1>3. PICK f : Loop(f, m)
    <2>1. m \in 0 .. m
      BY <1>1
    <2> HIDE DEF Loop
    <2>2. \A k \in 0 .. m : \E f : Loop(f, k)
      BY <1>2
    <2> QED
      BY <2>1, <2>2
  <1>4. [i \in 0 .. m |-> f[i]] = Body([i \in 0 .. m |-> f[i]])
    <2> DEFINE g == [i \in 0 .. m |-> f[i]]
    <2>1. ASSUME NEW i \in 0 .. m
          PROVE  g[i] = IF i = 0 THEN a ELSE Round(i, g[i - 1])
      <3>1. CASE i = 0
        BY <1>3, <3>1
      <3>2. CASE i # 0
        <4>1. i \in 1 .. m /\ i - 1 \in 0 .. m
          BY <1>1, <3>2
        <4>2. g[i] = f[i] /\ g[i - 1] = f[i - 1]
          BY <4>1
        <4> QED
          BY <1>3, <3>2, <4>1, <4>2
      <3> QED
        BY <3>1, <3>2
    <2> QED
      BY <2>1
  <1>5. after = Body(after)
    BY <1>4
  <1> HIDE DEF after
  <1>6. after[0] = a /\ \A i \in 1 .. m : after[i] = Round(i, after[i - 1])
    BY <1>1, <1>5
  <1> QED
    BY <1>0, <1>6 DEF IsSubs, m, Round

\* what a bucket's deletion does, as inner for the buckets below p
Deletes(s, p, inner) ==
    \A n \in ValidNames, b \in Deletions(s) :
        UpClosed(Live(s, b)) /\ Append(p, n) \in Live(s, b)
        => Removes(s, b, inner[Append(p, n)][b], Under(Append(p, n)))

\* without everything under p the rest is still in buckets that exist
LEMMA StillClosed ==
  ASSUME NEW s, NEW a, NEW b, NEW p \in BucketPaths, Removes(s, a, b, Under(p)), UpClosed(Live(s, a))
  PROVE  UpClosed(Live(s, b))
  <1> SUFFICES ASSUME NEW q \in Live(s, b), NEW r \in BucketPaths, IsPrefix(r, q)
               PROVE  r \in Live(s, b)
    BY DEF UpClosed
  <1>1. q \in Live(s, a) /\ q \notin Under(p) /\ q \in BucketPaths
    BY LiveDef DEF Removes
  <1>2. r \in Live(s, a)
    BY <1>1 DEF UpClosed
  <1>3. r \notin Under(p)
    BY <1>1, PrefixTransitive DEF Under
  <1> QED
    BY <1>2, <1>3 DEF Removes

\* one round of the loop, if the deletion one level down is right
LEMMA SubDeleted ==
  ASSUME NEW s, Shaped(s), NEW p \in BucketPaths, Len(p) < MaxDepth, NEW inner, Deletes(s, p, inner),
         NEW n \in ValidNames, NEW b \in Deletions(s), UpClosed(Live(s, b))
  PROVE  /\ Removes(s, b, DeleteSub(s, p, n, inner, b), Under(Append(p, n)))
         /\ UpClosed(Live(s, DeleteSub(s, p, n, inner, b)))
  <1> DEFINE q == Append(p, n)
             c == DeleteSub(s, p, n, inner, b)
  <1>1. q \in BucketPaths
    BY SubPath
  <1>2. Bucket(Left(s, b), p, n) <=> q \in Live(s, b)
    <2>1. Shaped(Left(s, b))
      BY ShapedDrop DEF Left
    <2> QED
      BY <2>1, Listed DEF Live
  <1>3. CASE q \in Live(s, b)
    <2>1. c = inner[q][b]
      BY <1>2, <1>3 DEF DeleteSub, SubBucket
    <2>2. Removes(s, b, inner[q][b], Under(q))
      BY <1>3 DEF Deletes
    <2>3. Removes(s, b, c, Under(q))
      BY <2>1, <2>2
    <2> HIDE DEF q, c
    <2>4. UpClosed(Live(s, c))
      BY <1>1, <2>3, StillClosed
    <2> QED
      BY <2>3, <2>4 DEF q, c
  <1>4. CASE q \notin Live(s, b)
    <2>1. c = b
      BY <1>2, <1>4 DEF DeleteSub
    <2>2. Under(q) \cap Live(s, b) = {}
      <3> SUFFICES ASSUME NEW r \in Under(q) \cap Live(s, b) PROVE FALSE
        OBVIOUS
      <3>1. IsPrefix(q, r)
        BY DEF Under
      <3> HIDE DEF q
      <3> QED
        BY <1>1, <1>4, <3>1 DEF UpClosed
    <2>3. Removes(s, b, b, Under(q))
      <3> HIDE DEF q
      <3> QED
        BY <2>2, RemovesNothing
    <2> QED
      BY <2>1, <2>3
  <1> QED
    BY <1>3, <1>4

\* all rounds of it
LEMMA SubsDeleted ==
  ASSUME NEW s, Shaped(s), NEW p \in BucketPaths, Len(p) < MaxDepth, NEW inner, Deletes(s, p, inner),
         NEW names \in Seq(ValidNames), NEW a \in Deletions(s), UpClosed(Live(s, a))
  PROVE  Removes(s, a, DeleteSubs(s, p, names, inner, a),
                 UNION {Under(Append(p, names[i])) : i \in 1 .. Len(names)})
  <1>1. PICK f : IsSubs(f, s, p, names, inner, a) /\ DeleteSubs(s, p, names, inner, a) = f[Len(names)]
    BY SubsRounds
  <1> DEFINE Q(k) == UNION {Under(Append(p, names[i])) : i \in 1 .. k}
             Good(k) == Removes(s, a, f[k], Q(k)) /\ UpClosed(Live(s, f[k]))
             T == {k \in 0 .. Len(names) : ~Good(k)}
  <1>2. T = {}
    <2> SUFFICES ASSUME T # {} PROVE FALSE
      OBVIOUS
    <2>1. PICK k \in T : \A j \in T : k <= j
      <3>1. T \in SUBSET Nat
        OBVIOUS
      <3> QED
        BY <3>1, Least
    <2>2. k \in 0 .. Len(names) /\ ~Good(k)
      BY <2>1
    <2>3. CASE k = 0
      <3>1. f[k] = a
        BY <1>1, <2>3 DEF IsSubs
      <3>2. Q(k) = {}
        BY <2>3
      <3>3. Removes(s, a, a, {})
        BY RemovesNothing
      <3>4. Removes(s, a, f[k], Q(k))
        BY <3>1, <3>2, <3>3
      <3> QED
        BY <2>2, <3>1, <3>4
    <2>4. CASE k # 0
      <3>1. k \in 1 .. Len(names) /\ k - 1 \in 0 .. Len(names) /\ k - 1 < k /\ k \in Nat
        BY <2>2, <2>4
      <3>2. k - 1 \notin T
        <4> HIDE DEF T
        <4> QED
          BY <2>1, <3>1
      <3>3. Good(k - 1)
        BY <3>1, <3>2
      <3> DEFINE n == names[k]
                 b == f[k - 1]
                 c == f[k]
      <3>4. n \in ValidNames
        BY <3>1
      <3>5. c = DeleteSub(s, p, n, inner, b)
        BY <1>1, <3>1 DEF IsSubs
      <3>6. Removes(s, a, b, Q(k - 1)) /\ UpClosed(Live(s, b))
        BY <3>3
      <3>7. Q(k) = Q(k - 1) \cup Under(Append(p, n))
        BY <3>1
      <3>8. ~(Removes(s, a, c, Q(k)) /\ UpClosed(Live(s, c)))
        BY <2>2
      <3> HIDE DEF n, b, c, Q
      <3>9. b \in Deletions(s)
        BY <3>6 DEF Removes
      <3>10. Removes(s, b, c, Under(Append(p, n))) /\ UpClosed(Live(s, c))
        BY <3>4, <3>5, <3>6, <3>9, SubDeleted
      <3>11. Removes(s, a, c, Q(k - 1) \cup Under(Append(p, n)))
        BY <3>6, <3>10, RemovesBoth
      <3> QED
        BY <3>7, <3>8, <3>10, <3>11
    <2> QED
      BY <2>3, <2>4
  <1>3. Good(Len(names))
    <2>1. Len(names) \in 0 .. Len(names)
      OBVIOUS
    <2> QED
      BY <1>2, <2>1
  <1> QED
    BY <1>1, <1>3

\* one level of deleteBucket, over what the level below is
Level(d, s, h, inner) ==
    [p \in BucketPaths |-> [a \in Deletions(s) |->
        DropBucket(d, s, p,
            IF h = 0 THEN a
            ELSE DeleteSubs(s, p, SetToSeq(BucketNames(Left(s, a), p)), inner, a))]]

\* deleteBucket, level by level
LEMMA Levels ==
  ASSUME NEW d, NEW s
  PROVE  /\ deleteBucket(d, s)[0] = Level(d, s, 0, <<>>)
         /\ \A h \in 1 .. MaxDepth : deleteBucket(d, s)[h] = Level(d, s, h, deleteBucket(d, s)[h - 1])
  <1> DEFINE m == MaxDepth
             Round(h, x) == Level(d, s, h, x)
             base == Level(d, s, 0, <<>>)
             Loop(f, k) == f[0] = base /\ \A i \in 1 .. k : f[i] = Round(i, f[i - 1])
             Body(f) == [i \in 0 .. m |-> Round(i, f[i - 1])]
             level == CHOOSE f : f = Body(f)
             T == {k \in 0 .. m : ~ \E f : Loop(f, k)}
  <1>0. deleteBucket(d, s) = level
    BY DEF deleteBucket, Level
  <1>1. m \in Nat
    BY PathFacts
  <1>b. \A x : Round(0, x) = base
    BY DEF Level
  <1> HIDE DEF m, Round, base
  <1>2. T = {}
    <2> SUFFICES ASSUME T # {} PROVE FALSE
      OBVIOUS
    <2>1. PICK k \in T : \A j \in T : k <= j
      <3>1. T \in SUBSET Nat
        BY <1>1
      <3> QED
        BY <3>1, Least
    <2>2. k \in 0 .. m /\ ~ \E f : Loop(f, k)
      BY <2>1
    <2>3. CASE k = 0
      <3> DEFINE g == [n \in 0 .. 0 |-> base]
      <3>1. g[0] = base
        OBVIOUS
      <3>2. \A i \in 1 .. k : FALSE
        BY <2>3
      <3> HIDE DEF g
      <3>3. Loop(g, k)
        BY <3>1, <3>2
      <3> QED
        BY <2>2, <3>3
    <2>4. CASE k # 0
      <3>1. k - 1 \in 0 .. m /\ k \in 1 .. m /\ k \in Nat /\ k - 1 < k
        BY <1>1, <2>2, <2>4
      <3>2. k - 1 \notin T
        <4> HIDE DEF T
        <4> QED
          BY <2>1, <3>1
      <3>3. PICK g : Loop(g, k - 1)
        BY <3>1, <3>2
      <3> DEFINE h == [i \in 0 .. k |-> IF i = k THEN Round(k, g[k - 1]) ELSE g[i]]
      <3>4. h[0] = base
        BY <2>4, <3>1, <3>3
      <3>5. ASSUME NEW i \in 1 .. k PROVE h[i] = Round(i, h[i - 1])
        <4>1. i - 1 \in 0 .. k /\ i - 1 # k /\ h[i - 1] = g[i - 1]
          BY <3>1
        <4>2. CASE i = k
          BY <3>1, <4>1, <4>2
        <4>3. CASE i # k
          <5>1. i \in 1 .. k - 1 /\ h[i] = g[i]
            BY <3>1, <4>3
          <5> QED
            BY <3>3, <4>1, <5>1
        <4> QED
          BY <4>2, <4>3
      <3> HIDE DEF h
      <3>6. Loop(h, k)
        BY <3>4, <3>5
      <3> QED
        BY <2>2, <3>6
    <2> QED
      BY <2>3, <2>4
  <1>3. PICK f : Loop(f, m)
    <2>1. m \in 0 .. m
      BY <1>1
    <2> HIDE DEF Loop
    <2>2. \A k \in 0 .. m : \E f : Loop(f, k)
      BY <1>2
    <2> QED
      BY <2>1, <2>2
  <1>4. [i \in 0 .. m |-> f[i]] = Body([i \in 0 .. m |-> f[i]])
    <2> DEFINE g == [i \in 0 .. m |-> f[i]]
    <2>1. ASSUME NEW i \in 0 .. m PROVE g[i] = Round(i, g[i - 1])
      <3>1. CASE i = 0
        BY <1>3, <1>b, <3>1
      <3>2. CASE i # 0
        <4>1. i \in 1 .. m /\ i - 1 \in 0 .. m
          BY <1>1, <3>2
        <4>2. g[i] = f[i] /\ g[i - 1] = f[i - 1]
          BY <4>1
        <4> QED
          BY <1>3, <3>2, <4>1, <4>2
      <3> QED
        BY <3>1, <3>2
    <2> QED
      BY <2>1
  <1>5. level = Body(level)
    BY <1>4
  <1> HIDE DEF level
  <1>6. level[0] = base /\ \A i \in 1 .. m : level[i] = Round(i, level[i - 1])
    BY <1>1, <1>5, <1>b
  <1> QED
    BY <1>0, <1>6 DEF m, Round, base

\* deleteBucket of one bucket in terms of the level below
LEMMA LevelAt ==
  ASSUME NEW d, NEW s, NEW h, NEW inner, NEW p \in BucketPaths, NEW a \in Deletions(s)
  PROVE  Level(d, s, h, inner)[p][a] =
           DropBucket(d, s, p,
             IF h = 0 THEN a
             ELSE DeleteSubs(s, p, SetToSeq(BucketNames(Left(s, a), p)), inner, a))
  BY DEF Level

\* what SetToSeq makes of a finite set
LEMMA Enumerated ==
  ASSUME NEW S, IsFiniteSet(S)
  PROVE  /\ SetToSeq(S) \in Seq(S)
         /\ \A x : x \in S <=> \E i \in 1 .. Len(SetToSeq(S)) : x = SetToSeq(S)[i]
  <1> DEFINE n == Cardinality(S)
             o == SetToSeq(S)
  <1>1. n \in Nat /\ ExistsBijection(1 .. n, S)
    BY FS_CardinalityType
  <1>2. PICK f \in [1 .. n -> S] : IsInjective(f)
    BY <1>1 DEF ExistsBijection, Bijection, Injection
  <1>3. o \in [1 .. n -> S] /\ IsInjective(o)
    BY <1>2 DEF SetToSeq
  <1> HIDE DEF o
  <1>4. o \in Injection(1 .. n, S)
    BY <1>3 DEF Injection, IsInjective
  <1>5. IsFiniteSet(1 .. n) /\ Cardinality(1 .. n) = n
    BY <1>1, FS_Interval
  <1>6. o \in Surjection(1 .. n, S)
    BY <1>4, <1>5, FS_Injection
  <1> HIDE DEF n
  <1>7. o \in Seq(S) /\ Len(o) = n
    BY <1>1, <1>3
  <1>8. \A x \in S : \E i \in 1 .. n : x = o[i]
    BY <1>6 DEF Surjection
  <1>9. \A i \in 1 .. n : o[i] \in S
    BY <1>3
  <1> QED
    BY <1>7, <1>8, <1>9 DEF o

\* the names deleteBucket goes through
LEMMA SubNames ==
  ASSUME NEW s, Shaped(s), NEW p \in BucketPaths, Len(p) < MaxDepth, NEW a,
         NEW names, names = SetToSeq(BucketNames(Left(s, a), p))
  PROVE  /\ names \in Seq(ValidNames)
         /\ \A n \in ValidNames :
              Append(p, n) \in Live(s, a) <=> \E i \in 1 .. Len(names) : n = names[i]
  <1> DEFINE S == BucketNames(Left(s, a), p)
  <1>1. Shaped(Left(s, a))
    BY ShapedDrop DEF Left
  <1>2. S = {n \in ValidNames : Append(p, n) \in Live(s, a)}
    BY <1>1, Listed DEF Live
  <1>3. IsFiniteSet(S)
    <2>1. S \subseteq Names
      BY <1>2 DEF ValidNames
    <2> QED
      BY <2>1, FS_Subset, WalletDBAssumption
  <1> HIDE DEF S
  <1>4. names \in Seq(S) /\ \A x : x \in S <=> \E i \in 1 .. Len(names) : x = names[i]
    BY <1>3, Enumerated DEF S
  <1>5. names \in Seq(ValidNames)
    <2>1. S \subseteq ValidNames
      BY <1>2
    <2> QED
      BY <1>4, <2>1, SeqMonotonic
  <1> QED
    BY <1>2, <1>4, <1>5

\* deleteBucket of either driver removes its bucket with everything under it.
LEMMA Deleted ==
  ASSUME NEW d, NEW s, Shaped(s)
  PROVE  \A h \in 0 .. MaxDepth : \A p \in BucketPaths, a \in Deletions(s) :
           Len(p) + h = MaxDepth /\ UpClosed(Live(s, a)) /\ p \in Live(s, a)
           => Removes(s, a, deleteBucket(d, s)[h][p][a], Under(p))
  <1> DEFINE level == deleteBucket(d, s)
             Right(h) == \A p \in BucketPaths, a \in Deletions(s) :
                           Len(p) + h = MaxDepth /\ UpClosed(Live(s, a)) /\ p \in Live(s, a)
                           => Removes(s, a, level[h][p][a], Under(p))
             T == {h \in 0 .. MaxDepth : ~Right(h)}
  <1>0. MaxDepth \in Nat
    BY PathFacts
  <1>1. /\ level[0] = Level(d, s, 0, <<>>)
        /\ \A h \in 1 .. MaxDepth : level[h] = Level(d, s, h, level[h - 1])
    BY Levels
  <1> HIDE DEF level
  <1> SUFFICES ASSUME T # {} PROVE FALSE
    BY DEF level
  <1>2. PICK h \in T : \A j \in T : h <= j
    <2>1. T \in SUBSET Nat
      BY <1>0
    <2> QED
      BY <2>1, Least
  <1>3. h \in 0 .. MaxDepth /\ ~Right(h)
    BY <1>2
  <1>4. PICK p \in BucketPaths, a \in Deletions(s) :
          /\ Len(p) + h = MaxDepth /\ UpClosed(Live(s, a)) /\ p \in Live(s, a)
          /\ ~Removes(s, a, level[h][p][a], Under(p))
    BY <1>3
  <1>5. Len(p) \in Nat
    BY PathFacts
  <1>6. CASE h = 0
    <2>1. level[h][p][a] = DropBucket(d, s, p, a)
      BY <1>1, <1>6, LevelAt
    <2>2. Removes(s, a, DropBucket(d, s, p, a), {p})
      BY <1>4, BucketDropped
    <2>3. Under(p) = {p}
      <3>1. ~(Len(p) < MaxDepth)
        BY <1>0, <1>4, <1>5, <1>6
      <3> QED
        BY <3>1, PrefixStep, PrefixReflexive DEF Under
    <2> QED
      BY <1>4, <2>1, <2>2, <2>3
  <1>7. CASE h # 0
    <2>1. h \in 1 .. MaxDepth /\ h - 1 \in 0 .. MaxDepth /\ h - 1 < h /\ Len(p) < MaxDepth
      BY <1>0, <1>3, <1>4, <1>5, <1>7
    <2>2. h - 1 \notin T
      <3> HIDE DEF T
      <3> QED
        BY <1>2, <2>1
    <2>3. Right(h - 1)
      BY <2>1, <2>2
    <2> DEFINE inner == level[h - 1]
               names == SetToSeq(BucketNames(Left(s, a), p))
               b == DeleteSubs(s, p, names, inner, a)
               c == DropBucket(d, s, p, b)
               Q == UNION {Under(Append(p, names[i])) : i \in 1 .. Len(names)}
    <2>4. level[h][p][a] = c
      <3>1. level[h] = Level(d, s, h, inner)
        BY <1>1, <2>1
      <3> HIDE DEF inner
      <3> QED
        BY <1>7, <3>1, LevelAt
    <2>5. /\ names \in Seq(ValidNames)
          /\ \A n \in ValidNames :
               Append(p, n) \in Live(s, a) <=> \E i \in 1 .. Len(names) : n = names[i]
      BY <2>1, SubNames
    <2>6. Deletes(s, p, inner)
      <3> SUFFICES ASSUME NEW n \in ValidNames, NEW e \in Deletions(s), UpClosed(Live(s, e)),
                          Append(p, n) \in Live(s, e)
                   PROVE  Removes(s, e, inner[Append(p, n)][e], Under(Append(p, n)))
        BY DEF Deletes
      <3> DEFINE q == Append(p, n)
      <3>1. q \in BucketPaths
        BY <2>1, SubPath
      <3>2. Len(q) + (h - 1) = MaxDepth
        <4>1. p \in Seq(ValidNames)
          BY PathFacts
        <4>2. Len(q) = Len(p) + 1
          BY <4>1, Appended
        <4> HIDE DEF q
        <4> QED
          BY <1>0, <1>3, <1>4, <1>5, <4>2
      <3>3. q \in Live(s, e)
        OBVIOUS
      <3> HIDE DEF q
      <3>4. Removes(s, e, level[h - 1][q][e], Under(q))
        BY <2>3, <3>1, <3>2, <3>3
      <3> QED
        BY <3>4 DEF q
    <2> HIDE DEF names
    <2>7. Removes(s, a, b, Q)
      <3> HIDE DEF inner
      <3> QED
        BY <1>4, <2>1, <2>5, <2>6, SubsDeleted
    <2>8. ASSUME NEW i \in 1 .. Len(names)
          PROVE  /\ names[i] \in ValidNames /\ Append(p, names[i]) \in BucketPaths
                 /\ IsPrefix(p, Append(p, names[i])) /\ ~IsPrefix(Append(p, names[i]), p)
      <3>1. names[i] \in ValidNames
        BY <2>5
      <3> QED
        BY <2>1, <3>1, SubPath, PrefixAppend
    <2> HIDE DEF b, c
    <2>9. b \in Deletions(s) /\ p \in Live(s, b)
      <3>1. p \notin Q
        BY <2>8 DEF Under
      <3> HIDE DEF Q
      <3> QED
        BY <1>4, <2>7, <3>1 DEF Removes
    <2>10. Removes(s, b, c, {p})
      BY <2>9, BucketDropped DEF c
    <2>11. Removes(s, a, c, Q \cup {p})
      <3> HIDE DEF Q
      <3> QED
        BY <2>7, <2>10, RemovesBoth
    <2>12. (Q \cup {p}) \cap Live(s, a) = Under(p) \cap Live(s, a)
      <3>1. ASSUME NEW q \in (Q \cup {p}) \cap Live(s, a) PROVE q \in Under(p)
        <4>1. CASE q = p
          BY <4>1, PrefixReflexive DEF Under
        <4>2. CASE q # p
          <5>1. PICK i \in 1 .. Len(names) : q \in Under(Append(p, names[i]))
            BY <3>1, <4>2
          <5>2. q \in BucketPaths /\ IsPrefix(Append(p, names[i]), q)
            BY <5>1 DEF Under
          <5>3. IsPrefix(p, q)
            BY <2>8, <5>2, PrefixTransitive
          <5> QED
            BY <5>2, <5>3 DEF Under
        <4> QED
          BY <4>1, <4>2
      <3>2. ASSUME NEW q \in Under(p) \cap Live(s, a), q # p PROVE q \in Q
        <4>1. q \in BucketPaths /\ IsPrefix(p, q)
          BY <3>2 DEF Under
        <4>2. PICK n \in ValidNames : IsPrefix(Append(p, n), q)
          BY <3>2, <4>1, PrefixStep
        <4>3. Append(p, n) \in BucketPaths
          BY <2>1, SubPath
        <4>4. Append(p, n) \in Live(s, a)
          BY <1>4, <3>2, <4>2, <4>3 DEF UpClosed
        <4>5. PICK i \in 1 .. Len(names) : n = names[i]
          BY <2>5, <4>4
        <4>6. q \in Under(Append(p, names[i]))
          BY <4>1, <4>2, <4>5 DEF Under
        <4> QED
          BY <4>6
      <3> QED
        BY <3>1, <3>2
    <2>13. Removes(s, a, c, Under(p))
      <3> HIDE DEF Q
      <3> QED
        BY <2>11, <2>12, RemovesSame
    <2> QED
      BY <1>4, <2>4, <2>13
  <1> QED
    BY <1>6, <1>7

-----------------------------------------------------------------------------
(* What the calls that list answer.                                        *)

\* The path cut off a pair's key leaves the key.
LEMMA KeyLeft ==
  ASSUME NEW p \in BucketPaths, NEW k \in Str
  PROVE  LET f == InnerKey(p, k)
         IN  SubSeq(f, Len(InnerKey(p, <<>>)) + 1, Len(f)) = k
  <1> DEFINE x == PathOf[p]
             f == Cut(x, k)
             m == Len(x) + 2
             z == SubSeq(f, m, Len(f))
  <1>1. x \in Str /\ k \in Str /\ Len(x) \in Nat /\ Len(k) \in Nat
    BY KeyFacts DEF Str
  <1>2. <<>> \in Str /\ Len(<<>>) = 0
    BY ClearPrefix
  <1>3. InnerKey(p, k) = f /\ Len(f) = Len(x) + 1 + Len(k) /\ f \in Str
    BY InnerFacts
  <1>4. Len(InnerKey(p, <<>>)) = Len(x) + 1
    <2>1. Len(InnerKey(p, <<>>)) = Len(x) + 1 + Len(<<>>)
      BY <1>2, InnerFacts
    <2> QED
      BY <1>1, <1>2, <2>1
  <1>5. \A i \in 1 .. Len(k) : f[Len(x) + 1 + i] = k[i]
    BY <1>1, CutAt
  <1> HIDE DEF x, f
  <1>6. z \in Str /\ Len(z) = Len(k) /\ \A i \in 1 .. Len(k) : z[i] = f[Len(x) + 1 + i]
    BY <1>1, <1>3 DEF Str
  <1> HIDE DEF z
  <1>7. z = k
    BY <1>1, <1>5, <1>6, SameStr
  <1>8. m = (Len(x) + 1) + 1
    BY <1>1
  <1> HIDE DEF m
  <1> QED
    BY <1>3, <1>4, <1>7, <1>8 DEF z
\* the pairs a call sees
LEMMA GetDef ==
  ASSUME NEW s, NEW p \in BucketPaths, NEW k \in Keys, NEW v, Shaped(s)
  PROVE  (v \in Get(s, p, k)) <=> (InnerKey(p, k) \in DOMAIN s /\ v = s[InnerKey(p, k)])
  <1> DEFINE f == InnerKey(p, k)
  <1>1. (f \in DOMAIN s) => Len(k) > 0
    BY PairValue
  <1>2. Get(s, p, k) = {s[g] : g \in {h \in {f} : Len(k) > 0 /\ h \in DOMAIN s}}
    BY DEF Get, Has
  <1> HIDE DEF f
  <1>3. (v \in Get(s, p, k)) <=> (f \in DOMAIN s /\ v = s[f])
    BY <1>1, <1>2
  <1> QED
    BY <1>3 DEF f

\* An iterator over a key's beginning meets pairs of its bucket only.
LEMMA PairsFound ==
  ASSUME NEW s, Shaped(s), NEW p \in BucketPaths, NEW x \in Str
  PROVE  Iterate(s, InnerKey(p, x)) =
           {f \in DOMAIN s : \E k \in Keys : f = InnerKey(p, k) /\ IsPrefix(x, k)}
  <1>1. ASSUME NEW f \in Iterate(s, InnerKey(p, x))
        PROVE  f \in DOMAIN s /\ \E k \in Keys : f = InnerKey(p, k) /\ IsPrefix(x, k)
    <2>1. f \in DOMAIN s /\ IsPrefix(InnerKey(p, x), f)
      BY DEF Iterate
    <2>2. \/ \E q \in BucketPaths : f = IndexOf[q]
          \/ \E q \in BucketPaths, k \in Keys : f = InnerKey(q, k)
      BY <2>1 DEF Shaped
    <2>3. ~ \E q \in BucketPaths : f = IndexOf[q]
      BY <2>1, InnerPrefix
    <2>4. PICK q \in BucketPaths, k \in Keys : f = InnerKey(q, k)
      BY <2>2, <2>3
    <2>5. k \in Str
      BY KeysAreStr
    <2>6. p = q /\ IsPrefix(x, k)
      BY <2>1, <2>4, <2>5, InnerPrefix
    <2> QED
      BY <2>1, <2>4, <2>6
  <1>2. ASSUME NEW f \in DOMAIN s, NEW k \in Keys, f = InnerKey(p, k), IsPrefix(x, k)
        PROVE  f \in Iterate(s, InnerKey(p, x))
    <2>1. k \in Str
      BY KeysAreStr
    <2>2. IsPrefix(InnerKey(p, x), InnerKey(p, k))
      BY <1>2, <2>1, InnerPrefix
    <2> QED
      BY <1>2, <2>2 DEF Iterate
  <1> QED
    BY <1>1, <1>2

\* GetByPrefix lists the bucket's pairs whose keys begin as asked
LEMMA ByPrefix ==
  ASSUME NEW s, Shaped(s), NEW p \in BucketPaths, NEW x \in Str
  PROVE  GetByPrefix(s, p, x) =
           {e \in Keys \X Values : IsPrefix(x, e[1]) /\ e[2] \in Get(s, p, e[1])}
  <1> DEFINE Key(f) == SubSeq(f, Len(InnerKey(p, <<>>)) + 1, Len(f))
             found == Iterate(s, InnerKey(p, x))
             asked == {e \in Keys \X Values : IsPrefix(x, e[1]) /\ e[2] \in Get(s, p, e[1])}
  <1>1. GetByPrefix(s, p, x) = {<<Key(f), s[f]>> : f \in found}
    BY DEF GetByPrefix
  <1>2. \A k \in Keys : Key(InnerKey(p, k)) = k
    BY KeysAreStr, KeyLeft
  <1>3. found = {f \in DOMAIN s : \E k \in Keys : f = InnerKey(p, k) /\ IsPrefix(x, k)}
    BY PairsFound
  <1> HIDE DEF Key, found
  <1>4. ASSUME NEW f \in found PROVE <<Key(f), s[f]>> \in asked
    <2>1. f \in DOMAIN s
      BY <1>3
    <2>2. PICK k \in Keys : f = InnerKey(p, k) /\ IsPrefix(x, k)
      BY <1>3
    <2>3. s[f] \in Values
      BY <2>1, <2>2, PairValue
    <2>4. s[f] \in Get(s, p, k)
      BY <2>1, <2>2, GetDef
    <2>5. Key(f) = k
      BY <1>2, <2>2
    <2> QED
      BY <2>2, <2>3, <2>4, <2>5
  <1>5. ASSUME NEW k \in Keys, NEW v \in Values, IsPrefix(x, k), v \in Get(s, p, k)
        PROVE  <<k, v>> \in {<<Key(f), s[f]>> : f \in found}
    <2> DEFINE f == InnerKey(p, k)
    <2>1. f \in DOMAIN s /\ v = s[f]
      BY <1>5, GetDef
    <2>2. f \in found
      BY <1>3, <1>5, <2>1
    <2>3. Key(f) = k
      BY <1>2
    <2> HIDE DEF f
    <2> QED
      BY <2>1, <2>2, <2>3
  <1>6. asked \subseteq {<<Key(f), s[f]>> : f \in found}
    BY <1>5
  <1>7. {<<Key(f), s[f]>> : f \in found} \subseteq asked
    BY <1>4
  <1> QED
    BY <1>1, <1>6, <1>7

\* What the calls that list promise, of one store.
Lists(s) ==
    /\ TopLevelNames(s) = {n \in ValidNames : FetchBucket(s, <<n>>)}
    /\ \A p \in {q \in BucketPaths : FetchBucket(s, q)} :
          /\ Len(p) < MaxDepth =>
                BucketNames(s, p) = {n \in ValidNames : FetchBucket(s, SubBucket(p, n))}
          /\ \A x \in Keys \cup {<<>>} :
                GetByPrefix(s, p, x) =
                    {e \in Keys \X Values : IsPrefix(x, e[1]) /\ e[2] \in Get(s, p, e[1])}

\* a bucket of the top level is within no other
LEMMA Single ==
  ASSUME NEW n \in ValidNames
  PROVE  /\ <<n>> \in BucketPaths /\ <<n>> = Append(<<>>, n) /\ Last(<<n>>) = n
         /\ \A r \in BucketPaths : IsPrefix(r, <<n>>) => r = <<n>>
  <1>1. <<n>> \in Seq(ValidNames) /\ Len(<<n>>) = 1 /\ <<n>>[1] = n /\ <<n>> = Append(<<>>, n)
    OBVIOUS
  <1> DEFINE q == <<n>>
  <1> HIDE DEF q
  <1>2. q \in BucketPaths
    <2>1. MaxDepth \in Nat /\ 1 \in 1 .. MaxDepth
      BY WalletDBAssumption
    <2> QED
      BY <1>1, <2>1, PathFacts DEF q
  <1>3. Last(q) = n
    BY <1>1 DEF Last, q
  <1>4. ASSUME NEW r \in BucketPaths, IsPrefix(r, q) PROVE r = q
    <2>1. r \in Seq(ValidNames) /\ Len(r) \in 1 .. MaxDepth /\ MaxDepth \in Nat
      BY PathFacts
    <2>2. q \in Seq(ValidNames) /\ Len(q) = 1
      BY <1>1 DEF q
    <2>3. Len(r) <= Len(q) /\ \A i \in 1 .. Len(r) : r[i] = q[i]
      BY <1>4, <2>1, <2>2, PathPrefix
    <2>4. Len(r) = Len(q)
      BY <2>1, <2>2, <2>3
    <2> QED
      BY <2>1, <2>2, <2>3, <2>4, SeqEqual
  <1> QED
    BY <1>1, <1>2, <1>3, <1>4 DEF q

\* a store of entries that have their shape is listed as promised
LEMMA ListsRight ==
  ASSUME NEW s, Shaped(s)
  PROVE  Lists(s)
  <1>1. TopLevelNames(s) = {n \in ValidNames : FetchBucket(s, <<n>>)}
    <2>1. /\ <<>> \in Seq(ValidNames) /\ Len(<<>>) = 0
          /\ IndexBelow(<<>>) = <<"b", Sep, "1", Sep>>
      BY TopPrefix
    <2>2. Len(<<>>) < MaxDepth
      BY <2>1, PathFacts, WalletDBAssumption
    <2>3. {s[f] : f \in Iterate(s, IndexBelow(<<>>))} = {n \in ValidNames : Append(<<>>, n) \in Buckets(s)}
      BY <2>1, <2>2, NamesBelow
    <2>4. \A n \in ValidNames : (Append(<<>>, n) \in Buckets(s)) <=> FetchBucket(s, <<n>>)
      BY Single DEF Buckets, FetchBucket, Has, BucketKey
    <2>5. TopLevelNames(s) = {n \in ValidNames : Append(<<>>, n) \in Buckets(s)}
      BY <2>1, <2>3 DEF TopLevelNames
    <2> QED
      BY <2>4, <2>5
  <1>2. ASSUME NEW p \in BucketPaths, Len(p) < MaxDepth
        PROVE  BucketNames(s, p) = {n \in ValidNames : FetchBucket(s, SubBucket(p, n))}
    <2>1. BucketNames(s, p) = {n \in ValidNames : Append(p, n) \in Buckets(s)}
      BY <1>2, Listed
    <2>2. \A n \in ValidNames : (Append(p, n) \in Buckets(s)) <=> FetchBucket(s, SubBucket(p, n))
      BY <1>2, SubPath DEF Buckets, FetchBucket, Has, BucketKey, SubBucket
    <2> QED
      BY <2>1, <2>2
  <1>3. ASSUME NEW p \in BucketPaths, NEW x \in Keys \cup {<<>>}
        PROVE  GetByPrefix(s, p, x) =
                 {e \in Keys \X Values : IsPrefix(x, e[1]) /\ e[2] \in Get(s, p, e[1])}
    <2>1. x \in Str
      BY KeysAreStr, ClearPrefix
    <2> QED
      BY <2>1, ByPrefix
  <1> QED
    BY <1>1, <1>2, <1>3 DEF Lists
-----------------------------------------------------------------------------
(* What writes make of a store and of its tree.                            *)

PairOf(e) == InnerKey(e[1], e[2])
Triples == BucketPaths \X Keys \X Values
Pairs(s) == {e \in Triples : PairOf(e) \in DOMAIN s /\ e[3] = s[PairOf(e)]}

\* the tree of a store, by its entries
LEMMA TreeIs ==
  ASSUME NEW s, Shaped(s)
  PROVE  TreeOf(s) = [buckets |-> Buckets(s), data |-> Pairs(s)]
  <1>1. {p \in BucketPaths : FetchBucket(s, p)} = Buckets(s)
    BY DEF FetchBucket, Has, BucketKey, Buckets
  <1>2. {e \in BucketPaths \X Keys \X Values : e[3] \in Get(s, e[1], e[2])} = Pairs(s)
    <2>1. ASSUME NEW e \in Triples PROVE (e[3] \in Get(s, e[1], e[2])) <=> e \in Pairs(s)
      <3>1. e[1] \in BucketPaths /\ e[2] \in Keys
        BY DEF Triples
      <3> QED
        BY <3>1, GetDef DEF Pairs, PairOf
    <2> QED
      BY <2>1 DEF Triples, Pairs
  <1> QED
    BY <1>1, <1>2 DEF TreeOf

\* a pair of the tree has a flat key of its own
LEMMA TripleFacts ==
  ASSUME NEW e \in Triples
  PROVE  /\ e[1] \in BucketPaths /\ e[2] \in Keys /\ e[3] \in Values /\ e[2] \in Str
         /\ e = <<e[1], e[2], e[3]>>
         /\ \A q \in BucketPaths : PairOf(e) # IndexOf[q]
         /\ \A q \in BucketPaths, k \in Keys : (PairOf(e) = InnerKey(q, k)) => e[1] = q /\ e[2] = k
  <1>1. e[1] \in BucketPaths /\ e[2] \in Keys /\ e[3] \in Values /\ e = <<e[1], e[2], e[3]>>
    BY DEF Triples
  <1>2. e[2] \in Str
    BY <1>1, KeysAreStr
  <1>3. ASSUME NEW q \in BucketPaths PROVE PairOf(e) # IndexOf[q]
    BY <1>1, <1>2, KeysDiffer DEF PairOf
  <1>4. ASSUME NEW q \in BucketPaths, NEW k \in Keys, PairOf(e) = InnerKey(q, k)
        PROVE  e[1] = q /\ e[2] = k
    <2>1. k \in Str
      BY KeysAreStr
    <2> QED
      BY <1>1, <1>2, <1>4, <2>1, KeysDiffer DEF PairOf
  <1> QED
    BY <1>1, <1>2, <1>3, <1>4

\* two buckets with one index entry are one
LEMMA IndexSame ==
  ASSUME NEW p \in BucketPaths, NEW q \in BucketPaths, IndexOf[p] = IndexOf[q]
  PROVE  p = q
  <1>1. <<>> \in Str
    BY ClearPrefix
  <1> QED
    BY <1>1, KeysDiffer

\* an index entry is stored: a bucket more, and no pair
LEMMA IndexStored ==
  ASSUME NEW s, StoreOK(s), NEW q \in BucketPaths,
         \A r \in BucketPaths : IsPrefix(r, q) => r = q \/ r \in Buckets(s)
  PROVE  LET t == Store(s, IndexOf[q], Last(q))
         IN  StoreOK(t) /\ Buckets(t) = Buckets(s) \cup {q} /\ Pairs(t) = Pairs(s)
  <1> DEFINE f == IndexOf[q]
             t == Store(s, f, Last(q))
  <1>1. /\ DOMAIN t = DOMAIN s \cup {f} /\ t[f] = Last(q)
        /\ \A g \in DOMAIN s : g # f => t[g] = s[g]
    <2> HIDE DEF f
    <2> QED
      BY DEF Store
  <1> HIDE DEF t
  <1>2. \A r \in BucketPaths : (IndexOf[r] = f) => r = q
    BY IndexSame
  <1>3. \A r \in BucketPaths, k \in Keys : InnerKey(r, k) # f
    BY KeysAreStr, KeysDiffer
  <1>4. f = IndexOf[q]
    OBVIOUS
  <1> HIDE DEF f
  <1>5. Buckets(t) = Buckets(s) \cup {q}
    BY <1>1, <1>2, <1>4 DEF Buckets
  <1>6. Shaped(t)
    BY <1>1, <1>4 DEF StoreOK, Shaped
  <1>7. UpClosed(Buckets(t))
    BY <1>5 DEF StoreOK, UpClosed
  <1>8. ASSUME NEW r \in BucketPaths, NEW k \in Keys, InnerKey(r, k) \in DOMAIN t
        PROVE  r \in Buckets(t)
    BY <1>1, <1>3, <1>5, <1>8 DEF StoreOK
  <1>9. Pairs(t) = Pairs(s)
    <2>1. \A e \in Triples : PairOf(e) # f
      BY <1>4, TripleFacts
    <2> QED
      BY <1>1, <2>1 DEF Pairs
  <1>10. StoreOK(t)
    BY <1>6, <1>7, <1>8 DEF StoreOK
  <1> QED
    BY <1>5, <1>9, <1>10 DEF t, f

\* a pair is stored in a bucket that exists: it replaces the one of its key
LEMMA PairStored ==
  ASSUME NEW s, StoreOK(s), NEW q \in Buckets(s), NEW k \in Keys, NEW v \in Values, Len(k) > 0
  PROVE  LET t == Store(s, InnerKey(q, k), v)
         IN  /\ StoreOK(t) /\ Buckets(t) = Buckets(s)
             /\ Pairs(t) = {e \in Pairs(s) : ~(e[1] = q /\ e[2] = k)} \cup {<<q, k, v>>}
  <1> DEFINE f == InnerKey(q, k)
             t == Store(s, f, v)
             u == <<q, k, v>>
  <1>0. q \in BucketPaths /\ k \in Str
    BY KeysAreStr DEF Buckets
  <1>1. /\ DOMAIN t = DOMAIN s \cup {f} /\ t[f] = v
        /\ \A g \in DOMAIN s : g # f => t[g] = s[g]
    <2> HIDE DEF f
    <2> QED
      BY DEF Store
  <1> HIDE DEF t
  <1>2. \A r \in BucketPaths : IndexOf[r] # f
    BY <1>0, KeysDiffer
  <1>3. \A r \in BucketPaths, j \in Keys : (InnerKey(r, j) = f) => r = q /\ j = k
    BY <1>0, KeysAreStr, KeysDiffer
  <1>4. f = InnerKey(q, k)
    OBVIOUS
  <1>5. u \in Triples /\ PairOf(u) = f /\ u[1] = q /\ u[2] = k /\ u[3] = v
    BY <1>0 DEF Triples, PairOf
  <1>6. \A e \in Triples : (PairOf(e) = f) <=> (e[1] = q /\ e[2] = k)
    <2>1. ASSUME NEW e \in Triples, PairOf(e) = f PROVE e[1] = q /\ e[2] = k
      BY <1>0, <2>1, TripleFacts
    <2>2. ASSUME NEW e \in Triples, e[1] = q, e[2] = k PROVE PairOf(e) = f
      BY <2>2 DEF PairOf
    <2> QED
      BY <2>1, <2>2
  <1>7. \A e \in Triples : (e[1] = q /\ e[2] = k /\ e[3] = v) => e = u
    BY TripleFacts
  <1> HIDE DEF f, u
  <1>8. Buckets(t) = Buckets(s)
    BY <1>1, <1>2 DEF Buckets
  <1>9. Shaped(t)
    BY <1>0, <1>1, <1>4 DEF StoreOK, Shaped
  <1>10. UpClosed(Buckets(t))
    BY <1>8 DEF StoreOK
  <1>11. ASSUME NEW r \in BucketPaths, NEW j \in Keys, InnerKey(r, j) \in DOMAIN t
        PROVE  r \in Buckets(t)
    BY <1>1, <1>3, <1>8, <1>11 DEF StoreOK
  <1>12. Pairs(t) = {e \in Pairs(s) : ~(e[1] = q /\ e[2] = k)} \cup {u}
    <2>1. ASSUME NEW e \in Pairs(t)
          PROVE  e \in {d \in Pairs(s) : ~(d[1] = q /\ d[2] = k)} \cup {u}
      <3>1. e \in Triples /\ PairOf(e) \in DOMAIN t /\ e[3] = t[PairOf(e)]
        BY DEF Pairs
      <3>2. CASE PairOf(e) = f
        BY <1>1, <1>6, <1>7, <3>1, <3>2
      <3>3. CASE PairOf(e) # f
        <4>1. PairOf(e) \in DOMAIN s /\ e[3] = s[PairOf(e)]
          BY <1>1, <3>1, <3>3
        <4> QED
          BY <1>6, <3>1, <3>3, <4>1 DEF Pairs
      <3> QED
        BY <3>2, <3>3
    <2>2. ASSUME NEW e \in Pairs(s), ~(e[1] = q /\ e[2] = k) PROVE e \in Pairs(t)
      <3>1. e \in Triples /\ PairOf(e) \in DOMAIN s /\ e[3] = s[PairOf(e)]
        BY DEF Pairs
      <3>2. PairOf(e) # f
        BY <1>6, <2>2, <3>1
      <3> QED
        BY <1>1, <3>1, <3>2 DEF Pairs
    <2>3. u \in Pairs(t)
      BY <1>1, <1>5 DEF Pairs
    <2> QED
      BY <2>1, <2>2, <2>3
  <1>13. StoreOK(t)
    BY <1>9, <1>10, <1>11 DEF StoreOK
  <1> QED
    BY <1>8, <1>12, <1>13 DEF t, f, u

\* pairs are dropped
LEMMA PairsDropped ==
  ASSUME NEW s, StoreOK(s), NEW F, \A q \in BucketPaths : IndexOf[q] \notin F
  PROVE  LET t == Drop(s, F)
         IN  /\ StoreOK(t) /\ Buckets(t) = Buckets(s)
             /\ Pairs(t) = {e \in Pairs(s) : PairOf(e) \notin F}
  <1> DEFINE t == Drop(s, F)
  <1>1. DOMAIN t = DOMAIN s \ F /\ \A f \in DOMAIN s \ F : t[f] = s[f]
    BY Dropped
  <1>2. Shaped(t)
    BY ShapedDrop DEF StoreOK
  <1> HIDE DEF t
  <1>3. Buckets(t) = Buckets(s)
    BY <1>1 DEF Buckets
  <1>4. Pairs(t) = {e \in Pairs(s) : PairOf(e) \notin F}
    BY <1>1 DEF Pairs
  <1>5. StoreOK(t)
    BY <1>1, <1>2, <1>3 DEF StoreOK
  <1> QED
    BY <1>3, <1>4, <1>5 DEF t

\* the entries of a bucket and of all under it are dropped
LEMMA UnderDropped ==
  ASSUME NEW s, StoreOK(s), NEW p \in BucketPaths, NEW F,
         F \cap DOMAIN s = Entries(s, Under(p) \cap Buckets(s))
  PROVE  LET t == Drop(s, F)
         IN  /\ StoreOK(t) /\ Buckets(t) = {q \in Buckets(s) : ~IsPrefix(p, q)}
             /\ Pairs(t) = {e \in Pairs(s) : ~IsPrefix(p, e[1])}
  <1> DEFINE t == Drop(s, F)
  <1>1. DOMAIN t = DOMAIN s \ F /\ \A f \in DOMAIN s \ F : t[f] = s[f]
    BY Dropped
  <1>2. Shaped(t)
    BY ShapedDrop DEF StoreOK
  <1> HIDE DEF t
  <1>3. ASSUME NEW q \in Buckets(s) PROVE (IndexOf[q] \in F) <=> IsPrefix(p, q)
    <2>0. q \in BucketPaths /\ IndexOf[q] \in DOMAIN s
      BY DEF Buckets
    <2>1. ASSUME IsPrefix(p, q) PROVE IndexOf[q] \in F
      BY <2>0, <2>1 DEF Entries, Under
    <2>2. ASSUME IndexOf[q] \in F PROVE IsPrefix(p, q)
      <3>1. PICK r \in Under(p) \cap Buckets(s) : IndexOf[q] = IndexOf[r] \/ IndexOf[q] \in PairsOf(s, r)
        BY <2>0, <2>2 DEF Entries
      <3>2. r \in BucketPaths /\ IsPrefix(p, r)
        BY <3>1 DEF Under
      <3>3. IndexOf[q] \notin PairsOf(s, r)
        BY <2>0, <3>2, KeysAreStr, KeysDiffer DEF PairsOf
      <3>4. q = r
        BY <2>0, <3>1, <3>2, <3>3, IndexSame
      <3> QED
        BY <3>2, <3>4
    <2> QED
      BY <2>1, <2>2
  <1>4. ASSUME NEW q \in BucketPaths, NEW k \in Keys, InnerKey(q, k) \in DOMAIN s
        PROVE  (InnerKey(q, k) \in F) <=> IsPrefix(p, q)
    <2>0. q \in Buckets(s) /\ k \in Str
      BY <1>4, KeysAreStr DEF StoreOK
    <2>1. ASSUME IsPrefix(p, q) PROVE InnerKey(q, k) \in F
      <3>1. q \in Under(p) \cap Buckets(s) /\ InnerKey(q, k) \in PairsOf(s, q)
        BY <1>4, <2>0, <2>1 DEF Under, PairsOf
      <3> QED
        BY <1>4, <3>1 DEF Entries
    <2>2. ASSUME InnerKey(q, k) \in F PROVE IsPrefix(p, q)
      <3> DEFINE f == InnerKey(q, k)
      <3>1. PICK r \in Under(p) \cap Buckets(s) : f = IndexOf[r] \/ f \in PairsOf(s, r)
        BY <1>4, <2>2 DEF Entries
      <3>2. r \in BucketPaths /\ IsPrefix(p, r)
        BY <3>1 DEF Under
      <3>3. f # IndexOf[r]
        BY <2>0, <3>2, KeysDiffer
      <3>4. PICK j \in Keys : f = InnerKey(r, j)
        BY <3>1, <3>3 DEF PairsOf
      <3>5. j \in Str
        BY KeysAreStr
      <3>6. q = r
        BY <2>0, <3>2, <3>4, <3>5, KeysDiffer
      <3> QED
        BY <3>2, <3>6
    <2> QED
      BY <2>1, <2>2
  <1>5. Buckets(t) = {q \in Buckets(s) : ~IsPrefix(p, q)}
    <2>1. \A q \in BucketPaths : (q \in Buckets(t)) <=> (q \in Buckets(s) /\ IndexOf[q] \notin F)
      BY <1>1 DEF Buckets
    <2>2. Buckets(t) \subseteq BucketPaths /\ Buckets(s) \subseteq BucketPaths
      BY DEF Buckets
    <2> QED
      BY <1>3, <2>1, <2>2
  <1>6. Pairs(t) = {e \in Pairs(s) : ~IsPrefix(p, e[1])}
    <2>1. \A e \in Triples : (e \in Pairs(t)) <=> (e \in Pairs(s) /\ PairOf(e) \notin F)
      BY <1>1 DEF Pairs
    <2>2. \A e \in Pairs(s) : (PairOf(e) \in F) <=> IsPrefix(p, e[1])
      <3> SUFFICES ASSUME NEW e \in Pairs(s) PROVE (PairOf(e) \in F) <=> IsPrefix(p, e[1])
        OBVIOUS
      <3>1. e \in Triples /\ PairOf(e) \in DOMAIN s
        BY DEF Pairs
      <3>2. e[1] \in BucketPaths /\ e[2] \in Keys
        BY <3>1, TripleFacts
      <3> QED
        BY <1>4, <3>1, <3>2 DEF PairOf
    <2>3. Pairs(t) \subseteq Triples /\ Pairs(s) \subseteq Triples
      BY DEF Pairs
    <2> QED
      BY <2>1, <2>2, <2>3
  <1>7. UpClosed(Buckets(t))
    <2> SUFFICES ASSUME NEW q \in Buckets(t), NEW r \in BucketPaths, IsPrefix(r, q)
                 PROVE  r \in Buckets(t)
      BY DEF UpClosed
    <2>1. q \in Buckets(s) /\ ~IsPrefix(p, q) /\ q \in BucketPaths
      BY <1>5 DEF Buckets
    <2>2. r \in Buckets(s)
      BY <2>1 DEF StoreOK, UpClosed
    <2>3. ~IsPrefix(p, r)
      BY <2>1, PrefixTransitive
    <2> QED
      BY <1>5, <2>2, <2>3
  <1>8. ASSUME NEW q \in BucketPaths, NEW k \in Keys, InnerKey(q, k) \in DOMAIN t
        PROVE  q \in Buckets(t)
    <2>1. InnerKey(q, k) \in DOMAIN s /\ InnerKey(q, k) \notin F
      BY <1>1, <1>8
    <2>2. q \in Buckets(s)
      BY <2>1 DEF StoreOK
    <2>3. ~IsPrefix(p, q)
      BY <1>4, <2>1
    <2> QED
      BY <1>5, <2>2, <2>3
  <1>9. StoreOK(t)
    BY <1>2, <1>7, <1>8 DEF StoreOK
  <1> QED
    BY <1>5, <1>6, <1>9 DEF t
-----------------------------------------------------------------------------
(* Every write is a write of the tree.                                     *)

\* r is what a call makes of the store s: the tree changes as one call may
\* change it, or not at all
TreeChange(t, u) ==
    \/ Tree!NewBucket(t, u)
    \/ Tree!Put(t, u)
    \/ Tree!Delete(t, u)
    \/ Tree!Clear(t, u)
    \/ Tree!DeleteBucket(t, u)

Step(s, r) ==
    /\ StoreOK(r)
    /\ TreeChange(TreeOf(s), TreeOf(r)) \/ TreeOf(r) = TreeOf(s)

\* the tree of a sound store
LEMMA Trees ==
  ASSUME NEW s, StoreOK(s)
  PROVE  /\ TreeOf(s) = [buckets |-> Buckets(s), data |-> Pairs(s)]
         /\ TreeOf(s).buckets = Buckets(s) /\ TreeOf(s).data = Pairs(s)
  <1>1. TreeOf(s) = [buckets |-> Buckets(s), data |-> Pairs(s)]
    BY TreeIs DEF StoreOK
  <1> QED
    BY <1>1

\* a pair is in a bucket that exists
LEMMA PairsInBuckets ==
  ASSUME NEW s, StoreOK(s), NEW e \in Pairs(s)
  PROVE  e \in Triples /\ e[1] \in Buckets(s) /\ PairOf(e) \in DOMAIN s
  <1>1. e \in Triples /\ PairOf(e) \in DOMAIN s
    BY DEF Pairs
  <1>2. e[1] \in BucketPaths /\ e[2] \in Keys
    BY <1>1, TripleFacts
  <1> QED
    BY <1>1, <1>2 DEF StoreOK, PairOf

\* A bucket is made under buckets that exist.
LEMMA BucketMade ==
  ASSUME NEW s, StoreOK(s), NEW q \in BucketPaths,
         \A r \in BucketPaths : IsPrefix(r, q) => r = q \/ r \in Buckets(s),
         Len(q) > 1 => Front(q) \in Buckets(s)
  PROVE  Step(s, Store(s, IndexOf[q], Last(q)))
  <1> DEFINE r == Store(s, IndexOf[q], Last(q))
             t == TreeOf(s)
             u == TreeOf(r)
  <1>1. StoreOK(r) /\ Buckets(r) = Buckets(s) \cup {q} /\ Pairs(r) = Pairs(s)
    BY IndexStored
  <1> HIDE DEF r
  <1>2. t = [buckets |-> Buckets(s), data |-> Pairs(s)]
    BY Trees
  <1>3. u = [buckets |-> Buckets(s) \cup {q}, data |-> Pairs(s)]
    BY <1>1, Trees
  <1> HIDE DEF t, u
  <1>4. CASE q \in Buckets(s)
    <2>1. u = t
      BY <1>2, <1>3, <1>4
    <2> QED
      BY <1>1, <2>1 DEF Step, r, t, u
  <1>5. CASE q \notin Buckets(s)
    <2>1. t.buckets = Buckets(s) /\ t.data = Pairs(s)
      BY <1>2
    <2>2. ~ \E e \in t.data : e[1] = q
      BY <1>5, <2>1, PairsInBuckets
    <2>3. Len(q) > 1 => Tree!Front(q) \in t.buckets
      BY <2>1 DEF Front, Tree!Front
    <2>4. u = [t EXCEPT !.buckets = @ \cup {q}]
      <3> DEFINE C == Buckets(s) \cup {q}
      <3> HIDE DEF C
      <3>0. [t EXCEPT !.buckets = C] = [buckets |-> C, data |-> Pairs(s)]
        BY <1>2
      <3>1. [t EXCEPT !.buckets = Buckets(s) \cup {q}]
              = [buckets |-> Buckets(s) \cup {q}, data |-> Pairs(s)]
        BY <3>0 DEF C
      <3>2. [t EXCEPT !.buckets = t.buckets \cup {q}] = u
        BY <1>3, <2>1, <3>1, Zenon
      <3> QED
        BY <3>2
    <2>5. q \in BucketPaths \ t.buckets
      BY <1>5, <2>1
    <2>6. Tree!NewBucket(t, u)
      BY <2>2, <2>3, <2>4, <2>5 DEF Tree!NewBucket
    <2> QED
      BY <1>1, <2>6 DEF Step, TreeChange, r, t, u
  <1> QED
    BY <1>4, <1>5

\* Put is the tree's
LEMMA PairPut ==
  ASSUME NEW s, StoreOK(s), NEW p \in Buckets(s), NEW k \in Keys, NEW v \in Values, Len(k) > 0
  PROVE  Step(s, Store(s, InnerKey(p, k), v))
  <1> DEFINE r == Store(s, InnerKey(p, k), v)
             t == TreeOf(s)
             u == TreeOf(r)
             D == {e \in Pairs(s) : ~(e[1] = p /\ e[2] = k)} \cup {<<p, k, v>>}
  <1>1. StoreOK(r) /\ Buckets(r) = Buckets(s) /\ Pairs(r) = D
    BY PairStored
  <1> HIDE DEF r
  <1>2. t = [buckets |-> Buckets(s), data |-> Pairs(s)]
    BY Trees
  <1>3. u = [buckets |-> Buckets(s), data |-> D]
    BY <1>1, Trees
  <1> HIDE DEF t, u
  <1>4. t.buckets = Buckets(s) /\ t.data = Pairs(s)
    BY <1>2
  <1>5. D = Tree!Others(t, p, k) \cup {<<p, k, v>>}
    BY <1>4 DEF Tree!Others
  <1> HIDE DEF D
  <1>6. u = [t EXCEPT !.data = Tree!Others(t, p, k) \cup {<<p, k, v>>}]
    <2>1. [t EXCEPT !.data = D] = [buckets |-> Buckets(s), data |-> D]
      BY <1>2
    <2> QED
      BY <1>3, <1>5, <2>1, Zenon
  <1>7. Tree!Put(t, u)
    BY <1>4, <1>6 DEF Tree!Put
  <1> QED
    BY <1>1, <1>7 DEF Step, TreeChange, r, t, u

\* Delete is the tree's
LEMMA PairDropped ==
  ASSUME NEW s, StoreOK(s), NEW p \in Buckets(s), NEW k \in Keys
  PROVE  Step(s, Drop(s, {InnerKey(p, k)}))
  <1> DEFINE F == {InnerKey(p, k)}
             r == Drop(s, F)
             t == TreeOf(s)
             u == TreeOf(r)
  <1>0. p \in BucketPaths /\ k \in Str
    BY KeysAreStr DEF Buckets
  <1>1. \A q \in BucketPaths : IndexOf[q] \notin F
    BY <1>0, KeysDiffer
  <1>2. StoreOK(r) /\ Buckets(r) = Buckets(s) /\ Pairs(r) = {e \in Pairs(s) : PairOf(e) \notin F}
    <2> HIDE DEF F
    <2> QED
      BY <1>1, PairsDropped
  <1>3. \A e \in Triples : (PairOf(e) \in F) <=> (e[1] = p /\ e[2] = k)
    <2>1. ASSUME NEW e \in Triples, PairOf(e) \in F PROVE e[1] = p /\ e[2] = k
      BY <1>0, <2>1, TripleFacts
    <2>2. ASSUME NEW e \in Triples, e[1] = p, e[2] = k PROVE PairOf(e) \in F
      BY <2>2 DEF PairOf
    <2> QED
      BY <2>1, <2>2
  <1> HIDE DEF r, F
  <1>4. t = [buckets |-> Buckets(s), data |-> Pairs(s)]
    BY Trees
  <1>5. u = [buckets |-> Buckets(s), data |-> Pairs(r)]
    BY <1>2, Trees
  <1> HIDE DEF t, u
  <1>6. t.buckets = Buckets(s) /\ t.data = Pairs(s)
    BY <1>4
  <1>7. Pairs(r) = Tree!Others(t, p, k)
    <2>1. \A e \in Pairs(s) : (PairOf(e) \notin F) <=> ~(e[1] = p /\ e[2] = k)
      BY <1>3, PairsInBuckets
    <2> QED
      BY <1>2, <1>6, <2>1 DEF Tree!Others
  <1>8. u = [t EXCEPT !.data = Tree!Others(t, p, k)]
    <2>1. [t EXCEPT !.data = Pairs(r)] = [buckets |-> Buckets(s), data |-> Pairs(r)]
      BY <1>4
    <2> QED
      BY <1>5, <1>7, <2>1, Zenon
  <1>9. Tree!Delete(t, u)
    BY <1>6, <1>8 DEF Tree!Delete
  <1> QED
    BY <1>2, <1>9 DEF Step, TreeChange, r, t, u, F

\* Clear is the tree's
LEMMA BucketCleared ==
  ASSUME NEW s, StoreOK(s), NEW p \in Buckets(s)
  PROVE  Step(s, Drop(s, ClearKeys(s, p)))
  <1> DEFINE F == ClearKeys(s, p)
             r == Drop(s, F)
             t == TreeOf(s)
             u == TreeOf(r)
  <1>0. p \in BucketPaths
    BY DEF Buckets
  <1>1. F = PairsOf(s, p)
    BY <1>0, Listed DEF StoreOK
  <1> HIDE DEF F
  <1>2. \A q \in BucketPaths : IndexOf[q] \notin F
    BY <1>0, <1>1, KeysAreStr, KeysDiffer DEF PairsOf
  <1>3. StoreOK(r) /\ Buckets(r) = Buckets(s) /\ Pairs(r) = {e \in Pairs(s) : PairOf(e) \notin F}
    BY <1>2, PairsDropped
  <1> HIDE DEF r
  <1>4. ASSUME NEW e \in Pairs(s) PROVE (PairOf(e) \in F) <=> e[1] = p
    <2>1. e \in Triples /\ PairOf(e) \in DOMAIN s
      BY PairsInBuckets
    <2>2. e[2] \in Keys
      BY <2>1, TripleFacts
    <2>3. ASSUME PairOf(e) \in F PROVE e[1] = p
      <3>1. PICK k \in Keys : PairOf(e) = InnerKey(p, k)
        BY <1>1, <2>3 DEF PairsOf
      <3> QED
        BY <1>0, <2>1, <3>1, TripleFacts
    <2>4. ASSUME e[1] = p PROVE PairOf(e) \in F
      BY <1>1, <2>1, <2>2, <2>4 DEF PairsOf, PairOf
    <2> QED
      BY <2>3, <2>4
  <1>5. t = [buckets |-> Buckets(s), data |-> Pairs(s)]
    BY Trees
  <1>6. u = [buckets |-> Buckets(s), data |-> Pairs(r)]
    BY <1>3, Trees
  <1> HIDE DEF t, u
  <1>7. t.buckets = Buckets(s) /\ t.data = Pairs(s)
    BY <1>5
  <1>8. Pairs(r) = {e \in Pairs(s) : e[1] # p}
    BY <1>3, <1>4
  <1>9. u = [t EXCEPT !.data = {e \in @ : e[1] # p}]
    <2>1. [t EXCEPT !.data = Pairs(r)] = [buckets |-> Buckets(s), data |-> Pairs(r)]
      BY <1>5
    <2>2. [t EXCEPT !.data = {e \in t.data : e[1] # p}] = u
      BY <1>6, <1>7, <1>8, <2>1, Zenon
    <2> QED
      BY <2>2
  <1>10. Tree!Clear(t, u)
    BY <1>7, <1>9 DEF Tree!Clear
  <1> QED
    BY <1>3, <1>10 DEF Step, TreeChange, r, t, u, F

\* A deletion that begins with nothing gone ends with a bucket and all under
\* it gone, whatever went through leveldb's batch.
LEMMA BucketDeleted ==
  ASSUME NEW d, NEW s, StoreOK(s), NEW p \in Buckets(s), Len(p) > 1, NEW h \in 0 .. MaxDepth,
         Len(p) + h = MaxDepth
  PROVE  LET a == deleteBucket(d, s)[h][p][[gone |-> {}, batch |-> {}]]
         IN  Step(s, Drop(Drop(s, a.gone), a.batch))
  <1> DEFINE none == [gone |-> {}, batch |-> {}]
             a == deleteBucket(d, s)[h][p][none]
             F == a.gone \cup a.batch
             r == Drop(s, F)
             t == TreeOf(s)
             u == TreeOf(r)
  <1>0. p \in BucketPaths /\ Shaped(s)
    BY DEF Buckets, StoreOK
  <1>1. none \in Deletions(s) /\ none.gone = {} /\ none.batch = {}
    BY DEF Deletions
  <1> HIDE DEF none
  <1>2. Live(s, none) = Buckets(s)
    BY <1>1, LiveDef DEF Buckets
  <1>3. Removes(s, none, a, Under(p))
    <2>1. UpClosed(Live(s, none)) /\ p \in Live(s, none)
      BY <1>2 DEF StoreOK
    <2> QED
      BY <1>0, <1>1, <2>1, Deleted
  <1> HIDE DEF a
  <1>4. F \cap DOMAIN s = Entries(s, Under(p) \cap Buckets(s))
    BY <1>1, <1>2, <1>3 DEF Removes, Total
  <1>5. Drop(Drop(s, a.gone), a.batch) = r
    <2> DEFINE g == a.gone
               b == a.batch
    <2> HIDE DEF g, b
    <2>1. Drop(Drop(s, g), b) = Drop(s, g \cup b)
      BY DEF Drop
    <2> QED
      BY <2>1 DEF g, b
  <1> HIDE DEF F
  <1>6. /\ StoreOK(r) /\ Buckets(r) = {q \in Buckets(s) : ~IsPrefix(p, q)}
        /\ Pairs(r) = {e \in Pairs(s) : ~IsPrefix(p, e[1])}
    BY <1>0, <1>4, UnderDropped
  <1> HIDE DEF r
  <1>7. t.buckets = Buckets(s) /\ t.data = Pairs(s)
    BY Trees
  <1>8. u = [buckets |-> Buckets(r), data |-> Pairs(r)]
    BY <1>6, Trees
  <1> HIDE DEF t, u
  <1>9. \A q : Tree!Within(p, q) <=> IsPrefix(p, q)
    BY DEF Tree!Within, Tree!IsPrefix, IsPrefix
  <1>10. u = [buckets |-> {q \in t.buckets : ~Tree!Within(p, q)},
              data |-> {e \in t.data : ~Tree!Within(p, e[1])}]
    BY <1>6, <1>7, <1>8, <1>9
  <1>11. Tree!DeleteBucket(t, u)
    BY <1>7, <1>10 DEF Tree!DeleteBucket
  <1> QED
    BY <1>5, <1>6, <1>11 DEF Step, TreeChange, r, t, u, F, a, none
-----------------------------------------------------------------------------
(* The invariant of the store and the refinement.                          *)

\* The committed store and a transaction's hold the entries of buckets that
\* exist and nothing else, and there is one transaction at most.
StoreInv ==
    /\ StoreOK(flat)
    /\ \A s \in tx : StoreOK(s)
    /\ \A s, r \in tx : s = r

\* The store is written through its transaction.
Written(s, r) == tx' = {r} /\ UNCHANGED <<driver, flat>> /\ Step(s, r)

\* a write through the transaction keeps the invariant and maps to a step
LEMMA WrittenMaps ==
  ASSUME StoreInv, NEW s \in tx, NEW r, Written(s, r)
  PROVE  StoreInv' /\ (Tree!TreeWrite \/ UNCHANGED Tree!treeVars)
  <1>1. tx' = {r} /\ flat' = flat /\ StoreOK(r)
    BY DEF Written, Step
  <1>2. StoreInv'
    BY <1>1 DEF StoreInv
  <1>3. tx = {s}
    BY DEF StoreInv
  <1>4. /\ {TreeOf(x) : x \in tx} = {TreeOf(s)} /\ {TreeOf(x) : x \in tx'} = {TreeOf(r)}
        /\ TreeOf(flat') = TreeOf(flat)
    BY <1>1, <1>3
  <1>5. CASE TreeOf(r) = TreeOf(s)
    BY <1>4, <1>5, <1>2 DEF Tree!treeVars
  <1>6. CASE TreeChange(TreeOf(s), TreeOf(r))
    BY <1>4, <1>6, <1>2 DEF Tree!TreeWrite, TreeChange
  <1> QED
    BY <1>5, <1>6 DEF Written, Step

\* CreateTopLevelBucket writes what the tree allows
LEMMA TopBucketCreated ==
  ASSUME StoreInv, NEW s \in tx, NEW n \in Names, CreateTopLevelBucket(s, n)
  PROVE  \E r : Written(s, r)
  <1> DEFINE q == <<n>>
             r == Store(s, IndexOf[q], Last(q))
  <1>1. n \in ValidNames /\ StoreOK(s)
    BY DEF CreateTopLevelBucket, ValidNames, StoreInv
  <1>2. /\ q \in BucketPaths /\ Last(q) = n /\ Len(q) = 1
        /\ \A x \in BucketPaths : IsPrefix(x, q) => x = q
    BY <1>1, Single
  <1>3. tx' = {r} /\ UNCHANGED <<driver, flat>>
    BY <1>2 DEF CreateTopLevelBucket, Writes, BucketKey
  <1> HIDE DEF q
  <1>4. Step(s, r)
    <2>1. \A x \in BucketPaths : IsPrefix(x, q) => x = q \/ x \in Buckets(s)
      BY <1>2
    <2>2. ~(Len(q) > 1)
      BY <1>2
    <2> QED
      BY <1>1, <1>2, <2>1, <2>2, BucketMade
  <1> QED
    BY <1>3, <1>4 DEF Written

\* so does NewBucket
LEMMA BucketCreated ==
  ASSUME StoreInv, NEW s \in tx, NEW p \in BucketPaths, FetchBucket(s, p), NEW n \in Names,
         Len(p) < MaxDepth, NewBucket(s, p, n)
  PROVE  \E r : Written(s, r)
  <1> DEFINE q == Append(p, n)
             r == Store(s, IndexOf[q], Last(q))
  <1>1. n \in ValidNames /\ StoreOK(s) /\ p \in Buckets(s)
    BY DEF NewBucket, ValidNames, StoreInv, FetchBucket, Has, BucketKey, Buckets
  <1>2. p \in Seq(ValidNames)
    BY PathFacts
  <1>3. Last(q) = n /\ Front(q) = p
    BY <1>1, <1>2, Appended
  <1>4. q \in BucketPaths
    BY <1>1, SubPath
  <1>5. \A x \in BucketPaths : IsPrefix(x, q) => x = q \/ x \in Buckets(s)
    <2>1. \A x \in BucketPaths : IsPrefix(x, q) => x = q \/ IsPrefix(x, p)
      BY <1>1, PrefixAppend
    <2>2. \A x \in BucketPaths : IsPrefix(x, p) => x \in Buckets(s)
      BY <1>1 DEF StoreOK, UpClosed
    <2> QED
      BY <2>1, <2>2
  <1>6. tx' = {r} /\ UNCHANGED <<driver, flat>>
    BY <1>3 DEF NewBucket, Writes, BucketKey, SubBucket
  <1> HIDE DEF q
  <1>7. Step(s, r)
    BY <1>1, <1>3, <1>4, <1>5, BucketMade
  <1> QED
    BY <1>6, <1>7 DEF Written

\* so does DeleteBucket, of either driver
LEMMA SubBucketDeleted ==
  ASSUME StoreInv, NEW s \in tx, NEW p \in BucketPaths, FetchBucket(s, p), NEW n \in Names,
         Len(p) < MaxDepth, DeleteBucket(s, p, n)
  PROVE  \E r : Written(s, r)
  <1> DEFINE q == Append(p, n)
             h == MaxDepth - Len(p) - 1
             a == deleteBucket(driver, s)[h][q][[gone |-> {}, batch |-> {}]]
             r == Drop(Drop(s, a.gone), a.batch)
  <1>1. n \in ValidNames /\ StoreOK(s) /\ IndexOf[q] \in DOMAIN s
    BY DEF DeleteBucket, Bucket, ValidNames, StoreInv, Has, BucketKey, SubBucket
  <1>2. p \in Seq(ValidNames) /\ Len(p) \in 1 .. MaxDepth /\ MaxDepth \in Nat
    BY PathFacts
  <1>3. q \in BucketPaths
    BY <1>1, SubPath
  <1>4. Len(q) = Len(p) + 1
    BY <1>1, <1>2, Appended
  <1>5. tx' = {r} /\ UNCHANGED <<driver, flat>>
    BY DEF DeleteBucket, Writes, SubBucket
  <1> HIDE DEF q
  <1>6. q \in Buckets(s) /\ Len(q) > 1 /\ h \in 0 .. MaxDepth /\ Len(q) + h = MaxDepth
    <2>1. \A d \in 1 .. MaxDepth :
            d < MaxDepth => /\ d + 1 > 1 /\ MaxDepth - d - 1 \in 0 .. MaxDepth
                            /\ (d + 1) + (MaxDepth - d - 1) = MaxDepth
      BY <1>2
    <2> QED
      BY <1>1, <1>2, <1>3, <1>4, <2>1 DEF Buckets
  <1> HIDE DEF h
  <1>7. Step(s, r)
    BY <1>1, <1>6, BucketDeleted
  <1> QED
    BY <1>5, <1>7 DEF Written

\* so does Delete, of an empty key too
LEMMA KeyDeleted ==
  ASSUME StoreInv, NEW s \in tx, NEW p \in BucketPaths, FetchBucket(s, p), NEW k \in Keys,
         Delete(s, p, k)
  PROVE  \E r : Written(s, r)
  <1>1. StoreOK(s) /\ p \in Buckets(s)
    BY DEF StoreInv, FetchBucket, Has, BucketKey, Buckets
  <1>2. CASE Len(k) = 0
    <2>1. tx' = {s} /\ UNCHANGED <<driver, flat>>
      BY <1>2 DEF Delete, Writes
    <2>2. Step(s, s)
      BY <1>1 DEF Step
    <2> QED
      BY <2>1, <2>2 DEF Written
  <1>3. CASE Len(k) # 0
    <2> DEFINE r == Drop(s, {InnerKey(p, k)})
    <2>1. tx' = {r} /\ UNCHANGED <<driver, flat>>
      BY <1>3 DEF Delete, Writes
    <2>2. Step(s, r)
      BY <1>1, PairDropped
    <2> HIDE DEF r
    <2> QED
      BY <2>1, <2>2 DEF Written
  <1> QED
    BY <1>2, <1>3

\* so does Put
LEMMA KeyPut ==
  ASSUME StoreInv, NEW s \in tx, NEW p \in BucketPaths, FetchBucket(s, p), NEW k \in Keys,
         NEW v \in Values, Put(s, p, k, v)
  PROVE  \E r : Written(s, r)
  <1> DEFINE r == Store(s, InnerKey(p, k), v)
  <1>1. StoreOK(s) /\ p \in Buckets(s)
    BY DEF StoreInv, FetchBucket, Has, BucketKey, Buckets
  <1>2. Len(k) > 0 /\ tx' = {r} /\ UNCHANGED <<driver, flat>>
    BY DEF Put, Writes
  <1>3. Step(s, r)
    BY <1>1, <1>2, PairPut
  <1> HIDE DEF r
  <1> QED
    BY <1>2, <1>3 DEF Written

\* so does Clear
LEMMA KeysCleared ==
  ASSUME StoreInv, NEW s \in tx, NEW p \in BucketPaths, FetchBucket(s, p), Clear(s, p)
  PROVE  \E r : Written(s, r)
  <1> DEFINE r == Drop(s, ClearKeys(s, p))
  <1>1. StoreOK(s) /\ p \in Buckets(s)
    BY DEF StoreInv, FetchBucket, Has, BucketKey, Buckets
  <1>2. tx' = {r} /\ UNCHANGED <<driver, flat>>
    BY DEF Clear, Writes
  <1>3. Step(s, r)
    BY <1>1, BucketCleared
  <1> HIDE DEF r
  <1> QED
    BY <1>2, <1>3 DEF Written

\* the empty store is the empty tree
LEMMA EmptyStore ==
  ASSUME NEW s, DOMAIN s = {}
  PROVE  StoreOK(s) /\ TreeOf(s) = [buckets |-> {}, data |-> {}]
  <1>1. Buckets(s) = {} /\ Pairs(s) = {}
    BY DEF Buckets, Pairs
  <1>2. StoreOK(s)
    BY <1>1 DEF StoreOK, Shaped, UpClosed
  <1> QED
    BY <1>1, <1>2, Trees

\* the store begins as the tree does
LEMMA StoreBegins == StoreInit => StoreInv /\ Tree!TreeInit
  <1> SUFFICES ASSUME StoreInit PROVE StoreInv /\ Tree!TreeInit
    OBVIOUS
  <1>1. DOMAIN flat = {} /\ tx = {}
    BY DEF StoreInit
  <1>2. StoreOK(flat) /\ TreeOf(flat) = [buckets |-> {}, data |-> {}]
    BY <1>1, EmptyStore
  <1>3. {TreeOf(s) : s \in tx} = {}
    BY <1>1
  <1> QED
    BY <1>1, <1>2, <1>3 DEF StoreInv, Tree!TreeInit

\* Each step of the store keeps its invariant and is a step of the tree or
\* leaves it as it is.
LEMMA StoreStep ==
  ASSUME StoreInv, [StoreNext]_storeVars
  PROVE  StoreInv' /\ [Tree!TreeNext]_Tree!treeVars
  <1>1. CASE BeginTx
    <2>1. tx = {} /\ tx' = {flat} /\ flat' = flat
      BY <1>1 DEF BeginTx
    <2>2. StoreInv'
      BY <2>1 DEF StoreInv
    <2>3. Tree!TreeBegin
      BY <2>1 DEF Tree!TreeBegin
    <2> QED
      BY <2>2, <2>3 DEF Tree!TreeNext
  <1>2. ASSUME NEW s \in tx, \E r : Written(s, r)
        PROVE  StoreInv' /\ [Tree!TreeNext]_Tree!treeVars
    BY <1>2, WrittenMaps DEF Tree!TreeNext
  <1>3. CASE Commit
    <2>1. PICK s \in tx : flat' = s
      BY <1>3 DEF Commit
    <2>2. tx' = {}
      BY <1>3 DEF Commit
    <2>3. StoreInv'
      BY <2>1, <2>2 DEF StoreInv
    <2>4. Tree!TreeCommit
      BY <2>1, <2>2 DEF Tree!TreeCommit
    <2> QED
      BY <2>3, <2>4 DEF Tree!TreeNext
  <1>4. CASE Rollback
    <2>1. tx # {} /\ tx' = {} /\ flat' = flat
      BY <1>4 DEF Rollback
    <2>2. StoreInv'
      BY <2>1 DEF StoreInv
    <2>3. Tree!TreeRollback
      BY <2>1 DEF Tree!TreeRollback
    <2> QED
      BY <2>2, <2>3 DEF Tree!TreeNext
  <1>5. CASE UNCHANGED storeVars
    BY <1>5 DEF storeVars, StoreInv, Tree!treeVars
  <1>6. CASE \E s \in tx : \E n \in Names : CreateTopLevelBucket(s, n)
    BY <1>2, <1>6, TopBucketCreated
  <1>7. ASSUME NEW s \in tx, NEW p \in BucketPaths, FetchBucket(s, p), NEW n \in Names,
               Len(p) < MaxDepth, NewBucket(s, p, n) \/ DeleteBucket(s, p, n)
        PROVE  StoreInv' /\ [Tree!TreeNext]_Tree!treeVars
    BY <1>2, <1>7, BucketCreated, SubBucketDeleted
  <1>8. ASSUME NEW s \in tx, NEW p \in BucketPaths, FetchBucket(s, p), NEW k \in Keys,
               Delete(s, p, k) \/ \E v \in Values : Put(s, p, k, v)
        PROVE  StoreInv' /\ [Tree!TreeNext]_Tree!treeVars
    BY <1>2, <1>8, KeyDeleted, KeyPut
  <1>9. ASSUME NEW s \in tx, NEW p \in BucketPaths, FetchBucket(s, p), Clear(s, p)
        PROVE  StoreInv' /\ [Tree!TreeNext]_Tree!treeVars
    BY <1>2, <1>9, KeysCleared
  <1> QED
    BY <1>1, <1>3, <1>4, <1>5, <1>6, <1>7, <1>8, <1>9 DEF StoreNext

\* The flat store of either driver holds what its buckets hold and nothing
\* else, committed or in a transaction.
THEOREM StoreInvariant == StoreSpec => []StoreInv
  <1>1. StoreInit => StoreInv
    BY StoreBegins
  <1>2. StoreInv /\ [StoreNext]_storeVars => StoreInv'
    BY StoreStep
  <1> QED
    BY <1>1, <1>2, PTL DEF StoreSpec

\* The calls that list by a prefix list a bucket's own entries and no other's.
THEOREM StoreLists == StoreSpec => []ListsExact
  <1>1. StoreInv => ListsExact
    <2> SUFFICES ASSUME StoreInv PROVE ListsExact
      OBVIOUS
    <2>1. \A s \in {flat} \cup tx : Shaped(s)
      BY DEF StoreInv, StoreOK
    <2>2. \A s \in {flat} \cup tx : Lists(s)
      BY <2>1, ListsRight
    <2> QED
      BY <2>2 DEF ListsExact, Lists
  <1> QED
    BY <1>1, StoreInvariant, PTL

\* Both drivers implement the tree of buckets.
THEOREM StoreIsTree == StoreSpec => IsTree
  <1>1. StoreInit => Tree!TreeInit
    BY StoreBegins
  <1>2. StoreInv /\ [StoreNext]_storeVars => [Tree!TreeNext]_Tree!treeVars
    BY StoreStep
  <1> QED
    BY <1>1, <1>2, StoreInvariant, PTL DEF StoreSpec, IsTree, Tree!TreeSpec

\* The tree, and what is listed of it.
THEOREM StoreImplements == StoreSpec => Implements
  BY StoreLists, StoreIsTree, PTL DEF Implements
=============================================================================
