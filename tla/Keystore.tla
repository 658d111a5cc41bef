----------------------------- MODULE Keystore -----------------------------
(***************************************************************************)
(* The PoC wallet: KeystoreManagerForPoC over its AddrManagers             *)
(* (src/poc/wallet/keystore), the database they are stored in, and the     *)
(* calls the API makes of them.                                            *)
(*                                                                         *)
(* A keystore is sealed twice: the crypto keys under the master keys the   *)
(* two passphrases derive, the HD keys under the crypto keys.  Salts,      *)
(* scrypt and secretbox are left out: a box is the passphrase that opens   *)
(* it, a master key is the passphrase it was derived from, and a key that  *)
(* opens nothing is Zero.  A public key is its derivation path, a branch   *)
(* and an index.  Every call runs under kmc.mu but GenerateNewPublicKey,   *)
(* which takes two steps.  A database Update commits or fails as a whole;  *)
(* reads of what was committed succeed.  The process may end at any step.  *)
(***************************************************************************)
EXTENDS Naturals, FiniteSets, Functions

CONSTANTS
    Accounts,       \* the HD accounts, one of each seed
    Pass,           \* the passphrases that match ValidatePassphrase
    Branches,       \* the branches of an account that are used
    ExternalBranch, \* the one GenerateNewPublicKey takes its keys of
    MaxAddr,        \* MaxAddressesPerAccount
    Zero,           \* a cleared key or hash
    Shared,         \* the master key ChangePrivPassphrase gives every manager
    None

ASSUME MaxAddrAssumption == MaxAddr \in Nat \ {0}
ASSUME BranchAssumption == ExternalBranch \in Branches

VARIABLES
    disk,           \* what the database holds of each keystore
    open,           \* the process runs with the database open
    mem,            \* kmc.managedKeystores
    unlocked,       \* kmc.unlocked
    pubPass,        \* kmc.pubPassphrase
    gen,            \* the GenerateNewPublicKey under way
    file,           \* the last exported keystore file
    raced           \* addresses managed since a Lock or Unlock passed by

vars == <<disk, open, mem, unlocked, pubPass, gen, file, raced>>

Paths == Branches \X (0 .. MaxAddr - 1)

\* The public keys createManagerKeyScope stores for the child numbers n.
Below(n) == {q \in Paths : q[2] < n[q[1]]}

Row == [privPar: Pass, privEnc: Pass, pubPar: Pass, pubEnc: Pass,
        next: [Branches -> 0 .. MaxAddr], pks: SUBSET Paths]
Manager == [unlocked: BOOLEAN, par: Pass, enc: Pass, master: Pass \cup {Zero},
            key: Accounts \cup {Shared}, hash: Pass \cup {Zero},
            addrs: SUBSET Paths, keys: SUBSET Paths,
            next: [Branches -> 0 .. MaxAddr]]
Exported == [acct: Accounts, par: Pass, enc: Pass, next: [Branches -> 0 .. MaxAddr]]
Pending == [acct: Accounts, path: Paths, private: BOOLEAN,
            met: SUBSET {"lock", "delete"}]

\* nil is no account, passphrase, call or file, and a cleared key is not one
\* that a passphrase derives.
ASSUME NilAssumption ==
    /\ None \notin Accounts \cup Pass \cup Pending \cup Exported
    /\ Zero \notin Pass

\* The shape of the wallet's state, in the database and in memory.
TypeOK ==
    /\ DOMAIN disk \subseteq Accounts /\ \A a \in DOMAIN disk : disk[a] \in Row
    /\ DOMAIN mem \subseteq Accounts /\ \A a \in DOMAIN mem : mem[a] \in Manager
    /\ open \in BOOLEAN /\ unlocked \in BOOLEAN
    /\ pubPass \in Pass
    /\ gen \in Pending \cup {None}
    /\ file \in Exported \cup {None}
    /\ raced \subseteq Accounts \X Paths

Init ==
    /\ disk = [a \in {} |-> None]
    /\ mem = [a \in {} |-> None]
    /\ open = FALSE /\ unlocked = FALSE
    /\ pubPass \in Pass
    /\ gen = None /\ file = None
    /\ raced = {}

---------------------------------------------------------------------------
(* The cells of the managers: after ChangePrivPassphrase they all hold the *)
(* same snacl.SecretKey, so that what is derived or zeroed through one is  *)
(* derived or zeroed for the others.                                       *)

SetKey(ms, a, v) ==
    [b \in DOMAIN ms |->
        IF ms[b].key = ms[a].key THEN [ms[b] EXCEPT !.master = v] ELSE ms[b]]

\* SecretKey.deriveKey: a key derived from another passphrase than that of
\* the parameters opens nothing.
Derived(par, p) == IF par = p THEN p ELSE Zero
Decrypts(key, box) == key # Zero /\ key = box

DeriveKey(ms, a, p) == SetKey(ms, a, Derived(ms[a].par, p))

PasswordOK(ms, a, p) == IF ms[a].unlocked THEN ms[a].hash = p ELSE ms[a].par = p

\* checkPassword compares hashes when unlocked and leaves the key derived
\* when locked.
CheckPassword(ms, a, p) == IF ms[a].unlocked THEN ms ELSE DeriveKey(ms, a, p)

SafelyCheckPassword(ms, a, p) ==
    IF PasswordOK(ms, a, p) THEN SetKey(ms, a, Zero) ELSE CheckPassword(ms, a, p)

\* Mutant of ClearPrivKeys: the private keys of the addresses stay.
ClearPrivKeysOfAccount(ms, a) ==
    [SetKey(ms, a, Zero) EXCEPT ![a].unlocked = FALSE, ![a].hash = Zero]

ClearPrivKeys(ms, a) ==
    [SetKey(ms, a, Zero) EXCEPT ![a].unlocked = FALSE, ![a].keys = {}, ![a].hash = Zero]

\* useKeystore with updatePriv: check, remember the hash, updatePrivKeys.
CanUse(ms, a, p) ==
    PasswordOK(ms, a, p) /\ Decrypts(CheckPassword(ms, a, p)[a].master, ms[a].enc)

\* updatePrivKeys derives the private key of every managed address.
UpdatePrivKeys(m) == [m EXCEPT !.unlocked = TRUE, !.keys = @ \cup m.addrs]

UseKeystore(ms, a, p) ==
    LET checked == CheckPassword(ms, a, p)
        hashed == [checked EXCEPT ![a].hash = p]
    IN  IF ~PasswordOK(ms, a, p) THEN checked
        ELSE IF ~CanUse(ms, a, p) THEN hashed
        ELSE [hashed EXCEPT ![a] = UpdatePrivKeys(@)]

\* The same for every account of S, in whatever order the map is ranged over.
UseAll(ms, S, p) ==
    [b \in DOMAIN ms |->
        IF b \in S THEN UseKeystore(ms, b, p)[b]
        ELSE IF \E a \in S : ms[a].key = ms[b].key /\ ~ms[a].unlocked
             THEN [ms[b] EXCEPT !.master = Derived(ms[b].par, p)]
             ELSE ms[b]]

\* loadAddrManager: nothing private is in memory.
LoadAddrManager(a, row) ==
    [unlocked |-> FALSE, par |-> row.privPar, enc |-> row.privEnc, master |-> Zero,
     key |-> a, hash |-> Zero, addrs |-> row.pks, keys |-> {}, next |-> row.next]

\* The crypto public key a row is read with.
PubOpens(row, p) == Decrypts(Derived(row.pubPar, p), row.pubEnc)

With(ms, a, m) == [b \in DOMAIN ms \cup {a} |-> IF b = a THEN m ELSE ms[b]]

---------------------------------------------------------------------------
(* The process.                                                            *)

\* NewPoCWallet with the public passphrase of the configuration; with a
\* wrong one it returns an error and the process does not run.
Open(p) ==
    /\ ~open
    /\ \A a \in DOMAIN disk : PubOpens(disk[a], p)
    /\ open' = TRUE
    /\ mem' = [a \in DOMAIN disk |-> LoadAddrManager(a, disk[a])]
    /\ unlocked' = FALSE
    /\ pubPass' = p
    /\ UNCHANGED <<disk, gen, file, raced>>

Stopped ==
    /\ open' = FALSE
    /\ mem' = [a \in {} |-> None]
    /\ unlocked' = FALSE
    /\ gen' = None
    /\ raced' = {}
    /\ UNCHANGED pubPass

\* The process ends, or is killed: what was not committed is gone.
Crash == open /\ Stopped /\ UNCHANGED <<disk, file>>

---------------------------------------------------------------------------
(* Calls.  Every one may fail in its Update.                               *)

\* What is put in a keystore's bucket; None is nil and leaves the value.
Given(v, old) == IF v = None THEN old ELSE v
PutMasterKeyParams(row, pub, priv) ==
    [row EXCEPT !.pubPar = Given(pub, @), !.privPar = Given(priv, @)]
PutCryptoKeys(row, pub, priv) ==
    [row EXCEPT !.pubEnc = Given(pub, @), !.privEnc = Given(priv, @)]
UpdateChildNum(row, br, n) == [row EXCEPT !.next[br] = n]
PutEncryptedPubKeys(row, new) == [row EXCEPT !.pks = @ \cup new]

\* Mutant of CreateManagerKeyScope: initBranchChildNum without putLastIndex.
CreateManagerKeyScopeFromZero(n) ==
    [privPar |-> None, privEnc |-> None, pubPar |-> None, pubEnc |-> None,
     next |-> [br \in Branches |-> 0], pks |-> Below(n)]

\* createManagerKeyScope: a bucket with the public keys of n and, last, n.
CreateManagerKeyScope(n) ==
    [privPar |-> None, privEnc |-> None, pubPar |-> None, pubEnc |-> None,
     next |-> n, pks |-> Below(n)]

\* create: everything of a keystore in one Update.
Create(priv, pub, n) ==
    PutCryptoKeys(PutMasterKeyParams(CreateManagerKeyScope(n), pub, priv), pub, priv)

\* The one manager NewKeystore, ImportKeystore and ChangePubPassphrase check
\* a passphrase against, if there is one.
Asked == IF mem = [a \in {} |-> None] THEN {None} ELSE DOMAIN mem
\* Mutant of Accepts: no keystore is asked.
AcceptsAny(b, p) == TRUE

Accepts(b, p) == b = None \/ PasswordOK(mem, b, p)
AfterCheck(b, p) == IF b = None THEN mem ELSE SafelyCheckPassword(mem, b, p)

\* A keystore committed is loaded and, in an unlocked wallet, unlocked.
Manage(ms, a, row, p) ==
    LET loaded == With(ms, a, LoadAddrManager(a, row))
    IN  IF unlocked THEN UseKeystore(loaded, a, p) ELSE loaded

AddKeystore(b, a, p, n, commits) ==
    IF Accepts(b, p) /\ p # pubPass /\ a \notin DOMAIN disk /\ commits
    THEN /\ disk' = With(disk, a, Create(p, pubPass, n))
         /\ mem' = Manage(AfterCheck(b, p), a, disk'[a], p)
    ELSE mem' = AfterCheck(b, p) /\ UNCHANGED disk

NewKeystore(b, a, p, commits) ==
    /\ open
    /\ AddKeystore(b, a, p, [br \in Branches |-> 0], commits)
    /\ UNCHANGED <<open, unlocked, pubPass, gen, file, raced>>

\* RecoverMasterHDKey: a file opens with the passphrase its keystore had.
FileOpens(f, old) == Decrypts(Derived(f.par, old), f.enc)

\* The file's keys are sealed again under the new passphrase and its public
\* keys derived again.
ImportKeystore(b, old, p, commits) ==
    /\ open
    /\ file # None
    /\ IF p = pubPass THEN UNCHANGED <<disk, mem>>
       ELSE AddKeystore(b, file.acct, p, file.next,
                        commits /\ FileOpens(file, old))
    /\ UNCHANGED <<open, unlocked, pubPass, gen, file, raced>>

Export(a) ==
    [acct |-> a, par |-> disk[a].privPar, enc |-> disk[a].privEnc, next |-> disk[a].next]

ExportKeystore(a, p) ==
    /\ open
    /\ a \in DOMAIN mem
    /\ mem' = SafelyCheckPassword(mem, a, p)
    /\ file' = IF PasswordOK(mem, a, p) THEN Export(a) ELSE file
    /\ UNCHANGED <<disk, open, unlocked, pubPass, gen, raced>>

\* What a GenerateNewPublicKey under way does not know of.
Meet(what) == gen' = IF gen = None THEN None ELSE [gen EXCEPT !.met = @ \cup {what}]

\* The bucket and the account ID go in one Update.
DeleteKeystore(a, p, commits) ==
    /\ open
    /\ a \in DOMAIN mem
    /\ IF PasswordOK(mem, a, p) /\ commits
       THEN /\ disk' = Restrict(disk, DOMAIN disk \ {a})
            /\ mem' = Restrict(ClearPrivKeys(SafelyCheckPassword(mem, a, p), a), DOMAIN mem \ {a})
            /\ raced' = {r \in raced : r[1] # a}
            /\ IF gen # None /\ gen.acct = a THEN Meet("delete") ELSE UNCHANGED gen
       ELSE mem' = SafelyCheckPassword(mem, a, p) /\ UNCHANGED <<disk, gen, raced>>
    /\ UNCHANGED <<open, unlocked, pubPass, file>>

\* Unlock ends at the first keystore that cannot be used, after some others.
Unlock(p, S) ==
    /\ open
    /\ LET bad == {a \in DOMAIN mem : ~CanUse(mem, a, p)}
       IN  IF bad = {}
           THEN /\ S = DOMAIN mem
                /\ mem' = UseAll(mem, S, p)
                /\ unlocked' = TRUE
                /\ raced' = {}
           ELSE /\ S \cap bad # {} /\ Cardinality(S \cap bad) = 1
                /\ mem' = UseAll(mem, S, p)
                /\ UNCHANGED <<unlocked, raced>>
    /\ Meet("lock")
    /\ UNCHANGED <<disk, open, pubPass, file>>

Lock ==
    /\ open
    /\ mem' = [a \in DOMAIN mem |-> ClearPrivKeys(mem, a)[a]]
    /\ unlocked' = FALSE
    /\ Meet("lock")
    /\ raced' = {}
    /\ UNCHANGED <<disk, open, pubPass, file>>

---------------------------------------------------------------------------
(* Addresses.                                                              *)

\* nextAddresses: the child numbers come from the database; a key derived
\* of the private account key is private.
NewPaths(a, br, n) == {q \in Paths : q[1] = br /\ q[2] - disk[a].next[br] \in 0 .. n - 1}
Room(a, br, n) == n + disk[a].next[br] <= MaxAddr
Advance(a, br, n) ==
    disk' = [disk EXCEPT ![a] = PutEncryptedPubKeys(
                UpdateChildNum(@, br, @.next[br] + n), NewPaths(a, br, n))]

\* updateManagedAddress reads the child numbers back.
UpdateManagedAddress(a, new, private, row) ==
    mem' = [mem EXCEPT ![a].addrs = @ \cup new,
                       ![a].keys = IF private THEN @ \cup new ELSE @ \ new,
                       ![a].next = row.next]

NextAddresses(a, br, n) ==
    /\ open
    /\ a \in DOMAIN mem
    /\ Room(a, br, n)
    /\ Advance(a, br, n)
    /\ UpdateManagedAddress(a, NewPaths(a, br, n), mem[a].unlocked, disk'[a])
    /\ UNCHANGED <<open, unlocked, pubPass, gen, file, raced>>

\* GenerateNewPublicKey takes any keystore, without kmc.mu.
GenerateStarts(a) ==
    /\ open
    /\ gen = None
    /\ a \in DOMAIN mem
    /\ Room(a, ExternalBranch, 1)
    /\ Advance(a, ExternalBranch, 1)
    /\ gen' = [acct |-> a, path |-> <<ExternalBranch, disk[a].next[ExternalBranch]>>,
               private |-> mem[a].unlocked, met |-> {}]
    /\ UNCHANGED <<open, mem, unlocked, pubPass, file, raced>>

\* A keystore deleted in between has no bucket, and the process panics; when
\* it was imported again it has another manager.
GenerateEnds ==
    /\ open
    /\ gen # None
    /\ UNCHANGED <<disk, file>>
    /\ IF gen.acct \notin DOMAIN disk
       THEN Stopped
       ELSE /\ IF "delete" \notin gen.met
               THEN UpdateManagedAddress(gen.acct, {gen.path}, gen.private, disk[gen.acct])
               ELSE UNCHANGED mem
            /\ gen' = None
            /\ raced' = IF gen.met = {"lock"} THEN raced \cup {<<gen.acct, gen.path>>} ELSE raced
            /\ UNCHANGED <<open, unlocked, pubPass>>

\* What SignHash and SignMessage need: a manager of the address, unlocked,
\* with the private key.
GetAddrManager(q) == {a \in DOMAIN mem : q \in mem[a].addrs}
SignPocec(a, q) == mem[a].unlocked /\ q \in mem[a].keys
CanSign(a, q) == a \in GetAddrManager(q) /\ SignPocec(a, q)

---------------------------------------------------------------------------
(* Passphrases.                                                            *)

\* The Update of either change fails as a whole when one keystore refuses.
ChangePubPassphrase(b, old, p, commits) ==
    /\ open
    /\ old # p
    /\ mem' = AfterCheck(b, p)
    /\ IF /\ ~(b # None /\ Accepts(b, p))
          /\ commits
          /\ \A a \in DOMAIN mem : PubOpens(disk[a], old)
       THEN /\ disk' = [a \in DOMAIN disk |->
                           IF a \in DOMAIN mem
                           THEN PutCryptoKeys(PutMasterKeyParams(disk[a], p, None), p, None)
                           ELSE disk[a]]
            /\ pubPass' = p
       ELSE UNCHANGED <<disk, pubPass>>
    /\ UNCHANGED <<open, unlocked, gen, file, raced>>

\* changePrivPassphrase of one keystore, on the disk.
Reseal(a, p) == PutCryptoKeys(PutMasterKeyParams(disk[a], None, p), None, p)
Changes(a, old) ==
    PasswordOK(mem, a, old) /\ Decrypts(Derived(disk[a].privPar, old), disk[a].privEnc)

\* The keystores the Update reached have derived their keys; then every
\* manager is given the one new master key, which is never zeroed.
ChangePrivPassphrase(old, p, commits, S) ==
    /\ open
    /\ p # pubPass
    /\ p # old
    /\ LET checked == [a \in DOMAIN mem |->
               IF \E b \in S : mem[b].key = mem[a].key /\ ~mem[b].unlocked
               THEN DeriveKey(mem, a, old)[a] ELSE mem[a]]
           bad == {a \in DOMAIN mem : ~Changes(a, old)}
       IN  IF bad = {} /\ commits
           THEN /\ S = DOMAIN mem
                /\ disk' = [a \in DOMAIN disk |->
                               IF a \in DOMAIN mem THEN Reseal(a, p) ELSE disk[a]]
                /\ mem' = [a \in DOMAIN mem |->
                              [mem[a] EXCEPT !.par = p, !.enc = p, !.master = p,
                                             !.key = Shared,
                                             !.hash = IF mem[a].unlocked THEN p ELSE Zero]]
           ELSE /\ IF bad = {} THEN S = DOMAIN mem ELSE Cardinality(S \cap bad) = 1
                /\ mem' = checked
                /\ UNCHANGED disk
    /\ UNCHANGED <<open, unlocked, pubPass, gen, file, raced>>

Next ==
    \/ \E p \in Pass : Open(p)
    \/ Crash
    \/ \E b \in Asked, a \in Accounts, p \in Pass, c \in BOOLEAN : NewKeystore(b, a, p, c)
    \/ \E b \in Asked, old, p \in Pass, c \in BOOLEAN : ImportKeystore(b, old, p, c)
    \/ \E a \in Accounts, p \in Pass : ExportKeystore(a, p)
    \/ \E a \in Accounts, p \in Pass, c \in BOOLEAN : DeleteKeystore(a, p, c)
    \/ \E p \in Pass, S \in SUBSET DOMAIN mem : Unlock(p, S)
    \/ Lock
    \/ \E a \in Accounts, br \in Branches, n \in 1 .. MaxAddr : NextAddresses(a, br, n)
    \/ \E a \in Accounts : GenerateStarts(a)
    \/ GenerateEnds
    \/ \E b \in Asked, old, p \in Pass, c \in BOOLEAN : ChangePubPassphrase(b, old, p, c)
    \/ \E old, p \in Pass, c \in BOOLEAN, S \in SUBSET DOMAIN mem :
          ChangePrivPassphrase(old, p, c, S)

Spec == Init /\ [][Next]_vars

---------------------------------------------------------------------------
(* Properties.                                                             *)

\* Every call answers as if there were one private passphrase, checked
\* against whichever keystore the map yields first: all keystores in the
\* database open with the same private and the same public passphrase, and
\* the two differ.
OnePassphrase ==
    \A a, b \in DOMAIN disk :
        /\ disk[a].privPar = disk[b].privPar /\ disk[a].privEnc = disk[b].privPar
        /\ disk[a].pubPar = disk[b].pubPar /\ disk[a].pubEnc = disk[b].pubPar
        /\ disk[a].privPar # disk[a].pubPar

\* What memory knows is what a restart would load: the manager of a locked
\* keystore opens with the passphrase of the database, that of an unlocked
\* one recognises it, and no keystore is left out.
MemoryIsDisk ==
    open =>
        /\ DOMAIN mem = DOMAIN disk
        /\ \A a \in DOMAIN mem :
              /\ mem[a].par = disk[a].privPar
              /\ mem[a].enc = disk[a].privEnc
              /\ mem[a].unlocked => mem[a].hash = disk[a].privPar
              /\ disk[a].pubPar = pubPass

\* Child numbers and public keys agree, and memory manages every key but
\* the one GenerateNewPublicKey has in hand: no index is lost or used twice.
Indexed ==
    \A a \in DOMAIN disk :
        /\ disk[a].pks = Below(disk[a].next)
        /\ a \in DOMAIN mem =>
              mem[a].addrs = disk[a].pks \ (IF gen # None /\ gen.acct = a /\ gen.met \subseteq {"lock"} THEN {gen.path} ELSE {})

\* An unlocked wallet can sign with every key it manages and a locked one
\* holds no private key, but for the keys GenerateNewPublicKey added while
\* the wallet was locked or unlocked behind its back.
KeysMatchLock ==
    \A a \in DOMAIN mem :
        /\ mem[a].unlocked = unlocked
        /\ \A q \in mem[a].addrs :
              <<a, q>> \notin raced =>
                  IF unlocked THEN CanSign(a, q) ELSE q \notin mem[a].keys

\* Memory and database are one wallet: the same passphrases, the same keys by
\* the same numbers, over failing updates, overlapping calls and restarts.
StoreAgrees == MemoryIsDisk /\ Indexed
===========================================================================
