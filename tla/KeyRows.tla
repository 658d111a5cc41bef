------------------------------ MODULE KeyRows ------------------------------
(***************************************************************************)
(* The rows of the wallet's keystore (poc/wallet/keystore/db.go): what is  *)
(* put into a bucket under which key, in which bytes, and what is fetched  *)
(* from it.  A bucket is a function from keys to bytes; a value that may   *)
(* be nil is a set of at most one.  What the rows mean is module Keystore, *)
(* the database under them module WalletDB.                                *)
(***************************************************************************)
EXTENDS Bytes, TLC

CONSTANTS
    RowByte,   \* values of a byte: 256 in the code
    WordLen    \* bytes of a uint32: 4

\* binary.LittleEndian, uint32ToBytes
Uint32ToBytes(n) == Reverse(Pad(Digits(n, RowByte), WordLen))
ToUint32(bytes) == Number(Reverse(bytes), RowByte)

EmptyBucket == [k \in {} |-> <<>>]

PutRow(b, key, v) == (key :> v) @@ b

\* a nil parameter writes nothing
PutIf(b, key, some) == FoldFunction(LAMBDA v, c : PutRow(c, key, v), b, [v \in some |-> v])

GetRow(b, key) == IF key \in DOMAIN b THEN {b[key]} ELSE {}

-----------------------------------------------------------------------------
(* Pairs of keys, each half under a name of its own *)

\* putMasterKeyParams, putMasterHDKeys, putCryptoKeys
PutKeys(b, kind, pub, priv) == PutIf(PutIf(b, <<kind, "priv">>, priv), <<kind, "pub">>, pub)

\* fetchMasterKeyParams, fetchCryptoKeys: the public half is required
FetchKeys(b, kind) ==
    IF GetRow(b, <<kind, "pub">>) = {} THEN Err
    ELSE OK([pub |-> GetRow(b, <<kind, "pub">>), priv |-> GetRow(b, <<kind, "priv">>)])

\* fetchMasterHDKeys: neither is
FetchMasterHDKeys(b) == [pub |-> GetRow(b, <<"mhd", "pub">>), priv |-> GetRow(b, <<"mhd", "priv">>)]

-----------------------------------------------------------------------------
(* Accounts *)

SerializeHDAccountKey(pub, priv) ==
    Uint32ToBytes(Len(pub)) \o pub \o Uint32ToBytes(Len(priv)) \o priv

DeserializeHDAccountKey(raw) ==
    LET pubLen  == ToUint32(SubSeq(raw, 1, WordLen))
        offset  == WordLen + pubLen
        privLen == ToUint32(SubSeq(raw, offset + 1, offset + WordLen))
    IN  IF Len(raw) < 2 * WordLen THEN Err
        ELSE OK([pub  |-> SubSeq(raw, WordLen + 1, offset),
                 priv |-> SubSeq(raw, offset + WordLen + 1, offset + WordLen + privLen)])

AccountMASS == 0

\* serializeAccountRow: the type, the length, the raw data
SerializeAccountRow(raw) == <<AccountMASS>> \o Uint32ToBytes(Len(raw)) \o raw

DeserializeAccountRow(row) ==
    IF Len(row) < 1 + WordLen THEN Err
    ELSE OK([type |-> row[1],
             raw  |-> SubSeq(row, WordLen + 2,
                             WordLen + 1 + ToUint32(SubSeq(row, 2, WordLen + 1)))])

\* putAccountUsage, then the row under the account's number
PutAccountInfo(b, account, pub, priv) ==
    PutRow(PutRow(b, <<"account">>, Uint32ToBytes(account)),
           <<"row", Uint32ToBytes(account)>>, SerializeAccountRow(SerializeHDAccountKey(pub, priv)))

FetchAccountInfo(b, account) ==
    LET key == <<"row", Uint32ToBytes(account)>>
        row == DeserializeAccountRow(b[key])
    IN  IF key \notin DOMAIN b \/ ~row.ok \/ row.value.type # AccountMASS THEN Err
        ELSE DeserializeHDAccountKey(row.value.raw)

FetchAccountUsage(b) ==
    IF <<"account">> \in DOMAIN b THEN OK(ToUint32(b[<<"account">>])) ELSE Err

-----------------------------------------------------------------------------
(* Branches and addresses *)

\* putBranchPubKeys, initBranchChildNum
InitBranches(b, internal, external) ==
    LET names == << <<"in", "pub">>, <<"ex", "pub">>, <<"in", "num">>, <<"ex", "num">> >>
        zero  == Uint32ToBytes(0)
        rows  == <<internal, external, zero, zero>>
    IN  FoldLeft(LAMBDA c, i : PutRow(c, names[i], rows[i]), b, <<1, 2, 3, 4>>)

Branch(internal) == IF internal THEN "in" ELSE "ex"

UpdateChildNumRow(b, internal, n) == PutRow(b, <<Branch(internal), "num">>, Uint32ToBytes(n))

GetChildNum(b, internal) == ToUint32(b[<<Branch(internal), "num">>])

\* getEncBranchPubKey, fetchBranchPubKeys
BranchPubKey(b, internal) == GetRow(b, <<Branch(internal), "pub">>)

\* putEncryptedPubKey: the path is the key, in a bucket of its own
PutEncryptedPubKey(b, branch, index, pub) ==
    PutRow(b, Uint32ToBytes(branch) \o Uint32ToBytes(index), pub)

FetchEncryptedPubKeys(b) ==
    {[branch |-> ToUint32(SubSeq(k, 1, WordLen)),
      index  |-> ToUint32(SubSeq(k, WordLen + 1, 2 * WordLen)), pub |-> b[k]] : k \in DOMAIN b}
=============================================================================
