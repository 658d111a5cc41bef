------------------------------- MODULE HDKeys -------------------------------
(***************************************************************************)
(* Hierarchical keys (poc/wallet/keystore/hdkeychain/extendedkey.go, and   *)
(* the paths of hd.go).  The curve is a group of Order elements in which   *)
(* the point of a scalar is written as the scalar; a private key is a      *)
(* slice of bytes, at most KeyLen, and what matters here is that Child     *)
(* leaves out leading zeros, which the other functions do not.             *)
(***************************************************************************)
EXTENDS Bytes

CONSTANTS
    KByte,      \* values of a byte
    KeyLen,     \* bytes of a key: 32 in the code
    Order,      \* of the group
    Hardened,   \* HardenedKeyStart
    MaxDepth,   \* 255 in the code
    Mac(_, _)   \* HMAC: (chain code, data) to [il, chain]

Scalar(key) == Number(key, KByte)

\* SerializeCompressed of the point of n: never as a private key is written
Point(n) == <<KByte>> \o Pad(Digits(n % Order, KByte), KeyLen)

PointScalar(bytes) == Number(Tail(bytes), KByte)

PubKeyBytes(k) == IF k.private THEN Point(Scalar(k.key)) ELSE k.key

\* NewExtendedKey; the fingerprint is the parent's public key
Key(key, chain, parent, depth, num, private) ==
    [key |-> key, chain |-> chain, parent |-> parent, depth |-> depth, num |-> num,
     private |-> private]

\* secretKey is used as it is, with its leading zeros
NewMaster(secret, chain) ==
    IF Scalar(secret) \in 1..(Order - 1) THEN OK(Key(secret, chain, <<>>, 0, 0, TRUE)) ELSE Err

\* what is hashed: a hardened child takes the private key, from the left
ChildData(k, i) ==
    IF i >= Hardened THEN <<0>> \o k.key \o Zeros(KeyLen - Len(k.key)) \o <<i>>
    ELSE PubKeyBytes(k) \o <<i>>

Child(k, i) ==
    LET m == Mac(k.chain, ChildData(k, i))
        n == IF k.private THEN m.il + Scalar(k.key) ELSE m.il + PointScalar(k.key)
    IN  IF k.depth = MaxDepth \/ (~k.private /\ i >= Hardened) \/ m.il \notin 1..(Order - 1) THEN Err
        ELSE OK(Key(IF k.private THEN Digits(n % Order, KByte) ELSE Point(n), m.chain,
                    PubKeyBytes(k), k.depth + 1, i, k.private))

Neuter(k) == [k EXCEPT !.key = PubKeyBytes(k), !.private = FALSE]

\* mutant: a short key padded behind, the way Child copies it
StringPadBehind(k) == [k EXCEPT !.key = IF k.private THEN <<0>> \o k.key \o Zeros(KeyLen - Len(k.key))
                                       ELSE k.key,
                                !.private = "unknown"]

\* String: base58 of the fields, a private key padded in front
String(k) == [k EXCEPT !.key = IF k.private THEN <<0>> \o Pad(k.key, KeyLen) ELSE k.key,
                       !.private = "unknown"]

\* NewKeyFromString: the first byte of the key tells which kind it is
NewKeyFromString(s) ==
    IF Head(s.key) = 0
    THEN IF Scalar(Tail(s.key)) \in 1..(Order - 1)
         THEN OK([s EXCEPT !.key = Tail(@), !.private = TRUE]) ELSE Err
    ELSE OK([s EXCEPT !.private = FALSE])

\* a derivation stops at its first error
ChildOf(r, i) == IF r.ok THEN Child(r.value, i) ELSE Err

\* deriveCoinTypeKey, deriveAccountKey: m/purpose'/coin'/account'
AccountKey(master, path) ==
    FoldLeft(LAMBDA r, i : ChildOf(r, i + Hardened), OK(master), path)

\* an address: the branch, then the index
AddressKey(acct, branch, index) == ChildOf(Child(acct, branch), index)
=============================================================================
