------------------------------- MODULE Bytes -------------------------------
(***************************************************************************)
(* Numbers as digits, most significant first, the way math/big and the     *)
(* encoders of the repository turn them into bytes and back.               *)
(***************************************************************************)
EXTENDS Integers, Sequences, SequencesExt

\* big.Int.Bytes, in digits below base: no leading zeros, nothing for 0
Digits(n, base) ==
    LET len == CHOOSE k \in 0..n : base^k > n /\ (k = 0 \/ base^(k - 1) <= n)
    IN  [i \in 1..len |-> (n \div base^(len - i)) % base]

\* big.Int.SetBytes
Number(digits, base) == FoldLeft(LAMBDA n, d : n * base + d, 0, digits)

Zeros(n) == [i \in 1..n |-> 0]

\* padByteSlice, paddedAppend: zeros in front; a longer slice stays
Pad(digits, len) == Zeros(len - Len(digits)) \o digits

\* strings.TrimRight(s, "0")
TrimRight(digits) ==
    LET keep == {i \in DOMAIN digits : digits[i] # 0}
    IN  SubSeq(digits, 1, IF keep = {} THEN 0 ELSE CHOOSE i \in keep : \A j \in keep : j <= i)

\* strings.TrimLeft(s, "0")
TrimLeft(digits) == Reverse(TrimRight(Reverse(digits)))

\* hex.EncodeToString and DecodeString for bytes below half^2: two digits for a byte
Hex(bytes, half) == [i \in 1..(2 * Len(bytes)) |->
                        IF i % 2 = 1 THEN bytes[(i + 1) \div 2] \div half
                        ELSE bytes[i \div 2] % half]

Unhex(text, half) == [i \in 1..(Len(text) \div 2) |-> text[2 * i - 1] * half + text[2 * i]]

\* results: a value, or an error
OK(v) == [ok |-> TRUE, value |-> v]
Err == [ok |-> FALSE]
=============================================================================
