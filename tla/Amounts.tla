------------------------------ MODULE Amounts ------------------------------
(***************************************************************************)
(* Amounts of money as the API writes and reads them (api/util.go): an     *)
(* integral part and up to Places decimals, in Base.                       *)
(***************************************************************************)
EXTENDS Bytes

CONSTANTS
    Base,    \* of the digits: 10 in the code
    Places,  \* decimals: 8 in the code
    MaxMass  \* the largest integral part

MaxwellPerMass == Base^Places

MaxAmount == MaxMass * MaxwellPerMass

\* strconv.Itoa
Itoa(n) == IF n = 0 THEN <<0>> ELSE Digits(n, Base)

\* the sum with one Mass keeps the leading zeros of the decimals; they are cut off and the
\* one is taken away again
AmountToString(m) ==
    IF m > MaxAmount THEN Err
    ELSE LET s == Digits(m + MaxwellPerMass, Base)
             cut == Len(s) - Places
             i == Number(SubSeq(s, 1, cut), Base)
         IN  OK([int |-> Itoa(i - 1), frac |-> TrimRight(SubSeq(s, cut + 1, Len(s)))])

\* s.frac is empty when there is no point
StringToAmount(s) ==
    LET frac == TrimRight(s.frac)
        i == Number(TrimLeft(s.int), Base)
        f == Number(frac \o Zeros(Places - Len(frac)), Base)
        total == i * MaxwellPerMass + f
    IN  IF Len(frac) > Places \/ i > MaxMass \/ total > MaxAmount THEN Err ELSE OK(total)
=============================================================================
