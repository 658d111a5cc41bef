------------------------------ MODULE Mnemonic ------------------------------
(***************************************************************************)
(* Entropy as words (poc/wallet/keystore/mnemonic.go).  Every 4 bytes of   *)
(* entropy give one bit of checksum and three words; a byte has ByteBits   *)
(* bits and a word WordBits, with 4 * ByteBits + 1 = 3 * WordBits, which   *)
(* for bytes of 8 bits makes words of 11.  A word is its index in the list *)
(* in use, a number below Words.                                           *)
(***************************************************************************)
EXTENDS Bytes

CONSTANTS
    ByteBits,
    WordBits,
    MinUnits, MaxUnits,  \* 4 bytes each: 4 to 8 in the code
    HashByte(_)               \* the first byte of a hash over bytes

Byte == 2^ByteBits

\* the length of the list SetWordList sets
Words == 2^WordBits

\* validateEntropyBitSize
EntropySizeOK(bytes) == Len(bytes) % 4 = 0 /\ Len(bytes) \in (4 * MinUnits)..(4 * MaxUnits)

\* computeChecksum, and of its first byte the leading bits
Checksum(data, bits) == HashByte(data) \div 2^(ByteBits - bits)

\* addChecksum: the bits come in on the right
AddChecksum(data) ==
    LET bits == Len(data) \div 4
    IN  Digits(Number(data, Byte) * 2^bits + Checksum(data, bits), Byte)

NewMnemonic(entropy) ==
    LET bits == Len(entropy) * ByteBits
        sentence == (bits + bits \div (4 * ByteBits)) \div WordBits
        n == Number(AddChecksum(entropy), Byte)
    IN  IF ~EntropySizeOK(entropy) THEN Err
        ELSE OK([i \in 1..sentence |-> (n \div Words^(sentence - i)) % Words])

\* splitMnemonicWords, IsMnemonicValid; the words of a sentence are all in the list
SentenceOK(words) ==
    /\ Len(words) % 3 = 0 /\ Len(words) \in (3 * MinUnits)..(3 * MaxUnits)
    /\ \A i \in DOMAIN words : words[i] \in 0..(Words - 1)

EntropyFromMnemonic(words) ==
    LET bits == Len(words) \div 3
        b == Number(words, Words)
        entropy == Pad(Digits(b \div 2^bits, Byte), (Len(words) \div 3) * 4)
    IN  IF ~SentenceOK(words) THEN Err
        ELSE IF b % 2^bits # Checksum(entropy, bits) THEN Err
        ELSE OK(entropy)

\* with raw: the entropy without its checksum
MnemonicToByteArray(words) ==
    LET size == Len(words) * WordBits
        bits == size % (4 * ByteBits)
        full == (size - bits) \div ByteBits + 1
        b == Number(words, Words)
        raw == Pad(Digits(b \div 2^bits, Byte), full - (full % 4))
    IN  IF ~SentenceOK(words) THEN Err
        ELSE IF Pad(Digits(b, Byte), full) # Pad(AddChecksum(raw), full) THEN Err
        ELSE OK(raw)
=============================================================================
