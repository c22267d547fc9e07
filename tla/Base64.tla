------------------------------- MODULE Base64 -------------------------------
(***************************************************************************)
(* toBase64 and fromBase64 (utility.cpp), which carry keys, ciphertexts and *)
(* signatures.  Three bytes make four symbols, at any width of a byte that  *)
(* makes this come out even.                                                *)
(***************************************************************************)
EXTENDS HexNumbers

CONSTANT Symbol   \* how many symbols the alphabet has

Byte  == Base * Base
Pad   == Symbol
Other == Symbol + 1   \* any character outside the alphabet

(* A symbol has three bits for each two of a digit.                         *)
ASSUME Base64Assumption ==
    \E unit \in 1..Base : Base = unit * unit /\ Symbol = unit * unit * unit

(* The runs of this many elements that a sequence is cut into.              *)
ChunkSubstr(s, size) ==
    [k \in 1..((Len(s) + size - 1) \div size) |->
        SubSeq(s, (k - 1) * size + 1,
               IF k * size < Len(s) THEN k * size ELSE Len(s))]

FromHexString(digits) ==
    IF Len(digits) % 2 # 0 \/ ~(\A i \in DOMAIN digits : digits[i] < Base) THEN Throws
    ELSE [k \in 1..(Len(digits) \div 2) |-> digits[2 * k - 1] * Base + digits[2 * k]]

ToHexString(bytes) == WrittenAll(bytes, 2)

(* One symbol for each byte of a short group.                               *)
EncodedShort(group) ==
    LET value == Value(group, Byte) * Power(Byte, 3 - Len(group)) IN
    [j \in 0..3 |-> IF j < Len(group) THEN (value \div Power(Symbol, 3 - j)) % Symbol ELSE Pad]

(* Up to three bytes, shifted to the front; one symbol more than bytes.     *)
Encoded(group) ==
    LET value == Value(group, Byte) * Power(Byte, 3 - Len(group)) IN
    [j \in 0..3 |-> IF j <= Len(group) THEN (value \div Power(Symbol, 3 - j)) % Symbol ELSE Pad]

ToBase64(bytes) ==
    LET groups == ChunkSubstr(bytes, 3) IN
    [i \in 1..(4 * Len(groups)) |-> Encoded(groups[(i + 3) \div 4])[(i - 1) % 4]]

(* The characters of the alphabet, in order.                                *)
Symbols(text) ==
    LET taken[k \in 0..Len(text)] ==
            IF k = 0 THEN <<>>
            ELSE IF text[k] < Symbol THEN Append(taken[k - 1], text[k]) ELSE taken[k - 1]
    IN  taken[Len(text)]

(* Up to four characters; padding and strays are passed over, but they keep *)
(* their place in the group.                                                *)
Decoded(group) ==
    LET symbols == Symbols(group)
        value == Value(symbols, Symbol) * Power(Symbol, 4 - Len(symbols))
    IN  [j \in 1..(Len(symbols) - 1) |-> (value \div Power(Byte, 3 - j)) % Byte]

FromBase64(text) ==
    LET groups == ChunkSubstr(text, 4) IN
    FlattenSeq([k \in DOMAIN groups |-> Decoded(groups[k])])

HexToBase64(digits) ==
    LET bytes == FromHexString(digits) IN
    IF bytes = Throws THEN Throws ELSE ToBase64(bytes)

Base64ToHex(text) == ToHexString(FromBase64(text))
=============================================================================
