----------------------------- MODULE HexNumbers -----------------------------
(***************************************************************************)
(* Numbers written in hexadecimal: CryptoBigInt (crypto_bigint.cpp), which  *)
(* adds a wallet's position to its secret, and charsetBaseConvert           *)
(* (utility.cpp), which writes a molecular hash in base 17.  A numeral is   *)
(* the sequence of its digits; both break it into limbs of LimbDigits       *)
(* digits and keep every limb and carry within the limb's width.            *)
(***************************************************************************)
EXTENDS Naturals, Sequences, SequencesExt

CONSTANTS
    Base,        \* the base of a hexadecimal digit
    LimbDigits,  \* digits in a limb
    Throws       \* a call that ends in an exception

ASSUME HexAssumption == Base \in Nat \ {0, 1} /\ LimbDigits \in Nat \ {0}

(* A function, whose recursion a proof can unfold.                          *)
Power(base, n) ==
    LET power[k \in 0..n] == IF k = 0 THEN 1 ELSE base * power[k - 1] IN power[n]

Limb == Power(Base, LimbDigits)
Larger(m, n) == IF m < n THEN n ELSE m

(* The value of a numeral: shift and or, one digit after the other.         *)
Value(digits, base) ==
    LET value[k \in 0..Len(digits)] ==
            IF k = 0 THEN 0 ELSE value[k - 1] * base + digits[k]
    IN  value[Len(digits)]

(* A limb written with at least this many digits.                           *)
Written(value, width) == [i \in 1..width |-> (value \div Power(Base, width - i)) % Base]

(* Each of them written so, one after the other.                            *)
WrittenAll(values, width) ==
    [i \in 1..(Len(values) * width) |->
        Written(values[(i - 1) \div width + 1], width)[((i - 1) % width) + 1]]

Significant(digits) ==
    SubSeq(digits, SelectInSeq(digits \o <<1>>, LAMBDA d : d # 0), Len(digits))

LimbCount(digits) == (Len(digits) + LimbDigits - 1) \div LimbDigits

-----------------------------------------------------------------------------
(* charsetBaseConvert.                                                      *)

(* The limbs cut from the left, the last one short.                         *)
PackUnaligned(digits) ==
    [k \in 1..LimbCount(digits) |->
        Value(SubSeq(digits, (k - 1) * LimbDigits + 1,
                     IF k = LimbCount(digits) THEN Len(digits) ELSE k * LimbDigits), Base)]

(* The most significant limb takes the digits left over, or a full limb.    *)
Pack(digits) ==
    LET over == Len(digits) % LimbDigits
        head == IF over = 0 THEN LimbDigits ELSE over
        last(k) == head + (k - 1) * LimbDigits
    IN  [k \in 1..LimbCount(digits) |->
            Value(SubSeq(digits, IF k = 1 THEN 1 ELSE last(k - 1) + 1, last(k)), Base)]

(* One long division: the quotient without its leading zeros, the remainder. *)
DivideLimbs(limbs, by) ==
    LET rem[k \in 0..Len(limbs)] ==
            IF k = 0 THEN 0 ELSE (rem[k - 1] * Limb + limbs[k]) % by
        quotient == Significant([k \in 1..Len(limbs) |-> (rem[k - 1] * Limb + limbs[k]) \div by])
    IN  [rem |-> rem[Len(limbs)], quotient |-> [k \in DOMAIN quotient |-> quotient[k] % Limb]]

(* Divided until nothing is left, which no number of these limbs outlasts.  *)
Remainders(limbs, by) ==
    LET rounds == Len(limbs) * Limb
        divided[k \in 0..rounds] ==
            IF k = 0 THEN [left |-> limbs, digits |-> <<>>]
            ELSE LET was == divided[k - 1]
                     now == DivideLimbs(was.left, by)
                 IN  IF was.left = <<>> THEN was
                     ELSE [left |-> now.quotient, digits |-> <<now.rem>> \o was.digits]
    IN  divided[rounds].digits

CharsetBaseConvert(digits, base) ==
    IF digits = <<>> THEN <<>>
    ELSE IF base < 2 THEN Throws
    ELSE IF Significant(digits) = <<>> THEN <<0>>
    ELSE Remainders(Pack(Significant(digits)), base)

(* The next base, with zeros in front up to the length of every hash.       *)
HashAtomsBase17(digits, length) ==
    LET converted == CharsetBaseConvert(digits, Base + 1)
        short == IF Len(converted) < length THEN length - Len(converted) ELSE 0
    IN  [i \in 1..short |-> 0] \o converted

-----------------------------------------------------------------------------
(* CryptoBigInt: limbs from the least significant.                          *)

FromHex(digits) == IF digits = <<>> THEN <<0>> ELSE Reverse(Pack(digits))

(* One limb is left whatever its value.                                     *)
Normalize(limbs) ==
    SubSeq(limbs, 1, Larger(1, SelectLastInSeq(limbs, LAMBDA l : l # 0)))

(* constantTimeAdd: each sum cut to the limb, the rest carried.             *)
ConstantTimeAdd(a, b) ==
    LET carry[k \in 0..Len(a)] ==
            IF k = 0 THEN 0 ELSE (a[k] + b[k] + carry[k - 1]) \div Limb
    IN  [limbs |-> [k \in 1..Len(a) |-> (a[k] + b[k] + carry[k - 1]) % Limb],
         carry |-> carry[Len(a)]]

Add(a, b) ==
    LET size == Larger(Len(a), Len(b))
        fit(limbs) == [k \in 1..size |-> IF k <= Len(limbs) THEN limbs[k] ELSE 0]
        added == ConstantTimeAdd(fit(a), fit(b))
    IN  Normalize(Append(added.limbs, added.carry))

IsZero(limbs) == \A i \in DOMAIN limbs : limbs[i] = 0

(* Every limb without its leading zeros.                                    *)
ToHexUnpadded(limbs) ==
    IF IsZero(limbs) THEN <<0>>
    ELSE FlattenSeq([k \in DOMAIN limbs |->
             Significant(Written(Reverse(limbs)[k], LimbDigits))])

(* The most significant limb is written bare, every other one in full.      *)
ToHex(limbs) ==
    IF IsZero(limbs) THEN <<0>>
    ELSE LET top == SelectLastInSeq(limbs, LAMBDA l : l # 0) IN
         Significant(WrittenAll([k \in 1..top |-> limbs[top - k + 1]], LimbDigits))

IsValidHex(text) == text # <<>> /\ \A i \in DOMAIN text : text[i] < Base

ConstantTimeHexAdd(a, b) ==
    IF IsValidHex(a) /\ IsValidHex(b) THEN ToHex(Add(FromHex(a), FromHex(b))) ELSE Throws
=============================================================================
