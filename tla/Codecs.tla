------------------------------- MODULE Codecs -------------------------------
(***************************************************************************)
(* The pure algorithms of the client, called on every small input: each     *)
(* action is one call, and its properties compare the result with what the  *)
(* input stands for.                                                        *)
(***************************************************************************)
EXTENDS Base64, Timestamps, WalletKeys, TLC

CONSTANTS
    Radixes,     \* bases a molecular hash is written in
    HexLength,   \* bound: digits of a hash or of encoded bytes
    AddLength,   \* bound: digits of a summand
    Secrets, Tokens, WalletPositions,  \* texts wallets are made from
    Years,       \* years of served dates
    Offsets,     \* minutes east of Greenwich
    Fractions,   \* digits after the point
    Idle         \* no call

(* A wallet to sign from has a secret and a position.                       *)
ASSUME CodecsAssumption ==
    /\ Radixes \subseteq Nat /\ HexLength \in Nat /\ AddLength \in Nat
    /\ Secrets \cup WalletPositions \subseteq Seq(Chars) \ {<<>>}
    /\ Tokens \subseteq Seq(Chars)
    /\ \A text \in Secrets \cup WalletPositions : Shake256(text) \in Seq(0..(Base - 1)) \ {<<>>}
    /\ Years \subseteq Nat /\ Offsets \subseteq Int
    /\ Fractions \subseteq Seq(0..9)

VARIABLES
    job,    \* the call: its name and arguments
    result  \* what it returned

vars == <<job, result>>

Hex(length) == BoundedSeq(0..(Base - 1), length)
Versions == {1, 2}
WalletInputs == [secret : Secrets, token : Tokens, position : WalletPositions, version : Versions]

Key(w)     == GenerateWalletKey(w.secret, w.token, w.position, w.version)
Address(w) == GenerateWalletAddress(Key(w))

Init == job = Idle /\ result = Idle

Call(j, r) == job' = j /\ result' = r

Convert ==
    \E digits \in Hex(HexLength), base \in Radixes :
        Call([call |-> "convert", digits |-> digits, base |-> base],
             CharsetBaseConvert(digits, base))

Hash ==
    \E digits \in Hex(HexLength) :
        Call([call |-> "hash", digits |-> digits, base |-> Base + 1],
             HashAtomsBase17(digits, HexLength))

AddHex ==
    \E a, b \in Hex(AddLength) \ {<<>>} :
        Call([call |-> "add", a |-> a, b |-> b], ConstantTimeHexAdd(a, b))

Encode ==
    \E digits \in Hex(HexLength) :
        Call([call |-> "encode", digits |-> digits], HexToBase64(digits))

(* What encode returned is decoded.                                         *)
Decode ==
    /\ job.call = "encode" /\ result # Throws
    /\ job' = [call |-> "decode", digits |-> job.digits, text |-> result]
    /\ result' = Base64ToHex(result)

MakeTwo ==
    \E v, w \in WalletInputs :
        Call([call |-> "two", v |-> v, w |-> w], <<Key(v), Key(w)>>)

(* A wallet of the ledger, at an address in either case, is bound.          *)
Bind ==
    \E w \in WalletInputs, other \in Secrets, preferred \in Versions, upper \in BOOLEAN :
        Call([call |-> "bind", w |-> w, other |-> other],
             BindOwnWalletOtsVersion(other, w.token, w.position,
                                     [Address(w) EXCEPT !.upper = upper], preferred))

Leap(year) == year % 4 = 0 /\ (year % 100 # 0 \/ year % 400 = 0)
MonthLengths(year) == <<31, IF Leap(year) THEN 29 ELSE 28, 31, 30, 31, 30, 31, 31, 30, 31, 30, 31>>

(* The last ones past the end of a minute, of an hour and of a day.         *)
Clocks == {<<0, 0, 0>>, <<0, 30, 0>>, <<23, 59, 59>>,
           <<23, 59, 60>>, <<23, 59, 61>>, <<23, 60, 0>>, <<24, 0, 0>>}

Stamp ==
    \E year \in Years, month \in 1..13, day \in {0, 1, 15, 28, 29, 30, 31, 32},
       clock \in Clocks,
       offset \in Offsets, fraction \in Fractions :
        LET served == [form |-> "date", year |-> year, month |-> month, day |-> day,
                       hour |-> clock[1], minute |-> clock[2], second |-> clock[3],
                       offset |-> offset, fraction |-> fraction]
        IN  Call([call |-> "stamp", served |-> served], ToSignedTimestamp(served))

(* createdAt is missing, already in milliseconds, or no date at all.        *)
StampOther ==
    \E form \in {"empty", "digits", "other"} :
        Call([call |-> "pass", served |-> [form |-> form]], ToSignedTimestamp([form |-> form]))

Return == job' = Idle /\ result' = Idle

Next ==
    \/ job = Idle /\ (Convert \/ Hash \/ AddHex \/ Encode \/ MakeTwo \/ Bind \/ Stamp \/ StampOther)
    \/ job # Idle /\ (Decode \/ Return)

Spec == Init /\ [][Next]_vars

-----------------------------------------------------------------------------
Called(name) == job # Idle /\ job.call = name

Canonical(digits) == digits # <<>> /\ (digits[1] = 0 => Len(digits) = 1)

(* A hash keeps its value in the other base, over any number of limbs,      *)
(* leading zeros and the value zero included, and a molecular hash has the  *)
(* one length isSignableHash and normalize rely on: charsetBaseConvert.     *)
RadixExact ==
    (Called("convert") \/ Called("hash"))
        /\ job.digits # <<>> /\ job.base > 1 =>
        /\ Value(result, job.base) = Value(job.digits, Base)
        /\ \A i \in DOMAIN result : result[i] < job.base
        /\ IF job.call = "hash" THEN Len(result) = HexLength ELSE Canonical(result)

(* The key index is the sum of secret and position, written without leading *)
(* zeros as every other client writes it, whatever their lengths and the    *)
(* carries between limbs: constantTimeHexAdd.                               *)
AdditionExact ==
    Called("add") =>
        /\ Canonical(result)
        /\ Value(result, Base) = Value(job.a, Base) + Value(job.b, Base)

(* A signature or key comes back from base64 as it went in, for every       *)
(* number of bytes in its last group: hexToBase64 and base64ToHex.          *)
Base64RoundTrip == Called("decode") => result = job.digits

(* No wallet of version 2 has the key of another wallet: not of one of      *)
(* version 1, and not of one whose numeral and token run together           *)
(* differently, leading zeros of the secret aside.                          *)
FramesDistinct ==
    Called("two") =>
        LET v == job.v
            w == job.w IN
        2 \in {v.version, w.version} /\ result[1] = result[2] =>
            /\ v.version = w.version /\ v.token = w.token
            /\ IndexedKey(v.secret, v.position) = IndexedKey(w.secret, w.position)

(* A wallet is bound to the version it was made at, whichever version the   *)
(* client prefers and however the address is written, and no wallet of      *)
(* another secret is bound at all: bindOwnWalletOtsVersion.                 *)
BindsMaker ==
    Called("bind") =>
        result = IF \E version \in Versions :
                       Address(job.w) = Address([job.w EXCEPT !.secret = job.other,
                                                              !.version = version])
                 THEN job.w.version ELSE Throws

(* The days before a date, counted year by year and month by month.         *)
DaysBefore(year, month, day) ==
    LET leaps(y) == Cardinality({n \in 0..(y - 1) : Leap(n)})
        before[m \in 0..12] ==
            IF m = 0 THEN 0 ELSE before[m - 1] + MonthLengths(year)[m]
    IN  365 * (year - 1970) + leaps(year) - leaps(1970) + before[month - 1] + day - 1

(* What has the form of a date is stamped as the instant its days, its      *)
(* clock and its offset count up to, in any time zone and with any number   *)
(* of digits after the point: a day that its month does not have, as 30     *)
(* February, is counted on into the next month, and a sixtieth second into  *)
(* the next minute.  A month, day 32, hour, minute or second that no date   *)
(* has, and every other form, is hashed as it was served:                   *)
(* toSignedTimestamp, parseRfc3339Millis and daysFromCivil.                 *)
TimestampExact ==
    /\ Called("pass") =>
          result = IF job.served.form = "empty" THEN Absent ELSE job.served
    /\ Called("stamp") =>
        LET t == job.served
            local == (t.hour * 60 + t.minute) * 60 + t.second
            f == t.fraction
        IN  IF \/ t.month > 12 \/ t.day \notin 1..31
               \/ t.hour > 23 \/ t.minute > 59 \/ t.second > 60
            THEN result = t
            ELSE /\ result.millis = (Value(f, 10) * 1000) \div Power(10, Len(f))
                 /\ result.seconds \in 0..(DaySeconds - 1)
                 /\ (result.days - DaysBefore(t.year, t.month, t.day)) * DaySeconds
                        + result.seconds
                      = local - t.offset * 60
=============================================================================
