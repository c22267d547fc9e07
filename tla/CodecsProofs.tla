----------------------------- MODULE CodecsProofs -----------------------------
(***************************************************************************)
(* Theorems about Codecs: what the pure algorithms of the client return,    *)
(* for numerals of any length, in any base and with limbs of any width, for *)
(* any texts a wallet is made from, and for any served date.                *)
(***************************************************************************)
EXTENDS Codecs, Sums

-----------------------------------------------------------------------------
(* The call under way and its result.                                       *)

Converting ==
    \E digits \in Hex(HexLength), base \in Radixes :
        /\ job = [call |-> "convert", digits |-> digits, base |-> base]
        /\ result = CharsetBaseConvert(digits, base)
Hashing ==
    \E digits \in Hex(HexLength) :
        /\ job = [call |-> "hash", digits |-> digits, base |-> Base + 1]
        /\ result = HashAtomsBase17(digits, HexLength)
Adding ==
    \E a, b \in Hex(AddLength) \ {<<>>} :
        /\ job = [call |-> "add", a |-> a, b |-> b]
        /\ result = ConstantTimeHexAdd(a, b)
Encoding ==
    \E digits \in Hex(HexLength) :
        /\ job = [call |-> "encode", digits |-> digits]
        /\ result = HexToBase64(digits)
Decoding ==
    \E digits \in Hex(HexLength) :
        /\ job = [call |-> "decode", digits |-> digits, text |-> HexToBase64(digits)]
        /\ HexToBase64(digits) # Throws
        /\ result = Base64ToHex(HexToBase64(digits))
Making ==
    \E v, w \in WalletInputs :
        job = [call |-> "two", v |-> v, w |-> w] /\ result = <<Key(v), Key(w)>>
Binding ==
    \E w \in WalletInputs, other \in Secrets, preferred \in Versions, upper \in BOOLEAN :
        /\ job = [call |-> "bind", w |-> w, other |-> other]
        /\ result = BindOwnWalletOtsVersion(other, w.token, w.position,
                                            [Address(w) EXCEPT !.upper = upper], preferred)
Dates ==
    [form : {"date"}, year : Years, month : 1..13, day : {0, 1, 15, 28, 29, 30, 31, 32},
     hour : {0, 23, 24}, minute : {0, 30, 59, 60}, second : {0, 59, 60, 61},
     offset : Offsets, fraction : Fractions]
Stamping ==
    \E served \in Dates :
        job = [call |-> "stamp", served |-> served] /\ result = ToSignedTimestamp(served)
Passing ==
    \E form \in {"empty", "digits", "other"} :
        /\ job = [call |-> "pass", served |-> [form |-> form]]
        /\ result = ToSignedTimestamp([form |-> form])

Answered ==
    \/ job = Idle \/ Converting \/ Hashing \/ Adding \/ Encoding
    \/ Decoding \/ Making \/ Binding \/ Stamping \/ Passing

(* Every call answers with what its function returns.                       *)
LEMMA AnsweredStep ==
    ASSUME Answered, [Next]_vars
    PROVE  Answered'
<1>1. CASE Convert
  BY <1>1 DEF Convert, Call, Answered, Converting
<1>2. CASE Hash
  BY <1>2 DEF Hash, Call, Answered, Hashing
<1>3. CASE AddHex
  BY <1>3 DEF AddHex, Call, Answered, Adding
<1>4. CASE Encode
  <2>1. Encoding'
    BY <1>4, Zenon DEF Encode, Call, Encoding
  <2>2. QED BY <2>1 DEF Answered
<1>5. CASE Decode /\ job # Idle
  <2>1. PICK digits \in Hex(HexLength) :
          /\ job = [call |-> "encode", digits |-> digits]
          /\ result = HexToBase64(digits)
    <3>1. job # Idle /\ job.call = "encode"
      BY <1>5 DEF Decode
    <3>2. ~Converting /\ ~Hashing /\ ~Adding
      BY <3>1 DEF Converting, Hashing, Adding
    <3>3. ~Decoding /\ ~Making
      BY <3>1 DEF Decoding, Making
    <3>4. ~Binding
      <4>1. \A w, other : job = [call |-> "bind", w |-> w, other |-> other] => job.call = "bind"
        OBVIOUS
      <4>2. QED BY <3>1, <4>1, Zenon DEF Binding
    <3>5. ~Stamping /\ ~Passing
      BY <3>1 DEF Stamping, Passing
    <3>6. QED BY <3>1, <3>2, <3>3, <3>4, <3>5 DEF Answered, Encoding
  <2>2. Decoding'
    BY <1>5, <2>1 DEF Decode, Decoding
  <2>3. QED BY <2>2 DEF Answered
<1>6. CASE MakeTwo
  BY <1>6 DEF MakeTwo, Call, Answered, Making
<1>7. CASE Bind
  BY <1>7 DEF Bind, Call, Answered, Binding
<1>8. CASE Stamp
  <2>1. PICK year \in Years, month \in 1..13, day \in {0, 1, 15, 28, 29, 30, 31, 32},
             clock \in Clocks,
             offset \in Offsets, fraction \in Fractions :
          LET served == [form |-> "date", year |-> year, month |-> month, day |-> day,
                         hour |-> clock[1], minute |-> clock[2], second |-> clock[3],
                         offset |-> offset, fraction |-> fraction]
          IN  Call([call |-> "stamp", served |-> served], ToSignedTimestamp(served))
    BY <1>8, Zenon DEF Stamp
  <2> DEFINE served == [form |-> "date", year |-> year, month |-> month, day |-> day,
                        hour |-> clock[1], minute |-> clock[2], second |-> clock[3],
                        offset |-> offset, fraction |-> fraction]
  <2>2. /\ clock[1] \in {0, 23, 24} /\ clock[2] \in {0, 30, 59, 60}
        /\ clock[3] \in {0, 59, 60, 61}
    BY DEF Clocks
  <2>3. served \in Dates
    BY <2>2 DEF Dates
  <2>4. Stamping'
    BY <2>1, <2>3 DEF Call, Stamping
  <2>5. QED BY <2>4 DEF Answered
<1>9. CASE StampOther
  BY <1>9 DEF StampOther, Call, Answered, Passing
<1>10. CASE Return
  BY <1>10 DEF Return, Answered
<1>11. CASE UNCHANGED vars
  BY <1>11 DEF vars, Answered, Converting, Hashing, Adding, Encoding, Decoding,
               Making, Binding, Stamping, Passing
<1>12. QED
  BY <1>1, <1>2, <1>3, <1>4, <1>5, <1>6, <1>7, <1>8, <1>9, <1>10, <1>11 DEF Next

(* The result is at all times that of the call under way.                   *)
LEMMA AlwaysAnswered == Spec => []Answered
<1>1. Init => Answered
  BY DEF Init, Answered
<1>2. Answered /\ [Next]_vars => Answered'
  BY AnsweredStep
<1>3. QED BY <1>1, <1>2, PTL DEF Spec

-----------------------------------------------------------------------------
(* Division.                                                                *)

(* What division gives, from a quotient and a rest.                         *)
LEMMA QuotientIs ==
    ASSUME NEW a \in Nat, NEW b \in Nat \ {0}, NEW q \in Nat, NEW r \in Nat,
           a = q * b + r, r < b
    PROVE  a \div b = q /\ a % b = r
OBVIOUS

(* What division gives.                                                     *)
LEMMA Quotient ==
    ASSUME NEW a \in Nat, NEW b \in Nat \ {0}
    PROVE  /\ a \div b \in Nat /\ a % b \in Nat /\ a % b < b
           /\ a = (a \div b) * b + (a % b)
OBVIOUS

-----------------------------------------------------------------------------
(* Numerals.                                                                *)

Powers(p, base, n) == /\ p \in [0..n -> Nat] /\ p[0] = 1
                      /\ \A k \in 1..n : p[k] = base * p[k - 1]

(* The powers up to n, when there are such powers.                          *)
LEMMA PowerIs ==
    ASSUME NEW base \in Nat, NEW n \in Nat, NEW p, Powers(p, base, n)
    PROVE  Power(base, n) = p[n]
<1> DEFINE F(f) == [k \in 0..n |-> IF k = 0 THEN 1 ELSE base * f[k - 1]]
           c == CHOOSE f : f = F(f)
<1>1. Power(base, n) = c[n]
  BY Zenon DEF Power
<1>2. c = F(c)
  <2>1. p = F(p)
    BY DEF Powers
  <2> HIDE DEF F
  <2>2. QED BY <2>1, Zenon
<1> HIDE DEF c
<1>3. c[0] = p[0]
  BY <1>2 DEF Powers
<1>4. ASSUME NEW k \in 1..n, c[k - 1] = p[k - 1] PROVE c[k] = p[k]
  <2>1. k \in 0..n /\ k # 0
    OBVIOUS
  <2>2. c[k] = base * c[k - 1]
    BY <1>2, <2>1, Zenon
  <2>3. p[k] = base * p[k - 1]
    BY Zenon DEF Powers
  <2>4. QED BY <1>4, <2>2, <2>3, Zenon
<1>5. Alike(c, p, n)
  BY <1>3, <1>4, Zenon DEF Alike
<1>6. QED BY <1>1, <1>5, SameLoops

(* There are: the recursion that defines Power has a solution.              *)
LEMMA PowersExist ==
    ASSUME NEW base \in Nat, NEW n \in Nat
    PROVE  \E p : Powers(p, base, n)
<1> DEFINE step == [k \in 1..n |-> [x \in Nat |-> base * x]]
<1>1. step \in [1..n -> [Nat -> Nat]]
  <2>1. ASSUME NEW k \in 1..n, NEW x \in Nat PROVE base * x \in Nat
    OBVIOUS
  <2>2. QED BY <2>1
<1>2. PICK p : Loop(p, n, Nat, 1, step)
  <2> HIDE DEF step
  <2>1. QED BY <1>1, Loops
<1>3. ASSUME NEW k \in 1..n PROVE p[k] = base * p[k - 1]
  <2>1. p[k - 1] \in Nat /\ p[k] = step[k][p[k - 1]]
    <3> HIDE DEF step
    <3>1. QED BY <1>2, LoopRound
  <2>2. QED BY <2>1
<1>4. QED BY <1>2, <1>3 DEF Powers, Loop

(* Power is the recursion it is defined by.                                 *)
LEMMA PowerFacts ==
    ASSUME NEW base \in Nat
    PROVE  /\ Power(base, 0) = 1
           /\ \A n \in Nat : /\ Power(base, n) \in Nat
                              /\ Power(base, n + 1) = base * Power(base, n)
<1>1. ASSUME NEW n \in Nat
      PROVE  /\ Power(base, n) \in Nat /\ Power(base, 0) = 1
             /\ Power(base, n + 1) = base * Power(base, n)
  <2>1. PICK p : Powers(p, base, n + 1)
    BY PowersExist
  <2> DEFINE q(m) == [k \in 0..m |-> p[k]]
  <2>2. ASSUME NEW m \in 0..(n + 1) PROVE Powers(q(m), base, m)
    <3>1. ASSUME NEW k \in 1..m PROVE q(m)[k] = base * q(m)[k - 1]
      <4>1. k \in 1..(n + 1) /\ k \in 0..m /\ k - 1 \in 0..m
        OBVIOUS
      <4>2. p[k] = base * p[k - 1]
        BY <2>1, <4>1 DEF Powers
      <4>3. QED BY <4>1, <4>2
    <3>2. q(m) \in [0..m -> Nat] /\ q(m)[0] = 1
      BY <2>1 DEF Powers
    <3> HIDE DEF q
    <3>3. QED BY <3>1, <3>2 DEF Powers
  <2>3. ASSUME NEW m \in 0..(n + 1) PROVE Power(base, m) = p[m]
    <3>1. q(m)[m] = p[m] /\ m \in Nat
      OBVIOUS
    <3> HIDE DEF q
    <3>2. QED BY <2>2, <3>1, PowerIs
  <2>4. p[n] \in Nat /\ p[0] = 1 /\ p[n + 1] = base * p[n]
    <3>1. n + 1 \in 1..(n + 1) /\ (n + 1) - 1 = n
      OBVIOUS
    <3>2. p[n + 1] = base * p[(n + 1) - 1]
      BY <2>1, <3>1, Zenon DEF Powers
    <3>3. QED BY <2>1, <3>1, <3>2 DEF Powers
  <2>5. QED BY <2>3, <2>4
<1>2. QED BY <1>1

(* No power of a base is zero.                                              *)
LEMMA PowerGrows ==
    ASSUME NEW base \in Nat \ {0}, NEW n \in Nat
    PROVE  Power(base, n) \in Nat \ {0}
<1> DEFINE Known == {m \in Nat : Power(base, m) # 0}
<1>1. 0 \in Known
  BY PowerFacts
<1>2. ASSUME NEW m \in Nat, m \in Known PROVE m + 1 \in Known
  <2>1. Power(base, m) \in Nat \ {0} /\ Power(base, m + 1) = base * Power(base, m)
    BY <1>2, PowerFacts
  <2>2. \A x, y \in Nat \ {0} : x * y # 0
    OBVIOUS
  <2>3. QED BY <2>1, <2>2
<1>3. n \in Known
  <2> HIDE DEF Known
  <2>1. QED BY <1>1, <1>2, Naturals0
<1>4. QED BY <1>3, PowerFacts

(* The value is the last of the values of the prefixes.                     *)
LEMMA ValueIs ==
    ASSUME NEW digits \in Seq(Nat), NEW base \in Nat,
           NEW v, DOMAIN v = 0..Len(digits),
           v = [k \in 0..Len(digits) |->
                   IF k = 0 THEN 0 ELSE v[k - 1] * base + digits[k]]
    PROVE  Value(digits, base) = v[Len(digits)]
<1> DEFINE N == Len(digits)
           F(f) == [k \in 0..N |-> IF k = 0 THEN 0 ELSE f[k - 1] * base + digits[k]]
           c == CHOOSE f : f = F(f)
<1>1. Value(digits, base) = c[N]
  BY Zenon DEF Value
<1>2. c = F(c)
  <2> HIDE DEF F
  <2>1. v = F(v)
    BY DEF F
  <2>2. QED BY <2>1, Zenon
<1> HIDE DEF c
<1>3. \A k \in 0..N : c[k] = v[k]
  <2>1. c[0] = v[0]
    BY <1>2
  <2>2. ASSUME NEW k \in 1..N, c[k - 1] = v[k - 1] PROVE c[k] = v[k]
    <3>1. k \in 0..N /\ k # 0
      OBVIOUS
    <3>2. c[k] = c[k - 1] * base + digits[k]
      BY <1>2, <3>1, Zenon
    <3>3. v[k] = v[k - 1] * base + digits[k]
      BY <3>1, Zenon
    <3>4. QED BY <2>2, <3>2, <3>3, Zenon
  <2>3. Alike(c, v, N)
    BY <2>1, <2>2, Zenon DEF Alike
  <2>4. N \in Nat
    OBVIOUS
  <2>5. QED BY <2>3, <2>4, SameLoops
<1>4. QED BY <1>1, <1>3

(* The values of the prefixes of a numeral.                                 *)
PrefixValues(v, digits, base) ==
    /\ v \in [0..Len(digits) -> Nat]
    /\ v[0] = 0
    /\ \A k \in 1..Len(digits) : v[k] = v[k - 1] * base + digits[k]

(* The same, for any such values.                                           *)
LEMMA ValuePrefixes ==
    ASSUME NEW digits \in Seq(Nat), NEW base \in Nat, NEW v, PrefixValues(v, digits, base)
    PROVE  Value(digits, base) = v[Len(digits)]
<1>1. v = [k \in 0..Len(digits) |->
              IF k = 0 THEN 0 ELSE v[k - 1] * base + digits[k]]
  BY DEF PrefixValues
<1>2. QED BY <1>1, ValueIs

(* The recursion that defines Value has a solution.                         *)
LEMMA PrefixesExist ==
    ASSUME NEW digits \in Seq(Nat), NEW base \in Nat
    PROVE  \E v : PrefixValues(v, digits, base) /\ Value(digits, base) = v[Len(digits)]
<1> DEFINE N == Len(digits)
           step == [k \in 1..N |-> [x \in Nat |-> x * base + digits[k]]]
<1>1. step \in [1..N -> [Nat -> Nat]]
  <2>1. ASSUME NEW k \in 1..N, NEW x \in Nat PROVE x * base + digits[k] \in Nat
    OBVIOUS
  <2>2. QED BY <2>1
<1>2. PICK v : Loop(v, N, Nat, 0, step)
  <2> HIDE DEF step
  <2>1. N \in Nat /\ 0 \in Nat
    OBVIOUS
  <2>2. QED BY <1>1, <2>1, Loops
<1>3. ASSUME NEW k \in 1..N PROVE v[k] = v[k - 1] * base + digits[k]
  <2>1. v[k - 1] \in Nat /\ v[k] = step[k][v[k - 1]]
    <3> HIDE DEF step
    <3>1. N \in Nat
      OBVIOUS
    <3>2. QED BY <1>2, <3>1, LoopRound
  <2>2. QED BY <2>1
<1>4. PrefixValues(v, digits, base)
  BY <1>2, <1>3 DEF PrefixValues, Loop
<1>5. QED BY <1>4, ValuePrefixes

(* A value is a natural number.                                             *)
LEMMA ValueType ==
    ASSUME NEW digits \in Seq(Nat), NEW base \in Nat
    PROVE  Value(digits, base) \in Nat
<1>1. PICK v : PrefixValues(v, digits, base) /\ Value(digits, base) = v[Len(digits)]
  BY PrefixesExist
<1>2. QED BY <1>1 DEF PrefixValues

-----------------------------------------------------------------------------
(* Numerals in parts.                                                       *)

(* A power is at least one.                                                 *)
LEMMA PowerType ==
    ASSUME NEW base \in Nat \ {0}, NEW n \in Nat
    PROVE  Power(base, n) \in Nat /\ Power(base, n) >= 1
BY PowerGrows

(* The recursion of Power, unfolded.                                        *)
LEMMA PowerNext ==
    ASSUME NEW base \in Nat, NEW n \in Nat
    PROVE  /\ Power(base, 0) = 1 /\ Power(base, n) \in Nat
           /\ Power(base, n + 1) = base * Power(base, n)
BY PowerFacts

(* Exponents add up.                                                        *)
LEMMA PowerSum ==
    ASSUME NEW base \in Nat, NEW m \in Nat, NEW n \in Nat
    PROVE  Power(base, m + n) = Power(base, m) * Power(base, n)
<1> DEFINE P(k) == Power(base, k)
           Known == {k \in Nat : P(m + k) = P(m) * P(k)}
<1>1. \A k \in Nat : P(k) \in Nat /\ P(k + 1) = base * P(k)
  BY PowerNext
<1>2. P(0) = 1
  BY PowerNext
<1> HIDE DEF P
<1>3. 0 \in Known
  <2>1. m + 0 = m /\ P(m) * 1 = P(m)
    BY <1>1
  <2>2. QED BY <1>2, <2>1
<1>4. ASSUME NEW k \in Nat, k \in Known PROVE k + 1 \in Known
  <2>1. P(m + k) \in Nat /\ P(m) \in Nat /\ P(k) \in Nat
    BY <1>1
  <2>2. P((m + k) + 1) = base * P(m + k) /\ P(k + 1) = base * P(k)
    BY <1>1
  <2>3. \A x, y, z \in Nat : x = y * z => base * x = y * (base * z)
    OBVIOUS
  <2>4. base * P(m + k) = P(m) * (base * P(k))
    BY <1>4, <2>1, <2>3
  <2>5. m + (k + 1) = (m + k) + 1
    OBVIOUS
  <2>6. QED BY <2>2, <2>4, <2>5
<1>5. n \in Known
  <2> HIDE DEF Known
  <2>1. QED BY <1>3, <1>4, Naturals0
<1>6. QED BY <1>5 DEF P

(* The first power.                                                         *)
LEMMA PowerOne ==
    ASSUME NEW base \in Nat
    PROVE  Power(base, 1) = base
<1>1. Power(base, 0 + 1) = base * Power(base, 0) /\ Power(base, 0) = 1
  BY PowerNext
<1>2. QED BY <1>1

(* Exponents multiply.                                                      *)
LEMMA PowerPower ==
    ASSUME NEW base \in Nat, NEW m \in Nat, NEW n \in Nat
    PROVE  Power(Power(base, m), n) = Power(base, m * n)
<1> DEFINE Q(k) == Power(Power(base, m), k)
           P(k) == Power(base, k)
           Known == {k \in Nat : Q(k) = P(m * k)}
<1>1. P(m) \in Nat
  BY PowerNext
<1>2. Q(0) = 1 /\ P(0) = 1 /\ \A k \in Nat : Q(k + 1) = P(m) * Q(k)
  BY <1>1, PowerNext
<1>3. \A j, k \in Nat : P(j + k) = P(j) * P(k)
  BY PowerSum
<1> HIDE DEF P, Q
<1>4. 0 \in Known
  <2>1. m * 0 = 0
    OBVIOUS
  <2>2. QED BY <1>2, <2>1
<1>5. ASSUME NEW k \in Nat, k \in Known PROVE k + 1 \in Known
  <2>1. m * (k + 1) = m + m * k /\ m * k \in Nat
    OBVIOUS
  <2>2. P(m + m * k) = P(m) * P(m * k)
    BY <1>3, <2>1
  <2>3. QED BY <1>2, <1>5, <2>1, <2>2
<1>6. n \in Known
  <2> HIDE DEF Known
  <2>1. QED BY <1>4, <1>5, Naturals0
<1>7. QED BY <1>6 DEF P, Q

(* x is y with z after it.                                                  *)
Joined(x, y, z) ==
    /\ x \in Seq(Nat) /\ y \in Seq(Nat) /\ z \in Seq(Nat)
    /\ Len(x) = Len(y) + Len(z)
    /\ \A i \in 1..Len(y) : x[i] = y[i]
    /\ \A i \in 1..Len(z) : x[Len(y) + i] = z[i]

(* Two sequences of values, the second from where the first is.             *)
Continues(v, w, u, base, n, m) ==
    /\ \A k \in 0..(n + m) : v[k] \in Nat
    /\ w[0] = 0 /\ \A k \in 0..m : w[k] \in Nat
    /\ \A k \in 1..m : u[k] \in Nat /\ w[k] = w[k - 1] * base + u[k]
                                    /\ v[n + k] = v[n + k - 1] * base + u[k]

(* The value after m more digits: the value before, shifted, and theirs.    *)
LEMMA ContinuedValue ==
    ASSUME NEW base \in Nat, NEW n \in Nat, NEW m \in Nat, NEW v, NEW w, NEW u,
           Continues(v, w, u, base, n, m)
    PROVE  v[n + m] = v[n] * Power(base, m) + w[m]
<1> DEFINE P(k) == Power(base, k)
           Known == {k \in Nat : k <= m => v[n + k] = v[n] * P(k) + w[k]}
<1>1. P(0) = 1 /\ \A k \in Nat : P(k) \in Nat /\ P(k + 1) = base * P(k)
  BY PowerNext
<1> HIDE DEF P
<1>2. 0 \in Known
  <2>1. n + 0 = n /\ n \in 0..(n + m)
    OBVIOUS
  <2>2. v[n] \in Nat /\ w[0] = 0
    BY <2>1, Zenon DEF Continues
  <2>3. v[n] * 1 + 0 = v[n]
    BY <2>2
  <2>4. QED BY <1>1, <2>1, <2>2, <2>3
<1>3. ASSUME NEW k \in Nat, k \in Known PROVE k + 1 \in Known
  <2> SUFFICES ASSUME k + 1 <= m PROVE v[n + (k + 1)] = v[n] * P(k + 1) + w[k + 1]
    OBVIOUS
  <2>1. /\ k + 1 \in 1..m /\ k \in 0..m /\ n \in 0..(n + m) /\ (k + 1) - 1 = k
        /\ n + (k + 1) - 1 = n + k /\ k <= m
    OBVIOUS
  <2>2. /\ u[k + 1] \in Nat /\ w[k + 1] = w[k] * base + u[k + 1]
        /\ v[n + (k + 1)] = v[n + k] * base + u[k + 1]
        /\ w[k] \in Nat /\ v[n] \in Nat
    <3>1. /\ u[k + 1] \in Nat /\ w[k + 1] = w[(k + 1) - 1] * base + u[k + 1]
          /\ v[n + (k + 1)] = v[n + (k + 1) - 1] * base + u[k + 1]
      BY <2>1, Zenon DEF Continues
    <3>2. w[k] \in Nat /\ v[n] \in Nat
      BY <2>1, Zenon DEF Continues
    <3>3. QED BY <2>1, <3>1, <3>2, Zenon
  <2>3. v[n + k] = v[n] * P(k) + w[k]
    BY <1>3, <2>1
  <2>4. PICK a, p, c, e \in Nat : a = v[n] /\ p = P(k) /\ c = w[k] /\ e = u[k + 1]
    BY <1>1, <2>2
  <2>5. (v[n] * P(k) + w[k]) * base + u[k + 1] = v[n] * (base * P(k)) + (w[k] * base + u[k + 1])
    <3>1. (a * p + c) * base + e = a * (base * p) + (c * base + e)
      OBVIOUS
    <3>2. QED BY <2>4, <3>1, Zenon
  <2>6. P(k + 1) = base * P(k)
    BY <1>1
  <2>7. QED BY <2>2, <2>3, <2>5, <2>6, Zenon
<1>4. m \in Known
  <2> HIDE DEF Known
  <2>1. QED BY <1>2, <1>3, Naturals0
<1>5. QED BY <1>4 DEF P

(* The value of two numerals put together.                                  *)
LEMMA JoinedValue ==
    ASSUME NEW base \in Nat, NEW x, NEW y, NEW z, Joined(x, y, z)
    PROVE  Value(x, base) = Value(y, base) * Power(base, Len(z)) + Value(z, base)
<1> DEFINE n == Len(y)
           m == Len(z)
           N == Len(x)
<1>1. x \in Seq(Nat) /\ y \in Seq(Nat) /\ z \in Seq(Nat) /\ N = n + m
  BY DEF Joined
<1>2. n \in Nat /\ m \in Nat /\ N \in Nat
  BY <1>1
<1>3. PICK v : PrefixValues(v, x, base) /\ Value(x, base) = v[N]
  BY <1>1, PrefixesExist
<1>4. PICK w : PrefixValues(w, z, base) /\ Value(z, base) = w[m]
  BY <1>1, PrefixesExist
<1>5. \A k \in 1..n : x[k] = y[k]
  BY Zenon DEF Joined
<1>6. \A k \in 1..m : x[n + k] = z[k] /\ z[k] \in Nat
  <2>1. \A k \in 1..m : z[k] \in Nat
    BY <1>1
  <2>2. QED BY <2>1, Zenon DEF Joined
<1>7. /\ v \in [0..N -> Nat] /\ v[0] = 0
      /\ \A k \in 1..N : v[k] = v[k - 1] * base + x[k]
  BY <1>3, Zenon DEF PrefixValues
<1>8. /\ w \in [0..m -> Nat] /\ w[0] = 0
      /\ \A k \in 1..m : w[k] = w[k - 1] * base + z[k]
  BY <1>4, Zenon DEF PrefixValues
<1>9. Value(y, base) = v[n]
  <2> DEFINE r == [k \in 0..n |-> v[k]]
  <2>1. PrefixValues(r, y, base)
    <3>1. \A k \in 0..n : k \in 0..N /\ (k # 0 => k \in 1..N /\ k \in 1..n /\ k - 1 \in 0..n)
      BY <1>1, <1>2
    <3>2. r \in [0..n -> Nat] /\ r[0] = 0
      <4>1. \A k \in 0..n : v[k] \in Nat
        BY <1>7, <3>1
      <4>2. 0 \in 0..n
        BY <1>2
      <4>3. QED BY <1>7, <4>1, <4>2
    <3>3. ASSUME NEW k \in 1..n PROVE r[k] = r[k - 1] * base + y[k]
      <4>1. k \in 0..n /\ k \in 1..N /\ k - 1 \in 0..n
        BY <1>1, <1>2
      <4>2. r[k] = v[k] /\ r[k - 1] = v[k - 1]
        BY <4>1
      <4>3. v[k] = v[k - 1] * base + x[k] /\ x[k] = y[k]
        BY <1>5, <1>7, <4>1
      <4>4. QED BY <4>2, <4>3, Zenon
    <3> HIDE DEF r
    <3>4. QED BY <3>2, <3>3, Zenon DEF PrefixValues
  <2>2. n \in 0..n
    BY <1>2
  <2>3. r[n] = v[n]
    BY <2>2
  <2> HIDE DEF r
  <2>4. Value(y, base) = r[n]
    BY <1>1, <2>1, ValuePrefixes
  <2>5. QED BY <2>3, <2>4, Zenon
<1> HIDE DEF n, m, N
<1>10. Continues(v, w, z, base, n, m)
  <2>1. \A k \in 0..(n + m) : v[k] \in Nat
    BY <1>1, <1>7
  <2>2. \A k \in 0..m : w[k] \in Nat
    BY <1>8
  <2>3. ASSUME NEW k \in 1..m PROVE v[n + k] = v[n + k - 1] * base + z[k]
    <3>1. n + k \in 1..N
      BY <1>1, <1>2
    <3>2. v[n + k] = v[(n + k) - 1] * base + x[n + k] /\ x[n + k] = z[k]
      BY <1>6, <1>7, <3>1, Zenon
    <3>3. (n + k) - 1 = n + k - 1
      BY <1>2
    <3>4. QED BY <3>2, <3>3, Zenon
  <2>4. QED BY <1>6, <1>8, <2>1, <2>2, <2>3, Zenon DEF Continues
<1>11. v[n + m] = v[n] * Power(base, m) + w[m]
  BY <1>2, <1>10, ContinuedValue
<1>12. QED BY <1>1, <1>3, <1>4, <1>9, <1>11, Zenon DEF n, m, N

(* Concatenation joins.                                                     *)
LEMMA JoinConcat ==
    ASSUME NEW y \in Seq(Nat), NEW z \in Seq(Nat)
    PROVE  Joined(y \o z, y, z)
BY DEF Joined

(* A sequence is its two parts, joined.                                     *)
LEMMA JoinSplit ==
    ASSUME NEW x \in Seq(Nat), NEW n \in 0..Len(x)
    PROVE  Joined(x, SubSeq(x, 1, n), SubSeq(x, n + 1, Len(x)))
<1> DEFINE y == SubSeq(x, 1, n)
           z == SubSeq(x, n + 1, Len(x))
           N == Len(x)
<1>1. N \in Nat /\ n \in Nat /\ n <= N
  OBVIOUS
<1>2. y \in Seq(Nat) /\ z \in Seq(Nat) /\ Len(y) = n /\ Len(z) = N - n
  OBVIOUS
<1>3. \A i \in 1..n : x[i] = y[i]
  OBVIOUS
<1>4. \A i \in 1..(N - n) : x[n + i] = z[i]
  OBVIOUS
<1> HIDE DEF y, z, N
<1>5. N = n + (N - n)
  BY <1>1
<1>6. QED BY <1>2, <1>3, <1>4, <1>5, Zenon DEF Joined, y, z, N

(* The values of no digit and of one.                                       *)
LEMMA ValueEnds ==
    ASSUME NEW x \in Seq(Nat), NEW base \in Nat
    PROVE  /\ Len(x) = 0 => Value(x, base) = 0
           /\ Len(x) = 1 => Value(x, base) = x[1]
<1> DEFINE N == Len(x)
<1>1. PICK v : PrefixValues(v, x, base) /\ Value(x, base) = v[N]
  BY PrefixesExist
<1>2. v[0] = 0 /\ \A k \in 1..N : v[k] = v[k - 1] * base + x[k]
  BY <1>1, Zenon DEF PrefixValues
<1>3. ASSUME N = 1 PROVE v[1] = x[1]
  <2>1. 1 \in 1..N /\ 1 - 1 = 0 /\ x[1] \in Nat
    <3>1. \A k \in 1..N : x[k] \in Nat
      OBVIOUS
    <3> HIDE DEF N
    <3>2. 1 \in 1..N /\ 1 - 1 = 0
      BY <1>3
    <3>3. QED BY <3>1, <3>2
  <2>2. v[1] = v[0] * base + x[1]
    BY <1>2, <2>1
  <2>3. PICK d \in Nat : d = x[1]
    BY <2>1
  <2>4. 0 * base + d = d
    OBVIOUS
  <2>5. QED BY <1>2, <2>2, <2>3, <2>4, Zenon
<1> HIDE DEF N
<1>4. QED BY <1>1, <1>2, <1>3, Zenon DEF N

(* A numeral: its digits are below the base.                                *)
Numeral(x, base) == x \in Seq(Nat) /\ \A i \in 1..Len(x) : x[i] < base

(* A numeral of n digits is below the n-th power of its base.               *)
LEMMA ValueBelow ==
    ASSUME NEW base \in Nat \ {0}, NEW x, Numeral(x, base)
    PROVE  Value(x, base) < Power(base, Len(x))
<1> DEFINE N == Len(x)
           P(k) == Power(base, k)
<1>1. PICK v : PrefixValues(v, x, base) /\ Value(x, base) = v[N]
  BY PrefixesExist DEF Numeral
<1>2. /\ \A k \in 0..N : v[k] \in Nat
      /\ v[0] = 0 /\ \A k \in 1..N : v[k] = v[k - 1] * base + x[k]
  BY <1>1 DEF PrefixValues
<1>3. P(0) = 1 /\ \A k \in Nat : P(k) \in Nat /\ P(k + 1) = base * P(k)
  BY PowerNext
<1>4. N \in Nat /\ \A k \in 1..N : x[k] \in Nat /\ x[k] < base
  BY DEF Numeral
<1> DEFINE Known == {k \in Nat : k <= N => v[k] < P(k)}
<1> HIDE DEF P, N
<1>5. 0 \in Known
  <2>1. 0 < 1 /\ 0 \in Nat
    OBVIOUS
  <2>2. QED BY <1>2, <1>3, <2>1, Zenon
<1>6. ASSUME NEW k \in Nat, k \in Known PROVE k + 1 \in Known
  <2> SUFFICES ASSUME k + 1 <= N PROVE v[k + 1] < P(k + 1)
    OBVIOUS
  <2>1. k + 1 \in 1..N /\ (k + 1) - 1 = k /\ k \in 0..N
    BY <1>4
  <2>2. v[k + 1] = v[(k + 1) - 1] * base + x[k + 1]
    BY <1>2, <2>1
  <2>3. v[k] \in Nat /\ P(k) \in Nat /\ x[k + 1] \in Nat /\ x[k + 1] < base /\ v[k] < P(k)
    <3>1. v[k] \in Nat /\ P(k) \in Nat /\ x[k + 1] \in Nat /\ x[k + 1] < base
      BY <1>2, <1>3, <1>4, <2>1, Zenon
    <3>2. v[k] < P(k)
      BY <1>4, <1>6
    <3>3. QED BY <3>1, <3>2
  <2>4. PICK a, p, e \in Nat : a = v[k] /\ p = P(k) /\ e = x[k + 1]
    BY <2>3
  <2>5. a * base + e < base * p
    <3>1. a + 1 <= p /\ e < base
      BY <2>3, <2>4
    <3>2. (a + 1) * base <= p * base
      BY <3>1
    <3>3. (a + 1) * base = a * base + base /\ p * base = base * p
      OBVIOUS
    <3>4. a * base \in Nat /\ base * p \in Nat
      OBVIOUS
    <3>5. QED BY <3>1, <3>2, <3>3, <3>4
  <2>6. v[k + 1] = a * base + e /\ P(k + 1) = base * p
    BY <1>3, <2>1, <2>2, <2>4
  <2>7. QED BY <2>5, <2>6
<1>7. N \in Known
  <2> HIDE DEF Known
  <2>1. QED BY <1>4, <1>5, <1>6, Naturals0
<1>8. QED BY <1>1, <1>4, <1>7 DEF P, N

(* Zeros have the value zero.                                               *)
LEMMA ValueZero ==
    ASSUME NEW x \in Seq(Nat), NEW base \in Nat, \A i \in 1..Len(x) : x[i] = 0
    PROVE  Value(x, base) = 0
<1> DEFINE N == Len(x)
           zeros == [k \in 0..N |-> 0]
<1>1. N \in Nat /\ \A k \in 1..N : x[k] = 0
  OBVIOUS
<1>2. zeros \in [0..N -> Nat] /\ zeros[0] = 0
  BY <1>1
<1>3. ASSUME NEW k \in 1..N PROVE zeros[k] = zeros[k - 1] * base + x[k]
  <2>1. k \in 0..N /\ k - 1 \in 0..N /\ x[k] = 0 /\ 0 * base + 0 = 0
    BY <1>1
  <2>2. zeros[k] = 0 /\ zeros[k - 1] = 0
    BY <2>1
  <2> HIDE DEF zeros
  <2>3. QED BY <2>1, <2>2, Zenon
<1>4. zeros[N] = 0
  BY <1>1
<1> HIDE DEF zeros
<1>5. PrefixValues(zeros, x, base)
  BY <1>2, <1>3, Zenon DEF PrefixValues
<1>6. QED BY <1>4, <1>5, ValuePrefixes

(* A first digit that is not zero makes the number long.                    *)
LEMMA ValueAtLeast ==
    ASSUME NEW x \in Seq(Nat), NEW base \in Nat \ {0}, Len(x) >= 1, x[1] # 0
    PROVE  Value(x, base) >= Power(base, Len(x) - 1)
<1> DEFINE N == Len(x)
           y == SubSeq(x, 1, 1)
           z == SubSeq(x, 1 + 1, N)
<1>1. Joined(x, y, z)
  BY JoinSplit
<1>2. /\ y \in Seq(Nat) /\ z \in Seq(Nat) /\ Len(y) = 1 /\ y[1] = x[1]
      /\ x[1] \in Nat /\ Len(z) = N - 1 /\ N - 1 \in Nat
  <2>1. N \in Nat /\ N >= 1
    OBVIOUS
  <2>2. y \in Seq(Nat) /\ Len(y) = 1 /\ y[1] = x[1] /\ x[1] \in Nat
    BY <2>1
  <2>3. z \in Seq(Nat) /\ N = Len(y) + Len(z) /\ Len(z) \in Nat
    BY <1>1 DEF Joined
  <2> HIDE DEF y, z, N
  <2>4. N - 1 \in Nat /\ Len(z) = N - 1
    BY <2>1, <2>2, <2>3
  <2>5. QED BY <2>2, <2>3, <2>4
<1> HIDE DEF y, z, N
<1>3. Value(x, base) = Value(y, base) * Power(base, Len(z)) + Value(z, base)
  BY <1>1, JoinedValue
<1>4. Value(y, base) = x[1] /\ Value(z, base) \in Nat
  BY <1>2, ValueEnds, ValueType
<1>5. Power(base, N - 1) \in Nat
  BY <1>2, PowerType
<1>6. PICK d \in Nat \ {0}, p, t \in Nat :
          d = x[1] /\ p = Power(base, N - 1) /\ t = Value(z, base)
  BY <1>2, <1>4, <1>5
<1>7. d * p + t >= p
  <2>1. d * p >= 1 * p
    OBVIOUS
  <2>2. d * p \in Nat /\ 1 * p = p
    OBVIOUS
  <2>3. QED BY <2>1, <2>2
<1>8. Value(x, base) = d * p + t
  BY <1>2, <1>3, <1>4, <1>6
<1>9. QED BY <1>6, <1>7, <1>8 DEF N

(* Digits below the base, none of them in front of a zero: as long as its   *)
(* value is large.                                                          *)
LEMMA ValuePositive ==
    ASSUME NEW x \in Seq(Nat), NEW base \in Nat \ {0}, Len(x) >= 1, x[1] # 0
    PROVE  Value(x, base) \in Nat \ {0}
<1>1. Len(x) - 1 \in Nat
  OBVIOUS
<1>2. Power(base, Len(x) - 1) >= 1 /\ Power(base, Len(x) - 1) \in Nat
  BY <1>1, PowerType
<1>3. Value(x, base) >= Power(base, Len(x) - 1) /\ Value(x, base) \in Nat
  BY ValueAtLeast, ValueType
<1> DEFINE p == Power(base, Len(x) - 1)
           v == Value(x, base)
<1> HIDE DEF p, v
<1>4. p >= 1 /\ p \in Nat /\ v >= p /\ v \in Nat
  BY <1>2, <1>3 DEF p, v
<1>5. QED BY <1>4 DEF v

-----------------------------------------------------------------------------
(* Significant digits, and numbers written out.                             *)

(* Where the first digit is that is not zero.                               *)
FirstDigit(x) == SelectInSeq(x \o <<1>>, LAMBDA d : d # 0)

(* It is the first: before it are only zeros.                               *)
LEMMA FirstDigitIs ==
    ASSUME NEW x \in Seq(Nat)
    PROVE  /\ FirstDigit(x) \in 1..(Len(x) + 1)
           /\ \A i \in 1..(FirstDigit(x) - 1) : i \in 1..Len(x) /\ x[i] = 0
           /\ FirstDigit(x) <= Len(x) => x[FirstDigit(x)] # 0
<1> DEFINE y == x \o <<1>>
           N == Len(x)
           I == {i \in 1..Len(y) : y[i] # 0}
<1>1. N \in Nat /\ Len(y) = N + 1
  OBVIOUS
<1>2. y[N + 1] # 0 /\ \A i \in 1..N : y[i] = x[i]
  OBVIOUS
<1> HIDE DEF y, N
<1>3. N + 1 \in I
  BY <1>1, <1>2
<1>4. PICK f \in I : \A i \in I : f <= i
  <2>1. I \in SUBSET Nat
    BY <1>1
  <2> HIDE DEF I
  <2>2. QED BY <1>3, <2>1, LeastNumber
<1>5. FirstDigit(x) = IF I # {} THEN Min(I) ELSE 0
  BY Zenon DEF FirstDigit, SelectInSeq, y
<1>6. Min(I) = f
  <2>1. Min(I) = CHOOSE m \in I : \A i \in I : m <= i
    BY Zenon DEF Min
  <2>2. Min(I) \in I /\ \A i \in I : Min(I) <= i
    BY <1>4, <2>1, Zenon
  <2>3. f <= Min(I) /\ Min(I) <= f
    BY <1>4, <2>2
  <2>4. f \in Nat /\ Min(I) \in Nat
    BY <1>1, <2>2
  <2> HIDE DEF I
  <2>5. QED BY <2>3, <2>4
<1>7. FirstDigit(x) = f
  BY <1>3, <1>5, <1>6
<1>8. f \in 1..(N + 1) /\ y[f] # 0
  BY <1>1, <1>4
<1>9. ASSUME NEW i \in 1..(f - 1) PROVE i \in 1..N /\ x[i] = 0
  <2>1. i \in 1..N /\ i \in 1..(N + 1) /\ i < f
    BY <1>1, <1>8
  <2>2. i \notin I
    <3> SUFFICES ASSUME i \in I PROVE FALSE
      OBVIOUS
    <3>1. f <= i
      BY <1>4, Zenon
    <3>2. QED BY <1>8, <2>1, <3>1
  <2>3. QED BY <1>1, <1>2, <2>1, <2>2
<1>10. f <= N => x[f] # 0
  BY <1>1, <1>2, <1>8
<1>11. QED BY <1>7, <1>8, <1>9, <1>10 DEF N

(* Significant cuts the zeros in front, and nothing else.                   *)
LEMMA SignificantIs ==
    ASSUME NEW x \in Seq(Nat)
    PROVE  /\ Significant(x) \in Seq(Nat)
           /\ Joined(x, SubSeq(x, 1, FirstDigit(x) - 1), Significant(x))
           /\ \A i \in 1..Len(SubSeq(x, 1, FirstDigit(x) - 1)) : SubSeq(x, 1, FirstDigit(x) - 1)[i] = 0
           /\ Len(Significant(x)) >= 1 => Significant(x)[1] # 0
<1> DEFINE N == Len(x)
           f == FirstDigit(x)
           n == f - 1
           y == SubSeq(x, 1, n)
           z == SubSeq(x, n + 1, N)
<1>1. /\ f \in 1..(N + 1) /\ (f <= N => x[f] # 0)
      /\ \A i \in 1..(f - 1) : i \in 1..N /\ x[i] = 0
  BY FirstDigitIs
<1>2. N \in Nat
  OBVIOUS
<1>3. Significant(x) = SubSeq(x, f, N)
  BY Zenon DEF Significant, FirstDigit
<1> HIDE DEF f, N
<1>4. n \in 0..N /\ n + 1 = f
  BY <1>1, <1>2
<1>5. Significant(x) = z
  BY <1>3, <1>4
<1>6. Joined(x, y, z)
  BY <1>4, JoinSplit DEF N
<1>7. Len(y) = n
  BY <1>2, <1>4 DEF N
<1> HIDE DEF n, y, z
<1>8. /\ y \in Seq(Nat) /\ z \in Seq(Nat) /\ N = Len(y) + Len(z)
      /\ \A i \in 1..Len(y) : x[i] = y[i]
      /\ \A i \in 1..Len(z) : x[Len(y) + i] = z[i]
  BY <1>6, Zenon DEF Joined, N
<1>9. \A i \in 1..Len(y) : y[i] = 0
  BY <1>1, <1>7, <1>8 DEF n
<1>10. ASSUME Len(z) >= 1 PROVE z[1] # 0
  <2>1. Len(z) \in Nat
    BY <1>8
  <2>2. 1 \in 1..Len(z)
    BY <1>10, <2>1
  <2>3. z[1] = x[n + 1]
    BY <1>7, <1>8, <2>2, Zenon
  <2>4. f <= N
    BY <1>4, <1>7, <1>8, <1>10, <2>1
  <2>5. QED BY <1>1, <1>4, <2>3, <2>4
<1>11. QED BY <1>5, <1>6, <1>8, <1>9, <1>10, Zenon DEF y, n, f

(* The zeros in front do not count.                                         *)
LEMMA SignificantValue ==
    ASSUME NEW x \in Seq(Nat), NEW base \in Nat
    PROVE  Value(Significant(x), base) = Value(x, base)
<1> DEFINE y == SubSeq(x, 1, FirstDigit(x) - 1)
           z == Significant(x)
<1>1. Joined(x, y, z) /\ \A i \in 1..Len(y) : y[i] = 0
  BY SignificantIs
<1> HIDE DEF y, z
<1>2. y \in Seq(Nat) /\ z \in Seq(Nat)
  BY <1>1 DEF Joined
<1>3. Value(y, base) = 0
  BY <1>1, <1>2, ValueZero
<1>4. Value(x, base) = Value(y, base) * Power(base, Len(z)) + Value(z, base)
  BY <1>1, JoinedValue
<1>5. Len(z) \in Nat
  BY <1>2
<1>6. Power(base, Len(z)) \in Nat /\ Value(z, base) \in Nat
  BY <1>2, <1>5, ValueType, PowerNext
<1>7. PICK p, v \in Nat : p = Power(base, Len(z)) /\ v = Value(z, base)
  BY <1>6
<1>8. 0 * p + v = v
  OBVIOUS
<1>9. QED BY <1>3, <1>4, <1>7, <1>8, Zenon DEF z

(* What is left of a numeral is one, and no longer.                         *)
LEMMA SignificantNumeral ==
    ASSUME NEW base \in Nat, NEW x, Numeral(x, base)
    PROVE  Numeral(Significant(x), base) /\ Len(Significant(x)) <= Len(x)
<1> DEFINE y == SubSeq(x, 1, FirstDigit(x) - 1)
           z == Significant(x)
<1>1. x \in Seq(Nat)
  BY DEF Numeral
<1>2. Joined(x, y, z)
  BY <1>1, SignificantIs
<1> HIDE DEF y, z
<1>3. /\ y \in Seq(Nat) /\ z \in Seq(Nat) /\ Len(x) = Len(y) + Len(z)
      /\ \A i \in 1..Len(z) : x[Len(y) + i] = z[i]
  BY <1>2, Zenon DEF Joined
<1> DEFINE n == Len(y)
           m == Len(z)
           N == Len(x)
<1>4. n \in Nat /\ m \in Nat /\ N = n + m
  BY <1>3
<1>5. \A i \in 1..N : x[i] < base
  BY DEF Numeral
<1>6. \A i \in 1..m : x[n + i] = z[i]
  BY <1>3
<1> HIDE DEF n, m, N
<1>7. ASSUME NEW i \in 1..m PROVE z[i] < base
  <2>1. n + i \in 1..N
    BY <1>4
  <2>2. QED BY <1>5, <1>6, <2>1
<1>8. m <= N
  BY <1>4
<1>9. QED BY <1>3, <1>7, <1>8 DEF Numeral, z, m, N

(* A prefix is a shorter prefix and what follows it.                        *)
LEMMA JoinMiddle ==
    ASSUME NEW x \in Seq(Nat), NEW i \in 0..Len(x), NEW j \in 0..Len(x), i <= j
    PROVE  /\ Joined(SubSeq(x, 1, j), SubSeq(x, 1, i), SubSeq(x, i + 1, j))
           /\ Len(SubSeq(x, i + 1, j)) = j - i
<1> DEFINE w == SubSeq(x, 1, j)
           y == SubSeq(x, 1, i)
           z == SubSeq(x, i + 1, j)
           N == Len(x)
<1>1. N \in Nat /\ i \in Nat /\ j \in Nat /\ i <= j /\ j <= N
  OBVIOUS
<1>2. w \in Seq(Nat) /\ Len(w) = j /\ \A k \in 1..j : w[k] = x[k]
  BY <1>1
<1>3. y \in Seq(Nat) /\ Len(y) = i /\ \A k \in 1..i : y[k] = x[k]
  BY <1>1
<1>4. Joined(w, SubSeq(w, 1, i), SubSeq(w, i + 1, Len(w)))
  <2> HIDE DEF w
  <2>1. i \in 0..Len(w)
    BY <1>1, <1>2
  <2>2. QED BY <1>2, <2>1, JoinSplit
<1>5. z \in Seq(Nat) /\ Len(z) = j - i
  <2>1. z \in Seq(Nat)
    BY <1>1
  <2>2. Len(z) = j - i
    BY <1>1
  <2>3. QED BY <2>1, <2>2
<1>6. \A k \in 1..(j - i) : z[k] = x[i + k]
  BY <1>1
<1> HIDE DEF w, y, z, N
<1>7. \A k \in 1..i : w[k] = y[k]
  <2>1. \A k \in 1..i : k \in 1..j
    BY <1>1
  <2>2. QED BY <1>2, <1>3, <2>1, Zenon
<1>8. \A k \in 1..(j - i) : w[i + k] = z[k]
  <2>1. \A k \in 1..(j - i) : i + k \in 1..j
    BY <1>1
  <2>2. QED BY <1>2, <1>6, <2>1, Zenon
<1>9. j = i + (j - i)
  BY <1>1
<1>10. Joined(w, y, z)
  BY <1>2, <1>3, <1>5, <1>7, <1>8, <1>9, Zenon DEF Joined
<1>11. QED BY <1>5, <1>10 DEF w, y, z

(* x is cut at e, into parts of this size but the first, whose values are g.*)
Cut(x, g, e, size, base) ==
    /\ x \in Seq(Nat) /\ g \in Seq(Nat) /\ size \in Nat
    /\ e \in [0..Len(g) -> 0..Len(x)]
    /\ e[0] = 0 /\ e[Len(g)] = Len(x)
    /\ \A k \in 1..Len(g) :
          /\ e[k - 1] <= e[k]
          /\ k # 1 => e[k] - e[k - 1] = size
          /\ g[k] = Value(SubSeq(x, e[k - 1] + 1, e[k]), base)

(* The values of the parts are the digits of the number in a larger base.   *)
LEMMA CutValue ==
    ASSUME NEW base \in Nat, NEW x, NEW g, NEW e, NEW size, Cut(x, g, e, size, base)
    PROVE  Value(x, base) = Value(g, Power(base, size))
<1> DEFINE n == Len(g)
           N == Len(x)
           B == Power(base, size)
           V(k) == Value(SubSeq(x, 1, k), base)
           v == [k \in 0..n |-> V(e[k])]
<1>1. x \in Seq(Nat) /\ g \in Seq(Nat) /\ size \in Nat
  BY DEF Cut
<1>2. n \in Nat /\ N \in Nat
  BY <1>1
<1>3. /\ e[0] = 0 /\ e[n] = N /\ \A k \in 0..n : e[k] \in 0..N
  BY Zenon DEF Cut
<1>4. \A k \in 1..n : /\ e[k - 1] <= e[k]
                      /\ k # 1 => e[k] - e[k - 1] = size
                      /\ g[k] = Value(SubSeq(x, e[k - 1] + 1, e[k]), base)
  BY Zenon DEF Cut
<1>5. B \in Nat
  BY <1>1, PowerNext
<1>6. ASSUME NEW j \in 0..N PROVE V(j) \in Nat
  <2>1. SubSeq(x, 1, j) \in Seq(Nat)
    BY <1>1
  <2>2. QED BY <2>1, ValueType
<1>7. V(0) = 0 /\ V(N) = Value(x, base)
  <2>1. SubSeq(x, 1, 0) \in Seq(Nat) /\ Len(SubSeq(x, 1, 0)) = 0
    BY <1>1
  <2>2. SubSeq(x, 1, Len(x)) = x
    BY <1>1
  <2>3. V(0) = 0
    BY <2>1, ValueEnds
  <2>4. QED BY <2>2, <2>3
<1>8. ASSUME NEW i \in 0..N, NEW j \in 0..N, i <= j
      PROVE  V(j) = V(i) * Power(base, j - i) + Value(SubSeq(x, i + 1, j), base)
  <2>1. /\ Joined(SubSeq(x, 1, j), SubSeq(x, 1, i), SubSeq(x, i + 1, j))
        /\ Len(SubSeq(x, i + 1, j)) = j - i
    BY <1>1, <1>8, JoinMiddle
  <2> DEFINE w == SubSeq(x, 1, j)
             y == SubSeq(x, 1, i)
             z == SubSeq(x, i + 1, j)
  <2>2. Joined(w, y, z) /\ Len(z) = j - i
    BY <2>1
  <2> HIDE DEF w, y, z
  <2>3. Value(w, base) = Value(y, base) * Power(base, Len(z)) + Value(z, base)
    BY <2>2, JoinedValue
  <2>4. QED BY <2>2, <2>3, Zenon DEF w, y, z
<1> HIDE DEF V, n, N, B
<1>9. v \in [0..n -> Nat] /\ v[0] = 0 /\ v[n] = Value(x, base)
  <2>1. \A k \in 0..n : V(e[k]) \in Nat
    BY <1>3, <1>6
  <2>2. 0 \in 0..n /\ n \in 0..n
    BY <1>2
  <2>3. QED BY <1>3, <1>7, <2>1, <2>2
<1>10. ASSUME NEW k \in 1..n PROVE v[k] = v[k - 1] * B + g[k]
  <2>1. k \in 0..n /\ k - 1 \in 0..n
    BY <1>2
  <2>2. e[k] \in 0..N /\ e[k - 1] \in 0..N /\ e[k - 1] <= e[k]
    BY <1>3, <1>4, <2>1
  <2>3. V(e[k]) = V(e[k - 1]) * Power(base, e[k] - e[k - 1]) + g[k]
    <3>1. V(e[k]) = V(e[k - 1]) * Power(base, e[k] - e[k - 1])
                      + Value(SubSeq(x, e[k - 1] + 1, e[k]), base)
      BY <1>8, <2>2
    <3>2. g[k] = Value(SubSeq(x, e[k - 1] + 1, e[k]), base)
      BY <1>4, Zenon
    <3>3. QED BY <3>1, <3>2, Zenon
  <2>4. v[k] = V(e[k]) /\ v[k - 1] = V(e[k - 1])
    BY <2>1
  <2> HIDE DEF v
  <2>5. CASE k = 1
    <3>1. V(e[k - 1]) = 0
      BY <1>3, <1>7, <2>5
    <3>2. e[k] - e[k - 1] \in Nat
      BY <1>2, <2>2
    <3>3. Power(base, e[k] - e[k - 1]) \in Nat
      BY <3>2, PowerNext
    <3>4. \A p \in Nat : 0 * p = 0 * B
      BY <1>5
    <3>5. QED BY <2>3, <2>4, <3>1, <3>3, <3>4, Zenon
  <2>6. CASE k # 1
    <3>1. e[k] - e[k - 1] = size
      BY <1>4, <2>6
    <3>2. QED BY <2>3, <2>4, <3>1, Zenon DEF B
  <2>7. QED BY <2>5, <2>6
<1> HIDE DEF v
<1>11. PrefixValues(v, g, B)
  BY <1>9, <1>10, Zenon DEF PrefixValues, n
<1>12. Value(g, B) = v[n]
  BY <1>1, <1>5, <1>11, ValuePrefixes DEF n
<1>13. QED BY <1>9, <1>12 DEF B

(* Two divisions are one by the product.                                    *)
LEMMA DivideTwice ==
    ASSUME NEW a \in Nat, NEW p \in Nat \ {0}, NEW b \in Nat \ {0}
    PROVE  (a \div p) \div b = a \div (b * p)
<1>1. PICK q, r \in Nat : q = a \div p /\ r = a % p /\ r < p /\ a = q * p + r
  BY Quotient
<1>2. PICK s, t \in Nat : s = q \div b /\ t = q % b /\ t < b /\ q = s * b + t
  BY Quotient
<1>3. a = s * (b * p) + (t * p + r)
  <2>1. (s * b + t) * p + r = s * (b * p) + (t * p + r)
    OBVIOUS
  <2>2. QED BY <1>1, <1>2, <2>1
<1>4. t * p + r < b * p
  <2>1. (t + 1) * p <= b * p
    BY <1>2
  <2>2. (t + 1) * p = t * p + p
    OBVIOUS
  <2>3. t * p \in Nat /\ b * p \in Nat
    OBVIOUS
  <2>4. QED BY <1>1, <2>1, <2>2, <2>3
<1>5. b * p \in Nat \ {0} /\ t * p + r \in Nat
  <2>1. \A x, y \in Nat \ {0} : x * y \in Nat \ {0}
    OBVIOUS
  <2>2. QED BY <2>1
<1>6. a \div (b * p) = s
  BY <1>3, <1>4, <1>5, QuotientIs
<1>7. QED BY <1>1, <1>2, <1>6

(* A number below a power of the base, written with as many digits.         *)
WrittenIn(value, width, base) ==
    [i \in 1..width |-> (value \div Power(base, width - i)) % base]

(* It has that value, and digits of that base.                              *)
LEMMA WrittenInIs ==
    ASSUME NEW value \in Nat, NEW width \in Nat, NEW base \in Nat \ {0}
    PROVE  /\ Numeral(WrittenIn(value, width, base), base) /\ Len(WrittenIn(value, width, base)) = width
           /\ value < Power(base, width) => Value(WrittenIn(value, width, base), base) = value
<1> DEFINE x == WrittenIn(value, width, base)
           P(k) == Power(base, k)
           D(k) == value \div P(width - k)
<1>1. base \in Nat \ {0}
  OBVIOUS
<1>2. P(0) = 1 /\ \A k \in Nat : P(k) \in Nat \ {0} /\ P(k + 1) = base * P(k)
  BY <1>1, PowerNext, PowerGrows
<1> HIDE DEF P
<1>3. ASSUME NEW k \in 0..width PROVE D(k) \in Nat
  <2>1. width - k \in Nat
    OBVIOUS
  <2>2. P(width - k) \in Nat \ {0}
    BY <1>2, <2>1
  <2>3. QED BY <2>2, Quotient
<1>4. x = [k \in 1..width |-> D(k) % base]
  BY Zenon DEF WrittenIn, P
<1>5. ASSUME NEW k \in 1..width
      PROVE  D(k) % base \in Nat /\ D(k) % base < base
  <2>1. D(k) \in Nat
    BY <1>3
  <2> HIDE DEF D
  <2>2. QED BY <1>1, <2>1, Quotient
<1> DEFINE E(k) == D(k) % base
<1>6. \A k \in 1..width : E(k) \in Nat /\ E(k) < base
  BY <1>5
<1> HIDE DEF D, E, x
<1>7. x = [k \in 1..width |-> E(k)]
  BY <1>4, Zenon DEF E
<1>8. x \in Seq(Nat) /\ Len(x) = width /\ \A k \in 1..width : x[k] = E(k)
  BY <1>6, <1>7
<1>9. Numeral(x, base)
  <2>1. \A k \in 1..Len(x) : x[k] < base
    BY <1>6, <1>8
  <2>2. QED BY <1>8, <2>1 DEF Numeral
<1>10. ASSUME value < P(width) PROVE Value(x, base) = value
  <2> DEFINE v == [k \in 0..width |-> D(k)]
  <2>1. v \in [0..width -> Nat]
    BY <1>3
  <2>2. D(0) = 0 /\ D(width) = value
    <3>1. width - 0 = width /\ width - width = 0
      OBVIOUS
    <3>2. value \div P(width) = 0
      <4>1. P(width) \in Nat \ {0}
        BY <1>2
      <4>2. value = 0 * P(width) + value
        BY <4>1
      <4>3. QED BY <1>10, <4>1, <4>2, QuotientIs
    <3>3. value \div 1 = value
      OBVIOUS
    <3>4. QED BY <1>2, <3>1, <3>2, <3>3 DEF D
  <2>3. ASSUME NEW k \in 1..width PROVE D(k) = D(k - 1) * base + E(k)
    <3>1. width - k \in Nat /\ width - (k - 1) = (width - k) + 1 /\ k \in 0..width
      OBVIOUS
    <3>2. P(width - k) \in Nat \ {0} /\ P(width - (k - 1)) = base * P(width - k)
      BY <1>2, <3>1
    <3>3. D(k) \div base = D(k - 1)
      BY <1>1, <3>2, DivideTwice DEF D
    <3>4. D(k) \in Nat
      BY <1>3, <3>1
    <3>5. D(k) = (D(k) \div base) * base + (D(k) % base)
      BY <1>1, <3>4, Quotient
    <3>6. QED BY <3>3, <3>5 DEF E
  <2>4. /\ 0 \in 0..width /\ width \in 0..width
        /\ \A k \in 1..width : k \in 0..width /\ k - 1 \in 0..width
    OBVIOUS
  <2>5. /\ v[0] = 0 /\ v[width] = value
        /\ \A k \in 1..width : v[k] = v[k - 1] * base + x[k]
    <3>1. v[0] = D(0) /\ v[width] = D(width)
      BY <2>4
    <3>2. \A k \in 1..width : v[k] = D(k) /\ v[k - 1] = D(k - 1)
      BY <2>4
    <3> HIDE DEF v
    <3>3. QED BY <1>8, <2>2, <2>3, <3>1, <3>2, Zenon
  <2> HIDE DEF v
  <2>6. PrefixValues(v, x, base)
    BY <1>8, <2>1, <2>5, Zenon DEF PrefixValues
  <2>7. QED BY <1>1, <1>8, <2>5, <2>6, ValuePrefixes
<1>11. QED BY <1>8, <1>9, <1>10 DEF x, P

(* The same, for a limb written in hexadecimal.                             *)
LEMMA WrittenIs ==
    ASSUME NEW value \in Nat, NEW width \in Nat
    PROVE  /\ Numeral(Written(value, width), Base) /\ Len(Written(value, width)) = width
           /\ value < Power(Base, width) => Value(Written(value, width), Base) = value
<1>1. Base \in Nat \ {0}
  BY HexAssumption
<1>2. Written(value, width) = WrittenIn(value, width, Base)
  BY Zenon DEF Written, WrittenIn
<1>3. QED BY <1>1, <1>2, WrittenInIs

(* Powers grow with the exponent.                                           *)
LEMMA PowerLarger ==
    ASSUME NEW base \in Nat \ {0}, NEW m \in Nat, NEW n \in Nat, m <= n
    PROVE  Power(base, m) <= Power(base, n)
<1>1. n - m \in Nat /\ n = m + (n - m)
  OBVIOUS
<1>2. Power(base, n) = Power(base, m) * Power(base, n - m)
  BY <1>1, PowerSum
<1>3. PICK p, q \in Nat \ {0} : p = Power(base, m) /\ q = Power(base, n - m)
  BY <1>1, PowerGrows
<1>4. p <= p * q
  <2>1. p * 1 <= p * q
    OBVIOUS
  <2>2. p * 1 = p
    OBVIOUS
  <2>3. QED BY <2>1, <2>2
<1>5. QED BY <1>2, <1>3, <1>4

(* Bases and limbs are positive.                                            *)
LEMMA LimbType == Base \in Nat \ {0} /\ Limb \in Nat \ {0} /\ LimbDigits \in Nat \ {0}
BY HexAssumption, PowerGrows DEF Limb

(* A part of a numeral is a numeral.                                        *)
LEMMA PartNumeral ==
    ASSUME NEW base \in Nat, NEW x, Numeral(x, base), NEW i \in Nat, NEW j \in 0..Len(x)
    PROVE  Numeral(SubSeq(x, i + 1, j), base)
<1> DEFINE N == Len(x)
           z == SubSeq(x, i + 1, j)
<1>1. x \in Seq(Nat) /\ \A k \in 1..N : x[k] < base
  BY DEF Numeral
<1>2. N \in Nat /\ j \in 0..N
  BY <1>1
<1>3. z \in Seq(Nat)
  BY <1>1, <1>2
<1>4. \A k \in 1..Len(z) : z[k] = x[i + k] /\ i + k \in 1..N
  BY <1>1, <1>2
<1> HIDE DEF z, N
<1>5. \A k \in 1..Len(z) : z[k] < base
  BY <1>1, <1>4
<1>6. QED BY <1>3, <1>5 DEF Numeral, z

(* Limbs written one after the other are the number they are the limbs of.  *)
LEMMA WrittenAllIs ==
    ASSUME NEW width \in Nat \ {0}, NEW values, Numeral(values, Power(Base, width))
    PROVE  /\ Numeral(WrittenAll(values, width), Base)
           /\ Len(WrittenAll(values, width)) = Len(values) * width
           /\ Value(WrittenAll(values, width), Base) = Value(values, Power(Base, width))
<1> DEFINE x == WrittenAll(values, width)
           n == Len(values)
           C(k) == Written(values[k], width)
           at(i) == (i - 1) \div width + 1
           off(i) == ((i - 1) % width) + 1
<1>1. values \in Seq(Nat) /\ \A k \in 1..n : values[k] < Power(Base, width)
  BY DEF Numeral
<1>2. n \in Nat /\ \A k \in 1..n : values[k] \in Nat
  BY <1>1
<1>3. Base \in Nat \ {0} /\ Power(Base, width) \in Nat
  BY LimbType, PowerNext
<1>4. ASSUME NEW k \in 1..n
      PROVE  Numeral(C(k), Base) /\ Len(C(k)) = width /\ Value(C(k), Base) = values[k]
  BY <1>1, <1>2, WrittenIs
<1>5. x = [i \in 1..(n * width) |-> C(at(i))[off(i)]]
  BY Zenon DEF WrittenAll
<1>6. n * width \in Nat
  BY <1>2
<1>7. ASSUME NEW i \in 1..(n * width)
      PROVE  at(i) \in 1..n /\ off(i) \in 1..width
  <2>1. PICK q, r \in Nat : q = (i - 1) \div width /\ r = (i - 1) % width
                            /\ r < width /\ i - 1 = q * width + r
    <3>1. i - 1 \in Nat
      BY <1>6
    <3>2. QED BY <3>1, Quotient
  <2>2. q < n
    <3> SUFFICES ASSUME n <= q PROVE FALSE
      BY <1>2
    <3>1. n * width <= q * width
      BY <1>2
    <3>2. q * width \in Nat
      OBVIOUS
    <3>3. QED BY <1>6, <2>1, <3>1, <3>2
  <2>3. QED BY <1>2, <2>1, <2>2
<1>8. ASSUME NEW k \in 1..n, NEW j \in 1..width
      PROVE  /\ (k - 1) * width + j \in 1..(n * width)
             /\ at((k - 1) * width + j) = k /\ off((k - 1) * width + j) = j
  <2> DEFINE i == (k - 1) * width + j
  <2>1. (k - 1) * width \in Nat /\ k - 1 \in Nat /\ j - 1 \in Nat /\ j - 1 < width
    <3>1. k - 1 \in Nat
      BY <1>2
    <3>2. QED BY <3>1
  <2>2. i - 1 = (k - 1) * width + (j - 1) /\ i - 1 \in Nat
    BY <2>1
  <2>3. (i - 1) \div width = k - 1 /\ (i - 1) % width = j - 1
    <3> HIDE DEF i
    <3>1. QED BY <2>1, <2>2, QuotientIs
  <2>4. i <= n * width
    <3>1. ((k - 1) + 1) * width <= n * width
      BY <1>2
    <3>2. ((k - 1) + 1) * width = (k - 1) * width + width
      BY <1>2
    <3>3. QED BY <1>6, <2>1, <3>1, <3>2
  <2>5. i >= 1 /\ i \in Nat
    BY <2>1
  <2> HIDE DEF i
  <2>6. QED BY <1>2, <1>6, <2>3, <2>4, <2>5 DEF i
<1> HIDE DEF C, at, off, x
<1>9. ASSUME NEW i \in 1..(n * width) PROVE x[i] \in Nat /\ x[i] < Base
  <2>1. at(i) \in 1..n /\ off(i) \in 1..width
    BY <1>7
  <2>2. Numeral(C(at(i)), Base) /\ Len(C(at(i))) = width
    BY <1>4, <2>1
  <2>3. \A c : Numeral(c, Base) /\ Len(c) = width => \A o \in 1..width : c[o] \in Nat /\ c[o] < Base
    BY DEF Numeral
  <2>4. x[i] = C(at(i))[off(i)]
    BY <1>5
  <2>5. QED BY <2>1, <2>2, <2>3, <2>4, Zenon
<1>10. x \in Seq(Nat) /\ Len(x) = n * width
  <2> DEFINE d(i) == C(at(i))[off(i)]
  <2>1. \A i \in 1..(n * width) : d(i) \in Nat
    BY <1>5, <1>9
  <2> HIDE DEF d
  <2>2. x = [i \in 1..(n * width) |-> d(i)]
    BY <1>5, Zenon DEF d
  <2>3. QED BY <1>6, <2>1, <2>2
<1>11. Numeral(x, Base)
  <2>1. \A i \in 1..Len(x) : x[i] < Base
    BY <1>9, <1>10
  <2>2. QED BY <1>10, <2>1 DEF Numeral
<1> DEFINE e == [k \in 0..n |-> k * width]
<1>12. /\ e \in [0..n -> 0..Len(x)] /\ e[0] = 0 /\ e[n] = Len(x)
       /\ \A k \in 1..n : e[k] = k * width /\ e[k - 1] = (k - 1) * width
  <2>1. ASSUME NEW k \in 0..n PROVE k * width \in 0..(n * width)
    <3>1. k * width <= n * width /\ k * width \in Nat
      BY <1>2
    <3>2. QED BY <1>6, <3>1
  <2>2. 0 \in 0..n /\ n \in 0..n /\ \A k \in 1..n : k \in 0..n /\ k - 1 \in 0..n
    BY <1>2
  <2>3. e[0] = 0 * width /\ e[n] = n * width /\ 0 * width = 0
    BY <2>2
  <2>4. QED BY <1>10, <2>1, <2>2, <2>3
<1>13. ASSUME NEW k \in 1..n
       PROVE  SubSeq(x, (k - 1) * width + 1, k * width) = C(k)
  <2>1. /\ (k - 1) * width \in Nat /\ k * width = (k - 1) * width + width
        /\ k * width <= n * width /\ k * width \in Nat
    <3>1. (k - 1) * width \in Nat /\ k * width \in Nat
      BY <1>2
    <3>2. ((k - 1) + 1) * width = (k - 1) * width + width /\ (k - 1) + 1 = k
      BY <1>2
    <3>3. k * width <= n * width
      BY <1>2
    <3>4. QED BY <3>1, <3>2, <3>3
  <2> DEFINE a == (k - 1) * width
             b == k * width
             z == SubSeq(x, a + 1, b)
  <2>2. a \in Nat /\ b = a + width /\ b <= Len(x) /\ b \in Nat
    BY <1>10, <2>1
  <2> HIDE DEF a, b
  <2>3. z \in Seq(Nat) /\ Len(z) = width
    BY <1>10, <2>2
  <2>4. \A j \in 1..width : z[j] = x[a + j]
    BY <1>10, <2>2
  <2>5. C(k) \in Seq(Nat) /\ Len(C(k)) = width
    BY <1>4 DEF Numeral
  <2>6. ASSUME NEW j \in 1..width PROVE x[a + j] = C(k)[j]
    BY <1>5, <1>8 DEF a
  <2> HIDE DEF z
  <2>7. z = C(k)
    <3>1. z = [j \in 1..width |-> z[j]] /\ C(k) = [j \in 1..width |-> C(k)[j]]
      BY <2>3, <2>5
    <3>2. \A j \in 1..width : z[j] = C(k)[j]
      BY <2>4, <2>6
    <3>3. QED BY <3>1, <3>2, Zenon
  <2>8. QED BY <2>7 DEF z, a, b
<1> HIDE DEF e, n
<1>14. Cut(x, values, e, width, Base)
  <2>1. ASSUME NEW k \in 1..n
        PROVE  /\ e[k - 1] <= e[k] /\ e[k] - e[k - 1] = width
               /\ values[k] = Value(SubSeq(x, e[k - 1] + 1, e[k]), Base)
    <3>1. e[k] = k * width /\ e[k - 1] = (k - 1) * width
      BY <1>12
    <3>2. (k - 1) * width \in Nat /\ k * width = (k - 1) * width + width
      <4>1. (k - 1) * width \in Nat
        BY <1>2
      <4>2. ((k - 1) + 1) * width = (k - 1) * width + width /\ (k - 1) + 1 = k
        BY <1>2
      <4>3. QED BY <4>1, <4>2
    <3>3. values[k] = Value(SubSeq(x, e[k - 1] + 1, e[k]), Base)
      BY <1>4, <1>13, <3>1, Zenon
    <3>4. QED BY <3>1, <3>2, <3>3
  <2>2. QED BY <1>1, <1>10, <1>12, <2>1 DEF Cut, n
<1>15. Value(x, Base) = Value(values, Power(Base, width))
  BY <1>3, <1>14, CutValue
<1>16. QED BY <1>10, <1>11, <1>15 DEF x, n

-----------------------------------------------------------------------------
(* Limbs.                                                                   *)

(* The digits of the first limb, and the limbs.                             *)
HeadDigits(N) == IF N % LimbDigits = 0 THEN LimbDigits ELSE N % LimbDigits

(* A first limb of the digits left over and full ones after it take them    *)
(* all.                                                                     *)
LEMMA LimbsFit ==
    ASSUME NEW N \in Nat \ {0}
    PROVE  LET n == (N + LimbDigits - 1) \div LimbDigits IN
           /\ n \in Nat \ {0} /\ HeadDigits(N) \in 1..LimbDigits /\ HeadDigits(N) <= N
           /\ HeadDigits(N) + (n - 1) * LimbDigits = N
<1> DEFINE L == LimbDigits
<1>1. L \in Nat \ {0}
  BY LimbType
<1>2. PICK q, r \in Nat : q = N \div L /\ r = N % L /\ r < L /\ N = q * L + r
  BY <1>1, Quotient
<1> HIDE DEF L
<1>3. CASE r = 0
  <2>1. (N + L - 1) \div L = q
    <3>1. N + L - 1 = q * L + (L - 1) /\ L - 1 \in Nat /\ L - 1 < L /\ N + L - 1 \in Nat
      BY <1>1, <1>2, <1>3
    <3>2. QED BY <1>1, <3>1, QuotientIs
  <2>2. q # 0
    BY <1>1, <1>2, <1>3
  <2>3. L + (q - 1) * L = q * L
    BY <1>1
  <2>4. HeadDigits(N) = L
    BY <1>2, <1>3 DEF HeadDigits, L
  <2>5. q * L = N /\ L <= N
    <3>1. q * L = N
      BY <1>1, <1>2, <1>3
    <3>2. 1 * L <= q * L
      BY <1>1, <2>2
    <3>3. QED BY <1>1, <3>1, <3>2
  <2>6. QED BY <1>1, <2>1, <2>2, <2>3, <2>4, <2>5 DEF L
<1>4. CASE r # 0
  <2>1. (N + L - 1) \div L = q + 1
    <3>1. (q + 1) * L = q * L + L
      BY <1>1
    <3>2. q * L \in Nat /\ (q + 1) * L \in Nat
      BY <1>1
    <3>3. N + L - 1 = (q + 1) * L + (r - 1) /\ r - 1 \in Nat /\ r - 1 < L /\ N + L - 1 \in Nat
      BY <1>1, <1>2, <1>4, <3>1, <3>2
    <3>4. QED BY <1>1, <3>3, QuotientIs
  <2>2. HeadDigits(N) = r
    BY <1>2, <1>4 DEF HeadDigits, L
  <2>3. (q + 1) - 1 = q /\ r + q * L = N /\ r <= N
    <3>1. q * L \in Nat
      BY <1>1
    <3>2. QED BY <1>2, <3>1
  <2>4. QED BY <1>1, <1>2, <1>4, <2>1, <2>2, <2>3 DEF L
<1>5. QED BY <1>3, <1>4

(* Packing keeps the number: its limbs are digits in a larger base.         *)
LEMMA PackIs ==
    ASSUME NEW x, Numeral(x, Base), Len(x) # 0
    PROVE  /\ Numeral(Pack(x), Limb) /\ Len(Pack(x)) # 0
           /\ Value(Pack(x), Limb) = Value(x, Base)
<1> DEFINE N == Len(x)
           L == LimbDigits
           n == (N + L - 1) \div L
           h == HeadDigits(N)
           e == [k \in 0..n |-> IF k = 0 THEN 0 ELSE h + (k - 1) * L]
           G(k) == Value(SubSeq(x, e[k - 1] + 1, e[k]), Base)
           g == Pack(x)
<1>1. x \in Seq(Nat)
  BY DEF Numeral
<1>2. N \in Nat \ {0} /\ Base \in Nat \ {0} /\ L \in Nat \ {0}
  BY <1>1, LimbType
<1>3. n \in Nat \ {0} /\ h \in 1..L /\ h <= N /\ h + (n - 1) * L = N
  BY <1>2, LimbsFit
<1>4. ASSUME NEW k \in 1..n
      PROVE  /\ e[k - 1] = (IF k = 1 THEN 0 ELSE h + (k - 2) * L)
             /\ e[k] = h + (k - 1) * L
  <2>1. k \in 0..n /\ k - 1 \in 0..n /\ k # 0 /\ (k - 1 = 0 <=> k = 1) /\ (k - 1) - 1 = k - 2
    BY <1>3
  <2> HIDE DEF n, h, L
  <2>2. QED BY <2>1
<1>5. e[0] = 0 /\ e[n] = N
  BY <1>3
<1>6. g = [k \in 1..n |-> Value(SubSeq(x, IF k = 1 THEN 1 ELSE h + (k - 2) * L + 1,
                                      h + (k - 1) * L), Base)]
  <2> DEFINE last(k) == h + (k - 1) * L
             F(k) == Value(SubSeq(x, IF k = 1 THEN 1 ELSE last(k - 1) + 1, last(k)), Base)
  <2>1. g = [k \in 1..n |-> F(k)]
    BY Zenon DEF Pack, LimbCount, HeadDigits
  <2>2. ASSUME NEW k \in 1..n PROVE last(k - 1) = h + (k - 2) * L
    <3>1. (k - 1) - 1 = k - 2
      BY <1>3
    <3>2. QED BY <3>1, Zenon
  <2>3. \A k \in 1..n : F(k) = Value(SubSeq(x, IF k = 1 THEN 1 ELSE h + (k - 2) * L + 1,
                                            h + (k - 1) * L), Base)
    BY <2>2, Zenon
  <2>4. QED BY <2>1, <2>3, Zenon
<1> HIDE DEF e, n, h, L, N, g
<1>7. g = [k \in 1..n |-> G(k)]
  <2>1. ASSUME NEW k \in 1..n
        PROVE  (IF k = 1 THEN 1 ELSE h + (k - 2) * L + 1) = e[k - 1] + 1
    BY <1>4
  <2>2. \A k \in 1..n : Value(SubSeq(x, IF k = 1 THEN 1 ELSE h + (k - 2) * L + 1,
                                     h + (k - 1) * L), Base) = G(k)
    BY <1>4, <2>1, Zenon
  <2>3. QED BY <1>6, <2>2, Zenon
<1>8. ASSUME NEW k \in 1..n
      PROVE  /\ e[k - 1] \in 0..N /\ e[k] \in 0..N /\ e[k - 1] <= e[k]
             /\ e[k] - e[k - 1] <= L
             /\ k # 1 => e[k] - e[k - 1] = L
  <2>1. e[k] \in 0..N
    <3>1. (k - 1) * L <= (n - 1) * L /\ (k - 1) * L \in Nat /\ (n - 1) * L \in Nat
      <4>1. k - 1 \in Nat /\ n - 1 \in Nat /\ k - 1 <= n - 1
        BY <1>3
      <4>2. \A a, b \in Nat : a <= b => a * L <= b * L /\ a * L \in Nat /\ b * L \in Nat
        BY <1>2
      <4>3. QED BY <4>1, <4>2
    <3> DEFINE s == (k - 1) * L
               t == (n - 1) * L
    <3>2. e[k] = h + s /\ h + t = N /\ s <= t /\ s \in Nat /\ t \in Nat
      BY <1>3, <1>4, <3>1
    <3> HIDE DEF s, t
    <3>3. h + s \in 0..N
      BY <1>2, <1>3, <3>2
    <3>4. QED BY <3>2, <3>3, Zenon
  <2>2. CASE k = 1
    <3>1. (k - 1) * L = 0
      BY <1>2, <2>2
    <3>2. e[k - 1] = 0 /\ e[k] = h
      BY <1>2, <1>3, <1>4, <2>2, <3>1
    <3>3. QED BY <1>2, <1>3, <2>1, <2>2, <3>2
  <2>3. CASE k # 1
    <3>1. k - 2 \in Nat /\ (k - 1) = (k - 2) + 1
      BY <1>3, <2>3
    <3>2. ((k - 2) + 1) * L = (k - 2) * L + L /\ (k - 2) * L \in Nat
      BY <1>2, <3>1
    <3>3. e[k - 1] = h + (k - 2) * L /\ e[k] = h + ((k - 2) * L + L)
      BY <1>4, <2>3, <3>1, <3>2
    <3>4. QED BY <1>2, <1>3, <2>1, <2>3, <3>2, <3>3
  <2>4. QED BY <2>2, <2>3
<1>9. ASSUME NEW k \in 1..n PROVE G(k) \in Nat /\ G(k) < Limb
  <2> DEFINE i == e[k - 1]
             j == e[k]
             z == SubSeq(x, i + 1, j)
  <2>1. i \in 0..N /\ j \in 0..N /\ i <= j /\ j - i <= L
    BY <1>8
  <2> HIDE DEF i, j
  <2>2. i \in Nat /\ j - i \in Nat
    BY <2>1, <1>2
  <2>3. Numeral(z, Base)
    BY <1>2, <2>1, <2>2, PartNumeral DEF N
  <2>4. Len(z) = j - i
    BY <1>1, <2>1, JoinMiddle DEF N
  <2> HIDE DEF z
  <2>5. z \in Seq(Nat)
    BY <2>3 DEF Numeral
  <2>6. Value(z, Base) \in Nat /\ Value(z, Base) < Power(Base, j - i)
    BY <1>2, <2>3, <2>4, <2>5, ValueBelow, ValueType
  <2>7. Power(Base, j - i) <= Power(Base, L) /\ Power(Base, j - i) \in Nat /\ Power(Base, L) \in Nat
    BY <1>2, <2>1, <2>2, PowerLarger, PowerNext
  <2>8. Value(z, Base) < Power(Base, L)
    BY <2>6, <2>7
  <2>9. QED BY <2>6, <2>8 DEF Limb, L, z, i, j
<1> HIDE DEF G
<1>10. g \in Seq(Nat) /\ Len(g) = n /\ \A k \in 1..n : g[k] = G(k)
  BY <1>3, <1>7, <1>9
<1>11. Numeral(g, Limb)
  BY <1>9, <1>10 DEF Numeral
<1>12. Cut(x, g, e, L, Base)
  <2>1. e \in [0..n -> 0..N]
    <3>1. \A k \in 0..n : e[k] \in 0..N
      <4>1. \A k \in 0..n : k = 0 \/ k \in 1..n
        BY <1>3
      <4>2. 0 \in 0..N
        BY <1>2
      <4>3. QED BY <1>5, <1>8, <4>1, <4>2, Zenon
    <3>2. QED BY <3>1 DEF e
  <2>2. \A k \in 1..n : g[k] = Value(SubSeq(x, e[k - 1] + 1, e[k]), Base)
    BY <1>10, Zenon DEF G
  <2>3. L \in Nat
    BY <1>2
  <2>4. QED BY <1>1, <1>5, <1>8, <1>10, <2>1, <2>2, <2>3, Zenon DEF Cut, N
<1>13. Value(x, Base) = Value(g, Power(Base, L))
  BY <1>2, <1>12, CutValue
<1>14. QED BY <1>3, <1>10, <1>11, <1>13 DEF Limb, L, g

(* A limb holds at least a digit.                                           *)
LEMMA LimbLarge == Limb \in Nat /\ Limb >= 2 /\ Limb >= Base
<1>1. Power(Base, 1) <= Power(Base, LimbDigits) /\ Power(Base, 1) = Base
  <2>1. 1 \in Nat /\ 1 <= LimbDigits /\ LimbDigits \in Nat
    BY LimbType
  <2>2. QED BY <2>1, LimbType, PowerLarger, PowerOne
<1>2. Base \in Nat /\ Base >= 2
  BY HexAssumption
<1>3. QED BY <1>1, <1>2, LimbType DEF Limb

(* The first limbs, the most significant first, and their value.            *)
Little(s, k) == [i \in 1..k |-> s[k - i + 1]]
Weighed(s, k) == Value(Little(s, k), Limb)

(* They are k limbs.                                                        *)
LEMMA LittleType ==
    ASSUME NEW s \in Seq(Nat), NEW k \in 0..Len(s)
    PROVE  /\ Little(s, k) \in Seq(Nat) /\ Len(Little(s, k)) = k
           /\ \A i \in 1..k : Little(s, k)[i] = s[k - i + 1]
<1> DEFINE N == Len(s)
<1>1. N \in Nat /\ \A i \in 1..N : s[i] \in Nat
  OBVIOUS
<1>2. k \in Nat /\ k <= N
  BY <1>1
<1> HIDE DEF N
<1>3. \A i \in 1..k : s[k - i + 1] \in Nat
  <2>1. \A i \in 1..k : k - i + 1 \in 1..N
    BY <1>1, <1>2
  <2>2. QED BY <1>1, <2>1, Zenon
<1>4. QED BY <1>2, <1>3 DEF Little

(* One more limb counts for a higher power of the limb.                     *)
LEMMA WeighedStep ==
    ASSUME NEW s \in Seq(Nat)
    PROVE  /\ Weighed(s, 0) = 0
           /\ \A k \in 0..Len(s) : Weighed(s, k) \in Nat
           /\ \A k \in 1..Len(s) :
                 /\ s[k] \in Nat /\ Power(Limb, k - 1) \in Nat
                 /\ Weighed(s, k) = s[k] * Power(Limb, k - 1) + Weighed(s, k - 1)
<1> DEFINE N == Len(s)
<1>1. N \in Nat /\ \A i \in 1..N : s[i] \in Nat
  OBVIOUS
<1>2. Limb \in Nat
  BY LimbType
<1>3. ASSUME NEW k \in 0..N PROVE Weighed(s, k) \in Nat
  BY <1>2, LittleType, ValueType DEF Weighed
<1>4. Weighed(s, 0) = 0
  <2>1. 0 \in 0..N
    BY <1>1
  <2>2. Little(s, 0) \in Seq(Nat) /\ Len(Little(s, 0)) = 0
    BY <2>1, LittleType
  <2>3. QED BY <1>2, <2>2, ValueEnds DEF Weighed
<1>5. ASSUME NEW k \in 1..N
      PROVE  /\ s[k] \in Nat /\ Power(Limb, k - 1) \in Nat
             /\ Weighed(s, k) = s[k] * Power(Limb, k - 1) + Weighed(s, k - 1)
  <2> DEFINE x == Little(s, k)
             y == <<s[k]>>
             z == Little(s, k - 1)
  <2>1. k \in 0..N /\ k - 1 \in 0..N /\ k - 1 \in Nat /\ k \in Nat /\ k >= 1
    BY <1>1
  <2>2. x \in Seq(Nat) /\ Len(x) = k /\ \A i \in 1..k : x[i] = s[k - i + 1]
    BY <2>1, LittleType
  <2>3. z \in Seq(Nat) /\ Len(z) = k - 1 /\ \A i \in 1..(k - 1) : z[i] = s[(k - 1) - i + 1]
    BY <2>1, LittleType
  <2>4. s[k] \in Nat
    BY <1>1
  <2>5. y \in Seq(Nat) /\ Len(y) = 1 /\ y[1] = s[k]
    BY <2>4
  <2> HIDE DEF x, y, z, N
  <2>6. \A i \in 1..Len(y) : x[i] = y[i]
    <3>1. x[1] = s[k]
      <4>1. 1 \in 1..k /\ k - 1 + 1 = k
        BY <2>1
      <4>2. QED BY <2>2, <4>1, Zenon
    <3>2. 1..Len(y) = {1}
      BY <2>5
    <3>3. QED BY <2>5, <3>1, <3>2
  <2>7. \A i \in 1..Len(z) : x[Len(y) + i] = z[i]
    <3>1. ASSUME NEW i \in 1..(k - 1) PROVE x[1 + i] = z[i]
      <4>1. 1 + i \in 1..k /\ k - (1 + i) + 1 = (k - 1) - i + 1
        BY <2>1
      <4>2. x[1 + i] = s[k - (1 + i) + 1]
        BY <2>2, <4>1, Zenon
      <4>3. QED BY <2>3, <4>1, <4>2, Zenon
    <3>2. QED BY <2>3, <2>5, <3>1, Zenon
  <2>8. Len(x) = Len(y) + Len(z)
    BY <2>1, <2>2, <2>3, <2>5
  <2>9. Joined(x, y, z)
    BY <2>2, <2>3, <2>5, <2>6, <2>7, <2>8, Zenon DEF Joined
  <2>10. Value(x, Limb) = Value(y, Limb) * Power(Limb, Len(z)) + Value(z, Limb)
    BY <1>2, <2>9, JoinedValue
  <2>11. Value(y, Limb) = s[k]
    BY <1>2, <2>5, ValueEnds
  <2>12. Power(Limb, k - 1) \in Nat
    BY <1>2, <2>1, PowerNext
  <2>13. QED BY <2>3, <2>4, <2>10, <2>11, <2>12, Zenon DEF Weighed, x, z
<1>6. QED BY <1>3, <1>4, <1>5

(* Limbs that agree weigh the same.                                         *)
LEMMA WeighedAlike ==
    ASSUME NEW s, NEW u, NEW k \in Nat, \A i \in 1..k : s[i] = u[i]
    PROVE  Weighed(s, k) = Weighed(u, k)
<1>1. \A i \in 1..k : s[k - i + 1] = u[k - i + 1]
  <2>1. \A i \in 1..k : k - i + 1 \in 1..k
    OBVIOUS
  <2>2. QED BY <2>1, Zenon
<1>2. Little(s, k) = Little(u, k)
  BY <1>1, Zenon DEF Little
<1>3. QED BY <1>2, Zenon DEF Weighed

(* Zeros above a limb add nothing.                                          *)
LEMMA WeighedZeros ==
    ASSUME NEW s \in Seq(Nat), NEW m \in 0..Len(s),
           \A i \in (m + 1)..Len(s) : s[i] = 0
    PROVE  Weighed(s, Len(s)) = Weighed(s, m)
<1> DEFINE N == Len(s)
           W(k) == Weighed(s, k)
           Known == {j \in Nat : m + j <= N => W(m + j) = W(m)}
<1>1. N \in Nat /\ m \in 0..N /\ \A i \in (m + 1)..N : s[i] = 0
  OBVIOUS
<1>2. /\ \A k \in 0..N : W(k) \in Nat
      /\ \A k \in 1..N : Power(Limb, k - 1) \in Nat /\ W(k) = s[k] * Power(Limb, k - 1) + W(k - 1)
  BY WeighedStep
<1> HIDE DEF N, W
<1>3. 0 \in Known
  <2>1. m + 0 = m
    BY <1>1
  <2>2. QED BY <2>1
<1>4. ASSUME NEW j \in Nat, j \in Known PROVE j + 1 \in Known
  <2> SUFFICES ASSUME m + (j + 1) <= N PROVE W(m + (j + 1)) = W(m)
    OBVIOUS
  <2> DEFINE k == m + (j + 1)
  <2>1. k \in 1..N /\ k \in (m + 1)..N /\ k - 1 = m + j /\ k - 1 \in 0..N /\ m + j <= N
    BY <1>1
  <2>2. s[k] = 0 /\ W(k - 1) = W(m)
    BY <1>1, <1>4, <2>1
  <2>3. Power(Limb, k - 1) \in Nat /\ W(k) = s[k] * Power(Limb, k - 1) + W(k - 1)
        /\ W(k - 1) \in Nat
    BY <1>2, <2>1
  <2> HIDE DEF k
  <2>4. PICK p, w \in Nat : p = Power(Limb, k - 1) /\ w = W(k - 1)
    BY <2>3
  <2>5. 0 * p + w = w
    OBVIOUS
  <2>6. W(k) = W(k - 1)
    BY <2>2, <2>3, <2>4, <2>5, Zenon
  <2>7. QED BY <2>2, <2>6 DEF k
<1>5. N - m \in Known
  <2>1. N - m \in Nat
    BY <1>1
  <2> HIDE DEF Known
  <2>2. QED BY <1>3, <1>4, <2>1, Naturals0
<1>6. m + (N - m) = N /\ N <= N
  BY <1>1
<1>7. W(m + (N - m)) = W(m)
  BY <1>5, <1>6
<1>8. QED BY <1>6, <1>7 DEF W, N

(* The numeral of a sum: the limbs from the least significant.              *)
LEMMA FromHexIs ==
    ASSUME NEW x, Numeral(x, Base), Len(x) # 0
    PROVE  /\ Numeral(FromHex(x), Limb) /\ Len(FromHex(x)) # 0
           /\ Weighed(FromHex(x), Len(FromHex(x))) = Value(x, Base)
<1> DEFINE g == Pack(x)
           n == Len(g)
           s == FromHex(x)
<1>1. Numeral(g, Limb) /\ n # 0 /\ Value(g, Limb) = Value(x, Base)
  BY PackIs
<1>2. g \in Seq(Nat) /\ n \in Nat \ {0} /\ \A k \in 1..n : g[k] \in Nat /\ g[k] < Limb
  BY <1>1 DEF Numeral
<1>3. s = [i \in 1..n |-> g[(n - i) + 1]]
  <2>1. x # <<>>
    OBVIOUS
  <2>2. QED BY <2>1, Zenon DEF FromHex, Reverse
<1> HIDE DEF g, n, s
<1>4. \A i \in 1..n : (n - i) + 1 \in 1..n
  BY <1>2
<1>5. \A i \in 1..n : g[(n - i) + 1] \in Nat /\ g[(n - i) + 1] < Limb
  BY <1>2, <1>4, Zenon
<1>6. s \in Seq(Nat) /\ Len(s) = n /\ \A i \in 1..n : s[i] = g[(n - i) + 1]
  BY <1>2, <1>3, <1>5
<1>7. Numeral(s, Limb)
  BY <1>5, <1>6, Zenon DEF Numeral
<1>8. Little(s, n) = g
  <2>1. Little(s, n) = [i \in 1..n |-> s[n - i + 1]]
    BY Zenon DEF Little
  <2>2. ASSUME NEW i \in 1..n PROVE s[n - i + 1] = g[i]
    <3>1. n - i + 1 \in 1..n /\ (n - (n - i + 1)) + 1 = i
      BY <1>2
    <3>2. QED BY <1>6, <3>1, Zenon
  <2>3. g = [i \in 1..n |-> g[i]]
    BY <1>2 DEF n
  <2>4. QED BY <2>1, <2>2, <2>3, Zenon
<1>9. Weighed(s, n) = Value(x, Base)
  BY <1>1, <1>8, Zenon DEF Weighed
<1>10. QED BY <1>2, <1>6, <1>7, <1>9 DEF s

-----------------------------------------------------------------------------
(* Adding a position to a secret.                                           *)

(* The carries of an addition of limbs.                                     *)
Carries(c, a, b) ==
    /\ c \in [0..Len(a) -> {0, 1}]
    /\ c[0] = 0
    /\ \A k \in 1..Len(a) : c[k] = (a[k] + b[k] + c[k - 1]) \div Limb

Addends(a, b) == Numeral(a, Limb) /\ Numeral(b, Limb) /\ Len(a) = Len(b)

(* A carry is zero or one: two limbs and a carry never make two limbs.      *)
LEMMA CarryBit ==
    ASSUME NEW x \in Nat, NEW y \in Nat, NEW c \in {0, 1}, NEW l \in Nat \ {0}, x < l, y < l
    PROVE  /\ (x + y + c) \div l \in {0, 1} /\ (x + y + c) % l \in Nat /\ (x + y + c) % l < l
           /\ x + y + c = ((x + y + c) \div l) * l + ((x + y + c) % l)
<1> DEFINE t == x + y + c
           q == t \div l
           r == t % l
<1>1. t \in Nat /\ t < 2 * l
  OBVIOUS
<1> HIDE DEF t
<1>2. q \in Nat /\ r \in Nat /\ r < l /\ t = q * l + r
  BY <1>1, Quotient
<1> HIDE DEF q, r
<1>3. q < 2
  <2> SUFFICES ASSUME q >= 2 PROVE FALSE
    BY <1>2
  <2>1. q * l >= 2 * l
    BY <1>2
  <2>2. q * l \in Nat
    BY <1>2
  <2>3. QED BY <1>1, <1>2, <2>1, <2>2
<1>4. q \in {0, 1}
  BY <1>2, <1>3
<1>5. QED BY <1>2, <1>4 DEF t, q, r

(* There are such carries: the recursion of ConstantTimeAdd has a solution. *)
LEMMA CarriesExist ==
    ASSUME NEW a, NEW b, Addends(a, b)
    PROVE  \E c : /\ Carries(c, a, b)
                  /\ ConstantTimeAdd(a, b)
                       = [limbs |-> [k \in 1..Len(a) |-> (a[k] + b[k] + c[k - 1]) % Limb],
                          carry |-> c[Len(a)]]
<1> DEFINE N == Len(a)
           step == [k \in 1..N |-> [x \in {0, 1} |-> (a[k] + b[k] + x) \div Limb]]
           F(f) == [k \in 0..N |-> IF k = 0 THEN 0 ELSE (a[k] + b[k] + f[k - 1]) \div Limb]
           e == CHOOSE f : f = F(f)
           R(f) == [limbs |-> [k \in 1..N |-> (a[k] + b[k] + f[k - 1]) % Limb], carry |-> f[N]]
<1>1. N \in Nat /\ \A k \in 1..N : a[k] \in Nat /\ a[k] < Limb
  BY DEF Addends, Numeral
<1>2. \A k \in 1..N : b[k] \in Nat /\ b[k] < Limb
  <2>1. Len(b) = N /\ \A k \in 1..Len(b) : b[k] \in Nat /\ b[k] < Limb
    BY DEF Addends, Numeral
  <2>2. QED BY <2>1
<1>3. ConstantTimeAdd(a, b) = R(e)
  BY Zenon DEF ConstantTimeAdd
<1> HIDE DEF N
<1>4. step \in [1..N -> [{0, 1} -> {0, 1}]]
  <2>1. ASSUME NEW k \in 1..N, NEW x \in {0, 1} PROVE (a[k] + b[k] + x) \div Limb \in {0, 1}
    BY <1>1, <1>2, LimbType, CarryBit
  <2>2. QED BY <2>1
<1>5. PICK c : Loop(c, N, {0, 1}, 0, step)
  <2>1. 0 \in {0, 1}
    OBVIOUS
  <2> HIDE DEF step
  <2>2. QED BY <1>1, <1>4, <2>1, Loops
<1>6. ASSUME NEW k \in 1..N PROVE c[k] = (a[k] + b[k] + c[k - 1]) \div Limb
  <2>1. c[k - 1] \in {0, 1} /\ c[k] = step[k][c[k - 1]]
    <3> HIDE DEF step
    <3>1. QED BY <1>1, <1>5, LoopRound
  <2>2. QED BY <2>1
<1>7. c \in [0..N -> {0, 1}] /\ c[0] = 0
  BY <1>5 DEF Loop
<1>8. Carries(c, a, b)
  BY <1>6, <1>7, Zenon DEF Carries, N
<1>9. e = F(e)
  <2>1. c = F(c)
    <3> DEFINE G(k) == IF k = 0 THEN 0 ELSE (a[k] + b[k] + c[k - 1]) \div Limb
    <3>1. \A k \in 0..N : c[k] = G(k)
      <4>1. \A k \in 0..N : k = 0 \/ k \in 1..N
        BY <1>1
      <4>2. QED BY <1>6, <1>7, <4>1, Zenon
    <3>2. c = [k \in 0..N |-> c[k]]
      BY <1>7
    <3>3. QED BY <3>1, <3>2, Zenon
  <2> HIDE DEF F
  <2>2. QED BY <2>1, Zenon
<1> HIDE DEF e
<1>10. \A k \in 0..N : c[k] = e[k]
  <2>1. e[0] = c[0]
    <3>1. 0 \in 0..N
      BY <1>1
    <3>2. e[0] = 0
      BY <1>9, <3>1, Zenon
    <3>3. QED BY <1>7, <3>2
  <2>2. ASSUME NEW k \in 1..N, c[k - 1] = e[k - 1] PROVE c[k] = e[k]
    <3>1. k \in 0..N /\ k # 0
      BY <1>1
    <3>2. e[k] = (a[k] + b[k] + e[k - 1]) \div Limb
      BY <1>9, <3>1, Zenon
    <3>3. QED BY <1>6, <2>2, <3>2, Zenon
  <2>3. Alike(c, e, N)
    BY <2>1, <2>2, Zenon DEF Alike
  <2>4. QED BY <1>1, <2>3, SameLoops
<1>11. R(e) = R(c)
  <2>1. \A k \in 1..N : k - 1 \in 0..N /\ N \in 0..N
    BY <1>1
  <2>2. \A k \in 1..N : (a[k] + b[k] + e[k - 1]) % Limb = (a[k] + b[k] + c[k - 1]) % Limb
    BY <1>10, <2>1, Zenon
  <2>3. e[N] = c[N]
    <3>1. N \in 0..N
      BY <1>1
    <3>2. QED BY <1>10, <3>1, Zenon
  <2>4. QED BY <2>2, <2>3, Zenon
<1>12. QED BY <1>3, <1>8, <1>11, Zenon DEF N

(* Every sum and carry: a numeral one limb longer, of the sum of the values.*)
AddedLimbs(a, b) ==
    Append(ConstantTimeAdd(a, b).limbs, ConstantTimeAdd(a, b).carry)

(* The sum of two numbers of as many limbs, in one limb more.               *)
LEMMA AddedIs ==
    ASSUME NEW a, NEW b, Addends(a, b)
    PROVE  /\ Numeral(AddedLimbs(a, b), Limb) /\ Len(AddedLimbs(a, b)) = Len(a) + 1
           /\ Weighed(AddedLimbs(a, b), Len(a) + 1) = Weighed(a, Len(a)) + Weighed(b, Len(a))
<1> DEFINE N == Len(a)
           s == AddedLimbs(a, b)
           P(k) == Power(Limb, k)
<1>1. PICK c : /\ Carries(c, a, b)
               /\ ConstantTimeAdd(a, b)
                    = [limbs |-> [k \in 1..N |-> (a[k] + b[k] + c[k - 1]) % Limb],
                       carry |-> c[N]]
  BY CarriesExist
<1> DEFINE t == [k \in 1..N |-> (a[k] + b[k] + c[k - 1]) % Limb]
<1>2. s = Append(t, c[N])
  <2>1. ConstantTimeAdd(a, b).limbs = t /\ ConstantTimeAdd(a, b).carry = c[N]
    <3> HIDE DEF t
    <3>1. ConstantTimeAdd(a, b) = [limbs |-> t, carry |-> c[N]]
      BY <1>1 DEF t
    <3>2. QED BY <3>1
  <2> HIDE DEF t
  <2>2. QED BY <2>1, Zenon DEF AddedLimbs
<1>3. a \in Seq(Nat) /\ N \in Nat /\ \A k \in 1..N : a[k] \in Nat /\ a[k] < Limb
  BY DEF Addends, Numeral
<1>4. b \in Seq(Nat) /\ Len(b) = N /\ \A k \in 1..N : b[k] \in Nat /\ b[k] < Limb
  <2>1. b \in Seq(Nat) /\ Len(b) = N /\ \A k \in 1..Len(b) : b[k] \in Nat /\ b[k] < Limb
    BY DEF Addends, Numeral
  <2>2. QED BY <2>1
<1>5. /\ c \in [0..N -> {0, 1}] /\ c[0] = 0
      /\ \A k \in 1..N : c[k] = (a[k] + b[k] + c[k - 1]) \div Limb
  BY <1>1, Zenon DEF Carries
<1> HIDE DEF N
<1>6. ASSUME NEW k \in 1..N
      PROVE  /\ c[k - 1] \in {0, 1} /\ c[k] \in {0, 1}
             /\ t[k] \in Nat /\ t[k] < Limb
             /\ a[k] + b[k] + c[k - 1] = c[k] * Limb + t[k]
  <2>1. k - 1 \in 0..N /\ k \in 0..N
    BY <1>3
  <2>2. c[k - 1] \in {0, 1} /\ c[k] \in {0, 1}
    BY <1>5, <2>1
  <2>3. t[k] = (a[k] + b[k] + c[k - 1]) % Limb
    OBVIOUS
  <2>4. a[k] \in Nat /\ a[k] < Limb /\ b[k] \in Nat /\ b[k] < Limb
    BY <1>3, <1>4
  <2>5. c[k] = (a[k] + b[k] + c[k - 1]) \div Limb
    BY <1>5
  <2>6. PICK x, y \in Nat, d \in {0, 1}, l \in Nat \ {0} :
           x = a[k] /\ y = b[k] /\ d = c[k - 1] /\ l = Limb
    BY <2>2, <2>4, LimbType
  <2>7. x < l /\ y < l
    BY <2>4, <2>6
  <2>8. /\ (x + y + d) % l \in Nat /\ (x + y + d) % l < l
        /\ x + y + d = ((x + y + d) \div l) * l + ((x + y + d) % l)
    BY <2>7, CarryBit
  <2> HIDE DEF t
  <2>9. QED BY <2>2, <2>3, <2>5, <2>6, <2>8, Zenon
<1>7. t \in Seq(Nat) /\ Len(t) = N
  BY <1>3, <1>6
<1> HIDE DEF t
<1>8. c[N] \in {0, 1}
  <2>1. N \in 0..N
    BY <1>3
  <2>2. QED BY <1>5, <2>1
<1>9. s \in Seq(Nat) /\ Len(s) = N + 1 /\ s[N + 1] = c[N] /\ \A k \in 1..N : s[k] = t[k]
  BY <1>2, <1>7, <1>8
<1> HIDE DEF s
<1>10. Numeral(s, Limb)
  <2>1. ASSUME NEW k \in 1..(N + 1) PROVE s[k] < Limb
    <3>1. CASE k = N + 1
      <4>1. s[k] \in {0, 1} /\ Limb \in Nat /\ Limb >= 2
        BY <1>8, <1>9, <3>1, LimbLarge
      <4>2. QED BY <4>1
    <3>2. CASE k # N + 1
      <4>1. k \in 1..N
        BY <1>3, <3>2
      <4>2. QED BY <1>6, <1>9, <4>1
    <3>3. QED BY <3>1, <3>2
  <2>2. QED BY <1>9, <2>1 DEF Numeral
<1>11. P(0) = 1 /\ \A k \in Nat : P(k) \in Nat /\ P(k + 1) = Limb * P(k)
  BY LimbType, PowerNext
<1>12. /\ Weighed(s, 0) = 0
       /\ \A k \in 0..(N + 1) : Weighed(s, k) \in Nat
       /\ \A k \in 1..(N + 1) : Weighed(s, k) = s[k] * P(k - 1) + Weighed(s, k - 1)
  BY <1>9, WeighedStep
<1>13. /\ Weighed(a, 0) = 0
       /\ \A k \in 0..N : Weighed(a, k) \in Nat
       /\ \A k \in 1..N : Weighed(a, k) = a[k] * P(k - 1) + Weighed(a, k - 1)
  BY <1>3, WeighedStep DEF N
<1>14. /\ Weighed(b, 0) = 0
       /\ \A k \in 0..N : Weighed(b, k) \in Nat
       /\ \A k \in 1..N : Weighed(b, k) = b[k] * P(k - 1) + Weighed(b, k - 1)
  <2>1. /\ Weighed(b, 0) = 0
        /\ \A k \in 0..Len(b) : Weighed(b, k) \in Nat
        /\ \A k \in 1..Len(b) : Weighed(b, k) = b[k] * P(k - 1) + Weighed(b, k - 1)
    BY <1>4, WeighedStep
  <2>2. QED BY <1>4, <2>1, Zenon
<1> DEFINE A(k) == Weighed(a, k)
           B(k) == Weighed(b, k)
           S(k) == Weighed(s, k)
           Known == {k \in Nat : k <= N => S(k) + c[k] * P(k) = A(k) + B(k)}
<1>15. 0 \in Known
  <2>1. 0 + 0 * 1 = 0 + 0
    OBVIOUS
  <2>2. S(0) = 0 /\ A(0) = 0 /\ B(0) = 0
    BY <1>12, <1>13, <1>14
  <2>3. S(0) + c[0] * P(0) = A(0) + B(0)
    BY <1>5, <1>11, <2>1, <2>2, Zenon
  <2>4. QED BY <2>3
<1>16. ASSUME NEW j \in Nat, j \in Known PROVE j + 1 \in Known
  <2> SUFFICES ASSUME j + 1 <= N PROVE S(j + 1) + c[j + 1] * P(j + 1) = A(j + 1) + B(j + 1)
    OBVIOUS
  <2> DEFINE k == j + 1
  <2>1. k \in 1..N /\ k - 1 = j /\ k \in 1..(N + 1) /\ j \in 0..N /\ j \in 0..(N + 1)
        /\ k \in 0..N
    BY <1>3
  <2>2. S(j) + c[j] * P(j) = A(j) + B(j)
    BY <1>16, <1>3
  <2>3. /\ c[j] \in {0, 1} /\ c[k] \in {0, 1} /\ t[k] \in Nat
        /\ a[k] + b[k] + c[j] = c[k] * Limb + t[k]
    BY <1>6, <2>1
  <2>4. S(j) \in Nat /\ A(j) \in Nat /\ B(j) \in Nat /\ P(j) \in Nat
    BY <1>11, <1>12, <1>13, <1>14, <2>1
  <2>5. a[k] \in Nat /\ b[k] \in Nat
    BY <1>3, <1>4, <2>1
  <2>6. S(k) = t[k] * P(j) + S(j)
    BY <1>9, <1>12, <2>1
  <2>7. A(k) = a[k] * P(j) + A(j) /\ B(k) = b[k] * P(j) + B(j)
    BY <1>13, <1>14, <2>1
  <2>8. P(k) = Limb * P(j)
    BY <1>11
  <2> HIDE DEF k, S, A, B, P
  <2>9. PICK p, x, y, d, e, r, l, u, v, w \in Nat :
           /\ p = P(j) /\ x = a[k] /\ y = b[k] /\ d = c[j] /\ e = c[k] /\ r = t[k]
           /\ l = Limb /\ u = A(j) /\ v = B(j) /\ w = S(j)
    BY <2>3, <2>4, <2>5, LimbType
  <2>10. x + y + d = e * l + r /\ w + d * p = u + v
    BY <2>2, <2>3, <2>9
  <2>11. (r * p + w) + e * (l * p) = (x * p + u) + (y * p + v)
    <3>1. (r * p + w) + e * (l * p) = (e * l + r) * p + w
      OBVIOUS
    <3>2. (e * l + r) * p = (x + y + d) * p
      BY <2>10
    <3>3. (x + y + d) * p = x * p + y * p + d * p
      OBVIOUS
    <3>4. PICK xp, yp, dp \in Nat : xp = x * p /\ yp = y * p /\ dp = d * p
      OBVIOUS
    <3>5. (xp + yp + dp) + w = (xp + u) + (yp + v)
      BY <2>10, <3>4
    <3>6. (x + y + d) * p + w = (xp + yp + dp) + w
      BY <3>3, <3>4, Zenon
    <3>7. QED BY <3>1, <3>2, <3>4, <3>5, <3>6, Zenon
  <2>12. S(k) + c[k] * P(k) = A(k) + B(k)
    BY <2>6, <2>7, <2>8, <2>9, <2>11, Zenon
  <2>13. QED BY <2>12 DEF k
<1>17. S(N) + c[N] * P(N) = A(N) + B(N)
  <2>1. N \in Known
    <3> HIDE DEF Known
    <3>1. QED BY <1>3, <1>15, <1>16, Naturals0
  <2>2. N <= N
    BY <1>3
  <2>3. QED BY <2>1, <2>2
<1>18. S(N + 1) = A(N) + B(N)
  <2>1. N + 1 \in 1..(N + 1) /\ (N + 1) - 1 = N /\ N \in 0..(N + 1)
    BY <1>3
  <2>2. S(N + 1) = c[N] * P(N) + S(N)
    BY <1>9, <1>12, <2>1
  <2>3. S(N) \in Nat /\ P(N) \in Nat /\ c[N] \in Nat
    <3>1. S(N) \in Nat /\ P(N) \in Nat
      BY <1>3, <1>11, <1>12, <2>1, Zenon
    <3>2. c[N] \in Nat
      BY <1>8
    <3>3. QED BY <3>1, <3>2
  <2> HIDE DEF S, A, B, P
  <2>4. PICK q \in Nat : q = c[N] * P(N)
    BY <2>3
  <2>5. QED BY <1>17, <2>2, <2>3, <2>4
<1>19. QED BY <1>9, <1>10, <1>18 DEF N, s

(* Where the last limb is that is not zero.                                 *)
LastLimb(x) == SelectLastInSeq(x, LAMBDA l : l # 0)

(* It is the last: after it are only zeros.                                 *)
LEMMA LastLimbIs ==
    ASSUME NEW x \in Seq(Nat)
    PROVE  /\ LastLimb(x) \in 0..Len(x)
           /\ \A i \in (LastLimb(x) + 1)..Len(x) : x[i] = 0
           /\ LastLimb(x) # 0 => x[LastLimb(x)] # 0
<1> DEFINE N == Len(x)
           I == {i \in 1..N : x[i] # 0}
           T == {n \in Nat : \A i \in I : i <= n}
<1>1. N \in Nat
  OBVIOUS
<1>2. LastLimb(x) = IF I # {} THEN Max(I) ELSE 0
  BY Zenon DEF LastLimb, SelectLastInSeq
<1> HIDE DEF N
<1>3. CASE I = {}
  <2>1. \A i \in (0 + 1)..N : x[i] = 0
    BY <1>1, <1>3
  <2>2. 0 \in 0..N
    BY <1>1
  <2>3. LastLimb(x) = 0
    BY <1>2, <1>3
  <2> HIDE DEF I
  <2>4. QED BY <2>1, <2>2, <2>3, Zenon DEF N
<1>4. CASE I # {}
  <2>1. N \in T
    BY <1>1
  <2>2. PICK m \in T : \A n \in T : m <= n
    <3>1. T \in SUBSET Nat
      OBVIOUS
    <3> HIDE DEF T
    <3>2. QED BY <2>1, <3>1, LeastNumber
  <2>3. m \in Nat /\ \A i \in I : i <= m
    BY <2>2
  <2>4. m \in I
    <3> SUFFICES ASSUME m \notin I PROVE FALSE
      OBVIOUS
    <3>1. \A i \in I : i \in Nat /\ i >= 1 /\ i <= m /\ i # m
      BY <1>1, <2>3
    <3>2. m # 0
      BY <1>4, <3>1, <2>3
    <3>3. m - 1 \in Nat /\ \A i \in I : i <= m - 1
      BY <2>3, <3>1, <3>2
    <3>4. m - 1 \in T
      BY <3>3
    <3>5. m <= m - 1
      BY <2>2, <3>4, Zenon
    <3>6. QED BY <2>3, <3>5
  <2>5. Max(I) \in I /\ \A i \in I : Max(I) >= i
    <3>1. \A i \in I : m >= i
      BY <1>1, <2>3
    <3> HIDE DEF I
    <3>2. QED BY <2>4, <3>1, Zenon DEF Max
  <2>6. Max(I) = m
    <3>1. Max(I) >= m /\ Max(I) <= m
      BY <2>3, <2>4, <2>5
    <3>2. Max(I) \in Nat
      BY <1>1, <2>5
    <3>3. QED BY <2>3, <3>1, <3>2
  <2>7. LastLimb(x) = m
    BY <1>2, <1>4, <2>6
  <2>8. m \in 0..N /\ m # 0 /\ x[m] # 0
    BY <1>1, <2>4
  <2>9. ASSUME NEW i \in (m + 1)..N PROVE x[i] = 0
    <3>1. i \in 1..N /\ ~(i <= m)
      BY <1>1, <2>8
    <3>2. i \notin I
      BY <2>3, <3>1
    <3>3. QED BY <3>1, <3>2
  <2>10. QED BY <2>7, <2>8, <2>9 DEF N
<1>5. QED BY <1>3, <1>4

(* With zeros up to a size.                                                 *)
Fitted(limbs, size) == [k \in 1..size |-> IF k <= Len(limbs) THEN limbs[k] ELSE 0]

(* Zeros behind the limbs do not count.                                     *)
LEMMA FittedIs ==
    ASSUME NEW s, Numeral(s, Limb), NEW size \in Nat, size >= Len(s)
    PROVE  /\ Numeral(Fitted(s, size), Limb) /\ Len(Fitted(s, size)) = size
           /\ Weighed(Fitted(s, size), size) = Weighed(s, Len(s))
<1> DEFINE N == Len(s)
           u == Fitted(s, size)
<1>1. s \in Seq(Nat) /\ N \in Nat /\ \A k \in 1..N : s[k] \in Nat /\ s[k] < Limb
  BY DEF Numeral
<1>2. u = [k \in 1..size |-> IF k <= N THEN s[k] ELSE 0]
  BY Zenon DEF Fitted
<1> HIDE DEF N, u
<1>3. size >= N
  BY DEF N
<1>4. /\ \A k \in 1..N : u[k] = s[k]
      /\ \A k \in (N + 1)..size : u[k] = 0
  BY <1>1, <1>2, <1>3
<1>5. ASSUME NEW k \in 1..size PROVE u[k] \in Nat /\ u[k] < Limb
  <2>1. k \in 1..N \/ k \in (N + 1)..size
    BY <1>1
  <2>2. 0 < Limb
    BY LimbType
  <2>3. CASE k \in 1..N
    BY <1>1, <1>4, <2>3
  <2>4. CASE k \in (N + 1)..size
    BY <1>4, <2>2, <2>4
  <2>5. QED BY <2>1, <2>3, <2>4
<1>6. u \in Seq(Nat) /\ Len(u) = size
  <2>1. u = [k \in 1..size |-> u[k]]
    BY <1>2
  <2>2. \A k \in 1..size : u[k] \in Nat
    BY <1>5
  <2>3. QED BY <2>1, <2>2
<1>7. Numeral(u, Limb)
  BY <1>5, <1>6 DEF Numeral
<1>8. Weighed(u, size) = Weighed(u, N)
  <2>1. N \in 0..Len(u) /\ \A i \in (N + 1)..Len(u) : u[i] = 0
    BY <1>1, <1>3, <1>4, <1>6
  <2>2. Weighed(u, Len(u)) = Weighed(u, N)
    BY <1>6, <2>1, WeighedZeros
  <2>3. QED BY <1>6, <2>2
<1>9. Weighed(u, N) = Weighed(s, N)
  BY <1>1, <1>4, WeighedAlike
<1>10. QED BY <1>6, <1>7, <1>8, <1>9 DEF N, u

(* Normalize keeps the number, and leaves one limb at least.                *)
LEMMA NormalizeIs ==
    ASSUME NEW s, Numeral(s, Limb), Len(s) # 0
    PROVE  /\ Numeral(Normalize(s), Limb) /\ Len(Normalize(s)) # 0
           /\ Weighed(Normalize(s), Len(Normalize(s))) = Weighed(s, Len(s))
<1> DEFINE N == Len(s)
           m == Larger(1, LastLimb(s))
           u == SubSeq(s, 1, m)
<1>1. s \in Seq(Nat) /\ N \in Nat \ {0} /\ \A k \in 1..N : s[k] \in Nat /\ s[k] < Limb
  BY DEF Numeral
<1>2. LastLimb(s) \in 0..N /\ \A i \in (LastLimb(s) + 1)..N : s[i] = 0
  BY <1>1, LastLimbIs
<1>3. m \in 1..N /\ LastLimb(s) <= m
  <2> HIDE DEF N
  <2>1. QED BY <1>1, <1>2 DEF Larger
<1>4. Normalize(s) = u
  BY Zenon DEF Normalize, LastLimb
<1> HIDE DEF m
<1>5. u \in Seq(Nat) /\ Len(u) = m
  BY <1>1, <1>3
<1>6. \A i \in 1..m : u[i] = s[i]
  BY <1>1, <1>3
<1> HIDE DEF u, N
<1>7. Numeral(u, Limb)
  <2>1. \A i \in 1..m : i \in 1..N
    BY <1>1, <1>3
  <2>2. \A i \in 1..m : u[i] < Limb
    BY <1>1, <1>6, <2>1
  <2>3. QED BY <1>5, <2>2 DEF Numeral
<1>8. Weighed(u, m) = Weighed(s, m)
  <2>1. m \in Nat
    BY <1>1, <1>3
  <2>2. QED BY <1>6, <2>1, WeighedAlike
<1>9. Weighed(s, N) = Weighed(s, m)
  <2>1. m \in 0..N /\ \A i \in (m + 1)..N : i \in (LastLimb(s) + 1)..N
    BY <1>1, <1>2, <1>3
  <2>2. \A i \in (m + 1)..N : s[i] = 0
    BY <1>2, <2>1
  <2>3. QED BY <1>1, <2>1, <2>2, WeighedZeros DEF N
<1>10. m # 0
  BY <1>1, <1>3
<1>11. QED BY <1>4, <1>5, <1>7, <1>8, <1>9, <1>10 DEF N

(* Add adds, over operands of different lengths.                            *)
LEMMA AddIs ==
    ASSUME NEW a, NEW b, Numeral(a, Limb), Numeral(b, Limb), Len(a) # 0, Len(b) # 0
    PROVE  /\ Numeral(Add(a, b), Limb) /\ Len(Add(a, b)) # 0
           /\ Weighed(Add(a, b), Len(Add(a, b))) = Weighed(a, Len(a)) + Weighed(b, Len(b))
<1> DEFINE size == Larger(Len(a), Len(b))
           u == Fitted(a, size)
           v == Fitted(b, size)
           s == AddedLimbs(u, v)
<1>1. Len(a) \in Nat /\ Len(b) \in Nat
  BY DEF Numeral
<1>2. size \in Nat /\ size >= Len(a) /\ size >= Len(b)
  BY <1>1 DEF Larger
<1>3. Add(a, b) = Normalize(s)
  BY Zenon DEF Add, Fitted, AddedLimbs
<1> HIDE DEF size
<1>4. Numeral(u, Limb) /\ Len(u) = size /\ Weighed(u, size) = Weighed(a, Len(a))
  BY <1>2, FittedIs
<1>5. Numeral(v, Limb) /\ Len(v) = size /\ Weighed(v, size) = Weighed(b, Len(b))
  BY <1>2, FittedIs
<1> HIDE DEF u, v
<1>6. Addends(u, v)
  BY <1>4, <1>5, Zenon DEF Addends
<1>7. /\ Numeral(s, Limb) /\ Len(s) = size + 1
      /\ Weighed(s, size + 1) = Weighed(u, size) + Weighed(v, size)
  <2>1. /\ Numeral(s, Limb) /\ Len(s) = Len(u) + 1
        /\ Weighed(s, Len(u) + 1) = Weighed(u, Len(u)) + Weighed(v, Len(u))
    BY <1>6, AddedIs
  <2>2. QED BY <1>4, <2>1, Zenon
<1> HIDE DEF s
<1>8. Len(s) # 0
  BY <1>2, <1>7
<1>9. /\ Numeral(Normalize(s), Limb) /\ Len(Normalize(s)) # 0
      /\ Weighed(Normalize(s), Len(Normalize(s))) = Weighed(s, Len(s))
  BY <1>7, <1>8, NormalizeIs
<1>10. QED BY <1>3, <1>4, <1>5, <1>7, <1>9, Zenon

(* ToHex writes the number, without leading zeros.                          *)
LEMMA ToHexIs ==
    ASSUME NEW s, Numeral(s, Limb), Len(s) # 0
    PROVE  /\ Numeral(ToHex(s), Base) /\ Canonical(ToHex(s))
           /\ Value(ToHex(s), Base) = Weighed(s, Len(s))
<1> DEFINE N == Len(s)
           top == LastLimb(s)
<1>1. s \in Seq(Nat) /\ N \in Nat \ {0} /\ \A k \in 1..N : s[k] \in Nat /\ s[k] < Limb
  BY DEF Numeral
<1>2. /\ top \in 0..N /\ \A i \in (top + 1)..N : s[i] = 0
      /\ top # 0 => s[top] # 0
  BY <1>1, LastLimbIs
<1>3. DOMAIN s = 1..N
  BY <1>1
<1>4. Weighed(s, N) = Weighed(s, top)
  <2> HIDE DEF top
  <2>1. QED BY <1>1, <1>2, WeighedZeros
<1>5. CASE IsZero(s)
  <2>1. \A i \in 1..N : s[i] = 0
    BY <1>3, <1>5 DEF IsZero
  <2>2. top = 0
    <3> SUFFICES ASSUME top # 0 PROVE FALSE
      OBVIOUS
    <3> HIDE DEF top, N
    <3>1. top \in 1..N
      BY <1>1, <1>2
    <3>2. QED BY <1>2, <2>1, <3>1
  <2>3. Weighed(s, N) = 0
    BY <1>1, <1>4, <2>2, WeighedStep
  <2>4. ToHex(s) = <<0>>
    BY <1>5, Zenon DEF ToHex
  <2>5. <<0>> \in Seq(Nat) /\ Len(<<0>>) = 1 /\ <<0>>[1] = 0 /\ Base \in Nat /\ 0 < Base
    BY LimbType
  <2>6. Value(<<0>>, Base) = 0
    BY <2>5, ValueEnds
  <2>7. Numeral(<<0>>, Base) /\ Canonical(<<0>>)
    BY <2>5 DEF Numeral, Canonical
  <2>8. QED BY <2>3, <2>4, <2>6, <2>7
<1>6. CASE ~IsZero(s)
  <2> DEFINE x == Little(s, top)
             y == WrittenAll(x, LimbDigits)
             z == Significant(y)
  <2>1. top # 0
    <3> SUFFICES ASSUME top = 0 PROVE FALSE
      OBVIOUS
    <3>1. \A i \in 1..N : s[i] = 0
      BY <1>2
    <3>2. QED BY <1>3, <1>6, <3>1 DEF IsZero
  <2>2. ToHex(s) = z
    BY <1>6, Zenon DEF ToHex, Little, LastLimb
  <2> HIDE DEF top
  <2>3. x \in Seq(Nat) /\ Len(x) = top /\ \A i \in 1..top : x[i] = s[top - i + 1]
    BY <1>1, <1>2, LittleType
  <2> HIDE DEF x, N
  <2>4. top \in Nat /\ top >= 1 /\ top <= N
    BY <1>1, <1>2, <2>1
  <2>5. Numeral(x, Limb)
    <3>1. \A i \in 1..top : top - i + 1 \in 1..N
      BY <1>1, <2>4
    <3>2. \A i \in 1..top : x[i] < Limb
      BY <1>1, <2>3, <3>1, Zenon
    <3>3. QED BY <2>3, <3>2 DEF Numeral
  <2>6. x[1] = s[top] /\ x[1] # 0 /\ Len(x) >= 1
    <3>1. 1 \in 1..top /\ top - 1 + 1 = top
      BY <2>4
    <3>2. x[1] = s[top]
      BY <2>3, <3>1, Zenon
    <3>3. QED BY <1>2, <2>1, <2>3, <2>4, <3>2
  <2>7. Value(x, Limb) \in Nat \ {0}
    BY <2>3, <2>6, LimbType, ValuePositive
  <2>8. Numeral(y, Base) /\ Value(y, Base) = Value(x, Limb)
    <3>1. LimbDigits \in Nat \ {0} /\ Numeral(x, Power(Base, LimbDigits))
      BY <2>5, LimbType DEF Limb
    <3>2. Numeral(y, Base) /\ Value(y, Base) = Value(x, Power(Base, LimbDigits))
      BY <3>1, WrittenAllIs
    <3>3. QED BY <3>2 DEF Limb
  <2> HIDE DEF y
  <2>9. y \in Seq(Nat)
    BY <2>8 DEF Numeral
  <2>10. Numeral(z, Base) /\ Value(z, Base) = Value(y, Base)
    BY <2>8, <2>9, LimbType, SignificantNumeral, SignificantValue
  <2>11. Len(z) >= 1 => z[1] # 0
    BY <2>9, SignificantIs
  <2> HIDE DEF z
  <2>12. z \in Seq(Nat) /\ Len(z) \in Nat
    BY <2>10 DEF Numeral
  <2>13. Len(z) # 0
    BY <2>7, <2>8, <2>10, <2>12, LimbType, ValueEnds
  <2>14. Canonical(z)
    <3>1. z # <<>> /\ z[1] # 0
      BY <2>11, <2>12, <2>13
    <3>2. QED BY <3>1, Zenon DEF Canonical
  <2>15. Value(z, Base) = Weighed(s, N)
    BY <1>4, <2>8, <2>10, Zenon DEF Weighed, x
  <2>16. QED BY <2>2, <2>10, <2>14, <2>15 DEF N
<1>7. QED BY <1>5, <1>6

(* Any two numerals that are not empty.                                     *)
LEMMA ConstantTimeHexAddIs ==
    ASSUME NEW a, NEW b, Numeral(a, Base), Numeral(b, Base), Len(a) # 0, Len(b) # 0
    PROVE  /\ Numeral(ConstantTimeHexAdd(a, b), Base)
           /\ Canonical(ConstantTimeHexAdd(a, b))
           /\ Value(ConstantTimeHexAdd(a, b), Base) = Value(a, Base) + Value(b, Base)
<1> DEFINE u == FromHex(a)
           v == FromHex(b)
           s == Add(u, v)
<1>1. IsValidHex(a) /\ IsValidHex(b)
  <2>1. ASSUME NEW x, Numeral(x, Base), Len(x) # 0 PROVE IsValidHex(x)
    <3>1. x \in Seq(Nat) /\ \A i \in 1..Len(x) : x[i] < Base
      BY <2>1 DEF Numeral
    <3>2. x # <<>> /\ DOMAIN x = 1..Len(x)
      BY <2>1, <3>1
    <3>3. QED BY <3>1, <3>2 DEF IsValidHex
  <2>2. QED BY <2>1
<1>2. ConstantTimeHexAdd(a, b) = ToHex(s)
  BY <1>1, Zenon DEF ConstantTimeHexAdd
<1>3. Numeral(u, Limb) /\ Len(u) # 0 /\ Weighed(u, Len(u)) = Value(a, Base)
  BY FromHexIs
<1>4. Numeral(v, Limb) /\ Len(v) # 0 /\ Weighed(v, Len(v)) = Value(b, Base)
  BY FromHexIs
<1> HIDE DEF u, v
<1>5. /\ Numeral(s, Limb) /\ Len(s) # 0
      /\ Weighed(s, Len(s)) = Weighed(u, Len(u)) + Weighed(v, Len(v))
  BY <1>3, <1>4, AddIs
<1> HIDE DEF s
<1>6. /\ Numeral(ToHex(s), Base) /\ Canonical(ToHex(s))
      /\ Value(ToHex(s), Base) = Weighed(s, Len(s))
  BY <1>5, ToHexIs
<1>7. QED BY <1>2, <1>3, <1>4, <1>5, <1>6, Zenon

(* The digits a call is given are a numeral.                                *)
LEMMA HexNumeral ==
    ASSUME NEW n, NEW x \in Hex(n)
    PROVE  Numeral(x, Base) /\ (x # <<>> => Len(x) # 0)
<1> DEFINE D == 0..(Base - 1)
<1>1. x \in UNION {[1..m -> D] : m \in 0..n}
  BY Zenon DEF Hex, BoundedSeq, SeqOf
<1>2. \A d \in D : d \in Nat /\ d < Base
  BY LimbType
<1> HIDE DEF D
<1>3. PICK m \in 0..n : x \in [1..m -> D]
  BY <1>1, Zenon
<1>4. m \in Nat
  OBVIOUS
<1>5. x \in Seq(D) /\ Len(x) = m
  BY <1>3, <1>4
<1>6. \A i \in 1..m : x[i] \in D
  BY <1>3
<1>7. x \in Seq(Nat) /\ \A i \in 1..Len(x) : x[i] < Base
  BY <1>2, <1>3, <1>4, <1>5, <1>6
<1>8. x # <<>> => Len(x) # 0
  BY <1>5
<1>9. QED BY <1>7, <1>8 DEF Numeral

(* constantTimeHexAdd: the key index is the sum of secret and position,     *)
(* whatever their lengths and the carries between limbs, and is written     *)
(* without leading zeros.                                                   *)
THEOREM AdditionExactCorrect == Spec => []AdditionExact
<1>1. ASSUME Answered, Called("add") PROVE AdditionExact
  <2>1. Adding
    <3>1. job # Idle /\ job.call = "add"
      BY <1>1 DEF Called
    <3>2. ~Converting /\ ~Hashing /\ ~Encoding
      BY <3>1 DEF Converting, Hashing, Encoding
    <3>3. ~Decoding /\ ~Making
      BY <3>1 DEF Decoding, Making
    <3>4. ~Binding
      <4>1. \A w, other : job = [call |-> "bind", w |-> w, other |-> other] => job.call = "bind"
        OBVIOUS
      <4>2. QED BY <3>1, <4>1, Zenon DEF Binding
    <3>5. ~Stamping /\ ~Passing
      BY <3>1 DEF Stamping, Passing
    <3>6. QED BY <1>1, <3>1, <3>2, <3>3, <3>4, <3>5 DEF Answered
  <2>2. PICK a, b \in Hex(AddLength) \ {<<>>} :
          /\ job = [call |-> "add", a |-> a, b |-> b]
          /\ result = ConstantTimeHexAdd(a, b)
    BY <2>1 DEF Adding
  <2>3. Numeral(a, Base) /\ Numeral(b, Base) /\ Len(a) # 0 /\ Len(b) # 0
    BY HexNumeral
  <2>4. /\ Canonical(result)
        /\ Value(result, Base) = Value(a, Base) + Value(b, Base)
    BY <2>2, <2>3, ConstantTimeHexAddIs
  <2>5. job.a = a /\ job.b = b
    BY <2>2
  <2>6. QED BY <2>4, <2>5, Zenon DEF AdditionExact
<1>2. Answered => AdditionExact
  BY <1>1 DEF AdditionExact
<1>3. QED BY <1>2, AlwaysAnswered, PTL

-----------------------------------------------------------------------------
(* Other bases.                                                             *)

(* Powers grow with the base.                                               *)
LEMMA PowerBases ==
    ASSUME NEW a \in Nat, NEW b \in Nat, a <= b, NEW n \in Nat
    PROVE  Power(a, n) <= Power(b, n)
<1> DEFINE P(k) == Power(a, k)
           Q(k) == Power(b, k)
           Known == {k \in Nat : P(k) <= Q(k)}
<1>1. /\ P(0) = 1 /\ Q(0) = 1
      /\ \A k \in Nat : /\ P(k) \in Nat /\ P(k + 1) = a * P(k)
                        /\ Q(k) \in Nat /\ Q(k + 1) = b * Q(k)
  BY PowerNext
<1> HIDE DEF P, Q
<1>2. 0 \in Known
  BY <1>1
<1>3. ASSUME NEW k \in Nat, k \in Known PROVE k + 1 \in Known
  <2>1. PICK p, q \in Nat : p = P(k) /\ q = Q(k) /\ p <= q
    BY <1>1, <1>3
  <2>2. a * p <= b * q
    <3>1. a * p <= b * p /\ b * p <= b * q
      BY <2>1
    <3>2. a * p \in Nat /\ b * p \in Nat /\ b * q \in Nat
      OBVIOUS
    <3>3. QED BY <3>1, <3>2
  <2>3. QED BY <1>1, <2>1, <2>2
<1>4. n \in Known
  <2> HIDE DEF Known
  <2>1. QED BY <1>2, <1>3, Naturals0
<1>5. QED BY <1>4 DEF P, Q

(* A number is at most the power of two of it.                              *)
LEMMA PowerOfTwo ==
    ASSUME NEW n \in Nat
    PROVE  n <= Power(2, n)
<1> DEFINE P(k) == Power(2, k)
           Known == {k \in Nat : k + 1 <= P(k)}
<1>1. P(0) = 1 /\ \A k \in Nat : P(k) \in Nat /\ P(k + 1) = 2 * P(k)
  BY PowerNext
<1> HIDE DEF P
<1>2. 0 \in Known
  BY <1>1
<1>3. ASSUME NEW k \in Nat, k \in Known PROVE k + 1 \in Known
  BY <1>1, <1>3
<1>4. n \in Known
  <2> HIDE DEF Known
  <2>1. QED BY <1>2, <1>3, Naturals0
<1>5. n + 1 <= P(n) /\ P(n) \in Nat
  BY <1>1, <1>4
<1>6. QED BY <1>5 DEF P

(* The remainders of a long division, and the quotient's limbs.             *)
Rests(r, s, by) ==
    /\ r \in [0..Len(s) -> 0..(by - 1)]
    /\ r[0] = 0
    /\ \A k \in 1..Len(s) : r[k] = (r[k - 1] * Limb + s[k]) % by

Quotients(r, s, by) == [k \in 1..Len(s) |-> (r[k - 1] * Limb + s[k]) \div by]

Divided(r, s, by) ==
    LET quotient == Significant(Quotients(r, s, by))
    IN  [rem |-> r[Len(s)], quotient |-> [k \in DOMAIN quotient |-> quotient[k] % Limb]]

(* There are such rests: the recursion of DivideLimbs has a solution.       *)
LEMMA RestsExist ==
    ASSUME NEW s, Numeral(s, Limb), NEW by \in Nat \ {0}
    PROVE  \E r : Rests(r, s, by) /\ DivideLimbs(s, by) = Divided(r, s, by)
<1> DEFINE N == Len(s)
           R == 0..(by - 1)
           step == [k \in 1..N |-> [x \in R |-> (x * Limb + s[k]) % by]]
           F(f) == [k \in 0..N |-> IF k = 0 THEN 0 ELSE (f[k - 1] * Limb + s[k]) % by]
           e == CHOOSE f : f = F(f)
<1>1. N \in Nat /\ \A k \in 1..N : s[k] \in Nat
  BY DEF Numeral
<1>2. DivideLimbs(s, by) = Divided(e, s, by)
  BY Zenon DEF DivideLimbs, Divided, Quotients
<1> HIDE DEF N
<1>3. step \in [1..N -> [R -> R]]
  <2>1. ASSUME NEW k \in 1..N, NEW x \in R PROVE (x * Limb + s[k]) % by \in R
    <3>1. PICK l, y \in Nat : l = Limb /\ y = s[k]
      BY <1>1, LimbType
    <3>2. x * l + y \in Nat
      OBVIOUS
    <3>3. PICK z \in Nat : z = x * l + y
      BY <3>2
    <3>4. z % by \in 0..(by - 1)
      BY Quotient
    <3>5. QED BY <3>1, <3>3, <3>4, Zenon
  <2> HIDE DEF R
  <2>2. QED BY <2>1
<1>4. PICK r : Loop(r, N, R, 0, step)
  <2>1. 0 \in R
    OBVIOUS
  <2> HIDE DEF step, R
  <2>2. QED BY <1>1, <1>3, <2>1, Loops
<1>5. ASSUME NEW k \in 1..N PROVE r[k] = (r[k - 1] * Limb + s[k]) % by
  <2>1. r[k - 1] \in R /\ r[k] = step[k][r[k - 1]]
    <3> HIDE DEF step, R
    <3>1. QED BY <1>1, <1>4, LoopRound
  <2> HIDE DEF R
  <2>2. QED BY <2>1
<1>6. r \in [0..N -> R] /\ r[0] = 0
  BY <1>4 DEF Loop
<1>7. Rests(r, s, by)
  BY <1>5, <1>6, Zenon DEF Rests, N
<1> HIDE DEF R
<1>8. e = F(e)
  <2>1. r = F(r)
    <3> DEFINE G(k) == IF k = 0 THEN 0 ELSE (r[k - 1] * Limb + s[k]) % by
    <3>1. \A k \in 0..N : r[k] = G(k)
      <4>1. \A k \in 0..N : k = 0 \/ k \in 1..N
        BY <1>1
      <4>2. QED BY <1>5, <1>6, <4>1, Zenon
    <3>2. r = [k \in 0..N |-> r[k]]
      BY <1>6
    <3>3. QED BY <3>1, <3>2, Zenon
  <2> HIDE DEF F
  <2>2. QED BY <2>1, Zenon
<1> HIDE DEF e
<1>9. \A k \in 0..N : r[k] = e[k]
  <2>1. e[0] = r[0]
    <3>1. 0 \in 0..N
      BY <1>1
    <3>2. e[0] = 0
      BY <1>8, <3>1, Zenon
    <3>3. QED BY <1>6, <3>2
  <2>2. ASSUME NEW k \in 1..N, r[k - 1] = e[k - 1] PROVE r[k] = e[k]
    <3>1. k \in 0..N /\ k # 0
      BY <1>1
    <3>2. e[k] = (e[k - 1] * Limb + s[k]) % by
      BY <1>8, <3>1, Zenon
    <3>3. QED BY <1>5, <2>2, <3>2, Zenon
  <2>3. Alike(r, e, N)
    BY <2>1, <2>2, Zenon DEF Alike
  <2>4. QED BY <1>1, <2>3, SameLoops
<1>10. Divided(e, s, by) = Divided(r, s, by)
  <2>1. \A k \in 1..N : k - 1 \in 0..N
    BY <1>1
  <2>2. \A k \in 1..N : (e[k - 1] * Limb + s[k]) \div by = (r[k - 1] * Limb + s[k]) \div by
    BY <1>9, <2>1, Zenon
  <2>3. Quotients(e, s, by) = Quotients(r, s, by)
    BY <2>2, Zenon DEF Quotients, N
  <2>4. e[N] = r[N]
    <3>1. N \in 0..N
      BY <1>1
    <3>2. QED BY <1>9, <3>1, Zenon
  <2>5. QED BY <2>3, <2>4, Zenon DEF Divided, N
<1>11. QED BY <1>2, <1>7, <1>10, Zenon

(* A limb of the quotient is below the limb's width.                        *)
LEMMA QuotientLimb ==
    ASSUME NEW by \in Nat \ {0}, NEW l \in Nat \ {0}, NEW r \in 0..(by - 1),
           NEW x \in Nat, x < l
    PROVE  /\ (r * l + x) \div by \in Nat /\ (r * l + x) \div by < l
           /\ r * l + x = ((r * l + x) \div by) * by + ((r * l + x) % by)
           /\ (r * l + x) % by \in 0..(by - 1)
<1> DEFINE t == r * l + x
           q == t \div by
           d == t % by
<1>1. t \in Nat /\ t < by * l
  <2>1. r + 1 <= by /\ r + 1 \in Nat
    OBVIOUS
  <2>2. (r + 1) * l <= by * l
    BY <2>1
  <2>3. (r + 1) * l = r * l + l /\ r * l \in Nat /\ by * l \in Nat
    OBVIOUS
  <2>4. QED BY <2>2, <2>3
<1> HIDE DEF t
<1>2. q \in Nat /\ d \in Nat /\ d < by /\ t = q * by + d
  BY <1>1, Quotient
<1> HIDE DEF q, d
<1>3. q < l
  <2> SUFFICES ASSUME q >= l PROVE FALSE
    BY <1>2
  <2>1. by * q >= by * l
    BY <1>2
  <2>2. by * q \in Nat /\ by * l \in Nat /\ q * by = by * q
    BY <1>2
  <2>3. QED BY <1>1, <1>2, <2>1, <2>2
<1>4. d \in 0..(by - 1)
  BY <1>2
<1>5. QED BY <1>2, <1>3, <1>4 DEF t, q, d

(* One long division divides the number.                                    *)
DividesTo(d, s, by) ==
    /\ d.rem \in 0..(by - 1)
    /\ Numeral(d.quotient, Limb)
    /\ Len(d.quotient) >= 1 => d.quotient[1] # 0
    /\ Value(s, Limb) = Value(d.quotient, Limb) * by + d.rem

(* Quotient and rest of the number, from those of the limbs.                *)
LEMMA DivideIs ==
    ASSUME NEW s, Numeral(s, Limb), NEW by \in Nat \ {0}
    PROVE  DividesTo(DivideLimbs(s, by), s, by)
<1> DEFINE N == Len(s)
<1>1. s \in Seq(Nat) /\ N \in Nat /\ \A k \in 1..N : s[k] \in Nat /\ s[k] < Limb
  BY DEF Numeral
<1>2. PICK r : Rests(r, s, by) /\ DivideLimbs(s, by) = Divided(r, s, by)
  BY RestsExist
<1>3. /\ r \in [0..N -> 0..(by - 1)] /\ r[0] = 0
      /\ \A k \in 1..N : r[k] = (r[k - 1] * Limb + s[k]) % by
  BY <1>2, Zenon DEF Rests
<1> DEFINE u == Quotients(r, s, by)
           q == Significant(u)
<1>4. u = [k \in 1..N |-> (r[k - 1] * Limb + s[k]) \div by]
  BY Zenon DEF Quotients
<1>5. PICK v : PrefixValues(v, s, Limb) /\ Value(s, Limb) = v[N]
  BY <1>1, LimbType, PrefixesExist
<1>6. /\ v \in [0..N -> Nat] /\ v[0] = 0
      /\ \A k \in 1..N : v[k] = v[k - 1] * Limb + s[k]
  BY <1>5, Zenon DEF PrefixValues
<1> HIDE DEF N, u
<1>7. ASSUME NEW k \in 1..N
      PROVE  /\ r[k - 1] \in 0..(by - 1) /\ r[k] \in 0..(by - 1)
             /\ u[k] \in Nat /\ u[k] < Limb
             /\ r[k - 1] * Limb + s[k] = u[k] * by + r[k]
  <2>1. k - 1 \in 0..N /\ k \in 0..N
    BY <1>1
  <2>2. r[k - 1] \in 0..(by - 1) /\ r[k] \in 0..(by - 1)
    BY <1>3, <2>1
  <2>3. PICK l \in Nat \ {0}, c \in 0..(by - 1), x \in Nat :
            l = Limb /\ c = r[k - 1] /\ x = s[k]
    BY <1>1, <2>2, LimbType
  <2>4. x < l
    BY <1>1, <2>3
  <2>5. /\ (c * l + x) \div by \in Nat /\ (c * l + x) \div by < l
        /\ c * l + x = ((c * l + x) \div by) * by + ((c * l + x) % by)
    BY <2>4, QuotientLimb
  <2>6. u[k] = (r[k - 1] * Limb + s[k]) \div by
    BY <1>4
  <2>7. r[k] = (r[k - 1] * Limb + s[k]) % by
    BY <1>3
  <2>8. QED BY <2>2, <2>3, <2>5, <2>6, <2>7, Zenon
<1>8. u \in Seq(Nat) /\ Len(u) = N
  <2>1. u = [k \in 1..N |-> u[k]]
    BY <1>4
  <2>2. \A k \in 1..N : u[k] \in Nat
    BY <1>7
  <2>3. QED BY <1>1, <2>1, <2>2
<1>9. Numeral(u, Limb)
  BY <1>7, <1>8 DEF Numeral
<1>10. PICK w : PrefixValues(w, u, Limb) /\ Value(u, Limb) = w[N]
  BY <1>8, LimbType, PrefixesExist
<1>11. /\ w \in [0..N -> Nat] /\ w[0] = 0
       /\ \A k \in 1..N : w[k] = w[k - 1] * Limb + u[k]
  BY <1>8, <1>10, Zenon DEF PrefixValues
<1> DEFINE Known == {k \in Nat : k <= N => v[k] = w[k] * by + r[k]}
<1>12. 0 \in Known
  <2>1. 0 = 0 * by + 0
    OBVIOUS
  <2>2. v[0] = w[0] * by + r[0]
    BY <1>3, <1>6, <1>11, <2>1, Zenon
  <2>3. QED BY <2>2
<1>13. ASSUME NEW j \in Nat, j \in Known PROVE j + 1 \in Known
  <2> SUFFICES ASSUME j + 1 <= N PROVE v[j + 1] = w[j + 1] * by + r[j + 1]
    OBVIOUS
  <2> DEFINE k == j + 1
  <2>1. k \in 1..N /\ k - 1 = j /\ j \in 0..N
    BY <1>1
  <2>2. v[j] = w[j] * by + r[j]
    BY <1>1, <1>13
  <2>3. /\ r[j] \in 0..(by - 1) /\ r[k] \in 0..(by - 1) /\ u[k] \in Nat
        /\ r[j] * Limb + s[k] = u[k] * by + r[k]
    BY <1>7, <2>1
  <2>4. v[k] = v[j] * Limb + s[k] /\ w[k] = w[j] * Limb + u[k]
    BY <1>6, <1>11, <2>1
  <2>5. w[j] \in Nat /\ s[k] \in Nat
    BY <1>1, <1>11, <2>1
  <2> HIDE DEF k
  <2>6. PICK y, c, d, x, z, l \in Nat :
            /\ y = w[j] /\ c = r[j] /\ d = r[k] /\ x = s[k] /\ z = u[k] /\ l = Limb
    <3>1. r[j] \in Nat /\ r[k] \in Nat /\ u[k] \in Nat
      BY <2>3
    <3>2. Limb \in Nat
      BY LimbType
    <3>3. QED BY <2>5, <3>1, <3>2, Zenon
  <2>7. c * l + x = z * by + d
    BY <2>3, <2>6
  <2>8. (y * by + c) * l + x = (y * l + z) * by + d
    <3>1. (y * by + c) * l + x = y * by * l + (c * l + x)
      OBVIOUS
    <3>2. (y * l + z) * by + d = y * by * l + (z * by + d)
      OBVIOUS
    <3>3. QED BY <2>7, <3>1, <3>2, Zenon
  <2>9. v[k] = w[k] * by + r[k]
    BY <2>2, <2>4, <2>6, <2>8, Zenon
  <2>10. QED BY <2>9 DEF k
<1>14. v[N] = w[N] * by + r[N]
  <2>1. N \in Known
    <3> HIDE DEF Known
    <3>1. QED BY <1>1, <1>12, <1>13, Naturals0
  <2>2. N <= N
    BY <1>1
  <2>3. QED BY <2>1, <2>2
<1>15. /\ q \in Seq(Nat) /\ Numeral(q, Limb) /\ Value(q, Limb) = Value(u, Limb)
       /\ Len(q) >= 1 => q[1] # 0
  <2>1. q \in Seq(Nat) /\ (Len(q) >= 1 => q[1] # 0)
    BY <1>8, SignificantIs
  <2>2. Numeral(q, Limb) /\ Value(q, Limb) = Value(u, Limb)
    BY <1>8, <1>9, LimbType, SignificantNumeral, SignificantValue
  <2>3. QED BY <2>1, <2>2
<1> DEFINE d == Divided(r, s, by)
<1>16. d = [rem |-> r[N], quotient |-> [k \in DOMAIN q |-> q[k] % Limb]]
  BY Zenon DEF Divided, u, N
<1> HIDE DEF q, d
<1>17. [k \in DOMAIN q |-> q[k] % Limb] = q
  <2>1. DOMAIN q = 1..Len(q) /\ \A k \in 1..Len(q) : q[k] \in Nat /\ q[k] < Limb
    BY <1>15 DEF Numeral
  <2>2. q = [k \in DOMAIN q |-> q[k]]
    BY <1>15
  <2>3. ASSUME NEW k \in DOMAIN q PROVE q[k] % Limb = q[k]
    <3>1. q[k] \in Nat /\ q[k] < Limb
      BY <2>1
    <3>2. PICK x \in Nat, l \in Nat \ {0} : x = q[k] /\ l = Limb
      BY <3>1, LimbType
    <3>3. x < l
      BY <3>1, <3>2
    <3>4. x % l = x
      BY <3>3
    <3>5. QED BY <3>2, <3>4, Zenon
  <2>4. QED BY <2>2, <2>3, Zenon
<1>18. d.rem = r[N] /\ d.quotient = q
  BY <1>16, <1>17
<1>19. r[N] \in 0..(by - 1)
  <2>1. N \in 0..N
    BY <1>1
  <2>2. QED BY <1>3, <2>1
<1>20. DividesTo(d, s, by)
  BY <1>5, <1>10, <1>14, <1>15, <1>18, <1>19, Zenon DEF DividesTo
<1>21. QED BY <1>2, <1>20, Zenon DEF d

(* Dividing until nothing is left: the state of the loop.                   *)
Round(st, by) ==
    IF st.left = <<>> THEN st
    ELSE [left |-> DivideLimbs(st.left, by).quotient,
          digits |-> <<DivideLimbs(st.left, by).rem>> \o st.digits]

(* The number is what is left, before the digits found so far.              *)
Holding(st, by, value) ==
    /\ st = [left |-> st.left, digits |-> st.digits]
    /\ Numeral(st.left, Limb) /\ Numeral(st.digits, by)
    /\ st.left # <<>> => Value(st.left, Limb) # 0
    /\ st.left = <<>> => Len(st.digits) >= 1 /\ st.digits[1] # 0
    /\ value = Value(st.left, Limb) * Power(by, Len(st.digits)) + Value(st.digits, by)

(* A round keeps what is held, and halves what is left.                     *)
LEMMA RoundIs ==
    ASSUME NEW by \in Nat, by >= 2, NEW value, NEW st, Holding(st, by, value)
    PROVE  /\ Holding(Round(st, by), by, value)
           /\ st.left # <<>> /\ Round(st, by).left # <<>> =>
                 2 * Value(Round(st, by).left, Limb) <= Value(st.left, Limb)
<1> DEFINE s == st.left
           g == st.digits
           d == DivideLimbs(s, by)
           q == d.quotient
           c == <<d.rem>>
           h == c \o g
           n == Len(g)
<1>1. Numeral(s, Limb) /\ Numeral(g, by)
  BY DEF Holding
<1>2. s \in Seq(Nat) /\ g \in Seq(Nat) /\ n \in Nat
  BY <1>1 DEF Numeral
<1>3. CASE s = <<>>
  BY <1>3, Zenon DEF Round
<1>4. CASE s # <<>>
  <2>1. DividesTo(d, s, by)
    BY <1>1, DivideIs
  <2>2. /\ d.rem \in 0..(by - 1) /\ Numeral(q, Limb) /\ (Len(q) >= 1 => q[1] # 0)
        /\ Value(s, Limb) = Value(q, Limb) * by + d.rem
    BY <2>1 DEF DividesTo
  <2>3. Round(st, by) = [left |-> q, digits |-> h]
    BY <1>4, Zenon DEF Round
  <2>4. Round(st, by).left = q /\ Round(st, by).digits = h
    BY <2>3
  <2>5. value = Value(s, Limb) * Power(by, n) + Value(g, by) /\ Value(s, Limb) # 0
    BY <1>4 DEF Holding
  <2> HIDE DEF s, d, q
  <2>6. c \in Seq(Nat) /\ Len(c) = 1 /\ c[1] = d.rem /\ 1 \in 1..Len(c)
    BY <2>2
  <2> HIDE DEF c, g
  <2>7. Joined(h, c, g)
    BY <1>2, <2>6, JoinConcat
  <2> HIDE DEF h
  <2>8. /\ h \in Seq(Nat) /\ Len(h) = 1 + n /\ h[1] = d.rem
        /\ \A i \in 1..n : h[1 + i] = g[i]
    BY <2>6, <2>7, Zenon DEF Joined
  <2>9. Numeral(h, by)
    <3>1. \A i \in 1..n : g[i] < by
      BY <1>1 DEF Numeral
    <3> HIDE DEF n
    <3>2. ASSUME NEW i \in 1..(1 + n) PROVE h[i] < by
      <4>1. CASE i = 1
        BY <2>2, <2>8, <4>1
      <4>2. CASE i # 1
        <5>1. i - 1 \in 1..n /\ 1 + (i - 1) = i
          BY <1>2, <4>2
        <5>2. h[1 + (i - 1)] = g[i - 1] /\ g[i - 1] < by
          BY <2>8, <3>1, <5>1
        <5>3. QED BY <5>1, <5>2
      <4>3. QED BY <4>1, <4>2
    <3>3. QED BY <2>8, <3>2 DEF Numeral
  <2>10. Value(h, by) = d.rem * Power(by, n) + Value(g, by)
    <3>1. Value(h, by) = Value(c, by) * Power(by, n) + Value(g, by)
      BY <2>7, JoinedValue
    <3>2. Value(c, by) = d.rem
      BY <2>6, ValueEnds
    <3>3. QED BY <3>1, <3>2, Zenon
  <2>11. q \in Seq(Nat)
    BY <2>2 DEF Numeral
  <2>12. /\ Value(q, Limb) \in Nat /\ Value(g, by) \in Nat /\ Power(by, n) \in Nat
         /\ Power(by, n + 1) = by * Power(by, n) /\ Value(s, Limb) \in Nat
    BY <1>2, <2>11, LimbType, ValueType, PowerNext
  <2>13. PICK a, p, z, e, b \in Nat :
            a = Value(q, Limb) /\ p = Power(by, n) /\ z = Value(g, by) /\ e = d.rem /\ b = by
    BY <2>2, <2>12
  <2>14. value = Value(q, Limb) * Power(by, Len(h)) + Value(h, by)
    <3>1. (a * b + e) * p + z = a * (b * p) + (e * p + z)
      OBVIOUS
    <3>2. n + 1 = 1 + n
      BY <1>2
    <3>3. Power(by, Len(h)) = b * p
      BY <2>8, <2>12, <2>13, <3>2, Zenon
    <3>4. QED BY <2>2, <2>5, <2>10, <2>13, <3>1, <3>3, Zenon
  <2>15. q # <<>> => Value(q, Limb) # 0
    <3> SUFFICES ASSUME q # <<>> PROVE Value(q, Limb) # 0
      OBVIOUS
    <3>1. Len(q) >= 1
      BY <2>11
    <3>2. Value(q, Limb) \in Nat \ {0}
      BY <2>2, <2>11, <3>1, LimbType, ValuePositive
    <3>3. QED BY <3>2
  <2>16. q = <<>> => Len(h) >= 1 /\ h[1] # 0
    <3> SUFFICES ASSUME q = <<>> PROVE Len(h) >= 1 /\ h[1] # 0
      OBVIOUS
    <3>1. Value(q, Limb) = 0
      BY <2>11, LimbType, ValueEnds
    <3>2. 0 * b + e = e
      OBVIOUS
    <3>3. Value(s, Limb) = e
      BY <2>2, <2>13, <3>1, <3>2, Zenon
    <3>4. h[1] # 0
      BY <2>5, <2>8, <2>13, <3>3, Zenon
    <3>5. Len(h) >= 1
      BY <1>2, <2>8
    <3>6. QED BY <3>4, <3>5
  <2>17. Holding(Round(st, by), by, value)
    BY <2>2, <2>3, <2>4, <2>9, <2>14, <2>15, <2>16, Zenon DEF Holding
  <2>18. 2 * Value(q, Limb) <= Value(s, Limb)
    <3>1. 2 * a <= b * a
      BY <2>13
    <3>2. a * b = b * a /\ b * a \in Nat /\ 2 * a \in Nat
      OBVIOUS
    <3>3. Value(s, Limb) = a * b + e
      BY <2>2, <2>13, Zenon
    <3>4. 2 * a <= a * b + e
      BY <3>1, <3>2
    <3>5. QED BY <2>13, <3>3, <3>4, Zenon
  <2>19. QED BY <2>4, <2>17, <2>18, Zenon DEF s
<1>5. QED BY <1>3, <1>4

(* All the rounds.                                                          *)
LEMMA RemaindersIs ==
    ASSUME NEW by \in Nat, by >= 2, NEW s, Numeral(s, Limb), Len(s) # 0, Value(s, Limb) # 0
    PROVE  /\ Numeral(Remainders(s, by), by)
           /\ Len(Remainders(s, by)) >= 1 /\ Remainders(s, by)[1] # 0
           /\ Value(Remainders(s, by), by) = Value(s, Limb)
<1> DEFINE V == Value(s, Limb)
           N == Len(s) * Limb
           S == {st \in [left : Seq(Nat), digits : Seq(Nat)] : Holding(st, by, V)}
           a == [left |-> s, digits |-> <<>>]
           step == [k \in 1..N |-> [st \in S |-> Round(st, by)]]
           F(f) == [k \in 0..N |-> IF k = 0 THEN a ELSE Round(f[k - 1], by)]
           e == CHOOSE f : f = F(f)
<1>1. s \in Seq(Nat) /\ Len(s) \in Nat /\ Len(s) # 0
  BY DEF Numeral
<1>2. N \in Nat
  BY <1>1, LimbType
<1>3. V \in Nat /\ V # 0
  BY <1>1, LimbType, ValueType
<1>4. Remainders(s, by) = e[N].digits
  BY Zenon DEF Remainders, Round
<1> HIDE DEF N, V
<1>5. a \in S
  <2>1. <<>> \in Seq(Nat) /\ Len(<<>>) = 0
    OBVIOUS
  <2>2. a \in [left : Seq(Nat), digits : Seq(Nat)]
    BY <1>1, <2>1
  <2>3. a.left = s /\ a.digits = <<>>
    OBVIOUS
  <2>4. Numeral(<<>>, by) /\ s # <<>>
    BY <1>1, <2>1 DEF Numeral
  <2>5. Value(<<>>, by) = 0 /\ Power(by, 0) = 1
    BY <2>1, ValueEnds, PowerNext
  <2>6. V = V * 1 + 0
    BY <1>3
  <2>7. V = Value(s, Limb) * Power(by, Len(<<>>)) + Value(<<>>, by)
    BY <2>1, <2>5, <2>6, Zenon DEF V
  <2>8. a = [left |-> a.left, digits |-> a.digits]
    BY <2>3
  <2> HIDE DEF a
  <2>9. Value(a.left, Limb) # 0
    BY <1>3, <2>3 DEF V
  <2>10. Holding(a, by, V)
    BY <2>3, <2>4, <2>7, <2>8, <2>9, Zenon DEF Holding
  <2>11. QED BY <2>2, <2>10
<1>6. ASSUME NEW st \in S PROVE Round(st, by) \in S
  <2>1. Holding(Round(st, by), by, V)
    BY RoundIs
  <2> DEFINE x == Round(st, by)
  <2> HIDE DEF x
  <2>2. x = [left |-> x.left, digits |-> x.digits] /\ x.left \in Seq(Nat) /\ x.digits \in Seq(Nat)
    BY <2>1 DEF x, Holding, Numeral
  <2>3. x \in [left : Seq(Nat), digits : Seq(Nat)]
    BY <2>2
  <2>4. QED BY <2>1, <2>3 DEF x
<1>7. step \in [1..N -> [S -> S]]
  <2> HIDE DEF S
  <2>1. QED BY <1>6
<1>8. PICK f : Loop(f, N, S, a, step)
  <2> HIDE DEF step, S, a
  <2>1. QED BY <1>2, <1>5, <1>7, Loops
<1>9. ASSUME NEW k \in 1..N PROVE f[k - 1] \in S /\ f[k] \in S /\ f[k] = Round(f[k - 1], by)
  <2>1. f[k - 1] \in S /\ f[k] \in S /\ f[k] = step[k][f[k - 1]]
    <3> HIDE DEF step, S, a
    <3>1. QED BY <1>2, <1>8, LoopRound
  <2> HIDE DEF S
  <2>2. QED BY <2>1
<1> HIDE DEF a
<1>10. f \in [0..N -> S] /\ f[0] = a
  BY <1>8 DEF Loop
<1> HIDE DEF S
<1>11. e = F(e)
  <2>1. f = F(f)
    <3> DEFINE G(k) == IF k = 0 THEN a ELSE Round(f[k - 1], by)
    <3>1. \A k \in 0..N : f[k] = G(k)
      <4>1. \A k \in 0..N : k = 0 \/ k \in 1..N
        BY <1>2
      <4>2. QED BY <1>9, <1>10, <4>1, Zenon
    <3>2. f = [k \in 0..N |-> f[k]]
      BY <1>10
    <3>3. QED BY <3>1, <3>2, Zenon
  <2> HIDE DEF F
  <2>2. QED BY <2>1, Zenon
<1> HIDE DEF e
<1>12. f[N] = e[N]
  <2>1. e[0] = f[0]
    <3>1. 0 \in 0..N
      BY <1>2
    <3>2. e[0] = a
      BY <1>11, <3>1, Zenon
    <3>3. QED BY <1>10, <3>2
  <2>2. ASSUME NEW k \in 1..N, f[k - 1] = e[k - 1] PROVE f[k] = e[k]
    <3>1. k \in 0..N /\ k # 0
      BY <1>2
    <3>2. e[k] = Round(e[k - 1], by)
      BY <1>11, <3>1, Zenon
    <3>3. QED BY <1>9, <2>2, <3>2, Zenon
  <2>3. Alike(f, e, N)
    BY <2>1, <2>2, Zenon DEF Alike
  <2>4. \A k \in 0..N : f[k] = e[k]
    BY <1>2, <2>3, SameLoops
  <2>5. N \in 0..N
    BY <1>2
  <2>6. QED BY <2>4, <2>5
<1> DEFINE P(k) == Power(2, k)
           L(k) == f[k].left
           W(k) == Value(f[k].left, Limb)
           Known == {k \in Nat : k <= N => L(k) = <<>> \/ W(k) * P(k) <= V}
<1>13. P(0) = 1 /\ \A k \in Nat : P(k) \in Nat /\ P(k + 1) = 2 * P(k)
  BY PowerNext
<1>14. ASSUME NEW k \in 0..N PROVE W(k) \in Nat
  <2>1. f[k] \in S
    BY <1>10
  <2>2. f[k].left \in Seq(Nat)
    BY <2>1 DEF S
  <2>3. QED BY <2>2, LimbType, ValueType
<1> HIDE DEF P
<1>15. 0 \in Known
  <2>1. f[0].left = s
    BY <1>10 DEF a
  <2>2. W(0) = V
    BY <2>1, Zenon DEF V
  <2> HIDE DEF W
  <2>3. W(0) * P(0) <= V
    BY <1>3, <1>13, <2>2
  <2>4. QED BY <2>3
<1>16. ASSUME NEW j \in Nat, j \in Known PROVE j + 1 \in Known
  <2> SUFFICES ASSUME j + 1 <= N PROVE L(j + 1) = <<>> \/ W(j + 1) * P(j + 1) <= V
    OBVIOUS
  <2>1. j + 1 \in 1..N /\ (j + 1) - 1 = j /\ j \in 0..N /\ j + 1 \in 0..N /\ j <= N
    BY <1>2
  <2>2. f[j] \in S /\ f[j + 1] = Round(f[j], by)
    BY <1>9, <2>1
  <2>3. Holding(f[j], by, V)
    BY <2>2 DEF S
  <2>4. CASE L(j) = <<>>
    <3>1. f[j + 1] = f[j]
      BY <2>2, <2>4, Zenon DEF Round
    <3>2. QED BY <2>4, <3>1
  <2>5. CASE L(j) # <<>> /\ L(j + 1) # <<>>
    <3>1. 2 * W(j + 1) <= W(j)
      <4>1. Round(f[j], by).left # <<>>
        BY <2>2, <2>5
      <4>2. 2 * Value(Round(f[j], by).left, Limb) <= Value(f[j].left, Limb)
        BY <2>3, <2>5, <4>1, RoundIs
      <4>3. QED BY <2>2, <4>2
    <3>2. W(j) * P(j) <= V
      BY <1>16, <2>1, <2>5
    <3>3. W(j) \in Nat /\ W(j + 1) \in Nat /\ P(j) \in Nat
      BY <1>13, <1>14, <2>1
    <3> HIDE DEF W, L
    <3>4. PICK x, y, p \in Nat : x = W(j) /\ y = W(j + 1) /\ p = P(j)
      BY <3>3
    <3>5. y * (2 * p) <= V
      <4>1. 2 * y <= x /\ x * p <= V
        BY <3>1, <3>2, <3>4
      <4>2. (2 * y) * p <= x * p
        BY <4>1
      <4>3. (2 * y) * p = y * (2 * p) /\ y * (2 * p) \in Nat /\ x * p \in Nat
        OBVIOUS
      <4>4. QED BY <1>3, <4>1, <4>2, <4>3
    <3>6. W(j + 1) * P(j + 1) = y * (2 * p)
      BY <1>13, <3>4
    <3>7. QED BY <3>5, <3>6
  <2>6. QED BY <2>4, <2>5
<1>17. L(N) = <<>> \/ W(N) * P(N) <= V
  <2>1. N \in Known
    <3> HIDE DEF Known
    <3>1. QED BY <1>2, <1>15, <1>16, Naturals0
  <2>2. N <= N
    BY <1>2
  <2> HIDE DEF L, W
  <2>3. QED BY <2>1, <2>2
<1>18. V < P(N)
  <2>1. V < Power(Limb, Len(s))
    BY LimbType, ValueBelow DEF V
  <2>2. Limb \in Nat /\ Power(2, Limb) \in Nat /\ Limb <= Power(2, Limb)
    BY LimbType, PowerOfTwo, PowerNext
  <2>3. Power(Limb, Len(s)) <= Power(Power(2, Limb), Len(s))
    BY <1>1, <2>2, PowerBases
  <2>4. Power(Power(2, Limb), Len(s)) = Power(2, Limb * Len(s))
    BY <1>1, <2>2, PowerPower
  <2>5. Limb * Len(s) = N
    <3>1. PICK x, y \in Nat : x = Limb /\ y = Len(s)
      BY <1>1, <2>2
    <3>2. x * y = y * x
      OBVIOUS
    <3>3. QED BY <3>1, <3>2, Zenon DEF N
  <2>6. Power(Limb, Len(s)) <= P(N)
    BY <2>3, <2>4, <2>5, Zenon DEF P
  <2>7. Power(Limb, Len(s)) \in Nat /\ P(N) \in Nat
    BY <1>1, <1>2, <1>13, <2>2, PowerNext
  <2>8. QED BY <1>3, <2>1, <2>6, <2>7
<1>19. f[N] \in S
  <2>1. N \in 0..N
    BY <1>2
  <2>2. QED BY <1>10, <2>1
<1>20. Holding(f[N], by, V)
  BY <1>19 DEF S
<1>21. f[N].left = <<>>
  <2> SUFFICES ASSUME L(N) # <<>> PROVE FALSE
    OBVIOUS
  <2>1. W(N) # 0
    BY <1>20, Zenon DEF Holding
  <2>2. W(N) \in Nat /\ P(N) \in Nat
    <3>1. N \in 0..N
      BY <1>2
    <3>2. QED BY <1>2, <1>13, <1>14, <3>1
  <2>3. W(N) * P(N) <= V
    BY <1>17
  <2> HIDE DEF W
  <2>4. PICK x, p \in Nat : x = W(N) /\ p = P(N)
    BY <2>2
  <2>5. 1 * p <= x * p /\ x * p \in Nat
    BY <2>1, <2>4
  <2>6. QED BY <1>3, <1>18, <2>3, <2>4, <2>5
<1> DEFINE g == f[N].digits
<1>22. Numeral(g, by) /\ Len(g) >= 1 /\ g[1] # 0
  BY <1>20, <1>21, Zenon DEF Holding
<1>23. Value(g, by) = V
  <2>1. V = Value(<<>>, Limb) * Power(by, Len(g)) + Value(g, by)
    BY <1>20, <1>21, Zenon DEF Holding
  <2>2. <<>> \in Seq(Nat) /\ Len(<<>>) = 0
    OBVIOUS
  <2>3. Value(<<>>, Limb) = 0
    BY <2>2, LimbType, ValueEnds
  <2>4. g \in Seq(Nat) /\ Len(g) \in Nat
    BY <1>22 DEF Numeral
  <2> HIDE DEF g
  <2>5. Power(by, Len(g)) \in Nat /\ Value(g, by) \in Nat
    BY <2>4, PowerNext, ValueType
  <2>6. PICK p, z \in Nat : p = Power(by, Len(g)) /\ z = Value(g, by)
    BY <2>5
  <2>7. 0 * p + z = z
    OBVIOUS
  <2>8. QED BY <2>1, <2>3, <2>6, <2>7, Zenon
<1>24. Remainders(s, by) = g
  BY <1>4, <1>12
<1>25. QED BY <1>22, <1>23, <1>24, Zenon DEF V

(* As long as the number says.                                              *)
Converted(y, x, by) ==
    /\ Numeral(y, by) /\ Canonical(y)
    /\ Value(y, by) = Value(x, Base)

(* The conversion of a numeral keeps its value, without zeros in front.     *)
LEMMA CharsetBaseConvertIs ==
    ASSUME NEW x, Numeral(x, Base), Len(x) # 0, NEW by \in Nat, by >= 2
    PROVE  Converted(CharsetBaseConvert(x, by), x, by)
<1> DEFINE z == Significant(x)
           s == Pack(z)
           y == Remainders(s, by)
<1>1. x \in Seq(Nat) /\ x # <<>> /\ ~(by < 2)
  BY DEF Numeral
<1>2. z \in Seq(Nat) /\ (Len(z) >= 1 => z[1] # 0)
  BY <1>1, SignificantIs
<1>3. Numeral(z, Base) /\ Value(z, Base) = Value(x, Base)
  BY <1>1, LimbType, SignificantNumeral, SignificantValue
<1>4. CASE z = <<>>
  <2>1. CharsetBaseConvert(x, by) = <<0>>
    BY <1>1, <1>4, Zenon DEF CharsetBaseConvert
  <2> HIDE DEF z
  <2>2. Value(z, Base) = 0
    BY <1>2, <1>4, LimbType, ValueEnds
  <2>3. <<0>> \in Seq(Nat) /\ Len(<<0>>) = 1 /\ <<0>>[1] = 0 /\ 0 < by
    OBVIOUS
  <2>4. Value(<<0>>, by) = 0
    BY <2>3, ValueEnds
  <2>5. Numeral(<<0>>, by) /\ Canonical(<<0>>)
    BY <2>3 DEF Numeral, Canonical
  <2>6. QED BY <1>3, <2>1, <2>2, <2>4, <2>5, Zenon DEF Converted
<1>5. CASE z # <<>>
  <2>1. CharsetBaseConvert(x, by) = y
    BY <1>1, <1>5, Zenon DEF CharsetBaseConvert
  <2> HIDE DEF z
  <2>2. Len(z) >= 1 /\ Len(z) # 0
    BY <1>2, <1>5
  <2>3. Value(z, Base) # 0
    <3>1. Value(z, Base) \in Nat \ {0}
      BY <1>2, <2>2, LimbType, ValuePositive
    <3>2. QED BY <3>1
  <2>4. Numeral(s, Limb) /\ Len(s) # 0 /\ Value(s, Limb) = Value(z, Base)
    BY <1>3, <2>2, PackIs
  <2> HIDE DEF s
  <2>5. /\ Numeral(y, by) /\ Len(y) >= 1 /\ y[1] # 0
        /\ Value(y, by) = Value(s, Limb)
    BY <2>3, <2>4, RemaindersIs
  <2> HIDE DEF y
  <2>6. Canonical(y)
    BY <2>5 DEF Canonical
  <2>7. QED BY <1>3, <2>1, <2>4, <2>5, <2>6, Zenon DEF Converted
<1>6. QED BY <1>4, <1>5

(* No longer in a larger base.                                              *)
LEMMA ConvertedShort ==
    ASSUME NEW x, Numeral(x, Base), Len(x) # 0, NEW y, Converted(y, x, Base + 1)
    PROVE  Len(y) \in Nat /\ Len(y) <= Len(x)
<1> DEFINE N == Len(x)
           n == Len(y)
           by == Base + 1
<1>1. N \in Nat /\ N # 0 /\ x \in Seq(Nat)
  BY DEF Numeral
<1>2. Base \in Nat /\ by \in Nat \ {0} /\ Base <= by /\ Base \in Nat \ {0}
  BY LimbType
<1>3. y \in Seq(Nat) /\ n \in Nat /\ y # <<>> /\ (y[1] = 0 => n = 1)
      /\ Value(y, by) = Value(x, Base)
  BY DEF Converted, Numeral, Canonical
<1>4. n >= 1
  BY <1>3
<1>5. CASE y[1] = 0
  <2> HIDE DEF N, n
  <2>1. QED BY <1>1, <1>3, <1>5 DEF N, n
<1>6. CASE y[1] # 0
  <2> SUFFICES ASSUME ~(n <= N) PROVE FALSE
    BY <1>3
  <2>1. Value(y, by) >= Power(by, n - 1)
    <3> HIDE DEF by
    <3>1. QED BY <1>2, <1>3, <1>4, <1>6, ValueAtLeast
  <2>2. Value(x, Base) < Power(Base, N)
    BY <1>2, ValueBelow
  <2> HIDE DEF N, n, by
  <2>3. n - 1 \in Nat /\ N <= n - 1
    BY <1>1, <1>3, <1>4
  <2>4. Power(Base, N) <= Power(by, N)
    BY <1>1, <1>2, PowerBases
  <2>5. Power(by, N) <= Power(by, n - 1)
    BY <1>1, <1>2, <2>3, PowerLarger
  <2>6. /\ Power(Base, N) \in Nat /\ Power(by, N) \in Nat /\ Power(by, n - 1) \in Nat
        /\ Value(x, Base) \in Nat
    BY <1>1, <1>2, <2>3, PowerNext, ValueType
  <2>7. QED BY <1>3, <2>1, <2>2, <2>4, <2>5, <2>6
<1>7. QED BY <1>5, <1>6

(* Zeros in front make up the length.                                       *)
LEMMA HashAtomsBase17Is ==
    ASSUME NEW x, Numeral(x, Base), Len(x) # 0, NEW length \in Nat, Len(x) <= length
    PROVE  /\ Numeral(HashAtomsBase17(x, length), Base + 1)
           /\ Len(HashAtomsBase17(x, length)) = length
           /\ Value(HashAtomsBase17(x, length), Base + 1) = Value(x, Base)
<1> DEFINE by == Base + 1
           y == CharsetBaseConvert(x, by)
           n == Len(y)
           short == IF n < length THEN length - n ELSE 0
           z == [i \in 1..short |-> 0]
           h == z \o y
<1>1. HashAtomsBase17(x, length) = h
  BY Zenon DEF HashAtomsBase17
<1>2. by \in Nat /\ by >= 2
  BY HexAssumption
<1>3. Converted(y, x, by)
  BY <1>2, CharsetBaseConvertIs
<1> HIDE DEF y
<1>4. n \in Nat /\ n <= Len(x)
  BY <1>3, ConvertedShort
<1>5. y \in Seq(Nat) /\ Numeral(y, by) /\ Value(y, by) = Value(x, Base)
  BY <1>3 DEF Converted, Numeral
<1>6. Len(x) \in Nat
  BY DEF Numeral
<1>7. short \in Nat /\ short + n = length
  <2> HIDE DEF n
  <2>1. QED BY <1>4, <1>6
<1> HIDE DEF short, by
<1>8. z \in Seq(Nat) /\ Len(z) = short /\ \A i \in 1..short : z[i] = 0
  BY <1>7
<1> HIDE DEF z
<1>9. Joined(h, z, y)
  BY <1>5, <1>8, JoinConcat
<1> HIDE DEF h
<1>10. /\ h \in Seq(Nat) /\ Len(h) = short + n
       /\ \A i \in 1..short : h[i] = z[i]
       /\ \A i \in 1..n : h[short + i] = y[i]
  BY <1>8, <1>9, Zenon DEF Joined
<1>11. \A i \in 1..n : y[i] < by
  BY <1>5 DEF Numeral
<1> HIDE DEF n
<1>12. ASSUME NEW i \in 1..(short + n) PROVE h[i] < by
  <2>1. CASE i \in 1..short
    BY <1>2, <1>8, <1>10, <2>1
  <2>2. CASE i \notin 1..short
    <3>1. i - short \in 1..n /\ short + (i - short) = i
      BY <1>4, <1>7, <2>2
    <3>2. h[short + (i - short)] = y[i - short] /\ y[i - short] < by
      BY <1>10, <1>11, <3>1
    <3>3. QED BY <3>1, <3>2
  <2>3. QED BY <2>1, <2>2
<1>13. Numeral(h, by)
  BY <1>10, <1>12 DEF Numeral
<1>14. Value(h, by) = Value(x, Base)
  <2>1. Value(h, by) = Value(z, by) * Power(by, n) + Value(y, by)
    BY <1>2, <1>9, JoinedValue DEF n
  <2>2. Value(z, by) = 0
    BY <1>2, <1>8, ValueZero
  <2>3. PICK p, v \in Nat : p = Power(by, n) /\ v = Value(y, by)
    BY <1>2, <1>4, <1>5, PowerNext, ValueType
  <2>4. 0 * p + v = v
    OBVIOUS
  <2>5. QED BY <1>5, <2>1, <2>2, <2>3, <2>4, Zenon
<1>15. QED BY <1>1, <1>7, <1>10, <1>13, <1>14, Zenon DEF by

(* A hash has at most so many digits.                                       *)
LEMMA HexLong ==
    ASSUME NEW n \in Nat, NEW x \in Hex(n)
    PROVE  Len(x) <= n
<1> DEFINE D == 0..(Base - 1)
<1>1. x \in UNION {[1..m -> D] : m \in 0..n}
  BY Zenon DEF Hex, BoundedSeq, SeqOf
<1> HIDE DEF D
<1>2. PICK m \in 0..n : x \in [1..m -> D]
  BY <1>1, Zenon
<1>3. QED BY <1>2

(* charsetBaseConvert and hashAtomsBase17: a hash keeps its value in the    *)
(* other base, over any number of limbs, and a molecular hash has the one   *)
(* length that what reads it relies on.                                     *)
THEOREM RadixExactCorrect == Spec => []RadixExact
<1>1. ASSUME Converting, job.digits # <<>>, job.base > 1 PROVE RadixExact
  <2>1. PICK digits \in Hex(HexLength), base \in Radixes :
          /\ job = [call |-> "convert", digits |-> digits, base |-> base]
          /\ result = CharsetBaseConvert(digits, base)
    BY <1>1 DEF Converting
  <2>2. job.digits = digits /\ job.base = base /\ job.call # "hash"
    BY <2>1
  <2>3. base \in Nat /\ base >= 2
    <3>1. base \in Nat
      BY CodecsAssumption
    <3>2. QED BY <1>1, <2>2, <3>1
  <2>4. Numeral(digits, Base) /\ Len(digits) # 0
    BY <1>1, <2>2, HexNumeral
  <2>5. Converted(result, digits, base)
    BY <2>1, <2>3, <2>4, CharsetBaseConvertIs
  <2>6. DOMAIN result = 1..Len(result) /\ \A i \in 1..Len(result) : result[i] < base
    BY <2>5 DEF Converted, Numeral
  <2>7. QED BY <2>2, <2>5, <2>6, Zenon DEF RadixExact, Converted
<1>2. ASSUME Hashing, job.digits # <<>> PROVE RadixExact
  <2>1. PICK digits \in Hex(HexLength) :
          /\ job = [call |-> "hash", digits |-> digits, base |-> Base + 1]
          /\ result = HashAtomsBase17(digits, HexLength)
    BY <1>2 DEF Hashing
  <2>2. job.digits = digits /\ job.base = Base + 1 /\ job.call = "hash"
    BY <2>1
  <2>3. HexLength \in Nat
    BY CodecsAssumption
  <2>4. Numeral(digits, Base) /\ Len(digits) # 0 /\ Len(digits) <= HexLength
    BY <1>2, <2>2, <2>3, HexNumeral, HexLong
  <2>5. /\ Numeral(result, Base + 1) /\ Len(result) = HexLength
        /\ Value(result, Base + 1) = Value(digits, Base)
    BY <2>1, <2>3, <2>4, HashAtomsBase17Is
  <2>6. DOMAIN result = 1..Len(result) /\ \A i \in 1..Len(result) : result[i] < Base + 1
    BY <2>5 DEF Numeral
  <2>7. QED BY <2>2, <2>5, <2>6, Zenon DEF RadixExact
<1>3. ASSUME Answered, Called("convert") \/ Called("hash") PROVE Converting \/ Hashing
  <2>1. job # Idle /\ job.call \in {"convert", "hash"}
    BY <1>3 DEF Called
  <2>2. ~Adding /\ ~Encoding
    BY <2>1 DEF Adding, Encoding
  <2>3. ~Decoding /\ ~Making
    BY <2>1 DEF Decoding, Making
  <2>4. ~Binding
    <3>1. \A w, other : job = [call |-> "bind", w |-> w, other |-> other] => job.call = "bind"
      OBVIOUS
    <3>2. job.call # "bind"
      BY <2>1
    <3>3. QED BY <3>1, <3>2, Zenon DEF Binding
  <2>5. ~Stamping /\ ~Passing
    BY <2>1 DEF Stamping, Passing
  <2>6. QED BY <1>3, <2>1, <2>2, <2>3, <2>4, <2>5 DEF Answered
<1>4. Answered => RadixExact
  <2> SUFFICES ASSUME Answered, Called("convert") \/ Called("hash"),
                      job.digits # <<>>, job.base > 1
               PROVE  RadixExact
    BY Zenon DEF RadixExact
  <2>1. QED BY <1>1, <1>2, <1>3
<1>5. QED BY <1>4, AlwaysAnswered, PTL

-----------------------------------------------------------------------------
(* Base 64.                                                                 *)

(* One numeral of each length and value.                                    *)
SameNumber(x, y, base) ==
    /\ Numeral(x, base) /\ Numeral(y, base)
    /\ Len(x) = Len(y) /\ Value(x, base) = Value(y, base)

(* Read from the last digit: value and length determine the digits.         *)
LEMMA NumeralUnique ==
    ASSUME NEW base \in Nat \ {0}, NEW x, NEW y, SameNumber(x, y, base)
    PROVE  x = y
<1> DEFINE N == Len(x)
<1>1. N \in Nat /\ \A k \in 1..N : x[k] \in Nat /\ x[k] < base
  BY DEF SameNumber, Numeral
<1>2. Len(y) = N /\ Value(x, base) = Value(y, base)
  BY DEF SameNumber
<1>3. \A k \in 1..N : y[k] \in Nat /\ y[k] < base
  <2>1. \A k \in 1..Len(y) : y[k] \in Nat /\ y[k] < base
    BY DEF SameNumber, Numeral
  <2>2. QED BY <1>2, <2>1
<1>4. x \in Seq(Nat) /\ y \in Seq(Nat)
  BY DEF SameNumber, Numeral
<1>5. PICK v : PrefixValues(v, x, base) /\ Value(x, base) = v[N]
  BY <1>4, PrefixesExist
<1>6. PICK w : PrefixValues(w, y, base) /\ Value(y, base) = w[N]
  <2>1. PICK w : PrefixValues(w, y, base) /\ Value(y, base) = w[Len(y)]
    BY <1>4, PrefixesExist
  <2>2. QED BY <1>2, <2>1
<1>7. v \in [0..N -> Nat] /\ \A k \in 1..N : v[k] = v[k - 1] * base + x[k]
  BY <1>5, Zenon DEF PrefixValues
<1>8. w \in [0..N -> Nat] /\ \A k \in 1..N : w[k] = w[k - 1] * base + y[k]
  BY <1>2, <1>6, Zenon DEF PrefixValues
<1>9. x = [k \in 1..N |-> x[k]] /\ y = [k \in 1..N |-> y[k]]
  <2>1. y = [k \in 1..Len(y) |-> y[k]]
    BY <1>4
  <2>2. QED BY <1>2, <1>4, <2>1
<1> HIDE DEF N
<1>10. ASSUME NEW k \in 1..N, v[k] = w[k] PROVE v[k - 1] = w[k - 1] /\ x[k] = y[k]
  <2>1. k - 1 \in 0..N
    BY <1>1
  <2>2. v[k - 1] \in Nat /\ w[k - 1] \in Nat /\ x[k] \in Nat /\ y[k] \in Nat
    BY <1>1, <1>3, <1>7, <1>8, <2>1
  <2>3. PICK a, b, c, d \in Nat : a = v[k - 1] /\ b = w[k - 1] /\ c = x[k] /\ d = y[k]
    BY <2>2
  <2>4. c < base /\ d < base
    BY <1>1, <1>3, <2>3
  <2>5. a * base + c = b * base + d
    BY <1>7, <1>8, <1>10, <2>3, Zenon
  <2>6. PICK t \in Nat : t = a * base + c
    OBVIOUS
  <2>7. t \div base = a /\ t % base = c
    BY <2>4, <2>6, QuotientIs
  <2>8. t \div base = b /\ t % base = d
    BY <2>4, <2>5, <2>6, QuotientIs
  <2>9. QED BY <2>3, <2>7, <2>8, Zenon
<1> DEFINE Known == {j \in Nat : j <= N => v[N - j] = w[N - j]}
<1>11. 0 \in Known
  <2>1. N - 0 = N
    BY <1>1
  <2>2. v[N] = w[N]
    BY <1>2, <1>5, <1>6
  <2>3. QED BY <2>1, <2>2
<1>12. ASSUME NEW j \in Nat, j \in Known PROVE j + 1 \in Known
  <2> SUFFICES ASSUME j + 1 <= N PROVE v[N - (j + 1)] = w[N - (j + 1)]
    OBVIOUS
  <2>1. N - j \in 1..N /\ (N - j) - 1 = N - (j + 1) /\ j <= N
    BY <1>1
  <2>2. v[N - j] = w[N - j]
    BY <1>12, <2>1
  <2>3. v[(N - j) - 1] = w[(N - j) - 1]
    BY <1>10, <2>1, <2>2
  <2>4. QED BY <2>1, <2>3
<1>13. \A j \in Nat : j \in Known
  <2> HIDE DEF Known
  <2>1. QED BY <1>11, <1>12, Naturals0
<1>14. ASSUME NEW k \in 1..N PROVE x[k] = y[k]
  <2>1. N - k \in Nat /\ N - k <= N /\ N - (N - k) = k
    BY <1>1
  <2>2. v[k] = w[k]
    BY <1>13, <2>1
  <2>3. QED BY <1>10, <2>2
<1>15. QED BY <1>9, <1>14, Zenon

(* What is joined is the concatenation.                                     *)
LEMMA JoinedIs ==
    ASSUME NEW x, NEW y, NEW z, Joined(x, y, z)
    PROVE  x = y \o z
<1> DEFINE n == Len(y)
           m == Len(z)
           h == y \o z
<1>1. /\ x \in Seq(Nat) /\ y \in Seq(Nat) /\ z \in Seq(Nat) /\ Len(x) = n + m
      /\ \A i \in 1..n : x[i] = y[i]
      /\ \A i \in 1..m : x[n + i] = z[i]
  BY Zenon DEF Joined
<1>2. Joined(h, y, z)
  BY <1>1, JoinConcat
<1>3. n \in Nat /\ m \in Nat
  BY <1>1
<1> HIDE DEF h
<1>4. /\ h \in Seq(Nat) /\ Len(h) = n + m
      /\ \A i \in 1..n : h[i] = y[i]
      /\ \A i \in 1..m : h[n + i] = z[i]
  BY <1>2, Zenon DEF Joined
<1>5. x = [i \in 1..Len(x) |-> x[i]] /\ h = [i \in 1..Len(h) |-> h[i]]
  BY <1>1, <1>4
<1> HIDE DEF n, m
<1>6. ASSUME NEW i \in 1..(n + m) PROVE x[i] = h[i]
  <2>1. CASE i \in 1..n
    BY <1>1, <1>4, <2>1, Zenon
  <2>2. CASE i \notin 1..n
    <3>1. i - n \in 1..m /\ n + (i - n) = i
      BY <1>3, <2>2
    <3>2. x[n + (i - n)] = h[n + (i - n)]
      BY <1>1, <1>4, <3>1, Zenon
    <3>3. QED BY <3>1, <3>2
  <2>3. QED BY <2>1, <2>2
<1>7. x = h
  BY <1>1, <1>4, <1>5, <1>6, Zenon
<1>8. QED BY <1>7 DEF h

(* Of the alphabet first, and nothing of it after.                          *)
SymbolsFirst(text, n) ==
    /\ text \in Seq(Nat) /\ n \in 0..Len(text)
    /\ \A i \in 1..n : text[i] < Symbol
    /\ \A i \in (n + 1)..Len(text) : ~(text[i] < Symbol)

(* Then these are the symbols.                                              *)
LEMMA SymbolsAre ==
    ASSUME NEW text, NEW n, SymbolsFirst(text, n)
    PROVE  Symbols(text) = [i \in 1..n |-> text[i]]
<1> DEFINE N == Len(text)
           F(f) == [k \in 0..N |->
                       IF k = 0 THEN <<>>
                       ELSE IF text[k] < Symbol THEN Append(f[k - 1], text[k]) ELSE f[k - 1]]
           e == CHOOSE f : f = F(f)
           upto(k) == IF k <= n THEN k ELSE n
           G(k) == [i \in 1..upto(k) |-> text[i]]
           p == [k \in 0..N |-> G(k)]
<1>1. text \in Seq(Nat) /\ N \in Nat /\ n \in 0..N /\ \A i \in 1..N : text[i] \in Nat
  BY DEF SymbolsFirst
<1>2. /\ \A i \in 1..n : text[i] < Symbol
      /\ \A i \in (n + 1)..N : ~(text[i] < Symbol)
  BY DEF SymbolsFirst
<1>3. Symbols(text) = e[N]
  BY Zenon DEF Symbols
<1> HIDE DEF N
<1>4. G(0) = <<>>
  <2>1. upto(0) = 0
    BY <1>1
  <2>2. 1..0 = {}
    OBVIOUS
  <2> HIDE DEF upto
  <2>3. QED BY <2>1, <2>2
<1>5. ASSUME NEW k \in 1..N
      PROVE  G(k) = IF text[k] < Symbol THEN Append(G(k - 1), text[k]) ELSE G(k - 1)
  <2>1. CASE k <= n
    <3>1. k \in 1..n /\ upto(k) = k /\ upto(k - 1) = k - 1 /\ k - 1 \in Nat
      BY <1>1, <2>1
    <3>2. text[k] < Symbol
      BY <1>2, <3>1
    <3>3. G(k) = [i \in 1..k |-> text[i]] /\ G(k - 1) = [i \in 1..(k - 1) |-> text[i]]
      BY <3>1
    <3>4. Append([i \in 1..(k - 1) |-> text[i]], text[k]) = [i \in 1..k |-> text[i]]
      <4>1. \A i \in 1..(k - 1) : text[i] \in Nat
        BY <1>1
      <4> DEFINE s == [i \in 1..(k - 1) |-> text[i]]
      <4>2. s \in Seq(Nat) /\ Len(s) = k - 1 /\ \A i \in 1..(k - 1) : s[i] = text[i]
        BY <3>1, <4>1
      <4>3. text[k] \in Nat
        BY <1>1
      <4> DEFINE t == Append(s, text[k])
      <4> HIDE DEF s
      <4>4. t \in Seq(Nat) /\ Len(t) = k /\ \A i \in 1..k : t[i] = text[i]
        BY <3>1, <4>2, <4>3
      <4> HIDE DEF t
      <4>5. t = [i \in 1..k |-> text[i]]
        BY <4>4
      <4>6. QED BY <4>5 DEF t, s
    <3> HIDE DEF G
    <3>5. QED BY <3>2, <3>3, <3>4, Zenon
  <2>2. CASE ~(k <= n)
    <3>1. k \in (n + 1)..N /\ upto(k) = n /\ upto(k - 1) = n
      BY <1>1, <2>2
    <3>2. ~(text[k] < Symbol)
      BY <1>2, <3>1
    <3>3. G(k) = G(k - 1)
      BY <3>1, Zenon
    <3>4. QED BY <3>2, <3>3, Zenon
  <2>3. QED BY <2>1, <2>2
<1>6. G(N) = [i \in 1..n |-> text[i]]
  <2>1. upto(N) = n
    BY <1>1
  <2>2. QED BY <2>1, Zenon
<1> HIDE DEF G
<1>7. \A k \in 0..N : p[k] = G(k)
  OBVIOUS
<1>8. ASSUME NEW k \in 1..N
      PROVE  p[k] = IF text[k] < Symbol THEN Append(p[k - 1], text[k]) ELSE p[k - 1]
  <2>1. k \in 0..N /\ k - 1 \in 0..N
    BY <1>1
  <2>2. p[k] = G(k) /\ p[k - 1] = G(k - 1)
    BY <1>7, <2>1, Zenon
  <2>3. QED BY <1>5, <2>2, Zenon
<1>9. p[0] = <<>> /\ p[N] = G(N) /\ p = [k \in 0..N |-> p[k]]
  BY <1>1, <1>4, <1>7
<1> HIDE DEF p
<1>10. e = F(e)
  <2>1. p = F(p)
    <3> DEFINE H(k) == IF k = 0 THEN <<>>
                       ELSE IF text[k] < Symbol THEN Append(p[k - 1], text[k]) ELSE p[k - 1]
    <3>1. \A k \in 0..N : p[k] = H(k)
      <4>1. \A k \in 0..N : k = 0 \/ (k # 0 /\ k \in 1..N)
        BY <1>1
      <4>2. QED BY <1>8, <1>9, <4>1, Zenon
    <3>2. QED BY <1>9, <3>1, Zenon
  <2> HIDE DEF F
  <2>2. QED BY <2>1, Zenon
<1> HIDE DEF e
<1>11. e[N] = p[N]
  <2>1. e[0] = p[0]
    <3>1. 0 \in 0..N
      BY <1>1
    <3>2. e[0] = <<>>
      BY <1>10, <3>1, Zenon
    <3>3. QED BY <1>9, <3>2, Zenon
  <2>2. ASSUME NEW k \in 1..N, p[k - 1] = e[k - 1] PROVE p[k] = e[k]
    <3>1. k \in 0..N /\ k # 0
      BY <1>1
    <3>2. e[k] = IF text[k] < Symbol THEN Append(e[k - 1], text[k]) ELSE e[k - 1]
      BY <1>10, <3>1, Zenon
    <3>3. p[k] = IF text[k] < Symbol THEN Append(p[k - 1], text[k]) ELSE p[k - 1]
      BY <1>8
    <3>4. CASE text[k] < Symbol
      <4>1. e[k] = Append(e[k - 1], text[k]) /\ p[k] = Append(p[k - 1], text[k])
        BY <3>2, <3>3, <3>4, Zenon
      <4>2. QED BY <2>2, <4>1, Zenon
    <3>5. CASE ~(text[k] < Symbol)
      <4>1. e[k] = e[k - 1] /\ p[k] = p[k - 1]
        BY <3>2, <3>3, <3>5, Zenon
      <4>2. QED BY <2>2, <4>1, Zenon
    <3>6. QED BY <3>4, <3>5
  <2>3. Alike(p, e, N)
    BY <2>1, <2>2, Zenon DEF Alike
  <2>4. \A k \in 0..N : p[k] = e[k]
    BY <1>1, <2>3, SameLoops
  <2>5. N \in 0..N
    BY <1>1
  <2>6. QED BY <2>4, <2>5
<1>12. QED BY <1>3, <1>6, <1>9, <1>11, Zenon

(* A power of a product.                                                    *)
LEMMA PowerTimes ==
    ASSUME NEW a \in Nat, NEW b \in Nat, NEW n \in Nat
    PROVE  Power(a * b, n) = Power(a, n) * Power(b, n)
<1> DEFINE c == a * b
           R(k) == Power(c, k)
           P(k) == Power(a, k)
           Q(k) == Power(b, k)
           Known == {k \in Nat : R(k) = P(k) * Q(k)}
<1>1. c \in Nat
  OBVIOUS
<1>2. R(0) = 1 /\ \A k \in Nat : R(k + 1) = c * R(k)
  <2> HIDE DEF c
  <2>1. QED BY <1>1, PowerNext
<1>3. /\ P(0) = 1 /\ \A k \in Nat : P(k) \in Nat /\ P(k + 1) = a * P(k)
      /\ Q(0) = 1 /\ \A k \in Nat : Q(k) \in Nat /\ Q(k + 1) = b * Q(k)
  BY PowerNext
<1> HIDE DEF P, Q, R
<1>4. 0 \in Known
  <2>1. 1 * 1 = 1
    OBVIOUS
  <2>2. QED BY <1>2, <1>3, <2>1
<1>5. ASSUME NEW k \in Nat, k \in Known PROVE k + 1 \in Known
  <2>1. PICK p, q \in Nat : p = P(k) /\ q = Q(k)
    BY <1>3
  <2>2. (a * b) * (p * q) = (a * p) * (b * q)
    OBVIOUS
  <2>3. R(k) = p * q
    BY <1>5, <2>1
  <2>4. R(k + 1) = c * R(k) /\ P(k + 1) = a * P(k) /\ Q(k + 1) = b * Q(k)
    BY <1>2, <1>3
  <2>5. R(k + 1) = P(k + 1) * Q(k + 1)
    BY <2>1, <2>2, <2>3, <2>4, Zenon DEF c
  <2>6. QED BY <2>5
<1>6. n \in Known
  <2> HIDE DEF Known
  <2>1. QED BY <1>4, <1>5, Naturals0
<1>7. QED BY <1>6 DEF P, Q, R, c

(* Three bytes are four symbols.                                            *)
LEMMA Units ==
    /\ Symbol \in Nat \ {0} /\ Byte \in Nat \ {0}
    /\ Power(Byte, 3) = Power(Symbol, 4)
    /\ \E u \in Nat : Byte = Symbol * u
<1>1. PICK u \in 1..Base : Base = u * u /\ Symbol = u * u * u
  BY Base64Assumption
<1>2. u \in Nat \ {0}
  BY LimbType
<1>3. Symbol \in Nat \ {0} /\ Byte \in Nat \ {0}
  <2>1. \A x, y \in Nat \ {0} : x * y \in Nat \ {0}
    OBVIOUS
  <2>2. u * u \in Nat \ {0}
    BY <1>2, <2>1
  <2>3. u * u * u \in Nat \ {0} /\ (u * u) * (u * u) \in Nat \ {0}
    BY <1>2, <2>1, <2>2
  <2>4. QED BY <1>1, <2>3 DEF Byte
<1>4. Byte = Symbol * u
  <2>1. (u * u) * (u * u) = (u * u * u) * u
    BY <1>2
  <2>2. QED BY <1>1, <2>1, Zenon DEF Byte
<1>5. Power(u, 3) = Symbol
  <2>1. Power(u, 0) = 1 /\ Power(u, 0 + 1) = u * Power(u, 0)
        /\ Power(u, 1 + 1) = u * Power(u, 1) /\ Power(u, 2 + 1) = u * Power(u, 2)
    BY <1>2, PowerNext
  <2>2. 0 + 1 = 1 /\ 1 + 1 = 2 /\ 2 + 1 = 3 /\ u * 1 = u /\ u * (u * u) = u * u * u
    BY <1>2
  <2>3. Power(u, 1) = u
    BY <2>1, <2>2, Zenon
  <2>4. Power(u, 2) = u * u
    BY <2>1, <2>2, <2>3, Zenon
  <2>5. QED BY <1>1, <2>1, <2>2, <2>4, Zenon
<1>6. Power(Byte, 3) = Power(Symbol, 3) * Symbol
  <2>1. Power(Symbol * u, 3) = Power(Symbol, 3) * Power(u, 3)
    BY <1>2, <1>3, PowerTimes
  <2>2. QED BY <1>4, <1>5, <2>1, Zenon
<1>7. Power(Symbol, 4) = Power(Symbol, 3) * Symbol
  <2>1. Power(Symbol, 3 + 1) = Symbol * Power(Symbol, 3) /\ Power(Symbol, 3) \in Nat
    BY <1>3, PowerNext
  <2>2. PICK a, b \in Nat : a = Symbol /\ b = Power(Symbol, 3)
    BY <1>3, <2>1
  <2>3. a * b = b * a /\ 3 + 1 = 4
    OBVIOUS
  <2>4. QED BY <2>1, <2>2, <2>3, Zenon
<1>8. u \in Nat
  BY <1>2
<1>9. QED BY <1>3, <1>4, <1>6, <1>7, <1>8, Zenon

(* The value of a group, shifted to the front: less than that of three      *)
(* bytes, and of the symbols it is written with.                            *)
Shifted(g) == Value(g, Byte) * Power(Byte, 3 - Len(g))

ShiftedTo(v, base, width, shift) ==
    /\ v \div Power(base, shift) \in Nat
    /\ v \div Power(base, shift) < Power(base, width)
    /\ v = (v \div Power(base, shift)) * Power(base, shift)

(* The shift loses nothing, and leaves zeros behind the last symbol.        *)
LEMMA ShiftedIs ==
    ASSUME NEW g, Numeral(g, Byte), Len(g) \in 1..3
    PROVE  /\ Shifted(g) \in Nat
           /\ Shifted(g) \div Power(Byte, 3 - Len(g)) = Value(g, Byte)
           /\ ShiftedTo(Shifted(g), Symbol, Len(g) + 1, 3 - Len(g))
<1> DEFINE m == Len(g)
           k == 3 - m
           G == Value(g, Byte)
           b == Power(Byte, k)
           s == Power(Symbol, k)
           V == Shifted(g)
<1>0. m \in 1..3 /\ k = 3 - m
  OBVIOUS
<1>1. m \in Nat /\ k \in Nat /\ m + k = 3 /\ (m + 1) + k = 4 /\ m + 1 \in Nat
  <2> HIDE DEF m, k
  <2>1. QED BY <1>0
<1>2. Symbol \in Nat \ {0} /\ Byte \in Nat \ {0}
  BY Units
<1>3. PICK u \in Nat : Byte = Symbol * u
  BY Units
<1>4. g \in Seq(Nat)
  BY DEF Numeral
<1>5. G \in Nat /\ G < Power(Byte, m)
  BY <1>2, <1>4, ValueType, ValueBelow
<1>6. V = G * b
  BY Zenon DEF Shifted
<1> HIDE DEF m, k, V, G
<1>7. b \in Nat \ {0} /\ s \in Nat \ {0} /\ Power(u, k) \in Nat
  BY <1>1, <1>2, PowerGrows, PowerNext
<1>8. b = s * Power(u, k)
  <2>1. Power(Symbol * u, k) = Power(Symbol, k) * Power(u, k)
    BY <1>1, <1>2, PowerTimes
  <2>2. QED BY <1>3, <2>1, Zenon
<1>9. /\ Power(Byte, 3) = Power(Byte, m) * b
      /\ Power(Symbol, 4) = Power(Symbol, m + 1) * s
      /\ Power(Byte, m) \in Nat /\ Power(Symbol, m + 1) \in Nat
      /\ Power(Byte, 3) = Power(Symbol, 4)
  <2>1. Power(Byte, m + k) = Power(Byte, m) * b
    BY <1>1, <1>2, PowerSum
  <2>2. Power(Symbol, (m + 1) + k) = Power(Symbol, m + 1) * s
    BY <1>1, <1>2, PowerSum
  <2>3. Power(Byte, m) \in Nat /\ Power(Symbol, m + 1) \in Nat
    BY <1>1, <1>2, PowerNext
  <2>4. Power(Byte, 3) = Power(Symbol, 4)
    BY Units
  <2> HIDE DEF b, s
  <2>5. QED BY <1>1, <2>1, <2>2, <2>3, <2>4, Zenon
<1> HIDE DEF b, s
<1>10. PICK t \in Nat : t = Power(u, k)
  BY <1>7
<1>11. PICK p, q \in Nat : p = Power(Byte, m) /\ q = Power(Symbol, m + 1)
  BY <1>9
<1>12. V = (G * t) * s
  <2>1. G * (s * t) = (G * t) * s
    BY <1>5, <1>7
  <2>2. QED BY <1>6, <1>8, <1>10, <2>1, Zenon
<1>13. G * b \in Nat /\ V \in Nat /\ G * t \in Nat
  <2>1. G * b \in Nat /\ G * t \in Nat
    BY <1>5, <1>7
  <2>2. QED BY <1>6, <2>1
<1>14. V \div b = G
  <2>1. V = G * b + 0 /\ 0 < b
    BY <1>6, <1>7, <1>13
  <2>2. QED BY <1>5, <1>7, <1>13, <2>1, QuotientIs
<1>15. V \div s = G * t
  <2>1. V = (G * t) * s + 0 /\ 0 < s
    BY <1>7, <1>12, <1>13
  <2>2. QED BY <1>7, <1>13, <2>1, QuotientIs
<1>16. G * t < q
  <2>1. p * b = q * s
    BY <1>9, <1>11, Zenon
  <2>2. G * b < p * b
    <3>1. G + 1 <= p
      BY <1>5, <1>11
    <3>2. (G + 1) * b <= p * b
      BY <1>5, <1>7, <3>1
    <3>3. (G + 1) * b = G * b + b /\ p * b \in Nat
      BY <1>5, <1>7
    <3>4. QED BY <1>7, <1>13, <3>2, <3>3
  <2>3. (G * t) * s < q * s
    BY <1>6, <1>12, <2>1, <2>2
  <2>4. PICK w \in Nat : w = G * t
    BY <1>13
  <2>5. w * s < q * s
    BY <2>3, <2>4
  <2>6. w < q
    <3> SUFFICES ASSUME q <= w PROVE FALSE
      OBVIOUS
    <3>1. q * s <= w * s /\ q * s \in Nat /\ w * s \in Nat
      BY <1>7
    <3>2. QED BY <2>5, <3>1
  <2>7. QED BY <2>4, <2>6
<1>17. ShiftedTo(V, Symbol, m + 1, k)
  BY <1>11, <1>12, <1>13, <1>15, <1>16, Zenon DEF ShiftedTo, s
<1>18. QED BY <1>13, <1>14, <1>17 DEF V, m, k, G, b

(* A number without its last digits, written out.                           *)
LEMMA ShiftedDigits ==
    ASSUME NEW v \in Nat, NEW base \in Nat \ {0}, NEW width \in Nat, NEW shift \in Nat,
           NEW i \in 1..width
    PROVE  WrittenIn(v \div Power(base, shift), width, base)[i]
             = (v \div Power(base, (width - i) + shift)) % base
<1> DEFINE w == v \div Power(base, shift)
<1>1. width - i \in Nat
  OBVIOUS
<1>2. Power(base, shift) \in Nat \ {0} /\ Power(base, width - i) \in Nat \ {0}
  BY <1>1, PowerNext, PowerGrows
<1>3. w \div Power(base, width - i) = v \div (Power(base, width - i) * Power(base, shift))
  BY <1>2, DivideTwice
<1>4. Power(base, (width - i) + shift) = Power(base, width - i) * Power(base, shift)
  BY <1>1, PowerSum
<1> HIDE DEF w
<1>5. WrittenIn(w, width, base)[i] = (w \div Power(base, width - i)) % base
  BY DEF WrittenIn
<1>6. QED BY <1>3, <1>4, <1>5, Zenon DEF w

(* The four symbols of a group.                                             *)
Four(g) == [i \in 1..4 |-> Encoded(g)[i - 1]]

(* One symbol more than bytes, and padding.                                 *)
LEMMA FourAre ==
    ASSUME NEW g, Numeral(g, Byte), Len(g) \in 1..3
    PROVE  /\ Four(g) \in Seq(Nat) /\ Len(Four(g)) = 4
           /\ SymbolsFirst(Four(g), Len(g) + 1)
           /\ Symbols(Four(g)) = WrittenIn(Shifted(g) \div Power(Symbol, 3 - Len(g)), Len(g) + 1, Symbol)
<1> DEFINE m == Len(g)
           V == Shifted(g)
           D(j) == (V \div Power(Symbol, 3 - j)) % Symbol
           t == Four(g)
           W == V \div Power(Symbol, 3 - m)
           y == WrittenIn(W, m + 1, Symbol)
<1>1. m \in 1..3
  OBVIOUS
<1>2. V \in Nat
  BY ShiftedIs
<1>3. Symbol \in Nat \ {0}
  BY Units
<1>4. Encoded(g) = [j \in 0..3 |-> IF j <= m THEN D(j) ELSE Pad]
  BY Zenon DEF Encoded, Shifted
<1> HIDE DEF m, V
<1>5. ASSUME NEW j \in 0..3 PROVE D(j) \in Nat /\ D(j) < Symbol
  <2>1. Power(Symbol, 3 - j) \in Nat \ {0}
    BY <1>3, PowerNext, PowerGrows
  <2>2. V \div Power(Symbol, 3 - j) \in Nat
    BY <1>2, <2>1, Quotient
  <2>3. QED BY <1>3, <2>2, Quotient
<1> HIDE DEF D
<1>6. ASSUME NEW i \in 1..4 PROVE t[i] = IF i - 1 <= m THEN D(i - 1) ELSE Pad
  <2>1. i - 1 \in 0..3
    OBVIOUS
  <2>2. t[i] = Encoded(g)[i - 1]
    BY DEF Four
  <2>3. QED BY <1>4, <2>1, <2>2
<1>7. ASSUME NEW i \in 1..4 PROVE t[i] \in Nat
  BY <1>3, <1>5, <1>6 DEF Pad
<1>8. t \in Seq(Nat) /\ Len(t) = 4
  <2>1. t = [i \in 1..4 |-> t[i]]
    BY Zenon DEF Four
  <2> HIDE DEF t
  <2>2. QED BY <1>7, <2>1
<1> HIDE DEF t
<1>9. SymbolsFirst(t, m + 1)
  <2>1. \A i \in 1..(m + 1) : t[i] < Symbol
    <3>1. ASSUME NEW i \in 1..(m + 1) PROVE t[i] < Symbol
      <4>1. i \in 1..4 /\ i - 1 <= m /\ i - 1 \in 0..3
        BY <1>1
      <4>2. QED BY <1>5, <1>6, <4>1
    <3>2. QED BY <3>1
  <2>2. \A i \in ((m + 1) + 1)..4 : ~(t[i] < Symbol)
    <3>1. ASSUME NEW i \in ((m + 1) + 1)..4 PROVE ~(t[i] < Symbol)
      <4>1. i \in 1..4 /\ ~(i - 1 <= m)
        BY <1>1
      <4>2. t[i] = Symbol
        BY <1>6, <4>1 DEF Pad
      <4>3. QED BY <1>3, <4>2
    <3>2. QED BY <3>1
  <2>3. m + 1 \in 0..4
    BY <1>1
  <2>4. QED BY <1>8, <2>1, <2>2, <2>3 DEF SymbolsFirst
<1>10. Symbols(t) = [i \in 1..(m + 1) |-> t[i]]
  BY <1>9, SymbolsAre
<1>11. y = [i \in 1..(m + 1) |-> y[i]]
  BY Zenon DEF WrittenIn
<1>12. ASSUME NEW i \in 1..(m + 1) PROVE t[i] = y[i]
  <2>1. /\ i \in 1..4 /\ i - 1 <= m /\ m + 1 \in Nat /\ 3 - m \in Nat
        /\ ((m + 1) - i) + (3 - m) = 3 - (i - 1)
    BY <1>1
  <2>2. y[i] = (V \div Power(Symbol, ((m + 1) - i) + (3 - m))) % Symbol
    <3>1. PICK a, b \in Nat : a = m + 1 /\ b = 3 - m
      BY <2>1
    <3>2. i \in 1..a
      BY <3>1
    <3>3. WrittenIn(V \div Power(Symbol, b), a, Symbol)[i] = (V \div Power(Symbol, (a - i) + b)) % Symbol
      BY <1>2, <1>3, <3>2, ShiftedDigits
    <3>4. QED BY <3>1, <3>3, Zenon
  <2>3. t[i] = D(i - 1)
    BY <1>6, <2>1
  <2>4. QED BY <2>1, <2>2, <2>3, Zenon DEF D
<1> HIDE DEF y
<1>13. Symbols(t) = y
  BY <1>10, <1>11, <1>12, Zenon
<1>14. QED BY <1>8, <1>9, <1>13 DEF t, y, m, V

(* Decoding undoes encoding, group by group.                                *)
LEMMA GroupIs ==
    ASSUME NEW g, Numeral(g, Byte), Len(g) \in 1..3
    PROVE  Decoded(Four(g)) = g
<1> DEFINE m == Len(g)
           V == Shifted(g)
           W == V \div Power(Symbol, 3 - m)
           G == V \div Power(Byte, 3 - m)
           y == WrittenIn(W, m + 1, Symbol)
           z == WrittenIn(G, m, Byte)
           value == Value(y, Symbol) * Power(Symbol, 4 - Len(y))
<1>1. m \in 1..3
  OBVIOUS
<1>2. /\ V \in Nat /\ G = Value(g, Byte)
      /\ W \in Nat /\ W < Power(Symbol, m + 1) /\ V = W * Power(Symbol, 3 - m)
  BY ShiftedIs, Zenon DEF ShiftedTo
<1>3. Symbol \in Nat \ {0} /\ Byte \in Nat \ {0}
  BY Units
<1>4. Symbols(Four(g)) = y
  BY FourAre
<1>5. Decoded(Four(g)) = [j \in 1..(Len(y) - 1) |-> (value \div Power(Byte, 3 - j)) % Byte]
  BY <1>4, Zenon DEF Decoded
<1>6. G \in Nat /\ G < Power(Byte, m)
  <2>1. g \in Seq(Nat)
    BY DEF Numeral
  <2>2. Value(g, Byte) \in Nat /\ Value(g, Byte) < Power(Byte, m)
    BY <1>3, <2>1, ValueType, ValueBelow
  <2>3. QED BY <1>2, <2>2, Zenon
<1> HIDE DEF m, V, W, G
<1>7. m \in Nat /\ m + 1 \in Nat /\ 3 - m \in Nat /\ 4 - (m + 1) = 3 - m /\ (m + 1) - 1 = m
  BY <1>1
<1>8. Len(y) = m + 1 /\ Value(y, Symbol) = W
  BY <1>2, <1>3, <1>7, WrittenInIs
<1> HIDE DEF y
<1>9. value = V
  BY <1>2, <1>7, <1>8, Zenon
<1> HIDE DEF value
<1>10. Decoded(Four(g)) = [j \in 1..m |-> (V \div Power(Byte, 3 - j)) % Byte]
  BY <1>5, <1>7, <1>8, <1>9, Zenon
<1>11. Numeral(z, Byte) /\ Len(z) = m /\ Value(z, Byte) = G
  BY <1>3, <1>6, <1>7, WrittenInIs
<1>12. z = [j \in 1..m |-> z[j]]
  BY Zenon DEF WrittenIn
<1>13. ASSUME NEW j \in 1..m PROVE z[j] = (V \div Power(Byte, 3 - j)) % Byte
  <2>1. (m - j) + (3 - m) = 3 - j
    BY <1>1
  <2>2. z[j] = (V \div Power(Byte, (m - j) + (3 - m))) % Byte
    BY <1>2, <1>3, <1>7, ShiftedDigits DEF G
  <2>3. QED BY <2>1, <2>2, Zenon
<1> HIDE DEF z
<1>14. Decoded(Four(g)) = z
  BY <1>10, <1>12, <1>13, Zenon
<1>15. z = g
  <2>1. SameNumber(z, g, Byte)
    BY <1>2, <1>11 DEF SameNumber, m
  <2>2. QED BY <1>3, <2>1, NumeralUnique
<1>16. QED BY <1>14, <1>15

(* The groups of three, and where each of them ends.                        *)
GroupCount(N) == (N + 2) \div 3
GroupEnd(N, k) == IF k * 3 < N THEN k * 3 ELSE N

(* The groups take all the bytes, one to three each.                        *)
LEMMA GroupsFit ==
    ASSUME NEW N \in Nat
    PROVE  /\ GroupCount(N) \in Nat
           /\ GroupEnd(N, 0) = 0 /\ GroupEnd(N, GroupCount(N)) = N
           /\ \A k \in 0..GroupCount(N) : GroupEnd(N, k) \in 0..N
           /\ \A k \in 1..GroupCount(N) :
                 /\ (k - 1) * 3 = GroupEnd(N, k - 1)
                 /\ GroupEnd(N, k) - GroupEnd(N, k - 1) \in 1..3
<1>1. PICK n, r \in Nat : n = GroupCount(N) /\ r < 3 /\ N + 2 = n * 3 + r
  <2>1. N + 2 \in Nat /\ 3 \in Nat \ {0}
    OBVIOUS
  <2>2. QED BY <2>1, Quotient DEF GroupCount
<1>2. /\ GroupEnd(N, 0) = 0 /\ GroupEnd(N, n) = N
      /\ \A k \in 0..n : GroupEnd(N, k) \in 0..N
  BY <1>1 DEF GroupEnd
<1>3. ASSUME NEW k \in 1..n
      PROVE  /\ (k - 1) * 3 = GroupEnd(N, k - 1)
             /\ GroupEnd(N, k) - GroupEnd(N, k - 1) \in 1..3
  BY <1>1 DEF GroupEnd
<1>4. QED BY <1>1, <1>2, <1>3

(* Each group goes from the end of the one before to its own.               *)
LEMMA ChunksAre ==
    ASSUME NEW x \in Seq(Nat)
    PROVE  ChunkSubstr(x, 3) = [k \in 1..GroupCount(Len(x)) |->
                                   SubSeq(x, GroupEnd(Len(x), k - 1) + 1, GroupEnd(Len(x), k))]
<1> DEFINE N == Len(x)
           A(k) == SubSeq(x, (k - 1) * 3 + 1, GroupEnd(N, k))
           B(k) == SubSeq(x, GroupEnd(N, k - 1) + 1, GroupEnd(N, k))
<1>1. N \in Nat
  OBVIOUS
<1>2. ChunkSubstr(x, 3) = [k \in 1..((N + 3 - 1) \div 3) |-> A(k)]
  BY Zenon DEF ChunkSubstr, GroupEnd
<1> HIDE DEF N
<1>3. (N + 3 - 1) \div 3 = GroupCount(N)
  <2>1. N + 3 - 1 = N + 2
    BY <1>1
  <2>2. QED BY <2>1, Zenon DEF GroupCount
<1>4. ASSUME NEW k \in 1..GroupCount(N) PROVE A(k) = B(k)
  <2>1. (k - 1) * 3 = GroupEnd(N, k - 1)
    BY <1>1, GroupsFit
  <2>2. QED BY <2>1, Zenon
<1> HIDE DEF A, B
<1>5. [k \in 1..GroupCount(N) |-> A(k)] = [k \in 1..GroupCount(N) |-> B(k)]
  BY <1>4, Zenon
<1>6. QED BY <1>2, <1>3, <1>5, Zenon DEF B, N

(* Joined again, the groups are what was cut.                               *)
LEMMA ChunksFlat ==
    ASSUME NEW x \in Seq(Nat)
    PROVE  FlattenSeq(ChunkSubstr(x, 3)) = x
<1> DEFINE N == Len(x)
           n == GroupCount(N)
           at(k) == GroupEnd(N, k)
           B(k) == SubSeq(x, at(k - 1) + 1, at(k))
           P(k) == SubSeq(x, 1, at(k))
           c == ChunkSubstr(x, 3)
           F(f) == [i \in 1..Len(c) |-> IF i = 1 THEN c[i] ELSE f[i - 1] \o c[i]]
           e == CHOOSE f : f = F(f)
           p == [k \in 1..n |-> P(k)]
<1>1. N \in Nat
  OBVIOUS
<1>2. c = [k \in 1..n |-> B(k)]
  BY ChunksAre, Zenon
<1>3. FlattenSeq(c) = IF Len(c) = 0 THEN c ELSE e[Len(c)]
  BY Zenon DEF FlattenSeq
<1> HIDE DEF N
<1>4. /\ n \in Nat /\ at(0) = 0 /\ at(n) = N
      /\ \A k \in 0..n : at(k) \in 0..N
      /\ \A k \in 1..n : at(k) - at(k - 1) \in 1..3
  BY <1>1, GroupsFit
<1>5. P(n) = x
  <2>1. P(n) = SubSeq(x, 1, Len(x))
    BY <1>4 DEF N
  <2>2. SubSeq(x, 1, Len(x)) = x
    OBVIOUS
  <2>3. QED BY <2>1, <2>2, Zenon
<1> HIDE DEF c, at, n
<1>6. ASSUME NEW k \in 1..n PROVE k \in 0..n /\ k - 1 \in 0..n /\ at(k - 1) <= at(k)
  <2>1. k \in 0..n /\ k - 1 \in 0..n
    BY <1>4
  <2>2. at(k) \in 0..N /\ at(k - 1) \in 0..N /\ at(k) - at(k - 1) \in 1..3
    BY <1>4, <2>1
  <2>3. QED BY <1>1, <2>1, <2>2
<1>7. ASSUME NEW k \in 1..n PROVE P(k) = P(k - 1) \o B(k)
  <2>1. at(k) \in 0..Len(x) /\ at(k - 1) \in 0..Len(x) /\ at(k - 1) <= at(k)
    BY <1>4, <1>6 DEF N
  <2>2. PICK i, j \in 0..Len(x) : i = at(k - 1) /\ j = at(k) /\ i <= j
    BY <2>1
  <2>3. Joined(SubSeq(x, 1, j), SubSeq(x, 1, i), SubSeq(x, i + 1, j))
    BY <2>2, JoinMiddle
  <2>4. SubSeq(x, 1, j) = SubSeq(x, 1, i) \o SubSeq(x, i + 1, j)
    BY <2>3, JoinedIs
  <2>5. QED BY <2>2, <2>4, Zenon
<1>8. P(1) = B(1)
  <2>1. 1 - 1 = 0 /\ 0 + 1 = 1
    OBVIOUS
  <2>2. QED BY <1>4, <2>1, Zenon
<1> HIDE DEF B, P
<1>9. Len(c) = n
  BY <1>2, <1>4
<1>10. \A k \in 1..n : c[k] = B(k) /\ p[k] = P(k)
  BY <1>2
<1> HIDE DEF p
<1>11. e = F(e)
  <2>1. p = F(p)
    <3> DEFINE H(k) == IF k = 1 THEN c[k] ELSE p[k - 1] \o c[k]
    <3>1. ASSUME NEW k \in 1..n PROVE P(k) = H(k)
      <4>1. CASE k = 1
        BY <1>8, <1>10, <4>1, Zenon
      <4>2. CASE k # 1
        <5>1. k - 1 \in 1..n
          BY <1>4, <4>2
        <5>2. P(k) = P(k - 1) \o B(k)
          BY <1>7
        <5>3. p[k - 1] = P(k - 1) /\ c[k] = B(k)
          BY <1>10, <5>1, Zenon
        <5>4. QED BY <4>2, <5>2, <5>3, Zenon
      <4>3. QED BY <4>1, <4>2
    <3> HIDE DEF H
    <3>2. p = [k \in 1..n |-> H(k)]
      <4>1. p = [k \in 1..n |-> P(k)]
        BY Zenon DEF p
      <4>2. QED BY <3>1, <4>1, Zenon
    <3>3. QED BY <1>9, <3>2, Zenon DEF H
  <2> HIDE DEF F
  <2>2. QED BY <2>1, Zenon
<1> HIDE DEF e
<1>12. \A k \in 1..n : e[k] = IF k = 1 THEN c[k] ELSE e[k - 1] \o c[k]
  BY <1>9, <1>11, Zenon
<1> HIDE DEF F
<1> DEFINE f == [k \in 0..n |-> IF k = 0 THEN <<>> ELSE e[k]]
           g == [k \in 0..n |-> IF k = 0 THEN <<>> ELSE P(k)]
<1>13. /\ f[0] = g[0]
       /\ \A k \in 1..n : k # 0 /\ f[k] = e[k] /\ g[k] = P(k)
  BY <1>4
<1> HIDE DEF f, g
<1>14. ASSUME NEW k \in 1..n, f[k - 1] = g[k - 1] PROVE f[k] = g[k]
  <2>1. CASE k = 1
    <3>1. e[k] = c[k]
      BY <1>12, <2>1, Zenon
    <3>2. QED BY <1>8, <1>10, <1>13, <2>1, <3>1, Zenon
  <2>2. CASE k # 1
    <3>1. k - 1 \in 1..n
      BY <1>4, <2>2
    <3>2. e[k - 1] = P(k - 1)
      BY <1>13, <1>14, <3>1, Zenon
    <3>3. e[k] = e[k - 1] \o c[k] /\ P(k) = P(k - 1) \o B(k) /\ c[k] = B(k)
      BY <1>7, <1>10, <1>12, <2>2, Zenon
    <3>4. e[k] = P(k)
      BY <3>2, <3>3, Zenon
    <3>5. QED BY <1>13, <3>4, Zenon
  <2>3. QED BY <2>1, <2>2
<1>15. \A k \in 0..n : f[k] = g[k]
  <2>1. Alike(f, g, n)
    BY <1>13, <1>14, Zenon DEF Alike
  <2>2. QED BY <1>4, <2>1, SameLoops
<1>16. CASE n = 0
  <2>1. c = <<>> /\ Len(c) = 0
    BY <1>2, <1>9, <1>16
  <2>2. x = <<>>
    BY <1>1, <1>4, <1>16 DEF N
  <2>3. QED BY <1>3, <2>1, <2>2, Zenon DEF c
<1>17. CASE n # 0
  <2>1. n \in 1..n /\ n \in 0..n
    BY <1>4, <1>17
  <2>2. e[n] = P(n)
    BY <1>13, <1>15, <2>1, Zenon
  <2>3. QED BY <1>3, <1>5, <1>9, <1>17, <2>2, Zenon DEF c
<1>18. QED BY <1>16, <1>17

(* A group, and the symbols it is written with.                             *)
LEMMA GroupNumeral ==
    ASSUME NEW x, Numeral(x, Byte), NEW k \in 1..GroupCount(Len(x))
    PROVE  LET c == ChunkSubstr(x, 3) IN Numeral(c[k], Byte) /\ Len(c[k]) \in 1..3
<1> DEFINE N == Len(x)
           c == ChunkSubstr(x, 3)
<1>1. x \in Seq(Nat) /\ N \in Nat
  BY DEF Numeral
<1>2. c[k] = SubSeq(x, GroupEnd(N, k - 1) + 1, GroupEnd(N, k))
  BY <1>1, ChunksAre
<1>3. /\ k \in 0..GroupCount(N) /\ k - 1 \in 0..GroupCount(N)
      /\ GroupEnd(N, k) - GroupEnd(N, k - 1) \in 1..3
      /\ \A j \in 0..GroupCount(N) : GroupEnd(N, j) \in 0..N
  <2> HIDE DEF N
  <2>1. /\ GroupCount(N) \in Nat /\ k \in 1..GroupCount(N)
        /\ \A j \in 0..GroupCount(N) : GroupEnd(N, j) \in 0..N
        /\ \A j \in 1..GroupCount(N) : GroupEnd(N, j) - GroupEnd(N, j - 1) \in 1..3
    BY <1>1, GroupsFit DEF N
  <2>2. k \in 0..GroupCount(N) /\ k - 1 \in 0..GroupCount(N)
    BY <2>1
  <2>3. QED BY <2>1, <2>2, Zenon
<1>4. PICK i, j \in 0..N : i = GroupEnd(N, k - 1) /\ j = GroupEnd(N, k)
  BY <1>3, Zenon
<1>5. j - i \in 1..3 /\ i <= j
  <2>1. j - i \in 1..3
    BY <1>3, <1>4, Zenon
  <2>2. QED BY <1>1, <1>4, <2>1
<1>6. Numeral(SubSeq(x, i + 1, j), Byte) /\ Len(SubSeq(x, i + 1, j)) = j - i
  <2>1. Byte \in Nat /\ i \in Nat
    BY <1>1, <1>4, Units
  <2>2. QED BY <1>1, <1>5, <2>1, JoinMiddle, PartNumeral
<1>7. QED BY <1>2, <1>4, <1>5, <1>6, Zenon

(* The text is the symbols of its groups, four by four.                     *)
LEMMA EncodedIs ==
    ASSUME NEW x, Numeral(x, Byte)
    PROVE  LET t == ToBase64(x)
               c == ChunkSubstr(x, 3)
               n == GroupCount(Len(x))
           IN  /\ t \in Seq(Nat) /\ Len(t) = 4 * n
               /\ \A k \in 1..n : SubSeq(t, (k - 1) * 4 + 1, k * 4) = Four(c[k])
<1> DEFINE t == ToBase64(x)
           c == ChunkSubstr(x, 3)
           n == GroupCount(Len(x))
           C(k) == Four(c[k])
           at(i) == (i + 3) \div 4
           off(i) == ((i - 1) % 4) + 1
           T(i) == C(at(i))[off(i)]
<1>1. x \in Seq(Nat) /\ n \in Nat
  BY GroupsFit DEF Numeral
<1>2. ASSUME NEW k \in 1..n
      PROVE  C(k) \in Seq(Nat) /\ Len(C(k)) = 4
  <2>1. Numeral(c[k], Byte) /\ Len(c[k]) \in 1..3
    BY GroupNumeral
  <2>2. QED BY <2>1, FourAre
<1>3. Len(c) = n
  <2> DEFINE B(k) == SubSeq(x, GroupEnd(Len(x), k - 1) + 1, GroupEnd(Len(x), k))
  <2>1. c = [k \in 1..n |-> B(k)]
    BY <1>1, ChunksAre, Zenon
  <2> HIDE DEF B, c, n
  <2>2. QED BY <1>1, <2>1
<1>4. t = [i \in 1..(4 * n) |-> Encoded(c[at(i)])[(i - 1) % 4]]
  BY <1>3, Zenon DEF ToBase64
<1> HIDE DEF n, c, t
<1>5. ASSUME NEW i \in 1..(4 * n)
      PROVE  at(i) \in 1..n /\ off(i) \in 1..4 /\ off(i) - 1 = (i - 1) % 4
  BY <1>1
<1>6. ASSUME NEW i \in 1..(4 * n) PROVE Encoded(c[at(i)])[(i - 1) % 4] = T(i)
  <2>1. off(i) \in 1..4 /\ off(i) - 1 = (i - 1) % 4
    BY <1>5
  <2> HIDE DEF off
  <2>2. T(i) = Encoded(c[at(i)])[off(i) - 1]
    BY <2>1 DEF Four
  <2>3. QED BY <2>1, <2>2, Zenon
<1>7. t = [i \in 1..(4 * n) |-> T(i)]
  <2> DEFINE U(i) == Encoded(c[at(i)])[(i - 1) % 4]
  <2>1. t = [i \in 1..(4 * n) |-> U(i)]
    BY <1>4, Zenon
  <2>2. \A i \in 1..(4 * n) : U(i) = T(i)
    BY <1>6
  <2> HIDE DEF U, T
  <2>3. QED BY <2>1, <2>2, Zenon
<1> HIDE DEF C
<1>8. ASSUME NEW i \in 1..(4 * n) PROVE T(i) \in Nat
  <2>1. at(i) \in 1..n /\ off(i) \in 1..4
    BY <1>5
  <2> HIDE DEF at, off
  <2>2. C(at(i)) \in Seq(Nat) /\ Len(C(at(i))) = 4
    BY <1>2, <2>1
  <2>3. \A s \in Seq(Nat) : \A j \in 1..Len(s) : s[j] \in Nat
    OBVIOUS
  <2>4. QED BY <2>1, <2>2, <2>3, Zenon
<1>9. ASSUME NEW k \in 1..n, NEW j \in 1..4
      PROVE  (k - 1) * 4 + j \in 1..(4 * n) /\ T((k - 1) * 4 + j) = C(k)[j]
  <2>1. (k - 1) * 4 + j \in 1..(4 * n) /\ at((k - 1) * 4 + j) = k /\ off((k - 1) * 4 + j) = j
    BY <1>1
  <2>2. QED BY <2>1, Zenon
<1> HIDE DEF T
<1>10. t \in Seq(Nat) /\ Len(t) = 4 * n /\ \A i \in 1..(4 * n) : t[i] = T(i)
  <2>1. 4 * n \in Nat
    BY <1>1
  <2>2. QED BY <1>7, <1>8, <2>1
<1>11. ASSUME NEW k \in 1..n PROVE SubSeq(t, (k - 1) * 4 + 1, k * 4) = C(k)
  <2> DEFINE z == SubSeq(t, (k - 1) * 4 + 1, k * 4)
  <2>1. PICK a, b \in Nat : a = (k - 1) * 4 /\ b = k * 4 /\ b = a + 4 /\ b <= Len(t)
    BY <1>1, <1>10
  <2>2. z = SubSeq(t, a + 1, b)
    BY <2>1, Zenon
  <2> HIDE DEF z
  <2>3. z \in Seq(Nat) /\ Len(z) = 4
    BY <1>10, <2>1, <2>2
  <2>4. \A j \in 1..4 : z[j] = t[a + j]
    BY <1>10, <2>1, <2>2
  <2>5. \A j \in 1..4 : t[a + j] = C(k)[j]
    BY <1>9, <1>10, <2>1, Zenon
  <2>6. C(k) \in Seq(Nat) /\ Len(C(k)) = 4
    BY <1>2
  <2>7. z = [j \in 1..4 |-> z[j]] /\ C(k) = [j \in 1..4 |-> C(k)[j]]
    BY <2>3, <2>6
  <2>8. \A j \in 1..4 : z[j] = C(k)[j]
    BY <2>4, <2>5, Zenon
  <2>9. QED BY <2>7, <2>8, Zenon DEF z
<1>12. QED BY <1>10, <1>11, Zenon DEF t, c, n, C

(* The bytes come back.                                                     *)
LEMMA DecodedIs ==
    ASSUME NEW x, Numeral(x, Byte)
    PROVE  FromBase64(ToBase64(x)) = x
<1> DEFINE t == ToBase64(x)
           c == ChunkSubstr(x, 3)
           n == GroupCount(Len(x))
           h == ChunkSubstr(t, 4)
           end(k) == IF k * 4 < Len(t) THEN k * 4 ELSE Len(t)
           d == [k \in DOMAIN h |-> Decoded(h[k])]
<1>1. x \in Seq(Nat) /\ n \in Nat
  BY GroupsFit DEF Numeral
<1>2. /\ t \in Seq(Nat) /\ Len(t) = 4 * n
      /\ \A k \in 1..n : SubSeq(t, (k - 1) * 4 + 1, k * 4) = Four(c[k])
  BY EncodedIs
<1>3. FromBase64(t) = FlattenSeq(d)
  BY Zenon DEF FromBase64
<1> HIDE DEF t
<1>4. h = [k \in 1..((Len(t) + 4 - 1) \div 4) |-> SubSeq(t, (k - 1) * 4 + 1, end(k))]
  BY Zenon DEF ChunkSubstr
<1>5. c = [k \in 1..n |-> c[k]]
  <2> DEFINE B(k) == SubSeq(x, GroupEnd(Len(x), k - 1) + 1, GroupEnd(Len(x), k))
  <2>1. c = [k \in 1..n |-> B(k)]
    BY <1>1, ChunksAre, Zenon
  <2> HIDE DEF B, c, n
  <2>2. QED BY <2>1
<1>6. \A k \in 1..n : Decoded(Four(c[k])) = c[k]
  BY GroupNumeral, GroupIs, Zenon
<1> HIDE DEF c, n
<1>7. (Len(t) + 4 - 1) \div 4 = n /\ \A k \in 1..n : end(k) = k * 4
  <2>1. PICK N \in Nat : N = Len(t) /\ N = 4 * n
    BY <1>1, <1>2
  <2>2. (N + 4 - 1) \div 4 = n /\ \A k \in 1..n : (IF k * 4 < N THEN k * 4 ELSE N) = k * 4
    BY <1>1, <2>1
  <2>3. QED BY <2>1, <2>2, Zenon
<1> HIDE DEF end
<1>8. h = [k \in 1..n |-> Four(c[k])]
  BY <1>2, <1>4, <1>7, Zenon
<1> HIDE DEF h
<1>9. DOMAIN h = 1..n /\ \A k \in 1..n : h[k] = Four(c[k])
  BY <1>8, Zenon
<1>10. d = [k \in 1..n |-> c[k]]
  BY <1>6, <1>9, Zenon
<1>11. d = c
  BY <1>5, <1>10, Zenon
<1> HIDE DEF d
<1>12. FlattenSeq(c) = x
  BY <1>1, ChunksFlat DEF c
<1>13. QED BY <1>3, <1>11, <1>12, Zenon DEF t

(* A byte is its two digits.                                                *)
LEMMA TwoDigits ==
    ASSUME NEW a \in Nat, NEW b \in Nat, a < Base, b < Base
    PROVE  LET v == a * Base + b IN
           v \in Nat /\ v < Byte /\ Written(v, 2)[1] = a /\ Written(v, 2)[2] = b
<1> DEFINE v == a * Base + b
<1>1. Base \in Nat \ {0}
  BY LimbType
<1>2. v \in Nat /\ v < Base * Base
  <2>1. (a + 1) * Base <= Base * Base
    BY <1>1
  <2>2. (a + 1) * Base = a * Base + Base /\ a * Base \in Nat /\ Base * Base \in Nat
    BY <1>1
  <2>3. QED BY <1>1, <2>1, <2>2
<1>3. v \div Base = a /\ v % Base = b
  <2> HIDE DEF v
  <2>1. v = a * Base + b
    BY DEF v
  <2>2. QED BY <1>1, <1>2, <2>1, QuotientIs
<1>4. a % Base = a
  <2>1. a = 0 * Base + a
    BY <1>1
  <2>2. QED BY <1>1, <2>1, QuotientIs
<1> HIDE DEF v
<1>5. v \div 1 = v
  BY <1>2
<1>6. Power(Base, 1) = Base /\ Power(Base, 0) = 1
  BY <1>1, PowerOne, PowerNext
<1>7. /\ Written(v, 2)[1] = (v \div Power(Base, 1)) % Base
      /\ Written(v, 2)[2] = (v \div Power(Base, 0)) % Base
  <2>1. 1 \in 1..2 /\ 2 \in 1..2 /\ 2 - 1 = 1 /\ 2 - 2 = 0
    OBVIOUS
  <2>2. \A i \in 1..2 : Written(v, 2)[i] = (v \div Power(Base, 2 - i)) % Base
    BY Zenon DEF Written
  <2>3. QED BY <2>1, <2>2, Zenon
<1>8. Written(v, 2)[1] = a /\ Written(v, 2)[2] = b
  BY <1>3, <1>4, <1>5, <1>6, <1>7, Zenon
<1>9. QED BY <1>2, <1>8, Zenon DEF v, Byte

(* The bytes of an even number of digits, and their digits.                 *)
LEMMA BytesAre ==
    ASSUME NEW d, Numeral(d, Base), FromHexString(d) # Throws
    PROVE  Numeral(FromHexString(d), Byte) /\ ToHexString(FromHexString(d)) = d
<1> DEFINE L == Len(d)
           n == L \div 2
           V(k) == d[2 * k - 1] * Base + d[2 * k]
           x == FromHexString(d)
           at(i) == (i - 1) \div 2 + 1
           off(i) == ((i - 1) % 2) + 1
           W(i) == Written(x[at(i)], 2)[off(i)]
<1>1. d \in Seq(Nat) /\ L \in Nat /\ \A i \in 1..L : d[i] \in Nat /\ d[i] < Base
  BY DEF Numeral
<1>2. L % 2 = 0 /\ x = [k \in 1..n |-> V(k)]
  BY Zenon DEF FromHexString
<1>3. d = [i \in 1..L |-> d[i]]
  BY <1>1
<1> HIDE DEF L, x
<1>4. n \in Nat /\ n * 2 = L
  BY <1>1, <1>2
<1> HIDE DEF n
<1>5. ASSUME NEW k \in 1..n
      PROVE  /\ V(k) \in Nat /\ V(k) < Byte
             /\ Written(V(k), 2)[1] = d[2 * k - 1] /\ Written(V(k), 2)[2] = d[2 * k]
  <2>1. 2 * k - 1 \in 1..L /\ 2 * k \in 1..L
    BY <1>4
  <2>2. PICK a, b \in Nat : a = d[2 * k - 1] /\ b = d[2 * k] /\ a < Base /\ b < Base
    BY <1>1, <2>1
  <2>3. a * Base + b \in Nat /\ a * Base + b < Byte
        /\ Written(a * Base + b, 2)[1] = a /\ Written(a * Base + b, 2)[2] = b
    BY <2>2, TwoDigits
  <2>4. QED BY <2>2, <2>3, Zenon
<1> HIDE DEF V
<1>6. x \in Seq(Nat) /\ Len(x) = n /\ \A k \in 1..n : x[k] = V(k)
  BY <1>2, <1>4, <1>5
<1>7. Numeral(x, Byte)
  <2>1. \A k \in 1..Len(x) : x[k] < Byte
    BY <1>5, <1>6
  <2>2. QED BY <1>6, <2>1 DEF Numeral
<1>8. ToHexString(x) = [i \in 1..(n * 2) |-> W(i)]
  BY <1>6, Zenon DEF ToHexString, WrittenAll
<1>9. ASSUME NEW i \in 1..L PROVE W(i) = d[i]
  <2>1. CASE i % 2 = 1
    <3>1. at(i) \in 1..n /\ off(i) = 1 /\ 2 * at(i) - 1 = i
      BY <1>1, <1>4, <2>1
    <3> HIDE DEF at, off
    <3>2. x[at(i)] = V(at(i)) /\ Written(V(at(i)), 2)[1] = d[2 * at(i) - 1]
      BY <1>5, <1>6, <3>1
    <3>3. QED BY <3>1, <3>2, Zenon
  <2>2. CASE i % 2 # 1
    <3>1. at(i) \in 1..n /\ off(i) = 2 /\ 2 * at(i) = i
      BY <1>1, <1>4, <2>2
    <3> HIDE DEF at, off
    <3>2. x[at(i)] = V(at(i)) /\ Written(V(at(i)), 2)[2] = d[2 * at(i)]
      BY <1>5, <1>6, <3>1
    <3>3. QED BY <3>1, <3>2, Zenon
  <2>3. QED BY <2>1, <2>2
<1> HIDE DEF W
<1>10. ToHexString(x) = d
  BY <1>3, <1>4, <1>8, <1>9, Zenon
<1>11. QED BY <1>7, <1>10 DEF x

(* hexToBase64 and base64ToHex: a signature or key comes back as it went    *)
(* in, whatever its length, and for every number of bytes in its last       *)
(* group.                                                                   *)
THEOREM Base64RoundTripCorrect == Spec => []Base64RoundTrip
<1>1. ASSUME Answered, Called("decode") PROVE result = job.digits
  <2>1. Decoding
    <3>1. job # Idle /\ job.call = "decode"
      BY <1>1 DEF Called
    <3>2. ~Converting /\ ~Hashing /\ ~Encoding
      BY <3>1 DEF Converting, Hashing, Encoding
    <3>3. ~Adding /\ ~Making
      BY <3>1 DEF Adding, Making
    <3>4. ~Binding
      <4>1. \A w, other : job = [call |-> "bind", w |-> w, other |-> other] => job.call = "bind"
        OBVIOUS
      <4>2. QED BY <3>1, <4>1, Zenon DEF Binding
    <3>5. ~Stamping /\ ~Passing
      BY <3>1 DEF Stamping, Passing
    <3>6. QED BY <1>1, <3>1, <3>2, <3>3, <3>4, <3>5 DEF Answered
  <2>2. PICK d \in Hex(HexLength) :
          /\ job = [call |-> "decode", digits |-> d, text |-> HexToBase64(d)]
          /\ HexToBase64(d) # Throws
          /\ result = Base64ToHex(HexToBase64(d))
    BY <2>1, Zenon DEF Decoding
  <2>3. Numeral(d, Base)
    BY HexNumeral
  <2>4. FromHexString(d) # Throws /\ HexToBase64(d) = ToBase64(FromHexString(d))
    BY <2>2, Zenon DEF HexToBase64
  <2>5. Numeral(FromHexString(d), Byte) /\ ToHexString(FromHexString(d)) = d
    BY <2>3, <2>4, BytesAre
  <2>6. FromBase64(ToBase64(FromHexString(d))) = FromHexString(d)
    BY <2>5, DecodedIs
  <2>7. result = d
    BY <2>2, <2>4, <2>5, <2>6, Zenon DEF Base64ToHex
  <2>8. job.digits = d
    BY <2>2
  <2>9. QED BY <2>7, <2>8
<1>2. Answered => Base64RoundTrip
  BY <1>1, Zenon DEF Base64RoundTrip
<1>3. QED BY <1>2, AlwaysAnswered, PTL

-----------------------------------------------------------------------------
(* Wallets.                                                                 *)

(* The version is in the key: as many chunks are hashed as it says.         *)
LEMMA KeysMade ==
    ASSUME NEW w \in WalletInputs
    PROVE  /\ w.secret # <<>> /\ w.position # <<>>
           /\ Key(w) = [sponge |-> Sponge(IndexedKey(w.secret, w.position), w.token, w.version),
                        chunks |-> IF w.version = 2 THEN 64 ELSE 16]
<1>1. w.secret # <<>> /\ w.position # <<>> /\ w.version \in {1, 2}
  BY CodecsAssumption DEF WalletInputs, Versions
<1>2. QED BY <1>1, Zenon DEF Key, GenerateWalletKey, CheckedOtsVersion

(* Equal keys are of one version and of one text.                           *)
LEMMA VersionsDiffer ==
    ASSUME NEW v \in WalletInputs, NEW w \in WalletInputs, Key(v) = Key(w)
    PROVE  /\ v.version = w.version
           /\ Sponge(IndexedKey(v.secret, v.position), v.token, v.version)
                = Sponge(IndexedKey(w.secret, w.position), w.token, w.version)
<1> DEFINE S(x) == Sponge(IndexedKey(x.secret, x.position), x.token, x.version)
           C(x) == IF x.version = 2 THEN 64 ELSE 16
<1>1. [sponge |-> S(v), chunks |-> C(v)] = [sponge |-> S(w), chunks |-> C(w)]
  BY KeysMade
<1>2. S(v) = S(w) /\ C(v) = C(w)
  <2> HIDE DEF S, C
  <2>1. QED BY <1>1
<1>3. v.version \in {1, 2} /\ w.version \in {1, 2}
  BY DEF WalletInputs, Versions
<1>4. QED BY <1>2, <1>3

(* The first of two versions that passes a test.                            *)
FirstIn(p, T) == SelectInSeq(Candidates(p), LAMBDA version : version \in T)

(* One of those that pass, if any does.                                     *)
LEMMA FirstOfTwo ==
    ASSUME NEW p \in {1, 2}, NEW T
    PROVE  /\ FirstIn(p, T) = 0 <=> 1 \notin T /\ 2 \notin T
           /\ FirstIn(p, T) # 0 => Candidates(p)[FirstIn(p, T)] \in T \cap {1, 2}
<1> DEFINE I == {i \in 1..Len(Candidates(p)) : Candidates(p)[i] \in T}
<1>1. Candidates(p) \in Seq({1, 2}) /\ Len(Candidates(p)) = 2
      /\ {Candidates(p)[1], Candidates(p)[2]} = {1, 2}
  BY DEF Candidates
<1>2. I = {} <=> 1 \notin T /\ 2 \notin T
  <2>1. 1..Len(Candidates(p)) = {1, 2}
    BY <1>1
  <2>2. I = {} <=> Candidates(p)[1] \notin T /\ Candidates(p)[2] \notin T
    BY <2>1
  <2>3. QED BY <1>1, <2>2
<1>3. ASSUME I # {} PROVE Min(I) \in I
  <2>1. \E x \in I : \A y \in I : x <= y
    <3>1. CASE 1 \in I
      BY <3>1, <1>1
    <3>2. CASE 1 \notin I
      BY <3>2, <1>1, <1>3
    <3>3. QED BY <3>1, <3>2
  <2>2. QED BY <2>1, Zenon DEF Min
<1>4. FirstIn(p, T) = IF I # {} THEN Min(I) ELSE 0
  BY Zenon DEF FirstIn, SelectInSeq
<1> HIDE DEF I
<1>5. \A i \in I : i # 0 /\ Candidates(p)[i] \in T \cap {1, 2}
  BY <1>1 DEF I
<1>6. QED BY <1>2, <1>3, <1>4, <1>5

(* The secret makes the wallet, under some version.                         *)
Makes(other, version, w) ==
    Address(w) = Address([w EXCEPT !.secret = other, !.version = version])

(* The address of a wallet, in either case, is detected under its own       *)
(* version, and for no secret that does not make it.                        *)
LEMMA Detected ==
    ASSUME NEW w \in WalletInputs, NEW other \in Secrets, NEW preferred \in Versions,
           NEW upper \in BOOLEAN
    PROVE  DetectOtsVersion(other, w.token, w.position,
                            [Address(w) EXCEPT !.upper = upper], preferred)
             = IF \E version \in Versions : Makes(other, version, w)
               THEN w.version ELSE NoVersion
<1> DEFINE T == {version \in Versions : Makes(other, version, w)}
           given == [Address(w) EXCEPT !.upper = upper]
           at == FirstIn(preferred, T)
<1>1. [given EXCEPT !.upper = FALSE] = Address(w)
  <2>1. ASSUME NEW k, NEW a \in BOOLEAN, NEW b \in BOOLEAN
        PROVE  [[of |-> k, upper |-> a] EXCEPT !.upper = b] = [of |-> k, upper |-> b]
    BY <2>1
  <2>2. QED BY <2>1, Zenon DEF Address, GenerateWalletAddress
<1>2. ASSUME NEW version \in {1, 2}
      PROVE  /\ [w EXCEPT !.secret = other, !.version = version] \in WalletInputs
             /\ Address([w EXCEPT !.secret = other, !.version = version])
                  = GenerateWalletAddress(
                        GenerateWalletKey(other, w.token, w.position, version))
             /\ Makes(other, version, w) => version = w.version
  <2> DEFINE v == [w EXCEPT !.secret = other, !.version = version]
  <2>1. /\ v \in WalletInputs /\ v.secret = other /\ v.token = w.token
        /\ v.position = w.position /\ v.version = version
    BY DEF WalletInputs, Versions
  <2> HIDE DEF v
  <2>2. Address(v) = GenerateWalletAddress(
                         GenerateWalletKey(other, w.token, w.position, version))
    BY <2>1, Zenon DEF Address, Key
  <2>3. Address(w) = Address(v) => Key(w) = Key(v)
    BY DEF Address, GenerateWalletAddress
  <2>4. Address(w) = Address(v) => version = w.version
    BY <2>1, <2>3, VersionsDiffer
  <2>5. QED BY <2>1, <2>2, <2>4 DEF v, Makes
<1>3. other # <<>> /\ w.position # <<>> /\ preferred \in {1, 2}
  BY CodecsAssumption DEF WalletInputs, Versions
<1>4. DetectOtsVersion(other, w.token, w.position, given, preferred)
        = IF at = 0 THEN NoVersion ELSE Candidates(preferred)[at]
  <2> DEFINE I == {i \in 1..Len(Candidates(preferred)) :
                      [given EXCEPT !.upper = FALSE] = GenerateWalletAddress(GenerateWalletKey(
                          other, w.token, w.position, Candidates(preferred)[i]))}
  <2>1. \A i \in 1..Len(Candidates(preferred)) : Candidates(preferred)[i] \in {1, 2}
    BY <1>3 DEF Candidates
  <2>2. {i \in 1..Len(Candidates(preferred)) : Candidates(preferred)[i] \in T} = I
    <3>1. \A i \in 1..Len(Candidates(preferred)) :
            Candidates(preferred)[i] \in T <=>
                [given EXCEPT !.upper = FALSE] = GenerateWalletAddress(GenerateWalletKey(
                    other, w.token, w.position, Candidates(preferred)[i]))
      BY <1>1, <1>2, <2>1, Zenon DEF Versions, Makes
    <3> HIDE DEF T, given
    <3>2. QED BY <3>1
  <2>3. at = IF I # {} THEN Min(I) ELSE 0
    <3> HIDE DEF T, I
    <3>1. QED BY <2>2, Zenon DEF FirstIn, SelectInSeq
  <2>4. CheckedOtsVersion(preferred)
    BY <1>3 DEF CheckedOtsVersion
  <2> HIDE DEF at, given
  <2>5. QED BY <1>3, <2>3, <2>4, Zenon DEF DetectOtsVersion, SelectInSeq
<1>5. QED
  <2>1. /\ at = 0 <=> 1 \notin T /\ 2 \notin T
        /\ at # 0 => Candidates(preferred)[at] \in T \cap {1, 2}
    <3> HIDE DEF T
    <3>1. QED BY <1>3, FirstOfTwo
  <2> HIDE DEF at
  <2>2. at = 0 <=> ~ \E version \in Versions : Makes(other, version, w)
    BY <2>1 DEF Versions
  <2>3. at # 0 => Candidates(preferred)[at] = w.version
    BY <2>1, <1>2
  <2>4. QED BY <1>4, <2>2, <2>3, Zenon

(* bindOwnWalletOtsVersion and detectOtsVersion: a wallet of the ledger is  *)
(* signed from with the version it was made at, whichever the client        *)
(* prefers and however its address is written, and one made from another    *)
(* secret is not signed from at all.                                        *)
THEOREM BindsMakerCorrect == Spec => []BindsMaker
<1>1. ASSUME Answered, Called("bind") PROVE BindsMaker
  <2>1. Binding
    BY <1>1 DEF Called, Answered, Converting, Hashing, Adding, Encoding, Decoding,
                Making, Stamping, Passing
  <2>2. PICK w \in WalletInputs, other \in Secrets, preferred \in Versions, upper \in BOOLEAN :
          /\ job = [call |-> "bind", w |-> w, other |-> other]
          /\ result = BindOwnWalletOtsVersion(other, w.token, w.position,
                                              [Address(w) EXCEPT !.upper = upper], preferred)
    BY <2>1, Zenon DEF Binding
  <2> DEFINE given == [Address(w) EXCEPT !.upper = upper]
  <2>3. w.position # <<>> /\ w.version # NoVersion
    BY CodecsAssumption, VersionAssumption DEF WalletInputs, Versions
  <2>4. given # <<>>
    <3>1. "of" \in DOMAIN given
      BY DEF Address, GenerateWalletAddress
    <3> HIDE DEF given
    <3>2. DOMAIN <<>> = {}
      OBVIOUS
    <3>3. QED BY <3>1, <3>2
  <2>5. result = IF \E version \in Versions : Makes(other, version, w)
                 THEN w.version ELSE Throws
    <3>1. DetectOtsVersion(other, w.token, w.position, given, preferred)
            = IF \E version \in Versions : Makes(other, version, w)
              THEN w.version ELSE NoVersion
      BY Detected
    <3> HIDE DEF given
    <3>2. result = BindOwnWalletOtsVersion(other, w.token, w.position, given, preferred)
      BY <2>2 DEF given
    <3>3. QED BY <2>3, <2>4, <3>1, <3>2, Zenon DEF BindOwnWalletOtsVersion
  <2>6. job.w = w /\ job.other = other
    BY <2>2
  <2>7. QED BY <2>5, <2>6, Zenon DEF BindsMaker, Makes
<1>2. Answered => BindsMaker
  BY <1>1 DEF BindsMaker
<1>3. QED BY <1>2, AlwaysAnswered, PTL

(* A frame: a start, a numeral, the delimiter and a token.                  *)
Frame(g, a, t) == g \o a \o <<Bar>> \o t

Framed(x, g, a, t) ==
    /\ Len(x) = Len(g) + Len(a) + 1 + Len(t) /\ x[Len(g) + Len(a) + 1] = Bar
    /\ \A i \in 1..Len(a) : x[Len(g) + i] = a[i]
    /\ \A i \in 1..Len(t) : x[Len(g) + Len(a) + 1 + i] = t[i]

(* What a frame consists of.                                                *)
LEMMA FrameIs ==
    ASSUME NEW g \in Seq(Nat), NEW a \in Seq(Nat), NEW t \in Seq(Nat)
    PROVE  Framed(Frame(g, a, t), g, a, t)
<1> DEFINE h == g \o a
           k == h \o <<Bar>>
<1>1. Bar \in Nat
  BY LimbType DEF Bar
<1>2. h \in Seq(Nat) /\ Len(h) = Len(g) + Len(a) /\ \A i \in 1..Len(a) : h[Len(g) + i] = a[i]
  OBVIOUS
<1> HIDE DEF h
<1>3. /\ k \in Seq(Nat) /\ Len(k) = Len(h) + 1 /\ k[Len(h) + 1] = Bar
      /\ \A i \in 1..Len(h) : k[i] = h[i]
  <2> DEFINE bar == <<Bar>>
  <2>1. bar \in Seq(Nat) /\ Len(bar) = 1 /\ 1 \in 1..Len(bar) /\ bar[1] = Bar
    BY <1>1
  <2> HIDE DEF bar
  <2>2. Joined(h \o bar, h, bar)
    BY <1>2, <2>1, JoinConcat
  <2>3. QED BY <2>1, <2>2, Zenon DEF Joined, bar
<1> HIDE DEF k
<1>4. /\ Len(k \o t) = Len(k) + Len(t)
      /\ \A i \in 1..Len(k) : (k \o t)[i] = k[i]
      /\ \A i \in 1..Len(t) : (k \o t)[Len(k) + i] = t[i]
  BY <1>3, JoinConcat, Zenon DEF Joined
<1>5. Frame(g, a, t) = k \o t
  BY DEF Frame, k, h
<1> DEFINE n == Len(g)
           m == Len(a)
           x == k \o t
<1>6. n \in Nat /\ m \in Nat /\ Len(h) = n + m /\ Len(k) = n + m + 1
  BY <1>2, <1>3
<1> HIDE DEF n, m, x
<1>7. ASSUME NEW i \in 1..m PROVE x[n + i] = a[i]
  <2>1. n + i \in 1..Len(h) /\ n + i \in 1..Len(k)
    BY <1>6
  <2>2. x[n + i] = k[n + i] /\ k[n + i] = h[n + i]
    BY <1>3, <1>4, <2>1, Zenon DEF x
  <2>3. h[n + i] = a[i]
    BY <1>2, Zenon DEF n, m
  <2>4. QED BY <2>2, <2>3
<1>8. x[n + m + 1] = Bar
  <2>1. n + m + 1 \in 1..Len(k)
    BY <1>6
  <2>2. x[n + m + 1] = k[n + m + 1]
    BY <1>4, <2>1, Zenon DEF x
  <2>3. QED BY <1>3, <1>6, <2>2
<1>9. Len(x) = n + m + 1 + Len(t) /\ \A i \in 1..Len(t) : x[n + m + 1 + i] = t[i]
  BY <1>4, <1>6, Zenon DEF x
<1>10. QED BY <1>5, <1>7, <1>8, <1>9, Zenon DEF Framed, n, m, x

(* Digits are no delimiter: two frames are equal only if their parts are.   *)
LEMMA Delimited ==
    ASSUME NEW g \in Seq(Nat), NEW a, NEW b, Numeral(a, Base), Numeral(b, Base),
           NEW t \in Seq(Nat), NEW u \in Seq(Nat), Frame(g, a, t) = Frame(g, b, u)
    PROVE  a = b /\ t = u
<1> DEFINE x == Frame(g, a, t)
           n == Len(g)
           m == Len(a)
           k == Len(b)
<1>1. /\ a \in Seq(Nat) /\ m \in Nat /\ \A i \in 1..m : a[i] < Base
      /\ b \in Seq(Nat) /\ k \in Nat /\ \A i \in 1..k : b[i] < Base
      /\ n \in Nat /\ Len(t) \in Nat /\ Len(u) \in Nat
  BY DEF Numeral
<1>2. Framed(x, g, a, t) /\ Framed(x, g, b, u)
  <2>1. Framed(Frame(g, a, t), g, a, t) /\ Framed(Frame(g, b, u), g, b, u)
    BY <1>1, FrameIs
  <2>2. QED BY <2>1, Zenon
<1>3. /\ Len(x) = n + m + 1 + Len(t) /\ x[n + m + 1] = Bar
      /\ \A i \in 1..m : x[n + i] = a[i]
      /\ \A i \in 1..Len(t) : x[n + m + 1 + i] = t[i]
      /\ Len(x) = n + k + 1 + Len(u) /\ x[n + k + 1] = Bar
      /\ \A i \in 1..k : x[n + i] = b[i]
      /\ \A i \in 1..Len(u) : x[n + k + 1 + i] = u[i]
  BY <1>2, Zenon DEF Framed
<1>4. a = [i \in 1..m |-> a[i]] /\ b = [i \in 1..k |-> b[i]]
  BY <1>1
<1>5. t = [i \in 1..Len(t) |-> t[i]] /\ u = [i \in 1..Len(u) |-> u[i]]
  OBVIOUS
<1> HIDE DEF x, n, m, k
<1>6. \A j \in Nat : j + 1 \in Nat /\ n + j + 1 = n + (j + 1)
  BY <1>1
<1>7. ~(Base < Base)
  BY LimbType
<1>8. ~(m < k)
  <2> SUFFICES ASSUME m < k PROVE FALSE
    OBVIOUS
  <2>1. m + 1 \in 1..k
    BY <1>1
  <2>2. x[n + (m + 1)] = b[m + 1] /\ b[m + 1] < Base
    BY <1>1, <1>3, <2>1, Zenon
  <2>3. x[n + (m + 1)] = Base
    BY <1>1, <1>3, <1>6, Zenon DEF Bar
  <2>4. QED BY <1>7, <2>2, <2>3, Zenon
<1>9. ~(k < m)
  <2> SUFFICES ASSUME k < m PROVE FALSE
    OBVIOUS
  <2>1. k + 1 \in 1..m
    BY <1>1
  <2>2. x[n + (k + 1)] = a[k + 1] /\ a[k + 1] < Base
    BY <1>1, <1>3, <2>1, Zenon
  <2>3. x[n + (k + 1)] = Base
    BY <1>1, <1>3, <1>6, Zenon DEF Bar
  <2>4. QED BY <1>7, <2>2, <2>3, Zenon
<1>10. m = k /\ Len(t) = Len(u)
  <2>1. m = k
    BY <1>1, <1>8, <1>9
  <2>2. n + m + 1 + Len(t) = n + k + 1 + Len(u)
    BY <1>3, Zenon
  <2>3. QED BY <1>1, <2>1, <2>2
<1>11. \A i \in 1..m : a[i] = b[i]
  BY <1>3, <1>10, Zenon
<1>12. \A i \in 1..Len(t) : t[i] = u[i]
  BY <1>3, <1>10, Zenon
<1>13. a = b
  BY <1>4, <1>10, <1>11, Zenon
<1>14. t = u
  BY <1>5, <1>10, <1>12, Zenon
<1>15. QED BY <1>13, <1>14

(* The key index is a numeral.                                              *)
LEMMA IndexedKeyIs ==
    ASSUME NEW w \in WalletInputs
    PROVE  Numeral(IndexedKey(w.secret, w.position), Base)
<1>1. w.secret \in Secrets \cup WalletPositions /\ w.position \in Secrets \cup WalletPositions
  BY DEF WalletInputs
<1>2. ASSUME NEW text \in Secrets \cup WalletPositions
      PROVE  Numeral(Normalized(text), Base) /\ Len(Normalized(text)) # 0
  <2>1. \A c \in Chars : c \in Nat
    BY DEF Chars
  <2>2. text \in Seq(Chars) /\ text # <<>>
    BY CodecsAssumption
  <2>3. text \in Seq(Nat) /\ Len(text) # 0 /\ DOMAIN text = 1..Len(text)
    BY <2>1, <2>2
  <2>4. CASE IsValidHex(text)
    <3>1. \A i \in 1..Len(text) : text[i] < Base
      BY <2>3, <2>4, Zenon DEF IsValidHex
    <3>2. QED BY <2>3, <2>4, <3>1 DEF Normalized, Numeral
  <2>5. CASE ~IsValidHex(text)
    <3> DEFINE x == Shake256(text)
               D == 0..(Base - 1)
    <3>1. x \in Seq(D) /\ x # <<>>
      BY CodecsAssumption
    <3>2. \A d \in D : d \in Nat /\ d < Base
      BY LimbType
    <3> HIDE DEF x, D
    <3>3. x \in Seq(Nat) /\ Len(x) # 0 /\ \A i \in 1..Len(x) : x[i] < Base
      BY <3>1, <3>2
    <3>4. QED BY <2>5, <3>3 DEF Normalized, Numeral, x
  <2>6. QED BY <2>4, <2>5
<1>3. QED BY <1>1, <1>2, ConstantTimeHexAddIs DEF IndexedKey

(* generateWalletKey: no wallet of version 2 has the key of another wallet, *)
(* whichever texts its numeral and token are: the delimiter is no digit.    *)
THEOREM FramesDistinctCorrect == Spec => []FramesDistinct
<1>1. ASSUME NEW v \in WalletInputs, NEW w \in WalletInputs,
             2 \in {v.version, w.version}, Key(v) = Key(w)
      PROVE  /\ v.version = w.version /\ v.token = w.token
             /\ IndexedKey(v.secret, v.position) = IndexedKey(w.secret, w.position)
  <2> DEFINE a == IndexedKey(v.secret, v.position)
             b == IndexedKey(w.secret, w.position)
  <2>1. v.version = w.version /\ Sponge(a, v.token, v.version) = Sponge(b, w.token, w.version)
    BY <1>1, VersionsDiffer
  <2>2. v.version = 2 /\ w.version = 2
    BY <1>1, <2>1
  <2>3. Numeral(a, Base) /\ Numeral(b, Base)
    BY IndexedKeyIs
  <2>4. v.token \in Seq(Nat) /\ w.token \in Seq(Nat)
    <3>1. v.token \in Tokens /\ w.token \in Tokens
      BY DEF WalletInputs
    <3>2. v.token \in Seq(Chars) /\ w.token \in Seq(Chars)
      BY <3>1, CodecsAssumption
    <3>3. \A c \in Chars : c \in Nat
      BY DEF Chars
    <3>4. QED BY <3>2, <3>3
  <2>5. Tag \in Seq(Nat)
    BY LimbType DEF Tag, Letter, Bar
  <2> HIDE DEF a, b
  <2>6. Frame(Tag, a, v.token) = Frame(Tag, b, w.token)
    BY <2>1, <2>2, Zenon DEF Sponge, Frame
  <2>7. a = b /\ v.token = w.token
    BY <2>3, <2>4, <2>5, <2>6, Delimited
  <2>8. QED BY <2>1, <2>7 DEF a, b
<1>2. ASSUME Answered, Called("two") PROVE FramesDistinct
  <2>1. Making
    <3>1. job # Idle /\ job.call = "two"
      BY <1>2 DEF Called
    <3>2. ~Converting /\ ~Hashing /\ ~Encoding /\ ~Adding
      BY <3>1 DEF Converting, Hashing, Encoding, Adding
    <3>3. ~Decoding
      BY <3>1 DEF Decoding
    <3>4. ~Binding
      <4>1. \A w, other : job = [call |-> "bind", w |-> w, other |-> other] => job.call = "bind"
        OBVIOUS
      <4>2. QED BY <3>1, <4>1, Zenon DEF Binding
    <3>5. ~Stamping /\ ~Passing
      BY <3>1 DEF Stamping, Passing
    <3>6. QED BY <1>2, <3>1, <3>2, <3>3, <3>4, <3>5 DEF Answered
  <2>2. PICK v, w \in WalletInputs :
          job = [call |-> "two", v |-> v, w |-> w] /\ result = <<Key(v), Key(w)>>
    BY <2>1, Zenon DEF Making
  <2>3. job.v = v /\ job.w = w /\ result[1] = Key(v) /\ result[2] = Key(w)
    BY <2>2
  <2>4. 2 \in {v.version, w.version} /\ Key(v) = Key(w) =>
            /\ v.version = w.version /\ v.token = w.token
            /\ IndexedKey(v.secret, v.position) = IndexedKey(w.secret, w.position)
    BY <1>1
  <2>5. QED BY <2>3, <2>4, Zenon DEF FramesDistinct
<1>3. Answered => FramesDistinct
  BY <1>2 DEF FramesDistinct
<1>4. QED BY <1>3, AlwaysAnswered, PTL

-----------------------------------------------------------------------------
(* Timestamps.                                                              *)

(* The leap years before a year.                                            *)
LeapsBefore(y) == (y + 3) \div 4 - (y + 99) \div 100 + (y + 399) \div 400

(* Leap years, counted by quotients.                                        *)
LEMMA LeapsCounted ==
    ASSUME NEW y \in Nat
    PROVE  Cardinality({n \in 0..(y - 1) : Leap(n)}) = LeapsBefore(y)
<1> DEFINE L(m) == {n \in 0..(m - 1) : Leap(n)}
           Known == {m \in Nat : IsFiniteSet(L(m)) /\ Cardinality(L(m)) = LeapsBefore(m)}
<1>1. 0 \in Known
  <2>1. L(0) = {}
    OBVIOUS
  <2>2. LeapsBefore(0) = 0
    BY DEF LeapsBefore
  <2> HIDE DEF L
  <2>3. QED BY <2>1, <2>2, FS_EmptySet
<1>2. ASSUME NEW m \in Nat, m \in Known PROVE m + 1 \in Known
  <2>1. CASE Leap(m)
    <3>1. L(m + 1) = L(m) \cup {m} /\ m \notin L(m)
      BY <2>1
    <3>2. LeapsBefore(m + 1) = LeapsBefore(m) + 1
      BY <2>1 DEF Leap, LeapsBefore
    <3> HIDE DEF L
    <3>3. QED BY <1>2, <3>1, <3>2, FS_AddElement
  <2>2. CASE ~Leap(m)
    <3>1. L(m + 1) = L(m)
      BY <2>2
    <3>2. LeapsBefore(m + 1) = LeapsBefore(m)
      BY <2>2 DEF Leap, LeapsBefore
    <3> HIDE DEF L
    <3>3. QED BY <1>2, <3>1, <3>2
  <2>3. QED BY <2>1, <2>2
<1>3. y \in Known
  <2> HIDE DEF Known
  <2>1. QED BY <1>1, <1>2, Naturals0
<1>4. QED BY <1>3

(* The days of the months before one, in a year that is or is not a leap    *)
(* year.                                                                    *)
MonthsBefore(leap) ==
    LET feb == IF leap THEN 1 ELSE 0 IN
    <<0, 31, 59 + feb, 90 + feb, 120 + feb, 151 + feb, 181 + feb, 212 + feb,
      243 + feb, 273 + feb, 304 + feb, 334 + feb>>

DaysCounted(y, m, d) ==
    365 * y + LeapsBefore(y) - 719528 + MonthsBefore(Leap(y))[m] + d - 1

(* DaysBefore, its recursion over the months written out.                   *)
LEMMA DaysBeforeIs ==
    ASSUME NEW y \in Nat, NEW m \in 1..12, NEW d \in Nat
    PROVE  DaysBefore(y, m, d) = DaysCounted(y, m, d)
<1> DEFINE lengths == MonthLengths(y)
           F(f) == [k \in 0..12 |-> IF k = 0 THEN 0 ELSE f[k - 1] + lengths[k]]
           c == CHOOSE f : f = F(f)
           feb == IF Leap(y) THEN 1 ELSE 0
           b == [k \in 0..12 |-> IF k = 12 THEN 365 + feb ELSE MonthsBefore(Leap(y))[k + 1]]
<1>1. ASSUME NEW k \in 0..12
      PROVE  b[k] = IF k = 0 THEN 0 ELSE b[k - 1] + lengths[k]
  <2>1. k = 0 \/ k = 1 \/ k = 2 \/ k = 3 \/ k = 4 \/ k = 5 \/ k = 6 \/ k = 7
        \/ k = 8 \/ k = 9 \/ k = 10 \/ k = 11 \/ k = 12
    OBVIOUS
  <2>2. feb \in {0, 1} /\ lengths = <<31, 28 + feb, 31, 30, 31, 30, 31, 31, 30, 31, 30, 31>>
    BY DEF MonthLengths
  <2> HIDE DEF lengths
  <2>3. QED BY <2>1, <2>2 DEF MonthsBefore
<1>2. c = F(c)
  <2>1. DOMAIN b = 0..12 /\ \A k \in 0..12 : b[k] = F(b)[k]
    BY <1>1
  <2>2. b = [k \in 0..12 |-> b[k]] /\ F(b) = [k \in 0..12 |-> F(b)[k]]
    OBVIOUS
  <2> HIDE DEF b, F
  <2>3. b = F(b)
    BY <2>1, <2>2
  <2>4. QED BY <2>3, Zenon
<1>3. c[m - 1] = MonthsBefore(Leap(y))[m]
  <2>1. c[0] = 0 /\ b[0] = 0
    <3>1. b[0] = 0
      BY <1>1
    <3> HIDE DEF c, b
    <3>2. QED BY <1>2, <3>1
  <2>2. ASSUME NEW k \in 1..12, c[k - 1] = b[k - 1] PROVE c[k] = b[k]
    <3> HIDE DEF c, b, lengths
    <3>1. k \in 0..12 /\ k # 0
      OBVIOUS
    <3>2. c[k] = c[k - 1] + lengths[k]
      BY <1>2, <3>1, Zenon
    <3>3. b[k] = b[k - 1] + lengths[k]
      BY <1>1, <3>1, Zenon
    <3>4. QED BY <2>2, <3>2, <3>3, Zenon
  <2>3. c[m - 1] = b[m - 1]
    <3> HIDE DEF c, b
    <3>1. Alike(c, b, 12)
      BY <2>1, <2>2, Zenon DEF Alike
    <3>2. QED BY <3>1, SameLoops
  <2>4. b[m - 1] = MonthsBefore(Leap(y))[m]
    OBVIOUS
  <2> HIDE DEF c, b
  <2>5. QED BY <2>3, <2>4
<1> HIDE DEF c
<1> DEFINE leaps(x) == Cardinality({n \in 0..(x - 1) : Leap(n)})
<1>4. leaps(y) = LeapsBefore(y) /\ leaps(1970) = 478
  <2>1. LeapsBefore(1970) = 478
    BY DEF LeapsBefore
  <2>2. leaps(1970) = LeapsBefore(1970)
    <3> HIDE DEF leaps
    <3>1. \A x \in Nat : leaps(x) = LeapsBefore(x)
      BY LeapsCounted DEF leaps
    <3>2. QED BY <3>1
  <2>3. QED BY <2>1, <2>2, LeapsCounted
<1>5. DaysBefore(y, m, d) = 365 * (y - 1970) + leaps(y) - leaps(1970) + c[m - 1] + d - 1
  BY Zenon DEF DaysBefore, c
<1> HIDE DEF leaps
<1>6. LeapsBefore(y) \in Int /\ MonthsBefore(Leap(y))[m] \in Nat
  <2>1. m = 1 \/ m = 2 \/ m = 3 \/ m = 4 \/ m = 5 \/ m = 6 \/ m = 7
          \/ m = 8 \/ m = 9 \/ m = 10 \/ m = 11 \/ m = 12
    OBVIOUS
  <2>2. QED BY <2>1 DEF LeapsBefore, MonthsBefore
<1>7. QED BY <1>3, <1>4, <1>5, <1>6, SMT DEF DaysCounted

(* Days are counted by an integer.                                          *)
LEMMA CountedType ==
    ASSUME NEW y \in Nat, NEW m \in 1..12, NEW d \in Nat
    PROVE  DaysCounted(y, m, d) \in Int
<1>1. LeapsBefore(y) \in Int
  BY SMT DEF LeapsBefore
<1>2. MonthsBefore(Leap(y))[m] \in Nat
  <2>1. m = 1 \/ m = 2 \/ m = 3 \/ m = 4 \/ m = 5 \/ m = 6 \/ m = 7
          \/ m = 8 \/ m = 9 \/ m = 10 \/ m = 11 \/ m = 12
    OBVIOUS
  <2>2. QED BY <2>1 DEF MonthsBefore
<1>3. QED BY <1>1, <1>2, SMT DEF DaysCounted

(* The closed form counts the days.                                         *)
LEMMA CivilDays ==
    ASSUME NEW y \in Nat, NEW m \in 1..12, NEW d \in Nat
    PROVE  DaysFromCivil(y, m, d) = DaysBefore(y, m, d)
<1> DEFINE z == IF m <= 2 THEN y - 1 ELSE y
           era == z \div 400
           yoe == z - era * 400
           doy == (153 * (IF m > 2 THEN m - 3 ELSE m + 9) + 2) \div 5 + d - 1
<1>1. z \in Int /\ era \in Int /\ yoe \in Int
  OBVIOUS
<1>2. yoe \div 4 = z \div 4 - 100 * era /\ yoe \div 100 = z \div 100 - 4 * era
  OBVIOUS
<1>3. DaysFromCivil(y, m, d) = era * 146097 + (yoe * 365 + yoe \div 4 - yoe \div 100 + doy) - 719468
  BY DEF DaysFromCivil
<1>4. DaysFromCivil(y, m, d) = 365 * z + z \div 4 - z \div 100 + z \div 400 + doy - 719468
  <2>1. doy \in Int /\ z \div 4 \in Int /\ z \div 100 \in Int
    OBVIOUS
  <2>2. z \div 400 = era
    OBVIOUS
  <2> HIDE DEF z, era, doy
  <2>3. QED BY <1>1, <1>2, <1>3, <2>1, <2>2
<1>5. 365 * z + z \div 4 - z \div 100 + z \div 400
        = 365 * y + LeapsBefore(y)
            - (IF m <= 2 THEN 366 ELSE IF Leap(y) THEN 0 ELSE 1)
  <2>1. CASE m <= 2
    BY <2>1 DEF LeapsBefore
  <2>2. CASE ~(m <= 2) /\ Leap(y)
    BY <2>2 DEF LeapsBefore, Leap
  <2>3. CASE ~(m <= 2) /\ ~Leap(y)
    BY <2>3 DEF LeapsBefore, Leap
  <2>4. QED BY <2>1, <2>2, <2>3
<1>6. doy = 60 + MonthsBefore(Leap(y))[m]
            + (IF m <= 2 THEN 366 - 120 ELSE IF Leap(y) THEN -120 ELSE -119) + d - 1
  <2>1. m = 1 \/ m = 2 \/ m = 3 \/ m = 4 \/ m = 5 \/ m = 6 \/ m = 7
          \/ m = 8 \/ m = 9 \/ m = 10 \/ m = 11 \/ m = 12
    OBVIOUS
  <2>2. QED BY <2>1 DEF MonthsBefore
<1>7. LeapsBefore(y) \in Int /\ MonthsBefore(Leap(y))[m] \in Nat
  <2>1. m = 1 \/ m = 2 \/ m = 3 \/ m = 4 \/ m = 5 \/ m = 6 \/ m = 7
          \/ m = 8 \/ m = 9 \/ m = 10 \/ m = 11 \/ m = 12
    OBVIOUS
  <2>2. QED BY <2>1 DEF LeapsBefore, MonthsBefore
<1>8. DaysBefore(y, m, d) = DaysCounted(y, m, d)
  BY DaysBeforeIs
<1>9. z \div 4 \in Int /\ z \div 100 \in Int /\ z \div 400 \in Int
  BY SMT
<1> HIDE DEF z, doy
<1> DEFINE months == MonthsBefore(Leap(y))[m]
           leaps == LeapsBefore(y)
<1>10. months \in Nat /\ leaps \in Int
  BY <1>7
<1> HIDE DEF months, leaps
<1>11. CASE m <= 2
  BY <1>1, <1>4, <1>5, <1>6, <1>8, <1>9, <1>10, <1>11, SMT DEF months, leaps, DaysCounted
<1>12. CASE ~(m <= 2)
  BY <1>1, <1>4, <1>5, <1>6, <1>8, <1>9, <1>10, <1>12, SMT DEF months, leaps, DaysCounted
<1>13. QED BY <1>11, <1>12

(* The first three digits after the point, whatever follows them.           *)
Decimal(v, d, N) ==
    /\ v \in [0..N -> Nat] /\ v[0] = 0
    /\ \A k \in 1..N : d[k] \in 0..9 /\ v[k] = v[k - 1] * 10 + d[k]
Tens(p) == p \in [Nat -> Nat] /\ p[0] = 1 /\ \A n \in Nat : p[n + 1] = 10 * p[n]

(* The first powers of ten.                                                 *)
LEMMA FirstTens ==
    ASSUME NEW p, Tens(p)
    PROVE  p[1] = 10 /\ p[2] = 100 /\ p[3] = 1000
<1>1. \E w, x, y, z \in Nat :
          /\ w = p[0] /\ x = p[1] /\ y = p[2] /\ z = p[3]
          /\ w = 1 /\ x = 10 * w /\ y = 10 * x /\ z = 10 * y
  <2>1. p[0] \in Nat /\ p[1] \in Nat /\ p[2] \in Nat /\ p[3] \in Nat
    BY DEF Tens
  <2>2. p[0 + 1] = 10 * p[0] /\ p[1 + 1] = 10 * p[1] /\ p[2 + 1] = 10 * p[2]
    BY Zenon DEF Tens
  <2>3. p[1] = 10 * p[0] /\ p[2] = 10 * p[1] /\ p[3] = 10 * p[2]
    BY <2>2
  <2>4. p[0] = 1
    BY DEF Tens
  <2>5. QED BY <2>1, <2>3, <2>4, Zenon
<1>2. PICK w, x, y, z \in Nat :
          /\ w = p[0] /\ x = p[1] /\ y = p[2] /\ z = p[3]
          /\ w = 1 /\ x = 10 * w /\ y = 10 * x /\ z = 10 * y
  BY <1>1
<1>3. x = 10 /\ y = 100 /\ z = 1000
  BY <1>2
<1>4. QED BY <1>2, <1>3, SMT

(* One more decimal.                                                        *)
LEMMA NextDecimal ==
    ASSUME NEW N \in Nat, NEW d, NEW v, Decimal(v, d, N), NEW k \in 0..N, k < N,
           NEW n, n = k + 1
    PROVE  /\ v[k] \in Nat /\ v[n] \in Nat /\ d[n] \in 0..9
           /\ v[n] = v[k] * 10 + d[n]
<1>1. k + 1 \in 1..N /\ k + 1 \in 0..N /\ (k + 1) - 1 = k
  OBVIOUS
<1>2. d[k + 1] \in 0..9 /\ v[k + 1] = v[(k + 1) - 1] * 10 + d[k + 1]
  BY <1>1, Zenon DEF Decimal
<1>3. v[k] \in Nat /\ v[k + 1] \in Nat
  BY <1>1 DEF Decimal
<1>4. QED BY <1>1, <1>2, <1>3, Zenon

(* The first three decimals.                                                *)
LEMMA ThreeDecimals ==
    ASSUME NEW N \in Nat, NEW d, NEW v, Decimal(v, d, N)
    PROVE  /\ v[0] = 0
           /\ N >= 1 => d[1] \in 0..9 /\ v[1] = d[1]
           /\ N >= 2 => d[2] \in 0..9 /\ v[2] = 10 * d[1] + d[2]
           /\ N >= 3 => d[3] \in 0..9 /\ v[3] = 100 * d[1] + 10 * d[2] + d[3]
<1>1. v[0] = 0
  BY DEF Decimal
<1>2. ASSUME N >= 1 PROVE d[1] \in 0..9 /\ v[1] = d[1]
  <2>1. 0 \in 0..N /\ 0 < N /\ 0 + 1 = 1
    BY <1>2
  <2>2. v[1] = v[0] * 10 + d[1] /\ d[1] \in 0..9
    BY <2>1, NextDecimal
  <2>3. QED BY <1>1, <2>2
<1>3. ASSUME N >= 2 PROVE d[2] \in 0..9 /\ v[2] = 10 * d[1] + d[2]
  <2>1. 1 \in 0..N /\ 1 < N /\ 1 + 1 = 2 /\ N >= 1
    BY <1>3
  <2>2. v[2] = v[1] * 10 + d[2] /\ d[2] \in 0..9
    BY <2>1, NextDecimal
  <2>3. PICK a, b \in 0..9 : a = d[1] /\ b = d[2]
    BY <1>2, <2>1, <2>2
  <2>4. v[2] = a * 10 + b
    BY <1>2, <2>1, <2>2, <2>3, Zenon
  <2>5. a * 10 + b = 10 * a + b
    OBVIOUS
  <2>6. QED BY <2>2, <2>3, <2>4, <2>5, Zenon
<1>4. ASSUME N >= 3 PROVE d[3] \in 0..9 /\ v[3] = 100 * d[1] + 10 * d[2] + d[3]
  <2>1. 2 \in 0..N /\ 2 < N /\ 2 + 1 = 3 /\ N >= 1 /\ N >= 2
    BY <1>4
  <2>2. v[3] = v[2] * 10 + d[3] /\ d[3] \in 0..9
    BY <2>1, NextDecimal
  <2>3. PICK a, b, c \in 0..9 : a = d[1] /\ b = d[2] /\ c = d[3]
    BY <1>2, <1>3, <2>1, <2>2
  <2>4. v[3] = (10 * a + b) * 10 + c
    BY <1>3, <2>1, <2>2, <2>3, Zenon
  <2>5. v[3] = 100 * a + 10 * b + c
    BY <2>4
  <2>6. QED BY <2>2, <2>3, <2>5, Zenon
<1>5. QED BY <1>1, <1>2, <1>3, <1>4

(* Decimals after the third do not count.                                   *)
LEMMA FirstThree ==
    ASSUME NEW N \in Nat, N >= 3, NEW d, NEW v, NEW p, Decimal(v, d, N), Tens(p),
           NEW K \in Nat \ {0}, p[3] = K
    PROVE  (v[N] * K) \div p[N] = v[3]
<1> DEFINE M == v[3]
           Right(n) == \E q, r \in Nat : /\ p[n + 3] = q * K /\ r < q
                                         /\ v[n + 3] = M * q + r
           Known == {n \in Nat : n + 3 <= N => Right(n)}
<1>1. M \in Nat
  BY DEF Decimal
<1> HIDE DEF M
<1>2. 0 \in Known
  <2>1. p[3] = 1 * K
    OBVIOUS
  <2>2. v[3] = M * 1 + 0
    BY <1>1 DEF M
  <2>3. 0 + 3 = 3 /\ 0 < 1 /\ 0 \in Nat /\ 1 \in Nat
    OBVIOUS
  <2>4. QED BY <2>1, <2>2, <2>3, Zenon
<1>3. ASSUME NEW n \in Nat, n \in Known PROVE n + 1 \in Known
  <2> SUFFICES ASSUME n + 4 <= N PROVE Right(n + 1)
    OBVIOUS
  <2>1. PICK q, r \in Nat : p[n + 3] = q * K /\ r < q /\ v[n + 3] = M * q + r
    BY <1>3
  <2>2. n + 3 \in 0..N /\ n + 3 < N /\ n + 3 \in Nat /\ (n + 3) + 1 = n + 4
    OBVIOUS
  <2>3. PICK e \in 0..9 : v[n + 4] = v[n + 3] * 10 + e
    <3>1. d[(n + 3) + 1] \in 0..9 /\ v[(n + 3) + 1] = v[n + 3] * 10 + d[(n + 3) + 1]
      BY <2>2, NextDecimal
    <3>2. QED BY <2>2, <3>1, Zenon
  <2>4. p[n + 4] = 10 * p[n + 3]
    BY <2>2, Zenon DEF Tens
  <2>5. (M * q + r) * 10 + e = M * (10 * q) + (10 * r + e)
    BY <1>1
  <2>6. v[n + 4] = M * (10 * q) + (10 * r + e)
    BY <2>1, <2>3, <2>5, Zenon
  <2>7. 10 * (q * K) = (10 * q) * K
    OBVIOUS
  <2>8. p[n + 4] = (10 * q) * K
    BY <2>1, <2>4, <2>7, Zenon
  <2>9. 10 * r + e < 10 * q
    BY <2>1
  <2>10. 10 * q \in Nat /\ 10 * r + e \in Nat /\ (n + 1) + 3 = n + 4
    OBVIOUS
  <2>11. QED BY <2>6, <2>8, <2>9, <2>10, Zenon
<1>4. N - 3 \in Known
  <2>1. N - 3 \in Nat
    OBVIOUS
  <2> HIDE DEF Known
  <2>2. QED BY <1>2, <1>3, <2>1, Naturals0
<1>5. PICK q, r \in Nat : p[N] = q * K /\ r < q /\ v[N] = M * q + r
  <2>1. (N - 3) + 3 = N /\ (N - 3) + 3 <= N
    OBVIOUS
  <2>2. QED BY <1>4, <2>1
<1> DEFINE a == (M * q + r) * K
           b == q * K
           s == r * K
<1>6. a \in Nat /\ b \in Nat \ {0} /\ s \in Nat /\ s < b
  BY <1>1, <1>5
<1>7. a = M * b + s
  BY <1>1
<1> HIDE DEF a, b, s
<1>8. a \div b = M
  BY <1>1, <1>6, <1>7, QuotientIs
<1>9. QED BY <1>5, <1>8, Zenon DEF a, b, M

Thousandths == 0..999

(* The milliseconds of a fraction.                                          *)
LEMMA FractionMillis ==
    ASSUME NEW f \in Seq(0..9)
    PROVE  /\ (Value(f, 10) * 1000) \div Power(10, Len(f)) = Millis(f)
           /\ Millis(f) \in 0..999
<1> DEFINE N == Len(f)
           p == [n \in Nat |-> Power(10, n)]
           V == Value(f, 10)
           D(i) == IF i <= N THEN f[i] ELSE 0
           K == 1000
<1>1. f \in Seq(Nat) /\ N \in Nat /\ \A k \in 1..N : f[k] \in 0..9
  OBVIOUS
<1>2. PICK v : PrefixValues(v, f, 10) /\ V = v[N]
  BY <1>1, PrefixesExist
<1>3. Decimal(v, f, N)
  BY <1>1, <1>2, Zenon DEF PrefixValues, Decimal
<1>4. Tens(p)
  <2>1. 10 \in Nat /\ 0 \in Nat /\ \A n \in Nat : n + 1 \in Nat
    OBVIOUS
  <2>2. QED BY <2>1, PowerFacts, Zenon DEF Tens
<1>5. Millis(f) = 100 * D(1) + 10 * D(2) + D(3)
  BY Zenon DEF Millis, Digit
<1>6. Power(10, N) = p[N]
  BY <1>1 DEF p
<1> HIDE DEF D, N, V, p
<1>7. N \in Nat
  BY <1>1
<1> DEFINE U == (v[N] * K) \div p[N]
           T(a, b, c) == 100 * a + 10 * b + c
<1> HIDE DEF T, K
<1>8. \E a, b, c \in 0..9 : a = D(1) /\ b = D(2) /\ c = D(3) /\ U = T(a, b, c)
  <2>1. CASE N = 0
    <3>1. D(1) = 0 /\ D(2) = 0 /\ D(3) = 0
      BY <2>1 DEF D
    <3>2. v[0] = 0 /\ p[0] = 1
      BY <1>3, <1>4, Zenon DEF Decimal, Tens
    <3>3. (0 * K) \div 1 = T(0, 0, 0) /\ 0 \in 0..9
      BY DEF T, K
    <3>4. QED BY <2>1, <3>1, <3>2, <3>3, Zenon
  <2>2. CASE N = 1
    <3>1. D(1) = f[1] /\ D(2) = 0 /\ D(3) = 0
      BY <2>2 DEF D
    <3>2. f[1] \in 0..9 /\ v[1] = f[1]
      BY <1>3, <1>7, <2>2, ThreeDecimals
    <3>3. p[1] = 10
      BY <1>4, FirstTens
    <3>4. 0 \in 0..9 /\ \A a \in 0..9 : (a * K) \div 10 = T(a, 0, 0)
      BY DEF T, K
    <3>5. QED BY <2>2, <3>1, <3>2, <3>3, <3>4, Zenon
  <2>3. CASE N = 2
    <3>1. D(1) = f[1] /\ D(2) = f[2] /\ D(3) = 0
      BY <2>3 DEF D
    <3>2. f[1] \in 0..9 /\ f[2] \in 0..9 /\ v[2] = 10 * f[1] + f[2]
      BY <1>3, <1>7, <2>3, ThreeDecimals
    <3>3. p[2] = 100
      BY <1>4, FirstTens
    <3>4. 0 \in 0..9 /\ \A a, b \in 0..9 : ((10 * a + b) * K) \div p[2] = T(a, b, 0)
      BY <3>3 DEF T, K
    <3>5. QED BY <2>3, <3>1, <3>2, <3>4, Zenon
  <2>4. CASE N >= 3
    <3>1. D(1) = f[1] /\ D(2) = f[2] /\ D(3) = f[3]
      BY <1>7, <2>4 DEF D
    <3>2. N >= 1 /\ N >= 2
      BY <1>7, <2>4
    <3>3. /\ f[1] \in 0..9 /\ f[2] \in 0..9 /\ f[3] \in 0..9
          /\ v[3] = T(f[1], f[2], f[3])
      <4>1. /\ f[1] \in 0..9 /\ f[2] \in 0..9 /\ f[3] \in 0..9
            /\ v[3] = 100 * f[1] + 10 * f[2] + f[3]
        BY <1>3, <1>7, <2>4, <3>2, ThreeDecimals
      <4>2. QED BY <4>1 DEF T
    <3>4. U = v[3]
      <4>1. K \in Nat \ {0} /\ p[3] = K
        BY <1>4, FirstTens DEF K
      <4>2. QED BY <1>3, <1>4, <1>7, <2>4, <4>1, FirstThree
    <3>5. QED BY <3>1, <3>3, <3>4, Zenon
  <2>5. N = 0 \/ N = 1 \/ N = 2 \/ N >= 3
    BY <1>7
  <2>6. QED BY <2>1, <2>2, <2>3, <2>4, <2>5
<1>9. PICK a, b, c \in 0..9 : a = D(1) /\ b = D(2) /\ c = D(3) /\ U = T(a, b, c)
  BY <1>8
<1>10. T(a, b, c) \in 0..999
  BY DEF T
<1>11. Millis(f) = T(a, b, c)
  BY <1>5, <1>9, Zenon DEF T
<1>12. (V * K) \div Power(10, N) = T(a, b, c)
  BY <1>2, <1>6, <1>9, Zenon
<1>13. QED BY <1>10, <1>11, <1>12, SMT DEF N, V, K

(* The same, under one name.                                                *)
Fraction(f) ==
    /\ (Value(f, 10) * 1000) \div Power(10, Len(f)) = Millis(f)
    /\ Millis(f) \in Thousandths

LEMMA FractionIs == ASSUME NEW f \in Seq(0..9) PROVE Fraction(f)
BY FractionMillis, SMTT(60) DEF Fraction, Thousandths

(* The seconds of a date's clock since midnight at Greenwich.               *)
Clock(t) ==
    LET local == (t.hour * 60 + t.minute) * 60 + t.second IN local - t.offset * 60

(* An instant's seconds, counted from the start of a day.                   *)
Seconds(instant, days) == (instant.days - days) * DaySeconds + instant.seconds
InDay(instant) == instant.seconds \in 0..(DaySeconds - 1)

(* A day has seconds.                                                       *)
LEMMA DayIs == DaySeconds \in Nat \ {0}
BY SMT DEF DaySeconds

(* The instant of a date is a record of the type Absent is not of.          *)
LEMMA Instant ==
    ASSUME NEW days \in Int, NEW seconds \in Int, NEW millis \in Thousandths
    PROVE  LET instant == DayOf(days, seconds, millis) IN
           /\ instant # Absent
           /\ instant.millis = millis
           /\ InDay(instant)
           /\ Seconds(instant, days) = seconds
<1> DEFINE whole == seconds \div DaySeconds
           left == seconds % DaySeconds
           instant == DayOf(days, seconds, millis)
<1>1. whole \in Int /\ left \in 0..(DaySeconds - 1) /\ seconds = whole * DaySeconds + left
  BY DayIs, SMT
<1>2. instant = [days |-> days + whole, seconds |-> left, millis |-> millis]
  BY Zenon DEF DayOf
<1> HIDE DEF whole, left, instant
<1>3. instant.days = days + whole /\ instant.seconds = left /\ instant.millis = millis
  BY <1>2, SMT
<1>4. instant \in Instants
  <2>1. days + whole \in Int
    BY <1>1, SMT
  <2> DEFINE L == 0..(DaySeconds - 1)
  <2>2. left \in L
    BY <1>1
  <2> HIDE DEF L
  <2>3. instant \in [days : Int, seconds : L, millis : 0..999]
    BY <1>2, <2>1, <2>2, SMT DEF Thousandths
  <2>4. QED BY <2>3, SMT DEF Instants, L
<1>5. instant # Absent
  BY <1>4, AbsentAssumption
<1>6. Seconds(instant, days) = ((days + whole) - days) * DaySeconds + left
  BY <1>3 DEF Seconds
<1>7. ((days + whole) - days) * DaySeconds + left = seconds
  BY <1>1, DayIs, SMT
<1>8. InDay(instant)
  BY <1>1, <1>3 DEF InDay
<1>9. QED BY <1>3, <1>5, <1>6, <1>7, <1>8, Zenon DEF instant

(* The parts of a served date.                                              *)
LEMMA DateType ==
    ASSUME NEW t \in Dates
    PROVE  /\ t.form = "date" /\ t.year \in Nat /\ t.month \in 1..13
           /\ t.day \in Nat /\ t.hour \in Nat /\ t.minute \in Nat /\ t.second \in Nat
           /\ t.offset \in Int /\ t.fraction \in Seq(0..9)
<1>1. Years \subseteq Nat /\ Offsets \subseteq Int /\ Fractions \subseteq Seq(0..9)
  BY CodecsAssumption, Zenon
<1>2. /\ t.form \in {"date"} /\ t.year \in Years /\ t.month \in 1..13
      /\ t.day \in {0, 1, 15, 28, 29, 30, 31, 32} /\ t.hour \in {0, 23, 24}
      /\ t.minute \in {0, 30, 59, 60} /\ t.second \in {0, 59, 60, 61}
      /\ t.offset \in Offsets /\ t.fraction \in Fractions
  BY SMT DEF Dates
<1>3. t.year \in Nat /\ t.offset \in Int /\ t.fraction \in Seq(0..9)
  BY <1>1, <1>2, Zenon
<1>4. t.day \in Nat /\ t.hour \in Nat /\ t.minute \in Nat /\ t.second \in Nat
  BY <1>2, SMT
<1>5. QED BY <1>2, <1>3, <1>4, Zenon

(* The seconds of a clock, as they are parsed and as they are counted.      *)
LEMMA ClockTime ==
    ASSUME NEW hour \in Nat, NEW minute \in Nat, NEW second \in Nat, NEW offset \in Int
    PROVE  hour * 3600 + minute * 60 + second - offset * 60
             = ((hour * 60 + minute) * 60 + second) - offset * 60
BY SMT

(* No date at all: month, day or clock out of its range.                    *)
OutOfRange(t) ==
    \/ t.month \notin 1..12 \/ t.day \notin 1..31
    \/ t.hour > 23 \/ t.minute > 59 \/ t.second > 60

(* The date of a text that has the form: where its clock is one, a date of  *)
(* the calendar's ranges is parsed.                                         *)
LEMMA Parsed ==
    ASSUME NEW t \in Dates
    PROVE  ParseRfc3339Millis(t)
             = IF OutOfRange(t) THEN Absent
               ELSE DayOf(DaysFromCivil(t.year, t.month, t.day), Clock(t), Millis(t.fraction))
<1>1. t.hour \in Nat /\ t.minute \in Nat /\ t.second \in Nat /\ t.offset \in Int
  BY DateType
<1> DEFINE seconds == t.hour * 3600 + t.minute * 60 + t.second - t.offset * 60
<1>2. seconds = Clock(t)
  <2>1. PICK h \in Nat, m \in Nat, s \in Nat, o \in Int :
            h = t.hour /\ m = t.minute /\ s = t.second /\ o = t.offset
    BY <1>1
  <2>2. seconds = h * 3600 + m * 60 + s - o * 60
    BY <2>1, SMT
  <2>3. Clock(t) = ((h * 60 + m) * 60 + s) - o * 60
    BY <2>1, SMT DEF Clock
  <2> HIDE DEF seconds
  <2>4. QED BY <2>2, <2>3, ClockTime, SMT
<1>3. ParseRfc3339Millis(t)
        = IF OutOfRange(t) THEN Absent
          ELSE DayOf(DaysFromCivil(t.year, t.month, t.day), seconds, Millis(t.fraction))
  BY Zenon DEF ParseRfc3339Millis, OutOfRange
<1> HIDE DEF seconds
<1>4. QED BY <1>2, <1>3, Zenon

(* The seconds of a clock are an integer.                                   *)
LEMMA ClockType ==
    ASSUME NEW t \in Dates
    PROVE  Clock(t) \in Int
<1>1. t.hour \in Nat /\ t.minute \in Nat /\ t.second \in Nat /\ t.offset \in Int
  BY DateType
<1>2. PICK h \in Nat, m \in Nat, s \in Nat, o \in Int :
          h = t.hour /\ m = t.minute /\ s = t.second /\ o = t.offset
  BY <1>1
<1>3. Clock(t) = ((h * 60 + m) * 60 + s) - o * 60
  BY <1>2, SMT DEF Clock
<1>4. QED BY <1>3, SMT

(* A stamped date that is one is the instant its days, its clock and its    *)
(* offset make; a text that is no date is passed on.                        *)
LEMMA Stamped ==
    ASSUME NEW t \in Dates
    PROVE  LET stamp == ToSignedTimestamp(t)
           IN  IF OutOfRange(t) THEN stamp = t
               ELSE /\ stamp.millis = Millis(t.fraction)
                    /\ InDay(stamp)
                    /\ Seconds(stamp, DaysBefore(t.year, t.month, t.day)) = Clock(t)
<1> DEFINE stamp == ToSignedTimestamp(t)
           parsed == ParseRfc3339Millis(t)
           other == OutOfRange(t)
           days == DaysFromCivil(t.year, t.month, t.day)
           before == DaysBefore(t.year, t.month, t.day)
<1>1. t.form = "date" /\ t.fraction \in Seq(0..9)
  BY DateType
<1>2. PICK y \in Nat, m \in 1..13, d \in Nat : y = t.year /\ m = t.month /\ d = t.day
  BY DateType
<1>3. stamp = IF parsed = Absent THEN t ELSE parsed
  <2>1. t.form # "empty" /\ t.form \notin {"digits", "other"}
    BY <1>1
  <2>2. QED BY <1>1, <2>1, Zenon DEF ToSignedTimestamp
<1>4. parsed = IF other THEN Absent ELSE DayOf(days, Clock(t), Millis(t.fraction))
  BY Parsed, Zenon
<1>6. ~other => days = before /\ before \in Int
  <2> SUFFICES ASSUME ~other PROVE days = before /\ before \in Int
    OBVIOUS
  <2>1. m \in 1..12
    BY <1>2 DEF OutOfRange
  <2>2. DaysFromCivil(y, m, d) = DaysBefore(y, m, d)
    BY <2>1, CivilDays, SMT
  <2>3. DaysBefore(y, m, d) = DaysCounted(y, m, d) /\ DaysCounted(y, m, d) \in Int
    <3>1. DaysBefore(y, m, d) = DaysCounted(y, m, d)
      BY <2>1, DaysBeforeIs
    <3>2. DaysCounted(y, m, d) \in Int
      BY <2>1, CountedType
    <3>3. QED BY <3>1, <3>2, Zenon
  <2>4. QED BY <1>2, <2>2, <2>3, Zenon
<1>7. Millis(t.fraction) \in Thousandths
  <2>1. Fraction(t.fraction)
    BY <1>1, FractionIs, Zenon
  <2>2. QED BY <2>1 DEF Fraction
<1> DEFINE day == DayOf(before, Clock(t), Millis(t.fraction))
<1>8. ~other => /\ day # Absent
                /\ day.millis = Millis(t.fraction)
                /\ InDay(day)
                /\ Seconds(day, before) = Clock(t)
  <2> SUFFICES ASSUME ~other PROVE day # Absent /\ day.millis = Millis(t.fraction)
                                   /\ InDay(day) /\ Seconds(day, before) = Clock(t)
    OBVIOUS
  <2>1. Clock(t) \in Int /\ before \in Int
    BY <1>6, ClockType
  <2> HIDE DEF before
  <2>2. QED BY <1>7, <2>1, Instant, Zenon
<1> HIDE DEF stamp, parsed, days, before, day
<1>9. ~other => stamp = day
  BY <1>3, <1>4, <1>6, <1>8, Zenon DEF day
<1>10. other => stamp = t
  BY <1>3, <1>4, Zenon
<1>11. QED BY <1>8, <1>9, <1>10, Zenon DEF stamp, before

(* What TimestampExact says of a served date and its stamp.                 *)
Stamps(t, stamp) ==
    LET f == t.fraction
    IN  IF \/ t.month > 12 \/ t.day \notin 1..31
           \/ t.hour > 23 \/ t.minute > 59 \/ t.second > 60
        THEN stamp = t
        ELSE
            /\ stamp.millis = (Value(f, 10) * 1000) \div Power(10, Len(f))
            /\ InDay(stamp)
            /\ Seconds(stamp, DaysBefore(t.year, t.month, t.day)) = Clock(t)

(* Every date is stamped so.                                                *)
LEMMA DateStamps ==
    ASSUME NEW t \in Dates
    PROVE  Stamps(t, ToSignedTimestamp(t))
<1> DEFINE exact == (Value(t.fraction, 10) * 1000) \div Power(10, Len(t.fraction))
<1>1. exact = Millis(t.fraction)
  <2>1. Fraction(t.fraction)
    BY DateType, FractionIs, Zenon
  <2>2. QED BY <2>1 DEF Fraction
<1> HIDE DEF exact
<1>2. t.month > 12 <=> t.month \notin 1..12
  <2>1. PICK m \in 1..13 : m = t.month
    BY DateType
  <2>2. QED BY <2>1
<1>3. QED BY <1>1, <1>2, Stamped, Zenon DEF Stamps, OutOfRange, exact

(* A createdAt that has the form of a date is stamped as the instant it     *)
(* counts up to, in any year, with any offset and any number of digits      *)
(* after the point, days past the end of their month included, and what is  *)
(* out of a range is hashed as it was served: toSignedTimestamp,            *)
(* parseRfc3339Millis and daysFromCivil.                                    *)
THEOREM TimestampExactCorrect == Spec => []TimestampExact
<1>1. ASSUME Answered, Called("stamp") PROVE Stamps(job.served, result)
  <2>1. Stamping
    <3>1. job # Idle /\ job.call = "stamp"
      BY <1>1 DEF Called
    <3>2. ~Converting /\ ~Hashing /\ ~Adding
      BY <3>1 DEF Converting, Hashing, Adding
    <3>3. ~Encoding /\ ~Decoding /\ ~Making /\ ~Passing
      BY <3>1 DEF Encoding, Decoding, Making, Passing
    <3>4. ~Binding
      <4>1. \A w, other : job = [call |-> "bind", w |-> w, other |-> other] => job.call = "bind"
        OBVIOUS
      <4>2. QED BY <3>1, <4>1, Zenon DEF Binding
    <3>5. QED BY <1>1, <3>1, <3>2, <3>3, <3>4, Zenon DEF Answered
  <2>2. PICK served \in Dates :
          job = [call |-> "stamp", served |-> served] /\ result = ToSignedTimestamp(served)
    BY <2>1, Zenon DEF Stamping
  <2>3. job.served = served
    BY <2>2
  <2>4. QED BY <2>2, <2>3, DateStamps, Zenon
<1>2. ASSUME Answered, Called("pass")
      PROVE  result = IF job.served.form = "empty" THEN Absent ELSE job.served
  <2>1. Passing
    <3>1. job # Idle /\ job.call = "pass"
      BY <1>2 DEF Called
    <3>2. ~Converting /\ ~Hashing /\ ~Adding
      BY <3>1 DEF Converting, Hashing, Adding
    <3>3. ~Encoding /\ ~Decoding /\ ~Making /\ ~Stamping
      BY <3>1 DEF Encoding, Decoding, Making, Stamping
    <3>4. ~Binding
      <4>1. \A w, other : job = [call |-> "bind", w |-> w, other |-> other] => job.call = "bind"
        OBVIOUS
      <4>2. QED BY <3>1, <4>1, Zenon DEF Binding
    <3>5. QED BY <1>2, <3>1, <3>2, <3>3, <3>4, Zenon DEF Answered
  <2>2. PICK form \in {"empty", "digits", "other"} :
          /\ job = [call |-> "pass", served |-> [form |-> form]]
          /\ result = ToSignedTimestamp([form |-> form])
    BY <2>1, Zenon DEF Passing
  <2>3. job.served = [form |-> form] /\ [form |-> form].form = form
    BY <2>2, SMT
  <2>4. ToSignedTimestamp([form |-> form]) = IF form = "empty" THEN Absent ELSE [form |-> form]
    <3>1. CASE form = "empty"
      BY <3>1, <2>3, Zenon DEF ToSignedTimestamp
    <3>2. CASE form # "empty"
      <4>1. form \in {"digits", "other"}
        BY <2>2, <3>2
      <4>2. [form |-> form].form # "empty" /\ [form |-> form].form \in {"digits", "other"}
            /\ [form |-> form].form # "date"
        BY <3>2, <4>1, <2>3
      <4>3. QED BY <3>2, <4>2, Zenon DEF ToSignedTimestamp
    <3>3. QED BY <3>1, <3>2
  <2>5. QED BY <2>2, <2>3, <2>4, Zenon
<1>3. ASSUME Answered PROVE TimestampExact
  <2>1. Called("stamp") => Stamps(job.served, result)
    BY <1>1, <1>3
  <2>2. Called("pass") => result = IF job.served.form = "empty" THEN Absent ELSE job.served
    BY <1>2, <1>3
  <2>3. QED BY <2>1, <2>2, SMT DEF TimestampExact, Stamps, InDay, Seconds, Clock
<1>4. QED BY <1>3, AlwaysAnswered, PTL
==============================================================================
