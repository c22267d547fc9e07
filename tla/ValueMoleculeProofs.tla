------------------------- MODULE ValueMoleculeProofs -------------------------
(***************************************************************************)
(* What the builders of a molecule conserve, for any wallets, amounts and   *)
(* units, and what Molecule::check lets through, for atoms a peer serves.   *)
(***************************************************************************)
EXTENDS ValueMolecule, Sums, SequenceTheorems, TLAPS

USE MoleculeAssumption

(* The sums check takes, of any atoms.                                      *)
VSum(as, t) ==
    SumOf([i \in DOMAIN as |->
              IF as[i].isotope = "V" /\ as[i].token = t THEN as[i].value ELSE 0])
TokenSum(as, t) ==
    SumOf([i \in DOMAIN as |-> IF as[i].token = t THEN as[i].value ELSE 0])
CrossSum(as) ==
    SumOf([i \in DOMAIN as |->
              IF as[i].isotope \in {"V", "B", "F"} THEN as[i].value ELSE 0])

(* Molecule::check of any atoms.                                            *)
Crossing(as) == \E i \in DOMAIN as : Crosses(as[i])

Passes(as) ==
    /\ as # << >>
    /\ as[1].token = "USER" => \E i \in DOMAIN as : as[i].isotope = "I"
    /\ IF Crossing(as)
       THEN /\ \A i \in DOMAIN as : Crosses(as[i]) => as[i].owner # ""
            /\ \A i \in DOMAIN as : as[i].isotope = "F" => as[i].value >= 0
            /\ CrossSum(as) = 0
       ELSE \A i \in DOMAIN as :
               as[i].isotope = "V" /\ (\A j \in 1..(i - 1) : as[j].token # as[i].token)
                  => VSum(as, as[i].token) = 0

LEMMA TotalIsSum == \A v : Total(v) = SumOf(v)
BY Zenon DEF Total, SumOf

LEMMA SumsOfCheck ==
    /\ Sum(LAMBDA a : Crosses(a) \/ a.isotope = "V") = CrossSum(atoms)
    /\ \A t : Sum(LAMBDA a : a.isotope = "V" /\ a.token = t) = VSum(atoms, t)
    /\ \A t : Sum(LAMBDA a : a.token = t) = TokenSum(atoms, t)
<1>1. [i \in DOMAIN atoms |-> IF Crosses(atoms[i]) \/ atoms[i].isotope = "V"
                                THEN atoms[i].value ELSE 0]
        = [i \in DOMAIN atoms |-> IF atoms[i].isotope \in {"V", "B", "F"}
                                THEN atoms[i].value ELSE 0]
  BY DEF Crosses
<1>2. Sum(LAMBDA a : Crosses(a) \/ a.isotope = "V") = CrossSum(atoms)
  BY <1>1, TotalIsSum DEF Sum, CrossSum
<1>4. ASSUME NEW t
      PROVE  /\ Sum(LAMBDA a : a.isotope = "V" /\ a.token = t) = VSum(atoms, t)
             /\ Sum(LAMBDA a : a.token = t) = TokenSum(atoms, t)
  BY TotalIsSum DEF Sum, VSum, TokenSum
<1>5. QED BY <1>2, <1>4

LEMMA CheckPasses == Check <=> Passes(atoms)
<1>1. HasContinuId <=> (atoms[1].token = "USER"
                          => \E i \in DOMAIN atoms : atoms[i].isotope = "I")
  BY DEF HasContinuId
<1>2. CrossConserved <=>
        /\ \A i \in DOMAIN atoms : Crosses(atoms[i]) => atoms[i].owner # ""
        /\ \A i \in DOMAIN atoms : atoms[i].isotope = "F" => atoms[i].value >= 0
        /\ CrossSum(atoms) = 0
  BY SumsOfCheck DEF CrossConserved
<1>3. VConserved <=>
        \A i \in DOMAIN atoms :
           atoms[i].isotope = "V"
             /\ (\A j \in 1..(i - 1) : atoms[j].token # atoms[i].token)
               => VSum(atoms, atoms[i].token) = 0
  BY SumsOfCheck DEF VConserved, FirstOfToken
<1>4. QED BY <1>1, <1>2, <1>3 DEF Check, Conserved, Passes, Crossing

-----------------------------------------------------------------------------
(* The inductive invariant: what each builder made of its job, and that no  *)
(* molecule is sent but one that passes, and none refused that does.        *)
Made ==
    /\ job.op \in {"transfer", "burn"} =>
         /\ Transferable(Whole(job.amount))
         /\ atoms = InitValue(IF job.op = "transfer" THEN "them" ELSE "burn",
                              Whole(job.amount), job.units)
    /\ job.op = "transferMany" =>
         atoms = InitValues([i \in DOMAIN job.recipients |-> AmountOf(job.recipients[i])],
                            SplitMulti(job.recipients))
    /\ job.op = "deposit" => atoms = InitDepositBuffer(Whole(job.amount))
    /\ job.op = "withdraw" => atoms = InitWithdrawBuffer(Whole(job.amount))
    /\ job.op = "fuse" =>
         /\ Len(job.fused) >= 2 /\ Named(job.fused) \subseteq wallet.units
         /\ atoms = InitTokenFusion(job.fused, job.new)
    /\ job.op \in {"create", "replenish", "wallet"} =>
         \E supply \in Int : atoms = InitTokenCreation(supply)
    /\ job.op = "meta" => atoms = InitMeta
    /\ job.op = "served" => atoms \in Lists(Served, MaxServed)

Inv ==
    /\ wallet \in Wallets /\ job \in Jobs
    /\ stage \in {"asked", "built", "thrown", "refused", "sent"}
    /\ stage \in {"built", "refused", "sent"} => Made
    /\ stage = "sent" => Passes(atoms)
    /\ stage = "refused" => ~Passes(atoms)

(* The whole part of a number, and what a balance loses by it.              *)
LEMMA WholeType == ASSUME NEW n \in Int PROVE Whole(n) \in Int
BY DEF Whole

LEMMA WholePart ==
    ASSUME NEW n \in Nat
    PROVE  /\ Whole(n) \in Nat /\ n % 2 \in {0, 1}
           /\ 2 * Whole(n) = n - (n % 2)
<1>1. /\ n \div 2 \in Nat /\ n % 2 \in {0, 1}
      /\ n = 2 * (n \div 2) + (n % 2)
  OBVIOUS
<1>2. QED BY <1>1 DEF Whole

LEMMA WholeEven == ASSUME NEW n \in Nat PROVE Whole(2 * n) = n /\ (2 * n) % 2 = 0
<1>1. (2 * n) \div 2 = n /\ (2 * n) % 2 = 0 /\ 2 * n >= 0
  OBVIOUS
<1>2. QED BY <1>1 DEF Whole

LEMMA WalletFacts ==
    ASSUME wallet \in Wallets
    PROVE  /\ wallet.balance \in Nat /\ wallet.units \in SUBSET Units
           /\ IsFiniteSet(wallet.units) /\ Cardinality(wallet.units) \in Nat
           /\ wallet.units # {} => wallet.balance = 2 * Cardinality(wallet.units)
           /\ Whole(wallet.balance) \in Nat
<1>1. ASSUME NEW u \in SUBSET Units PROVE IsFiniteSet(u) /\ Cardinality(u) \in Nat
  BY FS_Subset, FS_CardinalityType
<1>2. CASE wallet \in [balance: Balances, units: {{}}]
  <2>1. wallet.balance \in Nat /\ wallet.units = {}
    BY <1>2
  <2>2. Cardinality(wallet.units) \in Nat
    BY <1>1, <2>1
  <2>3. QED BY <2>1, <2>2, FS_EmptySet, WholePart
<1>3. CASE \E u \in SUBSET Units : wallet = [balance |-> 2 * Cardinality(u), units |-> u]
  <2>1. PICK u \in SUBSET Units : wallet = [balance |-> 2 * Cardinality(u), units |-> u]
    BY <1>3
  <2>2. /\ wallet.units = u /\ wallet.balance = 2 * Cardinality(u)
        /\ 2 * Cardinality(u) \in Nat
    BY <1>1, <2>1
  <2>3. QED BY <1>1, <2>2, WholePart
<1>4. QED BY <1>2, <1>3 DEF Wallets

LEMMA JobFacts ==
    ASSUME job \in Jobs
    PROVE  /\ job.op \in {"transfer", "burn", "create", "replenish"} =>
                /\ job.amount \in Int /\ Whole(job.amount) \in Int
                /\ job.units \in SUBSET Units
           /\ job.op \in {"deposit", "withdraw"} =>
                job.amount \in Int /\ Whole(job.amount) \in Int
           /\ job.op = "transferMany" => job.recipients \in Lists(Recipients, 2)
           /\ job.op = "fuse" => job.fused \in Lists(Units, 3)
           /\ job.op \in {"transfer", "burn", "create", "replenish", "deposit", "withdraw",
                          "transferMany", "fuse", "meta", "wallet", "served"}
BY WholeType DEF Jobs

LEMMA UnitSets ==
    ASSUME NEW u \in SUBSET Units PROVE IsFiniteSet(u) /\ Cardinality(u) \in Nat
BY FS_Subset, FS_CardinalityType

LEMMA Recipient ==
    ASSUME NEW r \in Recipients
    PROVE  r.units \in SUBSET Units /\ AmountOf(r) \in Int
<1>1. r.units \in SUBSET Units /\ r.amount \in Int
  BY DEF Recipients
<1>2. QED BY <1>1, UnitSets, WholeType DEF AmountOf

LEMMA BuildMakes == ASSUME Inv, Build PROVE Made'
<1> USE DEF Build, Made
<1>0. /\ stage = "asked" /\ stage' = "built" /\ wallet' = wallet /\ job' = job
      /\ job \in Jobs /\ Builders
  BY DEF Inv
<1>1. CASE TransferToken
  BY <1>0, <1>1 DEF TransferToken, Transferable, Affords, Fits, InitValue, Debit,
     SourceToken, Sent, Kept, Change
<1>2. CASE BurnToken
  BY <1>0, <1>2 DEF BurnToken, Transferable, Affords, Fits, InitValue, Debit,
     SourceToken, Sent, Kept, Change
<1>3. CASE TransferTokens
  BY <1>0, <1>3 DEF TransferTokens, InitValues, SplitMulti, Debit, SourceToken, Sent, Kept,
     Change
<1>4. CASE DepositBufferToken
  BY <1>0, <1>4 DEF DepositBufferToken, InitDepositBuffer, Debit, SourceToken, Change
<1>5. CASE WithdrawBufferToken
  BY <1>0, <1>5 DEF WithdrawBufferToken, InitWithdrawBuffer, Debit, SourceToken, Change
<1>6. CASE FuseToken
  BY <1>0, <1>6 DEF FuseToken, InitTokenFusion, Debit, SourceToken, Kept, Change
<1>7. CASE CreateToken
  <2>1. job.op = "create" /\ \E supply \in Int : atoms' = InitTokenCreation(supply)
    BY <1>0, <1>7, JobFacts, UnitSets DEF CreateToken
  <2>2. QED BY <1>0, <2>1 DEF InitTokenCreation
<1>8. CASE ReplenishToken
  <2>1. job.op = "replenish" /\ \E supply \in Int : atoms' = InitTokenCreation(supply)
    BY <1>0, <1>8, JobFacts, UnitSets DEF ReplenishToken, InitTokenReplenish, InitTokenCreation
  <2>2. QED BY <1>0, <2>1 DEF InitTokenCreation
<1>9. CASE CreateMeta
  BY <1>0, <1>9 DEF CreateMeta, InitMeta
<1>10. CASE CreateWallet
  <2>1. job.op = "wallet" /\ atoms' = InitTokenCreation(0)
    <3>1. Written(0) = 0
      BY DEF Written
    <3>2. InitWalletCreation = InitTokenCreation(0)
      BY <3>1 DEF InitWalletCreation, InitTokenCreation
    <3>3. QED BY <1>10, <3>2 DEF CreateWallet
  <2>2. QED BY <1>0, <2>1 DEF InitTokenCreation
<1>11. QED
  BY <1>0, <1>1, <1>2, <1>3, <1>4, <1>5, <1>6, <1>7, <1>8, <1>9, <1>10 DEF Builders

LEMMA Inductive == Init => Inv
BY DEF Init, Inv

(* What was made is not made anew.                                          *)
LEMMA MadeStays == ASSUME UNCHANGED <<wallet, job, atoms>> PROVE Made' = Made
BY DEF Made, Transferable, Affords, Fits, InitValue, InitValues, InitDepositBuffer,
       InitWithdrawBuffer, InitTokenFusion, SplitMulti, Debit, SourceToken, Sent, Kept, Change

LEMMA Preserved == Inv /\ [Next]_vars => Inv'
<1> SUFFICES ASSUME Inv, [Next]_vars PROVE Inv'
  OBVIOUS
<1>1. CASE Build
  <2>1. Made'
    BY <1>1, BuildMakes
  <2>2. wallet' = wallet /\ job' = job /\ stage' = "built"
    BY <1>1 DEF Build
  <2>3. QED BY <2>1, <2>2 DEF Inv
<1>2. CASE Throw
  BY <1>2 DEF Throw, Inv
<1>3. CASE Read
  <2>1. /\ wallet' = wallet /\ job' = job /\ stage' = "built"
        /\ job.op = "served" /\ atoms' \in Lists(Served, MaxServed)
    BY <1>3 DEF Read
  <2>2. Made'
    BY <2>1 DEF Made
  <2>3. QED BY <2>1, <2>2 DEF Inv
<1>4. CASE Submit
  <2>1. /\ stage = "built" /\ UNCHANGED <<wallet, job, atoms>>
        /\ stage' \in {"refused", "sent", "thrown"}
        /\ stage' = "refused" => ~Check
        /\ stage' = "sent" => Check
    BY <1>4 DEF Submit
  <2>2. Made /\ Made' = Made
    BY <2>1, MadeStays DEF Inv
  <2>3. Passes(atoms') = Passes(atoms)
    BY <2>1
  <2>4. /\ stage' = "sent" => Passes(atoms')
        /\ stage' = "refused" => ~Passes(atoms')
    BY <2>1, <2>3, CheckPasses
  <2>5. QED BY <2>1, <2>2, <2>4 DEF Inv
<1>5. CASE UNCHANGED vars
  <2>1. Made' = Made
    BY <1>5, MadeStays DEF vars
  <2>2. QED BY <1>5, <2>1 DEF vars, Inv
<1>6. QED BY <1>1, <1>2, <1>3, <1>4, <1>5 DEF Next

LEMMA Invariance == Spec => []Inv
<1>1. QED BY Inductive, Preserved, PTL DEF Spec

-----------------------------------------------------------------------------
(* Whatever was built or read is a list of atoms with whole values.         *)
AtomList(as) == \E n \in Nat : DOMAIN as = 1..n /\ \A i \in 1..n : as[i].value \in Int

LEMMA Three ==
    ASSUME NEW a, NEW b, NEW c
    PROVE  /\ DOMAIN <<a, b, c>> = 1..3 /\ Len(<<a, b, c>>) = 3
           /\ <<a, b, c>>[1] = a /\ <<a, b, c>>[2] = b /\ <<a, b, c>>[3] = c
OBVIOUS

LEMMA ThreeAtoms ==
    ASSUME NEW as, NEW a, NEW b, NEW c, as = <<a, b, c>>,
           a.value \in Int, b.value \in Int, c.value \in Int
    PROVE  AtomList(as)
<1>1. DOMAIN as = 1..3 /\ as[1] = a /\ as[2] = b /\ as[3] = c
  BY Three
<1>2. \A i \in 1..3 : as[i].value \in Int
  <2>1. \A i \in 1..3 : i = 1 \/ i = 2 \/ i = 3
    OBVIOUS
  <2>2. QED BY <1>1, <2>1
<1>3. 3 \in Nat
  OBVIOUS
<1>4. QED BY <1>1, <1>2, <1>3 DEF AtomList

LEMMA AtomFields ==
    ASSUME NEW isotope, NEW token, NEW value, NEW units, NEW owner
    PROVE  /\ Atom(isotope, token, value, units, owner).isotope = isotope
           /\ Atom(isotope, token, value, units, owner).token = token
           /\ Atom(isotope, token, value, units, owner).value = value
           /\ Atom(isotope, token, value, units, owner).units = units
           /\ Atom(isotope, token, value, units, owner).owner = owner
BY DEF Atom

LEMMA DebitFields ==
    ASSUME NEW isotope, NEW sent
    PROVE  /\ Debit(isotope, sent).isotope = isotope
           /\ Debit(isotope, sent).token = SourceToken
           /\ Debit(isotope, sent).value = -wallet.balance
           /\ Debit(isotope, sent).units = sent
           /\ isotope = "B" => Debit(isotope, sent).owner = "me"
BY DEF Debit, Atom

LEMMA Framed ==
    ASSUME NEW n \in Nat, NEW S, NEW mid \in [1..n -> S], NEW first, NEW last,
           NEW as, as = << first >> \o mid \o << last >>
    PROVE  /\ DOMAIN as = 1..(n + 2) /\ Len(as) = n + 2
           /\ as[1] = first /\ as[n + 2] = last
           /\ \A i \in 1..n : as[i + 1] = mid[i]
<1> DEFINE A == {first, last} \cup S
<1>1. mid \in Seq(A) /\ Len(mid) = n
  <2>1. mid \in [1..n -> A]
    OBVIOUS
  <2>2. QED BY <2>1
<1>2. << first >> \in Seq(A) /\ << last >> \in Seq(A)
  OBVIOUS
<1> HIDE DEF A
<1>3. QED BY <1>1, <1>2

(* The atoms of a transfer to several.                                      *)
ManyValues(n, amounts, split) ==
    /\ DOMAIN atoms = 1..(n + 2) /\ Len(atoms) = n + 2
    /\ atoms[1] = Debit("V", split.source)
    /\ \A i \in 1..n : atoms[i + 1] = Atom("V", job.token, Written(amounts[i]), split.given[i], "them")
    /\ atoms[n + 2] = Atom("V", job.token, Written(Change(Total(amounts))), split.kept, "me")

Asked == [i \in DOMAIN job.recipients |-> AmountOf(job.recipients[i])]

LEMMA Many ==
    ASSUME Made, job \in Jobs, job.op = "transferMany"
    PROVE  \E n \in Nat : /\ DOMAIN job.recipients = 1..n
                          /\ job.recipients \in [1..n -> Recipients]
                          /\ DOMAIN Asked = 1..n /\ \A i \in 1..n : Asked[i] \in Int
                          /\ ManyValues(n, Asked, SplitMulti(job.recipients))
<1> DEFINE rs == job.recipients
           split == SplitMulti(rs)
           mid == [i \in DOMAIN Asked |-> Atom("V", job.token, Written(Asked[i]), split.given[i], "them")]
           first == Debit("V", split.source)
           last == Atom("V", job.token, Written(Change(Total(Asked))), split.kept, "me")
           S == {mid[i] : i \in DOMAIN Asked}
<1>1. PICK n \in 0..2 : rs \in [1..n -> Recipients]
  BY JobFacts DEF Lists
<1>2. \A i \in 1..n : AmountOf(rs[i]) \in Int
  BY <1>1, Recipient
<1>3. DOMAIN rs = 1..n /\ DOMAIN Asked = 1..n /\ \A i \in 1..n : Asked[i] \in Int
  BY <1>1, <1>2 DEF Asked
<1>4. atoms = << first >> \o mid \o << last >>
  BY Zenon DEF Made, InitValues, Asked
<1>5. /\ mid \in [1..n -> S]
      /\ \A i \in 1..n : mid[i] = Atom("V", job.token, Written(Asked[i]), split.given[i], "them")
  BY <1>3
<1> HIDE DEF mid, first, last, S
<1>6. /\ DOMAIN atoms = 1..(n + 2) /\ Len(atoms) = n + 2
      /\ atoms[1] = first /\ atoms[n + 2] = last
      /\ \A i \in 1..n : atoms[i + 1] = mid[i]
  BY <1>4, <1>5, Framed
<1>7. ManyValues(n, Asked, split)
  BY <1>5, <1>6 DEF ManyValues, first, last
<1>8. QED BY <1>1, <1>3, <1>7

LEMMA SumOfAmounts ==
    ASSUME NEW n \in Nat, NEW amounts, DOMAIN amounts = 1..n, \A i \in 1..n : amounts[i] \in Int
    PROVE  Total(amounts) \in Int
<1>1. IsFiniteSet(1..n)
  BY FS_Interval
<1>2. QED BY <1>1, SumType, TotalIsSum

LEMMA FusedList ==
    ASSUME job \in Jobs, job.op = "fuse"
    PROVE  \E n \in Nat : /\ job.fused \in [1..n -> Units] /\ DOMAIN job.fused = 1..n
                          /\ Len(job.fused) = n /\ job.fused \in Seq(Units)
<1>1. PICK n \in 0..3 : job.fused \in [1..n -> Units]
  BY JobFacts DEF Lists
<1>2. QED BY <1>1

LEMMA Four ==
    ASSUME NEW a, NEW b, NEW c, NEW d
    PROVE  /\ DOMAIN <<a, b, c, d>> = 1..4 /\ Len(<<a, b, c, d>>) = 4
           /\ <<a, b, c, d>>[1] = a /\ <<a, b, c, d>>[2] = b /\ <<a, b, c, d>>[3] = c
           /\ <<a, b, c, d>>[4] = d
OBVIOUS

LEMMA BuiltList == ASSUME Inv, Made PROVE AtomList(atoms)
<1>w. wallet.balance \in Nat /\ Whole(wallet.balance) \in Int /\ job \in Jobs
  BY WalletFacts DEF Inv
<1>i. job.op \in {"transfer", "burn", "deposit", "withdraw"} => Whole(job.amount) \in Int
  BY <1>w, JobFacts
<1>t. \A n \in Int : Written(n) \in Int
  BY DEF Written
<1>1. CASE job.op \in {"transfer", "burn"}
  <2>1. Wrapped(Change(Whole(job.amount))) \in Int
    BY <1>w, <1>i, <1>1 DEF Wrapped, Change
  <2> DEFINE split == job.units # {}
             owner == IF job.op = "transfer" THEN "them" ELSE "burn"
             x == Debit("V", IF split THEN Sent(job.units) ELSE wallet.units)
             y == Atom("V", job.token, Written(Whole(job.amount)),
                       IF split /\ owner # "burn" THEN Sent(job.units) ELSE {}, owner)
             z == Atom("V", job.token, Written(Wrapped(Change(Whole(job.amount)))),
                       IF split THEN Kept(job.units) ELSE {}, "me")
  <2>2. atoms = << x, y, z >>
    BY <1>1 DEF Made, InitValue
  <2>3. x.value \in Int /\ y.value \in Int /\ z.value \in Int
    BY <1>w, <1>i, <1>t, <1>1, <2>1, DebitFields, AtomFields
  <2> HIDE DEF x, y, z
  <2>4. QED BY <2>2, <2>3, ThreeAtoms
<1>2. CASE job.op = "transferMany"
  <2> DEFINE split == SplitMulti(job.recipients)
  <2>2. PICK n \in Nat : /\ DOMAIN Asked = 1..n /\ \A i \in 1..n : Asked[i] \in Int
                         /\ ManyValues(n, Asked, split)
    BY <1>w, <1>2, Many
  <2>3. Change(Total(Asked)) \in Int
    <3>1. Total(Asked) \in Int
      BY <2>2, SumOfAmounts
    <3>2. QED BY <1>w, <3>1 DEF Change
  <2> HIDE DEF split
  <2>4. /\ DOMAIN atoms = 1..(n + 2)
        /\ atoms[1] = Debit("V", split.source)
        /\ \A i \in 1..n : atoms[i + 1] = Atom("V", job.token, Written(Asked[i]), split.given[i], "them")
        /\ atoms[n + 2] = Atom("V", job.token, Written(Change(Total(Asked))), split.kept, "me")
    BY <2>2 DEF ManyValues
  <2>5. ASSUME NEW i \in 1..(n + 2) PROVE atoms[i].value \in Int
    <3>1. CASE i = 1
      BY <1>w, <2>4, <3>1, DebitFields
    <3>2. CASE i = n + 2
      BY <1>t, <2>3, <2>4, <3>2, AtomFields
    <3>3. CASE i \in 2..(n + 1)
      <4>1. i - 1 \in 1..n /\ (i - 1) + 1 = i
        BY <3>3
      <4>2. atoms[i] = Atom("V", job.token, Written(Asked[i - 1]), split.given[i - 1], "them")
        BY <2>4, <4>1
      <4>3. Written(Asked[i - 1]) \in Int
        BY <1>t, <2>2, <4>1
      <4>4. QED BY <4>2, <4>3, AtomFields
    <3>4. QED BY <3>1, <3>2, <3>3
  <2>6. QED BY <2>4, <2>5 DEF AtomList
<1>3. CASE job.op = "deposit"
  <2>1. Change(Whole(job.amount)) \in Int
    BY <1>w, <1>i, <1>3 DEF Change
  <2>2. QED
    BY <1>w, <1>i, <1>t, <1>3, <2>1, ThreeAtoms, DebitFields, AtomFields DEF Made, InitDepositBuffer
<1>4. CASE job.op = "withdraw"
  <2>1. Change(Whole(job.amount)) \in Int
    BY <1>w, <1>i, <1>4 DEF Change
  <2>2. QED
    BY <1>w, <1>i, <1>t, <1>4, <2>1, ThreeAtoms, DebitFields, AtomFields DEF Made, InitWithdrawBuffer
<1>5. CASE job.op = "fuse"
  <2>1. Len(job.fused) \in Int /\ Change(Len(job.fused)) \in Int /\ Len(job.fused) - 1 \in Int
    BY <1>w, <1>5, FusedList DEF Change
  <2>2. /\ DOMAIN atoms = 1..4
        /\ atoms[1].value = -wallet.balance /\ atoms[2].value = Written(Len(job.fused) - 1)
        /\ atoms[3].value = Written(1) /\ atoms[4].value = Written(Change(Len(job.fused)))
    BY <1>5, Four, DebitFields, AtomFields DEF Made, InitTokenFusion
  <2>3. \A i \in 1..4 : atoms[i].value \in Int
    <3>1. \A i \in 1..4 : i = 1 \/ i = 2 \/ i = 3 \/ i = 4
      OBVIOUS
    <3>2. /\ Written(Len(job.fused) - 1) \in Int /\ Written(Change(Len(job.fused))) \in Int
          /\ Written(1) \in Int /\ -wallet.balance \in Int
      <4> DEFINE k == Len(job.fused) - 1
                 c == Change(Len(job.fused))
      <4>1. k \in Int /\ c \in Int /\ 1 \in Int
        BY <2>1
      <4> HIDE DEF k, c
      <4>2. Written(k) \in Int /\ Written(c) \in Int /\ Written(1) \in Int
        BY <4>1 DEF Written
      <4>3. QED BY <1>w, <4>2 DEF k, c
    <3>3. QED BY <2>2, <3>1, <3>2
  <2>4. 4 \in Nat
    OBVIOUS
  <2>5. QED BY <2>2, <2>3, <2>4 DEF AtomList
<1>6. CASE job.op \in {"create", "replenish", "wallet"} \/ job.op = "meta"
  <2>1. /\ DOMAIN atoms = 1..2 /\ atoms[1].value \in Int /\ atoms[2].value \in Int
    <3>1. CASE job.op = "meta"
      BY <3>1 DEF Made, InitMeta, ContinuIdAtom, Atom
    <3>2. CASE job.op # "meta"
      <4>1. PICK supply \in Int : atoms = InitTokenCreation(supply)
        BY <1>6, <3>2 DEF Made
      <4>2. QED BY <1>t, <4>1 DEF InitTokenCreation, ContinuIdAtom, Atom
    <3>3. QED BY <3>1, <3>2
  <2>2. \A i \in 1..2 : atoms[i].value \in Int
    <3>1. \A i \in 1..2 : i = 1 \/ i = 2
      OBVIOUS
    <3>2. QED BY <2>1, <3>1
  <2>3. 2 \in Nat
    OBVIOUS
  <2>4. QED BY <2>1, <2>2, <2>3 DEF AtomList
<1>7. CASE job.op = "served"
  <2>1. PICK n \in 0..MaxServed : atoms \in [1..n -> Served]
    BY <1>7 DEF Made, Lists
  <2>2. n \in Nat
    OBVIOUS
  <2>3. ASSUME NEW i \in 1..n PROVE atoms[i].value \in Int
    <3>1. atoms[i] \in Served
      BY <2>1
    <3>2. atoms[i].value \in -1..1
      BY <3>1, Zenon DEF Served
    <3>3. QED BY <3>2
  <2>4. QED BY <2>1, <2>2, <2>3 DEF AtomList
<1>8. QED BY <1>w, <1>1, <1>2, <1>3, <1>4, <1>5, <1>6, <1>7, JobFacts

(* A token that only V atoms have is summed at its first atom.              *)
LEMMA PureSums ==
    ASSUME NEW as, AtomList(as), Passes(as), ~Crossing(as), NEW t,
           \A i \in DOMAIN as : as[i].token = t => as[i].isotope = "V"
    PROVE  TokenSum(as, t) = 0
<1>1. PICK n \in Nat : DOMAIN as = 1..n /\ \A i \in 1..n : as[i].value \in Int
  BY DEF AtomList
<1>d. DOMAIN as \in SUBSET Nat /\ \A i \in DOMAIN as : \A j \in 1..(i - 1) : j \in DOMAIN as /\ j < i
  BY ONLY n \in Nat, <1>1
<1> DEFINE f == [i \in DOMAIN as |-> IF as[i].token = t THEN as[i].value ELSE 0]
           T == {i \in DOMAIN as : as[i].token = t}
<1>2. f = [i \in DOMAIN as |->
             IF as[i].isotope = "V" /\ as[i].token = t THEN as[i].value ELSE 0]
  OBVIOUS
<1>3. TokenSum(as, t) = SumOf(f) /\ VSum(as, t) = SumOf(f)
  BY <1>2, Zenon DEF TokenSum, VSum
<1>4. CASE T = {}
  <2>1. IsFiniteSet(DOMAIN f) /\ \A i \in DOMAIN f : f[i] = 0 /\ f[i] \in Int
    <3>1. IsFiniteSet(1..n)
      BY FS_Interval
    <3>2. IsFiniteSet(DOMAIN f) /\ DOMAIN f = DOMAIN as
      BY <1>1, <3>1, Zenon
    <3>3. ASSUME NEW i \in DOMAIN as PROVE f[i] = 0
      <4>1. as[i].token # t
        BY <1>4, Zenon
      <4>2. QED BY <4>1
    <3> HIDE DEF f
    <3>4. 0 \in Int
      OBVIOUS
    <3>5. QED BY <3>2, <3>3, <3>4, Zenon
  <2> HIDE DEF f
  <2>2. /\ SumOf(f) \in Int
        /\ SumOf(f) > 0 => \E x \in DOMAIN f : f[x] > 0
        /\ SumOf(f) < 0 => \E x \in DOMAIN f : f[x] < 0
    BY <2>1, SumType, SumSigns
  <2>3. QED BY <1>3, <2>1, <2>2
<1>5. CASE T # {}
  <2>1. T \in SUBSET Nat
    BY <1>d, Zenon
  <2>2. PICK i \in T : \A m \in T : i <= m
    <3> HIDE DEF T
    <3>1. QED BY <1>5, <2>1, LeastNumber
  <2>3. \A j \in 1..(i - 1) : as[j].token # t
    <3> SUFFICES ASSUME NEW j \in 1..(i - 1), as[j].token = t PROVE FALSE
      OBVIOUS
    <3>1. j \in T /\ j < i
      BY <1>d
    <3>2. i <= j /\ i \in Nat /\ j \in Nat
      BY <2>1, <2>2, <3>1
    <3>3. QED BY <3>1, <3>2
  <2>4. VSum(as, as[i].token) = 0 /\ as[i].token = t
    <3>1. i \in DOMAIN as /\ as[i].isotope = "V" /\ as[i].token = t
      OBVIOUS
    <3>2. QED BY <2>3, <3>1 DEF Passes
  <2>5. QED BY <1>3, <2>4
<1>6. QED BY <1>4, <1>5

(* With no B or F atom, a token none of whose atoms but V atoms are in the  *)
(* molecule is conserved when check passes: verifyTokenIsotopeV.            *)
THEOREM PureTokensConserve == Spec => []PureTokensSound
<1>1. ASSUME Inv PROVE PureTokensSound
  <2> SUFFICES ASSUME stage = "sent", \A i \in DOMAIN atoms : ~Crosses(atoms[i]),
                      NEW t \in Tokens,
                      \A i \in DOMAIN atoms : atoms[i].token = t => atoms[i].isotope = "V"
               PROVE  TokenSum(atoms, t) = 0
    BY SumsOfCheck DEF PureTokensSound
  <2>1. Passes(atoms) /\ AtomList(atoms) /\ ~Crossing(atoms)
    BY <1>1, BuiltList DEF Inv, Crossing
  <2>2. QED BY <2>1, PureSums
<1>2. QED BY <1>1, Invariance, PTL

-----------------------------------------------------------------------------
(* When what a builder makes passes check.                                  *)
LEMMA WrapValue ==
    ASSUME NEW x \in Nat, x <= 2 * IntMax + 1
    PROVE  Wrapped(x) = IF x <= IntMax THEN x ELSE x - (2 * IntMax + 2)
<1> DEFINE m == 2 * IntMax + 2
<1>m. IntMax \in Nat /\ m \in Nat \ {0} /\ x + IntMax + 1 \in Nat
  OBVIOUS
<1>1. CASE x <= IntMax
  <2>1. \A y \in Nat, k \in Nat \ {0} : y < k => y % k = y
    OBVIOUS
  <2>2. x + IntMax + 1 < m
    BY <1>1, <1>m
  <2>3. (x + IntMax + 1) % m = x + IntMax + 1
    <3> HIDE DEF m
    <3>1. QED BY <1>m, <2>1, <2>2
  <2>4. QED BY <1>1, <1>m, <2>3 DEF Wrapped
<1>2. CASE x > IntMax
  <2> DEFINE y == x + IntMax + 1
  <2>1. y \in Nat /\ m \in Nat \ {0} /\ m <= y /\ y - m < m
    BY <1>2, <1>m
  <2>2. y % m = y - m
    <3> HIDE DEF m, y
    <3>1. y = m * (y \div m) + (y % m) /\ y % m \in 0..(m - 1) /\ y \div m \in Int
      BY <2>1
    <3>2. y \div m = 1
      BY <2>1, <3>1
    <3>3. QED BY <2>1, <3>1, <3>2
  <2>3. QED BY <1>2, <1>m, <2>2 DEF Wrapped
<1>3. QED BY <1>1, <1>2, <1>m

LEMMA NotEmpty ==
    ASSUME NEW as, NEW n \in Nat, n > 0, DOMAIN as = 1..n PROVE as # << >>
<1>1. DOMAIN << >> = {} /\ 1 \in 1..n
  OBVIOUS
<1>2. QED BY <1>1

LEMMA OfThree ==
    ASSUME NEW as, DOMAIN as = 1..3
    PROVE  /\ \A i \in DOMAIN as : i = 1 \/ i = 2 \/ i = 3
           /\ 1 \in DOMAIN as /\ 2 \in DOMAIN as /\ 3 \in DOMAIN as /\ as # << >>
<1>1. 3 \in Nat /\ 3 > 0
  OBVIOUS
<1>2. as # << >>
  BY <1>1, NotEmpty
<1>3. /\ \A i \in 1..3 : i = 1 \/ i = 2 \/ i = 3
      /\ 1 \in 1..3 /\ 2 \in 1..3 /\ 3 \in 1..3
  OBVIOUS
<1>4. QED BY <1>2, <1>3, Zenon

LEMMA OfFour ==
    ASSUME NEW as, DOMAIN as = 1..4
    PROVE  /\ \A i \in DOMAIN as : i = 1 \/ i = 2 \/ i = 3 \/ i = 4
           /\ 1 \in DOMAIN as /\ 2 \in DOMAIN as /\ 3 \in DOMAIN as /\ 4 \in DOMAIN as
           /\ as # << >>
<1>1. 4 \in Nat /\ 4 > 0
  OBVIOUS
<1>2. as # << >>
  BY <1>1, NotEmpty
<1>3. /\ \A i \in 1..4 : i = 1 \/ i = 2 \/ i = 3 \/ i = 4
      /\ 1 \in 1..4 /\ 2 \in 1..4 /\ 3 \in 1..4 /\ 4 \in 1..4
  OBVIOUS
<1>4. QED BY <1>2, <1>3, Zenon

(* check, of V atoms of one token.                                          *)
LEMMA PlainPasses ==
    ASSUME NEW as, NEW n \in Nat, n > 0, DOMAIN as = 1..n, NEW t,
           \A i \in 1..n : as[i].isotope = "V" /\ as[i].token = t
    PROVE  Passes(as) <=> t # "USER" /\ VSum(as, t) = 0
<1>1. /\ as # << >> /\ 1 \in DOMAIN as /\ ~Crossing(as)
      /\ ~\E i \in DOMAIN as : as[i].isotope = "I"
      /\ \A i \in DOMAIN as : as[i].isotope = "V" /\ as[i].token = t
  <2>1. 1 \in 1..n
    OBVIOUS
  <2>2. QED BY <2>1, NotEmpty DEF Crossing, Crosses
<1>2. \A j \in 1..(1 - 1) : FALSE
  OBVIOUS
<1>3. QED BY <1>1, <1>2 DEF Passes

(* check, of a molecule with a B or F atom.                                 *)
LEMMA CrossPasses ==
    ASSUME NEW as, as # << >>, Crossing(as),
           \A i \in DOMAIN as : as[i].isotope # "I",
           \A i \in DOMAIN as : Crosses(as[i]) => as[i].owner # "",
           \A i \in DOMAIN as : as[i].isotope = "F" => as[i].value >= 0
    PROVE  Passes(as) <=> as[1].token # "USER" /\ CrossSum(as) = 0
BY DEF Passes

LEMMA SpendFacts ==
    ASSUME Inv
    PROVE  /\ wallet.balance \in Nat /\ wallet.balance % 2 \in {0, 1}
           /\ Whole(wallet.balance) \in Nat
           /\ 2 * Whole(wallet.balance) = wallet.balance - (wallet.balance % 2)
           /\ job.op # "withdraw" => SourceToken = job.token
BY WalletFacts, WholePart DEF Inv, SourceToken

LEMMA TransferPasses ==
    ASSUME Inv, Made, job.op \in {"transfer", "burn"} PROVE Passes(atoms) <=> ~Unsendable
<1> DEFINE b == wallet.balance
           w == Whole(wallet.balance)
           a == Whole(job.amount)
           c == Wrapped(Change(Whole(job.amount)))
<1>w. /\ b \in Nat /\ b % 2 \in {0, 1} /\ w \in Nat /\ 2 * w = b - (b % 2)
      /\ a \in Int /\ w >= a /\ w <= IntMax /\ a >= -IntMax - 1
      /\ SourceToken = job.token
  BY SpendFacts, JobFacts DEF Inv, Made, Transferable, Affords, Fits
<1>1. c = IF w - a <= IntMax THEN w - a ELSE w - a - (2 * IntMax + 2)
  <2>1. w - a \in Nat /\ w - a <= 2 * IntMax + 1
    BY <1>w
  <2>2. QED BY <2>1, WrapValue DEF Change
<1> HIDE DEF c
<1>2. /\ DOMAIN atoms = 1..3
      /\ atoms[1].value = -b /\ atoms[2].value = 2 * a /\ atoms[3].value = 2 * c
      /\ atoms[1].isotope = "V" /\ atoms[2].isotope = "V" /\ atoms[3].isotope = "V"
      /\ atoms[1].token = job.token /\ atoms[2].token = job.token /\ atoms[3].token = job.token
  <2> DEFINE x == Debit("V", IF job.units # {} THEN Sent(job.units) ELSE wallet.units)
             owner == IF job.op = "transfer" THEN "them" ELSE "burn"
             y == Atom("V", job.token, Written(a),
                       IF job.units # {} /\ owner # "burn" THEN Sent(job.units) ELSE {}, owner)
             z == Atom("V", job.token, Written(c),
                       IF job.units # {} THEN Kept(job.units) ELSE {}, "me")
  <2>1. atoms = << x, y, z >>
    BY DEF Made, InitValue, c
  <2>2. /\ x.value = -b /\ x.isotope = "V" /\ x.token = SourceToken
        /\ y.value = Written(a) /\ y.isotope = "V" /\ y.token = job.token
        /\ z.value = Written(c) /\ z.isotope = "V" /\ z.token = job.token
    BY DebitFields, AtomFields
  <2> HIDE DEF x, y, z, a, b
  <2>3. QED BY <1>w, <2>1, <2>2, Three DEF Written
<1>3. \A i \in 1..3 : atoms[i].isotope = "V" /\ atoms[i].token = job.token
  <2>1. \A i \in 1..3 : i = 1 \/ i = 2 \/ i = 3
    OBVIOUS
  <2>2. QED BY <1>2, <2>1
<1>4. VSum(atoms, job.token) = -b + 2 * a + 2 * c
  <2> DEFINE f == [i \in DOMAIN atoms |-> IF atoms[i].isotope = "V" /\ atoms[i].token = job.token
                                          THEN atoms[i].value ELSE 0]
  <2>1. /\ DOMAIN f = 1..3 /\ f[1] = -b /\ f[2] = 2 * a /\ f[3] = 2 * c
    BY <1>2
  <2>2. VSum(atoms, job.token) = SumOf(f)
    BY Zenon DEF VSum
  <2> HIDE DEF f, b, a
  <2>3. c \in Int
    BY <1>1, <1>w
  <2> HIDE DEF c
  <2>4. SumOf(f) = f[1] + f[2] + f[3]
    BY <1>w, <2>1, <2>3, SumOfThree
  <2>5. QED BY <1>w, <2>1, <2>2, <2>3, <2>4
<1>5. Passes(atoms) <=> job.token # "USER" /\ -b + 2 * a + 2 * c = 0
  <2>1. 3 \in Nat /\ 3 > 0
    OBVIOUS
  <2> HIDE DEF a, b, c
  <2>2. QED BY <1>2, <1>3, <1>4, <2>1, PlainPasses
<1>6. Unsendable <=> job.token = "USER" \/ b % 2 = 1 \/ w - a > IntMax
  BY <1>w DEF Unsendable
<1>7. QED
  <2> HIDE DEF a, b, c, w
  <2>1. -b + 2 * a + 2 * c = 0 <=> b % 2 = 0 /\ w - a <= IntMax
    <3> DEFINE r == b % 2
    <3>1. r \in {0, 1} /\ 2 * w = b - r
      BY <1>w
    <3> HIDE DEF r
    <3>2. -b + 2 * a + 2 * c = 0 <=> r = 0 /\ w - a <= IntMax
      BY <1>w, <1>1, <3>1
    <3>3. QED BY <3>2 DEF r
  <2>2. QED BY <1>w, <1>5, <1>6, <2>1

(* A debit, an atom for each amount and the change sum to zero.             *)
AddsUp(n, amounts, first, last, f) ==
    /\ n \in Nat /\ first \in Int /\ last \in Int
    /\ DOMAIN amounts = 1..n /\ \A i \in 1..n : amounts[i] \in Int
    /\ DOMAIN f = 1..(n + 2) /\ f[1] = first /\ f[n + 2] = last
    /\ \A i \in 1..n : f[i + 1] = 2 * amounts[i]

LEMMA ManySums ==
    ASSUME NEW n, NEW amounts, NEW first, NEW last, NEW f,
           AddsUp(n, amounts, first, last, f)
    PROVE  SumOf(amounts) \in Int /\ SumOf(f) = first + 2 * SumOf(amounts) + last
<1> /\ n \in Nat /\ first \in Int /\ last \in Int
    /\ DOMAIN amounts = 1..n /\ \A i \in 1..n : amounts[i] \in Int
    /\ DOMAIN f = 1..(n + 2) /\ f[1] = first /\ f[n + 2] = last
    /\ \A i \in 1..n : f[i + 1] = 2 * amounts[i]
  BY DEF AddsUp
<1> DEFINE P == Partial(amounts)
           Q == Partial(f)
           Known == {k \in Nat : k <= n => Q[1..(k + 1)] = first + 2 * P[1..k]}
<1>p. /\ P[1..0] = 0
      /\ \A k \in 1..n : P[1..k] = P[1..(k - 1)] + amounts[k] /\ P[1..k] \in Int
      /\ SumOf(amounts) = P[1..n]
  BY SumSteps
<1>n. P[1..n] \in Int
  <2>1. n = 0 \/ n \in 1..n
    OBVIOUS
  <2>2. QED BY <1>p, <2>1
<1>f. \A i \in 1..(n + 2) : f[i] \in Int
  <2> SUFFICES ASSUME NEW i \in 1..(n + 2) PROVE f[i] \in Int
    OBVIOUS
  <2>1. CASE i = 1
    BY <2>1
  <2>2. CASE i = n + 2
    BY <2>2
  <2>3. CASE i \in 2..(n + 1)
    <3>1. i - 1 \in 1..n /\ (i - 1) + 1 = i
      BY <2>3
    <3>2. f[(i - 1) + 1] = 2 * amounts[i - 1]
      BY <3>1
    <3>3. QED BY <3>1, <3>2
  <2>4. QED BY <2>1, <2>2, <2>3
<1>q. /\ Q[1..0] = 0
      /\ \A k \in 1..(n + 2) : Q[1..k] = Q[1..(k - 1)] + f[k] /\ Q[1..k] \in Int
      /\ SumOf(f) = Q[1..(n + 2)]
  <2>1. n + 2 \in Nat
    OBVIOUS
  <2>2. QED BY <1>f, <2>1, SumSteps, Zenon
<1> HIDE DEF P, Q
<1>1. 0 \in Known
  <2>1. 1 \in 1..(n + 2) /\ 1 - 1 = 0 /\ 0 + 1 = 1
    OBVIOUS
  <2>2. Q[1..1] = Q[1..0] + f[1]
    BY <1>q, <2>1
  <2>3. QED BY <1>p, <1>q, <2>1, <2>2
<1>2. ASSUME NEW k \in Nat, k \in Known PROVE k + 1 \in Known
  <2> SUFFICES ASSUME k + 1 <= n PROVE Q[1..(k + 1 + 1)] = first + 2 * P[1..(k + 1)]
    OBVIOUS
  <2>1. k + 1 \in 1..n /\ k + 2 \in 1..(n + 2) /\ k + 1 + 1 = k + 2
        /\ (k + 2) - 1 = k + 1 /\ (k + 1) - 1 = k
    OBVIOUS
  <2>2. P[1..(k + 1)] = P[1..k] + amounts[k + 1] /\ amounts[k + 1] \in Int
    BY <1>p, <2>1
  <2>3. Q[1..(k + 2)] = Q[1..(k + 1)] + f[k + 2] /\ f[k + 2] = 2 * amounts[k + 1]
    BY <1>q, <2>1
  <2>4. Q[1..(k + 1)] = first + 2 * P[1..k]
    BY <1>2, <2>1
  <2>5. P[1..k] \in Int
    <3>1. k = 0 \/ k \in 1..n
      BY <2>1
    <3>2. QED BY <1>p, <3>1
  <2>6. QED BY <2>1, <2>2, <2>3, <2>4, <2>5
<1>3. \A k \in Nat : k \in Known
  <2> HIDE DEF Known
  <2>1. QED BY <1>1, <1>2, Naturals0
<1>4. Q[1..(n + 1)] = first + 2 * P[1..n]
  BY <1>3
<1>5. Q[1..(n + 2)] = Q[1..(n + 1)] + f[n + 2]
  <2>1. n + 2 \in 1..(n + 2) /\ (n + 2) - 1 = n + 1
    OBVIOUS
  <2>2. QED BY <1>q, <2>1
<1>6. QED BY <1>4, <1>5, <1>n, <1>p, <1>q

LEMMA ManyPasses ==
    ASSUME Inv, Made, job.op = "transferMany" PROVE Passes(atoms) <=> ~Unsendable
<1> DEFINE split == SplitMulti(job.recipients)
           b == wallet.balance
           w == Whole(wallet.balance)
           last == Written(Change(Total(Asked)))
<1>1. PICK n \in Nat : /\ DOMAIN Asked = 1..n /\ \A i \in 1..n : Asked[i] \in Int
                       /\ ManyValues(n, Asked, split)
  BY Many DEF Inv
<1> HIDE DEF split
<1>w. /\ b \in Nat /\ b % 2 \in {0, 1} /\ w \in Nat /\ 2 * w = b - (b % 2)
      /\ SourceToken = job.token
  BY SpendFacts
<1>l. last = 2 * (w - SumOf(Asked)) /\ SumOf(Asked) \in Int
  BY <1>1, SumOfAmounts, TotalIsSum DEF Written, Change
<1>2. /\ DOMAIN atoms = 1..(n + 2)
      /\ atoms[1] = Debit("V", split.source)
      /\ \A i \in 1..n : atoms[i + 1] = Atom("V", job.token, Written(Asked[i]), split.given[i], "them")
      /\ atoms[n + 2] = Atom("V", job.token, last, split.kept, "me")
  BY <1>1 DEF ManyValues
<1> HIDE DEF last
<1>3. /\ atoms[1].value = -b
      /\ \A i \in 1..n : atoms[i + 1].value = 2 * Asked[i]
      /\ atoms[n + 2].value = last
  BY <1>2, DebitFields, AtomFields DEF Written
<1>4. ASSUME NEW i \in 1..(n + 2) PROVE atoms[i].isotope = "V" /\ atoms[i].token = job.token
  <2>1. CASE i = 1
    BY <1>w, <1>2, <2>1, DebitFields
  <2>2. CASE i = n + 2
    BY <1>2, <2>2, AtomFields
  <2>3. CASE i \in 2..(n + 1)
    <3>1. i - 1 \in 1..n /\ (i - 1) + 1 = i
      BY <2>3
    <3>2. atoms[i] = Atom("V", job.token, Written(Asked[i - 1]), split.given[i - 1], "them")
      BY <1>2, <3>1
    <3>3. QED BY <3>2, AtomFields
  <2>4. QED BY <2>1, <2>2, <2>3
<1>5. VSum(atoms, job.token) = -b + 2 * SumOf(Asked) + last
  <2> DEFINE f == [i \in DOMAIN atoms |-> IF atoms[i].isotope = "V" /\ atoms[i].token = job.token
                                          THEN atoms[i].value ELSE 0]
  <2>1. DOMAIN f = 1..(n + 2) /\ \A i \in 1..(n + 2) : f[i] = atoms[i].value
    BY <1>2, <1>4
  <2>2. VSum(atoms, job.token) = SumOf(f)
    BY Zenon DEF VSum
  <2> HIDE DEF f
  <2>3. f[1] = -b /\ f[n + 2] = last
    <3>1. 1 \in 1..(n + 2) /\ n + 2 \in 1..(n + 2)
      OBVIOUS
    <3>2. QED BY <1>3, <2>1, <3>1, Zenon
  <2>4. \A i \in 1..n : f[i + 1] = 2 * Asked[i]
    <3>1. \A i \in 1..n : i + 1 \in 1..(n + 2)
      OBVIOUS
    <3>2. QED BY <1>3, <2>1, <3>1, Zenon
  <2>5. SumOf(f) = -b + 2 * SumOf(Asked) + last
    <3>1. -b \in Int /\ last \in Int
      BY <1>w, <1>l
    <3>2. AddsUp(n, Asked, -b, last, f)
      BY <1>1, <2>1, <2>3, <2>4, <3>1, Zenon DEF AddsUp
    <3>3. QED BY <3>2, ManySums
  <2>6. QED BY <2>2, <2>5
<1>6. Passes(atoms) <=> job.token # "USER" /\ VSum(atoms, job.token) = 0
  <2>1. n + 2 \in Nat /\ n + 2 > 0
    OBVIOUS
  <2>2. QED BY <1>2, <1>4, <2>1, PlainPasses
<1>7. VSum(atoms, job.token) = 0 <=> b % 2 = 0
  <2> DEFINE r == b % 2
             m == SumOf(Asked)
  <2>1. r \in {0, 1} /\ 2 * w = b - r /\ m \in Int /\ last = 2 * (w - m)
        /\ VSum(atoms, job.token) = -b + 2 * m + last
    BY <1>w, <1>l, <1>5
  <2> HIDE DEF r, m, w
  <2>2. VSum(atoms, job.token) = 0 <=> r = 0
    BY <1>w, <2>1
  <2>3. QED BY <2>2 DEF r
<1>8. Unsendable <=> job.token = "USER" \/ b % 2 = 1
  BY <1>w DEF Unsendable
<1>9. QED BY <1>w, <1>6, <1>7, <1>8

LEMMA BufferPasses ==
    ASSUME Inv, Made, job.op \in {"deposit", "withdraw"} PROVE Passes(atoms) <=> ~Unsendable
<1> DEFINE b == wallet.balance
           w == Whole(wallet.balance)
           a == Whole(job.amount)
<1>w. /\ b \in Nat /\ b % 2 \in {0, 1} /\ w \in Nat /\ 2 * w = b - (b % 2) /\ a \in Int
  BY SpendFacts, JobFacts DEF Inv
<1>1. /\ DOMAIN atoms = 1..3
      /\ atoms[1].value = -b /\ atoms[2].value = 2 * a /\ atoms[3].value = 2 * (w - a)
      /\ atoms[1].token = SourceToken
      /\ \/ /\ atoms[1].isotope = "V" /\ atoms[2].isotope = "B" /\ atoms[3].isotope = "V"
            /\ atoms[2].owner = "me"
         \/ /\ atoms[1].isotope = "B" /\ atoms[2].isotope = "V" /\ atoms[3].isotope = "B"
            /\ atoms[1].owner = "me" /\ atoms[3].owner = "me"
  <2>1. CASE job.op = "deposit"
    <3>1. atoms = << Debit("V", {}), Atom("B", job.token, Written(a), {}, "me"),
                     Atom("V", job.token, Written(Change(a)), {}, "me") >>
      BY <2>1 DEF Made, InitDepositBuffer
    <3>2. /\ DOMAIN atoms = 1..3 /\ atoms[1] = Debit("V", {})
          /\ atoms[2] = Atom("B", job.token, Written(a), {}, "me")
          /\ atoms[3] = Atom("V", job.token, Written(Change(a)), {}, "me")
      BY <3>1, Three
    <3>3. QED BY <3>2, DebitFields, AtomFields DEF Written, Change
  <2>2. CASE job.op = "withdraw"
    <3>1. atoms = << Debit("B", wallet.units), Atom("V", SourceToken, Written(a), {}, "me"),
                     Atom("B", job.token, Written(Change(a)), {}, "me") >>
      BY <2>2 DEF Made, InitWithdrawBuffer
    <3>2. /\ DOMAIN atoms = 1..3 /\ atoms[1] = Debit("B", wallet.units)
          /\ atoms[2] = Atom("V", SourceToken, Written(a), {}, "me")
          /\ atoms[3] = Atom("B", job.token, Written(Change(a)), {}, "me")
      BY <3>1, Three
    <3>3. QED BY <3>2, DebitFields, AtomFields DEF Written, Change
  <2>3. QED BY <2>1, <2>2
<1>2. /\ \A i \in DOMAIN atoms : i = 1 \/ i = 2 \/ i = 3
      /\ 1 \in DOMAIN atoms /\ 2 \in DOMAIN atoms /\ 3 \in DOMAIN atoms /\ atoms # << >>
  BY <1>1, OfThree
<1>3. CrossSum(atoms) = -b + 2 * w
  <2> DEFINE f == [i \in DOMAIN atoms |-> IF atoms[i].isotope \in {"V", "B", "F"}
                                          THEN atoms[i].value ELSE 0]
  <2>1. /\ DOMAIN f = DOMAIN atoms /\ f[1] = atoms[1].value /\ f[2] = atoms[2].value
        /\ f[3] = atoms[3].value
    BY <1>1, <1>2
  <2>2. CrossSum(atoms) = SumOf(f)
    BY Zenon DEF CrossSum
  <2> HIDE DEF f, a, b, w
  <2>3. DOMAIN f = 1..3 /\ f[1] = -b /\ f[2] = 2 * a /\ f[3] = 2 * (w - a)
    BY <1>1, <2>1, Zenon
  <2>4. f[1] \in Int /\ f[2] \in Int /\ f[3] \in Int
    BY <1>w, <2>3
  <2>5. SumOf(f) = f[1] + f[2] + f[3]
    BY <2>3, <2>4, SumOfThree
  <2>6. QED BY <1>w, <2>2, <2>3, <2>5
<1>4. Passes(atoms) <=> SourceToken # "USER" /\ CrossSum(atoms) = 0
  <2>1. Crossing(atoms) /\ \A i \in DOMAIN atoms : Crosses(atoms[i]) => atoms[i].owner # ""
    BY <1>1, <1>2 DEF Crossing, Crosses
  <2>2. \A i \in DOMAIN atoms : atoms[i].isotope # "F" /\ atoms[i].isotope # "I"
    BY <1>1, <1>2
  <2>3. QED BY <1>1, <1>2, <2>1, <2>2, CrossPasses
<1>5. CrossSum(atoms) = 0 <=> b % 2 = 0
  <2> DEFINE r == b % 2
  <2>1. r \in {0, 1} /\ 2 * w = b - r /\ CrossSum(atoms) = -b + 2 * w
    BY <1>w, <1>3
  <2> HIDE DEF r, w
  <2>2. CrossSum(atoms) = 0 <=> r = 0
    BY <1>w, <2>1
  <2>3. QED BY <2>2 DEF r
<1>6. QED BY <1>w, <1>4, <1>5 DEF Unsendable

(* A fused wallet has units, so its balance is whole.                       *)
LEMMA FusionPasses == ASSUME Inv, Made, job.op = "fuse" PROVE Passes(atoms) <=> ~Unsendable
<1> DEFINE b == wallet.balance
           w == Whole(wallet.balance)
           k == Len(job.fused)
<1>k. k \in Nat /\ k >= 2 /\ DOMAIN job.fused = 1..k /\ Named(job.fused) \subseteq wallet.units
  BY FusedList DEF Inv, Made
<1>u. wallet.units # {} /\ wallet.balance = 2 * Cardinality(wallet.units)
      /\ Cardinality(wallet.units) \in Nat
  <2>1. 1 \in DOMAIN job.fused
    BY <1>k
  <2>2. job.fused[1] \in wallet.units
    BY <1>k, <2>1 DEF Named
  <2>3. QED BY <2>2, WalletFacts DEF Inv
<1>w. b \in Nat /\ w \in Nat /\ b = 2 * w /\ b % 2 = 0 /\ SourceToken = job.token
  BY <1>u, WholeEven, SpendFacts
<1>1. /\ DOMAIN atoms = 1..4
      /\ atoms[1].value = -b /\ atoms[2].value = 2 * (k - 1)
      /\ atoms[3].value = 2 /\ atoms[4].value = 2 * (w - k)
      /\ atoms[1].token = job.token
      /\ atoms[1].isotope = "V" /\ atoms[2].isotope = "V"
      /\ atoms[3].isotope = "F" /\ atoms[4].isotope = "V"
      /\ atoms[3].owner = "them"
  <2>1. atoms = << Debit("V", Named(job.fused)),
                   Atom("V", job.token, Written(k - 1), Named(Front(job.fused)), "burn"),
                   Atom("F", job.token, Written(1), {job.new}, "them"),
                   Atom("V", job.token, Written(Change(k)), Kept(Named(job.fused)), "me") >>
    BY DEF Made, InitTokenFusion
  <2>2. /\ DOMAIN atoms = 1..4 /\ atoms[1] = Debit("V", Named(job.fused))
        /\ atoms[2] = Atom("V", job.token, Written(k - 1), Named(Front(job.fused)), "burn")
        /\ atoms[3] = Atom("F", job.token, Written(1), {job.new}, "them")
        /\ atoms[4] = Atom("V", job.token, Written(Change(k)), Kept(Named(job.fused)), "me")
    BY <2>1, Four
  <2>3. Written(k - 1) = 2 * (k - 1) /\ Written(1) = 2 /\ Written(Change(k)) = 2 * (w - k)
    BY DEF Written, Change
  <2>4. QED BY <1>w, <2>2, <2>3, DebitFields, AtomFields
<1>2. /\ \A i \in DOMAIN atoms : i = 1 \/ i = 2 \/ i = 3 \/ i = 4
      /\ 1 \in DOMAIN atoms /\ 2 \in DOMAIN atoms /\ 3 \in DOMAIN atoms /\ 4 \in DOMAIN atoms
      /\ atoms # << >>
  BY <1>1, OfFour
<1>3. CrossSum(atoms) = 0
  <2> DEFINE f == [i \in DOMAIN atoms |-> IF atoms[i].isotope \in {"V", "B", "F"}
                                          THEN atoms[i].value ELSE 0]
  <2>1. /\ DOMAIN f = DOMAIN atoms /\ f[1] = atoms[1].value /\ f[2] = atoms[2].value
        /\ f[3] = atoms[3].value /\ f[4] = atoms[4].value
    BY <1>1, <1>2
  <2>2. CrossSum(atoms) = SumOf(f)
    BY Zenon DEF CrossSum
  <2> HIDE DEF f, b, w, k
  <2>3. /\ DOMAIN f = 1..4 /\ f[1] = -b /\ f[2] = 2 * (k - 1)
        /\ f[3] = 2 /\ f[4] = 2 * (w - k)
    BY <1>1, <2>1, Zenon
  <2>4. f[1] \in Int /\ f[2] \in Int /\ f[3] \in Int /\ f[4] \in Int
    BY <1>k, <1>w, <2>3
  <2>5. SumOf(f) = f[1] + f[2] + f[3] + f[4]
    BY <2>3, <2>4, SumOfFour
  <2>6. QED BY <1>k, <1>w, <2>2, <2>3, <2>5
<1>4. Passes(atoms) <=> job.token # "USER" /\ CrossSum(atoms) = 0
  <2>1. Crossing(atoms) /\ \A i \in DOMAIN atoms : Crosses(atoms[i]) => atoms[i].owner # ""
    BY <1>1, <1>2 DEF Crossing, Crosses
  <2>2. \A i \in DOMAIN atoms : atoms[i].isotope = "F" => atoms[i].value >= 0
    <3>1. 2 >= 0
      OBVIOUS
    <3>2. ASSUME NEW i \in DOMAIN atoms, atoms[i].isotope = "F" PROVE atoms[i].value >= 0
      <4>1. i = 3
        BY <1>1, <1>2, <3>2
      <4>2. QED BY <1>1, <3>1, <4>1
    <3>3. QED BY <3>2
  <2>3. \A i \in DOMAIN atoms : atoms[i].isotope # "I"
    BY <1>1, <1>2
  <2>4. QED BY <1>1, <1>2, <2>1, <2>2, <2>3, CrossPasses
<1>5. QED
  <2>1. wallet.balance % 2 # 1
    BY <1>w
  <2>2. QED BY <1>w, <1>3, <1>4, <2>1 DEF Unsendable

LEMMA ContinuIdPasses ==
    ASSUME Made, job.op \in {"create", "replenish", "wallet", "meta"} PROVE Passes(atoms)
<1>1. /\ DOMAIN atoms = 1..2
      /\ atoms[1].isotope \in {"C", "M"} /\ atoms[2].isotope = "I"
  BY DEF Made, InitTokenCreation, InitMeta, ContinuIdAtom, Atom
<1>2. \A i \in DOMAIN atoms : i = 1 \/ i = 2
  BY <1>1
<1>3. ~Crossing(atoms) /\ \A i \in DOMAIN atoms : atoms[i].isotope # "V"
  BY <1>1, <1>2 DEF Crossing, Crosses
<1>4. atoms # << >>
  <2>1. 2 \in Nat /\ 2 > 0
    OBVIOUS
  <2>2. QED BY <1>1, <2>1, NotEmpty
<1>5. 2 \in DOMAIN atoms
  BY <1>1
<1>6. QED BY <1>1, <1>3, <1>4, <1>5 DEF Passes

(* The builders and Molecule::check against each other: of what an           *)
(* operation builds, check refuses the molecules spoiled by a source of     *)
(* token USER, by the fraction of a balance or by the overflow of a         *)
(* negative amount's change, and no other; none of those is sent.           *)
THEOREM BuildersPass == Spec => []OwnMoleculesPass
<1>1. ASSUME Inv PROVE OwnMoleculesPass
  <2>1. ASSUME stage \in {"refused", "sent"}, Spends PROVE Passes(atoms) <=> ~Unsendable
    <3>1. Made
      BY <1>1, <2>1 DEF Inv
    <3>2. CASE job.op \in {"transfer", "burn"}
      BY <1>1, <3>1, <3>2, TransferPasses
    <3>3. CASE job.op = "transferMany"
      BY <1>1, <3>1, <3>3, ManyPasses
    <3>4. CASE job.op \in {"deposit", "withdraw"}
      BY <1>1, <3>1, <3>4, BufferPasses
    <3>5. CASE job.op = "fuse"
      BY <1>1, <3>1, <3>5, FusionPasses
    <3>6. QED BY <2>1, <3>2, <3>3, <3>4, <3>5 DEF Spends
  <2>2. ASSUME stage = "refused", job.op # "served" PROVE Spends
    <3>1. Made /\ ~Passes(atoms) /\ job \in Jobs
      BY <1>1, <2>2 DEF Inv
    <3>2. job.op \notin {"create", "replenish", "wallet", "meta"}
      BY <3>1, ContinuIdPasses
    <3>3. QED BY <2>2, <3>1, <3>2, JobFacts DEF Spends
  <2>3. /\ stage = "refused" => ~Passes(atoms)
        /\ stage = "sent" => Passes(atoms)
    BY <1>1 DEF Inv
  <2>4. QED BY <2>1, <2>2, <2>3 DEF OwnMoleculesPass
<1>2. QED BY <1>1, Invariance, PTL

-----------------------------------------------------------------------------
(* Tokens, one by one.                                                      *)
OfOneToken ==
    /\ \E n \in Nat : n > 0 /\ DOMAIN atoms = 1..n
    /\ \A i \in DOMAIN atoms :
          /\ atoms[i].token = job.token /\ atoms[i].isotope \in {"V", "B", "F"}
          /\ atoms[i].value \in Int

LEMMA SpentTokens ==
    ASSUME Inv, Made, Spends, SourceToken = job.token
    PROVE  OfOneToken
<1>1. \A i \in DOMAIN atoms : atoms[i].value \in Int
  BY BuiltList DEF AtomList
<1>2. CASE job.op \in {"transfer", "burn", "deposit", "withdraw"}
  <2>1. PICK x, y, z : /\ atoms = << x, y, z >>
                       /\ \A a \in {x, y, z} :
                             a.token = job.token /\ a.isotope \in {"V", "B", "F"}
    <3>1. CASE job.op \in {"transfer", "burn"}
      BY <3>1, DebitFields, AtomFields DEF Made, InitValue
    <3>2. CASE job.op = "deposit"
      BY <3>2, DebitFields, AtomFields DEF Made, InitDepositBuffer
    <3>3. CASE job.op = "withdraw"
      BY <3>3, DebitFields, AtomFields DEF Made, InitWithdrawBuffer
    <3>4. QED BY <1>2, <3>1, <3>2, <3>3
  <2>2. DOMAIN atoms = 1..3 /\ atoms[1] = x /\ atoms[2] = y /\ atoms[3] = z
    BY <2>1, Three
  <2>3. 3 \in Nat /\ 3 > 0 /\ \A i \in 1..3 : i = 1 \/ i = 2 \/ i = 3
    OBVIOUS
  <2>4. \A i \in DOMAIN atoms : atoms[i] \in {x, y, z}
    BY <2>2, <2>3
  <2>5. QED BY <1>1, <2>1, <2>2, <2>3, <2>4 DEF OfOneToken
<1>3. CASE job.op = "transferMany"
  <2> DEFINE split == SplitMulti(job.recipients)
  <2>1. PICK n \in Nat : ManyValues(n, Asked, split)
    BY <1>3, Many DEF Inv
  <2> HIDE DEF split
  <2>2. DOMAIN atoms = 1..(n + 2) /\ n + 2 \in Nat /\ n + 2 > 0
    BY <2>1 DEF ManyValues
  <2>3. ASSUME NEW i \in 1..(n + 2)
        PROVE  atoms[i].token = job.token /\ atoms[i].isotope = "V"
    <3>1. CASE i = 1
      BY <2>1, <3>1, DebitFields DEF ManyValues
    <3>2. CASE i = n + 2
      BY <2>1, <3>2, AtomFields DEF ManyValues
    <3>3. CASE i \in 2..(n + 1)
      <4>1. i - 1 \in 1..n /\ (i - 1) + 1 = i
        BY <3>3
      <4>2. atoms[i] = Atom("V", job.token, Written(Asked[i - 1]), split.given[i - 1], "them")
        BY <2>1, <4>1 DEF ManyValues
      <4>3. QED BY <4>2, AtomFields
    <3>4. QED BY <3>1, <3>2, <3>3
  <2>4. QED BY <1>1, <2>2, <2>3 DEF OfOneToken
<1>4. CASE job.op = "fuse"
  <2>1. PICK x, y, z, w : /\ atoms = << x, y, z, w >>
                          /\ \A a \in {x, y, z, w} :
                                a.token = job.token /\ a.isotope \in {"V", "B", "F"}
    BY <1>4, DebitFields, AtomFields DEF Made, InitTokenFusion
  <2>2. DOMAIN atoms = 1..4 /\ atoms[1] = x /\ atoms[2] = y /\ atoms[3] = z /\ atoms[4] = w
    BY <2>1, Four
  <2>3. 4 \in Nat /\ 4 > 0 /\ \A i \in 1..4 : i = 1 \/ i = 2 \/ i = 3 \/ i = 4
    OBVIOUS
  <2>4. \A i \in DOMAIN atoms : atoms[i] \in {x, y, z, w}
    BY <2>2, <2>3
  <2>5. QED BY <1>1, <2>1, <2>2, <2>3, <2>4 DEF OfOneToken
<1>5. QED BY <1>2, <1>3, <1>4 DEF Spends

(* Of one token, check takes the sum of the token whichever way it goes.    *)
LEMMA OneTokenSums ==
    ASSUME OfOneToken, Passes(atoms), NEW t
    PROVE  TokenSum(atoms, t) = 0
<1>1. PICK n \in Nat : n > 0 /\ DOMAIN atoms = 1..n
  BY DEF OfOneToken
<1>2. \A i \in DOMAIN atoms : /\ atoms[i].token = job.token
                              /\ atoms[i].isotope \in {"V", "B", "F"}
                              /\ atoms[i].value \in Int
  BY DEF OfOneToken
<1>3. CASE t # job.token
  <2> DEFINE f == [i \in DOMAIN atoms |-> IF atoms[i].token = t THEN atoms[i].value ELSE 0]
  <2>1. DOMAIN f = 1..n /\ \A i \in DOMAIN f : f[i] = 0
    BY <1>1, <1>2, <1>3
  <2>2. TokenSum(atoms, t) = SumOf(f)
    BY Zenon DEF TokenSum
  <2>3. IsFiniteSet(1..n)
    BY FS_Interval
  <2> HIDE DEF f
  <2>4. SumOf(f) \in Int /\ ~(SumOf(f) > 0) /\ ~(SumOf(f) < 0)
    BY <2>1, <2>3, SumType, SumSigns
  <2>5. QED BY <2>2, <2>4
<1>4. CASE t = job.token
  <2> DEFINE f == [i \in DOMAIN atoms |-> atoms[i].value]
  <2>1. [i \in DOMAIN atoms |-> IF atoms[i].token = t THEN atoms[i].value ELSE 0] = f
    BY <1>2, <1>4
  <2>2. TokenSum(atoms, t) = SumOf(f)
    BY <2>1 DEF TokenSum
  <2>3. CASE Crossing(atoms)
    <3>1. [i \in DOMAIN atoms |-> IF atoms[i].isotope \in {"V", "B", "F"}
                                   THEN atoms[i].value ELSE 0] = f
      BY <1>2
    <3>2. CrossSum(atoms) = SumOf(f)
      BY <3>1 DEF CrossSum
    <3>3. CrossSum(atoms) = 0
      BY <2>3 DEF Passes
    <3>4. QED BY <2>2, <3>2, <3>3
  <2>4. CASE ~Crossing(atoms)
    <3>1. \A i \in DOMAIN atoms : atoms[i].isotope = "V"
      BY <1>2, <2>4 DEF Crossing, Crosses
    <3>2. VSum(atoms, t) = 0
      BY <1>1, <1>2, <1>4, <3>1, PlainPasses
    <3>3. [i \in DOMAIN atoms |-> IF atoms[i].isotope = "V" /\ atoms[i].token = t
                                   THEN atoms[i].value ELSE 0] = f
      BY <1>2, <1>4, <3>1
    <3>4. VSum(atoms, t) = SumOf(f)
      BY <3>3 DEF VSum
    <3>5. QED BY <2>2, <3>2, <3>4
  <2>5. QED BY <2>3, <2>4
<1>5. QED BY <1>3, <1>4

(* Of two, the change alone is of the token the caller names.               *)
LEMMA TwoTokenSums ==
    ASSUME Inv, Made, job.op = "withdraw", SourceToken # job.token, Passes(atoms)
    PROVE  (\A t \in Tokens : TokenSum(atoms, t) = 0) <=> Change(Whole(job.amount)) = 0
<1> DEFINE b == wallet.balance
           a == Whole(job.amount)
           c == Change(Whole(job.amount))
           s == SourceToken
           f(t) == [i \in DOMAIN atoms |-> IF atoms[i].token = t THEN atoms[i].value ELSE 0]
           g == [i \in DOMAIN atoms |-> IF atoms[i].isotope \in {"V", "B", "F"}
                                          THEN atoms[i].value ELSE 0]
<1>w. b \in Nat /\ a \in Int /\ c \in Int
  BY SpendFacts, JobFacts DEF Inv, Change
<1>t. s \in Tokens /\ job.token \in Tokens
  <2>1. job \in Jobs
    BY DEF Inv
  <2>2. job.source \in Tokens /\ job.token \in Tokens
    BY <2>1 DEF Jobs
  <2>3. QED BY <2>2 DEF SourceToken
<1>1. /\ DOMAIN atoms = 1..3
      /\ atoms[1] = Debit("B", wallet.units)
      /\ atoms[2] = Atom("V", s, Written(a), {}, "me")
      /\ atoms[3] = Atom("B", job.token, Written(c), {}, "me")
  BY Three DEF Made, InitWithdrawBuffer
<1>2. /\ atoms[1].value = -b /\ atoms[2].value = 2 * a /\ atoms[3].value = 2 * c
      /\ atoms[1].token = s /\ atoms[2].token = s /\ atoms[3].token = job.token
      /\ atoms[1].isotope = "B" /\ atoms[2].isotope = "V" /\ atoms[3].isotope = "B"
  BY <1>1, DebitFields, AtomFields DEF Written
<1>3. 1 \in DOMAIN atoms /\ 2 \in DOMAIN atoms /\ 3 \in DOMAIN atoms
  BY <1>1, OfThree
<1>4. CrossSum(atoms) = 0
  BY <1>2, <1>3 DEF Passes, Crossing, Crosses
<1>5. /\ DOMAIN g = 1..3 /\ g[1] = -b /\ g[2] = 2 * a /\ g[3] = 2 * c
      /\ CrossSum(atoms) = SumOf(g)
  BY <1>1, <1>2, <1>3, Zenon DEF CrossSum
<1>6. ASSUME NEW t
      PROVE  /\ DOMAIN f(t) = 1..3 /\ TokenSum(atoms, t) = SumOf(f(t))
             /\ f(t)[1] = IF s = t THEN -b ELSE 0
             /\ f(t)[2] = IF s = t THEN 2 * a ELSE 0
             /\ f(t)[3] = IF job.token = t THEN 2 * c ELSE 0
  BY <1>1, <1>2, <1>3, Zenon DEF TokenSum
<1> HIDE DEF a, b, c, s, f, g
<1>7. -b + 2 * a + 2 * c = 0
  <2>1. g[1] \in Int /\ g[2] \in Int /\ g[3] \in Int
    BY <1>w, <1>5
  <2>2. SumOf(g) = g[1] + g[2] + g[3]
    BY <1>5, <2>1, SumOfThree
  <2>3. QED BY <1>4, <1>5, <2>2
<1>8. ASSUME NEW t
      PROVE  TokenSum(atoms, t) = (IF s = t THEN -b + 2 * a ELSE 0)
                                    + (IF job.token = t THEN 2 * c ELSE 0)
  <2> DEFINE h == f(t)
  <2>1. /\ DOMAIN h = 1..3 /\ TokenSum(atoms, t) = SumOf(h)
        /\ h[1] = IF s = t THEN -b ELSE 0
        /\ h[2] = IF s = t THEN 2 * a ELSE 0
        /\ h[3] = IF job.token = t THEN 2 * c ELSE 0
    BY <1>6
  <2> HIDE DEF h
  <2>2. h[1] \in Int /\ h[2] \in Int /\ h[3] \in Int
    BY <1>w, <2>1
  <2>3. SumOf(h) = h[1] + h[2] + h[3]
    BY <2>1, <2>2, SumOfThree
  <2>4. QED BY <1>w, <2>1, <2>3
<1>9. s # job.token
  BY DEF s
<1>10. TokenSum(atoms, job.token) = 2 * c
  BY <1>w, <1>8, <1>9
<1>11. ASSUME c = 0, NEW t PROVE TokenSum(atoms, t) = 0
  BY <1>w, <1>7, <1>8, <1>11
<1>12. (\A t \in Tokens : TokenSum(atoms, t) = 0) <=> c = 0
  BY <1>w, <1>t, <1>10, <1>11
<1>13. QED BY <1>12 DEF c

(* What is sent leaves as much of each token as it took, but for a          *)
(* withdrawal that was given a wallet of another token and leaves change:   *)
(* verifyCrossIsotopeConservation and the tokens the builders name.         *)
THEOREM TokensCorrect == Spec => []TokensConserved
<1>1. ASSUME Inv PROVE TokensConserved
  <2> SUFFICES ASSUME stage = "sent", Spends
               PROVE  (\A t \in Tokens : TokenSum(atoms, t) = 0) <=>
                         (SourceToken = job.token \/ Change(Whole(job.amount)) = 0)
    BY SumsOfCheck DEF TokensConserved
  <2>1. Made /\ Passes(atoms)
    BY <1>1 DEF Inv
  <2>2. CASE SourceToken = job.token
    BY <1>1, <2>1, <2>2, SpentTokens, OneTokenSums
  <2>3. CASE SourceToken # job.token
    <3>1. job.op = "withdraw"
      BY <2>3 DEF SourceToken
    <3>2. QED BY <1>1, <2>1, <2>3, <3>1, TwoTokenSums
  <2>4. QED BY <2>2, <2>3
<1>2. QED BY <1>1, Invariance, PTL

-----------------------------------------------------------------------------
(* Where the units of the source go, builder by builder.                    *)
Accounted ==
    LET change   == atoms[Len(atoms)]
        credited == UNION {atoms[i].units : i \in Credited}
    IN  /\ atoms[1].units \cap change.units = {}
        /\ atoms[1].units \cup change.units = wallet.units
        /\ job.op \in {"transfer", "transferMany"} => credited = atoms[1].units
        /\ job.op = "fuse" /\ IsInjective(job.fused) =>
              change.value = Written(Cardinality(change.units))

LEMMA SplitUnits ==
    ASSUME NEW u
    PROVE  Sent(u) \cap Kept(u) = {} /\ Sent(u) \cup Kept(u) = wallet.units
BY DEF Sent, Kept

LEMMA DebitUnits == ASSUME NEW isotope, NEW sent PROVE Debit(isotope, sent).units = sent
BY DEF Debit, Atom

LEMMA DebitOwner == ASSUME NEW sent PROVE Debit("V", sent).owner = ""
BY DEF Debit, Atom

LEMMA TransferAccounted ==
    ASSUME Inv, Made, job.op \in {"transfer", "burn"}, job.units # {} PROVE Accounted
<1> DEFINE owner == IF job.op = "transfer" THEN "them" ELSE "burn"
<1>1. atoms = << Debit("V", Sent(job.units)),
                 Atom("V", job.token, Written(Whole(job.amount)),
                      IF owner # "burn" THEN Sent(job.units) ELSE {}, owner),
                 Atom("V", job.token, Written(Wrapped(Change(Whole(job.amount)))), Kept(job.units), "me") >>
  BY DEF Made, InitValue
<1>d. DOMAIN atoms = 1..3 /\ Len(atoms) = 3
  BY <1>1, Three
<1>2. /\ atoms[1] = Debit("V", Sent(job.units))
      /\ atoms[2] = Atom("V", job.token, Written(Whole(job.amount)),
                         IF owner # "burn" THEN Sent(job.units) ELSE {}, owner)
      /\ atoms[3] = Atom("V", job.token, Written(Wrapped(Change(Whole(job.amount)))), Kept(job.units), "me")
  BY <1>1, Three
<1>3. /\ atoms[1].units = Sent(job.units) /\ atoms[1].owner = ""
      /\ atoms[2].units = IF owner # "burn" THEN Sent(job.units) ELSE {}
      /\ atoms[2].owner = owner
      /\ atoms[3].units = Kept(job.units) /\ atoms[3].owner = "me"
  <2>1. atoms[1].units = Sent(job.units) /\ atoms[1].owner = ""
    <3>1. /\ Debit("V", Sent(job.units)).units = Sent(job.units)
          /\ Debit("V", Sent(job.units)).owner = ""
      BY ONLY DebitUnits, DebitOwner, Zenon
    <3>2. atoms[1] = Debit("V", Sent(job.units))
      BY <1>2, Zenon
    <3>3. QED BY ONLY <3>1, <3>2, Zenon
  <2>2. /\ atoms[2].units = IF owner # "burn" THEN Sent(job.units) ELSE {}
        /\ atoms[2].owner = owner
    BY <1>2, AtomFields
  <2>3. atoms[3].units = Kept(job.units) /\ atoms[3].owner = "me"
    BY <1>2, AtomFields
  <2>4. QED BY <2>1, <2>2, <2>3
<1>4. ASSUME job.op = "transfer"
      PROVE  UNION {atoms[i].units : i \in Credited} = Sent(job.units)
  <2>1. owner = "them"
    BY <1>4
  <2>2. Credited = {2}
    <3>1. /\ \A i \in DOMAIN atoms : i = 1 \/ i = 2 \/ i = 3
          /\ 2 \in DOMAIN atoms
      BY <1>d, OfThree
    <3>2. QED BY <1>3, <2>1, <3>1 DEF Credited
  <2>3. QED BY <1>3, <2>1, <2>2
<1>5. QED BY <1>d, <1>3, <1>4, SplitUnits DEF Accounted

LEMMA ManyAccounted ==
    ASSUME Inv, Made, job.op = "transferMany", Listed(job.recipients) # {} PROVE Accounted
<1> DEFINE rs == job.recipients
           split == SplitMulti(rs)
<1>1. PICK n \in Nat : DOMAIN rs = 1..n /\ ManyValues(n, Asked, split)
  BY Many DEF Inv
<1>2. /\ split.source = Sent(Listed(rs)) /\ split.kept = Kept(Listed(rs))
      /\ \A i \in 1..n : split.given[i] = Sent(rs[i].units)
  BY <1>1 DEF SplitMulti
<1> HIDE DEF split
<1>d. DOMAIN atoms = 1..(n + 2) /\ Len(atoms) = n + 2
  BY <1>1 DEF ManyValues
<1>3. /\ atoms[1] = Debit("V", split.source)
      /\ \A i \in 1..n : atoms[i + 1] = Atom("V", job.token, Written(Asked[i]), split.given[i], "them")
      /\ atoms[n + 2] = Atom("V", job.token, Written(Change(Total(Asked))), split.kept, "me")
  BY <1>1 DEF ManyValues
<1>4. /\ atoms[1].units = Sent(Listed(rs)) /\ atoms[1].owner = ""
      /\ atoms[n + 2].units = Kept(Listed(rs)) /\ atoms[n + 2].owner = "me"
      /\ \A i \in 1..n : atoms[i + 1].units = Sent(rs[i].units) /\ atoms[i + 1].owner = "them"
  <2>1. atoms[1].units = split.source /\ atoms[1].owner = ""
    <3>1. atoms[1] = Debit("V", split.source)
      BY <1>3
    <3>2. /\ Debit("V", split.source).units = split.source
          /\ Debit("V", split.source).owner = ""
      BY ONLY DebitUnits, DebitOwner, Zenon
    <3>3. QED BY ONLY <3>1, <3>2, Zenon
  <2>2. atoms[n + 2].units = split.kept /\ atoms[n + 2].owner = "me"
    BY <1>3, AtomFields
  <2>3. ASSUME NEW i \in 1..n
        PROVE  atoms[i + 1].units = split.given[i] /\ atoms[i + 1].owner = "them"
    <3>1. atoms[i + 1] = Atom("V", job.token, Written(Asked[i]), split.given[i], "them")
      BY <1>3
    <3>2. QED BY <3>1, AtomFields
  <2>4. QED BY <1>2, <2>1, <2>2, <2>3
<1>5. UNION {atoms[i].units : i \in Credited} = Sent(Listed(rs))
  <2>1. ASSUME NEW i PROVE i \in Credited <=> \E j \in 1..n : i = j + 1
    <3>1. ASSUME NEW j \in 1..n PROVE j + 1 \in Credited
      <4>1. j + 1 \in 1..(n + 2)
        OBVIOUS
      <4>2. QED BY <1>d, <1>4, <4>1, Zenon DEF Credited
    <3>2. ASSUME i \in Credited PROVE \E j \in 1..n : i = j + 1
      <4>1. i \in 1..(n + 2) /\ atoms[i].owner = "them"
        BY <1>d, <3>2, Zenon DEF Credited
      <4>2. i # 1 /\ i # n + 2
        BY <1>4, <4>1
      <4>3. i - 1 \in 1..n /\ i = (i - 1) + 1
        BY <4>1, <4>2
      <4>4. QED BY <4>3
    <3>3. QED BY <3>1, <3>2
  <2>2. UNION {atoms[i].units : i \in Credited} = UNION {Sent(rs[j].units) : j \in 1..n}
    <3>1. ASSUME NEW u
          PROVE  (\E i \in Credited : u \in atoms[i].units)
                   <=> (\E j \in 1..n : u \in Sent(rs[j].units))
      <4>1. ASSUME NEW i \in Credited, u \in atoms[i].units
            PROVE  \E j \in 1..n : u \in Sent(rs[j].units)
        <5>1. PICK j \in 1..n : i = j + 1
          BY <2>1
        <5>2. atoms[i].units = Sent(rs[j].units)
          BY <1>4, <5>1
        <5>3. QED BY <4>1, <5>2
      <4>2. ASSUME NEW j \in 1..n, u \in Sent(rs[j].units)
            PROVE  \E i \in Credited : u \in atoms[i].units
        <5>1. j + 1 \in Credited
          BY <2>1
        <5>2. atoms[j + 1].units = Sent(rs[j].units)
          BY <1>4
        <5>3. QED BY <4>2, <5>1, <5>2
      <4>3. QED BY <4>1, <4>2
    <3>2. QED BY <3>1
  <2>3. UNION {Sent(rs[j].units) : j \in 1..n} = Sent(Listed(rs))
    BY <1>1 DEF Sent, Listed
  <2>4. QED BY <2>2, <2>3
<1>6. QED BY <1>d, <1>4, <1>5, SplitUnits DEF Accounted

LEMMA FusionAccounted == ASSUME Inv, Made, job.op = "fuse" PROVE Accounted
<1>1. /\ DOMAIN atoms = 1..4 /\ Len(atoms) = 4
      /\ atoms[1].units = Named(job.fused)
      /\ atoms[4].units = Kept(Named(job.fused))
      /\ atoms[4].value = Written(Change(Len(job.fused)))
  <2>1. atoms = << Debit("V", Named(job.fused)),
                   Atom("V", job.token, Written(Len(job.fused) - 1), Named(Front(job.fused)), "burn"),
                   Atom("F", job.token, Written(1), {job.new}, "them"),
                   Atom("V", job.token, Written(Change(Len(job.fused))), Kept(Named(job.fused)), "me") >>
    BY DEF Made, InitTokenFusion
  <2>d. DOMAIN atoms = 1..4 /\ Len(atoms) = 4
    BY <2>1, Four
  <2>2. /\ atoms[1] = Debit("V", Named(job.fused))
        /\ atoms[4] = Atom("V", job.token, Written(Change(Len(job.fused))), Kept(Named(job.fused)), "me")
    BY <2>1, Four
  <2>3. /\ atoms[1].units = Named(job.fused)
        /\ atoms[4].units = Kept(Named(job.fused))
      /\ atoms[4].value = Written(Change(Len(job.fused)))
    BY <2>2, DebitUnits, AtomFields
  <2>4. QED BY <2>d, <2>3
<1>2. Named(job.fused) \subseteq wallet.units /\ Len(job.fused) >= 2
  BY DEF Made
<1>3. /\ Named(job.fused) \cap Kept(Named(job.fused)) = {}
      /\ Named(job.fused) \cup Kept(Named(job.fused)) = wallet.units
  BY <1>2 DEF Kept
<1>4. ASSUME IsInjective(job.fused)
      PROVE  Change(Len(job.fused)) = Cardinality(Kept(Named(job.fused)))
  <2> DEFINE N == Named(job.fused)
             n == Len(job.fused)
  <2>1. n \in Nat /\ job.fused \in [1..n -> Units] /\ DOMAIN job.fused = 1..n
    BY FusedList DEF Inv
  <2>2. job.fused \in Surjection(1..n, N) /\ job.fused \in Injection(1..n, N)
    BY <1>4, <2>1 DEF Surjection, Injection, Named
  <2>3. Cardinality(N) = n
    <3>1. IsFiniteSet(1..n) /\ Cardinality(1..n) = n
      <4>1. 1 \in Int /\ n \in Int /\ n >= 1 /\ (n - 1) + 1 = n
        BY <1>2, <2>1
      <4> HIDE DEF n
      <4>2. QED BY <4>1, FS_Interval
    <3>2. QED BY <2>2, <3>1, FS_Surjection
  <2>4. /\ IsFiniteSet(wallet.units) /\ Cardinality(wallet.units) \in Nat
        /\ Whole(wallet.balance) = Cardinality(wallet.units)
    <3>1. wallet.units # {}
      <4>1. 1 \in 1..n
        BY <1>2, <2>1
      <4>2. job.fused[1] \in N
        BY <2>1, <4>1 DEF Named
      <4>3. QED BY <1>2, <4>2
    <3>2. QED BY <3>1, WalletFacts, WholeEven DEF Inv
  <2>5. Cardinality(wallet.units \ N) = Cardinality(wallet.units) - Cardinality(wallet.units \cap N)
    BY <2>4, FS_Difference
  <2>6. wallet.units \cap N = N
    BY <1>2
  <2>7. QED BY <2>3, <2>4, <2>5, <2>6 DEF Change, Kept
<1>5. QED BY <1>1, <1>3, <1>4 DEF Accounted

(* A transfer, burn or fusion that names its units takes none from the      *)
(* source that it does not send, burn or keep, keeps none it also sends,    *)
(* and credits all it sends; what a fusion keeps is worth the units it      *)
(* keeps, unless the caller named a unit twice: splitUnits,                 *)
(* splitUnitsMulti, initTokenFusion.                                        *)
THEOREM UnitsGoWithValue == Spec => []UnitsAccounted
<1>1. ASSUME Inv PROVE UnitsAccounted
  <2> SUFFICES ASSUME Own,
                      \/ job.op \in {"transfer", "burn"} /\ job.units # {}
                      \/ job.op = "transferMany" /\ Listed(job.recipients) # {}
                      \/ job.op = "fuse"
               PROVE  Accounted
    BY DEF UnitsAccounted, Accounted
  <2>1. Made
    BY <1>1 DEF Inv, Own
  <2>2. QED BY <1>1, <2>1, TransferAccounted, ManyAccounted, FusionAccounted
<1>2. QED BY <1>1, Invariance, PTL
=============================================================================
