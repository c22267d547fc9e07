---------------------------- MODULE ValueMolecule ----------------------------
(***************************************************************************)
(* How a KnishIOClient operation turns the wallet the ledger named into the *)
(* atoms of a molecule (Molecule.cpp's builders, Wallet::splitUnits), and   *)
(* what Molecule::check lets through.  An atom is its isotope, token,       *)
(* value, token units and whose wallet it names; positions, metas and       *)
(* signatures are left out.  Value must be conserved, and a stackable       *)
(* token's units must go where its value goes.                              *)
(*                                                                          *)
(* Amounts, balances and values are counted in halves of a token: a caller  *)
(* asks for a double and the ledger answers a decimal text, while the       *)
(* builders compute with whole numbers.                                     *)
(***************************************************************************)
EXTENDS Integers, FiniteSets, SequencesExt

CONSTANTS
    Units,       \* ids of the token units a wallet may hold
    NewUnit,     \* the id a fusion gives its unit
    Amounts,     \* amounts a caller may ask for, in halves
    Balances,    \* balances a wallet may have, in halves
    IntMax,      \* the largest int std::stoi returns
    MaxServed    \* bound: atoms in a molecule that is read, not built

ASSUME MoleculeAssumption ==
    /\ NewUnit \notin Units /\ IsFiniteSet(Units)
    /\ Amounts \subseteq Int /\ Balances \subseteq Nat
    /\ IntMax \in Nat /\ MaxServed \in Nat

VARIABLES
    wallet,   \* the source the ledger answered: balance and units
    job,      \* what was asked for
    atoms,    \* the molecule's atoms
    stage     \* "asked", "built", then how it ended

vars == <<wallet, job, atoms, stage>>

Tokens   == {"TOKEN", "OTHER", "USER"}
Isotopes == {"V", "B", "F", "C", "M", "I"}

Atom(isotope, token, value, units, owner) ==
    [isotope |-> isotope, token |-> token, value |-> value,
     units |-> units, owner |-> owner]

(* A stackable wallet's balance counts its units.                           *)
Wallets == [balance: Balances, units: {{}}]
             \cup {[balance |-> 2 * Cardinality(u), units |-> u] : u \in SUBSET Units}

Lists(S, n) == UNION {[1..k -> S] : k \in 0..n}

Recipients == {[amount |-> a, units |-> {}] : a \in Amounts}
                \cup {[amount |-> 0, units |-> u] : u \in SUBSET Units}

(* withdrawBufferToken may be given its source, of whatever token.          *)
Jobs == [op: {"transfer", "burn"}, token: Tokens, amount: Amounts, units: SUBSET Units]
          \cup [op: {"transferMany"}, token: Tokens, recipients: Lists(Recipients, 2)]
          \cup [op: {"deposit"}, token: Tokens, amount: Amounts]
          \cup [op: {"withdraw"}, token: Tokens, source: Tokens, amount: Amounts]
          \cup [op: {"fuse"}, token: Tokens, fused: Lists(Units, 3),
                new: Units \cup {NewUnit}]
          \cup [op: {"create", "replenish"}, amount: Amounts, units: SUBSET Units]
          \cup [op: {"meta", "wallet", "served"}]

(* Atoms a peer or a validator may serve, value -1 to 1.                    *)
Served == [isotope: Isotopes \ {"M"}, token: {"TOKEN", "USER"}, value: -1..1,
           units: {{}}, owner: {"bundle", ""}]

Init ==
    /\ wallet \in Wallets /\ job \in Jobs
    /\ job.op = "served" => wallet.balance = 0  \* none was asked for
    /\ atoms = << >> /\ stage = "asked"

-----------------------------------------------------------------------------
Total(values) == FoldSeq(+, 0, values)

(* The whole number static_cast, std::stoll and std::stoi make of a double  *)
(* or a text: the fraction is dropped.                                      *)
Whole(n) == IF n >= 0 THEN n \div 2 ELSE -((-n) \div 2)

(* std::to_string, read back.                                               *)
Written(n) == 2 * n

(* std::stoi throws out of range; the other builders read long long.        *)
Fits(n) == n \in (-IntMax - 1)..IntMax

(* initValue subtracts two ints: only a negative amount can overflow them,  *)
(* and the difference then wraps.                                           *)
Wrapped(n) == ((n + IntMax + 1) % (2 * IntMax + 2)) - IntMax - 1

SourceToken == IF job.op = "withdraw" THEN job.source ELSE job.token

(* "-" and the balance, as the ledger wrote it.                             *)
Debit(isotope, sent) ==
    Atom(isotope, SourceToken, -wallet.balance, sent,
         IF isotope = "B" THEN "me" ELSE "")

(* The change is computed from the number that was read.                    *)
ChangeLess(total) == Whole(wallet.balance) - total - 1
Change(total) == Whole(wallet.balance) - total

(* splitUnits                                                               *)
Sent(units) == wallet.units \cap units
KeptEverything(units) == wallet.units
Kept(units) == wallet.units \ units

(* initValue, on the units splitUnits left: without a list nothing is split *)
(* and the source atom names every unit it has.                             *)
InitValue(owner, amount, units) ==
    LET split == units # {}
    IN << Debit("V", IF split THEN Sent(units) ELSE wallet.units),
          Atom("V", job.token, Written(amount),
               IF split /\ owner # "burn" THEN Sent(units) ELSE {}, owner),
          Atom("V", job.token, Written(Wrapped(Change(amount))),
               IF split THEN Kept(units) ELSE {}, "me") >>

Affords(total) == Whole(wallet.balance) >= total

(* Both numbers go through std::stoi.                                       *)
Transferable(amount) ==
    Affords(amount) /\ Fits(Whole(wallet.balance)) /\ Fits(amount)

TransferToken ==
    LET amount == Whole(job.amount) IN
    /\ job.op = "transfer" /\ Transferable(amount)
    /\ atoms' = InitValue("them", amount, job.units)

BurnToken ==
    LET amount == Whole(job.amount) IN
    /\ job.op = "burn" /\ Transferable(amount)
    /\ atoms' = InitValue("burn", amount, job.units)

-----------------------------------------------------------------------------
AmountOf(r) == IF r.units # {} THEN Cardinality(r.units) ELSE Whole(r.amount)

Listed(rs) == UNION {rs[i].units : i \in DOMAIN rs}

(* splitUnitsMulti: what the source, each recipient and the remainder name. *)
SplitMulti(rs) ==
    IF Listed(rs) = {} THEN [source |-> wallet.units, kept |-> {},
                             given |-> [i \in DOMAIN rs |-> {}]]
    ELSE [source |-> Sent(Listed(rs)), kept |-> Kept(Listed(rs)),
          given |-> [i \in DOMAIN rs |-> Sent(rs[i].units)]]

InitValues(amounts, split) ==
    << Debit("V", split.source) >>
    \o [i \in DOMAIN amounts |->
          Atom("V", job.token, Written(amounts[i]), split.given[i], "them")]
    \o << Atom("V", job.token, Written(Change(Total(amounts))), split.kept, "me") >>

TransferTokens ==
    LET rs == job.recipients
        amounts == [i \in DOMAIN rs |-> AmountOf(rs[i])]
    IN  /\ job.op = "transferMany"
        /\ \A i \in DOMAIN rs : rs[i].units # {} => rs[i].amount <= 0
        /\ Affords(Total(amounts))
        /\ atoms' = InitValues(amounts, SplitMulti(rs))

-----------------------------------------------------------------------------
(* depositBufferToken gives its source no units.                            *)
InitDepositBuffer(amount) ==
    << Debit("V", {}), Atom("B", job.token, Written(amount), {}, "me"),
       Atom("V", job.token, Written(Change(amount)), {}, "me") >>

DepositBufferToken ==
    LET amount == Whole(job.amount) IN
    /\ job.op = "deposit" /\ Affords(amount)
    /\ atoms' = InitDepositBuffer(amount)

(* A recipient that takes the token the caller names.                       *)
InitWithdrawBufferNamed(amount) ==
    << Debit("B", wallet.units), Atom("V", job.token, Written(amount), {}, "me"),
       Atom("B", job.token, Written(Change(amount)), {}, "me") >>

(* The recipient takes the source's token, the remainder the caller's.      *)
InitWithdrawBuffer(amount) ==
    << Debit("B", wallet.units), Atom("V", SourceToken, Written(amount), {}, "me"),
       Atom("B", job.token, Written(Change(amount)), {}, "me") >>

WithdrawBufferToken ==
    LET amount == Whole(job.amount) IN
    /\ job.op = "withdraw" /\ Affords(amount)
    /\ atoms' = InitWithdrawBuffer(amount)

-----------------------------------------------------------------------------
Named(list) == {list[i] : i \in DOMAIN list}

(* fused is the list as the caller gave it, repetitions included.           *)
InitTokenFusion(fused, new) ==
    << Debit("V", Named(fused)),
       Atom("V", job.token, Written(Len(fused) - 1), Named(Front(fused)), "burn"),
       Atom("F", job.token, Written(1), {new}, "them"),
       Atom("V", job.token, Written(Change(Len(fused))), Kept(Named(fused)), "me") >>

FuseToken ==
    /\ job.op = "fuse"
    /\ Len(job.fused) >= 2
    /\ Named(job.fused) \subseteq wallet.units /\ job.new \notin wallet.units
    /\ atoms' = InitTokenFusion(job.fused, job.new)

-----------------------------------------------------------------------------
(* addContinuIdAtom                                                         *)
ContinuIdAtom == Atom("I", "USER", 0, {}, "me")

InitTokenCreation(supply) ==
    << Atom("C", "USER", Written(supply), {}, "me"), ContinuIdAtom >>

(* The supply is the count of the units when the token's fungibility, given *)
(* in its metas, has any.                                                   *)
CreateToken ==
    /\ job.op = "create"
    /\ \E supply \in {Whole(job.amount)} \cup
             (IF job.units = {} THEN {} ELSE {Cardinality(job.units)}) :
          atoms' = InitTokenCreation(supply)

InitTokenReplenish(amount, units) ==
    InitTokenCreation(IF units = {} THEN amount ELSE Cardinality(units))

ReplenishToken ==
    LET amount == Whole(job.amount) IN
    /\ job.op = "replenish"
    /\ IF job.units = {} THEN amount > 0 ELSE amount \in {0, Cardinality(job.units)}
    /\ atoms' = InitTokenReplenish(amount, job.units)

InitMeta == << Atom("M", "USER", 0, {}, "me"), ContinuIdAtom >>

CreateMeta == job.op = "meta" /\ atoms' = InitMeta

InitWalletCreation == << Atom("C", "USER", 0, {}, "me"), ContinuIdAtom >>

(* createWallet, claimShadowWallet                                          *)
CreateWallet == job.op = "wallet" /\ atoms' = InitWalletCreation

Builders ==
    \/ TransferToken \/ BurnToken \/ TransferTokens
    \/ DepositBufferToken \/ WithdrawBufferToken \/ FuseToken
    \/ CreateToken \/ ReplenishToken \/ CreateMeta \/ CreateWallet

Build ==
    /\ stage = "asked"
    /\ Builders
    /\ stage' = "built"
    /\ UNCHANGED <<wallet, job>>

(* A balance too small, a unit that is not there, a number too large.       *)
Throw ==
    /\ stage = "asked" /\ job.op # "served" /\ ~ENABLED Builders
    /\ stage' = "thrown"
    /\ UNCHANGED <<wallet, job, atoms>>

(* jsonToObject or fromServerData: any atoms at all.                        *)
Read ==
    /\ stage = "asked" /\ job.op = "served"
    /\ atoms' \in Lists(Served, MaxServed)
    /\ stage' = "built"
    /\ UNCHANGED <<wallet, job>>

-----------------------------------------------------------------------------
(* Molecule::check, hash and signature being right.                         *)
Sum(chosen(_)) == Total([i \in DOMAIN atoms |->
                            IF chosen(atoms[i]) THEN atoms[i].value ELSE 0])

(* verifyContinuId                                                          *)
HasContinuId ==
    atoms[1].token = "USER" => \E i \in DOMAIN atoms : atoms[i].isotope = "I"

Crosses(atom) == atom.isotope \in {"B", "F"}

(* verifyCrossIsotopeConservation.  Every token is in one sum.              *)
CrossConserved ==
    /\ \A i \in DOMAIN atoms : Crosses(atoms[i]) => atoms[i].owner # ""
    /\ \A i \in DOMAIN atoms : atoms[i].isotope = "F" => atoms[i].value >= 0
    /\ Sum(LAMBDA a : Crosses(a) \/ a.isotope = "V") = 0

(* A V atom is the first of its token when no atom of any isotope before it *)
(* has that token; only then is the token's sum taken.                      *)
FirstInMolecule(i) == i = 1
FirstOfToken(i) == \A j \in 1..(i - 1) : atoms[j].token # atoms[i].token

VConserved ==
    \A i \in DOMAIN atoms :
        atoms[i].isotope = "V" /\ FirstOfToken(i) =>
            Sum(LAMBDA a : a.isotope = "V" /\ a.token = atoms[i].token) = 0

(* verifyTokenIsotopeV                                                      *)
Conserved ==
    IF \E i \in DOMAIN atoms : Crosses(atoms[i]) THEN CrossConserved ELSE VConserved

Check == atoms # << >> /\ HasContinuId /\ Conserved

(* toJson names the source wallet's balance, once more through std::stoi;   *)
(* a USER wallet has none.                                                  *)
Serializes ==
    job.op \in {"create", "replenish", "meta", "wallet", "served"}
        \/ Fits(Whole(wallet.balance))

(* submitMolecule, or check alone for a molecule that was read.             *)
Submit ==
    /\ stage = "built"
    /\ stage' = IF ~Check THEN "refused"
                ELSE IF Serializes THEN "sent" ELSE "thrown"
    /\ UNCHANGED <<wallet, job, atoms>>

Next == Build \/ Throw \/ Read \/ Submit

Spec == Init /\ [][Next]_vars

-----------------------------------------------------------------------------
Own == stage \in {"built", "sent", "refused"} /\ job.op # "served"

Credited == {i \in DOMAIN atoms : atoms[i].owner = "them"}

Spends == job.op \in {"transfer", "burn", "transferMany", "deposit", "withdraw", "fuse"}

(* What the builders let through and check does not: a source of token USER *)
(* gets no ContinuID atom, a fraction of the balance is debited and never   *)
(* credited, and the change of a negative amount may overflow an int.       *)
Unsendable ==
    \/ SourceToken = "USER"
    \/ wallet.balance % 2 = 1
    \/ /\ job.op \in {"transfer", "burn"}
       /\ Whole(wallet.balance) - Whole(job.amount) > IntMax

(* The builders and check against each other: of what an operation builds,  *)
(* check refuses the molecules those three conversions spoil, and no other; *)
(* none of them is sent.                                                    *)
OwnMoleculesPass ==
    /\ stage = "refused" /\ job.op # "served" => Spends /\ Unsendable
    /\ stage = "sent" /\ Spends => ~Unsendable

(* What a client sends leaves as much of each token as it took, which the   *)
(* one sum of verifyCrossIsotopeConservation does not ask of a buffer's or  *)
(* a fusion's molecule.  The exception is withdrawBufferToken given a       *)
(* wallet of another token than it names: the change is credited as the     *)
(* token it names.                                                          *)
TokensConserved ==
    stage = "sent" /\ Spends =>
        ((\A t \in Tokens : Sum(LAMBDA a : a.token = t) = 0) <=>
            (SourceToken = job.token \/ Change(Whole(job.amount)) = 0))

(* A transfer, burn or fusion that names its units takes none from the      *)
(* source that it does not send, burn or keep, keeps none it also sends,    *)
(* and credits all it sends; what a fusion keeps is worth the units it      *)
(* keeps, unless the caller named a unit twice.                             *)
UnitsAccounted ==
    LET change   == atoms[Len(atoms)]
        named    == \/ job.op \in {"transfer", "burn"} /\ job.units # {}
                    \/ job.op = "transferMany" /\ Listed(job.recipients) # {}
                    \/ job.op = "fuse"
        credited == UNION {atoms[i].units : i \in Credited}
    IN  Own /\ named =>
        /\ atoms[1].units \cap change.units = {}
        /\ atoms[1].units \cup change.units = wallet.units
        /\ job.op \in {"transfer", "transferMany"} => credited = atoms[1].units
        /\ job.op = "fuse" /\ IsInjective(job.fused) =>
              change.value = Written(Cardinality(change.units))

(* With no B or F atom, a token none of whose atoms but V atoms are in the  *)
(* molecule is conserved when check passes: verifyTokenIsotopeV.            *)
PureTokensSound ==
    stage = "sent" /\ (\A i \in DOMAIN atoms : ~Crosses(atoms[i])) =>
        \A t \in Tokens :
            (\A i \in DOMAIN atoms : atoms[i].token = t => atoms[i].isotope = "V")
                => Sum(LAMBDA a : a.token = t) = 0

-----------------------------------------------------------------------------
(* Molecule.cpp:1547: the sum of the V values of each token is 0 in every   *)
(* molecule that passes.                                                    *)
EveryTokenSums ==
    stage = "sent" /\ (\A i \in DOMAIN atoms : ~Crosses(atoms[i])) =>
        \A t \in Tokens : Sum(LAMBDA a : a.isotope = "V" /\ a.token = t) = 0

=============================================================================
