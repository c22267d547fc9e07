--------------------------- MODULE ContinuIdProofs ---------------------------
(***************************************************************************)
(* Proofs about ContinuId.  Everything rests on where positions come from:  *)
(* a molecule credits positions no other one names, and until the validator *)
(* accepts it nothing on the ledger and no other molecule rests on them.    *)
(* So the position of a wallet determines it, an accepted molecule's source *)
(* is left for good, and a client that reads the head or the row anew never *)
(* meets a position it was told is spent.                                   *)
(***************************************************************************)
EXTENDS ContinuId, FiniteSetTheorems, TLAPS

USE ChainAssumption

(* The positions a molecule credits.                                        *)
Born(m) == {m.remainder.pos} \cup (IF m.created = None THEN {} ELSE {m.created.pos})

OnLedger == {head, row} \ {None}

(* The tokens of the wallets that sign an operation.                        *)
SourceTokens(k) ==
    IF k = "value" THEN {"TOKEN"} ELSE IF k = "login" THEN {"USER", "AUTH"} ELSE {"USER"}

(* What a molecule is made of, whatever was signed before.                  *)
Coherent(m) ==
    /\ m.source.pos \notin Born(m)
    /\ m.source.token \in SourceTokens(m.kind)
    /\ m.remainder.token = IF m.kind = "value" THEN "TOKEN" ELSE "USER"
    /\ m.remainder.ver >= m.source.ver
    /\ m.source.token = "AUTH" => m.remainder.ver = OtsVersion[m.by]
    /\ IF m.kind = "create"
       THEN m.created \in Wallets /\ m.created.token = "TOKEN" /\ m.created.pos # m.remainder.pos
       ELSE m.created = None

Built ==
    \A m \in signed :
        /\ Coherent(m) /\ m.op <= ops
        /\ m.source.pos < fresh /\ \A p \in Born(m) : p < fresh

(* What the ledger names.                                                   *)
Placed ==
    /\ head # None => head.token = "USER" /\ head.pos < fresh
    /\ row # None => row.token = "TOKEN" /\ row.pos < fresh
    /\ head # None /\ row # None => head.pos # row.pos

(* A position determines its wallet.                                        *)
OneWallet ==
    /\ \A m, n \in signed : m.source.pos = n.source.pos => m.source = n.source
    /\ \A w \in OnLedger : \A m \in signed : w.pos = m.source.pos => w = m.source

(* No two molecules credit one position.                                    *)
Distinct == \A m, n \in signed : m # n => Born(m) \cap Born(n) = {}

(* What a molecule credits is nowhere before it is accepted.                *)
Unborn ==
    \A m \in signed \ accepted :
        /\ \A n \in signed : n.source.pos \notin Born(m)
        /\ \A w \in OnLedger : w.pos \notin Born(m)

(* Accepting gives an identity its head, which it never loses, and changes  *)
(* the ledger once for an operation other than a login.                     *)
Applied ==
    /\ \A m \in accepted : m.kind # "value" => head # None
    /\ \A o \in 1..MaxOps : (\A m \in accepted : m.op # o) => effects[o] = 0
    /\ EffectOnce

Chain ==
    Built /\ Placed /\ OneWallet /\ Distinct /\ Unborn /\ NothingStranded /\ Applied

(* An operation has a number of its own and signs one molecule from a       *)
(* wallet of each token.                                                    *)
Numbered ==
    /\ \A c \in Clients : pc[c] # "idle" => op[c] \in 1..ops
    /\ \A c, d \in Clients : c # d /\ pc[c] # "idle" /\ pc[d] # "idle" => op[c] # op[d]
    /\ \A m, n \in signed : m.op = n.op =>
          m.kind = n.kind /\ (m.source.token = n.source.token => m = n)

Asking ==
    \A c \in Clients : pc[c] \in {"pointer", "head", "row"} =>
        /\ \A m \in signed : m.op # op[c]
        /\ pc[c] = FirstQuery(kind[c])

Proposed ==
    \A c \in Clients : pc[c] \in {"sent", "answered"} =>
        /\ mol[c] \in signed
        /\ mol[c].op = op[c] /\ mol[c].kind = kind[c]
        /\ mol[c].source.token = "USER" =>
              \A m \in signed : m.op = op[c] => m.source.token # "AUTH"

(* A client that is told so has its molecule on the ledger.                 *)
Told ==
    /\ \A c \in Clients : pc[c] # "answered" => verdict[c] = None
    /\ \A c \in Clients : verdict[c] = "accepted" => mol[c] \in accepted
    /\ \A c \in Clients : \A p \in confirmed[c] : \E m \in accepted : m.source.pos = p

Operations == Numbered /\ Asking /\ Proposed /\ Told

IInv == TypeOK /\ Chain /\ Operations

-----------------------------------------------------------------------------
(* Wallets and molecules.                                                   *)

LEMMA WalletParts ==
    ASSUME NEW w \in Wallets
    PROVE  /\ w.token \in {"AUTH", "USER", "TOKEN"}
           /\ w.pos \in Positions /\ w.pos \in Nat
           /\ w.ver \in {1, 2}
BY DEF Wallets, Positions

LEMMA WalletNamed ==
    ASSUME NEW w \in Wallets
    PROVE  w # None
BY DEF Wallets, Positions

LEMMA WalletMade ==
    ASSUME NEW t \in {"AUTH", "USER", "TOKEN"}, NEW p \in Positions, NEW v \in {1, 2}
    PROVE  /\ Wallet(t, p, v) \in Wallets
           /\ Wallet(t, p, v).token = t /\ Wallet(t, p, v).pos = p /\ Wallet(t, p, v).ver = v
BY DEF Wallet, Wallets

LEMMA MoleculeParts ==
    ASSUME NEW m \in Molecules
    PROVE  /\ m.by \in Clients /\ m.op \in 1..MaxOps /\ m.kind \in Kinds
           /\ m.source \in Wallets /\ m.remainder \in Wallets
           /\ m.created \in Wallets \cup {None}
BY DEF Molecules

(* The version of a successor is a version, and never below its source's.   *)
LEMMA Successor ==
    ASSUME NEW c \in Clients, NEW v \in {1, 2}
    PROVE  /\ OtsVersion[c] \in {1, 2}
           /\ SuccessorOtsVersion(c, v) \in {1, 2}
           /\ SuccessorOtsVersion(c, v) >= v
           /\ v = OtsVersion[c] => SuccessorOtsVersion(c, v) = v
<1>1. OtsVersion[c] \in {1, 2}
  OBVIOUS
<1> QED
  BY <1>1 DEF SuccessorOtsVersion

(* A new molecule credits its own positions, all from next on.              *)
LEMMA MoleculeMade ==
    ASSUME TypeOK, NEW c \in Clients, op[c] \in 1..MaxOps,
           NEW source \in Wallets, source.token \in SourceTokens(kind[c]),
           source.token = "AUTH" => source.ver = OtsVersion[c],
           NEW next \in Nat, next + 2 \in Positions, source.pos < next
    PROVE  LET m == Molecule(c, source, next) IN
           /\ m \in Molecules /\ Coherent(m)
           /\ m.by = c /\ m.op = op[c] /\ m.kind = kind[c] /\ m.source = source
           /\ \A p \in Born(m) :
                 p \in Nat /\ next <= p /\ p < IF kind[c] = "create" THEN next + 2 ELSE next + 1
<1> DEFINE m == Molecule(c, source, next)
           t == IF source.token = "TOKEN" THEN "TOKEN" ELSE "USER"
           v == SuccessorOtsVersion(c, source.ver)
           born == Wallet("TOKEN", next + 1, OtsVersion[c])
<1>1. /\ m.by = c /\ m.op = op[c] /\ m.kind = kind[c] /\ m.source = source
      /\ m.remainder = Wallet(t, next, v)
      /\ m.created = IF kind[c] = "create" THEN born ELSE None
  BY DEF Molecule, Remainder
<1>2. next \in Positions /\ next + 1 \in Positions
  BY DEF Positions
<1>3. /\ source.pos \in Nat /\ source.ver \in {1, 2}
      /\ v \in {1, 2} /\ v >= source.ver /\ OtsVersion[c] \in {1, 2}
      /\ source.ver = OtsVersion[c] => v = OtsVersion[c]
  BY WalletParts, Successor
<1>4. /\ m.remainder \in Wallets /\ m.remainder.token = t
      /\ m.remainder.pos = next /\ m.remainder.ver = v
  BY <1>1, <1>2, <1>3, WalletMade
<1>5. born \in Wallets /\ born.token = "TOKEN" /\ born.pos = next + 1
  BY <1>2, <1>3, WalletMade
<1>6. kind[c] \in Kinds
  BY DEF TypeOK
<1>7. m \in Molecules
  <2>1. m = [by |-> c, op |-> op[c], kind |-> kind[c], source |-> source,
             remainder |-> m.remainder, created |-> m.created]
    BY <1>1 DEF Molecule, Remainder
  <2>2. m.created \in Wallets \cup {None}
    BY <1>1, <1>5
  <2> HIDE DEF m
  <2> QED
    BY <1>4, <1>6, <2>1, <2>2 DEF Molecules
<1> HIDE DEF m, born, v
<1>8. ASSUME NEW p \in Born(m)
      PROVE  p \in Nat /\ next <= p /\ p < IF kind[c] = "create" THEN next + 2 ELSE next + 1
  <2>1. CASE kind[c] = "create"
    BY <1>1, <1>4, <1>5, <1>8, <2>1 DEF Born
  <2>2. CASE kind[c] # "create"
    BY <1>1, <1>4, <1>8, <2>2 DEF Born
  <2> QED
    BY <2>1, <2>2
<1>9. t = IF m.kind = "value" THEN "TOKEN" ELSE "USER"
  BY <1>1 DEF SourceTokens
<1>10. m.source.pos \notin Born(m)
  BY <1>1, <1>3, <1>8
<1>11. Coherent(m)
  BY <1>1, <1>3, <1>4, <1>5, <1>9, <1>10 DEF Coherent
<1> QED
  BY <1>1, <1>7, <1>8, <1>11 DEF m

-----------------------------------------------------------------------------
(* Proposing.                                                               *)

(* When a client may propose: from a wallet the ledger names, or from one   *)
(* of its own at a position nobody took, and for an operation that has not  *)
(* signed from a wallet of that token.                                      *)
MayPropose(c, source, random) ==
    /\ pc[c] # "idle"
    /\ source \in Wallets /\ source.token \in SourceTokens(kind[c])
    /\ source.token = "AUTH" => source.ver = OtsVersion[c]
    /\ IF random THEN source.pos = fresh ELSE source \in OnLedger
    /\ \A n \in signed : n.op = op[c] =>
          /\ n.kind = kind[c] /\ n.source.token # source.token
          /\ source.token = "USER" => n.source.token # "AUTH"

(* What proposing does: one molecule more, at positions nobody took.        *)
LEMMA Proposing ==
    ASSUME IInv, NEW c \in Clients, NEW source, NEW random \in BOOLEAN,
           MayPropose(c, source, random), Propose(c, source, random)
    PROVE  \E m \in Molecules :
              /\ Coherent(m)
              /\ m.by = c /\ m.op = op[c] /\ m.kind = kind[c] /\ m.source = source
              /\ fresh \in Nat /\ fresh' \in Positions /\ fresh < fresh'
              /\ source.pos < fresh'
              /\ \A p \in Born(m) : p \in Nat /\ fresh <= p /\ p < fresh'
              /\ signed' = signed \cup {m} /\ mol' = [mol EXCEPT ![c] = m]
              /\ inflight' = inflight \cup {[mol |-> m, copy |-> 1]}
              /\ attempt' = [attempt EXCEPT ![c] = 1]
              /\ pc' = [pc EXCEPT ![c] = "sent"]
<1> DEFINE next == IF random THEN fresh + 1 ELSE fresh
           m == Molecule(c, source, next)
<1>1. fresh \in Nat /\ ops \in 0..MaxOps
  BY DEF IInv, TypeOK, Positions
<1>2. op[c] \in 1..MaxOps
  BY <1>1 DEF IInv, Operations, Numbered, MayPropose
<1>3. /\ source \in Wallets /\ source.pos \in Nat /\ source.token \in SourceTokens(kind[c])
      /\ source.token = "AUTH" => source.ver = OtsVersion[c]
  BY WalletParts DEF MayPropose
<1>4. source.pos < next /\ next \in Nat
  <2>1. CASE random
    BY <1>1, <2>1 DEF MayPropose
  <2>2. CASE ~random
    <3>1. source \in OnLedger
      BY <2>2 DEF MayPropose
    <3>2. source.pos < fresh
      BY <3>1 DEF IInv, Chain, Placed, OnLedger
    <3> QED
      BY <1>1, <2>2, <3>2
  <2> QED
    BY <2>1, <2>2
<1>5. /\ next + 2 \in Positions
      /\ fresh' = IF kind[c] = "create" THEN next + 2 ELSE next + 1
      /\ signed' = signed \cup {m} /\ mol' = [mol EXCEPT ![c] = m]
      /\ inflight' = inflight \cup {[mol |-> m, copy |-> 1]}
      /\ attempt' = [attempt EXCEPT ![c] = 1]
      /\ pc' = [pc EXCEPT ![c] = "sent"]
  BY DEF Propose
<1>6. fresh <= next
  BY <1>1
<1> HIDE DEF next
<1>7. /\ m \in Molecules /\ Coherent(m)
      /\ m.by = c /\ m.op = op[c] /\ m.kind = kind[c] /\ m.source = source
      /\ \A p \in Born(m) :
            p \in Nat /\ next <= p /\ p < IF kind[c] = "create" THEN next + 2 ELSE next + 1
  BY <1>2, <1>3, <1>4, <1>5, MoleculeMade DEF IInv
<1> HIDE DEF m
<1>8. fresh' \in Positions /\ fresh < fresh' /\ source.pos < fresh'
  BY <1>1, <1>3, <1>4, <1>5, <1>6 DEF Positions
<1>9. \A p \in Born(m) : p \in Nat /\ fresh <= p /\ p < fresh'
  BY <1>1, <1>4, <1>5, <1>6, <1>7
<1> QED
  BY <1>1, <1>5, <1>7, <1>8, <1>9

(* The chain is no worse for a molecule that is only signed: what it        *)
(* credits is new, and it rests on the ledger or on a position of its own.  *)
LEMMA ProposeKeepsChain ==
    ASSUME IInv, NEW c \in Clients, NEW source, NEW random \in BOOLEAN,
           MayPropose(c, source, random), Propose(c, source, random),
           UNCHANGED <<ledger, call>>
    PROVE  Chain'
<1>1. PICK m \in Molecules :
         /\ Coherent(m)
         /\ m.by = c /\ m.op = op[c] /\ m.kind = kind[c] /\ m.source = source
         /\ fresh \in Nat /\ fresh' \in Positions /\ fresh < fresh'
         /\ source.pos < fresh'
         /\ \A p \in Born(m) : p \in Nat /\ fresh <= p /\ p < fresh'
         /\ signed' = signed \cup {m}
  BY Proposing
<1>2. source \in Wallets /\ source.pos \in Nat /\ fresh' \in Nat
  BY <1>1, WalletParts DEF MayPropose, Positions
<1>3. \A n \in signed : /\ n \in Molecules /\ n.source.pos \in Nat /\ n.source.pos < fresh
                        /\ \A p \in Born(n) : p \in Nat /\ p < fresh
  <2> TAKE n \in signed
  <2>1. n \in Molecules
    BY DEF IInv, TypeOK
  <2>2. n.source.pos \in Nat /\ n.remainder.pos \in Nat /\ (n.created = None \/ n.created.pos \in Nat)
    BY <2>1, MoleculeParts, WalletParts
  <2>3. n.source.pos < fresh /\ \A p \in Born(n) : p < fresh
    BY DEF IInv, Chain, Built
  <2> QED
    BY <2>1, <2>2, <2>3 DEF Born
<1>4. \A w \in OnLedger : w.pos \in Nat /\ w.pos < fresh
  <2> TAKE w \in OnLedger
  <2>1. w \in Wallets
    BY DEF OnLedger, IInv, TypeOK
  <2> QED
    BY <2>1, WalletParts DEF OnLedger, IInv, Chain, Placed
<1>5. op[c] <= ops /\ ops' = ops /\ OnLedger' = OnLedger
      /\ head' = head /\ row' = row /\ accepted' = accepted /\ effects' = effects
  BY DEF IInv, Operations, Numbered, MayPropose, ledger, call, OnLedger
<1>6. Built'
  <2> SUFFICES ASSUME NEW n \in signed'
               PROVE  /\ Coherent(n) /\ n.op <= ops'
                      /\ n.source.pos < fresh' /\ \A p \in Born(n) : p < fresh'
    BY DEF Built
  <2>1. CASE n = m
    BY <1>1, <1>5, <2>1
  <2>2. CASE n \in signed
    <3>1. Coherent(n) /\ n.op <= ops
      BY <2>2 DEF IInv, Chain, Built
    <3> QED
      BY <1>1, <1>2, <1>3, <1>5, <2>2, <3>1
  <2> QED
    BY <1>1, <2>1, <2>2
<1>7. Placed'
  <2>1. head # None => head.pos \in Nat /\ head.pos < fresh'
    BY <1>1, <1>2, <1>4 DEF OnLedger
  <2>2. row # None => row.pos \in Nat /\ row.pos < fresh'
    BY <1>1, <1>2, <1>4 DEF OnLedger
  <2> QED
    BY <1>5, <2>1, <2>2 DEF IInv, Chain, Placed
<1>8. \A n \in signed : n.source.pos = source.pos => n.source = source
  <2>1. CASE random
    BY <1>1, <1>3, <2>1 DEF MayPropose
  <2>2. CASE ~random
    BY <2>2 DEF MayPropose, IInv, Chain, OneWallet
  <2> QED
    BY <2>1, <2>2
<1>9. \A w \in OnLedger : w.pos = source.pos => w = source
  <2>1. CASE random
    BY <1>1, <1>4, <2>1 DEF MayPropose
  <2>2. CASE ~random
    BY <2>2 DEF MayPropose, IInv, Chain, Placed, OnLedger
  <2> QED
    BY <2>1, <2>2
<1>10. OneWallet'
  <2>1. \A k, n \in signed' : k.source.pos = n.source.pos => k.source = n.source
    BY <1>1, <1>8 DEF IInv, Chain, OneWallet
  <2>2. \A w \in OnLedger' : \A n \in signed' : w.pos = n.source.pos => w = n.source
    BY <1>1, <1>5, <1>9 DEF IInv, Chain, OneWallet
  <2> QED
    BY <2>1, <2>2 DEF OneWallet
<1>11. \A n \in signed : Born(m) \cap Born(n) = {}
  BY <1>1, <1>3
<1>12. Distinct'
  BY <1>1, <1>11 DEF IInv, Chain, Distinct
<1>13. \A n \in signed \ accepted : source.pos \notin Born(n)
  <2>1. CASE random
    BY <1>1, <1>3, <2>1 DEF MayPropose
  <2>2. CASE ~random
    BY <2>2 DEF MayPropose, IInv, Chain, Unborn
  <2> QED
    BY <2>1, <2>2
<1>14. Unborn'
  <2> SUFFICES ASSUME NEW n \in signed' \ accepted'
               PROVE  /\ \A k \in signed' : k.source.pos \notin Born(n)
                      /\ \A w \in OnLedger' : w.pos \notin Born(n)
    BY DEF Unborn
  <2>1. CASE n = m
    <3>1. m.source.pos \notin Born(m)
      BY <1>1 DEF Coherent
    <3> QED
      BY <1>1, <1>3, <1>4, <1>5, <2>1, <3>1
  <2>2. CASE n \in signed
    <3>1. n \in signed \ accepted
      BY <1>5, <2>2
    <3> QED
      BY <1>1, <1>5, <1>13, <3>1 DEF IInv, Chain, Unborn
  <2> QED
    BY <1>1, <2>1, <2>2
<1>15. NothingStranded' /\ Applied'
  BY <1>5 DEF IInv, Chain, NothingStranded, Applied, EffectOnce
<1> QED
  BY <1>6, <1>7, <1>10, <1>12, <1>14, <1>15 DEF Chain

(* So are types and operations; the verdict of the copy before is dropped.  *)
LEMMA ProposeKeepsOperations ==
    ASSUME IInv, NEW c \in Clients, NEW source, NEW random \in BOOLEAN,
           MayPropose(c, source, random), Propose(c, source, random),
           UNCHANGED <<ledger, call, session, confirmed>>,
           verdict' = [verdict EXCEPT ![c] = None]
    PROVE  TypeOK' /\ Operations'
<1>1. PICK m \in Molecules :
         /\ m.by = c /\ m.op = op[c] /\ m.kind = kind[c] /\ m.source = source
         /\ fresh' \in Positions
         /\ signed' = signed \cup {m} /\ mol' = [mol EXCEPT ![c] = m]
         /\ inflight' = inflight \cup {[mol |-> m, copy |-> 1]}
         /\ attempt' = [attempt EXCEPT ![c] = 1]
         /\ pc' = [pc EXCEPT ![c] = "sent"]
  BY Proposing
<1>2. /\ UNCHANGED <<head, row, accepted, effects, kind, op, ops, session, confirmed>>
  BY DEF ledger, call
<1>3. 1 \in 1..MaxSends
  OBVIOUS
<1>4. TypeOK'
  <2>1. inflight' \subseteq [mol : signed', copy : 1..MaxSends]
    BY <1>1, <1>3 DEF IInv, TypeOK
  <2>2. pc' \in [Clients -> {"idle", "pointer", "head", "row", "sent", "answered"}]
    BY <1>1 DEF IInv, TypeOK
  <2>3. attempt' \in [Clients -> 0..MaxSends]
    BY <1>1, <1>3 DEF IInv, TypeOK
  <2>4. mol' \in [Clients -> signed' \cup {None}]
    BY <1>1 DEF IInv, TypeOK
  <2>5. signed' \subseteq Molecules /\ accepted' \subseteq signed'
    BY <1>1, <1>2 DEF IInv, TypeOK
  <2>6. verdict' \in [Clients -> Verdicts \cup {None}]
    BY DEF IInv, TypeOK
  <2> QED
    BY <1>1, <1>2, <2>1, <2>2, <2>3, <2>4, <2>5, <2>6 DEF IInv, TypeOK
<1>5. pc \in [Clients -> {"idle", "pointer", "head", "row", "sent", "answered"}]
      /\ mol \in [Clients -> signed \cup {None}]
      /\ verdict \in [Clients -> Verdicts \cup {None}]
  BY DEF IInv, TypeOK
<1>6. /\ pc'[c] = "sent" /\ mol'[c] = m /\ verdict'[c] = None
      /\ \A d \in Clients \ {c} : pc'[d] = pc[d] /\ mol'[d] = mol[d] /\ verdict'[d] = verdict[d]
  BY <1>1, <1>5
<1>7. \A d \in Clients \ {c} : pc[d] # "idle" => op[d] # m.op
  BY <1>1 DEF MayPropose, IInv, Operations, Numbered
<1>8. Numbered'
  <2>1. \A d \in Clients : pc'[d] # "idle" => pc[d] # "idle"
    BY <1>6 DEF MayPropose
  <2>2. \A k, n \in signed' : k.op = n.op =>
           k.kind = n.kind /\ (k.source.token = n.source.token => k = n)
    BY <1>1 DEF MayPropose, IInv, Operations, Numbered
  <2> QED
    BY <1>2, <2>1, <2>2 DEF IInv, Operations, Numbered
<1>9. Asking'
  BY <1>1, <1>2, <1>6, <1>7 DEF IInv, Operations, Asking
<1>10. Proposed'
  <2> SUFFICES ASSUME NEW d \in Clients, pc'[d] \in {"sent", "answered"}
               PROVE  /\ mol'[d] \in signed'
                      /\ mol'[d].op = op'[d] /\ mol'[d].kind = kind'[d]
                      /\ mol'[d].source.token = "USER" =>
                            \A n \in signed' : n.op = op'[d] => n.source.token # "AUTH"
    BY DEF Proposed
  <2>1. CASE d = c
    BY <1>1, <1>2, <1>6, <2>1 DEF MayPropose
  <2>2. CASE d # c
    BY <1>1, <1>2, <1>6, <1>7, <2>2 DEF IInv, Operations, Proposed
  <2> QED
    BY <2>1, <2>2
<1>11. Told'
  BY <1>2, <1>6 DEF IInv, Operations, Told
<1> QED
  BY <1>4, <1>8, <1>9, <1>10, <1>11 DEF Operations

-----------------------------------------------------------------------------
(* Steps that sign nothing and that the ledger does not see.                *)

LEMMA ChainStands ==
    ASSUME IInv, UNCHANGED <<ledger, fresh, signed>>, ops' >= ops, ops' \in Nat
    PROVE  Chain'
<1>1. \A m \in signed : m.op \in Nat
  BY MoleculeParts DEF IInv, TypeOK
<1>2. ops \in Nat
  BY DEF IInv, TypeOK
<1> QED
  BY <1>1, <1>2 DEF ledger, IInv, Chain, Built, Placed, OneWallet, Distinct, Unborn,
                    NothingStranded, Applied, EffectOnce, OnLedger

LEMMA BeginKeeps ==
    ASSUME IInv, NEW c \in Clients, NEW k \in Kinds, Begin(c, k)
    PROVE  IInv'
<1>1. /\ pc[c] = "idle" /\ ops < MaxOps /\ ops \in Nat
      /\ ops' = ops + 1
      /\ kind' = [kind EXCEPT ![c] = k]
      /\ op' = [op EXCEPT ![c] = ops + 1]
      /\ pc' = [pc EXCEPT ![c] = FirstQuery(k)]
      /\ UNCHANGED <<head, row, accepted, effects, inflight, fresh, mol, attempt, signed,
                     verdict, session, confirmed>>
  BY DEF Begin, ledger, send, IInv, TypeOK
<1>2. FirstQuery(k) \in {"pointer", "head", "row"}
  BY DEF FirstQuery, Kinds
<1>3. ops + 1 \in 1..MaxOps
  BY <1>1
<1>4. TypeOK'
  <2>1. pc' \in [Clients -> {"idle", "pointer", "head", "row", "sent", "answered"}]
    BY <1>1, <1>2 DEF IInv, TypeOK
  <2>2. kind' \in [Clients -> Kinds] /\ op' \in [Clients -> 0..MaxOps] /\ ops' \in 0..MaxOps
    BY <1>1, <1>3 DEF IInv, TypeOK
  <2> QED
    BY <1>1, <2>1, <2>2 DEF IInv, TypeOK
<1>5. Chain'
  BY <1>1, ChainStands DEF ledger
<1>6. /\ pc'[c] = FirstQuery(k) /\ op'[c] = ops + 1 /\ kind'[c] = k
      /\ \A d \in Clients \ {c} : pc'[d] = pc[d] /\ op'[d] = op[d] /\ kind'[d] = kind[d]
  BY <1>1 DEF IInv, TypeOK
<1>7. \A m \in signed : m.op \in Nat /\ m.op <= ops
  BY MoleculeParts DEF IInv, TypeOK, Chain, Built
<1>8. Numbered'
  <2>1. \A d \in Clients \ {c} : pc[d] # "idle" => op[d] \in 1..ops
    BY DEF IInv, Operations, Numbered
  <2>2. \A d \in Clients : pc'[d] # "idle" => op'[d] \in 1..ops'
    BY <1>1, <1>6, <2>1
  <2>3. \A d, e \in Clients : d # e /\ pc'[d] # "idle" /\ pc'[e] # "idle" => op'[d] # op'[e]
    BY <1>1, <1>6, <2>1 DEF IInv, Operations, Numbered
  <2> QED
    BY <1>1, <2>2, <2>3 DEF IInv, Operations, Numbered
<1>9. Asking'
  BY <1>1, <1>6, <1>7 DEF IInv, Operations, Asking
<1>10. Proposed' /\ Told'
  BY <1>1, <1>2, <1>6 DEF IInv, Operations, Proposed, Told
<1> QED
  BY <1>4, <1>5, <1>8, <1>9, <1>10 DEF IInv, Operations

(* An operation ends, and what it was told is noted.                        *)
LEMMA RespondKeeps ==
    ASSUME IInv, NEW c \in Clients, Respond(c),
           session' \in [Clients -> BOOLEAN],
           confirmed' = confirmed \/ Learn(c)
    PROVE  IInv'
<1>1. /\ pc' = [pc EXCEPT ![c] = "idle"]
      /\ kind' = [kind EXCEPT ![c] = "login"]
      /\ op' = [op EXCEPT ![c] = 0]
      /\ mol' = [mol EXCEPT ![c] = None]
      /\ attempt' = [attempt EXCEPT ![c] = 0]
      /\ verdict' = [verdict EXCEPT ![c] = None]
      /\ UNCHANGED <<head, row, accepted, effects, inflight, fresh, signed, ops>>
  BY DEF Respond, ledger
<1>2. /\ confirmed' \in [Clients -> SUBSET Positions]
      /\ \A d \in Clients : \A p \in confirmed'[d] : \E m \in accepted : m.source.pos = p
  <2>1. CASE verdict[c] = "accepted" /\ Learn(c)
    <3>1. mol[c] \in accepted /\ confirmed' = [confirmed EXCEPT ![c] = @ \cup {mol[c].source.pos}]
      BY <2>1 DEF Learn, IInv, Operations, Told
    <3>2. mol[c].source.pos \in Positions
      BY <3>1, MoleculeParts, WalletParts DEF IInv, TypeOK
    <3> QED
      BY <3>1, <3>2 DEF IInv, TypeOK, Operations, Told
  <2>2. CASE confirmed' = confirmed
    BY <2>2 DEF IInv, TypeOK, Operations, Told
  <2> QED
    BY <2>1, <2>2 DEF Learn
<1>3. "login" \in Kinds
  BY DEF Kinds
<1>4. TypeOK'
  <2>1. pc' \in [Clients -> {"idle", "pointer", "head", "row", "sent", "answered"}]
    BY <1>1 DEF IInv, TypeOK
  <2>2. kind' \in [Clients -> Kinds] /\ op' \in [Clients -> 0..MaxOps]
    BY <1>1, <1>3 DEF IInv, TypeOK
  <2>3. mol' \in [Clients -> signed \cup {None}] /\ attempt' \in [Clients -> 0..MaxSends]
    BY <1>1 DEF IInv, TypeOK
  <2>4. verdict' \in [Clients -> Verdicts \cup {None}]
    BY <1>1 DEF IInv, TypeOK
  <2> QED
    BY <1>1, <1>2, <2>1, <2>2, <2>3, <2>4 DEF IInv, TypeOK
<1>5. Chain'
  <2>1. ops \in Nat
    BY DEF IInv, TypeOK
  <2> QED
    BY <1>1, <2>1, ChainStands DEF ledger
<1>6. /\ pc'[c] = "idle" /\ verdict'[c] = None
      /\ \A d \in Clients \ {c} : /\ pc'[d] = pc[d] /\ op'[d] = op[d] /\ kind'[d] = kind[d]
                                  /\ mol'[d] = mol[d] /\ verdict'[d] = verdict[d]
  BY <1>1 DEF IInv, TypeOK
<1>7. Numbered' /\ Asking'
  BY <1>1, <1>6 DEF IInv, Operations, Numbered, Asking
<1>8. Proposed'
  BY <1>1, <1>6 DEF IInv, Operations, Proposed
<1>9. Told'
  BY <1>1, <1>2, <1>6 DEF IInv, Operations, Told
<1> QED
  BY <1>4, <1>5, <1>7, <1>8, <1>9 DEF IInv, Operations

LEMMA ResendKeeps ==
    ASSUME IInv, NEW c \in Clients, Resend(c)
    PROVE  IInv'
<1>1. /\ pc[c] = "sent" /\ attempt[c] < MaxSends
      /\ attempt' = [attempt EXCEPT ![c] = attempt[c] + 1]
      /\ inflight' = inflight \cup {[mol |-> mol[c], copy |-> attempt[c] + 1]}
      /\ UNCHANGED <<head, row, accepted, effects, kind, op, ops, fresh, pc, mol, verdict,
                     session, signed, confirmed>>
  BY DEF Resend, ledger, call
<1>2. mol[c] \in signed
  BY <1>1 DEF IInv, Operations, Proposed
<1>3. attempt[c] + 1 \in 1..MaxSends
  BY <1>1 DEF IInv, TypeOK
<1>4. TypeOK'
  <2>1. attempt' \in [Clients -> 0..MaxSends]
    BY <1>1, <1>3 DEF IInv, TypeOK
  <2>2. inflight' \subseteq [mol : signed, copy : 1..MaxSends]
    BY <1>1, <1>2, <1>3 DEF IInv, TypeOK
  <2> QED
    BY <1>1, <2>1, <2>2 DEF IInv, TypeOK
<1>5. Chain'
  <2>1. ops \in Nat
    BY DEF IInv, TypeOK
  <2> QED
    BY <1>1, <2>1, ChainStands DEF ledger
<1>6. Operations'
  BY <1>1 DEF IInv, Operations, Numbered, Asking, Proposed, Told
<1> QED
  BY <1>4, <1>5, <1>6 DEF IInv

-----------------------------------------------------------------------------
(* The validator.                                                           *)

(* A copy of a molecule that was applied rests on a position the ledger has *)
(* left, and one from an AUTH wallet is remembered: neither is accepted.    *)
LEMMA NotTwice ==
    ASSUME IInv, NEW m \in signed, Acceptable(m)
    PROVE  m \notin accepted
<1> SUFFICES ASSUME m \in accepted PROVE FALSE
  OBVIOUS
<1>1. \A w \in OnLedger : w.pos # m.source.pos
  BY DEF IInv, Chain, NothingStranded, OnLedger
<1>2. /\ m.source.token \in SourceTokens(m.kind) /\ m.kind \in Kinds
      /\ m.kind # "value" => head # None
  BY MoleculeParts DEF IInv, TypeOK, Chain, Built, Coherent, Applied
<1>3. CASE m.source.token = "AUTH"
  BY <1>3 DEF Acceptable
<1>4. CASE m.source.token = "USER"
  <2>1. head # None /\ head.pos = m.source.pos
    BY <1>2, <1>4 DEF SourceTokens, Acceptable
  <2> QED
    BY <1>1, <2>1 DEF OnLedger
<1>5. CASE m.source.token = "TOKEN"
  <2>1. row # None /\ row.pos = m.source.pos
    BY <1>5 DEF Acceptable
  <2> QED
    BY <1>1, <2>1 DEF OnLedger
<1> QED
  BY <1>2, <1>3, <1>4, <1>5 DEF SourceTokens

(* Only one molecule of an operation other than a login was ever signed.    *)
LEMMA OneMolecule ==
    ASSUME IInv, NEW m \in signed, NEW n \in signed, m.op = n.op, m.kind # "login"
    PROVE  m = n
<1>1. m.kind = n.kind
  BY DEF IInv, Operations, Numbered
<1>2. m.source.token = n.source.token
  BY <1>1 DEF IInv, Chain, Built, Coherent, SourceTokens
<1> QED
  BY <1>2 DEF IInv, Operations, Numbered

(* Acceptance puts on the ledger only what the molecule credits, and what   *)
(* stays there is not of the token that signed.                             *)
LEMMA Applying ==
    ASSUME IInv, NEW m \in signed, Acceptable(m), Apply(m), UNCHANGED <<fresh, signed, ops>>
    PROVE  /\ Chain' /\ {head', row'} \subseteq Wallets \cup {None}
           /\ effects' \in [1..MaxOps -> Nat]
           /\ accepted' = accepted \cup {m}
<1>1. /\ m \in signed \ accepted /\ accepted' = accepted \cup {m} /\ accepted \subseteq signed
      /\ head' = IF m.kind = "value" THEN head ELSE m.remainder
      /\ row' = IF m.kind = "value" THEN m.remainder
                ELSE IF m.kind = "create" THEN m.created ELSE row
  BY NotTwice DEF Apply, IInv, TypeOK
<1>2. m \in Molecules /\ m.kind \in Kinds /\ m.remainder \in Wallets
  BY MoleculeParts DEF IInv, TypeOK
<1>3. /\ Coherent(m) /\ m.remainder.pos \in Born(m)
      /\ m.kind = "create" => /\ m.created \in Wallets /\ m.created.token = "TOKEN"
                              /\ m.created = None \/ m.created.pos \in Born(m)
                              /\ m.created.pos # m.remainder.pos
  BY DEF IInv, Chain, Built, Coherent, Born
<1>4. /\ \A n \in signed : n.source.pos \notin Born(m)
      /\ \A w \in OnLedger : w.pos \notin Born(m)
      /\ \A p \in Born(m) : p < fresh
  BY <1>1 DEF IInv, Chain, Unborn, Built
<1>5. /\ head # None => head \in OnLedger /\ head \in Wallets /\ head.token = "USER"
      /\ row # None => row \in OnLedger /\ row \in Wallets /\ row.token = "TOKEN"
  BY DEF IInv, TypeOK, Chain, Placed, OnLedger
<1>6. \A w \in OnLedger' :
         /\ w \in Wallets
         /\ \/ w.pos \in Born(m)
            \/ w \in OnLedger /\ w.token \notin SourceTokens(m.kind)
  <2>1. CASE m.kind = "value"
    BY <1>1, <1>2, <1>3, <1>5, <2>1 DEF OnLedger, SourceTokens
  <2>2. CASE m.kind = "create"
    BY <1>1, <1>2, <1>3, <2>2 DEF OnLedger
  <2>3. CASE m.kind \in {"login", "user"}
    BY <1>1, <1>2, <1>3, <1>5, <2>3 DEF OnLedger, SourceTokens
  <2> QED
    BY <1>2, <2>1, <2>2, <2>3 DEF Kinds
<1>7. Built' /\ Distinct'
  BY DEF IInv, Chain, Built, Distinct
<1>8. Placed'
  <2>1. m.remainder.token = IF m.kind = "value" THEN "TOKEN" ELSE "USER"
    BY <1>3 DEF Coherent
  <2>2. CASE m.kind = "value"
    BY <1>1, <1>3, <1>4, <1>5, <2>1, <2>2 DEF IInv, Chain, Placed
  <2>3. CASE m.kind = "create"
    BY <1>1, <1>3, <1>4, <2>1, <2>3 DEF Placed
  <2>4. CASE m.kind \notin {"value", "create"}
    BY <1>1, <1>3, <1>4, <1>5, <2>1, <2>4 DEF IInv, Chain, Placed
  <2> QED
    BY <2>2, <2>3, <2>4
<1>9. OneWallet'
  <2>1. \A w \in OnLedger' : \A n \in signed : w.pos = n.source.pos => w = n.source
    BY <1>4, <1>6 DEF IInv, Chain, OneWallet
  <2> QED
    BY <2>1 DEF IInv, Chain, OneWallet
<1>10. Unborn'
  <2> SUFFICES ASSUME NEW n \in signed \ accepted, n # m
               PROVE  /\ \A k \in signed : k.source.pos \notin Born(n)
                      /\ \A w \in OnLedger' : w.pos \notin Born(n)
    BY <1>1 DEF Unborn
  <2>1. Born(m) \cap Born(n) = {}
    BY DEF IInv, Chain, Distinct
  <2> QED
    BY <1>6, <2>1 DEF IInv, Chain, Unborn
<1>11. \A n \in accepted' : \A w \in OnLedger' : w.pos # n.source.pos
  <2> SUFFICES ASSUME NEW n \in accepted', NEW w \in OnLedger', w.pos = n.source.pos
               PROVE  FALSE
    OBVIOUS
  <2>1. n \in signed
    BY <1>1
  <2>2. w \in OnLedger /\ w.token \notin SourceTokens(m.kind)
    BY <1>4, <1>6, <2>1
  <2>3. CASE n = m
    BY <1>3, <2>2, <2>3 DEF Coherent, IInv, Chain, OneWallet
  <2>4. CASE n \in accepted
    BY <2>2, <2>4 DEF IInv, Chain, NothingStranded, OnLedger
  <2> QED
    BY <1>1, <2>3, <2>4
<1>12. NothingStranded'
  BY <1>11 DEF NothingStranded, OnLedger
<1>13. {head', row'} \subseteq Wallets \cup {None}
  BY <1>6 DEF OnLedger
<1>14. /\ m.op \in 1..MaxOps /\ effects \in [1..MaxOps -> Nat]
       /\ effects' = [effects EXCEPT ![m.op] = effects[m.op] + 1]
  BY <1>2, MoleculeParts DEF Apply, IInv, TypeOK
<1>15. Applied'
  <2>1. \A n \in accepted' : n.kind # "value" => head' # None
    <3>1. m.kind # "value" => head' # None
      BY <1>1, <1>2, WalletNamed
    <3>2. head # None => head' # None
      BY <1>1, <1>2, WalletNamed
    <3> QED
      BY <1>1, <3>1, <3>2 DEF IInv, Chain, Applied
  <2>2. ASSUME NEW o \in 1..MaxOps, \A n \in accepted' : n.op # o
        PROVE  effects'[o] = 0
    <3>1. o # m.op /\ \A n \in accepted : n.op # o
      BY <1>1, <2>2
    <3> QED
      BY <1>14, <3>1 DEF IInv, Chain, Applied
  <2>3. ASSUME NEW n \in accepted', n.kind # "login"
        PROVE  effects'[n.op] = 1
    <3>1. n \in signed /\ n.op \in 1..MaxOps
      BY <1>1, MoleculeParts DEF IInv, TypeOK
    <3>2. CASE n = m
      <4>1. \A k \in accepted : k.op # m.op
        BY <1>1, <2>3, <3>2, OneMolecule
      <4>2. effects[m.op] = 0
        BY <1>14, <4>1 DEF IInv, Chain, Applied
      <4> QED
        BY <1>14, <3>2, <4>2
    <3>3. CASE n # m
      <4>1. n \in accepted /\ n.op # m.op
        BY <1>1, <2>3, <3>1, <3>3, OneMolecule
      <4>2. effects[n.op] = 1
        BY <2>3, <4>1 DEF IInv, Chain, Applied, EffectOnce
      <4> QED
        BY <1>14, <3>1, <4>1, <4>2
    <3> QED
      BY <3>2, <3>3
  <2> QED
    BY <2>1, <2>2, <2>3 DEF Applied, EffectOnce
<1>16. effects' \in [1..MaxOps -> Nat]
  BY <1>14
<1> QED
  BY <1>1, <1>7, <1>8, <1>9, <1>10, <1>12, <1>13, <1>15, <1>16 DEF Chain

(* What a delivery does to the client: at most it answers a waiting one,    *)
(* with an acceptance only of a molecule that is on the ledger now.         *)
LEMMA Delivering ==
    ASSUME IInv, NEW p \in inflight, Deliver(p)
    PROVE  /\ p.mol \in signed /\ inflight' = inflight \ {p}
           /\ UNCHANGED <<kind, op, ops, fresh, mol, attempt, session, signed, confirmed>>
           /\ \/ UNCHANGED <<head, row, accepted, effects>>
              \/ Acceptable(p.mol) /\ Apply(p.mol)
           /\ \/ UNCHANGED <<pc, verdict>>
              \/ \E c \in Clients, v \in Verdicts :
                    /\ pc[c] = "sent" /\ pc' = [pc EXCEPT ![c] = "answered"]
                    /\ verdict' = [verdict EXCEPT ![c] = v]
                    /\ v = "accepted" => mol[c] = p.mol /\ Apply(p.mol)
<1>1. p.mol \in signed /\ p.mol.by \in Clients
  BY MoleculeParts DEF IInv, TypeOK
<1>2. PICK admitted \in BOOLEAN, told \in BOOLEAN, known \in BOOLEAN :
         LET m == p.mol
             c == m.by
             ok == Acceptable(m) /\ admitted
             waited == pc[c] = "sent" /\ mol[c] = m /\ attempt[c] = p.copy
         IN  /\ inflight' = inflight \ {p}
             /\ IF ok THEN Apply(m) ELSE UNCHANGED ledger
             /\ IF waited /\ told
                THEN /\ pc' = [pc EXCEPT ![c] = "answered"]
                     /\ verdict' = [verdict EXCEPT ![c] =
                           CASE ~known -> "unclear"
                             [] known /\ ok -> "accepted"
                             [] OTHER -> "rejected"]
                ELSE known /\ UNCHANGED <<pc, verdict>>
             /\ UNCHANGED <<call, fresh, mol, attempt, session, signed, confirmed>>
  BY Zenon DEF Deliver
<1> DEFINE c == p.mol.by
           ok == Acceptable(p.mol) /\ admitted
           waited == pc[c] = "sent" /\ mol[c] = p.mol /\ attempt[c] = p.copy
           v == CASE ~known -> "unclear"
                  [] known /\ ok -> "accepted"
                  [] OTHER -> "rejected"
<1>3. /\ inflight' = inflight \ {p}
      /\ UNCHANGED <<kind, op, ops, fresh, mol, attempt, session, signed, confirmed>>
  BY <1>2 DEF call
<1>4. IF ok THEN Apply(p.mol) ELSE UNCHANGED <<head, row, accepted, effects>>
  BY <1>2 DEF ledger
<1>5. v \in Verdicts /\ (v = "accepted" => ok)
  BY DEF Verdicts
<1>6. IF waited /\ told
      THEN pc' = [pc EXCEPT ![c] = "answered"] /\ verdict' = [verdict EXCEPT ![c] = v]
      ELSE UNCHANGED <<pc, verdict>>
  BY <1>2
<1>7. c \in Clients
  BY <1>1
<1> HIDE DEF v, c
<1> QED
  BY <1>1, <1>3, <1>4, <1>5, <1>6, <1>7

LEMMA DeliverKeeps ==
    ASSUME IInv, NEW p \in inflight, Deliver(p)
    PROVE  IInv'
<1>1. /\ p.mol \in signed /\ inflight' = inflight \ {p}
      /\ UNCHANGED <<kind, op, ops, fresh, mol, attempt, session, signed, confirmed>>
      /\ \/ UNCHANGED <<head, row, accepted, effects>>
         \/ Acceptable(p.mol) /\ Apply(p.mol)
  BY Delivering
<1>2. \/ UNCHANGED <<pc, verdict>>
      \/ \E c \in Clients, v \in Verdicts :
            /\ pc[c] = "sent" /\ pc' = [pc EXCEPT ![c] = "answered"]
            /\ verdict' = [verdict EXCEPT ![c] = v]
            /\ v = "accepted" => mol[c] = p.mol /\ Apply(p.mol)
  BY Delivering
<1>3. /\ Chain' /\ {head', row'} \subseteq Wallets \cup {None}
      /\ effects' \in [1..MaxOps -> Nat]
      /\ accepted \subseteq accepted' /\ accepted' \subseteq signed
      /\ Apply(p.mol) => p.mol \in accepted'
  <2>1. CASE Acceptable(p.mol) /\ Apply(p.mol)
    BY <1>1, <2>1, Applying DEF IInv, TypeOK
  <2>2. CASE UNCHANGED <<head, row, accepted, effects>>
    <3>1. Chain'
      BY <1>1, <2>2, ChainStands DEF ledger, IInv, TypeOK
    <3>2. Apply(p.mol) => p.mol \in accepted'
      BY DEF Apply
    <3> QED
      BY <2>2, <3>1, <3>2 DEF IInv, TypeOK
  <2> QED
    BY <1>1, <2>1, <2>2
<1>4. /\ pc' \in [Clients -> {"idle", "pointer", "head", "row", "sent", "answered"}]
      /\ verdict' \in [Clients -> Verdicts \cup {None}]
  <2>1. CASE UNCHANGED <<pc, verdict>>
    BY <2>1 DEF IInv, TypeOK
  <2>2. ASSUME NEW c \in Clients, NEW v \in Verdicts,
               pc' = [pc EXCEPT ![c] = "answered"], verdict' = [verdict EXCEPT ![c] = v]
        PROVE  /\ pc' \in [Clients -> {"idle", "pointer", "head", "row", "sent", "answered"}]
               /\ verdict' \in [Clients -> Verdicts \cup {None}]
    BY <2>2 DEF IInv, TypeOK
  <2> QED
    BY <1>2, <2>1, <2>2
<1>5. TypeOK'
  BY <1>1, <1>3, <1>4 DEF IInv, TypeOK
<1>6. \A d \in Clients :
         \/ pc'[d] = pc[d] /\ verdict'[d] = verdict[d]
         \/ /\ pc[d] = "sent" /\ pc'[d] = "answered"
            /\ verdict'[d] = "accepted" => mol[d] \in accepted'
  BY <1>2, <1>3 DEF IInv, TypeOK
<1>7. Numbered'
  BY <1>1, <1>6 DEF IInv, Operations, Numbered
<1>8. Asking' /\ Proposed'
  BY <1>1, <1>6 DEF IInv, Operations, Asking, Proposed
<1>9. Told'
  BY <1>1, <1>3, <1>6 DEF IInv, Operations, Told
<1> QED
  BY <1>3, <1>5, <1>7, <1>8, <1>9 DEF IInv, Operations

-----------------------------------------------------------------------------
(* The steps that sign: each signs from a wallet it may propose from.       *)

(* What a step signs, it signs where no answer said the position is spent.  *)
Unspent == \A m \in signed' \ signed : m.source.pos \notin confirmed[m.by]

LEMMA ProposeKeeps ==
    ASSUME IInv, NEW c \in Clients, NEW source, NEW random \in BOOLEAN,
           MayPropose(c, source, random), Propose(c, source, random),
           UNCHANGED <<ledger, call, session, confirmed>>,
           verdict' = [verdict EXCEPT ![c] = None]
    PROVE  IInv' /\ Unspent
<1>1. IInv'
  BY ProposeKeepsChain, ProposeKeepsOperations DEF IInv
<1>2. PICK m \in Molecules :
         /\ m.by = c /\ m.source = source /\ signed' = signed \cup {m}
         /\ fresh \in Nat
  BY Proposing
<1>3. \A n \in accepted : n.source.pos # source.pos
  <2>1. \A n \in accepted : n \in signed /\ n.source.pos < fresh
    BY DEF IInv, TypeOK, Chain, Built
  <2>2. CASE random
    BY <1>2, <2>1, <2>2 DEF MayPropose
  <2>3. CASE ~random
    BY <2>3 DEF MayPropose, IInv, Chain, NothingStranded, OnLedger
  <2> QED
    BY <2>2, <2>3
<1>4. source.pos \notin confirmed[c]
  BY <1>3 DEF IInv, Operations, Told
<1> QED
  BY <1>1, <1>2, <1>4 DEF Unspent

(* A client that has asked and not yet signed.                              *)
LEMMA FirstProposal ==
    ASSUME IInv, NEW c \in Clients, NEW source \in Wallets, NEW random \in BOOLEAN,
           pc[c] \in {"pointer", "head", "row"},
           source.token \in SourceTokens(kind[c]),
           source.token = "AUTH" => source.ver = OtsVersion[c],
           IF random THEN source.pos = fresh ELSE source \in OnLedger,
           Propose(c, source, random),
           UNCHANGED <<ledger, call, verdict, session, confirmed>>
    PROVE  IInv' /\ Unspent
<1>1. MayPropose(c, source, random)
  BY DEF MayPropose, IInv, Operations, Asking
<1>2. verdict' = [verdict EXCEPT ![c] = None]
  <2>1. verdict[c] = None
    BY DEF IInv, Operations, Told
  <2>2. verdict = [d \in Clients |-> verdict[d]]
    BY DEF IInv, TypeOK
  <2>3. QED BY <2>1, <2>2
<1> QED
  BY <1>1, <1>2, ProposeKeeps

LEMMA Guessed ==
    ASSUME IInv, NEW c \in Clients, NEW token \in {"AUTH", "USER"}
    PROVE  /\ Guess(c, token) \in Wallets
           /\ Guess(c, token).token = token /\ Guess(c, token).pos = fresh
           /\ Guess(c, token).ver = OtsVersion[c]
<1>1. fresh \in Positions /\ OtsVersion[c] \in {1, 2}
  BY DEF IInv, TypeOK
<1> QED
  BY <1>1, WalletMade DEF Guess

LEMMA Headed ==
    ASSUME IInv, head # None
    PROVE  head \in Wallets /\ head \in OnLedger /\ head.token = "USER"
BY DEF IInv, TypeOK, Chain, Placed, OnLedger

LEMMA PointerKeeps ==
    ASSUME IInv, NEW c \in Clients, PointerAnswered(c)
    PROVE  IInv' /\ Unspent
<1>1. pc[c] = "pointer" /\ UNCHANGED <<ledger, call, verdict, session, confirmed>>
  BY DEF PointerAnswered
<1>2. SourceTokens(kind[c]) = {"USER", "AUTH"}
  BY <1>1 DEF IInv, TypeOK, Operations, Asking, FirstQuery, Kinds, SourceTokens
<1>3. CASE head = None
  <2>1. Propose(c, Guess(c, "AUTH"), TRUE)
    BY <1>3 DEF PointerAnswered
  <2> QED
    BY <1>1, <1>2, <2>1, Guessed, FirstProposal
<1>4. CASE head # None
  <2>1. Propose(c, head, FALSE)
    BY <1>4 DEF PointerAnswered
  <2> QED
    BY <1>1, <1>2, <1>4, <2>1, Headed, FirstProposal
<1> QED
  BY <1>3, <1>4

LEMMA HeadKeeps ==
    ASSUME IInv, NEW c \in Clients, HeadAnswered(c) \/ HeadFails(c)
    PROVE  IInv' /\ Unspent
<1>1. pc[c] = "head" /\ UNCHANGED <<ledger, call, verdict, session, confirmed>>
  BY DEF HeadAnswered, HeadFails
<1>2. SourceTokens(kind[c]) = {"USER"}
  BY <1>1 DEF IInv, TypeOK, Operations, Asking, FirstQuery, Kinds, SourceTokens
<1>3. CASE Propose(c, Guess(c, "USER"), TRUE)
  BY <1>1, <1>2, <1>3, Guessed, FirstProposal
<1>4. CASE head # None /\ Propose(c, head, FALSE)
  BY <1>1, <1>2, <1>4, Headed, FirstProposal
<1> QED
  BY <1>3, <1>4 DEF HeadAnswered, HeadFails

LEMMA RowKeeps ==
    ASSUME IInv, NEW c \in Clients, RowAnswered(c)
    PROVE  IInv' /\ Unspent
<1>1. /\ pc[c] = "row" /\ row # None /\ Propose(c, row, FALSE)
      /\ UNCHANGED <<ledger, call, verdict, session, confirmed>>
  BY DEF RowAnswered
<1>2. SourceTokens(kind[c]) = {"TOKEN"}
  BY <1>1 DEF IInv, TypeOK, Operations, Asking, FirstQuery, Kinds, SourceTokens
<1>3. row \in Wallets /\ row \in OnLedger /\ row.token = "TOKEN"
  BY <1>1 DEF IInv, TypeOK, Chain, Placed, OnLedger
<1> QED
  BY <1>1, <1>2, <1>3, FirstProposal

(* A login that falls back has signed from a USER wallet and no other.      *)
LEMMA FallbackKeeps ==
    ASSUME IInv, NEW c \in Clients, Fallback(c)
    PROVE  IInv' /\ Unspent
<1>1. /\ pc[c] = "answered" /\ kind[c] = "login" /\ mol[c].source.token = "USER"
      /\ Propose(c, Guess(c, "AUTH"), TRUE)
      /\ verdict' = [verdict EXCEPT ![c] = None]
      /\ UNCHANGED <<ledger, call, session, confirmed>>
  BY DEF Fallback, FallsBack
<1>2. /\ Guess(c, "AUTH") \in Wallets
      /\ Guess(c, "AUTH").token = "AUTH" /\ Guess(c, "AUTH").pos = fresh
      /\ Guess(c, "AUTH").ver = OtsVersion[c]
  BY Guessed
<1>3. /\ mol[c] \in signed /\ mol[c].op = op[c] /\ mol[c].kind = "login"
      /\ \A n \in signed : n.op = op[c] => n.source.token # "AUTH"
  BY <1>1 DEF IInv, Operations, Proposed
<1>4. \A n \in signed : n.op = op[c] => n.kind = kind[c]
  BY <1>1, <1>3 DEF IInv, Operations, Numbered
<1>5. MayPropose(c, Guess(c, "AUTH"), TRUE)
  BY <1>1, <1>2, <1>3, <1>4 DEF MayPropose, SourceTokens
<1> QED
  BY <1>1, <1>5, ProposeKeeps

-----------------------------------------------------------------------------
LEMMA InitHolds == Init => IInv
<1> SUFFICES ASSUME Init PROVE IInv
  OBVIOUS
<1>1. 0 \in Positions /\ 1 \in Positions /\ fresh \in Positions /\ fresh = 2
  BY DEF Init, Positions
<1>2. /\ head # None => /\ head \in Wallets
                        /\ head.token = "USER" /\ head.pos = 0
      /\ row # None => /\ row \in Wallets
                       /\ row.token = "TOKEN" /\ row.pos = 1
  BY <1>1, WalletMade DEF Init
<1>3. TypeOK
  BY <1>1, <1>2 DEF Init, TypeOK, Kinds
<1>4. Chain
  BY <1>1, <1>2 DEF Init, Chain, Built, Placed, OneWallet, Distinct, Unborn, NothingStranded,
     Applied, EffectOnce
<1>5. Operations
  BY DEF Init, Operations, Numbered, Asking, Proposed, Told
<1> QED
  BY <1>3, <1>4, <1>5 DEF IInv

(* Every step keeps the invariant and signs at no spent position.           *)
LEMMA NextHolds ==
    ASSUME IInv, [Next]_vars
    PROVE  IInv' /\ Unspent
<1>1. CASE UNCHANGED vars
  <2>1. TypeOK' /\ Unspent
    BY <1>1 DEF vars, Unspent, IInv, TypeOK
  <2>2. Chain'
    BY <1>1 DEF vars, IInv, Chain, Built, Placed, OneWallet, Distinct, Unborn, NothingStranded,
       Applied, EffectOnce, OnLedger
  <2>3. Operations'
    BY <1>1 DEF vars, IInv, Operations, Numbered, Asking, Proposed, Told, OnLedger
  <2>4. QED BY <2>1, <2>2, <2>3 DEF IInv
<1>2. ASSUME NEW c \in Clients, NEW k \in Kinds, Begin(c, k)
      PROVE  IInv' /\ Unspent
  BY <1>2, BeginKeeps DEF Begin, send, Unspent
<1>3. ASSUME NEW c \in Clients, PointerFails(c) \/ RowMissing(c) \/ SendFails(c) \/ Returns(c)
      PROVE  IInv' /\ Unspent
  <2>1. Respond(c) /\ (confirmed' = confirmed \/ Learn(c))
    BY <1>3 DEF PointerFails, RowMissing, SendFails, Returns
  <2>2. session' \in [Clients -> BOOLEAN]
    <3>1. session \in [Clients -> BOOLEAN]
      BY DEF IInv, TypeOK
    <3>2. session' = session \/ Returns(c)
      BY <1>3 DEF PointerFails, RowMissing, SendFails
    <3> QED
      BY <3>1, <3>2 DEF Returns
  <2>3. IInv'
    BY <2>1, <2>2, RespondKeeps
  <2> QED
    BY <2>1, <2>3 DEF Respond, Unspent
<1>4. ASSUME NEW c \in Clients, PointerAnswered(c)
      PROVE  IInv' /\ Unspent
  BY <1>4, PointerKeeps
<1>5. ASSUME NEW c \in Clients, HeadAnswered(c) \/ HeadFails(c)
      PROVE  IInv' /\ Unspent
  BY <1>5, HeadKeeps
<1>6. ASSUME NEW c \in Clients, RowAnswered(c)
      PROVE  IInv' /\ Unspent
  BY <1>6, RowKeeps
<1>7. ASSUME NEW c \in Clients, Resend(c)
      PROVE  IInv' /\ Unspent
  BY <1>7, ResendKeeps DEF Resend, Unspent
<1>8. ASSUME NEW c \in Clients, Fallback(c)
      PROVE  IInv' /\ Unspent
  BY <1>8, FallbackKeeps
<1>9. ASSUME NEW p \in inflight, Deliver(p)
      PROVE  IInv' /\ Unspent
  BY <1>9, DeliverKeeps, Delivering DEF Unspent
<1> QED
  BY <1>1, <1>2, <1>3, <1>4, <1>5, <1>6, <1>7, <1>8, <1>9 DEF Next

LEMMA Invariant == Spec => []IInv
<1>1. IInv /\ [Next]_vars => IInv'
  BY NextHolds
<1> QED
  BY InitHolds, <1>1, PTL DEF Spec

-----------------------------------------------------------------------------
(* What the ledger names, what is signed and where each operation is stay   *)
(* well formed.                                                             *)
THEOREM TypeCorrect == Spec => []TypeOK
<1>1. IInv => TypeOK
  BY DEF IInv
<1> QED
  BY Invariant, <1>1, PTL

(* Neither the head nor the row ever rests on a position that signed an     *)
(* accepted molecule: the remainder is a wallet of its own (Molecule.cpp),  *)
(* and no operation builds on a wallet it did not just read.                *)
THEOREM ChainCorrect == Spec => []NothingStranded
<1>1. IInv => NothingStranded
  BY DEF IInv, Chain
<1> QED
  BY Invariant, <1>1, PTL

(* Sending the same molecule again (executeWithRetry) changes the ledger    *)
(* once, whatever is lost, late or reordered: a copy of an applied molecule *)
(* rests on a position the head and the row have left for good.             *)
THEOREM EffectsCorrect == Spec => []EffectOnce
<1>1. IInv => EffectOnce
  BY DEF IInv, Chain, Applied
<1> QED
  BY Invariant, <1>1, PTL

(* A set of things that are all one has at most one of them.                *)
LEMMA AtMostOne ==
    ASSUME NEW S, \A x, y \in S : x = y
    PROVE  IsFiniteSet(S) /\ Cardinality(S) \in Nat /\ Cardinality(S) <= 1
<1>1. CASE S = {}
  BY <1>1, FS_EmptySet
<1>2. ASSUME NEW x \in S
      PROVE  IsFiniteSet(S) /\ Cardinality(S) \in Nat /\ Cardinality(S) <= 1
  <2>1. S = {x}
    BY <1>2
  <2>2. IsFiniteSet({x}) /\ Cardinality({x}) = 1
    BY FS_Singleton
  <2> QED
    BY <2>1, <2>2
<1> QED
  BY <1>1, <1>2

(* requestAuthToken signs one molecule, and one more from an AUTH wallet    *)
(* when the first was turned down: never a third.                           *)
THEOREM LoginsCorrect == Spec => []AtMostTwoLogins
<1>1. ASSUME IInv, NEW m \in signed, m.kind = "login"
      PROVE  LET login == {n \in signed : n.op = m.op} IN
             /\ Cardinality(login) <= 2
             /\ Cardinality({n \in login : n.source.token = "AUTH"}) <= 1
  <2> DEFINE login == {n \in signed : n.op = m.op}
             auth == {n \in login : n.source.token = "AUTH"}
             user == {n \in login : n.source.token = "USER"}
  <2>1. /\ \A x, y \in auth : x = y
        /\ \A x, y \in user : x = y
    BY <1>1 DEF IInv, Operations, Numbered
  <2>2. \A n \in login : n.source.token \in {"USER", "AUTH"}
    BY <1>1 DEF IInv, Operations, Numbered, Chain, Built, Coherent, SourceTokens
  <2>3. login = auth \cup user /\ auth \cap user = {}
    BY <2>2
  <2> HIDE DEF login, auth, user
  <2>4. /\ IsFiniteSet(auth) /\ Cardinality(auth) \in Nat /\ Cardinality(auth) <= 1
        /\ IsFiniteSet(user) /\ Cardinality(user) \in Nat /\ Cardinality(user) <= 1
    BY <2>1, AtMostOne
  <2>5. Cardinality(auth \cap user) = 0
    BY <2>3, FS_EmptySet
  <2>6. Cardinality(auth \cup user) = Cardinality(auth) + Cardinality(user) - Cardinality(auth \cap user)
    BY <2>4, FS_Union
  <2>7. Cardinality(login) <= 2
    BY <2>3, <2>4, <2>5, <2>6
  <2> QED
    BY <2>4, <2>7 DEF login, auth
<1>2. IInv => AtMostTwoLogins
  BY <1>1 DEF AtMostTwoLogins
<1> QED
  BY Invariant, <1>2, PTL

(* A client that was told a position is spent never signs there again:      *)
(* every operation signs from the head or the row it has just read, or from *)
(* a wallet of its own.                                                     *)
THEOREM SpentCorrect == Spec => SpentStaysSpent
<1>1. IInv /\ [Next]_vars => [Unspent]_vars
  BY NextHolds
<1> QED
  BY Invariant, <1>1, PTL DEF Spec, SpentStaysSpent, Unspent

(* The OTS version of the head or the row never falls, whoever signs: the   *)
(* remainder's is the higher of the signer's and its client's.  A login     *)
(* signed from an AUTH wallet replaces the head by what its client is       *)
(* configured at, and nothing else may lower it.                            *)
THEOREM VersionCorrect == Spec => VersionKept
<1> DEFINE Kept == /\ head # None /\ head'.ver < head.ver =>
                         \E m \in accepted' \ accepted :
                             m.source.token = "AUTH" /\ head'.ver = OtsVersion[m.by]
                   /\ row # None => row'.ver >= row.ver
<1>1. ASSUME IInv, [Next]_vars
      PROVE  Kept
  <2>1. /\ head # None => head \in Wallets /\ head.ver \in {1, 2}
        /\ row # None => row \in Wallets /\ row.ver \in {1, 2}
    BY <1>1, WalletParts DEF IInv, TypeOK
  <2>2. CASE UNCHANGED ledger
    BY <2>1, <2>2 DEF ledger
  <2>3. ASSUME NEW p \in inflight, Deliver(p), Acceptable(p.mol), Apply(p.mol)
        PROVE  Kept
    <3> DEFINE m == p.mol
    <3>1. m \in signed
      BY <1>1, <2>3, Delivering
    <3>2. /\ Coherent(m) /\ m.remainder.ver \in {1, 2} /\ m.source.ver \in {1, 2}
          /\ m.kind \in Kinds
      BY <1>1, <3>1, MoleculeParts, WalletParts DEF IInv, TypeOK, Chain, Built
    <3>3. /\ accepted' = accepted \cup {m}
          /\ head' = IF m.kind = "value" THEN head ELSE m.remainder
          /\ row' = CASE m.kind = "value"  -> m.remainder
                      [] m.kind = "create" -> m.created
                      [] OTHER             -> row
      BY <2>3 DEF Apply
    <3> HIDE DEF m
    <3>4. ASSUME row # None PROVE row'.ver >= row.ver
      <4>1. CASE m.kind = "value"
        <5>1. m.source.token = "TOKEN"
          BY <3>2, <4>1 DEF Coherent, SourceTokens
        <5>2. row = m.source
          BY <1>1, <2>3, <3>1, <3>4, <5>1 DEF m, Acceptable, IInv, Chain, OneWallet, OnLedger
        <5> QED
          BY <3>2, <3>3, <4>1, <5>2 DEF Coherent
      <4>2. CASE m.kind # "value"
        <5>1. m.kind # "create"
          BY <2>3, <3>4 DEF m, Acceptable
        <5> QED
          BY <2>1, <3>3, <3>4, <4>2, <5>1
      <4> QED
        BY <4>1, <4>2
    <3>5. ASSUME head # None, head'.ver < head.ver
          PROVE  m \notin accepted /\ m.source.token = "AUTH" /\ head'.ver = OtsVersion[m.by]
      <4>1. m.kind # "value" /\ head' = m.remainder
        BY <2>1, <3>3, <3>5
      <4>2. m.source.token # "USER"
        <5> SUFFICES ASSUME m.source.token = "USER" PROVE FALSE
          OBVIOUS
        <5>1. head = m.source
          BY <1>1, <2>3, <3>1, <3>5 DEF m, Acceptable, IInv, Chain, OneWallet, OnLedger
        <5> QED
          BY <3>2, <3>5, <4>1, <5>1 DEF Coherent
      <4>3. m.source.token = "AUTH"
        BY <3>2, <4>1, <4>2 DEF Coherent, SourceTokens
      <4>4. m \notin accepted
        BY <2>3, <4>3 DEF m, Acceptable
      <4> QED
        BY <3>2, <4>1, <4>3, <4>4 DEF Coherent
    <3> QED
      BY <3>3, <3>4, <3>5
  <2>4. UNCHANGED ledger
          \/ \E p \in inflight : Deliver(p) /\ Acceptable(p.mol) /\ Apply(p.mol)
    <3>1. CASE \E p \in inflight : Deliver(p)
      BY <1>1, <3>1, Delivering DEF ledger
    <3>2. CASE ~\E p \in inflight : Deliver(p)
      BY <1>1, <3>2 DEF Next, vars, ledger, Begin, PointerFails, PointerAnswered, HeadFails,
         HeadAnswered, RowMissing, RowAnswered, Resend, SendFails, Returns, Fallback, Respond
    <3> QED
      BY <3>1, <3>2
  <2> QED
    BY <2>2, <2>3, <2>4
<1>2. IInv /\ [Next]_vars => [Kept]_vars
  BY <1>1
<1> QED
  BY Invariant, <1>2, PTL DEF Spec, VersionKept
=============================================================================
