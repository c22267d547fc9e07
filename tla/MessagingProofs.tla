--------------------------- MODULE MessagingProofs ---------------------------
(***************************************************************************)
(* Proofs about Messaging.  A key field is the key the wallet was made with *)
(* or empty, never another one, so whatever identity a wallet decapsulates  *)
(* with is one of its own key; and a message is addressed to an identity    *)
(* exactly when it is not a classical box.  What a read returned then stays *)
(* right, since a wallet that could be owed more has its key still.         *)
(***************************************************************************)
EXTENDS Messaging, TLAPS

USE MessagingAssumption

Keyed == \A w \in Wallets : key[w] \in {KeyOf[w], NoKey}

Addressed ==
    \A m \in sealed :
        /\ m.via # "box" => m.to \in Identities
        /\ m.via = "box" => m.to \in BoxKeys
        /\ m.via = "envelope" => m.plain.quotes > 0 /\ Stripped(m.plain) = m.wrote
        /\ m.via = "map" => m.plain = IF m.by = Validator THEN m.wrote ELSE Quoted(m.wrote)

IInv ==
    /\ TypeOK /\ Keyed /\ Addressed
    /\ AdvertisesConfigured /\ OwnIdentitiesRead /\ OnlyAddresseeReads

-----------------------------------------------------------------------------
(* Texts and keys.                                                          *)

(* Writing adds one layer of quotes: encryptMessageML.                      *)
LEMMA QuotedPlain ==
    ASSUME NEW plain \in Written
    PROVE  /\ Quoted(plain) \in Plain /\ Quoted(plain).quotes > 0
           /\ Stripped(Quoted(plain)) = plain
<1>1. plain \in [text : Texts, quotes : {0, 1}]
  BY DEF Written
<1>2. Quoted(plain) = [text |-> plain.text, quotes |-> plain.quotes + 1]
  BY <1>1 DEF Quoted
<1>3. plain.quotes \in {0, 1} /\ plain.text \in Texts
  BY <1>1
<1>4. plain.quotes + 1 \in 0..2 /\ plain.quotes + 1 > 0
  BY <1>3
<1>5. ASSUME NEW q \in Plain PROVE Stripped(q) = [text |-> q.text, quotes |-> q.quotes - 1]
  BY DEF Plain, Stripped
<1>6. Stripped(Quoted(plain)) = plain
  <2>1. Quoted(plain) \in Plain /\ Quoted(plain).text = plain.text
        /\ Quoted(plain).quotes = plain.quotes + 1
    BY <1>2, <1>3, <1>4 DEF Plain
  <2>2. Stripped(Quoted(plain)) = [text |-> plain.text, quotes |-> plain.quotes]
    BY <1>3, <1>5, <2>1
  <2>3. QED BY <1>1, <2>2
<1> QED
  BY <1>2, <1>3, <1>4, <1>6 DEF Plain

(* Reading takes one away: decryptMessageML.                                *)
LEMMA StrippedPlain ==
    ASSUME NEW plain \in Plain, plain.quotes > 0
    PROVE  Stripped(plain) \in Plain
<1>1. Stripped(plain) = [text |-> plain.text, quotes |-> plain.quotes - 1]
  BY DEF Plain, Stripped
<1>2. plain.quotes - 1 \in 0..2 /\ plain.text \in Texts
  BY DEF Plain
<1> QED
  BY <1>1, <1>2 DEF Plain

LEMMA UnquotedPlain ==
    ASSUME NEW plain \in Plain
    PROVE  /\ Unquoted(plain) \in Plain
           /\ plain.quotes > 0 => Unquoted(plain) = Stripped(plain)
BY StrippedPlain DEF Unquoted

(* No text is taken for an exception or for the empty string.               *)
LEMMA PlainIsText ==
    ASSUME NEW plain \in Plain PROVE plain # Throws /\ plain # NoText
BY DEF Plain

LEMMA KeyPairTyped ==
    ASSUME NEW w \in Wallets, NEW n \in 0..MaxPairs
    PROVE  /\ KeyPair(w, n).publicKey \in BoxKeys
           /\ KeyPair(w, n).privateKey \in BoxKeys
BY DEF KeyPair, BoxKeys

LEMMA IdentityTyped ==
    ASSUME NEW k \in Keys, NEW p \in Sets
    PROVE  /\ Identity(k, p) \in Identities
           /\ Identity(k, p).key = k /\ Identity(k, p).set = p
BY DEF Identity, Identities

LEMMA IdentityParts ==
    ASSUME NEW i \in Identities
    PROVE  i.key \in Keys /\ i.set \in Sets /\ i = Identity(i.key, i.set) /\ i # NoKey
BY DEF Identity, Identities, Sets

(* deriveMlKemKeypair makes an identity of the wallet's own key or none.    *)
LEMMA DerivedOwn ==
    ASSUME IInv, NEW w \in Wallets, NEW p \in Sets
    PROVE  IF key[w] = NoKey THEN DeriveMlKemKeypair(w, p) = NoKey
           ELSE /\ key[w] = KeyOf[w]
                /\ DeriveMlKemKeypair(w, p) = Identity(KeyOf[w], p)
BY DEF IInv, Keyed, DeriveMlKemKeypair

(* The lengths of ciphertexts tell the sets apart.                          *)
LEMMA LengthsDiffer ==
    ASSUME NEW p \in Sets, NEW q \in Sets
    PROVE  /\ CiphertextBytes(p) = CiphertextBytes(q) <=> p = q
           /\ OtherSet(p) \in Sets
           /\ q = p \/ q = OtherSet(p)
           /\ CiphertextBytes(p) # 64
BY DEF Sets, CiphertextBytes, OtherSet

-----------------------------------------------------------------------------
(* Reading.                                                                 *)

LEMMA MessageParts ==
    ASSUME IInv, NEW m \in sealed
    PROVE  /\ m \in Messages /\ m.plain \in Plain
           /\ m.damage \in Damages /\ m.via \in {"envelope", "map", "box"}
BY DEF IInv, TypeOK, Messages

(* What a wallet decapsulates with is an identity of the key it was made    *)
(* with, and the one addressed if that is its own: mlkemDecryptToString.    *)
LEMMA DecapsulatesOwn ==
    ASSUME IInv, NEW w \in Wallets, NEW m \in sealed, m.via # "box"
    PROVE  /\ Decapsulator(w, m) # NoKey =>
                 \E p \in Sets : Decapsulator(w, m) = Identity(KeyOf[w], p)
           /\ m.damage = "none" /\ key[w] = m.to.key => Decapsulator(w, m) = m.to
<1> DEFINE other == OtherSet(set[w])
<1>1. set[w] \in Sets /\ mlkem[w] = Identity(KeyOf[w], set[w]) /\ KeyOf[w] \in Keys
  BY DEF IInv, TypeOK, AdvertisesConfigured
<1>2. other \in Sets /\ CiphertextBytes(other) # 64
  BY <1>1, LengthsDiffer
<1>3. m.to \in Identities
  BY DEF IInv, Addressed
<1>4. Decapsulator(w, m) # NoKey =>
         \E p \in Sets : Decapsulator(w, m) = Identity(KeyOf[w], p)
  BY <1>1, <1>2, DerivedOwn DEF Decapsulator
<1>5. ASSUME m.damage = "none", key[w] = m.to.key
      PROVE  Decapsulator(w, m) = m.to
  <2>1. m.to.set \in Sets /\ m.to.key \in Keys /\ m.to = Identity(m.to.key, m.to.set)
    BY <1>3, IdentityParts
  <2>2. key[w] # NoKey /\ key[w] = KeyOf[w]
    BY <1>5, <2>1 DEF IInv, Keyed
  <2>3. CtBytes(m) = CiphertextBytes(m.to.set)
    BY <1>5 DEF CtBytes
  <2>4. CASE m.to.set = set[w]
    BY <1>1, <1>5, <2>1, <2>2, <2>3, <2>4 DEF Decapsulator
  <2>5. CASE m.to.set # set[w]
    <3>1. m.to.set = other
      BY <1>1, <2>1, <2>5, LengthsDiffer
    <3>2. CtBytes(m) # CiphertextBytes(set[w]) /\ CtBytes(m) = CiphertextBytes(other)
      BY <1>1, <2>1, <2>3, <2>5, <3>1, LengthsDiffer
    <3>3. DeriveMlKemKeypair(w, other) = Identity(KeyOf[w], other)
      BY <1>2, <2>2, DerivedOwn
    <3> QED
      BY <1>5, <2>1, <2>2, <3>1, <3>2, <3>3 DEF Decapsulator
  <2> QED
    BY <2>4, <2>5
<1> QED
  BY <1>4, <1>5

(* It is read in full by its addressee, and by nobody else.                 *)
LEMMA DecryptsOwn ==
    ASSUME IInv, NEW w \in Wallets, NEW m \in sealed, m.via # "box"
    PROVE  /\ MlkemDecryptToString(w, m) \in {m.plain, Throws}
           /\ m.damage = "none" /\ key[w] = m.to.key =>
                 MlkemDecryptToString(w, m) = m.plain
           /\ MlkemDecryptToString(w, m) # Throws =>
                 m.damage = "none" /\ m.to.key = KeyOf[w]
<1> DEFINE identity == Decapsulator(w, m)
<1>1. m.to \in Identities
  BY DEF IInv, Addressed
<1>2. MlkemDecryptToString(w, m) \in {m.plain, Throws}
  BY DEF MlkemDecryptToString
<1>3. ASSUME m.damage = "none", key[w] = m.to.key
      PROVE  MlkemDecryptToString(w, m) = m.plain
  <2>1. identity = m.to /\ m.to # NoKey
    BY <1>1, <1>3, DecapsulatesOwn, IdentityParts
  <2> QED
    BY <1>3, <2>1 DEF MlkemDecryptToString, Authentic
<1>4. ASSUME MlkemDecryptToString(w, m) # Throws
      PROVE  m.damage = "none" /\ m.to.key = KeyOf[w]
  <2>1. identity # NoKey /\ identity = m.to /\ m.damage = "none"
    BY <1>4 DEF MlkemDecryptToString, Authentic
  <2>2. PICK p \in Sets : identity = Identity(KeyOf[w], p)
    BY <2>1, DecapsulatesOwn
  <2>3. KeyOf[w] \in Keys
    OBVIOUS
  <2> QED
    BY <2>1, <2>2, <2>3, IdentityTyped
<1> QED
  BY <1>2, <1>3, <1>4

(* An envelope: decryptMessageML.                                           *)
LEMMA EnvelopeRead ==
    ASSUME IInv, NEW w \in Wallets, NEW m \in sealed, m.via = "envelope"
    PROVE  /\ DecryptMessageML(w, m) \in Plain \cup {Throws}
           /\ m.damage = "none" /\ key[w] = m.to.key =>
                 DecryptMessageML(w, m) = m.wrote
           /\ DecryptMessageML(w, m) # Throws =>
                 m.damage = "none" /\ m.to.key = KeyOf[w]
<1>1. m.plain \in Plain /\ m.plain.quotes > 0 /\ m.plain # Throws
  BY MessageParts, PlainIsText DEF IInv, Addressed
<1>2. Unquoted(m.plain) \in Plain /\ Unquoted(m.plain) = m.wrote
  BY <1>1, UnquotedPlain DEF IInv, Addressed
<1>3. MlkemDecryptToString(w, m) \in {m.plain, Throws}
  BY DecryptsOwn
<1>4. m.damage = "none" /\ key[w] = m.to.key => MlkemDecryptToString(w, m) = m.plain
  BY DecryptsOwn
<1>5. MlkemDecryptToString(w, m) # Throws => m.damage = "none" /\ m.to.key = KeyOf[w]
  BY DecryptsOwn
<1> QED
  BY <1>1, <1>2, <1>3, <1>4, <1>5 DEF DecryptMessageML

(* A map entry: decryptMyMessageML finds either share.                      *)
LEMMA MapRead ==
    ASSUME IInv, NEW w \in Wallets, NEW m \in sealed, m.via = "map"
    PROVE  /\ DecryptMyMessageML(w, m) \in Plain \cup {Throws, NoText}
           /\ m.damage = "none" /\ key[w] = m.to.key =>
                 DecryptMyMessageML(w, m) = IF m.by = Validator THEN m.wrote ELSE Quoted(m.wrote)
           /\ DecryptMyMessageML(w, m) \notin {Throws, NoText} =>
                 m.damage = "none" /\ m.to.key = KeyOf[w]
<1>1. MlkemDecryptToString(w, m) \in {m.plain, Throws} /\ m.plain \in Plain
  BY DecryptsOwn, MessageParts
<1>2. MlkemDecryptToString(w, m) # Throws => m.damage = "none" /\ m.to.key = KeyOf[w]
  BY DecryptsOwn
<1>3. ASSUME m.damage = "none", key[w] = m.to.key
      PROVE  DecryptMyMessageML(w, m) = m.plain
  <2>1. MlkemDecryptToString(w, m) = m.plain
    BY <1>3, DecryptsOwn
  <2>2. m.to \in Identities
    BY DEF IInv, Addressed
  <2>3. m.to.key \in Keys /\ m.to.set \in Sets /\ m.to = Identity(m.to.key, m.to.set) /\ m.to # NoKey
    BY <2>2, IdentityParts
  <2>4. key[w] # NoKey /\ key[w] = KeyOf[w]
    BY <1>3, <2>3 DEF IInv, Keyed
  <2>5. set[w] \in Sets /\ mlkem[w] = Identity(KeyOf[w], set[w])
    BY DEF IInv, TypeOK, AdvertisesConfigured
  <2>6. OtherSet(set[w]) \in Sets /\ (m.to.set = set[w] \/ m.to.set = OtherSet(set[w]))
    BY <2>3, <2>5, LengthsDiffer
  <2>7. DeriveMlKemKeypair(w, OtherSet(set[w])) = Identity(KeyOf[w], OtherSet(set[w]))
    BY <2>4, <2>6, DerivedOwn
  <2>8. m.to \in SharesTried(w)
    BY <1>3, <2>3, <2>4, <2>5, <2>6, <2>7 DEF SharesTried
  <2> QED
    BY <2>1, <2>8 DEF DecryptMyMessageML
<1>4. m.plain = IF m.by = Validator THEN m.wrote ELSE Quoted(m.wrote)
  BY DEF IInv, Addressed
<1> QED
  BY <1>1, <1>2, <1>3, <1>4 DEF DecryptMyMessageML

(* A classical box.                                                         *)
LEMMA BoxRead ==
    ASSUME IInv, NEW w \in Wallets, NEW m \in sealed
    PROVE  /\ DecryptMyMessage(w, m) \in Plain \cup {Throws, NoText}
           /\ DecryptMyMessage(w, m) \notin {Throws, NoText} => m.damage = "none"
BY MessageParts DEF DecryptMyMessage, OpensBox

-----------------------------------------------------------------------------
(* The invariant.                                                           *)

LEMMA InitHolds == Init => IInv
<1> SUFFICES ASSUME Init PROVE IInv
  OBVIOUS
<1> USE DEF Init
<1>1. ASSUME NEW w \in Wallets
      PROVE  mlkem[w] = Identity(KeyOf[w], set[w]) /\ mlkem[w] \in Identities
  <2>1. KeyOf[w] \in Keys /\ set[w] \in Sets
    OBVIOUS
  <2>2. Identity(KeyOf[w], set[w]) \in Identities
    BY <2>1, IdentityTyped
  <2> QED
    BY <2>2
<1>2. ASSUME NEW w \in Wallets PROVE KeyPair(w, 0).publicKey \in BoxKeys
  <2>1. 0 \in 0..MaxPairs
    OBVIOUS
  <2> QED
    BY <2>1, KeyPairTyped
<1>3. mlkem \in [Wallets -> Identities] /\ privkey \in [Wallets -> BoxKeys]
  BY <1>1, <1>2
<1>4. TypeOK
  BY <1>3 DEF TypeOK
<1>5. AdvertisesConfigured /\ Keyed /\ Addressed
  BY <1>1 DEF AdvertisesConfigured, Keyed, Addressed
<1>6. OwnIdentitiesRead /\ OnlyAddresseeReads
  BY DEF OwnIdentitiesRead, OnlyAddresseeReads
<1> QED
  BY <1>4, <1>5, <1>6 DEF IInv

(* A step that neither seals nor reads and takes a key at most away keeps   *)
(* what has been read right.                                                *)
LEMMA ReadsStand ==
    ASSUME IInv, UNCHANGED <<sealed, outcome>>,
           \A w \in Wallets : key'[w] \in {key[w], NoKey}
    PROVE  Keyed' /\ Addressed' /\ OwnIdentitiesRead' /\ OnlyAddresseeReads'
<1>1. Keyed' /\ Addressed'
  BY DEF IInv, Keyed, Addressed
<1>2. OnlyAddresseeReads'
  BY DEF IInv, OnlyAddresseeReads
<1>3. ASSUME outcome # NoText, outcome.msg.via # "box", outcome.msg.damage = "none",
             key'[outcome.who] = outcome.msg.to.key
      PROVE  key[outcome.who] = outcome.msg.to.key
  <2>1. outcome.who \in Wallets /\ outcome.msg \in sealed
    BY <1>3 DEF IInv, TypeOK
  <2>2. outcome.msg.to \in Identities
    BY <1>3, <2>1 DEF IInv, Addressed
  <2>3. outcome.msg.to.key # NoKey
    BY <2>2, IdentityParts
  <2> QED
    BY <1>3, <2>1, <2>3
<1>4. OwnIdentitiesRead'
  BY <1>3 DEF IInv, OwnIdentitiesRead
<1> QED
  BY <1>1, <1>2, <1>4

LEMMA InitializeKeeps ==
    ASSUME IInv, NEW w \in Wallets, NEW p \in Sets \cup {512}, InitializeMLKEM(w, p)
    PROVE  IInv'
<1> DEFINE q == IF p \in Sets THEN p ELSE set[w]
<1>1. q \in Sets /\ key[w] # NoKey /\ KeyOf[w] \in Keys
  BY DEF IInv, TypeOK, InitializeMLKEM
<1>2. DeriveMlKemKeypair(w, q) = Identity(KeyOf[w], q)
  BY <1>1, DerivedOwn
<1>3. Identity(KeyOf[w], q) \in Identities
  BY <1>1, IdentityTyped
<1>4. /\ set' = [set EXCEPT ![w] = q]
      /\ mlkem' = [mlkem EXCEPT ![w] = Identity(KeyOf[w], q)]
      /\ pubkey' = [pubkey EXCEPT ![w] = Identity(KeyOf[w], q)]
      /\ UNCHANGED <<key, privkey, pairs, sealed, outcome>>
  <2>1. /\ set' = [set EXCEPT ![w] = q]
        /\ mlkem' = [mlkem EXCEPT ![w] = DeriveMlKemKeypair(w, q)]
        /\ pubkey' = [pubkey EXCEPT ![w] = DeriveMlKemKeypair(w, q)]
        /\ UNCHANGED <<key, privkey, pairs, sealed, outcome>>
    BY DEF InitializeMLKEM
  <2> HIDE DEF q
  <2> QED
    BY <1>2, <2>1
<1> HIDE DEF q
<1>5. TypeOK'
  BY <1>1, <1>3, <1>4 DEF IInv, TypeOK
<1>6. AdvertisesConfigured'
  BY <1>1, <1>4 DEF IInv, TypeOK, AdvertisesConfigured
<1>7. Keyed' /\ Addressed' /\ OwnIdentitiesRead' /\ OnlyAddresseeReads'
  BY <1>4, ReadsStand
<1> QED
  BY <1>5, <1>6, <1>7 DEF IInv

LEMMA GenerateKeeps ==
    ASSUME IInv, NEW w \in Wallets, GenerateMyPublicAndPrivateKeys(w)
    PROVE  IInv'
<1> DEFINE n == pairs[w] + 1
<1>1. n \in 0..MaxPairs
  BY DEF IInv, TypeOK, GenerateMyPublicAndPrivateKeys
<1>2. KeyPair(w, n).publicKey \in BoxKeys /\ KeyPair(w, n).privateKey \in BoxKeys
  BY <1>1, KeyPairTyped
<1>3. /\ privkey' = [privkey EXCEPT ![w] = KeyPair(w, n).publicKey]
      /\ pubkey' = [pubkey EXCEPT ![w] = KeyPair(w, n).privateKey]
      /\ pairs' = [pairs EXCEPT ![w] = n]
      /\ UNCHANGED <<key, set, mlkem, sealed, outcome>>
  BY DEF GenerateMyPublicAndPrivateKeys
<1> HIDE DEF n
<1>4. TypeOK'
  BY <1>1, <1>2, <1>3 DEF IInv, TypeOK
<1>5. AdvertisesConfigured'
  BY <1>3 DEF IInv, AdvertisesConfigured
<1>6. Keyed' /\ Addressed' /\ OwnIdentitiesRead' /\ OnlyAddresseeReads'
  BY <1>3, ReadsStand
<1> QED
  BY <1>4, <1>5, <1>6 DEF IInv

LEMMA ClearKeeps ==
    ASSUME IInv, NEW w \in Wallets, ClearKey(w)
    PROVE  IInv'
<1> USE DEF ClearKey
<1>1. TypeOK'
  BY DEF IInv, TypeOK
<1>2. AdvertisesConfigured'
  BY DEF IInv, AdvertisesConfigured
<1>3. \A v \in Wallets : key'[v] \in {key[v], NoKey}
  BY DEF IInv, TypeOK
<1>4. Keyed' /\ Addressed' /\ OwnIdentitiesRead' /\ OnlyAddresseeReads'
  BY <1>3, ReadsStand
<1> QED
  BY <1>1, <1>2, <1>4 DEF IInv

(* A message goes by its own kind of address; an envelope is quoted.        *)
LEMMA AddKeeps ==
    ASSUME IInv,
           NEW via \in {"envelope", "map", "box"}, NEW by \in Wallets \cup {Validator},
           NEW to, IF via = "box" THEN to \in BoxKeys ELSE to \in Identities,
           NEW wrote \in Plain, NEW plain \in Plain,
           via = "envelope" => plain.quotes > 0 /\ Stripped(plain) = wrote,
           via = "map" => plain = IF by = Validator THEN wrote ELSE Quoted(wrote),
           Add(via, by, to, wrote, plain)
    PROVE  IInv'
<1>1. PICK n \in NextIds, damage \in Damages :
         sealed' = sealed \cup
            {[id |-> n, via |-> via, by |-> by, to |-> to, wrote |-> wrote, plain |-> plain,
              damage |-> damage]}
  BY DEF Add
<1> DEFINE m == [id |-> n, via |-> via, by |-> by, to |-> to, wrote |-> wrote,
                 plain |-> plain, damage |-> damage]
<1>2. n \in 1..MaxSeals /\ to \in Identities \cup BoxKeys
  BY DEF NextIds
<1>3. m \in Messages /\ m.via = via /\ m.by = by /\ m.to = to
      /\ m.wrote = wrote /\ m.plain = plain
  BY <1>2 DEF Messages
<1>4. sealed' = sealed \cup {m} /\ UNCHANGED <<key, set, mlkem, pubkey, privkey, pairs, outcome>>
  BY <1>1 DEF Add
<1> HIDE DEF m
<1>5. TypeOK'
  BY <1>3, <1>4 DEF IInv, TypeOK
<1>6. Addressed'
  BY <1>3, <1>4 DEF IInv, Addressed
<1>7. Keyed' /\ AdvertisesConfigured' /\ OwnIdentitiesRead' /\ OnlyAddresseeReads'
  BY <1>4 DEF IInv, Keyed, AdvertisesConfigured, OwnIdentitiesRead, OnlyAddresseeReads
<1> QED
  BY <1>5, <1>6, <1>7 DEF IInv

LEMMA SealKeeps ==
    ASSUME IInv, NEW w \in Wallets, NEW plain \in Written,
           \/ \E to \in Identities :
                 EncryptMessageML(w, to, plain) \/ EncryptStringML(w, to, plain) \/ Respond(to, plain)
           \/ \E peer \in Wallets :
                 EncryptMessage(w, KeyPair(peer, pairs[peer]).publicKey, plain)
    PROVE  IInv'
<1>1. /\ Quoted(plain) \in Plain /\ Quoted(plain).quotes > 0
      /\ Stripped(Quoted(plain)) = plain
  BY QuotedPlain
<1>2. plain \in Plain /\ w # Validator
  BY DEF Written, Plain
<1>3. ASSUME NEW to \in Identities, EncryptMessageML(w, to, plain) PROVE IInv'
  BY <1>1, <1>2, <1>3, AddKeeps DEF EncryptMessageML
<1>4. ASSUME NEW to \in Identities, EncryptStringML(w, to, plain) PROVE IInv'
  BY <1>1, <1>2, <1>4, AddKeeps DEF EncryptStringML
<1>5. ASSUME NEW to \in Identities, Respond(to, plain) PROVE IInv'
  BY <1>2, <1>5, AddKeeps DEF Respond
<1>6. ASSUME NEW to, EncryptMessage(w, to, plain) PROVE IInv'
  BY <1>2, <1>6, AddKeeps DEF EncryptMessage
<1> QED
  BY <1>3, <1>4, <1>5, <1>6

(* What is returned is right, and noted.                                    *)
LEMMA ReadKeeps ==
    ASSUME IInv, NEW w \in Wallets, NEW m \in sealed,
           NEW result \in Plain \cup {Throws, NoText}, Reads(w, m, result),
           m.via # "box" /\ m.damage = "none" /\ key[w] = m.to.key =>
              result = IF m.via = "map" /\ m.by # Validator THEN Quoted(m.wrote) ELSE m.wrote,
           result \notin {Throws, NoText} =>
              m.damage = "none" /\ (m.via # "box" => m.to.key = KeyOf[w])
    PROVE  IInv'
<1> DEFINE o == [who |-> w, msg |-> m, result |-> result]
<1>1. outcome' = o /\ UNCHANGED <<key, set, mlkem, pubkey, privkey, pairs, sealed>>
  BY DEF Reads
<1>2. o.who = w /\ o.msg = m /\ o.result = result
  OBVIOUS
<1>3. o \in [who : Wallets, msg : sealed, result : Plain \cup {Throws, NoText}]
  OBVIOUS
<1> HIDE DEF o
<1>4. TypeOK'
  BY <1>1, <1>3 DEF IInv, TypeOK
<1>5. Keyed' /\ Addressed' /\ AdvertisesConfigured'
  BY <1>1 DEF IInv, Keyed, Addressed, AdvertisesConfigured
<1>6. OwnIdentitiesRead'
  BY <1>1, <1>2 DEF OwnIdentitiesRead
<1>7. OnlyAddresseeReads'
  BY <1>1, <1>2 DEF OnlyAddresseeReads
<1> QED
  BY <1>4, <1>5, <1>6, <1>7 DEF IInv

LEMMA OpenKeeps ==
    ASSUME IInv, NEW w \in Wallets, NEW m \in sealed,
           ReadEnvelope(w, m) \/ ReadMap(w, m) \/ ReadBox(w, m)
    PROVE  IInv'
<1>1. CASE ReadEnvelope(w, m)
  BY <1>1, EnvelopeRead, ReadKeeps DEF ReadEnvelope
<1>2. CASE ReadMap(w, m)
  BY <1>2, MapRead, ReadKeeps DEF ReadMap
<1>3. CASE ReadBox(w, m)
  BY <1>3, BoxRead, ReadKeeps DEF ReadBox
<1> QED
  BY <1>1, <1>2, <1>3

LEMMA NextHolds == IInv /\ [Next]_vars => IInv'
<1> SUFFICES ASSUME IInv, [Next]_vars PROVE IInv'
  OBVIOUS
<1>1. CASE UNCHANGED vars
  BY <1>1 DEF vars, IInv, TypeOK, Keyed, Addressed, AdvertisesConfigured,
              OwnIdentitiesRead, OnlyAddresseeReads
<1>2. ASSUME Next PROVE IInv'
  BY <1>2, InitializeKeeps, GenerateKeeps, ClearKeeps, SealKeeps, OpenKeeps DEF Next
<1> QED
  BY <1>1, <1>2

LEMMA Invariant == Spec => []IInv
BY InitHolds, NextHolds, PTL DEF Spec

-----------------------------------------------------------------------------
(* Every wallet, message and outcome is of its kind for any wallets, keys   *)
(* and texts: no identity is ever derived from an empty key.                *)
THEOREM TypeCorrect == Spec => []TypeOK
<1>1. IInv => TypeOK
  BY DEF IInv
<1> QED
  BY <1>1, Invariant, PTL

(* The keypair a wallet advertises is its key's at the configured set, over *)
(* any sequence of initializeMLKEM calls.                                   *)
THEOREM AdvertisedCorrect == Spec => []AdvertisesConfigured
<1>1. IInv => AdvertisesConfigured
  BY DEF IInv
<1> QED
  BY <1>1, Invariant, PTL

(* A message to either identity of a wallet's key is read, whatever sets    *)
(* sender and reader are configured with: as it was written, or with the    *)
(* quotes of encryptStringML still on when a wallet sealed it in a map.     *)
THEOREM ReadsCorrect == Spec => []OwnIdentitiesRead
<1>1. IInv => OwnIdentitiesRead
  BY DEF IInv
<1> QED
  BY <1>1, Invariant, PTL

(* Nothing damaged and nothing addressed to another key is ever read.       *)
THEOREM SecrecyCorrect == Spec => []OnlyAddresseeReads
<1>1. IInv => OnlyAddresseeReads
  BY DEF IInv
<1> QED
  BY <1>1, Invariant, PTL
=============================================================================
