------------------------------ MODULE Messaging ------------------------------
(***************************************************************************)
(* Wallet (Wallet.cpp) and the sealed boxes of crypto.cpp: the messages     *)
(* wallets seal for each other and for the validator.  A wallet has one     *)
(* ML-KEM identity at each parameter set, both derived from its key; it     *)
(* keeps the keypair of the configured one and derives the other when a     *)
(* message asks for it.  A message is an envelope (encryptMessageML), an    *)
(* envelope in a map under the hash share of its recipient (encryptStringML *)
(* and the validator's answers), or a classical sealed box (encryptMessage). *)
(* A text counts how often it is JSON-encoded as a string.                  *)
(***************************************************************************)
EXTENDS Naturals

CONSTANTS
    Wallets,   \* Wallet objects
    Keys,      \* WOTS+ keys: secret, token and position
    KeyOf,     \* the key each wallet was made with; wallets may share one
    Texts,     \* contents
    MaxSeals,  \* bound: messages sealed
    MaxPairs,  \* bound: classical keypairs a wallet makes after its first
    NoKey,     \* an empty key field
    Validator, \* the sender of answers, not a wallet of this process
    Throws,    \* a call that ends in an exception
    NoText     \* the empty string

ASSUME MessagingAssumption ==
    /\ KeyOf \in [Wallets -> Keys] /\ NoKey \notin Keys
    /\ NoKey \notin [key : Keys, set : {768, 1024}]
    /\ Validator \notin Wallets
    /\ MaxSeals \in Nat /\ MaxPairs \in Nat
    /\ Throws # NoText
    /\ \A t \in [text : Texts, quotes : 0..2] : t \notin {Throws, NoText}

Sets       == {768, 1024}
Identities == [key : Keys, set : Sets]
BoxKeys    == [owner : Wallets, pair : 0..MaxPairs, half : {"public", "secret"}]
Plain      == [text : Texts, quotes : 0..2]
(* A message keeps what its sender wrote and what was sealed for it.        *)
(* In transit: a wrong length, cut down to the overhead, flipped bits.      *)
Damages    == {"none", "size", "bare", "tag"}
Messages   == [id : 1..MaxSeals, via : {"envelope", "map", "box"}, by : Wallets \cup {Validator},
               to : Identities \cup BoxKeys, wrote : Plain, plain : Plain,
               damage : Damages]

VARIABLES
    key,      \* the key field
    set,      \* mlkem_parameter_set
    mlkem,    \* mlkem_public_key and mlkem_private_key, one keypair
    pubkey,   \* the pubkey field
    privkey,  \* the privkey field
    pairs,    \* classical keypairs made since construction
    sealed,   \* every message there is
    outcome   \* the wallet, message and result of the last read

vars == <<key, set, mlkem, pubkey, privkey, pairs, sealed, outcome>>

TypeOK ==
    /\ key \in [Wallets -> Keys \cup {NoKey}]
    /\ set \in [Wallets -> Sets]
    /\ mlkem \in [Wallets -> Identities]
    /\ pubkey \in [Wallets -> Identities \cup BoxKeys]
    /\ privkey \in [Wallets -> BoxKeys]
    /\ pairs \in [Wallets -> 0..MaxPairs]
    /\ sealed \subseteq Messages
    /\ \/ outcome = NoText
       \/ outcome \in [who : Wallets, msg : sealed, result : Plain \cup {Throws, NoText}]

-----------------------------------------------------------------------------
(* Keys.                                                                    *)

Identity(k, p) == [key |-> k, set |-> p]
OtherSet(p) == IF p = 1024 THEN 768 ELSE 1024

PublicKeyBytes(p)  == IF p = 1024 THEN 1568 ELSE 1184
CiphertextBytes(p) == IF p = 1024 THEN 1568 ELSE 1088

(* deriveMlKemKeypair: the empty identity when the wallet has no key.       *)
DeriveMlKemKeypair(w, p) == IF key[w] = NoKey THEN NoKey ELSE Identity(key[w], p)

(* generatePublicAndPrivateKeys(publicKey, privateKey).                     *)
KeyPair(w, n) ==
    [publicKey  |-> [owner |-> w, pair |-> n, half |-> "public"],
     privateKey |-> [owner |-> w, pair |-> n, half |-> "secret"]]

(* Wallet::Wallet.  The classical keypair goes into privkey and pubkey in   *)
(* that order, then initializeMLKEM overwrites pubkey.                      *)
Init ==
    /\ key = KeyOf
    /\ set \in [Wallets -> Sets]
    /\ mlkem = [w \in Wallets |-> Identity(KeyOf[w], set[w])]
    /\ privkey = [w \in Wallets |-> KeyPair(w, 0).publicKey]
    /\ pubkey = mlkem
    /\ pairs = [w \in Wallets |-> 0]
    /\ sealed = {} /\ outcome = NoText

(* The key is derived anew but the parameter set is left as it was.         *)
InitializeMLKEMUnnoted(w, p) ==
    LET q == IF p \in Sets THEN p ELSE set[w] IN
    /\ key[w] # NoKey
    /\ mlkem' = [mlkem EXCEPT ![w] = DeriveMlKemKeypair(w, q)]
    /\ pubkey' = [pubkey EXCEPT ![w] = DeriveMlKemKeypair(w, q)]
    /\ UNCHANGED <<key, set, privkey, pairs, sealed, outcome>>

(* Without the early return of a wallet that has no key.                    *)
InitializeMLKEMKeyless(w, p) ==
    LET q == IF p \in Sets THEN p ELSE set[w] IN
    /\ set' = [set EXCEPT ![w] = q]
    /\ mlkem' = [mlkem EXCEPT ![w] = DeriveMlKemKeypair(w, q)]
    /\ pubkey' = [pubkey EXCEPT ![w] = DeriveMlKemKeypair(w, q)]
    /\ UNCHANGED <<key, privkey, pairs, sealed, outcome>>

(* Any other parameter set is ignored, and the configured one used again.   *)
InitializeMLKEM(w, p) ==
    LET q == IF p \in Sets THEN p ELSE set[w] IN
    /\ key[w] # NoKey
    /\ set' = [set EXCEPT ![w] = q]
    /\ mlkem' = [mlkem EXCEPT ![w] = DeriveMlKemKeypair(w, q)]
    /\ pubkey' = [pubkey EXCEPT ![w] = DeriveMlKemKeypair(w, q)]
    /\ UNCHANGED <<key, privkey, pairs, sealed, outcome>>

(* generateMyPublicAndPrivateKeys passes privkey where the public key goes. *)
GenerateMyPublicAndPrivateKeys(w) ==
    LET new == KeyPair(w, pairs[w] + 1) IN
    /\ pairs[w] < MaxPairs
    /\ privkey' = [privkey EXCEPT ![w] = new.publicKey]
    /\ pubkey' = [pubkey EXCEPT ![w] = new.privateKey]
    /\ pairs' = [pairs EXCEPT ![w] = @ + 1]
    /\ UNCHANGED <<key, set, mlkem, sealed, outcome>>

(* The caller empties the public key field (ots_v2_vectors.cpp).            *)
ClearKey(w) ==
    /\ key[w] # NoKey
    /\ key' = [key EXCEPT ![w] = NoKey]
    /\ UNCHANGED <<set, mlkem, pubkey, privkey, pairs, sealed, outcome>>

-----------------------------------------------------------------------------
(* Sealing.                                                                 *)

NextIds == {n \in 1..MaxSeals : \A m \in sealed : m.id < n}

Add(via, by, to, wrote, plain) ==
    /\ \E n \in NextIds, damage \in Damages :
           sealed' = sealed \cup
             {[id |-> n, via |-> via, by |-> by, to |-> to, wrote |-> wrote, plain |-> plain,
               damage |-> damage]}
    /\ UNCHANGED <<key, set, mlkem, pubkey, privkey, pairs, outcome>>

(* The strict length check of encryptMessageML.                             *)
Encapsulates(w, to) == PublicKeyBytes(to.set) = PublicKeyBytes(set[w])

(* json message_json = message: one more layer of quotes.                   *)
Quoted(plain) == [plain EXCEPT !.quotes = @ + 1]

EncryptMessageML(w, to, plain) ==
    Encapsulates(w, to) /\ Add("envelope", w, to, plain, Quoted(plain))

EncryptStringML(w, to, plain) ==
    Encapsulates(w, to) /\ Add("map", w, to, plain, Quoted(plain))

(* External: the validator encrypts its response object as it is.           *)
Respond(to, plain) == Add("map", Validator, to, plain, plain)

(* encryptMessage, to the public key of a classical keypair.                *)
EncryptMessage(w, to, plain) == to \in BoxKeys /\ Add("box", w, to, plain, plain)

-----------------------------------------------------------------------------
(* Opening.                                                                 *)

(* The length of the ciphertext; a damaged one may have no valid length.    *)
CtBytes(m) == IF m.damage = "size" THEN 64 ELSE CiphertextBytes(m.to.set)

(* The configured identity alone.                                           *)
DecapsulatorConfigured(w, m) ==
    IF CtBytes(m) = CiphertextBytes(set[w]) THEN mlkem[w] ELSE NoKey

(* The private key mlkemDecryptToString decapsulates with.                  *)
Decapsulator(w, m) ==
    IF CtBytes(m) = CiphertextBytes(set[w]) THEN mlkem[w]
    ELSE IF CtBytes(m) = CiphertextBytes(OtherSet(set[w]))
         THEN DeriveMlKemKeypair(w, OtherSet(set[w]))
         ELSE NoKey

(* No tag comparison.                                                       *)
AuthenticUnchecked(identity, m) == identity.set = m.to.set

(* ML-KEM and AES-256-GCM: another identity decapsulates to another shared  *)
(* secret, with which the tag does not match.                               *)
Authentic(identity, m) == m.damage = "none" /\ identity = m.to

MlkemDecryptToString(w, m) ==
    LET identity == Decapsulator(w, m) IN
    IF identity # NoKey /\ Authentic(identity, m) THEN m.plain ELSE Throws

(* Decoded until nothing parses as a string.                                *)
UnquotedFully(plain) == [plain EXCEPT !.quotes = 0]

Stripped(plain) == [plain EXCEPT !.quotes = @ - 1]

(* The text when it parses as a JSON string, else as it is.                 *)
Unquoted(plain) == IF plain.quotes > 0 THEN Stripped(plain) ELSE plain

DecryptMessageML(w, m) ==
    LET plain == MlkemDecryptToString(w, m) IN
    IF plain = Throws THEN Throws ELSE Unquoted(plain)

(* The share of the advertised key alone.                                   *)
SharesConfigured(w) == {mlkem[w]}

(* hashShare tells public keys apart.  Both identities' shares are tried.   *)
SharesTried(w) == {mlkem[w], DeriveMlKemKeypair(w, OtherSet(set[w]))} \ {NoKey}

DecryptMyMessageML(w, m) ==
    IF m.to \in SharesTried(w) THEN MlkemDecryptToString(w, m) ELSE NoText

(* crypto_box_seal_open with the fields as they are: a pubkey of another    *)
(* length is refused, and a bare overhead is taken for an empty message.    *)
OpensBox(w, m) ==
    /\ m.damage = "none" /\ m.to = pubkey[w] /\ m.to.half = "public"
    /\ privkey[w] = [m.to EXCEPT !.half = "secret"]

DecryptMyMessage(w, m) ==
    IF pubkey[w] \notin BoxKeys THEN Throws
    ELSE IF m.damage = "bare" THEN NoText
    ELSE IF OpensBox(w, m) THEN m.plain ELSE Throws

Reads(w, m, result) ==
    /\ outcome' = [who |-> w, msg |-> m, result |-> result]
    /\ UNCHANGED <<key, set, mlkem, pubkey, privkey, pairs, sealed>>

ReadEnvelope(w, m) == m.via = "envelope" /\ Reads(w, m, DecryptMessageML(w, m))
ReadMap(w, m)      == m.via = "map"      /\ Reads(w, m, DecryptMyMessageML(w, m))
ReadBox(w, m)      == m.via = "box"      /\ Reads(w, m, DecryptMyMessage(w, m))

-----------------------------------------------------------------------------
Written == [text : Texts, quotes : {0, 1}]

Next ==
    \E w \in Wallets :
        \/ \E p \in Sets \cup {512} : InitializeMLKEM(w, p)
        \/ GenerateMyPublicAndPrivateKeys(w)
        \/ ClearKey(w)
        \/ \E plain \in Written :
              \/ \E to \in Identities :
                    \/ EncryptMessageML(w, to, plain)
                    \/ EncryptStringML(w, to, plain)
                    \/ Respond(to, plain)
              \/ \E peer \in Wallets :
                    EncryptMessage(w, KeyPair(peer, pairs[peer]).publicKey, plain)
        \/ \E m \in sealed : ReadEnvelope(w, m) \/ ReadMap(w, m) \/ ReadBox(w, m)

Spec == Init /\ [][Next]_vars

-----------------------------------------------------------------------------
(* A wallet reads every message addressed to either identity of its key,    *)
(* whatever parameter set it was configured with then and is configured     *)
(* with now, and whichever wallet object of that key reads it:              *)
(* mlkemDecryptToString is permissive, decryptMyMessageML tries both hash   *)
(* shares.  An envelope and a validator's answer are read as they were      *)
(* written; a map a wallet sealed comes back as the JSON string it was      *)
(* sealed as, since decryptMyMessageML leaves to its caller the quotes that *)
(* encryptStringML puts on.                                                 *)
OwnIdentitiesRead ==
    outcome # NoText =>
        LET w == outcome.who
            m == outcome.msg IN
        m.via # "box" /\ m.damage = "none" /\ key[w] = m.to.key =>
            outcome.result = IF m.via = "map" /\ m.by # Validator THEN Quoted(m.wrote)
                             ELSE m.wrote

(* Nothing damaged is ever read, and nothing addressed to another key:      *)
(* decapsulation with the wrong key does not fail by itself, it is the tag  *)
(* of decryptWithSharedSecret that gives it away.                           *)
OnlyAddresseeReads ==
    outcome # NoText /\ outcome.result \notin {Throws, NoText} =>
        LET m == outcome.msg IN
        /\ m.damage = "none"
        /\ m.via # "box" => m.to.key = KeyOf[outcome.who]

(* The keypair a wallet holds and advertises is always its key's identity   *)
(* at the configured set, through any initializeMLKEM and any read.         *)
AdvertisesConfigured ==
    \A w \in Wallets : mlkem[w] = Identity(KeyOf[w], set[w])

-----------------------------------------------------------------------------
(* Wallet.cpp:73, "Uses the current wallet's private key to decrypt the     *)
(* given message": a message sealed for the public key of the classical     *)
(* keypair the wallet made last is opened by decryptMyMessage.              *)
MyMessageDecrypts ==
    outcome # NoText =>
        LET w == outcome.who
            m == outcome.msg IN
        /\ m.via = "box" /\ m.damage = "none"
        /\ m.to = KeyPair(w, pairs[w]).publicKey
        /\ pubkey[w] \in BoxKeys
        => outcome.result = m.wrote
=============================================================================
