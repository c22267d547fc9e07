---------------------------- MODULE SignedMolecule ----------------------------
(***************************************************************************)
(* A molecule signed and verified (Molecule.cpp): sign hashes the atoms,    *)
(* runs every chunk of the source wallet's key along a hash chain whose     *)
(* length a symbol of the molecular hash gives, and spreads the text of the *)
(* signature over the atoms; verifyOts runs each chain to its end.          *)
(* verifyFromServerData checks the molecule as a validator serves it, with  *)
(* or without the versions its atoms were hashed under.  Hashing is         *)
(* injective in the text it is given, which leaves some of an atom out, and *)
(* its symbols are arbitrary; a text is its characters' places.             *)
(***************************************************************************)
EXTENDS Integers, SequencesExt

CONSTANTS
    HashLength,   \* symbols of a molecular hash: 64 in the code
    Reach,        \* symbols lie in -Reach..Reach: 8
    Symbols,      \* the enumerated hashes that occur
    Chains,       \* chains of a key of OTS version 1 and 2: 16 and 64
    TextLength,   \* characters of a signature, [version, compressed]
    MaxAtoms,     \* bound: atoms of a molecule
    MaxSigns,     \* bound: how often it is signed
    None

ASSUME SignAssumption ==
    /\ HashLength \in Nat \ {0} /\ Reach \in Nat \ {0}
    /\ Symbols # {} /\ Symbols \subseteq [1..HashLength -> -Reach..Reach]
    /\ Chains \in [{1, 2} -> 1..HashLength]
    /\ TextLength \in [{1, 2} \X BOOLEAN -> Nat \ {0}]
    /\ MaxAtoms \in Nat \ {0} /\ MaxSigns \in Nat
    /\ None \notin BOOLEAN /\ None \notin {"3", "4"}

VARIABLES
    atoms,     \* text, cut, index, version and otsFragment of each
    address,   \* the OTS version atoms[0].walletAddress was derived at
    source,    \* the sourceWallet is set: signingOtsVersion reads it
    stamp,     \* the version its maker gives every atom
    hash,      \* what molecularHash was computed from
    symbols,   \* molecularHash, enumerated
    sigs,      \* every signature made: its OTS version, form, chain lengths
    served,    \* it came from a validator
    verified   \* the last ServedVerification

vars == <<atoms, address, source, stamp, hash, symbols, sigs, served, verified>>

Versions == {None, "3", "4"}
Hashes   == [1..HashLength -> -Reach..Reach]

(* The i-th atom a builder makes.  text is what its fields hold, written    *)
(* one after the other; cut is where one of them ends and the next begins.  *)
NewAtom(i, version) ==
    [text |-> i, cut |-> "made", index |-> i, version |-> version, fragment |-> << >>]

Init ==
    /\ stamp \in Versions
    /\ atoms = << NewAtom(1, stamp) >>
    /\ address \in {1, 2} /\ source \in BOOLEAN
    /\ hash = None /\ symbols = [i \in 1..HashLength |-> 0]
    /\ sigs = << >> /\ served = FALSE /\ verified = None

-----------------------------------------------------------------------------
(* The hash and its symbols.                                                *)

(* hashAtoms.  When every atom has a version, version4ViewJson: an entry    *)
(* for each atom, its fields named, ordered by index.  Otherwise the fields *)
(* of the atoms as they are listed, joined with nothing in between; neither *)
(* the index nor a version some of them have is looked at.                  *)
View(as) ==
    IF \A i \in DOMAIN as : as[i].version # None
    THEN LET Entries(n) == {<<as[i].text, as[i].cut, as[i].version>> :
                               i \in {j \in DOMAIN as : as[j].index = n}}
         IN  [n \in {as[i].index : i \in DOMAIN as} |-> Entries(n)]
    ELSE [i \in DOMAIN as |-> {<<as[i].text>>}]

Total(s) == FoldSeq(+, 0, s)

MovableFurther(s, i) == IF Total(s) < 0 THEN s[i] <= Reach ELSE s[i] >= -Reach
Movable(s, i) == IF Total(s) < 0 THEN s[i] < Reach ELSE s[i] > -Reach

(* One walk of normalize over the symbols: in order, each that can is moved *)
(* towards a zero sum until the sum is zero.                                *)
Walk(s) ==
    LET need == IF Total(s) < 0 THEN -Total(s) ELSE Total(s)
        moved(i) == Movable(s, i) /\
            Cardinality({j \in 1..(i - 1) : Movable(s, j)}) < need
    IN  [i \in DOMAIN s |-> IF ~moved(i) THEN s[i]
                            ELSE IF Total(s) < 0 THEN s[i] + 1 ELSE s[i] - 1]

normalize(hashed) ==
    LET walked[s \in [1..HashLength -> Int]] ==
            IF Total(s) = 0 THEN s ELSE walked[Walk(s)]
    IN  walked[hashed]

-----------------------------------------------------------------------------
(* sign                                                                     *)

(* A wallet's key has as many chunks as its OTS version has chains.         *)
SigningOtsVersion == IF source THEN address ELSE 1

(* Each chunk hashed 8 - n times.                                           *)
Signature(s, compressed) ==
    [ver |-> SigningOtsVersion, compressed |-> compressed,
     steps |-> [i \in 1..Chains[SigningOtsVersion] |-> Reach - normalize(s)[i]]]

Text(n, sig) == [k \in 1..TextLength[sig.ver, sig.compressed] |-> <<n, k>>]

(* The nearest whole number of characters per atom.                         *)
ChunkSizeRounded(length, n) ==
    IF (2 * length + n) \div (2 * n) = 0 THEN 1 ELSE (2 * length + n) \div (2 * n)
ChunkSize(length, n) == (length + n - 1) \div n

(* The chunks go to the atoms in order; an atom past the last chunk keeps   *)
(* the fragment it had.                                                     *)
Spread(text) ==
    LET size == ChunkSize(Len(text), Len(atoms))
    IN  [i \in DOMAIN atoms |->
            IF (i - 1) * size >= Len(text) THEN atoms[i]
            ELSE [atoms[i] EXCEPT !.fragment =
                    SubSeq(text, (i - 1) * size + 1,
                           IF i * size > Len(text) THEN Len(text) ELSE i * size)]]

Sign(compressed) ==
    /\ ~served /\ Len(sigs) < MaxSigns
    /\ hash' = View(atoms)
    /\ IF hash = View(atoms) THEN UNCHANGED symbols ELSE symbols' \in Symbols
    /\ sigs' = Append(sigs, Signature(symbols', compressed))
    /\ atoms' = Spread(Text(Len(sigs'), sigs'[Len(sigs')]))
    /\ UNCHANGED <<address, source, stamp, served, verified>>

(* A builder appends to the atoms, one at a time here, of a molecule that   *)
(* may have been signed already.                                            *)
AddAtom ==
    /\ ~served /\ Len(atoms) < MaxAtoms
    /\ atoms' = Append(atoms, NewAtom(Len(atoms) + 1, stamp))
    /\ UNCHANGED <<address, source, stamp, hash, symbols, sigs, served, verified>>

-----------------------------------------------------------------------------
(* verifyOts: the fragments put together again are one whole signature, as  *)
(* many chains as the address has, each chain run 8 + n further at its end. *)
Assembled == FlattenSeq([i \in DOMAIN atoms |-> atoms[i].fragment])

VerifyOts ==
    \E n \in DOMAIN sigs :
        /\ Assembled = Text(n, sigs[n])
        /\ sigs[n].ver = address
        /\ \A i \in DOMAIN sigs[n].steps :
              sigs[n].steps[i] + Reach + normalize(symbols)[i] = 2 * Reach

VerifyMolecularHash(as) == hash = View(as)

(* verifyClient, each atom's version replaced when one is forced.           *)
Forced(version) == [i \in DOMAIN atoms |-> [atoms[i] EXCEPT !.version = version]]

VerifyClient(as) == VerifyMolecularHash(as) /\ VerifyOts

RetryableAlways == TRUE
Retryable == \A i \in DOMAIN atoms : atoms[i].version = None

(* verifyFromServerData: as served, then, when the hash does not match and  *)
(* no atom came with a version, as version 4 and as version 3.              *)
VerifyOnce == VerifyClient(atoms)
VerifyFromServerData ==
    \/ VerifyClient(atoms)
    \/ /\ ~VerifyMolecularHash(atoms) /\ Retryable
       /\ VerifyClient(Forced("4")) \/ VerifyClient(Forced("3"))

-----------------------------------------------------------------------------
(* An atom's text is another, the fields of one end elsewhere in the same   *)
(* text, two atoms exchange their index, or no atom has one: jsonToObject   *)
(* then reads the first's.                                                  *)
Exchanged(as, i, j) == [as EXCEPT ![i].index = as[j].index, ![j].index = as[i].index]
Unindexed(as) == [i \in DOMAIN as |-> [as[i] EXCEPT !.index = 1]]

Changes(as) ==
    {as, Unindexed(as)}
    \cup {[as EXCEPT ![i].text = 0] : i \in DOMAIN as}
    \cup {[as EXCEPT ![i].cut = "moved"] : i \in DOMAIN as}
    \cup {Exchanged(as, i, j) : i, j \in DOMAIN as}

(* The molecule is submitted, stored and served again, its atoms with some, *)
(* all or none of their versions, or versions of the server's own, and      *)
(* perhaps changed.                                                         *)
Serve ==
    /\ ~served /\ hash # None
    /\ served' = TRUE
    /\ \E versions \in [DOMAIN atoms -> Versions], changed \in Changes(atoms) :
          atoms' = [i \in DOMAIN atoms |-> [changed[i] EXCEPT !.version = versions[i]]]
    /\ UNCHANGED <<address, source, stamp, hash, symbols, sigs, verified>>

Verify ==
    /\ served /\ verified = None
    /\ verified' = VerifyFromServerData
    /\ UNCHANGED <<atoms, address, source, stamp, hash, symbols, sigs, served>>

Next ==
    \/ AddAtom \/ Serve \/ Verify
    \/ \E compressed \in BOOLEAN : Sign(compressed)

Spec == Init /\ [][Next]_vars
-----------------------------------------------------------------------------
AllVersions(v) == \A i \in DOMAIN atoms : atoms[i].version = v

(* No atom holds a fragment of an earlier signature, and the last one was   *)
(* made at the version of the address it is checked against.                *)
WellSigned ==
    /\ sigs # << >> /\ sigs[Len(sigs)].ver = address
    /\ \A i \in DOMAIN atoms : \A char \in Range(atoms[i].fragment) :
          char[1] = Len(sigs)

(* The symbols a signature is made from sum to zero, are symbols, and were  *)
(* all moved the same way: normalize.                                       *)
NormalizedBalanced ==
    LET n == normalize(symbols) IN
    /\ Total(n) = 0 /\ n \in Hashes
    /\ \/ \A i \in DOMAIN n : n[i] >= symbols[i]
       \/ \A i \in DOMAIN n : n[i] <= symbols[i]

(* However often a molecule was signed and added to, for every number of    *)
(* atoms and form of the text, the signature made last is accepted unless   *)
(* an atom is left with a piece of an earlier one: sign and verifyOts.      *)
SignatureAccepted ==
    ~served /\ hash = View(atoms) /\ WellSigned => VerifyOts

(* The atoms hold what was made; an index is only looked at in the order of *)
(* a hash over versions.                                                    *)
Texts == \A i \in DOMAIN atoms : atoms[i].text = i
Cuts == \A i \in DOMAIN atoms : atoms[i].cut = "made"
Indexed == \A i \in DOMAIN atoms : atoms[i].index = i

(* A molecule nobody changed verifies whether its validator serves it with  *)
(* the versions its maker hashed or with none, and without its indices when *)
(* the hash covers none: verifyFromServerData's retries.                    *)
GenuineVerifies ==
    /\ verified = FALSE /\ WellSigned /\ Texts /\ Cuts /\ (stamp # None => Indexed)
    /\ Len(atoms) = Len(hash)
    => ~(AllVersions(stamp) \/ AllVersions(None))

(* A molecule hashed over its versions verifies only with every atom, field *)
(* and index that was hashed, those versions or none at all.  Of one hashed *)
(* without them the fields' characters must be the ones hashed, in order:   *)
(* not where each field ends, nor an index, nor versions on some atoms.  No *)
(* atom added since, and no piece of an earlier signature, verifies.        *)
ChangedRefused ==
    verified = TRUE =>
        /\ WellSigned /\ Len(atoms) = Len(hash) /\ Texts
        /\ IF stamp = None THEN \E i \in DOMAIN atoms : atoms[i].version = None
           ELSE Cuts /\ Indexed /\ (AllVersions(stamp) \/ AllVersions(None))
=============================================================================
