----------------------------- MODULE WalletKeys -----------------------------
(***************************************************************************)
(* How a wallet's key and address come from its secret, token and position  *)
(* (Wallet.cpp), and how the OTS version of an address is found again       *)
(* (detectOtsVersion, and KnishIOClient's bindOwnWalletOtsVersion).  Hash   *)
(* values are what was hashed: two are equal when their inputs are.         *)
(***************************************************************************)
EXTENDS HexNumbers

CONSTANTS
    Shake256(_),  \* the hexadecimal digits a text that is not a numeral hashes to
    NoVersion     \* no version matches

ASSUME VersionAssumption == NoVersion \notin {1, 2}

(* Characters are the digits of Base and two more.                          *)
Bar    == Base
Letter == Base + 1
Chars  == 0..Letter

(* The domain tag ends in the delimiter.                                    *)
Tag == <<Letter, Bar>>

CheckedOtsVersion(version) == version \in {1, 2}

(* Stage 0 of generateWalletKey.                                            *)
Normalized(text) == IF IsValidHex(text) THEN text ELSE Shake256(text)

IndexedKey(secret, position) == ConstantTimeHexAdd(Normalized(secret), Normalized(position))

(* No delimiter between the numeral and the token.                          *)
SpongeUndelimited(indexed, token, version) ==
    IF version = 2 THEN Tag \o indexed \o token ELSE indexed \o token

(* What the key is hashed from.                                             *)
Sponge(indexed, token, version) ==
    IF version = 2 THEN Tag \o indexed \o <<Bar>> \o token ELSE indexed \o token

GenerateWalletKey(secret, token, position, version) ==
    IF ~CheckedOtsVersion(version) \/ secret = <<>> \/ position = <<>> THEN Throws
    ELSE [sponge |-> Sponge(IndexedKey(secret, position), token, version),
          chunks |-> IF version = 2 THEN 64 ELSE 16]

(* The digest of the hashed chunks; hexadecimal, in lower case.             *)
GenerateWalletAddress(key) == [of |-> key, upper |-> FALSE]

(* Only the version the caller would rather have.                           *)
CandidatesPreferred(preferred) == <<preferred>>

Candidates(preferred) == <<preferred, IF preferred = 1 THEN 2 ELSE 1>>

(* The first version under which the secret makes the address.              *)
DetectOtsVersion(secret, token, position, address, preferred) ==
    LET wanted == [address EXCEPT !.upper = FALSE]
        matches(version) == wanted = GenerateWalletAddress(
                                GenerateWalletKey(secret, token, position, version))
        at == SelectInSeq(Candidates(preferred), matches)
    IN  IF ~CheckedOtsVersion(preferred) THEN Throws
        ELSE IF secret = <<>> \/ position = <<>> THEN NoVersion
        ELSE IF at = 0 THEN NoVersion ELSE Candidates(preferred)[at]

(* The version to sign from a wallet of the ledger with.                    *)
BindOwnWalletOtsVersion(secret, token, position, address, preferred) ==
    IF position = <<>> \/ address = <<>> THEN preferred
    ELSE LET version == DetectOtsVersion(secret, token, position, address, preferred) IN
         IF version = NoVersion THEN Throws ELSE version
=============================================================================
