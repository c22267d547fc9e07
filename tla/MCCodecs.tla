------------------------------ MODULE MCCodecs ------------------------------
(* An instance of Codecs for TLC: digits of base 4, limbs of two digits,    *)
(* bytes of four bits and base64 symbols of three.                          *)
EXTENDS Codecs

(* Two digits for each character.                                           *)
Digits(text) == FlattenSeq([i \in DOMAIN text |-> <<text[i] \div 4, text[i] % 4>>])

SomeSecrets == {<<0>>, <<1>>, <<1, 0>>, <<0, 1>>, <<3, 3>>, <<Letter>>}
SomeTokens == {<<>>, <<0>>, <<1>>, <<Bar>>, <<Letter>>, <<0, 1>>, <<Bar, 0>>, <<0, Bar>>, <<Letter, Bar>>}
SomePositions == {<<0>>, <<1>>}
SomeYears == {0, 1900, 1969, 1970, 1999, 2000, 2023, 2024, 2100}
SomeOffsets == {0, 60, -60, 345, -720, 6039}
SomeFractions == {<<>>, <<5>>, <<0, 5>>, <<1, 1, 0>>, <<9, 9, 9, 9>>}
=============================================================================
