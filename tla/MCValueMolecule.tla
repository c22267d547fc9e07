--------------------------- MODULE MCValueMolecule ---------------------------
(* Instances of ValueMolecule for TLC.                                      *)
EXTENDS ValueMolecule

SomeAmounts  == -3..7
SomeBalances == 0..8
=============================================================================
