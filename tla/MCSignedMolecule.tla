--------------------------- MODULE MCSignedMolecule ---------------------------
(* Instances of SignedMolecule for TLC.                                     *)
EXTENDS SignedMolecule

(* A key of version 1 is shorter than a hash, one of version 2 as long.     *)
TwoAndThree == << 2, 3 >>

(* Balanced; out of balance either way by little, by more than one walk     *)
(* over the symbols can mend, and with symbols that can move no further.    *)
SomeSymbols ==
    { << 1, 0, -1 >>, << 0, 2, -1 >>, << -2, 1, -1 >>, << 2, 2, 2 >>,
      << -2, -2, -1 >>, << -2, 2, 2 >> }

(* Texts that no number of atoms up to five divides evenly, all but one     *)
(* leaving an atom without a chunk for some number of atoms.                *)
Lengths == [x \in {1, 2} \X BOOLEAN |->
    CASE x = <<1, TRUE>>  -> 4
      [] x = <<1, FALSE>> -> 6
      [] x = <<2, TRUE>>  -> 8
      [] x = <<2, FALSE>> -> 12]
=============================================================================
