----------------------------- MODULE MCContinuId -----------------------------
(* An instance of ContinuId for TLC.                                        *)
EXTENDS ContinuId, TLC

CONSTANTS c1, c2

Both  == {c1, c2}
Mixed == c1 :> 1 @@ c2 :> 2
=============================================================================
