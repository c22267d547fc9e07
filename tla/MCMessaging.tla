----------------------------- MODULE MCMessaging -----------------------------
(* Instances of Messaging for TLC.                                          *)
EXTENDS Messaging, TLC

CONSTANTS a1, a2, ka, kb

(* Two wallet objects of one key, which may differ in their parameter set;  *)
(* messages are addressed to a stranger's key too.                          *)
OneKey == a1 :> ka @@ a2 :> ka
=============================================================================
