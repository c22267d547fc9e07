--------------------------- MODULE MCSecretStorage ---------------------------
(* Instances of SecretStorage for TLC.                                      *)
EXTENDS SecretStorage, TLC

(* Threads and secrets are only compared, never told apart by the module.   *)
Interchangeable == Permutations(Threads) \cup Permutations(Secrets)
=============================================================================
