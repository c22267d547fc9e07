----------------------------- MODULE MCTransport -----------------------------
(* Instances of Transport for TLC.                                          *)
EXTENDS Transport, TLC

OneRetry == {[maxRetries |-> 1, initialDelay |-> 1, multiplier |-> 2, maxDelay |-> 2]}

(* The limit may fall while a call is retrying.                             *)
CappedBackoff ==
    {[maxRetries |-> 3, initialDelay |-> 1, multiplier |-> 3, maxDelay |-> 2],
     [maxRetries |-> 1, initialDelay |-> 2, multiplier |-> 2, maxDelay |-> 2]}

(* The queries and molecules the client sends, as KnishIOClient.cpp writes  *)
(* them; a ContinuID query under a name of the caller's, and in shorthand;  *)
(* and a balance query that is named like an operation of the login.        *)
Asked(keyword, name, field, isotopes) ==
    [keyword |-> keyword, name |-> name, field |-> field, isotopes |-> isotopes]

ClientOperations ==
    {Asked("query", "ContinuId", "ContinuId", <<>>),
     Asked("", "", "ContinuId", <<>>),
     Asked("query", "Head", "ContinuId", <<>>),
     Asked("query", "", "__schema", <<>>),
     Asked("mutation", "", "AccessToken", <<>>),
     Asked("query", "Wallets", "wallets", <<>>),
     Asked("query", "", "Balance", <<>>),
     Asked("query", "ContinuId", "Balance", <<>>),
     Asked("mutation", "ProposeMolecule", "ProposeMolecule", <<"U", "I">>),
     Asked("mutation", "ProposeMolecule", "ProposeMolecule", <<"V", "V">>)}

LoginAndTransfer ==
    {Asked("query", "Head", "ContinuId", <<>>),
     Asked("mutation", "ProposeMolecule", "ProposeMolecule", <<"V", "V">>)}

(* Calls, handles and wallets are only compared.                            *)
Interchangeable ==
    Permutations(Calls) \cup Permutations(Handles) \cup Permutations(Wallets)
=============================================================================
