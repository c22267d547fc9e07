------------------------------ MODULE ContinuId ------------------------------
(***************************************************************************)
(* KnishIOClient (KnishIOClient.cpp) and the chain of one identity: several *)
(* client objects holding the same secret log in, create and spend through  *)
(* one validator.  Each operation reads the wallet it must sign from,       *)
(* signs a molecule that names its successor, and proposes it; the          *)
(* transport sends the same molecule again when no answer comes.  A copy    *)
(* may be lost, its answer may be lost, and a copy the client has given up  *)
(* on may still arrive.  The validator is external: its rules are the ones  *)
(* the client's code and comments rely on.                                  *)
(***************************************************************************)
EXTENDS Naturals, FiniteSets

CONSTANTS
    Clients,       \* clients of one identity, each used by one thread
    OtsVersion,    \* config.otsVersion of each client
    MaxSends,      \* 1 + maxRetries
    MaxOps,        \* bound: operations begun
    MaxPositions,  \* bound: random wallet positions taken
    None

ASSUME ChainAssumption ==
    /\ OtsVersion \in [Clients -> {1, 2}]
    /\ MaxSends \in Nat \ {0} /\ MaxOps \in Nat /\ MaxPositions \in Nat
    /\ None \notin {"accepted", "rejected", "unclear"}
    /\ None \notin [token: {"AUTH", "USER", "TOKEN"}, pos: Nat, ver: {1, 2}]

VARIABLES
    head,      \* external: the USER wallet the bundle's ContinuID names
    row,       \* external: the wallet Balance answers for the token
    accepted,  \* external: the molecules on the ledger
    effects,   \* how often the ledger changed for each operation
    inflight,  \* copies not delivered; a lost one never is
    fresh,     \* the next position a new wallet takes at random
    ops,       \* operations begun
    pc,        \* where each client's operation is
    kind,      \* which operation it is
    op,        \* its number
    mol,       \* the molecule it proposed last
    attempt,   \* the copy of it that it waits for
    verdict,   \* the status in the answer that came
    session,   \* isAuthenticated()
    signed,    \* every molecule signed
    confirmed  \* the positions each client was told are spent

vars == <<head, row, accepted, effects, inflight, fresh, ops, pc, kind, op,
          mol, attempt, verdict, session, signed, confirmed>>
ledger == <<head, row, accepted, effects>>
call   == <<kind, op, ops>>
send   == <<inflight, fresh, mol, attempt, signed>>

Kinds     == {"login", "user", "create", "value"}
Positions == 0..(MaxPositions + 2)
Wallets   == [token: {"AUTH", "USER", "TOKEN"}, pos: Positions, ver: {1, 2}]
Molecules == [by: Clients, op: 1..MaxOps, kind: Kinds, source: Wallets,
              remainder: Wallets, created: Wallets \cup {None}]
Verdicts  == {"accepted", "rejected", "unclear"}

TypeOK ==
    /\ {head, row} \subseteq Wallets \cup {None}
    /\ signed \subseteq Molecules /\ accepted \subseteq signed
    /\ effects \in [1..MaxOps -> Nat]
    /\ inflight \subseteq [mol: signed, copy: 1..MaxSends]
    /\ fresh \in Positions /\ ops \in 0..MaxOps
    /\ pc \in [Clients -> {"idle", "pointer", "head", "row", "sent", "answered"}]
    /\ kind \in [Clients -> Kinds] /\ op \in [Clients -> 0..MaxOps]
    /\ mol \in [Clients -> signed \cup {None}]
    /\ attempt \in [Clients -> 0..MaxSends]
    /\ verdict \in [Clients -> Verdicts \cup {None}]
    /\ session \in [Clients -> BOOLEAN]
    /\ confirmed \in [Clients -> SUBSET Positions]

Wallet(token, pos, ver) == [token |-> token, pos |-> pos, ver |-> ver]

(* An identity that is new, or has a chain and a token of either version;   *)
(* its clients may all have logged in before.                               *)
Init ==
    /\ head \in {None} \cup {Wallet("USER", 0, v) : v \in {1, 2}}
    /\ row \in {None} \cup {Wallet("TOKEN", 1, v) : v \in {1, 2}}
    /\ head = None => row = None
    /\ accepted = {} /\ inflight = {} /\ signed = {}
    /\ effects = [o \in 1..MaxOps |-> 0]
    /\ fresh = 2 /\ ops = 0
    /\ pc = [c \in Clients |-> "idle"]
    /\ kind = [c \in Clients |-> "login"] /\ op = [c \in Clients |-> 0]
    /\ mol = [c \in Clients |-> None] /\ attempt = [c \in Clients |-> 0]
    /\ verdict = [c \in Clients |-> None]
    /\ \E before \in BOOLEAN : session = [c \in Clients |-> before]
    /\ confirmed = [c \in Clients |-> {}]

-----------------------------------------------------------------------------
(* Operations start: requestAuthToken, then with a token the USER-signed    *)
(* createWallet, createMeta and claimShadowWallet, createToken, and         *)
(* transferToken, transferTokens, burnToken or fuseToken.                   *)

FirstQuery(k) == CASE k = "login" -> "pointer"
                   [] k \in {"user", "create"} -> "head"
                   [] k = "value" -> "row"

EnsureAuthenticated(c, k) == k # "login" => session[c]

Begin(c, k) ==
    /\ pc[c] = "idle" /\ ops < MaxOps
    /\ EnsureAuthenticated(c, k)
    /\ ops' = ops + 1
    /\ kind' = [kind EXCEPT ![c] = k]
    /\ op' = [op EXCEPT ![c] = ops + 1]
    /\ pc' = [pc EXCEPT ![c] = FirstQuery(k)]
    /\ UNCHANGED <<ledger, send, verdict, session, confirmed>>

-----------------------------------------------------------------------------
SuccessorOfConfig(c, sourceVersion) == OtsVersion[c]

(* successorOtsVersion                                                      *)
SuccessorOtsVersion(c, sourceVersion) ==
    IF sourceVersion > OtsVersion[c] THEN sourceVersion ELSE OtsVersion[c]

(* The remainder credited at the position it is signed from.                *)
RemainderInPlace(c, source, pos) ==
    Wallet(IF source.token = "TOKEN" THEN "TOKEN" ELSE "USER", source.pos,
           SuccessorOtsVersion(c, source.ver))

Remainder(c, source, pos) ==
    Wallet(IF source.token = "TOKEN" THEN "TOKEN" ELSE "USER", pos,
           SuccessorOtsVersion(c, source.ver))

(* A client's molecule, which credits wallets from this position on.        *)
Molecule(c, source, next) ==
    [by |-> c, op |-> op[c], kind |-> kind[c], source |-> source,
     remainder |-> Remainder(c, source, next),
     created |-> IF kind[c] = "create"
                 THEN Wallet("TOKEN", next + 1, OtsVersion[c]) ELSE None]

(* The molecule is built, signed and its first copy sent.  A source that is *)
(* not on the ledger sits at a random position of its own.                  *)
Propose(c, source, random) ==
    LET next == IF random THEN fresh + 1 ELSE fresh
        m == Molecule(c, source, next)
    IN  /\ next + 2 \in Positions
        /\ fresh' = IF kind[c] = "create" THEN next + 2 ELSE next + 1
        /\ mol' = [mol EXCEPT ![c] = m]
        /\ signed' = signed \cup {m}
        /\ inflight' = inflight \cup {[mol |-> m, copy |-> 1]}
        /\ attempt' = [attempt EXCEPT ![c] = 1]
        /\ pc' = [pc EXCEPT ![c] = "sent"]

(* The fresh wallet of a client that found no head.                         *)
Guess(c, token) == Wallet(token, fresh, OtsVersion[c])

(* The operation is over, its locals with it, whatever response it returns. *)
Respond(c) ==
    /\ pc' = [pc EXCEPT ![c] = "idle"]
    /\ kind' = [kind EXCEPT ![c] = "login"]
    /\ op' = [op EXCEPT ![c] = 0]
    /\ mol' = [mol EXCEPT ![c] = None]
    /\ attempt' = [attempt EXCEPT ![c] = 0]
    /\ verdict' = [verdict EXCEPT ![c] = None]
    /\ UNCHANGED <<ledger, inflight, fresh, signed, ops>>

-----------------------------------------------------------------------------
(* requestAuthToken: the pointer query failed; its error is the response.   *)
PointerFails(c) ==
    /\ pc[c] = "pointer"
    /\ Respond(c)
    /\ UNCHANGED <<session, confirmed>>

(* It signs from the USER wallet the pointer names, or, when the identity   *)
(* has no pointer, from a fresh AUTH wallet.                                *)
PointerAnswered(c) ==
    /\ pc[c] = "pointer"
    /\ IF head = None THEN Propose(c, Guess(c, "AUTH"), TRUE)
       ELSE Propose(c, head, FALSE)
    /\ UNCHANGED <<ledger, call, verdict, session, confirmed>>

(* continuIdSourceWallet: the head, or a fresh wallet when there is none.   *)
HeadAnswered(c) ==
    /\ pc[c] = "head"
    /\ IF head = None THEN Propose(c, Guess(c, "USER"), TRUE)
       ELSE Propose(c, head, FALSE)
    /\ UNCHANGED <<ledger, call, verdict, session, confirmed>>

(* Any failure of its query is taken for an identity without a head.        *)
HeadFails(c) ==
    /\ pc[c] = "head"
    /\ Propose(c, Guess(c, "USER"), TRUE)
    /\ UNCHANGED <<ledger, call, verdict, session, confirmed>>

(* resolveTokenWallet finds the row.                                        *)
RowAnswered(c) ==
    /\ pc[c] = "row" /\ row # None
    /\ Propose(c, row, FALSE)
    /\ UNCHANGED <<ledger, call, verdict, session, confirmed>>

(* No row, or a query that failed: the operation throws.                    *)
RowMissing(c) ==
    /\ pc[c] = "row"
    /\ Respond(c)
    /\ UNCHANGED <<session, confirmed>>

-----------------------------------------------------------------------------
(* executeWithRetry: the same molecule again, until the budget is spent.    *)
Resend(c) ==
    /\ pc[c] = "sent" /\ attempt[c] < MaxSends
    /\ attempt' = [attempt EXCEPT ![c] = @ + 1]
    /\ inflight' = inflight \cup {[mol |-> mol[c], copy |-> attempt[c] + 1]}
    /\ UNCHANGED <<ledger, call, fresh, pc, mol, verdict, session,
                   signed, confirmed>>

(* The budget is spent or a 4xx came.                                       *)
SendFails(c) ==
    /\ pc[c] = "sent"
    /\ Respond(c)
    /\ UNCHANGED <<session, confirmed>>

-----------------------------------------------------------------------------
(* The validator (external) looks at positions, and never at whether it has *)
(* seen the molecule before.  A chained molecule must be signed at the      *)
(* head, a value molecule at the row, a token is created once; only an      *)
(* authorization from an AUTH wallet, which no chain orders, is remembered. *)
Acceptable(m) ==
    /\ CASE m.source.token = "AUTH"  -> m \notin accepted
         [] m.source.token = "USER"  -> head = None \/ head.pos = m.source.pos
         [] m.source.token = "TOKEN" -> row # None /\ row.pos = m.source.pos
    /\ m.kind = "create" => row = None

(* "The USER remainder ... becomes the new ContinuID head", whichever       *)
(* wallet signed; a value molecule has no I atom and moves only the row.    *)
Apply(m) ==
    /\ accepted' = accepted \cup {m}
    /\ effects' = [effects EXCEPT ![m.op] = @ + 1]
    /\ head' = IF m.kind = "value" THEN head ELSE m.remainder
    /\ row' = CASE m.kind = "value"  -> m.remainder
                [] m.kind = "create" -> m.created
                [] OTHER             -> row

(* A copy arrives.  A login may be turned down for its rate alone.  The     *)
(* answer reaches the client if it still waits for this copy and the answer *)
(* is not lost; it may carry no verdict the client knows.                   *)
Deliver(p) ==
    \E admitted \in (IF p.mol.kind = "login" THEN BOOLEAN ELSE {TRUE}),
       told \in BOOLEAN, known \in BOOLEAN :
    LET m == p.mol
        c == m.by
        ok == Acceptable(m) /\ admitted
        waited == pc[c] = "sent" /\ mol[c] = m /\ attempt[c] = p.copy
    IN  /\ p \in inflight
        /\ inflight' = inflight \ {p}
        /\ IF ok THEN Apply(m) ELSE UNCHANGED ledger
        /\ IF waited /\ told
           THEN /\ pc' = [pc EXCEPT ![c] = "answered"]
                /\ verdict' = [verdict EXCEPT ![c] =
                      CASE ~known -> "unclear"
                        [] known /\ ok -> "accepted"
                        [] OTHER -> "rejected"]
           ELSE known /\ UNCHANGED <<pc, verdict>>
        /\ UNCHANGED <<call, fresh, mol, attempt, session, signed, confirmed>>

-----------------------------------------------------------------------------
(* An answer in the client's hands: what it learns from it.                 *)
Learn(c) ==
    confirmed' = IF verdict[c] = "accepted"
                 THEN [confirmed EXCEPT ![c] = @ \cup {mol[c].source.pos}]
                 ELSE confirmed

(* The fallback is taken whenever no token came and the status is not an    *)
(* acceptance: getStatus() answers "unknown" for a status that is missing.  *)
FallsBackAgain(c) == kind[c] = "login" /\ verdict[c] # "accepted"
FallsBack(c) ==
    /\ kind[c] = "login" /\ mol[c].source.token = "USER"
    /\ verdict[c] # "accepted"

Returns(c) ==
    /\ pc[c] = "answered" /\ ~FallsBack(c)
    /\ Learn(c)
    /\ session' = [session EXCEPT ![c] =
                      @ \/ (kind[c] = "login" /\ verdict[c] = "accepted")]
    /\ Respond(c)

Fallback(c) ==
    /\ pc[c] = "answered" /\ FallsBack(c)
    /\ Propose(c, Guess(c, "AUTH"), TRUE)
    /\ verdict' = [verdict EXCEPT ![c] = None]
    /\ UNCHANGED <<ledger, call, session, confirmed>>

-----------------------------------------------------------------------------
Next ==
    \/ \E c \in Clients :
        \/ \E k \in Kinds : Begin(c, k)
        \/ PointerFails(c) \/ PointerAnswered(c)
        \/ HeadFails(c) \/ HeadAnswered(c)
        \/ RowMissing(c) \/ RowAnswered(c)
        \/ Resend(c) \/ SendFails(c)
        \/ Returns(c) \/ Fallback(c)
    \/ \E p \in inflight : Deliver(p)

Spec == Init /\ [][Next]_vars

-----------------------------------------------------------------------------
(* One login signs at most two authorization molecules, and a second one    *)
(* only from an AUTH wallet: CHANGELOG.md:238, requestAuthToken.            *)
AtMostTwoLogins ==
    \A m \in signed : m.kind = "login" =>
        LET login == {n \in signed : n.op = m.op} IN
        /\ Cardinality(login) <= 2
        /\ Cardinality({n \in login : n.source.token = "AUTH"}) <= 1

(* However many copies of its molecule arrive, and however late, an         *)
(* operation other than a login changes the ledger once: executeWithRetry   *)
(* sends the same molecule again, and a copy of one that was applied names  *)
(* a position that neither the head nor the row ever returns to.            *)
EffectOnce ==
    \A m \in accepted : m.kind # "login" => effects[m.op] = 1

(* Value and the chain never rest on a position that signed a molecule      *)
(* already accepted, where no later molecule could spend them.              *)
NothingStranded ==
    \A m \in accepted : \A w \in {head, row} \ {None} : w.pos # m.source.pos

(* A client never signs again at a position it was told is spent: every     *)
(* operation reads the head or the row anew.                                *)
SpentStaysSpent ==
    [][\A m \in signed' \ signed : m.source.pos \notin confirmed[m.by]]_vars

(* The OTS version of the head or of the row never falls, whoever signs and *)
(* however late: successorOtsVersion.  Only a login signed from an AUTH     *)
(* wallet may lower the head's, to the version its client is configured at. *)
VersionKept ==
    [][/\ head # None /\ head'.ver < head.ver =>
             \E m \in accepted' \ accepted :
                 m.source.token = "AUTH" /\ head'.ver = OtsVersion[m.by]
       /\ row # None => row'.ver >= row.ver]_vars
=============================================================================
