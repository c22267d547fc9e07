------------------------------ MODULE Transport ------------------------------
(***************************************************************************)
(* The GraphQL transport of the client: GraphQLClient.cpp.  Every query,   *)
(* mutate or execute is a call run on a thread of its own (std::async); it  *)
(* tries the request up to maxRetries + 1 times with exponential backoff,  *)
(* seals it in the ML-KEM CipherHash envelope when encryption is on, and   *)
(* shares with every other call the cipher context, the pool of CURL       *)
(* handles and the statistics.  The setters take no lock, so they may run  *)
(* between any two steps of a call: the gate reads the switch, the wallet  *)
(* and the key at a step each, seals at another and performs at a last.    *)
(***************************************************************************)
EXTENDS Integers, FiniteSets, Sequences

CONSTANTS
    Calls,         \* the calls made through one client, each made once
    Operations,    \* the GraphQL operations they may ask for
    Wallets,       \* the wallets a cipher context may hold
    NoWallet,      \* the null shared_ptr
    Handles,       \* CURL handles curl_easy_init may return
    NoHandle,
    RetryConfigs,  \* the RetryConfig values in use
    MaxReconfig,   \* bound: how often the setters are called
    MaxPolls       \* bound: how often getStats is called

ASSUME TransportAssumption ==
    /\ IsFiniteSet(Calls)
    /\ NoWallet \notin Wallets
    /\ NoHandle \notin Handles
    /\ RetryConfigs # {} /\ IsFiniteSet(RetryConfigs)
    /\ RetryConfigs \subseteq [maxRetries: Int, initialDelay: Nat,
                               multiplier: Nat, maxDelay: Nat]
    /\ MaxReconfig \in Nat
    /\ MaxPolls \in Nat

(* The words parseOperation looks for.                                      *)
Keywords == {"query", "mutation", "subscription"}

(* An operation: the keyword it is written with (none is shorthand for a    *)
(* query), its own name if it has one, the field it asks for, and the       *)
(* isotopes of the atoms of variables.molecule, if it carries a molecule.   *)
ASSUME OperationsAssumption ==
    Operations \subseteq [keyword: {"query", "mutation", ""},
                          name: STRING \ ({"open"} \cup Keywords),
                          field: STRING \ ({"", "open"} \cup Keywords),
                          isotopes: Seq(STRING)]

(* serverPubKey: the unset optional, the empty string, a string that is no  *)
(* ML-KEM key, or a key the validator holds.                                *)
PubKeys == {"none", "empty", "malformed", "valid"}

(* statusCode by class; "unset" is a Response whose statusCode was never    *)
(* written, "0" the transport failure.                                      *)
Statuses == {"unset", "0", "2xx", "3xx", "4xx", "5xx"}

(* What the body of the returned Response holds.                            *)
Bodies == {"none", "plain", "opened", "envelope"}

Unread == -1

NoPoll == [total |-> Unread, failed |-> Unread, first |-> "none"]

VARIABLES
    \* GraphQLClient::Impl
    cipherEnabled, cipherWallet, serverPubKey, retryConfig,
    assigning,    \* the key a setCipherContext has yet to assign
    totalRequests, failedRequests, retryCount, lastRequestSucceeded,
    idle,         \* curlHandles, the pool
    created,      \* every handle curl_easy_init has returned
    \* the locals of each running call
    operation, pc, attempt, delay, held, sealedFor, status, body,
    \* observation
    slept,        \* milliseconds each call has waited
    wire,         \* the requests that reached the network
    stable,       \* sealed calls whose cipher wallet was not replaced since
    covered,      \* calls whose attempt has had encryption on from its start
    reconfigs, polls,
    poll          \* what the running getStats has loaded

(* What the calls read and no call writes.                                  *)
config == <<operation, cipherEnabled, cipherWallet, serverPubKey, retryConfig,
            assigning, reconfigs>>
stats  == <<totalRequests, failedRequests, retryCount, lastRequestSucceeded>>
pool   == <<idle, created>>
locals == <<pc, attempt, delay, held, sealedFor, status, body>>
seen   == <<slept, wire, stable, covered>>
polling == <<polls, poll>>
vars   == <<config, stats, pool, locals, seen, polling>>

-----------------------------------------------------------------------------
Message == [call: Calls, attempt: Nat, sealedFor: Wallets \cup {NoWallet}]

(* Inside executeInternal, with a CURL handle.                              *)
InFlight == {"gate", "wallet", "key", "seal", "perform", "inflight"}

Ended == {"done", "thrown"}

Settled == "settled"

TypeOK ==
    /\ cipherEnabled \in BOOLEAN
    /\ cipherWallet \in Wallets \cup {NoWallet}
    /\ serverPubKey \in PubKeys /\ assigning \in PubKeys \cup {Settled}
    /\ retryConfig \in RetryConfigs
    /\ reconfigs \in Nat
    /\ totalRequests \in Nat /\ failedRequests \in Nat /\ retryCount \in Nat
    /\ lastRequestSucceeded \in BOOLEAN
    /\ idle \subseteq Handles /\ created \subseteq Handles
    /\ operation \in [Calls -> Operations]
    /\ pc \in [Calls -> {"new", "loop", "ready"} \cup InFlight \cup Ended]
    /\ attempt \in [Calls -> Nat]
    /\ delay \in [Calls -> Nat]
    /\ held \in [Calls -> Handles \cup {NoHandle}]
    /\ sealedFor \in [Calls -> Wallets \cup {NoWallet}]
    /\ status \in [Calls -> Statuses]
    /\ body \in [Calls -> Bodies]
    /\ slept \in [Calls -> Nat]
    /\ wire \subseteq Message
    /\ stable \subseteq Calls /\ covered \subseteq Calls
    /\ polls \in Nat
    /\ poll \in [total: Nat \cup {Unread}, failed: Nat \cup {Unread},
                 first: {"none", "total", "failed"}]

Init ==
    /\ cipherEnabled = FALSE /\ cipherWallet = NoWallet /\ serverPubKey = "none"
    /\ assigning = Settled
    /\ retryConfig \in RetryConfigs
    /\ reconfigs = 0
    /\ totalRequests = 0 /\ failedRequests = 0 /\ retryCount = 0
    /\ lastRequestSucceeded = FALSE
    /\ idle = {} /\ created = {}
    /\ operation \in [Calls -> Operations]
    /\ pc = [c \in Calls |-> "new"]
    /\ attempt = [c \in Calls |-> 0]
    /\ delay = [c \in Calls |-> 0]
    /\ held = [c \in Calls |-> NoHandle]
    /\ sealedFor = [c \in Calls |-> NoWallet]
    /\ status = [c \in Calls |-> "unset"]
    /\ body = [c \in Calls |-> "none"]
    /\ slept = [c \in Calls |-> 0]
    /\ wire = {} /\ stable = {} /\ covered = {}
    /\ polls = 0 /\ poll = NoPoll

-----------------------------------------------------------------------------
(* The setters.                                                             *)

Reconfigure == reconfigs < MaxReconfig /\ reconfigs' = reconfigs + 1

SetEncryption(encrypt) ==
    /\ Reconfigure
    /\ cipherEnabled' = encrypt
    /\ covered' = IF encrypt THEN covered ELSE {}
    /\ UNCHANGED <<operation, cipherWallet, serverPubKey, retryConfig, assigning,
                   stats, pool, locals, slept, wire, stable, polling>>

(* setCipherContext assigns the wallet, then the key.  The client hands it  *)
(* the wallet it has just logged in with and withdraws none.                *)
SetCipherContext(wallet, key) ==
    /\ Reconfigure
    /\ assigning = Settled
    /\ wallet = NoWallet => cipherWallet = NoWallet
    /\ cipherWallet' = wallet /\ assigning' = key
    /\ stable' = IF wallet = cipherWallet THEN stable ELSE {}
    /\ UNCHANGED <<operation, cipherEnabled, serverPubKey, retryConfig, stats,
                   pool, locals, slept, wire, covered, polling>>

(* The key is assigned from a string: never "none" again.                   *)
SetServerPubKey ==
    /\ assigning # Settled
    /\ serverPubKey' = assigning /\ assigning' = Settled
    /\ UNCHANGED <<operation, cipherEnabled, cipherWallet, retryConfig, reconfigs, stats,
                   pool, locals, seen, polling>>

SetRetryConfig(new) ==
    /\ Reconfigure
    /\ retryConfig' = new
    /\ UNCHANGED <<operation, cipherEnabled, cipherWallet, serverPubKey, assigning,
                   stats, pool, locals, seen, polling>>

-----------------------------------------------------------------------------
(* executeWithRetry.                                                        *)

Start(c) ==
    /\ pc[c] = "new"
    /\ pc' = [pc EXCEPT ![c] = "loop"]
    /\ delay' = [delay EXCEPT ![c] = retryConfig.initialDelay]
    /\ UNCHANGED <<config, stats, pool, attempt, held, sealedFor, status, body,
                   seen, polling>>

FirstIteration(c) ==
    /\ pc[c] = "loop" /\ attempt[c] = 0
    /\ attempt[c] <= retryConfig.maxRetries
    /\ pc' = [pc EXCEPT ![c] = "ready"]
    /\ UNCHANGED <<config, stats, pool, attempt, delay, held, sealedFor, status,
                   body, seen, polling>>

(* A backoff without its ceiling.                                           *)
NextDelayUncapped(d) == d * retryConfig.multiplier

(* Exponential, up to the ceiling.                                          *)
NextDelay(d) ==
    LET grown == d * retryConfig.multiplier
    IN  IF grown > retryConfig.maxDelay THEN retryConfig.maxDelay ELSE grown

Backoff(c) ==
    /\ pc[c] = "loop" /\ attempt[c] > 0
    /\ attempt[c] <= retryConfig.maxRetries
    /\ pc' = [pc EXCEPT ![c] = "ready"]
    /\ slept' = [slept EXCEPT ![c] = @ + delay[c]]
    /\ delay' = [delay EXCEPT ![c] = NextDelay(@)]
    /\ retryCount' = retryCount + 1
    /\ UNCHANGED <<config, totalRequests, failedRequests, lastRequestSucceeded,
                   pool, attempt, held, sealedFor, status, body,
                   wire, stable, covered, polling>>

(* A loop that ends when the attempts equal the limit instead of passing it.*)
GiveUpExactly(c) ==
    /\ pc[c] = "loop"
    /\ attempt[c] = retryConfig.maxRetries + 1
    /\ pc' = [pc EXCEPT ![c] = "done"]
    /\ failedRequests' = failedRequests + 1
    /\ lastRequestSucceeded' = FALSE
    /\ UNCHANGED <<config, totalRequests, retryCount, pool, attempt, delay, held,
                   sealedFor, status, body, slept, wire, stable, covered, polling>>

(* The loop is left without a success; a Response no attempt has assigned   *)
(* is returned with whatever its statusCode held.                           *)
GiveUp(c) ==
    /\ pc[c] = "loop"
    /\ attempt[c] > retryConfig.maxRetries
    /\ pc' = [pc EXCEPT ![c] = "done"]
    /\ \E s \in IF status[c] = "unset" THEN Statuses \ {"unset"} ELSE {status[c]} :
          status' = [status EXCEPT ![c] = s]
    /\ failedRequests' = failedRequests + 1
    /\ lastRequestSucceeded' = FALSE
    /\ UNCHANGED <<config, totalRequests, retryCount, pool, attempt, delay, held,
                   sealedFor, body, slept, wire, stable, covered, polling>>

(* An attempt that failed in a way the loop retries.                        *)
TryAgain(c, s) ==
    /\ pc' = [pc EXCEPT ![c] = "loop"]
    /\ attempt' = [attempt EXCEPT ![c] = @ + 1]
    /\ status' = [status EXCEPT ![c] = s]

-----------------------------------------------------------------------------
(* executeInternal, up to the request going out.                            *)

(* Whether encryption is on as the attempt begins.                          *)
AttemptBegins(c) ==
    covered' = IF cipherEnabled THEN covered \cup {c} ELSE covered \ {c}

(* A getCurlHandle that never looks in the pool.                            *)
AcquireFresh(c) ==
    /\ pc[c] = "ready"
    /\ totalRequests' = totalRequests + 1
    /\ \E h \in Handles \ created :
          held' = [held EXCEPT ![c] = h] /\ created' = created \cup {h}
    /\ AttemptBegins(c)
    /\ pc' = [pc EXCEPT ![c] = "gate"]
    /\ UNCHANGED <<config, failedRequests, retryCount, lastRequestSucceeded, idle,
                   attempt, delay, sealedFor, status, body, slept, wire, stable,
                   polling>>

(* getCurlHandle: a pooled handle, else a new one.                          *)
Acquire(c) ==
    /\ pc[c] = "ready"
    /\ totalRequests' = totalRequests + 1
    /\ \E h \in IF idle # {} THEN idle ELSE Handles \ created :
          /\ held' = [held EXCEPT ![c] = h]
          /\ idle' = idle \ {h}
          /\ created' = created \cup {h}
    /\ AttemptBegins(c)
    /\ pc' = [pc EXCEPT ![c] = "gate"]
    /\ UNCHANGED <<config, failedRequests, retryCount, lastRequestSucceeded,
                   attempt, delay, sealedFor, status, body, slept, wire, stable,
                   polling>>

(* A null handle that goes unnoticed.                                       *)
AcquireFailsUnchecked(c) ==
    /\ pc[c] = "ready" /\ idle = {}
    /\ totalRequests' = totalRequests + 1
    /\ AttemptBegins(c)
    /\ pc' = [pc EXCEPT ![c] = "gate"]
    /\ UNCHANGED <<config, failedRequests, retryCount, lastRequestSucceeded, pool,
                   attempt, delay, held, sealedFor, status, body, slept, wire, stable,
                   polling>>

(* curl_easy_init returns null: a GraphQLException, which the loop retries. *)
AcquireFails(c) ==
    /\ pc[c] = "ready" /\ idle = {}
    /\ totalRequests' = totalRequests + 1
    /\ TryAgain(c, "0")
    /\ UNCHANGED <<config, failedRequests, retryCount, lastRequestSucceeded, pool,
                   delay, held, sealedFor, body, seen, polling>>

(* A way out of executeInternal that skips the deleter.                     *)
ReleaseLeaked(c) ==
    /\ held' = [held EXCEPT ![c] = NoHandle]
    /\ UNCHANGED pool

(* The unique_ptr's deleter runs on every way out of executeInternal.       *)
Release(c) ==
    /\ idle' = idle \cup {held[c]}
    /\ held' = [held EXCEPT ![c] = NoHandle]
    /\ UNCHANGED created

(* What is kept of the text: its words and its opening braces, a word it    *)
(* lacks as the empty one.                                                  *)
Text(op) == <<op.keyword, op.name, "open", op.field, "open", "position">>

(* The place of the first word of a text, from a place on, that is in a set.*)
FirstOf(text, from, set) ==
    CHOOSE i \in from..Len(text) :
        text[i] \in set /\ \A j \in from..(i - 1) : text[j] \notin set

(* A parse that takes the operation's own name for the field it asks for.   *)
ParseNamed(text) ==
    [type |-> IF text[1] = "" THEN "query" ELSE text[1],
     name |-> IF text[2] = "" THEN text[4] ELSE text[2]]

(* The first keyword anywhere, and the first identifier past the first      *)
(* brace.                                                                   *)
ParseOperation(text) ==
    LET words  == {text[i] : i \in DOMAIN text}
        brace  == FirstOf(text, 1, {"open"})
        root   == FirstOf(text, brace + 1, words \ {"", "open"})
    IN  [type |-> IF words \cap Keywords = {} THEN "query"
                  ELSE text[FirstOf(text, 1, Keywords)],
         name |-> text[root]]

ShouldEncrypt(op) ==
    LET parsed == ParseOperation(Text(op))
    IN  ~ \/ parsed.type = "query" /\ parsed.name \in {"__schema", "ContinuId"}
          \/ parsed.type = "mutation" /\ parsed.name = "AccessToken"
          \/ /\ parsed.type = "mutation" /\ parsed.name = "ProposeMolecule"
             /\ op.isotopes # <<>> /\ op.isotopes[1] = "U"

(* A gate that lets an operation through in the clear for want of a wallet. *)
GateIfKeyed(c) ==
    /\ pc[c] = "gate"
    /\ pc' = [pc EXCEPT ![c] =
                 IF cipherEnabled /\ cipherWallet # NoWallet
                    /\ ShouldEncrypt(operation[c])
                 THEN "wallet" ELSE "perform"]
    /\ sealedFor' = [sealedFor EXCEPT ![c] = NoWallet]
    /\ UNCHANGED <<config, stats, pool, attempt, delay, held, status, body,
                   seen, polling>>

(* The decision of an attempt, which starts with nothing sealed.            *)
Gate(c) ==
    /\ pc[c] = "gate"
    /\ pc' = [pc EXCEPT ![c] =
                 IF cipherEnabled /\ ShouldEncrypt(operation[c])
                 THEN "wallet" ELSE "perform"]
    /\ sealedFor' = [sealedFor EXCEPT ![c] = NoWallet]
    /\ UNCHANGED <<config, stats, pool, attempt, delay, held, status, body,
                   seen, polling>>

WalletMissing(c) == pc[c] = "wallet" /\ cipherWallet = NoWallet

KeyMissing(c) == pc[c] = "key" /\ serverPubKey \in {"none", "empty"}

Checked(c) ==
    /\ \/ /\ pc[c] = "wallet" /\ ~WalletMissing(c)
          /\ pc' = [pc EXCEPT ![c] = "key"]
       \/ /\ pc[c] = "key" /\ ~KeyMissing(c)
          /\ pc' = [pc EXCEPT ![c] = "seal"]
    /\ UNCHANGED <<config, stats, pool, attempt, delay, held, sealedFor, status,
                   body, seen, polling>>

(* EncryptedTransportException: rethrown by the loop past its statistics.   *)
FailClosed(c) ==
    /\ WalletMissing(c) \/ KeyMissing(c)
    /\ Release(c)
    /\ pc' = [pc EXCEPT ![c] = "thrown"]
    /\ UNCHANGED <<config, stats, attempt, delay, sealedFor, status, body,
                   seen, polling>>

(* encryptStringML throws on a key that is no ML-KEM key, be it one that    *)
(* was assigned after it was checked; the loop retries.                     *)
SealFails(c) ==
    /\ pc[c] = "seal" /\ serverPubKey # "valid"
    /\ Release(c)
    /\ TryAgain(c, "0")
    /\ UNCHANGED <<config, stats, delay, sealedFor, body, seen, polling>>

Seal(c) ==
    /\ pc[c] = "seal" /\ serverPubKey = "valid"
    /\ sealedFor' = [sealedFor EXCEPT ![c] = cipherWallet]
    /\ stable' = stable \cup {c}
    /\ pc' = [pc EXCEPT ![c] = "perform"]
    /\ UNCHANGED <<config, stats, pool, attempt, delay, held, status, body,
                   slept, wire, covered, polling>>

(* curl_easy_perform: what was decided and sealed before goes out.          *)
Send(c) ==
    /\ pc[c] = "perform"
    /\ wire' = wire \cup {[call |-> c, attempt |-> attempt[c],
                           sealedFor |-> sealedFor[c]]}
    /\ pc' = [pc EXCEPT ![c] = "inflight"]
    /\ UNCHANGED <<config, stats, pool, attempt, delay, held, sealedFor, status,
                   body, slept, stable, covered, polling>>

-----------------------------------------------------------------------------
(* executeInternal, from the answer on, and the loop's verdict on it.       *)

(* An opening step gated on the switch instead of on the request.           *)
OpenedIfEnabled(c, reply) ==
    IF reply = "envelope" /\ cipherEnabled /\ cipherWallet = sealedFor[c]
    THEN "opened" ELSE reply

(* The envelope is opened with the wallet the context holds now; a map with *)
(* no entry for that wallet leaves the body as it came.                     *)
Opened(c, reply) ==
    IF reply = "envelope" /\ sealedFor[c] # NoWallet /\ cipherWallet = sealedFor[c]
    THEN "opened" ELSE reply

(* A sealed request is answered by an envelope for the wallet that sealed   *)
(* it, or by a plaintext error.                                             *)
Replies(c) == IF sealedFor[c] = NoWallet THEN {"plain"} ELSE {"envelope", "plain"}

Succeeds(c) ==
    /\ pc[c] = "inflight"
    /\ Release(c)
    /\ status' = [status EXCEPT ![c] = "2xx"]
    /\ \E reply \in Replies(c) : body' = [body EXCEPT ![c] = Opened(c, reply)]
    /\ pc' = [pc EXCEPT ![c] = "done"]
    /\ lastRequestSucceeded' = TRUE
    /\ UNCHANGED <<config, totalRequests, failedRequests, retryCount, attempt,
                   delay, sealedFor, slept, wire, stable, covered, polling>>

(* A 4xx counted and then retried.                                          *)
RefusedRetried(c) ==
    /\ pc[c] = "inflight"
    /\ Release(c)
    /\ TryAgain(c, "4xx")
    /\ failedRequests' = failedRequests + 1
    /\ lastRequestSucceeded' = FALSE
    /\ UNCHANGED <<config, totalRequests, retryCount, delay, sealedFor, body,
                   slept, wire, stable, covered, polling>>

Refused(c) ==
    /\ pc[c] = "inflight"
    /\ Release(c)
    /\ status' = [status EXCEPT ![c] = "4xx"]
    /\ \E reply \in Replies(c) : body' = [body EXCEPT ![c] = Opened(c, reply)]
    /\ pc' = [pc EXCEPT ![c] = "done"]
    /\ failedRequests' = failedRequests + 1
    /\ lastRequestSucceeded' = FALSE
    /\ UNCHANGED <<config, totalRequests, retryCount, attempt, delay, sealedFor,
                   slept, wire, stable, covered, polling>>

(* CURL failed or timed out, or the status is neither 2xx nor 4xx.          *)
Unanswered(c) ==
    /\ pc[c] = "inflight"
    /\ Release(c)
    /\ \/ TryAgain(c, "0") /\ body' = [body EXCEPT ![c] = "none"]
       \/ \E s \in {"3xx", "5xx"}, reply \in Replies(c) :
             TryAgain(c, s) /\ body' = [body EXCEPT ![c] = Opened(c, reply)]
    /\ UNCHANGED <<config, stats, delay, sealedFor, slept, wire, stable, covered, polling>>

-----------------------------------------------------------------------------
(* getStats: the mutex it takes is taken by no writer, and C++ leaves the   *)
(* order of the two loads of (totalRequests - failedRequests) open.         *)

PollStarts ==
    IF poll.first = "none"
    THEN polls < MaxPolls /\ totalRequests > 0 /\ polls' = polls + 1
    ELSE UNCHANGED polls

First(which) == IF poll.first = "none" THEN which ELSE poll.first

PollTotal ==
    /\ PollStarts
    /\ poll.total = Unread
    /\ poll' = [poll EXCEPT !.total = totalRequests, !.first = First("total")]
    /\ UNCHANGED <<config, stats, pool, locals, seen>>

PollFailed ==
    /\ PollStarts
    /\ poll.failed = Unread
    /\ poll' = [poll EXCEPT !.failed = failedRequests, !.first = First("failed")]
    /\ UNCHANGED <<config, stats, pool, locals, seen>>

PollReturns ==
    /\ poll.total # Unread /\ poll.failed # Unread
    /\ poll' = NoPoll
    /\ UNCHANGED <<config, stats, pool, locals, seen, polls>>

-----------------------------------------------------------------------------
CallStep(c) ==
    \/ Start(c) \/ FirstIteration(c) \/ Backoff(c) \/ GiveUp(c)
    \/ Acquire(c) \/ AcquireFails(c)
    \/ Gate(c) \/ Checked(c) \/ FailClosed(c)
    \/ SealFails(c) \/ Seal(c) \/ Send(c)
    \/ Succeeds(c) \/ Refused(c) \/ Unanswered(c)

Setter ==
    \/ \E encrypt \in BOOLEAN : SetEncryption(encrypt)
    \/ \E wallet \in Wallets \cup {NoWallet}, key \in PubKeys \ {"none"} :
          SetCipherContext(wallet, key)
    \/ SetServerPubKey
    \/ \E new \in RetryConfigs : SetRetryConfig(new)

GetStats == PollTotal \/ PollFailed \/ PollReturns

Next == (\E c \in Calls : CallStep(c)) \/ Setter \/ GetStats

Spec == Init /\ [][Next]_vars

(* A thread that has started runs on, and CURLOPT_TIMEOUT_MS ends every     *)
(* perform: each call that can step eventually does.                        *)
FairSpec == Spec /\ \A c \in Calls : WF_vars(CallStep(c))
-----------------------------------------------------------------------------
(* What the transport promises.                                             *)

(* A CURL handle is in the pool or with exactly one attempt, whatever way   *)
(* executeInternal is left, and no more handles exist than calls ran at     *)
(* once: getCurlHandle, returnCurlHandle and the guard in executeInternal.  *)
HandlesAccounted ==
    /\ created = idle \cup ({held[c] : c \in Calls} \ {NoHandle})
    /\ \A c \in Calls :
          /\ held[c] # NoHandle <=> pc[c] \in InFlight
          /\ held[c] \notin idle
          /\ \A d \in Calls \ {c} : held[c] = held[d] => held[c] = NoHandle

HandlesBounded == Cardinality(created) <= Cardinality(Calls)

(* The operations that must reach a validator whose key is not known yet:   *)
(* the query for the ContinuID pointer, the authorization molecule (its     *)
(* first atom a U), and what else the comment of shouldEncryptRequest names.*)
Bootstrap(op) ==
    \/ op.keyword # "mutation" /\ op.field \in {"__schema", "ContinuId"}
    \/ op.keyword = "mutation" /\ op.field = "AccessToken"
    \/ /\ op.keyword = "mutation" /\ op.field = "ProposeMolecule"
       /\ op.isotopes # <<>> /\ op.isotopes[1] = "U"

(* An attempt that has had encryption on from its beginning never reaches   *)
(* the network other than sealed, and for the wallet the context holds      *)
(* unless that was replaced after the sealing: executeInternal's gate,      *)
(* whatever the setters do between its reads, on every retry.               *)
FailClosedSends ==
    [][\A m \in wire' \ wire :
          m.call \in covered /\ ~Bootstrap(operation[m.call]) =>
              /\ m.sealedFor # NoWallet
              /\ m.call \in stable => m.sealedFor = cipherWallet]_vars

(* The login traffic can never be caught in its own gate, however its query *)
(* is written and named: parseOperation reads from the text of each request *)
(* what shouldEncryptRequest must know of it.                               *)
BootstrapOpen ==
    \A c \in Calls :
        Bootstrap(operation[c]) => pc[c] # "thrown" /\ sealedFor[c] = NoWallet

(* The caller of a sealed request reads the inner answer, not the envelope, *)
(* unless the context was given another wallet while the request was out.   *)
SealedAnswerOpened ==
    \A c \in Calls :
        pc[c] = "done" /\ status[c] = "2xx" /\ c \in stable => body[c] # "envelope"

Failed == {c \in Calls : pc[c] = "done" /\ status[c] # "2xx"}

(* Every failed call is counted once and attempts outnumber failures, at    *)
(* any one instant, however calls interleave; and so does what getStats     *)
(* subtracts if it loads failedRequests first.  In the other order it may   *)
(* wrap: a call counted after the first load fails before the second.       *)
FailuresCounted ==
    /\ failedRequests = Cardinality(Failed)
    /\ failedRequests <= totalRequests
    /\ poll.first = "failed" /\ poll.total # Unread => poll.failed <= poll.total

Largest(S) == CHOOSE n \in S : \A m \in S : m <= n

(* However the retry configuration changes under way, a call reaches the    *)
(* network at most 1 + maxRetries times and waits no longer than the        *)
(* backoff allows, for the largest values configured.                       *)
RetryBudget ==
    LET retries == Largest({cfg.maxRetries : cfg \in RetryConfigs})
        first   == Largest({cfg.initialDelay : cfg \in RetryConfigs})
        cap     == Largest({cfg.maxDelay : cfg \in RetryConfigs})
    IN  \A c \in Calls :
          /\ Cardinality({m \in wire : m.call = c}) <= retries + 1
          /\ slept[c] <= IF retries = 0 THEN 0 ELSE first + (retries - 1) * cap

(* Every call a caller made comes back: the future is always satisfied.     *)
CallsEnd == \A c \in Calls : pc[c] # "new" ~> pc[c] \in Ended
=============================================================================
