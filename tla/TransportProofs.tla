--------------------------- MODULE TransportProofs ---------------------------
(* What the transport keeps for any number of calls, handles, wallets and   *)
(* retry configurations.                                                    *)
EXTENDS Transport, Sums, FiniteSetTheorems, TLAPS

(* The cap of the backoff is applied to a product of naturals.              *)
LEMMA NextDelayType ==
    ASSUME NEW d \in Nat, retryConfig \in RetryConfigs
    PROVE  NextDelay(d) \in Nat
<1>1. retryConfig.multiplier \in Nat /\ retryConfig.maxDelay \in Nat
  BY TransportAssumption
<1>2. d * retryConfig.multiplier \in Nat
  BY <1>1
<1>3. QED BY <1>1, <1>2 DEF NextDelay

LEMMA Initially == Init => TypeOK /\ HandlesAccounted
<1> SUFFICES ASSUME Init PROVE TypeOK /\ HandlesAccounted
  OBVIOUS
<1>1. poll \in [total: Nat \cup {Unread}, failed: Nat \cup {Unread},
                first: {"none", "total", "failed"}]
  BY DEF Init, NoPoll
<1>2. status \in [Calls -> Statuses] /\ body \in [Calls -> Bodies]
  BY DEF Init, Statuses, Bodies
<1>3. pc \in [Calls -> {"new", "loop", "ready"} \cup InFlight \cup Ended]
  BY DEF Init
<1>4. serverPubKey \in PubKeys /\ assigning \in PubKeys \cup {Settled}
  BY DEF Init, PubKeys
<1>5. TypeOK
  BY <1>1, <1>2, <1>3, <1>4 DEF Init, TypeOK
<1>6. HandlesAccounted
  BY DEF Init, HandlesAccounted, InFlight
<1>7. QED BY <1>5, <1>6

(* A handle returned to the pool is a handle only because the attempt that  *)
(* returns it holds one, so the types lean on HandlesAccounted.             *)
LEMMA TypeStep == TypeOK /\ HandlesAccounted /\ [Next]_vars => TypeOK'
<1> SUFFICES ASSUME TypeOK, HandlesAccounted, [Next]_vars PROVE TypeOK'
  OBVIOUS
<1> USE DEF TypeOK, config, stats, pool, locals, seen, polling, Ended, InFlight
<1>0. ASSUME NEW c \in Calls, pc[c] \in InFlight PROVE held[c] \in Handles
  BY <1>0 DEF HandlesAccounted
<1>a. {"0", "2xx", "3xx", "4xx", "5xx"} \subseteq Statuses
  BY DEF Statuses
<1>b. ASSUME NEW c \in Calls, NEW reply \in Replies(c) PROVE Opened(c, reply) \in Bodies
  BY <1>b DEF Opened, Replies, Bodies
<1>c. "none" \in Bodies
  BY DEF Bodies
<1>1. ASSUME NEW c \in Calls, Start(c) PROVE TypeOK'
  BY <1>1, TransportAssumption DEF Start
<1>2. ASSUME NEW c \in Calls, FirstIteration(c) PROVE TypeOK'
  BY <1>2 DEF FirstIteration
<1>3. ASSUME NEW c \in Calls, Backoff(c) PROVE TypeOK'
  <2>1. NextDelay(delay[c]) \in Nat
    BY NextDelayType
  <2>2. QED BY <1>3, <2>1 DEF Backoff
<1>4. ASSUME NEW c \in Calls, GiveUp(c) PROVE TypeOK'
  <2>1. PICK s \in IF status[c] = "unset" THEN Statuses \ {"unset"} ELSE {status[c]} :
           status' = [status EXCEPT ![c] = s]
    BY <1>4 DEF GiveUp
  <2>2. s \in Statuses
    OBVIOUS
  <2>3. status' \in [Calls -> Statuses]
    BY <2>1, <2>2
  <2>4. failedRequests' \in Nat
        /\ pc' \in [Calls -> {"new", "loop", "ready"} \cup InFlight \cup Ended]
    BY <1>4 DEF GiveUp
  <2>5. lastRequestSucceeded' \in BOOLEAN
    BY <1>4 DEF GiveUp
  <2>6. QED BY <1>4, <2>3, <2>4, <2>5 DEF GiveUp
<1>5. ASSUME NEW c \in Calls, Acquire(c) PROVE TypeOK'
  <2>1. PICK h \in IF idle # {} THEN idle ELSE Handles \ created :
          /\ held' = [held EXCEPT ![c] = h]
          /\ idle' = idle \ {h}
          /\ created' = created \cup {h}
    BY <1>5 DEF Acquire
  <2>2. h \in Handles
    OBVIOUS
  <2>3. idle' \subseteq Handles /\ created' \subseteq Handles
    BY <2>1, <2>2
  <2>4. held' \in [Calls -> Handles \cup {NoHandle}]
    BY <2>1, <2>2
  <2>5. QED BY <1>5, <2>3, <2>4 DEF Acquire, AttemptBegins
<1>6. ASSUME NEW c \in Calls, AcquireFails(c) PROVE TypeOK'
  BY <1>6, <1>a DEF AcquireFails, TryAgain
<1>7. ASSUME NEW c \in Calls, FailClosed(c) PROVE TypeOK'
  <2>1. held[c] \in Handles
    BY <1>0, <1>7 DEF FailClosed, WalletMissing, KeyMissing
  <2>2. QED BY <1>7, <2>1 DEF FailClosed, Release
<1>8. ASSUME NEW c \in Calls, SealFails(c) PROVE TypeOK'
  <2>1. held[c] \in Handles
    BY <1>0, <1>8 DEF SealFails
  <2>2. QED BY <1>8, <1>a, <2>1 DEF SealFails, Release, TryAgain
<1>9. ASSUME NEW c \in Calls, Gate(c) \/ Checked(c) \/ Seal(c) \/ Send(c) PROVE TypeOK'
  <2>1. ASSUME Gate(c) PROVE TypeOK'
    <3>1. \E p \in {"wallet", "perform"} : pc' = [pc EXCEPT ![c] = p]
      BY <2>1 DEF Gate
    <3>2. QED BY <2>1, <3>1 DEF Gate
  <2>2. ASSUME Checked(c) PROVE TypeOK'
    BY <2>2 DEF Checked
  <2>3. ASSUME Seal(c) PROVE TypeOK'
    BY <2>3 DEF Seal
  <2>4. ASSUME Send(c) PROVE TypeOK'
    <3> DEFINE m == [call |-> c, attempt |-> attempt[c], sealedFor |-> sealedFor[c]]
    <3>1. m \in Message
      BY DEF Message
    <3>2. wire' = wire \cup {m}
      BY <2>4 DEF Send
    <3>3. wire' \subseteq Message
      BY <3>1, <3>2
    <3> HIDE DEF m
    <3>4. QED BY <2>4, <3>3 DEF Send
  <2>5. QED BY <1>9, <2>1, <2>2, <2>3, <2>4
<1>10. ASSUME NEW c \in Calls, Succeeds(c) PROVE TypeOK'
  <2>1. held[c] \in Handles
    BY <1>0, <1>10 DEF Succeeds, InFlight
  <2>2. body' \in [Calls -> Bodies]
    BY <1>10, <1>b DEF Succeeds
  <2>3. QED BY <1>10, <1>a, <2>1, <2>2 DEF Succeeds, Release
<1>11. ASSUME NEW c \in Calls, Refused(c) PROVE TypeOK'
  <2>1. held[c] \in Handles
    BY <1>0, <1>11 DEF Refused, InFlight
  <2>2. body' \in [Calls -> Bodies]
    BY <1>11, <1>b DEF Refused
  <2>3. failedRequests' \in Nat
        /\ pc' \in [Calls -> {"new", "loop", "ready"} \cup InFlight \cup Ended]
    BY <1>11 DEF Refused
  <2>4. lastRequestSucceeded' \in BOOLEAN
    BY <1>11 DEF Refused
  <2>5. idle' \subseteq Handles /\ held' \in [Calls -> Handles \cup {NoHandle}]
    BY <1>11, <2>1 DEF Refused, Release
  <2>6. status' \in [Calls -> Statuses]
    BY <1>11, <1>a DEF Refused
  <2>7. QED BY <1>11, <2>2, <2>3, <2>4, <2>5, <2>6 DEF Refused, Release
<1>12. ASSUME NEW c \in Calls, Unanswered(c) PROVE TypeOK'
  <2>1. held[c] \in Handles
    BY <1>0, <1>12 DEF Unanswered, InFlight
  <2>2. body' \in [Calls -> Bodies]
    BY <1>12, <1>b, <1>c DEF Unanswered
  <2>3. /\ pc' = [pc EXCEPT ![c] = "loop"]
        /\ attempt' = [attempt EXCEPT ![c] = @ + 1]
        /\ \E s \in {"0", "3xx", "5xx"} : status' = [status EXCEPT ![c] = s]
    BY <1>12 DEF Unanswered, TryAgain
  <2>4. status' \in [Calls -> Statuses]
    BY <2>3, <1>a
  <2>5. QED BY <1>12, <2>1, <2>2, <2>3, <2>4 DEF Unanswered, Release
<1>13. ASSUME Setter PROVE TypeOK'
  <2>1. ASSUME NEW encrypt \in BOOLEAN, SetEncryption(encrypt) PROVE TypeOK'
    BY <2>1 DEF SetEncryption, Reconfigure
  <2>2. ASSUME NEW wallet \in Wallets \cup {NoWallet}, NEW key \in PubKeys \ {"none"},
               SetCipherContext(wallet, key) PROVE TypeOK'
    BY <2>2 DEF SetCipherContext, Reconfigure
  <2>3. ASSUME NEW new \in RetryConfigs, SetRetryConfig(new) PROVE TypeOK'
    BY <2>3 DEF SetRetryConfig, Reconfigure
  <2>4. ASSUME SetServerPubKey PROVE TypeOK'
    BY <2>4 DEF SetServerPubKey
  <2>5. QED BY <1>13, <2>1, <2>2, <2>3, <2>4 DEF Setter
<1>14. ASSUME GetStats PROVE TypeOK'
  <2>1. First("total") \in {"total", "failed"} /\ First("failed") \in {"total", "failed"}
    BY DEF First
  <2>2. polls' \in Nat
    BY <1>14 DEF GetStats, PollTotal, PollFailed, PollReturns, PollStarts
  <2> DEFINE Polls == [total: Nat \cup {Unread}, failed: Nat \cup {Unread},
                       first: {"none", "total", "failed"}]
  <2>0. /\ poll = [total |-> poll.total, failed |-> poll.failed, first |-> poll.first]
        /\ poll.total \in Nat \cup {Unread} /\ poll.failed \in Nat \cup {Unread}
    OBVIOUS
  <2>a. ASSUME PollTotal PROVE poll' \in Polls
    <3>1. poll' = [total |-> totalRequests, failed |-> poll.failed, first |-> First("total")]
      BY <2>a, <2>0 DEF PollTotal
    <3>2. QED BY <2>0, <2>1, <3>1
  <2>b. ASSUME PollFailed PROVE poll' \in Polls
    <3>1. poll' = [total |-> poll.total, failed |-> failedRequests, first |-> First("failed")]
      BY <2>b, <2>0 DEF PollFailed
    <3>2. QED BY <2>0, <2>1, <3>1
  <2>c. ASSUME PollReturns PROVE poll' \in Polls
    BY <2>c DEF PollReturns, NoPoll
  <2>3. poll' \in Polls
    BY <1>14, <2>a, <2>b, <2>c DEF GetStats
  <2>4. QED BY <1>14, <2>2, <2>3 DEF GetStats, PollTotal, PollFailed, PollReturns
<1>15. CASE UNCHANGED vars
  BY <1>15 DEF vars
<1>16. QED
  BY <1>1, <1>2, <1>3, <1>4, <1>5, <1>6, <1>7, <1>8, <1>9, <1>10, <1>11,
     <1>12, <1>13, <1>14, <1>15 DEF Next, CallStep

(* A handle changes hands only where an attempt takes it from the pool or   *)
(* leaves executeInternal.                                                  *)
LEMMA HandlesStep == TypeOK /\ HandlesAccounted /\ [Next]_vars => HandlesAccounted'
<1> SUFFICES ASSUME TypeOK, HandlesAccounted, [Next]_vars PROVE HandlesAccounted'
  OBVIOUS
<1> USE TransportAssumption DEF HandlesAccounted, InFlight
<1>t. /\ held \in [Calls -> Handles \cup {NoHandle}]
      /\ pc \in [Calls -> {"new", "loop", "ready"} \cup InFlight \cup Ended]
      /\ idle \subseteq Handles /\ created \subseteq Handles
  BY DEF TypeOK
<1>1. ASSUME NEW c \in Calls, pc[c] \notin InFlight,
             UNCHANGED <<idle, created, held>>,
             \E p \in {"loop", "ready", "done"} : pc' = [pc EXCEPT ![c] = p]
      PROVE  HandlesAccounted'
  BY <1>1, <1>t
<1>2. ASSUME NEW c \in Calls, pc[c] \in InFlight, Release(c),
             \E p \in {"loop"} \cup Ended : pc' = [pc EXCEPT ![c] = p]
      PROVE  HandlesAccounted'
  <2>1. held[c] \in Handles
    BY <1>2, <1>t
  <2>2. idle' = idle \cup {held[c]} /\ created' = created
        /\ held' = [held EXCEPT ![c] = NoHandle]
    BY <1>2 DEF Release
  <2>3. PICK p \in {"loop"} \cup Ended : pc' = [pc EXCEPT ![c] = p]
    BY <1>2
  <2>4. p \notin InFlight
    BY DEF Ended
  <2>5. ASSUME NEW d \in Calls PROVE held'[d] # NoHandle <=> pc'[d] \in InFlight
    BY <2>2, <2>3, <2>4, <1>t
  <2>6. ASSUME NEW d \in Calls PROVE held'[d] \notin idle'
    BY <2>1, <2>2, <1>t
  <2>7. {held'[d] : d \in Calls} \ {NoHandle}
           = ({held[d] : d \in Calls} \ {NoHandle}) \ {held[c]}
    BY <2>1, <2>2, <1>t
  <2>8. created' = idle' \cup ({held'[d] : d \in Calls} \ {NoHandle})
    BY <2>1, <2>2, <2>7
  <2>9. ASSUME NEW d \in Calls, NEW e \in Calls \ {d}, held'[d] = held'[e]
        PROVE  held'[d] = NoHandle
    BY <2>2, <2>9, <1>t
  <2>10. QED BY <2>5, <2>6, <2>8, <2>9
<1>3. ASSUME NEW c \in Calls, Acquire(c) PROVE HandlesAccounted'
  <2>1. PICK h \in IF idle # {} THEN idle ELSE Handles \ created :
          /\ held' = [held EXCEPT ![c] = h]
          /\ idle' = idle \ {h}
          /\ created' = created \cup {h}
    BY <1>3 DEF Acquire
  <2>2. h \in Handles /\ h \notin {held[d] : d \in Calls}
    BY <1>t
  <2>3. pc[c] = "ready" /\ pc' = [pc EXCEPT ![c] = "gate"] /\ held[c] = NoHandle
    BY <1>3, <1>t DEF Acquire
  <2>4. {held'[d] : d \in Calls} \ {NoHandle}
           = ({held[d] : d \in Calls} \ {NoHandle}) \cup {h}
    BY <2>1, <2>2, <2>3, <1>t
  <2>5. created' = idle' \cup ({held'[d] : d \in Calls} \ {NoHandle})
    BY <2>1, <2>4
  <2>6. ASSUME NEW d \in Calls PROVE held'[d] # NoHandle <=> pc'[d] \in InFlight
    BY <2>1, <2>2, <2>3, <1>t
  <2>7. ASSUME NEW d \in Calls PROVE held'[d] \notin idle'
    BY <2>1, <2>2, <1>t
  <2>8. ASSUME NEW d \in Calls, NEW e \in Calls \ {d}, held'[d] = held'[e]
        PROVE  held'[d] = NoHandle
    BY <2>1, <2>2, <2>8, <1>t
  <2>9. QED BY <2>5, <2>6, <2>7, <2>8
<1>4. ASSUME NEW c \in Calls, Gate(c) \/ Checked(c) \/ Seal(c) \/ Send(c)
      PROVE  HandlesAccounted'
  <2>1. /\ pc[c] \in InFlight /\ UNCHANGED <<idle, created, held>>
        /\ \E p \in InFlight : pc' = [pc EXCEPT ![c] = p]
    BY <1>4 DEF Gate, Checked, Seal, Send, pool
  <2>2. QED BY <2>1, <1>t
<1>5. ASSUME NEW c \in Calls, CallStep(c) PROVE HandlesAccounted'
  <2>1. CASE Start(c) \/ FirstIteration(c) \/ Backoff(c) \/ GiveUp(c) \/ AcquireFails(c)
    BY <1>1, <2>1 DEF Start, FirstIteration, Backoff, GiveUp, AcquireFails,
                     TryAgain, pool
  <2>2. CASE FailClosed(c)
    BY <1>2, <2>2 DEF FailClosed, WalletMissing, KeyMissing, Ended
  <2>3. CASE SealFails(c)
    BY <1>2, <2>3 DEF SealFails, TryAgain
  <2>4. CASE Succeeds(c)
    BY <1>2, <2>4 DEF Succeeds, Ended
  <2>5. CASE Refused(c)
    BY <1>2, <2>5 DEF Refused, Ended
  <2>6. CASE Unanswered(c)
    BY <1>2, <2>6 DEF Unanswered, TryAgain
  <2>7. QED BY <1>3, <1>4, <1>5, <2>1, <2>2, <2>3, <2>4, <2>5, <2>6 DEF CallStep
<1>6. ASSUME UNCHANGED <<pc, held, idle, created>> PROVE HandlesAccounted'
  BY <1>6
<1>7. CASE Setter \/ GetStats
  BY <1>6, <1>7 DEF Setter, SetEncryption, SetCipherContext, SetServerPubKey, SetRetryConfig,
                   GetStats, PollTotal, PollFailed, PollReturns, pool, locals
<1>8. CASE UNCHANGED vars
  BY <1>6, <1>8 DEF vars, pool, locals
<1>9. QED BY <1>5, <1>7, <1>8 DEF Next

LEMMA Inductive == Spec => [](TypeOK /\ HandlesAccounted)
<1>1. TypeOK /\ HandlesAccounted /\ [Next]_vars => (TypeOK /\ HandlesAccounted)'
  BY TypeStep, HandlesStep
<1>2. QED BY Initially, <1>1, PTL DEF Spec

(* Every variable keeps its type: the fields of GraphQLClient::Impl and the *)
(* locals of executeWithRetry and executeInternal.                          *)
THEOREM TypeCorrect == Spec => []TypeOK
BY Inductive, PTL

(* No CURL handle is lost or used by two calls at once, whatever way an     *)
(* attempt ends and however the calls interleave.                           *)
THEOREM PoolCorrect == Spec => []HandlesAccounted
BY Inductive, PTL

(* getCurlHandle makes a handle only when the pool is empty, so every other *)
(* handle is then with another call.                                        *)
LEMMA NewHandle ==
    ASSUME TypeOK, HandlesAccounted, NEW c \in Calls, Acquire(c), idle = {}
    PROVE  Cardinality(created') <= Cardinality(Calls)
<1>1. PICK h \in Handles \ created :
         held' = [held EXCEPT ![c] = h] /\ created' = created \cup {h}
  BY DEF Acquire
<1>2. held \in [Calls -> Handles \cup {NoHandle}]
      /\ created = {held[d] : d \in Calls} \ {NoHandle}
  BY DEF TypeOK, HandlesAccounted
<1> DEFINE holders == {d \in Calls : held'[d] # NoHandle}
           holding == [d \in holders |-> held'[d]]
<1>3. held[c] = NoHandle
  BY DEF Acquire, HandlesAccounted, InFlight
<1>4. created' = {held'[d] : d \in holders}
  BY <1>1, <1>2, <1>3, TransportAssumption
<1>5. holding \in Surjection(holders, created')
  BY <1>4 DEF Surjection
<1>6. IsFiniteSet(holders) /\ Cardinality(holders) <= Cardinality(Calls)
  <2>1. holders \in SUBSET Calls
    OBVIOUS
  <2>2. QED BY <2>1, FS_Subset, TransportAssumption
<1>7. IsFiniteSet(created') /\ Cardinality(created') <= Cardinality(holders)
  BY <1>5, <1>6, FS_Surjection
<1>8. Cardinality(created') \in Nat /\ Cardinality(holders) \in Nat
      /\ Cardinality(Calls) \in Nat
  BY <1>6, <1>7, FS_CardinalityType, TransportAssumption
<1>9. QED BY <1>6, <1>7, <1>8

(* Only getCurlHandle makes handles.                                        *)
LEMMA CreatedStep ==
    ASSUME Next
    PROVE  created' = created \/ \E c \in Calls : Acquire(c)
BY DEF Next, CallStep, Setter, GetStats, Start, FirstIteration, Backoff, GiveUp,
       AcquireFails, Gate, Checked, FailClosed, SealFails, Seal, Send, Succeeds,
       Refused, Unanswered, Release, SetEncryption, SetCipherContext, SetServerPubKey,
     SetRetryConfig, PollTotal,
       PollFailed, PollReturns, pool

(* The pool makes no more handles than there are calls, however they retry  *)
(* and interleave: getCurlHandle reuses before it makes.                    *)
THEOREM PoolBounded == Spec => []HandlesBounded
<1>1. Init => HandlesBounded
  <2>1. Cardinality(Calls) \in Nat
    BY TransportAssumption, FS_CardinalityType
  <2>2. QED BY <2>1, FS_EmptySet DEF Init, HandlesBounded
<1>2. TypeOK /\ HandlesAccounted /\ HandlesBounded /\ [Next]_vars => HandlesBounded'
  <2> SUFFICES ASSUME TypeOK, HandlesAccounted, HandlesBounded, [Next]_vars
               PROVE  HandlesBounded'
    OBVIOUS
  <2>1. ASSUME NEW c \in Calls, Acquire(c) PROVE HandlesBounded'
    <3>1. CASE idle = {}
      BY <2>1, <3>1, NewHandle DEF HandlesBounded
    <3>2. CASE idle # {}
      <4>1. created' = created
        BY <2>1, <3>2 DEF Acquire, HandlesAccounted
      <4>2. QED BY <4>1 DEF HandlesBounded
    <3>3. QED BY <3>1, <3>2
  <2>2. CASE created' = created
    BY <2>2 DEF HandlesBounded
  <2>3. QED BY <2>1, <2>2, CreatedStep DEF vars, pool
<1>3. QED BY <1>1, <1>2, Inductive, PTL DEF Spec

-----------------------------------------------------------------------------
(* The gate.                                                                *)

(* Only Send puts a request on the wire.                                    *)
LEMMA WireStep ==
    ASSUME Next
    PROVE  wire' = wire \/ \E c \in Calls : Send(c)
BY DEF Next, CallStep, Setter, GetStats, Start, FirstIteration, Backoff, GiveUp,
       Acquire, AcquireFails, Gate, Checked, FailClosed, SealFails, Seal, Succeeds,
       Refused, Unanswered,
       SetEncryption, SetCipherContext, SetServerPubKey,
     SetRetryConfig, PollTotal, PollFailed,
       PollReturns, seen

(* A place with a word of the set, none before it having one, is the first. *)
LEMMA FirstIs ==
    ASSUME NEW text, NEW from \in Int, NEW set, NEW k \in Int,
           Len(text) \in Int, from <= k, k <= Len(text), text[k] \in set,
           \A j \in Int : from <= j /\ j < k => text[j] \notin set
    PROVE  FirstOf(text, from, set) = k
<1> DEFINE Is(i) == text[i] \in set /\ \A j \in from..(i - 1) : text[j] \notin set
<1>1. k \in from..Len(text) /\ Is(k)
  OBVIOUS
<1>2. ASSUME NEW i \in from..Len(text), Is(i) PROVE i = k
  <2>1. ~(i < k)
    BY <1>2
  <2>2. ~(k < i)
    BY <1>2
  <2>3. i \in Int /\ k \in Int
    BY <1>2
  <2>4. QED BY <2>1, <2>2, <2>3
<1>3. QED BY <1>1, <1>2 DEF FirstOf

(* parseOperation finds in a text what the operation was written with: the  *)
(* kind of its keyword, and the field behind the first brace, whatever name *)
(* the operation bears.                                                     *)
LEMMA ParsedAsWritten ==
    ASSUME NEW op \in Operations
    PROVE  ParseOperation(Text(op)) =
              [type |-> IF op.keyword = "" THEN "query" ELSE op.keyword,
               name |-> op.field]
<1> DEFINE text  == Text(op)
           words == {text[i] : i \in DOMAIN text}
<1>1. /\ op.keyword \in {"query", "mutation", ""}
      /\ op.name # "open" /\ op.name \notin Keywords
      /\ op.field \notin {"", "open"} /\ op.field \notin Keywords
  BY OperationsAssumption
<1>2. /\ Len(text) = 6 /\ DOMAIN text = 1..6
      /\ text[1] = op.keyword /\ text[2] = op.name /\ text[3] = "open"
      /\ text[4] = op.field /\ text[5] = "open" /\ text[6] = "position"
  BY DEF Text
<1> HIDE DEF text
<1>3. words = {op.keyword, op.name, "open", op.field, "position"}
  <2>1. 1..6 = {1, 2, 3, 4, 5, 6}
    OBVIOUS
  <2>2. QED BY <1>2, <2>1
<1>4. FirstOf(text, 1, {"open"}) = 3
  <2>1. \A j \in Int : 1 <= j /\ j < 3 => j = 1 \/ j = 2
    OBVIOUS
  <2>2. text[3] \in {"open"} /\ \A j \in Int : 1 <= j /\ j < 3 => text[j] \notin {"open"}
    BY <1>1, <1>2, <2>1
  <2> DEFINE braces == {"open"}
  <2> HIDE DEF braces
  <2>3. text[3] \in braces /\ \A j \in Int : 1 <= j /\ j < 3 => text[j] \notin braces
    BY <2>2 DEF braces
  <2>4. FirstOf(text, 1, braces) = 3
    BY <1>2, <2>3, FirstIs
  <2>5. QED BY <2>4 DEF braces
<1>5. FirstOf(text, 4, words \ {"", "open"}) = 4
  <2> DEFINE rest == words \ {"", "open"}
  <2>1. text[4] \in rest
    BY <1>1, <1>2, <1>3
  <2> HIDE DEF words, rest
  <2>2. FirstOf(text, 4, rest) = 4
    BY <1>2, <2>1, FirstIs
  <2>3. QED BY <2>2 DEF rest
<1> HIDE DEF words
<1>9. ParseOperation(text) =
        [type |-> IF words \cap Keywords = {} THEN "query"
                  ELSE text[FirstOf(text, 1, Keywords)],
         name |-> op.field]
  <2>1. FirstOf(text, 1, {"open"}) + 1 = 4
    BY <1>4
  <2>2. QED BY <1>2, <1>5, <2>1 DEF ParseOperation, words
<1>6. CASE op.keyword = ""
  <2>1. \A w \in words : w \notin Keywords
    BY <1>1, <1>3, <1>6 DEF Keywords
  <2>2. words \cap Keywords = {}
    BY <2>1
  <2>3. QED BY <1>6, <1>9, <2>2 DEF text
<1>7. CASE op.keyword # ""
  <2>1. op.keyword \in Keywords
    BY <1>1, <1>7 DEF Keywords
  <2>2. op.keyword \in words
    BY <1>3
  <2>3. words \cap Keywords # {}
    BY <2>1, <2>2
  <2>4. FirstOf(text, 1, Keywords) = 1
    BY <1>2, <2>1, FirstIs
  <2>5. QED BY <1>2, <1>7, <1>9, <2>3, <2>4 DEF text
<1>8. QED BY <1>6, <1>7

(* So shouldEncryptRequest lets through the login's operations, and only    *)
(* them.                                                                    *)
LEMMA BypassExact ==
    ASSUME NEW op \in Operations
    PROVE  ShouldEncrypt(op) <=> ~Bootstrap(op)
<1>1. op.keyword \in {"query", "mutation", ""}
  BY OperationsAssumption
<1>2. /\ ParseOperation(Text(op)).type = IF op.keyword = "" THEN "query" ELSE op.keyword
      /\ ParseOperation(Text(op)).name = op.field
  <2> DEFINE kind == IF op.keyword = "" THEN "query" ELSE op.keyword
             parsing == ParseOperation(Text(op))
  <2>1. parsing = [type |-> kind, name |-> op.field]
    BY ParsedAsWritten
  <2> HIDE DEF kind, parsing
  <2>2. parsing.type = kind /\ parsing.name = op.field
    BY <2>1
  <2>3. QED BY <2>2 DEF kind, parsing
<1> DEFINE parsed == ParseOperation(Text(op))
<1>a. /\ parsed.type = "query" <=> op.keyword # "mutation"
      /\ parsed.type = "mutation" <=> op.keyword = "mutation"
      /\ parsed.name = op.field
  BY <1>1, <1>2
<1> HIDE DEF parsed
<1>b. ShouldEncrypt(op) <=>
        ~ \/ parsed.type = "query" /\ parsed.name \in {"__schema", "ContinuId"}
          \/ parsed.type = "mutation" /\ parsed.name = "AccessToken"
          \/ /\ parsed.type = "mutation" /\ parsed.name = "ProposeMolecule"
             /\ op.isotopes # <<>> /\ op.isotopes[1] = "U"
  BY DEF ShouldEncrypt, parsed
<1>3. ShouldEncrypt(op) <=>
        ~ \/ op.keyword # "mutation" /\ op.field \in {"__schema", "ContinuId"}
          \/ op.keyword = "mutation" /\ op.field = "AccessToken"
          \/ /\ op.keyword = "mutation" /\ op.field = "ProposeMolecule"
             /\ op.isotopes # <<>> /\ op.isotopes[1] = "U"
  BY <1>a, <1>b
<1>4. QED BY <1>3 DEF Bootstrap

(* FailClosedSends made inductive: what each read of the gate still holds   *)
(* of when the next one runs.                                               *)
Gating ==
    /\ covered # {} => cipherEnabled
    /\ \A c \in Calls :
          /\ pc[c] \in {"wallet", "key", "seal"} => ~Bootstrap(operation[c])
          /\ pc[c] \in {"key", "seal"} => cipherWallet # NoWallet
          /\ pc[c] = "perform" /\ c \in covered /\ ~Bootstrap(operation[c]) =>
                sealedFor[c] # NoWallet
          /\ c \in stable /\ sealedFor[c] # NoWallet => cipherWallet = sealedFor[c]
          /\ Bootstrap(operation[c]) => pc[c] # "thrown" /\ sealedFor[c] = NoWallet

LEMMA GatingStep ==
    ASSUME TypeOK, Gating, [Next]_vars
    PROVE  Gating'
<1> USE DEF Gating
<1>t. /\ pc = [d \in Calls |-> pc[d]] /\ sealedFor = [d \in Calls |-> sealedFor[d]]
      /\ \A d \in Calls : operation[d] \in Operations
  BY DEF TypeOK
<1>o. operation' = operation
  BY DEF Next, CallStep, Setter, GetStats, Start, FirstIteration, Backoff, GiveUp,
     Acquire, AcquireFails, Gate, Checked, FailClosed, SealFails, Seal, Send, Succeeds,
     Refused, Unanswered, SetEncryption, SetCipherContext, SetServerPubKey,
     SetRetryConfig, PollTotal, PollFailed, PollReturns, config, vars
<1>b. \A d \in Calls : Bootstrap(operation[d])' <=> Bootstrap(operation[d])
  BY <1>o DEF Bootstrap
<1> DEFINE Guarded(d) ==
      /\ pc[d] \in {"wallet", "key", "seal"} => ~Bootstrap(operation[d])
      /\ pc[d] \in {"key", "seal"} => cipherWallet # NoWallet
      /\ pc[d] = "perform" /\ d \in covered /\ ~Bootstrap(operation[d]) =>
            sealedFor[d] # NoWallet
      /\ d \in stable /\ sealedFor[d] # NoWallet => cipherWallet = sealedFor[d]
      /\ Bootstrap(operation[d]) => pc[d] # "thrown" /\ sealedFor[d] = NoWallet
\* Steps of a call that neither read the gate's fields nor seal.
<1>1. ASSUME NEW c \in Calls,
             \E p \in {"loop", "ready", "gate", "inflight", "done"} :
                pc' = [pc EXCEPT ![c] = p],
             UNCHANGED <<cipherEnabled, cipherWallet, sealedFor, stable>>,
             covered' = covered \/ covered' = IF cipherEnabled THEN covered \cup {c}
                                              ELSE covered \ {c}
      PROVE  Gating'
  <2>1. covered' # {} => cipherEnabled'
    BY <1>1
  <2>2. ASSUME NEW d \in Calls PROVE Guarded(d)'
    BY <1>1, <1>t, <1>b
  <2>3. QED BY <2>1, <2>2
<1>2. ASSUME NEW c \in Calls, Gate(c) PROVE Gating'
  <2>1. /\ pc' = [pc EXCEPT ![c] = IF cipherEnabled /\ ShouldEncrypt(operation[c])
                                   THEN "wallet" ELSE "perform"]
        /\ sealedFor' = [sealedFor EXCEPT ![c] = NoWallet]
        /\ UNCHANGED <<cipherEnabled, cipherWallet, covered, stable>>
    BY <1>2 DEF Gate, config, seen
  <2>2. ShouldEncrypt(operation[c]) <=> ~Bootstrap(operation[c])
    BY <1>t, BypassExact
  <2>3. c \in covered => cipherEnabled
    OBVIOUS
  <2>4. ASSUME NEW d \in Calls \ {c} PROVE Guarded(d)'
    BY <2>1, <1>t, <1>b
  <2>5. Guarded(c)'
    BY <2>1, <2>2, <2>3, <1>t, <1>b
  <2>6. QED BY <2>1, <2>4, <2>5
<1>3. ASSUME NEW c \in Calls, Checked(c) PROVE Gating'
  <2>1. /\ pc[c] \in {"wallet", "key"} /\ cipherWallet # NoWallet
        /\ \E p \in {"key", "seal"} : pc' = [pc EXCEPT ![c] = p]
        /\ UNCHANGED <<cipherEnabled, cipherWallet, sealedFor, covered, stable>>
    BY <1>3 DEF Checked, WalletMissing, config, seen
  <2>2. ASSUME NEW d \in Calls PROVE Guarded(d)'
    BY <2>1, <1>t, <1>b
  <2>3. QED BY <2>1, <2>2
<1>4. ASSUME NEW c \in Calls, FailClosed(c) PROVE Gating'
  <2>1. /\ pc[c] \in {"wallet", "key"} /\ pc' = [pc EXCEPT ![c] = "thrown"]
        /\ UNCHANGED <<cipherEnabled, cipherWallet, sealedFor, covered, stable>>
    BY <1>4 DEF FailClosed, WalletMissing, KeyMissing, config, seen
  <2>2. ASSUME NEW d \in Calls PROVE Guarded(d)'
    BY <2>1, <1>t, <1>b
  <2>3. QED BY <2>1, <2>2
<1>5. ASSUME NEW c \in Calls, Seal(c) PROVE Gating'
  <2>1. /\ pc[c] = "seal" /\ pc' = [pc EXCEPT ![c] = "perform"]
        /\ sealedFor' = [sealedFor EXCEPT ![c] = cipherWallet]
        /\ stable' = stable \cup {c}
        /\ UNCHANGED <<cipherEnabled, cipherWallet, covered>>
    BY <1>5 DEF Seal, config
  <2>2. ASSUME NEW d \in Calls PROVE Guarded(d)'
    BY <2>1, <1>t, <1>b
  <2>3. QED BY <2>1, <2>2
<1>6. ASSUME NEW c \in Calls, CallStep(c) PROVE Gating'
  <2>1. CASE Start(c) \/ FirstIteration(c) \/ Backoff(c) \/ GiveUp(c)
    BY <1>1, <2>1 DEF Start, FirstIteration, Backoff, GiveUp, config, seen
  <2>2. CASE Acquire(c) \/ AcquireFails(c)
    BY <1>1, <2>2 DEF Acquire, AcquireFails, AttemptBegins, TryAgain, config, seen
  <2>3. CASE SealFails(c) \/ Send(c) \/ Succeeds(c) \/ Refused(c) \/ Unanswered(c)
    BY <1>1, <2>3 DEF SealFails, Send, Succeeds, Refused, Unanswered, TryAgain,
                     config, seen
  <2>4. QED BY <1>2, <1>3, <1>4, <1>5, <1>6, <2>1, <2>2, <2>3 DEF CallStep
\* The switch turned off covers no attempt, a wallet replaced leaves none stable.
<1>7. CASE Setter
  <2>1. /\ UNCHANGED <<pc, sealedFor>>
        /\ \/ covered' = covered /\ cipherEnabled' = cipherEnabled
           \/ covered' = covered /\ cipherEnabled' = TRUE
           \/ covered' = {}
        /\ cipherWallet = NoWallet \/ cipherWallet' # NoWallet
        /\ (cipherWallet' = cipherWallet /\ stable' = stable) \/ stable' = {}
    BY <1>7 DEF Setter, SetEncryption, SetCipherContext, SetServerPubKey,
       SetRetryConfig, locals, seen
  <2>2. ASSUME NEW d \in Calls PROVE Guarded(d)'
    BY <2>1, <1>b
  <2>3. QED BY <2>1, <2>2
<1>8. CASE GetStats \/ UNCHANGED vars
  <2>1. UNCHANGED <<pc, sealedFor, cipherEnabled, cipherWallet, covered, stable>>
    BY <1>8 DEF GetStats, PollTotal, PollFailed, PollReturns, vars, config, locals, seen
  <2>2. ASSUME NEW d \in Calls PROVE Guarded(d)'
    BY <2>1, <1>b
  <2>3. QED BY <2>1, <2>2
<1>9. QED BY <1>6, <1>7, <1>8 DEF Next

LEMMA GatingInvariant == Spec => []Gating
<1>1. Init => Gating
  BY DEF Init, Gating
<1>2. TypeOK /\ Gating /\ [Next]_vars => Gating'
  BY GatingStep
<1>3. QED BY <1>1, <1>2, TypeCorrect, PTL DEF Spec

(* An attempt that has had encryption on from its beginning is never sent   *)
(* in the clear, under any interleaving of calls, retries and setters with  *)
(* the separate reads of executeInternal's gate.                            *)
THEOREM NeverDowngrades == Spec => FailClosedSends
<1>1. ASSUME TypeOK, Gating, NEW c \in Calls, Send(c), NEW m \in wire' \ wire,
             m.call \in covered, ~Bootstrap(operation[m.call])
      PROVE  /\ m.sealedFor # NoWallet
             /\ m.call \in stable => m.sealedFor = cipherWallet
  <2>1. m = [call |-> c, attempt |-> attempt[c], sealedFor |-> sealedFor[c]]
        /\ pc[c] = "perform"
    BY <1>1 DEF Send
  <2>2. m.call = c /\ m.sealedFor = sealedFor[c]
    BY <2>1
  <2>3. QED BY <1>1, <2>1, <2>2 DEF Gating
<1>2. TypeOK /\ Gating /\ [Next]_vars =>
        [\A m \in wire' \ wire :
            m.call \in covered /\ ~Bootstrap(operation[m.call]) =>
                /\ m.sealedFor # NoWallet
                /\ m.call \in stable => m.sealedFor = cipherWallet]_vars
  BY <1>1, WireStep
<1>3. QED BY <1>2, TypeCorrect, GatingInvariant, PTL DEF Spec, FailClosedSends

(* The login's own operations pass the gate in the clear and are never      *)
(* refused by it, however their texts are written: parseOperation finds the *)
(* field the text asks for, and the decision is made before the keys are    *)
(* asked for.                                                               *)
THEOREM BootstrapNeverBlocked == Spec => []BootstrapOpen
<1>1. Gating => BootstrapOpen
  BY DEF Gating, BootstrapOpen
<1>2. QED BY <1>1, GatingInvariant, PTL

-----------------------------------------------------------------------------
(* The answer.                                                              *)

(* The context still holds the wallet a stable call was sealed with, what   *)
(* a call brings to its end is no success; a status no attempt wrote comes  *)
(* with a body none has written.                                            *)
Answering ==
    \A c \in Calls :
        /\ c \in stable /\ sealedFor[c] # NoWallet => cipherWallet = sealedFor[c]
        /\ pc[c] \notin Ended => status[c] # "2xx"
        /\ status[c] = "unset" => body[c] = "none"

AInv == Answering /\ SealedAnswerOpened

LEMMA AnsweringStep ==
    ASSUME TypeOK, AInv, [Next]_vars
    PROVE  AInv'
<1> USE DEF AInv, Answering, SealedAnswerOpened, Ended
<1>t. /\ pc = [d \in Calls |-> pc[d]] /\ status = [d \in Calls |-> status[d]]
      /\ body = [d \in Calls |-> body[d]] /\ sealedFor = [d \in Calls |-> sealedFor[d]]
  BY DEF TypeOK
\* Steps of a call with nothing in flight.
<1>1. ASSUME NEW c \in Calls,
             \/ Start(c) \/ FirstIteration(c) \/ Backoff(c) \/ Acquire(c)
             \/ AcquireFails(c) \/ Checked(c) \/ FailClosed(c) \/ SealFails(c) \/ Send(c)
      PROVE  AInv'
  <2>1. /\ pc[c] \notin Ended /\ UNCHANGED <<cipherWallet, stable, sealedFor, body>>
        /\ \E p \in {"loop", "ready", "gate", "key", "seal", "inflight", "thrown"} :
              pc' = [pc EXCEPT ![c] = p]
        /\ status' = status \/ status' = [status EXCEPT ![c] = "0"]
    BY <1>1 DEF Start, FirstIteration, Backoff, Acquire, AcquireFails, Checked,
                FailClosed, WalletMissing, KeyMissing, SealFails, Send, TryAgain,
                config, locals, seen
  <2>2. QED BY <2>1, <1>t
<1>2. ASSUME NEW c \in Calls, GiveUp(c) PROVE AInv'
  <2>1. PICK s \in IF status[c] = "unset" THEN Statuses \ {"unset"} ELSE {status[c]} :
           status' = [status EXCEPT ![c] = s]
    BY <1>2 DEF GiveUp
  <2>2. /\ pc[c] = "loop" /\ pc' = [pc EXCEPT ![c] = "done"]
        /\ UNCHANGED <<cipherWallet, stable, sealedFor, body>>
    BY <1>2 DEF GiveUp, config
  <2>3. s = "2xx" => body[c] = "none"
    BY <2>1, <2>2, <1>t
  <2>4. s = "unset" => FALSE
    BY <2>1
  <2>5. QED BY <2>1, <2>2, <2>3, <2>4, <1>t
<1>3. ASSUME NEW c \in Calls, Gate(c) \/ Seal(c) PROVE AInv'
  <2>1. /\ pc[c] \notin Ended
        /\ \E p \in {"wallet", "perform"} : pc' = [pc EXCEPT ![c] = p]
        /\ UNCHANGED <<cipherWallet, status, body>>
        /\ \/ sealedFor' = [sealedFor EXCEPT ![c] = NoWallet] /\ stable' = stable
           \/ /\ sealedFor' = [sealedFor EXCEPT ![c] = cipherWallet]
              /\ stable' = stable \cup {c}
    BY <1>3 DEF Gate, Seal, config, seen
  <2>2. QED BY <2>1, <1>t
<1>4. ASSUME NEW c \in Calls, Succeeds(c) PROVE AInv'
  <2>1. PICK reply \in Replies(c) : body' = [body EXCEPT ![c] = Opened(c, reply)]
    BY <1>4 DEF Succeeds
  <2>2. /\ pc[c] = "inflight" /\ pc' = [pc EXCEPT ![c] = "done"]
        /\ status' = [status EXCEPT ![c] = "2xx"]
        /\ UNCHANGED <<cipherWallet, stable, sealedFor>>
    BY <1>4 DEF Succeeds, config
  <2>3. c \in stable => Opened(c, reply) # "envelope"
    BY <2>1, <2>2 DEF Opened, Replies
  <2>4. QED BY <2>1, <2>2, <2>3, <1>t
<1>5. ASSUME NEW c \in Calls, Refused(c) \/ Unanswered(c) PROVE AInv'
  <2>1. /\ \E b : body' = [body EXCEPT ![c] = b]
        /\ \E s \in {"0", "3xx", "4xx", "5xx"} : status' = [status EXCEPT ![c] = s]
        /\ \E p \in {"loop", "done"} : pc' = [pc EXCEPT ![c] = p]
        /\ UNCHANGED <<cipherWallet, stable, sealedFor>>
    BY <1>5 DEF Refused, Unanswered, TryAgain, config
  <2>2. QED BY <2>1, <1>t
\* A context replaced leaves no call stable.
<1>6. CASE Setter
  <2>1. /\ UNCHANGED <<pc, status, body, sealedFor>>
        /\ \/ cipherWallet' = cipherWallet /\ stable' = stable
           \/ stable' = {}
    BY <1>6 DEF Setter, SetEncryption, SetCipherContext, SetServerPubKey,
     SetRetryConfig, locals, seen
  <2>2. QED BY <2>1
<1>7. CASE GetStats \/ UNCHANGED vars
  BY <1>7 DEF GetStats, PollTotal, PollFailed, PollReturns, vars, config, locals, seen
<1>8. QED
  BY <1>1, <1>2, <1>3, <1>4, <1>5, <1>6, <1>7 DEF Next, CallStep

(* Whatever the calls and setters do, a sealed request whose context was    *)
(* not replaced while it was out gives its caller the opened answer.        *)
THEOREM AnswerReadable == Spec => []SealedAnswerOpened
<1>1. Init => AInv
  BY DEF Init, AInv, Answering, SealedAnswerOpened
<1>2. TypeOK /\ AInv /\ [Next]_vars => AInv'
  BY AnsweringStep
<1>3. AInv => SealedAnswerOpened
  BY DEF AInv
<1>4. QED BY <1>1, <1>2, <1>3, TypeCorrect, PTL DEF Spec

-----------------------------------------------------------------------------
(* The statistics.                                                          *)

Tried == {c \in Calls : attempt[c] > 0 \/ pc[c] \in InFlight \cup Ended}

(* What a getStats that loaded failedRequests first has in hand.            *)
Polled ==
    /\ poll.first = "none" => poll = NoPoll
    /\ poll.first = "failed" => poll.failed \in 0..failedRequests
    /\ poll.first = "failed" /\ poll.total # Unread => poll.failed <= poll.total

(* FailuresCounted made inductive: an attempt was counted for every call    *)
(* past its first getCurlHandle, and a call that has not ended carries the  *)
(* status of a failed attempt, or none.                                     *)
Counting ==
    /\ \A c \in Calls :
          pc[c] \notin Ended =>
             IF attempt[c] = 0 THEN status[c] = "unset"
                               ELSE status[c] \in {"0", "3xx", "5xx"}
    /\ failedRequests = Cardinality(Failed)
    /\ Cardinality(Tried) <= totalRequests
    /\ Polled

LEMMA FinitelyMany ==
    /\ IsFiniteSet(Failed) /\ IsFiniteSet(Tried)
    /\ Cardinality(Failed) \in Nat /\ Cardinality(Tried) \in Nat
    /\ Cardinality(Failed) <= Cardinality(Tried)
<1>1. Failed \in SUBSET Tried /\ Tried \in SUBSET Calls
  BY DEF Failed, Tried, Ended
<1>2. IsFiniteSet(Tried)
  BY <1>1, FS_Subset, TransportAssumption
<1>3. IsFiniteSet(Failed) /\ Cardinality(Failed) <= Cardinality(Tried)
  BY <1>1, <1>2, FS_Subset
<1>4. QED BY <1>2, <1>3, FS_CardinalityType

(* One call's step adds at most that call to a set of calls.                *)
LEMMA AddsOne ==
    ASSUME NEW S, IsFiniteSet(S), NEW x
    PROVE  /\ Cardinality(S \cup {x}) <= Cardinality(S) + 1
           /\ x \notin S => Cardinality(S \cup {x}) = Cardinality(S) + 1
<1>1. Cardinality(S) \in Nat
  BY FS_CardinalityType
<1>2. Cardinality(S \cup {x}) = IF x \in S THEN Cardinality(S) ELSE Cardinality(S) + 1
  BY FS_AddElement
<1>3. QED BY <1>1, <1>2

LEMMA CountingStep ==
    ASSUME \A cfg \in RetryConfigs : cfg.maxRetries >= 0,
           TypeOK, Counting, [Next]_vars
    PROVE  Counting'
<1> USE FinitelyMany DEF Counting, Polled, Ended
<1>t. /\ pc = [d \in Calls |-> pc[d]] /\ attempt = [d \in Calls |-> attempt[d]]
      /\ status = [d \in Calls |-> status[d]]
      /\ attempt \in [Calls -> Nat]
      /\ totalRequests \in Nat /\ failedRequests \in Nat
      /\ retryConfig.maxRetries \in Int /\ retryConfig.maxRetries >= 0
  BY TransportAssumption DEF TypeOK
\* Steps that neither begin an attempt nor end a call.
<1>1. ASSUME NEW c \in Calls, Start(c) \/ FirstIteration(c) \/ Backoff(c)
      PROVE  Counting'
  <2>1. /\ pc[c] \in {"new", "loop"}
        /\ \E p \in {"loop", "ready"} : pc' = [pc EXCEPT ![c] = p]
        /\ UNCHANGED <<attempt, status, failedRequests, totalRequests, poll>>
    BY <1>1 DEF Start, FirstIteration, Backoff, stats, polling
  <2>2. Failed' = Failed /\ Tried' = Tried
    BY <2>1, <1>t DEF Failed, Tried, InFlight
  <2>3. QED BY <2>1, <2>2, <1>t
<1>2. ASSUME NEW c \in Calls,
             \/ Gate(c) \/ Checked(c) \/ SealFails(c) \/ Seal(c) \/ Send(c)
             \/ Unanswered(c)
      PROVE  Counting'
  <2>1. /\ pc[c] \in InFlight
        /\ \/ /\ pc' = [pc EXCEPT ![c] = "loop"]
              /\ attempt' = [attempt EXCEPT ![c] = @ + 1]
              /\ \E s \in {"0", "3xx", "5xx"} : status' = [status EXCEPT ![c] = s]
           \/ /\ \E p \in InFlight : pc' = [pc EXCEPT ![c] = p]
              /\ UNCHANGED <<attempt, status>>
        /\ UNCHANGED <<failedRequests, totalRequests, poll>>
    BY <1>2 DEF Gate, Checked, SealFails, Seal, Send, Unanswered, TryAgain, stats,
                polling, InFlight
  <2>2. Failed' = Failed /\ Tried' = Tried
    BY <2>1, <1>t DEF Failed, Tried, InFlight
  <2>3. QED BY <2>1, <2>2, <1>t DEF InFlight
\* An attempt begins.
<1>3. ASSUME NEW c \in Calls, Acquire(c) \/ AcquireFails(c)
      PROVE  Counting'
  <2>1. /\ pc[c] = "ready" /\ totalRequests' = totalRequests + 1
        /\ \/ pc' = [pc EXCEPT ![c] = "gate"] /\ UNCHANGED <<attempt, status>>
           \/ /\ pc' = [pc EXCEPT ![c] = "loop"]
              /\ attempt' = [attempt EXCEPT ![c] = @ + 1]
              /\ status' = [status EXCEPT ![c] = "0"]
        /\ UNCHANGED <<failedRequests, poll>>
    BY <1>3 DEF Acquire, AcquireFails, TryAgain, polling
  <2>2. Failed' = Failed /\ Tried' = Tried \cup {c}
    BY <2>1, <1>t DEF Failed, Tried, InFlight
  <2>3. Cardinality(Tried') <= Cardinality(Tried) + 1
    BY <2>2, AddsOne
  <2>4. Cardinality(Tried') \in Nat
    BY <2>2, FS_AddElement, FS_CardinalityType
  <2>5. Cardinality(Tried') <= totalRequests'
    BY <2>1, <2>3, <2>4, <1>t
  <2>6. QED BY <2>1, <2>2, <2>5, <1>t
\* A call ends, failed.
<1>4. ASSUME NEW c \in Calls, pc[c] \in {"loop", "inflight"}, c \in Tried,
             pc' = [pc EXCEPT ![c] = "done"], attempt' = attempt,
             \E s \in Statuses \ {"2xx"} : status' = [status EXCEPT ![c] = s],
             failedRequests' = failedRequests + 1, UNCHANGED <<totalRequests, poll>>
      PROVE  Counting'
  <2>1. Failed' = Failed \cup {c} /\ c \notin Failed /\ Tried' = Tried
    BY <1>4, <1>t DEF Failed, Tried, InFlight
  <2>2. Cardinality(Failed') = Cardinality(Failed) + 1
    BY <2>1, AddsOne
  <2>3. QED BY <1>4, <2>1, <2>2, <1>t
<1>5. ASSUME NEW c \in Calls, GiveUp(c) PROVE Counting'
  <2>1. attempt[c] > 0
    BY <1>5, <1>t DEF GiveUp
  <2>2. status[c] \in {"0", "3xx", "5xx"} /\ pc[c] = "loop" /\ c \in Tried
    BY <1>5, <2>1, <1>t DEF GiveUp, Tried
  <2>3. status' = [status EXCEPT ![c] = status[c]]
    BY <1>5, <2>2 DEF GiveUp
  <2>4. status[c] \in Statuses \ {"2xx"}
    BY <2>2 DEF Statuses
  <2>5. QED BY <1>4, <1>5, <2>2, <2>3, <2>4 DEF GiveUp, polling
<1>6. ASSUME NEW c \in Calls, Refused(c) PROVE Counting'
  <2>1. pc[c] = "inflight" /\ c \in Tried
    BY <1>6 DEF Refused, Tried, InFlight
  <2>2. "4xx" \in Statuses \ {"2xx"}
    BY DEF Statuses
  <2>3. QED BY <1>4, <1>6, <2>1, <2>2 DEF Refused, polling
\* A call ends otherwise.
<1>7. ASSUME NEW c \in Calls, FailClosed(c) \/ Succeeds(c) PROVE Counting'
  <2>1. /\ pc[c] \in InFlight
        /\ \/ pc' = [pc EXCEPT ![c] = "thrown"] /\ status' = status
           \/ pc' = [pc EXCEPT ![c] = "done"] /\ status' = [status EXCEPT ![c] = "2xx"]
        /\ UNCHANGED <<attempt, failedRequests, totalRequests, poll>>
    BY <1>7 DEF FailClosed, WalletMissing, KeyMissing, Succeeds, stats, polling, InFlight
  <2>2. Failed' = Failed /\ Tried' = Tried
    BY <2>1, <1>t DEF Failed, Tried, InFlight
  <2>3. QED BY <2>1, <2>2, <1>t DEF InFlight
\* The failures loaded first are no more than were counted by then.
<1>8. ASSUME UNCHANGED <<pc, attempt, status, failedRequests, totalRequests>>,
             poll' = poll \/ GetStats
      PROVE  Counting'
  <2>1. Failed' = Failed /\ Tried' = Tried
    BY <1>8 DEF Failed, Tried, InFlight
  <2>2. failedRequests <= totalRequests
    BY <1>t
  <2>3. /\ poll = [total |-> poll.total, failed |-> poll.failed, first |-> poll.first]
        /\ poll.total \in Nat \cup {Unread} /\ poll.failed \in Nat \cup {Unread}
        /\ poll.first \in {"none", "total", "failed"}
    BY DEF TypeOK
  <2>4. ASSUME PollTotal PROVE Polled'
    <3>1. poll' = [total |-> totalRequests, failed |-> poll.failed, first |-> First("total")]
      BY <2>3, <2>4 DEF PollTotal
    <3>2. /\ First("total") # "none"
          /\ First("total") = "failed" => poll.first = "failed"
      BY <2>3 DEF First
    <3>3. QED BY <1>8, <2>2, <2>3, <3>1, <3>2, <1>t
  <2>5. ASSUME PollFailed PROVE Polled'
    <3>1. /\ poll.failed = Unread
          /\ poll' = [total |-> poll.total, failed |-> failedRequests,
                      first |-> First("failed")]
      BY <2>3, <2>5 DEF PollFailed
    <3>2. First("failed") = "failed" => poll.total = Unread
      BY <2>3, <3>1 DEF First, NoPoll, Unread
    <3>3. First("failed") # "none"
      BY <2>3 DEF First
    <3>4. QED BY <1>8, <2>2, <2>3, <3>1, <3>2, <3>3, <1>t
  <2>6. ASSUME PollReturns PROVE Polled'
    <3>1. poll' = NoPoll
      BY <2>6 DEF PollReturns
    <3>2. QED BY <3>1 DEF NoPoll
  <2>7. ASSUME poll' = poll PROVE Polled'
    BY <1>8, <2>7
  <2>8. Polled'
    BY <1>8, <2>4, <2>5, <2>6, <2>7 DEF GetStats
  <2>9. QED BY <1>8, <2>1, <2>8, <1>t
<1>9. CASE Setter \/ GetStats \/ UNCHANGED vars
  BY <1>8, <1>9 DEF Setter, SetEncryption, SetCipherContext, SetServerPubKey,
     SetRetryConfig, polling,
     GetStats, PollTotal, PollFailed, PollReturns, vars, stats, locals
<1>10. QED
  BY <1>1, <1>2, <1>3, <1>5, <1>6, <1>7, <1>9 DEF Next, CallStep

(* When no configuration asks for a negative number of retries, getStats    *)
(* counts each failed call once and never more failures than attempts.      *)
THEOREM StatisticsCorrect ==
    ASSUME \A cfg \in RetryConfigs : cfg.maxRetries >= 0
    PROVE  Spec => []FailuresCounted
<1>1. Init => Counting
  <2> SUFFICES ASSUME Init PROVE Counting
    OBVIOUS
  <2>1. Failed = {} /\ Tried = {}
    BY DEF Init, Failed, Tried, InFlight, Ended
  <2>2. Cardinality(Failed) = 0 /\ Cardinality(Tried) = 0
    BY <2>1, FS_EmptySet
  <2>3. QED BY <2>2 DEF Init, Counting, Polled, Ended, NoPoll
<1>2. TypeOK /\ Counting /\ [Next]_vars => Counting'
  BY CountingStep
<1>3. TypeOK /\ Counting => FailuresCounted
  BY FinitelyMany DEF TypeOK, Counting, Polled, FailuresCounted
<1>4. QED BY <1>1, <1>2, <1>3, TypeCorrect, PTL DEF Spec

-----------------------------------------------------------------------------
(* The retries.                                                             *)

(* A finite set of integers has a largest.                                  *)
LEMMA LargestExists ==
    ASSUME NEW D, IsFiniteSet(D), D # {}, NEW f \in [D -> Int]
    PROVE  LET S == {f[x] : x \in D}
           IN  Largest(S) \in S /\ \A x \in D : f[x] <= Largest(S)
<1> DEFINE S == {f[x] : x \in D}
           Known == {s \in SUBSET D : s = {} \/ \E x \in s : \A y \in s : f[y] <= f[x]}
<1>1. {} \in Known
  OBVIOUS
<1>2. ASSUME NEW s \in SUBSET D, NEW x \in s, s \ {x} \in Known PROVE s \in Known
  <2>1. CASE s \ {x} = {}
    <3>1. \A y \in s : f[y] <= f[x]
      BY <2>1
    <3>2. QED BY <3>1
  <2>2. CASE s \ {x} # {}
    <3>1. PICK z \in s \ {x} : \A y \in s \ {x} : f[y] <= f[z]
      BY <1>2, <2>2
    <3>2. \A y \in s : f[y] \in Int /\ (y = x \/ f[y] <= f[z])
      BY <3>1
    <3>3. CASE f[x] <= f[z]
      <4>1. \A y \in s : f[y] <= f[z]
        BY <3>2, <3>3
      <4>2. QED BY <4>1
    <3>4. CASE f[z] <= f[x]
      <4>1. \A y \in s : f[y] <= f[x]
        BY <3>2, <3>4
      <4>2. QED BY <4>1
    <3>5. QED BY <3>2, <3>3, <3>4
  <2>3. QED BY <2>1, <2>2
<1>3. D \in Known
  <2> HIDE DEF Known
  <2>1. QED BY <1>1, <1>2, FiniteSets0
<1>4. \E n \in S : \A m \in S : m <= n
  <2>1. PICK x \in D : \A y \in D : f[y] <= f[x]
    BY <1>3
  <2>2. QED BY <2>1
<1>5. Largest(S) \in S /\ \A m \in S : m <= Largest(S)
  <2> HIDE DEF S
  <2>1. QED BY <1>4 DEF Largest
<1>6. QED BY <1>5

Retries    == Largest({cfg.maxRetries : cfg \in RetryConfigs})
FirstDelay == Largest({cfg.initialDelay : cfg \in RetryConfigs})
DelayCap   == Largest({cfg.maxDelay : cfg \in RetryConfigs})

LEMMA Limits ==
    /\ Retries \in Int /\ FirstDelay \in Nat /\ DelayCap \in Nat
    /\ \A cfg \in RetryConfigs : /\ cfg.maxRetries <= Retries
                                 /\ cfg.initialDelay <= FirstDelay
                                 /\ cfg.maxDelay <= DelayCap
<1> USE TransportAssumption
<1>1. ASSUME NEW f \in [RetryConfigs -> Int]
      PROVE  /\ Largest({f[x] : x \in RetryConfigs}) \in {f[x] : x \in RetryConfigs}
             /\ \A x \in RetryConfigs : f[x] <= Largest({f[x1] : x1 \in RetryConfigs})
  BY LargestExists
<1> DEFINE r == [cfg \in RetryConfigs |-> cfg.maxRetries]
           d == [cfg \in RetryConfigs |-> cfg.initialDelay]
           m == [cfg \in RetryConfigs |-> cfg.maxDelay]
<1>2. \A cfg \in RetryConfigs :
         cfg.maxRetries \in Int /\ cfg.initialDelay \in Nat /\ cfg.maxDelay \in Nat
  OBVIOUS
<1>3. r \in [RetryConfigs -> Int] /\ d \in [RetryConfigs -> Int] /\ m \in [RetryConfigs -> Int]
  BY <1>2
<1>4. /\ {r[x] : x \in RetryConfigs} = {cfg.maxRetries : cfg \in RetryConfigs}
      /\ {d[x] : x \in RetryConfigs} = {cfg.initialDelay : cfg \in RetryConfigs}
      /\ {m[x] : x \in RetryConfigs} = {cfg.maxDelay : cfg \in RetryConfigs}
  OBVIOUS
<1>5. /\ Retries \in {cfg.maxRetries : cfg \in RetryConfigs}
      /\ \A x \in RetryConfigs : r[x] <= Retries
  BY <1>1, <1>3, <1>4 DEF Retries
<1>6. /\ FirstDelay \in {cfg.initialDelay : cfg \in RetryConfigs}
      /\ \A x \in RetryConfigs : d[x] <= FirstDelay
  BY <1>1, <1>3, <1>4 DEF FirstDelay
<1>7. /\ DelayCap \in {cfg.maxDelay : cfg \in RetryConfigs}
      /\ \A x \in RetryConfigs : m[x] <= DelayCap
  BY <1>1, <1>3, <1>4 DEF DelayCap
<1>8. QED BY <1>2, <1>5, <1>6, <1>7

(* The longest that so many backoffs wait: the first the initial delay of   *)
(* some configuration, every other one no more than the ceiling of one.     *)
Wait(n) == IF n = 0 THEN 0 ELSE FirstDelay + (n - 1) * DelayCap

LEMMA WaitGrows ==
    /\ \A n \in Nat : Wait(n) \in Nat
    /\ \A n \in Nat : Wait(n) <= Wait(n + 1)
    /\ \A n \in Nat : Wait(n + 1) = Wait(n) + IF n = 0 THEN FirstDelay ELSE DelayCap
    /\ \A n, k \in Nat : n <= k => Wait(n) <= Wait(k)
<1>1. FirstDelay \in Nat /\ DelayCap \in Nat
  BY Limits
<1>2. \A n \in Nat : n * DelayCap \in Nat
  BY <1>1
<1>3. ASSUME NEW n \in Nat PROVE Wait(n) \in Nat
  BY <1>1, <1>2 DEF Wait
<1>4. ASSUME NEW n \in Nat
      PROVE  Wait(n + 1) = Wait(n) + IF n = 0 THEN FirstDelay ELSE DelayCap
  <2>1. n * DelayCap = (n - 1) * DelayCap + DelayCap
    BY <1>1
  <2>2. n = 0 => n * DelayCap = 0
    BY <1>1
  <2>3. CASE n = 0
    BY <1>1, <2>2, <2>3 DEF Wait
  <2>4. CASE n # 0
    <3>1. n - 1 \in Nat /\ (n - 1) * DelayCap \in Nat
      BY <1>2, <2>4
    <3>2. QED BY <1>1, <2>1, <2>4, <3>1 DEF Wait
  <2>5. QED BY <2>3, <2>4
<1>5. ASSUME NEW n \in Nat, NEW k \in Nat, n <= k PROVE Wait(n) <= Wait(k)
  <2> DEFINE Known == {m \in Nat : Wait(n) <= Wait(n + m)}
  <2>1. 0 \in Known
    BY <1>3
  <2>2. ASSUME NEW m \in Nat, m \in Known PROVE m + 1 \in Known
    <3>1. Wait((n + m) + 1) = Wait(n + m) + IF n + m = 0 THEN FirstDelay ELSE DelayCap
      BY <1>4
    <3>2. Wait(n) \in Nat /\ Wait(n + m) \in Nat /\ Wait(n) <= Wait(n + m)
      BY <1>3, <2>2
    <3>3. (n + m) + 1 = n + (m + 1)
      OBVIOUS
    <3>4. QED BY <1>1, <3>1, <3>2, <3>3
  <2>3. k - n \in Nat /\ n + (k - n) = k
    BY <1>5
  <2>4. k - n \in Known
    <3> HIDE DEF Known
    <3>1. QED BY <2>1, <2>2, <2>3, Naturals0
  <2>5. QED BY <2>3, <2>4
<1>6. QED BY <1>1, <1>3, <1>4, <1>5

(* The backoffs of a call that has not ended.                               *)
Backoffs(c) ==
    IF pc[c] = "new" THEN 0
    ELSE IF pc[c] = "loop" THEN (IF attempt[c] = 0 THEN 0 ELSE attempt[c] - 1)
    ELSE attempt[c]

(* RetryBudget made inductive: a call sends once per attempt, an attempt    *)
(* is within the limit of the configuration that let it begin, and a call   *)
(* has waited one delay per backoff, the next delay being within its bound  *)
(* whatever configuration it came from.                                     *)
Sending ==
    \A m \in wire :
        /\ m.attempt <= attempt[m.call] /\ m.attempt <= Retries
        /\ m.attempt = attempt[m.call] => pc[m.call] \in {"inflight"} \cup Ended
        /\ \A n \in wire : n.call = m.call /\ n.attempt = m.attempt => n = m

Waiting ==
    \A c \in Calls :
        IF pc[c] \in Ended THEN slept[c] <= Wait(Retries)
        ELSE /\ pc[c] = "new" => attempt[c] = 0
             /\ Backoffs(c) \in 0..Retries
             /\ slept[c] <= Wait(Backoffs(c))
             /\ pc[c] # "new" =>
                   delay[c] <= IF Backoffs(c) = 0 THEN FirstDelay ELSE DelayCap

Budgeting == Sending /\ Waiting

(* Only Send adds to what is on the wire; every other step moves a call on. *)
LEMMA SendingStep ==
    ASSUME TypeOK, Budgeting, [Next]_vars
    PROVE  Sending'
<1> USE DEF Sending, Ended
<1>t. /\ pc = [d \in Calls |-> pc[d]] /\ attempt = [d \in Calls |-> attempt[d]]
      /\ attempt \in [Calls -> Nat] /\ wire \subseteq Message
      /\ \A m \in wire : m.call \in Calls /\ m.attempt \in Nat
      /\ Retries \in Int
  BY Limits DEF TypeOK, Message
<1>b. Sending
  BY DEF Budgeting
\* Nothing is sent, and the call does not leave the attempt it has sent.
<1>1. ASSUME NEW c \in Calls,
             pc[c] \in {"new", "loop", "ready"} \cup (InFlight \ {"inflight"}),
             wire' = wire, \E p : pc' = [pc EXCEPT ![c] = p],
             attempt' = attempt \/ attempt' = [attempt EXCEPT ![c] = @ + 1]
      PROVE  Sending'
  <2>1. \A m \in wire : m.call = c => m.attempt < attempt[c]
    BY <1>1, <1>t, <1>b DEF InFlight
  <2>2. attempt'[c] \in Nat /\ attempt[c] <= attempt'[c]
        /\ \A d \in Calls \ {c} : attempt'[d] = attempt[d] /\ pc'[d] = pc[d]
    BY <1>1, <1>t
  <2>3. ASSUME NEW m \in wire
        PROVE  /\ m.attempt <= attempt'[m.call]
               /\ m.attempt = attempt'[m.call] => pc'[m.call] \in {"inflight"} \cup Ended
    <3>1. CASE m.call = c
      BY <2>1, <2>2, <3>1, <1>t
    <3>2. CASE m.call # c
      BY <2>2, <3>2, <1>t, <1>b
    <3>3. QED BY <3>1, <3>2
  <2>4. QED BY <1>1, <2>3, <1>b
\* The call goes on from the attempt it has sent, or ends.
<1>2. ASSUME NEW c \in Calls, pc[c] = "inflight", wire' = wire,
             \/ /\ \E p \in Ended : pc' = [pc EXCEPT ![c] = p]
                /\ attempt' = attempt
             \/ /\ pc' = [pc EXCEPT ![c] = "loop"]
                /\ attempt' = [attempt EXCEPT ![c] = @ + 1]
      PROVE  Sending'
  <2>1. /\ attempt[c] \in Nat
        /\ \/ pc'[c] \in Ended /\ attempt'[c] = attempt[c]
           \/ attempt'[c] = attempt[c] + 1
        /\ \A d \in Calls \ {c} : attempt'[d] = attempt[d] /\ pc'[d] = pc[d]
    BY <1>2, <1>t
  <2>2. QED BY <1>2, <2>1, <1>t, <1>b
<1>3. ASSUME NEW c \in Calls, Send(c) PROVE Sending'
  <2>1. PICK m : m.call = c /\ m.attempt = attempt[c] /\ wire' = wire \cup {m}
    <3>1. PICK seal : wire' = wire \cup {[call |-> c, attempt |-> attempt[c],
                                           sealedFor |-> seal]}
      BY <1>3 DEF Send
    <3>2. QED BY <3>1
  <2>2. pc[c] = "perform" /\ pc' = [pc EXCEPT ![c] = "inflight"] /\ attempt' = attempt
    BY <1>3 DEF Send
  <2>3. \A n \in wire : n.call = c => n.attempt < attempt[c]
    BY <2>2, <1>t, <1>b
  <2>4. attempt[c] <= Retries
    BY <2>2, <1>t DEF Budgeting, Waiting, Backoffs
  <2>5. pc'[c] = "inflight" /\ \A d \in Calls \ {c} : pc'[d] = pc[d]
    BY <2>2, <1>t
  <2>6. ASSUME NEW n \in wire
        PROVE  /\ n.attempt <= attempt'[n.call] /\ n.attempt <= Retries
               /\ n.attempt = attempt'[n.call] => pc'[n.call] \in {"inflight"} \cup Ended
    BY <2>2, <2>3, <2>5, <1>t, <1>b
  <2>7. ASSUME NEW n \in wire' , NEW k \in wire', n.call = k.call, n.attempt = k.attempt
        PROVE  n = k
    BY <2>1, <2>3, <2>7, <1>t, <1>b
  <2>8. /\ m.attempt <= attempt'[m.call] /\ m.attempt <= Retries
        /\ m.attempt = attempt'[m.call] => pc'[m.call] \in {"inflight"} \cup Ended
    BY <2>1, <2>2, <2>4, <2>5, <1>t
  <2>9. \A n \in wire' : n \in wire \/ n = m
    BY <2>1
  <2>10. QED BY <2>6, <2>7, <2>8, <2>9
<1>4. ASSUME UNCHANGED <<pc, attempt, wire>> PROVE Sending'
  BY <1>4, <1>b
<1>5. ASSUME NEW c \in Calls, CallStep(c) PROVE Sending'
  <2>1. CASE Start(c) \/ FirstIteration(c) \/ Backoff(c) \/ GiveUp(c)
    BY <1>1, <2>1 DEF Start, FirstIteration, Backoff, GiveUp, seen
  <2>2. CASE Acquire(c) \/ AcquireFails(c) \/ FailClosed(c) \/ SealFails(c)
    BY <1>1, <2>2 DEF Acquire, AcquireFails, FailClosed, WalletMissing, KeyMissing,
                     SealFails, TryAgain, seen, InFlight
  <2>3. CASE Gate(c) \/ Checked(c) \/ Seal(c)
    BY <1>1, <2>3 DEF Gate, Checked, Seal, seen, InFlight
  <2>4. CASE Succeeds(c) \/ Refused(c) \/ Unanswered(c)
    BY <1>2, <2>4 DEF Succeeds, Refused, Unanswered, TryAgain
  <2>5. QED BY <1>3, <1>5, <2>1, <2>2, <2>3, <2>4 DEF CallStep
<1>6. CASE Setter \/ GetStats \/ UNCHANGED vars
  BY <1>4, <1>6 DEF Setter, SetEncryption, SetCipherContext, SetServerPubKey, SetRetryConfig,
     GetStats, PollTotal, PollFailed, PollReturns, vars, locals, seen
<1>7. QED BY <1>5, <1>6 DEF Next

LEMMA WaitingStep ==
    ASSUME Retries >= 0, TypeOK, Budgeting, [Next]_vars
    PROVE  Waiting'
<1> USE DEF Waiting, Ended
<1>t. /\ pc = [d \in Calls |-> pc[d]] /\ attempt = [d \in Calls |-> attempt[d]]
      /\ delay = [d \in Calls |-> delay[d]] /\ slept = [d \in Calls |-> slept[d]]
      /\ attempt \in [Calls -> Nat] /\ delay \in [Calls -> Nat]
      /\ slept \in [Calls -> Nat]
      /\ pc \in [Calls -> {"new", "loop", "ready"} \cup InFlight \cup Ended]
      /\ retryConfig \in RetryConfigs /\ retryConfig.maxRetries \in Int
      /\ retryConfig.maxRetries <= Retries /\ retryConfig.initialDelay <= FirstDelay
      /\ retryConfig.maxDelay <= DelayCap
      /\ Retries \in Nat /\ FirstDelay \in Nat /\ DelayCap \in Nat
  BY Limits, TransportAssumption DEF TypeOK
<1>b. Waiting
  BY DEF Budgeting
<1> DEFINE Due(c) == IF pc'[c] \in Ended THEN slept'[c] <= Wait(Retries)
                     ELSE /\ pc'[c] = "new" => attempt'[c] = 0
                          /\ Backoffs(c)' \in 0..Retries
                          /\ slept'[c] <= Wait(Backoffs(c)')
                          /\ pc'[c] # "new" =>
                               delay'[c] <= IF Backoffs(c)' = 0 THEN FirstDelay ELSE DelayCap
\* A step of one call leaves every other call's waiting as it is.
<1>o. ASSUME NEW c \in Calls,
             \A d \in Calls \ {c} : /\ pc'[d] = pc[d] /\ attempt'[d] = attempt[d]
                                     /\ slept'[d] = slept[d] /\ delay'[d] = delay[d],
             Due(c)
      PROVE  Waiting'
  <2>1. ASSUME NEW d \in Calls \ {c} PROVE Due(d)
    <3>1. Backoffs(d)' = Backoffs(d)
      BY <1>o DEF Backoffs
    <3>2. QED BY <1>o, <1>b, <3>1
  <2>2. \A d \in Calls : Due(d)
    BY <1>o, <2>1
  <2>3. QED BY <2>2
\* No backoff is begun or ended.
<1>1. ASSUME NEW c \in Calls, pc[c] # "new", pc[c] \notin Ended,
             slept' = slept, delay' = delay,
             \/ \E p \in Ended : pc' = [pc EXCEPT ![c] = p]
             \/ /\ pc[c] = "loop" /\ attempt[c] = 0 /\ attempt' = attempt
                /\ pc' = [pc EXCEPT ![c] = "ready"]
             \/ /\ pc[c] \in {"ready"} \cup InFlight
                /\ \/ /\ attempt' = attempt
                      /\ \E p \in InFlight : pc' = [pc EXCEPT ![c] = p]
                   \/ /\ attempt' = [attempt EXCEPT ![c] = @ + 1]
                      /\ pc' = [pc EXCEPT ![c] = "loop"],
             attempt' = attempt \/ attempt' = [attempt EXCEPT ![c] = @ + 1]
      PROVE  Waiting'
  <2>1. Wait(Backoffs(c)) <= Wait(Retries) /\ Wait(Backoffs(c)) \in Nat
        /\ Wait(Retries) \in Nat
    BY <1>1, <1>t, <1>b, WaitGrows
  <2>2. slept[c] <= Wait(Retries)
    BY <1>1, <1>t, <1>b, <2>1
  <2>3. pc'[c] \notin Ended => Backoffs(c)' = Backoffs(c) /\ pc'[c] # "new"
    BY <1>1, <1>t DEF Backoffs, InFlight
  <2>4. Due(c)
    BY <1>1, <1>b, <2>2, <2>3
  <2>5. QED BY <1>1, <1>o, <1>t, <2>4
<1>2. ASSUME NEW c \in Calls, Start(c) PROVE Waiting'
  <2>1. /\ pc[c] = "new" /\ pc' = [pc EXCEPT ![c] = "loop"]
        /\ delay' = [delay EXCEPT ![c] = retryConfig.initialDelay]
        /\ attempt' = attempt /\ slept' = slept
    BY <1>2 DEF Start, seen
  <2>2. Backoffs(c) = 0 /\ Backoffs(c)' = 0
    BY <2>1, <1>t, <1>b DEF Backoffs
  <2>3. Due(c)
    BY <2>1, <2>2, <1>t, <1>b
  <2>4. QED BY <1>o, <1>t, <2>1, <2>3
<1>3. ASSUME NEW c \in Calls, Backoff(c) PROVE Waiting'
  <2>1. /\ pc[c] = "loop" /\ attempt[c] > 0 /\ attempt[c] <= Retries
        /\ pc' = [pc EXCEPT ![c] = "ready"] /\ attempt' = attempt
        /\ slept' = [slept EXCEPT ![c] = @ + delay[c]]
        /\ delay' = [delay EXCEPT ![c] = NextDelay(@)]
    BY <1>3, <1>t DEF Backoff
  <2> DEFINE b == Backoffs(c)
  <2>2. b \in Nat /\ b = attempt[c] - 1 /\ Backoffs(c)' = b + 1
    BY <2>1, <1>t DEF Backoffs
  <2>3. NextDelay(delay[c]) <= DelayCap
    <3>1. NextDelay(delay[c]) <= retryConfig.maxDelay /\ NextDelay(delay[c]) \in Nat
          /\ retryConfig.maxDelay \in Nat
      <4>1. retryConfig.maxDelay \in Nat /\ retryConfig.multiplier \in Nat
        BY <1>t, TransportAssumption
      <4>2. delay[c] * retryConfig.multiplier \in Nat
        BY <1>t, <4>1
      <4>3. QED BY <4>1, <4>2 DEF NextDelay
    <3>2. QED BY <3>1, <1>t
  <2>4. /\ Wait(b) \in Nat
        /\ Wait(b + 1) = Wait(b) + IF b = 0 THEN FirstDelay ELSE DelayCap
    BY <2>2, WaitGrows
  <2>5. slept[c] <= Wait(b) /\ delay[c] <= IF b = 0 THEN FirstDelay ELSE DelayCap
    BY <2>1, <1>b
  <2>6. slept[c] \in Nat /\ delay[c] \in Nat /\ slept'[c] = slept[c] + delay[c]
        /\ delay'[c] = NextDelay(delay[c]) /\ pc'[c] = "ready" /\ attempt'[c] = attempt[c]
    BY <2>1, <1>t
  <2> HIDE DEF b
  <2>7. slept'[c] <= Wait(b + 1)
    BY <2>4, <2>5, <2>6, <1>t
  <2>8. Due(c)
    BY <2>1, <2>2, <2>3, <2>6, <2>7, <1>t
  <2>9. QED BY <1>o, <1>t, <2>1, <2>8
<1>4. ASSUME UNCHANGED <<pc, attempt, slept, delay>> PROVE Waiting'
  BY <1>4, <1>b DEF Backoffs
<1>5. ASSUME NEW c \in Calls, CallStep(c) PROVE Waiting'
  <2>1. CASE FirstIteration(c) \/ GiveUp(c)
    BY <1>1, <2>1 DEF FirstIteration, GiveUp, seen
  <2>2. CASE Acquire(c) \/ AcquireFails(c) \/ FailClosed(c) \/ SealFails(c)
    BY <1>1, <2>2 DEF Acquire, AcquireFails, FailClosed, WalletMissing, KeyMissing,
                     SealFails, TryAgain, seen, InFlight
  <2>3. CASE Gate(c) \/ Checked(c) \/ Seal(c) \/ Send(c)
    BY <1>1, <2>3 DEF Gate, Checked, Seal, Send, seen, InFlight
  <2>4. CASE Succeeds(c) \/ Refused(c) \/ Unanswered(c)
    BY <1>1, <2>4 DEF Succeeds, Refused, Unanswered, TryAgain, InFlight
  <2>5. QED BY <1>2, <1>3, <1>5, <2>1, <2>2, <2>3, <2>4 DEF CallStep
<1>6. CASE Setter \/ GetStats \/ UNCHANGED vars
  BY <1>4, <1>6 DEF Setter, SetEncryption, SetCipherContext, SetServerPubKey, SetRetryConfig,
     GetStats, PollTotal, PollFailed, PollReturns, vars, locals, seen
<1>7. QED BY <1>5, <1>6 DEF Next

(* As many messages as there are attempts.                                  *)
LEMMA SentCount ==
    ASSUME Retries >= 0, TypeOK, Sending, NEW c \in Calls
    PROVE  Cardinality({m \in wire : m.call = c}) <= Retries + 1
<1> DEFINE sent == {m \in wire : m.call = c}
           number == [m \in sent |-> m.attempt]
<1>1. Retries \in Nat
  BY Limits
<1>2. number \in Injection(sent, 0..Retries)
  <2>1. \A m \in sent : m.attempt \in 0..Retries
    BY <1>1 DEF TypeOK, Message, Sending
  <2>2. \A m, n \in sent : m.attempt = n.attempt => m = n
    BY DEF Sending
  <2>3. QED BY <2>1, <2>2 DEF Injection, IsInjective
<1>3. IsFiniteSet(0..Retries) /\ Cardinality(0..Retries) = Retries + 1
  BY <1>1, FS_Interval
<1>4. QED
  <2> HIDE DEF sent, number
  <2>1. Cardinality(sent) <= Cardinality(0..Retries)
    BY <1>2, <1>3, FS_Injection
  <2>2. QED BY <2>1, <1>3 DEF sent

(* Unless every configuration's limit is negative, a call reaches the       *)
(* network at most once more than the largest limit allows and waits no     *)
(* longer than that many backoffs, however the setters change the           *)
(* configuration between its attempts: executeWithRetry.                    *)
THEOREM RetriesBounded ==
    ASSUME \E cfg \in RetryConfigs : cfg.maxRetries >= 0
    PROVE  Spec => []RetryBudget
<1>1. Retries \in Nat
  BY Limits, TransportAssumption
<1>2. Init => Budgeting
  <2> SUFFICES ASSUME Init PROVE Budgeting
    OBVIOUS
  <2>1. Sending
    BY DEF Init, Sending
  <2>2. Wait(0) = 0
    BY DEF Wait
  <2>3. Waiting
    BY <1>1, <2>2 DEF Init, Waiting, Backoffs, Ended
  <2>4. QED BY <2>1, <2>3 DEF Budgeting
<1>3. TypeOK /\ Budgeting /\ [Next]_vars => Budgeting'
  BY <1>1, SendingStep, WaitingStep DEF Budgeting
<1>4. TypeOK /\ Budgeting => RetryBudget
  <2> SUFFICES ASSUME TypeOK, Budgeting, NEW c \in Calls
               PROVE  /\ Cardinality({m \in wire : m.call = c}) <= Retries + 1
                      /\ slept[c] <= Wait(Retries)
    BY DEF RetryBudget, Retries, FirstDelay, DelayCap, Wait
  <2>1. Cardinality({m \in wire : m.call = c}) <= Retries + 1
    BY <1>1, SentCount DEF Budgeting
  <2>2. slept[c] <= Wait(Retries)
    <3>1. CASE pc[c] \in Ended
      BY <3>1 DEF Budgeting, Waiting
    <3>2. CASE pc[c] \notin Ended
      <4>1. Backoffs(c) \in 0..Retries /\ slept[c] <= Wait(Backoffs(c))
        BY <3>2 DEF Budgeting, Waiting
      <4>2. Wait(Backoffs(c)) <= Wait(Retries) /\ Wait(Backoffs(c)) \in Nat
            /\ Wait(Retries) \in Nat /\ slept[c] \in Nat
        BY <1>1, <4>1, WaitGrows DEF TypeOK
      <4>3. QED BY <4>1, <4>2
    <3>3. QED BY <3>1, <3>2
  <2>3. QED BY <2>1, <2>2
<1>5. QED BY <1>2, <1>3, <1>4, TypeCorrect, PTL DEF Spec
=============================================================================
