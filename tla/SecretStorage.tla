---------------------------- MODULE SecretStorage ----------------------------
(***************************************************************************)
(* AesGcmSecretStorageProvider (storage/SecretStorageProvider.cpp): one     *)
(* identity's master secret, sealed under a passphrase in the primary slot  *)
(* and, when the caller gives a recovery passphrase, sealed again in the    *)
(* recovery slot.  Every operation is a sequence of calls on the backend;   *)
(* the backend's mutex makes each call atomic and nothing orders the        *)
(* sequences of two threads.  The backend is the DurableStore that          *)
(* FileStore implements: a call may be refused, the process may die.        *)
(***************************************************************************)
EXTENDS Naturals

CONSTANTS
    Threads,
    Secrets,
    Passphrases,
    NoPass,             \* an optional passphrase not given
    EmptyPass,          \* one given as ""
    DefaultPassphrase,  \* the constructor's, possibly NoPass
    Nothing,            \* no envelope in a slot, no operation in a thread
    MaxCrashes

ASSUME StorageAssumption ==
    /\ NoPass \notin Passphrases /\ EmptyPass \notin Passphrases
    /\ NoPass # EmptyPass
    /\ DefaultPassphrase \in Passphrases \cup {NoPass}
    /\ MaxCrashes \in Nat

Slots     == {"primary", "recovery"}
Envelopes == [secret: Secrets, pass: Passphrases]
Options   == Passphrases \cup {NoPass, EmptyPass}

Requests  == [secret: Secrets, pass: Passphrases, recovery: Options]

ASSUME NothingAssumption == Nothing \notin Envelopes \cup Requests

Provider == "provider"  \* the one backend object

VARIABLES
    durable, view, open,  \* the backend: see DurableStore
    pc,        \* the backend call each thread makes next
    request,   \* its storeSecret arguments, the passphrase resolved
    removed,   \* removedPrimary of its deleteSecret
    crashes,
    alone,       \* no other operation has overlapped the thread's
    kept,        \* the envelope the last storeSecret promised, if any
    enrolled,    \* the same for the recovery envelope
    recovering,  \* the recoverSecrets that have read the recovery envelope
    clean,       \* deleteSecrets no failed call and no store came between
    gone         \* deleteSecret reported the secret removed

vars == <<durable, view, open, pc, request, removed, crashes,
          alone, kept, enrolled, recovering, clean, gone>>
backend  == <<durable, view, open>>
promises == <<kept, enrolled>>
deletion == <<clean, gone>>

Backend == INSTANCE DurableStore WITH
    Instances <- {Provider}, Keys <- Slots, Values <- Envelopes,
    Absent <- Nothing

TypeOK ==
    /\ Backend!DurableTypeOK
    /\ pc \in [Threads -> {"idle", "putPrimary", "putRecovery",
                           "removePrimary", "removeRecovery"}]
    /\ request \in [Threads -> Requests \cup {Nothing}]
    /\ removed \in [Threads -> BOOLEAN]
    /\ crashes \in 0..MaxCrashes
    /\ alone \in [Threads -> BOOLEAN]
    /\ {kept, enrolled} \subseteq Envelopes \cup {Nothing}
    /\ recovering \subseteq Threads /\ clean \subseteq Threads
    /\ gone \in BOOLEAN

Init ==
    /\ Backend!DurableInit
    /\ pc = [t \in Threads |-> "idle"]
    /\ request = [t \in Threads |-> Nothing]
    /\ removed = [t \in Threads |-> FALSE]
    /\ crashes = 0
    /\ alone = [t \in Threads |-> FALSE]
    /\ kept = Nothing /\ enrolled = Nothing
    /\ recovering = {} /\ clean = {} /\ gone = FALSE

-----------------------------------------------------------------------------
Item(slot) == view[Provider][slot]
Sealed(secret, pass) == [secret |-> secret, pass |-> pass]

(* AES-GCM authenticates: another passphrase does not open the envelope.    *)
OpensAlways(envelope, pass) == TRUE
Opens(envelope, pass) == envelope.pass = pass

(* options.passphrase, else the default.                                    *)
Effective(option) == IF option = NoPass THEN DefaultPassphrase ELSE option

UsableUnlessMissing(pass) == pass # NoPass
Usable(pass) == pass \notin {NoPass, EmptyPass}

(* retrieveSecret: what it returns, or why not.                             *)
Retrieve(option) ==
    LET raw == Item("primary")  pass == Effective(option) IN
    CASE raw = Nothing -> "nullopt"
      [] raw # Nothing /\ Usable(pass) /\ Opens(raw, pass) -> raw.secret
      [] OTHER -> "throws"

(* Inside storeSecret, be it called by recoverSecret.                       *)
Storing == {"putPrimary", "putRecovery"}

Start(t, call) ==
    /\ Provider \in open /\ pc[t] = "idle"
    /\ pc' = [pc EXCEPT ![t] = call]
    /\ alone' = [u \in Threads |->
                    u = t /\ \A other \in Threads : pc[other] = "idle"]

-----------------------------------------------------------------------------
(* storeSecret, up to its first backend call; without a usable passphrase   *)
(* it throws and has changed nothing.                                       *)
Store(t, secret, option, recovery) ==
    /\ Usable(Effective(option))
    /\ Start(t, "putPrimary")
    /\ request' = [request EXCEPT ![t] =
          [secret |-> secret, pass |-> Effective(option), recovery |-> recovery]]
    /\ kept' = Nothing /\ enrolled' = Nothing /\ gone' = FALSE
    /\ UNCHANGED <<backend, removed, crashes, recovering, clean>>

(* recoverSecret, up to storeSecret's first backend call.  A missing        *)
(* envelope, a wrong or empty recovery passphrase, or a default passphrase  *)
(* that is empty throw.                                                     *)
Recover(t, recovery, option) ==
    LET raw == Item("recovery")
        pass == IF Effective(option) = NoPass THEN recovery ELSE Effective(option)
    IN  /\ Usable(recovery) /\ raw # Nothing
        /\ Opens(raw, recovery) /\ Usable(pass)
        /\ Start(t, "putPrimary")
        /\ request' = [request EXCEPT ![t] =
              [secret |-> raw.secret, pass |-> pass, recovery |-> recovery]]
        /\ kept' = Nothing
        /\ recovering' = recovering \cup {t}
        /\ UNCHANGED <<backend, removed, crashes, enrolled, deletion>>

(* deleteSecret, up to its first backend call.                              *)
Delete(t) ==
    /\ Start(t, "removePrimary")
    /\ kept' = Nothing /\ enrolled' = Nothing
    /\ clean' = clean \cup {t}
    /\ UNCHANGED <<backend, request, removed, crashes, recovering, gone>>

-----------------------------------------------------------------------------
(* The operation is over and its locals with it.                            *)
End(t) ==
    /\ pc' = [pc EXCEPT ![t] = "idle"]
    /\ request' = [request EXCEPT ![t] = Nothing]
    /\ removed' = [removed EXCEPT ![t] = FALSE]
    /\ alone' = [alone EXCEPT ![t] = FALSE]
    /\ recovering' = recovering \ {t}

GoOn(t, call) ==
    /\ pc' = [pc EXCEPT ![t] = call]
    /\ UNCHANGED <<request, alone, recovering, promises>>

(* storeSecret returns: what it promises, if no other operation overlapped. *)
Stored(t) ==
    LET r == request[t] IN
    /\ End(t)
    /\ IF alone[t]
       THEN /\ kept' = Sealed(r.secret, r.pass)
            /\ enrolled' = IF r.recovery = NoPass THEN Nothing
                           ELSE Sealed(r.secret, r.recovery)
       ELSE UNCHANGED promises

Throws(t) == End(t) /\ UNCHANGED promises

(* A put, in the backend's memory at least, of what storeSecret was given   *)
(* or recoverSecret had read.                                               *)
Written(t) ==
    /\ clean' = {}
    /\ gone' = (gone /\ t \notin recovering)

(* After the primary envelope: return, go on, or throw because the recovery *)
(* passphrase turns out to be empty.                                        *)
AfterPrimary(t) ==
    CASE request[t].recovery = NoPass    -> Stored(t)
      [] request[t].recovery = EmptyPass -> Throws(t)
      [] OTHER -> GoOn(t, "putRecovery") /\ UNCHANGED removed

PrimaryEnvelope(t)  == Sealed(request[t].secret, request[t].pass)
RecoveryEnvelope(t) == Sealed(request[t].secret, request[t].recovery)

PutPrimary(t) ==
    /\ pc[t] = "putPrimary"
    /\ Backend!Acknowledge(Provider, "primary", PrimaryEnvelope(t))
    /\ AfterPrimary(t)
    /\ Written(t)
    /\ UNCHANGED crashes

(* The backend's exception lost on the way.                                 *)
PutPrimarySwallowed(t) ==
    /\ pc[t] = "putPrimary"
    /\ Backend!Refuse(Provider, "primary", PrimaryEnvelope(t))
    /\ AfterPrimary(t)
    /\ Written(t)
    /\ UNCHANGED crashes

PutPrimaryFails(t) ==
    /\ pc[t] = "putPrimary"
    /\ Backend!Refuse(Provider, "primary", PrimaryEnvelope(t))
    /\ Throws(t)
    /\ Written(t)
    /\ UNCHANGED crashes

PutRecovery(t) ==
    /\ pc[t] = "putRecovery"
    /\ Backend!Acknowledge(Provider, "recovery", RecoveryEnvelope(t))
    /\ Stored(t)
    /\ Written(t)
    /\ UNCHANGED crashes

PutRecoveryFails(t) ==
    /\ pc[t] = "putRecovery"
    /\ Backend!Refuse(Provider, "recovery", RecoveryEnvelope(t))
    /\ Throws(t)
    /\ Written(t)
    /\ UNCHANGED crashes

(* seal throws for want of random bytes or memory, before either call.      *)
SealFails(t) ==
    /\ pc[t] \in {"putPrimary", "putRecovery"}
    /\ Throws(t)
    /\ UNCHANGED <<backend, crashes, deletion>>

-----------------------------------------------------------------------------
(* removeItem of a slot: what it answers, with what it changes.             *)
Erased(slot, found) ==
    IF found THEN Backend!Acknowledge(Provider, slot, Nothing)
    ELSE Item(slot) = Nothing /\ UNCHANGED backend

(* deleteSecret returns: what it promises, unless a storeSecret is under    *)
(* way or other calls came between its own.                                 *)
Deleted(t, result) ==
    /\ End(t)
    /\ clean' = clean \ {t}
    /\ gone' = \/ gone
               \/ /\ result /\ t \in clean
                  /\ \A u \in Threads : pc[u] \in Storing => u \in recovering
    /\ UNCHANGED promises

(* The two removals joined by a short-circuit ||.                           *)
RemovePrimaryOnly(t) == \E found \in BOOLEAN :
    /\ pc[t] = "removePrimary"
    /\ Erased("primary", found)
    /\ IF found THEN Deleted(t, TRUE)
       ELSE GoOn(t, "removeRecovery") /\ UNCHANGED <<removed, deletion>>
    /\ UNCHANGED crashes

RemovePrimary(t) == \E found \in BOOLEAN :
    /\ pc[t] = "removePrimary"
    /\ Erased("primary", found)
    /\ removed' = [removed EXCEPT ![t] = found]
    /\ GoOn(t, "removeRecovery")
    /\ UNCHANGED <<crashes, deletion>>

RemoveRecovery(t) == \E found \in BOOLEAN :
    /\ pc[t] = "removeRecovery"
    /\ Erased("recovery", found)
    /\ Deleted(t, removed[t] \/ found)
    /\ UNCHANGED crashes

RemoveFails(t) ==
    /\ \/ pc[t] = "removePrimary" /\ Backend!Refuse(Provider, "primary", Nothing)
       \/ pc[t] = "removeRecovery" /\ Backend!Refuse(Provider, "recovery", Nothing)
    /\ Throws(t)
    /\ clean' = {}
    /\ UNCHANGED <<crashes, gone>>

-----------------------------------------------------------------------------
(* The process dies with every operation it was in; another opens the file. *)
Crash ==
    /\ crashes < MaxCrashes
    /\ crashes' = crashes + 1
    /\ Backend!Close(Provider)
    /\ pc' = [t \in Threads |-> "idle"]
    /\ request' = [t \in Threads |-> Nothing]
    /\ removed' = [t \in Threads |-> FALSE]
    /\ alone' = [t \in Threads |-> FALSE]
    /\ recovering' = {} /\ clean' = {}
    /\ UNCHANGED <<promises, gone>>

Open ==
    /\ Backend!OpenStore(Provider)
    /\ UNCHANGED <<pc, request, removed, crashes, alone, recovering, promises,
                   deletion>>

Next ==
    \/ Crash \/ Open
    \/ \E t \in Threads :
        \/ \E s \in Secrets, o \in Options, r \in Options : Store(t, s, o, r)
        \/ \E r \in Options, o \in Options : Recover(t, r, o)
        \/ Delete(t)
        \/ PutPrimary(t) \/ PutPrimaryFails(t)
        \/ PutRecovery(t) \/ PutRecoveryFails(t) \/ SealFails(t)
        \/ RemovePrimary(t) \/ RemoveRecovery(t) \/ RemoveFails(t)

Spec == Init /\ [][Next]_vars

-----------------------------------------------------------------------------
(* A secret enrolled with a recovery passphrase stays recoverable: until    *)
(* another storeSecret or deleteSecret begins, neither a crash, nor a       *)
(* recoverSecret (finished, failed, refused or one of several at once),     *)
(* changes the recovery envelope that storeSecret left.                     *)
RecoverySurvives ==
    enrolled # Nothing =>
        /\ durable["recovery"] = enrolled
        /\ Provider \in open => Item("recovery") = enrolled

(* retrieveSecret with the passphrase storeSecret or recoverSecret sealed   *)
(* it under answers the stored secret, in this process and after a restart. *)
SecretReadable ==
    kept # Nothing /\ Provider \in open => Retrieve(kept.pass) = kept.secret

(* What deleteSecret reported removed is in neither slot, of the file or of *)
(* the memory: no crash, restart, failed or repeated deletion brings it     *)
(* back, and no recoverSecret that begins later finds it.  This ends with   *)
(* the next storeSecret, or when a recoverSecret that had read the recovery *)
(* envelope before the deletion writes it back.                             *)
DeletedStaysDeleted ==
    gone => \A slot \in Slots :
               /\ durable[slot] = Nothing
               /\ Provider \in open => Item(slot) = Nothing

(* CHANGELOG.md:339 promises atomic deletion of both keys by deleteSecret:  *)
(* a deletion that is over never leaves the recovery envelope alone.        *)
DeletionAtomic ==
    (\A t \in Threads : pc[t] # "removeRecovery") =>
        ~(durable["primary"] = Nothing /\ durable["recovery"] # Nothing)
=============================================================================
