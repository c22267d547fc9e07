---------------------------- MODULE StorageProofs ----------------------------
(***************************************************************************)
(* Theorems about the storage of a master secret.  FileStore: types, and    *)
(* that it implements DurableStore, for any number of instances over one    *)
(* path, any keys and values, and any failures and crashes.  SecretStorage, *)
(* which runs over DurableStore: what storeSecret, recoverSecret and        *)
(* deleteSecret promise, for any threads, secrets, passphrases and crashes. *)
(***************************************************************************)
EXTENDS FileStore, SecretStorage, TLAPS

(* FileStorageBackend.                                                      *)

(* Between its first and last step an update is the difference between the  *)
(* memory and what readers see; the temporary file is the memory.           *)
Pending(i) ==
    /\ at[i] \in {"mutated", "written"} =>
          /\ update[i].value = Absent => before[i][update[i].key] # Absent
          /\ store[i] = [before[i] EXCEPT ![update[i].key] = update[i].value]
    /\ at[i] = "written" => tmp[i] = store[i]
    /\ at[i] = "down" => store[i] = Empty

FileInv == FileTypeOK /\ \A i \in Instances : Pending(i)

-----------------------------------------------------------------------------
LEMMA FileInitially == FileInit => FileInv
<1> SUFFICES ASSUME FileInit PROVE FileInv
  OBVIOUS
<1>1. Empty \in Images
  BY DEF Empty, Images
<1>2. FileTypeOK
  BY <1>1, FileAssumption DEF FileInit, FileTypeOK
<1>3. \A i \in Instances : Pending(i)
  BY DEF FileInit, Pending
<1>4. QED BY <1>2, <1>3 DEF FileInv

LEMMA FileTypeStep == FileTypeOK /\ [FileNext]_fileVars => FileTypeOK'
<1> SUFFICES ASSUME FileTypeOK, [FileNext]_fileVars PROVE FileTypeOK'
  OBVIOUS
<1> USE FileAssumption DEF FileTypeOK
<1>e. Empty \in Images
  BY DEF Empty, Images
<1>1. ASSUME NEW i \in Instances, Load(i) PROVE FileTypeOK'
  BY <1>1, <1>e DEF Load
<1>2. ASSUME NEW i \in Instances, NEW k \in Keys, NEW v \in Values \cup {Absent},
             Mutate(i, k, v)
      PROVE  FileTypeOK'
  <2>1. [store[i] EXCEPT ![k] = v] \in Images
    BY DEF Images
  <2>2. store' = [store EXCEPT ![i] = [store[i] EXCEPT ![k] = v]]
    BY <1>2 DEF Mutate
  <2>3. store' \in [Instances -> Images] /\ before' \in [Instances -> Images]
    BY <1>2, <2>1, <2>2 DEF Mutate
  <2>4. update' \in [Instances -> [key: Keys, value: Values \cup {Absent}]]
    BY <1>2 DEF Mutate
  <2>5. QED BY <1>2, <2>3, <2>4 DEF Mutate
<1>3. ASSUME NEW i \in Instances, WriteTemp(i) \/ PersistFails(i) PROVE FileTypeOK'
  BY <1>3, <1>e DEF WriteTemp, PersistFails, ghosts
<1>4. ASSUME NEW i \in Instances, Rename(i) PROVE FileTypeOK'
  BY <1>4, <1>e DEF Rename, ghosts
<1>5. ASSUME NEW i \in Instances, Return(i) PROVE FileTypeOK'
  <2>1. update[i].key \in Keys /\ update[i].value \in Values \cup {Absent}
    OBVIOUS
  <2>2. [promised EXCEPT ![update[i].key] = update[i].value] \in Images
    BY <2>1 DEF Images
  <2>3. QED BY <1>5, <2>1, <2>2 DEF Return
<1>6. ASSUME NEW i \in Instances, Die(i) PROVE FileTypeOK'
  BY <1>6, <1>e DEF Die, ghosts
<1>7. CASE UNCHANGED fileVars
  BY <1>7 DEF fileVars
<1>8. QED
  BY <1>1, <1>2, <1>3, <1>4, <1>5, <1>6, <1>7 DEF FileNext, SetItem, RemoveItem

LEMMA PendingStep == FileInv /\ [FileNext]_fileVars => \A i \in Instances : Pending(i)'
<1> SUFFICES ASSUME FileInv, [FileNext]_fileVars, NEW j \in Instances PROVE Pending(j)'
  OBVIOUS
<1>t. FileTypeOK /\ Pending(j)
  BY DEF FileInv
<1> USE DEF FileTypeOK, Pending
<1>1. ASSUME NEW i \in Instances, NEW k \in Keys, NEW v \in Values \cup {Absent},
             Mutate(i, k, v), v = Absent => store[i][k] # Absent
      PROVE  Pending(j)'
  BY <1>1, <1>t DEF Mutate
<1>2. ASSUME NEW i \in Instances, Load(i) \/ WriteTemp(i) \/ PersistFails(i) \/ Rename(i)
      PROVE  Pending(j)'
  <2>1. CASE Load(i)
    BY <2>1, <1>t DEF Load
  <2>2. CASE WriteTemp(i)
    BY <2>2, <1>t DEF WriteTemp
  <2>3. CASE PersistFails(i)
    BY <2>3, <1>t DEF PersistFails
  <2>4. CASE Rename(i)
    BY <2>4, <1>t DEF Rename
  <2>5. QED BY <1>2, <2>1, <2>2, <2>3, <2>4
<1>3. ASSUME NEW i \in Instances, Return(i) \/ Die(i) PROVE Pending(j)'
  BY <1>3, <1>t DEF Return, Die
<1>4. CASE UNCHANGED fileVars
  BY <1>4, <1>t DEF fileVars
<1>5. QED
  BY <1>1, <1>2, <1>3, <1>4, FileAssumption DEF FileNext, SetItem, RemoveItem

LEMMA FileInductive == FileSpec => []FileInv
<1>1. FileInv /\ [FileNext]_fileVars => FileInv'
  BY FileTypeStep, PendingStep DEF FileInv
<1>2. QED BY FileInitially, <1>1, PTL DEF FileSpec

(* Every variable keeps its type: the memory, file and temporary file of    *)
(* each FileStorageBackend are images of a store.                           *)
THEOREM FileTypeCorrect == FileSpec => []FileTypeOK
<1>1. FileInv => FileTypeOK
  BY DEF FileInv
<1>2. QED BY <1>1, FileInductive, PTL

-----------------------------------------------------------------------------
(* Durability.                                                              *)

(* No key is settled while the path is shared, and while it is not, the one *)
(* instance that is up holds the promise of every settled key in memory, so *)
(* that its next rename cannot undo it.                                     *)
Settling ==
    /\ shared => settled = {}
    /\ ~shared => \A i, j \in Instances :
                     at[i] # "down" /\ at[j] # "down" => i = j
    /\ \A k \in settled :
          /\ disk[k] = promised[k]
          /\ \A i \in Instances : at[i] # "down" => store[i][k] = promised[k]
    /\ \A i \in Instances : ~shared /\ at[i] = "renamed" =>
          disk = store[i] /\ store[i][update[i].key] = update[i].value

LEMMA SettlingStep ==
    ASSUME FileInv, Settling, [FileNext]_fileVars
    PROVE  Settling'
<1>t. FileTypeOK /\ \A i \in Instances : Pending(i)
  BY DEF FileInv
<1> USE DEF FileTypeOK, Settling
<1>1. ASSUME NEW i \in Instances, Load(i) PROVE Settling'
  BY <1>1, <1>t DEF Load, Alone
<1>2. ASSUME NEW i \in Instances, NEW k \in Keys, NEW v \in Values \cup {Absent},
             Mutate(i, k, v)
      PROVE  Settling'
  BY <1>2, <1>t DEF Mutate
<1>3. ASSUME NEW i \in Instances, WriteTemp(i) \/ PersistFails(i) PROVE Settling'
  <2>1. CASE WriteTemp(i)
    BY <2>1, <1>t DEF WriteTemp, ghosts
  <2>2. CASE PersistFails(i)
    BY <2>2, <1>t DEF PersistFails, ghosts
  <2>3. QED BY <1>3, <2>1, <2>2
<1>4. ASSUME NEW i \in Instances, Rename(i) PROVE Settling'
  <2>1. disk' = store[i] /\ store[i][update[i].key] = update[i].value
    <3>1. /\ disk' = tmp[i] /\ tmp[i] = store[i]
          /\ store[i] = [before[i] EXCEPT ![update[i].key] = update[i].value]
      BY <1>4, <1>t DEF Rename, Pending
    <3>2. update[i].key \in Keys /\ before[i] \in Images
      BY <1>t
    <3>3. QED BY <3>1, <3>2 DEF Images
  <2>2. QED BY <1>4, <2>1, <1>t DEF Rename, ghosts
<1>5. ASSUME NEW i \in Instances, Return(i) PROVE Settling'
  <2>1. CASE shared
    BY <1>5, <2>1, <1>t DEF Return
  <2>2. CASE ~shared
    <3> DEFINE k == update[i].key  v == update[i].value
    <3>1. /\ promised' = [promised EXCEPT ![k] = v] /\ settled' = settled \cup {k}
          /\ at' = [at EXCEPT ![i] = "ready"]
          /\ UNCHANGED <<disk, store, shared>>
      BY <1>5, <2>2 DEF Return
    <3>2. disk[k] = v /\ store[i][k] = v /\ k \in Keys
      BY <1>5, <2>2, <1>t DEF Return
    <3>3. promised' = [x \in Keys |-> IF x = k THEN v ELSE promised[x]]
      BY <3>1, <1>t DEF Images
    <3>4. \A j \in Instances : at[j] # "down" => j = i
      BY <1>5, <2>2 DEF Return
    <3>5. ASSUME NEW x \in settled'
          PROVE  /\ disk'[x] = promised'[x]
                 /\ \A j \in Instances : at'[j] # "down" => store'[j][x] = promised'[x]
      BY <1>5, <3>1, <3>2, <3>3, <3>4, <3>5, <1>t DEF Return
    <3>6. QED BY <2>2, <3>1, <3>4, <3>5, <1>t
  <2>3. QED BY <2>1, <2>2, <1>t
<1>6. ASSUME NEW i \in Instances, Die(i) PROVE Settling'
  BY <1>6, <1>t DEF Die, Alone
<1>7. CASE UNCHANGED fileVars
  BY <1>7 DEF fileVars
<1>8. QED
  BY <1>1, <1>2, <1>3, <1>4, <1>5, <1>6, <1>7 DEF FileNext, SetItem, RemoveItem

(* An update that setItem or removeItem acknowledged on an unshared path is *)
(* in the file ever after, until the key is updated again or the path       *)
(* shared, whatever writes and renames fail and whenever processes die.     *)
THEOREM AcknowledgedCorrect == FileSpec => []AcknowledgedSurvives
<1>1. FileInit => Settling
  BY DEF FileInit, Settling, Empty
<1>2. FileInv /\ Settling /\ [FileNext]_fileVars => Settling'
  BY SettlingStep
<1>3. Settling => AcknowledgedSurvives
  BY DEF Settling, AcknowledgedSurvives
<1>4. QED BY <1>1, <1>2, <1>3, FileInductive, PTL DEF FileSpec

-----------------------------------------------------------------------------
(* Refinement.                                                              *)

LEMMA InitRefines == FileInit => Promise!DurableInit
BY DEF FileInit, Promise!DurableInit, Promise!Empty, Empty, Seen, Opened

LEMMA StepRefines ==
    ASSUME FileInv, [FileNext]_fileVars
    PROVE  [Promise!DurableNext]_(Promise!durableVars)
<1>t. FileTypeOK /\ \A i \in Instances : Pending(i)
  BY DEF FileInv
<1> DEFINE seen == [i \in Instances |-> Seen(i)]
<1> USE DEF FileTypeOK, Pending
<1>1. ASSUME NEW i \in Instances, Load(i) PROVE Promise!DurableNext
  <2>1. seen' = [seen EXCEPT ![i] = disk]
    BY <1>1, <1>t DEF Load, Seen
  <2>2. Opened' = Opened \cup {i} /\ i \notin Opened /\ disk' = disk
    BY <1>1, <1>t DEF Load, Opened
  <2>3. Promise!OpenStore(i)
    BY <2>1, <2>2 DEF Promise!OpenStore
  <2>4. QED BY <2>3 DEF Promise!DurableNext
<1>2. ASSUME NEW i \in Instances, NEW k \in Keys, NEW v \in Values \cup {Absent},
             Mutate(i, k, v)
      PROVE  UNCHANGED Promise!durableVars
  BY <1>2, <1>t DEF Mutate, Seen, Opened, Promise!durableVars
<1>3. ASSUME NEW i \in Instances, WriteTemp(i) \/ Return(i)
      PROVE  UNCHANGED Promise!durableVars
  BY <1>3, <1>t DEF WriteTemp, Return, Seen, Opened, Promise!durableVars
<1>4. ASSUME NEW i \in Instances, Rename(i) PROVE Promise!DurableNext
  <2> DEFINE k == update[i].key  v == update[i].value
  <2>1. k \in Keys /\ v \in Values \cup {Absent} /\ (v = Absent => before[i][k] # Absent)
    BY <1>4, <1>t DEF Rename
  <2>2. seen[i] = before[i] /\ store[i] = [before[i] EXCEPT ![k] = v] /\ tmp[i] = store[i]
    BY <1>4, <1>t DEF Rename, Seen
  <2>3. disk' = [seen[i] EXCEPT ![k] = v]
    BY <1>4, <2>2 DEF Rename
  <2>4. seen' = [seen EXCEPT ![i] = [seen[i] EXCEPT ![k] = v]]
    BY <1>4, <1>t, <2>2 DEF Rename, Seen
  <2>5. Opened' = Opened /\ i \in Opened
    BY <1>4, <1>t DEF Rename, Opened
  <2>6. Promise!Acknowledge(i, k, v)
    BY <2>1, <2>2, <2>3, <2>4, <2>5 DEF Promise!Acknowledge, Promise!Updated
  <2>7. QED BY <2>1, <2>6 DEF Promise!DurableNext
<1>5. ASSUME NEW i \in Instances, PersistFails(i) PROVE Promise!DurableNext
  <2> DEFINE k == update[i].key  v == update[i].value
  <2>1. k \in Keys /\ v \in Values \cup {Absent} /\ (v = Absent => before[i][k] # Absent)
    BY <1>5, <1>t DEF PersistFails
  <2>2. seen[i] = before[i] /\ store[i] = [before[i] EXCEPT ![k] = v]
    BY <1>5, <1>t DEF PersistFails, Seen
  <2>3. seen' = [seen EXCEPT ![i] = [seen[i] EXCEPT ![k] = v]]
    BY <1>5, <1>t, <2>2 DEF PersistFails, Seen
  <2>4. Opened' = Opened /\ i \in Opened /\ disk' = disk
    BY <1>5, <1>t DEF PersistFails, Opened
  <2>5. Promise!Refuse(i, k, v)
    BY <2>1, <2>2, <2>3, <2>4 DEF Promise!Refuse, Promise!Updated
  <2>6. QED BY <2>1, <2>5 DEF Promise!DurableNext
<1>6. ASSUME NEW i \in Instances, Die(i) PROVE Promise!DurableNext
  <2>1. seen' = [seen EXCEPT ![i] = Empty]
    BY <1>6, <1>t DEF Die, Seen
  <2>2. Opened' = Opened \ {i} /\ i \in Opened /\ disk' = disk
    BY <1>6, <1>t DEF Die, Opened
  <2>3. Promise!Close(i)
    BY <2>1, <2>2 DEF Promise!Close, Promise!Empty, Empty
  <2>4. QED BY <2>3 DEF Promise!DurableNext
<1>7. CASE UNCHANGED fileVars
  BY <1>7 DEF fileVars, Seen, Opened, Promise!durableVars
<1>8. QED
  BY <1>1, <1>2, <1>3, <1>4, <1>5, <1>6, <1>7 DEF FileNext, SetItem, RemoveItem

(* Whatever the number of instances, failures and crashes, readers and a   *)
(* restart see each update of FileStorageBackend all at once or, reported   *)
(* as failed, in memory only: setItem, removeItem and persist.              *)
THEOREM FileImplementsDurable == FileSpec => ImplementsDurable
<1>1. FileInv /\ [FileNext]_fileVars => [Promise!DurableNext]_(Promise!durableVars)
  BY StepRefines
<1>2. QED
  BY InitRefines, FileInductive, <1>1, PTL DEF FileSpec, ImplementsDurable, Promise!DurableSpec

-----------------------------------------------------------------------------
(* AesGcmSecretStorageProvider.                                             *)

Deleting == {"removePrimary", "removeRecovery"}

(* The arguments of a storeSecret under way, and the passphrase recoverSecret *)
(* hands it, are usable.                                                    *)
Requested ==
    \A t \in Threads :
        /\ pc[t] \in Storing => request[t] \in Requests
        /\ pc[t] = "putRecovery" => request[t].recovery \in Passphrases

-----------------------------------------------------------------------------
(* What a backend call does to the two slots.                               *)

LEMMA Acknowledged ==
    ASSUME TypeOK, NEW slot \in Slots, NEW v, Backend!Acknowledge(Provider, slot, v)
    PROVE  /\ durable' = [view[Provider] EXCEPT ![slot] = v]
           /\ view' = [p \in {Provider} |-> durable']
           /\ open' = open
           /\ durable'[slot] = v
           /\ \A other \in Slots \ {slot} : durable'[other] = Item(other)
           /\ v \in Envelopes \cup {Nothing} => Backend!DurableTypeOK'
<1>1. view \in [{Provider} -> [Slots -> Envelopes \cup {Nothing}]]
  BY DEF TypeOK, Backend!DurableTypeOK, Backend!Images
<1>2. durable' = [view[Provider] EXCEPT ![slot] = v] /\ open' = open
  BY DEF Backend!Acknowledge, Backend!Updated
<1>3. view' = [p \in {Provider} |-> durable']
  BY <1>1 DEF Backend!Acknowledge, Backend!Updated
<1>4. durable'[slot] = v /\ \A other \in Slots \ {slot} : durable'[other] = Item(other)
  BY <1>1, <1>2 DEF Item
<1>5. v \in Envelopes \cup {Nothing} => durable' \in [Slots -> Envelopes \cup {Nothing}]
  BY <1>1, <1>2
<1>6. v \in Envelopes \cup {Nothing} => Backend!DurableTypeOK'
  BY <1>2, <1>3, <1>5 DEF TypeOK, Backend!DurableTypeOK, Backend!Images
<1>7. QED BY <1>2, <1>3, <1>4, <1>6

LEMMA Refused ==
    ASSUME TypeOK, NEW slot \in Slots, NEW v, Backend!Refuse(Provider, slot, v)
    PROVE  /\ durable' = durable /\ open' = open
           /\ Item(slot)' = v
           /\ \A other \in Slots \ {slot} : Item(other)' = Item(other)
           /\ v \in Envelopes \cup {Nothing} => Backend!DurableTypeOK'
<1>1. view \in [{Provider} -> [Slots -> Envelopes \cup {Nothing}]]
  BY DEF TypeOK, Backend!DurableTypeOK, Backend!Images
<1>2. /\ view' = [p \in {Provider} |-> [view[Provider] EXCEPT ![slot] = v]]
      /\ durable' = durable /\ open' = open
  BY <1>1 DEF Backend!Refuse, Backend!Updated
<1>3. Item(slot)' = v /\ \A other \in Slots \ {slot} : Item(other)' = Item(other)
  BY <1>1, <1>2 DEF Item
<1>4. v \in Envelopes \cup {Nothing} => Backend!DurableTypeOK'
  BY <1>1, <1>2 DEF TypeOK, Backend!DurableTypeOK, Backend!Images
<1>5. QED BY <1>2, <1>3, <1>4

(* A removal leaves its slot empty, and the other as the memory has it.     *)
LEMMA Removed ==
    ASSUME TypeOK, NEW slot \in Slots, NEW found \in BOOLEAN, Erased(slot, found)
    PROVE  /\ Item(slot)' = Nothing
           /\ \A other \in Slots \ {slot} : Item(other)' = Item(other)
           /\ found => durable' = view'[Provider]
           /\ ~found => UNCHANGED backend
           /\ open' = open
           /\ Backend!DurableTypeOK'
<1>1. CASE found
  BY <1>1, Acknowledged DEF Erased, Item
<1>2. CASE ~found
  BY <1>2 DEF Erased, Item, backend, TypeOK, Backend!DurableTypeOK, Backend!Images
<1>3. QED BY <1>1, <1>2

-----------------------------------------------------------------------------
(* Types.                                                                   *)

LEMMA DeletionTypes ==
    ASSUME TypeOK, [Next]_vars
    PROVE  recovering' \subseteq Threads /\ clean' \subseteq Threads /\ gone' \in BOOLEAN
<1>t. recovering \subseteq Threads /\ clean \subseteq Threads /\ gone \in BOOLEAN
  BY DEF TypeOK
<1>1. ASSUME NEW t \in Threads, Stored(t) \/ Throws(t) PROVE recovering' \subseteq Threads
  BY <1>1, <1>t DEF Stored, Throws, End
<1>2. ASSUME NEW t \in Threads, Written(t)
      PROVE  clean' \subseteq Threads /\ gone' \in BOOLEAN
  BY <1>2, <1>t DEF Written
<1>3. ASSUME NEW t \in Threads,
             \/ \E s \in Secrets, o \in Options, r \in Options : Store(t, s, o, r)
             \/ \E r \in Options, o \in Options : Recover(t, r, o)
             \/ Delete(t)
      PROVE  recovering' \subseteq Threads /\ clean' \subseteq Threads /\ gone' \in BOOLEAN
  BY <1>3, <1>t DEF Store, Recover, Delete, deletion
<1>4. ASSUME NEW t \in Threads, PutPrimary(t)
      PROVE  recovering' \subseteq Threads /\ clean' \subseteq Threads /\ gone' \in BOOLEAN
  <2>1. Stored(t) \/ Throws(t) \/ recovering' = recovering
    BY <1>4, StorageAssumption DEF PutPrimary, AfterPrimary, GoOn
  <2>2. QED BY <1>1, <1>2, <1>4, <1>t, <2>1 DEF PutPrimary
<1>5. ASSUME NEW t \in Threads,
             \/ PutPrimaryFails(t) \/ PutRecovery(t) \/ PutRecoveryFails(t)
             \/ SealFails(t) \/ RemoveFails(t)
      PROVE  recovering' \subseteq Threads /\ clean' \subseteq Threads /\ gone' \in BOOLEAN
  BY <1>1, <1>2, <1>5, <1>t DEF PutPrimaryFails, PutRecovery, PutRecoveryFails,
     SealFails, RemoveFails, deletion
<1>6. ASSUME NEW t \in Threads, RemovePrimary(t) \/ RemoveRecovery(t)
      PROVE  recovering' \subseteq Threads /\ clean' \subseteq Threads /\ gone' \in BOOLEAN
  <2>1. CASE RemovePrimary(t)
    BY <2>1, <1>t DEF RemovePrimary, GoOn, deletion
  <2>2. CASE RemoveRecovery(t)
    <3>1. \E result : Deleted(t, result)
      BY <2>2 DEF RemoveRecovery
    <3>2. /\ recovering' = recovering \ {t} /\ clean' = clean \ {t}
          /\ gone' \in BOOLEAN
      BY <3>1, <1>t DEF Deleted, End
    <3>3. QED BY <3>2, <1>t
  <2>3. QED BY <1>6, <2>1, <2>2
<1>7. CASE Crash \/ Open \/ UNCHANGED vars
  BY <1>7, <1>t DEF Crash, Open, vars, deletion
<1>8. QED BY <1>3, <1>4, <1>5, <1>6, <1>7 DEF Next

LEMMA TypeStep ==
    ASSUME TypeOK, Requested, [Next]_vars
    PROVE  TypeOK' /\ Requested'
<1>g. recovering' \subseteq Threads /\ clean' \subseteq Threads /\ gone' \in BOOLEAN
  BY DeletionTypes
<1> USE <1>g DEF Requested, Storing
<1>a. /\ NoPass \notin Passphrases /\ EmptyPass \notin Passphrases /\ NoPass # EmptyPass
      /\ DefaultPassphrase \in Passphrases \cup {NoPass} /\ MaxCrashes \in Nat
      /\ Nothing \notin Envelopes \cup Requests
  BY StorageAssumption, NothingAssumption
<1>t. /\ Backend!DurableTypeOK
      /\ pc \in [Threads -> {"idle", "putPrimary", "putRecovery",
                             "removePrimary", "removeRecovery"}]
      /\ request \in [Threads -> Requests \cup {Nothing}]
      /\ removed \in [Threads -> BOOLEAN]
      /\ crashes \in 0..MaxCrashes
      /\ alone \in [Threads -> BOOLEAN]
      /\ kept \in Envelopes \cup {Nothing} /\ enrolled \in Envelopes \cup {Nothing}
      /\ gone \in BOOLEAN
  BY DEF TypeOK
<1>f. /\ Backend!DurableTypeOK' => durable' \in [Slots -> Envelopes \cup {Nothing}]
      /\ view \in [{Provider} -> [Slots -> Envelopes \cup {Nothing}]]
  BY <1>t DEF Backend!DurableTypeOK, Backend!Images
<1>u. UNCHANGED backend => Backend!DurableTypeOK'
  BY <1>t DEF backend, Backend!DurableTypeOK, Backend!Images
\* The ends of operations.
<1>e. ASSUME NEW t \in Threads, End(t), Backend!DurableTypeOK', crashes' = crashes,
             {kept', enrolled'} \subseteq Envelopes \cup {Nothing}
      PROVE  TypeOK' /\ Requested'
  BY <1>e, <1>t DEF End, TypeOK
<1>s. ASSUME NEW t \in Threads, pc[t] \in Storing, Stored(t), Backend!DurableTypeOK',
             request[t].recovery \in Passphrases \cup {NoPass}, crashes' = crashes
      PROVE  TypeOK' /\ Requested'
  <2>1. request[t] \in Requests
    BY <1>s
  <2>2. Sealed(request[t].secret, request[t].pass) \in Envelopes
    BY <2>1 DEF Requests, Envelopes, Sealed
  <2>3. request[t].recovery # NoPass =>
           Sealed(request[t].secret, request[t].recovery) \in Envelopes
    BY <1>s, <2>1 DEF Requests, Envelopes, Sealed
  <2>4. kept' \in Envelopes \cup {Nothing} /\ enrolled' \in Envelopes \cup {Nothing}
    BY <1>s, <1>t, <2>2, <2>3 DEF Stored, promises
  <2>5. QED BY <1>s, <1>e, <1>t, <2>4 DEF Stored
<1>x. ASSUME NEW t \in Threads, Throws(t), Backend!DurableTypeOK', crashes' = crashes
      PROVE  TypeOK' /\ Requested'
  BY <1>x, <1>e, <1>t DEF Throws, promises
\* The actions.
<1>1. ASSUME NEW t \in Threads, NEW s \in Secrets, NEW o \in Options, NEW r \in Options,
             Store(t, s, o, r)
      PROVE  TypeOK' /\ Requested'
  <2>1. Effective(o) \in Passphrases
    BY <1>1, <1>a DEF Store, Usable, Effective, Options
  <2>2. [secret |-> s, pass |-> Effective(o), recovery |-> r] \in Requests
    BY <2>1 DEF Requests
  <2>3. /\ request' = [request EXCEPT ![t] =
                         [secret |-> s, pass |-> Effective(o), recovery |-> r]]
        /\ pc' = [pc EXCEPT ![t] = "putPrimary"]
        /\ alone' \in [Threads -> BOOLEAN]
    BY <1>1 DEF Store, Start
  <2>4. QED BY <1>1, <1>t, <1>u, <2>2, <2>3 DEF Store, TypeOK
<1>2. ASSUME NEW t \in Threads, NEW r \in Options, NEW o \in Options, Recover(t, r, o)
      PROVE  TypeOK' /\ Requested'
  <2> DEFINE pass == IF Effective(o) = NoPass THEN r ELSE Effective(o)
             asked == [secret |-> Item("recovery").secret, pass |-> pass,
                       recovery |-> r]
  <2>1. pass \in Passphrases
    BY <1>2, <1>a DEF Recover, Usable, Effective, Options
  <2>2. Item("recovery") \in Envelopes
    BY <1>2, <1>f DEF Recover, Item, Slots
  <2>3. asked \in Requests
    BY <2>1, <2>2 DEF Requests, Envelopes
  <2>4. /\ request' = [request EXCEPT ![t] = asked]
        /\ pc' = [pc EXCEPT ![t] = "putPrimary"]
        /\ alone' \in [Threads -> BOOLEAN]
    BY <1>2 DEF Recover, Start
  <2>5. /\ Backend!DurableTypeOK'
        /\ kept' = Nothing /\ UNCHANGED <<removed, crashes, enrolled>>
    BY <1>2, <1>u DEF Recover
  <2> HIDE DEF asked
  <2>6. QED BY <1>t, <2>3, <2>4, <2>5 DEF TypeOK
<1>3. ASSUME NEW t \in Threads, Delete(t) PROVE TypeOK' /\ Requested'
  BY <1>3, <1>t, <1>u DEF Delete, Start, TypeOK
<1>4. ASSUME NEW t \in Threads, PutPrimary(t) PROVE TypeOK' /\ Requested'
  <2>1. request[t] \in Requests /\ pc[t] \in Storing
    BY <1>4 DEF PutPrimary
  <2>2. PrimaryEnvelope(t) \in Envelopes
    BY <2>1 DEF PrimaryEnvelope, Sealed, Requests, Envelopes
  <2>3. Backend!DurableTypeOK'
    BY <1>4, <2>2, Acknowledged DEF PutPrimary, Slots
  <2>4. CASE request[t].recovery = NoPass
    BY <1>4, <1>s, <1>a, <2>1, <2>3, <2>4 DEF PutPrimary, AfterPrimary
  <2>5. CASE request[t].recovery = EmptyPass
    <3>1. request[t].recovery # NoPass
      BY <2>5, <1>a
    <3>2. Throws(t) /\ crashes' = crashes
      BY <1>4, <2>5, <3>1 DEF PutPrimary, AfterPrimary
    <3>3. QED BY <1>x, <2>3, <3>2
  <2>6. CASE request[t].recovery \notin {NoPass, EmptyPass}
    <3>1. request[t].recovery \in Passphrases
      BY <2>1, <2>6 DEF Requests, Options
    <3>2. GoOn(t, "putRecovery") /\ removed' = removed /\ crashes' = crashes
      BY <1>4, <2>6 DEF PutPrimary, AfterPrimary
    <3>3. QED BY <3>1, <3>2, <2>1, <2>3, <1>t DEF GoOn, promises, TypeOK
  <2>7. QED BY <2>4, <2>5, <2>6
<1>5. ASSUME NEW t \in Threads, PutPrimaryFails(t) PROVE TypeOK' /\ Requested'
  <2>1. PrimaryEnvelope(t) \in Envelopes
    BY <1>5 DEF PutPrimaryFails, PrimaryEnvelope, Sealed, Requests, Envelopes
  <2>2. QED BY <1>5, <1>x, <2>1, Refused DEF PutPrimaryFails, Slots
<1>6. ASSUME NEW t \in Threads, PutRecovery(t) PROVE TypeOK' /\ Requested'
  <2>1. request[t] \in Requests /\ request[t].recovery \in Passphrases /\ pc[t] \in Storing
    BY <1>6 DEF PutRecovery
  <2>2. RecoveryEnvelope(t) \in Envelopes
    BY <2>1 DEF RecoveryEnvelope, Sealed, Requests, Envelopes
  <2>3. QED BY <1>6, <1>s, <2>1, <2>2, Acknowledged DEF PutRecovery, Slots
<1>7. ASSUME NEW t \in Threads, PutRecoveryFails(t) PROVE TypeOK' /\ Requested'
  <2>1. RecoveryEnvelope(t) \in Envelopes
    BY <1>7 DEF PutRecoveryFails, RecoveryEnvelope, Sealed, Requests, Envelopes
  <2>2. QED BY <1>7, <1>x, <2>1, Refused DEF PutRecoveryFails, Slots
<1>8. ASSUME NEW t \in Threads, SealFails(t) PROVE TypeOK' /\ Requested'
  BY <1>8, <1>x, <1>u DEF SealFails
<1>9. ASSUME NEW t \in Threads, RemovePrimary(t) PROVE TypeOK' /\ Requested'
  <2>1. PICK found \in BOOLEAN :
           Erased("primary", found) /\ removed' = [removed EXCEPT ![t] = found]
    BY <1>9 DEF RemovePrimary
  <2>2. Backend!DurableTypeOK'
    BY <2>1, Removed DEF Slots
  <2>3. QED BY <1>9, <2>1, <2>2, <1>t DEF RemovePrimary, GoOn, promises, TypeOK
<1>10. ASSUME NEW t \in Threads, RemoveRecovery(t) PROVE TypeOK' /\ Requested'
  <2>1. PICK found \in BOOLEAN :
           Erased("recovery", found) /\ Deleted(t, removed[t] \/ found)
           /\ crashes' = crashes
    BY <1>10 DEF RemoveRecovery
  <2>2. Backend!DurableTypeOK'
    BY <2>1, Removed DEF Slots
  <2>3. UNCHANGED <<kept, enrolled>> /\ End(t)
    BY <2>1 DEF Deleted, promises
  <2>4. QED BY <1>e, <1>t, <2>1, <2>2, <2>3
<1>11. ASSUME NEW t \in Threads, RemoveFails(t) PROVE TypeOK' /\ Requested'
  BY <1>11, <1>x, Refused DEF RemoveFails, Slots
<1>12. CASE Crash
  <2>1. Backend!DurableTypeOK'
    BY <1>12, <1>t DEF Crash, Backend!Close, Backend!Empty, Backend!DurableTypeOK,
                     Backend!Images
  <2>2. crashes' \in 0..MaxCrashes
    BY <1>12, <1>t, <1>a DEF Crash
  <2>3. QED BY <1>12, <1>t, <2>1, <2>2 DEF Crash, promises, TypeOK
<1>13. CASE Open
  <2>1. Backend!DurableTypeOK'
    BY <1>13, <1>t DEF Open, Backend!OpenStore, Backend!DurableTypeOK, Backend!Images
  <2>2. QED BY <1>13, <1>t, <2>1 DEF Open, promises, TypeOK
<1>14. CASE UNCHANGED vars
  BY <1>14, <1>t, <1>u DEF vars, backend, TypeOK
<1>15. QED
  BY <1>1, <1>2, <1>3, <1>4, <1>5, <1>6, <1>7, <1>8, <1>9, <1>10, <1>11, <1>12,
     <1>13, <1>14 DEF Next

LEMMA TypesInitially == Init => TypeOK /\ Requested
<1> SUFFICES ASSUME Init PROVE TypeOK /\ Requested
  OBVIOUS
<1>1. Backend!DurableTypeOK
  BY DEF Init, Backend!DurableInit, Backend!Empty, Backend!DurableTypeOK, Backend!Images
<1>2. Requested
  BY DEF Init, Requested, Storing
<1>3. crashes \in 0..MaxCrashes
  BY StorageAssumption DEF Init
<1>4. QED BY <1>1, <1>2, <1>3 DEF Init, TypeOK

LEMMA TypesInductive == Spec => [](TypeOK /\ Requested)
<1>1. TypeOK /\ Requested /\ [Next]_vars => (TypeOK /\ Requested)'
  BY TypeStep
<1>2. QED BY TypesInitially, <1>1, PTL DEF Spec

(* Every variable keeps its type: both slots hold envelopes or nothing and  *)
(* no unusable passphrase ever reaches seal.                                *)
THEOREM TypeCorrect == Spec => []TypeOK
BY TypesInductive, PTL

-----------------------------------------------------------------------------
(* The promises, made inductive.                                            *)

(* The slot holds it, in the file and in the memory of the process if any.  *)
Holds(slot, item) ==
    durable[slot] = item /\ (Provider \in open => Item(slot) = item)

(* An operation nobody overlapped: everyone else is idle, so what its first *)
(* backend call did still stands before its second.                         *)
Underway ==
    \A t \in Threads : alone[t] =>
        /\ Provider \in open
        /\ \A u \in Threads \ {t} : pc[u] = "idle"
        /\ pc[t] = "putRecovery" => Item("primary") = PrimaryEnvelope(t)

(* Whoever may still write the recovery slot writes what is there.          *)
Recoverable ==
    enrolled # Nothing =>
        /\ Holds("recovery", enrolled)
        /\ \A t \in Threads :
              /\ pc[t] \notin Deleting
              /\ pc[t] \in Storing => RecoveryEnvelope(t) = enrolled

Readable ==
    kept # Nothing => Holds("primary", kept) /\ \A t \in Threads : pc[t] = "idle"

(* Whoever may still write a secret back read it before; what a deletion    *)
(* nothing came between has removed is still removed.                       *)
Erasure ==
    /\ gone => /\ \A slot \in Slots : Holds(slot, Nothing)
               /\ \A t \in Threads : pc[t] \in Storing => t \in recovering
    /\ \A t \in clean :
          /\ Provider \in open /\ pc[t] \in Deleting
          /\ pc[t] = "removeRecovery" =>
                /\ Item("primary") = Nothing
                /\ removed[t] => durable = view[Provider]

Promises == Underway /\ Recoverable /\ Readable /\ Erasure

Typed == TypeOK /\ Requested

(* An operation that ends alone leaves every thread idle.                   *)
LEMMA LastOut ==
    ASSUME TypeOK, Underway, NEW t \in Threads, End(t), alone[t]
    PROVE  \A u \in Threads : pc'[u] = "idle"
BY DEF TypeOK, Underway, End

LEMMA UnderwayStep ==
    ASSUME Typed, Underway, [Next]_vars
    PROVE  Underway'
<1> USE DEF Underway
<1>t. /\ TypeOK /\ Requested
      /\ pc = [t \in Threads |-> pc[t]] /\ alone = [t \in Threads |-> alone[t]]
      /\ request = [t \in Threads |-> request[t]]
  BY DEF Typed, TypeOK
\* An operation begins: it has made no backend call.
<1>1. ASSUME NEW t \in Threads, NEW call \in {"putPrimary", "removePrimary"},
             Start(t, call), UNCHANGED backend
      PROVE  Underway'
  <2>1. /\ pc' = [pc EXCEPT ![t] = call]
        /\ alone' = [u \in Threads |->
                        u = t /\ \A other \in Threads : pc[other] = "idle"]
        /\ Provider \in open'
    BY <1>1 DEF Start, backend
  <2>2. QED BY <2>1, <1>t
\* An operation ends: it is alone no longer, and if another is, it was not.
<1>2. ASSUME NEW t \in Threads, pc[t] # "idle", End(t) PROVE Underway'
  <2>1. /\ pc' = [pc EXCEPT ![t] = "idle"] /\ alone' = [alone EXCEPT ![t] = FALSE]
    BY <1>2 DEF End
  <2>2. \A u \in Threads : ~alone'[u]
    BY <1>2, <2>1, <1>t
  <2>3. QED BY <2>2
\* An operation goes on from its first backend call.
<1>3. ASSUME NEW t \in Threads, pc[t] = "putPrimary", GoOn(t, "putRecovery"),
             Backend!Acknowledge(Provider, "primary", PrimaryEnvelope(t))
      PROVE  Underway'
  <2>1. Item("primary")' = PrimaryEnvelope(t) /\ open' = open
    BY <1>3, <1>t, Acknowledged DEF Slots, Item
  <2>2. /\ pc' = [pc EXCEPT ![t] = "putRecovery"] /\ alone' = alone /\ request' = request
    BY <1>3 DEF GoOn
  <2>3. \A u \in Threads \ {t} : ~alone'[u]
    BY <1>3, <2>2
  <2>4. PrimaryEnvelope(t)' = PrimaryEnvelope(t)
    BY <2>2 DEF PrimaryEnvelope, Sealed
  <2>5. QED BY <2>1, <2>2, <2>3, <2>4, <1>t
<1>4. ASSUME NEW t \in Threads, RemovePrimary(t) PROVE Underway'
  <2>1. PICK found \in BOOLEAN :
           pc[t] = "removePrimary" /\ Erased("primary", found) /\ GoOn(t, "removeRecovery")
    BY <1>4 DEF RemovePrimary
  <2>2. open' = open
    BY <2>1, <1>t, Removed DEF Slots
  <2>3. /\ pc' = [pc EXCEPT ![t] = "removeRecovery"] /\ alone' = alone
    BY <2>1 DEF GoOn
  <2>4. \A u \in Threads \ {t} : ~alone'[u]
    BY <2>1, <2>3
  <2>5. QED BY <2>1, <2>2, <2>3, <2>4, <1>t
<1>5. ASSUME NEW t \in Threads, PutPrimary(t) PROVE Underway'
  <2>1. CASE request[t].recovery \in {NoPass, EmptyPass}
    <3>1. End(t) /\ pc[t] = "putPrimary"
      BY <1>5, <2>1, StorageAssumption DEF PutPrimary, AfterPrimary, Stored, Throws
    <3>2. QED BY <1>2, <3>1
  <2>2. CASE request[t].recovery \notin {NoPass, EmptyPass}
    <3>1. GoOn(t, "putRecovery")
      BY <1>5, <2>2 DEF PutPrimary, AfterPrimary
    <3>2. QED BY <1>3, <1>5, <3>1 DEF PutPrimary
  <2>3. QED BY <2>1, <2>2
<1>6. ASSUME NEW t \in Threads,
             \/ PutPrimaryFails(t) \/ PutRecovery(t) \/ PutRecoveryFails(t)
             \/ SealFails(t) \/ RemoveRecovery(t) \/ RemoveFails(t)
      PROVE  Underway'
  <2>1. End(t) /\ pc[t] # "idle"
    BY <1>6 DEF PutPrimaryFails, PutRecovery, PutRecoveryFails, SealFails,
                RemoveRecovery, RemoveFails, Throws, Stored, Deleted
  <2>2. QED BY <1>2, <2>1
<1>7. ASSUME NEW t \in Threads,
             \/ \E s \in Secrets, o \in Options, r \in Options : Store(t, s, o, r)
             \/ \E r \in Options, o \in Options : Recover(t, r, o)
             \/ Delete(t)
      PROVE  Underway'
  BY <1>1, <1>7 DEF Store, Recover, Delete
<1>8. CASE Crash
  BY <1>8 DEF Crash
<1>9. CASE Open
  <2>1. Provider \notin open /\ alone' = alone
    BY <1>9 DEF Open, Backend!OpenStore
  <2>2. QED BY <2>1
<1>10. CASE UNCHANGED vars
  BY <1>10 DEF vars, backend, Item, PrimaryEnvelope, Sealed
<1>11. QED
  BY <1>4, <1>5, <1>6, <1>7, <1>8, <1>9, <1>10 DEF Next

-----------------------------------------------------------------------------
(* The recovery envelope.                                                   *)

LEMMA RecoverableStep ==
    ASSUME Typed, Underway, Recoverable, [Next]_vars
    PROVE  Recoverable'
<1> SUFFICES ASSUME enrolled' # Nothing PROVE Recoverable'
  BY DEF Recoverable
<1>t. /\ TypeOK /\ Requested
      /\ pc = [t \in Threads |-> pc[t]] /\ alone = [t \in Threads |-> alone[t]]
      /\ request = [t \in Threads |-> request[t]]
  BY DEF Typed, TypeOK
<1> USE DEF Recoverable, Storing, Deleting
\* An operation ends and promises nothing new.
<1>1. ASSUME NEW t \in Threads, End(t), enrolled' = enrolled,
             open' = open, durable'["recovery"] = enrolled,
             Provider \in open => Item("recovery")' = enrolled
      PROVE  Recoverable'
  BY <1>1, <1>t DEF End, Holds, RecoveryEnvelope, Sealed
\* storeSecret, or the one in recoverSecret, returns.
<1>2. ASSUME NEW t \in Threads, Stored(t), alone[t], open' = open,
             request[t].recovery # NoPass =>
                /\ durable'["recovery"] = RecoveryEnvelope(t)
                /\ Item("recovery")' = RecoveryEnvelope(t)
      PROVE  Recoverable'
  <2>1. End(t) /\ request[t].recovery # NoPass /\ enrolled' = RecoveryEnvelope(t)
    BY <1>2 DEF Stored, RecoveryEnvelope
  <2>2. \A u \in Threads : pc'[u] = "idle"
    BY <1>2, <2>1, <1>t, LastOut
  <2>3. QED BY <1>2, <2>1, <2>2 DEF Holds
<1>3. ASSUME NEW t \in Threads, NEW s \in Secrets, NEW o \in Options, NEW r \in Options,
             Store(t, s, o, r)
      PROVE  Recoverable'
  BY <1>3 DEF Store
<1>4. ASSUME NEW t \in Threads, NEW r \in Options, NEW o \in Options, Recover(t, r, o)
      PROVE  Recoverable'
  <2>1. /\ enrolled' = enrolled /\ UNCHANGED backend /\ Provider \in open
        /\ Item("recovery") = enrolled /\ Item("recovery").pass = r
        /\ pc' = [pc EXCEPT ![t] = "putPrimary"]
    BY <1>4 DEF Recover, Start, Opens, Holds
  <2>2. enrolled = Sealed(enrolled.secret, r)
    BY <2>1, <1>t DEF TypeOK, Envelopes, Sealed
  <2>3. PICK pass : request' = [request EXCEPT ![t] =
                       [secret |-> enrolled.secret, pass |-> pass, recovery |-> r]]
    BY <1>4, <2>1 DEF Recover
  <2>4. RecoveryEnvelope(t)' = enrolled
    BY <2>2, <2>3, <1>t DEF RecoveryEnvelope
  <2>5. ASSUME NEW u \in Threads \ {t} PROVE RecoveryEnvelope(u)' = RecoveryEnvelope(u)
    BY <2>3, <1>t DEF RecoveryEnvelope
  <2>6. QED BY <2>1, <2>4, <2>5, <1>t DEF Holds, backend, Item
<1>5. ASSUME NEW t \in Threads, Delete(t) PROVE Recoverable'
  BY <1>5 DEF Delete
<1>6. ASSUME NEW t \in Threads, PutPrimary(t) PROVE Recoverable'
  <2>1. /\ durable'["recovery"] = Item("recovery") /\ open' = open
        /\ Item("recovery")' = Item("recovery") /\ Provider \in open
    BY <1>6, <1>t, Acknowledged DEF PutPrimary, Slots, Item, Backend!Acknowledge
  <2>2. CASE request[t].recovery = NoPass
    <3>1. Stored(t)
      BY <1>6, <2>2 , StorageAssumption DEF PutPrimary, AfterPrimary
    <3>2. QED BY <1>1, <1>2, <2>1, <2>2, <3>1 DEF Stored, promises, Holds
  <2>3. CASE request[t].recovery = EmptyPass
    <3>1. Throws(t)
      BY <1>6, <2>3, StorageAssumption DEF PutPrimary, AfterPrimary
    <3>2. QED BY <1>1, <2>1, <3>1 DEF Throws, promises, Holds
  <2>4. CASE request[t].recovery \notin {NoPass, EmptyPass}
    <3>1. /\ pc' = [pc EXCEPT ![t] = "putRecovery"] /\ pc[t] = "putPrimary"
          /\ request' = request /\ enrolled' = enrolled
      BY <1>6, <2>4 DEF PutPrimary, AfterPrimary, GoOn, promises
    <3>2. QED BY <2>1, <3>1, <1>t DEF Holds, RecoveryEnvelope
  <2>5. QED BY <2>2, <2>3, <2>4
<1>7. ASSUME NEW t \in Threads, PutRecovery(t) PROVE Recoverable'
  <2>1. /\ durable'["recovery"] = RecoveryEnvelope(t) /\ open' = open
        /\ Item("recovery")' = RecoveryEnvelope(t) /\ Stored(t) /\ pc[t] \in Storing
    BY <1>7, <1>t, Acknowledged DEF PutRecovery, Slots, Item
  <2>2. CASE alone[t]
    BY <1>2, <2>1, <2>2
  <2>3. CASE ~alone[t]
    BY <1>1, <2>1, <2>3 DEF Stored, promises
  <2>4. QED BY <2>2, <2>3
<1>8. ASSUME NEW t \in Threads, PutPrimaryFails(t) PROVE Recoverable'
  <2>1. /\ durable' = durable /\ open' = open /\ Throws(t)
        /\ Item("recovery")' = Item("recovery")
    BY <1>8, <1>t, Refused DEF PutPrimaryFails, Slots
  <2>2. QED BY <1>1, <2>1 DEF Throws, promises, Holds
<1>9. ASSUME NEW t \in Threads, PutRecoveryFails(t) PROVE Recoverable'
  <2>1. /\ durable' = durable /\ open' = open /\ Throws(t) /\ pc[t] \in Storing
        /\ Item("recovery")' = RecoveryEnvelope(t)
    BY <1>9, <1>t, Refused DEF PutRecoveryFails, Slots
  <2>2. QED BY <1>1, <2>1 DEF Throws, promises, Holds
<1>10. ASSUME NEW t \in Threads, SealFails(t) PROVE Recoverable'
  BY <1>1, <1>10 DEF SealFails, Throws, promises, Holds, backend, Item
<1>11. ASSUME NEW t \in Threads,
              RemovePrimary(t) \/ RemoveRecovery(t) \/ RemoveFails(t)
       PROVE  Recoverable'
  <2>1. pc[t] \in Deleting /\ enrolled' = enrolled
    BY <1>11 DEF RemovePrimary, RemoveRecovery, RemoveFails, GoOn, Deleted, Throws,
                 promises
  <2>2. QED BY <2>1
<1>12. CASE Crash
  BY <1>12 DEF Crash, Backend!Close, promises, Holds
<1>13. CASE Open
  <2>1. /\ durable' = durable /\ UNCHANGED <<pc, request, enrolled>>
        /\ view' = [view EXCEPT ![Provider] = durable]
    BY <1>13 DEF Open, Backend!OpenStore, promises
  <2>2. Item("recovery")' = durable["recovery"]
    BY <2>1, <1>t DEF Item, TypeOK, Backend!DurableTypeOK
  <2>3. QED BY <2>1, <2>2 DEF Holds, RecoveryEnvelope
<1>14. CASE UNCHANGED vars
  BY <1>14 DEF vars, backend, Holds, Item, RecoveryEnvelope
<1>15. QED
  BY <1>3, <1>4, <1>5, <1>6, <1>7, <1>8, <1>9, <1>10, <1>11, <1>12, <1>13, <1>14
  DEF Next

-----------------------------------------------------------------------------
(* The primary envelope.                                                    *)

LEMMA ReadableStep ==
    ASSUME Typed, Underway, Readable, [Next]_vars
    PROVE  Readable'
<1> SUFFICES ASSUME kept' # Nothing PROVE Readable'
  BY DEF Readable
<1>t. TypeOK
  BY DEF Typed
<1> USE DEF Readable
\* While a promise stands nothing runs.
<1>1. ASSUME NEW t \in Threads, pc[t] # "idle", kept' = kept PROVE Readable'
  BY <1>1
\* storeSecret, or the one in recoverSecret, returns.
<1>2. ASSUME NEW t \in Threads, pc[t] # "idle", Stored(t), open' = open,
             alone[t] => /\ durable'["primary"] = PrimaryEnvelope(t)
                         /\ Item("primary")' = PrimaryEnvelope(t)
      PROVE  Readable'
  <2>1. CASE alone[t]
    <3>1. End(t) /\ kept' = PrimaryEnvelope(t)
      BY <1>2, <2>1 DEF Stored, PrimaryEnvelope
    <3>2. \A u \in Threads : pc'[u] = "idle"
      BY <1>t, <2>1, <3>1, LastOut
    <3>3. QED BY <1>2, <2>1, <3>1, <3>2 DEF Holds
  <2>2. CASE ~alone[t]
    BY <1>1, <1>2, <2>2 DEF Stored, promises
  <2>3. QED BY <2>1, <2>2
<1>3. ASSUME NEW t \in Threads, PutPrimary(t) PROVE Readable'
  <2>1. /\ durable'["primary"] = PrimaryEnvelope(t) /\ open' = open
        /\ Item("primary")' = PrimaryEnvelope(t) /\ pc[t] = "putPrimary"
    BY <1>3, <1>t, Acknowledged DEF PutPrimary, Slots, Item
  <2>2. CASE request[t].recovery = NoPass
    <3>1. Stored(t)
      BY <1>3, <2>2, StorageAssumption DEF PutPrimary, AfterPrimary
    <3>2. QED BY <1>2, <2>1, <3>1
  <2>3. CASE request[t].recovery # NoPass
    <3>1. Throws(t) \/ GoOn(t, "putRecovery")
      BY <1>3, <2>3 DEF PutPrimary, AfterPrimary
    <3>2. kept' = kept
      BY <3>1 DEF Throws, GoOn, promises
    <3>3. QED BY <1>1, <2>1, <3>2
  <2>4. QED BY <2>2, <2>3
<1>4. ASSUME NEW t \in Threads, PutRecovery(t) PROVE Readable'
  <2>1. /\ durable'["primary"] = Item("primary") /\ open' = open
        /\ Item("primary")' = Item("primary") /\ Stored(t) /\ pc[t] = "putRecovery"
    BY <1>4, <1>t, Acknowledged DEF PutRecovery, Slots, Item
  <2>2. alone[t] => Item("primary") = PrimaryEnvelope(t)
    BY <2>1 DEF Underway
  <2>3. QED BY <1>2, <2>1, <2>2
<1>5. ASSUME NEW t \in Threads,
             \/ PutPrimaryFails(t) \/ PutRecoveryFails(t) \/ SealFails(t)
             \/ RemovePrimary(t) \/ RemoveRecovery(t) \/ RemoveFails(t)
      PROVE  Readable'
  <2>1. pc[t] # "idle" /\ kept' = kept
    BY <1>5 DEF PutPrimaryFails, PutRecoveryFails, SealFails, RemovePrimary,
                RemoveRecovery, RemoveFails, Throws, GoOn, Deleted, promises
  <2>2. QED BY <1>1, <2>1
<1>6. ASSUME NEW t \in Threads,
             \/ \E s \in Secrets, o \in Options, r \in Options : Store(t, s, o, r)
             \/ \E r \in Options, o \in Options : Recover(t, r, o)
             \/ Delete(t)
      PROVE  Readable'
  BY <1>6 DEF Store, Recover, Delete
<1>7. CASE Crash
  BY <1>7 DEF Crash, Backend!Close, promises, Holds
<1>8. CASE Open
  <2>1. /\ durable' = durable /\ UNCHANGED <<pc, kept>>
        /\ view' = [view EXCEPT ![Provider] = durable]
    BY <1>8 DEF Open, Backend!OpenStore, promises
  <2>2. Item("primary")' = durable["primary"]
    BY <2>1, <1>t DEF Item, TypeOK, Backend!DurableTypeOK
  <2>3. QED BY <2>1, <2>2 DEF Holds
<1>9. CASE UNCHANGED vars
  BY <1>9 DEF vars, backend, Holds, Item
<1>10. QED
  BY <1>3, <1>4, <1>5, <1>6, <1>7, <1>8, <1>9 DEF Next

-----------------------------------------------------------------------------
(* Deletion.                                                                *)

LEMMA ErasureStep ==
    ASSUME Typed, Erasure, [Next]_vars
    PROVE  Erasure'
<1>t. /\ TypeOK /\ gone \in BOOLEAN
      /\ pc = [t \in Threads |-> pc[t]] /\ removed = [t \in Threads |-> removed[t]]
      /\ clean \subseteq Threads
  BY DEF Typed, TypeOK
<1>i. Item("primary") = view[Provider]["primary"] /\ Item("recovery") = view[Provider]["recovery"]
      /\ Slots = {"primary", "recovery"}
  BY DEF Item, Slots
<1> USE DEF Erasure, Storing, Deleting
\* A put ends what a deletion promises and what one under way has made sure of.
<1>1. ASSUME NEW t \in Threads, pc[t] \in Storing, Written(t) PROVE Erasure'
  BY <1>1 DEF Written
\* A removal, of what may no longer be there.
<1>2. ASSUME NEW t \in Threads, NEW slot \in Slots, NEW found \in BOOLEAN,
             Erased(slot, found),
             \E p \in {"idle", "removeRecovery"} : pc' = [pc EXCEPT ![t] = p]
      PROVE  /\ gone => \A s \in Slots : Holds(s, Nothing)'
             /\ open' = open
             /\ Item(slot)' = Nothing
             /\ Item("primary") = Nothing => Item("primary")' = Nothing
             /\ found => durable' = view'[Provider]
             /\ durable = view[Provider] => durable' = view'[Provider]
  <2>1. /\ Item(slot)' = Nothing /\ open' = open
        /\ \A other \in Slots \ {slot} : Item(other)' = Item(other)
        /\ found => durable' = view'[Provider]
        /\ ~found => UNCHANGED backend
    BY <1>2, <1>t, Removed
  <2>2. found => Provider \in open
    BY <1>2 DEF Erased, Backend!Acknowledge
  <2>3. gone => \A s \in Slots : Holds(s, Nothing)'
    BY <1>2, <2>1, <2>2 DEF Holds, Item, backend
  <2>4. QED BY <1>i, <2>1, <2>3 DEF backend
<1>3. ASSUME NEW t \in Threads, RemovePrimary(t) PROVE Erasure'
  <2>1. PICK found \in BOOLEAN :
           /\ pc[t] = "removePrimary" /\ Erased("primary", found)
           /\ removed' = [removed EXCEPT ![t] = found]
           /\ GoOn(t, "removeRecovery") /\ UNCHANGED deletion
    BY <1>3 DEF RemovePrimary
  <2>2. /\ pc' = [pc EXCEPT ![t] = "removeRecovery"]
        /\ UNCHANGED <<recovering, clean, gone>>
    BY <2>1 DEF GoOn, deletion
  <2>3. /\ gone => \A s \in Slots : Holds(s, Nothing)'
        /\ open' = open /\ Item("primary")' = Nothing
        /\ found => durable' = view'[Provider]
        /\ durable = view[Provider] => durable' = view'[Provider]
    BY <1>2, <1>i, <2>1, <2>2
  <2>4. ASSUME NEW u \in clean PROVE removed'[u] /\ pc'[u] = "removeRecovery" =>
                                        durable' = view'[Provider]
    BY <2>1, <2>2, <2>3, <1>t
  <2>5. QED BY <2>1, <2>2, <2>3, <2>4, <1>t
<1>4. ASSUME NEW t \in Threads, RemoveRecovery(t) PROVE Erasure'
  <2>1. PICK found \in BOOLEAN :
           /\ pc[t] = "removeRecovery" /\ Erased("recovery", found)
           /\ Deleted(t, removed[t] \/ found)
    BY <1>4 DEF RemoveRecovery
  <2>2. /\ pc' = [pc EXCEPT ![t] = "idle"] /\ removed' = [removed EXCEPT ![t] = FALSE]
        /\ recovering' = recovering \ {t} /\ clean' = clean \ {t}
    BY <2>1 DEF Deleted, End
  <2>3. /\ gone => \A s \in Slots : Holds(s, Nothing)'
        /\ open' = open /\ Item("recovery")' = Nothing
        /\ Item("primary") = Nothing => Item("primary")' = Nothing
        /\ found => durable' = view'[Provider]
        /\ durable = view[Provider] => durable' = view'[Provider]
    BY <1>2, <1>i, <2>1, <2>2
  <2>4. ASSUME gone'
        PROVE  /\ \A s \in Slots : Holds(s, Nothing)'
               /\ \A u \in Threads : pc'[u] \in Storing => u \in recovering'
    <3>1. CASE gone
      BY <2>1, <2>2, <2>3, <3>1, <1>t
    <3>2. CASE ~gone
      <4>1. /\ (removed[t] \/ found) /\ t \in clean
            /\ \A u \in Threads : pc[u] \in Storing => u \in recovering
        BY <2>1, <2>4, <3>2 DEF Deleted
      <4>2. Item("primary")' = Nothing /\ durable' = view'[Provider]
        BY <2>1, <2>3, <4>1
      <4>3. \A s \in Slots : Holds(s, Nothing)'
        BY <2>3, <4>2, <1>i DEF Holds, Item
      <4>4. QED BY <2>1, <2>2, <4>1, <4>3, <1>t
    <3>3. QED BY <3>1, <3>2
  <2>5. QED BY <2>2, <2>3, <2>4, <1>t
<1>5. ASSUME NEW t \in Threads, RemoveFails(t) PROVE Erasure'
  <2>1. PICK slot \in Slots : Backend!Refuse(Provider, slot, Nothing)
    BY <1>5, <1>i DEF RemoveFails
  <2>2. Provider \in open /\ Item(slot) # Nothing
    BY <2>1 DEF Backend!Refuse, Item
  <2>3. ~gone
    BY <2>2 DEF Holds
  <2>4. QED BY <1>5, <2>3 DEF RemoveFails
<1>6. ASSUME NEW t \in Threads,
             \/ PutPrimary(t) \/ PutPrimaryFails(t) \/ PutRecovery(t)
             \/ PutRecoveryFails(t)
      PROVE  Erasure'
  <2>1. pc[t] \in Storing /\ Written(t)
    BY <1>6 DEF PutPrimary, PutPrimaryFails, PutRecovery, PutRecoveryFails
  <2>2. QED BY <1>1, <2>1
<1>7. ASSUME NEW t \in Threads, SealFails(t) PROVE Erasure'
  <2>1. /\ pc' = [pc EXCEPT ![t] = "idle"] /\ recovering' = recovering \ {t}
        /\ removed' = [removed EXCEPT ![t] = FALSE] /\ pc[t] \in Storing
        /\ UNCHANGED <<backend, clean, gone>>
    BY <1>7 DEF SealFails, Throws, End, deletion
  <2>2. QED BY <2>1, <1>t DEF Holds, backend, Item
<1>8. ASSUME NEW t \in Threads, NEW s \in Secrets, NEW o \in Options, NEW r \in Options,
             Store(t, s, o, r)
      PROVE  Erasure'
  <2>1. /\ pc[t] = "idle" /\ pc' = [pc EXCEPT ![t] = "putPrimary"]
        /\ ~gone' /\ UNCHANGED <<backend, removed, clean>>
    BY <1>8 DEF Store, Start
  <2>2. QED BY <2>1, <1>t DEF backend, Item
\* There is no envelope left for recoverSecret to open.
<1>9. ASSUME NEW t \in Threads, NEW r \in Options, NEW o \in Options, Recover(t, r, o)
      PROVE  Erasure'
  <2>1. /\ pc[t] = "idle" /\ pc' = [pc EXCEPT ![t] = "putPrimary"]
        /\ Provider \in open /\ Item("recovery") # Nothing
        /\ UNCHANGED <<backend, removed, clean, gone>>
    BY <1>9 DEF Recover, Start, deletion
  <2>2. ~gone
    BY <2>1, <1>i DEF Holds
  <2>3. QED BY <2>1, <2>2, <1>t DEF backend, Item
<1>10. ASSUME NEW t \in Threads, Delete(t) PROVE Erasure'
  <2>1. /\ Provider \in open /\ pc' = [pc EXCEPT ![t] = "removePrimary"]
        /\ clean' = clean \cup {t} /\ UNCHANGED <<backend, removed, recovering, gone>>
    BY <1>10 DEF Delete, Start
  <2>2. QED BY <2>1, <1>t DEF Holds, backend, Item
<1>11. CASE Crash
  BY <1>11 DEF Crash, Backend!Close, Holds
<1>12. CASE Open
  <2>1. /\ durable' = durable /\ UNCHANGED <<pc, removed, recovering, clean, gone>>
        /\ view' = [view EXCEPT ![Provider] = durable] /\ Provider \notin open
    BY <1>12 DEF Open, Backend!OpenStore, deletion
  <2>2. view'[Provider] = durable
    BY <2>1, <1>t DEF TypeOK, Backend!DurableTypeOK
  <2>3. clean = {}
    BY <2>1
  <2>4. QED BY <2>1, <2>2, <2>3 DEF Holds, Item
<1>13. CASE UNCHANGED vars
  BY <1>13 DEF vars, backend, Holds, Item
<1>14. QED
  BY <1>3, <1>4, <1>5, <1>6, <1>7, <1>8, <1>9, <1>10, <1>11, <1>12, <1>13 DEF Next

-----------------------------------------------------------------------------
LEMMA PromisesInductive == Spec => [](Typed /\ Promises)
<1>1. Init => Promises
  BY DEF Init, Promises, Underway, Recoverable, Readable, Erasure
<1>2. Typed /\ Promises /\ [Next]_vars => Promises'
  BY UnderwayStep, RecoverableStep, ReadableStep, ErasureStep DEF Promises
<1>3. QED BY <1>1, <1>2, TypesInductive, PTL DEF Spec, Typed

(* Nothing that recoverSecret does, however often, at once or cut short,    *)
(* loses the recovery envelope storeSecret left.                            *)
THEOREM RecoveryCorrect == Spec => []RecoverySurvives
<1>1. Promises => RecoverySurvives
  BY DEF Promises, Recoverable, RecoverySurvives, Holds
<1>2. QED BY <1>1, PromisesInductive, PTL

(* What a storeSecret or recoverSecret that nobody overlapped stored,       *)
(* retrieveSecret answers with the same passphrase, restarts or not.        *)
THEOREM ReadableCorrect == Spec => []SecretReadable
<1>1. Typed /\ Promises => SecretReadable
  <2> SUFFICES ASSUME TypeOK, Readable, kept # Nothing, Provider \in open
               PROVE  Retrieve(kept.pass) = kept.secret
    BY DEF Typed, Promises, SecretReadable
  <2>1. Item("primary") = kept /\ kept \in Envelopes
    BY DEF Readable, Holds, TypeOK
  <2>2. kept.pass \in Passphrases
    BY <2>1 DEF Envelopes
  <2>3. Effective(kept.pass) = kept.pass /\ Usable(kept.pass)
    BY <2>2, StorageAssumption DEF Effective, Usable
  <2>4. QED BY <2>1, <2>3 DEF Retrieve, Opens
<1>2. QED BY <1>1, PromisesInductive, PTL

(* What deleteSecret reported removed is found in neither slot again, until *)
(* a storeSecret begins or a recoverSecret that had read it before writes   *)
(* it back.                                                                 *)
THEOREM DeletionCorrect == Spec => []DeletedStaysDeleted
<1>1. Promises => DeletedStaysDeleted
  BY DEF Promises, Erasure, DeletedStaysDeleted, Holds
<1>2. QED BY <1>1, PromisesInductive, PTL
=============================================================================
