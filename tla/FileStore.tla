------------------------------ MODULE FileStore ------------------------------
(***************************************************************************)
(* FileStorageBackend (storage/StorageBackend.cpp): the store is loaded     *)
(* into memory once; an update changes the memory and then writes the whole *)
(* store to a temporary file that is renamed over the old one.  Writing and *)
(* renaming can fail, and the process can die between any two steps.  The   *)
(* mutex makes the steps of one instance follow one another; nothing        *)
(* orders the steps of two instances over one path.                         *)
(***************************************************************************)
EXTENDS Naturals

CONSTANTS Instances, Keys, Values, Absent, MaxDeaths

ASSUME FileAssumption == Absent \notin Values /\ MaxDeaths \in Nat

VARIABLES
    disk,      \* the parsed content of path_; a missing file is an empty store
    store,     \* store_ of each instance
    at,        \* where each instance is: "down" when it does not exist
    tmp,       \* the temporary file it has written
    update,    \* the key and value of the update under way
    before,    \* the store as the update found it
    shared,    \* two instances have been open at once since none was
    settled,   \* keys whose last update was acknowledged, none shared since
    promised,  \* the value that update gave the key
    deaths     \* how often a process has died

fileVars == <<disk, store, at, tmp, update, before, shared, settled, promised,
              deaths>>
ghosts == <<shared, settled, promised>>

Images == [Keys -> Values \cup {Absent}]
Empty  == [k \in Keys |-> Absent]

FileTypeOK ==
    /\ disk \in Images
    /\ store \in [Instances -> Images]
    /\ at \in [Instances -> {"down", "ready", "mutated", "written", "renamed"}]
    /\ tmp \in [Instances -> Images]
    /\ update \in [Instances -> [key: Keys, value: Values \cup {Absent}]]
    /\ before \in [Instances -> Images]
    /\ shared \in BOOLEAN
    /\ settled \subseteq Keys
    /\ promised \in Images
    /\ deaths \in Nat

FileInit ==
    /\ disk = Empty
    /\ store = [i \in Instances |-> Empty]
    /\ at = [i \in Instances |-> "down"]
    /\ tmp = [i \in Instances |-> Empty]
    /\ update \in [Instances -> [key: Keys, value: {Absent}]]
    /\ before = [i \in Instances |-> Empty]
    /\ shared = FALSE
    /\ settled = Keys
    /\ promised = Empty
    /\ deaths = 0

-----------------------------------------------------------------------------
Alone(i) == \A j \in Instances \ {i} : at[j] = "down"

(* The constructor.                                                         *)
Load(i) ==
    /\ at[i] = "down"
    /\ store' = [store EXCEPT ![i] = disk]
    /\ at' = [at EXCEPT ![i] = "ready"]
    /\ shared' = (shared \/ ~Alone(i))
    /\ settled' = IF Alone(i) THEN settled ELSE {}
    /\ UNCHANGED <<disk, tmp, update, before, promised, deaths>>

Mutate(i, k, v) ==
    /\ at[i] = "ready"
    /\ before' = [before EXCEPT ![i] = store[i]]
    /\ store' = [store EXCEPT ![i][k] = v]
    /\ update' = [update EXCEPT ![i] = [key |-> k, value |-> v]]
    /\ at' = [at EXCEPT ![i] = "mutated"]
    /\ settled' = settled \ {k}
    /\ UNCHANGED <<disk, tmp, shared, promised, deaths>>

SetItem(i, k, v) == v # Absent /\ Mutate(i, k, v)

(* A key overwritten with nothing instead of erased.                        *)
RemoveItemEmptied(i, k) == store[i][k] # Absent /\ Mutate(i, k, "")

(* A key that is not in memory is answered false without touching the file. *)
RemoveItem(i, k) == store[i][k] # Absent /\ Mutate(i, k, Absent)

-----------------------------------------------------------------------------
(* persist.                                                                 *)

(* The store written before the update is made in it.                       *)
WriteTempEarly(i) ==
    /\ at[i] = "mutated"
    /\ tmp' = [tmp EXCEPT ![i] = before[i]]
    /\ at' = [at EXCEPT ![i] = "written"]
    /\ UNCHANGED <<disk, store, update, before, ghosts, deaths>>

(* The destination itself truncated and written.                            *)
WriteInPlace(i) ==
    /\ at[i] = "mutated"
    /\ disk' = Empty
    /\ tmp' = [tmp EXCEPT ![i] = store[i]]
    /\ at' = [at EXCEPT ![i] = "written"]
    /\ UNCHANGED <<store, update, before, ghosts, deaths>>

WriteTemp(i) ==
    /\ at[i] = "mutated"
    /\ tmp' = [tmp EXCEPT ![i] = store[i]]
    /\ at' = [at EXCEPT ![i] = "written"]
    /\ UNCHANGED <<disk, store, update, before, ghosts, deaths>>

Rename(i) ==
    /\ at[i] = "written"
    /\ disk' = tmp[i]
    /\ tmp' = [tmp EXCEPT ![i] = Empty]
    /\ at' = [at EXCEPT ![i] = "renamed"]
    /\ UNCHANGED <<store, update, before, ghosts, deaths>>

(* A directory, file, write or rename error: the temporary file is removed, *)
(* SecretStorageException is thrown, and the memory keeps the update.       *)
PersistFails(i) ==
    /\ at[i] \in {"mutated", "written"}
    /\ tmp' = [tmp EXCEPT ![i] = Empty]
    /\ at' = [at EXCEPT ![i] = "ready"]
    /\ UNCHANGED <<disk, store, update, before, ghosts, deaths>>

Return(i) ==
    /\ at[i] = "renamed"
    /\ at' = [at EXCEPT ![i] = "ready"]
    /\ settled' = IF shared THEN settled ELSE settled \cup {update[i].key}
    /\ promised' = [promised EXCEPT ![update[i].key] = update[i].value]
    /\ UNCHANGED <<disk, store, tmp, update, before, shared, deaths>>

(* The process dies, or drops the object between two operations.  A         *)
(* temporary file it leaves behind is never read again.                     *)
Die(i) ==
    /\ at[i] # "down" /\ deaths < MaxDeaths
    /\ deaths' = deaths + 1
    /\ at' = [at EXCEPT ![i] = "down"]
    /\ store' = [store EXCEPT ![i] = Empty]
    /\ tmp' = [tmp EXCEPT ![i] = Empty]
    /\ shared' = (shared /\ ~Alone(i))
    /\ UNCHANGED <<disk, update, before, settled, promised>>

-----------------------------------------------------------------------------
FileNext ==
    \E i \in Instances :
        \/ Load(i)
        \/ \E k \in Keys : RemoveItem(i, k) \/ \E v \in Values : SetItem(i, k, v)
        \/ WriteTemp(i) \/ Rename(i) \/ PersistFails(i) \/ Return(i)
        \/ Die(i)

FileSpec == FileInit /\ [][FileNext]_fileVars

-----------------------------------------------------------------------------
(* What a caller sees: the memory, but not an update whose operation still  *)
(* holds the mutex before its rename.                                       *)
Seen(i) == IF at[i] \in {"mutated", "written"} THEN before[i] ELSE store[i]

Opened == {i \in Instances : at[i] # "down"}

Promise == INSTANCE DurableStore WITH
    durable <- disk,
    view    <- [i \in Instances |-> Seen(i)],
    open    <- Opened

(* FileStorageBackend implements DurableStore: temporary file, rename, the  *)
(* lock and the crashes between them look like one atomic update.           *)
ImplementsDurable == Promise!DurableSpec

(* A key whose last setItem or removeItem returned normally, while no other *)
(* instance was open nor has been since, is in the file with that value     *)
(* whatever failed or crashed: setItem, removeItem and persist.             *)
AcknowledgedSurvives == \A k \in settled : disk[k] = promised[k]
=============================================================================
