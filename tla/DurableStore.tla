---------------------------- MODULE DurableStore ----------------------------
(***************************************************************************)
(* What a StorageBackend kept in a file promises: one image of the store    *)
(* that survives crashes, and a view of it in every process that has it     *)
(* open.  An update is made in the view and then either the whole view      *)
(* becomes the durable image at once or the caller is told it did not.      *)
(* StorageBackend.h declares the operations; FileStore implements them.     *)
(***************************************************************************)
CONSTANTS
    Instances,  \* the backend objects over the one file
    Keys,
    Values,
    Absent      \* no value under a key, never one of the Values

VARIABLES
    durable,    \* the image a process opening the store now would load
    view,       \* what getItem answers in each instance
    open        \* the instances that exist

durableVars == <<durable, view, open>>

Images == [Keys -> Values \cup {Absent}]
Empty  == [k \in Keys |-> Absent]

DurableTypeOK ==
    /\ durable \in Images
    /\ view \in [Instances -> Images]
    /\ open \subseteq Instances

DurableInit ==
    /\ durable = Empty
    /\ view = [i \in Instances |-> Empty]
    /\ open = {}

-----------------------------------------------------------------------------
Updated(image, k, v) == [image EXCEPT ![k] = v]

(* setItem, or removeItem of a key in the view, returns.                    *)
Acknowledge(i, k, v) ==
    /\ i \in open
    /\ v = Absent => view[i][k] # Absent
    /\ durable' = Updated(view[i], k, v)
    /\ view' = [view EXCEPT ![i] = Updated(@, k, v)]
    /\ UNCHANGED open

(* The same, reported as failed: the view keeps the update, the file does   *)
(* not have it yet, and any later acknowledged update will write it.        *)
Refuse(i, k, v) ==
    /\ i \in open
    /\ v = Absent => view[i][k] # Absent
    /\ view' = [view EXCEPT ![i] = Updated(@, k, v)]
    /\ UNCHANGED <<durable, open>>

OpenStore(i) ==
    /\ i \notin open
    /\ view' = [view EXCEPT ![i] = durable]
    /\ open' = open \cup {i}
    /\ UNCHANGED durable

Close(i) ==
    /\ i \in open
    /\ view' = [view EXCEPT ![i] = Empty]
    /\ open' = open \ {i}
    /\ UNCHANGED durable

DurableNext ==
    \E i \in Instances :
        \/ \E k \in Keys, v \in Values \cup {Absent} :
              Acknowledge(i, k, v) \/ Refuse(i, k, v)
        \/ OpenStore(i)
        \/ Close(i)

DurableSpec == DurableInit /\ [][DurableNext]_durableVars
=============================================================================
