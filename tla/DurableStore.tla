---------------------------- MODULE DurableStore ----------------------------
(***************************************************************************)
(* What the storage component promises, with no files, temporary copies   *)
(* or locks in it: each of a set of named maps has a view (what Get*      *)
(* calls see) and a durable copy (what the next process would load).      *)
(*                                                                         *)
(*   - opening loads the durable copies, or fails and the store stays     *)
(*     closed;                                                             *)
(*   - a change touches the view of one map;                              *)
(*   - a commit makes one map's durable copy equal to its view at once,   *)
(*     never to a part of it or to another map's;                         *)
(*   - a crash loses the views and never changes a durable copy.          *)
(* The last commit of a Stop closes the store in the same step.           *)
(***************************************************************************)
CONSTANTS
    Files,     \* the names of the maps
    Maps,      \* the values a map can take
    EmptyMap   \* the map with no entries

VARIABLES
    status,    \* "down" (no process), "up", "closed" (stopped or failed)
    view,      \* each map as the running process holds it
    durable    \* each map as a new process would load it

avars == <<status, view, durable>>

AInit ==
    /\ status = "down"
    /\ view = [f \in Files |-> EmptyMap]
    /\ durable \in [Files -> Maps]

Open ==
    /\ status = "down"
    /\ \/ status' = "up" /\ view' = durable
       \/ status' = "closed" /\ UNCHANGED view
    /\ UNCHANGED durable

Change(f, m) ==
    /\ status = "up"
    /\ view' = [view EXCEPT ![f] = m]
    /\ UNCHANGED <<status, durable>>

CommitFile(f) == durable' = [durable EXCEPT ![f] = view[f]]

Commit(f) ==
    /\ status = "up"
    /\ CommitFile(f)
    /\ UNCHANGED <<status, view>>

LastCommit(f) ==
    /\ status = "up"
    /\ CommitFile(f)
    /\ status' = "closed"
    /\ UNCHANGED view

Close ==
    /\ status = "up"
    /\ status' = "closed"
    /\ UNCHANGED <<view, durable>>

Crash ==
    /\ status # "down"
    /\ status' = "down"
    /\ view' = [f \in Files |-> EmptyMap]
    /\ UNCHANGED durable

ANext ==
    \/ Open
    \/ \E f \in Files, m \in Maps : Change(f, m)
    \/ \E f \in Files : Commit(f) \/ LastCommit(f)
    \/ Close
    \/ Crash

ASpec == AInit /\ [][ANext]_avars

=============================================================================
