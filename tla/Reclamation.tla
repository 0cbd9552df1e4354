----------------------------- MODULE Reclamation -----------------------------
(***************************************************************************)
(* What the reference count of a producer promises: an owner and any       *)
(* number of users share an object, only the owner lets users in, and the  *)
(* object is freed once, when the owner and the last user have let go.     *)
(***************************************************************************)
CONSTANTS Objects, Users

VARIABLES owned, users, freed

vars == <<owned, users, freed>>

Init ==
    /\ owned = [o \in Objects |-> TRUE]
    /\ users = [o \in Objects |-> {}]
    /\ freed = [o \in Objects |-> FALSE]

Acquire(o, u) ==
    /\ owned[o] /\ u \notin users[o]
    /\ users' = [users EXCEPT ![o] = @ \cup {u}]
    /\ UNCHANGED <<owned, freed>>

Release(o, u) ==
    /\ u \in users[o]
    /\ users' = [users EXCEPT ![o] = @ \ {u}]
    /\ UNCHANGED <<owned, freed>>

\* The owner lets go: when its destroy parameter has been popped and is released, or,
\* without a pool, when destroy has joined the flush thread.
Disown(o) ==
    /\ owned[o]
    /\ owned' = [owned EXCEPT ![o] = FALSE]
    /\ UNCHANGED <<users, freed>>

Free(o) ==
    /\ ~owned[o] /\ users[o] = {} /\ ~freed[o]
    /\ freed' = [freed EXCEPT ![o] = TRUE]
    /\ UNCHANGED <<owned, users>>

Next == \E o \in Objects :
    \/ \E u \in Users : Acquire(o, u) \/ Release(o, u)
    \/ Disown(o) \/ Free(o)

Spec == Init /\ [][Next]_vars
=============================================================================
