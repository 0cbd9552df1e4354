---------------------------- MODULE SecurityToken ----------------------------
(***************************************************************************)
(* The static keys of a producer's configuration, which the application    *)
(* replaces (log_producer_config_reset_security_token) while senders copy  *)
(* them (log_producer_config_get_security).  The first reset that finds no *)
(* lock creates it; its test and its creation are steps of their own, and  *)
(* config->securityTokenLock is evaluated anew at each use.                *)
(*                                                                         *)
(* A string is the number of the reset that it came from, 0 for one that   *)
(* was set before.  The locks are numbered as they are created.  A thread  *)
(* that waits for a lock is taken to look at the pointer again, which      *)
(* matters only after a second lock has been created.                      *)
(***************************************************************************)
EXTENDS Integers, Sequences

CONSTANTS
    Senders,    \* the threads that copy the keys
    Resetters,  \* the application's threads that replace them
    MaxResets   \* bound of the model: calls of reset

Fields == {"accessKeyId", "accessKey", "securityToken"}

VARIABLES
    lock,       \* securityTokenLock: how many locks were created, 0 for NULL
    inside,     \* who is in which lock: pairs of a lock and a thread
    key,        \* accessKeyId, accessKey and securityToken
    resets,     \* the number of calls of reset
    place,      \* where each thread is
    number,     \* the reset that a resetter performs
    copy,       \* the strings that a sender has copied
    locked,     \* whether the sender's test found a lock
    states,     \* the keys as each reset left them, in order
    since       \* the last of these when the sender's call began

vars == <<lock, inside, key, resets, place, number, copy, locked, states, since>>

Threads == Senders \cup Resetters
Unset == [f \in Fields |-> 0]

\* The keys have been set, with or without a first reset, which made the lock.
Init ==
    /\ lock \in {0, 1} /\ inside = {}
    /\ key = Unset /\ resets = 0 /\ states = <<Unset>>
    /\ place = [t \in Threads |-> "idle"]
    /\ number = [u \in Resetters |-> 0]
    /\ copy = [t \in Senders |-> Unset] /\ locked = [t \in Senders |-> FALSE]
    /\ since = [t \in Senders |-> 1]

To(t, where) == place' = [place EXCEPT ![t] = where]
After(f) == IF f = "accessKeyId" THEN "accessKey"
            ELSE IF f = "accessKey" THEN "securityToken" ELSE "leave"

\* A mutation: the lock does not exclude.
EnterAnyway(t) ==
    /\ place[t] = "enter"
    /\ inside' = inside \cup {<<lock, t>>}
    /\ To(t, "accessKeyId")
    /\ UNCHANGED <<lock, key, resets, number, copy, locked, states, since>>

\* CS_ENTER
Enter(t) ==
    /\ place[t] = "enter" /\ \A u \in Threads : <<lock, u>> \notin inside
    /\ inside' = inside \cup {<<lock, t>>}
    /\ To(t, "accessKeyId")
    /\ UNCHANGED <<lock, key, resets, number, copy, locked, states, since>>

\* CS_LEAVE unlocks the mutex that it finds now, whoever is in it.
Leave(t, to) ==
    /\ place[t] = "leave"
    /\ inside' = {pair \in inside : pair[1] # lock}
    /\ To(t, to)

-----------------------------------------------------------------------------
\* log_producer_config_reset_security_token
ResetFind(u) ==
    /\ place[u] = "idle" /\ resets < MaxResets
    /\ resets' = resets + 1 /\ number' = [number EXCEPT ![u] = resets']
    /\ To(u, IF lock = 0 THEN "create" ELSE "enter")
    /\ UNCHANGED <<lock, inside, key, copy, locked, states, since>>

\* Another resetter, which found none either, may have created one meanwhile.
ResetCreate(u) ==
    /\ place[u] = "create"
    /\ lock' = lock + 1
    /\ To(u, "enter")
    /\ UNCHANGED <<inside, key, resets, number, copy, locked, states, since>>

\* _copy_config_string: a NULL token leaves the one that is there.
ResetCopy(u) ==
    /\ place[u] \in Fields
    /\ \/ key' = [key EXCEPT ![place[u]] = number[u]]
       \/ place[u] = "securityToken" /\ UNCHANGED key
    /\ To(u, After(place[u]))
    /\ UNCHANGED <<lock, inside, resets, number, copy, locked, states, since>>

ResetLeave(u) ==
    /\ Leave(u, "idle")
    /\ states' = Append(states, key) /\ number' = [number EXCEPT ![u] = 0]
    /\ UNCHANGED <<lock, key, resets, copy, locked, since>>

-----------------------------------------------------------------------------
\* log_producer_config_get_security
GetFind(t) ==
    /\ place[t] = "idle"
    /\ locked' = [locked EXCEPT ![t] = lock # 0] /\ since' = [since EXCEPT ![t] = Len(states)]
    /\ To(t, IF lock = 0 THEN "accessKeyId" ELSE "enter")
    /\ UNCHANGED <<lock, inside, key, resets, number, copy, states>>

\* Without a lock the token is not copied, and nothing is unlocked.
GetCopy(t) ==
    /\ place[t] \in Fields
    /\ copy' = [copy EXCEPT ![t][place[t]] = key[place[t]]]
    /\ To(t, IF place[t] = "accessKey" /\ ~locked[t] THEN "copied" ELSE After(place[t]))
    /\ UNCHANGED <<lock, inside, key, resets, number, locked, states, since>>

GetLeave(t) ==
    /\ Leave(t, "copied")
    /\ UNCHANGED <<lock, key, resets, number, copy, locked, states, since>>

\* The copies are used for a request and freed.
GetReturn(t) ==
    /\ place[t] = "copied"
    /\ copy' = [copy EXCEPT ![t] = Unset]
    /\ locked' = [locked EXCEPT ![t] = FALSE] /\ since' = [since EXCEPT ![t] = 1]
    /\ To(t, "idle")
    /\ UNCHANGED <<lock, inside, key, resets, number, states>>

ResetStep(u) == ResetFind(u) \/ ResetCreate(u) \/ ResetCopy(u) \/ ResetLeave(u)
GetStep(t) == GetFind(t) \/ GetCopy(t) \/ GetLeave(t) \/ GetReturn(t)

Next ==
    \/ \E t \in Threads : Enter(t)
    \/ \E u \in Resetters : ResetStep(u)
    \/ \E t \in Senders : GetStep(t)

Spec == Init /\ [][Next]_vars
-----------------------------------------------------------------------------
(***************************************************************************)
(* Property                                                                *)
(***************************************************************************)
\* Resets are "thread safe" (log_producer_config.h) while at most one lock has been
\* created: a sender whose test found it copies id, secret and token as one reset
\* left them, the last before its call or a later one; and a lock is held only by
\* a thread that is inside it and will leave it.
ThreadSafe == lock <= 1 =>
    /\ \A t \in Senders : place[t] = "copied" /\ locked[t] =>
          \E i \in since[t] .. Len(states) : copy[t] = states[i]
    /\ \A pair \in inside : place[pair[2]] \in Fields \cup {"leave"}
=============================================================================
