----------------------------- MODULE Credentials -----------------------------
(***************************************************************************)
(* The credentials of a producer with a credentials callback: several      *)
(* senders fetch them from it, without the lock, and share them            *)
(* (_get_credentials_for_sign, _try_fetch_credentials).                    *)
(*                                                                         *)
(* now is time(NULL) in seconds.  Credentials are represented by their     *)
(* expire_ts, 0 for none.  How long a callback takes is a free choice.     *)
(***************************************************************************)
EXTENDS Integers

CONSTANTS
    Senders,        \* the producer's send threads
    Lifetime,       \* seconds that credentials live from their issue
    Advance,        \* CREDENTIALS_EXPIRE_ADVANCE_TIME
    MinInterval,    \* CREDENTIALS_FETCH_MIN_INTERVAL
    MaxTime         \* bound of the model: the last second

ASSUME TimesAssumption ==
    /\ Lifetime \in Nat \ {0} /\ Advance \in Nat /\ MinInterval \in Nat \ {0}
    /\ MaxTime \in Nat \ {0}

VARIABLES
    now,        \* time(NULL)
    shutdown,   \* shutdown
    cached,     \* current_credentials
    lastFetch,  \* last_credentials_fetch_time
    pc,         \* where each sender is
    begun,      \* now_time as it was read first
    first,      \* whether it fetches because there were no credentials at all
    temp,       \* the credentials it got from the callback
    late,       \* whether the last fetch to end failed, or took MinInterval seconds
    rushed      \* whether what is cached was fetched because there was nothing

vars == <<now, shutdown, cached, lastFetch, pc, begun, first, temp, late, rushed>>

Init ==
    /\ now = 1 /\ shutdown = FALSE
    /\ cached = 0 /\ lastFetch = 0
    /\ pc = [t \in Senders |-> "idle"] /\ begun = [t \in Senders |-> 0]
    /\ first = [t \in Senders |-> FALSE] /\ temp = [t \in Senders |-> 0]
    /\ late = FALSE /\ rushed = FALSE

Goto(t, to) == pc' = [pc EXCEPT ![t] = to]

-----------------------------------------------------------------------------
(***************************************************************************)
(* _try_fetch_credentials                                                  *)
(***************************************************************************)
\* No fetch, and so no call of the application, while the producer is shutting down.
FetchNothing(t) ==
    /\ pc[t] = "idle" /\ shutdown
    /\ Goto(t, "sign")
    /\ UNCHANGED <<now, shutdown, cached, lastFetch, begun, first, temp, late, rushed>>

\* now_time is read before the lock is taken.
FetchTime(t) ==
    /\ pc[t] = "idle" /\ ~shutdown
    /\ begun' = [begun EXCEPT ![t] = now]
    /\ Goto(t, "lock")
    /\ UNCHANGED <<now, shutdown, cached, lastFetch, first, temp, late, rushed>>

\* Two mutations: any number of fetches at a time; and fetching when the credentials
\* have been expired for Advance seconds.
NeedFetchOften(t) == cached = 0 \/ begun[t] + Advance >= cached
NeedFetchAfter(t) ==
    \/ cached = 0
    \/ begun[t] >= cached + Advance /\ begun[t] - lastFetch >= MinInterval

NeedFetch(t) ==
    \/ cached = 0
    \/ begun[t] + Advance >= cached /\ begun[t] - lastFetch >= MinInterval

\* Two mutations: last_credentials_fetch_time is not set here, or is the time of the
\* next fetch.
FetchBeginUnmarked(t) ==
    /\ pc[t] = "lock" /\ NeedFetch(t)
    /\ first' = [first EXCEPT ![t] = cached = 0]
    /\ Goto(t, "callback")
    /\ UNCHANGED <<now, shutdown, cached, lastFetch, begun, temp, late, rushed>>

FetchBeginNext(t) ==
    /\ pc[t] = "lock" /\ NeedFetch(t)
    /\ lastFetch' = begun[t] + MinInterval
    /\ first' = [first EXCEPT ![t] = cached = 0]
    /\ Goto(t, "callback")
    /\ UNCHANGED <<now, shutdown, cached, begun, temp, late, rushed>>

FetchBegin(t) ==
    /\ pc[t] = "lock" /\ NeedFetch(t)
    /\ lastFetch' = begun[t]
    /\ first' = [first EXCEPT ![t] = cached = 0]
    /\ Goto(t, "callback")
    /\ UNCHANGED <<now, shutdown, cached, begun, temp, late, rushed>>

FetchSkip(t) ==
    /\ pc[t] = "lock" /\ ~NeedFetch(t)
    /\ Goto(t, "sign")
    /\ UNCHANGED <<now, shutdown, cached, lastFetch, begun, first, temp, late, rushed>>

\* The callback issues credentials ...
CallbackIssues(t) ==
    /\ pc[t] = "callback"
    /\ temp' = [temp EXCEPT ![t] = now + Lifetime]
    /\ Goto(t, "issued")
    /\ UNCHANGED <<now, shutdown, cached, lastFetch, begun, first, late, rushed>>

\* ... or fails: a non-zero result, a missing key, or credentials expired by now.
FetchFailed(t) ==
    /\ \/ pc[t] = "callback"
       \/ pc[t] = "issued" /\ now >= temp[t]
    /\ Goto(t, "sign")
    /\ temp' = [temp EXCEPT ![t] = 0] /\ first' = [first EXCEPT ![t] = FALSE]
    /\ late' = TRUE
    /\ UNCHANGED <<now, shutdown, cached, lastFetch, begun, rushed>>

Slow(t) == now - begun[t] >= MinInterval

\* The cached credentials are freed and replaced, whichever are newer.
Publish(t) ==
    /\ pc[t] = "issued" /\ now < temp[t]
    /\ cached' = temp[t]
    /\ late' = Slow(t) /\ rushed' = first[t]
    /\ Goto(t, "log")
    /\ UNCHANGED <<now, shutdown, lastFetch, begun, first, temp>>

\* expire_ts is read once more, for the log, after the unlock.
LogExpire(t) ==
    /\ pc[t] = "log"
    /\ temp' = [temp EXCEPT ![t] = 0] /\ first' = [first EXCEPT ![t] = FALSE]
    /\ Goto(t, "sign")
    /\ UNCHANGED <<now, shutdown, cached, lastFetch, begun, late, rushed>>

-----------------------------------------------------------------------------
\* _get_credentials_for_sign copies the strings under the lock, expired or not;
\* with none cached the request is made with NULL keys.
Sign(t) ==
    /\ pc[t] = "sign"
    /\ begun' = [begun EXCEPT ![t] = 0]
    /\ Goto(t, "idle")
    /\ UNCHANGED <<now, shutdown, cached, lastFetch, first, temp, late, rushed>>

\* destroy_log_producer_manager
Shutdown ==
    /\ ~shutdown /\ shutdown' = TRUE
    /\ UNCHANGED <<now, cached, lastFetch, pc, begun, first, temp, late, rushed>>

Tick ==
    /\ now < MaxTime
    /\ now' = now + 1
    /\ UNCHANGED <<shutdown, cached, lastFetch, pc, begun, first, temp, late, rushed>>

Next ==
    \/ \E t \in Senders :
         \/ FetchNothing(t) \/ FetchTime(t) \/ FetchBegin(t) \/ FetchSkip(t)
         \/ CallbackIssues(t) \/ FetchFailed(t) \/ Publish(t) \/ LogExpire(t) \/ Sign(t)
    \/ Shutdown \/ Tick

Spec == Init /\ [][Next]_vars
-----------------------------------------------------------------------------
(***************************************************************************)
(* Properties                                                              *)
(***************************************************************************)
Seconds == 0 .. MaxTime
Fetching(t) == pc[t] \in {"callback", "issued", "log"}

\* The types of the variables; nothing cached lives longer than from now.
TypeOK ==
    /\ now \in Seconds /\ shutdown \in BOOLEAN
    /\ cached \in 0 .. now + Lifetime /\ lastFetch \in 0 .. now
    /\ pc \in [Senders -> {"idle", "lock", "callback", "issued", "log", "sign"}]
    /\ begun \in [Senders -> 0 .. now] /\ first \in [Senders -> BOOLEAN]
    /\ temp \in [Senders -> 0 .. now + Lifetime]
    /\ late \in BOOLEAN /\ rushed \in BOOLEAN

\* Two fetches under way that were begun to renew credentials were begun at
\* least MinInterval apart, whoever began them.
FetchSpacing == \A t, u \in Senders :
    t # u /\ Fetching(t) /\ Fetching(u) /\ ~first[t] /\ ~first[u] =>
        begun[t] - begun[u] >= MinInterval \/ begun[u] - begun[t] >= MinInterval

\* Credentials that live long enough.
LongLived == Lifetime > Advance + 2 * MinInterval

Publishing(t) == pc[t] = "issued" /\ pc'[t] = "log"

\* No sender replaces newer credentials by older ones, except when its own fetch or
\* the one replaced was in the rush of the first fetch, or took MinInterval or longer.
\* (A first fetch may note a time before that of the one before it, and a renewal then
\* begin at once: with three senders it may replace what is newer.)
Renewed == [][\A t \in Senders : LongLived /\ Publishing(t) /\ cached' < cached =>
                first[t] \/ rushed \/ Slow(t) \/ late]_vars

\* Credentials are not freed before their expire_ts has been logged, which is done
\* after the unlock, with the same exceptions for the two senders.
LoggedAlive == [][\A t, u \in Senders : LongLived /\ Publishing(u) /\ pc[t] = "log" =>
                    first[t] \/ Slow(t) \/ first[u] \/ Slow(u)]_vars

\* A renewal that begins as late as it can and is not slow ends before the expiry.
EarlyEnough == MinInterval <= Advance + 1

\* A request is signed with credentials that have not expired, unless the last
\* fetch failed or was slow, the request itself was slow, the producer is
\* shutting down, or another sender is just fetching new ones: then MinInterval
\* keeps this one from fetching, and it posts with what is cached, although
\* that may have expired long ago.
SignedFresh == \A t \in Senders : LongLived /\ EarlyEnough /\ pc[t] = "sign" =>
    \/ now < cached \/ late \/ Slow(t) \/ shutdown
    \/ \E u \in Senders \ {t} : pc[u] \in {"callback", "issued"}
=============================================================================
