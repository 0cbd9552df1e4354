---------------------------- MODULE Signing_proofs ----------------------------
(***************************************************************************)
(* Proofs about the keys that requests are signed with.  About Credentials,*)
(* for any number of senders and any lifetimes and intervals: the spacing  *)
(* of the fetches, what it means for the credentials that are read after   *)
(* the unlock, which credentials are replaced by which, and when those     *)
(* that sign a request are fresh.  About SecurityToken, for any number of  *)
(* senders and of resets: that static keys are copied whole.               *)
(***************************************************************************)
EXTENDS Signing, Sequences, SequenceTheorems, TLAPS

-----------------------------------------------------------------------------
(***************************************************************************)
(* The spacing of the fetches                                              *)
(***************************************************************************)
\* Whoever renews credentials began no later than the last fetch that was noted, and
\* once there are credentials there always are.
Noted == \A t \in Senders : Fetching(t) /\ ~first[t] => begun[t] <= lastFetch /\ cached # 0

IInv == TypeOK /\ Noted /\ FetchSpacing

USE TimesAssumption DEF TimesAssumption, Fetching, NeedFetch, Slow, Seconds

\* The initial state satisfies the inductive invariant.
LEMMA InitIInv == Init => IInv
<1> SUFFICES ASSUME Init PROVE IInv
  OBVIOUS
<1>1. \A t \in Senders : ~Fetching(t)
  BY DEF Init
<1>2. TypeOK
  <2>1. now = 1 /\ 1 \in 0 .. MaxTime /\ 0 \in 0 .. now /\ 0 \in 0 .. now + Lifetime
    BY DEF Init
  <2> QED  BY <2>1 DEF Init, TypeOK
<1> QED  BY <1>1, <1>2 DEF IInv, Noted, FetchSpacing

\* The step of a sender that begins a fetch: one that renews began MinInterval after
\* the last one noted, and a first one finds nobody who renews.
LEMMA FetchBeginIInv ==
    ASSUME IInv, NEW u \in Senders, FetchBegin(u)
    PROVE  IInv'
<1>1. TypeOK'
  BY DEF IInv, TypeOK, FetchBegin, Goto
<1>2. ASSUME NEW t \in Senders, t # u, Fetching(t), ~first[t]
      PROVE  begun[u] - begun[t] >= MinInterval /\ cached # 0 /\ ~first'[u]
  BY <1>2 DEF IInv, TypeOK, Noted, FetchBegin
<1>3. \A t \in Senders \ {u} : pc'[t] = pc[t] /\ first'[t] = first[t] /\ begun'[t] = begun[t]
  BY DEF IInv, TypeOK, FetchBegin, Goto
<1>4. /\ pc'[u] = "callback" /\ begun'[u] = begun[u] /\ lastFetch' = begun[u]
      /\ cached' = cached /\ (first'[u] <=> cached = 0)
  BY DEF IInv, TypeOK, FetchBegin, Goto
<1>5. Noted'
  <2>1. ASSUME NEW t \in Senders, Fetching(t)', ~first'[t] PROVE begun'[t] <= lastFetch' /\ cached' # 0
    <3>1. CASE t = u
      <4>1. cached # 0  BY <1>4, <2>1, <3>1
      <4> QED  BY <1>4, <3>1, <4>1 DEF IInv, TypeOK
    <3>2. CASE t # u
      <4>1. Fetching(t) /\ ~first[t]  BY <1>3, <2>1, <3>2
      <4> QED  BY <1>2, <1>3, <1>4, <3>2, <4>1 DEF IInv, TypeOK
    <3> QED  BY <3>1, <3>2
  <2> QED  BY <2>1 DEF Noted
<1>6. FetchSpacing'
  BY <1>2, <1>3, <1>4 DEF IInv, TypeOK, FetchSpacing
<1> QED  BY <1>1, <1>5, <1>6 DEF IInv

\* Every step preserves it.
LEMMA NextIInv == IInv /\ [Next]_vars => IInv'
<1> SUFFICES ASSUME IInv, [Next]_vars PROVE IInv'
  OBVIOUS
<1> USE DEF IInv, TypeOK, Noted, FetchSpacing, Goto
<1>1. ASSUME NEW u \in Senders, FetchNothing(u) PROVE IInv'
  BY <1>1 DEF FetchNothing
<1>2. ASSUME NEW u \in Senders, FetchTime(u) PROVE IInv'
  BY <1>2 DEF FetchTime
<1>3. ASSUME NEW u \in Senders, FetchBegin(u) PROVE IInv'
  BY <1>3, FetchBeginIInv
<1>4. ASSUME NEW u \in Senders, FetchSkip(u) PROVE IInv'
  BY <1>4 DEF FetchSkip
<1>5. ASSUME NEW u \in Senders, CallbackIssues(u) PROVE IInv'
  BY <1>5 DEF CallbackIssues
<1>6. ASSUME NEW u \in Senders, FetchFailed(u) PROVE IInv'
  BY <1>6 DEF FetchFailed
<1>7. ASSUME NEW u \in Senders, Publish(u) PROVE IInv'
  BY <1>7 DEF Publish
<1>8. ASSUME NEW u \in Senders, LogExpire(u) PROVE IInv'
  BY <1>8 DEF LogExpire
<1>9. ASSUME NEW u \in Senders, Sign(u) PROVE IInv'
  BY <1>9 DEF Sign
<1>10. CASE Shutdown
  BY <1>10 DEF Shutdown
<1>11. CASE Tick
  BY <1>11 DEF Tick
<1>12. CASE UNCHANGED vars
  BY <1>12 DEF vars
<1> QED  BY <1>1, <1>2, <1>3, <1>4, <1>5, <1>6, <1>7, <1>8, <1>9, <1>10, <1>11, <1>12 DEF Next

LEMMA AlwaysIInv == Spec => []IInv
BY InitIInv, NextIInv, PTL DEF Spec

\* The types of the variables: no stamp is later than now, nothing cached outlives
\* a lifetime that begins now.
THEOREM TypeCorrect == Spec => []TypeOK
<1>1. IInv => TypeOK  BY DEF IInv
<1> QED  BY <1>1, AlwaysIInv, PTL

\* last_credentials_fetch_time, which is set before the lock is left for the callback,
\* keeps the fetches of any number of senders MinInterval apart.
THEOREM FetchesSpaced == Spec => []FetchSpacing
<1>1. IInv => FetchSpacing  BY DEF IInv
<1> QED  BY <1>1, AlwaysIInv, PTL

\* So credentials are freed under the log call that reads them, after the unlock, only
\* by or under a first fetch, or one that took MinInterval or longer.
THEOREM AliveWhenLogged == Spec => LoggedAlive
<1>1. ASSUME IInv, NEW t \in Senders, NEW u \in Senders, Publishing(u), pc[t] = "log"
      PROVE  first[t] \/ Slow(t) \/ first[u] \/ Slow(u)
  <2>1. t # u  BY <1>1 DEF Publishing
  <2>2. Fetching(t) /\ Fetching(u)  BY <1>1 DEF Publishing
  <2>3. begun[t] <= now /\ begun[u] <= now /\ begun[t] \in Int /\ begun[u] \in Int /\ now \in Int
    BY <1>1 DEF IInv, TypeOK
  <2> QED  BY <1>1, <2>1, <2>2, <2>3 DEF IInv, FetchSpacing
<1>2. IInv /\ [Next]_vars =>
        [\A t, u \in Senders : LongLived /\ Publishing(u) /\ pc[t] = "log" =>
            first[t] \/ Slow(t) \/ first[u] \/ Slow(u)]_vars
  BY <1>1
<1> QED  BY <1>2, AlwaysIInv, PTL DEF Spec, LoggedAlive

-----------------------------------------------------------------------------
(***************************************************************************)
(* How fresh the credentials are                                           *)
(***************************************************************************)
Awaited(t) == pc[t] \in {"callback", "issued"}

\* Credentials live for Lifetime from a moment after their fetch began.
Issued == \A t \in Senders : pc[t] = "issued" => temp[t] >= begun[t] + Lifetime

\* What is cached was issued by the last fetch that was noted, but for less than
\* MinInterval, unless a fetch is under way or the last one went wrong.
Recent == ~late /\ cached # 0 =>
    cached > lastFetch + Lifetime - MinInterval \/ \E u \in Senders : Awaited(u)

\* The sender that signs with what is cached found it fresh, or could not fetch.
Signable == LongLived => \A t \in Senders : pc[t] \in {"log", "sign"} =>
    \/ shutdown \/ late \/ Slow(t) \/ cached > begun[t] + Advance
    \/ \E u \in Senders \ {t} : Awaited(u)

\* A renewal that ends in time replaces what is older, or else a first fetch's.
Replacing == LongLived => \A t \in Senders :
    Awaited(t) /\ ~first[t] /\ ~Slow(t) /\ ~late /\ ~rushed => cached <= begun[t] + Lifetime

Fresh == Issued /\ Recent /\ Signable /\ Replacing

LEMMA InitFresh == Init => Fresh
<1> SUFFICES ASSUME Init PROVE Fresh
  OBVIOUS
<1>1. \A t \in Senders : pc[t] = "idle"
  BY DEF Init
<1>2. cached = 0
  BY DEF Init
<1> QED
  BY <1>1, <1>2 DEF Fresh, Issued, Recent, Signable, Replacing, Awaited

\* What the steps do to the senders that are fetching, and to the others.
LEMMA PublishFresh ==
    ASSUME IInv, Fresh, NEW v \in Senders, Publish(v)
    PROVE  Fresh'
<1>1. /\ pc[v] = "issued" /\ pc' = [pc EXCEPT ![v] = "log"] /\ now < temp[v]
      /\ cached' = temp[v] /\ late' = (now - begun[v] >= MinInterval) /\ rushed' = first[v]
      /\ UNCHANGED <<now, shutdown, lastFetch, begun, first, temp>>
      /\ pc \in [Senders -> {"idle", "lock", "callback", "issued", "log", "sign"}]
      /\ now \in Nat /\ lastFetch \in 0 .. now /\ begun \in [Senders -> 0 .. now]
      /\ temp \in [Senders -> 0 .. now + Lifetime] /\ cached \in Nat
  BY DEF Publish, Goto, IInv, TypeOK
<1>2. temp[v] >= begun[v] + Lifetime
  BY <1>1 DEF Fresh, Issued
<1>3. ~late' => temp[v] > now - MinInterval + Lifetime
  <2>1. ~late' => ~(now - begun[v] >= MinInterval)
    BY <1>1
  <2>2. begun[v] \in Nat /\ temp[v] \in Nat
    BY <1>1
  <2> QED
    BY <1>1, <1>2, <2>1, <2>2
<1>4. \A t \in Senders \ {v} : pc'[t] = pc[t]
  BY <1>1
<1>5. Issued'
  BY <1>1 DEF Fresh, Issued
<1>6. Recent'
  <2>1. ASSUME ~late' PROVE cached' > lastFetch' + Lifetime - MinInterval
    BY <1>1, <1>3, <2>1
  <2> QED
    BY <2>1 DEF Recent
<1>7. Signable'
  <2>1. ASSUME LongLived, NEW t \in Senders, ~late' PROVE cached' > begun'[t] + Advance
    <3>1. begun[t] \in Nat /\ begun[t] <= now
      BY <1>1
    <3> QED
      BY <1>1, <1>3, <2>1, <3>1 DEF LongLived
  <2> QED
    BY <2>1 DEF Signable, LongLived
<1>8. Replacing'
  <2>1. ASSUME NEW t \in Senders, Awaited(t)', ~first'[t], ~Slow(t)', ~late', ~rushed' PROVE FALSE
    <3>1. t # v /\ pc[t] \in {"callback", "issued"} /\ ~first[t] /\ ~first[v]
      BY <1>1, <2>1 DEF Awaited
    <3>2. begun[t] - begun[v] >= MinInterval \/ begun[v] - begun[t] >= MinInterval
      BY <1>1, <3>1 DEF IInv, FetchSpacing
    <3>3. /\ ~(now - begun[t] >= MinInterval) /\ ~(now - begun[v] >= MinInterval)
          /\ begun[t] \in 0 .. now /\ begun[v] \in 0 .. now
      BY <1>1, <2>1
    <3> QED
      BY <1>1, <3>2, <3>3
  <2> QED
    BY <2>1 DEF Replacing
<1> QED
  BY <1>5, <1>6, <1>7, <1>8 DEF Fresh

\* A fetch that begins finds credentials that are about to expire, or none.
LEMMA BeginFresh ==
    ASSUME IInv, Fresh, NEW v \in Senders, FetchBegin(v)
    PROVE  Fresh'
<1>1. /\ pc[v] = "lock" /\ pc' = [pc EXCEPT ![v] = "callback"] /\ pc'[v] = "callback"
      /\ first'[v] = (cached = 0) /\ \A t \in Senders \ {v} : first'[t] = first[t] /\ pc'[t] = pc[t]
      /\ UNCHANGED <<now, shutdown, cached, begun, temp, late, rushed>>
      /\ begun \in [Senders -> 0 .. now] /\ cached \in Nat
      /\ cached = 0 \/ begun[v] + Advance >= cached
  BY DEF FetchBegin, Goto, IInv, TypeOK
<1>2. Awaited(v)'
  BY <1>1 DEF Awaited
<1>3. Issued' /\ Recent'
  BY <1>1, <1>2 DEF Fresh, Issued, Recent
<1>4. Signable'
  <2>1. \A t \in Senders : pc'[t] \in {"log", "sign"} => v \in Senders \ {t}
    BY <1>1
  <2> QED
    BY <1>2, <2>1 DEF Signable
<1>5. Replacing'
  <2>1. ASSUME LongLived, NEW t \in Senders, Awaited(t)', ~first'[t], ~Slow(t)', ~late', ~rushed'
        PROVE  cached' <= begun'[t] + Lifetime
    <3>1. CASE t = v
      <4>1. begun[v] + Advance >= cached /\ begun[v] \in Nat
        BY <1>1, <2>1, <3>1
      <4> QED
        BY <1>1, <2>1, <3>1, <4>1 DEF LongLived
    <3>2. CASE t # v
      BY <1>1, <2>1, <3>2 DEF Fresh, Replacing, Awaited
    <3> QED
      BY <3>1, <3>2
  <2> QED
    BY <2>1 DEF Replacing, LongLived
<1> QED
  BY <1>3, <1>4, <1>5 DEF Fresh

\* A sender that does not fetch finds them fresh, or another one's fetch noted.
LEMMA SkipFresh ==
    ASSUME IInv, Fresh, NEW v \in Senders, FetchSkip(v)
    PROVE  Fresh'
<1>1. /\ pc[v] = "lock" /\ pc' = [pc EXCEPT ![v] = "sign"] /\ pc'[v] = "sign"
      /\ \A t \in Senders \ {v} : pc'[t] = pc[t]
      /\ UNCHANGED <<now, shutdown, cached, lastFetch, begun, first, temp, late, rushed>>
      /\ begun \in [Senders -> 0 .. now] /\ cached \in Nat /\ lastFetch \in Nat /\ cached # 0
      /\ begun[v] + Advance < cached \/ begun[v] - lastFetch < MinInterval
  BY DEF FetchSkip, Goto, IInv, TypeOK
<1>2. \A u \in Senders : Awaited(u)' <=> Awaited(u)
  BY <1>1 DEF Awaited
<1>3. Issued' /\ Recent' /\ Replacing'
  BY <1>1, <1>2 DEF Fresh, Issued, Recent, Replacing, LongLived
<1>4. Signable'
  <2>1. ASSUME LongLived, ~late, ~\E u \in Senders : Awaited(u) PROVE cached > begun[v] + Advance
    <3>1. begun[v] \in Nat
      BY <1>1
    <3>2. CASE cached > lastFetch + Lifetime - MinInterval
      BY <1>1, <2>1, <3>1, <3>2 DEF LongLived
    <3> QED
      BY <1>1, <2>1, <3>2 DEF Fresh, Recent
  <2>2. ~Awaited(v)
    BY <1>1 DEF Awaited
  <2> QED
    BY <1>1, <1>2, <2>1, <2>2 DEF Fresh, Signable, LongLived
<1> QED
  BY <1>3, <1>4 DEF Fresh

\* A fetch that fails says so.
LEMMA FailFresh ==
    ASSUME IInv, Fresh, NEW v \in Senders, FetchFailed(v)
    PROVE  Fresh'
<1>1. /\ pc' = [pc EXCEPT ![v] = "sign"] /\ pc'[v] # "issued" /\ late'
      /\ \A t \in Senders \ {v} : pc'[t] = pc[t] /\ temp'[t] = temp[t]
      /\ UNCHANGED begun
  BY DEF FetchFailed, Goto, IInv, TypeOK
<1> QED
  BY <1>1 DEF Fresh, Issued, Recent, Signable, Replacing

\* The other steps neither cache anything nor end a fetch.
LEMMA NextFresh == IInv /\ Fresh /\ [Next]_vars => Fresh'
<1> SUFFICES ASSUME IInv, Fresh, [Next]_vars PROVE Fresh'
  OBVIOUS
<1> USE DEF IInv, TypeOK, Goto, Fresh, Issued, Recent, Signable, Replacing, Awaited, LongLived
<1>1. ASSUME NEW u \in Senders, FetchNothing(u) PROVE Fresh'
  BY <1>1 DEF FetchNothing
<1>2. ASSUME NEW u \in Senders, FetchTime(u) PROVE Fresh'
  BY <1>2 DEF FetchTime
<1>3. ASSUME NEW u \in Senders, CallbackIssues(u) PROVE Fresh'
  BY <1>3 DEF CallbackIssues
<1>4. ASSUME NEW u \in Senders, LogExpire(u) PROVE Fresh'
  BY <1>4 DEF LogExpire
<1>5. ASSUME NEW u \in Senders, Sign(u) PROVE Fresh'
  BY <1>5 DEF Sign
<1>6. CASE Shutdown
  BY <1>6 DEF Shutdown
<1>7. CASE Tick
  BY <1>7 DEF Tick
<1>8. CASE UNCHANGED vars
  BY <1>8 DEF vars
<1> QED
  BY <1>1, <1>2, <1>3, <1>4, <1>5, <1>6, <1>7, <1>8,
     PublishFresh, BeginFresh, SkipFresh, FailFresh DEF Next

LEMMA AlwaysFresh == Spec => [](IInv /\ Fresh)
BY AlwaysIInv, InitFresh, NextFresh, PTL DEF Spec

\* A request is signed with credentials that have not expired, but for the cases that
\* SignedFresh names: no other interleaving of any number of senders makes them stale.
THEOREM SignsFresh == Spec => []SignedFresh
<1>1. ASSUME IInv, Fresh, NEW t \in Senders, LongLived, EarlyEnough, pc[t] = "sign"
      PROVE  \/ now < cached \/ late \/ Slow(t) \/ shutdown
             \/ \E u \in Senders \ {t} : pc[u] \in {"callback", "issued"}
  <2>1. now \in Nat /\ begun[t] \in Nat /\ cached \in Nat
    BY <1>1 DEF IInv, TypeOK
  <2>2. CASE cached > begun[t] + Advance /\ ~Slow(t)
    BY <1>1, <2>1, <2>2 DEF EarlyEnough
  <2> QED
    BY <1>1, <2>2 DEF Fresh, Signable, Awaited
<1>2. IInv /\ Fresh => SignedFresh
  BY <1>1 DEF SignedFresh
<1> QED  BY <1>2, AlwaysFresh, PTL

\* A renewal that is not slow never replaces newer credentials, unless the last fetch
\* to end was slow or failed, or what is cached comes from the rush of the first fetch.
THEOREM RenewsInOrder == Spec => Renewed
<1>1. ASSUME IInv, Fresh, [Next]_vars, NEW t \in Senders, LongLived, Publishing(t), cached' < cached
      PROVE  first[t] \/ rushed \/ Slow(t) \/ late
  <2>1. cached' = temp[t] \/ cached' = cached
    BY <1>1 DEF Next, FetchNothing, FetchTime, FetchBegin, FetchSkip, CallbackIssues,
       FetchFailed, Publish, LogExpire, Sign, Shutdown, Tick, vars, Publishing, Goto, IInv, TypeOK
  <2>2. cached \in Nat /\ temp[t] \in Nat /\ begun[t] \in Nat
    BY <1>1 DEF IInv, TypeOK
  <2>3. temp[t] >= begun[t] + Lifetime
    BY <1>1 DEF Publishing, Fresh, Issued
  <2>4. ~first[t] /\ ~Slow(t) /\ ~late /\ ~rushed => cached <= begun[t] + Lifetime
    BY <1>1 DEF Publishing, Fresh, Replacing, Awaited
  <2> QED
    BY <1>1, <2>1, <2>2, <2>3, <2>4
<1>2. IInv /\ Fresh /\ [Next]_vars =>
        [\A t \in Senders : LongLived /\ Publishing(t) /\ cached' < cached =>
            first[t] \/ rushed \/ Slow(t) \/ late]_vars
  BY <1>1
<1> QED  BY <1>2, AlwaysFresh, PTL DEF Spec, Renewed

-----------------------------------------------------------------------------
(***************************************************************************)
(* Static keys that are reset while they are copied                        *)
(***************************************************************************)
Fields == Static!Fields
Keys == [Fields -> Nat]
Callers == Senders \cup Resetters
Places == Fields \cup {"idle", "create", "enter", "leave", "copied"}

StaticTypes ==
    /\ lock \in Nat /\ inside \subseteq Nat \X Callers
    /\ key \in Keys /\ resets \in Nat
    /\ place \in [Callers -> Places] /\ number \in [Resetters -> Nat]
    /\ copy \in [Senders -> Keys] /\ locked \in [Senders -> BOOLEAN]
    /\ states \in Seq(Keys) /\ states # <<>> /\ since \in [Senders -> Nat]

\* Where a thread is between CS_ENTER and CS_LEAVE: not when its test found no lock.
Between(t) == place[t] \in Fields \cup {"leave"} /\ (t \in Senders => locked[t])

\* While there is one lock, one thread at most is in it, and it is between the two.
Exclusive ==
    /\ \A pair \in inside : pair[1] = 1 /\ lock = 1
    /\ \A t \in Callers : <<1, t>> \in inside <=> Between(t)
    /\ \A t, u \in Callers : Between(t) /\ Between(u) => t = u
    /\ \A t \in Callers : place[t] = "enter" => lock = 1
    /\ \A t \in Senders : place[t] \in {"enter", "securityToken", "leave"} => locked[t]
    /\ \A t \in Senders : place[t] # "create"
    /\ \A u \in Resetters : place[u] # "copied"

\* What a sender has copied when it comes to a place.
CopiedAt(where) ==
    IF where = "accessKey" THEN {"accessKeyId"}
    ELSE IF where = "securityToken" THEN {"accessKeyId", "accessKey"}
    ELSE IF where = "leave" THEN Fields ELSE {}

\* Outside the resets the keys are as the last one left them, and a sender inside the
\* lock has copied them so far.
Whole ==
    /\ (\A u \in Resetters : ~Between(u)) => key = states[Len(states)]
    /\ \A t \in Senders : since[t] \in 1 .. Len(states)
    /\ \A t \in Senders : Between(t) => \A f \in CopiedAt(place[t]) : copy[t][f] = key[f]
    /\ \A t \in Senders : place[t] = "copied" /\ locked[t] =>
          \E i \in since[t] .. Len(states) : copy[t] = states[i]

SafeInv == StaticTypes /\ (lock <= 1 => Exclusive /\ Whole)

LEMMA InitSafe == Static!Init => SafeInv
<1> SUFFICES ASSUME Static!Init PROVE SafeInv
  OBVIOUS
<1>1. /\ Static!Unset \in Keys /\ states = <<Static!Unset>> /\ Len(states) = 1 /\ states[1] = Static!Unset
      /\ states \in Seq(Keys)
  BY DEF Static!Init, Static!Unset, Keys, Fields
<1>2. \A t \in Callers : place[t] = "idle" /\ ~Between(t)
  BY DEF Static!Init, Static!Threads, Callers, Between, Fields, Static!Fields
<1>3. StaticTypes
  BY <1>1 DEF Static!Init, Static!Threads, StaticTypes, Callers, Places
<1>4. Exclusive
  BY <1>2 DEF Static!Init, Exclusive, Callers
<1>5. Whole
  BY <1>1, <1>2 DEF Static!Init, Whole, Callers
<1> QED
  BY <1>3, <1>4, <1>5 DEF SafeInv

\* The types; and locks are only created.
LEMMA StaticType ==
    ASSUME StaticTypes, [Static!Next]_staticVars
    PROVE  StaticTypes' /\ lock <= lock'
<1> USE DEF StaticTypes, Callers, Places, Fields, Static!Fields, Static!To, Static!Threads, Static!After
<1>1. ASSUME NEW t \in Callers, Static!Enter(t) PROVE StaticTypes' /\ lock <= lock'
  BY <1>1 DEF Static!Enter
<1>2. ASSUME NEW u \in Resetters, Static!ResetFind(u) PROVE StaticTypes' /\ lock <= lock'
  BY <1>2 DEF Static!ResetFind
<1>3. ASSUME NEW u \in Resetters, Static!ResetCreate(u) PROVE StaticTypes' /\ lock <= lock'
  BY <1>3 DEF Static!ResetCreate
<1>4. ASSUME NEW u \in Resetters, Static!ResetCopy(u) PROVE StaticTypes' /\ lock <= lock'
  <2>1. key' \in Keys
    <3>1. place[u] \in Fields /\ number[u] \in Nat
      BY <1>4 DEF Static!ResetCopy
    <3> QED
      BY <1>4, <3>1 DEF Static!ResetCopy, Keys
  <2> QED
    BY <1>4, <2>1 DEF Static!ResetCopy
<1>5. ASSUME NEW u \in Resetters, Static!ResetLeave(u) PROVE StaticTypes' /\ lock <= lock'
  <2>1. states' \in Seq(Keys) /\ states' # <<>>
    BY <1>5 DEF Static!ResetLeave
  <2> QED
    BY <1>5, <2>1 DEF Static!ResetLeave, Static!Leave
<1>6. ASSUME NEW t \in Senders, Static!GetFind(t) PROVE StaticTypes' /\ lock <= lock'
  <2>1. Len(states) \in Nat
    OBVIOUS
  <2> QED
    BY <1>6, <2>1 DEF Static!GetFind
<1>7. ASSUME NEW t \in Senders, Static!GetCopy(t) PROVE StaticTypes' /\ lock <= lock'
  <2>1. copy' \in [Senders -> Keys]
    <3>1. place[t] \in Fields /\ key[place[t]] \in Nat /\ copy[t] \in Keys
      BY <1>7 DEF Static!GetCopy, Keys
    <3>2. [copy[t] EXCEPT ![place[t]] = key[place[t]]] \in Keys
      BY <3>1 DEF Keys
    <3> QED
      BY <1>7, <3>2 DEF Static!GetCopy
  <2> QED
    BY <1>7, <2>1 DEF Static!GetCopy
<1>8. ASSUME NEW t \in Senders, Static!GetLeave(t) PROVE StaticTypes' /\ lock <= lock'
  BY <1>8 DEF Static!GetLeave, Static!Leave
<1>9. ASSUME NEW t \in Senders, Static!GetReturn(t) PROVE StaticTypes' /\ lock <= lock'
  <2>1. Static!Unset \in Keys
    BY DEF Static!Unset, Keys
  <2> QED
    BY <1>9, <2>1 DEF Static!GetReturn
<1>10. CASE UNCHANGED staticVars
  BY <1>10 DEF staticVars
<1> QED
  BY <1>1, <1>2, <1>3, <1>4, <1>5, <1>6, <1>7, <1>8, <1>9, <1>10
  DEF Static!Next, Static!ResetStep, Static!GetStep

\* CS_ENTER and CS_LEAVE, and the tests, keep the threads apart.
LEMMA StaticExclusive ==
    ASSUME StaticTypes, lock <= 1, Exclusive, [Static!Next]_staticVars, lock' <= 1
    PROVE  Exclusive'
<1> USE KindsAssumption DEF Exclusive, Between, Callers, Fields, Static!Fields, Static!Threads, Static!To
<1>1. ASSUME NEW t \in Callers, Static!Enter(t) PROVE Exclusive'
  <2>1. /\ place[t] = "enter" /\ place' = [place EXCEPT ![t] = "accessKeyId"] /\ lock = 1
        /\ \A u \in Callers : <<1, u>> \notin inside
        /\ inside' = inside \cup {<<1, t>>} /\ UNCHANGED <<lock, locked>>
    BY <1>1 DEF Static!Enter
  <2>2. /\ place'[t] = "accessKeyId" /\ \A u \in Callers \ {t} : place'[u] = place[u]
        /\ t \in Senders => locked[t]
    BY <2>1 DEF StaticTypes
  <2>3. \A u \in Callers : ~Between(u) /\ (Between(u)' <=> u = t)
    BY <2>1, <2>2
  <2>4. /\ \A u \in Callers : <<1, u>> \in inside' <=> u = t
        /\ \A pair \in inside' : pair[1] = 1 /\ lock' = 1
    BY <2>1
  <2>5. \A u \in Callers : <<1, u>> \in inside' <=> Between(u)'
    BY <2>3, <2>4
  <2>6. \A u, w \in Callers : Between(u)' /\ Between(w)' => u = w
    BY <2>3
  <2>7. \A u \in Callers : place'[u] = "enter" => lock' = 1
    BY <2>1
  <2>8. /\ \A u \in Senders : place'[u] \in {"enter", "securityToken", "leave"} => locked'[u]
        /\ \A u \in Senders : place'[u] # "create"
        /\ \A u \in Resetters : place'[u] # "copied"
    BY <2>1, <2>2
  <2> HIDE DEF Between
  <2> QED
    BY <2>4, <2>5, <2>6, <2>7, <2>8
<1>2. ASSUME NEW u \in Resetters, Static!ResetFind(u) PROVE Exclusive'
  BY <1>2 DEF Static!ResetFind, StaticTypes
<1>3. ASSUME NEW u \in Resetters, Static!ResetCreate(u) PROVE Exclusive'
  BY <1>3 DEF Static!ResetCreate, StaticTypes
<1>4. ASSUME NEW u \in Resetters, Static!ResetCopy(u) PROVE Exclusive'
  BY <1>4 DEF Static!ResetCopy, Static!After, StaticTypes
<1>5. ASSUME NEW t \in Callers, NEW to \in {"idle", "copied"}, Static!Leave(t, to),
             to = "copied" <=> t \in Senders, UNCHANGED <<lock, locked>>
      PROVE  Exclusive'
  <2>1. place[t] = "leave" /\ Between(t) /\ place' = [place EXCEPT ![t] = to] /\ lock = 1
    BY <1>5 DEF Static!Leave
  <2>2. inside' = {}
    BY <1>5, <2>1 DEF Static!Leave, StaticTypes
  <2>3. \A u \in Callers : ~Between(u)'
    BY <1>5, <2>1 DEF StaticTypes
  <2> QED
    BY <1>5, <2>1, <2>2, <2>3 DEF StaticTypes
<1>6. ASSUME NEW t \in Senders, Static!GetFind(t) PROVE Exclusive'
  <2>1. /\ UNCHANGED <<lock, inside>> /\ place[t] = "idle" /\ t \in Callers /\ lock \in {0, 1}
        /\ \A u \in Callers \ {t} : place'[u] = place[u]
        /\ \A u \in Senders \ {t} : locked'[u] = locked[u]
    BY <1>6 DEF Static!GetFind, StaticTypes
  <2>2. place'[t] = IF lock = 0 THEN "accessKeyId" ELSE "enter"
    BY <1>6, <2>1 DEF Static!GetFind, StaticTypes
  <2>3. locked'[t] <=> lock # 0
    BY <1>6 DEF Static!GetFind, StaticTypes
  <2>4. ~Between(t)' /\ ~Between(t)
    BY <2>1, <2>2, <2>3
  <2>5. \A u \in Callers : Between(u)' <=> Between(u)
    BY <2>1, <2>4
  <2> QED
    BY <2>1, <2>2, <2>3, <2>4, <2>5
<1>7. ASSUME NEW t \in Senders, Static!GetCopy(t) PROVE Exclusive'
  BY <1>7 DEF Static!GetCopy, Static!After, StaticTypes
<1>8. ASSUME NEW t \in Senders, Static!GetReturn(t) PROVE Exclusive'
  BY <1>8 DEF Static!GetReturn, StaticTypes
<1>9. CASE UNCHANGED staticVars
  BY <1>9 DEF staticVars
<1> QED
  BY <1>1, <1>2, <1>3, <1>4, <1>5, <1>6, <1>7, <1>8, <1>9
  DEF Static!Next, Static!ResetStep, Static!GetStep, Static!ResetLeave, Static!GetLeave

\* A step of a sender that is in no lock, or of a reset outside its two, leaves what
\* has been copied inside as it is.
LEMMA WholeKept ==
    ASSUME StaticTypes, StaticTypes', Whole, UNCHANGED <<key, states>>, NEW t \in Callers,
           \A u \in Callers \ {t} : place'[u] = place[u],
           \A u \in Senders \ {t} : locked'[u] = locked[u] /\ copy'[u] = copy[u] /\ since'[u] = since[u],
           t \in Resetters => (Between(t) => Between(t)'),
           t \in Senders =>
             /\ since'[t] \in 1 .. Len(states)
             /\ place'[t] # "copied" \/ ~locked'[t]
             /\ Between(t)' => \A f \in CopiedAt(place'[t]) : copy'[t][f] = key[f]
    PROVE  Whole'
<1>1. \A u \in Callers \ {t} : Between(u)' <=> Between(u)
  BY DEF Between, Callers
<1>2. (\A u \in Resetters : ~Between(u)') => key' = states'[Len(states')]
  BY <1>1 DEF Whole, Callers
<1>3. \A u \in Senders : since'[u] \in 1 .. Len(states')
  BY DEF Whole
<1>4. ASSUME NEW u \in Senders, Between(u)', NEW f \in CopiedAt(place'[u]) PROVE copy'[u][f] = key'[f]
  BY <1>1, <1>4 DEF Whole, Callers
<1>5. ASSUME NEW u \in Senders, place'[u] = "copied", locked'[u]
      PROVE  \E i \in since'[u] .. Len(states') : copy'[u] = states'[i]
  <2>1. u # t
    BY <1>5
  <2> QED
    BY <1>5, <2>1 DEF Whole, Callers
<1> QED
  BY <1>2, <1>3, <1>4, <1>5 DEF Whole, CopiedAt

\* Copies are whole, because nothing is reset while they are made.
LEMMA StaticWhole ==
    ASSUME StaticTypes, StaticTypes', lock <= 1, Exclusive, Exclusive', Whole,
           [Static!Next]_staticVars, lock' <= 1
    PROVE  Whole'
<1> USE KindsAssumption DEF Callers, Fields, Static!Fields, Static!Threads, Static!To
<1>1. ASSUME NEW t \in Callers, Static!Enter(t) PROVE Whole'
  <2>1. CopiedAt("accessKeyId") = {}
    BY DEF CopiedAt
  <2> QED
    BY <1>1, <2>1, WholeKept DEF Static!Enter, StaticTypes, Whole, Between
<1>2. ASSUME NEW u \in Resetters, Static!ResetFind(u) \/ Static!ResetCreate(u) PROVE Whole'
  <2>1. /\ UNCHANGED <<key, states, copy, locked, since>> /\ place[u] \in {"idle", "create"}
        /\ \A t \in Callers \ {u} : place'[t] = place[t]
    BY <1>2 DEF Static!ResetFind, Static!ResetCreate, StaticTypes
  <2>2. ~Between(u) /\ u \notin Senders
    BY <2>1 DEF Between
  <2> QED
    BY <2>1, <2>2, WholeKept
<1>3. ASSUME NEW u \in Resetters, Static!ResetCopy(u) PROVE Whole'
  <2>1. /\ Between(u) /\ Between(u)' /\ UNCHANGED <<states, since, locked, copy>>
        /\ \A t \in Callers \ {u} : place'[t] = place[t]
    BY <1>3 DEF Static!ResetCopy, Static!After, StaticTypes, Between
  <2>2. \A t \in Senders : ~Between(t) /\ ~Between(t)'
    BY <2>1 DEF Exclusive
  <2> QED
    BY <2>1, <2>2 DEF Whole
<1>4. ASSUME NEW u \in Resetters, Static!ResetLeave(u) PROVE Whole'
  <2>1. /\ Between(u) /\ UNCHANGED <<key, since, locked, copy>> /\ place' = [place EXCEPT ![u] = "idle"]
        /\ states' = Append(states, key)
    BY <1>4 DEF Static!ResetLeave, Static!Leave, Between
  <2>2. \A t \in Senders : ~Between(t) /\ ~Between(t)' /\ place'[t] = place[t]
    BY <2>1 DEF Exclusive, StaticTypes, Between
  <2>3. /\ Len(states') = Len(states) + 1 /\ states'[Len(states) + 1] = key /\ Len(states) \in Nat
        /\ \A i \in 1 .. Len(states) : states'[i] = states[i]
    BY <2>1, AppendProperties, LenProperties DEF StaticTypes
  <2>4. ASSUME NEW t \in Senders, place'[t] = "copied", locked'[t]
        PROVE  \E i \in since'[t] .. Len(states') : copy'[t] = states'[i]
    <3>1. PICK i \in since[t] .. Len(states) : copy[t] = states[i]
      BY <2>1, <2>2, <2>4 DEF Whole
    <3>2. i \in 1 .. Len(states) /\ i \in since[t] .. Len(states) + 1
      BY <2>3 DEF Whole
    <3> QED
      BY <2>1, <2>3, <3>1, <3>2
  <2> QED
    BY <2>1, <2>2, <2>3, <2>4 DEF Whole
<1>5. ASSUME NEW t \in Senders, Static!GetFind(t) PROVE Whole'
  <2>1. /\ UNCHANGED <<key, states, copy>> /\ since' = [since EXCEPT ![t] = Len(states)]
        /\ place'[t] \in {"accessKeyId", "enter"} /\ Len(states) \in 1 .. Len(states)
    BY <1>5, EmptySeq, LenProperties DEF Static!GetFind, StaticTypes
  <2>2. CopiedAt(place'[t]) = {}
    BY <2>1 DEF CopiedAt
  <2>3. /\ \A u \in Callers \ {t} : place'[u] = place[u]
        /\ \A u \in Senders \ {t} : locked'[u] = locked[u] /\ since'[u] = since[u]
    BY <1>5 DEF Static!GetFind, StaticTypes
  <2> QED
    BY <2>1, <2>2, <2>3, WholeKept DEF StaticTypes
<1>6. ASSUME NEW t \in Senders, Static!GetCopy(t) PROVE Whole'
  <2>1. /\ UNCHANGED <<key, states, since, locked>> /\ place[t] \in Fields
        /\ copy' = [copy EXCEPT ![t] = [copy[t] EXCEPT ![place[t]] = key[place[t]]]]
        /\ place' = [place EXCEPT ![t] = IF place[t] = "accessKey" /\ ~locked[t] THEN "copied"
                                         ELSE Static!After(place[t])]
    BY <1>6 DEF Static!GetCopy
  <2>2. Between(t)' => Between(t)
    BY <2>1 DEF Between
  <2>3. ASSUME Between(t)', NEW f \in CopiedAt(place'[t]) PROVE copy'[t][f] = key[f]
    <3>1. locked[t] /\ place'[t] = Static!After(place[t]) /\ copy[t] \in Keys
      BY <2>1, <2>3 DEF Between, StaticTypes
    <3>2. f = place[t] \/ f \in CopiedAt(place[t])
      BY <2>1, <2>3, <3>1 DEF CopiedAt, Static!After
    <3>3. f \in Fields
      BY <2>3 DEF CopiedAt
    <3>4. copy'[t] = [copy[t] EXCEPT ![place[t]] = key[place[t]]] /\ copy[t] \in [Fields -> Nat]
      BY <2>1, <3>1 DEF StaticTypes, Keys
    <3>5. CASE f = place[t]
      BY <2>1, <3>4, <3>5
    <3>6. CASE f # place[t]
      <4>1. copy[t][f] = key[f]
        BY <2>2, <2>3, <3>2, <3>6 DEF Whole
      <4> QED
        BY <2>1, <3>3, <3>4, <3>6, <4>1
    <3> QED
      BY <3>5, <3>6
  <2>4. place'[t] # "copied" \/ ~locked'[t]
    BY <2>1 DEF StaticTypes, Static!After
  <2>5. since'[t] \in 1 .. Len(states)
    BY <2>1 DEF Whole
  <2>6. /\ \A u \in Callers \ {t} : place'[u] = place[u]
        /\ \A u \in Senders \ {t} : copy'[u] = copy[u]
    BY <2>1 DEF StaticTypes
  <2> QED
    BY <2>1, <2>3, <2>4, <2>5, <2>6, WholeKept
<1>7. ASSUME NEW t \in Senders, Static!GetLeave(t) PROVE Whole'
  <2>1. /\ place[t] = "leave" /\ Between(t) /\ UNCHANGED <<key, states, since, locked, copy>>
        /\ place' = [place EXCEPT ![t] = "copied"]
    BY <1>7 DEF Static!GetLeave, Static!Leave, Exclusive, Between
  <2>2. key = states[Len(states)]
    BY <2>1 DEF Exclusive, Whole
  <2>3. copy[t] = key
    <3>1. \A f \in Fields : copy[t][f] = key[f]
      BY <2>1 DEF Whole, CopiedAt
    <3>2. copy[t] \in [Fields -> Nat] /\ key \in [Fields -> Nat]
      BY DEF StaticTypes, Keys
    <3>3. \A x, y \in [Fields -> Nat] : (\A f \in Fields : x[f] = y[f]) => x = y
      OBVIOUS
    <3> QED
      BY <3>1, <3>2, <3>3
  <2>4. \A u \in Callers \ {t} : ~Between(u) /\ ~Between(u)' /\ place'[u] = place[u]
    BY <2>1 DEF Exclusive, StaticTypes, Between
  <2>5. ~Between(t)'
    BY <2>1 DEF StaticTypes, Between
  <2>6. since[t] \in 1 .. Len(states) /\ Len(states) \in since[t] .. Len(states)
    BY LenProperties DEF Whole, StaticTypes
  <2>7. ASSUME NEW u \in Senders, place'[u] = "copied", locked'[u]
        PROVE  \E i \in since'[u] .. Len(states') : copy'[u] = states'[i]
    <3>1. CASE u = t
      BY <2>1, <2>2, <2>3, <2>6, <3>1
    <3>2. CASE u # t
      BY <2>1, <2>4, <2>7, <3>2 DEF Whole
    <3> QED
      BY <3>1, <3>2
  <2> QED
    BY <2>1, <2>2, <2>4, <2>5, <2>7 DEF Whole
<1>8. ASSUME NEW t \in Senders, Static!GetReturn(t) PROVE Whole'
  <2>1. /\ UNCHANGED <<key, states>> /\ place'[t] = "idle" /\ since'[t] = 1 /\ 1 \in 1 .. Len(states)
        /\ \A u \in Callers \ {t} : place'[u] = place[u]
        /\ \A u \in Senders \ {t} : locked'[u] = locked[u] /\ copy'[u] = copy[u] /\ since'[u] = since[u]
    BY <1>8, EmptySeq, LenProperties DEF Static!GetReturn, StaticTypes
  <2>2. ~Between(t)'
    BY <2>1 DEF Between
  <2> QED
    BY <2>1, <2>2, WholeKept
<1>9. CASE UNCHANGED staticVars
  BY <1>9 DEF staticVars, Whole, Between
<1> QED
  BY <1>1, <1>2, <1>3, <1>4, <1>5, <1>6, <1>7, <1>8, <1>9
  DEF Static!Next, Static!ResetStep, Static!GetStep

LEMMA NextSafe == SafeInv /\ [Static!Next]_staticVars => SafeInv'
<1> SUFFICES ASSUME SafeInv, [Static!Next]_staticVars PROVE SafeInv'
  OBVIOUS
<1>1. StaticTypes /\ StaticTypes' /\ lock <= lock'
  BY StaticType DEF SafeInv
<1>2. lock' <= 1 => lock <= 1
  BY <1>1 DEF StaticTypes
<1> QED
  BY <1>1, <1>2, StaticExclusive, StaticWhole DEF SafeInv

\* A producer fetches credentials, or copies static keys, and does not do the other.
LEMMA SigningSteps ==
    /\ SigningInit => Init /\ Static!Init
    /\ [SigningNext]_<<vars, callback, staticVars>> => [Next]_vars /\ [Static!Next]_staticVars
<1>1. SigningInit => Init /\ Static!Init
  BY DEF SigningInit
<1>2. ASSUME [SigningNext]_<<vars, callback, staticVars>> PROVE [Next]_vars /\ [Static!Next]_staticVars
  BY <1>2 DEF SigningNext
<1> QED
  BY <1>1, <1>2

\* What is proved of Credentials holds of the producers that sign.
LEMMA SigningFetches == SigningSpec => Spec
  BY SigningSteps, PTL DEF SigningSpec, Spec

\* "Thread safe": while one lock at most has been created, a sender that has found it
\* copies the three keys as one reset left them, and the lock is held only by a thread
\* that is between CS_ENTER and CS_LEAVE.
THEOREM KeysCopiedWhole == SigningSpec => []ThreadSafe
<1>1. SafeInv => ThreadSafe
  <2> SUFFICES ASSUME SafeInv, lock <= 1
               PROVE  /\ \A t \in Senders : place[t] = "copied" /\ locked[t] =>
                            \E i \in since[t] .. Len(states) : copy[t] = states[i]
                      /\ \A pair \in inside : place[pair[2]] \in Fields \cup {"leave"}
    BY DEF ThreadSafe, Static!ThreadSafe, Fields
  <2>1. ASSUME NEW pair \in inside PROVE place[pair[2]] \in Fields \cup {"leave"}
    <3>1. pair \in Nat \X Callers /\ pair[1] = 1
      BY DEF SafeInv, StaticTypes, Exclusive
    <3>2. pair[2] \in Callers /\ pair = <<1, pair[2]>>
      BY <3>1
    <3> QED
      BY <3>2 DEF SafeInv, Exclusive, Between
  <2> QED
    BY <2>1 DEF SafeInv, Whole
<1> QED
  BY <1>1, InitSafe, NextSafe, SigningSteps, PTL DEF SigningSpec
=============================================================================
