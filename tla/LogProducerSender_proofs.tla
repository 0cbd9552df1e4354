----------------------- MODULE LogProducerSender_proofs -----------------------
(***************************************************************************)
(* Proofs about LogProducerSender, for any number of senders and whatever  *)
(* the base and the maximum of each back-off are.                          *)
(***************************************************************************)
EXTENDS LogProducerSender, TLAPS

\* last_sleep_ms belongs to last_send_error at every moment, not only asleep.
Within(t) ==
    /\ err[t] = "time" => nap[t] = InvalidTime
    /\ err[t] \in {"quota", "network"} => nap[t] >= Base(err[t]) /\ nap[t] < 2 * Limit(err[t])

IInv ==
    /\ TypeOK
    /\ \A t \in Senders : Within(t) /\ (pc[t] = "sleep" => err[t] # "none")

\* The results that are retried, and the errors they are kept as.
LEMMA RetriedErrors == \A r \in Retried : ErrorOf(r) \in {"time", "quota", "network"}
BY DEF Retried, ErrorOf

\* The next sleep after any error is within the bounds of this error, if the last one
\* was within those of its own.
LEMMA NextNapWithin ==
    ASSUME NEW t \in Senders, TypeOK, Within(t), NEW e \in {"time", "quota", "network"}
    PROVE  /\ NextNap(t, e) \in Nat
           /\ e = "time" => NextNap(t, e) = InvalidTime
           /\ e # "time" => NextNap(t, e) >= Base(e) /\ NextNap(t, e) < 2 * Limit(e)
<1>1. nap[t] \in Nat  BY DEF TypeOK
<1>2. CASE err[t] # e
  BY <1>2, SleepAssumption DEF SleepAssumption, NextNap, Base, Limit
<1>3. CASE err[t] = e
  BY <1>1, <1>3, SleepAssumption DEF SleepAssumption, NextNap, Base, Limit, Within
<1> QED  BY <1>2, <1>3

LEMMA InitIInv == Init => IInv
<1> SUFFICES ASSUME Init PROVE IInv
  OBVIOUS
<1>1. \A t \in Senders : err[t] = "none" /\ pc[t] = "idle"
  BY DEF Init
<1>2. TypeOK
  BY DEF Init, TypeOK
<1> QED  BY <1>1, <1>2 DEF IInv, Within

\* Only a failure changes a sleep and its error, and then both.
LEMMA FailIInv ==
    ASSUME IInv, NEW u \in Senders, NEW r \in Retried, Fail(u, r)
    PROVE  IInv'
<1> DEFINE e == ErrorOf(r)
<1>1. e \in {"time", "quota", "network"}
  BY RetriedErrors
<1>2. /\ NextNap(u, e) \in Nat
      /\ e = "time" => NextNap(u, e) = InvalidTime
      /\ e # "time" => NextNap(u, e) >= Base(e) /\ NextNap(u, e) < 2 * Limit(e)
  BY <1>1, NextNapWithin DEF IInv
<1>3. /\ err' = [err EXCEPT ![u] = e] /\ nap' = [nap EXCEPT ![u] = NextNap(u, e)]
      /\ pc' = [pc EXCEPT ![u] = "sleep"] /\ UNCHANGED <<shutdown, recover, rebuilt>>
  BY DEF Fail, Goto
<1> HIDE DEF e
<1>4. TypeOK'
  BY <1>1, <1>2, <1>3 DEF IInv, TypeOK
<1>5. ASSUME NEW t \in Senders PROVE Within(t)' /\ (pc'[t] = "sleep" => err'[t] # "none")
  <2>1. CASE t = u
    <3>1. err'[t] = e /\ nap'[t] = NextNap(u, e)
      BY <1>3, <2>1 DEF IInv, TypeOK
    <3> QED  BY <1>1, <1>2, <3>1 DEF Within, Base, Limit
  <2>2. CASE t # u
    <3>1. err'[t] = err[t] /\ nap'[t] = nap[t] /\ pc'[t] = pc[t]
      BY <1>3, <2>2 DEF IInv, TypeOK
    <3> QED  BY <3>1 DEF IInv, Within, Base, Limit
  <2> QED  BY <2>1, <2>2
<1> QED  BY <1>4, <1>5 DEF IInv

\* Every step preserves the inductive invariant.
LEMMA NextIInv == IInv /\ [Next]_vars => IInv'
<1> SUFFICES ASSUME IInv, [Next]_vars PROVE IInv'
  OBVIOUS
<1> USE DEF IInv, TypeOK, Within, Goto
<1>1. ASSUME NEW u \in Senders, Loop(u) PROVE IInv'
  BY <1>1 DEF Loop
<1>2. ASSUME NEW u \in Senders, Pop(u) PROVE IInv'
  BY <1>2 DEF Pop
<1>3. ASSUME NEW u \in Senders, Exit(u) PROVE IInv'
  BY <1>3 DEF Exit, Return
<1>4. ASSUME NEW u \in Senders, Rebuild(u) PROVE IInv'
  BY <1>4, Lz4Assumption DEF Lz4Assumption, Rebuild
<1>5. ASSUME NEW u \in Senders, SendEnds(u) PROVE IInv'
  BY <1>5 DEF SendEnds, Return
<1>6. ASSUME NEW u \in Senders, SendFailed(u) PROVE IInv'
  BY <1>6, FailIInv DEF SendFailed
<1>7. ASSUME NEW u \in Senders, Awake(u) PROVE IInv'
  BY <1>7 DEF Awake
<1>8. CASE NetworkRecover \/ Shutdown \/ UNCHANGED vars
  BY <1>8 DEF NetworkRecover, Shutdown, vars
<1> QED  BY <1>1, <1>2, <1>3, <1>4, <1>5, <1>6, <1>7, <1>8
            DEF Next, SenderStep, WakeEarly, SleepOver, Ended

LEMMA AlwaysIInv == Spec => []IInv
BY InitIInv, NextIInv, PTL DEF Spec

\* The types of the variables: last_send_error is only ever one of three errors.
THEOREM TypeCorrect == Spec => []TypeOK
<1>1. IInv => TypeOK  BY DEF IInv
<1> QED  BY <1>1, AlwaysIInv, PTL

\* No mixture of errors makes a sleep shorter than the base of the last error, or as long
\* as twice its maximum.
THEOREM BackOffBounded == Spec => []BackOff
<1>1. ASSUME IInv, NEW t \in Senders, pc[t] = "sleep"
      PROVE  /\ nap[t] >= Base(err[t])
             /\ err[t] = "time" => nap[t] = InvalidTime
             /\ err[t] # "time" => nap[t] < 2 * Limit(err[t])
  <2>1. err[t] \in {"time", "quota", "network"} /\ Within(t)
    BY <1>1 DEF IInv, TypeOK
  <2>2. CASE err[t] = "time"
    BY <2>1, <2>2, SleepAssumption DEF SleepAssumption, Within, Base
  <2>3. CASE err[t] # "time"
    BY <2>1, <2>3 DEF Within
  <2> QED  BY <2>2, <2>3
<1>2. IInv => BackOff  BY <1>1 DEF BackOff
<1> QED  BY <1>2, AlwaysIInv, PTL
=============================================================================
