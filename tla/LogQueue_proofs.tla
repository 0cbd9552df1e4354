-------------------------- MODULE LogQueue_proofs --------------------------
(***************************************************************************)
(* Proofs about LogQueue: the ring keeps its items, and implements the     *)
(* bounded FIFO of module BoundedFifo.                                     *)
(***************************************************************************)
EXTENDS LogQueue, QueueLemmas, SequenceTheorems, FiniteSetTheorems, TLAPS

\* The representation of a step's queue, of which every proof below makes use.
LEMMA SlotRange ==
    ASSUME NEW a \in Nat
    PROVE  a % Size \in 0 .. Size - 1
  BY SizeAssumption

-----------------------------------------------------------------------------
(***************************************************************************)
(* The invariant.                                                          *)
(***************************************************************************)
Inv == TypeOK /\ RingOK

\* Each slot between head and tail, without the first.
LEMMA SlotItem ==
    ASSUME Inv, NEW k \in Nat, head <= k, k < tail
    PROVE  data[k % Size] \in Items
<1>1. k - head + 1 \in 1 .. Length
  BY DEF Inv, TypeOK, Length
<1>2. Contents[k - head + 1] = data[(head + (k - head + 1) - 1) % Size]
  BY <1>1 DEF Contents
<1>3. head + (k - head + 1) - 1 = k
  BY DEF Inv, TypeOK
<1> QED
  BY <1>1, <1>2, <1>3 DEF Inv, RingOK

\* A step that leaves the ring alone keeps its contents.
LEMMA SameRing ==
    ASSUME UNCHANGED <<data, head, tail>>
    PROVE  Contents' = Contents /\ Length' = Length /\ (RingOK => RingOK')
  BY DEF Contents, Length, RingOK

\* The initial ring is empty.
LEMMA InitInv == Init => Inv
  BY SizeAssumption DEF Init, Inv, TypeOK, RingOK, Length, PCs

\* A push into a ring that is not full keeps the invariant.
LEMMA PushInv ==
    ASSUME Inv, NEW t \in Threads, NEW v \in Items, Push(t, v)
    PROVE  Inv'
<1> USE DEF Inv
<1>1. TypeOK'
  <2>1. tail % Size \in 0 .. Size - 1
    BY SlotRange DEF TypeOK
  <2> QED
    BY <2>1, SizeAssumption DEF TypeOK, Push, At, Answer, PCs
<1>2. RingOK'
  <2> SUFFICES ASSUME NEW i \in 1 .. Length' PROVE Contents'[i] \in Items
    BY DEF RingOK
  <2> DEFINE k == head + i - 1
  <2>1. k \in Nat /\ head <= k /\ k <= tail /\ tail - k < Size
    BY SizeAssumption DEF Push, TypeOK, Length
  <2>2. Contents'[i] = data'[k % Size]
    BY DEF Contents, Push
  <2>3. CASE k = tail
    BY <2>2, <2>3, SlotRange DEF Push, TypeOK
  <2>4. CASE k < tail
    <3>1. k % Size # tail % Size
      BY <2>1, <2>4, ModDistinct, SizeAssumption DEF TypeOK
    <3>2. data[k % Size] \in Items
      BY <2>1, <2>4, SlotItem
    <3> QED
      BY <2>1, <2>2, <3>1, <3>2, SlotRange DEF Push, TypeOK
  <2> QED
    BY <2>1, <2>3, <2>4 DEF TypeOK
<1> QED
  BY <1>1, <1>2

\* Taking the first item, or finding none.
LEMMA TakeInv ==
    ASSUME Inv, NEW t \in Threads, TakeFirst(t),
           pc' \in [Threads -> PCs]
    PROVE  Inv'
<1> USE DEF Inv
<1>1. CASE tail > head
  <2>1. data[head % Size] \in Items
    BY <1>1, SlotItem DEF TypeOK
  <2>2. TypeOK'
    <3>1. /\ data' = data /\ tail' = tail /\ head' = head + 1
          /\ result' = [result EXCEPT ![t] = data[head % Size]]
      BY <1>1 DEF TakeFirst, Answer
    <3>2. result' \in [Threads -> Items \cup {Null, Ok, Full}]
      BY <2>1, <3>1 DEF TypeOK
    <3>3. tail' - head' \in 0 .. Size
      BY <1>1, <3>1, SizeAssumption DEF TypeOK
    <3> QED
      BY <3>1, <3>2, <3>3 DEF TypeOK
  <2>3. ASSUME NEW i \in 1 .. Length' PROVE Contents'[i] \in Items
    <3>1. /\ head + i \in Nat /\ head <= head + i /\ head + i < tail
          /\ (head + 1) + i - 1 = head + i
      BY <1>1, <2>3 DEF TypeOK, TakeFirst, Length
    <3>2. Contents'[i] = data[(head + i) % Size]
      BY <1>1, <2>3, <3>1 DEF Contents, TakeFirst
    <3> QED
      BY <3>1, <3>2, SlotItem
  <2> QED
    BY <2>2, <2>3 DEF RingOK
<1>2. CASE ~(tail > head)
  <2>1. UNCHANGED <<data, head, tail>> /\ Answer(t, Null)
    BY <1>2 DEF TakeFirst
  <2>2. TypeOK'
    BY <2>1 DEF TypeOK, Answer
  <2> QED
    BY <2>1, <2>2, SameRing
<1> QED
  BY <1>1, <1>2

\* Every step keeps the invariant.
LEMMA NextInv == Inv /\ [Next]_vars => Inv'
<1> SUFFICES ASSUME Inv, [Next]_vars PROVE Inv'
  OBVIOUS
<1> USE DEF Inv
<1>1. ASSUME NEW t \in Threads, PushFull(t) PROVE Inv'
  BY <1>1, SameRing DEF PushFull, At, Answer, TypeOK, PCs
<1>2. ASSUME NEW t \in Threads, NEW v \in Items, Push(t, v) PROVE Inv'
  BY <1>2, PushInv
<1>3. ASSUME NEW t \in Threads, Signal(t) PROVE Inv'
  <2>1. pc' \in [Threads -> PCs]
    BY <1>3 DEF Signal, Waiters, TypeOK, PCs
  <2> QED
    BY <1>3, <2>1, SameRing DEF Signal, TypeOK
<1>4. ASSUME NEW t \in Threads, TryPop(t) \/ Pop(t) \/ PopResume(t) PROVE Inv'
  <2>1. TakeFirst(t) /\ pc' \in [Threads -> PCs]
    BY <1>4 DEF TryPop, Pop, PopResume, At, TypeOK, PCs
  <2> QED
    BY <2>1, TakeInv
<1>5. ASSUME NEW t \in Threads, PopWait(t) PROVE Inv'
  <2>1. pc' \in [Threads -> PCs]
    BY <1>5 DEF PopWait, At, TypeOK, PCs
  <2> QED
    BY <1>5, <2>1, SameRing DEF PopWait, TypeOK
<1>6. CASE UNCHANGED vars
  BY <1>6, SameRing DEF vars, TypeOK
<1> QED
  BY <1>1, <1>2, <1>3, <1>4, <1>5, <1>6 DEF Next

\* log_queue.c keeps the types of its fields and its ring within its bounds.
THEOREM TypeCorrect == Spec => []TypeOK
<1>1. Spec => []Inv
  BY InitInv, NextInv, PTL DEF Spec
<1> QED
  BY <1>1, PTL DEF Inv

\* Whatever the threads do, each slot that a pop may read holds a pushed item.
THEOREM RingCorrect == Spec => []RingOK
<1>1. Spec => []Inv
  BY InitInv, NextInv, PTL DEF Spec
<1> QED
  BY <1>1, PTL DEF Inv

-----------------------------------------------------------------------------
(***************************************************************************)
(* Refinement: Contents is the queue of BoundedFifo.                       *)
(***************************************************************************)
\* A function on 1 .. n is a sequence of length n.
LEMMA FunctionSeq ==
    ASSUME NEW S, NEW n \in Nat, NEW f \in [1 .. n -> S]
    PROVE  f \in Seq(S) /\ Len(f) = n
<1>1. f \in Seq(S)
  BY SeqDef
<1>2. DOMAIN f = 1 .. n /\ Len(f) \in Nat /\ DOMAIN f = 1 .. Len(f)
  BY <1>1, LenProperties
<1> QED
  BY <1>1, <1>2

\* The contents are a sequence of items as long as the queue.
LEMMA ContentsSeq ==
    ASSUME Inv
    PROVE  Contents \in Seq(Items) /\ Len(Contents) = Length /\ Length \in Nat
<1>1. Length \in Nat
  BY SizeAssumption DEF Inv, TypeOK, Length
<1>2. Contents \in [1 .. Length -> Items]
  BY DEF Inv, RingOK, Contents
<1> QED
  BY <1>1, <1>2, FunctionSeq

\* The same of the next state.
LEMMA ContentsSeqNext ==
    ASSUME Inv'
    PROVE  Contents' \in Seq(Items) /\ Len(Contents') = Length' /\ Length' \in Nat
<1>1. Length' \in 0 .. Size
  BY DEF Inv, TypeOK, Length
<1>2. Length' \in Nat
  BY <1>1, SizeAssumption
<1>3. Contents' \in [1 .. Length' -> Items]
  BY DEF Inv, RingOK, Contents
<1> QED
  BY <1>2, <1>3, FunctionSeq

\* A push appends its item.
LEMMA PushAppends ==
    ASSUME Inv, Inv', NEW t \in Threads, NEW v \in Items, Push(t, v)
    PROVE  Contents' = Append(Contents, v)
<1>1. Length' = Length + 1 /\ Length \in Nat
  BY DEF Push, Length, Inv, TypeOK
<1>2. /\ Contents \in Seq(Items) /\ Len(Contents) = Length
      /\ Contents' \in Seq(Items) /\ Len(Contents') = Length'
  BY ContentsSeq, ContentsSeqNext
<1>3. /\ Append(Contents, v) \in Seq(Items)
      /\ Len(Append(Contents, v)) = Length + 1
      /\ \A i \in 1 .. Length : Append(Contents, v)[i] = Contents[i]
      /\ Append(Contents, v)[Length + 1] = v
  <2> QED
    BY <1>1, <1>2, AppendProperties
<1>4. ASSUME NEW i \in 1 .. Length PROVE Contents'[i] = Contents[i]
  <2> DEFINE k == head + i - 1
  <2>1. k \in Nat /\ k < tail /\ tail - k < Size
    BY SizeAssumption DEF Push, Inv, TypeOK, Length
  <2>2. k % Size # tail % Size
    BY <2>1, ModDistinct, SizeAssumption DEF Inv, TypeOK
  <2>3. data'[k % Size] = data[k % Size]
    BY <2>1, <2>2, SlotRange DEF Push, Inv, TypeOK
  <2>4. i \in 1 .. Length'
    BY <1>1
  <2> QED
    BY <2>3, <2>4 DEF Contents, Push
<1>5. Contents'[Length + 1] = v
  <2>1. head + (Length + 1) - 1 = tail
    BY DEF Length, Inv, TypeOK
  <2>3. Length + 1 \in 1 .. Length'
    BY <1>1
  <2>2. Contents'[Length + 1] = data'[tail % Size]
    BY <2>1, <2>3 DEF Contents, Push
  <2> QED
    BY <2>2, SlotRange DEF Push, Inv, TypeOK
<1>6. \A i \in 1 .. Length + 1 : Contents'[i] = Append(Contents, v)[i]
  BY <1>1, <1>3, <1>4, <1>5
<1> HIDE DEF Inv
<1> QED
  BY <1>1, <1>2, <1>3, <1>6, SeqEqual

\* Taking an item removes the head of the contents, and returns it; taking from
\* an empty ring returns NULL.
LEMMA TakeRemoves ==
    ASSUME Inv, Inv', NEW t \in Threads, TakeFirst(t)
    PROVE  Fifo!Pop(t) \/ Fifo!PopEmpty(t)
<1>1. Contents \in Seq(Items) /\ Len(Contents) = Length /\ Length \in Nat
  BY ContentsSeq
<1>2. CASE tail > head
  <2>1. Length > 0 /\ Length' = Length - 1
    BY <1>2 DEF Length, TakeFirst, Inv, TypeOK
  <2>2. Contents # <<>> /\ Head(Contents) = data[head % Size]
    <3>1. Contents[1] = data[head % Size]
      BY <1>1, <2>1 DEF Contents, Inv, TypeOK
    <3>2. Contents # <<>> /\ Head(Contents) = Contents[1]
      BY <1>1, <2>1, EmptySeq
    <3> QED
      BY <3>1, <3>2
  <2>3. Contents' = Tail(Contents)
    <3>1. /\ Tail(Contents) \in Seq(Items) /\ Len(Tail(Contents)) = Length - 1
          /\ \A i \in 1 .. Length - 1 : Tail(Contents)[i] = Contents[i + 1]
      BY <1>1, <2>1, <2>2, HeadTailProperties
    <3>2. ASSUME NEW i \in 1 .. Length - 1 PROVE Contents'[i] = Contents[i + 1]
      <4>1. i \in 1 .. Length' /\ i + 1 \in 1 .. Length
        BY <1>1, <2>1
      <4>2. (head + 1) + i - 1 = head + (i + 1) - 1
        BY DEF Inv, TypeOK
      <4> QED
        BY <1>2, <4>1, <4>2 DEF Contents, TakeFirst
    <3>3. Contents' \in Seq(Items) /\ Len(Contents') = Length'
      BY ContentsSeqNext
    <3>4. \A i \in 1 .. Length - 1 : Contents'[i] = Tail(Contents)[i]
      BY <3>1, <3>2
    <3> QED
      BY <1>1, <2>1, <3>1, <3>3, <3>4, SeqEqual
  <2> QED
    BY <1>2, <2>2, <2>3 DEF TakeFirst, Answer, Fifo!Pop, Fifo!Answer
<1>3. CASE ~(tail > head)
  <2>1. Contents = <<>>
    BY <1>1, <1>3 DEF Length, Inv, TypeOK
  <2>2. Contents' = Contents /\ Answer(t, Null)
    BY <1>3, SameRing DEF TakeFirst
  <2> QED
    BY <2>1, <2>2 DEF Answer, Fifo!PopEmpty, Fifo!Answer
<1> QED
  BY <1>2, <1>3

\* Every step of the ring is a step of the FIFO or leaves it alone.
LEMMA NextRefines ==
    ASSUME Inv, Inv', [Next]_vars
    PROVE  [Fifo!Next]_<<Contents, result>>
<1>1. ASSUME NEW t \in Threads, PushFull(t) PROVE Fifo!PushFull(t)
  <2>1. Len(Contents) = Size /\ Contents' = Contents
    BY <1>1, ContentsSeq, SameRing DEF PushFull, Length
  <2> QED
    BY <1>1, <2>1 DEF PushFull, Answer, Fifo!PushFull, Fifo!Answer
<1>2. ASSUME NEW t \in Threads, NEW v \in Items, Push(t, v) PROVE Fifo!Push(t, v)
  <2>1. Len(Contents) < Size
    <3>1. Length < Size
      BY <1>2, SizeAssumption DEF Push, Length, Inv, TypeOK
    <3> QED
      BY <3>1, ContentsSeq
  <2> QED
    BY <1>2, <2>1, PushAppends DEF Push, Answer, Fifo!Push, Fifo!Answer
<1>3. ASSUME NEW t \in Threads, TryPop(t) \/ Pop(t) \/ PopResume(t)
      PROVE  Fifo!Pop(t) \/ Fifo!PopEmpty(t)
  BY <1>3, TakeRemoves DEF TryPop, Pop, PopResume
<1>4. ASSUME NEW t \in Threads, Signal(t) \/ PopWait(t)
      PROVE  UNCHANGED <<Contents, result>>
  BY <1>4, SameRing DEF Signal, PopWait
<1>5. CASE UNCHANGED vars
  BY <1>5, SameRing DEF vars
<1> QED
  BY <1>1, <1>2, <1>3, <1>4, <1>5 DEF Next, Fifo!Next

\* log_queue.c implements the bounded FIFO: its threads observe pushes and pops
\* as if each call were one step of one queue, whatever the ring's size.
THEOREM ImplementsFifo == Spec => FifoSpec
<1>1. Init => Fifo!Init
  <2> SUFFICES ASSUME Init PROVE Fifo!Init
    OBVIOUS
  <2>1. Inv /\ Length = 0
    BY InitInv DEF Init, Length
  <2>2. Contents = <<>>
    <3>1. Contents \in Seq(Items) /\ Len(Contents) = 0
      BY <2>1, ContentsSeq
    <3> QED
      BY <3>1, EmptySeq
  <2> QED
    BY <2>2 DEF Init, Fifo!Init
<1>2. Inv /\ Inv' /\ [Next]_vars => [Fifo!Next]_<<Contents, result>>
  BY NextRefines
<1>3. Spec => []Inv
  BY InitInv, NextInv, PTL DEF Spec
<1> QED
  BY <1>1, <1>2, <1>3, PTL DEF Spec, FifoSpec, Fifo!Spec
-----------------------------------------------------------------------------
(***************************************************************************)
(* The condition variable: signals owed cover the items that wait.         *)
(***************************************************************************)
Owing == {"signal", "woken"}
Owed == {t \in Threads : pc[t] \in Owing}

\* The threads that owe a look at the queue can be counted.
LEMMA OwedFinite == IsFiniteSet(Owed) /\ Cardinality(Owed) \in Nat
<1>1. Owed \subseteq Threads
  BY DEF Owed
<1> QED
  BY <1>1, ThreadsAssumption, FS_Subset, FS_CardinalityType

\* How a step of one thread changes the number of threads that owe a wakeup.
LEMMA OwedStep ==
    ASSUME Inv, NEW t \in Threads, NEW to \in PCs, pc' = [pc EXCEPT ![t] = to]
    PROVE  /\ Cardinality(Owed') \in Nat
           /\ to \in Owing /\ pc[t] \notin Owing => Cardinality(Owed') = Cardinality(Owed) + 1
           /\ to \notin Owing /\ pc[t] \in Owing => Cardinality(Owed') = Cardinality(Owed) - 1
           /\ (to \in Owing <=> pc[t] \in Owing) => Cardinality(Owed') = Cardinality(Owed)
<1> DEFINE A == to \in Owing  B == t \in Owed
<1>1. B <=> pc[t] \in Owing
  BY DEF Owed
<1>2. Owed' = IF A THEN Owed \cup {t} ELSE Owed \ {t}
  BY DEF Owed, Inv, TypeOK
<1>3. /\ Cardinality(Owed \cup {t}) = IF B THEN Cardinality(Owed) ELSE Cardinality(Owed) + 1
      /\ Cardinality(Owed \ {t}) = IF B THEN Cardinality(Owed) - 1 ELSE Cardinality(Owed)
  BY OwedFinite, FS_AddElement, FS_RemoveElement
<1>4. Cardinality(Owed') \in Nat
  <2>1. IsFiniteSet(Owed')
    BY <1>2, OwedFinite, FS_AddElement, FS_RemoveElement
  <2> QED
    BY <2>1, FS_CardinalityType
<1> QED
  BY <1>1, <1>2, <1>3, <1>4, OwedFinite

\* Taking the first item makes the queue shorter, or finds it empty.
LEMMA TakeLength ==
    ASSUME Inv, NEW t \in Threads, TakeFirst(t)
    PROVE  /\ Length > 0 => Length' = Length - 1
           /\ Length = 0 => Length' = 0
           /\ Length \in Nat
  BY SizeAssumption DEF Inv, TypeOK, Length, TakeFirst

\* Every step keeps the promise to the waiting threads.
LEMMA WakeupStep == Inv /\ NoLostWakeup /\ [Next]_vars => NoLostWakeup'
<1> SUFFICES ASSUME Inv, NoLostWakeup, [Next]_vars, Waiters' # {}
             PROVE  Length' <= Cardinality(Owed')
  BY DEF NoLostWakeup, Owed, Owing
<1> USE OwedFinite
<1>1. Waiters # {} => Length <= Cardinality(Owed)
  BY DEF NoLostWakeup, Owed, Owing
<1>2. Length \in Nat
  BY SizeAssumption DEF Inv, TypeOK, Length
<1>3. ASSUME NEW t \in Threads, NEW to \in PCs, to # "waiting",
             pc' = [pc EXCEPT ![t] = to]
      PROVE  Waiters # {}
  BY <1>3 DEF Waiters, Inv, TypeOK
<1>4. ASSUME NEW t \in Threads, PushFull(t) \/ TryPop(t) \/ Pop(t)
      PROVE  Length' <= Cardinality(Owed')
  <2>1. pc' = [pc EXCEPT ![t] = "idle"] /\ pc[t] = "idle"
    BY <1>4 DEF PushFull, TryPop, Pop, At
  <2>2. Cardinality(Owed') = Cardinality(Owed)
    BY <2>1, OwedStep DEF PCs, Owing
  <2>3. Length' <= Length /\ Length' \in Int
    BY <1>2, <1>4, TakeLength DEF PushFull, TryPop, Pop, Length
  <2>4. Waiters # {}
    BY <1>3, <2>1 DEF PCs
  <2> QED
    BY <1>1, <1>2, <2>2, <2>3, <2>4
<1>5. ASSUME NEW t \in Threads, NEW v \in Items, Push(t, v)
      PROVE  Length' <= Cardinality(Owed')
  <2>1. pc' = [pc EXCEPT ![t] = "signal"] /\ pc[t] = "idle"
    BY <1>5 DEF Push, At
  <2>2. Cardinality(Owed') = Cardinality(Owed) + 1
    BY <2>1, OwedStep DEF PCs, Owing
  <2>3. Length' = Length + 1
    BY <1>5 DEF Push, Length, Inv, TypeOK
  <2>4. Waiters # {}
    BY <1>3, <2>1 DEF PCs
  <2> QED
    BY <1>1, <1>2, <2>2, <2>3, <2>4
<1>6. ASSUME NEW t \in Threads, Signal(t) PROVE Length' <= Cardinality(Owed')
  <2>1. Length' = Length
    BY <1>6 DEF Signal, Length
  <2>2. CASE Waiters = {} /\ pc' = [pc EXCEPT ![t] = "idle"]
    BY <1>3, <2>2 DEF PCs
  <2>3. ASSUME NEW w \in Waiters, pc' = [pc EXCEPT ![t] = "idle", ![w] = "woken"]
        PROVE  Length <= Cardinality(Owed')
    <3>1. w \in Threads /\ w # t /\ w \notin Owed /\ t \in Owed
      BY <1>6 DEF Waiters, Owed, Owing, Signal
    <3>2. Owed' = (Owed \ {t}) \cup {w}
      BY <2>3, <3>1 DEF Owed, Owing, Inv, TypeOK
    <3>3. IsFiniteSet(Owed \ {t}) /\ Cardinality(Owed \ {t}) = Cardinality(Owed) - 1
      BY <3>1, FS_RemoveElement
    <3>4. Cardinality((Owed \ {t}) \cup {w}) = Cardinality(Owed \ {t}) + 1
      BY <3>1, <3>3, FS_AddElement
    <3> QED
      BY <1>1, <1>2, <3>2, <3>3, <3>4
  <2> QED
    BY <1>6, <2>1, <2>2, <2>3 DEF Signal
<1>7. ASSUME NEW t \in Threads, PopWait(t) PROVE Length' <= Cardinality(Owed')
  <2>1. Length' = 0
    BY <1>7 DEF PopWait, Length, Inv, TypeOK
  <2>2. Cardinality(Owed') = Cardinality(Owed)
    BY <1>7, OwedStep DEF PopWait, At, PCs, Owing
  <2> QED
    BY <2>1, <2>2
<1>8. ASSUME NEW t \in Threads, PopResume(t) PROVE Length' <= Cardinality(Owed')
  <2>1. pc' = [pc EXCEPT ![t] = "idle"] /\ pc[t] \in {"waiting", "woken"} /\ TakeFirst(t)
    BY <1>8 DEF PopResume, At
  <2>2. Cardinality(Owed') \in {Cardinality(Owed), Cardinality(Owed) - 1}
    BY <2>1, OwedStep DEF PCs, Owing
  <2>3. Cardinality(Owed') \in Nat
    BY <2>1, OwedStep DEF PCs
  <2>4. Waiters # {}
    BY <1>3, <2>1 DEF PCs
  <2> QED
    BY <1>1, <1>2, <2>1, <2>2, <2>3, <2>4, TakeLength
<1>9. CASE UNCHANGED vars
  BY <1>1, <1>9 DEF vars, Waiters, Owed, Length
<1> QED
  BY <1>4, <1>5, <1>6, <1>7, <1>8, <1>9 DEF Next

\* No push leaves an item to wait for a timeout while a pop waits for it.
THEOREM WakeupNotLost == Spec => []NoLostWakeup
<1>1. Init => NoLostWakeup
  BY DEF Init, NoLostWakeup, Waiters
<1>2. Spec => []Inv
  BY InitInv, NextInv, PTL DEF Spec
<1> QED
  BY <1>1, <1>2, WakeupStep, PTL DEF Spec
=============================================================================
