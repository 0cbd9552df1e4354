------------------------------ MODULE LogQueue ------------------------------
(***************************************************************************)
(* log_queue.c: a ring buffer under a mutex, with a condition variable on  *)
(* which a pop waits, at most once and at most waitMs, for an item.        *)
(*                                                                         *)
(* What a call does under the mutex is one action.  The wait of            *)
(* log_queue_pop releases the mutex, and log_queue_push signals after its  *)
(* unlock, so that both calls have a second step of their own.             *)
(***************************************************************************)
EXTENDS Integers, FiniteSets

CONSTANTS
    Threads,    \* the threads that share the queue
    Items,      \* what they push
    Size,       \* queue->size
    Null,       \* NULL
    Ok, Full,   \* 0 and -1 of log_queue_push
    MaxPush     \* bound of the model: successful pushes

ASSUME SizeAssumption == Size \in Nat \ {0} /\ MaxPush \in Nat
ASSUME ItemsAssumption == Null \notin Items
ASSUME ThreadsAssumption == IsFiniteSet(Threads)

VARIABLES
    data, head, tail,   \* the fields of struct _log_queue
    pc,                 \* where each thread is in its call
    result              \* what its last call returned

vars == <<data, head, tail, pc, result>>

\* "waiting" on the condition variable; "woken" by a signal, not yet resumed;
\* "signal": log_queue_push has unlocked and not yet signalled
PCs == {"idle", "waiting", "woken", "signal"}

Init ==
    /\ data = [i \in 0 .. Size - 1 |-> Null]
    /\ head = 0 /\ tail = 0
    /\ pc = [t \in Threads |-> "idle"]
    /\ result = [t \in Threads |-> Null]

At(t, from, to) == pc[t] \in from /\ pc' = [pc EXCEPT ![t] = to]
Answer(t, r) == result' = [result EXCEPT ![t] = r]

PushFull(t) ==
    /\ At(t, {"idle"}, "idle")
    /\ tail - head = Size
    /\ Answer(t, Full)
    /\ UNCHANGED <<data, head, tail>>

\* Mutations of Push: no check for a full ring; the slot after tail is written;
\* the signal is kept for the first item.
PushUnchecked(t, v) ==
    /\ At(t, {"idle"}, "signal")
    /\ data' = [data EXCEPT ![tail % Size] = v]
    /\ tail' = tail + 1 /\ Answer(t, Ok) /\ UNCHANGED head

PushPreIncrement(t, v) ==
    /\ At(t, {"idle"}, "signal") /\ tail - head # Size
    /\ data' = [data EXCEPT ![(tail + 1) % Size] = v]
    /\ tail' = tail + 1 /\ Answer(t, Ok) /\ UNCHANGED head

PushSignalFirst(t, v) ==
    /\ At(t, {"idle"}, IF tail = head THEN "signal" ELSE "idle")
    /\ tail - head # Size
    /\ data' = [data EXCEPT ![tail % Size] = v]
    /\ tail' = tail + 1 /\ Answer(t, Ok) /\ UNCHANGED head

Push(t, v) ==
    /\ At(t, {"idle"}, "signal")
    /\ tail - head # Size
    /\ data' = [data EXCEPT ![tail % Size] = v]
    /\ tail' = tail + 1
    /\ Answer(t, Ok)
    /\ UNCHANGED head

\* COND_SIGNAL(queue->notempty): one waiting thread is woken, if there is one
Waiters == {t \in Threads : pc[t] = "waiting"}

Signal(t) ==
    /\ pc[t] = "signal"
    /\ \/ /\ Waiters = {}
          /\ pc' = [pc EXCEPT ![t] = "idle"]
       \/ \E w \in Waiters : pc' = [pc EXCEPT ![t] = "idle", ![w] = "woken"]
    /\ UNCHANGED <<data, head, tail, result>>

\* A mutation: an item is taken although the ring may have been emptied meanwhile.
TakeUnchecked(t) ==
    /\ Answer(t, data[head % Size])
    /\ head' = head + 1
    /\ UNCHANGED <<data, tail>>

\* The first item, or NULL when there is none.
TakeFirst(t) ==
    IF tail > head
    THEN /\ Answer(t, data[head % Size])
         /\ head' = head + 1
         /\ UNCHANGED <<data, tail>>
    ELSE /\ Answer(t, Null)
         /\ UNCHANGED <<data, head, tail>>

TryPop(t) == At(t, {"idle"}, "idle") /\ TakeFirst(t)

Pop(t) == tail # head /\ At(t, {"idle"}, "idle") /\ TakeFirst(t)

PopWait(t) ==
    /\ tail = head
    /\ At(t, {"idle"}, "waiting")
    /\ UNCHANGED <<data, head, tail, result>>

\* The wait is over: signalled, timed out or woken spuriously.
PopResume(t) == At(t, {"waiting", "woken"}, "idle") /\ TakeFirst(t)

Next == \E t \in Threads :
    \/ PushFull(t)
    \/ tail < MaxPush /\ \E v \in Items : Push(t, v)
    \/ Signal(t)
    \/ TryPop(t) \/ Pop(t) \/ PopWait(t) \/ PopResume(t)

Spec == Init /\ [][Next]_vars

-----------------------------------------------------------------------------
(***************************************************************************)
(* Properties                                                              *)
(***************************************************************************)
\* The types of the variables; the ring never holds more than Size items.
TypeOK ==
    /\ data \in [0 .. Size - 1 -> Items \cup {Null}]
    /\ head \in Nat /\ tail \in Nat /\ tail - head \in 0 .. Size
    /\ pc \in [Threads -> PCs]
    /\ result \in [Threads -> Items \cup {Null, Ok, Full}]

\* log_queue_size
Length == tail - head

\* The items in the queue, the first one first.
Contents == [i \in 1 .. Length |-> data[(head + i - 1) % Size]]

\* Every slot from head to tail holds an item that was pushed: a pop never
\* returns what was never written or was overwritten by NULL.
RingOK == \A i \in 1 .. Length : Contents[i] \in Items

\* No wakeup is lost, though a push signals after its unlock and a pop waits only
\* once: while a thread waits unwoken, each item in the queue has a signal still
\* to come or a woken thread on its way.  Without it an item would wait for a
\* timeout although a pop was waiting for it.
NoLostWakeup == Waiters # {} =>
    Length <= Cardinality({t \in Threads : pc[t] \in {"signal", "woken"}})

\* The ring implements the bounded FIFO that the producer relies on.
Fifo == INSTANCE BoundedFifo WITH queue <- Contents
FifoSpec == Fifo!Spec
=============================================================================
