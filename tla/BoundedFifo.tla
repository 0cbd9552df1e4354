---------------------------- MODULE BoundedFifo ----------------------------
(***************************************************************************)
(* What log_queue.h promises to the threads that share a log_queue: a FIFO *)
(* of at most Size items.  A push that finds it full and a pop that finds  *)
(* it empty answer so, and change nothing; result is the answer of the     *)
(* last call of each thread.                                               *)
(***************************************************************************)
EXTENDS Naturals, Sequences

CONSTANTS Threads, Items, Size, Null, Ok, Full

VARIABLES queue, result

Init == queue = <<>> /\ result = [t \in Threads |-> Null]

Answer(t, r) == result' = [result EXCEPT ![t] = r]

Push(t, v) == Len(queue) < Size /\ queue' = Append(queue, v) /\ Answer(t, Ok)
PushFull(t) == Len(queue) = Size /\ UNCHANGED queue /\ Answer(t, Full)
Pop(t) == queue # <<>> /\ queue' = Tail(queue) /\ Answer(t, Head(queue))
PopEmpty(t) == queue = <<>> /\ UNCHANGED queue /\ Answer(t, Null)

Next == \E t \in Threads :
    (\E v \in Items : Push(t, v)) \/ PushFull(t) \/ Pop(t) \/ PopEmpty(t)

Spec == Init /\ [][Next]_<<queue, result>>
=============================================================================
