---------------------------- MODULE GlobalSenders ----------------------------
(***************************************************************************)
(* Several producers that share the process-wide pool of send threads      *)
(* (log_producer_global_send_thread_init, log_producer_env_destroy, and    *)
(* the branches of the flush thread and of destroy_log_producer_manager    *)
(* that use g_sender_data_queue).  A producer's ref_count decides who      *)
(* frees it.                                                               *)
(*                                                                         *)
(* What happens before a buffer is in a producer's send_param_queue is     *)
(* module LogProducerManager's: here the flush thread makes any number of  *)
(* buffers in a round, and the wait of destroy ends at any moment.  Buffer *)
(* n of producer p is [manager |-> p, buf |-> n]; the destroy parameter,   *)
(* whose log_buf is NULL, has buf 0.  The flush thread of p is named p.    *)
(***************************************************************************)
EXTENDS Integers, Sequences, FiniteSets, Functions

CONSTANTS
    Producers,  \* the log_producer_managers
    Workers,    \* the threads of the pool
    Env,        \* the thread that calls log_producer_env_destroy
    QueueSize,  \* log_global_send_queue_size
    MaxBuffers  \* bound of the model: buffers that all producers ever make

Threads == Producers \cup Workers \cup {Env}
Params == [manager : Producers, buf : 0 .. MaxBuffers]

ASSUME SizesAssumption == QueueSize \in Nat \ {0} /\ MaxBuffers \in Nat

ASSUME ThreadsAssumption ==
    /\ IsFiniteSet(Producers) /\ IsFiniteSet(Workers)
    /\ Producers \cap Workers = {} /\ Env \notin Producers \cup Workers

VARIABLES
    pool,       \* g_send_threads and g_send_thread_destroy
    queue,      \* g_sender_data_queue
    refCount,   \* ref_count
    shutdown,   \* shutdown
    wr, rd,     \* send_param_queue_write, send_param_queue_read
    exitPc,     \* where the call of destroy_log_producer is
    frees,      \* how often destroy_log_producer_manager_tail was called
    pc, hold,   \* where each thread is, and the parameter in its hands
    fate        \* what became of a buffer: answered by the service, or reported
                \* to the callback as buffered at exit

manager == <<refCount, shutdown, wr, rd>>
vars == <<pool, queue, manager, exitPc, frees, pc, hold, fate>>

Nothing == <<>>     \* empty hands

Init ==
    /\ pool = "none" /\ queue = <<>>
    /\ refCount = [p \in Producers |-> 1]
    /\ shutdown = [p \in Producers |-> FALSE]
    /\ wr = [p \in Producers |-> 0] /\ rd = [p \in Producers |-> 0]
    /\ exitPc = [p \in Producers |-> "alive"]
    /\ frees = [p \in Producers |-> 0]
    /\ pc = [t \in Threads |-> IF t \in Workers THEN "unborn" ELSE "loop"]
    /\ hold = [t \in Threads |-> Nothing]
    /\ fate = [p \in Producers |-> [n \in 1 .. MaxBuffers |-> "none"]]

Goto(t, to) == pc' = [pc EXCEPT ![t] = to]
Take(t, h, to) == Goto(t, to) /\ hold' = [hold EXCEPT ![t] = h]
Drop(t, to) == Take(t, Nothing, to)

-----------------------------------------------------------------------------
(***************************************************************************)
(* The flush thread of a producer without send threads of its own          *)
(***************************************************************************)
MadeByOthers(p) ==
    Cardinality({made \in (Producers \ {p}) \X (1 .. MaxBuffers) : made[2] <= wr[made[1]]})

\* A mutation: the flush thread does not look at shutdown.
FlushRoundForever(p) ==
    /\ pc[p] = "loop"
    /\ \E n \in wr[p] .. MaxBuffers - MadeByOthers(p) : wr' = [wr EXCEPT ![p] = n]
    /\ Goto(p, "send")
    /\ UNCHANGED <<pool, queue, refCount, shutdown, rd, exitPc, frees, hold, fate>>

\* A round begins: groups become buffers in the ring.
FlushRound(p) ==
    /\ pc[p] = "loop" /\ ~shutdown[p]
    /\ \E n \in wr[p] .. MaxBuffers - MadeByOthers(p) : wr' = [wr EXCEPT ![p] = n]
    /\ Goto(p, "send")
    /\ UNCHANGED <<pool, queue, refCount, shutdown, rd, exitPc, frees, hold, fate>>

FlushExit(p) ==
    /\ pc[p] = "loop" /\ shutdown[p]
    /\ Goto(p, "exit")
    /\ UNCHANGED <<pool, queue, manager, exitPc, frees, hold, fate>>

\* A mutation: the reference is not counted.
ReserveUncounted(p) ==
    /\ pc[p] = "send" /\ pool # "none"
    /\ wr[p] > rd[p] /\ Len(queue) # QueueSize
    /\ rd' = [rd EXCEPT ![p] = @ + 1]
    /\ Take(p, [manager |-> p, buf |-> rd[p] + 1], "push")
    /\ UNCHANGED <<pool, queue, refCount, shutdown, wr, exitPc, frees, fate>>

\* With a pool: a reference is counted before its buffer is pushed ...
Reserve(p) ==
    /\ pc[p] = "send" /\ pool # "none"
    /\ wr[p] > rd[p] /\ Len(queue) # QueueSize
    /\ refCount' = [refCount EXCEPT ![p] = @ + 1]
    /\ rd' = [rd EXCEPT ![p] = @ + 1]
    /\ Take(p, [manager |-> p, buf |-> rd[p] + 1], "push")
    /\ UNCHANGED <<pool, queue, shutdown, wr, exitPc, frees, fate>>

\* A mutation: the queue takes more than its size.
PushUnchecked(p) ==
    /\ pc[p] = "push"
    /\ queue' = Append(queue, hold[p])
    /\ Drop(p, "send")
    /\ UNCHANGED <<pool, manager, exitPc, frees, fate>>

\* ... and the push is repeated until the queue, which another producer may
\* have filled since the check, takes it.
Push(p) ==
    /\ pc[p] = "push" /\ Len(queue) < QueueSize
    /\ queue' = Append(queue, hold[p])
    /\ Drop(p, "send")
    /\ UNCHANGED <<pool, manager, exitPc, frees, fate>>

\* Without a pool one buffer of the round is posted here.
FlushDirect(p) ==
    /\ pc[p] = "send" /\ pool = "none" /\ wr[p] > rd[p]
    /\ rd' = [rd EXCEPT ![p] = @ + 1]
    /\ Take(p, [manager |-> p, buf |-> rd[p] + 1], "check")
    /\ UNCHANGED <<pool, queue, refCount, shutdown, wr, exitPc, frees, fate>>

FlushEnd(p) ==
    /\ pc[p] = "send"
    /\ wr[p] = rd[p] \/ (pool # "none" /\ Len(queue) = QueueSize)
    /\ Goto(p, "loop")
    /\ UNCHANGED <<pool, queue, manager, exitPc, frees, hold, fate>>

-----------------------------------------------------------------------------
(***************************************************************************)
(* log_producer_send_fun, run by a worker, by env_destroy, or by a flush   *)
(* thread.  Only the first two go on to drop the reference.                *)
(***************************************************************************)
Answer(t, f) == fate' = [fate EXCEPT ![hold[t].manager][hold[t].buf] = f]
Sent(t) == IF t \in Producers THEN Drop(t, "loop") ELSE Goto(t, "release") /\ UNCHANGED hold

IsDestroyParam(t) == hold[t].buf = 0

\* The destroy parameter is freed and nothing else is done.
SendNothing(t) ==
    /\ pc[t] = "check" /\ IsDestroyParam(t)
    /\ Goto(t, "release")
    /\ UNCHANGED <<pool, queue, manager, exitPc, frees, hold, fate>>

SendExit(t) ==
    /\ pc[t] = "check" /\ ~IsDestroyParam(t) /\ shutdown[hold[t].manager]
    /\ Answer(t, "buffered")
    /\ Sent(t)
    /\ UNCHANGED <<pool, queue, manager, exitPc, frees>>

\* A mutation: shutdown does not stop the retries.
SendRegardless(t) ==
    /\ pc[t] = "check" /\ ~IsDestroyParam(t)
    /\ Goto(t, "post")
    /\ UNCHANGED <<pool, queue, manager, exitPc, frees, hold, fate>>

SendStart(t) ==
    /\ pc[t] = "check" /\ ~IsDestroyParam(t) /\ ~shutdown[hold[t].manager]
    /\ Goto(t, "post")
    /\ UNCHANGED <<pool, queue, manager, exitPc, frees, hold, fate>>

\* The service accepts the buffer, or rejects it for good.
SendDone(t) ==
    /\ pc[t] = "post"
    /\ Answer(t, "answered")
    /\ Sent(t)
    /\ UNCHANGED <<pool, queue, manager, exitPc, frees>>

\* A failure that is retried.
SendFailed(t) ==
    /\ pc[t] = "post"
    /\ Goto(t, "check")
    /\ UNCHANGED <<pool, queue, manager, exitPc, frees, hold, fate>>

\* Where log_producer_send_thread_global_inner returns to.
Resume(t) == Drop(t, IF t = Env THEN "drain" ELSE "loop")

\* A mutation: one reference is left when the producer is freed.
ReleaseEarly(t) ==
    /\ pc[t] = "release"
    /\ LET p == hold[t].manager IN
       /\ refCount' = [refCount EXCEPT ![p] = @ - 1]
       /\ IF refCount[p] - 1 <= 1 THEN Goto(t, "tail") /\ UNCHANGED hold ELSE Resume(t)
    /\ UNCHANGED <<pool, queue, shutdown, wr, rd, exitPc, frees, fate>>

\* ATOMICINT_DEC: who drops the last reference frees the producer.
Release(t) ==
    /\ pc[t] = "release"
    /\ LET p == hold[t].manager IN
       /\ refCount' = [refCount EXCEPT ![p] = @ - 1]
       /\ IF refCount[p] = 1 THEN Goto(t, "tail") /\ UNCHANGED hold ELSE Resume(t)
    /\ UNCHANGED <<pool, queue, shutdown, wr, rd, exitPc, frees, fate>>

\* destroy_log_producer_manager_tail
FreeLast(t) ==
    /\ pc[t] = "tail"
    /\ frees' = [frees EXCEPT ![hold[t].manager] = @ + 1]
    /\ Resume(t)
    /\ UNCHANGED <<pool, queue, manager, exitPc, fate>>

-----------------------------------------------------------------------------
(***************************************************************************)
(* log_producer_send_thread_global                                         *)
(***************************************************************************)
WorkerLoop(w) ==
    /\ pc[w] = "loop"
    /\ Goto(w, IF pool = "stopping" THEN "exit" ELSE "pop")
    /\ UNCHANGED <<pool, queue, manager, exitPc, frees, hold, fate>>

\* A mutation: the item stays in the queue.
WorkerPeek(w) ==
    /\ pc[w] = "pop" /\ queue # <<>>
    /\ Take(w, Head(queue), "check")
    /\ UNCHANGED <<pool, queue, manager, exitPc, frees, fate>>

WorkerPop(w) ==
    /\ pc[w] = "pop" /\ queue # <<>>
    /\ Take(w, Head(queue), "check")
    /\ queue' = Tail(queue)
    /\ UNCHANGED <<pool, manager, exitPc, frees, fate>>

WorkerPopTimeout(w) ==
    /\ pc[w] = "pop" /\ queue = <<>>
    /\ Goto(w, "loop")
    /\ UNCHANGED <<pool, queue, manager, exitPc, frees, hold, fate>>

-----------------------------------------------------------------------------
(***************************************************************************)
(* destroy_log_producer_manager                                            *)
(***************************************************************************)
ExitTo(p, to) == exitPc' = [exitPc EXCEPT ![p] = to]

Destroy(p) ==
    /\ exitPc[p] = "alive"
    /\ ExitTo(p, "wait")
    /\ UNCHANGED <<pool, queue, manager, frees, pc, hold, fate>>

\* The wait, which does not look at the pool's queue, is over.
Shutdown(p) ==
    /\ exitPc[p] = "wait"
    /\ shutdown' = [shutdown EXCEPT ![p] = TRUE]
    /\ ExitTo(p, "join")
    /\ UNCHANGED <<pool, queue, refCount, wr, rd, frees, pc, hold, fate>>

\* A mutation: the flush thread is not joined.
JoinFlushAtOnce(p) ==
    /\ exitPc[p] = "join"
    /\ ExitTo(p, IF pool = "none" THEN "tail" ELSE "push")
    /\ UNCHANGED <<pool, queue, manager, frees, pc, hold, fate>>

JoinFlush(p) ==
    /\ exitPc[p] = "join" /\ pc[p] = "exit"
    /\ ExitTo(p, IF pool = "none" THEN "tail" ELSE "push")
    /\ UNCHANGED <<pool, queue, manager, frees, pc, hold, fate>>

\* With a pool the destroy parameter carries the first reference; it too is
\* pushed until the queue takes it.
PushDestroyParam(p) ==
    /\ exitPc[p] = "push" /\ Len(queue) < QueueSize
    /\ queue' = Append(queue, [manager |-> p, buf |-> 0])
    /\ ExitTo(p, "returned")
    /\ UNCHANGED <<pool, manager, frees, pc, hold, fate>>

FreeTail(p) ==
    /\ exitPc[p] = "tail"
    /\ frees' = [frees EXCEPT ![p] = @ + 1]
    /\ ExitTo(p, "returned")
    /\ UNCHANGED <<pool, queue, manager, pc, hold, fate>>

-----------------------------------------------------------------------------
(***************************************************************************)
(* The environment.  One pool in the life of the process (a bound); it is  *)
(* destroyed, as log_producer_client.h asks, after every producer.         *)
(***************************************************************************)
GlobalInit ==
    /\ pc[Env] = "loop" /\ pool = "none"
    /\ pool' = "running"
    /\ pc' = [t \in Threads |-> IF t \in Workers THEN "loop" ELSE pc[t]]
    /\ UNCHANGED <<queue, manager, exitPc, frees, hold, fate>>

EnvDestroy ==
    /\ pc[Env] = "loop" /\ \A p \in Producers : exitPc[p] = "returned"
    /\ IF pool = "none" THEN Goto(Env, "done") /\ UNCHANGED pool
                        ELSE Goto(Env, "join") /\ pool' = "stopping"
    /\ UNCHANGED <<queue, manager, exitPc, frees, hold, fate>>

EnvJoin ==
    /\ pc[Env] = "join" /\ \A w \in Workers : pc[w] = "exit"
    /\ Goto(Env, "drain")
    /\ UNCHANGED <<pool, queue, manager, exitPc, frees, hold, fate>>

\* What the workers left goes through log_producer_send_thread_global_inner.
EnvDrain ==
    /\ pc[Env] = "drain" /\ queue # <<>>
    /\ Take(Env, Head(queue), "check")
    /\ queue' = Tail(queue)
    /\ UNCHANGED <<pool, manager, exitPc, frees, fate>>

\* A mutation: the queue is destroyed with what is in it.
EnvDoneAtOnce ==
    /\ pc[Env] = "drain"
    /\ pool' = "none" /\ queue' = <<>>
    /\ Goto(Env, "done")
    /\ UNCHANGED <<manager, exitPc, frees, hold, fate>>

EnvDone ==
    /\ pc[Env] = "drain" /\ queue = <<>>
    /\ pool' = "none"
    /\ Goto(Env, "done")
    /\ UNCHANGED <<queue, manager, exitPc, frees, hold, fate>>

-----------------------------------------------------------------------------
FlushStep(p) == FlushRound(p) \/ FlushExit(p) \/ Reserve(p) \/ Push(p) \/ FlushDirect(p) \/ FlushEnd(p)
SendFun(t) == SendNothing(t) \/ SendExit(t) \/ SendStart(t) \/ SendDone(t) \/ SendFailed(t)
InnerStep(t) == Release(t) \/ FreeLast(t)
WorkerStep(w) == WorkerLoop(w) \/ WorkerPop(w) \/ WorkerPopTimeout(w)
DestroyStep(p) == Shutdown(p) \/ JoinFlush(p) \/ PushDestroyParam(p) \/ FreeTail(p)
EnvStep == EnvJoin \/ EnvDrain \/ EnvDone

\* Nothing moves any more once the environment is destroyed.
Ended == pc[Env] = "done" /\ UNCHANGED vars

Next ==
    \/ \E p \in Producers : FlushStep(p) \/ Destroy(p) \/ DestroyStep(p)
    \/ \E t \in Threads : SendFun(t) \/ InnerStep(t)
    \/ \E w \in Workers : WorkerStep(w)
    \/ GlobalInit \/ EnvDestroy \/ EnvStep \/ Ended

Spec == Init /\ [][Next]_vars

\* Every thread keeps running, and the wait of destroy has an end.  Nobody need
\* call destroy or env_destroy, and the service need not answer well.
Fairness ==
    /\ \A p \in Producers : WF_vars(FlushStep(p)) /\ WF_vars(DestroyStep(p))
    /\ \A t \in Threads : WF_vars(SendFun(t)) /\ WF_vars(InnerStep(t))
    /\ \A w \in Workers : WF_vars(WorkerStep(w))
    /\ WF_vars(EnvStep)

FairSpec == Spec /\ Fairness

-----------------------------------------------------------------------------
(***************************************************************************)
(* Properties                                                              *)
(***************************************************************************)
PCs == {"unborn", "loop", "send", "push", "check", "post", "release", "tail", "pop",
        "join", "drain", "exit", "done"}

\* The types of the variables; the queue keeps its size.
TypeOK ==
    /\ pool \in {"none", "running", "stopping"}
    /\ queue \in Seq(Params) /\ Len(queue) <= QueueSize
    /\ refCount \in [Producers -> Nat] /\ shutdown \in [Producers -> BOOLEAN]
    /\ wr \in [Producers -> 0 .. MaxBuffers] /\ rd \in [Producers -> 0 .. MaxBuffers]
    /\ exitPc \in [Producers -> {"alive", "wait", "join", "push", "tail", "returned"}]
    /\ frees \in [Producers -> Nat]
    /\ pc \in [Threads -> PCs] /\ hold \in [Threads -> Params \cup {Nothing}]
    /\ fate \in [Producers -> [1 .. MaxBuffers -> {"none", "answered", "buffered"}]]

\* The parameters that are in the pool: queued, in the hands of a flush thread
\* that pushes it, or in the hands of whoever works for the pool.
Pooled(p, n) ==
    LET param == [manager |-> p, buf |-> n] IN
    \/ param \in Range(queue)
    \/ \E t \in Threads : hold[t] = param
          /\ pc[t] \in (IF t \in Producers THEN {"push"} ELSE {"check", "post", "release"})
PooledBuffers(p) == {n \in 1 .. MaxBuffers : Pooled(p, n)}

\* The first reference is the destroyer's, and then the destroy parameter's.
Owned(p) == exitPc[p] \notin {"tail", "returned"} \/ Pooled(p, 0)

\* ref_count counts the first reference and the buffers in the pool, until
\* the producer is freed.
RefCounted == \A p \in Producers : frees[p] = 0 =>
    refCount[p] = Cardinality(PooledBuffers(p)) + (IF Owned(p) \/ exitPc[p] = "tail" THEN 1 ELSE 0)

\* A producer is freed once at most, and when it is nobody has a buffer of it,
\* in whatever order the workers finish its buffers and its destroy parameter.
Reclaim == INSTANCE Reclamation WITH
    Objects <- Producers, Users <- 1 .. MaxBuffers,
    owned <- [p \in Producers |-> Owned(p)],
    users <- [p \in Producers |-> PooledBuffers(p)],
    freed <- [p \in Producers |-> frees[p] > 0]
ReclaimSpec == Reclaim!Spec

\* No thread, and no call of destroy, still uses a producer that has been freed.
NoUseAfterFree == \A p \in Producers : frees[p] > 0 =>
    /\ frees[p] = 1 /\ pc[p] = "exit" /\ exitPc[p] = "returned"
    /\ \A t \in Threads : hold[t] # Nothing => hold[t].manager # p
    /\ \A i \in DOMAIN queue : queue[i].manager # p

Places(p, n) ==
    LET param == [manager |-> p, buf |-> n] IN
    Cardinality({i \in DOMAIN queue : queue[i] = param})
    + Cardinality({t \in Threads : hold[t] = param /\ pc[t] \in {"push", "check", "post"}})

\* A buffer taken from the ring is in one place until it has met its end, and
\* in none after: no worker sends what another one has, and none is forgotten.
OneHome == \A p \in Producers, n \in 1 .. MaxBuffers :
    Places(p, n) = IF n <= rd[p] /\ fate[p][n] = "none" THEN 1 ELSE 0

\* After log_producer_env_destroy every producer has been freed, and every
\* buffer that left its ring was answered or reported.
NothingLeft == pc[Env] = "done" =>
    \A p \in Producers : /\ frees[p] = 1
                         /\ \A n \in 1 .. rd[p] : fate[p][n] # "none"

\* When every producer is being shut down, whatever the service does, all are freed.
Reclaimed == (\A p \in Producers : shutdown[p]) ~> (\A p \in Producers : frees[p] > 0)

\* destroy_log_producer returns ...
Exiting == \E p \in Producers : exitPc[p] \in {"wait", "join", "push", "tail"}
DestroyReturns == Exiting ~> ~Exiting

\* ... unless from some moment on somebody is always sending: a push to the pool's
\* queue waits for the workers, and these wait for the service, whose failures
\* of another producer's buffers may never end.
Sending == \E t \in Threads : pc[t] \in {"check", "post"}
DestroyReturnsIfServed == []<>~Sending => DestroyReturns
=============================================================================
