------------------------- MODULE LogProducerManager -------------------------
(***************************************************************************)
(* One log producer from the calls of its clients to the answer of the     *)
(* log service, and its destruction (log_producer_manager.c and the send   *)
(* loop of log_producer_sender.c).                                         *)
(*                                                                         *)
(* A log is a number, given in the order in which add_log's critical       *)
(* section accepts them; a log group is the sequence of its logs and may   *)
(* be in the builder, in loggroup_queue, in a thread's hands, in the ring  *)
(* send_param_queue or in sender_data_queue.  A call of                    *)
(* log_producer_client_add_raw_log_buffer is a group of one log.           *)
(*                                                                         *)
(* The queues are the bounded FIFOs that module LogQueue implements: one   *)
(* call of a queue is one step here.  The producer's lock protects whole   *)
(* actions, but add_log calls loggroup_queue twice under it when it makes  *)
(* a builder: two steps.  What the code does without the lock takes a step *)
(* of its own, and the unlocked += of _try_flush_loggroup takes two.       *)
(* With SendThreads = {} the flush thread posts the data itself.           *)
(***************************************************************************)
EXTENDS Integers, Sequences, FiniteSets, Functions

CONSTANTS
    Clients,        \* threads that call log_producer_client_add_log
    RawClients,     \* threads that call log_producer_client_add_raw_log_buffer
    SendThreads,    \* the producer's own send threads, {} for sendThreadCount 0
    Flush,          \* the flush thread
    Destroyer,      \* the thread that calls destroy_log_producer
    BaseQueueSize,  \* base_queue_size of create_log_producer_manager
    LogsPerPackage, \* logCountPerPackage (logBytesPerPackage in logs)
    MaxBufferBytes, \* maxBufferBytes
    LogSize,        \* bytes of a log in loggroup_size
    ZipSize,        \* bytes of a log in the compressed buffer
    Width,          \* 2^32: totalBufferSize is a uint32_t
    MaxLogs         \* bound of the model: logs and raw buffers ever accepted

ParamQueueSize == 2 * BaseQueueSize     \* send_param_queue_size
SenderQueueSize == 2 * BaseQueueSize    \* size of sender_data_queue

Threads == Clients \cup RawClients \cup SendThreads \cup {Flush, Destroyer}
Logs == 1 .. MaxLogs

ASSUME SizesAssumption ==
    /\ BaseQueueSize \in Nat \ {0} /\ LogsPerPackage \in Nat \ {0}
    /\ MaxBufferBytes \in Nat /\ LogSize \in Nat \ {0} /\ ZipSize \in Nat \ {0}
    /\ Width \in Nat \ {0} /\ MaxLogs \in Nat

ASSUME ThreadsAssumption ==
    /\ Flush # Destroyer
    /\ {Flush, Destroyer} \cap (Clients \cup RawClients \cup SendThreads) = {}
    /\ Clients \cap RawClients = {}
    /\ SendThreads \cap (Clients \cup RawClients) = {}
    /\ IsFiniteSet(Clients \cup RawClients \cup SendThreads)

VARIABLES
    total,      \* totalBufferSize
    builder,    \* logs of the builder, <<>> for NULL
    loggroupQ,  \* loggroup_queue
    ring,       \* send_param_queue
    rd, wr,     \* send_param_queue_read, send_param_queue_write
    senderQ,    \* sender_data_queue
    packIndex,  \* pack_index
    shutdown,   \* shutdown
    pc,         \* where each thread is
    hold,       \* the group each thread has in its hands
    flushTmp,   \* totalBufferSize as read by the += of _try_flush_loggroup
    nextLog,    \* the next log or raw buffer to be accepted
    fate,       \* what became of each log
    packOf,     \* the pack index each log was sent with, 0 for none
    raced,      \* the unlocked += has overwritten another update
    forced,     \* the wait of destroy_log_producer_manager timed out
    missed      \* the logs in Flush's hands that the last round of destroy's wait has passed by

queues == <<builder, loggroupQ, ring, rd, wr, senderQ, packIndex>>
ghosts == <<packOf, raced, forced, missed>>
vars == <<total, queues, shutdown, pc, hold, flushTmp, nextLog, fate, ghosts>>

Fates == {"new", "held", "sent", "discarded", "buffered", "dropped", "leaked"}
PCs == {"idle", "add", "create", "raw", "check", "post", "drain", "unbook",
        "pack", "try", "tryPush", "tryRead", "tryWrite", "send", "pushParam",
        "waitGroups", "waitParams", "waitSender", "joinFlush", "joinSend",
        "shutdown", "drainSender", "pop", "exit", "freed"}

\* The group's logs meet fate f.
Meet(g, f) == [l \in Logs |-> IF l \in Range(g) THEN f ELSE fate[l]]

Goto(t, to) == pc' = [pc EXCEPT ![t] = to]
Take(t, g, to) == Goto(t, to) /\ hold' = [hold EXCEPT ![t] = g]

\* A mutation: the counter is as wide as it needs to be.
PlusUnbounded(n) == total' = total + n

\* uint32_t addition to totalBufferSize
Plus(n) == total' = (total + n) % Width

RawBytes(g) == LogSize * Len(g)     \* loggroup_size
ZipBytes(g) == ZipSize * Len(g)     \* log_buf->length

Init ==
    /\ total = 0 /\ builder = <<>> /\ loggroupQ = <<>>
    /\ ring = [i \in 0 .. ParamQueueSize - 1 |-> <<>>]
    /\ rd = 0 /\ wr = 0 /\ senderQ = <<>> /\ packIndex = 0
    /\ shutdown = FALSE
    /\ pc = [t \in Threads |-> "idle"]
    /\ hold = [t \in Threads |-> <<>>]
    /\ flushTmp = 0 /\ nextLog = 1
    /\ fate = [l \in Logs |-> "new"]
    /\ packOf = [l \in Logs |-> 0]
    /\ raced = FALSE /\ forced = FALSE /\ missed = {}

-----------------------------------------------------------------------------
(***************************************************************************)
(* Clients.  A call starts only before destroy_log_producer is called.     *)
(***************************************************************************)
Running == pc[Destroyer] = "idle"

\* The size check before the lock: DROP_ERROR.
AddRefused(c) ==
    /\ Running /\ pc[c] = "idle"
    /\ total > MaxBufferBytes
    /\ UNCHANGED vars

\* The calls that have yet to take a log number are counted for the bound.
Adding == {"add", "create"}
InAdd == {c \in Clients : pc[c] \in Adding}
Room == nextLog + Cardinality(InAdd) <= MaxLogs

\* A mutation: maxBufferBytes is not checked.
AddUnchecked(c) ==
    /\ Running /\ pc[c] = "idle" /\ Room
    /\ Goto(c, "add")
    /\ UNCHANGED <<total, queues, shutdown, hold, flushTmp, nextLog, fate, ghosts>>

AddAdmitted(c) ==
    /\ Running /\ pc[c] = "idle" /\ Room
    /\ total <= MaxBufferBytes
    /\ Goto(c, "add")
    /\ UNCHANGED <<total, queues, shutdown, hold, flushTmp, nextLog, fate, ghosts>>

\* The producer's lock, which a client keeps while it makes a builder.  What takes the
\* lock for one action only needs it to be free.
LockFree == \A c \in Clients : pc[c] # "create"

\* No builder and no room for one: DROP_ERROR.
AddQueueFull(c) ==
    /\ pc[c] = "add" /\ LockFree
    /\ builder = <<>> /\ Len(loggroupQ) = BaseQueueSize
    /\ Goto(c, "idle")
    /\ UNCHANGED <<total, queues, shutdown, hold, flushTmp, nextLog, fate, ghosts>>

\* No builder, and room for one.  The queue has a lock of its own: what room there is
\* may be taken, by _try_flush_loggroup, before this builder is pushed.
AddCreate(c) ==
    /\ pc[c] = "add" /\ LockFree
    /\ builder = <<>> /\ Len(loggroupQ) < BaseQueueSize
    /\ Goto(c, "create")
    /\ UNCHANGED <<total, queues, shutdown, hold, flushTmp, nextLog, fate, ghosts>>

\* A mutation: a builder is pushed when it holds more than a package.
AddLockedLate(c) ==
    /\ pc[c] = "create" \/ (pc[c] = "add" /\ LockFree /\ builder # <<>>)
    /\ nextLog <= MaxLogs
    /\ LET g == Append(builder, nextLog) IN
       \E elapsed \in BOOLEAN :
         IF Len(g) <= LogsPerPackage /\ ~elapsed
         THEN /\ builder' = g
              /\ fate' = [fate EXCEPT ![nextLog] = "held"]
              /\ UNCHANGED <<loggroupQ, total>>
         ELSE /\ builder' = <<>>
              /\ IF Len(loggroupQ) < BaseQueueSize
                 THEN /\ loggroupQ' = Append(loggroupQ, g)
                      /\ Plus(RawBytes(g))
                      /\ fate' = [fate EXCEPT ![nextLog] = "held"]
                 ELSE /\ fate' = Meet(g, "dropped")
                      /\ UNCHANGED <<loggroupQ, total>>
    /\ nextLog' = nextLog + 1
    /\ Goto(c, "idle")
    /\ UNCHANGED <<ring, rd, wr, senderQ, packIndex, shutdown, hold, flushTmp, ghosts>>

\* The log is appended to the builder that is there, or has been made;
\* a builder that is full, or older than the package timeout, is pushed, and
\* destroyed when the queue has no room.  Every case answers LOG_PRODUCER_OK.
AddLocked(c) ==
    /\ pc[c] = "create" \/ (pc[c] = "add" /\ LockFree /\ builder # <<>>)
    /\ nextLog <= MaxLogs
    /\ LET g == Append(builder, nextLog) IN
       \E elapsed \in BOOLEAN :
         IF Len(g) < LogsPerPackage /\ ~elapsed
         THEN /\ builder' = g
              /\ fate' = [fate EXCEPT ![nextLog] = "held"]
              /\ UNCHANGED <<loggroupQ, total>>
         ELSE /\ builder' = <<>>
              /\ IF Len(loggroupQ) < BaseQueueSize
                 THEN /\ loggroupQ' = Append(loggroupQ, g)
                      /\ Plus(RawBytes(g))
                      /\ fate' = [fate EXCEPT ![nextLog] = "held"]
                 ELSE /\ fate' = Meet(g, "dropped")
                      /\ UNCHANGED <<loggroupQ, total>>
    /\ nextLog' = nextLog + 1
    /\ Goto(c, "idle")
    /\ UNCHANGED <<ring, rd, wr, senderQ, packIndex, shutdown, hold, flushTmp, ghosts>>

\* log_producer_manager_send_raw_buffer books the buffer under the lock ...
RawBook(c) ==
    /\ Running /\ pc[c] = "idle" /\ LockFree /\ Room /\ nextLog <= MaxLogs
    /\ Plus(ZipBytes(<<nextLog>>))
    /\ Take(c, <<nextLog>>, IF SendThreads = {} THEN "check" ELSE "raw")
    /\ nextLog' = nextLog + 1
    /\ fate' = [fate EXCEPT ![nextLog] = "held"]
    /\ UNCHANGED <<queues, shutdown, flushTmp, ghosts>>

\* ... and pushes it for the send threads; the buffer of a failed push
\* (DROP_ERROR) is neither freed nor unbooked.
RawPush(c) ==
    /\ pc[c] = "raw"
    /\ IF Len(senderQ) < SenderQueueSize
       THEN senderQ' = Append(senderQ, hold[c]) /\ UNCHANGED fate
       ELSE fate' = Meet(hold[c], "leaked") /\ UNCHANGED senderQ
    /\ Take(c, <<>>, "idle")
    /\ UNCHANGED <<total, builder, loggroupQ, ring, rd, wr, packIndex, shutdown,
                   flushTmp, nextLog, ghosts>>

-----------------------------------------------------------------------------
(***************************************************************************)
(* log_producer_send_fun, run by the send threads, and without them by     *)
(* the flush thread and by the raw clients.  Return is where its caller    *)
(* goes on.                                                                *)
(***************************************************************************)
Return(t) == Take(t, <<>>, IF t = Destroyer THEN "drainSender" ELSE "idle")

SendExit(t) ==
    /\ pc[t] = "check" /\ shutdown
    /\ fate' = Meet(hold[t], "buffered")
    /\ Return(t)
    /\ UNCHANGED <<total, queues, shutdown, flushTmp, nextLog, ghosts>>

\* A mutation: shutdown does not stop the retries.
SendRegardless(t) ==
    /\ pc[t] = "check"
    /\ Goto(t, "post")
    /\ UNCHANGED <<total, queues, shutdown, hold, flushTmp, nextLog, fate, ghosts>>

SendStart(t) ==
    /\ pc[t] = "check" /\ ~shutdown
    /\ Goto(t, "post")
    /\ UNCHANGED <<total, queues, shutdown, hold, flushTmp, nextLog, fate, ghosts>>

\* A mutation: only what the service accepts is taken off totalBufferSize.
SendDoneBooked(t) ==
    /\ pc[t] = "post" /\ LockFree
    /\ \/ fate' = Meet(hold[t], "sent") /\ Plus(-ZipBytes(hold[t]))
       \/ fate' = Meet(hold[t], "discarded") /\ UNCHANGED total
    /\ Return(t)
    /\ UNCHANGED <<queues, shutdown, flushTmp, nextLog, ghosts>>

\* The service accepts the buffer, or rejects it for good.
SendDone(t) ==
    /\ pc[t] = "post" /\ LockFree
    /\ \E f \in {"sent", "discarded"} : fate' = Meet(hold[t], f)
    /\ Plus(-ZipBytes(hold[t]))
    /\ Return(t)
    /\ UNCHANGED <<queues, shutdown, flushTmp, nextLog, ghosts>>

\* A failure that is retried: the sleep, cut short by shutdown and by
\* networkRecover, is the time spent before the next check.
SendFailed(t) ==
    /\ pc[t] = "post"
    /\ Goto(t, "check")
    /\ UNCHANGED <<total, queues, shutdown, hold, flushTmp, nextLog, fate, ghosts>>

\* log_producer_send_thread: shutdown is read before a pop that may wait
SenderLoop(t) ==
    /\ pc[t] = "idle"
    /\ Goto(t, IF shutdown THEN "exit" ELSE "pop")
    /\ UNCHANGED <<total, queues, shutdown, hold, flushTmp, nextLog, fate, ghosts>>

SenderPop(t) ==
    /\ pc[t] = "pop" /\ senderQ # <<>>
    /\ Take(t, Head(senderQ), "check")
    /\ senderQ' = Tail(senderQ)
    /\ UNCHANGED <<total, builder, loggroupQ, ring, rd, wr, packIndex, shutdown,
                   flushTmp, nextLog, fate, ghosts>>

SenderPopTimeout(t) ==
    /\ pc[t] = "pop" /\ senderQ = <<>>
    /\ Goto(t, "idle")
    /\ UNCHANGED <<total, queues, shutdown, hold, flushTmp, nextLog, fate, ghosts>>

-----------------------------------------------------------------------------
(***************************************************************************)
(* log_producer_flush_thread                                               *)
(***************************************************************************)
FlushLoop ==
    /\ pc[Flush] = "idle"
    /\ Goto(Flush, IF shutdown THEN "exit" ELSE "drain")
    /\ UNCHANGED <<total, queues, shutdown, hold, flushTmp, nextLog, fate, ghosts>>

\* A mutation: a full ring is not noticed.
DrainPopUnchecked ==
    /\ pc[Flush] = "drain" /\ loggroupQ # <<>>
    /\ Take(Flush, Head(loggroupQ), "unbook")
    /\ loggroupQ' = Tail(loggroupQ)
    /\ UNCHANGED <<total, builder, ring, rd, wr, senderQ, packIndex, shutdown,
                   flushTmp, nextLog, fate, ghosts>>

\* One group is popped unless the ring is full or the queue empty.
DrainPop ==
    /\ pc[Flush] = "drain"
    /\ wr - rd < ParamQueueSize /\ loggroupQ # <<>>
    /\ Take(Flush, Head(loggroupQ), "unbook")
    /\ loggroupQ' = Tail(loggroupQ)
    /\ UNCHANGED <<total, builder, ring, rd, wr, senderQ, packIndex, shutdown,
                   flushTmp, nextLog, fate, ghosts>>

DrainEnd ==
    /\ pc[Flush] = "drain"
    /\ wr - rd >= ParamQueueSize \/ loggroupQ = <<>>
    /\ Goto(Flush, "try")
    /\ UNCHANGED <<total, queues, shutdown, hold, flushTmp, nextLog, fate, ghosts>>

Unbook ==
    /\ pc[Flush] = "unbook" /\ LockFree
    /\ Plus(-RawBytes(hold[Flush]))
    /\ packIndex' = packIndex + 1
    /\ packOf' = [l \in Logs |-> IF l \in Range(hold[Flush]) THEN packIndex + 1
                                                             ELSE packOf[l]]
    /\ Goto(Flush, "pack")
    /\ UNCHANGED <<builder, loggroupQ, ring, rd, wr, senderQ, shutdown, hold,
                   flushTmp, nextLog, fate, raced, forced, missed>>

\* serialize_with_malloc_compressed gives a buffer, or NULL and the group is gone
Pack ==
    /\ pc[Flush] = "pack" /\ LockFree
    /\ Plus(ZipBytes(hold[Flush]))
    /\ ring' = [ring EXCEPT ![wr % ParamQueueSize] = hold[Flush]]
    /\ wr' = wr + 1
    /\ Take(Flush, <<>>, "drain")
    /\ UNCHANGED <<builder, loggroupQ, rd, senderQ, packIndex, shutdown,
                   flushTmp, nextLog, fate, ghosts>>

PackFailed ==
    /\ pc[Flush] = "pack"
    /\ fate' = Meet(hold[Flush], "dropped")
    /\ Take(Flush, <<>>, "drain")
    /\ UNCHANGED <<total, queues, shutdown, flushTmp, nextLog, ghosts>>

\* A mutation: the builder is taken by its size and not by its age.
TryTakeFull ==
    /\ pc[Flush] = "try" /\ LockFree /\ Len(builder) >= LogsPerPackage
    /\ Take(Flush, builder, "tryPush")
    /\ builder' = <<>>
    /\ UNCHANGED <<total, loggroupQ, ring, rd, wr, senderQ, packIndex, shutdown,
                   flushTmp, nextLog, fate, ghosts>>

\* _try_flush_loggroup takes the builder under the lock when it has timed out ...
TryTake ==
    /\ pc[Flush] = "try" /\ LockFree /\ builder # <<>>
    /\ Take(Flush, builder, "tryPush")
    /\ builder' = <<>>
    /\ UNCHANGED <<total, loggroupQ, ring, rd, wr, senderQ, packIndex, shutdown,
                   flushTmp, nextLog, fate, ghosts>>

TrySkip ==
    /\ pc[Flush] = "try" /\ LockFree
    /\ Goto(Flush, "send")
    /\ UNCHANGED <<total, queues, shutdown, hold, flushTmp, nextLog, fate, ghosts>>

\* ... and pushes it after the unlock; hold keeps loggroup_size until it is booked
TryPush ==
    /\ pc[Flush] = "tryPush"
    /\ IF Len(loggroupQ) < BaseQueueSize
       THEN /\ loggroupQ' = Append(loggroupQ, hold[Flush])
            /\ Goto(Flush, "tryRead")
            /\ UNCHANGED <<hold, fate>>
       ELSE /\ fate' = Meet(hold[Flush], "dropped")
            /\ Take(Flush, <<>>, "send")
            /\ UNCHANGED loggroupQ
    /\ UNCHANGED <<total, builder, ring, rd, wr, senderQ, packIndex, shutdown,
                   flushTmp, nextLog, ghosts>>

\* totalBufferSize += loggroup_size without the lock: a read and a write
TryRead ==
    /\ pc[Flush] = "tryRead"
    /\ flushTmp' = total
    /\ Goto(Flush, "tryWrite")
    /\ UNCHANGED <<total, queues, shutdown, hold, nextLog, fate, ghosts>>

\* ... that overwrites the updates of other threads made in between, or is
\* overwritten by one of them (which had read before the write).
TryWrite ==
    /\ pc[Flush] = "tryWrite"
    /\ \/ total' = (flushTmp + RawBytes(hold[Flush])) % Width
       \/ flushTmp # total /\ UNCHANGED total
    /\ raced' = (raced \/ flushTmp # total)
    /\ flushTmp' = 0
    /\ Take(Flush, <<>>, "send")
    /\ UNCHANGED <<queues, shutdown, nextLog, fate, packOf, forced, missed>>

\* A mutation: the read cursor is advanced before the slot is read.
SendParamNext ==
    /\ pc[Flush] = "send" /\ SendThreads # {}
    /\ wr > rd /\ Len(senderQ) # SenderQueueSize
    /\ Take(Flush, ring[(rd + 1) % ParamQueueSize], "pushParam")
    /\ rd' = rd + 1
    /\ UNCHANGED <<total, builder, loggroupQ, ring, wr, senderQ, packIndex, shutdown,
                   flushTmp, nextLog, fate, ghosts>>

\* A mutation: isfull is not read.
SendParamUnchecked ==
    /\ pc[Flush] = "send" /\ SendThreads # {}
    /\ wr > rd
    /\ Take(Flush, ring[rd % ParamQueueSize], "pushParam")
    /\ rd' = rd + 1
    /\ UNCHANGED <<total, builder, loggroupQ, ring, wr, senderQ, packIndex, shutdown,
                   flushTmp, nextLog, fate, ghosts>>

\* The send phase with send threads: isfull is read before the push.
SendParam ==
    /\ pc[Flush] = "send" /\ SendThreads # {}
    /\ wr > rd /\ Len(senderQ) # SenderQueueSize
    /\ Take(Flush, ring[rd % ParamQueueSize], "pushParam")
    /\ rd' = rd + 1
    /\ UNCHANGED <<total, builder, loggroupQ, ring, wr, senderQ, packIndex, shutdown,
                   flushTmp, nextLog, fate, ghosts>>

\* "push always success": its result is not read
PushParam ==
    /\ pc[Flush] = "pushParam"
    /\ IF Len(senderQ) < SenderQueueSize
       THEN senderQ' = Append(senderQ, hold[Flush]) /\ UNCHANGED fate
       ELSE fate' = Meet(hold[Flush], "leaked") /\ UNCHANGED senderQ
    /\ Take(Flush, <<>>, "send")
    /\ UNCHANGED <<total, builder, loggroupQ, ring, rd, wr, packIndex, shutdown,
                   flushTmp, nextLog, ghosts>>

\* Without send threads one buffer is sent by the flush thread itself.
SendDirect ==
    /\ pc[Flush] = "send" /\ SendThreads = {}
    /\ wr > rd
    /\ Take(Flush, ring[rd % ParamQueueSize], "check")
    /\ rd' = rd + 1
    /\ UNCHANGED <<total, builder, loggroupQ, ring, wr, senderQ, packIndex, shutdown,
                   flushTmp, nextLog, fate, ghosts>>

SendEnd ==
    /\ pc[Flush] = "send"
    /\ wr = rd \/ (SendThreads # {} /\ Len(senderQ) = SenderQueueSize)
    /\ Goto(Flush, "idle")
    /\ UNCHANGED <<total, queues, shutdown, hold, flushTmp, nextLog, fate, ghosts>>

-----------------------------------------------------------------------------
(***************************************************************************)
(* destroy_log_producer_manager                                            *)
(***************************************************************************)
\* _push_last_loggroup, once no client is inside a call
PushLast ==
    /\ Running
    /\ \A c \in Clients \cup RawClients : pc[c] = "idle"
    /\ builder' = <<>>
    /\ IF builder = <<>>
       THEN UNCHANGED <<loggroupQ, total, fate>>
       ELSE IF Len(loggroupQ) < BaseQueueSize
       THEN /\ loggroupQ' = Append(loggroupQ, builder)
            /\ Plus(RawBytes(builder))
            /\ UNCHANGED fate
       ELSE /\ fate' = Meet(builder, "dropped")
            /\ UNCHANGED <<loggroupQ, total>>
    /\ Goto(Destroyer, "waitGroups")
    /\ UNCHANGED <<ring, rd, wr, senderQ, packIndex, shutdown, hold, flushTmp,
                   nextLog, ghosts>>

\* The three operands of the wait loop's condition, read one after the other:
\* one that holds sends the loop round, when none does the wait is over.  Each reads
\* one queue, and Flush may have a group in its hands on the way to that queue.
WaitOperand(nonEmpty, next) ==
    /\ Goto(Destroyer, IF nonEmpty THEN "waitGroups" ELSE next)
    /\ UNCHANGED <<total, queues, shutdown, hold, flushTmp, nextLog, fate,
                   packOf, raced, forced>>

InHand(at) == IF pc[Flush] \in at THEN Range(hold[Flush]) ELSE {}

WaitGroups ==
    /\ pc[Destroyer] = "waitGroups"
    /\ WaitOperand(loggroupQ # <<>>, "waitParams")
    /\ missed' = IF loggroupQ # <<>> THEN {} ELSE InHand({"tryPush"})

\* A mutation: the wait does not look at the ring.
WaitParamsSkipped ==
    /\ pc[Destroyer] = "waitParams"
    /\ WaitOperand(FALSE, "waitSender")
    /\ missed' = missed \cup InHand({"unbook", "pack"})

WaitParams ==
    /\ pc[Destroyer] = "waitParams"
    /\ WaitOperand(wr - rd > 0, "waitSender")
    /\ missed' = IF wr - rd > 0 THEN {} ELSE missed \cup InHand({"unbook", "pack"})

WaitSender ==
    /\ pc[Destroyer] = "waitSender"
    /\ WaitOperand(senderQ # <<>>, "shutdown")
    /\ missed' = IF senderQ # <<>> THEN {} ELSE missed

\* The loop ends with something left when waitCount reaches total_wait_count.
WaitTimeout ==
    /\ \/ pc[Destroyer] = "waitGroups" /\ loggroupQ # <<>>
       \/ pc[Destroyer] = "waitParams" /\ wr - rd > 0
       \/ pc[Destroyer] = "waitSender" /\ senderQ # <<>>
    /\ Goto(Destroyer, "shutdown")
    /\ forced' = TRUE
    /\ UNCHANGED <<total, queues, shutdown, hold, flushTmp, nextLog, fate,
                   packOf, raced, missed>>

Shutdown ==
    /\ pc[Destroyer] = "shutdown"
    /\ shutdown' = TRUE
    /\ Goto(Destroyer, "joinFlush")
    /\ UNCHANGED <<total, queues, hold, flushTmp, nextLog, fate, ghosts>>

\* A mutation: the flush thread is not joined.
JoinFlushAtOnce ==
    /\ pc[Destroyer] = "joinFlush"
    /\ Goto(Destroyer, "joinSend")
    /\ UNCHANGED <<total, queues, shutdown, hold, flushTmp, nextLog, fate, ghosts>>

JoinFlush ==
    /\ pc[Destroyer] = "joinFlush" /\ pc[Flush] = "exit"
    /\ Goto(Destroyer, "joinSend")
    /\ UNCHANGED <<total, queues, shutdown, hold, flushTmp, nextLog, fate, ghosts>>

\* A mutation: the send threads are not joined.
JoinSendAtOnce ==
    /\ pc[Destroyer] = "joinSend"
    /\ Goto(Destroyer, "drainSender")
    /\ UNCHANGED <<total, queues, shutdown, hold, flushTmp, nextLog, fate, ghosts>>

\* The send threads are joined; loggroup_queue is freed with what is in it.
JoinSend ==
    /\ pc[Destroyer] = "joinSend"
    /\ \A t \in SendThreads : pc[t] = "exit"
    /\ Goto(Destroyer, "drainSender")
    /\ UNCHANGED <<total, queues, shutdown, hold, flushTmp, nextLog, fate, ghosts>>

\* What is left in sender_data_queue goes through log_producer_send_fun ...
DrainSender ==
    /\ pc[Destroyer] = "drainSender" /\ senderQ # <<>>
    /\ Take(Destroyer, Head(senderQ), "check")
    /\ senderQ' = Tail(senderQ)
    /\ UNCHANGED <<total, builder, loggroupQ, ring, rd, wr, packIndex, shutdown,
                   flushTmp, nextLog, fate, ghosts>>

\* A mutation: sender_data_queue is freed with what is in it.
FreeTailAtOnce ==
    /\ pc[Destroyer] = "drainSender"
    /\ Goto(Destroyer, "freed")
    /\ UNCHANGED <<total, queues, shutdown, hold, flushTmp, nextLog, fate, ghosts>>

\* ... and destroy_log_producer_manager_tail frees the rest.
FreeTail ==
    /\ pc[Destroyer] = "drainSender" /\ senderQ = <<>>
    /\ Goto(Destroyer, "freed")
    /\ UNCHANGED <<total, queues, shutdown, hold, flushTmp, nextLog, fate, ghosts>>

-----------------------------------------------------------------------------
ClientStep(c) ==
    AddRefused(c) \/ AddAdmitted(c) \/ AddQueueFull(c) \/ AddCreate(c) \/ AddLocked(c)
RawStep(c) == RawBook(c) \/ RawPush(c)
SendFun(t) == SendExit(t) \/ SendStart(t) \/ SendDone(t) \/ SendFailed(t)
SenderStep(t) == SenderLoop(t) \/ SenderPop(t) \/ SenderPopTimeout(t)
FlushStep ==
    \/ FlushLoop \/ DrainPop \/ DrainEnd \/ Unbook \/ Pack \/ PackFailed
    \/ TryTake \/ TrySkip \/ TryPush \/ TryRead \/ TryWrite
    \/ SendParam \/ PushParam \/ SendDirect \/ SendEnd
DestroyStep ==
    \/ WaitGroups \/ WaitParams \/ WaitSender \/ WaitTimeout \/ Shutdown
    \/ JoinFlush \/ JoinSend \/ DrainSender \/ FreeTail

\* Nothing moves any more once the producer is freed.
Freed == pc[Destroyer] = "freed" /\ UNCHANGED vars

Next ==
    \/ \E c \in Clients : ClientStep(c)
    \/ \E c \in RawClients : RawStep(c)
    \/ \E t \in Threads : SendFun(t)
    \/ \E t \in SendThreads : SenderStep(t)
    \/ FlushStep \/ PushLast \/ DestroyStep \/ Freed

Spec == Init /\ [][Next]_vars

\* Every thread keeps running.  The clock moves on: a builder that stays is found
\* timed out, and waitCount is reached by a wait loop that keeps going round.
\* Clients need not call, destroy need not be called, the service need not answer.
Fairness ==
    /\ \A c \in Clients : WF_vars(AddQueueFull(c) \/ AddCreate(c) \/ AddLocked(c))
    /\ \A c \in RawClients : WF_vars(RawPush(c))
    /\ \A t \in Threads : WF_vars(SendFun(t))
    /\ \A t \in SendThreads : WF_vars(SenderStep(t))
    /\ WF_vars(FlushStep) /\ SF_vars(TryTake)
    /\ WF_vars(DestroyStep) /\ SF_vars(WaitTimeout)

FairSpec == Spec /\ Fairness

-----------------------------------------------------------------------------
(***************************************************************************)
(* Properties                                                              *)
(***************************************************************************)
\* The types of the variables.
TypeOK ==
    /\ total \in 0 .. Width - 1 /\ flushTmp \in 0 .. Width - 1
    /\ builder \in Seq(Logs) /\ loggroupQ \in Seq(Seq(Logs))
    /\ ring \in [0 .. ParamQueueSize - 1 -> Seq(Logs)]
    /\ rd \in Nat /\ wr \in Nat /\ packIndex \in Nat
    /\ senderQ \in Seq(Seq(Logs))
    /\ shutdown \in BOOLEAN
    /\ pc \in [Threads -> PCs] /\ hold \in [Threads -> Seq(Logs)]
    /\ nextLog \in Nat \ {0}
    /\ fate \in [Logs -> Fates] /\ packOf \in [Logs -> Nat]
    /\ raced \in BOOLEAN /\ forced \in BOOLEAN /\ missed \subseteq Logs

\* The parameters waiting in send_param_queue.
Pending == [i \in 1 .. wr - rd |-> ring[(rd + i - 1) % ParamQueueSize]]

\* The group in Flush's hands is also in loggroup_queue while the unlocked += runs.
Handed == [t \in Threads |-> IF pc[t] \in {"tryRead", "tryWrite"} THEN <<>> ELSE hold[t]]

Held(l) ==
    Cardinality({<<"builder", i>> : i \in {j \in DOMAIN builder : builder[j] = l}})
    + Cardinality({i \in DOMAIN loggroupQ : l \in Range(loggroupQ[i])})
    + Cardinality({i \in DOMAIN Pending : l \in Range(Pending[i])})
    + Cardinality({i \in DOMAIN senderQ : l \in Range(senderQ[i])})
    + Cardinality({t \in Threads : l \in Range(Handed[t])})

\* A log that was accepted and has met no fate is in exactly one place of the
\* pipeline, and a log that was sent, discarded, reported, dropped or leaked is
\* in none: no buffer is posted or reported twice, overwritten in the ring, or
\* lost on the way from the builder through the two queues and the ring.
OneHome == \A l \in Logs : Held(l) = IF fate[l] = "held" THEN 1 ELSE 0

InQueue(q, l) == \E i \in DOMAIN q : l \in Range(q[i])
Holds(t, at, l) == pc[t] \in at /\ l \in Range(hold[t])

\* Logs whose loggroup_size, and logs whose compressed size, totalBufferSize counts.
RawBooked == {l \in Logs : /\ InQueue(loggroupQ, l) \/ Holds(Flush, {"unbook"}, l)
                           /\ ~Holds(Flush, {"tryRead", "tryWrite"}, l)}
ZipBooked == {l \in Logs : \/ fate[l] \in {"buffered", "leaked"}
                           \/ InQueue(Pending, l) \/ InQueue(senderQ, l)
                           \/ \E t \in Threads :
                                Holds(t, {"raw", "pushParam", "check", "post"}, l)}
BookedBytes == LogSize * Cardinality(RawBooked) + ZipSize * Cardinality(ZipBooked)

\* As long as the unlocked += of _try_flush_loggroup has not overwritten another
\* thread's update, totalBufferSize is the size of what waits in loggroup_queue
\* and, compressed, from the ring to the answer of the service - plus the
\* buffers that the code never takes off: reported at shutdown, or leaked.
Accounting == ~raced => total = BookedBytes % Width

\* How far a producer that gets no raw buffers can exceed maxBufferBytes: add_log
\* reads totalBufferSize before it locks, and totalBufferSize counts neither the
\* builder, nor the builder that _try_flush_loggroup has taken, nor the group that
\* the flush thread has popped and not yet compressed.  (A group is supposed not
\* to grow when it is compressed.)
InFlushHand ==
    IF pc[Flush] \in {"tryPush", "tryRead", "tryWrite"} THEN RawBytes(hold[Flush])
    ELSE IF pc[Flush] = "pack" THEN ZipBytes(hold[Flush]) ELSE 0
Uncounted == RawBytes(builder) + LogSize * Cardinality(InAdd) + InFlushHand
Excess(inHand) == LogSize * (LogsPerPackage - 1 + Cardinality(Clients)) + inHand
Overshoot == ~raced /\ ZipSize <= LogSize =>
    \/ total + Uncounted <= MaxBufferBytes + Excess(LogSize * (LogsPerPackage - 1))
    \/ total + Uncounted <= MaxBufferBytes + Excess(ZipSize * LogsPerPackage)

\* Pack indices leave in the order they were given: from sender_data_queue
\* through the parameter in Flush's hands to the ring they only increase.  (Raw
\* buffers, which have none, may come between any two packages.)
Outgoing == senderQ \o (IF pc[Flush] = "pushParam" THEN <<hold[Flush]>> ELSE <<>>) \o Pending
SendOrder == \A i, j \in DOMAIN Outgoing : i < j =>
    \A a \in Range(Outgoing[i]), b \in Range(Outgoing[j]) :
        packOf[b] > 0 => packOf[a] < packOf[b]

\* The flush thread's push to sender_data_queue, of which the code says "push always
\* success" and ignores the result, does succeed in a producer that gets no raw
\* buffers: nobody else fills the queue after isfull has been read.
PushAlwaysSuccess == RawClients = {} /\ pc[Flush] = "pushParam" => Len(senderQ) < SenderQueueSize

\* The server orders the logs of a client, its context, by pack index.  A package
\* that gets a greater index than a later log's has been overtaken between the
\* unlock and the push of _try_flush_loggroup; it was not full, so packages that
\* fill up are never out of order.
OvertakenNotFull == \A a, b \in Logs :
    a < b /\ packOf[b] > 0 /\ packOf[a] > packOf[b] =>
        Cardinality({l \in Logs : packOf[l] = packOf[a]}) < LogsPerPackage

\* From the moment destroy_log_producer_manager frees the queues no other thread
\* is inside the producer, and what is then still held, because it can no longer
\* reach sender_data_queue, is in loggroup_queue or in the ring.
Freeing == pc[Destroyer] \in {"drainSender", "check", "freed"}
Quiescent == Freeing =>
    /\ \A t \in SendThreads \cup {Flush} : pc[t] = "exit"
    /\ \A c \in Clients \cup RawClients : pc[c] = "idle"
    /\ builder = <<>>
    /\ pc[Destroyer] = "freed" =>
         \A l \in Logs : fate[l] = "held" => InQueue(loggroupQ, l) \/ InQueue(Pending, l)

\* When the wait for the queues to drain did not time out, every accepted log was
\* answered by the service, reported to the callback, or dropped before - except those
\* of the one group that the last round of the wait, which reads three queues one after
\* the other, has passed by: in Flush's hands on the way to loggroup_queue when that was
\* read, or on the way to the ring when that was.
CleanExit == pc[Destroyer] = "freed" /\ ~forced =>
    \A l \in Logs : fate[l] = "held" => l \in missed

\* The producer keeps what LogDelivery promises: whatever the interleaving of clients,
\* raw buffers, flush thread, send threads and destroy, each package is answered,
\* reported at exit or lost once and as a whole, and reported only after shutdown.
Delivery == INSTANCE LogDelivery WITH package <- packOf, packages <- packIndex, closed <- shutdown
DeliverySpec == Delivery!Spec

\* destroy_log_producer returns, even when the service never answers well.
DestroyReturns == ~Running ~> pc[Destroyer] = "freed"

\* With send threads, a builder never waits for ever for its package to fill.
BuilderFlushed == builder # <<>> ~> builder = <<>>

-----------------------------------------------------------------------------
(***************************************************************************)
(* What the documentation says and the code does not do                    *)
(***************************************************************************)
\* save_send_buffer.md: data not sent when the producer is destroyed is passed
\* to the callback with LOG_PRODUCER_SEND_EXIT_BUFFERED.
ExitReportsUnsent == pc[Destroyer] = "freed" => \A l \in Logs : fate[l] # "held"

\* log_producer_client.h: add_log answers LOG_PRODUCER_DROP_ERROR if the buffer is
\* full, so never while the producer holds nothing.
NotFullWhenEmpty == (\A l \in Logs : fate[l] # "held") => total <= MaxBufferBytes

\* log_producer_client.h: "ok if success, LOG_PRODUCER_DROP_ERROR if buffer is full":
\* the log of a call that is answered with LOG_PRODUCER_OK has been kept.
OkMeansKept == [][\A l \in Logs : fate[l] = "new" => fate'[l] \in {"new", "held"}]_vars
=============================================================================
