# The log producer of aliyun-log-c-sdk, in TLA+

This directory specifies, model-checks and proves properties of the part of the
SDK that is concurrent: the producer, from the call that adds a log to the
answer of the log service, and the producer's destruction. Paths are relative to
the repository.

## 1. The system

| Part | Source | State | Operations |
|---|---|---|---|
| queue | `src/log_queue.c` | `data`, `head`, `tail`, a mutex, a condition variable | push, pop (waits once), trypop, size, isfull |
| producer manager | `src/log_producer_manager.c` | `builder`, `loggroup_queue`, the ring `send_param_queue` with its two cursors, `sender_data_queue`, `totalBufferSize`, `pack_index`, `shutdown`, the threads | add_log, send_raw_buffer, the flush thread, destroy |
| sender | `src/log_producer_sender.c` | per call: the buffer, last error, back-off; shared: `networkRecover`, the cached credentials | the send thread's loop, `log_producer_send_fun`, on_send_done |
| client | `src/log_producer_client.c` | `valid_flag`; the process-wide sender pool | add_log, add_raw_log_buffer, destroy, env_init / env_destroy |
| configuration | `src/log_producer_config.c` | settings, the static security token | setters, reset_security_token |
| log group builder | `src/log_builder.c` | the encoded group and its size | add_log_full, add_tag, serialize, fix_log_group_time |
| request | `src/log_api.c` | none | sign and post one buffer (libcurl) |
| platform and vendored code | `src/log_multi_thread.h`, `lz4.c`, `zstd.c`, `sds.c`, digests | none | |

How they interact. A client thread appends its log to the `builder` under the
manager's lock. A builder that is full, or too old when a log arrives, is pushed to
`loggroup_queue` by that client; one that is too old while no log arrives is pushed
by the flush thread (`_try_flush_loggroup`). The flush thread pops groups, compresses
them and writes them to the ring, and from the ring pushes them to
`sender_data_queue`, from which the producer's send threads pop, post and retry.
With no send threads the flush thread posts, one buffer per round. A raw buffer,
saved at an earlier exit, enters at `sender_data_queue`, or is posted by the client
thread itself. `totalBufferSize` follows the bytes along this way and is what
`maxBufferBytes` limits. `destroy_log_producer` pushes the last builder, waits for
the queues to empty or a timeout, sets `shutdown`, joins the threads, reports what
is left in `sender_data_queue` and frees everything.

What is hard in it, and so what the properties are about:

* The lock covers single updates, not the way of a group: between two queues a group
  is in a thread's hands, where neither the wait of destroy nor `totalBufferSize` sees it.
* `totalBufferSize` is updated by four kinds of threads, once without the lock, and
  its limit is read without it.
* The timed-out builder is taken under the lock and pushed after it; "is it full" and
  "push" are two critical sections; a queue signals after its unlock.
* Shutdown races retries without end, a wait loop with a timeout, and three queues
  that are read one after the other.

`PROJECT.json` lists these hazards one by one at their lines, with the properties that
cover each, and those that no property covers yet.

What makes each part correct:

* queue - it is a bounded FIFO; nobody sleeps on an item.
* manager - a log is in exactly one place until it meets exactly one fate; the byte
  count is the sum of what it stands for; the limit holds up to a known excess;
  buffers leave in the order of their pack indices; nothing is freed while in use;
  destroy returns, and unless it gave up it loses at most the one group that its wait overlooked
  in the flush thread's hands; no builder waits for ever.
* sender - a retry sleeps for as long as its error asks, old times are repaired, shutdown
  ends every retry, a recovered network is noticed.
* keys - a request is signed with keys that belong together and have not expired; newer
  credentials are not replaced by older ones; fetches keep their distance.
* global pool - a producer is freed exactly once, after its last buffer; nothing is
  left when the environment is destroyed.
* builder - the size it announces is the size it writes, what it writes fits its buffers, the
  bytes are protobuf's, and new times change nothing else.

## 2. Modules

| Module | What it is |
|---|---|
| `BoundedFifo` | the promise of `log_queue.h`: a FIFO of at most `Size` items |
| `LogQueue` | `log_queue.c`: ring, cursors, the wait and the late signal |
| `LogDelivery` | what a producer promises: each package is answered, reported or lost once and as a whole |
| `LogProducerManager` | one producer: clients, flush thread, send threads, destroyer |
| `LogProducerSender` | the loop of `log_producer_send_fun` in several send threads |
| `Credentials` | the credentials callback, shared by the send threads |
| `SecurityToken` | the static keys of the configuration, replaced while they are copied |
| `Signing` | `_get_credentials_for_sign`: `Credentials` and `SecurityToken` composed |
| `Reclamation` | what a reference count promises: an object is freed once, after its last user |
| `GlobalSenders` | several producers over the process-wide pool of send threads |
| `LogGroupBuilder` | `log_builder.c`: the encoding of a group, its sizes and buffers |
| `LogQueue_proofs`, `LogProducerSender_proofs`, `GlobalSenders_proofs`, `LogGroupBuilder_proofs` | proofs about the module they are named for |
| `LogProducerManager_proofs` | the producer's invariant: places, joins, the ring, no log lost; the wait of destroy; one home for each log |
| `LogProducerManager_package_proofs` | the order of packages, the refinement of `LogDelivery`, what packages hold and what `totalBufferSize` counts |
| `Signing_proofs` | proofs about `Credentials` and `SecurityToken`, and so about `Signing` |
| `QueueLemmas` | lemmas several proofs use: positions modulo a ring's size, how often something is in a queue before and after a push or a pop, cardinalities |
| `MC...` | instances for TLC (symmetry sets) |

How they fit together. `LogProducerManager` takes each queue as a sequence, since `LogQueue`
implements `BoundedFifo`, and a group as the sequence of its logs, which `LogGroupBuilder`
encodes; its `SendFailed` stands for everything that `LogProducerSender` does between two posts, and
the keys of a post come from `Signing`. What the queues and threads are for is stated without them in
`LogDelivery`, which `LogProducerManager` implements. `GlobalSenders` begins where `LogProducerManager` has put a
buffer into `send_param_queue`, in the mode in which the process has a pool.

### LogQueue

`data`, `head` and `tail` are the fields of `struct _log_queue`; `result` is what each
thread's last call returned, `pc` where it is in its call. What happens under the mutex
is one action. Two calls have more than one step: `log_queue_push` unlocks before it
signals (`Push`, then `Signal`), and the wait of `log_queue_pop` releases the mutex
(`PopWait`, then `PopResume`, which may come by signal, by timeout or spuriously, and finds
whatever the ring then holds).

### LogProducerManager

A log is the number of its turn in `add_log`'s critical section; a group is the sequence of
its logs. The three queues are sequences, since `LogQueue` implements a bounded FIFO;
the ring is kept as the code keeps it, slots and two cursors. `pc` and `hold` are each
thread's place in its code and the group in its hands. `total` is the uint32
`totalBufferSize`.

| Code | Actions |
|---|---|
| `log_producer_manager_add_log` | `AddRefused`, `AddAdmitted` (the unlocked check), then `AddQueueFull`, or `AddLocked`, before it `AddCreate` if there is no builder |
| `log_producer_manager_send_raw_buffer` | `RawBook`, then `RawPush` or, without send threads, the send function |
| `log_producer_flush_thread` | `FlushLoop`; `DrainPop`, `Unbook`, `Pack`, `PackFailed`, `DrainEnd`; `TryTake`, `TrySkip`, `TryPush`, `TryRead`, `TryWrite` (`_try_flush_loggroup`); `SendParam`, `PushParam`, `SendDirect`, `SendEnd` |
| `log_producer_send_thread` | `SenderLoop`, `SenderPop`, `SenderPopTimeout` |
| `log_producer_send_fun`, `log_producer_on_send_done` | `SendStart`, `SendExit`, `SendDone`, `SendFailed` |
| `destroy_log_producer_manager` | `PushLast`; `WaitGroups`, `WaitParams`, `WaitSender`, `WaitTimeout`; `Shutdown`, `JoinFlush`, `JoinSend`; `DrainSender`, `SendExit`, `FreeTail` |

What a client does under the producer's lock is one step, except where a builder is made: the queue has
its own lock, and `_try_flush_loggroup` pushes after it has released the producer's. `AddCreate` has
looked whether the queue is full and keeps the lock (`LockFree` is false) until `AddLocked`, whose push may
therefore fail too.

Time is abstracted: whether a package is too old, a wait has timed out, or a request fails
is a free choice at each point where the code asks. A failed request that the code retries
goes back to the check of `shutdown`; the time slept in between is time spent before the
next step. A client may not call the producer any more once destroy has been called, and
destroy is called when no call is in progress: the code frees the client structure without
any protection, so that this is its caller's duty.

Some variables are not the program's: `fate` and `packOf` record what became of a log and with which
pack index it left; `raced` and `forced` record that the unlocked `+=` overwrote another update, and that the wait
of destroy timed out; `missed` is the set of the logs in the flush thread's hands that the last round of that wait
has passed by: between two places when one of them was read. They restrict no action. `fate` and `packOf`, with `pack_index` and `shutdown`, are also all that `LogDelivery`
sees of a producer.

The bounds of the model are `MaxLogs` (logs and raw buffers ever accepted) and `MaxPush` in
`LogQueue`; each is in one guard.

### GlobalSenders

A producer's flush thread makes any number of buffers in a round (`FlushRound`); with a pool it
counts a reference, takes the buffer from its ring (`Reserve`) and pushes it until the shared queue takes it
(`Push`). A worker pops (`WorkerPop`), runs the send function (`SendNothing` for a destroy parameter,
`SendExit`, `SendStart`, `SendDone`, `SendFailed`) and drops the reference (`Release`, `FreeLast`).
`destroy_log_producer_manager` is `Shutdown`, `JoinFlush` and `PushDestroyParam`, or `FreeTail`
without a pool; `log_producer_env_destroy` is `EnvDestroy`, `EnvJoin`, `EnvDrain` and `EnvDone`. It
is called after every producer's destroy has returned, as `log_producer_client.h` asks. One pool is
made in the life of the process; producers may exist before it. `frees`, `fate` and `refCount` of a
freed producer are kept, so that a second free or a late use is visible. Raw buffers bypass
the pool (a client posts them itself) and are in `LogProducerManager` only.

### LogProducerSender

Each sender takes a buffer, checks `shutdown` (`Exit`), rebuilds times that are old, from the future, or were
refused (`Rebuild`), and posts. An answer is a record of what the code reads of it: the class of the
status, whether there is a request id, whether the text holds `RequestTimeExpired`. `SendEnds` and
`SendFailed` are the two outcomes of `log_producer_on_send_done`; the sleep ends by itself
(`SleepOver`) or by one of the two flags (`WakeEarly`), and whoever wakes clears `networkRecover`.

### Credentials, SecurityToken, Signing

`Credentials` has a clock (`Tick`, up to `MaxTime`); credentials are their expire time. The time is read
before the lock (`FetchTime`), the need for a fetch decided and the fetch noted under it
(`FetchBegin`, `FetchSkip`), the callback runs outside it and takes any time (`CallbackIssues`,
`FetchFailed`), the result is published under it again (`Publish`), and its expire time read once more for
the log after the unlock (`LogExpire`). `first`, which records that a fetch found no credentials
at all, `late`, that the last fetch to end failed or took long, and `rushed`, that what is cached came from a
`first` fetch, restrict no action.

`SecurityToken` copies string by string. Whether a lock exists, creating it, and entering it are
separate steps, and `CS_LEAVE` unlocks whichever lock the pointer has by then. `Init` lets the
first reset happen at configuration time, as `log_producer_config.h` asks, or not. `states` and
`since` record what each reset left and when a copy began. Unsynchronised copies are taken string by
string; what a torn string is made of does not matter, because nothing is claimed of them.

`Signing` chooses between the two, as `_get_credentials_for_sign` does.

### LogGroupBuilder

A byte is a number; the seven bits of a varint's byte are `Base` values, so that `Base = 4` reaches
varints of five bytes with times below 1024. Content is `Lengths` many copies of the byte that
begins a log, the worst for `fix_log_group_time`. The size of a log is computed (`LogSize`,
`PairSize`) and its bytes are written (`LogBytes`) by the formulas of the code, side by side, and
`GroupMessage` states protobuf's format independently. Its bounds are `MaxPairs` (the pairs of a log given to
`add_log_full` at once) and `MaxFields` (logs, fields, tags, topic and source together). Buffers have their bytes and `max_buffer_len`; the
key/value interface keeps the open log at a cursor behind a reserved header.

The lengths that `_adjust_buffer` computes are `uint32_t` and wrap at `Wrap`, which lies between one and four times what the
four bytes of `Base` values hold, as 2^32 does; so `new_len << 2` is too small from a quarter of `Wrap` on. A log of half
of it or more ends the program at the assert of `add_log_full` (`AddLogFull`'s guard). That a group is smaller than
`Wrap` is a bound of the model.

`fix_log_group_time` is given a length but compares only the places of the logs' headers with it. It works in
a copy that is as long as the group, so `Fix` walks over the group and the memory `Behind` it, whose first byte is
chosen freely between a time's header and another byte (it is all that is ever read there), and
`overrun` records that this memory was changed.

## 3. What is checked

| Run | Instance | Checks | Distinct states |
|---|---|---|---|
| `queue` | 4 threads, 2 items, 2 slots, 5 pushes | `TypeOK`, `RingOK`, `NoLostWakeup`, `FifoSpec` | 32 thousand |
| `threaded` | 2 clients, 2 send threads, queues of 1 and 2, 4 logs, packages of 2 | `TypeOK`, `OneHome`, `Accounting`, `SendOrder`, `PushAlwaysSuccess`, `Quiescent`, `CleanExit` | 2.2 million |
| `raw` | 1 client, 1 raw client, 1 send thread, 3 logs, fair | `DeliverySpec`, `Accounting`, `BuilderFlushed` | 600 thousand |
| `direct` | the same without send threads, fair | `DestroyReturns` | 83 thousand |
| `limit` | 2 clients, no send thread, queues of 2 and 4, limit 1, 5 logs | `Overshoot`, `OvertakenNotFull` | 1.2 million |
| `pool` | 2 producers, 2 workers, a queue of 1, 2 buffers, fair | `TypeOK`, `RefCounted`, `NoUseAfterFree`, `OneHome`, `NothingLeft`, `ReclaimSpec`, `Reclaimed`, `DestroyReturnsIfServed` | 95 thousand |
| `sender` | 2 send threads, sleeps of 1 to 3, fair | `TypeOK`, `BackOff`, `GetsThrough`, `ShutdownEnds`, `RecoverHeard` | 6 thousand |
| `signing` | 2 senders; 9 seconds, lifetime 6, advance 1, interval 2; or 2 resetters, 2 resets | `TypeOK`, `FetchSpacing`, `SignedFresh`, `Renewed`, `LoggedAlive`, `ThreadSafe` | 1.3 million |
| `builder` | base 4, lengths that wrap at 1024, contents of 0 and 55 bytes, logs of up to 2 pairs, 4 parts | `WithinBuffers`, `SizeAnnounced`, `Encoded`, `TimesFixed` | 67 thousand |

The queue and the producer:

* `FifoSpec` - the ring implements `BoundedFifo` (a refinement: `queue <- Contents`).
* `NoLostWakeup` - while a pop waits, every item in the ring has a signal under way.
* `OneHome` - an accepted log is in exactly one place of the pipeline until it meets
  its fate, and in none afterwards: no loss, no double posting, no overwritten slot.
* `DeliverySpec` - the producer implements `LogDelivery`: a log is accepted once, and before shutdown; a package
  gets one index, of logs that had none; the service's answer, the report at exit, a drop or a leak is that of one
  whole package (or raw buffer), once; and only after shutdown is anything reported as unsent. What still waits
  when the producer is freed keeps waiting: the abstract specification promises no progress.
* `Accounting` - `totalBufferSize` is the size of exactly what it stands for, modulo 2^32, unless
  the unlocked `+=` has overwritten something. It says too what is never taken off:
  buffers reported at shutdown and raw buffers whose push failed.
* `Overshoot` - how far `maxBufferBytes` is exceeded at most by a producer without raw
  buffers: the packages being filled and in the flush thread's hands, and one log per client.
* `SendOrder` - pack indices leave in increasing order, down to the ring's slots.
* `OvertakenNotFull` - a package gets a later pack index than younger logs only if it had not been full:
  it was overtaken between the unlock and the push of `_try_flush_loggroup`. So the order in which
  the server shows a client's logs is theirs except around a timed-out package.
* `PushAlwaysSuccess` - the push of which the code says so does succeed as long as no raw
  buffers share the queue; with them it may fail, and the package leaks (in `raw`, as a fate of its own).
* `Quiescent` - when destroy frees the queues, every other thread is gone, and what is still
  held is where nobody can reach it any more.
* `CleanExit` - a destroy that did not give up loses at most the logs of the one group that the flush thread was
  carrying past the last round of its wait (`missed`): popped from `loggroup_queue` and not yet in the ring when
  both were read, or on its way to `loggroup_queue` when that was read.
* `DestroyReturns` - destroy returns even if the service always fails.
* `BuilderFlushed` - with send threads no builder waits for ever.

The pool:

* `RefCounted` - `ref_count` is one for the owner or its destroy parameter, and one for each buffer in
  the pool, at every moment, also while a buffer is in a pusher's or a worker's hands.
* `ReclaimSpec` - the pool implements `Reclamation`: only an owner lets buffers in, and a producer is
  freed once, after owner and buffers have let go, in whatever order they do.
* `NoUseAfterFree` - when a producer is freed no thread, queue slot or call of destroy refers to it.
* `OneHome` - a buffer taken from its ring is in one place until it is answered or reported.
* `NothingLeft` - after `log_producer_env_destroy` every producer is freed and every buffer had its end.
* `Reclaimed` - once all producers are being shut down they are all freed, whatever the service does.
* `DestroyReturnsIfServed` - destroy returns unless somebody is always sending. The condition is
  needed: with one worker that retries another producer's buffer for ever, the push of
  the destroy parameter (manager.c:408) spins for ever. `README.md:134` bounds the time of a destroy by
  the sum of three timeouts; in pool mode neither these nor `shutdown` end that spin.

The sender:

* `BackOff` - a sleep lasts at least the base of its error, and less than twice the maximum, over
  any mixture of errors: the code doubles below the maximum and so overshoots it.
* `GetsThrough` - a service that, from some moment on, refuses nothing but old times gets every LZ4 buffer,
  provided that sleeps end. A rebuilt buffer serves for one attempt only, while `builder_time` is
  advanced for good: it is the answer "time expired" that repairs the next attempt.
* `ShutdownEnds` - shutdown ends every retry, also in the middle of an hour's sleep.
* `RecoverHeard` - `networkRecover`, set while somebody sleeps, is taken by one of the sleepers. By one:
  the flag is cleared by the first, so "force send data when network recover"
  (`log_producer_client.h:78`) holds for one buffer.

Keys (the callback's credentials, if they live longer than `Advance + 2 * MinInterval`; for `SignedFresh` also
with `MinInterval` at most `Advance + 1`, which in the code are 5 and 120):

* `FetchSpacing` - two renewals under way were begun `MinInterval` apart, whoever began them.
* `Renewed` - newer credentials are not replaced by older ones, except when the fetch that replaces or the
  one replaced was in the rush of the first fetch, which nothing limits, or took `MinInterval` or more.
* `LoggedAlive` - unless one of the two senders is in that rush or slow, credentials are not freed under the
  log call that reads them after the unlock.
* `SignedFresh` - a request is signed with unexpired credentials, unless a fetch failed or was slow, or
  another sender is just fetching: then this one neither fetches nor waits, and posts with
  what is cached, although that may have expired long ago (after an idle night, say). The service
  answers 401, and that discards the data.
* `ThreadSafe` - a sender copies id, secret and token as one reset left them, not before its call, and no
  lock is left held, as long as at most one lock was ever created and the sender found it. Both
  conditions are needed: without them TLC shows mixed keys.

The builder:

* `WithinBuffers` - as long as a group is below a quarter of `Wrap` (1 GB in the code), nothing is written beyond a buffer
  while it grows, in an open log whose header outgrows the three bytes reserved for it, or when the group is serialized.
  Above, it is not claimed: the lengths of `_adjust_buffer` wrap and TLC shows buffers too small. `fix_log_group_time` does write
  behind the copy of the group, up to five bytes, but only when the group ends in an `Exposed` log: one whose time
  comes first and has fewer than five bytes of the group behind its header, or an empty one at the end that happens to be
  followed by 0x08. Both take a log of the key/value interface, sent as a raw buffer without tags behind it, and a
  time that is old or refused. No document promises otherwise, so the property states the behaviour as its exact exception.
* `SizeAnnounced` - `loggroup_size` is the size that the group has when it is serialized now.
* `Encoded` - the group is, byte by byte, protobuf's encoding of what the caller gave.
* `TimesFixed` - `fix_log_group_time` gives every log the new time and changes nothing else. The exception
  is stated: a time of fewer than five bytes, which only the key/value interface can write, is overrun.

Why the bounds are enough. Queues of one and ring and sender queue of two are full and empty again
and again with three or four logs; a package of two gives full and timed-out groups;
the ring's and the queue's cursors pass their size, so that every slot is reused; two clients and two
send threads give every pairwise race, and no action tells more than two threads of a kind
apart. `limit` lets both clients pass the check at once while a package is in the flush thread's
hands and another in the builder, and its queue of two lets one package overtake another. `LogSize` 2 and
`ZipSize` 1 tell the booking of raw and of compressed bytes apart; `Width` 64 stands for 2^32 and is
larger than anything legally counted, so that a wrap is visible. In `pool` a queue of one makes each producer
fill it under the other, and two workers finish a buffer and the destroy parameter of one
producer in either order. In `sender` a maximum of 3 over bases 1 and 2 is overshot by one
kind of error and not by the other. In `signing` nine seconds hold a first fetch, an expiry and a
renewal by the other sender; two resets are the least that can race, and a third does nothing
that one of these does not. In `builder` contents of 0 and 55 bytes and two times give sizes on both
sides of varint boundaries, and four parts hold two logs with tag, topic or source; 1024 is so small
that groups are on both sides of a quarter of it, and the time 5 makes logs whose rewritten time reaches behind the group.

Fairness. In every module it is weak fairness per thread, which the operating system's scheduler
gives: a thread whose next step is possible eventually takes it. Nothing is assumed of clients
starting a call, of destroy being called, or of the service answering well. `LogProducerManager` has
two strong assumptions, and both stand for the clock: a builder that is looked at again and
again by the flush thread is at some look found too old (`SF` of `TryTake`), and a wait loop
that goes round for ever reaches `total_wait_count` (`SF` of `WaitTimeout`). In `GlobalSenders` that wait
is one step. In `LogProducerSender` no sleep need end by itself, since one may last an hour; `GetsThrough`
states as its premise that they do. Without send threads `BuilderFlushed` is not claimed: the
flush thread may retry a single buffer for ever. `builder` and `signing` check no deadlock: a
serialized group is finished, and two racing first resets may leave a lock that is never unlocked.

Every property has, in `PROJECT.json`, a mutation of the code that violates it (a dropped
check, an early exit, a missing join, a cursor moved too soon); the mutated operators stand before the
ones they replace, with a comment that begins "A mutation".

### Where the code and its documentation differ

Three runs expect a violation; each shows a behaviour of the code that a document or a comment
excludes. `findings` in `PROJECT.json` quotes the lines.

| Run | Property | What happens |
|---|---|---|
| `unsent` | `ExitReportsUnsent` | data in `loggroup_queue` or the ring is freed at exit without a callback |
| `droperror` | `NotFullWhenEmpty` | the unlocked `+=` loses an update; an empty producer answers DROP_ERROR |
| `okkept` | `OkMeansKept` | `add_log` answers OK for a log it drops with its package |

Others are visible as the exceptions of passing properties, described above: `PushAlwaysSuccess`,
`OvertakenNotFull`, `DestroyReturnsIfServed`, `RecoverHeard`, `SignedFresh`, `ThreadSafe`, `TimesFixed`, `WithinBuffers`,
`CleanExit`.

## 4. What is proved

TLAPS proves, for every value of the constants that the `ASSUME`s allow (positive sizes, distinct threads of
each kind, finitely many of them):

| Module | Theorem | Says |
|---|---|---|
| `LogQueue_proofs` | `TypeCorrect`, `RingCorrect` | `Spec => []TypeOK`, `[]RingOK` |
| | `ImplementsFifo` | `Spec => FifoSpec`: the ring refines `BoundedFifo` |
| | `WakeupNotLost` | `Spec => []NoLostWakeup` |
| `LogProducerManager_proofs` | `TypeCorrect`, `QuiescentCorrect` | `Spec => []TypeOK`, `[]Quiescent` |
| | `RingBounded` | `send_param_queue` never overruns |
| | `PushSucceeds` | `Spec => []PushAlwaysSuccess` |
| | `ExitsClean` | `Spec => []CleanExit` |
| | `OneHomeOnly` | `Spec => []OneHome` |
| `LogProducerManager_package_proofs` | `PackagesInOrder` | `Spec => []SendOrder` |
| | `ImplementsDelivery` | `Spec => DeliverySpec`: the producer refines `LogDelivery` |
| | `CountExact` | `Spec => []Accounting` |
| | `OvershootBounded` | `Spec => []Overshoot`, without raw buffers and if `NoWrap` |
| | `OnlyUnfilledOvertaken` | `Spec => []OvertakenNotFull` |
| `LogProducerSender_proofs` | `TypeCorrect`, `BackOffBounded` | `Spec => []TypeOK`, `[]BackOff` |
| `GlobalSenders_proofs` | `TypeCorrect` | `Spec => []TypeOK` |
| | `RefCountExact` | `Spec => []RefCounted` |
| | `FreedUnused` | `Spec => []NoUseAfterFree` |
| | `OneHomeOnly` | `Spec => []OneHome` |
| | `AllReclaimed` | `Spec => []NothingLeft` |
| | `ImplementsReclamation` | `Spec => ReclaimSpec`: the pool refines `Reclamation` |
| `Signing_proofs` | `TypeCorrect`, `FetchesSpaced` | `Spec => []TypeOK`, `[]FetchSpacing` (of `Credentials`) |
| | `AliveWhenLogged`, `RenewsInOrder` | `Spec => LoggedAlive`, `Spec => Renewed` |
| | `SignsFresh` | `Spec => []SignedFresh` |
| | `KeysCopiedWhole` | `SigningSpec => []ThreadSafe` |
| `LogGroupBuilder_proofs` | `BuffersKept`, `SizeExact` | `Spec => []WithinBuffers`, `[]SizeAnnounced` |
| | `GroupEncoded`, `TimesRewritten` | `Spec => []Encoded`, `[]TimesFixed` |

What the constants must satisfy beyond that, and why the code does. `RawClients = {}` in `OvershootBounded`:
the raw buffers are booked without a look at the limit. `NoWrap`: the limit and the excess together are below
2^32; `maxBufferBytes` is kept in an int32. `LongLived` and `EarlyEnough`, hypotheses within the properties of
`Credentials`: 120 seconds of advance and 5 of interval, and credentials that live longer than their sum with
another interval. `KindsAssumption` of `Signing`: a thread that resets keys is not one of the producer's senders.
`WrapAssumption` of the builder: `Wrap` is between `4 * Power(4)` and `Power(5)`, as 2^32 is between 2^30 and 2^35, so that a varint of
five bytes holds every length. `HeaderAssumption`: no byte of a varint is a header. In the code a
byte of a length or time may well be 0x0A; it matters only where `fix_log_group_time` could take it for a log's header, that is
for the last byte of a time, which is another one in every time before 2055. `TimesAssumption`: times are below `Wrap`, and
`MinTime` takes exactly five, as 1263563523 does, which lies between 2^28 and 2^35.

### The queue

`RingOK` is inductive together with `TypeOK`. The refinement rests on `Contents` after a push being `Append`, and
after a pop `Tail`; both come down to `QueueLemmas!ModDistinct`: the slot written is none of those in use.
`NoLostWakeup` is inductive with it: a push adds an item and a thread about to signal; a signal either finds no
one waiting or turns one debt into another; a thread whose wait ends takes an item with it.

### The producer

None of its properties is inductive. `Inv` (in `LogProducerManager_proofs`) adds to the types `Placed` (each thread
is at a place of its own code), `EmptyHanded` (a thread has a group in its hands only where the code has one),
`Joined` (what is true from each join on: the builder is empty, no client is inside, the threads have ended, and
when all is freed `sender_data_queue` is empty), `RingBound` (the write cursor is at most the ring's size
ahead, and less while the flush thread has a group to write), `Booking` (while the unlocked `+=` runs the group's
bytes are those of what it has pushed, so that `hold` may be emptied) and `NoneLost` (a held log is in a queue, the
ring, the builder or a hand). `NoneLost` needs `RingBound`, since a full ring would lose a group, and
`EmptyHanded`, since a step may only overwrite empty hands; `Joined` needs `Placed`. The other invariants
are stated one on top of the other:

* `SenderBound`: without raw clients only the flush thread makes `sender_data_queue` longer, and between its look
  and its push the others only make it shorter. That is `PushAlwaysSuccess`.
* `Drained`: from the moment on when the wait of destroy has found `loggroup_queue` empty, a log in it or on its way to it is
  in `missed`; and from the moment when it has found the ring empty, so is a log in the ring or on its way there. There is
  no builder any more, so that such a log can only have come from the flush thread's hands (`Carries`), and each step
  of the wait either goes on with what was missed or begins a round anew (`WaitMoves`). With `NoneLost` that
  is `CleanExit`.
* `Homes`, which is `OneHome` with "a number not yet given is of no log". `HeldSum` turns `Held` into a sum of five
  counts; then each action is one of a few kinds (a log is added, a group laid down, carried, pushed, popped),
  and for each kind one lemma says which count loses what another gains.
* `Indexed` (a package's index is the counter's latest until it is in the ring, and above all that is there)
  and `Queued` (`SendOrder`, apart for the queue, the hand and the ring). They need `OneHome`: a package that gets its
  index must have no log in common with what has left already.
* `Unbroken` (the logs of a group, wherever it is, have one index and are all that have it, and what is in the
  builder, in `loggroup_queue` or in the flush thread's hands before it is counted has none). `Around` collects
  the groups of all places: a step makes no new one but an empty one or one with the next log (`Made`), and the step
  that counts a package meets no other group with a log of it, by `OneHome`. With it every step is one of
  `LogDelivery` (`AddLocked` accepts or rejects, `Unbook` numbers, `SendDone` answers, `SendExit` reports, a failed push
  or pack loses, `Shutdown` closes) or changes nothing that `LogDelivery` sees.
* `Filled` (no group has a log twice, none is longer than a package, and what is in the builder or was taken from
  it by the flush thread is not full). With `OneHome` it makes `Cardinality(RawBooked)` the sum of lengths, so
  that every action changes `BookedBytes` by a number `n` (`Books(n)`) that is the one it adds to
  `totalBufferSize`; the wrap at 2^32 is `ModPlus`. That is `Accounting`.
* `Within`: `BookedBytes + Uncounted` is within one of `Overshoot`'s two bounds. An admitted call adds one
  `LogSize` below `maxBufferBytes`, and there `NoWrap` is needed, since the code compares the wrapped sum; every other
  step is `Lighter`: it moves bytes between the two or takes them off.
* `Line`: a group of `loggroup_queue` that is full has only logs later than all that is in front of it, and what is in
  the builder is later than all that has left. The step that counts a package then finds it full only if nothing
  later is counted, which is `OvertakenNotFull`.

### The pool

The invariant `Inv` of `GlobalSenders_proofs` says of each parameter (a buffer of a producer, or its
destroy parameter) that it is in at most one slot of the queue or one thread's hands, and only once issued
(`Single`), and that a buffer is under way until it meets its fate (`Fated`). `Counted` is `RefCounted` in terms of the
parameters that are in the pool. `Exited` and `Last` say how far a destruction has come: a freed producer was
freed once and nothing of it is left (`Gone`); a returned destroy leaves references or a thread that is just
freeing; whoever found the last reference is the only one who did. `Last` is the heart of it: from the
count reaching zero under the lock it follows that nothing of the producer is in the pool (`LastAlone`), which is
what makes the free afterwards, outside the lock, safe. `Staged` says the same of `log_producer_env_destroy`. Most
steps move a parameter and change nobody else's (`MoveStep`); those that let one in or out of the pool
(`TakeFromRing`, `HandOver`, `ReleaseInv`) have each a proof for the cardinality in `Counted`.

For the refinement every step of the pool is shown to be a step of `Reclamation` (`Reserve` acquires,
`Release` releases or frees, `JoinFlush` disowns, the last reference or `FreeTail` frees) or, when it
changes neither who is in the pool nor what is freed (`PoolSame`), a stutter.

### The sender

`BackOff` needs that a sleeper has an error, that the sleep belongs to it and was below
the maximum when it was doubled last; with the types that is inductive.

### The keys

`FetchSpacing` is inductive together with `Noted`: a renewal under way began no later than
`last_credentials_fetch_time`, which is set before the lock is left, and once there are credentials there
always are, so that a first fetch never meets a renewal. `LoggedAlive` follows: a sender that publishes and one
that logs are `MinInterval` apart, so one of them is slow.

`SignedFresh` and `Renewed` rest on `Fresh`: what is being issued lives from its fetch on (`Issued`); what is cached was
issued no longer than `MinInterval` before the last fetch noted, unless one is under way or went wrong (`Recent`); a sender
on its way to sign has found it so (`Signable`); what a prompt renewal will replace is older than what it brings
(`Replacing`). The attempt to prove `Renewed` as it was first stated, with the exceptions `first`, `Slow` and
`late` only, failed for a reason: with three senders a slow thread's first fetch can note a time that lies before
the one noted already, so that a renewal begins at once while another first fetch is under way, and replaces what is
newer. TLC, asked about three senders, found the behaviour in 23 steps; the property now names the
exception (`rushed`), and the proof shows that it is the last.

`ThreadSafe` is proved by mutual exclusion while one lock at most exists (`Exclusive`: who is inside, and where), and
by `Whole`: outside a reset the keys are what the last reset left, and a sender inside has copied them so far. With two
locks nothing is claimed. `SigningFetches` carries the theorems about `Credentials` over to `SigningSpec`.

### The builder

Here the difficulty is not in the steps but in the data: the bytes come from functions that run over sequences of any
length (`FlattenSeq`, `LogSize`, the walk of `fix_log_group_time`). The library's induction theorems take a predicate,
which the installed provers cannot instantiate. `Induct` and `InductAppend` say the same of a set:
whatever set of naturals holds 0 and each successor of its elements holds all of them, and likewise for sequences
and `Append`. They follow from `WFMin`, a theorem about well-founded relations that takes sets only. With them the recursive
functions get their facts: `FlattenSeq` of an `Append` and of a concatenation, `LogSize` as the sum of the
pairs' bytes, the walk's function from its last position backwards.

* `PackIsVarint`: `uint32_pack`, which tests for a further byte up to four times, gives protobuf's varint of every
  value below `Power(5)`, and `uint32_size` is its length. `ReadsBack`: `scan_varint` and `parse_uint32`, wherever a
  packed number stands, give its length and the number.
* `BufferInv` is `WithinBuffers` without its last line, and `SizeAnnounced`, the latter also while a log is open. The step that counts is
  `AddLogEnd`: the cursor has room for a header of three bytes, so that `EnsureCursor` is needed for what exceeds it. Below a
  quarter of `Wrap` (`Fits`) no length wraps: `AdjustRoom`.
* `EncodeInv` adds that the logs' buffer holds the messages of the closed logs, the tags' buffer those of the tags,
  and the body of an open log its fields. A group stays below `Wrap`, so that all its lengths are below `Power(5)`.
* `TimesInv` adds that every closed log is one the wire format can hold (`Encodable`), that the tags begin with a
  tag's header, and that no time is fixed before the group is serialized. `Fix` is then a pure lemma about memory that is
  `Grouped`: it begins with messages of `LogHeader` one after the other, goes on with another header, and six
  bytes of anything stand behind it. `WalkStep` says of the walk that it finds each message and writes at most the five bytes of a time
  behind its `Start`, also when a body is empty and its first byte is the next message's (`TurnWrites`); so each message is
  `Rewritten` on its own, and what follows the messages is not touched (`FixWrites`, `FixGroup`). What follows the logs begins with the header
  of the topic, the source or a tag (`EndingFirst`): nothing in it is taken for a log or for a time.
* `OverrunInv` is the last line of `WithinBuffers`. Here no time is excluded, and the group may be one that the walk itself derails in: a short
  time is overwritten together with the headers that follow it. `NoOverrun` says that a group of `Roomy` messages, each with
  five bytes of the group behind the first byte of its body unless that is no time's header, keeps the walk in place
  (`Tidy`, `TidyTurn`) and the memory behind it as it was. `Split` cuts the group at a log, and `RestIs` and `RestPlace` identify what follows a
  log's header with `Rest`; so a group that is not `Exposed` is `Roomy` (`FixWithin`), which is `FixOverrun`.

What the proofs brought to light about the model: `ParseUint32` has to say what is read of a varint that
the group's end cuts off. None is, since a walk over whole messages never reads there.

### What is only model-checked

Liveness under fairness (`DestroyReturns`, `BuilderFlushed`, `Reclaimed`, `DestroyReturnsIfServed`,
`GetsThrough`, `ShutdownEnds`, `RecoverHeard`): out of the prover's reach.

Everything else that a passing run checks is a theorem. The invariants were checked by TLC on the runs' instances
before they were proved, conjunct by conjunct.

## 5. What is not modelled

* `src/log_api.c`, libcurl, the samples: formatting and I/O without state of their own. A request's
  answer is a free choice.
* The vendored algorithms (`zstd.c`, `lz4.c`, `sds.c`, the digests), nine tenths of the repository's lines.
  Compression makes a group's bytes `ZipSize` per log, or fails.
* The configuration's setters and defaults, which assign one field each before the producer exists; their
  values are CONSTANTS.
* Creation (`create_log_producer_manager`): `Init` is a producer that has been created, since no log
  reaches it earlier.
* `env_init`'s flag, a second pool in one process, and a credentials callback that is set on a producer
  already sending.
* Loads and stores of the `volatile` counters are taken as atomic and in program order; the
  one read-modify-write without a lock is split in two.

## 6. Plan

1. The hazards that no property covers yet (`PROJECT.json` says why for each): above all the credentials in pool
   mode, where a worker may outlive the producer's shutdown check, and a rebuild that takes every buffer for LZ4.
2. Shorter proofs where one leaf does what three do now; the facts about `FlattenSeq` in a module of their own.
