-------------------------- MODULE LogProducerSender --------------------------
(***************************************************************************)
(* The send loop of log_producer_send_fun as several send threads of one   *)
(* producer run it: the rebuilding of old log times, the answer of the     *)
(* service, the back-off, networkRecover and shutdown.  What happens       *)
(* between Rebuild and the post, _get_credentials_for_sign, is module      *)
(* Credentials.                                                            *)
(*                                                                         *)
(* A buffer may have waited, and a sleep may last, for any time: whether   *)
(* the logs are more than 600 seconds old, or from the future, when a      *)
(* sender looks at the clock is a free choice, each time.  A post has no   *)
(* content but whether the times of its logs have been set to now.         *)
(***************************************************************************)
EXTENDS Integers

CONSTANTS
    Senders,        \* the producer's send threads
    Lz4,            \* whether compressType is LZ4
    BaseNetwork, MaxNetwork,    \* BASE_ and MAX_NETWORK_ERROR_SLEEP_MS
    BaseQuota, MaxQuota,        \* BASE_ and MAX_QUOTA_ERROR_SLEEP_MS
    InvalidTime                 \* INVALID_TIME_TRY_INTERVAL

ASSUME SleepAssumption ==
    /\ BaseNetwork \in Nat \ {0} /\ MaxNetwork \in Nat /\ BaseNetwork <= MaxNetwork
    /\ BaseQuota \in Nat \ {0} /\ MaxQuota \in Nat /\ BaseQuota <= MaxQuota
    /\ InvalidTime \in Nat \ {0}

ASSUME Lz4Assumption == Lz4 \in BOOLEAN

VARIABLES
    shutdown,   \* shutdown
    recover,    \* networkRecover
    pc,         \* where each sender is
    rebuilt,    \* whether the buffer it posts has new times
    err,        \* last_send_error
    nap         \* last_sleep_ms

vars == <<shutdown, recover, pc, rebuilt, err, nap>>

Init ==
    /\ shutdown = FALSE /\ recover = FALSE
    /\ pc = [t \in Senders |-> "idle"]
    /\ rebuilt = [t \in Senders |-> FALSE]
    /\ err = [t \in Senders |-> "none"] /\ nap = [t \in Senders |-> 0]

Goto(t, to) == pc' = [pc EXCEPT ![t] = to]

-----------------------------------------------------------------------------
(***************************************************************************)
(* log_producer_send_thread                                                *)
(***************************************************************************)
Loop(t) ==
    /\ pc[t] = "idle" /\ ~shutdown
    /\ Goto(t, "pop")
    /\ UNCHANGED <<shutdown, recover, rebuilt, err, nap>>

\* log_queue_pop gets a buffer or times out.
Pop(t) ==
    /\ pc[t] = "pop"
    /\ \E to \in {"check", "idle"} : Goto(t, to)
    /\ UNCHANGED <<shutdown, recover, rebuilt, err, nap>>

-----------------------------------------------------------------------------
(***************************************************************************)
(* log_producer_send_fun                                                   *)
(***************************************************************************)
\* The buffer and its error_info end with the call.
Return(t) ==
    /\ Goto(t, "idle")
    /\ rebuilt' = [rebuilt EXCEPT ![t] = FALSE]
    /\ err' = [err EXCEPT ![t] = "none"] /\ nap' = [nap EXCEPT ![t] = 0]

\* Reported as LOG_PRODUCER_SEND_EXIT_BUFFERED.
Exit(t) ==
    /\ pc[t] = "check" /\ shutdown
    /\ Return(t)
    /\ UNCHANGED <<shutdown, recover>>

\* A mutation: an answer that the time is wrong does not count.
RebuildOldOnly(t) ==
    /\ pc[t] = "check" /\ ~shutdown
    /\ \E old \in BOOLEAN : rebuilt' = [rebuilt EXCEPT ![t] = old /\ Lz4]
    /\ Goto(t, "post")
    /\ UNCHANGED <<shutdown, recover, err, nap>>

\* _rebuild_time fills a buffer for this attempt only, and can read LZ4 alone.
Rebuild(t) ==
    /\ pc[t] = "check" /\ ~shutdown
    /\ \E old \in BOOLEAN : rebuilt' = [rebuilt EXCEPT ![t] = (old \/ err[t] = "time") /\ Lz4]
    /\ Goto(t, "post")
    /\ UNCHANGED <<shutdown, recover, err, nap>>

-----------------------------------------------------------------------------
(***************************************************************************)
(* The answer of the service.  A status is a code of its class; 0 is no    *)
(* answer at all.                                                          *)
(***************************************************************************)
Answers == [status : {0, 200, 400, 401, 403, 404, 500}, id : BOOLEAN, expired : BOOLEAN]

\* AosStatusToResult; expired is whether errorMessage holds RequestTimeExpired.
ResultOf(a) ==
    IF a.status = 200 THEN "ok"
    ELSE IF a.status = 0 THEN "network"
    ELSE IF a.status = 500 \/ ~a.id THEN "server"
    ELSE IF a.status = 403 THEN "quota"
    ELSE IF a.status \in {401, 404} THEN "unauthorized"
    ELSE IF a.expired THEN "time" ELSE "discard"

\* What log_producer_on_send_done keeps as last_send_error; of the other results
\* the buffer ends.
Retried == {"time", "quota", "network", "server"}
ErrorOf(r) == IF r = "server" THEN "network" ELSE r

Base(e) == IF e = "time" THEN InvalidTime ELSE IF e = "quota" THEN BaseQuota ELSE BaseNetwork
Limit(e) == IF e = "time" THEN 0 ELSE IF e = "quota" THEN MaxQuota ELSE MaxNetwork

\* A mutation: the back-off of one kind of error is carried over to the next.
NextNapKept(t, e) ==
    IF err[t] = "none" THEN Base(e)
    ELSE IF nap[t] < Limit(e) THEN 2 * nap[t] ELSE nap[t]

\* The first error of a kind starts at its base; a further one doubles what is
\* below the maximum, which may thus be exceeded.
NextNap(t, e) ==
    IF err[t] # e THEN Base(e)
    ELSE IF nap[t] < Limit(e) THEN 2 * nap[t] ELSE nap[t]

SendEnds(t) ==
    /\ pc[t] = "post"
    /\ \E a \in Answers : ResultOf(a) \notin Retried
    /\ Return(t)
    /\ UNCHANGED <<shutdown, recover>>

\* A mutation: the result is kept as it is.
FailServer(t, r) ==
    /\ pc[t] = "post"
    /\ err' = [err EXCEPT ![t] = r] /\ nap' = [nap EXCEPT ![t] = NextNap(t, r)]
    /\ Goto(t, "sleep")
    /\ UNCHANGED <<shutdown, recover, rebuilt>>

Fail(t, r) ==
    /\ pc[t] = "post"
    /\ err' = [err EXCEPT ![t] = ErrorOf(r)] /\ nap' = [nap EXCEPT ![t] = NextNap(t, ErrorOf(r))]
    /\ Goto(t, "sleep")
    /\ UNCHANGED <<shutdown, recover, rebuilt>>

SendFailed(t) == \E r \in {ResultOf(a) : a \in Answers} \cap Retried : Fail(t, r)

-----------------------------------------------------------------------------
(***************************************************************************)
(* The sleep, in steps of SEND_SLEEP_INTERVAL_MS.  Whoever wakes clears    *)
(* networkRecover, which is one flag for all.                              *)
(***************************************************************************)
Awake(t) ==
    /\ pc[t] = "sleep"
    /\ recover' = FALSE
    /\ Goto(t, "check")
    /\ UNCHANGED <<shutdown, rebuilt, err, nap>>

SleepOver(t) == Awake(t)

\* Two mutations: only networkRecover, or only shutdown, cuts the sleep short.
WakeRecover(t) == recover /\ Awake(t)
WakeShutdown(t) == shutdown /\ Awake(t)

WakeEarly(t) == (shutdown \/ recover) /\ Awake(t)

-----------------------------------------------------------------------------
\* log_producer_client_network_recover
NetworkRecover ==
    /\ ~shutdown /\ recover' = TRUE
    /\ UNCHANGED <<shutdown, pc, rebuilt, err, nap>>

\* destroy_log_producer_manager
Shutdown ==
    /\ ~shutdown /\ shutdown' = TRUE
    /\ UNCHANGED <<recover, pc, rebuilt, err, nap>>

\* The threads have exited.
Ended == shutdown /\ (\A t \in Senders : pc[t] = "idle") /\ UNCHANGED vars

SenderStep(t) ==
    \/ Loop(t) \/ Pop(t) \/ Exit(t) \/ Rebuild(t)
    \/ SendEnds(t) \/ SendFailed(t) \/ WakeEarly(t)

Next ==
    \/ \E t \in Senders : SenderStep(t) \/ SleepOver(t)
    \/ NetworkRecover \/ Shutdown \/ Ended

Spec == Init /\ [][Next]_vars

\* Every sender keeps running and requests return.  No sleep need be over by
\* itself: one may take an hour.
FairSpec == Spec /\ \A t \in Senders : WF_vars(SenderStep(t))

-----------------------------------------------------------------------------
(***************************************************************************)
(* Properties                                                              *)
(***************************************************************************)
\* The types of the variables.
TypeOK ==
    /\ shutdown \in BOOLEAN /\ recover \in BOOLEAN
    /\ pc \in [Senders -> {"idle", "pop", "check", "post", "sleep"}]
    /\ rebuilt \in [Senders -> BOOLEAN]
    /\ err \in [Senders -> {"none", "time", "quota", "network"}]
    /\ nap \in [Senders -> Nat]

\* Between two posts of a buffer a sender means to sleep at least the base of its
\* last error and, whatever mixture of errors came before, less than twice the
\* maximum: the one beyond which the doubling stops.
BackOff == \A t \in Senders : pc[t] = "sleep" =>
    /\ nap[t] >= Base(err[t])
    /\ err[t] = "time" => nap[t] = InvalidTime
    /\ err[t] # "time" => nap[t] < 2 * Limit(err[t])

Waiting(t) == pc[t] \in {"idle", "pop"}

\* A service that, from some moment on, refuses nothing but old times gets every
\* LZ4 buffer, provided that sleeps end: an answer that the time is wrong makes
\* the next attempt a good one, also after other errors and for old buffers.
Refused(t) == pc[t] = "post" /\ pc'[t] = "sleep"
GetsThrough ==
    /\ Lz4
    /\ <>[][\A t \in Senders : Refused(t) => err'[t] = "time" /\ ~rebuilt[t]]_vars
    /\ \A t \in Senders : []<>(pc[t] # "sleep")
    => \A t \in Senders : []<>Waiting(t)

\* Shutdown ends every retry, also in the middle of an hour's sleep.
ShutdownEnds == shutdown ~> \A t \in Senders : pc[t] = "idle"

\* log_producer_client_network_recover wakes one of the senders that sleep: one of
\* them, and not all, because the first one clears the flag.
RecoverHeard == (recover /\ \E t \in Senders : pc[t] = "sleep") ~> ~recover
=============================================================================
