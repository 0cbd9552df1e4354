----------------------- MODULE LogProducerManager_proofs -----------------------
(***************************************************************************)
(* Proofs about LogProducerManager, for any number of clients, send        *)
(* threads, queue sizes and package sizes: types, what is true when        *)
(* destroy_log_producer_manager frees the queues, the push that always     *)
(* succeeds, what destroy's waits are worth, and where each log is.        *)
(***************************************************************************)
EXTENDS LogProducerManager, QueueLemmas, SequenceTheorems, TLAPS

-----------------------------------------------------------------------------
(***************************************************************************)
(* Types                                                                   *)
(***************************************************************************)
\* The threads, the ring's slots and the new counts of a step.
LEMMA ConstantTypes ==
    /\ Flush \in Threads /\ Destroyer \in Threads
    /\ Clients \subseteq Threads /\ RawClients \subseteq Threads
    /\ SendThreads \subseteq Threads
    /\ ParamQueueSize \in Nat \ {0} /\ SenderQueueSize \in Nat \ {0}
    /\ BaseQueueSize \in Nat \ {0} /\ Width \in Nat \ {0}
    /\ LogSize \in Nat /\ ZipSize \in Nat
  BY SizesAssumption DEF Threads, ParamQueueSize, SenderQueueSize

\* The slots of the ring.
LEMMA SlotType ==
    ASSUME NEW n \in Nat PROVE n % ParamQueueSize \in 0 .. ParamQueueSize - 1
  BY ConstantTypes

\* The bytes of a group.
LEMMA BytesType ==
    ASSUME NEW g \in Seq(Logs) PROVE RawBytes(g) \in Nat /\ ZipBytes(g) \in Nat
<1>1. Len(g) \in Nat
  BY LenProperties
<1> QED
  BY <1>1, ConstantTypes DEF RawBytes, ZipBytes

\* totalBufferSize stays a uint32_t.
LEMMA PlusType ==
    ASSUME NEW n \in Int, total \in 0 .. Width - 1, Plus(n)
    PROVE  total' \in 0 .. Width - 1
  BY ConstantTypes DEF Plus

\* A log's fate is one of the known ones.
LEMMA MeetType ==
    ASSUME TypeOK, NEW g, NEW f \in Fates
    PROVE  Meet(g, f) \in [Logs -> Fates]
  BY DEF TypeOK, Meet

\* A step of a thread leaves the types of pc and hold as they are.
LEMMA GotoType ==
    ASSUME TypeOK, NEW t \in Threads, NEW to \in PCs, Goto(t, to)
    PROVE  pc' \in [Threads -> PCs]
  BY DEF TypeOK, Goto

\* A step that gives a thread a group leaves the types of pc and hold as they are.
LEMMA TakeType ==
    ASSUME TypeOK, NEW t \in Threads, NEW g \in Seq(Logs), NEW to \in PCs, Take(t, g, to)
    PROVE  pc' \in [Threads -> PCs] /\ hold' \in [Threads -> Seq(Logs)]
  BY DEF TypeOK, Goto, Take

\* Groups are sequences of logs, and queues sequences of groups.
LEMMA SeqTypes ==
    /\ <<>> \in Seq(Logs)
    /\ \A l \in Logs : <<l>> \in Seq(Logs)
    /\ \A g \in Seq(Logs), l \in Logs : Append(g, l) \in Seq(Logs)
    /\ \A q \in Seq(Seq(Logs)), g \in Seq(Logs) : Append(q, g) \in Seq(Seq(Logs))
    /\ \A q \in Seq(Seq(Logs)) : q # <<>> =>
         Head(q) \in Seq(Logs) /\ Tail(q) \in Seq(Seq(Logs))
<1>1. /\ <<>> \in Seq(Logs) /\ \A l \in Logs : <<l>> \in Seq(Logs)
  OBVIOUS
<1>2. ASSUME NEW S, NEW s \in Seq(S), NEW x \in S PROVE Append(s, x) \in Seq(S)
  BY <1>2, AppendProperties
<1>3. ASSUME NEW S, NEW s \in Seq(S), s # <<>> PROVE Head(s) \in S /\ Tail(s) \in Seq(S)
  BY <1>3, HeadTailProperties
<1>4. \A g \in Seq(Logs), l \in Logs : Append(g, l) \in Seq(Logs)
  BY <1>2
<1>5. \A q \in Seq(Seq(Logs)), g \in Seq(Logs) : Append(q, g) \in Seq(Seq(Logs))
  BY <1>2
<1>6. \A q \in Seq(Seq(Logs)) : q # <<>> => Head(q) \in Seq(Logs) /\ Tail(q) \in Seq(Seq(Logs))
  BY <1>3
<1> QED
  BY <1>1, <1>4, <1>5, <1>6

\* The first states.
LEMMA InitType == Init => TypeOK
<1> SUFFICES ASSUME Init PROVE TypeOK
  OBVIOUS
<1>1. "idle" \in PCs /\ "new" \in Fates
  BY DEF PCs, Fates
<1>2. loggroupQ \in Seq(Seq(Logs)) /\ senderQ \in Seq(Seq(Logs)) /\ builder \in Seq(Logs)
  BY DEF Init
<1>3. ring \in [0 .. ParamQueueSize - 1 -> Seq(Logs)] /\ hold \in [Threads -> Seq(Logs)]
  BY SeqTypes DEF Init
<1>4. pc \in [Threads -> PCs] /\ fate \in [Logs -> Fates] /\ packOf \in [Logs -> Nat]
  BY <1>1 DEF Init
<1>5. total \in 0 .. Width - 1 /\ flushTmp \in 0 .. Width - 1
  BY ConstantTypes DEF Init
<1>6. rd \in Nat /\ wr \in Nat /\ packIndex \in Nat /\ nextLog \in Nat \ {0}
  BY DEF Init
<1>7. shutdown \in BOOLEAN /\ raced \in BOOLEAN /\ forced \in BOOLEAN /\ missed \subseteq Logs
  BY Zenon DEF Init
<1> QED
  BY <1>2, <1>3, <1>4, <1>5, <1>6, <1>7 DEF TypeOK

\* A step that only moves a thread to another place.
LEMMA MoveType ==
    ASSUME TypeOK, NEW t \in Threads, NEW to \in PCs, Goto(t, to),
           UNCHANGED <<total, queues, shutdown, hold, flushTmp, nextLog, fate, ghosts>>
    PROVE  TypeOK'
<1>1. pc' \in [Threads -> PCs]
  BY GotoType
<1> QED
  BY <1>1 DEF queues, ghosts, TypeOK

\* The clients' steps.
LEMMA ClientType == ASSUME TypeOK, NEW c \in Clients, ClientStep(c) PROVE TypeOK'
<1>1. CASE AddRefused(c)
  BY <1>1 DEF AddRefused, vars, queues, ghosts, TypeOK
<1>2. CASE AddAdmitted(c)
  BY <1>2, MoveType, ConstantTypes DEF AddAdmitted, PCs
<1>3. CASE AddQueueFull(c) \/ AddCreate(c)
  BY <1>3, MoveType, ConstantTypes DEF AddQueueFull, AddCreate, PCs
<1>4. CASE AddLocked(c)
  <2> DEFINE g == Append(builder, nextLog)
  <2>1. nextLog \in Logs /\ nextLog' \in Nat \ {0}
    BY <1>4 DEF AddLocked, TypeOK, Logs
  <2>2. g \in Seq(Logs) /\ Append(loggroupQ, g) \in Seq(Seq(Logs)) /\ RawBytes(g) \in Nat
    <3>1. g \in Seq(Logs)
      BY <2>1, SeqTypes DEF TypeOK
    <3> QED
      BY <3>1, SeqTypes, BytesType DEF TypeOK
  <2>3. pc' \in [Threads -> PCs]
    BY <1>4, GotoType, ConstantTypes DEF AddLocked, PCs
  <2>4. builder' \in Seq(Logs) /\ loggroupQ' \in Seq(Seq(Logs))
    BY <1>4, <2>2, SeqTypes DEF AddLocked, TypeOK
  <2>5. fate' \in [Logs -> Fates]
    <3>1. fate \in [Logs -> Fates] /\ {"held", "dropped"} \subseteq Fates
      BY DEF TypeOK, Fates
    <3> QED
      BY <1>4, <3>1, MeetType DEF AddLocked
  <2>6. total' \in 0 .. Width - 1
    BY <1>4, <2>2, PlusType DEF AddLocked, TypeOK
  <2>7. UNCHANGED <<ring, rd, wr, senderQ, packIndex, shutdown, hold, flushTmp, ghosts>>
    BY <1>4 DEF AddLocked
  <2> QED
    BY <2>1, <2>3, <2>4, <2>5, <2>6, <2>7 DEF TypeOK, ghosts
<1> QED
  BY <1>1, <1>2, <1>3, <1>4 DEF ClientStep

\* The raw clients' steps.
LEMMA RawType == ASSUME TypeOK, NEW c \in RawClients, RawStep(c) PROVE TypeOK'
<1>1. CASE RawBook(c)
  <2>1. nextLog \in Logs /\ nextLog' \in Nat \ {0}
    BY <1>1 DEF RawBook, TypeOK, Logs
  <2>2. <<nextLog>> \in Seq(Logs) /\ ZipBytes(<<nextLog>>) \in Nat
    BY <2>1, SeqTypes, BytesType
  <2>3. pc' \in [Threads -> PCs] /\ hold' \in [Threads -> Seq(Logs)]
    BY <1>1, <2>2, TakeType, ConstantTypes DEF RawBook, PCs
  <2>4. fate' \in [Logs -> Fates]
    BY <1>1 DEF RawBook, TypeOK, Fates
  <2>5. total' \in 0 .. Width - 1
    BY <1>1, <2>2, PlusType DEF RawBook, TypeOK
  <2> QED
    BY <1>1, <2>1, <2>3, <2>4, <2>5 DEF RawBook, TypeOK, queues, ghosts
<1>2. CASE RawPush(c)
  <2>1. pc' \in [Threads -> PCs] /\ hold' \in [Threads -> Seq(Logs)]
    BY <1>2, TakeType, SeqTypes, ConstantTypes DEF RawPush, PCs
  <2>2. fate' \in [Logs -> Fates]
    BY <1>2, MeetType DEF RawPush, TypeOK, Fates
  <2>3. senderQ' \in Seq(Seq(Logs))
    <3>1. hold[c] \in Seq(Logs)
      BY ConstantTypes DEF TypeOK
    <3> QED
      BY <1>2, <3>1, SeqTypes DEF RawPush, TypeOK
  <2> QED
    BY <1>2, <2>1, <2>2, <2>3 DEF RawPush, TypeOK, ghosts
<1> QED
  BY <1>1, <1>2 DEF RawStep

\* The steps of log_producer_send_fun.
LEMMA SendFunType == ASSUME TypeOK, NEW t \in Threads, SendFun(t) PROVE TypeOK'
<1>1. CASE SendExit(t)
  <2>1. pc' \in [Threads -> PCs] /\ hold' \in [Threads -> Seq(Logs)]
    BY <1>1, TakeType, SeqTypes DEF SendExit, Return, PCs
  <2>2. fate' \in [Logs -> Fates]
    BY <1>1, MeetType DEF SendExit, Fates
  <2> QED
    BY <1>1, <2>1, <2>2 DEF SendExit, TypeOK, queues, ghosts
<1>2. CASE SendStart(t)
  BY <1>2, MoveType DEF SendStart, PCs
<1>3. CASE SendDone(t)
  <2>1. pc' \in [Threads -> PCs] /\ hold' \in [Threads -> Seq(Logs)]
    BY <1>3, TakeType, SeqTypes DEF SendDone, Return, PCs
  <2>2. fate' \in [Logs -> Fates]
    BY <1>3, MeetType DEF SendDone, Fates
  <2>3. total' \in 0 .. Width - 1
    <3>1. -ZipBytes(hold[t]) \in Int
      BY BytesType DEF TypeOK
    <3> QED
      BY <1>3, <3>1, PlusType DEF SendDone, TypeOK
  <2> QED
    BY <1>3, <2>1, <2>2, <2>3 DEF SendDone, TypeOK, queues, ghosts
<1>4. CASE SendFailed(t)
  BY <1>4, MoveType DEF SendFailed, PCs
<1> QED
  BY <1>1, <1>2, <1>3, <1>4 DEF SendFun

\* The steps of the send threads' loop.
LEMMA SenderType == ASSUME TypeOK, NEW t \in SendThreads, SenderStep(t) PROVE TypeOK'
<1>1. CASE SenderLoop(t)
  BY <1>1, MoveType, ConstantTypes DEF SenderLoop, PCs
<1>2. CASE SenderPop(t)
  <2>1. Head(senderQ) \in Seq(Logs) /\ Tail(senderQ) \in Seq(Seq(Logs))
    BY <1>2, SeqTypes DEF SenderPop, TypeOK
  <2>2. pc' \in [Threads -> PCs] /\ hold' \in [Threads -> Seq(Logs)]
    BY <1>2, <2>1, TakeType, ConstantTypes DEF SenderPop, PCs
  <2> QED
    BY <1>2, <2>1, <2>2 DEF SenderPop, TypeOK, ghosts
<1>3. CASE SenderPopTimeout(t)
  BY <1>3, MoveType, ConstantTypes DEF SenderPopTimeout, PCs
<1> QED
  BY <1>1, <1>2, <1>3 DEF SenderStep

\* The flush thread's steps, up to the compressed buffer in the ring ...
LEMMA PackingType ==
    ASSUME TypeOK,
           FlushLoop \/ DrainPop \/ DrainEnd \/ Unbook \/ Pack \/ PackFailed
    PROVE  TypeOK'
<1>1. CASE FlushLoop
  BY <1>1, MoveType, ConstantTypes DEF FlushLoop, PCs
<1>2. CASE DrainPop
  <2>1. Head(loggroupQ) \in Seq(Logs) /\ Tail(loggroupQ) \in Seq(Seq(Logs))
    BY <1>2, SeqTypes DEF DrainPop, TypeOK
  <2>2. pc' \in [Threads -> PCs] /\ hold' \in [Threads -> Seq(Logs)]
    BY <1>2, <2>1, TakeType, ConstantTypes DEF DrainPop, PCs
  <2> QED
    BY <1>2, <2>1, <2>2 DEF DrainPop, TypeOK, ghosts
<1>3. CASE DrainEnd
  BY <1>3, MoveType, ConstantTypes DEF DrainEnd, PCs
<1>4. CASE Unbook
  <2>1. pc' \in [Threads -> PCs]
    BY <1>4, GotoType, ConstantTypes DEF Unbook, PCs
  <2>2. total' \in 0 .. Width - 1
    <3>1. -RawBytes(hold[Flush]) \in Int
      BY BytesType, ConstantTypes DEF TypeOK
    <3> QED
      BY <1>4, <3>1, PlusType DEF Unbook, TypeOK
  <2>3. packOf' \in [Logs -> Nat] /\ packIndex' \in Nat
    BY <1>4 DEF Unbook, TypeOK
  <2> QED
    BY <1>4, <2>1, <2>2, <2>3 DEF Unbook, TypeOK
<1>5. CASE Pack
  <2>1. hold[Flush] \in Seq(Logs) /\ ZipBytes(hold[Flush]) \in Int
    BY BytesType, ConstantTypes DEF TypeOK
  <2>2. pc' \in [Threads -> PCs] /\ hold' \in [Threads -> Seq(Logs)]
    BY <1>5, TakeType, SeqTypes, ConstantTypes DEF Pack, PCs
  <2>3. ring' \in [0 .. ParamQueueSize - 1 -> Seq(Logs)] /\ wr' \in Nat
    <3>1. wr % ParamQueueSize \in 0 .. ParamQueueSize - 1
      BY SlotType DEF TypeOK
    <3> QED
      BY <1>5, <2>1, <3>1 DEF Pack, TypeOK
  <2>4. total' \in 0 .. Width - 1
    BY <1>5, <2>1, PlusType DEF Pack, TypeOK
  <2> QED
    BY <1>5, <2>2, <2>3, <2>4 DEF Pack, TypeOK, ghosts
<1>6. CASE PackFailed
  <2>1. pc' \in [Threads -> PCs] /\ hold' \in [Threads -> Seq(Logs)]
    BY <1>6, TakeType, SeqTypes, ConstantTypes DEF PackFailed, PCs
  <2>2. fate' \in [Logs -> Fates]
    BY <1>6, MeetType DEF PackFailed, Fates
  <2> QED
    BY <1>6, <2>1, <2>2 DEF PackFailed, TypeOK, queues, ghosts
<1> QED
  BY <1>1, <1>2, <1>3, <1>4, <1>5, <1>6

\* ... its look at the builder ...
LEMMA TryType ==
    ASSUME TypeOK, TryTake \/ TrySkip \/ TryPush \/ TryRead \/ TryWrite
    PROVE  TypeOK'
<1>1. CASE TryTake
  <2>1. pc' \in [Threads -> PCs] /\ hold' \in [Threads -> Seq(Logs)] /\ builder' \in Seq(Logs)
    BY <1>1, TakeType, SeqTypes, ConstantTypes DEF TryTake, TypeOK, PCs
  <2> QED
    BY <1>1, <2>1 DEF TryTake, TypeOK, ghosts
<1>2. CASE TrySkip
  BY <1>2, MoveType, ConstantTypes DEF TrySkip, PCs
<1>3. CASE TryPush
  <2>1. hold[Flush] \in Seq(Logs)
    BY ConstantTypes DEF TypeOK
  <2>2. pc' \in [Threads -> PCs] /\ hold' \in [Threads -> Seq(Logs)]
    <3>1. CASE Len(loggroupQ) < BaseQueueSize
      BY <1>3, <3>1, GotoType, ConstantTypes DEF TryPush, TypeOK, PCs
    <3>2. CASE ~(Len(loggroupQ) < BaseQueueSize)
      BY <1>3, <3>2, TakeType, SeqTypes, ConstantTypes DEF TryPush, PCs
    <3> QED
      BY <3>1, <3>2
  <2>3. fate' \in [Logs -> Fates] /\ loggroupQ' \in Seq(Seq(Logs))
    <3>1. loggroupQ' \in Seq(Seq(Logs))
      BY <1>3, <2>1, SeqTypes DEF TryPush, TypeOK
    <3>2. fate' \in [Logs -> Fates]
      BY <1>3, MeetType DEF TryPush, TypeOK, Fates
    <3> QED
      BY <3>1, <3>2
  <2> QED
    BY <1>3, <2>2, <2>3 DEF TryPush, TypeOK, ghosts
<1>4. CASE TryRead
  <2>1. pc' \in [Threads -> PCs]
    BY <1>4, GotoType, ConstantTypes DEF TryRead, PCs
  <2> QED
    BY <1>4, <2>1 DEF TryRead, TypeOK, queues, ghosts
<1>5. CASE TryWrite
  <2>1. pc' \in [Threads -> PCs] /\ hold' \in [Threads -> Seq(Logs)]
    BY <1>5, TakeType, SeqTypes, ConstantTypes DEF TryWrite, PCs
  <2>2. total' \in 0 .. Width - 1 /\ flushTmp' \in 0 .. Width - 1
    <3>1. RawBytes(hold[Flush]) \in Nat
      BY BytesType, ConstantTypes DEF TypeOK
    <3>2. flushTmp' = 0 /\ (total' = (flushTmp + RawBytes(hold[Flush])) % Width
                           \/ total' = total)
      BY <1>5 DEF TryWrite
    <3>3. total \in 0 .. Width - 1 /\ flushTmp \in 0 .. Width - 1
      BY DEF TypeOK
    <3>4. Width \in Nat \ {0}
      BY ConstantTypes
    <3> QED
      BY <3>1, <3>2, <3>3, <3>4
  <2>3. raced' \in BOOLEAN
    BY <1>5, Zenon DEF TryWrite, TypeOK
  <2> QED
    BY <1>5, <2>1, <2>2, <2>3 DEF TryWrite, TypeOK, queues
<1> QED
  BY <1>1, <1>2, <1>3, <1>4, <1>5

\* ... and its send phase.
LEMMA SendPhaseType ==
    ASSUME TypeOK, SendParam \/ PushParam \/ SendDirect \/ SendEnd
    PROVE  TypeOK'
<1>1. ring[rd % ParamQueueSize] \in Seq(Logs) /\ rd + 1 \in Nat
  <2>1. rd % ParamQueueSize \in 0 .. ParamQueueSize - 1
    BY SlotType DEF TypeOK
  <2> QED
    BY <2>1 DEF TypeOK
<1>2. CASE SendParam
  <2>1. pc' \in [Threads -> PCs] /\ hold' \in [Threads -> Seq(Logs)]
    BY <1>1, <1>2, TakeType, ConstantTypes DEF SendParam, PCs
  <2> QED
    BY <1>1, <1>2, <2>1 DEF SendParam, TypeOK, ghosts
<1>3. CASE PushParam
  <2>1. hold[Flush] \in Seq(Logs)
    BY ConstantTypes DEF TypeOK
  <2>2. pc' \in [Threads -> PCs] /\ hold' \in [Threads -> Seq(Logs)]
    BY <1>3, TakeType, SeqTypes, ConstantTypes DEF PushParam, PCs
  <2>3. fate' \in [Logs -> Fates] /\ senderQ' \in Seq(Seq(Logs))
    <3>1. senderQ' \in Seq(Seq(Logs))
      BY <1>3, <2>1, SeqTypes DEF PushParam, TypeOK
    <3>2. fate' \in [Logs -> Fates]
      BY <1>3, MeetType DEF PushParam, TypeOK, Fates
    <3> QED
      BY <3>1, <3>2
  <2> QED
    BY <1>3, <2>2, <2>3 DEF PushParam, TypeOK, ghosts
<1>4. CASE SendDirect
  <2>1. pc' \in [Threads -> PCs] /\ hold' \in [Threads -> Seq(Logs)]
    BY <1>1, <1>4, TakeType, ConstantTypes DEF SendDirect, PCs
  <2> QED
    BY <1>1, <1>4, <2>1 DEF SendDirect, TypeOK, ghosts
<1>5. CASE SendEnd
  BY <1>5, MoveType, ConstantTypes DEF SendEnd, PCs
<1> QED
  BY <1>2, <1>3, <1>4, <1>5

\* The destroyer's steps.
LEMMA DestroyType == ASSUME TypeOK, PushLast \/ DestroyStep PROVE TypeOK'
<1>1. CASE PushLast
  <2>1. pc' \in [Threads -> PCs]
    BY <1>1, GotoType, ConstantTypes DEF PushLast, PCs
  <2>2. builder' \in Seq(Logs) /\ loggroupQ' \in Seq(Seq(Logs))
    BY <1>1, SeqTypes DEF PushLast, TypeOK
  <2>3. fate' \in [Logs -> Fates]
    BY <1>1, MeetType DEF PushLast, TypeOK, Fates
  <2>4. total' \in 0 .. Width - 1
    <3>1. RawBytes(builder) \in Int
      BY BytesType DEF TypeOK
    <3> QED
      BY <1>1, <3>1, PlusType DEF PushLast, TypeOK
  <2> QED
    BY <1>1, <2>1, <2>2, <2>3, <2>4 DEF PushLast, ghosts, TypeOK
<1>2. ASSUME NEW nonEmpty \in BOOLEAN, NEW next \in PCs, WaitOperand(nonEmpty, next),
             missed' \subseteq Logs
      PROVE  TypeOK'
  <2>1. pc' \in [Threads -> PCs]
    BY <1>2, GotoType, ConstantTypes DEF WaitOperand, PCs
  <2> QED
    BY <1>2, <2>1 DEF WaitOperand, TypeOK, queues
<1>3. \A at : missed \subseteq Logs /\ InHand(at) \subseteq Logs
  <2>1. hold[Flush] \in Seq(Logs)
    BY ConstantTypes DEF TypeOK
  <2>2. Range(hold[Flush]) \subseteq Logs
    BY <2>1 DEF Range
  <2> QED
    BY <2>2 DEF InHand, TypeOK
<1>4. CASE WaitGroups
  <2>1. (loggroupQ # <<>>) \in BOOLEAN /\ "waitParams" \in PCs /\ missed' \subseteq Logs
    BY <1>3, <1>4, Zenon DEF WaitGroups, TypeOK, PCs
  <2> QED
    BY <1>2, <1>4, <2>1, Zenon DEF WaitGroups
<1>5. CASE WaitParams
  <2>1. "waitSender" \in PCs /\ missed' \subseteq Logs
    BY <1>3, <1>5 DEF WaitParams, PCs
  <2>2. (wr - rd > 0) \in BOOLEAN
    BY DEF TypeOK
  <2> QED
    BY <1>2, <1>5, <2>1, <2>2, Zenon DEF WaitParams
<1>6. CASE WaitSender
  <2>1. (senderQ # <<>>) \in BOOLEAN /\ "shutdown" \in PCs /\ missed' \subseteq Logs
    BY <1>3, <1>6, Zenon DEF WaitSender, TypeOK, PCs
  <2> QED
    BY <1>2, <1>6, <2>1, Zenon DEF WaitSender
<1>7. CASE WaitTimeout
  <2>1. pc' \in [Threads -> PCs]
    BY <1>7, GotoType, ConstantTypes DEF WaitTimeout, PCs
  <2>2. forced' \in BOOLEAN
    BY <1>7, Zenon DEF WaitTimeout
  <2> QED
    BY <1>7, <2>1, <2>2 DEF WaitTimeout, TypeOK, queues
<1>8. CASE Shutdown
  <2>1. pc' \in [Threads -> PCs]
    BY <1>8, GotoType, ConstantTypes DEF Shutdown, PCs
  <2>2. shutdown' \in BOOLEAN
    BY <1>8, Zenon DEF Shutdown
  <2> QED
    BY <1>8, <2>1, <2>2 DEF Shutdown, TypeOK, queues, ghosts
<1>9. CASE JoinFlush
  BY <1>9, MoveType, ConstantTypes DEF JoinFlush, PCs
<1>10. CASE JoinSend
  BY <1>10, MoveType, ConstantTypes DEF JoinSend, PCs
<1>11. CASE DrainSender
  <2>1. Head(senderQ) \in Seq(Logs) /\ Tail(senderQ) \in Seq(Seq(Logs))
    BY <1>11, SeqTypes DEF DrainSender, TypeOK
  <2>2. pc' \in [Threads -> PCs] /\ hold' \in [Threads -> Seq(Logs)]
    BY <1>11, <2>1, TakeType, ConstantTypes DEF DrainSender, PCs
  <2> QED
    BY <1>11, <2>1, <2>2 DEF DrainSender, TypeOK, ghosts
<1>12. CASE FreeTail
  BY <1>12, MoveType, ConstantTypes DEF FreeTail, PCs
<1> QED
  BY <1>1, <1>4, <1>5, <1>6, <1>7, <1>8, <1>9, <1>10, <1>11, <1>12 DEF DestroyStep

\* Every step keeps the types.
LEMMA StepType == TypeOK /\ [Next]_vars => TypeOK'
<1> SUFFICES ASSUME TypeOK, [Next]_vars PROVE TypeOK'
  OBVIOUS
<1>1. CASE UNCHANGED vars
  BY <1>1 DEF vars, queues, ghosts, TypeOK
<1>2. CASE Freed
  BY <1>2 DEF Freed, vars, queues, ghosts, TypeOK
<1>3. CASE FlushStep
  BY <1>3, PackingType, TryType, SendPhaseType DEF FlushStep
<1> QED
  BY <1>1, <1>2, <1>3, ClientType, RawType, SendFunType, SenderType, DestroyType DEF Next

\* The types of the variables hold in every state the producer reaches.
THEOREM TypeCorrect == Spec => []TypeOK
  BY InitType, StepType, PTL DEF Spec

-----------------------------------------------------------------------------
(***************************************************************************)
(* Quiescence.  The invariant says where each thread can be and when its   *)
(* hands are empty, what the destroyer's progress implies of the others,   *)
(* how far the ring's cursors are apart, and where a held log is.          *)
(***************************************************************************)
FlushPCs == {"idle", "drain", "unbook", "pack", "try", "tryPush", "tryRead",
             "tryWrite", "send", "pushParam", "check", "post", "exit"}
DestroyerPCs == {"idle", "waitGroups", "waitParams", "waitSender", "shutdown",
                 "joinFlush", "joinSend", "drainSender", "check", "freed"}
SenderPCs == {"idle", "pop", "check", "post", "exit"}
CallerPCs == {"idle", "add", "create", "raw", "check", "post"}
PCsOf(t) == IF t = Flush THEN FlushPCs
            ELSE IF t = Destroyer THEN DestroyerPCs
            ELSE IF t \in SendThreads THEN SenderPCs ELSE CallerPCs

Placed == \A t \in Threads : pc[t] \in PCsOf(t)

\* The places at which a thread has a group in its hands.
Carrying == {"raw", "check", "post", "unbook", "pack",
             "tryPush", "tryRead", "tryWrite", "pushParam"}
EmptyHanded == \A t \in Threads : pc[t] \notin Carrying => hold[t] = <<>>

Stopping == {"joinFlush", "joinSend", "drainSender", "check", "freed"}
Joined ==
    /\ ~Running => builder = <<>> /\ \A c \in Clients \cup RawClients : pc[c] = "idle"
    /\ shutdown <=> pc[Destroyer] \in Stopping
    /\ pc[Destroyer] \in Stopping \ {"joinFlush"} => pc[Flush] = "exit"
    /\ Freeing => \A t \in SendThreads : pc[t] = "exit"
    /\ pc[Destroyer] = "freed" => senderQ = <<>>

RingBound ==
    /\ wr - rd \in 0 .. ParamQueueSize
    /\ pc[Flush] \in {"unbook", "pack"} => wr - rd < ParamQueueSize

Housed(l) ==
    \/ l \in Range(builder)
    \/ InQueue(loggroupQ, l) \/ InQueue(senderQ, l)
    \/ \E k \in rd .. wr - 1 : l \in Range(ring[k % ParamQueueSize])
    \/ \E t \in Threads : l \in Range(hold[t])
NoneLost == \A l \in Logs : fate[l] = "held" => Housed(l)


\* What Flush has pushed and not yet booked is in loggroup_queue.
Booking == pc[Flush] \in {"tryRead", "tryWrite"} =>
    \A l \in Range(hold[Flush]) : InQueue(loggroupQ, l)

Control == Placed /\ EmptyHanded /\ Joined /\ RingBound
Inv == TypeOK /\ Control /\ Booking /\ NoneLost

\* The threads of one kind are not those of another.
LEMMA Kinds ==
    /\ Flush # Destroyer /\ Flush \notin SendThreads /\ Destroyer \notin SendThreads
    /\ \A c \in Clients \cup RawClients :
         c \in Threads /\ c # Flush /\ c # Destroyer /\ c \notin SendThreads
  BY ThreadsAssumption DEF Threads

\* A thread that goes to one of its places leaves every thread in one of its own.
LEMMA GotoPlaced ==
    ASSUME TypeOK, Placed, NEW t \in Threads, NEW to \in PCsOf(t), Goto(t, to)
    PROVE  Placed'
  BY DEF TypeOK, Placed, Goto, PCsOf

\* A thread that keeps its group goes to a place where it may have one.
LEMMA GotoEmptyHanded ==
    ASSUME TypeOK, EmptyHanded, NEW t \in Threads, NEW to, Goto(t, to),
           to \in Carrying \/ hold[t] = <<>>, UNCHANGED hold
    PROVE  EmptyHanded'
  BY DEF TypeOK, EmptyHanded, Goto

\* A thread that takes a group, or lays it down, goes to a place that says so.
LEMMA TakeEmptyHanded ==
    ASSUME TypeOK, EmptyHanded, NEW t \in Threads, NEW g, NEW to, Take(t, g, to),
           to \in Carrying \/ g = <<>>
    PROVE  EmptyHanded'
  BY DEF TypeOK, EmptyHanded, Goto, Take

\* No step of a thread other than the destroyer takes the destroyer back.
LEMMA OtherJoined ==
    ASSUME TypeOK, Joined, NEW t \in Threads, t # Destroyer,
           NEW to, Goto(t, to), UNCHANGED shutdown, pc[t] # "exit",
           t \in Clients \cup RawClients => Running \/ pc[t] # "idle",
           t \in SendThreads \cup {Flush} \/ UNCHANGED senderQ \/ Running,
           Running \/ builder' \in {builder, <<>>},
           t \in Clients \cup RawClients \cup SendThreads \cup {Flush}
    PROVE  Joined'
<1>1. pc'[Destroyer] = pc[Destroyer] /\ \A u \in Threads : u # t => pc'[u] = pc[u]
  BY ConstantTypes DEF Goto, TypeOK
<1>2. Running' <=> Running
  BY <1>1 DEF Running
<1>3. Freeing' <=> Freeing
  BY <1>1 DEF Freeing
<1>4. ~Running' => builder' = <<>> /\ \A c \in Clients \cup RawClients : pc'[c] = "idle"
  BY <1>1, <1>2, Kinds DEF Joined
<1>5. shutdown' <=> pc'[Destroyer] \in Stopping
  BY <1>1 DEF Joined
<1>6. pc'[Destroyer] \in Stopping \ {"joinFlush"} => pc'[Flush] = "exit"
  BY <1>1, ConstantTypes DEF Joined
<1>7. Freeing' => \A u \in SendThreads : pc'[u] = "exit"
  BY <1>1, <1>3, ConstantTypes DEF Joined
<1>8. pc'[Destroyer] = "freed" => senderQ' = <<>>
  <2> SUFFICES ASSUME pc[Destroyer] = "freed" PROVE senderQ' = <<>>
    BY <1>1
  <2>1. ~Running /\ Freeing /\ pc[Flush] = "exit" /\ senderQ = <<>>
    BY DEF Running, Freeing, Joined, Stopping
  <2>2. t \notin SendThreads \cup {Flush}
    BY <2>1 DEF Joined
  <2> QED
    BY <2>1, <2>2
<1> QED
  BY <1>4, <1>5, <1>6, <1>7, <1>8 DEF Joined

\* A step that leaves the ring alone, and Flush where it is or out of the packing.
LEMMA RingUntouched ==
    ASSUME RingBound, UNCHANGED <<rd, wr>>,
           pc'[Flush] \in {"unbook", "pack"} => pc[Flush] \in {"unbook", "pack"}
    PROVE  RingBound'
  BY DEF RingBound

-----------------------------------------------------------------------------
(***************************************************************************)
(* Where a log is                                                          *)
(***************************************************************************)
\* The logs of a group, and of a queue, after an append and before a pop.
LEMMA RangeSeq ==
    /\ Range(<<>>) = {}
    /\ \A l : Range(<<l>>) = {l}
    /\ \A g \in Seq(Logs), l \in Logs : Range(Append(g, l)) = Range(g) \cup {l}
<1>1. Range(<<>>) = {} /\ \A l : Range(<<l>>) = {l}
  BY DEF Range
<1>2. ASSUME NEW g \in Seq(Logs), NEW l \in Logs
      PROVE  Range(Append(g, l)) = Range(g) \cup {l}
  <2>1. /\ Len(Append(g, l)) = Len(g) + 1 /\ Len(g) \in Nat
        /\ DOMAIN Append(g, l) = 1 .. Len(g) + 1 /\ DOMAIN g = 1 .. Len(g)
        /\ Append(g, l)[Len(g) + 1] = l
        /\ \A i \in 1 .. Len(g) : Append(g, l)[i] = g[i]
    BY AppendProperties, LenProperties
  <2> QED
    BY <2>1 DEF Range
<1> QED
  BY <1>1, <1>2

\* What is in a queue after a push: what was in it, and the group pushed.
LEMMA AppendIn ==
    ASSUME NEW q \in Seq(Seq(Logs)), NEW g \in Seq(Logs), NEW l
    PROVE  InQueue(Append(q, g), l) <=> InQueue(q, l) \/ l \in Range(g)
<1>1. /\ Len(q) \in Nat /\ DOMAIN q = 1 .. Len(q)
      /\ DOMAIN Append(q, g) = 1 .. Len(q) + 1 /\ Append(q, g)[Len(q) + 1] = g
      /\ \A i \in 1 .. Len(q) : Append(q, g)[i] = q[i]
  BY AppendProperties, LenProperties
<1>2. ASSUME InQueue(Append(q, g), l) PROVE InQueue(q, l) \/ l \in Range(g)
  <2>1. PICK i \in 1 .. Len(q) + 1 : l \in Range(Append(q, g)[i])
    BY <1>1, <1>2 DEF InQueue
  <2>2. CASE i = Len(q) + 1
    BY <1>1, <2>1, <2>2
  <2>3. CASE i \in 1 .. Len(q)
    BY <1>1, <2>1, <2>3 DEF InQueue
  <2> QED
    BY <1>1, <2>2, <2>3
<1>3. ASSUME InQueue(q, l) PROVE InQueue(Append(q, g), l)
  <2>1. PICK i \in 1 .. Len(q) : l \in Range(q[i])
    BY <1>1, <1>3 DEF InQueue
  <2>2. i \in 1 .. Len(q) + 1 /\ Append(q, g)[i] = q[i]
    BY <1>1
  <2> QED
    BY <1>1, <2>1, <2>2 DEF InQueue
<1>4. ASSUME l \in Range(g) PROVE InQueue(Append(q, g), l)
  <2>1. Len(q) + 1 \in DOMAIN Append(q, g) /\ l \in Range(Append(q, g)[Len(q) + 1])
    BY <1>1, <1>4
  <2> QED
    BY <2>1 DEF InQueue
<1> QED
  BY <1>2, <1>3, <1>4

\* What was in a queue before a pop is in the group popped or still in the queue.
LEMMA PopIn ==
    ASSUME NEW q \in Seq(Seq(Logs)), q # <<>>, NEW l, InQueue(q, l)
    PROVE  l \in Range(Head(q)) \/ InQueue(Tail(q), l)
<1>1. /\ Len(q) \in Nat /\ DOMAIN q = 1 .. Len(q) /\ Head(q) = q[1]
      /\ DOMAIN Tail(q) = 1 .. Len(q) - 1
      /\ \A i \in 1 .. Len(q) - 1 : Tail(q)[i] = q[i + 1]
  BY HeadTailProperties, LenProperties, EmptySeq
<1>2. PICK i \in DOMAIN q : l \in Range(q[i])
  BY DEF InQueue
<1>3. CASE i = 1
  BY <1>1, <1>2, <1>3
<1>4. CASE i # 1
  <2>1. i - 1 \in DOMAIN Tail(q) /\ Tail(q)[i - 1] = q[i]
    BY <1>1, <1>4
  <2> QED
    BY <1>2, <2>1 DEF InQueue
<1> QED
  BY <1>3, <1>4

\* ... and nothing else is.
LEMMA PopFrom ==
    ASSUME NEW q \in Seq(Seq(Logs)), q # <<>>, NEW l, l \in Range(Head(q)) \/ InQueue(Tail(q), l)
    PROVE  InQueue(q, l)
<1>1. /\ Len(q) \in Nat \ {0} /\ DOMAIN q = 1 .. Len(q) /\ Head(q) = q[1]
      /\ DOMAIN Tail(q) = 1 .. Len(q) - 1
      /\ \A i \in 1 .. Len(q) - 1 : Tail(q)[i] = q[i + 1]
  BY HeadTailProperties, LenProperties, EmptySeq
<1>2. CASE l \in Range(Head(q))
  BY <1>1, <1>2 DEF InQueue
<1>3. CASE InQueue(Tail(q), l)
  <2>1. PICK i \in 1 .. Len(q) - 1 : l \in Range(Tail(q)[i])
    BY <1>1, <1>3 DEF InQueue
  <2>2. i + 1 \in DOMAIN q /\ l \in Range(q[i + 1])
    BY <1>1, <2>1
  <2> QED
    BY <2>2 DEF InQueue
<1> QED
  BY <1>2, <1>3

\* Slots of the ring by position, and as the sequence Pending.
LEMMA PendingIn ==
    ASSUME TypeOK, NEW l, NEW k \in rd .. wr - 1, l \in Range(ring[k % ParamQueueSize])
    PROVE  InQueue(Pending, l)
<1>1. k - rd + 1 \in 1 .. wr - rd /\ rd + (k - rd + 1) - 1 = k
  BY DEF TypeOK
<1>2. Pending[k - rd + 1] = ring[k % ParamQueueSize] /\ k - rd + 1 \in DOMAIN Pending
  BY <1>1 DEF Pending
<1> QED
  BY <1>2 DEF InQueue

\* A log that meets a fate other than "held" is no longer held.
LEMMA MeetHeld ==
    ASSUME NEW g, NEW f, f # "held", NEW l \in Logs, Meet(g, f)[l] = "held"
    PROVE  fate[l] = "held" /\ l \notin Range(g)
  BY DEF Meet

\* A step that moves no log keeps each one where it is.
LEMMA Unmoved ==
    ASSUME NoneLost, UNCHANGED <<builder, loggroupQ, senderQ, ring, rd, wr, hold, fate>>
    PROVE  NoneLost'
  BY DEF NoneLost, Housed, InQueue

\* A thread that takes or lays down a group leaves the other threads' hands alone.
LEMMA TakeIn ==
    ASSUME TypeOK, NEW t \in Threads, NEW g, NEW to, Take(t, g, to),
           NEW l, \E u \in Threads : l \in Range(hold[u])
    PROVE  l \in Range(hold[t]) \/ \E u \in Threads : l \in Range(hold'[u])
  BY DEF TypeOK, Take

\* The logs of a group that a thread takes are then in a thread's hands.
LEMMA TakeHas ==
    ASSUME TypeOK, NEW t \in Threads, NEW g, NEW to, Take(t, g, to), NEW l \in Range(g)
    PROVE  \E u \in Threads : l \in Range(hold'[u])
  BY DEF TypeOK, Take

-----------------------------------------------------------------------------
(***************************************************************************)
(* Every step keeps the invariant.                                         *)
(***************************************************************************)
\* The first states.
LEMMA InitInv == Init => Inv
<1> SUFFICES ASSUME Init PROVE Inv
  OBVIOUS
<1>1. \A t \in Threads : pc[t] = "idle" /\ hold[t] = <<>>
  BY DEF Init
<1>2. Placed /\ EmptyHanded
  BY <1>1 DEF Placed, EmptyHanded, PCsOf, FlushPCs, DestroyerPCs, SenderPCs, CallerPCs
<1>3. pc[Destroyer] = "idle" /\ pc[Flush] = "idle" /\ ~shutdown
  BY <1>1, ConstantTypes DEF Init
<1>4. Joined
  BY <1>3 DEF Joined, Running, Freeing, Stopping
<1>5. RingBound
  BY <1>3, ConstantTypes DEF Init, RingBound
<1>6. NoneLost
  BY DEF Init, NoneLost
<1>7. Booking
  BY <1>3 DEF Booking
<1> QED
  BY <1>2, <1>4, <1>5, <1>6, <1>7, InitType DEF Inv, Control

\* A step of a thread other than the destroyer that only moves it.
LEMMA MoveInv ==
    ASSUME Inv, NEW t \in Threads, t # Destroyer, NEW to \in PCsOf(t), Goto(t, to),
           UNCHANGED <<total, queues, shutdown, hold, flushTmp, nextLog, fate, ghosts>>,
           pc[t] # "exit", to \in Carrying \/ pc[t] \notin Carrying,
           to \notin {"unbook", "pack"},
           t \in Clients \cup RawClients => Running \/ pc[t] # "idle"
    PROVE  Control' /\ NoneLost'
<1> USE DEF Inv, Control
<1>1. Placed'
  BY GotoPlaced
<1>2. EmptyHanded'
  BY GotoEmptyHanded DEF EmptyHanded
<1>3. UNCHANGED <<builder, loggroupQ, ring, rd, wr, senderQ, shutdown, hold, fate>>
  BY DEF queues
<1>4. Joined'
  <2>1. t \in Clients \cup RawClients \cup SendThreads \cup {Flush}
    BY DEF Threads
  <2> QED
    BY <1>3, <2>1, OtherJoined
<1>5. RingBound'
  <2>1. pc'[Flush] \in {"unbook", "pack"} => pc[Flush] \in {"unbook", "pack"}
    BY ConstantTypes DEF TypeOK, Goto
  <2> QED
    BY <1>3, <2>1, RingUntouched
<1>6. NoneLost'
  BY <1>3, Unmoved
<1> QED
  BY <1>1, <1>2, <1>4, <1>5, <1>6

\* A step of such a thread that takes a group or lays one down, and leaves the
\* ring alone.
LEMMA TakeControl ==
    ASSUME Inv, NEW t \in Threads, t # Destroyer, NEW to \in PCsOf(t),
           NEW g, Take(t, g, to), to \in Carrying \/ g = <<>>,
           UNCHANGED <<shutdown, rd, wr>>,
           pc[t] # "exit", to \notin {"unbook", "pack"},
           t \in Clients \cup RawClients => Running \/ pc[t] # "idle",
           t \in SendThreads \cup {Flush} \/ UNCHANGED senderQ \/ Running,
           Running \/ builder' \in {builder, <<>>}
    PROVE  Control'
<1> USE DEF Inv, Control
<1>1. Goto(t, to)
  BY DEF Take
<1>2. Placed' /\ EmptyHanded'
  BY <1>1, GotoPlaced, TakeEmptyHanded
<1>3. Joined'
  <2>1. t \in Clients \cup RawClients \cup SendThreads \cup {Flush}
    BY DEF Threads
  <2> QED
    BY <1>1, <2>1, OtherJoined
<1>4. RingBound'
  <2>1. pc'[Flush] \in {"unbook", "pack"} => pc[Flush] \in {"unbook", "pack"}
    BY <1>1, ConstantTypes DEF TypeOK, Goto
  <2> QED
    BY <2>1, RingUntouched
<1> QED
  BY <1>2, <1>3, <1>4

\* The clients' steps.
LEMMA ClientInv == ASSUME Inv, NEW c \in Clients, ClientStep(c) PROVE Control' /\ NoneLost'
<1> USE DEF Inv, Control
<1>1. /\ c \in Threads /\ c # Destroyer /\ c # Flush
      /\ "idle" \in PCsOf(c) /\ "add" \in PCsOf(c) /\ "create" \in PCsOf(c)
  BY Kinds DEF PCsOf, CallerPCs
<1>2. CASE AddRefused(c)
  BY <1>2, Unmoved DEF AddRefused, vars, queues, Placed, EmptyHanded, Joined, RingBound,
     Running, Freeing
<1>3. CASE AddAdmitted(c)
  BY <1>1, <1>3, MoveInv DEF AddAdmitted, Carrying
<1>4. CASE AddQueueFull(c) \/ AddCreate(c)
  BY <1>1, <1>4, MoveInv DEF AddQueueFull, AddCreate, Carrying
<1>5. CASE AddLocked(c)
  <2> DEFINE g == Append(builder, nextLog)
  <2>1. /\ Goto(c, "idle") /\ pc[c] \in {"add", "create"}
        /\ UNCHANGED <<ring, rd, wr, senderQ, shutdown, hold>>
    BY <1>5 DEF AddLocked
  <2>2. Running
    BY <2>1 DEF Joined
  <2>3. Placed'
    BY <1>1, <2>1, GotoPlaced
  <2>4. EmptyHanded'
    BY <1>1, <2>1, GotoEmptyHanded DEF EmptyHanded, Carrying
  <2>5. Joined'
    BY <1>1, <2>1, <2>2, OtherJoined
  <2>6. RingBound'
    <3>1. pc'[Flush] = pc[Flush]
      BY <1>1, <2>1, ConstantTypes DEF TypeOK, Goto
    <3> QED
      BY <2>1, <3>1, RingUntouched
  <2>7. NoneLost'
    <3> SUFFICES ASSUME NEW l \in Logs, fate'[l] = "held" PROVE Housed(l)'
      BY DEF NoneLost
    <3>1. nextLog \in Logs /\ g \in Seq(Logs) /\ Range(g) = Range(builder) \cup {nextLog}
      BY <1>5, SeqTypes, RangeSeq DEF AddLocked, TypeOK, Logs
    <3>2. InQueue(Append(loggroupQ, g), l) <=> InQueue(loggroupQ, l) \/ l \in Range(g)
      BY <3>1, AppendIn DEF TypeOK
    <3>3. CASE builder' = g /\ fate' = [fate EXCEPT ![nextLog] = "held"] /\ UNCHANGED loggroupQ
      <4>1. l = nextLog \/ Housed(l)
        BY <3>3 DEF NoneLost, TypeOK
      <4> QED
        BY <2>1, <3>1, <3>3, <4>1 DEF Housed
    <3>4. CASE loggroupQ' = Append(loggroupQ, g) /\ fate' = [fate EXCEPT ![nextLog] = "held"]
      <4>1. l = nextLog \/ Housed(l)
        BY <3>4 DEF NoneLost, TypeOK
      <4> QED
        BY <2>1, <3>1, <3>2, <3>4, <4>1 DEF Housed
    <3>5. CASE fate' = Meet(g, "dropped") /\ UNCHANGED loggroupQ
      <4>1. Housed(l) /\ l \notin Range(g)
        BY <3>5, MeetHeld DEF NoneLost
      <4> QED
        BY <2>1, <3>1, <3>5, <4>1 DEF Housed
    <3> QED
      BY <1>5, <3>3, <3>4, <3>5 DEF AddLocked
  <2> QED
    BY <2>3, <2>4, <2>5, <2>6, <2>7
<1> QED
  BY <1>2, <1>3, <1>4, <1>5 DEF ClientStep

\* The raw clients' steps.
LEMMA RawInv == ASSUME Inv, NEW c \in RawClients, RawStep(c) PROVE Control' /\ NoneLost'
<1> USE DEF Inv, Control
<1>1. /\ c \in Threads /\ c # Destroyer /\ c # Flush
      /\ \A to \in CallerPCs : to \in PCsOf(c)
  BY Kinds DEF PCsOf
<1>2. CASE RawBook(c)
  <2> DEFINE to == IF SendThreads = {} THEN "check" ELSE "raw"
  <2>1. /\ Take(c, <<nextLog>>, to) /\ to \in PCsOf(c) /\ to \in Carrying
        /\ to \notin {"unbook", "pack"} /\ Running /\ pc[c] # "exit"
        /\ UNCHANGED <<builder, loggroupQ, ring, rd, wr, senderQ, shutdown>>
    BY <1>1, <1>2 DEF RawBook, queues, Carrying, CallerPCs
  <2>2. Control'
    BY <1>1, <2>1, TakeControl
  <2>3. NoneLost'
    <3> SUFFICES ASSUME NEW l \in Logs, fate'[l] = "held" PROVE Housed(l)'
      BY DEF NoneLost
    <3>1. hold[c] = <<>>
      BY <1>1, <1>2 DEF RawBook, EmptyHanded, Carrying
    <3>2. l = nextLog \/ Housed(l)
      BY <1>2 DEF RawBook, NoneLost, TypeOK
    <3>3. CASE l = nextLog
      <4>1. l \in Range(<<nextLog>>)
        BY <3>3, RangeSeq
      <4> QED
        BY <1>1, <2>1, <4>1, TakeHas DEF Housed
    <3>4. CASE Housed(l)
      <4>1. (\E u \in Threads : l \in Range(hold[u])) => \E u \in Threads : l \in Range(hold'[u])
        BY <1>1, <2>1, <3>1, TakeIn, RangeSeq
      <4> QED
        BY <2>1, <3>4, <4>1 DEF Housed
    <3> QED
      BY <3>2, <3>3, <3>4
  <2> QED
    BY <2>2, <2>3
<1>3. CASE RawPush(c)
  <2>1. /\ Take(c, <<>>, "idle") /\ "idle" \in PCsOf(c) /\ pc[c] = "raw" /\ Running
        /\ UNCHANGED <<builder, loggroupQ, ring, rd, wr, shutdown>>
    BY <1>1, <1>3 DEF RawPush, CallerPCs, Joined
  <2>2. Control'
    BY <1>1, <2>1, TakeControl
  <2>3. NoneLost'
    <3> SUFFICES ASSUME NEW l \in Logs, fate'[l] = "held" PROVE Housed(l)'
      BY DEF NoneLost
    <3>1. (\E u \in Threads : l \in Range(hold[u])) =>
            l \in Range(hold[c]) \/ \E u \in Threads : l \in Range(hold'[u])
      BY <1>1, <2>1, TakeIn
    <3>2. CASE senderQ' = Append(senderQ, hold[c]) /\ UNCHANGED fate
      <4>1. InQueue(senderQ', l) <=> InQueue(senderQ, l) \/ l \in Range(hold[c])
        BY <1>1, <3>2, AppendIn DEF TypeOK
      <4>2. Housed(l)
        BY <3>2 DEF NoneLost
      <4> QED
        BY <2>1, <3>1, <4>1, <4>2 DEF Housed
    <3>3. CASE fate' = Meet(hold[c], "leaked") /\ UNCHANGED senderQ
      <4>1. Housed(l) /\ l \notin Range(hold[c])
        BY <3>3, MeetHeld DEF NoneLost
      <4> QED
        BY <2>1, <3>1, <3>3, <4>1 DEF Housed
    <3> QED
      BY <1>3, <3>2, <3>3 DEF RawPush
  <2> QED
    BY <2>2, <2>3
<1> QED
  BY <1>2, <1>3 DEF RawStep

\* A group that meets its fate when a thread lays it down.
LEMMA LaidDown ==
    ASSUME TypeOK, NoneLost, NEW t \in Threads, NEW to, Take(t, <<>>, to),
           NEW f, f # "held", fate' = Meet(hold[t], f),
           UNCHANGED <<builder, loggroupQ, ring, rd, wr, senderQ>>
    PROVE  NoneLost'
<1> SUFFICES ASSUME NEW l \in Logs, fate'[l] = "held" PROVE Housed(l)'
  BY DEF NoneLost
<1>1. Housed(l) /\ l \notin Range(hold[t])
  BY MeetHeld DEF NoneLost
<1>2. (\E u \in Threads : l \in Range(hold[u])) => \E u \in Threads : l \in Range(hold'[u])
  BY <1>1, TakeIn
<1> QED
  BY <1>1, <1>2 DEF Housed

\* log_producer_send_fun in a thread other than the destroyer.
LEMMA SendFunInv ==
    ASSUME Inv, NEW t \in Threads, t # Destroyer, SendFun(t)
    PROVE  Control' /\ NoneLost'
<1> USE DEF Inv, Control
<1>1. "check" \in PCsOf(t) /\ "post" \in PCsOf(t) /\ "idle" \in PCsOf(t)
  BY DEF PCsOf, CallerPCs, FlushPCs, SenderPCs
<1>2. CASE SendExit(t) \/ SendDone(t)
  <2>1. /\ Take(t, <<>>, "idle") /\ pc[t] \in {"check", "post"}
        /\ UNCHANGED <<builder, loggroupQ, ring, rd, wr, senderQ, shutdown>>
    BY <1>2 DEF SendExit, SendDone, Return, queues
  <2>2. \E f : f # "held" /\ fate' = Meet(hold[t], f)
    BY <1>2 DEF SendExit, SendDone
  <2>3. Control'
    BY <1>1, <2>1, TakeControl
  <2>4. NoneLost'
    BY <2>1, <2>2, LaidDown
  <2> QED
    BY <2>3, <2>4
<1>3. CASE SendStart(t)
  BY <1>1, <1>3, MoveInv DEF SendStart, Carrying
<1>4. CASE SendFailed(t)
  BY <1>1, <1>4, MoveInv DEF SendFailed, Carrying
<1> QED
  BY <1>2, <1>3, <1>4 DEF SendFun

\* The send threads' loop.
LEMMA SenderInv ==
    ASSUME Inv, NEW t \in SendThreads, SenderStep(t)
    PROVE  Control' /\ NoneLost'
<1> USE DEF Inv, Control
<1>1. /\ t \in Threads /\ t # Destroyer /\ t \notin Clients \cup RawClients
      /\ \A to \in SenderPCs : to \in PCsOf(t)
  BY Kinds, ConstantTypes DEF PCsOf
<1>2. CASE SenderLoop(t)
  BY <1>1, <1>2, MoveInv DEF SenderLoop, SenderPCs, Carrying
<1>3. CASE SenderPop(t)
  <2>1. /\ Take(t, Head(senderQ), "check") /\ pc[t] = "pop"
        /\ senderQ # <<>> /\ senderQ' = Tail(senderQ)
        /\ UNCHANGED <<builder, loggroupQ, ring, rd, wr, shutdown, fate>>
    BY <1>3 DEF SenderPop
  <2>2. Control'
    BY <1>1, <2>1, TakeControl DEF SenderPCs, Carrying
  <2>3. NoneLost'
    <3> SUFFICES ASSUME NEW l \in Logs, fate'[l] = "held" PROVE Housed(l)'
      BY DEF NoneLost
    <3>1. hold[t] = <<>> /\ Housed(l)
      BY <1>1, <2>1 DEF EmptyHanded, Carrying, NoneLost
    <3>2. (\E u \in Threads : l \in Range(hold[u])) => \E u \in Threads : l \in Range(hold'[u])
      BY <1>1, <2>1, <3>1, TakeIn, RangeSeq
    <3>3. InQueue(senderQ, l) => InQueue(senderQ', l) \/ \E u \in Threads : l \in Range(hold'[u])
      BY <1>1, <2>1, PopIn, TakeHas DEF TypeOK
    <3> QED
      BY <2>1, <3>1, <3>2, <3>3 DEF Housed
  <2> QED
    BY <2>2, <2>3
<1>4. CASE SenderPopTimeout(t)
  BY <1>1, <1>4, MoveInv DEF SenderPopTimeout, SenderPCs, Carrying
<1> QED
  BY <1>2, <1>3, <1>4 DEF SenderStep

\* The flush thread, up to the compressed buffer in the ring ...
LEMMA PackingInv ==
    ASSUME Inv, FlushLoop \/ DrainPop \/ DrainEnd \/ Unbook \/ Pack \/ PackFailed
    PROVE  Control' /\ NoneLost'
<1> USE DEF Inv, Control
<1>1. /\ Flush \in Threads /\ Flush # Destroyer /\ Flush \notin Clients \cup RawClients
      /\ \A to \in FlushPCs : to \in PCsOf(Flush)
  BY Kinds, ConstantTypes DEF PCsOf
<1>2. CASE FlushLoop
  BY <1>1, <1>2, MoveInv DEF FlushLoop, FlushPCs, Carrying
<1>3. CASE DrainPop
  <2>1. /\ Take(Flush, Head(loggroupQ), "unbook") /\ Goto(Flush, "unbook")
        /\ pc[Flush] = "drain" /\ wr - rd < ParamQueueSize
        /\ loggroupQ # <<>> /\ loggroupQ' = Tail(loggroupQ)
        /\ UNCHANGED <<builder, ring, rd, wr, senderQ, shutdown, fate>>
    BY <1>3 DEF DrainPop, Take
  <2>2. Placed' /\ EmptyHanded'
    BY <1>1, <2>1, GotoPlaced, TakeEmptyHanded DEF FlushPCs, Carrying
  <2>3. Joined'
    BY <1>1, <2>1, OtherJoined
  <2>4. RingBound'
    BY <2>1 DEF RingBound
  <2>5. NoneLost'
    <3> SUFFICES ASSUME NEW l \in Logs, fate'[l] = "held" PROVE Housed(l)'
      BY DEF NoneLost
    <3>1. hold[Flush] = <<>> /\ Housed(l)
      BY <1>1, <2>1 DEF EmptyHanded, Carrying, NoneLost
    <3>2. (\E u \in Threads : l \in Range(hold[u])) => \E u \in Threads : l \in Range(hold'[u])
      BY <1>1, <2>1, <3>1, TakeIn, RangeSeq
    <3>3. InQueue(loggroupQ, l) =>
            InQueue(loggroupQ', l) \/ \E u \in Threads : l \in Range(hold'[u])
      BY <1>1, <2>1, PopIn, TakeHas DEF TypeOK
    <3> QED
      BY <2>1, <3>1, <3>2, <3>3 DEF Housed
  <2> QED
    BY <2>2, <2>3, <2>4, <2>5
<1>4. CASE DrainEnd
  BY <1>1, <1>4, MoveInv DEF DrainEnd, FlushPCs, Carrying
<1>5. CASE Unbook
  <2>1. /\ Goto(Flush, "pack") /\ pc[Flush] = "unbook"
        /\ UNCHANGED <<builder, loggroupQ, ring, rd, wr, senderQ, shutdown, hold, fate>>
    BY <1>5 DEF Unbook
  <2>2. Placed' /\ EmptyHanded'
    BY <1>1, <2>1, GotoPlaced, GotoEmptyHanded DEF FlushPCs, Carrying
  <2>3. Joined'
    BY <1>1, <2>1, OtherJoined
  <2>4. RingBound'
    BY <2>1, RingUntouched
  <2>5. NoneLost'
    BY <2>1, Unmoved
  <2> QED
    BY <2>2, <2>3, <2>4, <2>5
<1>6. CASE Pack
  <2>1. /\ Take(Flush, <<>>, "drain") /\ Goto(Flush, "drain") /\ pc[Flush] = "pack"
        /\ ring' = [ring EXCEPT ![wr % ParamQueueSize] = hold[Flush]] /\ wr' = wr + 1
        /\ UNCHANGED <<builder, loggroupQ, rd, senderQ, shutdown, fate>>
    BY <1>6 DEF Pack, Take
  <2>2. Placed' /\ EmptyHanded'
    BY <1>1, <2>1, GotoPlaced, TakeEmptyHanded DEF FlushPCs
  <2>3. Joined'
    BY <1>1, <2>1, OtherJoined
  <2>4. RingBound'
    <3>1. pc'[Flush] = "drain"
      BY <1>1, <2>1 DEF Goto, TypeOK
    <3> QED
      BY <2>1, <3>1, ConstantTypes DEF RingBound, TypeOK
  <2>5. NoneLost'
    <3> SUFFICES ASSUME NEW l \in Logs, fate'[l] = "held" PROVE Housed(l)'
      BY DEF NoneLost
    <3>1. Housed(l)
      BY <2>1 DEF NoneLost
    <3>2. (\E u \in Threads : l \in Range(hold[u])) =>
            l \in Range(hold[Flush]) \/ \E u \in Threads : l \in Range(hold'[u])
      BY <1>1, <2>1, TakeIn
    <3>3. wr % ParamQueueSize \in 0 .. ParamQueueSize - 1
      BY SlotType DEF TypeOK
    <3>4. CASE l \in Range(hold[Flush])
      <4>1. wr \in rd .. wr' - 1 /\ ring'[wr % ParamQueueSize] = hold[Flush]
        <5>1. wr - rd >= 0 /\ wr \in Nat /\ rd \in Nat
          BY ConstantTypes DEF RingBound, TypeOK
        <5>2. wr \in rd .. wr' - 1
          BY <2>1, <5>1
        <5>3. ring'[wr % ParamQueueSize] = hold[Flush]
          BY <2>1, <3>3 DEF TypeOK
        <5> QED
          BY <5>2, <5>3
      <4>2. \E k \in rd .. wr' - 1 : l \in Range(ring'[k % ParamQueueSize])
        BY <3>4, <4>1
      <4> QED
        BY <2>1, <4>2 DEF Housed
    <3>5. CASE \E k \in rd .. wr - 1 : l \in Range(ring[k % ParamQueueSize])
      <4>1. PICK k \in rd .. wr - 1 : l \in Range(ring[k % ParamQueueSize])
        BY <3>5
      <4>2. k \in Nat /\ k < wr /\ wr - k < ParamQueueSize /\ k \in rd .. wr' - 1
        <5>1. wr - rd < ParamQueueSize /\ wr \in Nat /\ rd \in Nat
          BY <2>1 DEF RingBound, TypeOK
        <5> QED
          BY <2>1, <4>1, <5>1, ConstantTypes
      <4>3. k % ParamQueueSize # wr % ParamQueueSize
        BY <4>2, ModDistinct, ConstantTypes DEF TypeOK
      <4>4. k % ParamQueueSize \in 0 .. ParamQueueSize - 1
        BY <4>2, SlotType
      <4>5. ring'[k % ParamQueueSize] = ring[k % ParamQueueSize]
        BY <2>1, <4>3, <4>4 DEF TypeOK
      <4> QED
        BY <2>1, <4>1, <4>2, <4>5 DEF Housed
    <3> QED
      BY <2>1, <3>1, <3>2, <3>4, <3>5 DEF Housed
  <2> QED
    BY <2>2, <2>3, <2>4, <2>5
<1>7. CASE PackFailed
  <2>1. /\ Take(Flush, <<>>, "drain") /\ pc[Flush] = "pack"
        /\ fate' = Meet(hold[Flush], "dropped")
        /\ UNCHANGED <<builder, loggroupQ, ring, rd, wr, senderQ, shutdown>>
    BY <1>7 DEF PackFailed, queues
  <2>2. Control'
    BY <1>1, <2>1, TakeControl DEF FlushPCs
  <2>3. NoneLost'
    BY <1>1, <2>1, LaidDown
  <2> QED
    BY <2>2, <2>3
<1> QED
  BY <1>2, <1>3, <1>4, <1>5, <1>6, <1>7

\* ... its look at the builder ...
LEMMA TryInv ==
    ASSUME Inv, TryTake \/ TrySkip \/ TryPush \/ TryRead \/ TryWrite
    PROVE  Control' /\ NoneLost'
<1> USE DEF Inv, Control
<1>1. /\ Flush \in Threads /\ Flush # Destroyer /\ Flush \notin Clients \cup RawClients
      /\ \A to \in FlushPCs : to \in PCsOf(Flush)
  BY Kinds, ConstantTypes DEF PCsOf
<1>2. CASE TryTake
  <2>1. /\ Take(Flush, builder, "tryPush") /\ pc[Flush] = "try" /\ builder' = <<>>
        /\ UNCHANGED <<loggroupQ, ring, rd, wr, senderQ, shutdown, fate>>
    BY <1>2 DEF TryTake
  <2>2. Control'
    BY <1>1, <2>1, TakeControl DEF FlushPCs, Carrying
  <2>3. NoneLost'
    <3> SUFFICES ASSUME NEW l \in Logs, fate'[l] = "held" PROVE Housed(l)'
      BY DEF NoneLost
    <3>1. hold[Flush] = <<>> /\ Housed(l)
      BY <1>1, <2>1 DEF EmptyHanded, Carrying, NoneLost
    <3>2. (\E u \in Threads : l \in Range(hold[u])) => \E u \in Threads : l \in Range(hold'[u])
      BY <1>1, <2>1, <3>1, TakeIn, RangeSeq
    <3>3. l \in Range(builder) => \E u \in Threads : l \in Range(hold'[u])
      BY <1>1, <2>1, TakeHas
    <3> QED
      BY <2>1, <3>1, <3>2, <3>3 DEF Housed
  <2> QED
    BY <2>2, <2>3
<1>3. CASE TrySkip
  BY <1>1, <1>3, MoveInv DEF TrySkip, FlushPCs, Carrying
<1>4. CASE TryPush
  <2>1. /\ pc[Flush] = "tryPush"
        /\ UNCHANGED <<builder, ring, rd, wr, senderQ, shutdown>>
    BY <1>4 DEF TryPush
  <2>2. CASE Len(loggroupQ) < BaseQueueSize
    <3>1. /\ Goto(Flush, "tryRead") /\ UNCHANGED <<hold, fate>>
          /\ loggroupQ' = Append(loggroupQ, hold[Flush])
      BY <1>4, <2>2 DEF TryPush
    <3>2. Placed' /\ EmptyHanded'
      BY <1>1, <3>1, GotoPlaced, GotoEmptyHanded DEF FlushPCs, Carrying
    <3>3. Joined'
      BY <1>1, <2>1, <3>1, OtherJoined
    <3>4. RingBound'
      <4>1. pc'[Flush] = "tryRead"
        BY <1>1, <3>1 DEF Goto, TypeOK
      <4> QED
        BY <2>1, <4>1, RingUntouched
    <3>5. NoneLost'
      <4> SUFFICES ASSUME NEW l \in Logs, fate'[l] = "held" PROVE Housed(l)'
        BY DEF NoneLost
      <4>1. InQueue(loggroupQ, l) => InQueue(loggroupQ', l)
        BY <1>1, <3>1, AppendIn DEF TypeOK
      <4> QED
        BY <2>1, <3>1, <4>1 DEF Housed, NoneLost
    <3> QED
      BY <3>2, <3>3, <3>4, <3>5
  <2>3. CASE ~(Len(loggroupQ) < BaseQueueSize)
    <3>1. /\ Take(Flush, <<>>, "send") /\ fate' = Meet(hold[Flush], "dropped")
          /\ UNCHANGED loggroupQ
      BY <1>4, <2>3 DEF TryPush
    <3>2. Control'
      BY <1>1, <2>1, <3>1, TakeControl DEF FlushPCs
    <3>3. NoneLost'
      BY <1>1, <2>1, <3>1, LaidDown
    <3> QED
      BY <3>2, <3>3
  <2> QED
    BY <2>2, <2>3
<1>5. CASE TryRead
  <2>1. /\ Goto(Flush, "tryWrite") /\ pc[Flush] = "tryRead"
        /\ UNCHANGED <<builder, loggroupQ, ring, rd, wr, senderQ, shutdown, hold, fate>>
    BY <1>5 DEF TryRead, queues
  <2>2. Placed' /\ EmptyHanded'
    BY <1>1, <2>1, GotoPlaced, GotoEmptyHanded DEF FlushPCs, Carrying
  <2>3. Joined'
    BY <1>1, <2>1, OtherJoined
  <2>4. RingBound'
    <3>1. pc'[Flush] = "tryWrite"
      BY <1>1, <2>1 DEF Goto, TypeOK
    <3> QED
      BY <2>1, <3>1, RingUntouched
  <2>5. NoneLost'
    BY <2>1, Unmoved
  <2> QED
    BY <2>2, <2>3, <2>4, <2>5
<1>6. CASE TryWrite
  <2>1. /\ Take(Flush, <<>>, "send") /\ pc[Flush] = "tryWrite"
        /\ UNCHANGED <<builder, loggroupQ, ring, rd, wr, senderQ, shutdown, fate>>
    BY <1>6 DEF TryWrite, queues
  <2>2. Control'
    BY <1>1, <2>1, TakeControl DEF FlushPCs
  <2>3. NoneLost'
    <3> SUFFICES ASSUME NEW l \in Logs, fate'[l] = "held" PROVE Housed(l)'
      BY DEF NoneLost
    <3>1. (\E u \in Threads : l \in Range(hold[u])) =>
            l \in Range(hold[Flush]) \/ \E u \in Threads : l \in Range(hold'[u])
      BY <1>1, <2>1, TakeIn
    <3>2. l \in Range(hold[Flush]) => InQueue(loggroupQ, l)
      BY <2>1 DEF Booking
    <3> QED
      BY <2>1, <3>1, <3>2 DEF Housed, NoneLost
  <2> QED
    BY <2>2, <2>3
<1> QED
  BY <1>2, <1>3, <1>4, <1>5, <1>6

\* ... and its send phase.
LEMMA SendPhaseInv ==
    ASSUME Inv, SendParam \/ PushParam \/ SendDirect \/ SendEnd
    PROVE  Control' /\ NoneLost'
<1> USE DEF Inv, Control
<1>1. /\ Flush \in Threads /\ Flush # Destroyer /\ Flush \notin Clients \cup RawClients
      /\ \A to \in FlushPCs : to \in PCsOf(Flush)
  BY Kinds, ConstantTypes DEF PCsOf
<1>2. CASE SendParam \/ SendDirect
  <2>1. PICK to \in {"pushParam", "check"} : Take(Flush, ring[rd % ParamQueueSize], to)
    BY <1>2 DEF SendParam, SendDirect
  <2>2. /\ Goto(Flush, to) /\ pc[Flush] = "send" /\ wr > rd /\ rd' = rd + 1
        /\ UNCHANGED <<builder, loggroupQ, ring, wr, senderQ, shutdown, fate>>
    BY <1>2, <2>1 DEF SendParam, SendDirect, Take
  <2>3. Placed' /\ EmptyHanded'
    BY <1>1, <2>1, <2>2, GotoPlaced, TakeEmptyHanded DEF FlushPCs, Carrying
  <2>4. Joined'
    BY <1>1, <2>2, OtherJoined
  <2>5. RingBound'
    <3>1. pc'[Flush] = to
      BY <1>1, <2>2 DEF Goto, TypeOK
    <3> QED
      BY <2>1, <2>2, <3>1, ConstantTypes DEF RingBound, TypeOK
  <2>6. NoneLost'
    <3> SUFFICES ASSUME NEW l \in Logs, fate'[l] = "held" PROVE Housed(l)'
      BY DEF NoneLost
    <3>1. hold[Flush] = <<>> /\ Housed(l)
      BY <1>1, <2>2 DEF EmptyHanded, Carrying, NoneLost
    <3>2. (\E u \in Threads : l \in Range(hold[u])) => \E u \in Threads : l \in Range(hold'[u])
      BY <1>1, <2>1, <3>1, TakeIn, RangeSeq
    <3>3. ASSUME NEW k \in rd .. wr - 1, l \in Range(ring[k % ParamQueueSize])
          PROVE  Housed(l)'
      <4>1. CASE k = rd
        BY <1>1, <2>1, <3>3, <4>1, TakeHas DEF Housed
      <4>2. CASE k # rd
        <5>1. k \in rd' .. wr' - 1
          BY <2>2, <4>2 DEF TypeOK
        <5> QED
          BY <2>2, <3>3, <5>1 DEF Housed
      <4> QED
        BY <4>1, <4>2
    <3> QED
      BY <2>2, <3>1, <3>2, <3>3 DEF Housed
  <2> QED
    BY <2>3, <2>4, <2>5, <2>6
<1>3. CASE PushParam
  <2>1. /\ Take(Flush, <<>>, "send") /\ pc[Flush] = "pushParam"
        /\ UNCHANGED <<builder, loggroupQ, ring, rd, wr, shutdown>>
    BY <1>3 DEF PushParam
  <2>2. Control'
    BY <1>1, <2>1, TakeControl DEF FlushPCs
  <2>3. NoneLost'
    <3> SUFFICES ASSUME NEW l \in Logs, fate'[l] = "held" PROVE Housed(l)'
      BY DEF NoneLost
    <3>1. (\E u \in Threads : l \in Range(hold[u])) =>
            l \in Range(hold[Flush]) \/ \E u \in Threads : l \in Range(hold'[u])
      BY <1>1, <2>1, TakeIn
    <3>2. CASE senderQ' = Append(senderQ, hold[Flush]) /\ UNCHANGED fate
      <4>1. InQueue(senderQ', l) <=> InQueue(senderQ, l) \/ l \in Range(hold[Flush])
        BY <1>1, <3>2, AppendIn DEF TypeOK
      <4>2. Housed(l)
        BY <3>2 DEF NoneLost
      <4> QED
        BY <2>1, <3>1, <4>1, <4>2 DEF Housed
    <3>3. CASE fate' = Meet(hold[Flush], "leaked") /\ UNCHANGED senderQ
      <4>1. Housed(l) /\ l \notin Range(hold[Flush])
        BY <3>3, MeetHeld DEF NoneLost
      <4> QED
        BY <2>1, <3>1, <3>3, <4>1 DEF Housed
    <3> QED
      BY <1>3, <3>2, <3>3 DEF PushParam
  <2> QED
    BY <2>2, <2>3
<1>4. CASE SendEnd
  BY <1>1, <1>4, MoveInv DEF SendEnd, FlushPCs, Carrying
<1> QED
  BY <1>2, <1>3, <1>4

\* A step of the destroyer: what must be true at the place it goes to.
LEMMA DestroyerControl ==
    ASSUME Inv, NEW to \in DestroyerPCs \ {"idle"}, Goto(Destroyer, to),
           EmptyHanded',
           UNCHANGED <<rd, wr>>, builder' = <<>>,
           \A c \in Clients \cup RawClients : pc[c] = "idle",
           shutdown' <=> to \in Stopping,
           to \in Stopping \ {"joinFlush"} => pc[Flush] = "exit",
           to \in {"drainSender", "check", "freed"} => \A t \in SendThreads : pc[t] = "exit",
           to = "freed" => senderQ' = <<>>
    PROVE  Control'
<1> USE DEF Inv, Control
<1>1. /\ Destroyer \in Threads /\ Flush \in Threads /\ Destroyer # Flush
      /\ Destroyer \notin SendThreads \cup Clients \cup RawClients
  BY Kinds, ConstantTypes
<1>2. pc'[Destroyer] = to /\ \A t \in Threads : t # Destroyer => pc'[t] = pc[t]
  BY <1>1 DEF Goto, TypeOK
<1>3. Placed'
  BY <1>1, GotoPlaced DEF PCsOf
<1>4. Joined'
  BY <1>1, <1>2, Kinds, ConstantTypes DEF Joined, Running, Freeing
<1>5. RingBound'
  BY <1>1, <1>2, RingUntouched
<1> QED
  BY <1>3, <1>4, <1>5

\* The destroyer's steps.
LEMMA DestroyInv ==
    ASSUME Inv, PushLast \/ DestroyStep \/ SendFun(Destroyer)
    PROVE  Control' /\ NoneLost'
<1> USE DEF Inv, Control
<1>1. Destroyer \in Threads /\ Destroyer \notin SendThreads \cup {Flush}
  BY Kinds, ConstantTypes
<1>2. ~Running => /\ builder = <<>>
                  /\ \A c \in Clients \cup RawClients : pc[c] = "idle"
  BY DEF Joined
<1>3. CASE PushLast
  <2>1. /\ Goto(Destroyer, "waitGroups") /\ pc[Destroyer] = "idle" /\ builder' = <<>>
        /\ \A c \in Clients \cup RawClients : pc[c] = "idle"
        /\ UNCHANGED <<ring, rd, wr, senderQ, shutdown, hold>>
    BY <1>3 DEF PushLast, Running
  <2>2. EmptyHanded'
    BY <1>1, <2>1, GotoEmptyHanded DEF EmptyHanded, Carrying
  <2>3. Control'
    <3>1. ~shutdown
      BY <2>1 DEF Joined, Stopping
    <3> QED
      BY <2>1, <2>2, <3>1, DestroyerControl DEF DestroyerPCs, Stopping
  <2>4. NoneLost'
    <3> SUFFICES ASSUME NEW l \in Logs, fate'[l] = "held" PROVE Housed(l)'
      BY DEF NoneLost
    <3>1. CASE builder = <<>> /\ UNCHANGED <<loggroupQ, fate>>
      BY <2>1, <3>1 DEF Housed, NoneLost
    <3>2. CASE loggroupQ' = Append(loggroupQ, builder) /\ UNCHANGED fate
      <4>1. InQueue(loggroupQ', l) <=> InQueue(loggroupQ, l) \/ l \in Range(builder)
        BY <3>2, AppendIn DEF TypeOK
      <4> QED
        BY <2>1, <3>2, <4>1 DEF Housed, NoneLost
    <3>3. CASE fate' = Meet(builder, "dropped") /\ UNCHANGED loggroupQ
      <4>1. Housed(l) /\ l \notin Range(builder)
        BY <3>3, MeetHeld DEF NoneLost
      <4> QED
        BY <2>1, <3>3, <4>1 DEF Housed
    <3> QED
      BY <1>3, <3>1, <3>2, <3>3 DEF PushLast
  <2> QED
    BY <2>3, <2>4
<1>4. CASE WaitGroups \/ WaitParams \/ WaitSender \/ WaitTimeout
  <2>1. PICK to \in {"waitGroups", "waitParams", "waitSender", "shutdown"} : Goto(Destroyer, to)
    BY <1>4 DEF WaitGroups, WaitParams, WaitSender, WaitTimeout, WaitOperand
  <2>2. /\ pc[Destroyer] \in {"waitGroups", "waitParams", "waitSender"}
        /\ UNCHANGED <<builder, loggroupQ, ring, rd, wr, senderQ, shutdown, hold, fate>>
    BY <1>4 DEF WaitGroups, WaitParams, WaitSender, WaitTimeout, WaitOperand, queues
  <2>3. EmptyHanded'
    BY <1>1, <2>1, <2>2, GotoEmptyHanded DEF EmptyHanded, Carrying
  <2>4. Control'
    <3>1. ~shutdown /\ ~Running
      BY <2>2 DEF Joined, Stopping, Running
    <3> QED
      BY <1>2, <2>1, <2>2, <2>3, <3>1, DestroyerControl DEF DestroyerPCs, Stopping
  <2>5. NoneLost'
    BY <2>2, Unmoved
  <2> QED
    BY <2>4, <2>5
<1>5. CASE Shutdown
  <2>1. /\ Goto(Destroyer, "joinFlush") /\ pc[Destroyer] = "shutdown" /\ shutdown' = TRUE
        /\ UNCHANGED <<builder, loggroupQ, ring, rd, wr, senderQ, hold, fate>>
    BY <1>5 DEF Shutdown, queues
  <2>2. EmptyHanded'
    BY <1>1, <2>1, GotoEmptyHanded DEF EmptyHanded, Carrying
  <2>3. Control'
    <3>1. ~Running
      BY <2>1 DEF Running
    <3> QED
      BY <1>2, <2>1, <2>2, <3>1, DestroyerControl DEF DestroyerPCs, Stopping
  <2>4. NoneLost'
    BY <2>1, Unmoved
  <2> QED
    BY <2>3, <2>4
<1>6. CASE JoinFlush \/ JoinSend \/ FreeTail
  <2>1. PICK to \in {"joinSend", "drainSender", "freed"} : Goto(Destroyer, to)
    BY <1>6 DEF JoinFlush, JoinSend, FreeTail
  <2>2. /\ pc[Destroyer] \in Stopping \ {"check", "freed"}
        /\ UNCHANGED <<builder, loggroupQ, ring, rd, wr, senderQ, shutdown, hold, fate>>
    BY <1>6 DEF JoinFlush, JoinSend, FreeTail, queues, Stopping
  <2>3. /\ pc[Flush] = "exit"
        /\ to # "joinSend" => \A t \in SendThreads : pc[t] = "exit"
        /\ to = "freed" => senderQ = <<>>
    <3>1. CASE JoinFlush
      <4>1. to = "joinSend"
        BY <1>1, <2>1, <3>1 DEF JoinFlush, Goto, TypeOK
      <4> QED
        BY <3>1, <4>1 DEF JoinFlush
    <3>2. CASE JoinSend
      <4>1. to = "drainSender"
        BY <1>1, <2>1, <3>2 DEF JoinSend, Goto, TypeOK
      <4> QED
        BY <3>2, <4>1 DEF JoinSend, Joined, Stopping
    <3>3. CASE FreeTail
      BY <3>3 DEF FreeTail, Joined, Stopping, Freeing
    <3> QED
      BY <1>6, <3>1, <3>2, <3>3
  <2>4. EmptyHanded'
    BY <1>1, <2>1, <2>2, GotoEmptyHanded DEF EmptyHanded, Carrying, Stopping
  <2>5. Control'
    <3>1. shutdown /\ ~Running
      BY <2>2 DEF Joined, Stopping, Running
    <3> QED
      BY <1>2, <2>1, <2>2, <2>3, <2>4, <3>1, DestroyerControl DEF DestroyerPCs, Stopping
  <2>6. NoneLost'
    BY <2>2, Unmoved
  <2> QED
    BY <2>5, <2>6
<1>7. CASE DrainSender
  <2>1. /\ Take(Destroyer, Head(senderQ), "check") /\ Goto(Destroyer, "check")
        /\ pc[Destroyer] = "drainSender" /\ senderQ # <<>> /\ senderQ' = Tail(senderQ)
        /\ UNCHANGED <<builder, loggroupQ, ring, rd, wr, shutdown, fate>>
    BY <1>7 DEF DrainSender, Take
  <2>2. EmptyHanded'
    BY <1>1, <2>1, TakeEmptyHanded DEF Carrying
  <2>3. Control'
    <3>1. shutdown /\ ~Running /\ Freeing
      BY <2>1 DEF Joined, Stopping, Running, Freeing
    <3>2. pc[Flush] = "exit" /\ \A t \in SendThreads : pc[t] = "exit"
      BY <2>1, <3>1 DEF Joined, Stopping
    <3> QED
      BY <1>2, <2>1, <2>2, <3>1, <3>2, DestroyerControl DEF DestroyerPCs, Stopping
  <2>4. NoneLost'
    <3> SUFFICES ASSUME NEW l \in Logs, fate'[l] = "held" PROVE Housed(l)'
      BY DEF NoneLost
    <3>1. hold[Destroyer] = <<>> /\ Housed(l)
      BY <1>1, <2>1 DEF EmptyHanded, Carrying, NoneLost
    <3>2. (\E u \in Threads : l \in Range(hold[u])) => \E u \in Threads : l \in Range(hold'[u])
      BY <1>1, <2>1, <3>1, TakeIn, RangeSeq
    <3>3. InQueue(senderQ, l) => InQueue(senderQ', l) \/ \E u \in Threads : l \in Range(hold'[u])
      BY <1>1, <2>1, PopIn, TakeHas DEF TypeOK
    <3> QED
      BY <2>1, <3>1, <3>2, <3>3 DEF Housed
  <2> QED
    BY <2>3, <2>4
<1>8. CASE SendFun(Destroyer)
  <2>1. pc[Destroyer] # "post"
    BY <1>1 DEF Placed, PCsOf, DestroyerPCs
  <2>2. pc[Destroyer] = "check" => shutdown /\ ~Running /\ Freeing
    BY DEF Joined, Stopping, Running, Freeing
  <2>3. SendExit(Destroyer) /\ shutdown /\ ~Running /\ Freeing
    BY <1>8, <2>1, <2>2 DEF SendFun, SendExit, SendStart, SendDone, SendFailed
  <2>4. /\ Take(Destroyer, <<>>, "drainSender") /\ Goto(Destroyer, "drainSender")
        /\ pc[Destroyer] = "check" /\ fate' = Meet(hold[Destroyer], "buffered")
        /\ UNCHANGED <<builder, loggroupQ, ring, rd, wr, senderQ, shutdown>>
    BY <2>3 DEF SendExit, Return, Take, queues
  <2>5. EmptyHanded'
    BY <1>1, <2>4, TakeEmptyHanded
  <2>6. Control'
    <3>1. pc[Flush] = "exit" /\ \A t \in SendThreads : pc[t] = "exit"
      BY <2>3, <2>4 DEF Joined, Stopping
    <3> QED
      BY <1>2, <2>3, <2>4, <2>5, <3>1, DestroyerControl DEF DestroyerPCs, Stopping
  <2>7. NoneLost'
    BY <1>1, <2>4, LaidDown
  <2> QED
    BY <2>6, <2>7
<1> QED
  BY <1>3, <1>4, <1>5, <1>6, <1>7, <1>8 DEF DestroyStep

\* What Flush has pushed stays in loggroup_queue until it is booked: only Flush pops.
LEMMA BookingStep == ASSUME Inv, Next PROVE Booking'
<1> USE DEF Inv, Control
<1>1. SUFFICES ASSUME pc'[Flush] \in {"tryRead", "tryWrite"}, NEW l \in Range(hold'[Flush])
               PROVE  InQueue(loggroupQ', l)
  BY DEF Booking
<1>2. CASE /\ pc[Flush] \in {"tryRead", "tryWrite"}
           /\ hold'[Flush] = hold[Flush] /\ UNCHANGED loggroupQ
  BY <1>1, <1>2 DEF Booking
<1>3. CASE \E g \in Seq(Logs) : /\ pc[Flush] \in {"tryRead", "tryWrite"}
                                /\ hold'[Flush] = hold[Flush]
                                /\ loggroupQ' = Append(loggroupQ, g)
  BY <1>1, <1>3, AppendIn DEF Booking, TypeOK
<1>4. ASSUME NEW t \in Threads, t # Flush, NEW to, Goto(t, to) PROVE pc'[Flush] = pc[Flush]
  BY <1>4, ConstantTypes DEF Goto, TypeOK
<1>5. ASSUME NEW t \in Threads, t # Flush, NEW g, NEW to, Take(t, g, to)
      PROVE  pc'[Flush] = pc[Flush] /\ hold'[Flush] = hold[Flush]
  BY <1>5, ConstantTypes DEF Goto, Take, TypeOK
<1>6. ASSUME NEW to, Goto(Flush, to) PROVE to \in {"tryRead", "tryWrite"}
  BY <1>1, <1>6, ConstantTypes DEF Goto, TypeOK
<1>7. CASE \E c \in Clients : ClientStep(c)
  <2>1. PICK c \in Clients : ClientStep(c)
    BY <1>7
  <2>2. c \in Threads /\ c # Flush
    BY Kinds
  <2>3. CASE AddRefused(c)
    BY <1>1, <1>2, <2>3 DEF AddRefused, vars, queues
  <2>4. CASE AddAdmitted(c) \/ AddQueueFull(c) \/ AddCreate(c)
    BY <1>1, <1>2, <1>4, <2>2, <2>4 DEF AddAdmitted, AddQueueFull, AddCreate, queues
  <2>5. CASE AddLocked(c)
    <3>1. Append(builder, nextLog) \in Seq(Logs)
      BY <2>5, SeqTypes DEF AddLocked, TypeOK, Logs
    <3>2. Goto(c, "idle") /\ UNCHANGED hold
      BY <2>5 DEF AddLocked
    <3>3. UNCHANGED loggroupQ \/ loggroupQ' = Append(loggroupQ, Append(builder, nextLog))
      BY <2>5 DEF AddLocked
    <3> QED
      BY <1>1, <1>2, <1>3, <1>4, <2>2, <3>1, <3>2, <3>3
  <2> QED
    BY <2>1, <2>3, <2>4, <2>5 DEF ClientStep
<1>8. CASE \E c \in RawClients : RawStep(c)
  <2>1. PICK c \in RawClients : RawStep(c)
    BY <1>8
  <2>2. UNCHANGED loggroupQ /\ \E g, to : Take(c, g, to)
    BY <2>1 DEF RawStep, RawBook, RawPush, queues
  <2> QED
    BY <1>1, <1>2, <1>5, <2>2, Kinds
<1>9. CASE \E t \in Threads : SendFun(t)
  <2>1. PICK t \in Threads : SendFun(t)
    BY <1>9
  <2>2. UNCHANGED loggroupQ
    BY <2>1 DEF SendFun, SendExit, SendStart, SendDone, SendFailed, queues
  <2>3. \/ \E to \in {"post", "check"} : Goto(t, to) /\ UNCHANGED hold
        \/ \E to \in {"idle", "drainSender"} : Take(t, <<>>, to)
    BY <2>1 DEF SendFun, SendExit, SendStart, SendDone, SendFailed, Return
  <2>4. CASE t # Flush
    BY <1>1, <1>2, <1>4, <1>5, <2>2, <2>3, <2>4
  <2>5. CASE t = Flush
    BY <1>6, <2>3, <2>5 DEF Take
  <2> QED
    BY <2>4, <2>5
<1>10. CASE \E t \in SendThreads : SenderStep(t)
  <2>1. PICK t \in SendThreads : SenderStep(t)
    BY <1>10
  <2>2. t \in Threads /\ t # Flush
    BY Kinds, ConstantTypes
  <2>3. CASE SenderLoop(t) \/ SenderPopTimeout(t)
    BY <1>1, <1>2, <1>4, <2>2, <2>3 DEF SenderLoop, SenderPopTimeout, queues
  <2>4. CASE SenderPop(t)
    BY <1>1, <1>2, <1>5, <2>2, <2>4 DEF SenderPop
  <2> QED
    BY <2>1, <2>3, <2>4 DEF SenderStep
<1>11. CASE FlushStep
  <2>1. CASE TryPush
    <3>1. UNCHANGED hold /\ loggroupQ' = Append(loggroupQ, hold[Flush])
      BY <1>6, <2>1 DEF TryPush, Take
    <3>2. hold[Flush] \in Seq(Logs)
      BY ConstantTypes DEF TypeOK
    <3> QED
      BY <1>1, <3>1, <3>2, AppendIn DEF TypeOK
  <2>2. CASE TryRead
    BY <1>1, <1>2, <2>2 DEF TryRead, queues
  <2>3. CASE ~(TryPush \/ TryRead)
    <3>1. \E to : Goto(Flush, to) /\ to \notin {"tryRead", "tryWrite"}
      BY <1>11, <2>3 DEF FlushStep, FlushLoop, DrainPop, DrainEnd, Unbook, Pack, PackFailed,
         TryTake, TrySkip, TryWrite, SendParam, PushParam, SendDirect, SendEnd, Take
    <3> QED
      BY <1>6, <3>1
  <2> QED
    BY <2>1, <2>2, <2>3
<1>12. CASE PushLast
  <2>1. Goto(Destroyer, "waitGroups") /\ UNCHANGED hold /\ builder \in Seq(Logs)
    BY <1>12 DEF PushLast, TypeOK
  <2>2. UNCHANGED loggroupQ \/ loggroupQ' = Append(loggroupQ, builder)
    BY <1>12 DEF PushLast
  <2> QED
    BY <1>1, <1>2, <1>3, <1>4, <2>1, <2>2, Kinds, ConstantTypes
<1>13. CASE DestroyStep
  <2>1. UNCHANGED loggroupQ
    BY <1>13 DEF DestroyStep, WaitGroups, WaitParams, WaitSender, WaitTimeout, WaitOperand,
       Shutdown, JoinFlush, JoinSend, DrainSender, FreeTail, queues
  <2>2. \/ \E to : Goto(Destroyer, to) /\ UNCHANGED hold
        \/ \E g, to : Take(Destroyer, g, to)
    BY <1>13 DEF DestroyStep, WaitGroups, WaitParams, WaitSender, WaitTimeout, WaitOperand,
       Shutdown, JoinFlush, JoinSend, DrainSender, FreeTail
  <2> QED
    BY <1>1, <1>2, <1>4, <1>5, <2>1, <2>2, Kinds, ConstantTypes
<1>14. CASE Freed
  BY <1>1, <1>2, <1>14 DEF Freed, vars, queues
<1> QED
  BY <1>7, <1>8, <1>9, <1>10, <1>11, <1>12, <1>13, <1>14 DEF Next

\* Every step keeps the invariant.
LEMMA StepInv == Inv /\ [Next]_vars => Inv'
<1> SUFFICES ASSUME Inv, [Next]_vars PROVE Inv'
  OBVIOUS
<1>1. TypeOK'
  BY StepType DEF Inv
<1>2. CASE UNCHANGED vars
  BY <1>1, <1>2 DEF vars, queues, Inv, Control, Placed, EmptyHanded, Joined, RingBound,
     Booking, NoneLost, Housed, InQueue, Running, Freeing
<1>3. CASE Next
  <2>1. Booking'
    BY <1>3, BookingStep
  <2>2. CASE Freed
    BY <1>2, <2>2 DEF Freed
  <2>3. CASE FlushStep
    <3>1. Control' /\ NoneLost'
      BY <2>3, PackingInv, TryInv, SendPhaseInv DEF FlushStep
    <3> QED
      BY <1>1, <2>1, <3>1 DEF Inv
  <2>4. CASE ~Freed /\ ~FlushStep
    <3>1. Control' /\ NoneLost'
      BY <1>3, <2>4, ClientInv, RawInv, SendFunInv, SenderInv, DestroyInv DEF Next
    <3> QED
      BY <1>1, <2>1, <3>1 DEF Inv
  <2> QED
    BY <2>2, <2>3, <2>4
<1> QED
  BY <1>2, <1>3

\* The invariant implies what is claimed of a producer whose queues are freed.
LEMMA InvQuiescent == Inv => Quiescent
<1> SUFFICES ASSUME Inv, Freeing PROVE /\ \A t \in SendThreads \cup {Flush} : pc[t] = "exit"
                                       /\ \A c \in Clients \cup RawClients : pc[c] = "idle"
                                       /\ builder = <<>>
                                       /\ pc[Destroyer] = "freed" => \A l \in Logs :
                                            fate[l] = "held" => InQueue(loggroupQ, l) \/ InQueue(Pending, l)
  BY DEF Quiescent
<1> USE DEF Inv, Control
<1>1. ~Running /\ pc[Destroyer] \in Stopping \ {"joinFlush"}
  BY DEF Freeing, Running, Stopping
<1>2. /\ \A t \in SendThreads \cup {Flush} : pc[t] = "exit"
      /\ \A c \in Clients \cup RawClients : pc[c] = "idle"
      /\ builder = <<>>
  BY <1>1 DEF Joined
<1>3. ASSUME pc[Destroyer] = "freed", NEW l \in Logs, fate[l] = "held"
      PROVE  InQueue(loggroupQ, l) \/ InQueue(Pending, l)
  <2>1. \A t \in Threads : pc[t] \in {"exit", "idle", "freed"}
    BY <1>2, <1>3 DEF Threads
  <2>2. \A t \in Threads : Range(hold[t]) = {}
    BY <2>1, RangeSeq DEF EmptyHanded, Carrying
  <2>3. ~InQueue(senderQ, l) /\ l \notin Range(builder)
    BY <1>2, <1>3, RangeSeq DEF Joined, InQueue
  <2>4. Housed(l)
    BY <1>3 DEF NoneLost
  <2> QED
    BY <2>2, <2>3, <2>4, PendingIn DEF Housed
<1> QED
  BY <1>2, <1>3

\* When destroy_log_producer_manager frees the queues, no thread is left inside the
\* producer, and no log that was accepted is anywhere but where the destroyer cannot
\* reach it any more: in loggroup_queue or in send_param_queue.
THEOREM QuiescentCorrect == Spec => []Quiescent
<1>1. Spec => []Inv
  BY InitInv, StepInv, PTL DEF Spec
<1> QED
  BY <1>1, InvQuiescent, PTL

\* send_param_queue never overruns: the write cursor is at most the queue's size
\* ahead of the read cursor, so that no parameter is overwritten before it is sent.
THEOREM RingBounded == Spec => [](wr - rd \in 0 .. ParamQueueSize)
<1>1. Spec => []Inv
  BY InitInv, StepInv, PTL DEF Spec
<1>2. Inv => wr - rd \in 0 .. ParamQueueSize
  BY DEF Inv, Control, RingBound
<1> QED
  BY <1>1, <1>2, PTL

-----------------------------------------------------------------------------
(***************************************************************************)
(* Which steps change what                                                 *)
(***************************************************************************)
\* A thread is moved, and its hands are changed, only by its own steps.
LEMMA Moves ==
    ASSUME TypeOK, Next, NEW u \in Threads
    PROVE  \/ pc'[u] = pc[u] /\ hold'[u] = hold[u]
           \/ u \in Clients /\ ClientStep(u)
           \/ u \in RawClients /\ RawStep(u)
           \/ SendFun(u)
           \/ u \in SendThreads /\ SenderStep(u)
           \/ u = Flush /\ FlushStep
           \/ u = Destroyer /\ (PushLast \/ DestroyStep)
<1>1. ASSUME NEW t \in Threads, t # u, NEW to, Goto(t, to), UNCHANGED hold
      PROVE  pc'[u] = pc[u] /\ hold'[u] = hold[u]
  BY <1>1 DEF Goto, TypeOK
<1>2. ASSUME NEW t \in Threads, t # u, NEW g, NEW to, Take(t, g, to)
      PROVE  pc'[u] = pc[u] /\ hold'[u] = hold[u]
  BY <1>2 DEF Goto, Take, TypeOK
<1>3. CASE \E c \in Clients : ClientStep(c)
  <2>1. PICK c \in Clients : ClientStep(c)
    BY <1>3
  <2>2. \/ UNCHANGED vars
        \/ \E to : Goto(c, to) /\ UNCHANGED hold
    BY <2>1 DEF ClientStep, AddRefused, AddAdmitted, AddQueueFull, AddCreate, AddLocked
  <2>3. UNCHANGED vars => pc'[u] = pc[u] /\ hold'[u] = hold[u]
    BY DEF vars
  <2> QED
    BY <1>1, <2>1, <2>2, <2>3, ConstantTypes
<1>4. CASE \E c \in RawClients : RawStep(c)
  <2>1. PICK c \in RawClients : RawStep(c)
    BY <1>4
  <2>2. \E g, to : Take(c, g, to)
    BY <2>1 DEF RawStep, RawBook, RawPush
  <2> QED
    BY <1>2, <2>1, <2>2, ConstantTypes
<1>5. CASE \E t \in Threads : SendFun(t)
  <2>1. PICK t \in Threads : SendFun(t)
    BY <1>5
  <2>2. \/ \E to : Goto(t, to) /\ UNCHANGED hold
        \/ \E g, to : Take(t, g, to)
    BY <2>1 DEF SendFun, SendExit, SendStart, SendDone, SendFailed, Return
  <2> QED
    BY <1>1, <1>2, <2>1, <2>2
<1>6. CASE \E t \in SendThreads : SenderStep(t)
  <2>1. PICK t \in SendThreads : SenderStep(t)
    BY <1>6
  <2>2. \/ \E to : Goto(t, to) /\ UNCHANGED hold
        \/ \E g, to : Take(t, g, to)
    BY <2>1 DEF SenderStep, SenderLoop, SenderPop, SenderPopTimeout
  <2> QED
    BY <1>1, <1>2, <2>1, <2>2, ConstantTypes
<1>7. CASE FlushStep
  <2>1. \/ \E to : Goto(Flush, to) /\ UNCHANGED hold
        \/ \E g, to : Take(Flush, g, to)
    BY <1>7 DEF FlushStep, FlushLoop, DrainPop, DrainEnd, Unbook, Pack, PackFailed,
       TryTake, TrySkip, TryPush, TryRead, TryWrite, SendParam, PushParam, SendDirect, SendEnd
  <2> QED
    BY <1>1, <1>2, <1>7, <2>1, ConstantTypes
<1>8. CASE PushLast \/ DestroyStep
  <2>1. \/ \E to : Goto(Destroyer, to) /\ UNCHANGED hold
        \/ \E g, to : Take(Destroyer, g, to)
    BY <1>8 DEF PushLast, DestroyStep, WaitGroups, WaitParams, WaitSender, WaitTimeout,
       WaitOperand, Shutdown, JoinFlush, JoinSend, DrainSender, FreeTail
  <2> QED
    BY <1>1, <1>2, <1>8, <2>1, ConstantTypes
<1>9. CASE Freed
  BY <1>9 DEF Freed, vars
<1> QED
  BY <1>3, <1>4, <1>5, <1>6, <1>7, <1>8, <1>9 DEF Next

\* The flush thread and the destroyer run only their own steps, and
\* log_producer_send_fun.
LEMMA FlushMoves ==
    ASSUME TypeOK, Next
    PROVE  \/ pc'[Flush] = pc[Flush] /\ hold'[Flush] = hold[Flush]
           \/ FlushStep \/ SendFun(Flush)
  BY Moves, Kinds, ConstantTypes

LEMMA DestroyerMoves ==
    ASSUME TypeOK, Next
    PROVE  \/ pc'[Destroyer] = pc[Destroyer] /\ hold'[Destroyer] = hold[Destroyer]
           \/ PushLast \/ DestroyStep \/ SendFun(Destroyer)
  BY Moves, Kinds, ConstantTypes

\* The steps that change each of the queues.
LEMMA QueueMoves ==
    ASSUME Next
    PROVE  /\ \/ UNCHANGED builder
              \/ (\E c \in Clients : AddLocked(c)) \/ TryTake \/ PushLast
           /\ \/ UNCHANGED loggroupQ
              \/ (\E c \in Clients : AddLocked(c)) \/ TryPush \/ DrainPop \/ PushLast
           /\ UNCHANGED <<ring, rd, wr>> \/ Pack \/ SendParam \/ SendDirect
           /\ \/ UNCHANGED senderQ
              \/ (\E c \in RawClients : RawPush(c)) \/ PushParam
              \/ (\E t \in SendThreads : SenderPop(t)) \/ DrainSender
<1>1. CASE \E c \in Clients : ClientStep(c)
  <2>1. PICK c \in Clients : ClientStep(c)
    BY <1>1
  <2> QED
    BY <2>1 DEF ClientStep, AddRefused, AddAdmitted, AddQueueFull, AddCreate, AddLocked, queues, vars
<1>2. CASE \E c \in RawClients : RawStep(c)
  BY <1>2 DEF RawStep, RawBook, RawPush, queues
<1>3. CASE \E t \in Threads : SendFun(t)
  BY <1>3 DEF SendFun, SendExit, SendStart, SendDone, SendFailed, queues
<1>4. CASE \E t \in SendThreads : SenderStep(t)
  BY <1>4 DEF SenderStep, SenderLoop, SenderPop, SenderPopTimeout, queues
<1>5. CASE FlushStep
  BY <1>5 DEF FlushStep, FlushLoop, DrainPop, DrainEnd, Unbook, Pack, PackFailed,
     TryTake, TrySkip, TryPush, TryRead, TryWrite, SendParam, PushParam, SendDirect,
     SendEnd, queues
<1>6. CASE PushLast
  BY <1>6 DEF PushLast
<1>7. CASE DestroyStep \/ Freed
  BY <1>7 DEF DestroyStep, WaitGroups, WaitParams, WaitSender, WaitTimeout,
     WaitOperand, Shutdown, JoinFlush, JoinSend, DrainSender, FreeTail, Freed, queues, vars
<1> QED
  BY <1>1, <1>2, <1>3, <1>4, <1>5, <1>6, <1>7 DEF Next

-----------------------------------------------------------------------------
(***************************************************************************)
(* "push always success"                                                   *)
(***************************************************************************)
\* sender_data_queue is never longer than its size; without raw clients only the
\* flush thread makes it longer, and it has looked first.
SenderBound ==
    /\ Len(senderQ) <= SenderQueueSize
    /\ RawClients = {} /\ pc[Flush] = "pushParam" => Len(senderQ) < SenderQueueSize

\* Every step keeps the bound.
LEMMA SenderBoundStep == ASSUME TypeOK, SenderBound, Next PROVE SenderBound'
<1>1. /\ senderQ \in Seq(Seq(Logs)) /\ Len(senderQ) \in Nat /\ SenderQueueSize \in Nat
      /\ \A g \in Seq(Logs) : Len(Append(senderQ, g)) = Len(senderQ) + 1
      /\ senderQ # <<>> => Len(Tail(senderQ)) = Len(senderQ) - 1
  <2>1. senderQ \in Seq(Seq(Logs))
    BY DEF TypeOK
  <2> QED
    BY <2>1, ConstantTypes, LenProperties, AppendProperties, HeadTailProperties
<1>2. \A t \in Threads : hold[t] \in Seq(Logs)
  BY DEF TypeOK
<1>3. Len(senderQ') <= SenderQueueSize
  <2>1. CASE \E c \in RawClients : RawPush(c)
    BY <1>1, <1>2, <2>1, ConstantTypes DEF RawPush, SenderBound
  <2>2. CASE PushParam
    BY <1>1, <1>2, <2>2, ConstantTypes DEF PushParam, SenderBound
  <2>3. CASE (\E t \in SendThreads : SenderPop(t)) \/ DrainSender
    BY <1>1, <2>3 DEF SenderPop, DrainSender, SenderBound
  <2> QED
    BY <2>1, <2>2, <2>3, QueueMoves DEF SenderBound
<1>4. ASSUME RawClients = {}, pc'[Flush] = "pushParam" PROVE Len(senderQ') < SenderQueueSize
  <2>1. ASSUME NEW to, Goto(Flush, to) PROVE to = "pushParam"
    BY <1>4, <2>1, ConstantTypes DEF Goto, TypeOK
  <2>2. CASE SendParam
    BY <1>1, <2>2 DEF SendParam, SenderBound
  <2>3. CASE FlushStep /\ ~SendParam
    <3>1. \E to : Goto(Flush, to) /\ to # "pushParam"
      BY <2>3 DEF FlushStep, FlushLoop, DrainPop, DrainEnd, Unbook, Pack, PackFailed,
         TryTake, TrySkip, TryPush, TryRead, TryWrite, PushParam, SendDirect, SendEnd, Take
    <3> QED
      BY <2>1, <3>1
  <2>4. CASE SendFun(Flush)
    <3>1. \E to : Goto(Flush, to) /\ to # "pushParam"
      BY <2>4 DEF SendFun, SendExit, SendStart, SendDone, SendFailed, Return, Take
    <3> QED
      BY <2>1, <3>1
  <2>5. CASE ~FlushStep /\ ~SendFun(Flush)
    <3>1. Len(senderQ) < SenderQueueSize
      BY <1>4, <2>5, FlushMoves DEF SenderBound
    <3>2. ~(\E c \in RawClients : RawPush(c)) /\ ~PushParam
      BY <1>4, <2>5 DEF FlushStep
    <3>3. CASE (\E t \in SendThreads : SenderPop(t)) \/ DrainSender
      BY <1>1, <3>1, <3>3 DEF SenderPop, DrainSender
    <3> QED
      BY <3>1, <3>2, <3>3, QueueMoves
  <2> QED
    BY <2>2, <2>3, <2>4, <2>5
<1> QED
  BY <1>3, <1>4 DEF SenderBound

\* The push to sender_data_queue whose result the flush thread does not read always
\* succeeds in a producer that gets no raw buffers, however many threads it has.
THEOREM PushSucceeds == Spec => []PushAlwaysSuccess
<1>1. Init => SenderBound
  <2> SUFFICES ASSUME Init PROVE SenderBound
    OBVIOUS
  <2>1. Len(senderQ) = 0 /\ pc[Flush] = "idle"
    BY ConstantTypes DEF Init
  <2> QED
    BY <2>1, ConstantTypes DEF SenderBound
<1>2. TypeOK /\ SenderBound /\ [Next]_vars => SenderBound'
  <2>1. SenderBound /\ UNCHANGED vars => SenderBound'
    BY DEF SenderBound, vars, queues
  <2> QED
    BY <2>1, SenderBoundStep
<1>3. SenderBound => PushAlwaysSuccess
  BY DEF SenderBound, PushAlwaysSuccess
<1> QED
  BY <1>1, <1>2, <1>3, TypeCorrect, PTL DEF Spec

-----------------------------------------------------------------------------
(***************************************************************************)
(* The parameters in the ring, as a queue                                  *)
(***************************************************************************)
\* They are a queue of groups ...
LEMMA PendingType ==
    TypeOK /\ RingBound => Pending \in Seq(Seq(Logs)) /\ Len(Pending) = wr - rd
<1> SUFFICES ASSUME TypeOK, RingBound
             PROVE  Pending \in Seq(Seq(Logs)) /\ Len(Pending) = wr - rd
  OBVIOUS
<1>1. wr - rd \in Nat /\ rd \in Nat
  BY ConstantTypes DEF RingBound, TypeOK
<1>2. \A i \in 1 .. wr - rd : ring[(rd + i - 1) % ParamQueueSize] \in Seq(Logs)
  <2> SUFFICES ASSUME NEW i \in 1 .. wr - rd
               PROVE  ring[(rd + i - 1) % ParamQueueSize] \in Seq(Logs)
    OBVIOUS
  <2>1. rd + i - 1 \in Nat
    BY <1>1
  <2> QED
    BY <2>1, SlotType DEF TypeOK
<1>3. Pending \in [1 .. wr - rd -> Seq(Logs)]
  BY <1>2 DEF Pending
<1> QED
  BY <1>1, <1>3

\* ... that stays when the ring does, ...
LEMMA PendingKept == UNCHANGED <<ring, rd, wr>> => Pending' = Pending
  BY DEF Pending

\* ... to which Pack appends, ...
LEMMA PendingPush ==
    ASSUME TypeOK, TypeOK', RingBound, RingBound', Pack
    PROVE  Pending' = Append(Pending, hold[Flush])
<1>1. /\ wr - rd \in Nat /\ wr - rd < ParamQueueSize /\ rd \in Nat /\ wr \in Nat
      /\ wr' = wr + 1 /\ rd' = rd /\ wr' - rd' = (wr - rd) + 1
      /\ ring' = [ring EXCEPT ![wr % ParamQueueSize] = hold[Flush]]
  BY ConstantTypes DEF Pack, RingBound, TypeOK
<1>2. Pending \in Seq(Seq(Logs)) /\ Len(Pending) = wr - rd /\ hold[Flush] \in Seq(Logs)
  BY PendingType, ConstantTypes DEF TypeOK
<1>3. Pending' \in Seq(Seq(Logs)) /\ Len(Pending') = (wr - rd) + 1
  <2>1. (Pending \in Seq(Seq(Logs)) /\ Len(Pending) = wr - rd)'
    BY PendingType, PTL
  <2> QED
    BY <1>1, <2>1
<1>4. ASSUME NEW i \in 1 .. (wr - rd) + 1
      PROVE  Pending'[i] = IF i = (wr - rd) + 1 THEN hold[Flush] ELSE Pending[i]
  <2>1. Pending'[i] = ring'[(rd + i - 1) % ParamQueueSize]
    BY <1>1 DEF Pending
  <2>2. rd + i - 1 \in Nat /\ (rd + i - 1) % ParamQueueSize \in 0 .. ParamQueueSize - 1
    BY <1>1, SlotType
  <2>3. CASE i = (wr - rd) + 1
    <3>1. rd + i - 1 = wr
      BY <1>1, <2>3
    <3> QED
      BY <1>1, <2>1, <2>2, <2>3, <3>1 DEF TypeOK
  <2>4. CASE i \in 1 .. wr - rd
    <3>1. /\ rd + i - 1 < wr /\ wr - (rd + i - 1) < ParamQueueSize
          /\ i # (wr - rd) + 1
      BY <1>1, <2>4, ConstantTypes
    <3>2. (rd + i - 1) % ParamQueueSize # wr % ParamQueueSize
      BY <1>1, <2>2, <3>1, ModDistinct, ConstantTypes
    <3>3. Pending[i] = ring[(rd + i - 1) % ParamQueueSize]
      BY <2>4 DEF Pending
    <3> QED
      BY <1>1, <2>1, <2>2, <3>1, <3>2, <3>3 DEF TypeOK
  <2> QED
    BY <1>1, <2>3, <2>4
<1>5. /\ Append(Pending, hold[Flush]) \in Seq(Seq(Logs))
      /\ Len(Append(Pending, hold[Flush])) = (wr - rd) + 1
      /\ \A i \in 1 .. (wr - rd) + 1 : Append(Pending, hold[Flush])[i] =
           IF i = (wr - rd) + 1 THEN hold[Flush] ELSE Pending[i]
  BY <1>1, <1>2, AppendProperties
<1> QED
  BY <1>3, <1>4, <1>5, SeqEqual

\* ... and whose head the send phase takes.
LEMMA PendingPop ==
    ASSUME TypeOK, TypeOK', RingBound, RingBound', SendParam \/ SendDirect
    PROVE  /\ Pending # <<>> /\ Pending' = Tail(Pending)
           /\ ring[rd % ParamQueueSize] = Head(Pending)
<1>1. /\ wr - rd \in Nat \ {0} /\ rd \in Nat /\ wr \in Nat
      /\ rd' = rd + 1 /\ wr' = wr /\ ring' = ring
  BY ConstantTypes DEF SendParam, SendDirect, RingBound, TypeOK
<1>2. Pending \in Seq(Seq(Logs)) /\ Len(Pending) = wr - rd
  BY PendingType
<1>3. Pending # <<>> /\ Head(Pending) = Pending[1]
  BY <1>1, <1>2
<1>4. Pending[1] = ring[rd % ParamQueueSize]
  <2>1. 1 \in 1 .. wr - rd /\ rd + 1 - 1 = rd
    BY <1>1
  <2> QED
    BY <2>1 DEF Pending
<1>5. /\ Tail(Pending) \in Seq(Seq(Logs)) /\ Len(Tail(Pending)) = (wr - rd) - 1
      /\ \A i \in 1 .. (wr - rd) - 1 : Tail(Pending)[i] = Pending[i + 1]
  BY <1>1, <1>2, <1>3, HeadTailProperties
<1>6. Pending' \in Seq(Seq(Logs)) /\ Len(Pending') = (wr - rd) - 1
  <2>1. (Pending \in Seq(Seq(Logs)) /\ Len(Pending) = wr - rd)'
    BY PendingType, PTL
  <2> QED
    BY <1>1, <2>1
<1>7. ASSUME NEW i \in 1 .. (wr - rd) - 1 PROVE Pending'[i] = Pending[i + 1]
  <2>1. i \in 1 .. wr' - rd' /\ i + 1 \in 1 .. wr - rd /\ rd' + i - 1 = rd + (i + 1) - 1
    BY <1>1
  <2> QED
    BY <1>1, <2>1 DEF Pending
<1>8. Pending' = Tail(Pending)
  BY <1>5, <1>6, <1>7, SeqEqual
<1> QED
  BY <1>3, <1>4, <1>8

-----------------------------------------------------------------------------
(***************************************************************************)
(* The wait of destroy_log_producer_manager                                *)
(***************************************************************************)
PastGroups == {"waitParams", "waitSender", "shutdown"} \cup Stopping
PastParams == {"waitSender", "shutdown"} \cup Stopping

\* Once the wait has found loggroup_queue empty, what is in it or on its way to it has
\* been missed; once it has found the ring empty, so has what is there or on its way.
Drained ==
    /\ ~forced /\ pc[Destroyer] \in PastGroups =>
         \A l \in Logs : InQueue(loggroupQ, l) \/ Holds(Flush, {"tryPush"}, l) => l \in missed
    /\ ~forced /\ pc[Destroyer] \in PastParams =>
         \A l \in Logs : InQueue(Pending, l) \/ Holds(Flush, {"unbook", "pack"}, l) => l \in missed

\* What the flush thread does to the groups it carries, while there is no builder.
LEMMA Carries ==
    ASSUME Inv, Inv', Next, ~Running, ~PushLast, NEW l \in Logs
    PROVE  /\ Holds(Flush, {"tryPush"}, l)' => Holds(Flush, {"tryPush"}, l)
           /\ Holds(Flush, {"unbook", "pack"}, l)' =>
                Holds(Flush, {"unbook", "pack"}, l) \/ InQueue(loggroupQ, l)
           /\ InQueue(loggroupQ, l)' => InQueue(loggroupQ, l) \/ Holds(Flush, {"tryPush"}, l)
           /\ InQueue(Pending, l)' => InQueue(Pending, l) \/ Holds(Flush, {"unbook", "pack"}, l)
<1> USE DEF Inv, Control
<1>1. builder = <<>> /\ ~TryTake
  BY DEF Joined, TryTake
<1>2. /\ loggroupQ \in Seq(Seq(Logs)) /\ Pending \in Seq(Seq(Logs)) /\ hold[Flush] \in Seq(Logs)
      /\ Flush \in Threads
  BY PendingType, ConstantTypes DEF TypeOK
<1>3. ASSUME NEW to, Goto(Flush, to), UNCHANGED hold PROVE pc'[Flush] = to /\ hold'[Flush] = hold[Flush]
  BY <1>3, ConstantTypes DEF Goto, TypeOK
<1>4. ASSUME NEW to, NEW g, Take(Flush, g, to) PROVE pc'[Flush] = to /\ hold'[Flush] = g
  BY <1>4, ConstantTypes DEF Goto, Take, TypeOK
<1>5. CASE DrainPop
  <2>1. pc'[Flush] = "unbook" /\ hold'[Flush] = Head(loggroupQ)
    BY <1>4, <1>5 DEF DrainPop
  <2>2. loggroupQ # <<>> /\ loggroupQ' = Tail(loggroupQ) /\ UNCHANGED <<ring, rd, wr>>
    BY <1>5 DEF DrainPop
  <2>3. InQueue(Tail(loggroupQ), l) \/ l \in Range(Head(loggroupQ)) => InQueue(loggroupQ, l)
    BY <1>2, <2>2, PopFrom
  <2> QED
    BY <2>1, <2>2, <2>3, PendingKept DEF Holds
<1>6. CASE TryPush
  <2>1. pc[Flush] = "tryPush" /\ pc'[Flush] \in {"tryRead", "send"} /\ UNCHANGED <<ring, rd, wr>>
    BY <1>3, <1>4, <1>6 DEF TryPush
  <2>2. loggroupQ' = loggroupQ \/ loggroupQ' = Append(loggroupQ, hold[Flush])
    BY <1>6 DEF TryPush
  <2>3. InQueue(loggroupQ', l) => InQueue(loggroupQ, l) \/ l \in Range(hold[Flush])
    BY <1>2, <2>2, AppendIn
  <2> QED
    BY <2>1, <2>3, PendingKept DEF Holds, InQueue
<1>7. CASE Pack
  <2>1. pc[Flush] = "pack" /\ pc'[Flush] = "drain" /\ UNCHANGED loggroupQ
    BY <1>4, <1>7 DEF Pack
  <2>2. Pending' = Append(Pending, hold[Flush])
    BY <1>7, PendingPush
  <2>3. InQueue(Pending', l) => InQueue(Pending, l) \/ l \in Range(hold[Flush])
    BY <1>2, <2>2, AppendIn
  <2> QED
    BY <2>1, <2>3 DEF Holds, InQueue
<1>8. CASE SendParam \/ SendDirect
  <2>1. pc'[Flush] \in {"pushParam", "check"} /\ UNCHANGED loggroupQ
    BY <1>4, <1>8 DEF SendParam, SendDirect
  <2>2. Pending # <<>> /\ Pending' = Tail(Pending)
    BY <1>8, PendingPop
  <2>3. InQueue(Pending', l) => InQueue(Pending, l)
    BY <1>2, <2>2, PopFrom
  <2> QED
    BY <2>1, <2>3 DEF Holds, InQueue
<1>9. CASE ~DrainPop /\ ~TryPush /\ ~Pack /\ ~SendParam /\ ~SendDirect
  <2>1. \A c \in Clients : ~AddLocked(c)
    BY DEF AddLocked, Joined
  <2>2. UNCHANGED <<loggroupQ, ring, rd, wr>>
    BY <1>1, <1>9, <2>1, QueueMoves
  <2>3. \/ pc'[Flush] = pc[Flush] /\ hold'[Flush] = hold[Flush]
        \/ pc[Flush] = "unbook" /\ pc'[Flush] = "pack" /\ hold'[Flush] = hold[Flush]
        \/ pc'[Flush] \notin {"tryPush", "unbook", "pack"}
    <3>1. CASE Unbook
      BY <1>3, <3>1 DEF Unbook
    <3>2. CASE FlushStep /\ ~Unbook
      <4>1. \E to : /\ to \notin {"tryPush", "unbook", "pack"}
                    /\ (Goto(Flush, to) /\ UNCHANGED hold) \/ (\E g : Take(Flush, g, to))
        BY <1>1, <1>9, <3>2 DEF FlushStep, FlushLoop, DrainEnd, PackFailed, TrySkip, TryRead,
           TryWrite, PushParam, SendEnd
      <4> QED
        BY <1>3, <1>4, <4>1
    <3>3. CASE SendFun(Flush)
      <4>1. \E to : /\ to \notin {"tryPush", "unbook", "pack"}
                    /\ (Goto(Flush, to) /\ UNCHANGED hold) \/ (\E g : Take(Flush, g, to))
        BY <3>3, Kinds DEF SendFun, SendExit, SendStart, SendDone, SendFailed, Return
      <4> QED
        BY <1>3, <1>4, <4>1
    <3> QED
      BY <3>1, <3>2, <3>3, FlushMoves
  <2> QED
    BY <2>2, <2>3, PendingKept DEF Holds
<1> QED
  BY <1>5, <1>6, <1>7, <1>8, <1>9

\* What the steps do to the wait: what has been missed stays so until the wait goes round.
LEMMA WaitMoves ==
    ASSUME Inv, Inv', Next, ~forced', pc'[Destroyer] \in PastGroups
    PROVE  /\ ~forced /\ ~Running /\ ~PushLast
           /\ \/ WaitGroups /\ pc'[Destroyer] = "waitParams" /\ loggroupQ = <<>>
              \/ pc[Destroyer] \in PastGroups /\ missed \subseteq missed'
           /\ pc'[Destroyer] \in PastParams => pc[Destroyer] \in PastGroups
           /\ pc'[Destroyer] \in PastParams => pc[Destroyer] \in PastParams \/ (WaitParams /\ wr = rd)
<1> USE DEF Inv, Control
<1>1. ~forced
  BY DEF Next, ClientStep, AddRefused, AddAdmitted, AddQueueFull, AddCreate, AddLocked,
     RawStep, RawBook, RawPush, SendFun, SendExit, SendStart, SendDone, SendFailed,
     SenderStep, SenderLoop, SenderPop, SenderPopTimeout, FlushStep, FlushLoop, DrainPop,
     DrainEnd, Unbook, Pack, PackFailed, TryTake, TrySkip, TryPush, TryRead, TryWrite,
     SendParam, PushParam, SendDirect, SendEnd, PushLast, DestroyStep, WaitGroups,
     WaitParams, WaitSender, WaitTimeout, WaitOperand, Shutdown, JoinFlush, JoinSend,
     DrainSender, FreeTail, Freed, ghosts, vars
<1>2. ASSUME NEW to, Goto(Destroyer, to) PROVE pc'[Destroyer] = to
  BY <1>2, ConstantTypes DEF Goto, TypeOK
<1>3. ~PushLast
  BY <1>2 DEF PushLast, PastGroups, Stopping
<1>4. ASSUME ~DestroyStep PROVE UNCHANGED missed
  BY <1>3, <1>4 DEF Next, ClientStep, AddRefused, AddAdmitted, AddQueueFull, AddCreate, AddLocked,
     RawStep, RawBook, RawPush, SendFun, SendExit, SendStart, SendDone, SendFailed,
     SenderStep, SenderLoop, SenderPop, SenderPopTimeout, FlushStep, FlushLoop, DrainPop,
     DrainEnd, Unbook, Pack, PackFailed, TryTake, TrySkip, TryPush, TryRead, TryWrite,
     SendParam, PushParam, SendDirect, SendEnd, Freed, ghosts, vars
<1>5. CASE WaitGroups
  <2>1. pc[Destroyer] = "waitGroups" /\ Goto(Destroyer, IF loggroupQ # <<>> THEN "waitGroups" ELSE "waitParams")
    BY <1>5 DEF WaitGroups, WaitOperand
  <2> QED
    BY <1>1, <1>2, <1>3, <1>5, <2>1 DEF Running, PastGroups, PastParams, Stopping
<1>6. CASE WaitParams
  <2>1. pc[Destroyer] = "waitParams" /\ Goto(Destroyer, IF wr - rd > 0 THEN "waitGroups" ELSE "waitSender")
    BY <1>6 DEF WaitParams, WaitOperand
  <2>2. ~(wr - rd > 0)
    BY <1>2, <2>1 DEF PastGroups, Stopping
  <2>3. wr = rd
    BY <2>2, ConstantTypes DEF RingBound, TypeOK
  <2>4. missed \subseteq missed'
    BY <1>6, <2>2 DEF WaitParams
  <2> QED
    BY <1>1, <1>3, <1>6, <2>1, <2>3, <2>4 DEF Running, PastGroups
<1>7. CASE WaitSender
  <2>1. pc[Destroyer] = "waitSender" /\ Goto(Destroyer, IF senderQ # <<>> THEN "waitGroups" ELSE "shutdown")
    BY <1>7 DEF WaitSender, WaitOperand
  <2>2. senderQ = <<>>
    BY <1>2, <2>1 DEF PastGroups, Stopping
  <2>3. missed' = missed
    BY <1>7, <2>2 DEF WaitSender
  <2> QED
    BY <1>1, <1>3, <2>1, <2>3 DEF Running, PastGroups, PastParams
<1>8. CASE DestroyStep /\ ~WaitGroups /\ ~WaitParams /\ ~WaitSender
  <2>1. ~WaitTimeout
    BY DEF WaitTimeout
  <2>2. UNCHANGED missed
    BY <1>8, <2>1 DEF DestroyStep, Shutdown, JoinFlush, JoinSend, DrainSender, FreeTail, ghosts
  <2>3. pc[Destroyer] \in {"shutdown", "joinFlush", "joinSend", "drainSender"}
    BY <1>8, <2>1 DEF DestroyStep, Shutdown, JoinFlush, JoinSend, DrainSender, FreeTail
  <2> QED
    BY <1>1, <1>3, <2>2, <2>3 DEF Running, PastGroups, PastParams, Stopping
<1>9. CASE ~DestroyStep
  <2>1. \/ pc'[Destroyer] = pc[Destroyer]
        \/ pc[Destroyer] \in {"check", "post"}
    BY <1>3, <1>9, DestroyerMoves DEF SendFun, SendExit, SendStart, SendDone, SendFailed
  <2>2. pc[Destroyer] # "post"
    BY ConstantTypes, Kinds DEF Placed, PCsOf, DestroyerPCs
  <2>3. pc[Destroyer] \in PastGroups /\ (pc'[Destroyer] \in PastParams => pc[Destroyer] \in PastParams)
    BY <2>1, <2>2 DEF PastGroups, PastParams, Stopping
  <2> QED
    BY <1>1, <1>3, <1>4, <1>9, <2>3 DEF Running, PastGroups, Stopping
<1> QED
  BY <1>5, <1>6, <1>7, <1>8, <1>9

\* Every step keeps that.
LEMMA DrainedStep == ASSUME Inv, Inv', Drained, Next PROVE Drained'
<1>1. ASSUME ~forced', pc'[Destroyer] \in PastGroups, NEW l \in Logs,
             InQueue(loggroupQ, l)' \/ Holds(Flush, {"tryPush"}, l)'
      PROVE  l \in missed'
  <2>1. InQueue(loggroupQ, l) \/ Holds(Flush, {"tryPush"}, l)
    BY <1>1, WaitMoves, Carries
  <2>2. CASE pc[Destroyer] \in PastGroups /\ missed \subseteq missed'
    BY <1>1, <2>1, <2>2, WaitMoves DEF Drained
  <2>3. CASE WaitGroups /\ loggroupQ = <<>>
    <3>1. missed' = InHand({"tryPush"}) /\ ~InQueue(loggroupQ, l)
      BY <2>3 DEF WaitGroups, InQueue
    <3> QED
      BY <2>1, <3>1 DEF InHand, Holds
  <2> QED
    BY <1>1, <2>2, <2>3, WaitMoves
<1>2. ASSUME ~forced', pc'[Destroyer] \in PastParams, NEW l \in Logs,
             InQueue(Pending, l)' \/ Holds(Flush, {"unbook", "pack"}, l)'
      PROVE  l \in missed'
  <2>1. /\ pc'[Destroyer] \in PastGroups
        /\ ~forced /\ ~Running /\ ~PushLast /\ pc[Destroyer] \in PastGroups
        /\ pc[Destroyer] \in PastParams \/ (WaitParams /\ wr = rd)
    BY <1>2, WaitMoves DEF PastGroups, PastParams
  <2>2. missed \subseteq missed'
    BY <1>2, <2>1, WaitMoves DEF WaitGroups, PastGroups, Stopping
  <2>3. \/ InQueue(Pending, l) \/ Holds(Flush, {"unbook", "pack"}, l)
        \/ InQueue(loggroupQ, l)
    BY <1>2, <2>1, Carries
  <2>4. CASE InQueue(loggroupQ, l)
    BY <2>1, <2>2, <2>4 DEF Drained
  <2>5. CASE pc[Destroyer] \in PastParams
    BY <2>1, <2>2, <2>3, <2>4, <2>5 DEF Drained
  <2>6. CASE WaitParams /\ wr = rd
    <3>1. DOMAIN Pending = {} /\ missed' = missed \cup InHand({"unbook", "pack"})
      BY <2>6 DEF Pending, WaitParams, Inv, TypeOK
    <3>2. ~InQueue(Pending, l)
      BY <3>1 DEF InQueue
    <3> QED
      BY <2>2, <2>3, <2>4, <3>1, <3>2 DEF InHand, Holds
  <2> QED
    BY <2>1, <2>5, <2>6
<1> QED
  BY <1>1, <1>2 DEF Drained

\* When the wait for the queues to drain did not time out, no accepted log is left behind
\* in them but those of the group that the flush thread carried past its last round.
THEOREM ExitsClean == Spec => []CleanExit
<1>1. Init => Drained
  <2> SUFFICES ASSUME Init PROVE Drained
    OBVIOUS
  <2>1. Running
    BY ConstantTypes DEF Init, Running
  <2> QED
    BY <2>1 DEF Drained, Running, PastGroups, PastParams, Stopping
<1>2. Inv /\ Inv' /\ Drained /\ [Next]_vars => Drained'
  <2>1. Drained /\ UNCHANGED vars => Drained'
    BY PendingKept DEF Drained, Holds, InQueue, vars, queues, ghosts
  <2> QED
    BY <2>1, DrainedStep
<1>3. Inv /\ Drained => CleanExit
  <2> SUFFICES ASSUME Inv, Drained, pc[Destroyer] = "freed", ~forced,
                      NEW l \in Logs, fate[l] = "held"
               PROVE  l \in missed
    BY DEF CleanExit
  <2>1. InQueue(loggroupQ, l) \/ InQueue(Pending, l)
    BY InvQuiescent DEF Quiescent, Freeing
  <2> QED
    BY <2>1 DEF Drained, PastGroups, PastParams, Stopping
<1>4. Spec => []Inv
  BY InitInv, StepInv, PTL DEF Spec
<1> QED
  BY <1>1, <1>2, <1>3, <1>4, PTL DEF Spec

-----------------------------------------------------------------------------
(***************************************************************************)
(* Where a log is, in numbers: how often it is in the builder, in each     *)
(* queue, and in threads' hands.                                           *)
(***************************************************************************)
With(l) == {g \in Seq(Logs) : l \in Range(g)}
Has(g, l) == IF l \in Range(g) THEN 1 ELSE 0

InBuilder(l) == Count(builder, {l})
InGroups(l) == Count(loggroupQ, With(l))
InRing(l) == Count(Pending, With(l))
InSender(l) == Count(senderQ, With(l))
Hands(l) == {t \in Threads : l \in Range(Handed[t])}
InHands(l) == Cardinality(Hands(l))

Booked == {"tryRead", "tryWrite"}

\* There are finitely many threads.
LEMMA ThreadsFinite == IsFiniteSet(Threads)
<1> DEFINE Others == Clients \cup RawClients \cup SendThreads
<1>1. IsFiniteSet(Others \cup {Flush})
  BY ThreadsAssumption, FS_AddElement
<1>2. IsFiniteSet((Others \cup {Flush}) \cup {Destroyer})
  BY <1>1, FS_AddElement
<1>3. Threads = (Others \cup {Flush}) \cup {Destroyer}
  BY DEF Threads
<1> QED
  BY <1>2, <1>3

\* A push and a pop, counted.
LEMMA QueueCount ==
    ASSUME NEW q \in Seq(Seq(Logs)), NEW l
    PROVE  /\ Count(q, With(l)) \in Nat
           /\ Count(q, With(l)) = 0 <=> ~InQueue(q, l)
           /\ Count(q, With(l)) = Cardinality({i \in DOMAIN q : l \in Range(q[i])})
           /\ \A g \in Seq(Logs) :
                Count(Append(q, g), With(l)) = Count(q, With(l)) + Has(g, l)
           /\ q # <<>> => Count(q, With(l)) = Count(Tail(q), With(l)) + Has(Head(q), l)
<1>1. /\ \A i \in DOMAIN q : q[i] \in Seq(Logs)
      /\ \A g \in Seq(Logs) : g \in With(l) <=> l \in Range(g)
      /\ \A i \in DOMAIN q : q[i] \in With(l) <=> l \in Range(q[i])
  <2>1. \A i \in DOMAIN q : q[i] \in Seq(Logs)
    BY LenProperties
  <2> QED
    BY <2>1 DEF With
<1>2. Count(q, With(l)) \in Nat /\ (Count(q, With(l)) = 0 <=> ~InQueue(q, l))
  BY <1>1, CountType DEF InQueue
<1>3. Positions(q, With(l)) = {i \in DOMAIN q : l \in Range(q[i])}
  BY <1>1 DEF Positions
<1>4. ASSUME NEW g \in Seq(Logs)
      PROVE  Count(Append(q, g), With(l)) = Count(q, With(l)) + Has(g, l)
  BY <1>1, CountAppend DEF Has
<1>5. ASSUME q # <<>>
      PROVE  Count(q, With(l)) = Count(Tail(q), With(l)) + Has(Head(q), l)
  <2>1. Head(q) \in Seq(Logs)
    BY <1>5, SeqTypes
  <2> QED
    BY <1>1, <1>5, <2>1, CountTail DEF Has
<1> QED
  BY <1>2, <1>3, <1>4, <1>5 DEF Count

\* The copies of a log in the builder.
LEMMA BuilderCount ==
    ASSUME NEW b \in Seq(Logs), NEW l
    PROVE  /\ Count(b, {l}) \in Nat
           /\ Count(b, {l}) = 0 <=> l \notin Range(b)
           /\ Count(b, {l}) = Cardinality({<<"builder", i>> : i \in {j \in DOMAIN b : b[j] = l}})
           /\ \A m \in Logs : Count(Append(b, m), {l}) = Count(b, {l}) + (IF m = l THEN 1 ELSE 0)
<1> DEFINE P == {j \in DOMAIN b : b[j] = l}
           T == {<<"builder", i>> : i \in P}
           f == [i \in P |-> <<"builder", i>>]
<1>1. Positions(b, {l}) = P
  BY DEF Positions
<1>2. f \in Bijection(P, T)
  BY DEF Bijection, Injection, Surjection, IsInjective
<1>3. IsFiniteSet(P) /\ Count(b, {l}) \in Nat /\ (Count(b, {l}) = 0 <=> \A i \in DOMAIN b : b[i] # l)
  <2>1. /\ IsFiniteSet(Positions(b, {l})) /\ Count(b, {l}) \in Nat
        /\ Count(b, {l}) = 0 <=> \A i \in DOMAIN b : b[i] \notin {l}
    BY CountType
  <2> HIDE DEF P
  <2> QED
    BY <1>1, <2>1
<1>4. Cardinality(T) = Cardinality(P)
  BY <1>2, <1>3, FS_Bijection DEF ExistsBijection
<1>5. \A m \in Logs : Count(Append(b, m), {l}) = Count(b, {l}) + (IF m = l THEN 1 ELSE 0)
  BY CountAppend
<1>6. (\A i \in DOMAIN b : b[i] # l) <=> l \notin Range(b)
  BY DEF Range
<1> QED
  BY <1>1, <1>3, <1>4, <1>5, <1>6 DEF Count

\* What Held counts.
HeldParts(l) ==
    /\ InBuilder(l) \in Nat /\ InGroups(l) \in Nat /\ InRing(l) \in Nat
    /\ InSender(l) \in Nat /\ InHands(l) \in Nat
    /\ Held(l) = InBuilder(l) + InGroups(l) + InRing(l) + InSender(l) + InHands(l)
    /\ InBuilder(l) = 0 <=> l \notin Range(builder)
    /\ InGroups(l) = 0 <=> ~InQueue(loggroupQ, l)
    /\ InRing(l) = 0 <=> ~InQueue(Pending, l)
    /\ InSender(l) = 0 <=> ~InQueue(senderQ, l)
    /\ InHands(l) = 0 <=> \A t \in Threads : l \notin Range(Handed[t])
    /\ IsFiniteSet(Hands(l))

LEMMA HeldSum == TypeOK /\ RingBound => \A l \in Logs : HeldParts(l)
<1> SUFFICES ASSUME TypeOK, RingBound, NEW l \in Logs PROVE HeldParts(l)
  OBVIOUS
<1>1. /\ InBuilder(l) \in Nat /\ (InBuilder(l) = 0 <=> l \notin Range(builder))
      /\ InBuilder(l) = Cardinality({<<"builder", i>> : i \in {j \in DOMAIN builder : builder[j] = l}})
  BY BuilderCount DEF InBuilder, TypeOK
<1>2. /\ InGroups(l) \in Nat /\ (InGroups(l) = 0 <=> ~InQueue(loggroupQ, l))
      /\ InGroups(l) = Cardinality({i \in DOMAIN loggroupQ : l \in Range(loggroupQ[i])})
  BY QueueCount DEF InGroups, TypeOK
<1>3. /\ InRing(l) \in Nat /\ (InRing(l) = 0 <=> ~InQueue(Pending, l))
      /\ InRing(l) = Cardinality({i \in DOMAIN Pending : l \in Range(Pending[i])})
  BY QueueCount, PendingType DEF InRing
<1>4. /\ InSender(l) \in Nat /\ (InSender(l) = 0 <=> ~InQueue(senderQ, l))
      /\ InSender(l) = Cardinality({i \in DOMAIN senderQ : l \in Range(senderQ[i])})
  BY QueueCount DEF InSender, TypeOK
<1>5. IsFiniteSet(Hands(l))
  <2>1. Hands(l) \in SUBSET Threads
    BY DEF Hands
  <2> QED
    BY <2>1, ThreadsFinite, FS_Subset
<1>6. InHands(l) \in Nat /\ (InHands(l) = 0 <=> \A t \in Threads : l \notin Range(Handed[t]))
  <2>1. InHands(l) \in Nat /\ (InHands(l) = 0 <=> Hands(l) = {})
    BY <1>5, FS_CardinalityType, FS_EmptySet DEF InHands
  <2> QED
    BY <2>1 DEF Hands
<1>7. Held(l) = InBuilder(l) + InGroups(l) + InRing(l) + InSender(l) + InHands(l)
  BY <1>1, <1>2, <1>3, <1>4 DEF Held, InHands, Hands
<1> QED
  BY <1>1, <1>2, <1>3, <1>4, <1>5, <1>6, <1>7 DEF HeldParts

\* The hands after a step of t ...
LEMMA HandsMove ==
    ASSUME TypeOK, RingBound, NEW t \in Threads, NEW l \in Logs,
           \A u \in Threads \ {t} : Handed'[u] = Handed[u]
    PROVE  InHands(l)' = InHands(l) + Has(Handed'[t], l) - Has(Handed[t], l)
<1>1. IsFiniteSet(Hands(l))
  BY HeldSum DEF HeldParts
<1>2. Hands(l) \ {t} = Hands(l)' \ {t}
  BY DEF Hands
<1>3. t \in Hands(l) <=> l \in Range(Handed[t])
  BY DEF Hands
<1>4. t \in Hands(l)' <=> l \in Range(Handed'[t])
  BY DEF Hands
<1>5. Cardinality(Hands(l)') = Cardinality(Hands(l)) + (IF t \in Hands(l)' THEN 1 ELSE 0)
                                                     - (IF t \in Hands(l) THEN 1 ELSE 0)
  BY <1>1, <1>2, OneDiffers
<1> QED
  BY <1>3, <1>4, <1>5 DEF InHands, Has

\* ... that takes a group, or lays one down ...
LEMMA HandsTake ==
    ASSUME TypeOK, RingBound, NEW t \in Threads, NEW g, NEW to, Take(t, g, to),
           to \notin Booked, NEW l \in Logs
    PROVE  InHands(l)' = InHands(l) + Has(g, l) - Has(Handed[t], l)
<1>1. Handed'[t] = g /\ \A u \in Threads \ {t} : Handed'[u] = Handed[u]
  BY DEF Take, Goto, Handed, TypeOK, Booked
<1> QED
  BY <1>1, HandsMove

\* ... or that only goes on.
LEMMA HandsKept ==
    ASSUME TypeOK, NEW t \in Threads, NEW to, Goto(t, to), UNCHANGED hold,
           to \in Booked <=> pc[t] \in Booked
    PROVE  Handed' = Handed
  BY DEF Goto, Handed, TypeOK, Booked

\* What a thread has in its hands.
LEMMA HandedIs ==
    ASSUME Inv, NEW t \in Threads
    PROVE  /\ pc[t] \notin Booked => Handed[t] = hold[t]
           /\ pc[t] \in Booked \/ pc[t] \notin Carrying => Handed[t] = <<>>
  BY DEF Handed, Booked, Inv, Control, EmptyHanded

-----------------------------------------------------------------------------
(***************************************************************************)
(* Every log has one home.                                                 *)
(***************************************************************************)
\* What has no number yet is new.
Fresh == \A l \in Logs : l >= nextLog => fate[l] = "new"
Homes == OneHome /\ Fresh

\* The first states.
LEMMA InitHomes == Init => Homes
<1> SUFFICES ASSUME Init PROVE Homes
  OBVIOUS
<1>1. TypeOK /\ RingBound
  BY InitInv DEF Inv, Control
<1>2. Fresh
  BY DEF Init, Fresh
<1>3. ASSUME NEW l \in Logs PROVE Held(l) = 0 /\ fate[l] # "held"
  <2>1. HeldParts(l)
    BY <1>1, HeldSum
  <2>2. l \notin Range(builder) /\ ~InQueue(loggroupQ, l) /\ ~InQueue(senderQ, l)
    BY RangeSeq DEF Init, InQueue
  <2>3. ~InQueue(Pending, l)
    <3>1. DOMAIN Pending = {}
      BY DEF Init, Pending
    <3> QED
      BY <3>1 DEF InQueue
  <2>4. \A t \in Threads : l \notin Range(Handed[t])
    BY RangeSeq DEF Init, Handed
  <2> QED
    BY <2>1, <2>2, <2>3, <2>4 DEF HeldParts, Init
<1> QED
  BY <1>2, <1>3 DEF Homes, OneHome

\* What is in one place, or meets no fate, is nowhere else: the form in which the
\* steps need OneHome.
LEMMA HomesOf ==
    ASSUME Inv, Homes, NEW l \in Logs
    PROVE  /\ HeldParts(l)
           /\ InBuilder(l) + InGroups(l) + InRing(l) + InSender(l) + InHands(l)
                = IF fate[l] = "held" THEN 1 ELSE 0
<1>1. HeldParts(l)
  BY HeldSum DEF Inv, Control
<1> QED
  BY <1>1 DEF HeldParts, Homes, OneHome

\* It is enough to look at the numbers after a step.
LEMMA HomesBy ==
    ASSUME Inv', Fresh',
           \A l \in Logs : HeldParts(l)' =>
             InBuilder(l)' + InGroups(l)' + InRing(l)' + InSender(l)' + InHands(l)'
                = IF fate'[l] = "held" THEN 1 ELSE 0
    PROVE  Homes'
<1>1. \A l \in Logs : HeldParts(l)'
  <2>1. (TypeOK /\ RingBound)'
    BY DEF Inv, Control
  <2>2. (\A l \in Logs : HeldParts(l))'
    BY <2>1, HeldSum, PTL
  <2> QED
    BY <2>2
<1>2. \A l \in Logs : Held(l)' = IF fate'[l] = "held" THEN 1 ELSE 0
  BY <1>1 DEF HeldParts
<1> QED
  BY <1>2 DEF Homes, OneHome

\* A step that moves no log.
LEMMA HomesKept ==
    ASSUME Inv, Inv', Homes, Handed' = Handed,
           UNCHANGED <<builder, loggroupQ, ring, rd, wr, senderQ, nextLog, fate>>
    PROVE  Homes'
<1>1. Pending' = Pending
  BY PendingKept
<1>2. Fresh'
  BY DEF Fresh, Homes
<1>3. ASSUME NEW l \in Logs
      PROVE  InBuilder(l)' = InBuilder(l) /\ InGroups(l)' = InGroups(l) /\ InRing(l)' = InRing(l)
             /\ InSender(l)' = InSender(l) /\ InHands(l)' = InHands(l)
  BY <1>1 DEF InBuilder, InGroups, InRing, InSender, InHands, Hands
<1> QED
  BY <1>2, <1>3, HomesBy, HomesOf

\* A group that meets its fate when a thread lays it down.
LEMMA HomesLaidDown ==
    ASSUME Inv, Inv', Homes, NEW t \in Threads, pc[t] \notin Booked,
           NEW to, to \notin Booked, Take(t, <<>>, to),
           NEW f, f # "held", fate' = Meet(hold[t], f),
           UNCHANGED <<builder, loggroupQ, ring, rd, wr, senderQ, nextLog>>
    PROVE  Homes'
<1>1. Pending' = Pending /\ Handed[t] = hold[t]
  BY PendingKept, HandedIs
<1>2. ASSUME NEW l \in Logs
      PROVE  /\ InBuilder(l)' = InBuilder(l) /\ InGroups(l)' = InGroups(l) /\ InRing(l)' = InRing(l)
             /\ InSender(l)' = InSender(l) /\ InHands(l)' = InHands(l) - Has(hold[t], l)
             /\ l \in Range(hold[t]) => InHands(l) # 0
             /\ l \in Range(hold[t]) => fate'[l] = f
             /\ l \notin Range(hold[t]) => fate'[l] = fate[l]
  <2>1. InHands(l)' = InHands(l) + Has(<<>>, l) - Has(hold[t], l)
    BY <1>1, HandsTake DEF Inv, Control
  <2>2. Has(<<>>, l) = 0
    BY RangeSeq DEF Has
  <2>3. InHands(l) \in Nat /\ (l \in Range(hold[t]) => InHands(l) # 0)
    BY <1>1, HomesOf DEF HeldParts
  <2>4. Has(hold[t], l) \in Nat
    BY DEF Has
  <2>5. /\ l \in Range(hold[t]) => fate'[l] = f
        /\ l \notin Range(hold[t]) => fate'[l] = fate[l]
    BY DEF Meet
  <2> QED
    BY <1>1, <2>1, <2>2, <2>3, <2>4, <2>5 DEF InBuilder, InGroups, InRing, InSender
<1>3. ASSUME NEW l \in Logs
      PROVE  InBuilder(l)' + InGroups(l)' + InRing(l)' + InSender(l)' + InHands(l)'
                = IF fate'[l] = "held" THEN 1 ELSE 0
  <2>1. /\ InBuilder(l) + InGroups(l) + InRing(l) + InSender(l) + InHands(l)
             = IF fate[l] = "held" THEN 1 ELSE 0
        /\ InBuilder(l) \in Nat /\ InGroups(l) \in Nat /\ InRing(l) \in Nat
        /\ InSender(l) \in Nat /\ InHands(l) \in Nat
    BY HomesOf DEF HeldParts
  <2>2. CASE l \in Range(hold[t])
    <3>1. fate[l] = "held" /\ Has(hold[t], l) = 1 /\ fate'[l] # "held"
      BY <1>2, <2>1, <2>2 DEF Has
    <3> QED
      BY <1>2, <2>1, <3>1
  <2>3. CASE l \notin Range(hold[t])
    <3>1. Has(hold[t], l) = 0 /\ fate'[l] = fate[l]
      BY <1>2, <2>3 DEF Has
    <3> QED
      BY <1>2, <2>1, <3>1
  <2> QED
    BY <2>2, <2>3
<1>4. Fresh'
  <2> SUFFICES ASSUME NEW l \in Logs, l >= nextLog PROVE fate'[l] = "new"
    BY DEF Fresh
  <2>1. fate[l] = "new"
    BY DEF Homes, Fresh
  <2>2. InHands(l) = 0
    BY <2>1, HomesOf DEF HeldParts
  <2> QED
    BY <1>2, <2>1, <2>2
<1> QED
  BY <1>3, <1>4, HomesBy

\* A step that carries logs from one place to another, and changes no fate.
LEMMA HomesCarried ==
    ASSUME Inv, Inv', Homes, UNCHANGED <<nextLog, fate>>,
           \A l \in Logs : HeldParts(l) /\ HeldParts(l)' =>
             InBuilder(l)' + InGroups(l)' + InRing(l)' + InSender(l)' + InHands(l)'
               = InBuilder(l) + InGroups(l) + InRing(l) + InSender(l) + InHands(l)
    PROVE  Homes'
<1>1. Fresh'
  BY DEF Fresh, Homes
<1> QED
  BY <1>1, HomesBy, HomesOf

\* A push to, and a pop from, sender_data_queue.
LEMMA HomesPushed ==
    ASSUME Inv, Inv', Homes, NEW t \in Threads, pc[t] \notin Booked,
           NEW to, to \notin Booked, Take(t, <<>>, to), senderQ' = Append(senderQ, hold[t]),
           UNCHANGED <<builder, loggroupQ, ring, rd, wr, nextLog, fate>>
    PROVE  Homes'
<1>1. Pending' = Pending /\ Handed[t] = hold[t]
  BY PendingKept, HandedIs
<1>2. ASSUME NEW l \in Logs
      PROVE  /\ InBuilder(l)' = InBuilder(l) /\ InGroups(l)' = InGroups(l) /\ InRing(l)' = InRing(l)
             /\ InSender(l)' = InSender(l) + Has(hold[t], l)
             /\ InHands(l)' = InHands(l) + 0 - Has(hold[t], l)
  <2>1. InHands(l)' = InHands(l) + Has(<<>>, l) - Has(hold[t], l)
    BY <1>1, HandsTake DEF Inv, Control
  <2>2. Has(<<>>, l) = 0
    BY RangeSeq DEF Has
  <2>3. InSender(l)' = InSender(l) + Has(hold[t], l)
    <3>1. senderQ \in Seq(Seq(Logs)) /\ hold[t] \in Seq(Logs)
      BY DEF Inv, TypeOK
    <3> QED
      BY <3>1, QueueCount DEF InSender
  <2> QED
    BY <1>1, <2>1, <2>2, <2>3 DEF InBuilder, InGroups, InRing
<1>3. \A l \in Logs : Has(hold[t], l) \in Nat
  BY DEF Has
<1> QED
  BY <1>2, <1>3, HomesCarried DEF HeldParts

LEMMA HomesPopped ==
    ASSUME Inv, Inv', Homes, NEW t \in Threads, pc[t] \notin Carrying,
           NEW to, to \notin Booked, Take(t, Head(senderQ), to),
           senderQ # <<>>, senderQ' = Tail(senderQ),
           UNCHANGED <<builder, loggroupQ, ring, rd, wr, nextLog, fate>>
    PROVE  Homes'
<1>1. Pending' = Pending /\ Handed[t] = <<>>
  BY PendingKept, HandedIs
<1>2. ASSUME NEW l \in Logs
      PROVE  /\ InBuilder(l)' = InBuilder(l) /\ InGroups(l)' = InGroups(l) /\ InRing(l)' = InRing(l)
             /\ InSender(l) = InSender(l)' + Has(Head(senderQ), l)
             /\ InHands(l)' = InHands(l) + Has(Head(senderQ), l) - 0
  <2>1. InHands(l)' = InHands(l) + Has(Head(senderQ), l) - Has(<<>>, l)
    BY <1>1, HandsTake DEF Inv, Control
  <2>2. Has(<<>>, l) = 0
    BY RangeSeq DEF Has
  <2>3. InSender(l) = InSender(l)' + Has(Head(senderQ), l)
    BY QueueCount DEF InSender, Inv, TypeOK
  <2> QED
    BY <1>1, <2>1, <2>2, <2>3 DEF InBuilder, InGroups, InRing
<1>3. \A l \in Logs : Has(Head(senderQ), l) \in Nat
  BY DEF Has
<1> QED
  BY <1>2, <1>3, HomesCarried DEF HeldParts

\* A log that is accepted had no home; the builder it is put into may go on to
\* loggroup_queue, or be destroyed.
LEMMA HomesAdded ==
    ASSUME Inv, Inv', Homes, NEW c \in Clients, AddLocked(c)
    PROVE  Homes'
<1> DEFINE g == Append(builder, nextLog)
<1>1. /\ nextLog \in Logs /\ nextLog \in Nat /\ nextLog' = nextLog + 1
      /\ builder \in Seq(Logs) /\ g \in Seq(Logs)
      /\ loggroupQ \in Seq(Seq(Logs)) /\ fate \in [Logs -> Fates]
      /\ Range(g) = Range(builder) \cup {nextLog}
  BY SeqTypes, RangeSeq DEF AddLocked, Inv, TypeOK, Logs
<1>2. Pending' = Pending /\ senderQ' = senderQ
  BY PendingKept DEF AddLocked
<1>3. Handed' = Handed
  <2>1. c \in Threads /\ Goto(c, "idle") /\ UNCHANGED hold /\ pc[c] \in Adding
    BY Kinds DEF Adding, AddLocked
  <2> QED
    BY <2>1, HandsKept DEF Inv, Booked, Adding
<1>4. fate[nextLog] = "new"
  BY <1>1 DEF Homes, Fresh
<1>5. \/ /\ builder' = g /\ UNCHANGED loggroupQ
         /\ fate' = [fate EXCEPT ![nextLog] = "held"]
      \/ /\ builder' = <<>> /\ loggroupQ' = Append(loggroupQ, g)
         /\ fate' = [fate EXCEPT ![nextLog] = "held"]
      \/ /\ builder' = <<>> /\ UNCHANGED loggroupQ
         /\ fate' = Meet(g, "dropped")
  BY DEF AddLocked
<1>6. Fresh'
  <2> SUFFICES ASSUME NEW l \in Logs, l >= nextLog + 1 PROVE fate'[l] = "new"
    BY <1>1 DEF Fresh
  <2>1. fate[l] = "new" /\ l # nextLog
    BY <1>1 DEF Homes, Fresh, Logs
  <2>2. l \notin Range(builder)
    <3>1. InBuilder(l) + InGroups(l) + InRing(l) + InSender(l) + InHands(l) = 0
      BY <2>1, HomesOf
    <3>2. /\ InBuilder(l) \in Nat /\ InGroups(l) \in Nat /\ InRing(l) \in Nat
          /\ InSender(l) \in Nat /\ InHands(l) \in Nat
          /\ InBuilder(l) = 0 <=> l \notin Range(builder)
      BY HomesOf DEF HeldParts
    <3> QED
      BY <3>1, <3>2
  <2> QED
    BY <1>1, <1>5, <2>1, <2>2 DEF Meet
<1>7. ASSUME NEW l \in Logs
      PROVE  InBuilder(l)' + InGroups(l)' + InRing(l)' + InSender(l)' + InHands(l)'
                = IF fate'[l] = "held" THEN 1 ELSE 0
  <2>1. InRing(l)' = InRing(l) /\ InSender(l)' = InSender(l) /\ InHands(l)' = InHands(l)
    BY <1>2, <1>3 DEF InRing, InSender, InHands, Hands
  <2>2. /\ InBuilder(l) + InGroups(l) + InRing(l) + InSender(l) + InHands(l)
             = IF fate[l] = "held" THEN 1 ELSE 0
        /\ InBuilder(l) \in Nat /\ InGroups(l) \in Nat /\ InRing(l) \in Nat
        /\ InSender(l) \in Nat /\ InHands(l) \in Nat
        /\ InBuilder(l) = 0 <=> l \notin Range(builder)
    BY HomesOf DEF HeldParts
  <2>3. Count(g, {l}) = InBuilder(l) + (IF nextLog = l THEN 1 ELSE 0)
    BY <1>1, BuilderCount DEF InBuilder
  <2>4. Count(<<>>, {l}) = 0
    BY CountEmpty
  <2>5. Count(Append(loggroupQ, g), With(l)) = InGroups(l) + Has(g, l)
    BY <1>1, QueueCount DEF InGroups
  <2>6. Has(g, l) = Count(g, {l})
    <3>1. CASE l = nextLog
      BY <1>1, <1>4, <2>2, <2>3, <3>1 DEF Has
    <3>2. CASE l # nextLog
      BY <1>1, <2>2, <2>3, <3>2 DEF Has
    <3> QED
      BY <3>1, <3>2
  <2>7. l = nextLog => /\ InBuilder(l) = 0 /\ InGroups(l) = 0 /\ InRing(l) = 0
                       /\ InSender(l) = 0 /\ InHands(l) = 0
    BY <1>4, <2>2
  <2>8. CASE builder' = g /\ UNCHANGED loggroupQ /\ fate' = [fate EXCEPT ![nextLog] = "held"]
    <3>1. InBuilder(l)' = Count(g, {l}) /\ InGroups(l)' = InGroups(l)
      BY <2>8 DEF InBuilder, InGroups
    <3>2. fate'[l] = IF l = nextLog THEN "held" ELSE fate[l]
      BY <1>1, <2>8
    <3> QED
      BY <2>1, <2>2, <2>3, <2>7, <3>1, <3>2
  <2>9. CASE /\ builder' = <<>> /\ loggroupQ' = Append(loggroupQ, g)
             /\ fate' = [fate EXCEPT ![nextLog] = "held"]
    <3>1. InBuilder(l)' = 0 /\ InGroups(l)' = InGroups(l) + Count(g, {l})
      BY <2>4, <2>5, <2>6, <2>9 DEF InBuilder, InGroups
    <3>2. fate'[l] = IF l = nextLog THEN "held" ELSE fate[l]
      BY <1>1, <2>9
    <3> QED
      BY <2>1, <2>2, <2>3, <2>7, <3>1, <3>2
  <2>10. CASE builder' = <<>> /\ UNCHANGED loggroupQ /\ fate' = Meet(g, "dropped")
    <3>1. InBuilder(l)' = 0 /\ InGroups(l)' = InGroups(l)
      BY <2>4, <2>10 DEF InBuilder, InGroups
    <3>2. fate'[l] = IF l = nextLog \/ l \in Range(builder) THEN "dropped" ELSE fate[l]
      BY <1>1, <2>10 DEF Meet
    <3>3. CASE l = nextLog
      BY <2>1, <2>7, <3>1, <3>2, <3>3
    <3>4. CASE l # nextLog /\ l \in Range(builder)
      BY <2>1, <2>2, <3>1, <3>2, <3>4
    <3>5. CASE l # nextLog /\ l \notin Range(builder)
      BY <2>1, <2>2, <3>1, <3>2, <3>5
    <3> QED
      BY <3>3, <3>4, <3>5
  <2> QED
    BY <1>5, <2>8, <2>9, <2>10
<1> QED
  BY <1>6, <1>7, HomesBy

\* The clients' steps.
LEMMA ClientHomes ==
    ASSUME Inv, Inv', Homes, NEW c \in Clients, ClientStep(c)
    PROVE  Homes'
<1>1. CASE AddRefused(c)
  <2>1. Handed' = Handed
    BY <1>1 DEF AddRefused, vars, Handed
  <2> QED
    BY <1>1, <2>1, HomesKept DEF AddRefused, vars, queues
<1>2. CASE AddAdmitted(c) \/ AddQueueFull(c) \/ AddCreate(c)
  <2>1. c \in Threads /\ \E to \in {"add", "create", "idle"} : Goto(c, to)
    BY <1>2, Kinds DEF AddAdmitted, AddQueueFull, AddCreate
  <2>2. UNCHANGED hold /\ pc[c] \notin Booked
    BY <1>2 DEF AddAdmitted, AddQueueFull, AddCreate, Booked
  <2>3. Handed' = Handed
    BY <2>1, <2>2, HandsKept DEF Inv, Booked
  <2> QED
    BY <1>2, <2>3, HomesKept DEF AddAdmitted, AddQueueFull, AddCreate, queues
<1> QED
  BY <1>1, <1>2, HomesAdded DEF ClientStep

\* The raw clients' steps.
LEMMA RawHomes ==
    ASSUME Inv, Inv', Homes, NEW c \in RawClients, RawStep(c)
    PROVE  Homes'
<1>1. c \in Threads
  BY Kinds
<1>2. CASE RawBook(c)
  <2>1. /\ nextLog \in Logs /\ nextLog \in Nat /\ nextLog' = nextLog + 1
        /\ fate' = [fate EXCEPT ![nextLog] = "held"] /\ fate \in [Logs -> Fates]
        /\ pc[c] \notin Carrying
        /\ UNCHANGED <<builder, loggroupQ, ring, rd, wr, senderQ>>
    BY <1>2 DEF RawBook, Inv, TypeOK, Logs, Carrying, queues
  <2>2. \E to : to \notin Booked /\ Take(c, <<nextLog>>, to)
    BY <1>2 DEF RawBook, Booked
  <2>3. Handed[c] = <<>> /\ Pending' = Pending
    BY <1>1, <2>1, HandedIs, PendingKept
  <2>4. fate[nextLog] = "new"
    BY <2>1 DEF Homes, Fresh
  <2>5. Fresh'
    BY <2>1 DEF Homes, Fresh, Logs
  <2>6. ASSUME NEW l \in Logs
        PROVE  InBuilder(l)' + InGroups(l)' + InRing(l)' + InSender(l)' + InHands(l)'
                  = IF fate'[l] = "held" THEN 1 ELSE 0
    <3>1. InHands(l)' = InHands(l) + Has(<<nextLog>>, l) - Has(<<>>, l)
      BY <1>1, <2>2, <2>3, HandsTake DEF Inv, Control
    <3>2. Has(<<nextLog>>, l) = (IF l = nextLog THEN 1 ELSE 0) /\ Has(<<>>, l) = 0
      BY RangeSeq DEF Has
    <3>3. /\ InBuilder(l)' = InBuilder(l) /\ InGroups(l)' = InGroups(l)
          /\ InRing(l)' = InRing(l) /\ InSender(l)' = InSender(l)
      BY <2>1, <2>3 DEF InBuilder, InGroups, InRing, InSender
    <3>4. /\ InBuilder(l) + InGroups(l) + InRing(l) + InSender(l) + InHands(l)
               = IF fate[l] = "held" THEN 1 ELSE 0
          /\ InBuilder(l) \in Nat /\ InGroups(l) \in Nat /\ InRing(l) \in Nat
          /\ InSender(l) \in Nat /\ InHands(l) \in Nat
      BY HomesOf DEF HeldParts
    <3>5. fate'[l] = IF l = nextLog THEN "held" ELSE fate[l]
      BY <2>1
    <3>6. CASE l = nextLog
      BY <2>4, <3>1, <3>2, <3>3, <3>4, <3>5, <3>6
    <3>7. CASE l # nextLog
      BY <3>1, <3>2, <3>3, <3>4, <3>5, <3>7
    <3> QED
      BY <3>6, <3>7
  <2> QED
    BY <2>5, <2>6, HomesBy
<1>3. CASE RawPush(c)
  <2>1. /\ Take(c, <<>>, "idle") /\ pc[c] \notin Booked /\ "idle" \notin Booked
        /\ UNCHANGED <<builder, loggroupQ, ring, rd, wr, nextLog>>
    BY <1>3 DEF RawPush, Booked
  <2>2. \/ senderQ' = Append(senderQ, hold[c]) /\ UNCHANGED fate
        \/ fate' = Meet(hold[c], "leaked") /\ UNCHANGED senderQ
    BY <1>3 DEF RawPush
  <2>3. CASE senderQ' = Append(senderQ, hold[c]) /\ UNCHANGED fate
    BY <1>1, <2>1, <2>3, HomesPushed
  <2>4. CASE fate' = Meet(hold[c], "leaked") /\ UNCHANGED senderQ
    <3>1. "leaked" # "held"
      OBVIOUS
    <3> QED
      BY <1>1, <2>1, <2>4, <3>1, HomesLaidDown
  <2> QED
    BY <2>2, <2>3, <2>4
<1> QED
  BY <1>2, <1>3 DEF RawStep

\* log_producer_send_fun.
LEMMA SendFunHomes ==
    ASSUME Inv, Inv', Homes, NEW t \in Threads, SendFun(t)
    PROVE  Homes'
<1>1. pc[t] \in {"check", "post"} /\ pc[t] \notin Booked
  BY DEF SendFun, SendExit, SendStart, SendDone, SendFailed, Booked
<1>2. CASE SendExit(t) \/ SendDone(t)
  <2>1. /\ \E to : to \notin Booked /\ Take(t, <<>>, to)
        /\ UNCHANGED <<builder, loggroupQ, ring, rd, wr, senderQ, nextLog>>
    BY <1>2 DEF SendExit, SendDone, Return, queues, Booked
  <2>2. \E f : f # "held" /\ fate' = Meet(hold[t], f)
    BY <1>2 DEF SendExit, SendDone
  <2> QED
    BY <1>1, <2>1, <2>2, HomesLaidDown
<1>3. CASE SendStart(t) \/ SendFailed(t)
  <2>1. UNCHANGED hold /\ \E to : to \notin Booked /\ Goto(t, to)
    BY <1>3 DEF SendStart, SendFailed, Booked
  <2>2. Handed' = Handed
    BY <1>1, <2>1, HandsKept DEF Inv
  <2> QED
    BY <1>3, <2>2, HomesKept DEF SendStart, SendFailed, queues
<1> QED
  BY <1>2, <1>3 DEF SendFun

\* The send threads' loop.
LEMMA SenderHomes ==
    ASSUME Inv, Inv', Homes, NEW t \in SendThreads, SenderStep(t)
    PROVE  Homes'
<1>1. t \in Threads /\ "check" \notin Booked
  BY ConstantTypes DEF Booked
<1>2. CASE SenderLoop(t) \/ SenderPopTimeout(t)
  <2>1. UNCHANGED hold /\ pc[t] \notin Booked /\ \E to : to \notin Booked /\ Goto(t, to)
    BY <1>2 DEF SenderLoop, SenderPopTimeout, Booked
  <2>2. Handed' = Handed
    BY <1>1, <2>1, HandsKept DEF Inv
  <2> QED
    BY <1>2, <2>2, HomesKept DEF SenderLoop, SenderPopTimeout, queues
<1>3. CASE SenderPop(t)
  <2>1. pc[t] \notin Carrying
    BY <1>3 DEF SenderPop, Carrying
  <2> QED
    BY <1>1, <1>3, <2>1, HomesPopped DEF SenderPop
<1> QED
  BY <1>2, <1>3 DEF SenderStep

\* The flush thread: the steps that only move it, and those that lay a group down ...
LEMMA FlushStays ==
    ASSUME Inv, Inv', Homes,
           \/ FlushLoop \/ DrainEnd \/ Unbook \/ PackFailed \/ TrySkip \/ TryRead
           \/ TryWrite \/ SendEnd
    PROVE  Homes'
<1>1. CASE FlushLoop \/ DrainEnd \/ Unbook \/ TrySkip \/ TryRead \/ SendEnd
  <2>1. UNCHANGED hold /\ \E to : Goto(Flush, to) /\ (to \in Booked <=> pc[Flush] \in Booked)
    BY <1>1 DEF FlushLoop, DrainEnd, Unbook, TrySkip, TryRead, SendEnd, Booked
  <2>2. Handed' = Handed
    BY <2>1, HandsKept, ConstantTypes DEF Inv
  <2> QED
    BY <1>1, <2>2, HomesKept DEF FlushLoop, DrainEnd, Unbook, TrySkip, TryRead, SendEnd, queues
<1>2. CASE TryWrite
  <2>1. Take(Flush, <<>>, "send") /\ pc[Flush] \in Booked
    BY <1>2 DEF TryWrite, Booked
  <2>2. Handed' = Handed
    BY <2>1, ConstantTypes DEF Take, Goto, Handed, Inv, TypeOK, Booked
  <2> QED
    BY <1>2, <2>2, HomesKept DEF TryWrite, queues
<1>3. CASE PackFailed
  <2>1. /\ pc[Flush] \notin Booked /\ "drain" \notin Booked /\ "dropped" # "held"
        /\ Take(Flush, <<>>, "drain") /\ fate' = Meet(hold[Flush], "dropped")
        /\ UNCHANGED <<builder, loggroupQ, ring, rd, wr, senderQ, nextLog>>
    BY <1>3 DEF PackFailed, Booked, queues
  <2> QED
    BY <2>1, HomesLaidDown, ConstantTypes
<1> QED
  BY <1>1, <1>2, <1>3

\* ... those that take one, or put one into a queue ...
LEMMA FlushPacks ==
    ASSUME Inv, Inv', Homes, DrainPop \/ Pack
    PROVE  Homes'
<1>1. CASE DrainPop
  <2>1. /\ Take(Flush, Head(loggroupQ), "unbook") /\ Handed[Flush] = <<>>
        /\ loggroupQ # <<>> /\ loggroupQ' = Tail(loggroupQ)
        /\ UNCHANGED <<builder, ring, rd, wr, senderQ, nextLog, fate>> /\ Pending' = Pending
    BY <1>1, HandedIs, PendingKept, ConstantTypes DEF DrainPop, Carrying
  <2>2. ASSUME NEW l \in Logs
        PROVE  /\ InBuilder(l)' = InBuilder(l) /\ InRing(l)' = InRing(l) /\ InSender(l)' = InSender(l)
               /\ InGroups(l) = InGroups(l)' + Has(Head(loggroupQ), l)
               /\ InHands(l)' = InHands(l) + Has(Head(loggroupQ), l) - Has(<<>>, l)
    <3>1. InHands(l)' = InHands(l) + Has(Head(loggroupQ), l) - Has(<<>>, l)
      BY <2>1, HandsTake, ConstantTypes DEF Inv, Control, Booked
    <3>2. InGroups(l) = InGroups(l)' + Has(Head(loggroupQ), l)
      BY <2>1, QueueCount DEF InGroups, Inv, TypeOK
    <3> QED
      BY <2>1, <3>1, <3>2 DEF InBuilder, InRing, InSender
  <2>3. ASSUME NEW l \in Logs, HeldParts(l), HeldParts(l)'
        PROVE  InBuilder(l)' + InGroups(l)' + InRing(l)' + InSender(l)' + InHands(l)'
                 = InBuilder(l) + InGroups(l) + InRing(l) + InSender(l) + InHands(l)
    <3>1. Has(Head(loggroupQ), l) \in Nat /\ Has(<<>>, l) = 0
      BY RangeSeq DEF Has
    <3>2. /\ InBuilder(l) \in Nat /\ InGroups(l) \in Nat /\ InRing(l) \in Nat
          /\ InSender(l) \in Nat /\ InHands(l) \in Nat /\ InGroups(l)' \in Nat
      BY <2>3 DEF HeldParts
    <3>3. /\ InBuilder(l)' = InBuilder(l) /\ InRing(l)' = InRing(l) /\ InSender(l)' = InSender(l)
          /\ InGroups(l) = InGroups(l)' + Has(Head(loggroupQ), l)
          /\ InHands(l)' = InHands(l) + Has(Head(loggroupQ), l)
      BY <2>2, <3>1, <3>2
    <3>4. \A b, g, r, s, h, a, x \in Nat : g = a + x => b + a + r + s + (h + x) = b + g + r + s + h
      OBVIOUS
    <3> QED
      BY <3>1, <3>2, <3>3, <3>4
  <2> QED
    BY <2>1, <2>3, HomesCarried
<1>2. CASE Pack
  <2>1. /\ Take(Flush, <<>>, "drain") /\ Handed[Flush] = hold[Flush]
        /\ UNCHANGED <<builder, loggroupQ, senderQ, nextLog, fate>>
    BY <1>2, HandedIs, ConstantTypes DEF Pack, Booked
  <2>2. Pending' = Append(Pending, hold[Flush])
    BY <1>2, PendingPush DEF Inv, Control
  <2>3. Pending \in Seq(Seq(Logs)) /\ hold[Flush] \in Seq(Logs)
    BY PendingType, ConstantTypes DEF Inv, Control, TypeOK
  <2>4. ASSUME NEW l \in Logs
        PROVE  /\ InBuilder(l)' = InBuilder(l) /\ InGroups(l)' = InGroups(l) /\ InSender(l)' = InSender(l)
               /\ InRing(l)' = InRing(l) + Has(hold[Flush], l)
               /\ InHands(l)' = InHands(l) + Has(<<>>, l) - Has(hold[Flush], l)
    <3>1. InHands(l)' = InHands(l) + Has(<<>>, l) - Has(hold[Flush], l)
      BY <2>1, HandsTake, ConstantTypes DEF Inv, Control, Booked
    <3>2. InRing(l)' = InRing(l) + Has(hold[Flush], l)
      BY <2>2, <2>3, QueueCount DEF InRing
    <3> QED
      BY <2>1, <3>1, <3>2 DEF InBuilder, InGroups, InSender
  <2>5. \A l \in Logs : Has(hold[Flush], l) \in Nat /\ Has(<<>>, l) = 0
    BY RangeSeq DEF Has
  <2>6. ASSUME NEW l \in Logs, HeldParts(l), HeldParts(l)'
        PROVE  InBuilder(l)' + InGroups(l)' + InRing(l)' + InSender(l)' + InHands(l)'
                 = InBuilder(l) + InGroups(l) + InRing(l) + InSender(l) + InHands(l)
    <3>1. /\ InBuilder(l) \in Nat /\ InGroups(l) \in Nat /\ InRing(l) \in Nat
          /\ InSender(l) \in Nat /\ InHands(l) \in Nat
      BY <2>6 DEF HeldParts
    <3>2. /\ InBuilder(l)' = InBuilder(l) /\ InGroups(l)' = InGroups(l) /\ InSender(l)' = InSender(l)
          /\ InRing(l)' = InRing(l) + Has(hold[Flush], l)
          /\ InHands(l)' = InHands(l) - Has(hold[Flush], l)
      BY <2>4, <2>5, <3>1
    <3>3. Has(hold[Flush], l) \in Nat
      BY <2>5
    <3> QED
      BY <3>1, <3>2, <3>3
  <2> QED
    BY <2>1, <2>6, HomesCarried
<1> QED
  BY <1>1, <1>2

\* ... those of _try_flush_loggroup ...
LEMMA FlushTries ==
    ASSUME Inv, Inv', Homes, TryTake \/ TryPush
    PROVE  Homes'
<1>1. CASE TryTake
  <2>1. /\ Take(Flush, builder, "tryPush") /\ Handed[Flush] = <<>> /\ builder' = <<>>
        /\ UNCHANGED <<loggroupQ, ring, rd, wr, senderQ, nextLog, fate>> /\ Pending' = Pending
    BY <1>1, HandedIs, PendingKept, ConstantTypes DEF TryTake, Carrying
  <2>2. ASSUME NEW l \in Logs
        PROVE  InBuilder(l)' + InGroups(l)' + InRing(l)' + InSender(l)' + InHands(l)'
                 = InBuilder(l) + InGroups(l) + InRing(l) + InSender(l) + InHands(l)
    <3>1. InHands(l)' = InHands(l) + Has(builder, l) - Has(<<>>, l)
      BY <2>1, HandsTake, ConstantTypes DEF Inv, Control, Booked
    <3>2. InBuilder(l)' = 0
      BY <2>1, CountEmpty DEF InBuilder
    <3>3. /\ InBuilder(l) + InGroups(l) + InRing(l) + InSender(l) + InHands(l)
               = IF fate[l] = "held" THEN 1 ELSE 0
          /\ InBuilder(l) \in Nat /\ InGroups(l) \in Nat /\ InRing(l) \in Nat
          /\ InSender(l) \in Nat /\ InHands(l) \in Nat
          /\ InBuilder(l) = 0 <=> l \notin Range(builder)
      BY HomesOf DEF HeldParts
    <3>4. InBuilder(l) = Has(builder, l) /\ Has(<<>>, l) = 0
      BY <3>3, RangeSeq DEF Has
    <3>5. InGroups(l)' = InGroups(l) /\ InRing(l)' = InRing(l) /\ InSender(l)' = InSender(l)
      BY <2>1 DEF InGroups, InRing, InSender
    <3> QED
      BY <3>1, <3>2, <3>3, <3>4, <3>5
  <2> QED
    BY <2>1, <2>2, HomesCarried
<1>2. CASE TryPush /\ Len(loggroupQ) < BaseQueueSize
  <2>1. /\ Goto(Flush, "tryRead") /\ Handed[Flush] = hold[Flush] /\ UNCHANGED hold
        /\ loggroupQ' = Append(loggroupQ, hold[Flush])
        /\ UNCHANGED <<builder, ring, rd, wr, senderQ, nextLog, fate>> /\ Pending' = Pending
    BY <1>2, HandedIs, PendingKept, ConstantTypes DEF TryPush, Booked
  <2>2. Handed'[Flush] = <<>> /\ \A u \in Threads \ {Flush} : Handed'[u] = Handed[u]
    BY <2>1, ConstantTypes DEF Goto, Handed, Inv, TypeOK, Booked
  <2>3. hold[Flush] \in Seq(Logs)
    BY ConstantTypes DEF Inv, TypeOK
  <2>4. ASSUME NEW l \in Logs, HeldParts(l), HeldParts(l)'
        PROVE  InBuilder(l)' + InGroups(l)' + InRing(l)' + InSender(l)' + InHands(l)'
                 = InBuilder(l) + InGroups(l) + InRing(l) + InSender(l) + InHands(l)
    <3>1. InHands(l)' = InHands(l) + Has(<<>>, l) - Has(hold[Flush], l)
      <4>1. InHands(l)' = InHands(l) + Has(Handed'[Flush], l) - Has(Handed[Flush], l)
        BY <2>2, HandsMove, ConstantTypes DEF Inv, Control
      <4> QED
        BY <2>1, <2>2, <4>1
    <3>2. InGroups(l)' = InGroups(l) + Has(hold[Flush], l)
      BY <2>1, <2>3, QueueCount DEF InGroups, Inv, TypeOK
    <3>3. Has(hold[Flush], l) \in Nat /\ Has(<<>>, l) = 0
      BY RangeSeq DEF Has
    <3>4. InBuilder(l)' = InBuilder(l) /\ InRing(l)' = InRing(l) /\ InSender(l)' = InSender(l)
      BY <2>1 DEF InBuilder, InRing, InSender
    <3>5. /\ InBuilder(l) \in Nat /\ InGroups(l) \in Nat /\ InRing(l) \in Nat
          /\ InSender(l) \in Nat /\ InHands(l) \in Nat
      BY <2>4 DEF HeldParts
    <3> QED
      BY <3>1, <3>2, <3>3, <3>4, <3>5
  <2> QED
    BY <2>1, <2>4, HomesCarried
<1>3. CASE TryPush /\ ~(Len(loggroupQ) < BaseQueueSize)
  <2>1. /\ pc[Flush] \notin Booked /\ "send" \notin Booked /\ "dropped" # "held"
        /\ Take(Flush, <<>>, "send") /\ fate' = Meet(hold[Flush], "dropped")
        /\ UNCHANGED <<builder, loggroupQ, ring, rd, wr, senderQ, nextLog>>
    BY <1>3 DEF TryPush, Booked
  <2> QED
    BY <2>1, HomesLaidDown, ConstantTypes
<1> QED
  BY <1>1, <1>2, <1>3

\* ... and those of the send phase.
LEMMA FlushSends ==
    ASSUME Inv, Inv', Homes, SendParam \/ PushParam \/ SendDirect
    PROVE  Homes'
<1>1. CASE SendParam \/ SendDirect
  <2>1. /\ \E to : to \notin Booked /\ Take(Flush, ring[rd % ParamQueueSize], to)
        /\ Handed[Flush] = <<>>
        /\ UNCHANGED <<builder, loggroupQ, senderQ, nextLog, fate>>
    BY <1>1, HandedIs, ConstantTypes DEF SendParam, SendDirect, Carrying, Booked
  <2>2. /\ Pending # <<>> /\ Pending' = Tail(Pending) /\ ring[rd % ParamQueueSize] = Head(Pending)
        /\ Pending \in Seq(Seq(Logs))
    BY <1>1, PendingPop, PendingType DEF Inv, Control
  <2>3. ASSUME NEW l \in Logs, HeldParts(l), HeldParts(l)'
        PROVE  InBuilder(l)' + InGroups(l)' + InRing(l)' + InSender(l)' + InHands(l)'
                 = InBuilder(l) + InGroups(l) + InRing(l) + InSender(l) + InHands(l)
    <3>1. InHands(l)' = InHands(l) + Has(Head(Pending), l) - Has(<<>>, l)
      <4>1. PICK to : to \notin Booked /\ Take(Flush, ring[rd % ParamQueueSize], to)
        BY <2>1
      <4>2. InHands(l)' = InHands(l) + Has(ring[rd % ParamQueueSize], l) - Has(Handed[Flush], l)
        BY <4>1, HandsTake, ConstantTypes DEF Inv, Control
      <4> QED
        BY <2>1, <2>2, <4>2
    <3>2. InRing(l) = InRing(l)' + Has(Head(Pending), l)
      BY <2>2, QueueCount DEF InRing
    <3>3. Has(Head(Pending), l) \in Nat /\ Has(<<>>, l) = 0
      BY RangeSeq DEF Has
    <3>4. InBuilder(l)' = InBuilder(l) /\ InGroups(l)' = InGroups(l) /\ InSender(l)' = InSender(l)
      BY <2>1 DEF InBuilder, InGroups, InSender
    <3>5. /\ InBuilder(l) \in Nat /\ InGroups(l) \in Nat /\ InRing(l) \in Nat
          /\ InSender(l) \in Nat /\ InHands(l) \in Nat /\ InRing(l)' \in Nat
      BY <2>3 DEF HeldParts
    <3> QED
      BY <3>1, <3>2, <3>3, <3>4, <3>5
  <2> QED
    BY <2>1, <2>3, HomesCarried
<1>2. CASE PushParam
  <2>1. /\ pc[Flush] \notin Booked /\ "send" \notin Booked /\ "leaked" # "held"
        /\ Take(Flush, <<>>, "send")
        /\ UNCHANGED <<builder, loggroupQ, ring, rd, wr, nextLog>>
    BY <1>2 DEF PushParam, Booked
  <2>2. \/ senderQ' = Append(senderQ, hold[Flush]) /\ UNCHANGED fate
        \/ fate' = Meet(hold[Flush], "leaked") /\ UNCHANGED senderQ
    BY <1>2 DEF PushParam
  <2>3. CASE senderQ' = Append(senderQ, hold[Flush]) /\ UNCHANGED fate
    BY <2>1, <2>3, HomesPushed, ConstantTypes
  <2>4. CASE fate' = Meet(hold[Flush], "leaked") /\ UNCHANGED senderQ
    BY <2>1, <2>4, HomesLaidDown, ConstantTypes
  <2> QED
    BY <2>2, <2>3, <2>4
<1> QED
  BY <1>1, <1>2

\* destroy_log_producer_manager.
LEMMA DestroyHomes ==
    ASSUME Inv, Inv', Homes, PushLast \/ DestroyStep
    PROVE  Homes'
<1>1. CASE PushLast
  <2>1. /\ Goto(Destroyer, "waitGroups") /\ UNCHANGED hold /\ pc[Destroyer] = "idle"
        /\ builder' = <<>> /\ Pending' = Pending
        /\ UNCHANGED <<ring, rd, wr, senderQ, nextLog>>
    BY <1>1, PendingKept DEF PushLast, Running
  <2>2. Handed' = Handed
    BY <2>1, HandsKept, ConstantTypes DEF Inv, Booked
  <2>3. \/ builder = <<>> /\ UNCHANGED <<loggroupQ, fate>>
        \/ loggroupQ' = Append(loggroupQ, builder) /\ UNCHANGED fate
        \/ fate' = Meet(builder, "dropped") /\ UNCHANGED loggroupQ
    BY <1>1 DEF PushLast
  <2>4. ASSUME NEW l \in Logs
        PROVE  /\ InBuilder(l) + InGroups(l) + InRing(l) + InSender(l) + InHands(l)
                    = IF fate[l] = "held" THEN 1 ELSE 0
               /\ InBuilder(l) \in Nat /\ InGroups(l) \in Nat /\ InRing(l) \in Nat
               /\ InSender(l) \in Nat /\ InHands(l) \in Nat
               /\ InBuilder(l) = Has(builder, l)
               /\ InBuilder(l)' = 0 /\ InRing(l)' = InRing(l) /\ InSender(l)' = InSender(l)
               /\ InHands(l)' = InHands(l)
    <3>1. HeldParts(l) /\ InBuilder(l) + InGroups(l) + InRing(l) + InSender(l) + InHands(l)
                            = IF fate[l] = "held" THEN 1 ELSE 0
      BY HomesOf
    <3>2. /\ InBuilder(l) \in Nat /\ InGroups(l) \in Nat /\ InRing(l) \in Nat
          /\ InSender(l) \in Nat /\ InHands(l) \in Nat
          /\ InBuilder(l) = 0 <=> l \notin Range(builder)
      BY <3>1 DEF HeldParts
    <3>3. InBuilder(l) = Has(builder, l)
      BY <3>1, <3>2 DEF Has
    <3>4. InBuilder(l)' = 0
      BY <2>1, CountEmpty DEF InBuilder
    <3>5. InRing(l)' = InRing(l) /\ InSender(l)' = InSender(l) /\ InHands(l)' = InHands(l)
      BY <2>1, <2>2 DEF InRing, InSender, InHands, Hands
    <3> QED
      BY <3>1, <3>2, <3>3, <3>4, <3>5
  <2>5. CASE builder = <<>> /\ UNCHANGED <<loggroupQ, fate>>
    BY <2>1, <2>2, <2>5, HomesKept
  <2>6. CASE loggroupQ' = Append(loggroupQ, builder) /\ UNCHANGED fate
    <3>1. ASSUME NEW l \in Logs PROVE InGroups(l)' = InGroups(l) + Has(builder, l)
      BY <2>6, QueueCount DEF InGroups, Inv, TypeOK
    <3> QED
      BY <2>1, <2>4, <2>6, <3>1, HomesCarried
  <2>7. CASE fate' = Meet(builder, "dropped") /\ UNCHANGED loggroupQ
    <3>1. ASSUME NEW l \in Logs
          PROVE  /\ InGroups(l)' = InGroups(l)
                 /\ l \in Range(builder) => Has(builder, l) = 1 /\ fate'[l] = "dropped"
                 /\ l \notin Range(builder) => Has(builder, l) = 0 /\ fate'[l] = fate[l]
      BY <2>7 DEF InGroups, Meet, Has
    <3>2. Fresh'
      <4> SUFFICES ASSUME NEW l \in Logs, l >= nextLog PROVE fate'[l] = "new"
        BY <2>1 DEF Fresh
      <4>1. fate[l] = "new"
        BY DEF Homes, Fresh
      <4> QED
        BY <2>4, <3>1, <4>1
    <3>3. ASSUME NEW l \in Logs
          PROVE  InBuilder(l)' + InGroups(l)' + InRing(l)' + InSender(l)' + InHands(l)'
                    = IF fate'[l] = "held" THEN 1 ELSE 0
      <4>1. CASE l \in Range(builder)
        BY <2>4, <3>1, <4>1
      <4>2. CASE l \notin Range(builder)
        BY <2>4, <3>1, <4>2
      <4> QED
        BY <4>1, <4>2
    <3> QED
      BY <3>2, <3>3, HomesBy
  <2> QED
    BY <2>3, <2>5, <2>6, <2>7
<1>2. CASE DrainSender
  <2>1. pc[Destroyer] \notin Carrying /\ "check" \notin Booked
    BY <1>2 DEF DrainSender, Carrying, Booked
  <2> QED
    BY <1>2, <2>1, HomesPopped, ConstantTypes DEF DrainSender
<1>3. CASE DestroyStep /\ ~DrainSender
  <2>1. /\ UNCHANGED <<builder, loggroupQ, ring, rd, wr, senderQ, nextLog, fate, hold>>
        /\ pc[Destroyer] \notin Booked
        /\ \E to : to \notin Booked /\ Goto(Destroyer, to)
    BY <1>3 DEF DestroyStep, WaitGroups, WaitParams, WaitSender, WaitTimeout, WaitOperand,
       Shutdown, JoinFlush, JoinSend, FreeTail, Booked, queues
  <2>2. Handed' = Handed
    BY <2>1, HandsKept, ConstantTypes DEF Inv
  <2> QED
    BY <2>1, <2>2, HomesKept
<1> QED
  BY <1>1, <1>2, <1>3

\* Every step keeps each log in one home.
LEMMA StepHomes == Inv /\ Homes /\ [Next]_vars => Homes'
<1> SUFFICES ASSUME Inv, Homes, [Next]_vars PROVE Homes'
  OBVIOUS
<1>1. Inv'
  BY StepInv
<1>2. CASE UNCHANGED vars
  <2>1. Handed' = Handed
    BY <1>2 DEF vars, Handed
  <2> QED
    BY <1>1, <1>2, <2>1, HomesKept DEF vars, queues
<1>3. CASE FlushStep
  BY <1>1, <1>3, FlushStays, FlushPacks, FlushTries, FlushSends DEF FlushStep
<1> QED
  BY <1>1, <1>2, <1>3, ClientHomes, RawHomes, SendFunHomes, SenderHomes, DestroyHomes
     DEF Next, Freed

\* A log that was accepted is in exactly one place until it meets its fate, and then in
\* none: no buffer is posted or reported twice, overwritten in the ring or lost on the
\* way, with any number of threads of each kind.
THEOREM OneHomeOnly == Spec => []OneHome
<1>1. Spec => []Inv
  BY InitInv, StepInv, PTL DEF Spec
<1>2. Homes => OneHome
  BY DEF Homes
<1> QED
  BY <1>1, <1>2, InitHomes, StepHomes, PTL DEF Spec
=============================================================================
