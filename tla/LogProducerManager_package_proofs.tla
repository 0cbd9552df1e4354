------------------- MODULE LogProducerManager_package_proofs -------------------
(***************************************************************************)
(* Proofs about the packages of LogProducerManager: in which order they    *)
(* leave, that they stay whole, what they hold and totalBufferSize counts, *)
(* how far a producer can exceed maxBufferBytes, and that only packages    *)
(* that are not full are overtaken.  They rest on Inv and Homes of         *)
(* LogProducerManager_proofs.                                              *)
(***************************************************************************)
EXTENDS LogProducerManager_proofs

-----------------------------------------------------------------------------
(***************************************************************************)
(* The order in which packages leave                                       *)
(***************************************************************************)
\* With the pack indices p, a may come before b; and a queue of groups is in order.
Lt(p, a, b) == p[b] > 0 => p[a] < p[b]
Ordered(q, p) == \A i, j \in DOMAIN q : i < j =>
    \A a \in Range(q[i]), b \in Range(q[j]) : Lt(p, a, b)
Before(q, r, p) == \A a, b \in Logs : InQueue(q, a) /\ InQueue(r, b) => Lt(p, a, b)

\* What is in a queue is a log; and what is in it before a pop, and in two queues.
LEMMA InLogs ==
    ASSUME NEW q \in Seq(Seq(Logs))
    PROVE  /\ \A i \in DOMAIN q : \A a \in Range(q[i]) : a \in Logs /\ InQueue(q, a)
           /\ \A g \in Seq(Logs) : Range(g) \subseteq Logs
<1>1. ASSUME NEW g \in Seq(Logs) PROVE Range(g) \subseteq Logs
  <2>1. DOMAIN g = 1 .. Len(g) /\ \A i \in 1 .. Len(g) : g[i] \in Logs
    BY LenProperties
  <2> QED
    BY <2>1 DEF Range
<1>2. \A i \in DOMAIN q : q[i] \in Seq(Logs)
  BY LenProperties
<1> QED
  BY <1>1, <1>2 DEF InQueue

LEMMA InTail ==
    ASSUME NEW q \in Seq(Seq(Logs)), q # <<>>, NEW l
    PROVE  InQueue(q, l) <=> l \in Range(Head(q)) \/ InQueue(Tail(q), l)
<1>1. Tail(q) \in Seq(Seq(Logs))
  BY SeqTypes
<1>2. /\ Count(q, With(l)) \in Nat /\ (Count(q, With(l)) = 0 <=> ~InQueue(q, l))
      /\ Count(q, With(l)) = Count(Tail(q), With(l)) + Has(Head(q), l)
  BY QueueCount
<1>3. Count(Tail(q), With(l)) \in Nat /\ (Count(Tail(q), With(l)) = 0 <=> ~InQueue(Tail(q), l))
  BY <1>1, QueueCount
<1> QED
  BY <1>2, <1>3 DEF Has

\* Two ordered queues, the first before the second, are one.
LEMMA OrderedConcat ==
    ASSUME NEW q \in Seq(Seq(Logs)), NEW r \in Seq(Seq(Logs)), NEW p,
           Ordered(q, p), Ordered(r, p), Before(q, r, p)
    PROVE  /\ Ordered(q \o r, p) /\ q \o r \in Seq(Seq(Logs))
           /\ \A l : InQueue(q \o r, l) => InQueue(q, l) \/ InQueue(r, l)
<1> DEFINE m == Len(q)  n == Len(r)
<1>1. /\ m \in Nat /\ n \in Nat /\ DOMAIN q = 1 .. m /\ DOMAIN r = 1 .. n
      /\ q \o r \in Seq(Seq(Logs)) /\ DOMAIN (q \o r) = 1 .. m + n
      /\ \A i \in 1 .. m + n : (q \o r)[i] = IF i <= m THEN q[i] ELSE r[i - m]
  BY LenProperties, ConcatProperties
<1> HIDE DEF m, n
<1>2. ASSUME NEW i \in 1 .. m + n, NEW j \in 1 .. m + n, i < j,
             NEW a \in Range((q \o r)[i]), NEW b \in Range((q \o r)[j])
      PROVE  Lt(p, a, b)
  <2>1. CASE j <= m
    <3>1. i \in 1 .. m /\ j \in 1 .. m /\ i <= m
      BY <1>1, <1>2, <2>1
    <3>2. a \in Range(q[i]) /\ b \in Range(q[j])
      BY <1>1, <1>2, <2>1, <3>1
    <3> QED
      BY <1>1, <1>2, <3>1, <3>2 DEF Ordered
  <2>2. CASE i > m
    <3>1. i - m \in 1 .. n /\ j - m \in 1 .. n /\ i - m < j - m /\ ~(i <= m) /\ ~(j <= m)
      <4>1. i \in Int /\ j \in Int /\ i <= m + n /\ j <= m + n /\ i < j
        BY <1>1, <1>2
      <4>2. m \in Int /\ n \in Int
        BY <1>1
      <4> QED
        BY <2>2, <4>1, <4>2
    <3>2. a \in Range(r[i - m]) /\ b \in Range(r[j - m])
      <4>1. (q \o r)[i] = r[i - m]
        BY <1>1, <1>2, <3>1
      <4>2. (q \o r)[j] = r[j - m]
        BY <1>1, <1>2, <3>1
      <4> QED
        BY <1>2, <4>1, <4>2
    <3> QED
      BY <1>1, <3>1, <3>2 DEF Ordered
  <2>3. CASE i <= m /\ j > m
    <3>1. j - m \in 1 .. n /\ i \in 1 .. m
      BY <1>1, <1>2, <2>3
    <3>2. a \in Range(q[i]) /\ b \in Range(r[j - m])
      BY <1>1, <2>3
    <3> QED
      BY <1>1, <3>1, <3>2, InLogs DEF Before
  <2> QED
    BY <1>1, <2>1, <2>2, <2>3
<1>3. ASSUME NEW l, InQueue(q \o r, l) PROVE InQueue(q, l) \/ InQueue(r, l)
  <2>1. PICK i \in 1 .. m + n : l \in Range((q \o r)[i])
    BY <1>1, <1>3 DEF InQueue
  <2>2. m \in Nat /\ n \in Nat
    BY <1>1
  <2>3. CASE i <= m
    <3>1. i \in DOMAIN q /\ l \in Range(q[i])
      BY <1>1, <2>1, <2>2, <2>3
    <3> QED
      BY <3>1 DEF InQueue
  <2>4. CASE ~(i <= m)
    <3>1. i - m \in DOMAIN r /\ l \in Range(r[i - m])
      BY <1>1, <2>1, <2>2, <2>4
    <3> QED
      BY <3>1 DEF InQueue
  <2> QED
    BY <2>3, <2>4
<1> QED
  BY <1>1, <1>2, <1>3 DEF Ordered

\* A push of a group after which none has to come, and a pop, keep the order.
LEMMA OrderedAppend ==
    ASSUME NEW q \in Seq(Seq(Logs)), NEW g \in Seq(Logs), NEW p, Ordered(q, p),
           \A a, b \in Logs : InQueue(q, a) /\ b \in Range(g) => Lt(p, a, b)
    PROVE  Ordered(Append(q, g), p)
<1> DEFINE n == Len(q) + 1
<1>1. /\ n \in Nat /\ DOMAIN q = 1 .. n - 1 /\ DOMAIN Append(q, g) = 1 .. n
      /\ Append(q, g)[n] = g /\ \A i \in 1 .. n - 1 : Append(q, g)[i] = q[i]
  BY AppendProperties, LenProperties
<1> HIDE DEF n
<1>2. ASSUME NEW i \in 1 .. n, NEW j \in 1 .. n, i < j,
             NEW a \in Range(Append(q, g)[i]), NEW b \in Range(Append(q, g)[j])
      PROVE  Lt(p, a, b)
  <2>1. i \in 1 .. n - 1 /\ a \in Range(q[i])
    BY <1>1, <1>2
  <2>2. CASE j = n
    <3>1. a \in Logs /\ InQueue(q, a) /\ b \in Logs
      BY <1>1, <2>1, <2>2, InLogs
    <3> QED
      BY <1>1, <2>2, <3>1
  <2>3. CASE j # n
    <3>1. j \in 1 .. n - 1
      BY <1>1, <2>3
    <3> QED
      BY <1>1, <1>2, <2>1, <3>1 DEF Ordered
  <2> QED
    BY <2>2, <2>3
<1> QED
  BY <1>1, <1>2 DEF Ordered

LEMMA OrderedTail ==
    ASSUME NEW q \in Seq(Seq(Logs)), q # <<>>, NEW p, Ordered(q, p)
    PROVE  /\ Ordered(Tail(q), p)
           /\ \A a \in Range(Head(q)) : \A b : InQueue(Tail(q), b) => Lt(p, a, b)
<1>1. /\ Len(q) \in Nat \ {0} /\ DOMAIN q = 1 .. Len(q) /\ Head(q) = q[1]
      /\ DOMAIN Tail(q) = 1 .. Len(q) - 1
      /\ \A i \in 1 .. Len(q) - 1 : Tail(q)[i] = q[i + 1]
  BY HeadTailProperties, LenProperties, EmptySeq
<1>2. \A i \in 1 .. Len(q) - 1 : i + 1 \in 1 .. Len(q) /\ 1 < i + 1
  BY <1>1
<1>3. Ordered(Tail(q), p)
  <2> SUFFICES ASSUME NEW i \in 1 .. Len(q) - 1, NEW j \in 1 .. Len(q) - 1, i < j,
                      NEW a \in Range(Tail(q)[i]), NEW b \in Range(Tail(q)[j])
               PROVE  Lt(p, a, b)
    BY <1>1 DEF Ordered
  <2>1. i + 1 < j + 1
    OBVIOUS
  <2> QED
    BY <1>1, <1>2, <2>1 DEF Ordered
<1>4. ASSUME NEW a \in Range(Head(q)), NEW b, InQueue(Tail(q), b) PROVE Lt(p, a, b)
  <2>1. PICK i \in 1 .. Len(q) - 1 : b \in Range(q[i + 1])
    BY <1>1, <1>4 DEF InQueue
  <2>2. 1 \in DOMAIN q /\ i + 1 \in DOMAIN q /\ 1 < i + 1 /\ a \in Range(q[1])
    BY <1>1, <1>2
  <2> QED
    BY <2>1, <2>2 DEF Ordered
<1> QED
  BY <1>3, <1>4

\* The order depends only on the indices of the logs in the queue.
LEMMA OrderedSame ==
    ASSUME NEW q \in Seq(Seq(Logs)), NEW p, NEW r, Ordered(q, p),
           \A l \in Logs : InQueue(q, l) => r[l] = p[l]
    PROVE  Ordered(q, r)
<1>1. \A i \in DOMAIN q : \A a \in Range(q[i]) : r[a] = p[a]
  BY InLogs
<1> QED
  BY <1>1 DEF Ordered, Lt

\* The indices of packages: none above pack_index, and below it, until it is in the
\* ring, in front of the package that has it; none of a log that is new, nor of a
\* raw buffer that waits for its push.
Indexed ==
    /\ \A l \in Logs : packOf[l] <= packIndex
    /\ \A l \in Logs : fate[l] = "new" => packOf[l] = 0
    /\ \A c \in RawClients : pc[c] = "raw" => \A l \in Range(hold[c]) : packOf[l] = 0
    /\ pc[Flush] = "pack" =>
         /\ \A l \in Range(hold[Flush]) : packOf[l] = packIndex
         /\ packIndex > 0
         /\ \A l \in Logs : InQueue(senderQ, l) \/ InQueue(Pending, l) => packOf[l] < packIndex

\* The queues and the parameter in Flush's hands, in the order in which they leave.
Queued ==
    /\ Ordered(senderQ, packOf) /\ Ordered(Pending, packOf) /\ Before(senderQ, Pending, packOf)
    /\ pc[Flush] = "pushParam" =>
         /\ \A a, b \in Logs : InQueue(senderQ, a) /\ b \in Range(hold[Flush]) => Lt(packOf, a, b)
         /\ \A a, b \in Logs : a \in Range(hold[Flush]) /\ InQueue(Pending, b) => Lt(packOf, a, b)

\* pack_index and the packages' indices change when Flush counts a package.
LEMMA PackMoves == ASSUME Next PROVE UNCHANGED <<packIndex, packOf>> \/ Unbook
  BY DEF Next, ClientStep, AddRefused, AddAdmitted, AddQueueFull, AddCreate, AddLocked,
     RawStep, RawBook, RawPush, SendFun, SendExit, SendStart, SendDone, SendFailed,
     SenderStep, SenderLoop, SenderPop, SenderPopTimeout, FlushStep, FlushLoop, DrainPop,
     DrainEnd, Pack, PackFailed, TryTake, TrySkip, TryPush, TryRead, TryWrite,
     SendParam, PushParam, SendDirect, SendEnd, PushLast, DestroyStep, WaitGroups,
     WaitParams, WaitSender, WaitTimeout, WaitOperand, Shutdown, JoinFlush, JoinSend,
     DrainSender, FreeTail, Freed, ghosts, queues, vars

\* A log in a thread's hands is in no queue, and in nobody else's hands.
LEMMA InHandOnly ==
    ASSUME Inv, Homes, NEW t \in Threads, pc[t] \notin Booked, NEW l \in Range(hold[t])
    PROVE  /\ l \in Logs /\ fate[l] = "held" /\ l \notin Range(builder)
           /\ ~InQueue(loggroupQ, l) /\ ~InQueue(senderQ, l) /\ ~InQueue(Pending, l)
           /\ \A u \in Threads : u # t /\ pc[u] \notin Booked => l \notin Range(hold[u])
<1>1. l \in Logs /\ Handed[t] = hold[t]
  BY InLogs, HandedIs, SeqTypes DEF Inv, TypeOK
<1>2. /\ HeldParts(l)
      /\ InBuilder(l) + InGroups(l) + InRing(l) + InSender(l) + InHands(l)
           = IF fate[l] = "held" THEN 1 ELSE 0
  BY <1>1, HomesOf
<1>3. InHands(l) # 0
  BY <1>1, <1>2 DEF HeldParts
<1>4. /\ fate[l] = "held" /\ InBuilder(l) = 0 /\ InGroups(l) = 0 /\ InRing(l) = 0
      /\ InSender(l) = 0 /\ InHands(l) = 1
  <2>1. /\ InBuilder(l) \in Nat /\ InGroups(l) \in Nat /\ InRing(l) \in Nat
        /\ InSender(l) \in Nat /\ InHands(l) \in Nat
    BY <1>2 DEF HeldParts
  <2>2. \A a, b, c, d, e \in Nat : a + b + c + d + e \in {0, 1} /\ e # 0 =>
          a = 0 /\ b = 0 /\ c = 0 /\ d = 0 /\ e = 1 /\ a + b + c + d + e = 1
    OBVIOUS
  <2>3. InBuilder(l) + InGroups(l) + InRing(l) + InSender(l) + InHands(l) \in {0, 1}
    BY <1>2
  <2> QED
    BY <1>2, <1>3, <2>1, <2>2, <2>3
<1>5. ASSUME NEW u \in Threads, u # t, pc[u] \notin Booked PROVE l \notin Range(hold[u])
  <2>1. \E x : Hands(l) = {x}
    BY <1>2, <1>4, FS_Singleton DEF HeldParts, InHands
  <2>2. t \in Hands(l)
    BY <1>1 DEF Hands
  <2>3. u \notin Hands(l)
    BY <1>5, <2>1, <2>2
  <2> QED
    BY <1>5, <2>3, HandedIs DEF Hands
<1> QED
  BY <1>1, <1>2, <1>4, <1>5 DEF HeldParts

\* What is in the builder is held.
LEMMA BuilderHeld ==
    ASSUME Inv, Homes, NEW l \in Range(builder)
    PROVE  /\ l \in Logs /\ fate[l] = "held" /\ ~InQueue(loggroupQ, l) /\ ~InQueue(senderQ, l)
           /\ ~InQueue(Pending, l) /\ \A t \in Threads : l \notin Range(hold[t])
<1>1. l \in Logs
  <2>1. builder \in Seq(Logs) /\ <<>> \in Seq(Seq(Logs))
    BY DEF Inv, TypeOK
  <2> QED
    BY <2>1, InLogs
<1>2. /\ HeldParts(l)
      /\ InBuilder(l) + InGroups(l) + InRing(l) + InSender(l) + InHands(l)
           = IF fate[l] = "held" THEN 1 ELSE 0
  BY <1>1, HomesOf
<1>3. /\ fate[l] = "held" /\ InGroups(l) = 0 /\ InRing(l) = 0 /\ InSender(l) = 0
      /\ InHands(l) = 0
  <2>1. \A a, b, c, d, e \in Nat : a # 0 /\ a + b + c + d + e \in {0, 1} =>
          a + b + c + d + e = 1 /\ b = 0 /\ c = 0 /\ d = 0 /\ e = 0
    OBVIOUS
  <2>2. /\ InBuilder(l) \in Nat /\ InGroups(l) \in Nat /\ InRing(l) \in Nat
        /\ InSender(l) \in Nat /\ InHands(l) \in Nat /\ InBuilder(l) # 0
    BY <1>2 DEF HeldParts
  <2>3. InBuilder(l) + InGroups(l) + InRing(l) + InSender(l) + InHands(l) \in {0, 1}
    BY <1>2
  <2> QED
    BY <1>2, <2>1, <2>2, <2>3
<1>4. ~InQueue(loggroupQ, l)
  BY <1>2, <1>3 DEF HeldParts
<1>5. ASSUME NEW t \in Threads PROVE l \notin Range(hold[t])
  <2>1. CASE pc[t] \notin Booked
    BY <1>2, <1>3, <2>1, HandedIs DEF HeldParts
  <2>2. CASE pc[t] \in Booked
    <3>1. t = Flush
      BY <2>2 DEF Inv, Control, Placed, PCsOf, FlushPCs, DestroyerPCs, SenderPCs, CallerPCs, Booked
    <3> QED
      BY <1>4, <2>2, <3>1 DEF Inv, Booking, Booked
  <2> QED
    BY <2>1, <2>2
<1> QED
  BY <1>1, <1>2, <1>3, <1>4, <1>5 DEF HeldParts

\* The step that counts a package.
LEMMA UnbookOrder ==
    ASSUME Inv, Inv', Homes, Indexed, Queued, Unbook
    PROVE  Indexed' /\ Queued'
<1>1. /\ Flush \in Threads /\ pc[Flush] = "unbook" /\ pc' = [pc EXCEPT ![Flush] = "pack"]
      /\ UNCHANGED <<senderQ, hold, fate>> /\ Pending' = Pending
      /\ packIndex \in Nat /\ packIndex' = packIndex + 1 /\ packOf \in [Logs -> Nat]
      /\ packOf' = [l \in Logs |-> IF l \in Range(hold[Flush]) THEN packIndex + 1 ELSE packOf[l]]
      /\ pc \in [Threads -> PCs]
  BY PendingKept, ConstantTypes DEF Unbook, Goto, Inv, TypeOK
<1>2. ASSUME NEW l \in Range(hold[Flush])
      PROVE  /\ l \in Logs /\ fate[l] = "held" /\ ~InQueue(senderQ, l) /\ ~InQueue(Pending, l)
             /\ \A u \in Threads : u # Flush /\ pc[u] \notin Booked => l \notin Range(hold[u])
  BY <1>1, InHandOnly DEF Booked
<1>3. \A l \in Logs : InQueue(senderQ, l) \/ InQueue(Pending, l) => packOf'[l] = packOf[l]
  BY <1>1, <1>2
<1>4. Queued'
  <2>1. pc'[Flush] = "pack"
    BY <1>1
  <2>2. senderQ \in Seq(Seq(Logs)) /\ Pending \in Seq(Seq(Logs))
    BY PendingType DEF Inv, Control, TypeOK
  <2>3. Ordered(senderQ, packOf') /\ Ordered(Pending, packOf')
    BY <1>3, <2>2, OrderedSame DEF Queued
  <2>4. Before(senderQ, Pending, packOf')
    BY <1>3 DEF Queued, Before, Lt
  <2> QED
    BY <1>1, <2>1, <2>3, <2>4 DEF Queued
<1>5. Indexed'
  <2>1. \A l \in Logs : packOf'[l] <= packIndex'
    BY <1>1 DEF Indexed
  <2>2. \A l \in Logs : fate'[l] = "new" => packOf'[l] = 0
    BY <1>1, <1>2 DEF Indexed
  <2>3. ASSUME NEW c \in RawClients, pc'[c] = "raw", NEW l \in Range(hold'[c]) PROVE packOf'[l] = 0
    <3>1. c \in Threads /\ c # Flush /\ pc[c] = "raw" /\ l \in Range(hold[c])
      BY <1>1, <2>3, Kinds
    <3>2. l \in Logs
      BY <3>1, InLogs, SeqTypes DEF Inv, TypeOK
    <3>3. l \notin Range(hold[Flush])
      BY <1>2, <3>1 DEF Booked
    <3> QED
      BY <1>1, <3>1, <3>2, <3>3 DEF Indexed
  <2>4. /\ \A l \in Range(hold'[Flush]) : packOf'[l] = packIndex'
        /\ packIndex' > 0
        /\ \A l \in Logs : InQueue(senderQ', l) \/ InQueue(Pending', l) => packOf'[l] < packIndex'
    <3>1. \A l \in Range(hold'[Flush]) : packOf'[l] = packIndex'
      BY <1>1, <1>2
    <3>2. \A l \in Logs : InQueue(senderQ, l) \/ InQueue(Pending, l) => packOf'[l] < packIndex'
      BY <1>1, <1>3 DEF Indexed
    <3> QED
      BY <1>1, <3>1, <3>2
  <2> QED
    BY <2>1, <2>2, <2>3, <2>4 DEF Indexed
<1> QED
  BY <1>4, <1>5

\* The steps that leave sender_data_queue, the ring and the indices alone, and keep
\* Flush out of the two places at which the order depends on its hands.
LEMMA OrderKept ==
    ASSUME Inv, Indexed, Queued, UNCHANGED <<senderQ, ring, rd, wr, packIndex, packOf>>,
           \A l \in Logs : fate'[l] = "new" => fate[l] = "new",
           pc'[Flush] \in {"pack", "pushParam"} => pc'[Flush] = pc[Flush] /\ hold'[Flush] = hold[Flush],
           \A c \in RawClients : pc'[c] = "raw" => pc[c] = "raw" /\ hold'[c] = hold[c]
    PROVE  Indexed' /\ Queued'
<1>1. Pending' = Pending
  BY PendingKept
<1>2. Queued'
  BY <1>1 DEF Queued
<1>3. Indexed'
  <2>1. pc'[Flush] = "pack" =>
         /\ \A l \in Range(hold'[Flush]) : packOf'[l] = packIndex'
         /\ packIndex' > 0
         /\ \A l \in Logs : InQueue(senderQ', l) \/ InQueue(Pending', l) => packOf'[l] < packIndex'
    BY <1>1 DEF Indexed
  <2>2. \A c \in RawClients : pc'[c] = "raw" => \A l \in Range(hold'[c]) : packOf'[l] = 0
    BY DEF Indexed
  <2> QED
    BY <2>1, <2>2 DEF Indexed
<1> QED
  BY <1>2, <1>3

\* A pop from sender_data_queue.
LEMMA OrderPopped ==
    ASSUME Inv, Indexed, Queued, senderQ # <<>>, senderQ' = Tail(senderQ),
           UNCHANGED <<ring, rd, wr, packIndex, packOf, fate>>,
           pc'[Flush] \in {"pack", "pushParam"} => pc'[Flush] = pc[Flush] /\ hold'[Flush] = hold[Flush],
           \A c \in RawClients : pc'[c] = "raw" => pc[c] = "raw" /\ hold'[c] = hold[c]
    PROVE  Indexed' /\ Queued'
<1>1. Pending' = Pending /\ senderQ \in Seq(Seq(Logs))
  BY PendingKept DEF Inv, TypeOK
<1>2. \A l : InQueue(senderQ', l) => InQueue(senderQ, l)
  BY <1>1, InTail
<1>3. Ordered(senderQ', packOf)
  BY <1>1, OrderedTail DEF Queued
<1>4. Queued'
  BY <1>1, <1>2, <1>3 DEF Queued, Before
<1>5. Indexed'
  <2>1. pc'[Flush] = "pack" =>
         /\ \A l \in Range(hold'[Flush]) : packOf'[l] = packIndex'
         /\ packIndex' > 0
         /\ \A l \in Logs : InQueue(senderQ', l) \/ InQueue(Pending', l) => packOf'[l] < packIndex'
    BY <1>1, <1>2 DEF Indexed
  <2>2. \A c \in RawClients : pc'[c] = "raw" => \A l \in Range(hold'[c]) : packOf'[l] = 0
    BY DEF Indexed
  <2> QED
    BY <2>1, <2>2 DEF Indexed
<1> QED
  BY <1>4, <1>5

\* The flush thread puts its package into the ring, takes one from there, and puts
\* it into sender_data_queue.
LEMMA PackOrder ==
    ASSUME Inv, Inv', Indexed, Queued, Pack
    PROVE  Indexed' /\ Queued'
<1>1. /\ Flush \in Threads /\ pc[Flush] = "pack" /\ pc' = [pc EXCEPT ![Flush] = "drain"]
      /\ UNCHANGED <<senderQ, packIndex, packOf, fate>>
      /\ hold' = [hold EXCEPT ![Flush] = <<>>]
      /\ pc \in [Threads -> PCs] /\ hold \in [Threads -> Seq(Logs)] /\ hold[Flush] \in Seq(Logs)
  BY ConstantTypes DEF Pack, Take, Goto, Inv, TypeOK, ghosts
<1>2. /\ Pending' = Append(Pending, hold[Flush]) /\ Pending \in Seq(Seq(Logs))
      /\ \A l : InQueue(Pending', l) <=> InQueue(Pending, l) \/ l \in Range(hold[Flush])
  <2>1. Pending' = Append(Pending, hold[Flush]) /\ Pending \in Seq(Seq(Logs))
    BY PendingPush, PendingType DEF Inv, Control
  <2> QED
    BY <1>1, <2>1, AppendIn
<1>3. \A a, b \in Logs : (InQueue(senderQ, a) \/ InQueue(Pending, a)) /\ b \in Range(hold[Flush])
        => Lt(packOf, a, b)
  BY <1>1 DEF Indexed, Lt
<1>4. Ordered(Pending', packOf)
  BY <1>1, <1>2, <1>3, OrderedAppend DEF Queued
<1>5. Queued'
  <2>1. Before(senderQ, Pending', packOf)
    BY <1>2, <1>3 DEF Queued, Before
  <2>2. pc'[Flush] # "pushParam"
    BY <1>1
  <2> QED
    BY <1>1, <1>4, <2>1, <2>2 DEF Queued
<1>6. Indexed'
  <2>1. pc'[Flush] # "pack"
    BY <1>1
  <2>2. \A c \in RawClients : pc'[c] = "raw" => \A l \in Range(hold'[c]) : packOf'[l] = 0
    BY <1>1, Kinds DEF Indexed
  <2> QED
    BY <1>1, <2>1, <2>2 DEF Indexed
<1> QED
  BY <1>5, <1>6

LEMMA SendParamOrder ==
    ASSUME Inv, Inv', Indexed, Queued, SendParam \/ SendDirect
    PROVE  Indexed' /\ Queued'
<1>1. /\ Flush \in Threads /\ \E to : to # "pack" /\ pc' = [pc EXCEPT ![Flush] = to]
      /\ UNCHANGED <<senderQ, packIndex, packOf, fate>>
      /\ hold' = [hold EXCEPT ![Flush] = ring[rd % ParamQueueSize]]
      /\ pc \in [Threads -> PCs] /\ hold \in [Threads -> Seq(Logs)]
  BY ConstantTypes DEF SendParam, SendDirect, Take, Goto, Inv, TypeOK, ghosts
<1>2. /\ Pending # <<>> /\ Pending' = Tail(Pending) /\ Pending \in Seq(Seq(Logs))
      /\ hold'[Flush] = Head(Pending)
  BY <1>1, PendingPop, PendingType DEF Inv, Control
<1>3. \A l : InQueue(Pending, l) <=> l \in Range(hold'[Flush]) \/ InQueue(Pending', l)
  BY <1>2, InTail
<1>4. /\ Ordered(Pending', packOf)
      /\ \A a \in Range(hold'[Flush]) : \A b : InQueue(Pending', b) => Lt(packOf, a, b)
  BY <1>2, OrderedTail DEF Queued
<1>5. Queued'
  <2>1. Before(senderQ, Pending', packOf)
    BY <1>3 DEF Queued, Before
  <2>2. \A a, b \in Logs : InQueue(senderQ, a) /\ b \in Range(hold'[Flush]) => Lt(packOf, a, b)
    BY <1>3 DEF Queued, Before
  <2> QED
    BY <1>1, <1>4, <2>1, <2>2 DEF Queued
<1>6. Indexed'
  <2>1. pc'[Flush] # "pack"
    BY <1>1
  <2>2. \A c \in RawClients : pc'[c] = "raw" => \A l \in Range(hold'[c]) : packOf'[l] = 0
    BY <1>1, Kinds DEF Indexed
  <2> QED
    BY <1>1, <2>1, <2>2 DEF Indexed
<1> QED
  BY <1>5, <1>6

LEMMA PushParamOrder ==
    ASSUME Inv, Inv', Indexed, Queued, PushParam
    PROVE  Indexed' /\ Queued'
<1>1. /\ Flush \in Threads /\ pc[Flush] = "pushParam" /\ pc' = [pc EXCEPT ![Flush] = "send"]
      /\ UNCHANGED <<ring, rd, wr, packIndex, packOf>> /\ Pending' = Pending
      /\ hold' = [hold EXCEPT ![Flush] = <<>>]
      /\ pc \in [Threads -> PCs] /\ hold \in [Threads -> Seq(Logs)] /\ hold[Flush] \in Seq(Logs)
      /\ senderQ \in Seq(Seq(Logs))
  BY PendingKept, ConstantTypes DEF PushParam, Take, Goto, Inv, TypeOK, ghosts
<1>2. \A l \in Logs : fate'[l] = "new" => fate[l] = "new"
  BY DEF PushParam, Meet
<1>3. CASE UNCHANGED senderQ
  BY <1>1, <1>2, <1>3, Kinds, OrderKept
<1>4. CASE senderQ' = Append(senderQ, hold[Flush])
  <2>1. \A l : InQueue(senderQ', l) <=> InQueue(senderQ, l) \/ l \in Range(hold[Flush])
    BY <1>1, <1>4, AppendIn
  <2>2. Ordered(senderQ', packOf)
    BY <1>1, <1>4, OrderedAppend DEF Queued
  <2>3. Before(senderQ', Pending, packOf)
    BY <1>1, <2>1 DEF Queued, Before
  <2>4. pc'[Flush] = "send"
    BY <1>1
  <2>5. Queued'
    BY <1>1, <2>2, <2>3, <2>4 DEF Queued
  <2>6. \A c \in RawClients : pc'[c] = "raw" => \A l \in Range(hold'[c]) : packOf'[l] = 0
    BY <1>1, Kinds DEF Indexed
  <2>7. Indexed'
    BY <1>1, <1>2, <2>4, <2>6 DEF Indexed
  <2> QED
    BY <2>5, <2>7
<1> QED
  BY <1>3, <1>4 DEF PushParam

\* A raw buffer has no index: its push and its booking disturb no order.
LEMMA RawOrder ==
    ASSUME Inv, Inv', Homes, Indexed, Queued, NEW c \in RawClients, RawStep(c)
    PROVE  Indexed' /\ Queued'
<1>1. /\ c \in Threads /\ c # Flush /\ UNCHANGED <<ring, rd, wr, packIndex, packOf>>
      /\ Pending' = Pending /\ pc \in [Threads -> PCs] /\ hold \in [Threads -> Seq(Logs)]
      /\ hold[c] \in Seq(Logs) /\ senderQ \in Seq(Seq(Logs))
      /\ Flush \in Threads /\ \A d \in RawClients : d \in Threads
  BY PendingKept, Kinds, ConstantTypes DEF RawStep, RawBook, RawPush, Inv, TypeOK, ghosts, queues
<1>2. pc'[Flush] = pc[Flush] /\ hold'[Flush] = hold[Flush]
  BY <1>1 DEF RawStep, RawBook, RawPush, Take, Goto
<1>3. CASE RawBook(c)
  <2>1. /\ nextLog \in Logs /\ fate[nextLog] = "new" /\ UNCHANGED senderQ
        /\ fate' = [fate EXCEPT ![nextLog] = "held"] /\ fate \in [Logs -> Fates]
        /\ \A d \in RawClients : d # c => pc'[d] = pc[d] /\ hold'[d] = hold[d]
        /\ hold'[c] = <<nextLog>>
    BY <1>1, <1>3 DEF RawBook, Take, Goto, Homes, Fresh, Inv, TypeOK, Logs, queues
  <2>2. Range(<<nextLog>>) = {nextLog} /\ packOf[nextLog] = 0
    BY <2>1, RangeSeq DEF Indexed
  <2>3. Queued'
    BY <1>1, <1>2, <2>1 DEF Queued
  <2>4. ASSUME NEW d \in RawClients, pc'[d] = "raw", NEW l \in Range(hold'[d]) PROVE packOf'[l] = 0
    BY <1>1, <2>1, <2>2, <2>4 DEF Indexed
  <2>5. \A l \in Logs : fate'[l] = "new" => packOf'[l] = 0
    BY <1>1, <2>1 DEF Indexed
  <2>6. Indexed'
    BY <1>1, <1>2, <2>1, <2>4, <2>5 DEF Indexed
  <2> QED
    BY <2>3, <2>6
<1>4. CASE RawPush(c)
  <2>1. /\ pc[c] = "raw" /\ pc'[c] = "idle"
        /\ \A d \in RawClients : d # c => pc'[d] = pc[d] /\ hold'[d] = hold[d]
        /\ \A l \in Logs : fate'[l] = "new" => fate[l] = "new"
    BY <1>1, <1>4 DEF RawPush, Take, Goto, Meet
  <2>2. \A d \in RawClients : pc'[d] = "raw" => pc[d] = "raw" /\ hold'[d] = hold[d]
    BY <2>1
  <2>3. CASE UNCHANGED senderQ
    BY <1>1, <1>2, <2>1, <2>2, <2>3, OrderKept
  <2>4. CASE senderQ' = Append(senderQ, hold[c])
    <3>1. \A l : InQueue(senderQ', l) <=> InQueue(senderQ, l) \/ l \in Range(hold[c])
      BY <1>1, <2>4, AppendIn
    <3>2. \A l \in Range(hold[c]) : packOf[l] = 0
      BY <2>1 DEF Indexed
    <3>3. \A a, b \in Logs : InQueue(senderQ, a) /\ b \in Range(hold[c]) => Lt(packOf, a, b)
      BY <3>2 DEF Lt
    <3>4. Ordered(senderQ', packOf)
      BY <1>1, <2>4, <3>3, OrderedAppend DEF Queued
    <3>5. \A a \in Range(hold[c]), b \in Logs : Lt(packOf, a, b)
      BY <3>2 DEF Lt
    <3>6. Before(senderQ', Pending, packOf)
      BY <3>1, <3>5 DEF Queued, Before
    <3>7. Queued'
      BY <1>1, <1>2, <3>1, <3>4, <3>5, <3>6 DEF Queued
    <3>8. pc'[Flush] = "pack" =>
           /\ \A l \in Range(hold'[Flush]) : packOf'[l] = packIndex'
           /\ packIndex' > 0
           /\ \A l \in Logs : InQueue(senderQ', l) \/ InQueue(Pending', l) => packOf'[l] < packIndex'
      BY <1>1, <1>2, <3>1, <3>2 DEF Indexed
    <3>9. Indexed'
      BY <1>1, <2>1, <2>2, <3>8 DEF Indexed
    <3> QED
      BY <3>7, <3>9
  <2> QED
    BY <1>4, <2>3, <2>4 DEF RawPush
<1> QED
  BY <1>3, <1>4 DEF RawStep

\* No log becomes new again.
LEMMA NeverNew == ASSUME TypeOK, Next PROVE \A l \in Logs : fate'[l] = "new" => fate[l] = "new"
<1>1. \A g, f : f # "new" /\ fate' = Meet(g, f) =>
        \A l \in Logs : fate'[l] = "new" => fate[l] = "new"
  BY DEF Meet
<1>2. fate' = [fate EXCEPT ![nextLog] = "held"] =>
        \A l \in Logs : fate'[l] = "new" => fate[l] = "new"
  BY DEF TypeOK
<1>3. CASE \E c \in Clients : ClientStep(c)
  BY <1>1, <1>2, <1>3 DEF ClientStep, AddRefused, AddAdmitted, AddQueueFull, AddCreate, AddLocked, vars
<1>4. CASE \E c \in RawClients : RawStep(c)
  BY <1>1, <1>2, <1>4 DEF RawStep, RawBook, RawPush
<1>5. CASE \E t \in Threads : SendFun(t)
  BY <1>1, <1>5 DEF SendFun, SendExit, SendStart, SendDone, SendFailed
<1>6. CASE \E t \in SendThreads : SenderStep(t)
  BY <1>6 DEF SenderStep, SenderLoop, SenderPop, SenderPopTimeout
<1>7. CASE FlushStep
  BY <1>1, <1>7 DEF FlushStep, FlushLoop, DrainPop, DrainEnd, Unbook, Pack, PackFailed,
     TryTake, TrySkip, TryPush, TryRead, TryWrite, SendParam, PushParam, SendDirect, SendEnd
<1>8. CASE PushLast
  BY <1>1, <1>8 DEF PushLast
<1>9. CASE DestroyStep \/ Freed
  BY <1>9 DEF DestroyStep, WaitGroups, WaitParams, WaitSender, WaitTimeout,
     WaitOperand, Shutdown, JoinFlush, JoinSend, DrainSender, FreeTail, Freed, vars
<1> QED
  BY <1>3, <1>4, <1>5, <1>6, <1>7, <1>8, <1>9 DEF Next

\* Flush comes to a package with its index, or to a parameter for sender_data_queue,
\* in two steps only; a raw client comes to its push by booking.
LEMMA FlushArrives ==
    ASSUME Inv, Next, ~Unbook, ~SendParam, pc'[Flush] \in {"pack", "pushParam"}
    PROVE  pc'[Flush] = pc[Flush] /\ hold'[Flush] = hold[Flush]
<1>1. pc \in [Threads -> PCs] /\ Flush \in Threads /\ TypeOK
  BY ConstantTypes DEF Inv, TypeOK
<1>2. ~SendFun(Flush)
  BY <1>1, ConstantTypes DEF SendFun, SendExit, SendStart, SendDone, SendFailed, Return, Take, Goto
<1>3. ~FlushStep
  BY <1>1 DEF FlushStep, FlushLoop, DrainPop, DrainEnd, Pack, PackFailed,
     TryTake, TrySkip, TryPush, TryRead, TryWrite, PushParam, SendDirect, SendEnd, Take, Goto
<1> QED
  BY <1>1, <1>2, <1>3, FlushMoves

LEMMA RawArrives ==
    ASSUME Inv, Next, NEW c \in RawClients, ~RawStep(c), pc'[c] = "raw"
    PROVE  pc[c] = "raw" /\ hold'[c] = hold[c]
<1>1. pc \in [Threads -> PCs] /\ c \in Threads /\ TypeOK /\ c \notin Clients
  BY Kinds, ThreadsAssumption DEF Inv, TypeOK
<1>2. ~SendFun(c)
  BY <1>1, Kinds DEF SendFun, SendExit, SendStart, SendDone, SendFailed, Return, Take, Goto
<1> QED
  BY <1>1, <1>2, Moves, Kinds

\* Every step keeps the order.
LEMMA StepOrder == Inv /\ Homes /\ Indexed /\ Queued /\ [Next]_vars => Indexed' /\ Queued'
<1> SUFFICES ASSUME Inv, Homes, Indexed, Queued, [Next]_vars PROVE Indexed' /\ Queued'
  OBVIOUS
<1>1. Inv'
  BY StepInv
<1>2. CASE UNCHANGED vars
  BY <1>2, OrderKept DEF vars, queues, ghosts
<1>3. CASE Unbook \/ Pack \/ SendParam \/ SendDirect \/ PushParam
  BY <1>1, <1>3, UnbookOrder, PackOrder, SendParamOrder, PushParamOrder
<1>4. CASE \E c \in RawClients : RawStep(c)
  BY <1>1, <1>4, RawOrder
<1>5. CASE Next /\ ~(Unbook \/ Pack \/ SendParam \/ SendDirect \/ PushParam)
                /\ ~\E c \in RawClients : RawStep(c)
  <2>1. /\ UNCHANGED <<packIndex, packOf, ring, rd, wr>>
        /\ \/ UNCHANGED senderQ
           \/ (\E t \in SendThreads : SenderPop(t)) \/ DrainSender
    BY <1>5, PackMoves, QueueMoves DEF RawStep
  <2>2. /\ \A l \in Logs : fate'[l] = "new" => fate[l] = "new"
        /\ pc'[Flush] \in {"pack", "pushParam"} => pc'[Flush] = pc[Flush] /\ hold'[Flush] = hold[Flush]
        /\ \A c \in RawClients : pc'[c] = "raw" => pc[c] = "raw" /\ hold'[c] = hold[c]
    BY <1>5, NeverNew, FlushArrives, RawArrives DEF Inv
  <2>3. CASE UNCHANGED senderQ
    BY <2>1, <2>2, <2>3, OrderKept
  <2>4. CASE (\E t \in SendThreads : SenderPop(t)) \/ DrainSender
    <3>1. senderQ # <<>> /\ senderQ' = Tail(senderQ) /\ UNCHANGED fate
      BY <2>4 DEF SenderPop, DrainSender
    <3> QED
      BY <2>1, <2>2, <3>1, OrderPopped
  <2> QED
    BY <2>1, <2>3, <2>4
<1> QED
  BY <1>2, <1>3, <1>4, <1>5

\* In the first states there is nothing to order.
LEMMA InitOrder == Init => Indexed /\ Queued
<1> SUFFICES ASSUME Init PROVE Indexed /\ Queued
  OBVIOUS
<1>1. /\ pc[Flush] = "idle" /\ (\A c \in RawClients : pc[c] = "idle") /\ packIndex = 0
      /\ (\A l \in Logs : packOf[l] = 0) /\ senderQ = <<>> /\ DOMAIN Pending = {}
  BY ConstantTypes, Kinds DEF Init, Pending
<1>2. DOMAIN senderQ = {}
  BY <1>1
<1> QED
  BY <1>1, <1>2 DEF Indexed, Queued, Ordered, Before, InQueue

\* The three queues as one.
LEMMA OutgoingOrdered == Inv /\ Queued => SendOrder
<1> SUFFICES ASSUME Inv, Queued PROVE SendOrder
  OBVIOUS
<1> DEFINE h == IF pc[Flush] = "pushParam" THEN <<hold[Flush]>> ELSE <<>>
<1>1. /\ senderQ \in Seq(Seq(Logs)) /\ Pending \in Seq(Seq(Logs)) /\ hold[Flush] \in Seq(Logs)
      /\ h \in Seq(Seq(Logs))
  BY PendingType, ConstantTypes DEF Inv, Control, TypeOK
<1>2. \A l : InQueue(h, l) => pc[Flush] = "pushParam" /\ l \in Range(hold[Flush])
  BY DEF InQueue
<1>3. Ordered(h, packOf)
  BY DEF Ordered
<1>4. Before(senderQ, h, packOf) /\ Before(h, Pending, packOf)
  BY <1>2 DEF Before, Queued
<1> HIDE DEF h
<1>5. /\ Ordered(senderQ \o h, packOf) /\ senderQ \o h \in Seq(Seq(Logs))
      /\ \A l : InQueue(senderQ \o h, l) => InQueue(senderQ, l) \/ InQueue(h, l)
  BY <1>1, <1>3, <1>4, OrderedConcat DEF Queued
<1>6. Before(senderQ \o h, Pending, packOf)
  BY <1>4, <1>5 DEF Before, Queued
<1>7. Ordered((senderQ \o h) \o Pending, packOf)
  BY <1>1, <1>5, <1>6, OrderedConcat DEF Queued
<1> QED
  BY <1>7 DEF h, Outgoing, SendOrder, Ordered, Lt

\* Packages leave in the order of their pack indices, whatever the raw clients and the
\* send threads do in between.
THEOREM PackagesInOrder == Spec => []SendOrder
<1>1. Spec => []Inv
  BY InitInv, StepInv, PTL DEF Spec
<1>2. Spec => []Homes
  BY <1>1, InitHomes, StepHomes, PTL DEF Spec
<1>3. Spec => [](Indexed /\ Queued)
  BY <1>1, <1>2, InitOrder, StepOrder, PTL DEF Spec
<1> QED
  BY <1>1, <1>3, OutgoingOrdered, PTL

-----------------------------------------------------------------------------
(***************************************************************************)
(* Packages stay whole, and meet one fate: LogDelivery                     *)
(***************************************************************************)
\* The logs of a group have one index, and are all that have it.
SamePack(g) == \A a \in Range(g), l \in Logs :
    packOf[a] > 0 => (packOf[l] = packOf[a] <=> l \in Range(g))

\* The groups in all places, and the logs that have not been counted yet.
Around == {builder} \cup Range(loggroupQ) \cup Range(Pending) \cup Range(senderQ)
            \cup {hold[t] : t \in Threads}
Bare(l) == \/ l \in Range(builder) \/ InQueue(loggroupQ, l)
           \/ Holds(Flush, {"unbook", "tryPush"}, l)

Unbroken ==
    /\ \A g \in Around : SamePack(g)
    /\ \A l \in Logs : Bare(l) => packOf[l] = 0

\* The groups of a queue after a push and a pop.
LEMMA QueueRange ==
    ASSUME NEW q \in Seq(Seq(Logs))
    PROVE  /\ \A g \in Seq(Logs) : Range(Append(q, g)) \subseteq Range(q) \cup {g}
           /\ q # <<>> => Head(q) \in Range(q) /\ Range(Tail(q)) \subseteq Range(q)
<1>1. Len(q) \in Nat /\ DOMAIN q = 1 .. Len(q)
  BY LenProperties
<1>2. ASSUME NEW g \in Seq(Logs) PROVE Range(Append(q, g)) \subseteq Range(q) \cup {g}
  <2>1. /\ DOMAIN Append(q, g) = 1 .. Len(q) + 1 /\ Append(q, g)[Len(q) + 1] = g
        /\ \A i \in 1 .. Len(q) : Append(q, g)[i] = q[i]
    BY AppendProperties, LenProperties
  <2> QED
    BY <1>1, <2>1 DEF Range
<1>3. ASSUME q # <<>> PROVE Head(q) \in Range(q) /\ Range(Tail(q)) \subseteq Range(q)
  <2>1. /\ Head(q) = q[1] /\ 1 \in DOMAIN q /\ DOMAIN Tail(q) = 1 .. Len(q) - 1
        /\ \A i \in 1 .. Len(q) - 1 : Tail(q)[i] = q[i + 1] /\ i + 1 \in DOMAIN q
    BY <1>1, <1>3, HeadTailProperties, LenProperties, EmptySeq
  <2> QED
    BY <2>1 DEF Range
<1> QED
  BY <1>2, <1>3

LEMMA PushAround ==
    ASSUME NEW q \in Seq(Seq(Logs)), NEW g \in Seq(Logs), NEW S, Range(q) \subseteq S, g \in S
    PROVE  Range(Append(q, g)) \subseteq S
  BY QueueRange

\* The groups that a step can make: an empty one, and those with the next log.
Made == {<<>>} \cup (IF nextLog \in Logs THEN {<<nextLog>>, Append(builder, nextLog)} ELSE {})

\* Every other group after a step was somewhere before it: in the queues, ...
LEMMA QueuesAround ==
    ASSUME Inv, Inv', Next
    PROVE  /\ builder' \in Around \cup Made /\ Range(loggroupQ') \subseteq Around \cup Made
           /\ Range(Pending') \subseteq Around /\ Range(senderQ') \subseteq Around
<1>1. /\ builder \in Seq(Logs) /\ loggroupQ \in Seq(Seq(Logs)) /\ senderQ \in Seq(Seq(Logs))
      /\ Pending \in Seq(Seq(Logs)) /\ hold \in [Threads -> Seq(Logs)] /\ nextLog \in Nat \ {0}
      /\ TypeOK /\ TypeOK' /\ RingBound /\ RingBound'
  BY PendingType DEF Inv, Control, TypeOK
<1>2. /\ builder \in Around /\ Range(loggroupQ) \subseteq Around /\ Range(Pending) \subseteq Around
      /\ Range(senderQ) \subseteq Around /\ \A t \in Threads : hold[t] \in Around
  BY DEF Around
<1>3. ASSUME NEW c \in Clients, AddLocked(c)
      PROVE  /\ builder' \in Made
             /\ loggroupQ' = loggroupQ \/ loggroupQ' = Append(loggroupQ, Append(builder, nextLog))
             /\ nextLog \in Logs /\ Append(builder, nextLog) \in Made
  <2>1. nextLog \in Logs
    BY <1>1, <1>3 DEF AddLocked, Logs
  <2> QED
    BY <1>3, <2>1 DEF AddLocked, Made
<1>4. builder' \in Around \cup Made
  <2>1. CASE TryTake \/ PushLast
    BY <2>1 DEF TryTake, PushLast, Made
  <2> QED
    BY <1>2, <1>3, <2>1, QueueMoves
<1>5. Range(loggroupQ') \subseteq Around \cup Made
  <2>1. CASE \E c \in Clients : AddLocked(c)
    <3>1. nextLog \in Logs /\ Append(builder, nextLog) \in Seq(Logs)
      BY <1>1, <1>3, <2>1, SeqTypes
    <3>2. loggroupQ' = loggroupQ \/ loggroupQ' = Append(loggroupQ, Append(builder, nextLog))
      BY <1>3, <2>1
    <3>3. Append(builder, nextLog) \in Around \cup Made
      BY <3>1 DEF Made
    <3>4. Range(Append(loggroupQ, Append(builder, nextLog))) \subseteq Around \cup Made
      BY <1>1, <1>2, <3>1, <3>3, PushAround
    <3> QED
      BY <1>2, <3>2, <3>4
  <2>2. CASE TryPush
    <3>1. loggroupQ' = loggroupQ \/ loggroupQ' = Append(loggroupQ, hold[Flush])
      BY <2>2 DEF TryPush
    <3>2. hold[Flush] \in Seq(Logs) /\ hold[Flush] \in Around
      BY <1>1, <1>2, ConstantTypes
    <3>3. Range(Append(loggroupQ, hold[Flush])) \subseteq Around
      BY <1>1, <1>2, <3>2, PushAround
    <3> QED
      BY <1>2, <3>1, <3>3
  <2>3. CASE DrainPop
    BY <1>1, <1>2, <2>3, QueueRange DEF DrainPop
  <2>4. CASE PushLast
    <3>1. loggroupQ' = loggroupQ \/ loggroupQ' = Append(loggroupQ, builder)
      BY <2>4 DEF PushLast
    <3>2. builder \in Seq(Logs) /\ builder \in Around
      BY <1>1, <1>2, ConstantTypes
    <3>3. Range(Append(loggroupQ, builder)) \subseteq Around
      BY <1>1, <1>2, <3>2, PushAround
    <3> QED
      BY <1>2, <3>1, <3>3
  <2> QED
    BY <1>2, <2>1, <2>2, <2>3, <2>4, QueueMoves
<1>6. Range(Pending') \subseteq Around
  <2>1. CASE UNCHANGED <<ring, rd, wr>>
    BY <1>2, <2>1, PendingKept
  <2>2. CASE Pack
    <3>1. Pending' = Append(Pending, hold[Flush])
      BY <1>1, <2>2, PendingPush
    <3>2. hold[Flush] \in Seq(Logs) /\ hold[Flush] \in Around
      BY <1>1, <1>2, ConstantTypes
    <3> QED
      BY <1>1, <1>2, <3>1, <3>2, PushAround
  <2>3. CASE SendParam \/ SendDirect
    BY <1>1, <1>2, <2>3, PendingPop, QueueRange
  <2> QED
    BY <2>1, <2>2, <2>3, QueueMoves
<1>7. Range(senderQ') \subseteq Around
  <2>1. CASE \E t \in RawClients : RawPush(t)
    <3>1. PICK t \in RawClients : RawPush(t)
      BY <2>1
    <3>2. t \in Threads /\ hold[t] \in Seq(Logs)
      BY <1>1, ConstantTypes
    <3>3. senderQ' = senderQ \/ senderQ' = Append(senderQ, hold[t])
      BY <3>1 DEF RawPush
    <3>4. Range(Append(senderQ, hold[t])) \subseteq Around
      BY <1>1, <1>2, <3>2, PushAround
    <3> QED
      BY <1>2, <3>3, <3>4
  <2>2. CASE PushParam
    <3>1. senderQ' = senderQ \/ senderQ' = Append(senderQ, hold[Flush])
      BY <2>2 DEF PushParam
    <3>2. hold[Flush] \in Seq(Logs) /\ hold[Flush] \in Around
      BY <1>1, <1>2, ConstantTypes
    <3>3. Range(Append(senderQ, hold[Flush])) \subseteq Around
      BY <1>1, <1>2, <3>2, PushAround
    <3> QED
      BY <1>2, <3>1, <3>3
  <2>3. CASE (\E t \in SendThreads : SenderPop(t)) \/ DrainSender
    BY <1>1, <1>2, <2>3, QueueRange DEF SenderPop, DrainSender
  <2> QED
    BY <1>2, <2>1, <2>2, <2>3, QueueMoves
<1> QED
  BY <1>4, <1>5, <1>6, <1>7

\* ... and in the threads' hands.
LEMMA HandsAround ==
    ASSUME Inv, Inv', Next, NEW u \in Threads
    PROVE  hold'[u] \in Around \cup Made
<1>1. /\ loggroupQ \in Seq(Seq(Logs)) /\ senderQ \in Seq(Seq(Logs)) /\ Pending \in Seq(Seq(Logs))
      /\ hold \in [Threads -> Seq(Logs)] /\ TypeOK /\ TypeOK' /\ RingBound /\ RingBound'
      /\ nextLog \in Nat \ {0}
  BY PendingType DEF Inv, Control, TypeOK
<1>2. /\ builder \in Around /\ Range(loggroupQ) \subseteq Around /\ Range(Pending) \subseteq Around
      /\ Range(senderQ) \subseteq Around /\ hold[u] \in Around /\ <<>> \in Made
  BY DEF Around, Made
<1>3. CASE hold'[u] = hold[u] \/ hold'[u] = <<>>
  BY <1>2, <1>3
<1>4. CASE u \in Clients /\ ClientStep(u)
  BY <1>2, <1>4 DEF ClientStep, AddRefused, AddAdmitted, AddQueueFull, AddCreate, AddLocked, vars
<1>5. CASE u \in RawClients /\ RawStep(u)
  <2>1. CASE RawBook(u)
    <3>1. nextLog \in Logs /\ hold'[u] = <<nextLog>>
      BY <1>1, <2>1 DEF RawBook, Take, Logs
    <3> QED
      BY <3>1 DEF Made
  <2>2. CASE RawPush(u)
    BY <1>1, <1>2, <2>2 DEF RawPush, Take
  <2> QED
    BY <1>5, <2>1, <2>2 DEF RawStep
<1>6. CASE SendFun(u)
  BY <1>1, <1>2, <1>6 DEF SendFun, SendExit, SendStart, SendDone, SendFailed, Return, Take
<1>7. CASE u \in SendThreads /\ SenderStep(u)
  <2>1. CASE SenderPop(u)
    <3>1. senderQ # <<>> /\ hold'[u] = Head(senderQ)
      BY <1>1, <2>1 DEF SenderPop, Take
    <3> QED
      BY <1>1, <1>2, <3>1, QueueRange
  <2> QED
    BY <1>2, <1>7, <2>1 DEF SenderStep, SenderLoop, SenderPopTimeout
<1>8. CASE u = Flush /\ FlushStep
  <2>1. CASE DrainPop
    <3>1. loggroupQ # <<>> /\ hold'[u] = Head(loggroupQ)
      BY <1>1, <1>8, <2>1 DEF DrainPop, Take
    <3> QED
      BY <1>1, <1>2, <3>1, QueueRange
  <2>2. CASE TryTake
    BY <1>1, <1>2, <1>8, <2>2 DEF TryTake, Take
  <2>3. CASE SendParam \/ SendDirect
    <3>1. Pending # <<>> /\ hold'[u] = Head(Pending)
      BY <1>1, <1>8, <2>3, PendingPop DEF SendParam, SendDirect, Take
    <3> QED
      BY <1>1, <1>2, <3>1, QueueRange
  <2>4. CASE Pack \/ PackFailed \/ TryPush \/ TryWrite \/ PushParam
    BY <1>1, <1>2, <1>8, <2>4 DEF Pack, PackFailed, TryPush, TryWrite, PushParam, Take
  <2> QED
    BY <1>2, <1>8, <2>1, <2>2, <2>3, <2>4
       DEF FlushStep, FlushLoop, DrainEnd, Unbook, TrySkip, TryRead, SendEnd
<1>9. CASE u = Destroyer /\ (PushLast \/ DestroyStep)
  <2>1. CASE DrainSender
    <3>1. senderQ # <<>> /\ hold'[u] = Head(senderQ)
      BY <1>1, <1>9, <2>1 DEF DrainSender, Take
    <3> QED
      BY <1>1, <1>2, <3>1, QueueRange
  <2> QED
    BY <1>2, <1>9, <2>1 DEF PushLast, DestroyStep, WaitGroups, WaitParams, WaitSender,
       WaitTimeout, WaitOperand, Shutdown, JoinFlush, JoinSend, FreeTail
<1> QED
  BY <1>1, <1>3, <1>4, <1>5, <1>6, <1>7, <1>8, <1>9, Moves

\* A log that has not been counted was so before, or is new.
LEMMA BareBefore ==
    ASSUME Inv, Next, ~Unbook, NEW l \in Logs, Bare(l)'
    PROVE  Bare(l) \/ l = nextLog
<1>1. /\ builder \in Seq(Logs) /\ loggroupQ \in Seq(Seq(Logs)) /\ hold[Flush] \in Seq(Logs)
      /\ Flush \in Threads /\ pc \in [Threads -> PCs] /\ hold \in [Threads -> Seq(Logs)]
      /\ nextLog \in Nat \ {0} /\ TypeOK
  BY ConstantTypes DEF Inv, TypeOK
<1>2. ASSUME NEW c \in Clients, AddLocked(c)
      PROVE  /\ Append(builder, nextLog) \in Seq(Logs)
             /\ Range(Append(builder, nextLog)) = Range(builder) \cup {nextLog}
             /\ builder' \in {<<>>, Append(builder, nextLog)}
             /\ loggroupQ' \in {loggroupQ, Append(loggroupQ, Append(builder, nextLog))}
  <2>1. nextLog \in Logs
    BY <1>1, <1>2 DEF AddLocked, Logs
  <2> QED
    BY <1>1, <1>2, <2>1, SeqTypes, RangeSeq DEF AddLocked
<1>3. CASE l \in Range(builder')
  <2>1. CASE \E c \in Clients : AddLocked(c)
    BY <1>2, <1>3, <2>1, RangeSeq DEF Bare
  <2>2. CASE TryTake \/ PushLast
    <3>1. builder' = <<>>
      BY <2>2 DEF TryTake, PushLast
    <3> QED
      BY <1>3, <3>1, RangeSeq
  <2> QED
    BY <1>3, <2>1, <2>2, QueueMoves DEF Bare
<1>4. CASE InQueue(loggroupQ', l)
  <2>1. CASE \E c \in Clients : AddLocked(c)
    <3>1. PICK c \in Clients : AddLocked(c)
      BY <2>1
    <3>2. InQueue(Append(loggroupQ, Append(builder, nextLog)), l)
            => InQueue(loggroupQ, l) \/ l \in Range(Append(builder, nextLog))
      BY <1>1, <1>2, <3>1, AppendIn
    <3> QED
      BY <1>2, <1>4, <3>1, <3>2 DEF Bare
  <2>2. CASE TryPush
    <3>1. InQueue(Append(loggroupQ, hold[Flush]), l) => InQueue(loggroupQ, l) \/ l \in Range(hold[Flush])
      BY <1>1, AppendIn
    <3> QED
      BY <1>4, <2>2, <3>1 DEF TryPush, Bare, Holds
  <2>3. CASE DrainPop
    <3>1. loggroupQ # <<>> /\ InQueue(Tail(loggroupQ), l)
      BY <1>4, <2>3 DEF DrainPop
    <3> QED
      BY <1>1, <3>1, InTail DEF Bare
  <2>4. CASE PushLast
    <3>1. InQueue(Append(loggroupQ, builder), l) => InQueue(loggroupQ, l) \/ l \in Range(builder)
      BY <1>1, AppendIn
    <3> QED
      BY <1>4, <2>4, <3>1 DEF PushLast, Bare
  <2> QED
    BY <1>4, <2>1, <2>2, <2>3, <2>4, QueueMoves DEF Bare
<1>5. CASE Holds(Flush, {"unbook", "tryPush"}, l)'
  <2>1. pc'[Flush] \in {"unbook", "tryPush"} /\ l \in Range(hold'[Flush])
    BY <1>5 DEF Holds
  <2>2. CASE pc'[Flush] = pc[Flush] /\ hold'[Flush] = hold[Flush]
    BY <2>1, <2>2 DEF Bare, Holds
  <2>3. CASE DrainPop
    <3>1. loggroupQ # <<>> /\ l \in Range(Head(loggroupQ))
      BY <1>1, <2>1, <2>3 DEF DrainPop, Take
    <3> QED
      BY <1>1, <3>1, InTail DEF Bare
  <2>4. CASE TryTake
    BY <1>1, <2>1, <2>4 DEF TryTake, Take, Bare
  <2>5. CASE FlushStep /\ ~DrainPop /\ ~TryTake
    BY <1>1, <2>1, <2>5 DEF FlushStep, FlushLoop, DrainEnd, Pack, PackFailed, TrySkip, TryPush,
       TryRead, TryWrite, SendParam, PushParam, SendDirect, SendEnd, Take, Goto
  <2>6. CASE SendFun(Flush)
    BY <1>1, <2>1, <2>6, ConstantTypes DEF SendFun, SendExit, SendStart, SendDone, SendFailed,
       Return, Take, Goto
  <2> QED
    BY <1>1, <2>2, <2>3, <2>4, <2>5, <2>6, FlushMoves
<1> QED
  BY <1>3, <1>4, <1>5 DEF Bare

\* The step that counts a package gives its logs, and no others, the new index.
LEMMA UnbookUnbroken ==
    ASSUME Inv, Homes, Indexed, Unbroken, Unbook
    PROVE  Unbroken'
<1> DEFINE h == Range(hold[Flush])
<1>1. /\ Flush \in Threads /\ pc[Flush] = "unbook" /\ pc'[Flush] = "pack"
      /\ UNCHANGED <<builder, loggroupQ, senderQ, hold>> /\ Pending' = Pending
      /\ packIndex \in Nat /\ packOf \in [Logs -> Nat]
      /\ packOf' = [l \in Logs |-> IF l \in h THEN packIndex + 1 ELSE packOf[l]]
  BY PendingKept, ConstantTypes DEF Unbook, Goto, Inv, TypeOK
<1>2. /\ \A l \in h : l \in Logs
      /\ \A l \in h : l \notin Range(builder) /\ ~InQueue(loggroupQ, l)
      /\ \A l \in h : ~InQueue(senderQ, l) /\ ~InQueue(Pending, l)
      /\ \A l \in h, u \in Threads : u # Flush /\ pc[u] \notin Booked => l \notin Range(hold[u])
  BY <1>1, InHandOnly DEF Booked
<1>3. \A u \in Threads : u # Flush => pc[u] \notin Booked
  BY DEF Inv, Control, Placed, PCsOf, FlushPCs, DestroyerPCs, SenderPCs, CallerPCs, Booked
<1>4. ASSUME NEW g \in Around, NEW a \in h, a \in Range(g) PROVE g = hold[Flush]
  <2>1. \A q : g \in Range(q) => InQueue(q, a)
    BY <1>4 DEF Range, InQueue
  <2>2. g # builder /\ g \notin Range(loggroupQ) /\ g \notin Range(Pending) /\ g \notin Range(senderQ)
    BY <1>2, <1>4, <2>1
  <2>3. PICK u \in Threads : g = hold[u]
    BY <2>2 DEF Around
  <2>4. u = Flush
    BY <1>2, <1>3, <1>4, <2>3
  <2> QED
    BY <2>3, <2>4
<1>5. Around' = Around
  BY <1>1 DEF Around
<1>6. \A l \in Logs : packOf[l] <= packIndex /\ packOf[l] \in Nat
  BY <1>1 DEF Indexed
<1>7. \A g \in Around : Range(g) \subseteq Logs
  <2>1. /\ builder \in Seq(Logs) /\ loggroupQ \in Seq(Seq(Logs)) /\ senderQ \in Seq(Seq(Logs))
        /\ Pending \in Seq(Seq(Logs)) /\ hold \in [Threads -> Seq(Logs)]
    BY PendingType DEF Inv, Control, TypeOK
  <2>2. \A q \in Seq(Seq(Logs)) : \A g \in Range(q) : g \in Seq(Logs)
    BY LenProperties DEF Range
  <2>3. \A g \in Around : g \in Seq(Logs)
    BY <2>1, <2>2 DEF Around
  <2> QED
    BY <2>1, <2>3, InLogs
<1>8. ASSUME NEW g \in Around PROVE SamePack(g)'
  <2> SUFFICES ASSUME NEW a \in Range(g), NEW l \in Logs, packOf'[a] > 0
               PROVE  packOf'[l] = packOf'[a] <=> l \in Range(g)
    BY DEF SamePack
  <2>1. a \in Logs
    BY <1>7
  <2>2. CASE a \in h
    <3>1. packOf'[a] = packIndex + 1 /\ g = hold[Flush]
      BY <1>1, <1>4, <2>1, <2>2
    <3>2. packOf'[l] = packIndex + 1 <=> l \in h
      BY <1>1, <1>6
    <3> QED
      BY <3>1, <3>2
  <2>3. CASE a \notin h
    <3>1. packOf'[a] = packOf[a] /\ packOf[a] # packIndex + 1
      BY <1>1, <1>6, <2>1, <2>3
    <3>2. packOf[l] = packOf[a] <=> l \in Range(g)
      BY <3>1 DEF Unbroken, SamePack
    <3>3. CASE l \in h
      <4>1. l \notin Range(g)
        BY <1>4, <2>3, <3>3
      <4>2. packOf'[l] = packIndex + 1
        BY <1>1, <3>3
      <4> QED
        BY <3>1, <4>1, <4>2
    <3>4. CASE l \notin h
      BY <1>1, <3>1, <3>2, <3>4
    <3> QED
      BY <3>3, <3>4
  <2> QED
    BY <2>2, <2>3
<1>9. ASSUME NEW l \in Logs, Bare(l)' PROVE packOf'[l] = 0
  <2>1. l \in Range(builder) \/ InQueue(loggroupQ, l)
    BY <1>1, <1>9 DEF Bare, Holds
  <2>2. l \notin h /\ packOf[l] = 0
    BY <1>2, <2>1 DEF Unbroken, Bare
  <2> QED
    BY <1>1, <2>2
<1> QED
  BY <1>5, <1>8, <1>9 DEF Unbroken

\* Every step keeps the packages whole.
LEMMA StepUnbroken == Inv /\ Homes /\ Indexed /\ Unbroken /\ [Next]_vars => Unbroken'
<1> SUFFICES ASSUME Inv, Homes, Indexed, Unbroken, [Next]_vars PROVE Unbroken'
  OBVIOUS
<1>1. Inv'
  BY StepInv
<1>2. CASE UNCHANGED vars
  <2>1. Pending' = Pending /\ UNCHANGED <<builder, loggroupQ, senderQ, hold, pc, packOf>>
    BY <1>2, PendingKept DEF vars, queues, ghosts
  <2>2. Around' = Around
    BY <2>1 DEF Around
  <2>3. \A l \in Logs : Bare(l)' => Bare(l)
    BY <2>1 DEF Bare, Holds
  <2> QED
    BY <2>1, <2>2, <2>3 DEF Unbroken, SamePack
<1>3. CASE Unbook
  BY <1>3, UnbookUnbroken
<1>4. CASE Next /\ ~Unbook
  <2>1. UNCHANGED packOf /\ builder \in Seq(Logs)
    BY <1>4, PackMoves DEF Inv, TypeOK
  <2>2. nextLog \in Logs => packOf[nextLog] = 0
    <3>1. nextLog \in Logs => fate[nextLog] = "new"
      BY DEF Homes, Fresh, Inv, TypeOK, Logs
    <3> QED
      BY <3>1 DEF Indexed
  <2>3. ASSUME NEW g \in Made PROVE SamePack(g)
    <3>1. CASE g = <<>>
      BY <3>1, RangeSeq DEF SamePack
    <3>2. CASE nextLog \in Logs /\ g \in {<<nextLog>>, Append(builder, nextLog)}
      <4>1. Range(g) \subseteq Range(builder) \cup {nextLog}
        BY <2>1, <3>2, RangeSeq
      <4>2. Range(builder) \subseteq Logs
        <5>1. <<>> \in Seq(Seq(Logs))
          OBVIOUS
        <5> QED
          BY <2>1, <5>1, InLogs
      <4>3. \A a \in Range(g) : packOf[a] = 0
        BY <2>2, <3>2, <4>1, <4>2 DEF Unbroken, Bare
      <4> QED
        BY <4>3 DEF SamePack
    <3> QED
      BY <3>1, <3>2 DEF Made
  <2>4. Around' \subseteq Around \cup Made
    <3>1. \A u \in Threads : hold'[u] \in Around \cup Made
      BY <1>1, <1>4, HandsAround
    <3>2. /\ builder' \in Around \cup Made /\ Range(loggroupQ') \subseteq Around \cup Made
          /\ Range(Pending') \subseteq Around /\ Range(senderQ') \subseteq Around
      BY <1>1, <1>4, QueuesAround
    <3>3. ASSUME NEW g \in Around' PROVE g \in Around \cup Made
      <4>1. \/ g = builder' \/ g \in Range(loggroupQ') \/ g \in Range(Pending')
            \/ g \in Range(senderQ') \/ \E u \in Threads : g = hold'[u]
        BY <3>3 DEF Around
      <4> QED
        BY <3>1, <3>2, <4>1
    <3> QED
      BY <3>3
  <2>5. \A g \in Around' : SamePack(g)'
    BY <2>1, <2>3, <2>4 DEF Unbroken, SamePack
  <2>6. \A l \in Logs : Bare(l)' => packOf'[l] = 0
    BY <1>4, <2>1, <2>2, BareBefore DEF Unbroken
  <2> QED
    BY <2>5, <2>6 DEF Unbroken
<1> QED
  BY <1>2, <1>3, <1>4

\* In the first states there is no package.
LEMMA InitUnbroken == Init => Unbroken
<1> SUFFICES ASSUME Init PROVE Unbroken
  OBVIOUS
<1>1. /\ \A l \in Logs : packOf[l] = 0
      /\ builder = <<>> /\ loggroupQ = <<>> /\ senderQ = <<>> /\ DOMAIN Pending = {}
      /\ \A t \in Threads : hold[t] = <<>>
  BY DEF Init, Pending
<1>2. \A g \in Around : g = <<>>
  BY <1>1, RangeSeq DEF Around, Range
<1> QED
  BY <1>1, <1>2, RangeSeq DEF Unbroken, SamePack

\* A group that meets a fate, as LogDelivery sees it.
LEMMA MeetBecomes ==
    ASSUME NEW g, NEW f, fate' = Meet(g, f), UNCHANGED <<packOf, packIndex, shutdown>>
    PROVE  Delivery!Become(Range(g), f)
  BY DEF Meet, Delivery!Become

\* A group in a thread's hands, and the builder, are what LogDelivery can give a fate.
LEMMA HandWhole ==
    ASSUME Inv, Homes, Unbroken, NEW t \in Threads, pc[t] \notin Booked
    PROVE  Range(hold[t]) \in SUBSET Logs /\ Delivery!Whole(Range(hold[t]))
<1>1. \A l \in Range(hold[t]) : l \in Logs /\ fate[l] = "held"
  BY InHandOnly
<1>2. SamePack(hold[t])
  BY DEF Unbroken, Around
<1> QED
  BY <1>1, <1>2 DEF SamePack, Delivery!Whole, Delivery!Held

LEMMA BuilderWhole ==
    ASSUME Inv, Homes, Unbroken
    PROVE  Range(builder) \in SUBSET Logs /\ Delivery!Whole(Range(builder))
<1>1. \A l \in Range(builder) : l \in Logs /\ fate[l] = "held"
  BY BuilderHeld
<1>2. SamePack(builder)
  BY DEF Unbroken, Around
<1> QED
  BY <1>1, <1>2 DEF SamePack, Delivery!Whole, Delivery!Held

\* The next log is new, and a call that accepts it finds the producer open.
LEMMA NextIsNew ==
    ASSUME Inv, Homes, nextLog <= MaxLogs
    PROVE  nextLog \in Logs /\ fate[nextLog] = "new"
  BY ConstantTypes DEF Inv, TypeOK, Homes, Fresh, Logs

LEMMA OpenInCalls ==
    ASSUME Inv
    PROVE  /\ Running => ~shutdown
           /\ \A c \in Clients : pc[c] \in Adding => ~shutdown
  BY DEF Adding, Inv, Control, Joined, Running, Stopping

\* A log that is accepted, or that is dropped with the builder it was put to.
LEMMA AddDelivers == ASSUME Inv, Homes, Unbroken, NEW c \in Clients, AddLocked(c) PROVE Delivery!Next
<1>1. /\ nextLog \in Logs /\ fate[nextLog] = "new" /\ ~shutdown
      /\ UNCHANGED <<packOf, packIndex, shutdown>> /\ builder \in Seq(Logs)
  BY NextIsNew, OpenInCalls DEF Adding, AddLocked, ghosts, Inv, TypeOK
<1>2. CASE fate' = [fate EXCEPT ![nextLog] = "held"]
  <2>1. fate' = [l \in Logs |-> IF l \in {nextLog} THEN "held" ELSE fate[l]]
    BY <1>2 DEF Inv, TypeOK
  <2>2. Delivery!Accept(nextLog)
    BY <1>1, <2>1 DEF Delivery!Accept, Delivery!Become
  <2> QED
    BY <1>1, <2>2 DEF Delivery!Next
<1>3. CASE fate' = Meet(Append(builder, nextLog), "dropped")
  <2>1. Delivery!Become(Range(builder) \cup {nextLog}, "dropped")
    <3>1. Range(Append(builder, nextLog)) = Range(builder) \cup {nextLog}
      BY <1>1, RangeSeq
    <3>2. Delivery!Become(Range(Append(builder, nextLog)), "dropped")
      BY <1>1, <1>3, MeetBecomes
    <3> QED
      BY <3>1, <3>2
  <2>2. Delivery!Reject(nextLog, Range(builder))
    BY <1>1, <2>1, BuilderWhole DEF Delivery!Reject
  <2> QED
    BY <1>1, <2>2, BuilderWhole DEF Delivery!Next
<1> QED
  BY <1>2, <1>3 DEF AddLocked

\* A raw buffer that is accepted, ...
LEMMA RawDelivers == ASSUME Inv, Homes, NEW c \in RawClients, RawBook(c) PROVE Delivery!Next
<1>1. /\ nextLog \in Logs /\ fate[nextLog] = "new" /\ ~shutdown
      /\ UNCHANGED <<packOf, packIndex, shutdown>>
  BY NextIsNew, OpenInCalls DEF RawBook, queues, ghosts
<1>2. fate' = [l \in Logs |-> IF l \in {nextLog} THEN "held" ELSE fate[l]]
  BY DEF RawBook, Inv, TypeOK
<1>3. Delivery!Accept(nextLog)
  BY <1>1, <1>2 DEF Delivery!Accept, Delivery!Become
<1> QED
  BY <1>1, <1>3 DEF Delivery!Next

\* ... and a group that a thread lays down for good.
LEMMA LostDelivers ==
    ASSUME Inv, Homes, Unbroken, NEW t \in Threads, pc[t] \notin Booked,
           NEW f \in {"dropped", "leaked"}, fate' = Meet(hold[t], f),
           UNCHANGED <<packOf, packIndex, shutdown>>
    PROVE  Delivery!Next
  BY MeetBecomes, HandWhole DEF Delivery!Lose, Delivery!Next

LEMMA SendFunDelivers ==
    ASSUME Inv, Homes, Unbroken, NEW t \in Threads, SendFun(t)
    PROVE  Delivery!Next \/ UNCHANGED <<fate, packOf, packIndex, shutdown>>
<1>1. UNCHANGED <<packOf, packIndex, shutdown>>
  BY DEF SendFun, SendExit, SendStart, SendDone, SendFailed, queues, ghosts
<1>2. CASE SendExit(t)
  <2>1. pc[t] \notin Booked /\ shutdown /\ fate' = Meet(hold[t], "buffered")
    BY <1>2 DEF SendExit, Booked
  <2> QED
    BY <1>1, <2>1, MeetBecomes, HandWhole DEF Delivery!Report, Delivery!Next
<1>3. CASE SendDone(t)
  <2>1. pc[t] \notin Booked
    BY <1>3 DEF SendDone, Booked
  <2>2. PICK f \in {"sent", "discarded"} : fate' = Meet(hold[t], f)
    BY <1>3 DEF SendDone
  <2> QED
    BY <1>1, <2>1, <2>2, MeetBecomes, HandWhole DEF Delivery!Answer, Delivery!Next
<1>4. CASE SendStart(t) \/ SendFailed(t)
  BY <1>1, <1>4 DEF SendStart, SendFailed
<1> QED
  BY <1>2, <1>3, <1>4 DEF SendFun

\* The step that counts a package numbers it.
LEMMA UnbookDelivers == ASSUME Inv, Homes, Unbroken, Unbook PROVE Delivery!Next
<1> DEFINE G == Range(hold[Flush])
<1>1. Flush \in Threads /\ pc[Flush] = "unbook" /\ pc[Flush] \notin Booked
  BY ConstantTypes DEF Unbook, Booked
<1>2. G \in SUBSET Logs /\ G \subseteq Delivery!Held
  BY <1>1, HandWhole DEF Delivery!Whole
<1>3. \A l \in G : packOf[l] = 0
  BY <1>1, <1>2 DEF Unbroken, Bare, Holds
<1>4. Delivery!Number(G)
  BY <1>2, <1>3 DEF Unbook, Delivery!Number
<1> QED
  BY <1>2, <1>4 DEF Delivery!Next

\* Every step of the producer is a step of LogDelivery, or one it does not see.
LEMMA StepDelivers ==
    ASSUME Inv, Homes, Unbroken, Next
    PROVE  Delivery!Next \/ UNCHANGED <<fate, packOf, packIndex, shutdown>>
<1>1. CASE \E c \in Clients : ClientStep(c)
  <2>1. PICK c \in Clients : ClientStep(c)
    BY <1>1
  <2>2. CASE AddLocked(c)
    BY <2>2, AddDelivers
  <2>3. CASE AddRefused(c) \/ AddAdmitted(c) \/ AddQueueFull(c) \/ AddCreate(c)
    BY <2>3 DEF AddRefused, AddAdmitted, AddQueueFull, AddCreate, queues, ghosts, vars
  <2> QED
    BY <2>1, <2>2, <2>3 DEF ClientStep
<1>2. CASE \E c \in RawClients : RawStep(c)
  <2>1. PICK c \in RawClients : RawStep(c)
    BY <1>2
  <2>2. CASE RawBook(c)
    BY <2>2, RawDelivers
  <2>3. CASE RawPush(c)
    <3>1. /\ c \in Threads /\ pc[c] \notin Booked /\ UNCHANGED <<packOf, packIndex, shutdown>>
          /\ UNCHANGED fate \/ fate' = Meet(hold[c], "leaked")
      BY <2>3, ConstantTypes DEF RawPush, Booked, ghosts
    <3> QED
      BY <3>1, LostDelivers
  <2> QED
    BY <2>1, <2>2, <2>3 DEF RawStep
<1>3. CASE \E t \in Threads : SendFun(t)
  BY <1>3, SendFunDelivers
<1>4. CASE \E t \in SendThreads : SenderStep(t)
  BY <1>4 DEF SenderStep, SenderLoop, SenderPop, SenderPopTimeout, queues, ghosts
<1>5. CASE FlushStep
  <2>1. CASE Unbook
    BY <2>1, UnbookDelivers
  <2>2. CASE PackFailed \/ TryPush \/ PushParam
    <3>1. /\ Flush \in Threads /\ pc[Flush] \notin Booked
          /\ UNCHANGED <<packOf, packIndex, shutdown>>
          /\ \/ UNCHANGED fate
             \/ fate' = Meet(hold[Flush], "dropped") \/ fate' = Meet(hold[Flush], "leaked")
      BY <2>2, ConstantTypes DEF PackFailed, TryPush, PushParam, Booked, queues, ghosts
    <3> QED
      BY <3>1, LostDelivers
  <2>3. CASE FlushStep /\ ~Unbook /\ ~PackFailed /\ ~TryPush /\ ~PushParam
    BY <2>3 DEF FlushStep, FlushLoop, DrainPop, DrainEnd, Pack, TryTake, TrySkip, TryRead,
       TryWrite, SendParam, SendDirect, SendEnd, queues, ghosts
  <2> QED
    BY <1>5, <2>1, <2>2, <2>3
<1>6. CASE PushLast
  <2>1. /\ UNCHANGED <<packOf, packIndex, shutdown>>
        /\ UNCHANGED fate \/ fate' = Meet(builder, "dropped")
    BY <1>6 DEF PushLast, ghosts
  <2> QED
    BY <2>1, MeetBecomes, BuilderWhole DEF Delivery!Lose, Delivery!Next
<1>7. CASE Shutdown
  BY <1>7 DEF Shutdown, queues, ghosts, Delivery!Close, Delivery!Next
<1>8. CASE (DestroyStep /\ ~Shutdown) \/ Freed
  BY <1>8 DEF DestroyStep, WaitGroups, WaitParams, WaitSender, WaitTimeout, WaitOperand,
     JoinFlush, JoinSend, DrainSender, FreeTail, Freed, queues, ghosts, vars
<1> QED
  BY <1>1, <1>2, <1>3, <1>4, <1>5, <1>6, <1>7, <1>8 DEF Next

\* The producer implements LogDelivery: whatever the interleaving of clients, flush
\* thread, send threads and destroy, a log is accepted once and before the shutdown, its
\* package gets one index, and is answered, reported or lost as a whole and once.
THEOREM ImplementsDelivery == Spec => DeliverySpec
<1>1. Spec => []Inv
  BY InitInv, StepInv, PTL DEF Spec
<1>2. Spec => []Homes
  BY <1>1, InitHomes, StepHomes, PTL DEF Spec
<1>3. Spec => []Indexed
  <2>1. Spec => [](Indexed /\ Queued)
    BY <1>1, <1>2, InitOrder, StepOrder, PTL DEF Spec
  <2> QED
    BY <2>1, PTL
<1>4. Spec => []Unbroken
  BY <1>1, <1>2, <1>3, InitUnbroken, StepUnbroken, PTL DEF Spec
<1>5. Init => Delivery!Init
  BY DEF Init, Delivery!Init
<1>6. Inv /\ Homes /\ Unbroken /\ [Next]_vars => [Delivery!Next]_Delivery!vars
  <2>1. UNCHANGED vars => UNCHANGED Delivery!vars
    BY DEF vars, queues, ghosts, Delivery!vars
  <2> QED
    BY <2>1, StepDelivers DEF Delivery!vars
<1> QED
  BY <1>1, <1>2, <1>4, <1>5, <1>6, PTL DEF Spec, DeliverySpec, Delivery!Spec

-----------------------------------------------------------------------------
(***************************************************************************)
(* Groups: no log is in one twice, and no group is longer than a package.  *)
(***************************************************************************)
Sized(n) == {g \in Seq(Logs) : Len(g) <= n /\ Cardinality(Range(g)) = Len(g)}
Groups == Sized(LogsPerPackage)
Unfilled == Sized(LogsPerPackage - 1)

\* What is in the builder, and what Flush has taken from there, is not a full package.
Filled ==
    /\ builder \in Unfilled
    /\ loggroupQ \in Seq(Groups) /\ senderQ \in Seq(Groups)
    /\ ring \in [0 .. ParamQueueSize - 1 -> Groups]
    /\ hold \in [Threads -> Groups]
    /\ pc[Flush] \in {"tryPush", "tryRead", "tryWrite"} => hold[Flush] \in Unfilled

\* The groups a step can make.
LEMMA GroupTypes ==
    /\ <<>> \in Groups /\ <<>> \in Unfilled /\ Unfilled \subseteq Groups
    /\ Groups \subseteq Seq(Logs)
    /\ \A l \in Logs : <<l>> \in Groups
    /\ \A g \in Unfilled : \A l \in Logs \ Range(g) :
         /\ Append(g, l) \in Groups
         /\ Len(Append(g, l)) < LogsPerPackage => Append(g, l) \in Unfilled
    /\ \A g \in Groups : /\ IsFiniteSet(Range(g)) /\ Len(g) \in Nat
                         /\ Cardinality(Range(g)) = Len(g) /\ Range(g) \subseteq Logs
<1>1. LogsPerPackage \in Nat \ {0}
  BY SizesAssumption
<1>2. \A g \in Seq(Logs) : Len(g) \in Nat /\ Range(g) \subseteq Logs
  <2>1. <<>> \in Seq(Seq(Logs))
    OBVIOUS
  <2> QED
    BY <2>1, InLogs, LenProperties
<1>3. Groups \subseteq Seq(Logs) /\ Unfilled \subseteq Groups
  BY <1>1, <1>2 DEF Groups, Unfilled, Sized
<1>4. <<>> \in Groups /\ <<>> \in Unfilled
  <2>1. <<>> \in Seq(Logs) /\ Len(<<>>) = 0 /\ Range(<<>>) = {} /\ Cardinality({}) = 0
    BY RangeSeq, SeqTypes, FS_EmptySet
  <2>2. Cardinality(Range(<<>>)) = Len(<<>>)
    BY <2>1
  <2>3. Len(<<>>) <= LogsPerPackage /\ Len(<<>>) <= LogsPerPackage - 1
    BY <1>1, <2>1
  <2> QED
    BY <2>1, <2>2, <2>3 DEF Groups, Unfilled, Sized
<1>5. ASSUME NEW l \in Logs PROVE <<l>> \in Groups
  <2>1. <<l>> \in Seq(Logs) /\ Len(<<l>>) = 1
    BY <1>5
  <2>2. Range(<<l>>) = {l} /\ Cardinality({l}) = 1
    BY RangeSeq, FS_Singleton
  <2> QED
    BY <1>1, <2>1, <2>2 DEF Groups, Sized
<1>6. ASSUME NEW g \in Seq(Logs) PROVE IsFiniteSet(Range(g))
  <2>1. DOMAIN g = 1 .. Len(g) /\ Len(g) \in Nat /\ IsFiniteSet(1 .. Len(g))
    BY LenProperties, FS_Interval
  <2>2. g \in Surjection(DOMAIN g, Range(g))
    BY LenProperties DEF Surjection, Range
  <2> QED
    BY <2>1, <2>2, FS_Surjection
<1>7. ASSUME NEW g \in Unfilled, NEW l \in Logs \ Range(g)
      PROVE  /\ Append(g, l) \in Groups
             /\ Len(Append(g, l)) < LogsPerPackage => Append(g, l) \in Unfilled
  <2>1. /\ g \in Seq(Logs) /\ Len(g) \in Nat /\ Len(g) <= LogsPerPackage - 1
        /\ Cardinality(Range(g)) = Len(g) /\ IsFiniteSet(Range(g))
    BY <1>2, <1>6 DEF Unfilled, Sized
  <2>2. /\ Append(g, l) \in Seq(Logs) /\ Len(Append(g, l)) = Len(g) + 1
        /\ Range(Append(g, l)) = Range(g) \cup {l}
    BY <2>1, RangeSeq, AppendProperties
  <2>3. Cardinality(Range(g) \cup {l}) = Len(g) + 1
    BY <2>1, FS_AddElement
  <2>4. Cardinality(Range(Append(g, l))) = Len(Append(g, l))
    BY <2>2, <2>3
  <2>5. /\ Len(Append(g, l)) <= LogsPerPackage
        /\ Len(Append(g, l)) < LogsPerPackage => Len(Append(g, l)) <= LogsPerPackage - 1
    BY <1>1, <2>1, <2>2
  <2> QED
    BY <2>2, <2>4, <2>5 DEF Groups, Unfilled, Sized
<1>8. \A g \in Groups : Cardinality(Range(g)) = Len(g)
  BY DEF Groups, Sized
<1> QED
  BY <1>2, <1>3, <1>4, <1>5, <1>6, <1>7, <1>8

\* A log that has no number yet is nowhere.
LEMMA NewNowhere ==
    ASSUME Inv, Homes, NEW l \in Logs, l >= nextLog
    PROVE  /\ fate[l] = "new" /\ l \notin Range(builder)
           /\ ~InQueue(loggroupQ, l) /\ ~InQueue(Pending, l) /\ ~InQueue(senderQ, l)
           /\ \A t \in Threads : l \notin Range(hold[t])
<1>1. fate[l] = "new"
  BY DEF Homes, Fresh
<1>2. /\ HeldParts(l)
      /\ InBuilder(l) + InGroups(l) + InRing(l) + InSender(l) + InHands(l) = 0
  BY <1>1, HomesOf
<1>3. /\ InBuilder(l) = 0 /\ InGroups(l) = 0 /\ InRing(l) = 0 /\ InSender(l) = 0
      /\ InHands(l) = 0
  <2>1. \A a, b, c, d, e \in Nat : a + b + c + d + e = 0 => a = 0 /\ b = 0 /\ c = 0 /\ d = 0 /\ e = 0
    OBVIOUS
  <2>2. /\ InBuilder(l) \in Nat /\ InGroups(l) \in Nat /\ InRing(l) \in Nat
        /\ InSender(l) \in Nat /\ InHands(l) \in Nat
    BY <1>2 DEF HeldParts
  <2> QED
    BY <1>2, <2>1, <2>2
<1>4. ASSUME NEW t \in Threads PROVE l \notin Range(hold[t])
  <2>1. CASE pc[t] \notin Booked
    BY <1>2, <1>3, <2>1, HandedIs DEF HeldParts
  <2>2. CASE pc[t] \in Booked
    <3>1. t = Flush
      BY <2>2 DEF Inv, Control, Placed, PCsOf, FlushPCs, DestroyerPCs, SenderPCs, CallerPCs, Booked
    <3>2. ~InQueue(loggroupQ, l)
      BY <1>2, <1>3 DEF HeldParts
    <3> QED
      BY <2>2, <3>1, <3>2 DEF Inv, Booking, Booked
  <2> QED
    BY <2>1, <2>2
<1> QED
  BY <1>1, <1>2, <1>3, <1>4 DEF HeldParts

\* The first states have only empty groups.
LEMMA InitFilled == Init => Filled
<1> SUFFICES ASSUME Init PROVE Filled
  OBVIOUS
<1>1. <<>> \in Seq(Groups) /\ pc[Flush] = "idle"
  BY ConstantTypes DEF Init
<1> QED
  BY <1>1, GroupTypes DEF Init, Filled

\* What the step of a thread takes into its hands is a group.
LEMMA HoldFilled ==
    ASSUME Inv, Inv', Filled, Next
    PROVE  hold' \in [Threads -> Groups]
<1>1. ASSUME NEW q \in Seq(Groups), q # <<>> PROVE Head(q) \in Groups
  BY <1>1, HeadTailProperties
<1>2. ring[rd % ParamQueueSize] \in Groups /\ hold \in [Threads -> Groups]
  BY SlotType DEF Filled, Inv, TypeOK
<1>3. ASSUME NEW u \in Threads PROVE hold'[u] \in Groups
  <2>1. CASE pc'[u] = pc[u] /\ hold'[u] = hold[u]
    BY <1>2, <2>1
  <2>2. ASSUME u \in Clients, ClientStep(u) PROVE hold'[u] \in Groups
    BY <1>2, <2>2 DEF ClientStep, AddRefused, AddAdmitted, AddQueueFull, AddCreate, AddLocked, vars
  <2>3. ASSUME u \in RawClients, RawStep(u) PROVE hold'[u] \in Groups
    <3>1. RawBook(u) => nextLog \in Logs
      BY DEF RawBook, Inv, TypeOK, Logs
    <3> QED
      BY <1>2, <2>3, <3>1, GroupTypes DEF RawStep, RawBook, RawPush, Take
  <2>4. ASSUME SendFun(u) PROVE hold'[u] \in Groups
    BY <1>2, <2>4, GroupTypes DEF SendFun, SendExit, SendStart, SendDone, SendFailed, Return, Take
  <2>5. ASSUME SenderStep(u) PROVE hold'[u] \in Groups
    <3>1. SenderPop(u) => Head(senderQ) \in Groups
      BY <1>1 DEF SenderPop, Filled
    <3> QED
      BY <1>2, <2>5, <3>1 DEF SenderStep, SenderLoop, SenderPop, SenderPopTimeout, Take
  <2>6. ASSUME u = Flush, FlushStep PROVE hold'[u] \in Groups
    <3>1. DrainPop => Head(loggroupQ) \in Groups
      BY <1>1 DEF DrainPop, Filled
    <3>2. builder \in Groups
      BY GroupTypes DEF Filled
    <3> QED
      BY <1>2, <2>6, <3>1, <3>2, GroupTypes
      DEF FlushStep, FlushLoop, DrainPop, DrainEnd, Unbook, Pack, PackFailed,
          TryTake, TrySkip, TryPush, TryRead, TryWrite, SendParam, PushParam, SendDirect,
          SendEnd, Take
  <2>7. ASSUME u = Destroyer, PushLast \/ DestroyStep PROVE hold'[u] \in Groups
    <3>1. DrainSender => Head(senderQ) \in Groups
      BY <1>1 DEF DrainSender, Filled
    <3> QED
      BY <1>2, <2>7, <3>1
      DEF PushLast, DestroyStep, WaitGroups, WaitParams, WaitSender, WaitTimeout, WaitOperand,
          Shutdown, JoinFlush, JoinSend, DrainSender, FreeTail, Take
  <2> QED
    BY <2>1, <2>2, <2>3, <2>4, <2>5, <2>6, <2>7, Moves DEF Inv
<1> QED
  BY <1>3 DEF Inv, TypeOK

\* The group with the log that AddLocked appends.
LEMMA AddFilled ==
    ASSUME Inv, Homes, Filled, NEW c \in Clients, AddLocked(c)
    PROVE  /\ Append(builder, nextLog) \in Groups /\ nextLog \in Logs
           /\ nextLog \notin Range(builder) /\ builder' \in Unfilled
           /\ \/ UNCHANGED loggroupQ
              \/ builder' = <<>> /\ loggroupQ' = Append(loggroupQ, Append(builder, nextLog))
<1>1. nextLog \in Logs /\ nextLog >= nextLog
  BY DEF AddLocked, Inv, TypeOK, Logs
<1>2. nextLog \notin Range(builder)
  BY <1>1, NewNowhere
<1>3. builder' = <<>> \/ (/\ builder' = Append(builder, nextLog)
                          /\ Len(Append(builder, nextLog)) < LogsPerPackage)
  BY DEF AddLocked
<1>4. /\ Append(builder, nextLog) \in Groups /\ builder' \in Unfilled
  BY <1>1, <1>2, <1>3, GroupTypes DEF Filled
<1>5. \/ UNCHANGED loggroupQ
      \/ builder' = <<>> /\ loggroupQ' = Append(loggroupQ, Append(builder, nextLog))
  BY DEF AddLocked
<1> QED
  BY <1>1, <1>2, <1>4, <1>5

\* Every step makes groups of groups.
LEMMA StepFilled == Inv /\ Homes /\ Filled /\ [Next]_vars => Filled'
<1> SUFFICES ASSUME Inv, Homes, Filled, [Next]_vars PROVE Filled'
  OBVIOUS
<1>1. Inv'
  BY StepInv
<1>2. CASE UNCHANGED vars
  BY <1>2 DEF Filled, vars, queues
<1>3. CASE Next
  <2>1. hold' \in [Threads -> Groups] /\ hold \in [Threads -> Groups]
    BY <1>1, <1>3, HoldFilled DEF Filled
  <2>2. ASSUME NEW q \in Seq(Groups), NEW g \in Groups PROVE Append(q, g) \in Seq(Groups)
    BY <2>2, AppendProperties
  <2>3. ASSUME NEW q \in Seq(Groups), q # <<>> PROVE Tail(q) \in Seq(Groups)
    BY <2>3, HeadTailProperties
  <2>4. builder' \in Unfilled
    BY <1>3, QueueMoves, AddFilled, GroupTypes DEF TryTake, PushLast, Filled
  <2>5. loggroupQ' \in Seq(Groups)
    <3>1. CASE UNCHANGED loggroupQ
      BY <3>1 DEF Filled
    <3>2. CASE \E c \in Clients : AddLocked(c)
      BY <2>2, <3>2, AddFilled DEF Filled
    <3>3. CASE TryPush
      BY <2>1, <2>2, <3>3, ConstantTypes DEF TryPush, Filled
    <3>4. CASE DrainPop
      BY <2>3, <3>4 DEF DrainPop, Filled
    <3>5. CASE PushLast
      BY <2>2, <3>5, GroupTypes DEF PushLast, Filled
    <3> QED
      BY <1>3, <3>1, <3>2, <3>3, <3>4, <3>5, QueueMoves
  <2>6. senderQ' \in Seq(Groups)
    <3>1. CASE UNCHANGED senderQ
      BY <3>1 DEF Filled
    <3>2. CASE \E c \in RawClients : RawPush(c)
      BY <2>1, <2>2, <3>2, Kinds DEF RawPush, Filled
    <3>3. CASE PushParam
      BY <2>1, <2>2, <3>3, ConstantTypes DEF PushParam, Filled
    <3>4. CASE (\E t \in SendThreads : SenderPop(t)) \/ DrainSender
      BY <2>3, <3>4 DEF SenderPop, DrainSender, Filled
    <3> QED
      BY <1>3, <3>1, <3>2, <3>3, <3>4, QueueMoves
  <2>7. ring' \in [0 .. ParamQueueSize - 1 -> Groups]
    <3>1. CASE Pack
      BY <2>1, <3>1, ConstantTypes DEF Pack, Filled
    <3>2. CASE UNCHANGED <<ring, rd, wr>> \/ SendParam \/ SendDirect
      BY <3>2 DEF Filled, SendParam, SendDirect
    <3> QED
      BY <1>3, <3>1, <3>2, QueueMoves
  <2>8. pc'[Flush] \in {"tryPush", "tryRead", "tryWrite"} => hold'[Flush] \in Unfilled
    <3>1. pc \in [Threads -> PCs] /\ hold \in [Threads -> Groups] /\ Flush \in Threads
      BY <2>1, ConstantTypes DEF Inv, TypeOK
    <3>2. CASE pc'[Flush] = pc[Flush] /\ hold'[Flush] = hold[Flush]
      BY <3>2 DEF Filled
    <3>3. CASE FlushStep
      BY <3>1, <3>3 DEF FlushStep, FlushLoop, DrainPop, DrainEnd, Unbook, Pack, PackFailed,
         TryTake, TrySkip, TryPush, TryRead, TryWrite, SendParam, PushParam, SendDirect,
         SendEnd, Take, Goto, Filled
    <3>4. CASE SendFun(Flush)
      BY <3>1, <3>4, ConstantTypes DEF SendFun, SendExit, SendStart, SendDone, SendFailed,
         Return, Take, Goto
    <3> QED
      BY <1>3, <3>2, <3>3, <3>4, FlushMoves DEF Inv
  <2> QED
    BY <2>1, <2>4, <2>5, <2>6, <2>7, <2>8 DEF Filled
<1> QED
  BY <1>2, <1>3

-----------------------------------------------------------------------------
(***************************************************************************)
(* What totalBufferSize counts                                             *)
(***************************************************************************)
\* The places of the hands whose logs' compressed size is counted, and the fates.
Zipping == {"raw", "pushParam", "check", "post"}
Stuck == {"buffered", "leaked"}

\* A step adds n bytes to what is to be counted, and to totalBufferSize.
Books(n) == /\ BookedBytes \in Int /\ BookedBytes' = BookedBytes + n
            /\ total' = (total + n) % Width

LEMMA BookedType ==
    /\ IsFiniteSet(RawBooked) /\ IsFiniteSet(ZipBooked)
    /\ Cardinality(RawBooked) \in Nat /\ Cardinality(ZipBooked) \in Nat /\ BookedBytes \in Nat
<1>1. IsFiniteSet(Logs)
  BY FS_Interval, SizesAssumption DEF Logs
<1>2. RawBooked \in SUBSET Logs /\ ZipBooked \in SUBSET Logs
  BY DEF RawBooked, ZipBooked
<1>3. IsFiniteSet(RawBooked) /\ IsFiniteSet(ZipBooked)
  BY <1>1, <1>2, FS_Subset
<1>4. Cardinality(RawBooked) \in Nat /\ Cardinality(ZipBooked) \in Nat
  BY <1>3, FS_CardinalityType
<1>5. \A a, b \in Nat : LogSize * a + ZipSize * b \in Nat
  BY ConstantTypes
<1> QED
  BY <1>3, <1>4, <1>5 DEF BookedBytes

\* Nothing is booked, ...
LEMMA BooksNothing ==
    ASSUME TypeOK, UNCHANGED total, RawBooked' = RawBooked, ZipBooked' = ZipBooked
    PROVE  Books(0)
<1>1. BookedBytes' = BookedBytes /\ BookedBytes \in Nat
  BY BookedType DEF BookedBytes
<1>2. total' = (total + 0) % Width
  <2>1. \A w \in Nat \ {0} : \A x \in 0 .. w - 1 : (x + 0) % w = x
    OBVIOUS
  <2> QED
    BY <2>1, ConstantTypes DEF TypeOK
<1> QED
  BY <1>1, <1>2 DEF Books

\* ... a group is booked or taken off with its size, or with its compressed size.
LEMMA BooksGroup ==
    ASSUME NEW g \in Groups
    PROVE  /\ RawBooked' = RawBooked \cup Range(g) /\ RawBooked \cap Range(g) = {}
              /\ ZipBooked' = ZipBooked /\ Plus(RawBytes(g))
                => Books(RawBytes(g))
           /\ RawBooked = RawBooked' \cup Range(g) /\ RawBooked' \cap Range(g) = {}
              /\ ZipBooked' = ZipBooked /\ Plus(-RawBytes(g))
                => Books(-RawBytes(g))
           /\ ZipBooked' = ZipBooked \cup Range(g) /\ ZipBooked \cap Range(g) = {}
              /\ RawBooked' = RawBooked /\ Plus(ZipBytes(g))
                => Books(ZipBytes(g))
           /\ ZipBooked = ZipBooked' \cup Range(g) /\ ZipBooked' \cap Range(g) = {}
              /\ RawBooked' = RawBooked /\ Plus(-ZipBytes(g))
                => Books(-ZipBytes(g))
<1>1. IsFiniteSet(Range(g)) /\ Cardinality(Range(g)) = Len(g) /\ Len(g) \in Nat
  BY GroupTypes
<1>2. /\ IsFiniteSet(RawBooked) /\ IsFiniteSet(ZipBooked)
      /\ Cardinality(RawBooked) \in Nat /\ Cardinality(ZipBooked) \in Nat /\ BookedBytes \in Int
  BY BookedType
<1>3. /\ IsFiniteSet(RawBooked') /\ IsFiniteSet(ZipBooked')
      /\ Cardinality(RawBooked') \in Nat /\ Cardinality(ZipBooked') \in Nat
  <2>1. (/\ IsFiniteSet(RawBooked) /\ IsFiniteSet(ZipBooked)
         /\ Cardinality(RawBooked) \in Nat /\ Cardinality(ZipBooked) \in Nat)'
    BY BookedType, PTL
  <2> QED
    BY <2>1
<1>4. \A a, b, n \in Nat : /\ LogSize * (a + n) + ZipSize * b = (LogSize * a + ZipSize * b) + LogSize * n
                           /\ LogSize * a + ZipSize * (b + n) = (LogSize * a + ZipSize * b) + ZipSize * n
                           /\ LogSize * a + ZipSize * b \in Nat /\ LogSize * n \in Nat /\ ZipSize * n \in Nat
  BY ConstantTypes
<1>5. ASSUME NEW S, NEW T, IsFiniteSet(S), T = S \cup Range(g), S \cap Range(g) = {}
      PROVE  Cardinality(T) = Cardinality(S) + Len(g)
  BY <1>1, <1>5, Disjoint
<1>6. /\ BookedBytes = LogSize * Cardinality(RawBooked) + ZipSize * Cardinality(ZipBooked)
      /\ BookedBytes' = LogSize * Cardinality(RawBooked') + ZipSize * Cardinality(ZipBooked')
  BY DEF BookedBytes
<1>7. ASSUME RawBooked' = RawBooked \cup Range(g), RawBooked \cap Range(g) = {},
             ZipBooked' = ZipBooked, Plus(RawBytes(g))
      PROVE  Books(RawBytes(g))
  <2>1. Cardinality(RawBooked') = Cardinality(RawBooked) + Len(g)
    BY <1>2, <1>5, <1>7
  <2>2. BookedBytes' = BookedBytes + LogSize * Len(g)
    BY <1>1, <1>2, <1>4, <1>6, <1>7, <2>1
  <2> QED
    BY <1>2, <1>7, <2>2 DEF Books, Plus, RawBytes
<1>8. ASSUME RawBooked = RawBooked' \cup Range(g), RawBooked' \cap Range(g) = {},
             ZipBooked' = ZipBooked, Plus(-RawBytes(g))
      PROVE  Books(-RawBytes(g))
  <2>1. Cardinality(RawBooked) = Cardinality(RawBooked') + Len(g)
    BY <1>3, <1>5, <1>8
  <2>2. BookedBytes = BookedBytes' + LogSize * Len(g) /\ BookedBytes' \in Nat /\ LogSize * Len(g) \in Nat
    <3> DEFINE r == Cardinality(RawBooked')  z == Cardinality(ZipBooked')  n == Len(g)
    <3>1. r \in Nat /\ z \in Nat /\ n \in Nat
      BY <1>1, <1>3
    <3>2. BookedBytes' = LogSize * r + ZipSize * z
      BY <1>6
    <3>3. BookedBytes = LogSize * (r + n) + ZipSize * z
      BY <1>6, <1>8, <2>1
    <3> HIDE DEF r, z, n
    <3>4. BookedBytes = BookedBytes' + LogSize * n /\ BookedBytes' \in Nat /\ LogSize * n \in Nat
      <4>1. LogSize * r + ZipSize * z \in Nat /\ LogSize * n \in Nat
            /\ LogSize * (r + n) + ZipSize * z = (LogSize * r + ZipSize * z) + LogSize * n
        BY <1>4, <3>1
      <4> QED
        BY <3>2, <3>3, <4>1
    <3> QED
      BY <3>4 DEF n
  <2>3. BookedBytes' = BookedBytes + (-(LogSize * Len(g)))
    BY <2>2
  <2> QED
    BY <1>2, <1>8, <2>3 DEF Books, Plus, RawBytes
<1>9. ASSUME ZipBooked' = ZipBooked \cup Range(g), ZipBooked \cap Range(g) = {},
             RawBooked' = RawBooked, Plus(ZipBytes(g))
      PROVE  Books(ZipBytes(g))
  <2>1. Cardinality(ZipBooked') = Cardinality(ZipBooked) + Len(g)
    BY <1>2, <1>5, <1>9
  <2>2. BookedBytes' = BookedBytes + ZipSize * Len(g)
    BY <1>1, <1>2, <1>4, <1>6, <1>9, <2>1
  <2> QED
    BY <1>2, <1>9, <2>2 DEF Books, Plus, ZipBytes
<1>10. ASSUME ZipBooked = ZipBooked' \cup Range(g), ZipBooked' \cap Range(g) = {},
              RawBooked' = RawBooked, Plus(-ZipBytes(g))
       PROVE  Books(-ZipBytes(g))
  <2>1. Cardinality(ZipBooked) = Cardinality(ZipBooked') + Len(g)
    BY <1>3, <1>5, <1>10
  <2>2. BookedBytes = BookedBytes' + ZipSize * Len(g) /\ BookedBytes' \in Nat /\ ZipSize * Len(g) \in Nat
    <3> DEFINE r == Cardinality(RawBooked')  z == Cardinality(ZipBooked')  n == Len(g)
    <3>1. r \in Nat /\ z \in Nat /\ n \in Nat
      BY <1>1, <1>3
    <3>2. BookedBytes' = LogSize * r + ZipSize * z
      BY <1>6
    <3>3. BookedBytes = LogSize * r + ZipSize * (z + n)
      BY <1>6, <1>10, <2>1
    <3> HIDE DEF r, z, n
    <3>4. BookedBytes = BookedBytes' + ZipSize * n /\ BookedBytes' \in Nat /\ ZipSize * n \in Nat
      <4>1. LogSize * r + ZipSize * z \in Nat /\ ZipSize * n \in Nat
            /\ LogSize * r + ZipSize * (z + n) = (LogSize * r + ZipSize * z) + ZipSize * n
        BY <1>4, <3>1
      <4> QED
        BY <3>2, <3>3, <4>1
    <3> QED
      BY <3>4 DEF n
  <2>3. BookedBytes' = BookedBytes + (-(ZipSize * Len(g)))
    BY <2>2
  <2> QED
    BY <1>2, <1>10, <2>3 DEF Books, Plus, ZipBytes
<1> QED
  BY <1>7, <1>8, <1>9, <1>10

\* A push, and a pop, make another queue.
LEMMA OtherLength ==
    /\ \A q \in Seq(Seq(Logs)), g \in Seq(Logs) : Append(q, g) # q
    /\ \A q \in Seq(Seq(Logs)) : q # <<>> => Tail(q) # q
<1>1. ASSUME NEW q \in Seq(Seq(Logs)), NEW g \in Seq(Logs) PROVE Append(q, g) # q
  <2>1. Len(Append(q, g)) = Len(q) + 1 /\ Len(q) \in Nat
    BY <1>1, AppendProperties, LenProperties
  <2> QED
    BY <2>1
<1>2. ASSUME NEW q \in Seq(Seq(Logs)), q # <<>> PROVE Tail(q) # q
  <2>1. Len(Tail(q)) = Len(q) - 1 /\ Len(q) \in Nat
    BY <1>2, HeadTailProperties, LenProperties
  <2> QED
    BY <2>1
<1> QED
  BY <1>1, <1>2

\* Flush's places at which RawBooked looks at its hands.
Weighing == {"unbook", "tryRead", "tryWrite"}

\* RawBooked changes when a group is pushed by a client or by the destroyer, when Flush
\* takes its size off, and when it has added the size of the one it pushed.
LEMMA RawStays ==
    ASSUME Inv, Homes, Next, ~Unbook, ~TryWrite,
           UNCHANGED loggroupQ \/ DrainPop \/ TryPush
    PROVE  RawBooked' = RawBooked
<1>1. pc \in [Threads -> PCs] /\ hold \in [Threads -> Seq(Logs)] /\ Flush \in Threads
      /\ loggroupQ \in Seq(Seq(Logs)) /\ hold[Flush] \in Seq(Logs)
  BY ConstantTypes DEF Inv, TypeOK
<1>2. CASE UNCHANGED loggroupQ
  <2>1. CASE pc'[Flush] = pc[Flush] /\ hold'[Flush] = hold[Flush]
    BY <1>2, <2>1 DEF RawBooked, Holds
  <2>2. CASE pc[Flush] \notin Weighing /\ pc'[Flush] \notin Weighing
    BY <1>2, <2>2 DEF RawBooked, Holds, Weighing
  <2>3. CASE TryRead
    <3>1. /\ pc[Flush] = "tryRead" /\ pc'[Flush] = "tryWrite" /\ hold'[Flush] = hold[Flush]
      BY <1>1, <2>3 DEF TryRead, Goto
    <3> QED
      BY <1>2, <3>1 DEF RawBooked, Holds
  <2>4. SendFun(Flush) => pc[Flush] \notin Weighing /\ pc'[Flush] \notin Weighing
    BY <1>1, ConstantTypes DEF SendFun, SendExit, SendStart, SendDone, SendFailed, Return,
       Take, Goto, Weighing
  <2>5. FlushStep /\ ~TryRead /\ ~DrainPop /\ ~TryPush => pc[Flush] \notin Weighing /\ pc'[Flush] \notin Weighing
    BY <1>1 DEF FlushStep, FlushLoop, DrainEnd, Pack, PackFailed, TryTake, TrySkip,
       SendParam, PushParam, SendDirect, SendEnd, Take, Goto, Weighing
  <2>6. DrainPop => loggroupQ' # loggroupQ
    BY <1>1, OtherLength DEF DrainPop
  <2>7. TryPush => pc[Flush] \notin Weighing /\ pc'[Flush] \notin Weighing
    BY <1>1, <1>2, OtherLength DEF TryPush, Take, Goto, Weighing
  <2> QED
    BY <1>2, <2>1, <2>2, <2>3, <2>4, <2>5, <2>6, <2>7, FlushMoves DEF Inv
<1>3. CASE DrainPop
  <2>1. /\ pc[Flush] = "drain" /\ pc'[Flush] = "unbook" /\ loggroupQ # <<>>
        /\ hold'[Flush] = Head(loggroupQ) /\ loggroupQ' = Tail(loggroupQ)
    BY <1>1, <1>3 DEF DrainPop, Take, Goto
  <2>2. \A l : InQueue(loggroupQ, l) <=> l \in Range(Head(loggroupQ)) \/ InQueue(Tail(loggroupQ), l)
    BY <1>1, <2>1, InTail
  <2> QED
    BY <2>1, <2>2 DEF RawBooked, Holds
<1>4. CASE TryPush /\ loggroupQ' # loggroupQ
  <2>1. /\ pc[Flush] = "tryPush" /\ pc'[Flush] = "tryRead" /\ hold'[Flush] = hold[Flush]
        /\ loggroupQ' = Append(loggroupQ, hold[Flush])
    BY <1>1, <1>4 DEF TryPush, Goto
  <2>2. \A l : InQueue(loggroupQ', l) <=> InQueue(loggroupQ, l) \/ l \in Range(hold[Flush])
    BY <1>1, <2>1, AppendIn
  <2>3. \A l \in Range(hold[Flush]) : ~InQueue(loggroupQ, l)
    BY <1>1, <2>1, InHandOnly DEF Booked
  <2> QED
    BY <2>1, <2>2, <2>3 DEF RawBooked, Holds
<1> QED
  BY <1>2, <1>3, <1>4

\* The hands at a place that ZipBooked looks at are those of the thread that moves, and
\* the others'.
Zipped(t, l) == Holds(t, Zipping, l)

LEMMA ZipIs ==
    ZipBooked = {l \in Logs : \/ fate[l] \in Stuck \/ InQueue(Pending, l) \/ InQueue(senderQ, l)
                              \/ \E t \in Threads : Zipped(t, l)}
  BY DEF ZipBooked, Zipped, Zipping, Stuck

\* ZipBooked after a step, hand by hand.
LEMMA ZipThen ==
    ZipBooked' = {l \in Logs : \/ fate'[l] \in Stuck \/ InQueue(Pending', l) \/ InQueue(senderQ', l)
                               \/ \E t \in Threads : Zipped(t, l)'}
  BY DEF ZipBooked, Zipped, Zipping, Stuck, Holds

LEMMA ZipMove ==
    ASSUME TypeOK, NEW t \in Threads, \E to : Goto(t, to),
           \A u \in Threads \ {t} : hold'[u] = hold[u],
           \A l \in Logs :
             (\/ fate'[l] \in Stuck \/ InQueue(Pending', l) \/ InQueue(senderQ', l)
              \/ Zipped(t, l)' \/ \E u \in Threads \ {t} : Zipped(u, l))
             <=> (\/ fate[l] \in Stuck \/ InQueue(Pending, l) \/ InQueue(senderQ, l)
                  \/ Zipped(t, l) \/ \E u \in Threads \ {t} : Zipped(u, l))
    PROVE  ZipBooked' = ZipBooked
<1>1. \A u \in Threads \ {t} : \A l : Zipped(u, l)' <=> Zipped(u, l)
  BY DEF Goto, TypeOK, Zipped, Holds
<1>2. \A l \in Logs : l \in ZipBooked' <=> l \in ZipBooked
  BY <1>1, ZipThen, ZipIs
<1> QED
  BY <1>2, ZipThen, ZipIs

\* Logs that meet a fate other than that of a stuck one were not stuck.
LEMMA MeetStuck ==
    ASSUME NEW g, NEW f, fate' = Meet(g, f), f \notin Stuck,
           \A l \in Range(g) : l \in Logs => fate[l] \notin Stuck
    PROVE  \A l \in Logs : fate'[l] \in Stuck <=> fate[l] \in Stuck
  BY DEF Meet

\* ZipBooked changes when a raw client books its buffer, when Flush puts a package
\* into the ring, and when the service has answered.
LEMMA ClientZip ==
    ASSUME Inv, Homes, NEW c \in Clients, ClientStep(c)
    PROVE  ZipBooked' = ZipBooked
<1>1. TypeOK /\ c \in Threads /\ fate \in [Logs -> Fates]
  BY ConstantTypes DEF Inv, TypeOK
<1>2. CASE AddRefused(c)
  <2>1. Pending' = Pending /\ UNCHANGED <<fate, senderQ, pc, hold>>
    BY <1>2, PendingKept DEF AddRefused, vars, queues
  <2> QED
    BY <2>1 DEF ZipBooked, Holds
<1>3. CASE AddAdmitted(c) \/ AddQueueFull(c) \/ AddCreate(c) \/ AddLocked(c)
  <2>1. /\ UNCHANGED <<hold, ring, rd, wr, senderQ>> /\ \E to : Goto(c, to) /\ to \notin Zipping
        /\ pc[c] \notin Zipping
    BY <1>3 DEF AddAdmitted, AddQueueFull, AddCreate, AddLocked, Zipping, queues
  <2>2. Pending' = Pending /\ \A l : ~Zipped(c, l) /\ ~Zipped(c, l)'
    BY <1>1, <2>1, PendingKept DEF Zipped, Holds, Goto, TypeOK
  <2>3. \A l \in Logs : fate'[l] \in Stuck <=> fate[l] \in Stuck
    <3>1. CASE UNCHANGED fate
      BY <3>1
    <3>2. CASE AddLocked(c)
      <4>1. nextLog \in Logs /\ fate[nextLog] = "new"
        BY <3>2 DEF AddLocked, Inv, TypeOK, Logs, Homes, Fresh
      <4>2. CASE fate' = [fate EXCEPT ![nextLog] = "held"]
        BY <1>1, <4>1, <4>2 DEF Stuck
      <4>3. CASE fate' = Meet(Append(builder, nextLog), "dropped")
        <5>1. Range(Append(builder, nextLog)) = Range(builder) \cup {nextLog}
          BY <4>1, RangeSeq DEF Inv, TypeOK
        <5>2. \A l \in Range(Append(builder, nextLog)) : fate[l] \notin Stuck
          BY <4>1, <5>1, BuilderHeld DEF Stuck
        <5> QED
          BY <4>3, <5>2, MeetStuck DEF Stuck
      <4> QED
        BY <3>2, <4>2, <4>3 DEF AddLocked
    <3> QED
      BY <1>3, <3>1, <3>2 DEF AddAdmitted, AddQueueFull, AddCreate
  <2> QED
    BY <1>1, <2>1, <2>2, <2>3, ZipMove
<1> QED
  BY <1>2, <1>3 DEF ClientStep

\* A thread lays its counted group down in sender_data_queue, or for ever.
LEMMA LaidZip ==
    ASSUME Inv, NEW t \in Threads, NEW to, Take(t, <<>>, to), to \notin Zipping,
           pc[t] \in Zipping, UNCHANGED <<ring, rd, wr>>,
           \/ senderQ' = Append(senderQ, hold[t]) /\ UNCHANGED fate
           \/ UNCHANGED senderQ /\ \E f \in Stuck : fate' = Meet(hold[t], f)
    PROVE  ZipBooked' = ZipBooked
<1>1. TypeOK /\ Pending' = Pending /\ hold[t] \in Seq(Logs) /\ senderQ \in Seq(Seq(Logs))
  BY PendingKept DEF Inv, TypeOK
<1>2. /\ Goto(t, to) /\ \A u \in Threads \ {t} : hold'[u] = hold[u]
      /\ \A l : ~Zipped(t, l)' /\ (Zipped(t, l) <=> l \in Range(hold[t]))
  BY <1>1 DEF Take, Goto, TypeOK, Zipped, Holds
<1>3. CASE senderQ' = Append(senderQ, hold[t]) /\ UNCHANGED fate
  <2>1. \A l : InQueue(senderQ', l) <=> InQueue(senderQ, l) \/ l \in Range(hold[t])
    BY <1>1, <1>3, AppendIn
  <2> QED
    BY <1>1, <1>2, <1>3, <2>1, ZipMove
<1>4. CASE UNCHANGED senderQ /\ \E f \in Stuck : fate' = Meet(hold[t], f)
  <2>1. \A l \in Logs : fate'[l] \in Stuck <=> fate[l] \in Stuck \/ l \in Range(hold[t])
    BY <1>4 DEF Meet
  <2> QED
    BY <1>1, <1>2, <1>4, <2>1, ZipMove
<1> QED
  BY <1>3, <1>4

\* A thread takes a counted group from sender_data_queue or from the ring.
LEMMA TakenZip ==
    ASSUME Inv, NEW t \in Threads, NEW g, NEW to, Take(t, g, to), to \in Zipping,
           pc[t] \notin Zipping, UNCHANGED fate,
           \A l \in Logs : InQueue(Pending, l) \/ InQueue(senderQ, l)
             <=> InQueue(Pending', l) \/ InQueue(senderQ', l) \/ l \in Range(g)
    PROVE  ZipBooked' = ZipBooked
<1>1. /\ TypeOK /\ Goto(t, to) /\ \A u \in Threads \ {t} : hold'[u] = hold[u]
      /\ \A l : ~Zipped(t, l) /\ (Zipped(t, l)' <=> l \in Range(g))
  BY DEF Inv, Take, Goto, TypeOK, Zipped, Holds
<1> QED
  BY <1>1, ZipMove

\* The other steps of a thread.
LEMMA UnzippedMove ==
    ASSUME Inv, NEW t \in Threads, UNCHANGED <<senderQ, ring, rd, wr>>,
           \A u \in Threads \ {t} : hold'[u] = hold[u],
           \E to : Goto(t, to) /\
             \/ to \notin Zipping /\ pc[t] \notin Zipping
             \/ to \in Zipping /\ pc[t] \in Zipping /\ hold'[t] = hold[t],
           \A l \in Logs : fate'[l] \in Stuck <=> fate[l] \in Stuck
    PROVE  ZipBooked' = ZipBooked
<1>1. TypeOK /\ Pending' = Pending
  BY PendingKept DEF Inv
<1>2. \A l : Zipped(t, l)' <=> Zipped(t, l)
  BY <1>1 DEF Goto, TypeOK, Zipped, Holds
<1> QED
  BY <1>1, <1>2, ZipMove

LEMMA SendFunZip ==
    ASSUME Inv, NEW t \in Threads, SendFun(t), ~SendDone(t)
    PROVE  ZipBooked' = ZipBooked
<1>1. TypeOK
  BY DEF Inv
<1>2. CASE SendExit(t)
  <2>1. /\ pc[t] \in Zipping /\ UNCHANGED <<ring, rd, wr, senderQ>>
        /\ \E f \in Stuck : fate' = Meet(hold[t], f)
    BY <1>2 DEF SendExit, Zipping, Stuck, queues
  <2>2. \E to : to \notin Zipping /\ Take(t, <<>>, to)
    BY <1>2 DEF SendExit, Return, Zipping
  <2> QED
    BY <2>1, <2>2, LaidZip
<1>3. CASE SendStart(t) \/ SendFailed(t)
  <2>1. /\ UNCHANGED <<hold, fate, ring, rd, wr, senderQ>> /\ pc[t] \in Zipping
        /\ \E to : to \in Zipping /\ Goto(t, to)
    BY <1>3 DEF SendStart, SendFailed, Zipping, queues
  <2> QED
    BY <2>1, UnzippedMove
<1> QED
  BY <1>2, <1>3 DEF SendFun

LEMMA PopZip ==
    ASSUME Inv, NEW t \in Threads, SenderPop(t) \/ (t = Destroyer /\ DrainSender)
    PROVE  ZipBooked' = ZipBooked
<1>1. /\ Take(t, Head(senderQ), "check") /\ "check" \in Zipping /\ pc[t] \notin Zipping
      /\ senderQ # <<>> /\ senderQ' = Tail(senderQ) /\ UNCHANGED <<fate, ring, rd, wr>>
      /\ senderQ \in Seq(Seq(Logs))
  BY DEF SenderPop, DrainSender, Zipping, Inv, TypeOK
<1>2. /\ Pending' = Pending
      /\ \A l : InQueue(senderQ, l) <=> l \in Range(Head(senderQ)) \/ InQueue(senderQ', l)
  BY <1>1, PendingKept, InTail
<1> QED
  BY <1>1, <1>2, TakenZip

LEMMA FlushZip ==
    ASSUME Inv, Inv', Homes, FlushStep, ~Pack
    PROVE  ZipBooked' = ZipBooked
<1>1. /\ TypeOK /\ Flush \in Threads /\ pc \in [Threads -> PCs] /\ hold \in [Threads -> Seq(Logs)]
  BY ConstantTypes DEF Inv, TypeOK
<1>2. CASE FlushLoop \/ DrainPop \/ DrainEnd \/ Unbook \/ TryTake \/ TrySkip \/ TryRead
           \/ TryWrite \/ SendEnd
  <2>1. /\ UNCHANGED <<fate, ring, rd, wr, senderQ>> /\ pc[Flush] \notin Zipping
        /\ \E to : to \notin Zipping /\ Goto(Flush, to)
        /\ \A u \in Threads \ {Flush} : hold'[u] = hold[u]
    BY <1>1, <1>2 DEF FlushLoop, DrainPop, DrainEnd, Unbook, TryTake, TrySkip, TryRead,
       TryWrite, SendEnd, Zipping, Take, Goto, queues
  <2> QED
    BY <1>1, <2>1, UnzippedMove
<1>3. CASE PackFailed \/ TryPush
  <2>1. /\ UNCHANGED <<ring, rd, wr, senderQ>> /\ pc[Flush] \notin Zipping
        /\ pc[Flush] \notin Booked /\ \E to : to \notin Zipping /\ Goto(Flush, to)
        /\ \A u \in Threads \ {Flush} : hold'[u] = hold[u]
        /\ UNCHANGED fate \/ fate' = Meet(hold[Flush], "dropped")
    BY <1>1, <1>3 DEF PackFailed, TryPush, Zipping, Booked, Take, Goto, queues
  <2>2. \A l \in Range(hold[Flush]) : fate[l] \notin Stuck
    BY <1>1, <2>1, InHandOnly DEF Stuck
  <2>3. \A l \in Logs : fate'[l] \in Stuck <=> fate[l] \in Stuck
    <3>1. "dropped" \notin Stuck
      BY DEF Stuck
    <3> QED
      BY <2>1, <2>2, <3>1, MeetStuck
  <2> QED
    BY <1>1, <2>1, <2>3, UnzippedMove
<1>4. CASE SendParam \/ SendDirect
  <2>1. /\ \E to : to \in Zipping /\ Take(Flush, Head(Pending), to)
        /\ pc[Flush] \notin Zipping /\ UNCHANGED <<fate, senderQ>>
        /\ Pending # <<>> /\ Pending' = Tail(Pending) /\ Pending \in Seq(Seq(Logs))
    <3>1. /\ Pending # <<>> /\ Pending' = Tail(Pending) /\ Pending \in Seq(Seq(Logs))
          /\ ring[rd % ParamQueueSize] = Head(Pending)
      BY <1>4, PendingPop, PendingType DEF Inv, Control
    <3>2. "pushParam" \in Zipping /\ "check" \in Zipping /\ "send" \notin Zipping
      BY DEF Zipping
    <3>3. SendParam => /\ Take(Flush, ring[rd % ParamQueueSize], "pushParam")
                       /\ pc[Flush] = "send" /\ UNCHANGED <<fate, senderQ>>
      BY DEF SendParam
    <3>4. SendDirect => /\ Take(Flush, ring[rd % ParamQueueSize], "check")
                        /\ pc[Flush] = "send" /\ UNCHANGED <<fate, senderQ>>
      BY DEF SendDirect
    <3> QED
      BY <1>4, <3>1, <3>2, <3>3, <3>4
  <2>2. \A l : InQueue(Pending, l) <=> l \in Range(Head(Pending)) \/ InQueue(Pending', l)
    BY <2>1, InTail
  <2> QED
    BY <1>1, <2>1, <2>2, TakenZip
<1>5. CASE PushParam
  <2>1. /\ pc[Flush] \in Zipping /\ "send" \notin Zipping /\ Take(Flush, <<>>, "send")
        /\ UNCHANGED <<ring, rd, wr>>
        /\ \/ senderQ' = Append(senderQ, hold[Flush]) /\ UNCHANGED fate
           \/ UNCHANGED senderQ /\ \E f \in Stuck : fate' = Meet(hold[Flush], f)
    BY <1>5 DEF PushParam, Zipping, Stuck
  <2> QED
    BY <1>1, <2>1, LaidZip
<1> QED
  BY <1>2, <1>3, <1>4, <1>5 DEF FlushStep

LEMMA DestroyZip ==
    ASSUME Inv, Homes, PushLast \/ DestroyStep
    PROVE  ZipBooked' = ZipBooked
<1>1. /\ TypeOK /\ Destroyer \in Threads
  BY ConstantTypes DEF Inv
<1>2. CASE DrainSender
  BY <1>1, <1>2, PopZip
<1>3. CASE PushLast \/ (DestroyStep /\ ~DrainSender)
  <2>1. /\ UNCHANGED <<ring, rd, wr, senderQ, hold>> /\ pc[Destroyer] \notin Zipping
        /\ \E to : to \notin Zipping /\ Goto(Destroyer, to)
        /\ UNCHANGED fate \/ fate' = Meet(builder, "dropped")
    BY <1>3 DEF PushLast, Running, DestroyStep, WaitGroups, WaitParams, WaitSender, WaitTimeout,
       WaitOperand, Shutdown, JoinFlush, JoinSend, FreeTail, Zipping, queues
  <2>2. \A l \in Logs : fate'[l] \in Stuck <=> fate[l] \in Stuck
    <3>1. "dropped" \notin Stuck /\ \A l \in Range(builder) : fate[l] \notin Stuck
      BY BuilderHeld DEF Stuck
    <3> QED
      BY <2>1, <3>1, MeetStuck
  <2> QED
    BY <1>1, <2>1, <2>2, UnzippedMove
<1> QED
  BY <1>2, <1>3

LEMMA ZipStays ==
    ASSUME Inv, Inv', Homes, Next, ~Pack, \A t \in Threads : ~SendDone(t),
           \A c \in RawClients : ~RawBook(c)
    PROVE  ZipBooked' = ZipBooked
<1>1. ASSUME NEW c \in RawClients, RawPush(c) PROVE ZipBooked' = ZipBooked
  <2>1. /\ c \in Threads /\ pc[c] \in Zipping /\ "idle" \notin Zipping
        /\ Take(c, <<>>, "idle") /\ UNCHANGED <<ring, rd, wr>>
        /\ \/ senderQ' = Append(senderQ, hold[c]) /\ UNCHANGED fate
           \/ UNCHANGED senderQ /\ \E f \in Stuck : fate' = Meet(hold[c], f)
    BY <1>1, ConstantTypes DEF RawPush, Zipping, Stuck
  <2> QED
    BY <2>1, LaidZip
<1>2. ASSUME NEW t \in SendThreads, SenderStep(t) PROVE ZipBooked' = ZipBooked
  <2>1. t \in Threads
    BY ConstantTypes
  <2>2. CASE SenderPop(t)
    BY <2>1, <2>2, PopZip
  <2>3. CASE SenderLoop(t) \/ SenderPopTimeout(t)
    <3>1. /\ UNCHANGED <<ring, rd, wr, senderQ, hold, fate>> /\ pc[t] \notin Zipping
          /\ \E to : to \notin Zipping /\ Goto(t, to)
      BY <2>3 DEF SenderLoop, SenderPopTimeout, Zipping, queues
    <3> QED
      BY <2>1, <3>1, UnzippedMove
  <2> QED
    BY <1>2, <2>2, <2>3 DEF SenderStep
<1>3. CASE Freed
  <2>1. Pending' = Pending /\ UNCHANGED <<fate, senderQ, pc, hold>>
    BY <1>3, PendingKept DEF Freed, vars, queues
  <2> QED
    BY <2>1 DEF ZipBooked, Holds
<1> QED
  BY <1>1, <1>2, <1>3, ClientZip, SendFunZip, FlushZip, DestroyZip DEF Next, RawStep

\* A client, or the destroyer, pushes the builder's group g.
LEMMA PushedBooks ==
    ASSUME Inv, NEW g \in Groups, loggroupQ' = Append(loggroupQ, g), Plus(RawBytes(g)),
           pc'[Flush] = pc[Flush], hold'[Flush] = hold[Flush], ZipBooked' = ZipBooked,
           \A l \in Range(g) : ~InQueue(loggroupQ, l) /\ l \notin Range(hold[Flush])
    PROVE  Books(RawBytes(g))
<1>1. g \in Seq(Logs) /\ loggroupQ \in Seq(Seq(Logs)) /\ Range(g) \subseteq Logs
  BY GroupTypes DEF Inv, TypeOK
<1>2. \A l : InQueue(loggroupQ', l) <=> InQueue(loggroupQ, l) \/ l \in Range(g)
  BY <1>1, AppendIn
<1>3. RawBooked' = RawBooked \cup Range(g) /\ RawBooked \cap Range(g) = {}
  BY <1>1, <1>2 DEF RawBooked, Holds
<1> QED
  BY <1>3, BooksGroup

LEMMA AddBooks ==
    ASSUME Inv, Homes, Filled, NEW c \in Clients, AddLocked(c), Next
    PROVE  \/ UNCHANGED loggroupQ /\ Books(0)
           \/ /\ loggroupQ' = Append(loggroupQ, Append(builder, nextLog))
              /\ Books(RawBytes(Append(builder, nextLog)))
<1>1. /\ Append(builder, nextLog) \in Groups /\ nextLog \in Logs
      /\ Range(Append(builder, nextLog)) = Range(builder) \cup {nextLog}
  BY AddFilled, RangeSeq DEF Inv, TypeOK
<1>2. /\ ZipBooked' = ZipBooked /\ TypeOK /\ c # Flush /\ c \in Threads /\ ~Unbook /\ ~TryWrite
      /\ pc'[Flush] = pc[Flush] /\ hold'[Flush] = hold[Flush]
  <2>1. c # Flush /\ c \in Threads /\ TypeOK /\ Flush \in Threads /\ pc \in [Threads -> PCs]
    BY Kinds, ConstantTypes DEF Inv, TypeOK
  <2>2. pc[c] \in Adding /\ pc' = [pc EXCEPT ![c] = "idle"] /\ hold' = hold
    BY DEF Adding, AddLocked, Goto
  <2>3. ~Unbook /\ ~TryWrite
    BY <2>1, <2>2 DEF Adding, Unbook, TryWrite, Take, Goto
  <2> QED
    BY <2>1, <2>2, <2>3, ClientZip DEF ClientStep
<1>3. CASE UNCHANGED <<loggroupQ, total>>
  BY <1>2, <1>3, RawStays, BooksNothing
<1>4. CASE loggroupQ' = Append(loggroupQ, Append(builder, nextLog)) /\ Plus(RawBytes(Append(builder, nextLog)))
  <2>1. \A l \in Range(Append(builder, nextLog)) : ~InQueue(loggroupQ, l) /\ l \notin Range(hold[Flush])
    BY <1>1, BuilderHeld, NewNowhere, ConstantTypes DEF Logs
  <2> QED
    BY <1>1, <1>2, <1>4, <2>1, PushedBooks
<1> QED
  BY <1>3, <1>4 DEF AddLocked

LEMMA LastBooks ==
    ASSUME Inv, Homes, Filled, PushLast, Next
    PROVE  \/ UNCHANGED loggroupQ /\ Books(0)
           \/ loggroupQ' = Append(loggroupQ, builder) /\ Books(RawBytes(builder))
<1>1. /\ ZipBooked' = ZipBooked /\ TypeOK /\ ~Unbook /\ ~TryWrite
      /\ pc'[Flush] = pc[Flush] /\ hold'[Flush] = hold[Flush]
  <2>1. Flush # Destroyer /\ TypeOK /\ Flush \in Threads /\ Destroyer \in Threads /\ pc \in [Threads -> PCs]
    BY Kinds, ConstantTypes DEF Inv, TypeOK
  <2>2. pc[Destroyer] = "idle" /\ pc' = [pc EXCEPT ![Destroyer] = "waitGroups"] /\ hold' = hold
    BY DEF PushLast, Goto, Running
  <2>3. ~Unbook /\ ~TryWrite
    BY <2>1, <2>2 DEF Unbook, TryWrite, Take, Goto
  <2> QED
    BY <2>1, <2>2, <2>3, DestroyZip
<1>2. CASE UNCHANGED <<loggroupQ, total>>
  BY <1>1, <1>2, RawStays, BooksNothing
<1>3. CASE loggroupQ' = Append(loggroupQ, builder) /\ Plus(RawBytes(builder))
  <2>1. \A l \in Range(builder) : ~InQueue(loggroupQ, l) /\ l \notin Range(hold[Flush])
    BY BuilderHeld, ConstantTypes
  <2>2. builder \in Groups
    BY GroupTypes DEF Filled
  <2> QED
    BY <1>1, <1>3, <2>1, <2>2, PushedBooks
<1> QED
  BY <1>2, <1>3 DEF PushLast

LEMMA UnbookBooks ==
    ASSUME Inv, Inv', Homes, Filled, Unbook, Next
    PROVE  Books(-RawBytes(hold[Flush]))
<1>1. /\ Flush \in Threads /\ pc[Flush] = "unbook" /\ pc' = [pc EXCEPT ![Flush] = "pack"]
      /\ hold' = hold /\ loggroupQ' = loggroupQ /\ pc \in [Threads -> PCs] /\ hold[Flush] \in Groups
      /\ Plus(-RawBytes(hold[Flush])) /\ pc'[Flush] = "pack"
  BY ConstantTypes DEF Unbook, Goto, Filled, Inv, TypeOK
<1>2. ZipBooked' = ZipBooked
  <2>1. FlushStep /\ ~Pack
    BY <1>1 DEF FlushStep, Pack
  <2> QED
    BY <2>1, FlushZip
<1>3. \A l \in Range(hold[Flush]) : l \in Logs /\ ~InQueue(loggroupQ, l)
  BY <1>1, InHandOnly DEF Booked
<1>4. RawBooked = RawBooked' \cup Range(hold[Flush]) /\ RawBooked' \cap Range(hold[Flush]) = {}
  BY <1>1, <1>3 DEF RawBooked, Holds
<1> QED
  BY <1>1, <1>2, <1>4, BooksGroup

LEMMA WriteBooks ==
    ASSUME Inv, Inv', Homes, Filled, TryWrite, Next, ~raced'
    PROVE  Books(RawBytes(hold[Flush])) /\ ~raced
<1>1. /\ Flush \in Threads /\ pc[Flush] = "tryWrite" /\ pc'[Flush] = "send"
      /\ loggroupQ' = loggroupQ /\ hold[Flush] \in Groups
      /\ hold[Flush] \in Seq(Logs) /\ <<>> \in Seq(Seq(Logs))
  BY ConstantTypes DEF TryWrite, Take, Goto, Filled, Inv, TypeOK, queues
<1>2. Plus(RawBytes(hold[Flush])) /\ ~raced
  BY DEF TryWrite, Plus
<1>3. ZipBooked' = ZipBooked
  <2>1. FlushStep /\ ~Pack
    BY <1>1 DEF FlushStep, Pack
  <2> QED
    BY <2>1, FlushZip
<1>4. \A l \in Range(hold[Flush]) : l \in Logs /\ InQueue(loggroupQ, l)
  BY <1>1, InLogs DEF Inv, Booking
<1>5. RawBooked' = RawBooked \cup Range(hold[Flush]) /\ RawBooked \cap Range(hold[Flush]) = {}
  BY <1>1, <1>4 DEF RawBooked, Holds
<1> QED
  BY <1>1, <1>2, <1>3, <1>5, BooksGroup

LEMMA PackBooks ==
    ASSUME Inv, Inv', Homes, Filled, Pack, Next
    PROVE  Books(ZipBytes(hold[Flush]))
<1>1. /\ TypeOK /\ Flush \in Threads /\ pc[Flush] = "pack" /\ pc' = [pc EXCEPT ![Flush] = "drain"]
      /\ loggroupQ' = loggroupQ /\ pc \in [Threads -> PCs] /\ hold[Flush] \in Groups
      /\ hold' = [hold EXCEPT ![Flush] = <<>>] /\ hold \in [Threads -> Seq(Logs)]
      /\ Plus(ZipBytes(hold[Flush])) /\ pc'[Flush] = "drain" /\ UNCHANGED <<senderQ, fate>>
  BY ConstantTypes DEF Pack, Take, Goto, Filled, Inv, TypeOK
<1>2. RawBooked' = RawBooked
  <2>1. ~Unbook /\ ~TryWrite
    BY <1>1 DEF Unbook, TryWrite
  <2> QED
    BY <1>1, <2>1, RawStays
<1>3. \A l : InQueue(Pending', l) <=> InQueue(Pending, l) \/ l \in Range(hold[Flush])
  <2>1. Pending' = Append(Pending, hold[Flush]) /\ Pending \in Seq(Seq(Logs)) /\ hold[Flush] \in Seq(Logs)
    BY <1>1, PendingPush, PendingType DEF Inv, Control
  <2> QED
    BY <2>1, AppendIn
<1>4. /\ \A t \in Threads \ {Flush} : pc'[t] = pc[t] /\ hold'[t] = hold[t]
      /\ \A l : ~Zipped(Flush, l) /\ ~Zipped(Flush, l)'
  BY <1>1 DEF Zipped, Holds, Zipping
<1>5. \A t \in Threads : \A l : Zipped(t, l)' <=> Zipped(t, l)
  BY <1>4 DEF Zipped, Holds
<1>6. \A l \in Range(hold[Flush]) :
        /\ l \in Logs /\ fate[l] \notin Stuck /\ ~InQueue(senderQ, l) /\ ~InQueue(Pending, l)
        /\ \A t \in Threads : ~Zipped(t, l)
  BY <1>1, <1>4, InHandOnly DEF Booked, Stuck, Zipped, Holds, Zipping
<1>7. ZipBooked' = ZipBooked \cup Range(hold[Flush]) /\ ZipBooked \cap Range(hold[Flush]) = {}
  BY <1>1, <1>3, <1>5, <1>6, ZipThen, ZipIs
<1> QED
  BY <1>1, <1>2, <1>7, BooksGroup

LEMMA RawBookBooks ==
    ASSUME Inv, Homes, NEW c \in RawClients, RawBook(c), Next
    PROVE  Books(ZipBytes(<<nextLog>>))
<1>1. /\ TypeOK /\ c \in Threads /\ c # Flush /\ Flush \in Threads /\ pc[c] = "idle"
      /\ nextLog \in Logs /\ nextLog >= nextLog /\ fate \in [Logs -> Fates]
      /\ pc \in [Threads -> PCs] /\ hold \in [Threads -> Seq(Logs)]
  BY Kinds, ConstantTypes DEF RawBook, Inv, TypeOK, Logs
<1>2. /\ UNCHANGED <<loggroupQ, senderQ>> /\ Pending' = Pending /\ Plus(ZipBytes(<<nextLog>>))
      /\ fate' = [fate EXCEPT ![nextLog] = "held"]
      /\ \E to : to \in {"check", "raw"} /\ Take(c, <<nextLog>>, to)
  BY PendingKept DEF RawBook, queues
<1>3. <<nextLog>> \in Groups /\ Range(<<nextLog>>) = {nextLog}
  BY <1>1, GroupTypes, RangeSeq
<1>4. RawBooked' = RawBooked
  <2>1. pc'[Flush] = pc[Flush] /\ hold'[Flush] = hold[Flush]
    BY <1>1, <1>2 DEF Take, Goto
  <2> QED
    BY <1>2, <2>1 DEF RawBooked, Holds
<1>5. /\ \A t \in Threads \ {c} : \A l : Zipped(t, l)' <=> Zipped(t, l)
      /\ \A l : ~Zipped(c, l) /\ (Zipped(c, l)' <=> l = nextLog)
  <2>1. \A t \in Threads \ {c} : pc'[t] = pc[t] /\ hold'[t] = hold[t]
    BY <1>1, <1>2 DEF Take, Goto
  <2>2. pc[c] \notin Zipping /\ pc'[c] \in Zipping /\ hold'[c] = <<nextLog>>
    BY <1>1, <1>2 DEF Take, Goto, Zipping
  <2> QED
    BY <1>3, <2>1, <2>2 DEF Zipped, Holds
<1>6. /\ fate[nextLog] \notin Stuck /\ fate'[nextLog] \notin Stuck
      /\ \A l \in Logs \ {nextLog} : fate'[l] = fate[l]
      /\ ~InQueue(Pending, nextLog) /\ ~InQueue(senderQ, nextLog)
      /\ \A t \in Threads : ~Zipped(t, nextLog)
  BY <1>1, <1>2, NewNowhere DEF Stuck, Zipped, Holds
<1>7. ZipBooked' = ZipBooked \cup {nextLog} /\ ZipBooked \cap {nextLog} = {}
  <2>1. nextLog \in ZipBooked' /\ nextLog \notin ZipBooked
    BY <1>1, <1>5, <1>6, ZipThen, ZipIs
  <2>2. ASSUME NEW l \in Logs, l # nextLog PROVE l \in ZipBooked' <=> l \in ZipBooked
    BY <1>1, <1>2, <1>5, <1>6, <2>2, ZipThen, ZipIs
  <2> QED
    BY <1>1, <2>1, <2>2, ZipThen, ZipIs
<1> QED
  BY <1>2, <1>3, <1>4, <1>7, BooksGroup

LEMMA DoneBooks ==
    ASSUME Inv, Homes, Filled, NEW t \in Threads, SendDone(t), Next
    PROVE  Books(-ZipBytes(hold[t]))
<1>1. /\ TypeOK /\ pc[t] = "post" /\ hold[t] \in Groups /\ Range(hold[t]) \subseteq Logs
      /\ pc \in [Threads -> PCs] /\ hold \in [Threads -> Seq(Logs)] /\ Flush \in Threads
  BY GroupTypes, ConstantTypes DEF SendDone, Filled, Inv, TypeOK
<1>2. /\ UNCHANGED <<loggroupQ, senderQ>> /\ Pending' = Pending /\ Plus(-ZipBytes(hold[t]))
      /\ \E f : f \notin Stuck /\ fate' = Meet(hold[t], f)
      /\ \E to : to \in {"drainSender", "idle"} /\ Take(t, <<>>, to)
  BY PendingKept DEF SendDone, Return, Stuck, queues
<1>3. RawBooked' = RawBooked
  <2>1. \/ pc'[Flush] = pc[Flush] /\ hold'[Flush] = hold[Flush]
        \/ pc[Flush] \notin Weighing /\ pc'[Flush] \notin Weighing
    BY <1>1, <1>2 DEF Take, Goto, Weighing
  <2> QED
    BY <1>2, <2>1 DEF RawBooked, Holds, Weighing
<1>4. /\ \A u \in Threads \ {t} : \A l : Zipped(u, l)' <=> Zipped(u, l)
      /\ \A l : (Zipped(t, l) <=> l \in Range(hold[t])) /\ ~Zipped(t, l)'
  <2>1. \A u \in Threads \ {t} : pc'[u] = pc[u] /\ hold'[u] = hold[u]
    BY <1>1, <1>2 DEF Take, Goto
  <2>2. pc[t] \in Zipping /\ pc'[t] \notin Zipping
    BY <1>1, <1>2 DEF Take, Goto, Zipping
  <2> QED
    BY <2>1, <2>2 DEF Zipped, Holds
<1>5. /\ \A l \in Range(hold[t]) : fate'[l] \notin Stuck /\ ~InQueue(Pending, l) /\ ~InQueue(senderQ, l)
      /\ \A l \in Range(hold[t]) : \A u \in Threads \ {t} : ~Zipped(u, l)
      /\ \A l \in Logs \ Range(hold[t]) : fate'[l] = fate[l]
  BY <1>1, <1>2, InHandOnly DEF Booked, Zipped, Holds, Zipping, Meet
<1>6. ZipBooked = ZipBooked' \cup Range(hold[t]) /\ ZipBooked' \cap Range(hold[t]) = {}
  <2>1. ASSUME NEW l \in Range(hold[t]) PROVE l \in ZipBooked /\ l \notin ZipBooked'
    BY <1>1, <1>2, <1>4, <1>5, <2>1, ZipThen, ZipIs
  <2>2. ASSUME NEW l \in Logs \ Range(hold[t]) PROVE l \in ZipBooked' <=> l \in ZipBooked
    BY <1>2, <1>4, <1>5, <2>2, ZipThen, ZipIs
  <2> QED
    BY <1>1, <2>1, <2>2, ZipThen, ZipIs
<1> QED
  BY <1>1, <1>2, <1>3, <1>6, BooksGroup

\* The steps that change totalBufferSize.
LEMMA TotalMoves ==
    ASSUME Next
    PROVE  \/ UNCHANGED total
           \/ (\E c \in Clients : AddLocked(c)) \/ PushLast \/ (\E c \in RawClients : RawBook(c))
           \/ (\E t \in Threads : SendDone(t)) \/ Unbook \/ Pack \/ TryWrite
  BY DEF Next, ClientStep, AddRefused, AddAdmitted, AddQueueFull, AddCreate, RawStep, RawPush, SendFun,
     SendExit, SendStart, SendFailed, SenderStep, SenderLoop, SenderPop, SenderPopTimeout,
     FlushStep, FlushLoop, DrainPop, DrainEnd, PackFailed, TryTake, TrySkip, TryPush, TryRead,
     SendParam, PushParam, SendDirect, SendEnd, DestroyStep, WaitGroups, WaitParams, WaitSender,
     WaitTimeout, WaitOperand, Shutdown, JoinFlush, JoinSend, DrainSender, FreeTail, Freed, vars

\* All steps but those that book or take off.
Booker == \/ (\E c \in Clients : AddLocked(c)) \/ PushLast \/ (\E c \in RawClients : RawBook(c))
          \/ (\E t \in Threads : SendDone(t)) \/ Unbook \/ Pack \/ TryWrite

LEMMA OtherBooks ==
    ASSUME Inv, Inv', Homes, Next, ~Booker
    PROVE  Books(0)
<1>1. UNCHANGED total
  BY TotalMoves DEF Booker
<1>2. ZipBooked' = ZipBooked
  BY ZipStays DEF Booker
<1>3. RawBooked' = RawBooked
  BY RawStays, QueueMoves DEF Booker
<1> QED
  BY <1>1, <1>2, <1>3, BooksNothing DEF Inv

\* The race is never undone.
LEMMA RacedStays == ASSUME Next, ~raced' PROVE ~raced
<1>1. CASE TryWrite
  BY <1>1 DEF TryWrite
<1>2. CASE ~TryWrite
  BY <1>2 DEF Next, ClientStep, AddRefused, AddAdmitted, AddQueueFull, AddCreate, AddLocked, RawStep,
     RawBook, RawPush, SendFun, SendExit, SendStart, SendDone, SendFailed, SenderStep,
     SenderLoop, SenderPop, SenderPopTimeout, FlushStep, FlushLoop, DrainPop, DrainEnd,
     Unbook, Pack, PackFailed, TryTake, TrySkip, TryPush, TryRead, SendParam, PushParam,
     SendDirect, SendEnd, PushLast, DestroyStep, WaitGroups, WaitParams, WaitSender,
     WaitTimeout, WaitOperand, Shutdown, JoinFlush, JoinSend, DrainSender, FreeTail, Freed,
     vars, ghosts
<1> QED
  BY <1>1, <1>2

\* Every step that books keeps the account.
LEMMA BooksAccount ==
    ASSUME NEW n \in Int, Books(n), total = BookedBytes % Width
    PROVE  total' = BookedBytes' % Width
<1>1. total' = ((BookedBytes % Width) + n) % Width /\ BookedBytes' = BookedBytes + n
      /\ BookedBytes \in Int
  BY DEF Books
<1> QED
  BY <1>1, ModPlus, ConstantTypes

LEMMA StepAccount == Inv /\ Homes /\ Filled /\ Accounting /\ [Next]_vars => Accounting'
<1> SUFFICES ASSUME Inv, Homes, Filled, Accounting, [Next]_vars PROVE Accounting'
  OBVIOUS
<1>1. Inv'
  BY StepInv
<1>2. CASE UNCHANGED vars
  BY <1>2 DEF vars, queues, ghosts, Accounting, BookedBytes, RawBooked, ZipBooked, Holds, Pending
<1>3. CASE Next
  <2> SUFFICES ASSUME ~raced' PROVE total' = BookedBytes' % Width
    BY DEF Accounting
  <2>1. total = BookedBytes % Width
    BY <1>3, RacedStays DEF Accounting
  <2>2. ASSUME NEW g \in Seq(Logs)
        PROVE  /\ RawBytes(g) \in Int /\ ZipBytes(g) \in Int
               /\ -RawBytes(g) \in Int /\ -ZipBytes(g) \in Int
    BY <2>2, BytesType
  <2>3. \E n \in Int : Books(n)
    <3>1. CASE ~Booker
      BY <1>1, <1>3, <3>1, OtherBooks
    <3>2. ASSUME NEW c \in Clients, AddLocked(c) PROVE \E n \in Int : Books(n)
      <4>1. Append(builder, nextLog) \in Seq(Logs)
        BY <3>2, AddFilled, GroupTypes
      <4>2. \E g \in Seq(Logs) : Books(0) \/ Books(RawBytes(g))
        BY <1>3, <3>2, <4>1, AddBooks
      <4> QED
        BY <2>2, <4>2
    <3>3. ASSUME PushLast PROVE \E n \in Int : Books(n)
      BY <1>3, <2>2, <3>3, LastBooks DEF Inv, TypeOK
    <3>4. ASSUME NEW c \in RawClients, RawBook(c) PROVE \E n \in Int : Books(n)
      <4>1. <<nextLog>> \in Seq(Logs)
        BY <3>4 DEF RawBook, Inv, TypeOK, Logs
      <4> QED
        BY <1>3, <2>2, <3>4, <4>1, RawBookBooks
    <3>5. ASSUME NEW t \in Threads, SendDone(t) PROVE \E n \in Int : Books(n)
      BY <1>3, <2>2, <3>5, DoneBooks DEF Inv, TypeOK
    <3>6. hold[Flush] \in Seq(Logs)
      BY ConstantTypes DEF Inv, TypeOK
    <3>7. ASSUME Unbook \/ Pack \/ TryWrite PROVE \E n \in Int : Books(n)
      BY <1>1, <1>3, <2>2, <3>6, <3>7, UnbookBooks, PackBooks, WriteBooks
    <3> QED
      BY <3>1, <3>2, <3>3, <3>4, <3>5, <3>7 DEF Booker
  <2> QED
    BY <2>1, <2>3, BooksAccount
<1> QED
  BY <1>2, <1>3

LEMMA InitAccount == Init => Accounting
<1> SUFFICES ASSUME Init PROVE Accounting
  OBVIOUS
<1>1. ASSUME NEW l \in Logs PROVE l \notin RawBooked /\ l \notin ZipBooked
  <2>1. /\ loggroupQ = <<>> /\ senderQ = <<>> /\ DOMAIN Pending = {} /\ fate[l] = "new"
        /\ \A t \in Threads : pc[t] = "idle"
    BY DEF Init, Pending
  <2> QED
    BY <2>1, ConstantTypes DEF RawBooked, ZipBooked, Holds, InQueue
<1>2. RawBooked = {} /\ ZipBooked = {}
  BY <1>1 DEF RawBooked, ZipBooked
<1>3. BookedBytes = 0
  BY <1>2, FS_EmptySet, ConstantTypes DEF BookedBytes
<1>4. \A w \in Nat \ {0} : 0 % w = 0
  OBVIOUS
<1> QED
  BY <1>3, <1>4, ConstantTypes DEF Accounting, Init

LEMMA AlwaysFilled == Spec => [](Inv /\ Homes /\ Filled)
<1>1. Spec => [](Inv /\ Homes)
  BY InitInv, StepInv, InitHomes, StepHomes, PTL DEF Spec
<1> QED
  BY <1>1, InitFilled, StepFilled, PTL DEF Spec

\* As long as the unlocked += of _try_flush_loggroup has overwritten nothing,
\* totalBufferSize is, modulo 2^32, the size of what it is meant to count and of the
\* buffers that are never taken off.
THEOREM CountExact == Spec => []Accounting
  BY AlwaysFilled, InitAccount, StepAccount, PTL DEF Spec

-----------------------------------------------------------------------------
(***************************************************************************)
(* How far maxBufferBytes is exceeded                                      *)
(***************************************************************************)
\* maxBufferBytes is far from 2^32: what can be added to it does not wrap around.
NoWrap == MaxBufferBytes + Excess(LogSize * LogsPerPackage) < Width

\* What is held, counted or not, stays within the bound.
Within == ~raced /\ ZipSize <= LogSize =>
    \/ BookedBytes + Uncounted <= MaxBufferBytes + Excess(LogSize * (LogsPerPackage - 1))
    \/ BookedBytes + Uncounted <= MaxBufferBytes + Excess(ZipSize * LogsPerPackage)

\* Multiples of a size.
LEMMA Multiples ==
    ASSUME NEW k \in Nat
    PROVE  /\ \A a, b \in Nat : a <= b => k * a <= k * b
           /\ \A a, b \in Nat : k * (a + b) = k * a + k * b /\ k * a \in Nat
           /\ \A j, a \in Nat : j <= k => j * a <= k * a
<1>1. \A a, b \in Nat : k * (a + b) = k * a + k * b /\ k * a \in Nat
  OBVIOUS
<1>2. ASSUME NEW a \in Nat, NEW b \in Nat, a <= b PROVE k * a <= k * b
  <2>1. b - a \in Nat /\ a + (b - a) = b
    BY <1>2
  <2>2. k * (b - a) \in Nat /\ k * b = k * a + k * (b - a) /\ k * a \in Nat
    BY <2>1, <1>1
  <2> QED
    BY <2>2
<1>3. ASSUME NEW j \in Nat, NEW a \in Nat, j <= k PROVE j * a <= k * a
  <2>1. k - j \in Nat /\ k * a = j * a + (k - j) * a /\ (k - j) * a \in Nat /\ j * a \in Nat
    BY <1>3
  <2> QED
    BY <2>1
<1> QED
  BY <1>1, <1>2, <1>3

\* The parts of what is not counted.
LEMMA UncountedType ==
    ASSUME Inv, Filled
    PROVE  /\ IsFiniteSet(InAdd) /\ IsFiniteSet(Clients) /\ Cardinality(InAdd) \in Nat
           /\ Cardinality(Clients) \in Nat /\ Cardinality(InAdd) <= Cardinality(Clients)
           /\ RawBytes(builder) \in Nat /\ LogSize * Cardinality(InAdd) \in Nat
           /\ InFlushHand \in Nat
           /\ Uncounted = RawBytes(builder) + LogSize * Cardinality(InAdd) + InFlushHand
           /\ RawBytes(builder) <= LogSize * (LogsPerPackage - 1)
           /\ \/ InFlushHand <= LogSize * (LogsPerPackage - 1)
              \/ InFlushHand <= ZipSize * LogsPerPackage
<1>1. IsFiniteSet(Clients)
  <2>1. Clients \in SUBSET (Clients \cup RawClients \cup SendThreads)
    OBVIOUS
  <2> QED
    BY <2>1, ThreadsAssumption, FS_Subset
<1>2. /\ IsFiniteSet(InAdd) /\ Cardinality(InAdd) \in Nat /\ Cardinality(Clients) \in Nat
      /\ Cardinality(InAdd) <= Cardinality(Clients)
  <2>1. InAdd \in SUBSET Clients
    BY DEF InAdd
  <2> QED
    BY <1>1, <2>1, FS_Subset, FS_CardinalityType
<1>3. LogSize \in Nat /\ ZipSize \in Nat /\ LogsPerPackage \in Nat /\ LogsPerPackage - 1 \in Nat
  BY SizesAssumption
<1>4. ASSUME NEW g \in Groups
      PROVE  /\ RawBytes(g) \in Nat /\ ZipBytes(g) \in Nat
             /\ ZipBytes(g) <= ZipSize * LogsPerPackage
  <2>1. g \in Seq(Logs) /\ Len(g) \in Nat /\ Len(g) <= LogsPerPackage
    BY GroupTypes DEF Groups, Sized
  <2> QED
    BY <1>3, <2>1, BytesType, Multiples DEF ZipBytes
<1>5. ASSUME NEW g \in Unfilled PROVE RawBytes(g) <= LogSize * (LogsPerPackage - 1)
  <2>1. Len(g) \in Nat /\ Len(g) <= LogsPerPackage - 1
    BY LenProperties DEF Unfilled, Sized
  <2> QED
    BY <1>3, <2>1, Multiples DEF RawBytes
<1>6. builder \in Groups /\ builder \in Unfilled /\ hold[Flush] \in Groups
  BY GroupTypes, ConstantTypes DEF Filled
<1>7. InFlushHand \in Nat
  BY <1>4, <1>6 DEF InFlushHand
<1>8. \/ InFlushHand <= LogSize * (LogsPerPackage - 1)
      \/ InFlushHand <= ZipSize * LogsPerPackage
  <2>1. CASE pc[Flush] \in {"tryPush", "tryRead", "tryWrite"}
    BY <1>5, <2>1 DEF InFlushHand, Filled
  <2>2. CASE pc[Flush] = "pack"
    BY <1>4, <1>6, <2>2 DEF InFlushHand
  <2>3. CASE pc[Flush] \notin {"tryPush", "tryRead", "tryWrite", "pack"}
    <3>1. ZipSize * LogsPerPackage \in Nat
      BY <1>3
    <3> QED
      BY <2>3, <3>1 DEF InFlushHand
  <2> QED
    BY <2>1, <2>2, <2>3
<1>9. LogSize * Cardinality(InAdd) \in Nat
  BY <1>2, <1>3
<1> QED
  BY <1>1, <1>2, <1>4, <1>5, <1>6, <1>7, <1>8, <1>9 DEF Uncounted

\* A step of a thread other than Flush that is not about to add a log.
LEMMA OthersLight ==
    ASSUME Inv, NEW t \in Threads \ {Flush}, pc[t] \notin Adding, \E to : to \notin Adding /\ Goto(t, to),
           hold'[Flush] = hold[Flush]
    PROVE  InAdd' = InAdd /\ InFlushHand' = InFlushHand
<1>1. pc \in [Threads -> PCs] /\ Clients \subseteq Threads /\ Flush \in Threads
  BY ConstantTypes DEF Inv, TypeOK
<1>2. pc'[Flush] = pc[Flush] /\ \A u \in Threads : pc'[u] \in Adding <=> pc[u] \in Adding
  BY <1>1 DEF Goto
<1> QED
  BY <1>1, <1>2 DEF InAdd, InFlushHand, RawBytes, ZipBytes

\* A step of Flush.
LEMMA FlushAdds == ASSUME Inv, \E to : Goto(Flush, to) PROVE InAdd' = InAdd
<1>1. pc \in [Threads -> PCs] /\ \A c \in Clients : c \in Threads /\ c # Flush
  BY Kinds DEF Inv, TypeOK
<1> QED
  BY <1>1 DEF Goto, InAdd

\* The steps that book no byte and take none off make nothing heavier, but for the
\* one that admits a log.
LEMMA OtherLight ==
    ASSUME Inv, Inv', Filled, Filled', Next, ~Booker, RawClients = {},
           \A c \in Clients : ~AddAdmitted(c)
    PROVE  Uncounted' <= Uncounted
<1>1. /\ RawBytes(builder) \in Nat /\ LogSize * Cardinality(InAdd) \in Nat /\ InFlushHand \in Nat
      /\ Uncounted = RawBytes(builder) + LogSize * Cardinality(InAdd) + InFlushHand
      /\ Cardinality(InAdd) \in Nat /\ IsFiniteSet(InAdd)
  BY UncountedType
<1>2. /\ Uncounted' = RawBytes(builder)' + LogSize * Cardinality(InAdd') + InFlushHand'
      /\ RawBytes(<<>>) = 0
  BY ConstantTypes DEF Uncounted, RawBytes
<1>3. CASE UNCHANGED builder /\ InAdd' = InAdd /\ InFlushHand' = InFlushHand
  BY <1>1, <1>2, <1>3 DEF RawBytes
<1>4. /\ pc \in [Threads -> PCs] /\ hold \in [Threads -> Seq(Logs)] /\ Flush \in Threads
      /\ Destroyer \in Threads /\ Destroyer # Flush
  BY ConstantTypes, Kinds DEF Inv, TypeOK
<1>5. ASSUME NEW c \in Clients, AddQueueFull(c) \/ AddCreate(c) PROVE Uncounted' <= Uncounted
  <2>1. /\ c \in Threads /\ c # Flush /\ pc[c] = "add"
        /\ pc' = [pc EXCEPT ![c] = "idle"] \/ pc' = [pc EXCEPT ![c] = "create"]
        /\ UNCHANGED <<builder, hold>>
    BY <1>5, Kinds DEF AddQueueFull, AddCreate, Goto, queues
  <2>2. InAdd' \subseteq InAdd /\ pc'[Flush] = pc[Flush]
    BY <1>4, <2>1, ConstantTypes DEF InAdd, Adding
  <2>3. Cardinality(InAdd') <= Cardinality(InAdd) /\ Cardinality(InAdd') \in Nat
    <3>1. InAdd' \in SUBSET InAdd
      BY <2>2
    <3> QED
      BY <1>1, <3>1, FS_Subset, FS_CardinalityType
  <2>4. LogSize * Cardinality(InAdd') <= LogSize * Cardinality(InAdd) /\ LogSize * Cardinality(InAdd') \in Nat
    BY <1>1, <2>3, Multiples, ConstantTypes
  <2>5. InFlushHand' = InFlushHand /\ RawBytes(builder)' = RawBytes(builder)
    BY <2>1, <2>2 DEF InFlushHand, RawBytes, ZipBytes
  <2> QED
    BY <1>1, <1>2, <2>4, <2>5
<1>6. ASSUME NEW t \in Threads, SendFun(t) PROVE Uncounted' <= Uncounted
  <2>1. UNCHANGED builder /\ \A u \in Threads \ {t} : hold'[u] = hold[u]
    BY <1>4, <1>6 DEF SendFun, SendExit, SendStart, SendDone, SendFailed, Return, Take, queues
  <2>2. pc[t] \in {"check", "post"} /\ \E to : to \in {"idle", "drainSender", "check", "post"} /\ Goto(t, to)
    BY <1>6 DEF SendFun, SendExit, SendStart, SendDone, SendFailed, Return, Take
  <2>3. CASE t # Flush
    BY <1>3, <1>4, <2>1, <2>2, <2>3, OthersLight DEF Adding
  <2>4. CASE t = Flush
    <3>1. pc'[Flush] \in {"idle", "drainSender", "check", "post"}
      BY <1>4, <2>2, <2>4 DEF Goto
    <3> QED
      BY <1>3, <2>1, <2>2, <2>4, <3>1, FlushAdds DEF InFlushHand
  <2> QED
    BY <2>3, <2>4
<1>7. ASSUME NEW t \in SendThreads, SenderStep(t) PROVE Uncounted' <= Uncounted
  <2>1. t \in Threads /\ t # Flush
    BY Kinds, ConstantTypes
  <2>2. /\ UNCHANGED builder /\ hold'[Flush] = hold[Flush] /\ pc[t] \notin Adding
        /\ \E to : to \notin Adding /\ Goto(t, to)
    BY <1>4, <1>7, <2>1 DEF Adding, SenderStep, SenderLoop, SenderPop, SenderPopTimeout, Take, queues
  <2> QED
    BY <1>3, <2>1, <2>2, OthersLight
<1>8. ASSUME DestroyStep PROVE Uncounted' <= Uncounted
  <2>1. /\ UNCHANGED builder /\ hold'[Flush] = hold[Flush] /\ pc[Destroyer] \notin Adding
        /\ \E to : to \notin Adding /\ Goto(Destroyer, to)
    BY <1>4, <1>8 DEF Adding, DestroyStep, WaitGroups, WaitParams, WaitSender, WaitTimeout, WaitOperand,
       Shutdown, JoinFlush, JoinSend, DrainSender, FreeTail, Take, queues
  <2> QED
    BY <1>3, <1>4, <2>1, OthersLight
<1>9. ASSUME FlushStep PROVE Uncounted' <= Uncounted
  <2>1. InAdd' = InAdd
    BY <1>9, FlushAdds DEF FlushStep, FlushLoop, DrainPop, DrainEnd, Unbook, Pack, PackFailed,
       TryTake, TrySkip, TryPush, TryRead, TryWrite, SendParam, PushParam, SendDirect, SendEnd, Take
  <2>2. CASE TryTake
    <3>1. /\ pc[Flush] = "try" /\ pc'[Flush] = "tryPush" /\ hold'[Flush] = builder /\ builder' = <<>>
      BY <1>4, <2>2 DEF TryTake, Take, Goto
    <3>2. InFlushHand = 0 /\ InFlushHand' = RawBytes(builder) /\ RawBytes(builder)' = 0
      BY <1>2, <3>1 DEF InFlushHand, RawBytes
    <3> QED
      BY <1>1, <1>2, <2>1, <3>2
  <2>3. CASE ~TryTake
    <3>1. UNCHANGED builder
      BY <1>9, <2>3 DEF FlushStep, FlushLoop, DrainPop, DrainEnd, Unbook, Pack, PackFailed,
         TrySkip, TryPush, TryRead, TryWrite, SendParam, PushParam, SendDirect, SendEnd, queues
    <3>2. InFlushHand' = InFlushHand \/ InFlushHand' = 0
      <4>1. \/ pc'[Flush] \notin {"tryPush", "tryRead", "tryWrite", "pack"}
            \/ /\ pc[Flush] \in {"tryPush", "tryRead"} /\ pc'[Flush] \in {"tryRead", "tryWrite"}
               /\ hold'[Flush] = hold[Flush]
        BY <1>4, <1>9, <2>3 DEF Booker, FlushStep, FlushLoop, DrainPop, DrainEnd, PackFailed,
           TrySkip, TryPush, TryRead, SendParam, PushParam, SendDirect, SendEnd, Take, Goto
      <4> QED
        BY <4>1 DEF InFlushHand, RawBytes
    <3>3. RawBytes(builder)' = RawBytes(builder)
      BY <3>1 DEF RawBytes
    <3> QED
      BY <1>1, <1>2, <2>1, <3>2, <3>3
  <2> QED
    BY <2>2, <2>3
<1>10. ASSUME UNCHANGED vars PROVE Uncounted' <= Uncounted
  BY <1>3, <1>10 DEF vars, queues, InAdd, InFlushHand, RawBytes, ZipBytes
<1> QED
  BY <1>5, <1>6, <1>7, <1>8, <1>9, <1>10 DEF Next, ClientStep, AddRefused, Freed, Booker

\* A step that makes nothing heavier.
Lighter == BookedBytes' + Uncounted' <= BookedBytes + Uncounted

LEMMA LighterBy ==
    ASSUME Inv, Filled, NEW n \in Int, Books(n), Uncounted' \in Int, Uncounted' + n <= Uncounted
    PROVE  Lighter
<1>1. Uncounted \in Int
  BY UncountedType
<1>2. \A b, u, v, m \in Int : v + m <= u => (b + m) + v <= b + u
  OBVIOUS
<1>3. BookedBytes \in Int /\ BookedBytes' = BookedBytes + n
  BY DEF Books
<1> QED
  BY <1>1, <1>2, <1>3 DEF Lighter

\* The log that is appended was counted as the call's.
LEMMA AddLighter ==
    ASSUME Inv, Homes, Filled, NEW c \in Clients, AddLocked(c), Next
    PROVE  Lighter
<1> DEFINE g == Append(builder, nextLog)
<1>1. /\ RawBytes(builder) \in Nat /\ LogSize * Cardinality(InAdd) \in Nat /\ InFlushHand \in Nat
      /\ Uncounted = RawBytes(builder) + LogSize * Cardinality(InAdd) + InFlushHand
      /\ Cardinality(InAdd) \in Nat /\ IsFiniteSet(InAdd)
  BY UncountedType
<1>2. /\ pc[c] \in Adding /\ pc' = [pc EXCEPT ![c] = "idle"] /\ hold' = hold /\ c # Flush
      /\ pc \in [Threads -> PCs] /\ Flush \in Threads /\ c \in Threads
      /\ builder \in Seq(Logs) /\ nextLog \in Logs /\ loggroupQ \in Seq(Seq(Logs))
  BY Kinds, ConstantTypes, AddFilled DEF Adding, AddLocked, Goto, Inv, TypeOK
<1>3. LogSize * Cardinality(InAdd') \in Nat /\ LogSize * Cardinality(InAdd) = LogSize * Cardinality(InAdd') + LogSize
  <2>1. InAdd' = InAdd \ {c} /\ c \in InAdd
    BY <1>2 DEF InAdd, Adding
  <2>2. Cardinality(InAdd') = Cardinality(InAdd) - 1
    BY <1>1, <2>1, FS_RemoveElement
  <2>3. Cardinality(InAdd') \in Nat
    BY <1>1, <2>1, FS_RemoveElement, FS_CardinalityType
  <2>4. Cardinality(InAdd) = Cardinality(InAdd') + 1 /\ 1 \in Nat /\ LogSize * 1 = LogSize
    BY <1>1, <2>2, <2>3, ConstantTypes
  <2> QED
    BY <2>3, <2>4, Multiples, ConstantTypes
<1>4. InFlushHand' = InFlushHand
  BY <1>2 DEF InFlushHand, RawBytes, ZipBytes
<1>5. Uncounted' = RawBytes(builder)' + LogSize * Cardinality(InAdd') + InFlushHand
  BY <1>4 DEF Uncounted
<1>6. g \in Seq(Logs) /\ RawBytes(g) \in Nat /\ RawBytes(g) = RawBytes(builder) + LogSize
  <2>1. g \in Seq(Logs) /\ Len(g) = Len(builder) + 1 /\ Len(builder) \in Nat /\ 1 \in Nat
    BY <1>2, AppendProperties, LenProperties
  <2>2. RawBytes(g) = LogSize * (Len(builder) + 1) /\ RawBytes(builder) = LogSize * Len(builder)
    BY <2>1 DEF RawBytes
  <2>3. LogSize * (Len(builder) + 1) = LogSize * Len(builder) + LogSize * 1 /\ LogSize * 1 = LogSize
    BY <2>1, Multiples, ConstantTypes
  <2> QED
    BY <2>1, <2>2, <2>3, BytesType
<1>7. RawBytes(<<>>) = 0
  BY ConstantTypes DEF RawBytes
<1>8. LogSize \in Nat
  BY ConstantTypes
<1> HIDE DEF g
<1>9. CASE UNCHANGED loggroupQ /\ Books(0)
  <2>1. RawBytes(builder)' = RawBytes(g) \/ RawBytes(builder)' = 0
    <3>1. builder' = g \/ builder' = <<>>
      BY DEF AddLocked, g
    <3> QED
      BY <1>7, <3>1 DEF RawBytes
  <2>2. Uncounted' \in Int /\ Uncounted' + 0 <= Uncounted
    <3>1. \A r, s, k, f \in Nat :
            /\ (r + s) + k + f + 0 <= r + (k + s) + f /\ 0 + k + f + 0 <= r + (k + s) + f
            /\ (r + s) + k + f \in Int /\ 0 + k + f \in Int
      OBVIOUS
    <3> QED
      BY <1>1, <1>3, <1>5, <1>6, <1>8, <2>1, <3>1
  <2> QED
    BY <1>9, <2>2, LighterBy
<1>10. CASE loggroupQ' = Append(loggroupQ, g) /\ Books(RawBytes(g))
  <2>1. builder' = <<>>
    <3>1. loggroupQ' # loggroupQ
      <4>1. Len(loggroupQ') = Len(loggroupQ) + 1 /\ Len(loggroupQ) \in Nat
        BY <1>2, <1>6, <1>10, AppendProperties, LenProperties
      <4> QED
        BY <4>1
    <3> QED
      BY <3>1 DEF AddLocked
  <2>2. RawBytes(builder)' = 0
    BY <1>7, <2>1 DEF RawBytes
  <2>3. Uncounted' \in Int /\ Uncounted' + RawBytes(g) <= Uncounted
    <3>1. \A r, s, k, f \in Nat :
            0 + k + f + (r + s) <= r + (k + s) + f /\ 0 + k + f \in Int
      OBVIOUS
    <3> QED
      BY <1>1, <1>3, <1>5, <1>6, <1>8, <2>2, <3>1
  <2>4. RawBytes(g) \in Int
    BY <1>6
  <2> QED
    BY <1>10, <2>3, <2>4, LighterBy
<1> QED
  BY <1>9, <1>10, AddBooks DEF g

\* The builder that is pushed last.
LEMMA LastLighter ==
    ASSUME Inv, Homes, Filled, PushLast, Next
    PROVE  Lighter
<1>1. /\ RawBytes(builder) \in Nat /\ LogSize * Cardinality(InAdd) \in Nat /\ InFlushHand \in Nat
      /\ Uncounted = RawBytes(builder) + LogSize * Cardinality(InAdd) + InFlushHand
  BY UncountedType
<1>2. /\ pc' = [pc EXCEPT ![Destroyer] = "waitGroups"] /\ pc[Destroyer] = "idle" /\ hold' = hold
      /\ Destroyer # Flush /\ pc \in [Threads -> PCs] /\ Flush \in Threads /\ builder' = <<>>
      /\ Destroyer \in Threads
  BY Kinds, ConstantTypes DEF PushLast, Running, Goto, Inv, TypeOK
<1>3. InAdd' = InAdd /\ InFlushHand' = InFlushHand
  <2>1. Destroyer \in Threads \ {Flush} /\ pc[Destroyer] \notin Adding /\ hold'[Flush] = hold[Flush]
    BY <1>2 DEF Adding
  <2>2. Goto(Destroyer, "waitGroups") /\ "waitGroups" \notin Adding
    BY <1>2 DEF Adding, Goto
  <2>3. \E to : to \notin Adding /\ Goto(Destroyer, to)
    BY <2>2
  <2> QED
    BY <2>1, <2>3, OthersLight
<1>4. RawBytes(builder)' = 0
  BY <1>2, ConstantTypes DEF RawBytes
<1>5. Uncounted' = LogSize * Cardinality(InAdd) + InFlushHand
  BY <1>1, <1>3, <1>4 DEF Uncounted
<1>6. /\ Uncounted' \in Int /\ Uncounted' + 0 <= Uncounted
      /\ Uncounted' + RawBytes(builder) <= Uncounted /\ RawBytes(builder) \in Int /\ 0 \in Int
  BY <1>1, <1>5
<1> QED
  BY <1>6, LastBooks, LighterBy

\* What is answered is taken off.
LEMMA DoneLighter ==
    ASSUME Inv, Homes, Filled, NEW t \in Threads, SendDone(t), Next
    PROVE  Lighter
<1>1. Uncounted \in Nat /\ Uncounted = RawBytes(builder) + LogSize * Cardinality(InAdd) + InFlushHand
  BY UncountedType
<1>2. /\ pc[t] = "post" /\ builder' = builder /\ pc \in [Threads -> PCs] /\ Flush \in Threads
      /\ hold \in [Threads -> Seq(Logs)]
      /\ \E to : to \in {"idle", "drainSender"} /\ Take(t, <<>>, to)
  BY ConstantTypes DEF SendDone, Return, Inv, TypeOK, queues
<1>3. InAdd' = InAdd /\ InFlushHand' = InFlushHand
  <2>1. CASE t # Flush
    <3>1. /\ hold'[Flush] = hold[Flush] /\ pc[t] \notin Adding
          /\ \E to : to \notin Adding /\ Goto(t, to)
      BY <1>2, <2>1 DEF Adding, Take
    <3> QED
      BY <1>2, <2>1, <3>1, OthersLight
  <2>2. CASE t = Flush
    <3>1. InAdd' = InAdd
      BY <1>2, <2>2, FlushAdds DEF Take
    <3>2. pc'[Flush] \in {"idle", "drainSender"}
      BY <1>2, <2>2 DEF Take, Goto
    <3> QED
      BY <1>2, <2>2, <3>1, <3>2 DEF InFlushHand
  <2> QED
    BY <2>1, <2>2
<1>4. Uncounted' = Uncounted
  BY <1>1, <1>2, <1>3 DEF Uncounted, RawBytes
<1>5. ZipBytes(hold[t]) \in Nat
  BY <1>2, BytesType
<1>6. /\ -ZipBytes(hold[t]) \in Int /\ Uncounted' \in Int
      /\ Uncounted' + (-ZipBytes(hold[t])) <= Uncounted
  BY <1>1, <1>4, <1>5
<1> QED
  BY <1>6, DoneBooks, LighterBy

\* Flush carries the group that it takes off and books again.
LEMMA FlushLighter ==
    ASSUME Inv, Inv', Homes, Filled, Unbook \/ Pack \/ TryWrite, Next, ~raced', ZipSize <= LogSize
    PROVE  Lighter
<1> DEFINE h == hold[Flush]
<1>1. /\ RawBytes(builder) \in Nat /\ LogSize * Cardinality(InAdd) \in Nat /\ InFlushHand \in Nat
      /\ Uncounted = RawBytes(builder) + LogSize * Cardinality(InAdd) + InFlushHand
  BY UncountedType
<1>2. /\ pc \in [Threads -> PCs] /\ hold \in [Threads -> Seq(Logs)] /\ Flush \in Threads
      /\ builder' = builder /\ InAdd' = InAdd
  <2>1. \E to : Goto(Flush, to)
    BY DEF Unbook, Pack, TryWrite, Take
  <2>2. builder' = builder
    BY DEF Unbook, Pack, TryWrite, queues
  <2> QED
    BY <2>1, <2>2, FlushAdds, ConstantTypes DEF Inv, TypeOK
<1>3. Uncounted' = RawBytes(builder) + LogSize * Cardinality(InAdd) + InFlushHand'
  BY <1>2 DEF Uncounted, RawBytes
<1>4. RawBytes(h) \in Nat /\ ZipBytes(h) \in Nat /\ ZipBytes(h) <= RawBytes(h)
  <2>1. h \in Seq(Logs) /\ Len(h) \in Nat
    BY <1>2, LenProperties
  <2>2. ZipSize * Len(h) <= LogSize * Len(h)
    BY <2>1, Multiples, ConstantTypes
  <2> QED
    BY <2>1, <2>2, BytesType DEF RawBytes, ZipBytes
<1>5. CASE Unbook
  <2>1. pc[Flush] = "unbook" /\ pc'[Flush] = "pack" /\ hold' = hold
    BY <1>2, <1>5 DEF Unbook, Goto
  <2>2. InFlushHand = 0 /\ InFlushHand' = ZipBytes(h)
    BY <2>1 DEF InFlushHand, ZipBytes
  <2>3. /\ -RawBytes(h) \in Int /\ Uncounted' \in Int /\ Uncounted' + (-RawBytes(h)) <= Uncounted
    <3> HIDE DEF h
    <3> QED
      BY <1>1, <1>3, <1>4, <2>2
  <2> QED
    BY <1>5, <2>3, UnbookBooks, LighterBy
<1>6. CASE Pack
  <2>1. pc[Flush] = "pack" /\ pc'[Flush] = "drain"
    BY <1>2, <1>6 DEF Pack, Take, Goto
  <2>2. InFlushHand = ZipBytes(h) /\ InFlushHand' = 0
    BY <2>1 DEF InFlushHand
  <2>3. ZipBytes(h) \in Int /\ Uncounted' \in Int /\ Uncounted' + ZipBytes(h) <= Uncounted
    <3> HIDE DEF h
    <3> QED
      BY <1>1, <1>3, <1>4, <2>2
  <2> QED
    BY <1>6, <2>3, PackBooks, LighterBy
<1>7. CASE TryWrite
  <2>1. pc[Flush] = "tryWrite" /\ pc'[Flush] = "send"
    BY <1>2, <1>7 DEF TryWrite, Take, Goto
  <2>2. InFlushHand = RawBytes(h) /\ InFlushHand' = 0
    BY <2>1 DEF InFlushHand
  <2>3. RawBytes(h) \in Int /\ Uncounted' \in Int /\ Uncounted' + RawBytes(h) <= Uncounted
    <3> HIDE DEF h
    <3> QED
      BY <1>1, <1>3, <1>4, <2>2
  <2> QED
    BY <1>7, <2>3, WriteBooks, LighterBy
<1> QED
  BY <1>5, <1>6, <1>7

\* The bounds: the excess with a raw package, and with a compressed one, in hand.
LEMMA ExcessType ==
    ASSUME Inv, Filled
    PROVE  /\ Excess(LogSize * (LogsPerPackage - 1)) \in Nat
           /\ Excess(ZipSize * LogsPerPackage) \in Nat
           /\ \/ Uncounted <= Excess(LogSize * (LogsPerPackage - 1))
              \/ Uncounted <= Excess(ZipSize * LogsPerPackage)
           /\ NoWrap /\ ZipSize <= LogSize =>
                /\ MaxBufferBytes + Excess(LogSize * (LogsPerPackage - 1)) < Width
                /\ MaxBufferBytes + Excess(ZipSize * LogsPerPackage) < Width
<1> DEFINE m == LogSize * (LogsPerPackage - 1)
           z == ZipSize * LogsPerPackage
           p == LogSize * LogsPerPackage
           k == LogSize * Cardinality(Clients)
           a == LogSize * Cardinality(InAdd)
           e == LogSize * (LogsPerPackage - 1 + Cardinality(Clients))
<1>1. /\ LogSize \in Nat /\ ZipSize \in Nat /\ LogsPerPackage \in Nat /\ LogsPerPackage - 1 \in Nat
      /\ MaxBufferBytes \in Nat /\ Width \in Nat
  BY SizesAssumption
<1>2. /\ RawBytes(builder) \in Nat /\ InFlushHand \in Nat /\ RawBytes(builder) <= m
      /\ Uncounted = RawBytes(builder) + a + InFlushHand
      /\ InFlushHand <= m \/ InFlushHand <= z
      /\ Cardinality(InAdd) \in Nat /\ Cardinality(Clients) \in Nat
      /\ Cardinality(InAdd) <= Cardinality(Clients)
  BY UncountedType
<1>3. m \in Nat /\ z \in Nat /\ p \in Nat /\ k \in Nat /\ a \in Nat /\ e = m + k /\ a <= k
  BY <1>1, <1>2, Multiples
<1>4. m <= p /\ (ZipSize <= LogSize => z <= p)
  <2>1. LogsPerPackage - 1 <= LogsPerPackage
    BY <1>1
  <2> QED
    BY <1>1, <2>1, Multiples
<1>5. \A i : Excess(i) = e + i
  BY DEF Excess
<1>6. NoWrap => MaxBufferBytes + (e + p) < Width
  BY <1>5 DEF NoWrap
<1> HIDE DEF m, z, p, k, a, e
<1>7. e \in Nat /\ e + m \in Nat /\ e + z \in Nat
  BY <1>3
<1>8. Uncounted <= e + m \/ Uncounted <= e + z
  BY <1>2, <1>3
<1>9. NoWrap /\ ZipSize <= LogSize => MaxBufferBytes + (e + m) < Width /\ MaxBufferBytes + (e + z) < Width
  BY <1>1, <1>3, <1>4, <1>6, <1>7
<1> QED
  BY <1>5, <1>7, <1>8, <1>9 DEF m, z

LEMMA Weights ==
    Inv /\ Filled => /\ BookedBytes \in Nat /\ Uncounted \in Nat
                     /\ \/ Uncounted <= Excess(LogSize * (LogsPerPackage - 1))
                        \/ Uncounted <= Excess(ZipSize * LogsPerPackage)
<1> SUFFICES ASSUME Inv, Filled PROVE /\ BookedBytes \in Nat /\ Uncounted \in Nat
                                      /\ \/ Uncounted <= Excess(LogSize * (LogsPerPackage - 1))
                                         \/ Uncounted <= Excess(ZipSize * LogsPerPackage)
  OBVIOUS
<1>1. /\ RawBytes(builder) \in Nat /\ LogSize * Cardinality(InAdd) \in Nat /\ InFlushHand \in Nat
      /\ Uncounted = RawBytes(builder) + LogSize * Cardinality(InAdd) + InFlushHand
  BY UncountedType
<1>2. Uncounted \in Nat
  BY <1>1
<1> QED
  BY <1>2, BookedType, ExcessType

\* The call that is let in finds totalBufferSize within maxBufferBytes, and what
\* totalBufferSize does not count is within the excess.
LEMMA AdmitWithin ==
    ASSUME Inv, Inv', Homes, Filled, Filled', Accounting, Within, NoWrap, Next,
           NEW c \in Clients, AddAdmitted(c)
    PROVE  Within'
<1> SUFFICES ASSUME ~raced', ZipSize <= LogSize
             PROVE  \/ BookedBytes' + Uncounted' <= MaxBufferBytes + Excess(LogSize * (LogsPerPackage - 1))
                    \/ BookedBytes' + Uncounted' <= MaxBufferBytes + Excess(ZipSize * LogsPerPackage)
  BY DEF Within, Excess
<1>1. ~raced /\ total <= MaxBufferBytes /\ total = BookedBytes % Width /\ ~Booker
  <2>1. ~raced /\ total <= MaxBufferBytes /\ UNCHANGED total
    BY RacedStays DEF AddAdmitted
  <2>2. total = BookedBytes % Width
    BY <2>1 DEF Accounting
  <2>3. ~Booker
    <3>1. c \in Threads /\ c # Flush /\ c # Destroyer /\ pc[c] = "idle" /\ pc' = [pc EXCEPT ![c] = "add"]
          /\ pc \in [Threads -> PCs] /\ Flush \in Threads /\ Destroyer \in Threads
          /\ RawClients \subseteq Threads /\ Clients \subseteq Threads /\ c \notin RawClients
      BY Kinds, ConstantTypes, ThreadsAssumption DEF AddAdmitted, Goto, Inv, TypeOK
    <3>2. pc'[c] = "add" /\ pc[c] # "add"
      BY <3>1
    <3>3. ASSUME NEW t \in Threads, NEW to, to # "add", Goto(t, to) PROVE FALSE
      BY <3>1, <3>2, <3>3 DEF Goto
    <3> QED
      BY <3>1, <3>3 DEF Booker, AddLocked, PushLast, RawBook, SendDone, Return, Unbook, Pack,
         TryWrite, Take
  <2> QED
    BY <2>1, <2>2, <2>3
<1>2. BookedBytes \in Nat /\ Uncounted \in Nat /\ BookedBytes' = BookedBytes
  <2>1. Books(0)
    BY <1>1, OtherBooks
  <2>2. \A x \in Int : x + 0 = x
    OBVIOUS
  <2> QED
    BY <2>1, <2>2, Weights DEF Books
<1>3. BookedBytes <= MaxBufferBytes
  <2>1. BookedBytes + Uncounted < Width
    <3>1. \/ BookedBytes + Uncounted <= MaxBufferBytes + Excess(LogSize * (LogsPerPackage - 1))
          \/ BookedBytes + Uncounted <= MaxBufferBytes + Excess(ZipSize * LogsPerPackage)
      BY <1>1 DEF Within
    <3>2. \A b, u, e, f, m, w \in Nat : (b + u <= m + e \/ b + u <= m + f) /\ m + e < w /\ m + f < w
             => b + u < w
      OBVIOUS
    <3>3. Width \in Nat /\ MaxBufferBytes \in Nat
      BY SizesAssumption
    <3> QED
      BY <1>2, <3>1, <3>2, <3>3, ExcessType
  <2>2. \A b, u \in Nat : \A w \in Nat \ {0} : b + u < w => b % w = b
    OBVIOUS
  <2>3. BookedBytes % Width = BookedBytes
    BY <1>2, <2>1, <2>2, SizesAssumption
  <2> QED
    BY <1>1, <2>3
<1>4. /\ Uncounted' \in Nat
      /\ \/ Uncounted' <= Excess(LogSize * (LogsPerPackage - 1))
         \/ Uncounted' <= Excess(ZipSize * LogsPerPackage)
  <2>1. (Inv /\ Filled => /\ BookedBytes \in Nat /\ Uncounted \in Nat
                          /\ \/ Uncounted <= Excess(LogSize * (LogsPerPackage - 1))
                             \/ Uncounted <= Excess(ZipSize * LogsPerPackage))'
    BY Weights, PTL
  <2> QED
    BY <2>1 DEF Excess
<1>5. \A b, u, e, f, m \in Nat : b <= m /\ (u <= e \/ u <= f) => b + u <= m + e \/ b + u <= m + f
  OBVIOUS
<1>6. MaxBufferBytes \in Nat
  BY SizesAssumption
<1> QED
  BY <1>2, <1>3, <1>4, <1>5, <1>6, ExcessType

LEMMA StepWithin ==
    ASSUME RawClients = {}, NoWrap
    PROVE  Inv /\ Inv' /\ Homes /\ Filled /\ Filled' /\ Accounting /\ Within /\ [Next]_vars => Within'
<1> SUFFICES ASSUME Inv, Inv', Homes, Filled, Filled', Accounting, Within, [Next]_vars PROVE Within'
  OBVIOUS
<1>1. CASE UNCHANGED vars
  BY <1>1 DEF vars, queues, ghosts, Within, BookedBytes, RawBooked, ZipBooked, Holds, Pending,
     Excess, Uncounted, InAdd, InFlushHand, RawBytes, ZipBytes
<1>2. CASE Next /\ \E c \in Clients : AddAdmitted(c)
  BY <1>2, AdmitWithin
<1>3. CASE Next /\ ~\E c \in Clients : AddAdmitted(c)
  <2> SUFFICES ASSUME ~raced', ZipSize <= LogSize
               PROVE  \/ BookedBytes' + Uncounted' <= MaxBufferBytes + Excess(LogSize * (LogsPerPackage - 1))
                      \/ BookedBytes' + Uncounted' <= MaxBufferBytes + Excess(ZipSize * LogsPerPackage)
    BY DEF Within, Excess
  <2>1. BookedBytes \in Nat /\ Uncounted \in Nat /\ Uncounted' \in Nat /\ BookedBytes' \in Nat
    <3>1. (Inv /\ Filled => /\ BookedBytes \in Nat /\ Uncounted \in Nat
                            /\ \/ Uncounted <= Excess(LogSize * (LogsPerPackage - 1))
                               \/ Uncounted <= Excess(ZipSize * LogsPerPackage))'
      BY Weights, PTL
    <3> QED
      BY <3>1, Weights
  <2>2. Lighter
    <3>1. CASE ~Booker
      <4>1. Books(0) /\ Uncounted' <= Uncounted
        BY <1>3, <3>1, OtherBooks, OtherLight
      <4>2. Uncounted' \in Int /\ 0 \in Int /\ \A x \in Int : x + 0 = x
        BY <2>1
      <4>3. Uncounted' + 0 <= Uncounted
        BY <4>1, <4>2
      <4> QED
        BY <4>1, <4>2, <4>3, LighterBy
    <3>2. CASE Booker
      BY <1>3, <3>2, AddLighter, LastLighter, DoneLighter, FlushLighter DEF Booker
    <3> QED
      BY <3>1, <3>2
  <2>3. \/ BookedBytes + Uncounted <= MaxBufferBytes + Excess(LogSize * (LogsPerPackage - 1))
        \/ BookedBytes + Uncounted <= MaxBufferBytes + Excess(ZipSize * LogsPerPackage)
    BY <1>3, RacedStays DEF Within
  <2>4. \A x, y, a, b \in Int : y <= x /\ (x <= a \/ x <= b) => y <= a \/ y <= b
    OBVIOUS
  <2>5. /\ MaxBufferBytes + Excess(LogSize * (LogsPerPackage - 1)) \in Int
        /\ MaxBufferBytes + Excess(ZipSize * LogsPerPackage) \in Int
    <3>1. \A m, e \in Nat : m + e \in Int
      OBVIOUS
    <3> QED
      BY <3>1, ExcessType, SizesAssumption
  <2>6. BookedBytes + Uncounted \in Int /\ BookedBytes' + Uncounted' \in Int
    BY <2>1
  <2> QED
    BY <2>2, <2>3, <2>4, <2>5, <2>6 DEF Lighter
<1> QED
  BY <1>1, <1>2, <1>3

LEMMA InitWithin == Init => Within
<1> SUFFICES ASSUME Init PROVE Within
  OBVIOUS
<1>1. Inv /\ Filled
  BY InitInv, InitFilled
<1>2. BookedBytes = 0
  <2>1. ASSUME NEW l \in Logs PROVE l \notin RawBooked /\ l \notin ZipBooked
    <3>1. /\ loggroupQ = <<>> /\ senderQ = <<>> /\ DOMAIN Pending = {} /\ fate[l] = "new"
          /\ \A t \in Threads : pc[t] = "idle"
      BY DEF Init, Pending
    <3> QED
      BY <3>1, ConstantTypes DEF RawBooked, ZipBooked, Holds, InQueue
  <2>2. RawBooked = {} /\ ZipBooked = {}
    BY <2>1 DEF RawBooked, ZipBooked
  <2> QED
    BY <2>2, FS_EmptySet, ConstantTypes DEF BookedBytes
<1>3. /\ Uncounted <= Excess(LogSize * (LogsPerPackage - 1)) \/ Uncounted <= Excess(ZipSize * LogsPerPackage)
      /\ Excess(LogSize * (LogsPerPackage - 1)) \in Nat /\ Excess(ZipSize * LogsPerPackage) \in Nat
      /\ Uncounted \in Nat
  BY <1>1, ExcessType, Weights
<1>4. \A u, e, m \in Nat : u <= e => 0 + u <= m + e
  OBVIOUS
<1> QED
  BY <1>2, <1>3, <1>4, SizesAssumption DEF Within

\* What is held within the bound is counted within the bound.
LEMMA WithinOvershoot == Inv /\ Filled /\ Accounting /\ Within => Overshoot
<1> SUFFICES ASSUME Inv, Filled, Accounting, Within, ~raced, ZipSize <= LogSize
             PROVE  \/ total + Uncounted <= MaxBufferBytes + Excess(LogSize * (LogsPerPackage - 1))
                    \/ total + Uncounted <= MaxBufferBytes + Excess(ZipSize * LogsPerPackage)
  BY DEF Overshoot
<1>1. BookedBytes \in Nat /\ Uncounted \in Nat /\ total = BookedBytes % Width /\ total \in Nat
  BY Weights, ConstantTypes DEF Accounting, Inv, TypeOK
<1>2. total <= BookedBytes
  <2>1. \A b \in Nat : \A w \in Nat \ {0} : b % w <= b
    OBVIOUS
  <2> QED
    BY <1>1, <2>1, SizesAssumption
<1>3. \/ BookedBytes + Uncounted <= MaxBufferBytes + Excess(LogSize * (LogsPerPackage - 1))
      \/ BookedBytes + Uncounted <= MaxBufferBytes + Excess(ZipSize * LogsPerPackage)
  BY DEF Within
<1>4. \A t, b, u, m, e \in Nat : t <= b /\ b + u <= m + e => t + u <= m + e
  OBVIOUS
<1> QED
  BY <1>1, <1>2, <1>3, <1>4, ExcessType, SizesAssumption

\* A producer that gets no raw buffers, and whose maxBufferBytes is far from 2^32,
\* never holds more than maxBufferBytes and the builder's last package, a log of each
\* client in add_log, and one package in Flush's hand - unless the unlocked += has
\* overwritten an update, or a package grew when it was compressed.
THEOREM OvershootBounded == RawClients = {} /\ NoWrap => (Spec => []Overshoot)
<1> SUFFICES ASSUME RawClients = {}, NoWrap PROVE Spec => []Overshoot
  OBVIOUS
<1>1. Spec => [](Inv /\ Homes /\ Filled)
  BY AlwaysFilled
<1>2. Spec => []Accounting
  BY CountExact
<1>3. Inv /\ Inv' /\ Homes /\ Filled /\ Filled' /\ Accounting /\ Within /\ [Next]_vars => Within'
  BY StepWithin
<1> QED
  BY <1>1, <1>2, <1>3, InitWithin, WithinOvershoot, PTL DEF Spec

-----------------------------------------------------------------------------
(***************************************************************************)
(* Which packages are overtaken                                            *)
(***************************************************************************)
\* A group that is not full, or of logs that are all later than a.
Behind(g, a) == Len(g) < LogsPerPackage \/ \A b \in Range(g) : a < b
AllBehind(q, a) == \A i \in DOMAIN q : Behind(q[i], a)
Lined(q) == \A i, j \in DOMAIN q : i < j => \A a \in Range(q[i]) : Behind(q[j], a)

\* Logs that are in front of loggroup_queue, and logs that have left the builder
\* (and are still in its thread's hands, or in order behind it).
Ahead(a) == packOf[a] > 0 \/ Holds(Flush, {"unbook"}, a)
Taken(a) == \/ InQueue(loggroupQ, a) \/ packOf[a] > 0
            \/ Holds(Flush, {"unbook", "tryPush"}, a)

\* The groups that are full are behind all that goes in front of them.
Line ==
    /\ Lined(loggroupQ)
    /\ \A a \in Logs : Ahead(a) => AllBehind(loggroupQ, a)
    /\ pc[Flush] = "unbook" => \A a \in Logs : packOf[a] > 0 => Behind(hold[Flush], a)
    /\ \A b \in Range(builder) : \A a \in Logs : Taken(a) => a < b

\* A group is pushed, ...
LEMMA LinedAppend ==
    ASSUME NEW q \in Seq(Seq(Logs)), NEW g \in Seq(Logs)
    PROVE  /\ Lined(q) /\ (\A a \in Logs : InQueue(q, a) => Behind(g, a)) => Lined(Append(q, g))
           /\ \A a : AllBehind(q, a) /\ Behind(g, a) => AllBehind(Append(q, g), a)
<1>1. /\ Len(q) \in Nat /\ DOMAIN q = 1 .. Len(q)
      /\ DOMAIN Append(q, g) = 1 .. Len(q) + 1 /\ Append(q, g)[Len(q) + 1] = g
      /\ \A i \in 1 .. Len(q) : Append(q, g)[i] = q[i]
  BY AppendProperties, LenProperties
<1>2. ASSUME Lined(q), \A a \in Logs : InQueue(q, a) => Behind(g, a),
             NEW i \in 1 .. Len(q) + 1, NEW j \in 1 .. Len(q) + 1, i < j,
             NEW a \in Range(Append(q, g)[i])
      PROVE  Behind(Append(q, g)[j], a)
  <2>1. i \in 1 .. Len(q) /\ a \in Range(q[i])
    BY <1>1, <1>2
  <2>2. CASE j \in 1 .. Len(q)
    BY <1>1, <1>2, <2>1, <2>2 DEF Lined
  <2>3. CASE j = Len(q) + 1
    BY <1>1, <1>2, <2>1, <2>3, InLogs
  <2> QED
    BY <1>1, <2>2, <2>3
<1>3. ASSUME NEW a, AllBehind(q, a), Behind(g, a), NEW i \in 1 .. Len(q) + 1
      PROVE  Behind(Append(q, g)[i], a)
  <2>1. i \in 1 .. Len(q) \/ i = Len(q) + 1
    BY <1>1
  <2> QED
    BY <1>1, <1>3, <2>1 DEF AllBehind
<1> QED
  BY <1>1, <1>2, <1>3 DEF Lined, AllBehind

\* ... or popped.
LEMMA LinedTail ==
    ASSUME NEW q \in Seq(Seq(Logs)), q # <<>>
    PROVE  /\ Lined(q) => /\ Lined(Tail(q))
                          /\ \A a \in Range(Head(q)) : AllBehind(Tail(q), a)
           /\ \A a : AllBehind(q, a) => Behind(Head(q), a) /\ AllBehind(Tail(q), a)
<1>1. /\ Len(q) \in Nat /\ DOMAIN q = 1 .. Len(q) /\ Head(q) = q[1] /\ 1 \in 1 .. Len(q)
      /\ DOMAIN Tail(q) = 1 .. Len(q) - 1
      /\ \A i \in 1 .. Len(q) - 1 : Tail(q)[i] = q[i + 1] /\ i + 1 \in 1 .. Len(q)
  BY HeadTailProperties, LenProperties, EmptySeq
<1>2. ASSUME Lined(q), NEW i \in 1 .. Len(q) - 1, NEW j \in 1 .. Len(q) - 1, i < j,
             NEW a \in Range(Tail(q)[i])
      PROVE  Behind(Tail(q)[j], a)
  <2>1. i + 1 < j + 1
    BY <1>2
  <2> QED
    BY <1>1, <1>2, <2>1 DEF Lined
<1>3. ASSUME Lined(q), NEW a \in Range(Head(q)), NEW j \in 1 .. Len(q) - 1
      PROVE  Behind(Tail(q)[j], a)
  <2>1. 1 < j + 1
    OBVIOUS
  <2> QED
    BY <1>1, <1>3, <2>1 DEF Lined
<1>4. ASSUME NEW a, AllBehind(q, a) PROVE Behind(Head(q), a) /\ AllBehind(Tail(q), a)
  BY <1>1, <1>4 DEF AllBehind
<1> QED
  BY <1>1, <1>2, <1>3, <1>4 DEF Lined, AllBehind

\* What has left the builder has a number that was given before.
LEMMA TakenOld ==
    ASSUME Inv, Homes, Indexed, NEW a \in Logs, Taken(a)
    PROVE  a < nextLog
<1>1. ASSUME a >= nextLog PROVE FALSE
  <2>1. fate[a] = "new" /\ ~InQueue(loggroupQ, a) /\ \A t \in Threads : a \notin Range(hold[t])
    BY <1>1, NewNowhere
  <2>2. packOf[a] = 0
    BY <2>1 DEF Indexed
  <2> QED
    BY <2>1, <2>2, ConstantTypes DEF Taken, Holds
<1>2. a \in Nat /\ nextLog \in Nat
  BY DEF Logs, Inv, TypeOK
<1> QED
  BY <1>1, <1>2

\* A step that leaves the builder, the queue and the indices alone.
LEMMA LineKept ==
    ASSUME Line, UNCHANGED <<builder, loggroupQ, packOf>>,
           \/ pc'[Flush] = pc[Flush] /\ hold'[Flush] = hold[Flush]
           \/ pc'[Flush] \notin {"unbook", "tryPush"}
    PROVE  Line'
<1>1. \A a : (Ahead(a)' => Ahead(a)) /\ (Taken(a)' => Taken(a))
  BY DEF Ahead, Taken, Holds
<1>2. pc'[Flush] = "unbook" => \A a \in Logs : packOf'[a] > 0 => Behind(hold'[Flush], a)
  BY DEF Line
<1>3. Lined(loggroupQ') /\ \A a \in Logs : Ahead(a)' => AllBehind(loggroupQ', a)
  BY <1>1 DEF Line
<1>4. \A b \in Range(builder') : \A a \in Logs : Taken(a)' => a < b
  BY <1>1 DEF Line
<1> QED
  BY <1>2, <1>3, <1>4 DEF Line, Lined, AllBehind, Behind

\* A client, or the destroyer, leaves Flush alone: a group that is pushed is behind
\* everything, and so is a log that is appended to the builder.
LEMMA LinePushed ==
    ASSUME Inv, Line, NEW g \in Seq(Logs), UNCHANGED packOf,
           pc'[Flush] = pc[Flush], hold'[Flush] = hold[Flush],
           \A b \in Range(g) : \A a \in Logs : Taken(a) => a < b,
           \/ builder' = g /\ UNCHANGED loggroupQ
           \/ builder' = <<>> /\ UNCHANGED loggroupQ
           \/ builder' = <<>> /\ loggroupQ' = Append(loggroupQ, g)
    PROVE  Line'
<1>1. loggroupQ \in Seq(Seq(Logs)) /\ \A a : Ahead(a)' <=> Ahead(a)
  BY DEF Inv, TypeOK, Ahead, Holds
<1>2. pc'[Flush] = "unbook" => \A a \in Logs : packOf'[a] > 0 => Behind(hold'[Flush], a)
  BY DEF Line
<1>3. Lined(loggroupQ') /\ \A a \in Logs : Ahead(a)' => AllBehind(loggroupQ', a)
  <2>1. CASE UNCHANGED loggroupQ
    BY <1>1, <2>1 DEF Line
  <2>2. CASE loggroupQ' = Append(loggroupQ, g)
    <3>1. \A a \in Logs : InQueue(loggroupQ, a) \/ Ahead(a) => Behind(g, a)
      BY DEF Taken, Ahead, Behind, Holds
    <3> QED
      BY <1>1, <2>2, <3>1, LinedAppend DEF Line
  <2> QED
    BY <2>1, <2>2
<1>4. \A b \in Range(builder') : \A a \in Logs : Taken(a)' => a < b
  <2>1. CASE builder' = <<>>
    BY <2>1, RangeSeq
  <2>2. CASE builder' = g /\ UNCHANGED loggroupQ
    BY <2>2 DEF Taken, Holds
  <2> QED
    BY <2>1, <2>2
<1> QED
  BY <1>2, <1>3, <1>4 DEF Line, Lined, AllBehind, Behind

LEMMA AddLine ==
    ASSUME Inv, Homes, Filled, Indexed, Line, NEW c \in Clients, AddLocked(c)
    PROVE  Line'
<1> DEFINE g == Append(builder, nextLog)
<1>1. /\ g \in Seq(Logs) /\ nextLog \in Logs /\ Range(g) = Range(builder) \cup {nextLog}
  BY AddFilled, GroupTypes, RangeSeq DEF Inv, TypeOK
<1>2. \A b \in Range(g) : \A a \in Logs : Taken(a) => a < b
  BY <1>1, TakenOld DEF Line
<1>3. pc'[Flush] = pc[Flush] /\ hold'[Flush] = hold[Flush] /\ UNCHANGED packOf
  BY Kinds, ConstantTypes DEF AddLocked, Goto, Inv, TypeOK, ghosts
<1>4. \/ builder' = g /\ UNCHANGED loggroupQ
      \/ builder' = <<>> /\ UNCHANGED loggroupQ
      \/ builder' = <<>> /\ loggroupQ' = Append(loggroupQ, g)
  BY DEF AddLocked
<1> HIDE DEF g
<1> QED
  BY <1>1, <1>2, <1>3, <1>4, LinePushed

LEMMA LastLine == ASSUME Inv, Line, PushLast PROVE Line'
<1>1. pc'[Flush] = pc[Flush] /\ hold'[Flush] = hold[Flush] /\ UNCHANGED packOf /\ builder \in Seq(Logs)
  BY Kinds, ConstantTypes DEF PushLast, ghosts, Goto, Inv, TypeOK
<1>2. \/ builder' = <<>> /\ UNCHANGED loggroupQ
      \/ builder' = <<>> /\ loggroupQ' = Append(loggroupQ, builder)
  BY DEF PushLast
<1>3. \A b \in Range(builder) : \A a \in Logs : Taken(a) => a < b
  BY DEF Line
<1> QED
  BY <1>1, <1>2, <1>3, LinePushed

\* What Flush takes from the builder is not full: it may be pushed behind anything.
LEMMA TryLine ==
    ASSUME Inv, Filled, Line, TryTake \/ TryPush
    PROVE  Line'
<1>1. pc \in [Threads -> PCs] /\ hold \in [Threads -> Seq(Logs)] /\ Flush \in Threads
      /\ loggroupQ \in Seq(Seq(Logs)) /\ UNCHANGED packOf
  BY ConstantTypes DEF Inv, TypeOK, TryTake, TryPush, ghosts
<1>2. CASE TryTake
  <2>1. /\ pc[Flush] = "try" /\ pc'[Flush] = "tryPush" /\ builder' = <<>> /\ UNCHANGED loggroupQ
    BY <1>1, <1>2 DEF TryTake, Take, Goto
  <2>2. \A a : Ahead(a)' <=> Ahead(a)
    BY <1>1, <2>1 DEF Ahead, Holds
  <2>3. Lined(loggroupQ') /\ \A a \in Logs : Ahead(a)' => AllBehind(loggroupQ', a)
    BY <2>1, <2>2 DEF Line
  <2> QED
    BY <2>1, <2>3, RangeSeq DEF Line, Lined, AllBehind, Behind
<1>3. CASE TryPush /\ UNCHANGED loggroupQ
  <2>1. UNCHANGED builder /\ pc'[Flush] \in {"tryRead", "send"}
    BY <1>1, <1>3 DEF TryPush, Take, Goto
  <2> QED
    BY <1>1, <1>3, <2>1, LineKept
<1>4. CASE TryPush /\ loggroupQ' = Append(loggroupQ, hold[Flush])
  <2>1. /\ pc[Flush] = "tryPush" /\ pc'[Flush] \in {"tryRead", "send"} /\ UNCHANGED builder
        /\ hold[Flush] \in Seq(Logs)
    BY <1>1, <1>4 DEF TryPush, Take, Goto
  <2>2. \A a : Behind(hold[Flush], a)
    <3>1. Len(hold[Flush]) < LogsPerPackage
      <4>1. Len(hold[Flush]) <= LogsPerPackage - 1 /\ Len(hold[Flush]) \in Nat
        BY <2>1, LenProperties DEF Filled, Unfilled, Sized
      <4> QED
        BY <4>1, SizesAssumption
    <3> QED
      BY <3>1 DEF Behind
  <2>3. Lined(loggroupQ') /\ \A a \in Logs : Ahead(a)' => AllBehind(loggroupQ', a)
    <3>1. \A a : Ahead(a)' => Ahead(a)
      BY <1>1, <2>1 DEF Ahead, Holds
    <3> QED
      BY <1>1, <1>4, <2>1, <2>2, <3>1, LinedAppend DEF Line
  <2>4. \A a : Taken(a)' => Taken(a)
    BY <1>1, <1>4, <2>1, AppendIn DEF Taken, Holds
  <2>5. \A b \in Range(builder') : \A a \in Logs : Taken(a)' => a < b
    BY <2>1, <2>4 DEF Line
  <2> QED
    BY <2>1, <2>3, <2>5 DEF Line, Lined, AllBehind, Behind
<1> QED
  BY <1>2, <1>3, <1>4 DEF TryPush

\* The group popped is behind what has an index, and in front of the others.
LEMMA PopLine == ASSUME Inv, Line, DrainPop PROVE Line'
<1>1. /\ loggroupQ \in Seq(Seq(Logs)) /\ loggroupQ # <<>> /\ loggroupQ' = Tail(loggroupQ)
      /\ pc[Flush] = "drain" /\ pc'[Flush] = "unbook" /\ hold'[Flush] = Head(loggroupQ)
      /\ UNCHANGED <<builder, packOf>>
  BY ConstantTypes DEF DrainPop, Take, Goto, Inv, TypeOK, ghosts
<1>2. \A l : InQueue(loggroupQ, l) <=> l \in Range(Head(loggroupQ)) \/ InQueue(Tail(loggroupQ), l)
  BY <1>1, InTail
<1>3. Lined(loggroupQ') /\ \A a \in Logs : Ahead(a)' => AllBehind(loggroupQ', a)
  <2>1. \A a : Ahead(a)' => packOf[a] > 0 \/ a \in Range(Head(loggroupQ))
    BY <1>1 DEF Ahead, Holds
  <2>2. \A a \in Logs : packOf[a] > 0 => AllBehind(loggroupQ, a)
    BY DEF Line, Ahead
  <2> QED
    BY <1>1, <2>1, <2>2, LinedTail DEF Line
<1>4. \A a \in Logs : packOf'[a] > 0 => Behind(hold'[Flush], a)
  BY <1>1, LinedTail DEF Line, Ahead
<1>5. \A b \in Range(builder') : \A a \in Logs : Taken(a)' => a < b
  <2>1. \A a : Taken(a)' => Taken(a)
    BY <1>1, <1>2 DEF Taken, Holds
  <2> QED
    BY <1>1, <2>1 DEF Line
<1> QED
  BY <1>3, <1>4, <1>5 DEF Line, Lined, AllBehind, Behind

\* The group that gets its index was in front of the queue already.
LEMMA UnbookLine == ASSUME Inv, Line, Unbook PROVE Line'
<1>1. /\ pc[Flush] = "unbook" /\ pc'[Flush] = "pack" /\ UNCHANGED <<builder, loggroupQ>>
      /\ packIndex \in Nat /\ packOf \in [Logs -> Nat]
      /\ packOf' = [l \in Logs |-> IF l \in Range(hold[Flush]) THEN packIndex + 1 ELSE packOf[l]]
  BY ConstantTypes DEF Unbook, Goto, Inv, TypeOK
<1>2. \A a \in Logs : (Ahead(a)' => Ahead(a)) /\ (Taken(a)' => Taken(a))
  BY <1>1 DEF Ahead, Taken, Holds
<1>3. Lined(loggroupQ') /\ \A a \in Logs : Ahead(a)' => AllBehind(loggroupQ', a)
  BY <1>1, <1>2 DEF Line
<1>4. \A b \in Range(builder') : \A a \in Logs : Taken(a)' => a < b
  BY <1>1, <1>2 DEF Line
<1> QED
  BY <1>1, <1>3, <1>4 DEF Line, Lined, AllBehind, Behind

\* The other steps bring Flush no group from the queue or the builder.
LEMMA StepLine ==
    Inv /\ Homes /\ Filled /\ Indexed /\ Line /\ [Next]_vars => Line'
<1> SUFFICES ASSUME Inv, Homes, Filled, Indexed, Line, [Next]_vars PROVE Line'
  OBVIOUS
<1>1. CASE UNCHANGED vars
  BY <1>1, LineKept DEF vars, queues, ghosts
<1>2. CASE \E c \in Clients : AddLocked(c)
  BY <1>2, AddLine
<1>3. CASE PushLast \/ TryTake \/ TryPush \/ DrainPop \/ Unbook
  BY <1>3, LastLine, TryLine, PopLine, UnbookLine
<1>4. CASE /\ Next /\ ~(\E c \in Clients : AddLocked(c))
           /\ ~(PushLast \/ TryTake \/ TryPush \/ DrainPop \/ Unbook)
  <2>1. UNCHANGED <<builder, loggroupQ, packOf>>
    BY <1>4, QueueMoves, PackMoves
  <2>2. \/ pc'[Flush] = pc[Flush] /\ hold'[Flush] = hold[Flush]
        \/ pc'[Flush] \notin {"unbook", "tryPush"}
    <3>1. pc \in [Threads -> PCs] /\ Flush \in Threads /\ TypeOK
      BY ConstantTypes DEF Inv, TypeOK
    <3>2. CASE SendFun(Flush)
      BY <3>1, <3>2, ConstantTypes DEF SendFun, SendExit, SendStart, SendDone, SendFailed, Return, Take, Goto
    <3>3. CASE FlushStep
      BY <1>4, <3>1, <3>3 DEF FlushStep, FlushLoop, DrainEnd, Pack, PackFailed,
         TrySkip, TryRead, TryWrite, SendParam, PushParam, SendDirect, SendEnd, Take, Goto
    <3> QED
      BY <1>4, <3>1, <3>2, <3>3, FlushMoves
  <2> QED
    BY <2>1, <2>2, LineKept
<1> QED
  BY <1>1, <1>2, <1>3, <1>4

LEMMA InitLine == Init => Line
<1> SUFFICES ASSUME Init PROVE Line
  OBVIOUS
<1>1. /\ loggroupQ = <<>> /\ DOMAIN loggroupQ = {} /\ pc[Flush] = "idle" /\ Range(builder) = {}
  BY RangeSeq, ConstantTypes DEF Init
<1> QED
  BY <1>1 DEF Line, Lined, AllBehind

\* A package gets an index greater than a later log's only if it is not full, and it
\* has no other logs than those it had in Flush's hands.
LEMMA StepOvertaken ==
    Inv /\ Filled /\ Indexed /\ Line /\ OvertakenNotFull /\ [Next]_vars => OvertakenNotFull'
<1> DEFINE Class(p, a) == {l \in Logs : p[l] = p[a]}
<1> SUFFICES ASSUME Inv, Filled, Indexed, Line, OvertakenNotFull, [Next]_vars,
                    NEW a \in Logs, NEW b \in Logs, a < b, packOf'[b] > 0, packOf'[a] > packOf'[b]
             PROVE  Cardinality(Class(packOf', a)) < LogsPerPackage
  BY DEF OvertakenNotFull
<1>1. CASE UNCHANGED packOf
  BY <1>1 DEF OvertakenNotFull
<1>2. CASE Unbook
  <2>1. /\ pc[Flush] = "unbook" /\ packIndex \in Nat /\ packOf \in [Logs -> Nat]
        /\ hold[Flush] \in Groups
        /\ packOf' = [l \in Logs |-> IF l \in Range(hold[Flush]) THEN packIndex + 1 ELSE packOf[l]]
        /\ \A l \in Logs : packOf[l] <= packIndex
    BY <1>2, ConstantTypes DEF Unbook, Inv, TypeOK, Filled, Indexed
  <2>2. b \notin Range(hold[Flush])
    BY <2>1
  <2>3. CASE a \in Range(hold[Flush])
    <3>1. Behind(hold[Flush], b)
      BY <2>1, <2>2 DEF Line
    <3>2. Len(hold[Flush]) < LogsPerPackage
      <4>1. ~\A l \in Range(hold[Flush]) : b < l
        BY <2>3 DEF Logs
      <4> QED
        BY <3>1, <4>1 DEF Behind
    <3>3. Class(packOf', a) = Range(hold[Flush])
      <4>1. Range(hold[Flush]) \subseteq Logs
        BY <2>1, GroupTypes
      <4>2. \A l \in Logs : l \in Range(hold[Flush]) <=> packOf'[l] = packIndex + 1
        BY <2>1
      <4> QED
        BY <2>3, <4>1, <4>2
    <3> QED
      BY <2>1, <3>2, <3>3, GroupTypes
  <2>4. CASE a \notin Range(hold[Flush])
    <3>1. packOf'[a] = packOf[a] /\ packOf'[b] = packOf[b]
      BY <2>1, <2>2, <2>4
    <3>2. Cardinality(Class(packOf, a)) < LogsPerPackage
      BY <3>1 DEF OvertakenNotFull
    <3>3. Class(packOf', a) \in SUBSET Class(packOf, a)
      BY <2>1, <3>1
    <3>4. IsFiniteSet(Class(packOf, a))
      <4>1. Class(packOf, a) \in SUBSET Logs
        OBVIOUS
      <4>2. IsFiniteSet(Logs)
        BY FS_Interval, SizesAssumption DEF Logs
      <4> QED
        BY <4>1, <4>2, FS_Subset
    <3>5. /\ Cardinality(Class(packOf', a)) <= Cardinality(Class(packOf, a))
          /\ Cardinality(Class(packOf', a)) \in Nat /\ Cardinality(Class(packOf, a)) \in Nat
      <4> HIDE DEF Class
      <4> QED
        BY <3>3, <3>4, FS_Subset, FS_CardinalityType
    <3> QED
      BY <3>2, <3>5, SizesAssumption
  <2> QED
    BY <2>3, <2>4
<1> QED
  BY <1>1, <1>2, PackMoves DEF vars, ghosts

\* However add_log and the flush thread interleave, a package whose index is greater
\* than that of a later log has room left: packages that fill up are in order.
THEOREM OnlyUnfilledOvertaken == Spec => []OvertakenNotFull
<1>1. Init => OvertakenNotFull
  BY DEF Init, OvertakenNotFull
<1>2. Spec => [](Inv /\ Homes /\ Filled)
  BY AlwaysFilled
<1>3. Spec => []Indexed
  BY <1>2, InitOrder, StepOrder, PTL DEF Spec
<1>4. Spec => []Line
  BY <1>2, <1>3, InitLine, StepLine, PTL DEF Spec
<1> QED
  BY <1>1, <1>2, <1>3, <1>4, StepOvertaken, PTL DEF Spec
=============================================================================
