------------------------- MODULE GlobalSenders_proofs -------------------------
(***************************************************************************)
(* Proofs about GlobalSenders, for any number of producers and workers and *)
(* any size of the queue: who is where, every buffer in one place, what    *)
(* ref_count counts, and that the pool implements Reclamation.             *)
(***************************************************************************)
EXTENDS GlobalSenders, QueueLemmas

-----------------------------------------------------------------------------
(***************************************************************************)
(* The inductive invariant                                                 *)
(***************************************************************************)
FlushPCs == {"loop", "send", "push", "check", "post", "exit"}
WorkerPCs == {"unborn", "loop", "pop", "check", "post", "release", "tail", "exit"}
EnvPCs == {"loop", "join", "drain", "check", "post", "release", "tail", "done"}
PCsOf(t) == IF t \in Producers THEN FlushPCs ELSE IF t \in Workers THEN WorkerPCs ELSE EnvPCs

Placed == \A t \in Threads : pc[t] \in PCsOf(t)

\* Who has a parameter in his hands; a flush thread has a buffer of its own.
Carrying == {"push", "check", "post", "release", "tail"}
Handed == \A t \in Threads :
    /\ pc[t] \in Carrying <=> hold[t] # Nothing
    /\ t \in Producers /\ hold[t] # Nothing => hold[t].manager = t /\ hold[t].buf # 0
    /\ pc[t] = "post" => hold[t].buf # 0

Holders(x) == {t \in Threads : hold[t] = x}
Copies(x) == Count(queue, {x}) + Cardinality(Holders(x))
Issued(x) == IF x.buf = 0 THEN exitPc[x.manager] = "returned" ELSE x.buf <= rd[x.manager]

\* A parameter is in one slot of the queue or in one thread's hands.
Single == \A x \in Params : Copies(x) <= 1 /\ (Copies(x) > 0 => Issued(x))

\* A buffer on its way to its end.
Queued(x) == Count(queue, {x}) > 0
Underway(x) == \/ Queued(x)
               \/ \E t \in Threads : hold[t] = x /\ pc[t] \in {"push", "check", "post"}
Fated == \A x \in Params : x.buf # 0 =>
    /\ Underway(x) <=> x.buf <= rd[x.manager] /\ fate[x.manager][x.buf] = "none"
    /\ fate[x.manager][x.buf] # "none" => x.buf <= rd[x.manager]

PoolPCs(t) == IF t \in Producers THEN {"push"} ELSE {"check", "post", "release"}
InPool(x) == Queued(x) \/ \E t \in Threads : hold[t] = x /\ pc[t] \in PoolPCs(t)

\* A step that lets nothing into the pool and nothing out.
PoolSame == \A x \in Params : InPool(x)' <=> InPool(x)

\* RefCounted, of the parameters in the pool.
Param(p, n) == [manager |-> p, buf |-> n]
Buffers(p) == {n \in 1 .. MaxBuffers : InPool(Param(p, n))}
FirstRef(p) == exitPc[p] # "returned" \/ InPool(Param(p, 0))
Counted == \A p \in Producers : frees[p] = 0 =>
    refCount[p] = Cardinality(Buffers(p)) + (IF FirstRef(p) THEN 1 ELSE 0)

\* What the environment's progress says of the others.
Staged ==
    /\ pool = "none" => /\ queue = <<>>
                        /\ \A w \in Workers : pc[w] \in {"unborn", "exit"}
                        /\ pc[Env] \in {"loop", "done"}
                        /\ \A p \in Producers : pc[p] # "push" /\ exitPc[p] # "push"
    /\ pc[Env] # "loop" => \A p \in Producers : exitPc[p] = "returned"
    /\ pc[Env] \notin {"loop", "join"} => \A w \in Workers : pc[w] \in {"unborn", "exit"}
    /\ pc[Env] = "done" => pool = "none"

\* Nothing of producer p is in a slot or in a thread's hands.
Gone(p) == \A x \in Params : x.manager = p => Copies(x) = 0
FreeingLast(p) == \E t \in Threads : pc[t] = "tail" /\ hold[t].manager = p

\* How far the destruction of a producer has come.
Exited == \A p \in Producers :
    /\ exitPc[p] \in {"push", "tail", "returned"} => pc[p] = "exit"
    /\ exitPc[p] # "returned" => frees[p] = 0
    /\ exitPc[p] = "tail" => Gone(p)
    /\ frees[p] > 0 => frees[p] = 1 /\ Gone(p)
    /\ exitPc[p] = "returned" /\ frees[p] = 0 => refCount[p] > 0 \/ FreeingLast(p)

\* Who found the last reference is alone with the producer.
Last == \A t \in Threads : pc[t] = "tail" =>
    LET p == hold[t].manager IN
    /\ refCount[p] = 0 /\ frees[p] = 0
    /\ \A u \in Threads : pc[u] = "tail" /\ hold[u].manager = p => u = t

Inv == TypeOK /\ Placed /\ Handed /\ Single /\ Fated /\ Staged /\ Exited /\ Last /\ Counted

-----------------------------------------------------------------------------
(***************************************************************************)
(* Threads and parameters                                                  *)
(***************************************************************************)
\* The kinds of threads, and their number.
LEMMA Kinds ==
    /\ Producers \subseteq Threads /\ Workers \subseteq Threads /\ Env \in Threads
    /\ \A w \in Workers : w \notin Producers /\ w # Env
    /\ Env \notin Producers
    /\ IsFiniteSet(Threads)
    /\ QueueSize \in Nat \ {0} /\ MaxBuffers \in Nat
<1>1. IsFiniteSet(Producers \cup Workers)
  BY ThreadsAssumption, FS_Union
<1>2. IsFiniteSet(Producers \cup Workers \cup {Env})
  BY <1>1, FS_AddElement
<1> QED
  BY <1>2, ThreadsAssumption, SizesAssumption DEF Threads

\* A parameter is not nothing, and it is its producer and its number.
LEMMA ParamFacts ==
    /\ Nothing \notin Params
    /\ \A p \in Producers, n \in 0 .. MaxBuffers :
         /\ Param(p, n) \in Params /\ Param(p, n).manager = p /\ Param(p, n).buf = n
    /\ \A x \in Params : /\ x.manager \in Producers /\ x.buf \in 0 .. MaxBuffers
                         /\ x = Param(x.manager, x.buf)
<1>1. Nothing \notin Params
  <2>1. \A x \in Params : DOMAIN x = {"manager", "buf"}
    BY DEF Params
  <2>2. DOMAIN Nothing = {}
    BY DEF Nothing
  <2> QED
    BY <2>1, <2>2
<1> QED
  BY <1>1 DEF Params, Param

\* How many buffers the others have made is a number.
LEMMA MadeType == ASSUME NEW p \in Producers PROVE MadeByOthers(p) \in Nat
<1> DEFINE S == (Producers \ {p}) \X (1 .. MaxBuffers)
<1>1. IsFiniteSet(1 .. MaxBuffers) /\ IsFiniteSet(Producers \ {p})
  BY Kinds, FS_Interval, FS_RemoveElement, ThreadsAssumption
<1>2. IsFiniteSet(S)
  BY <1>1, FS_Product
<1>3. IsFiniteSet({made \in S : made[2] <= wr[made[1]]})
  BY <1>2, FS_Subset
<1> QED
  BY <1>3, FS_CardinalityType DEF MadeByOthers

\* A step of one thread.
LEMMA GotoFacts ==
    ASSUME TypeOK, NEW t \in Threads, NEW to \in PCs, Goto(t, to)
    PROVE  /\ pc' \in [Threads -> PCs] /\ pc'[t] = to
           /\ \A u \in Threads : u # t => pc'[u] = pc[u]
  BY DEF TypeOK, Goto

\* ... that takes something, or lays it down.
LEMMA TakeFacts ==
    ASSUME TypeOK, NEW t \in Threads, NEW to \in PCs, NEW h \in Params \cup {Nothing},
           Take(t, h, to)
    PROVE  /\ pc' \in [Threads -> PCs] /\ pc'[t] = to
           /\ hold' \in [Threads -> Params \cup {Nothing}] /\ hold'[t] = h
           /\ \A u \in Threads : u # t => pc'[u] = pc[u] /\ hold'[u] = hold[u]
  BY DEF TypeOK, Take, Goto

\* The queue as a push and a pop leave it.
LEMMA QueueTypes ==
    ASSUME TypeOK
    PROVE  /\ \A x \in Params : Append(queue, x) \in Seq(Params) /\ Len(Append(queue, x)) = Len(queue) + 1
           /\ Len(queue) \in Nat
           /\ queue # <<>> => /\ Head(queue) \in Params /\ Tail(queue) \in Seq(Params)
                              /\ Len(Tail(queue)) = Len(queue) - 1
<1>1. queue \in Seq(Params)
  BY DEF TypeOK
<1> QED
  BY <1>1, AppendProperties, HeadTailProperties, LenProperties

\* Who carries something, and what it is.
LEMMA HandFacts ==
    ASSUME TypeOK, Placed, Handed, NEW t \in Threads
    PROVE  /\ pc[t] \in Carrying => /\ hold[t] \in Params
                                    /\ hold[t].manager \in Producers
                                    /\ hold[t].buf \in 0 .. MaxBuffers
           /\ pc[t] \notin Carrying => hold[t] = Nothing
           /\ t \in Producers => pc[t] \in FlushPCs
           /\ t \in Workers => pc[t] \in WorkerPCs
           /\ t \notin Producers => pc[t] \in WorkerPCs \cup EnvPCs
           /\ pc[Env] \in EnvPCs
<1>1. hold[t] \in Params \cup {Nothing} /\ Env \in Threads
  BY Kinds DEF TypeOK
<1> QED
  BY <1>1, Kinds, ParamFacts DEF Handed, Placed, PCsOf, Threads

-----------------------------------------------------------------------------
(***************************************************************************)
(* What a step does to the copies of a parameter                           *)
(***************************************************************************)
\* The copies of a parameter are counted, and none means nowhere.
LEMMA CopiesFacts ==
    ASSUME TypeOK, NEW x \in Params
    PROVE  /\ IsFiniteSet(Holders(x)) /\ Cardinality(Holders(x)) \in Nat
           /\ Count(queue, {x}) \in Nat /\ Copies(x) \in Nat
           /\ Cardinality(Holders(x)) = 0 <=> \A t \in Threads : hold[t] # x
           /\ Copies(x) = 0 <=> ~Queued(x) /\ \A t \in Threads : hold[t] # x
           /\ Queued(x) <=> x \in Range(queue)
<1>1. IsFiniteSet(Holders(x)) /\ (Cardinality(Holders(x)) = 0 <=> Holders(x) = {})
  <2>1. Holders(x) \in SUBSET Threads
    BY DEF Holders
  <2> QED
    BY <2>1, Kinds, FS_Subset, FS_EmptySet
<1>2. Cardinality(Holders(x)) \in Nat
  BY <1>1, FS_CardinalityType
<1>3. Count(queue, {x}) \in Nat /\ (Queued(x) <=> x \in Range(queue))
  <2>1. queue \in Seq(Params)
    BY DEF TypeOK
  <2>2. /\ Count(queue, {x}) \in Nat
        /\ Count(queue, {x}) = 0 <=> \A i \in DOMAIN queue : queue[i] \notin {x}
    BY <2>1, CountType
  <2> QED
    BY <2>2 DEF Queued, Range
<1>4. Holders(x) = {} <=> \A t \in Threads : hold[t] # x
  BY DEF Holders
<1> QED
  BY <1>1, <1>2, <1>3, <1>4 DEF Copies, Queued

\* At most one copy: what a thread holds is neither queued nor held by another,
\* and what is queued is there once and held by none.
LEMMA SingleFacts ==
    ASSUME TypeOK, Single, NEW x \in Params
    PROVE  /\ \A t \in Threads : hold[t] = x =>
                Copies(x) = 1 /\ ~Queued(x) /\ Issued(x) /\ \A u \in Threads : hold[u] = x => u = t
           /\ Queued(x) => Copies(x) = 1 /\ Count(queue, {x}) = 1 /\ Issued(x)
                           /\ \A t \in Threads : hold[t] # x
<1>1. Copies(x) <= 1 /\ (Copies(x) > 0 => Issued(x))
  BY DEF Single
<1>2. ASSUME NEW t \in Threads, hold[t] = x
      PROVE  Copies(x) = 1 /\ ~Queued(x) /\ Issued(x) /\ \A u \in Threads : hold[u] = x => u = t
  <2>1. Cardinality(Holders(x)) # 0
    BY <1>2, CopiesFacts
  <2>2. Cardinality(Holders(x)) = 1 /\ Count(queue, {x}) = 0 /\ Copies(x) = 1
    BY <1>1, <2>1, CopiesFacts DEF Copies
  <2>3. PICK v : Holders(x) = {v}
    BY <2>2, CopiesFacts, FS_Singleton
  <2> QED
    BY <1>1, <1>2, <2>2, <2>3 DEF Holders, Queued
<1>3. ASSUME Queued(x)
      PROVE  Copies(x) = 1 /\ Count(queue, {x}) = 1 /\ Issued(x) /\ \A t \in Threads : hold[t] # x
  <2>1. Count(queue, {x}) = 1 /\ Cardinality(Holders(x)) = 0 /\ Copies(x) = 1
    BY <1>1, <1>3, CopiesFacts DEF Copies, Queued
  <2> QED
    BY <1>1, <2>1, CopiesFacts
<1> QED
  BY <1>2, <1>3

\* A step of one thread's hands, which leaves the queue alone.
LEMMA HandStep ==
    ASSUME TypeOK, NEW t \in Threads, UNCHANGED queue,
           \A u \in Threads : u # t => hold'[u] = hold[u],
           NEW x \in Params
    PROVE  /\ Queued(x)' <=> Queued(x)
           /\ Copies(x)' = Copies(x) + (IF hold'[t] = x THEN 1 ELSE 0)
                                     - (IF hold[t] = x THEN 1 ELSE 0)
<1>1. Queued(x)' <=> Queued(x)
  BY DEF Queued
<1>2. Holders(x) \ {t} = Holders(x)' \ {t}
  BY DEF Holders
<1>3. /\ Cardinality(Holders(x)) \in Nat /\ Cardinality(Holders(x)') \in Nat
      /\ Cardinality(Holders(x)') = Cardinality(Holders(x)) + (IF t \in Holders(x)' THEN 1 ELSE 0)
                                                            - (IF t \in Holders(x) THEN 1 ELSE 0)
  <2>1. IsFiniteSet(Holders(x))
    BY CopiesFacts
  <2> QED
    BY <1>2, <2>1, OneDiffers
<1>4. (t \in Holders(x)' <=> hold'[t] = x) /\ (t \in Holders(x) <=> hold[t] = x)
  BY DEF Holders
<1>5. Count(queue, {x}) \in Nat
  BY CopiesFacts
<1> QED
  BY <1>1, <1>3, <1>4, <1>5 DEF Copies

\* A thread pushes what it holds.
LEMMA PushStep ==
    ASSUME TypeOK, NEW t \in Threads, hold[t] \in Params,
           queue' = Append(queue, hold[t]), hold'[t] = Nothing,
           \A u \in Threads : u # t => hold'[u] = hold[u],
           NEW x \in Params
    PROVE  Copies(x)' = Copies(x) /\ (Queued(x)' <=> Queued(x) \/ x = hold[t])
<1>1. queue \in Seq(Params)
  BY DEF TypeOK
<1>2. Count(queue', {x}) = Count(queue, {x}) + (IF hold[t] \in {x} THEN 1 ELSE 0)
  BY <1>1, CountAppend
<1>3. Holders(x) \ {t} = Holders(x)' \ {t}
  BY DEF Holders
<1>4. Cardinality(Holders(x)') = Cardinality(Holders(x)) + (IF t \in Holders(x)' THEN 1 ELSE 0)
                                                         - (IF t \in Holders(x) THEN 1 ELSE 0)
  BY <1>3, CopiesFacts, OneDiffers
<1>5. ~(t \in Holders(x)') /\ (t \in Holders(x) <=> hold[t] = x)
  BY ParamFacts DEF Holders
<1>6. Count(queue, {x}) \in Nat /\ Cardinality(Holders(x)) \in Nat
  BY CopiesFacts
<1> QED
  BY <1>2, <1>4, <1>5, <1>6 DEF Copies, Queued

\* A thread pops what it then holds.
LEMMA PopStep ==
    ASSUME TypeOK, Single, NEW t \in Threads, queue # <<>>, hold[t] = Nothing,
           queue' = Tail(queue), hold'[t] = Head(queue),
           \A u \in Threads : u # t => hold'[u] = hold[u],
           NEW x \in Params
    PROVE  /\ Copies(x)' = Copies(x) /\ (Queued(x)' <=> Queued(x) /\ x # Head(queue))
           /\ Queued(Head(queue))
<1>1. queue \in Seq(Params) /\ Head(queue) \in Params
  BY QueueTypes DEF TypeOK
<1> DEFINE h == Head(queue)
<1>2. /\ Count(queue, {x}) = Count(queue', {x}) + (IF h = x THEN 1 ELSE 0)
      /\ Count(queue, {h}) = Count(queue', {h}) + 1
  <2>1. \A y : Count(queue, {y}) = Count(Tail(queue), {y}) + (IF h \in {y} THEN 1 ELSE 0)
    BY <1>1, CountTail
  <2> QED
    BY <2>1
<1>3. Holders(x) \ {t} = Holders(x)' \ {t}
  BY DEF Holders
<1>4. Cardinality(Holders(x)') = Cardinality(Holders(x)) + (IF t \in Holders(x)' THEN 1 ELSE 0)
                                                         - (IF t \in Holders(x) THEN 1 ELSE 0)
  BY <1>3, CopiesFacts, OneDiffers
<1>5. (t \in Holders(x)' <=> Head(queue) = x) /\ ~(t \in Holders(x))
  BY ParamFacts DEF Holders
<1>6. /\ Count(queue, {x}) \in Nat /\ Count(queue', {x}) \in Nat
      /\ Count(queue', {h}) \in Nat /\ Cardinality(Holders(x)) \in Nat
  <2>1. queue' \in Seq(Params)
    BY QueueTypes
  <2> QED
    BY <1>1, <2>1, CopiesFacts, CountType
<1>7. Queued(Head(queue))
  BY <1>1, <1>2, <1>6 DEF Queued
<1>8. Copies(x)' = Copies(x)
  BY <1>2, <1>4, <1>5, <1>6 DEF Copies
<1>9. Queued(x)' <=> Queued(x) /\ x # Head(queue)
  <2>1. Queued(x) => Count(queue, {x}) = 1
    BY SingleFacts
  <2> QED
    BY <1>1, <1>2, <1>6, <2>1 DEF Queued
<1> QED
  BY <1>7, <1>8, <1>9

-----------------------------------------------------------------------------
(***************************************************************************)
(* Steps that move a thread and no parameter                               *)
(***************************************************************************)
\* The pool's parameters are as they were.
LEMMA CountedSame ==
    ASSUME Counted, UNCHANGED <<refCount, frees>>,
           \A p \in Producers : exitPc'[p] = "returned" <=> exitPc[p] = "returned",
           PoolSame
    PROVE  Counted'
<1> SUFFICES ASSUME NEW p \in Producers, frees[p] = 0
             PROVE  refCount[p] = Cardinality(Buffers(p)') + (IF FirstRef(p)' THEN 1 ELSE 0)
  BY DEF Counted
<1>1. \A n \in 0 .. MaxBuffers : InPool(Param(p, n))' <=> InPool(Param(p, n))
  BY ParamFacts DEF PoolSame
<1>2. Buffers(p)' = Buffers(p)
  BY <1>1, Kinds DEF Buffers
<1>3. FirstRef(p)' <=> FirstRef(p)
  BY <1>1, Kinds DEF FirstRef
<1> QED
  BY <1>2, <1>3 DEF Counted

\* A thread goes from one place to another, and nothing is handed over.
LEMMA MoveStep ==
    ASSUME Inv, NEW t \in Threads, NEW to \in PCsOf(t), Goto(t, to),
           UNCHANGED <<queue, refCount, rd, exitPc, frees, hold, fate>>,
           pc[t] \in Carrying <=> to \in Carrying,
           pc[t] \in PoolPCs(t) <=> to \in PoolPCs(t),
           pc[t] \in {"push", "check", "post"} /\ hold[t].buf # 0 <=>
               to \in {"push", "check", "post"} /\ hold[t].buf # 0,
           pc[t] \notin {"tail", "exit"}, to # "tail", to = "post" => hold[t].buf # 0
    PROVE  Placed' /\ Handed' /\ Single' /\ Fated' /\ Exited' /\ Last' /\ Counted' /\ PoolSame
<1> USE DEF Inv
<1>1. /\ pc'[t] = to /\ pc' \in [Threads -> PCs]
      /\ \A u \in Threads : u # t => pc'[u] = pc[u]
  <2>1. to \in PCs
    BY DEF PCsOf, FlushPCs, WorkerPCs, EnvPCs, PCs
  <2> QED
    BY <2>1, GotoFacts
<1>2. Placed'
  BY <1>1 DEF Placed, PCsOf
<1>3. Handed'
  BY <1>1 DEF Handed
<1>4. \A x \in Params : (Queued(x)' <=> Queued(x)) /\ Copies(x)' = Copies(x)
  BY DEF Queued, Copies, Holders
<1>5. Single'
  BY <1>4 DEF Single, Issued
<1>6. \A x \in Params : x.buf # 0 => (Underway(x)' <=> Underway(x))
  BY <1>1, <1>4 DEF Underway
<1>7. Fated'
  BY <1>6 DEF Fated
<1>8. PoolSame
  BY <1>1, <1>4 DEF PoolSame, InPool, PoolPCs
<1>9. Counted'
  BY <1>8, CountedSame
<1>10. Last'
  BY <1>1 DEF Last
<1>11. Exited'
  <2>1. \A p \in Producers : FreeingLast(p)' <=> FreeingLast(p)
    BY <1>1 DEF FreeingLast
  <2>2. \A p \in Producers : Gone(p)' <=> Gone(p)
    BY <1>4 DEF Gone
  <2>3. \A p \in Producers : exitPc[p] \in {"push", "tail", "returned"} => pc'[p] = "exit"
    BY <1>1, Kinds DEF Exited
  <2> QED
    BY <2>1, <2>2, <2>3 DEF Exited
<1> QED
  BY <1>2, <1>3, <1>5, <1>7, <1>8, <1>9, <1>10, <1>11

\* A step of a thread other than the environment keeps Staged, if it pushes only with a pool.
LEMMA StagedOther ==
    ASSUME Inv, NEW t \in Threads, t # Env, NEW to, Goto(t, to),
           UNCHANGED <<pool, exitPc>>, pc[t] \notin {"unborn", "exit"} \/ t \in Producers,
           pool = "none" => queue' = queue /\ to # "push"
    PROVE  Staged'
<1> USE DEF Inv
<1>1. /\ \A u \in Threads : u # t => pc'[u] = pc[u]
      /\ pc'[t] = to /\ pc'[Env] = pc[Env]
  BY Kinds DEF Goto, TypeOK
<1>2. t \in Workers => pool # "none" /\ pc[Env] \in {"loop", "join"}
  BY Kinds DEF Staged
<1>3. \A u \in Workers : u # t => pc'[u] = pc[u]
  BY <1>1, Kinds
<1>4. \A p \in Producers : pc'[p] = pc[p] \/ p = t
  BY <1>1, Kinds
<1> QED
  BY <1>1, <1>2, <1>3, <1>4 DEF Staged

\* A flush thread's round, its end, and the thread's.
LEMMA FlushMoves ==
    ASSUME Inv, NEW p \in Producers, FlushRound(p) \/ FlushExit(p) \/ FlushEnd(p)
    PROVE  Inv' /\ PoolSame
<1> USE DEF Inv
<1>1. PICK to \in {"send", "exit", "loop"} : Goto(p, to)
  BY DEF FlushRound, FlushExit, FlushEnd
<1>2. UNCHANGED <<pool, queue, refCount, rd, exitPc, frees, hold, fate, shutdown>>
  BY DEF FlushRound, FlushExit, FlushEnd, manager
<1>3. pc[p] \in {"loop", "send"} /\ p \in Threads /\ p # Env
  BY Kinds DEF FlushRound, FlushExit, FlushEnd
<1>4. /\ to \in PCsOf(p) /\ to \notin Carrying /\ pc[p] \notin Carrying
      /\ to \notin PoolPCs(p) /\ pc[p] \notin PoolPCs(p)
  BY <1>3 DEF PCsOf, FlushPCs, Carrying, PoolPCs
<1>5. Placed' /\ Handed' /\ Single' /\ Fated' /\ Exited' /\ Last' /\ Counted' /\ PoolSame
  BY <1>1, <1>2, <1>3, <1>4, MoveStep
<1>6. Staged'
  BY <1>1, <1>2, <1>3, StagedOther
<1>7. wr' \in [Producers -> 0 .. MaxBuffers]
  <2>1. CASE FlushRound(p)
    <3>1. PICK n \in wr[p] .. MaxBuffers - MadeByOthers(p) : wr' = [wr EXCEPT ![p] = n]
      BY <2>1 DEF FlushRound
    <3>2. wr[p] \in 0 .. MaxBuffers /\ MadeByOthers(p) \in Nat
      BY MadeType DEF TypeOK
    <3>3. n \in 0 .. MaxBuffers
      BY <3>2, Kinds
    <3> QED
      BY <3>1, <3>3 DEF TypeOK
  <2>2. CASE FlushExit(p) \/ FlushEnd(p)
    BY <2>2 DEF TypeOK, FlushExit, FlushEnd, manager
  <2> QED
    BY <2>1, <2>2
<1>8. pc' \in [Threads -> PCs]
  BY <1>1, <1>3, GotoFacts DEF PCs
<1> QED
  BY <1>2, <1>5, <1>6, <1>7, <1>8 DEF TypeOK

\* The send function's steps that keep the parameter in hand.
LEMMA SendMoves ==
    ASSUME Inv, NEW t \in Threads, SendNothing(t) \/ SendStart(t) \/ SendFailed(t)
    PROVE  Inv' /\ PoolSame
<1> USE DEF Inv
<1>1. PICK to \in {"release", "post", "check"} : Goto(t, to) /\
          (to = "release" <=> SendNothing(t)) /\ (to # "release" => hold[t].buf # 0)
  BY DEF SendNothing, SendStart, SendFailed, IsDestroyParam, Handed
<1>2. UNCHANGED <<pool, queue, refCount, rd, wr, exitPc, frees, hold, fate, shutdown>>
  BY DEF SendNothing, SendStart, SendFailed, manager
<1>3. pc[t] \in {"check", "post"} /\ pc[t] \in Carrying
  BY DEF SendNothing, SendStart, SendFailed, Carrying
<1>4. to = "release" => pc[t] = "check" /\ hold[t].buf = 0 /\ t \notin Producers
  BY <1>1, <1>3, HandFacts DEF SendNothing, IsDestroyParam, Handed
<1>5. to \in PCsOf(t) /\ to \in Carrying /\ (pc[t] \in PoolPCs(t) <=> to \in PoolPCs(t))
  <2>1. t \in Producers \/ t \in Workers \/ t = Env
    BY DEF Threads
  <2> QED
    BY <1>1, <1>3, <1>4, <2>1 DEF PCsOf, FlushPCs, WorkerPCs, EnvPCs, Carrying, PoolPCs
<1>6. Placed' /\ Handed' /\ Single' /\ Fated' /\ Exited' /\ Last' /\ Counted' /\ PoolSame
  BY <1>1, <1>2, <1>3, <1>4, <1>5, MoveStep
<1>7. pc' \in [Threads -> PCs]
  BY <1>1, GotoFacts DEF PCs
<1>8. Staged'
  <2>1. CASE t # Env
    BY <1>1, <1>2, <1>3, <2>1, StagedOther
  <2>2. CASE t = Env
    <3>1. \A u \in Threads : u # t => pc'[u] = pc[u]
      BY <1>1 DEF Goto, TypeOK
    <3>2. pool # "none" /\ pc[Env] \notin {"loop", "join", "done"}
      BY <1>3, <2>2 DEF Staged
    <3>3. pc'[Env] \notin {"loop", "join", "done"}
      BY <1>1, <2>2 DEF Goto, TypeOK
    <3> QED
      BY <1>2, <3>1, <3>2, <3>3, <2>2, Kinds DEF Staged
  <2> QED
    BY <2>1, <2>2
<1> QED
  BY <1>2, <1>6, <1>7, <1>8 DEF TypeOK

\* A worker goes to the queue, and back from an empty one.
LEMMA WorkerMoves ==
    ASSUME Inv, NEW w \in Workers, WorkerLoop(w) \/ WorkerPopTimeout(w)
    PROVE  Inv' /\ PoolSame
<1> USE DEF Inv
<1>1. PICK to \in {"exit", "pop", "loop"} : Goto(w, to)
  BY DEF WorkerLoop, WorkerPopTimeout
<1>2. UNCHANGED <<pool, queue, refCount, rd, wr, exitPc, frees, hold, fate, shutdown>>
  BY DEF WorkerLoop, WorkerPopTimeout, manager
<1>3. pc[w] \in {"loop", "pop"} /\ w \in Threads /\ w # Env /\ w \notin Producers
  BY Kinds DEF WorkerLoop, WorkerPopTimeout
<1>4. /\ to \in PCsOf(w) /\ to \notin Carrying /\ pc[w] \notin Carrying
      /\ to \notin PoolPCs(w) /\ pc[w] \notin PoolPCs(w)
  BY <1>3 DEF PCsOf, WorkerPCs, Carrying, PoolPCs
<1>5. Placed' /\ Handed' /\ Single' /\ Fated' /\ Exited' /\ Last' /\ Counted' /\ PoolSame
  BY <1>1, <1>2, <1>3, <1>4, MoveStep
<1>6. Staged'
  BY <1>1, <1>2, <1>3, StagedOther
<1>7. pc' \in [Threads -> PCs]
  BY <1>1, <1>3, GotoFacts DEF PCs
<1> QED
  BY <1>2, <1>5, <1>6, <1>7 DEF TypeOK

\* The environment stops the pool, joins the workers, and destroys the empty queue.
LEMMA EnvMoves ==
    ASSUME Inv, EnvDestroy \/ EnvJoin \/ EnvDone
    PROVE  Inv' /\ PoolSame
<1> USE DEF Inv
<1>1. PICK to \in {"done", "join", "drain"} : Goto(Env, to)
  BY DEF EnvDestroy, EnvJoin, EnvDone
<1>2. UNCHANGED <<queue, refCount, rd, wr, exitPc, frees, hold, fate, shutdown>>
  BY DEF EnvDestroy, EnvJoin, EnvDone, manager
<1>3. pc[Env] \in {"loop", "join", "drain"} /\ Env \in Threads /\ Env \notin Producers
      /\ Env \notin Workers
  BY Kinds DEF EnvDestroy, EnvJoin, EnvDone
<1>4. /\ to \in PCsOf(Env) /\ to \notin Carrying /\ pc[Env] \notin Carrying
      /\ to \notin PoolPCs(Env) /\ pc[Env] \notin PoolPCs(Env)
  BY <1>3 DEF PCsOf, EnvPCs, Carrying, PoolPCs
<1>5. Placed' /\ Handed' /\ Single' /\ Fated' /\ Exited' /\ Last' /\ Counted' /\ PoolSame
  BY <1>1, <1>2, <1>3, <1>4, MoveStep
<1>6. pc' \in [Threads -> PCs] /\ pc'[Env] = to /\ \A u \in Threads : u # Env => pc'[u] = pc[u]
  BY <1>1, <1>3, GotoFacts DEF PCs
<1>7. /\ \A w \in Workers : pc'[w] = pc[w]
      /\ \A p \in Producers : pc'[p] = pc[p]
  BY <1>6, Kinds
<1>8. Staged'
  <2>1. CASE EnvDestroy
    BY <1>1, <1>2, <1>6, <1>7, <2>1 DEF EnvDestroy, Staged, Goto, TypeOK
  <2>2. CASE EnvJoin
    BY <1>1, <1>2, <1>6, <1>7, <2>2 DEF EnvJoin, Staged, Goto, TypeOK
  <2>3. CASE EnvDone
    <3>1. \A p \in Producers : pc[p] = "exit" /\ exitPc[p] = "returned"
      BY <2>3 DEF EnvDone, Staged, Exited
    <3> QED
      BY <1>1, <1>2, <1>6, <1>7, <2>3, <3>1 DEF EnvDone, Staged, Goto, TypeOK
  <2> QED
    BY <2>1, <2>2, <2>3
<1>9. pool' \in {"none", "running", "stopping"}
  BY DEF EnvDestroy, EnvJoin, EnvDone, TypeOK
<1> QED
  BY <1>2, <1>5, <1>6, <1>8, <1>9 DEF TypeOK

\* The workers are born.
LEMMA GlobalInitStep == ASSUME Inv, GlobalInit PROVE Inv' /\ PoolSame
<1> USE DEF Inv
<1>1. /\ UNCHANGED <<queue, refCount, rd, wr, exitPc, frees, hold, fate, shutdown>>
      /\ pc[Env] = "loop" /\ pool = "none" /\ pool' = "running"
  BY DEF GlobalInit, manager
<1>2. /\ pc' \in [Threads -> PCs]
      /\ \A t \in Threads : pc'[t] = IF t \in Workers THEN "loop" ELSE pc[t]
  BY DEF GlobalInit, TypeOK, PCs
<1>3. \A w \in Workers : w \in Threads /\ pc[w] \notin Carrying /\ pc'[w] \notin Carrying
  BY <1>1, <1>2, Kinds DEF Staged, Carrying
<1>4. pc'[Env] = pc[Env] /\ \A p \in Producers : pc'[p] = pc[p]
  BY <1>2, Kinds
<1>5. TypeOK'
  BY <1>1, <1>2 DEF TypeOK
<1>6. Placed'
  BY <1>2, Kinds DEF Placed, PCsOf, WorkerPCs
<1>7. Handed'
  BY <1>1, <1>2, <1>3 DEF Handed, Carrying
<1>8. Single'
  BY <1>1 DEF Single, Copies, Holders, Issued
<1>9. \A t \in Threads : pc'[t] \in Carrying \/ pc[t] \in Carrying => pc'[t] = pc[t]
  BY <1>2, <1>3
<1>10. PoolSame /\ \A x \in Params : Underway(x)' <=> Underway(x)
  BY <1>1, <1>9 DEF PoolSame, Underway, Queued, InPool, PoolPCs, Carrying
<1>11. Fated' /\ Counted'
  BY <1>1, <1>10, CountedSame DEF Fated
<1>12. Staged'
  BY <1>1, <1>4, Kinds DEF Staged
<1>13. Last'
  BY <1>1, <1>9 DEF Last, Carrying
<1>14. Exited'
  <2>1. \A p \in Producers : (FreeingLast(p)' <=> FreeingLast(p)) /\ (Gone(p)' <=> Gone(p))
    BY <1>1, <1>9 DEF FreeingLast, Gone, Carrying, Copies, Holders
  <2> QED
    BY <1>1, <1>4, <2>1 DEF Exited
<1> QED
  BY <1>5, <1>6, <1>7, <1>8, <1>10, <1>11, <1>12, <1>13, <1>14

-----------------------------------------------------------------------------
(***************************************************************************)
(* Steps that move a parameter                                             *)
(***************************************************************************)
\* The buffers in the pool are finitely many.
LEMMA BuffersFinite ==
    ASSUME NEW p PROVE IsFiniteSet(Buffers(p)) /\ Cardinality(Buffers(p)) \in Nat
<1>1. IsFiniteSet(1 .. MaxBuffers)
  BY Kinds, FS_Interval
<1>2. Buffers(p) \in SUBSET (1 .. MaxBuffers)
  BY DEF Buffers
<1> QED
  BY <1>1, <1>2, FS_Subset, FS_CardinalityType

\* A buffer that has just left the ring is nowhere yet.
LEMMA NotYetIssued ==
    ASSUME Inv, NEW p \in Producers, wr[p] > rd[p]
    PROVE  /\ rd[p] + 1 \in 1 .. MaxBuffers /\ Param(p, rd[p] + 1) \in Params
           /\ Copies(Param(p, rd[p] + 1)) = 0
<1> USE DEF Inv
<1>1. rd[p] \in 0 .. MaxBuffers /\ wr[p] \in 0 .. MaxBuffers
  BY DEF TypeOK
<1>2. rd[p] + 1 \in 1 .. MaxBuffers
  BY <1>1, Kinds
<1>3. Param(p, rd[p] + 1) \in Params /\ ~Issued(Param(p, rd[p] + 1))
  BY <1>1, <1>2, Kinds, ParamFacts DEF Issued
<1>4. Copies(Param(p, rd[p] + 1)) \in Nat
  BY <1>3, CopiesFacts
<1> QED
  BY <1>2, <1>3, <1>4 DEF Single

\* A flush thread takes a buffer out of its ring, for the pool or to send it itself.
LEMMA TakeFromRing ==
    ASSUME Inv, NEW p \in Producers, Reserve(p) \/ FlushDirect(p)
    PROVE  /\ Inv'
           /\ \A x \in Params : InPool(x)' <=> InPool(x) \/ (pool # "none" /\ x = Param(p, rd[p] + 1))
<1> USE DEF Inv
<1> DEFINE n == rd[p] + 1
           z == Param(p, n)
<1>1. PICK to \in {"push", "check"} : /\ Take(p, z, to)
                                      /\ to = "push" => Reserve(p)
                                      /\ to = "check" => FlushDirect(p)
  BY DEF Reserve, FlushDirect, Param
<1>2. /\ UNCHANGED <<pool, queue, shutdown, wr, exitPc, frees, fate>>
      /\ rd' = [rd EXCEPT ![p] = n] /\ wr[p] > rd[p] /\ pc[p] = "send"
      /\ p \in Threads /\ p # Env
  BY Kinds DEF Reserve, FlushDirect
<1>3. n \in 1 .. MaxBuffers /\ z \in Params /\ Copies(z) = 0 /\ z.manager = p /\ z.buf = n
  BY <1>2, NotYetIssued, ParamFacts, Kinds
<1>4. /\ pc' \in [Threads -> PCs] /\ pc'[p] = to
      /\ hold' \in [Threads -> Params \cup {Nothing}] /\ hold'[p] = z /\ hold[p] = Nothing
      /\ \A u \in Threads : u # p => pc'[u] = pc[u] /\ hold'[u] = hold[u]
  BY <1>1, <1>2, <1>3, TakeFacts, HandFacts DEF PCs, Carrying
<1>5. refCount' = [refCount EXCEPT ![p] = IF to = "push" THEN @ + 1 ELSE @]
  BY <1>1 DEF Reserve, FlushDirect, TypeOK
<1>6. \A x \in Params : /\ Queued(x)' <=> Queued(x)
                        /\ Copies(x)' = Copies(x) + (IF x = z THEN 1 ELSE 0)
                        /\ Copies(x) \in Nat
  <2> SUFFICES ASSUME NEW x \in Params
               PROVE  /\ Queued(x)' <=> Queued(x)
                      /\ Copies(x)' = Copies(x) + (IF x = z THEN 1 ELSE 0)
                      /\ Copies(x) \in Nat
    OBVIOUS
  <2>1. Copies(x) \in Nat /\ hold[p] # x
    BY <1>4, CopiesFacts, ParamFacts
  <2> QED
    BY <1>2, <1>4, <2>1, HandStep
<1>7. exitPc[p] \notin {"push", "tail", "returned"} /\ pc[Env] = "loop" /\ frees[p] = 0
  BY <1>2 DEF Exited, Staged
<1>8. TypeOK'
  <2>1. rd' \in [Producers -> 0 .. MaxBuffers]
    BY <1>2, <1>3 DEF TypeOK
  <2>2. refCount' \in [Producers -> Nat]
    BY <1>5 DEF TypeOK
  <2> QED
    BY <1>2, <1>4, <2>1, <2>2 DEF TypeOK
<1>9. Placed' /\ Handed'
  <2>1. z # Nothing
    BY <1>3, ParamFacts
  <2>2. n # 0
    BY <1>3
  <2> QED
    BY <1>2, <1>3, <1>4, <2>1, <2>2 DEF Placed, Handed, PCsOf, FlushPCs, Carrying
<1>10. Single'
  <2> SUFFICES ASSUME NEW x \in Params
               PROVE  Copies(x)' <= 1 /\ (Copies(x)' > 0 => Issued(x)')
    BY DEF Single
  <2>1. CASE x = z
    BY <1>2, <1>3, <1>6, <2>1 DEF Issued, TypeOK
  <2>2. CASE x # z
    <3>1. Issued(x) => Issued(x)'
      BY <1>2, ParamFacts DEF Issued, TypeOK
    <3> QED
      BY <1>6, <2>2, <3>1 DEF Single
  <2> QED
    BY <2>1, <2>2
<1>11. Fated'
  <2> SUFFICES ASSUME NEW x \in Params, x.buf # 0
               PROVE  /\ Underway(x)' <=> x.buf <= rd'[x.manager] /\ fate[x.manager][x.buf] = "none"
                      /\ fate[x.manager][x.buf] # "none" => x.buf <= rd'[x.manager]
    BY <1>2 DEF Fated
  <2>1. CASE x = z
    <3>1. Underway(x)'
      BY <1>2, <1>4, <2>1 DEF Underway
    <3>2. fate[p][n] = "none"
      <4>1. rd[p] \in Nat /\ ~(n <= rd[p])
        BY <1>3 DEF TypeOK
      <4> QED
        BY <1>3, <4>1 DEF Fated
    <3> QED
      BY <1>2, <1>3, <2>1, <3>1, <3>2 DEF TypeOK
  <2>2. CASE x # z
    <3>1. Underway(x)' <=> Underway(x)
      BY <1>2, <1>4, <1>6, <2>2, ParamFacts DEF Underway
    <3>2. x.buf <= rd'[x.manager] <=> x.buf <= rd[x.manager]
      <4>1. x.manager = p => x.buf # n
        BY <2>2, ParamFacts
      <4> QED
        BY <1>2, <4>1, ParamFacts DEF TypeOK
    <3> QED
      BY <3>1, <3>2 DEF Fated
  <2> QED
    BY <2>1, <2>2
<1>12. Staged'
  <2>1. to = "push" => pool # "none"
    BY <1>1 DEF Reserve
  <2> QED
    BY <1>1, <1>2, <2>1, StagedOther DEF Take
<1>13. Last'
  <2>1. \A t \in Threads : pc'[t] = "tail" => t # p /\ pc[t] = "tail" /\ hold'[t] = hold[t]
    BY <1>4
  <2>2. \A t \in Threads : pc[t] = "tail" => hold[t].manager # p
    <3> SUFFICES ASSUME NEW t \in Threads, pc[t] = "tail", hold[t].manager = p PROVE FALSE
      OBVIOUS
    <3>1. refCount[p] = 0
      BY DEF Last
    <3>2. FirstRef(p) /\ refCount[p] = Cardinality(Buffers(p)) + 1
      BY <1>7 DEF FirstRef, Counted
    <3>3. Cardinality(Buffers(p)) \in Nat
      BY BuffersFinite
    <3> QED
      BY <3>1, <3>2, <3>3
  <2>3. \A q \in Producers : q # p => refCount'[q] = refCount[q]
    BY <1>5 DEF TypeOK
  <2>4. \A t \in Threads : pc[t] = "tail" => hold[t].manager \in Producers
    BY HandFacts DEF Carrying
  <2> QED
    BY <1>2, <2>1, <2>2, <2>3, <2>4 DEF Last
<1>14. Exited'
  <2>1. ASSUME NEW q \in Producers, q # p
        PROVE  (Gone(q)' <=> Gone(q)) /\ refCount'[q] = refCount[q] /\ pc'[q] = pc[q]
    <3>1. \A x \in Params : x.manager = q => Copies(x)' = Copies(x)
      BY <1>3, <1>6, <2>1
    <3> QED
      BY <1>4, <1>5, <2>1, <3>1, Kinds DEF Gone, TypeOK
  <2>2. \A q \in Producers : FreeingLast(q) => FreeingLast(q)'
    BY <1>2, <1>4 DEF FreeingLast
  <2> QED
    BY <1>2, <1>7, <2>1, <2>2 DEF Exited
<1>15. \A x \in Params : InPool(x)' <=> InPool(x) \/ (to = "push" /\ x = z)
  <2>1. \A x \in Params : hold[p] # x
    BY <1>4, ParamFacts
  <2> QED
    BY <1>2, <1>4, <1>6, <2>1 DEF InPool, PoolPCs
<1>16. to = "push" <=> pool # "none"
  BY <1>1 DEF Reserve, FlushDirect
<1>17. Counted'
  <2>2. \A q \in Producers : FirstRef(q)' <=> FirstRef(q)
    <3>1. \A q \in Producers : Param(q, 0) \in Params /\ Param(q, 0) # z
      BY <1>3, ParamFacts, Kinds
    <3> QED
      BY <1>2, <1>15, <3>1 DEF FirstRef
  <2>3. \A q \in Producers : q # p \/ to = "check" => Buffers(q)' = Buffers(q)
    <3> SUFFICES ASSUME NEW q \in Producers, q # p \/ to = "check", NEW m \in 1 .. MaxBuffers
                 PROVE  InPool(Param(q, m))' <=> InPool(Param(q, m))
      BY DEF Buffers
    <3>1. Param(q, m) \in Params /\ Param(q, m).manager = q
      BY ParamFacts, Kinds
    <3> QED
      BY <1>3, <1>15, <3>1
  <2>4. CASE to = "push"
    <3>1. Buffers(p)' = Buffers(p) \cup {n}
      <4> SUFFICES ASSUME NEW m \in 1 .. MaxBuffers
                   PROVE  InPool(Param(p, m))' <=> InPool(Param(p, m)) \/ m = n
        BY <1>3 DEF Buffers
      <4>1. Param(p, m) \in Params /\ (Param(p, m) = z <=> m = n)
        BY <1>3, ParamFacts, Kinds
      <4> QED
        BY <1>15, <2>4, <4>1
    <3>2. n \notin Buffers(p)
      <4>1. ~Queued(z) /\ \A t \in Threads : hold[t] # z
        BY <1>3, CopiesFacts
      <4> QED
        BY <4>1 DEF Buffers, InPool
    <3>3. Cardinality(Buffers(p)') = Cardinality(Buffers(p)) + 1
      BY <3>1, <3>2, BuffersFinite, FS_AddElement
    <3>4. Cardinality(Buffers(p)) \in Nat
      BY BuffersFinite
    <3>5. refCount' = [refCount EXCEPT ![p] = @ + 1] /\ refCount \in [Producers -> Nat]
      BY <1>5, <2>4 DEF TypeOK
    <3> SUFFICES ASSUME NEW q \in Producers, frees[q] = 0
                 PROVE  refCount'[q] = Cardinality(Buffers(q)') + (IF FirstRef(q) THEN 1 ELSE 0)
      BY <1>2, <2>2 DEF Counted
    <3>6. refCount[q] = Cardinality(Buffers(q)) + (IF FirstRef(q) THEN 1 ELSE 0)
      BY DEF Counted
    <3>7. CASE q = p
      BY <3>3, <3>4, <3>5, <3>6, <3>7
    <3>8. CASE q # p
      BY <2>3, <3>5, <3>6, <3>8
    <3> QED
      BY <3>7, <3>8
  <2>5. CASE to = "check"
    <3>1. UNCHANGED refCount
      BY <1>5, <2>5 DEF TypeOK
    <3> QED
      BY <1>2, <2>2, <2>3, <2>5, <3>1 DEF Counted
  <2> QED
    BY <2>4, <2>5
<1> QED
  BY <1>8, <1>9, <1>10, <1>11, <1>12, <1>13, <1>14, <1>15, <1>16, <1>17

\* A parameter that goes from a thread's hands to the queue or back is in the pool as before.
LEMMA HandOver ==
    ASSUME Inv, NEW t \in Threads, pc[t] \notin {"tail", "exit"}, pc'[t] # "tail",
           \A u \in Threads : u # t => pc'[u] = pc[u] /\ hold'[u] = hold[u],
           UNCHANGED <<refCount, rd, exitPc, frees, fate>>,
           PoolSame, \A x \in Params : Copies(x)' = Copies(x) /\ (Underway(x)' <=> Underway(x))
    PROVE  Single' /\ Fated' /\ Exited' /\ Last' /\ Counted'
<1> USE DEF Inv
<1>1. Single'
  BY DEF Single, Issued
<1>2. Fated'
  BY DEF Fated
<1>3. Counted'
  BY CountedSame
<1>4. Last'
  BY DEF Last
<1>5. Exited'
  <2>1. \A q \in Producers : (FreeingLast(q)' <=> FreeingLast(q)) /\ (Gone(q)' <=> Gone(q))
    BY DEF FreeingLast, Gone
  <2>2. \A q \in Producers : exitPc[q] \in {"push", "tail", "returned"} => pc'[q] = "exit"
    BY Kinds DEF Exited
  <2> QED
    BY <2>1, <2>2 DEF Exited
<1> QED
  BY <1>1, <1>2, <1>3, <1>4, <1>5

\* A flush thread pushes its buffer.
LEMMA PushInv == ASSUME Inv, NEW p \in Producers, Push(p) PROVE Inv' /\ PoolSame
<1> USE DEF Inv
<1>1. /\ UNCHANGED <<pool, refCount, shutdown, wr, rd, exitPc, frees, fate>>
      /\ Take(p, Nothing, "send") /\ pc[p] = "push" /\ queue' = Append(queue, hold[p])
      /\ Len(queue) < QueueSize /\ p \in Threads /\ p # Env
  BY Kinds DEF Push, Drop, manager
<1>2. hold[p] \in Params
  BY <1>1, HandFacts DEF Carrying
<1>3. /\ pc' \in [Threads -> PCs] /\ pc'[p] = "send"
      /\ hold' \in [Threads -> Params \cup {Nothing}] /\ hold'[p] = Nothing
      /\ \A u \in Threads : u # p => pc'[u] = pc[u] /\ hold'[u] = hold[u]
  BY <1>1, TakeFacts DEF PCs
<1>4. \A x \in Params : Copies(x)' = Copies(x) /\ (Queued(x)' <=> Queued(x) \/ x = hold[p])
  BY <1>1, <1>2, <1>3, PushStep
<1>5. PoolSame /\ \A x \in Params : Underway(x)' <=> Underway(x)
  BY <1>1, <1>2, <1>3, <1>4, ParamFacts DEF PoolSame, Underway, InPool, PoolPCs
<1>6. Single' /\ Fated' /\ Exited' /\ Last' /\ Counted'
  BY <1>1, <1>3, <1>4, <1>5, HandOver
<1>7. Placed' /\ Handed'
  BY <1>1, <1>3, ParamFacts DEF Placed, Handed, PCsOf, FlushPCs, Carrying
<1>8. Staged'
  <2>1. pool # "none"
    BY <1>1 DEF Staged
  <2> QED
    BY <1>1, <2>1, StagedOther DEF Take
<1>9. queue' \in Seq(Params) /\ Len(queue') <= QueueSize
  BY <1>1, <1>2, QueueTypes, Kinds
<1> QED
  BY <1>1, <1>3, <1>5, <1>6, <1>7, <1>8, <1>9 DEF TypeOK

\* A worker, or the environment, pops a parameter.
LEMMA PopInv == ASSUME Inv, NEW t \in Threads, (t \in Workers /\ WorkerPop(t)) \/ (t = Env /\ EnvDrain)
                PROVE  Inv' /\ PoolSame
<1> USE DEF Inv
<1> DEFINE h == Head(queue)
<1>1. /\ UNCHANGED <<pool, refCount, shutdown, wr, rd, exitPc, frees, fate>>
      /\ Take(t, h, "check") /\ pc[t] \in {"pop", "drain"} /\ queue # <<>> /\ queue' = Tail(queue)
      /\ t \notin Producers
  BY Kinds DEF WorkerPop, EnvDrain, manager
<1>2. /\ h \in Params /\ queue' \in Seq(Params) /\ Len(queue') <= QueueSize
      /\ hold[t] = Nothing /\ pool # "none"
  <2>1. pool # "none" /\ Len(queue) <= QueueSize
    BY <1>1 DEF Staged, TypeOK
  <2> QED
    BY <1>1, <2>1, QueueTypes, HandFacts, Kinds DEF Carrying
<1>3. /\ pc' \in [Threads -> PCs] /\ pc'[t] = "check"
      /\ hold' \in [Threads -> Params \cup {Nothing}] /\ hold'[t] = h
      /\ \A u \in Threads : u # t => pc'[u] = pc[u] /\ hold'[u] = hold[u]
  BY <1>1, <1>2, TakeFacts DEF PCs
<1>4. /\ \A x \in Params : Copies(x)' = Copies(x) /\ (Queued(x)' <=> Queued(x) /\ x # h)
      /\ Queued(h)
  BY <1>1, <1>2, <1>3, PopStep
<1>5. \A x \in Params : hold[t] # x
  BY <1>2, ParamFacts
<1>6. PoolSame /\ \A x \in Params : Underway(x)' <=> Underway(x)
  BY <1>1, <1>3, <1>4, <1>5 DEF PoolSame, Underway, InPool, PoolPCs
<1>7. Single' /\ Fated' /\ Exited' /\ Last' /\ Counted'
  BY <1>1, <1>3, <1>4, <1>6, HandOver
<1>8. Placed' /\ Handed'
  <2>1. t \in Workers \/ t = Env
    BY <1>1 DEF Threads
  <2> QED
    BY <1>1, <1>2, <1>3, <2>1, ParamFacts, Kinds
       DEF Placed, Handed, PCsOf, WorkerPCs, EnvPCs, Carrying
<1>9. Staged'
  <2>1. /\ pc'[Env] # "loop" => pc[Env] # "loop"
        /\ pc'[Env] \notin {"loop", "join"} => pc[Env] \notin {"loop", "join"}
        /\ pc'[Env] # "done"
    BY <1>1, <1>2, <1>3, Kinds DEF WorkerPop, EnvDrain, Staged
  <2>2. \A w \in Workers : pc[w] \in {"unborn", "exit"} => pc'[w] = pc[w]
    BY <1>1, <1>3, Kinds
  <2> QED
    BY <1>1, <1>2, <2>1, <2>2 DEF Staged
<1> QED
  BY <1>1, <1>2, <1>3, <1>6, <1>7, <1>8, <1>9 DEF TypeOK

\* The send function is done with a buffer: a worker keeps the reference, a flush
\* thread, which counted none, lays the buffer down.
LEMMA SentInv == ASSUME Inv, NEW t \in Threads, SendExit(t) \/ SendDone(t) PROVE Inv' /\ PoolSame
<1> USE DEF Inv
<1> DEFINE h == hold[t]
<1>1. /\ UNCHANGED <<pool, queue, refCount, shutdown, wr, rd, exitPc, frees>>
      /\ Sent(t) /\ pc[t] \in {"check", "post"} /\ pc[t] \in Carrying /\ h.buf # 0
  BY DEF SendExit, SendDone, manager, IsDestroyParam, Handed, Carrying
<1>2. h \in Params /\ h.manager \in Producers /\ h.buf \in 1 .. MaxBuffers
  <2>1. h \in Params /\ h.manager \in Producers /\ h.buf \in 0 .. MaxBuffers
    BY <1>1, HandFacts
  <2> QED
    BY <1>1, <2>1, Kinds
<1>3. PICK f \in {"answered", "buffered"} : fate' = [fate EXCEPT ![h.manager][h.buf] = f]
  BY DEF SendExit, SendDone, Answer
<1>4. /\ pc' \in [Threads -> PCs] /\ pc'[t] = IF t \in Producers THEN "loop" ELSE "release"
      /\ hold' \in [Threads -> Params \cup {Nothing}]
      /\ hold'[t] = IF t \in Producers THEN Nothing ELSE h
      /\ \A u \in Threads : u # t => pc'[u] = pc[u] /\ hold'[u] = hold[u]
  <2>1. CASE t \in Producers
    BY <1>1, <2>1, TakeFacts DEF Sent, Drop, PCs
  <2>2. CASE t \notin Producers
    BY <1>1, <2>2, GotoFacts DEF Sent, PCs, TypeOK
  <2> QED
    BY <2>1, <2>2
<1>5. ~Queued(h) /\ Copies(h) = 1 /\ \A u \in Threads : hold[u] = h => u = t
  BY <1>2, SingleFacts
<1>6. \A x \in Params : /\ Queued(x)' <=> Queued(x)
                        /\ Copies(x) \in Nat
                        /\ Copies(x)' = IF x = h /\ t \in Producers THEN 0 ELSE Copies(x)
  <2> SUFFICES ASSUME NEW x \in Params
               PROVE  /\ Queued(x)' <=> Queued(x)
                      /\ Copies(x) \in Nat
                      /\ Copies(x)' = IF x = h /\ t \in Producers THEN 0 ELSE Copies(x)
    OBVIOUS
  <2>1. /\ Queued(x)' <=> Queued(x)
        /\ Copies(x)' = Copies(x) + (IF hold'[t] = x THEN 1 ELSE 0) - (IF h = x THEN 1 ELSE 0)
    BY <1>1, <1>4, HandStep
  <2>2. Copies(x) \in Nat /\ Nothing # x
    BY CopiesFacts, ParamFacts
  <2> QED
    BY <1>4, <1>5, <2>1, <2>2
<1>7. TypeOK'
  <2>1. fate' \in [Producers -> [1 .. MaxBuffers -> {"none", "answered", "buffered"}]]
    BY <1>2, <1>3 DEF TypeOK
  <2> QED
    BY <1>1, <1>4, <2>1 DEF TypeOK
<1>8. Placed' /\ Handed'
  <2>1. t \in Producers \/ t \in Workers \/ t = Env
    BY DEF Threads
  <2> QED
    BY <1>1, <1>2, <1>4, <2>1, ParamFacts, Kinds
       DEF Placed, Handed, PCsOf, FlushPCs, WorkerPCs, EnvPCs, Carrying
<1>9. Single'
  <2>1. \A x \in Params : Issued(x)' <=> Issued(x)
    BY <1>1 DEF Issued
  <2> QED
    BY <1>6, <2>1 DEF Single
<1>10. Fated'
  <2> SUFFICES ASSUME NEW x \in Params, x.buf # 0
               PROVE  /\ Underway(x)' <=> x.buf <= rd[x.manager] /\ fate'[x.manager][x.buf] = "none"
                      /\ fate'[x.manager][x.buf] # "none" => x.buf <= rd[x.manager]
    BY <1>1 DEF Fated
  <2>1. CASE x = h
    <3>1. ~Underway(x)'
      BY <1>4, <1>5, <1>6, <2>1, ParamFacts DEF Underway
    <3>2. fate'[x.manager][x.buf] = f
      BY <1>2, <1>3, <2>1 DEF TypeOK
    <3>3. x.buf <= rd[x.manager]
      BY <1>1, <1>2, <2>1 DEF Underway, Fated
    <3> QED
      BY <3>1, <3>2, <3>3
  <2>2. CASE x # h
    <3>1. Underway(x)' <=> Underway(x)
      BY <1>4, <1>6, <2>2, ParamFacts DEF Underway
    <3>2. fate'[x.manager][x.buf] = fate[x.manager][x.buf]
      <4>1. x.manager # h.manager \/ x.buf # h.buf
        BY <1>2, <2>2, ParamFacts
      <4> QED
        BY <1>2, <1>3, <4>1, ParamFacts DEF TypeOK
    <3> QED
      BY <3>1, <3>2 DEF Fated
  <2> QED
    BY <2>1, <2>2
<1>11. PoolSame /\ Counted'
  <2>1. PoolSame
    BY <1>1, <1>4, <1>6, ParamFacts DEF PoolSame, InPool, PoolPCs
  <2> QED
    BY <1>1, <2>1, CountedSame
<1>12. Last'
  BY <1>1, <1>4 DEF Last
<1>13. Exited'
  <2>1. \A q \in Producers : (FreeingLast(q)' <=> FreeingLast(q)) /\ (Gone(q) => Gone(q)')
    BY <1>1, <1>4, <1>6 DEF FreeingLast, Gone
  <2>2. \A q \in Producers : exitPc[q] \in {"push", "tail", "returned"} => pc'[q] = "exit"
    BY <1>1, <1>4, Kinds DEF Exited
  <2> QED
    BY <1>1, <2>1, <2>2 DEF Exited
<1>14. Staged'
  <2>1. t \in Workers \cup {Env} => pool # "none"
    BY <1>1, Kinds DEF Staged
  <2>2. t \in Workers => pc[Env] \in {"loop", "join"}
    BY <1>1 DEF Staged
  <2>3. /\ pc'[Env] # pc[Env] => /\ pc'[Env] \notin {"loop", "join", "done"}
                                 /\ pc[Env] \notin {"loop", "join"} /\ pool # "none"
    BY <1>1, <1>4, <2>1, Kinds
  <2>4. \A w \in Workers : w # t => pc'[w] = pc[w]
    BY <1>4, Kinds
  <2>5. \A q \in Producers : pc'[q] = "push" => pc[q] = "push"
    BY <1>4, Kinds
  <2> QED
    BY <1>1, <2>1, <2>2, <2>3, <2>4, <2>5 DEF Staged
<1> QED
  BY <1>7, <1>8, <1>9, <1>10, <1>11, <1>12, <1>13, <1>14

-----------------------------------------------------------------------------
(***************************************************************************)
(* References                                                              *)
(***************************************************************************)
\* A parameter in the hands of a worker that is about to drop its reference.
LEMMA ReleaseFacts ==
    ASSUME Inv, NEW t \in Threads, pc[t] \in {"check", "post", "release"}, t \notin Producers
    PROVE  /\ hold[t] \in Params /\ hold[t].manager \in Producers /\ hold[t].buf \in 0 .. MaxBuffers
           /\ InPool(hold[t]) /\ Copies(hold[t]) = 1 /\ ~Queued(hold[t])
           /\ \A u \in Threads : hold[u] = hold[t] => u = t
           /\ frees[hold[t].manager] = 0 /\ exitPc[hold[t].manager] # "tail"
           /\ refCount[hold[t].manager] > 0
<1> USE DEF Inv
<1> DEFINE h == hold[t]
           p == h.manager
<1>1. h \in Params /\ p \in Producers /\ h.buf \in 0 .. MaxBuffers /\ h = Param(p, h.buf)
  BY HandFacts, ParamFacts DEF Carrying
<1>2. Copies(h) = 1 /\ ~Queued(h) /\ \A u \in Threads : hold[u] = h => u = t
  BY <1>1, SingleFacts
<1>3. InPool(h)
  BY DEF InPool, PoolPCs
<1>4. ~Gone(p)
  BY <1>1, <1>2 DEF Gone
<1>5. frees[p] = 0 /\ exitPc[p] # "tail"
  <2>1. frees[p] \in Nat
    BY <1>1 DEF TypeOK
  <2> QED
    BY <1>1, <1>4, <2>1 DEF Exited
<1>6. refCount[p] > 0
  <2>1. refCount[p] = Cardinality(Buffers(p)) + (IF FirstRef(p) THEN 1 ELSE 0)
    BY <1>1, <1>5 DEF Counted
  <2>2. IsFiniteSet(Buffers(p)) /\ Cardinality(Buffers(p)) \in Nat
    BY BuffersFinite
  <2>3. CASE h.buf = 0
    BY <1>1, <1>3, <2>1, <2>2, <2>3 DEF FirstRef
  <2>4. CASE h.buf # 0
    <3>1. h.buf \in Buffers(p)
      BY <1>1, <1>3, <2>4 DEF Buffers
    <3>2. Cardinality(Buffers(p)) # 0
      BY <2>2, <3>1, FS_EmptySet
    <3> QED
      BY <2>1, <2>2, <3>2
  <2> QED
    BY <2>3, <2>4
<1> QED
  BY <1>1, <1>2, <1>3, <1>5, <1>6

\* Dropping a reference takes one buffer, or the first reference, out of the count.
LEMMA CountedRelease ==
    ASSUME Inv, NEW h \in Params, frees[h.manager] = 0, exitPc[h.manager] # "tail",
           refCount' = [refCount EXCEPT ![h.manager] = @ - 1],
           UNCHANGED <<frees, exitPc>>, InPool(h),
           h.buf = 0 => exitPc[h.manager] = "returned",
           \A x \in Params : InPool(x)' <=> InPool(x) /\ x # h
    PROVE  Counted'
<1> USE DEF Inv
<1> DEFINE p == h.manager
           m == h.buf
<1>1. p \in Producers /\ m \in 0 .. MaxBuffers /\ h = Param(p, m)
  BY ParamFacts
<1>2. refCount \in [Producers -> Nat]
  BY DEF TypeOK
<1> SUFFICES ASSUME NEW q \in Producers, frees[q] = 0
             PROVE  refCount'[q] = Cardinality(Buffers(q)') + (IF FirstRef(q)' THEN 1 ELSE 0)
  BY DEF Counted
<1>3. refCount[q] = Cardinality(Buffers(q)) + (IF FirstRef(q) THEN 1 ELSE 0)
  BY DEF Counted
<1>4. \A n \in 0 .. MaxBuffers :
        InPool(Param(q, n))' <=> InPool(Param(q, n)) /\ ~(q = p /\ n = m)
  BY <1>1, ParamFacts
<1>5. CASE q # p
  <2>1. Buffers(q)' = Buffers(q) /\ (FirstRef(q)' <=> FirstRef(q))
    BY <1>4, <1>5, Kinds DEF Buffers, FirstRef
  <2> QED
    BY <1>1, <1>2, <1>3, <1>5, <2>1
<1>6. CASE q = p /\ m = 0
  <2>1. Buffers(q)' = Buffers(q)
    BY <1>4, <1>6, Kinds DEF Buffers
  <2>2. FirstRef(q) /\ ~(FirstRef(q)')
    BY <1>1, <1>4, <1>6, Kinds DEF FirstRef
  <2>3. Cardinality(Buffers(q)) \in Nat
    BY BuffersFinite
  <2> QED
    BY <1>1, <1>2, <1>3, <1>6, <2>1, <2>2, <2>3
<1>7. CASE q = p /\ m # 0
  <2>1. Buffers(q)' = Buffers(q) \ {m}
    BY <1>4, <1>7, Kinds DEF Buffers
  <2>2. m \in Buffers(q)
    BY <1>1, <1>7 DEF Buffers
  <2>3. FirstRef(q)' <=> FirstRef(q)
    BY <1>4, <1>7, Kinds DEF FirstRef
  <2>4. /\ Cardinality(Buffers(q)) \in Nat
        /\ Cardinality(Buffers(q)') = Cardinality(Buffers(q)) - 1
    BY <2>1, <2>2, BuffersFinite, FS_RemoveElement
  <2> QED
    BY <1>1, <1>2, <1>3, <1>7, <2>3, <2>4
<1> QED
  BY <1>5, <1>6, <1>7

\* Where log_producer_send_thread_global_inner goes on is not where something is carried.
LEMMA ResumeFacts ==
    ASSUME Inv, NEW t \in Threads, t \notin Producers, pc[t] \in {"release", "tail"}, Resume(t)
    PROVE  /\ pc' \in [Threads -> PCs] /\ pc'[t] = IF t = Env THEN "drain" ELSE "loop"
           /\ hold' \in [Threads -> Params \cup {Nothing}] /\ hold'[t] = Nothing
           /\ \A u \in Threads : u # t => pc'[u] = pc[u] /\ hold'[u] = hold[u]
  BY TakeFacts DEF Inv, Resume, Drop, PCs

\* A step of a worker or of the environment inside log_producer_send_thread_global_inner.
LEMMA InnerControl ==
    ASSUME Inv, NEW t \in Threads, t \notin Producers, pc[t] \in {"release", "tail"},
           \A u \in Threads : u # t => pc'[u] = pc[u] /\ hold'[u] = hold[u],
           \/ pc'[t] = "tail" /\ hold'[t] = hold[t]
           \/ pc'[t] = (IF t = Env THEN "drain" ELSE "loop") /\ hold'[t] = Nothing,
           UNCHANGED <<pool, queue, exitPc>>
    PROVE  Placed' /\ Handed' /\ Staged'
<1> USE DEF Inv
<1>1. t \in Workers \/ t = Env
  BY DEF Threads
<1>2. Placed' /\ Handed'
  BY <1>1, Kinds DEF Placed, Handed, PCsOf, WorkerPCs, EnvPCs, Carrying
<1>3. pool # "none"
  BY <1>1 DEF Staged
<1>4. t = Env => pc[Env] \notin {"loop", "join"} /\ pc'[Env] \notin {"loop", "join", "done"}
  OBVIOUS
<1>5. t \in Workers => pc[Env] \in {"loop", "join"} /\ pc'[Env] = pc[Env]
  BY Kinds DEF Staged
<1>6. t = Env => \A w \in Workers : pc'[w] = pc[w]
  BY Kinds
<1> QED
  BY <1>1, <1>2, <1>3, <1>4, <1>5, <1>6 DEF Staged

\* A reference is dropped.
LEMMA ReleaseInv ==
    ASSUME Inv, NEW t \in Threads, Release(t)
    PROVE  Inv' /\ \A x \in Params : InPool(x)' <=> InPool(x) /\ x # hold[t]
<1> USE DEF Inv
<1> DEFINE h == hold[t]
           p == h.manager
           last == refCount[p] = 1
<1>1. /\ pc[t] = "release" /\ UNCHANGED <<pool, queue, shutdown, wr, rd, exitPc, frees, fate>>
      /\ refCount' = [refCount EXCEPT ![p] = @ - 1]
      /\ IF last THEN Goto(t, "tail") /\ UNCHANGED hold ELSE Resume(t)
  BY DEF Release
<1>2. t \notin Producers
  BY <1>1 DEF Placed, PCsOf, FlushPCs
<1>3. /\ h \in Params /\ p \in Producers /\ h.buf \in 0 .. MaxBuffers
      /\ InPool(h) /\ Copies(h) = 1 /\ ~Queued(h) /\ \A u \in Threads : hold[u] = h => u = t
      /\ frees[p] = 0 /\ exitPc[p] # "tail" /\ refCount[p] > 0
  BY <1>1, <1>2, ReleaseFacts
<1>4. /\ pc' \in [Threads -> PCs]
      /\ pc'[t] = IF last THEN "tail" ELSE IF t = Env THEN "drain" ELSE "loop"
      /\ hold' \in [Threads -> Params \cup {Nothing}]
      /\ hold'[t] = IF last THEN h ELSE Nothing
      /\ \A u \in Threads : u # t => pc'[u] = pc[u] /\ hold'[u] = hold[u]
  <2>1. CASE last
    BY <1>1, <2>1, GotoFacts DEF PCs, TypeOK
  <2>2. CASE ~last
    BY <1>1, <1>2, <2>2, ResumeFacts
  <2> QED
    BY <2>1, <2>2
<1>5. \A x \in Params : /\ Queued(x)' <=> Queued(x)
                        /\ Copies(x) \in Nat
                        /\ Copies(x)' = IF x = h /\ ~last THEN 0 ELSE Copies(x)
  <2> SUFFICES ASSUME NEW x \in Params
               PROVE  /\ Queued(x)' <=> Queued(x)
                      /\ Copies(x) \in Nat
                      /\ Copies(x)' = IF x = h /\ ~last THEN 0 ELSE Copies(x)
    OBVIOUS
  <2>1. /\ Queued(x)' <=> Queued(x)
        /\ Copies(x)' = Copies(x) + (IF hold'[t] = x THEN 1 ELSE 0) - (IF h = x THEN 1 ELSE 0)
    BY <1>1, <1>4, HandStep
  <2>2. Copies(x) \in Nat /\ Nothing # x
    BY CopiesFacts, ParamFacts
  <2> QED
    BY <1>3, <1>4, <2>1, <2>2
<1>6. \A x \in Params : /\ Underway(x)' <=> Underway(x)
                        /\ InPool(x)' <=> InPool(x) /\ x # h
  BY <1>1, <1>2, <1>3, <1>4, <1>5, ParamFacts DEF Underway, InPool, PoolPCs
<1>7. TypeOK'
  <2>1. refCount' \in [Producers -> Nat]
    BY <1>1, <1>3 DEF TypeOK
  <2> QED
    BY <1>1, <1>4, <2>1 DEF TypeOK
<1>8. Placed' /\ Handed' /\ Staged'
  BY <1>1, <1>2, <1>4, InnerControl
<1>9. Single'
  <2>1. \A x \in Params : Issued(x)' <=> Issued(x)
    BY <1>1 DEF Issued
  <2> QED
    BY <1>5, <2>1 DEF Single
<1>10. Fated'
  BY <1>1, <1>6 DEF Fated
<1>11. Counted'
  <2>1. h.buf = 0 => exitPc[p] = "returned"
    BY <1>3 DEF Single, Issued
  <2> QED
    BY <1>1, <1>3, <1>6, <2>1, CountedRelease
<1>12. refCount'[p] = refCount[p] - 1 /\ \A q \in Producers : q # p => refCount'[q] = refCount[q]
  BY <1>1, <1>3 DEF TypeOK
<1>13. Last'
  <2>1. \A u \in Threads : pc[u] = "tail" => hold[u].manager \in Producers /\ hold[u].manager # p
    BY <1>3, HandFacts DEF Last, Carrying
  <2>2. \A u \in Threads : u # t /\ pc'[u] = "tail" =>
           pc[u] = "tail" /\ hold'[u] = hold[u]
    BY <1>4
  <2>3. pc'[t] = "tail" => refCount'[p] = 0 /\ frees'[p] = 0 /\ hold'[t] = h
    BY <1>1, <1>3, <1>4, <1>12
  <2> QED
    BY <1>1, <2>1, <2>2, <2>3, <1>12 DEF Last
<1>14. Exited'
  <2>1. \A q \in Producers : Gone(q) => Gone(q)'
    BY <1>5 DEF Gone
  <2>2. \A q \in Producers : q # p => (FreeingLast(q) => FreeingLast(q)')
    BY <1>1, <1>4 DEF FreeingLast
  <2>3. \A q \in Producers : q = p => refCount'[q] > 0 \/ FreeingLast(q)'
    <3>1. CASE last
      BY <1>3, <1>4, <3>1 DEF FreeingLast
    <3>2. CASE ~last
      <4>1. refCount[p] \in Nat
        BY <1>3 DEF TypeOK
      <4> QED
        BY <1>3, <1>12, <3>2, <4>1
    <3> QED
      BY <3>1, <3>2
  <2>4. \A q \in Producers : pc'[q] = pc[q]
    BY <1>2, <1>4, Kinds
  <2>5. \A q \in Producers : exitPc[q] = "returned" /\ frees[q] = 0 =>
           refCount'[q] > 0 \/ FreeingLast(q)'
    <3> SUFFICES ASSUME NEW q \in Producers, exitPc[q] = "returned", frees[q] = 0
                 PROVE  refCount'[q] > 0 \/ FreeingLast(q)'
      OBVIOUS
    <3>1. refCount[q] > 0 \/ FreeingLast(q)
      BY DEF Exited
    <3>2. CASE q = p
      BY <2>3, <3>2
    <3>3. CASE q # p
      BY <1>12, <2>2, <3>1, <3>3
    <3> QED
      BY <3>2, <3>3
  <2> QED
    BY <1>1, <2>1, <2>4, <2>5 DEF Exited
<1> QED
  BY <1>6, <1>7, <1>8, <1>9, <1>10, <1>11, <1>13, <1>14

\* Who dropped the last reference is alone with the producer: nobody holds, and no
\* slot of the queue has, a parameter of it.
LEMMA LastAlone ==
    ASSUME Inv, NEW t \in Threads, pc[t] = "tail"
    PROVE  /\ hold[t] \in Params /\ hold[t].manager \in Producers
           /\ exitPc[hold[t].manager] = "returned" /\ frees[hold[t].manager] = 0
           /\ \A x \in Params : x.manager = hold[t].manager =>
                ~Queued(x) /\ ~InPool(x) /\ \A u \in Threads : hold[u] = x => u = t
<1> USE DEF Inv
<1> DEFINE p == hold[t].manager
<1>1. hold[t] \in Params /\ p \in Producers
  BY HandFacts DEF Carrying
<1>2. frees[p] = 0 /\ refCount[p] = 0
  BY DEF Last
<1>3. Buffers(p) = {} /\ ~FirstRef(p)
  <2>1. refCount[p] = Cardinality(Buffers(p)) + (IF FirstRef(p) THEN 1 ELSE 0)
    BY <1>1, <1>2 DEF Counted
  <2>2. Cardinality(Buffers(p)) = 0 /\ ~FirstRef(p)
    BY <1>2, <2>1, BuffersFinite
  <2> QED
    BY <2>2, BuffersFinite, FS_EmptySet
<1>4. exitPc[p] = "returned" /\ pc[p] = "exit" /\ hold[p] = Nothing
  <2>1. exitPc[p] = "returned" /\ pc[p] = "exit"
    BY <1>1, <1>3 DEF FirstRef, Exited
  <2> QED
    BY <1>1, <2>1, Kinds, HandFacts DEF Carrying
<1>5. ASSUME NEW x \in Params, x.manager = p
      PROVE  ~Queued(x) /\ ~InPool(x) /\ \A u \in Threads : hold[u] = x => u = t
  <2>1. x = Param(p, x.buf) /\ x.buf \in 0 .. MaxBuffers /\ x # Nothing
    BY <1>5, ParamFacts
  <2>2. ~InPool(x)
    <3>1. CASE x.buf = 0
      BY <1>3, <2>1, <3>1 DEF FirstRef
    <3>2. CASE x.buf # 0
      BY <1>3, <2>1, <3>2 DEF Buffers
    <3> QED
      BY <3>1, <3>2
  <2>3. ASSUME NEW u \in Threads, hold[u] = x PROVE u = t
    <3>1. pc[u] \in Carrying /\ pc[u] \notin PoolPCs(u)
      BY <2>1, <2>2, <2>3 DEF Handed, InPool
    <3>2. u \notin Producers
      BY <1>4, <1>5, <2>1, <2>3 DEF Handed
    <3>3. pc[u] = "tail"
      <4>1. u \in Workers \/ u = Env
        BY <3>2 DEF Threads
      <4>2. pc[u] \in WorkerPCs \cup EnvPCs
        BY <3>2, HandFacts
      <4> QED
        BY <3>1, <3>2, <4>2 DEF PoolPCs, Carrying, WorkerPCs, EnvPCs
    <3> QED
      BY <1>5, <2>3, <3>3 DEF Last
  <2> QED
    BY <2>2, <2>3 DEF InPool
<1> QED
  BY <1>1, <1>2, <1>4, <1>5

\* Who dropped the last reference frees the producer.
LEMMA FreeLastInv == ASSUME Inv, NEW t \in Threads, FreeLast(t) PROVE Inv' /\ PoolSame
<1> USE DEF Inv
<1> DEFINE h == hold[t]
           p == h.manager
<1>1. /\ pc[t] = "tail" /\ frees' = [frees EXCEPT ![p] = @ + 1] /\ Resume(t)
      /\ UNCHANGED <<pool, queue, refCount, shutdown, wr, rd, exitPc, fate>>
  BY DEF FreeLast, manager
<1>2. t \notin Producers
  BY <1>1 DEF Placed, PCsOf, FlushPCs
<1>3. /\ h \in Params /\ p \in Producers /\ exitPc[p] = "returned" /\ frees[p] = 0
      /\ \A x \in Params : x.manager = p =>
           ~Queued(x) /\ ~InPool(x) /\ \A u \in Threads : hold[u] = x => u = t
  BY <1>1, LastAlone
<1>4. /\ pc' \in [Threads -> PCs] /\ pc'[t] = IF t = Env THEN "drain" ELSE "loop"
      /\ hold' \in [Threads -> Params \cup {Nothing}] /\ hold'[t] = Nothing
      /\ \A u \in Threads : u # t => pc'[u] = pc[u] /\ hold'[u] = hold[u]
  BY <1>1, <1>2, ResumeFacts
<1>5. Copies(h) = 1
  BY <1>3, SingleFacts
<1>6. \A x \in Params : /\ Queued(x)' <=> Queued(x)
                        /\ Copies(x)' = IF x = h THEN 0 ELSE Copies(x)
  <2> SUFFICES ASSUME NEW x \in Params
               PROVE  /\ Queued(x)' <=> Queued(x)
                      /\ Copies(x)' = IF x = h THEN 0 ELSE Copies(x)
    OBVIOUS
  <2>1. /\ Queued(x)' <=> Queued(x)
        /\ Copies(x)' = Copies(x) + (IF hold'[t] = x THEN 1 ELSE 0) - (IF h = x THEN 1 ELSE 0)
    BY <1>1, <1>4, HandStep
  <2>2. Copies(x) \in Nat /\ Nothing # x
    BY CopiesFacts, ParamFacts
  <2> QED
    BY <1>4, <1>5, <2>1, <2>2
<1>7. PoolSame /\ \A x \in Params : Underway(x)' <=> Underway(x)
  BY <1>1, <1>2, <1>4, <1>6, ParamFacts DEF PoolSame, Underway, InPool, PoolPCs
<1>8. frees' \in [Producers -> Nat] /\ frees'[p] = 1 /\ \A q \in Producers : q # p => frees'[q] = frees[q]
  BY <1>1, <1>3 DEF TypeOK
<1>9. TypeOK'
  BY <1>1, <1>4, <1>8 DEF TypeOK
<1>10. Placed' /\ Handed' /\ Staged'
  BY <1>1, <1>2, <1>4, InnerControl
<1>11. Single'
  <2>1. \A x \in Params : Issued(x)' <=> Issued(x)
    BY <1>1 DEF Issued
  <2> QED
    BY <1>6, <2>1 DEF Single
<1>12. Fated'
  BY <1>1, <1>7 DEF Fated
<1>13. Counted'
  <2> SUFFICES ASSUME NEW q \in Producers, frees'[q] = 0
               PROVE  refCount[q] = Cardinality(Buffers(q)') + (IF FirstRef(q)' THEN 1 ELSE 0)
    BY <1>1 DEF Counted
  <2>1. frees[q] = 0
    BY <1>8
  <2>2. \A n \in 0 .. MaxBuffers : InPool(Param(q, n))' <=> InPool(Param(q, n))
    BY <1>7, ParamFacts DEF PoolSame
  <2>3. Buffers(q)' = Buffers(q) /\ (FirstRef(q)' <=> FirstRef(q))
    BY <1>1, <2>2, Kinds DEF Buffers, FirstRef
  <2> QED
    BY <2>1, <2>3 DEF Counted
<1>14. Last'
  <2>1. \A u \in Threads : pc'[u] = "tail" =>
           /\ u # t /\ pc[u] = "tail" /\ hold'[u] = hold[u]
           /\ hold[u].manager \in Producers /\ hold[u].manager # p
    BY <1>1, <1>4, HandFacts DEF Last, Carrying
  <2> QED
    BY <1>1, <1>8, <2>1 DEF Last
<1>15. Exited'
  <2>1. \A q \in Producers : Gone(q) => Gone(q)'
    BY <1>6 DEF Gone
  <2>2. \A q \in Producers : q # p => (FreeingLast(q) => FreeingLast(q)')
    BY <1>1, <1>4 DEF FreeingLast
  <2>3. \A q \in Producers : pc'[q] = pc[q]
    BY <1>2, <1>4, Kinds
  <2>4. \A q \in Producers : q = p => Gone(q)'
    <3>1. ASSUME NEW x \in Params, x.manager = p PROVE Copies(x)' = 0
      <4>1. x # h => ~Queued(x) /\ \A u \in Threads : hold[u] # x
        BY <1>3, <3>1
      <4> QED
        BY <1>6, <4>1, CopiesFacts
    <3> QED
      BY <3>1 DEF Gone
  <2>5. ASSUME NEW q \in Producers, q # p
        PROVE  /\ exitPc[q] \in {"push", "tail", "returned"} => pc'[q] = "exit"
               /\ exitPc[q] # "returned" => frees'[q] = 0
               /\ exitPc[q] = "tail" => Gone(q)'
               /\ frees'[q] > 0 => frees'[q] = 1 /\ Gone(q)'
               /\ exitPc[q] = "returned" /\ frees'[q] = 0 => refCount[q] > 0 \/ FreeingLast(q)'
    BY <1>8, <2>1, <2>2, <2>3, <2>5 DEF Exited
  <2>6. pc'[p] = "exit"
    BY <1>3, <2>3 DEF Exited
  <2>7. \A q \in Producers :
          /\ exitPc[q] \in {"push", "tail", "returned"} => pc'[q] = "exit"
          /\ exitPc[q] # "returned" => frees'[q] = 0
          /\ exitPc[q] = "tail" => Gone(q)'
          /\ frees'[q] > 0 => frees'[q] = 1 /\ Gone(q)'
          /\ exitPc[q] = "returned" /\ frees'[q] = 0 => refCount[q] > 0 \/ FreeingLast(q)'
    BY <1>3, <1>8, <2>4, <2>5, <2>6
  <2> QED
    BY <1>1, <2>7 DEF Exited
<1> QED
  BY <1>7, <1>9, <1>10, <1>11, <1>12, <1>13, <1>14, <1>15

-----------------------------------------------------------------------------
(***************************************************************************)
(* destroy_log_producer_manager                                            *)
(***************************************************************************)
\* A step of the destroyer that hands nothing over, and frees nothing.
LEMMA DestroyMoves ==
    ASSUME Inv, NEW p \in Producers, Destroy(p) \/ Shutdown(p) \/ JoinFlush(p)
    PROVE  Inv' /\ PoolSame
<1> USE DEF Inv
<1>1. /\ UNCHANGED <<pool, queue, refCount, wr, rd, frees, pc, hold, fate>>
      /\ exitPc[p] \in {"alive", "wait", "join"}
      /\ shutdown' \in [Producers -> BOOLEAN]
  BY DEF Destroy, Shutdown, JoinFlush, manager, TypeOK
<1>2. PICK to \in {"wait", "join", "push", "tail"} :
        /\ exitPc' = [exitPc EXCEPT ![p] = to]
        /\ to \in {"push", "tail"} => pc[p] = "exit"
        /\ to = "push" => pool # "none"
        /\ to = "tail" => pool = "none"
  BY DEF Destroy, Shutdown, JoinFlush, ExitTo
<1>3. exitPc' \in [Producers -> {"alive", "wait", "join", "push", "tail", "returned"}]
      /\ exitPc'[p] = to /\ \A q \in Producers : q # p => exitPc'[q] = exitPc[q]
  BY <1>2 DEF TypeOK
<1>4. TypeOK'
  BY <1>1, <1>3 DEF TypeOK
<1>5. Placed' /\ Handed'
  BY <1>1 DEF Placed, Handed
<1>6. \A q \in Producers : exitPc'[q] = "returned" <=> exitPc[q] = "returned"
  BY <1>1, <1>3
<1>7. \A x \in Params : /\ (Queued(x)' <=> Queued(x)) /\ Copies(x)' = Copies(x)
                        /\ (InPool(x)' <=> InPool(x)) /\ (Underway(x)' <=> Underway(x))
                        /\ (Issued(x)' <=> Issued(x))
  BY <1>1, <1>6, ParamFacts DEF Queued, Copies, Holders, InPool, Underway, Issued
<1>8. Single' /\ Fated' /\ PoolSame
  BY <1>1, <1>7 DEF Single, Fated, PoolSame
<1>9. Counted'
  BY <1>1, <1>6, <1>8, CountedSame
<1>10. Last'
  BY <1>1 DEF Last
<1>11. Staged'
  BY <1>1, <1>2, <1>3, <1>6 DEF Staged
<1>12. Exited'
  <2>1. \A q \in Producers : (Gone(q)' <=> Gone(q)) /\ (FreeingLast(q)' <=> FreeingLast(q))
    BY <1>1, <1>7 DEF Gone, FreeingLast
  <2>2. to = "tail" => Gone(p)
    <3> SUFFICES ASSUME to = "tail", NEW x \in Params, x.manager = p PROVE Copies(x) = 0
      BY DEF Gone
    <3>1. pool = "none" /\ queue = <<>> /\ pc[p] = "exit"
      BY <1>2 DEF Staged
    <3>2. ~Queued(x)
      BY <3>1, CountEmpty DEF Queued
    <3>3. ASSUME NEW u \in Threads, hold[u] = x PROVE FALSE
      <4>1. pc[u] \in Carrying
        BY <3>3, ParamFacts DEF Handed
      <4>2. u \in Producers
        BY <3>1, <4>1 DEF Staged, Carrying, Threads
      <4>3. u = p
        BY <3>3, <4>2, ParamFacts DEF Handed
      <4> QED
        BY <3>1, <4>1, <4>3 DEF Carrying
    <3> QED
      BY <3>2, <3>3, CopiesFacts
  <2> QED
    BY <1>1, <1>2, <1>3, <2>1, <2>2 DEF Exited
<1> QED
  BY <1>4, <1>5, <1>8, <1>9, <1>10, <1>11, <1>12

\* The destroy parameter, and the first reference with it, goes to the queue.
LEMMA PushDestroyParamInv ==
    ASSUME Inv, NEW p \in Producers, PushDestroyParam(p)
    PROVE  Inv' /\ \A x \in Params : InPool(x)' <=> InPool(x) \/ x = Param(p, 0)
<1> USE DEF Inv
<1> DEFINE z == Param(p, 0)
<1>1. /\ UNCHANGED <<pool, refCount, shutdown, wr, rd, frees, pc, hold, fate>>
      /\ exitPc[p] = "push" /\ exitPc' = [exitPc EXCEPT ![p] = "returned"]
      /\ queue' = Append(queue, z) /\ Len(queue) < QueueSize
  BY DEF PushDestroyParam, ExitTo, Param, manager
<1>2. z \in Params /\ z.manager = p /\ z.buf = 0
  BY ParamFacts, Kinds
<1>3. exitPc' \in [Producers -> {"alive", "wait", "join", "push", "tail", "returned"}]
      /\ exitPc'[p] = "returned" /\ \A q \in Producers : q # p => exitPc'[q] = exitPc[q]
  BY <1>1 DEF TypeOK
<1>4. TypeOK'
  <2>1. queue' \in Seq(Params) /\ Len(queue') <= QueueSize
    BY <1>1, <1>2, QueueTypes, Kinds
  <2> QED
    BY <1>1, <1>3, <2>1 DEF TypeOK
<1>5. Placed' /\ Handed'
  BY <1>1 DEF Placed, Handed
<1>6. \A x \in Params : /\ Queued(x)' <=> Queued(x) \/ x = z
                        /\ Copies(x) \in Nat
                        /\ Copies(x)' = Copies(x) + (IF x = z THEN 1 ELSE 0)
  <2> SUFFICES ASSUME NEW x \in Params
               PROVE  /\ Queued(x)' <=> Queued(x) \/ x = z
                      /\ Copies(x) \in Nat
                      /\ Copies(x)' = Copies(x) + (IF x = z THEN 1 ELSE 0)
    OBVIOUS
  <2>1. queue \in Seq(Params)
    BY DEF TypeOK
  <2>2. Count(queue', {x}) = Count(queue, {x}) + (IF z \in {x} THEN 1 ELSE 0)
    BY <1>1, <1>2, <2>1, CountAppend
  <2>3. Count(queue, {x}) \in Nat /\ Copies(x) \in Nat /\ Cardinality(Holders(x)) \in Nat
    BY CopiesFacts
  <2>4. Holders(x)' = Holders(x)
    BY <1>1 DEF Holders
  <2> QED
    BY <2>2, <2>3, <2>4 DEF Queued, Copies
<1>7. Copies(z) = 0
  BY <1>1, <1>2, <1>6 DEF Single, Issued
<1>8. Single'
  <2> SUFFICES ASSUME NEW x \in Params
               PROVE  Copies(x)' <= 1 /\ (Copies(x)' > 0 => Issued(x)')
    BY DEF Single
  <2>1. CASE x = z
    BY <1>2, <1>3, <1>6, <1>7, <2>1 DEF Issued
  <2>2. CASE x # z
    <3>1. Issued(x) => Issued(x)'
      BY <1>1, <1>3, ParamFacts DEF Issued
    <3> QED
      BY <1>6, <2>2, <3>1 DEF Single
  <2> QED
    BY <2>1, <2>2
<1>9. Fated'
  <2>1. \A x \in Params : x.buf # 0 => (Underway(x)' <=> Underway(x))
    BY <1>1, <1>2, <1>6 DEF Underway
  <2> QED
    BY <1>1, <2>1 DEF Fated
<1>10. \A x \in Params : InPool(x)' <=> InPool(x) \/ x = z
  BY <1>1, <1>6 DEF InPool
<1>11. Counted'
  <2> SUFFICES ASSUME NEW q \in Producers, frees[q] = 0
               PROVE  refCount[q] = Cardinality(Buffers(q)') + (IF FirstRef(q)' THEN 1 ELSE 0)
    BY <1>1 DEF Counted
  <2>1. Buffers(q)' = Buffers(q)
    <3> SUFFICES ASSUME NEW n \in 1 .. MaxBuffers
                 PROVE  InPool(Param(q, n))' <=> InPool(Param(q, n))
      BY DEF Buffers
    <3>1. Param(q, n) \in Params /\ Param(q, n).buf = n /\ n # 0
      BY Kinds, ParamFacts
    <3> QED
      BY <1>2, <1>10, <3>1
  <2>2. FirstRef(q)' <=> FirstRef(q)
    <3>1. Param(q, 0) \in Params /\ Param(q, 0).manager = q
      BY Kinds, ParamFacts
    <3>2. CASE q = p
      BY <1>1, <1>10, <3>1, <3>2 DEF FirstRef
    <3>3. CASE q # p
      BY <1>2, <1>3, <1>10, <3>1, <3>3 DEF FirstRef
    <3> QED
      BY <3>2, <3>3
  <2> QED
    BY <2>1, <2>2 DEF Counted
<1>12. Last'
  BY <1>1 DEF Last
<1>13. Staged'
  BY <1>1, <1>3 DEF Staged
<1>14. Exited'
  <2>1. \A q \in Producers : FreeingLast(q)' <=> FreeingLast(q)
    BY <1>1 DEF FreeingLast
  <2>2. \A q \in Producers : q # p /\ Gone(q) => Gone(q)'
    BY <1>2, <1>6 DEF Gone
  <2>3. frees[p] = 0 /\ pc[p] = "exit"
    BY <1>1 DEF Exited
  <2>4. refCount[p] > 0
    <3>1. refCount[p] = Cardinality(Buffers(p)) + 1
      BY <1>1, <2>3 DEF Counted, FirstRef
    <3> QED
      BY <3>1, BuffersFinite
  <2> QED
    BY <1>1, <1>3, <2>1, <2>2, <2>3, <2>4 DEF Exited
<1> QED
  BY <1>4, <1>5, <1>8, <1>9, <1>10, <1>11, <1>12, <1>13, <1>14

\* Without a pool the destroyer frees the producer itself.
LEMMA FreeTailInv == ASSUME Inv, NEW p \in Producers, FreeTail(p) PROVE Inv' /\ PoolSame
<1> USE DEF Inv
<1>1. /\ UNCHANGED <<pool, queue, refCount, shutdown, wr, rd, pc, hold, fate>>
      /\ exitPc[p] = "tail" /\ exitPc' = [exitPc EXCEPT ![p] = "returned"]
      /\ frees' = [frees EXCEPT ![p] = @ + 1]
  BY DEF FreeTail, ExitTo, manager
<1>2. frees[p] = 0 /\ Gone(p) /\ pc[p] = "exit"
  BY <1>1 DEF Exited
<1>3. exitPc' \in [Producers -> {"alive", "wait", "join", "push", "tail", "returned"}]
      /\ exitPc'[p] = "returned" /\ \A q \in Producers : q # p => exitPc'[q] = exitPc[q]
  BY <1>1 DEF TypeOK
<1>4. frees' \in [Producers -> Nat] /\ frees'[p] = 1 /\ \A q \in Producers : q # p => frees'[q] = frees[q]
  BY <1>1, <1>2 DEF TypeOK
<1>5. TypeOK' /\ Placed' /\ Handed'
  BY <1>1, <1>3, <1>4 DEF TypeOK, Placed, Handed
<1>6. \A x \in Params : /\ Copies(x)' = Copies(x) /\ (InPool(x)' <=> InPool(x))
                        /\ (Underway(x)' <=> Underway(x)) /\ (Issued(x) => Issued(x)')
  BY <1>1, <1>3, ParamFacts DEF Copies, Holders, InPool, Underway, Queued, Issued
<1>7. Single' /\ Fated' /\ PoolSame
  BY <1>1, <1>6 DEF Single, Fated, PoolSame
<1>8. Counted'
  <2> SUFFICES ASSUME NEW q \in Producers, frees'[q] = 0
               PROVE  refCount[q] = Cardinality(Buffers(q)') + (IF FirstRef(q)' THEN 1 ELSE 0)
    BY <1>1 DEF Counted
  <2>1. q # p /\ frees[q] = 0 /\ exitPc'[q] = exitPc[q]
    BY <1>3, <1>4
  <2>2. \A n \in 0 .. MaxBuffers : InPool(Param(q, n))' <=> InPool(Param(q, n))
    BY <1>6, ParamFacts
  <2>3. Buffers(q)' = Buffers(q) /\ (FirstRef(q)' <=> FirstRef(q))
    BY <2>1, <2>2, Kinds DEF Buffers, FirstRef
  <2> QED
    BY <2>1, <2>3 DEF Counted
<1>9. Last'
  <2>1. \A t \in Threads : pc[t] = "tail" => hold[t].manager # p /\ hold[t].manager \in Producers
    BY <1>1, LastAlone
  <2> QED
    BY <1>1, <1>4, <2>1 DEF Last
<1>10. Staged'
  BY <1>1, <1>3 DEF Staged
<1>11. Exited'
  <2>1. \A q \in Producers : (FreeingLast(q)' <=> FreeingLast(q)) /\ (Gone(q)' <=> Gone(q))
    BY <1>1, <1>6 DEF FreeingLast, Gone
  <2> QED
    BY <1>1, <1>2, <1>3, <1>4, <2>1 DEF Exited
<1> QED
  BY <1>5, <1>7, <1>8, <1>9, <1>10, <1>11

-----------------------------------------------------------------------------
(***************************************************************************)
(* Init and Next                                                           *)
(***************************************************************************)
\* Nothing is in the pool yet, and every producer has its first reference.
LEMMA InitInv == Init => Inv
<1> SUFFICES ASSUME Init PROVE Inv
  OBVIOUS
<1>1. queue = <<>> /\ \A t \in Threads : hold[t] = Nothing
  BY DEF Init
<1>2. TypeOK
  BY Kinds, EmptySeq DEF Init, TypeOK, PCs
<1>3. Placed /\ Handed
  BY Kinds DEF Init, Placed, Handed, PCsOf, FlushPCs, WorkerPCs, EnvPCs, Carrying, Threads
<1>4. \A x \in Params : Copies(x) = 0 /\ ~Queued(x) /\ ~InPool(x) /\ ~Underway(x)
  <2> SUFFICES ASSUME NEW x \in Params
               PROVE  Copies(x) = 0 /\ ~Queued(x) /\ ~InPool(x) /\ ~Underway(x)
    OBVIOUS
  <2>1. x # Nothing /\ ~Queued(x)
    BY <1>1, ParamFacts, CountEmpty DEF Queued
  <2>2. Copies(x) = 0
    BY <1>1, <1>2, <2>1, CopiesFacts
  <2> QED
    BY <1>1, <2>1, <2>2 DEF InPool, Underway
<1>5. Single
  BY <1>4 DEF Single
<1>6. Fated
  BY <1>4, ParamFacts DEF Init, Fated
<1>7. Staged
  BY Kinds DEF Init, Staged
<1>8. Exited
  BY DEF Init, Exited
<1>9. Last
  BY DEF Init, Last
<1>10. Counted
  <2> SUFFICES ASSUME NEW p \in Producers
               PROVE  refCount[p] = Cardinality(Buffers(p)) + (IF FirstRef(p) THEN 1 ELSE 0)
    BY DEF Counted
  <2>1. Buffers(p) = {}
    BY <1>4, ParamFacts, Kinds DEF Buffers
  <2> QED
    BY <2>1, FS_EmptySet DEF Init, FirstRef
<1> QED
  BY <1>2, <1>3, <1>5, <1>6, <1>7, <1>8, <1>9, <1>10 DEF Inv

\* Every step of the pool keeps the invariant.
LEMMA StepInv == Inv /\ [Next]_vars => Inv'
<1> SUFFICES ASSUME Inv, [Next]_vars PROVE Inv'
  OBVIOUS
<1>1. CASE UNCHANGED vars
  <2>1. UNCHANGED <<pool, queue, refCount, shutdown, wr, rd, exitPc, frees, pc, hold, fate>>
    BY <1>1 DEF vars, manager
  <2>2. TypeOK' /\ Placed' /\ Handed' /\ Staged' /\ Last'
    BY <2>1 DEF Inv, TypeOK, Placed, Handed, Staged, Last
  <2>3. Single' /\ Fated'
    BY <2>1 DEF Inv, Single, Copies, Holders, Issued, Fated, Underway, Queued
  <2>4. \A p \in Producers : (Gone(p)' <=> Gone(p)) /\ (FreeingLast(p)' <=> FreeingLast(p))
    BY <2>1 DEF Gone, FreeingLast, Copies, Holders
  <2>5. Exited'
    BY <2>1, <2>4 DEF Inv, Exited
  <2>6. PoolSame
    BY <2>1 DEF PoolSame, InPool, Queued
  <2>7. Counted'
    BY <2>1, <2>6, CountedSame DEF Inv
  <2> QED
    BY <2>2, <2>3, <2>5, <2>7 DEF Inv
<1>2. ASSUME NEW p \in Producers, FlushStep(p) \/ Destroy(p) \/ DestroyStep(p) PROVE Inv'
  BY <1>2, FlushMoves, TakeFromRing, PushInv, DestroyMoves, PushDestroyParamInv, FreeTailInv
     DEF FlushStep, DestroyStep
<1>3. ASSUME NEW t \in Threads, SendFun(t) \/ InnerStep(t) PROVE Inv'
  BY <1>3, SendMoves, SentInv, ReleaseInv, FreeLastInv DEF SendFun, InnerStep
<1>4. ASSUME NEW w \in Workers, WorkerStep(w) PROVE Inv'
  <2>1. CASE WorkerLoop(w) \/ WorkerPopTimeout(w)
    BY <2>1, WorkerMoves
  <2>2. CASE WorkerPop(w)
    <3>1. w \in Threads /\ ((w \in Workers /\ WorkerPop(w)) \/ (w = Env /\ EnvDrain))
      BY <2>2, Kinds
    <3> QED
      BY <3>1, PopInv
  <2> QED
    BY <1>4, <2>1, <2>2 DEF WorkerStep
<1>5. ASSUME GlobalInit \/ EnvDestroy \/ EnvStep PROVE Inv'
  BY <1>5, GlobalInitStep, EnvMoves, PopInv, Kinds DEF EnvStep
<1> QED
  BY <1>1, <1>2, <1>3, <1>4, <1>5 DEF Next, Ended

\* The inductive invariant holds.
LEMMA Invariant == Spec => []Inv
  BY InitInv, StepInv, PTL DEF Spec

-----------------------------------------------------------------------------
(***************************************************************************)
(* The properties                                                          *)
(***************************************************************************)
\* The variables have their types, and g_sender_data_queue keeps its size.
THEOREM TypeCorrect == Spec => []TypeOK
<1>1. Inv => TypeOK
  BY DEF Inv
<1> QED
  BY <1>1, Invariant, PTL

\* The buffers in the pool, as GlobalSenders says it.
Mapped == \A p \in Producers :
    /\ PooledBuffers(p) = Buffers(p)
    /\ Owned(p) <=> exitPc[p] \notin {"tail", "returned"} \/ InPool(Param(p, 0))

LEMMA MappedOK == Inv => Mapped
<1> SUFFICES ASSUME Inv, NEW p \in Producers
             PROVE  /\ PooledBuffers(p) = Buffers(p)
                    /\ Owned(p) <=> exitPc[p] \notin {"tail", "returned"} \/ InPool(Param(p, 0))
  BY DEF Mapped
<1>1. ASSUME NEW n \in 0 .. MaxBuffers PROVE Pooled(p, n) <=> InPool(Param(p, n))
  <2>1. Queued(Param(p, n)) <=> Param(p, n) \in Range(queue)
    BY ParamFacts, CopiesFacts DEF Inv
  <2> QED
    BY <2>1 DEF Pooled, InPool, PoolPCs, Param
<1>2. PooledBuffers(p) = Buffers(p)
  BY <1>1, Kinds DEF PooledBuffers, Buffers
<1> QED
  BY <1>1, <1>2, Kinds DEF Owned

\* ref_count counts the first reference and the buffers in the pool.
THEOREM RefCountExact == Spec => []RefCounted
<1>1. Inv => RefCounted
  <2> SUFFICES ASSUME Inv, NEW p \in Producers, frees[p] = 0
               PROVE  refCount[p] = Cardinality(PooledBuffers(p))
                                    + (IF Owned(p) \/ exitPc[p] = "tail" THEN 1 ELSE 0)
    BY DEF RefCounted
  <2>1. /\ PooledBuffers(p) = Buffers(p)
        /\ Owned(p) <=> exitPc[p] \notin {"tail", "returned"} \/ InPool(Param(p, 0))
    BY MappedOK DEF Mapped
  <2>2. (Owned(p) \/ exitPc[p] = "tail") <=> FirstRef(p)
    BY <2>1 DEF FirstRef
  <2> QED
    BY <2>1, <2>2 DEF Inv, Counted
<1> QED
  BY <1>1, Invariant, PTL

\* A producer that was freed was freed once, its flush thread and its destroyer are
\* done with it, and no thread and no slot of the queue has a parameter of it.
THEOREM FreedUnused == Spec => []NoUseAfterFree
<1>1. Inv => NoUseAfterFree
  <2> SUFFICES ASSUME Inv, NEW p \in Producers, frees[p] > 0
               PROVE  /\ frees[p] = 1 /\ pc[p] = "exit" /\ exitPc[p] = "returned"
                      /\ \A t \in Threads : hold[t] # Nothing => hold[t].manager # p
                      /\ \A i \in DOMAIN queue : queue[i].manager # p
    BY DEF NoUseAfterFree
  <2> USE DEF Inv
  <2>1. frees[p] = 1 /\ Gone(p) /\ exitPc[p] = "returned" /\ pc[p] = "exit"
    BY DEF Exited
  <2>2. \A x \in Params : x.manager = p => ~Queued(x) /\ \A t \in Threads : hold[t] # x
    BY <2>1, CopiesFacts DEF Gone
  <2>3. ASSUME NEW t \in Threads, hold[t] # Nothing PROVE hold[t].manager # p
    <3>1. hold[t] \in Params
      BY <2>3 DEF TypeOK
    <3> QED
      BY <2>2, <3>1
  <2>4. ASSUME NEW i \in DOMAIN queue PROVE queue[i].manager # p
    <3>1. queue[i] \in Params
      BY ElementOfSeq, LenProperties DEF TypeOK
    <3>2. Queued(queue[i])
      BY <3>1, CopiesFacts DEF Range
    <3> QED
      BY <2>2, <3>1, <3>2
  <2> QED
    BY <2>1, <2>3, <2>4
<1> QED
  BY <1>1, Invariant, PTL

\* A buffer that left its ring is in one slot of the queue or with one thread until
\* it has met its end, and nowhere after.
THEOREM OneHomeOnly == Spec => []OneHome
<1>1. Inv => OneHome
  <2> SUFFICES ASSUME Inv, NEW p \in Producers, NEW n \in 1 .. MaxBuffers
               PROVE  Places(p, n) = IF n <= rd[p] /\ fate[p][n] = "none" THEN 1 ELSE 0
    BY DEF OneHome
  <2> USE DEF Inv
  <2> DEFINE x == Param(p, n)
             H == {t \in Threads : hold[t] = x /\ pc[t] \in {"push", "check", "post"}}
  <2>1. x \in Params /\ x.manager = p /\ x.buf = n /\ n # 0
    BY ParamFacts, Kinds
  <2>2. Places(p, n) = Count(queue, {x}) + Cardinality(H)
    <3>1. {i \in DOMAIN queue : queue[i] = x} = Positions(queue, {x})
      BY DEF Positions
    <3> QED
      BY <3>1 DEF Places, Count, Param
  <2>3. Cardinality(H) = IF H = {} THEN 0 ELSE 1
    <3>1. IsFiniteSet(H)
      BY Kinds, FS_Subset
    <3>2. \A t, u \in H : t = u
      BY <2>1, SingleFacts
    <3> QED
      BY <3>1, <3>2, AtMostOne
  <2>4. Count(queue, {x}) \in Nat /\ (Queued(x) => Count(queue, {x}) = 1 /\ H = {})
    BY <2>1, CopiesFacts, SingleFacts
  <2>5. Places(p, n) = IF Underway(x) THEN 1 ELSE 0
    <3>1. Underway(x) <=> Queued(x) \/ H # {}
      BY DEF Underway
    <3>2. CASE Queued(x)
      BY <2>2, <2>3, <2>4, <3>1, <3>2
    <3>3. CASE ~Queued(x)
      <4>1. Count(queue, {x}) = 0
        BY <2>4, <3>3 DEF Queued
      <4> QED
        BY <2>2, <2>3, <3>1, <3>3, <4>1
    <3> QED
      BY <3>2, <3>3
  <2> QED
    BY <2>1, <2>5 DEF Fated
<1> QED
  BY <1>1, Invariant, PTL

\* After log_producer_env_destroy every producer has been freed, and every buffer
\* that left its ring was answered or reported.
THEOREM AllReclaimed == Spec => []NothingLeft
<1>1. Inv => NothingLeft
  <2> SUFFICES ASSUME Inv, pc[Env] = "done", NEW p \in Producers
               PROVE  frees[p] = 1 /\ \A n \in 1 .. rd[p] : fate[p][n] # "none"
    BY DEF NothingLeft
  <2> USE DEF Inv
  <2>1. queue = <<>> /\ \A q \in Producers : exitPc[q] = "returned" /\ pc[q] = "exit"
    BY DEF Staged, Exited
  <2>2. \A t \in Threads : pc[t] \notin Carrying
    BY <2>1 DEF Staged, Carrying, Threads
  <2>3. \A x \in Params : ~InPool(x) /\ ~Underway(x)
    <3>1. \A x \in Params : ~Queued(x)
      BY <2>1, CountEmpty DEF Queued
    <3> QED
      BY <2>2, <3>1, ParamFacts DEF InPool, Underway, Handed
  <2>4. frees[p] # 0
    <3> SUFFICES ASSUME frees[p] = 0 PROVE FALSE
      OBVIOUS
    <3>1. Buffers(p) = {} /\ ~FirstRef(p)
      BY <2>1, <2>3, ParamFacts, Kinds DEF Buffers, FirstRef
    <3>2. refCount[p] = 0
      BY <3>1, FS_EmptySet DEF Counted
    <3> QED
      BY <2>1, <2>2, <3>2 DEF Exited, FreeingLast, Carrying
  <2>5. frees[p] = 1
    BY <2>4 DEF Exited, TypeOK
  <2>6. ASSUME NEW n \in 1 .. rd[p] PROVE fate[p][n] # "none"
    <3>1. n \in 1 .. MaxBuffers /\ n <= rd[p]
      BY Kinds DEF TypeOK
    <3>2. Param(p, n) \in Params /\ Param(p, n).manager = p /\ Param(p, n).buf = n /\ n # 0
      BY <3>1, Kinds, ParamFacts
    <3> QED
      BY <2>3, <3>1, <3>2 DEF Fated
  <2> QED
    BY <2>5, <2>6
<1> QED
  BY <1>1, Invariant, PTL

-----------------------------------------------------------------------------
(***************************************************************************)
(* The pool implements Reclamation                                         *)
(***************************************************************************)
FirstOwned(p) == exitPc[p] \notin {"tail", "returned"} \/ InPool(Param(p, 0))

\* What Reclamation sees of the pool, before and after a step.
LEMMA Seen ==
    ASSUME Mapped, Mapped', NEW p \in Producers
    PROVE  /\ PooledBuffers(p) = Buffers(p) /\ PooledBuffers(p)' = Buffers(p)'
           /\ Owned(p) = FirstOwned(p) /\ Owned(p)' = FirstOwned(p)'
<1>1. /\ PooledBuffers(p) = Buffers(p) /\ PooledBuffers(p)' = Buffers(p)'
      /\ Owned(p) <=> FirstOwned(p)
      /\ Owned(p)' <=> FirstOwned(p)'
  BY DEF Mapped, FirstOwned
<1>2. Owned(p) \in BOOLEAN /\ Owned(p)' \in BOOLEAN /\ FirstOwned(p) \in BOOLEAN /\ FirstOwned(p)' \in BOOLEAN
  BY DEF Owned, FirstOwned
<1> QED
  BY <1>1, <1>2

\* A step that moves at most parameter z into the pool or out of it.
LEMMA OneMoves ==
    ASSUME NEW z \in Params, \A x \in Params : x # z => (InPool(x)' <=> InPool(x)),
           NEW p \in Producers
    PROVE  /\ p # z.manager \/ z.buf = 0 => Buffers(p)' = Buffers(p)
           /\ p # z.manager \/ z.buf # 0 => (InPool(Param(p, 0))' <=> InPool(Param(p, 0)))
           /\ p = z.manager /\ z.buf # 0 => Buffers(p)' \ {z.buf} = Buffers(p) \ {z.buf}
<1>1. \A n \in 0 .. MaxBuffers : p # z.manager \/ n # z.buf =>
        (InPool(Param(p, n))' <=> InPool(Param(p, n)))
  BY ParamFacts
<1> QED
  BY <1>1, Kinds DEF Buffers

\* A step that changes nothing of what Reclamation is about.
LEMMA StutterStep ==
    ASSUME Mapped, Mapped', UNCHANGED frees,
           \A p \in Producers : Buffers(p)' = Buffers(p) /\ (FirstOwned(p)' <=> FirstOwned(p))
    PROVE  UNCHANGED Reclaim!vars
<1>1. \A p \in Producers : FirstOwned(p)' = FirstOwned(p)
  BY DEF FirstOwned
<1>2. \A p \in Producers : Owned(p)' = Owned(p) /\ PooledBuffers(p)' = PooledBuffers(p)
  BY <1>1, Seen
<1> QED
  BY <1>2 DEF Reclaim!vars

\* ... as every step does that leaves the pool, and the destroyers, where they are.
LEMMA PoolSameStutters ==
    ASSUME Mapped, Mapped', PoolSame, UNCHANGED frees,
           \A p \in Producers : exitPc[p] \in {"tail", "returned"} <=> exitPc'[p] \in {"tail", "returned"}
    PROVE  UNCHANGED Reclaim!vars
<1>1. ASSUME NEW p \in Producers
      PROVE  Buffers(p)' = Buffers(p) /\ (FirstOwned(p)' <=> FirstOwned(p))
  <2>1. \A n \in 0 .. MaxBuffers : InPool(Param(p, n))' <=> InPool(Param(p, n))
    BY ParamFacts DEF PoolSame
  <2> QED
    BY <2>1, Kinds DEF Buffers, FirstOwned
<1> QED
  BY <1>1, StutterStep

\* Only producer p is freed.
FreedMore(p) == frees[p] = 0 /\ frees'[p] = 1 /\ \A q \in Producers : q # p => frees'[q] = frees[q]

LEMMA FreedOnce ==
    ASSUME NEW p \in Producers, FreedMore(p)
    PROVE  [q \in Producers |-> frees[q] > 0]' = [[q \in Producers |-> frees[q] > 0] EXCEPT ![p] = TRUE]
<1>1. \A q \in Producers : frees'[q] > 0 <=> q = p \/ frees[q] > 0
  BY DEF FreedMore
<1>2. \A r \in Producers : [q \in Producers |-> frees'[q] > 0][r]
                           = [[q \in Producers |-> frees[q] > 0] EXCEPT ![p] = TRUE][r]
  BY <1>1 DEF FreedMore
<1> QED
  BY <1>2

\* A free of a producer without an owner and without users.
LEMMA FreeStep ==
    ASSUME Mapped, Mapped', NEW p \in Producers, FreedMore(p),
           Buffers(p) = {}, ~FirstOwned(p),
           \A q \in Producers : Buffers(q)' = Buffers(q) /\ (FirstOwned(q)' <=> FirstOwned(q))
    PROVE  Reclaim!Free(p)
<1>1. \A q \in Producers : FirstOwned(q)' = FirstOwned(q)
  BY DEF FirstOwned
<1>2. \A q \in Producers : Owned(q)' = Owned(q) /\ PooledBuffers(q)' = PooledBuffers(q)
  BY <1>1, Seen
<1>3. ~Owned(p) /\ PooledBuffers(p) = {}
  BY Seen
<1>4. ~(frees[p] > 0)
  BY DEF FreedMore
<1> QED
  BY <1>2, <1>3, <1>4, FreedOnce DEF Reclaim!Free

\* The destroy parameter takes the first reference from the destroyer.
LEMMA DestroyParamStutters ==
    ASSUME Inv, Mapped, Mapped', NEW p \in Producers, PushDestroyParam(p)
    PROVE  UNCHANGED Reclaim!vars
<1>1. PICK z \in Params : z = Param(p, 0) /\ z.manager = p /\ z.buf = 0
  BY ParamFacts, Kinds
<1>2. /\ UNCHANGED frees /\ exitPc[p] = "push" /\ exitPc' = [exitPc EXCEPT ![p] = "returned"]
      /\ \A x \in Params : InPool(x)' <=> InPool(x) \/ x = z
  BY <1>1, PushDestroyParamInv DEF PushDestroyParam, ExitTo
<1>3. ASSUME NEW q \in Producers
      PROVE  Buffers(q)' = Buffers(q) /\ (FirstOwned(q)' <=> FirstOwned(q))
  <2>1. Buffers(q)' = Buffers(q) /\ (q # p => (InPool(Param(q, 0))' <=> InPool(Param(q, 0))))
    BY <1>1, <1>2, OneMoves
  <2>2. CASE q = p
    <3>1. InPool(Param(q, 0))'
      BY <1>1, <1>2, <2>2
    <3> QED
      BY <1>2, <2>1, <2>2, <3>1 DEF FirstOwned
  <2>3. CASE q # p
    BY <1>2, <2>1, <2>3 DEF FirstOwned, Inv, TypeOK
  <2> QED
    BY <2>2, <2>3
<1> QED
  BY <1>2, <1>3, StutterStep

\* With a pool, the flush thread lets one more user of the producer in.
LEMMA ReserveAcquires ==
    ASSUME Inv, Mapped, Mapped', NEW p \in Producers, Reserve(p)
    PROVE  Reclaim!Acquire(p, rd[p] + 1)
<1> USE DEF Inv
<1>1. UNCHANGED <<exitPc, frees>> /\ pc[p] = "send" /\ wr[p] > rd[p] /\ pool # "none"
  BY DEF Reserve
<1>2. PICK n \in 1 .. MaxBuffers, z \in Params : n = rd[p] + 1 /\ z = Param(p, n)
  BY <1>1, NotYetIssued
<1>3. /\ UNCHANGED <<exitPc, frees>> /\ pc[p] = "send"
      /\ \A x \in Params : InPool(x)' <=> InPool(x) \/ x = z
  BY <1>1, <1>2, TakeFromRing
<1>4. z.manager = p /\ z.buf = n /\ Copies(z) = 0
  BY <1>1, <1>2, NotYetIssued, ParamFacts, Kinds
<1>5. ~InPool(z) /\ InPool(z)'
  BY <1>3, <1>4, CopiesFacts DEF InPool
<1>6. exitPc[p] \notin {"tail", "returned"}
  BY <1>3 DEF Exited
<1>7. ASSUME NEW q \in Producers
      PROVE  /\ Buffers(q)' = IF q = p THEN Buffers(q) \cup {n} ELSE Buffers(q)
             /\ FirstOwned(q)' <=> FirstOwned(q)
  <2>1. CASE q = p
    <3>1. Buffers(q)' \ {n} = Buffers(q) \ {n} /\ (InPool(Param(q, 0))' <=> InPool(Param(q, 0)))
      BY <1>3, <1>4, <2>1, OneMoves
    <3>2. n \in Buffers(q)'
      <4>1. Param(q, n) = z
        BY <1>2, <2>1
      <4> QED
        BY <1>5, <4>1 DEF Buffers
    <3> QED
      BY <1>3, <2>1, <3>1, <3>2 DEF FirstOwned
  <2>2. CASE q # p
    BY <1>3, <1>4, <2>2, OneMoves DEF FirstOwned
  <2> QED
    BY <2>1, <2>2
<1>8. n \notin Buffers(p)
  BY <1>2, <1>5 DEF Buffers
<1>9. ASSUME NEW q \in Producers
      PROVE  /\ PooledBuffers(q)' = IF q = p THEN PooledBuffers(q) \cup {n} ELSE PooledBuffers(q)
             /\ Owned(q)' = Owned(q)
  BY <1>7, Seen DEF FirstOwned
<1>30. Owned(p) /\ n \notin PooledBuffers(p)
  BY <1>6, <1>8, Seen DEF FirstOwned
<1> QED
  BY <1>2, <1>3, <1>9, <1>30 DEF Reclaim!Acquire

\* A worker drops the reference of a buffer, or the first one.
LEMMA ReleaseReleases ==
    ASSUME Inv, Mapped, Mapped', NEW t \in Threads, Release(t)
    PROVE  /\ hold[t].manager \in Producers
           /\ hold[t].buf # 0 => /\ hold[t].buf \in 1 .. MaxBuffers
                                 /\ Reclaim!Release(hold[t].manager, hold[t].buf)
           /\ hold[t].buf = 0 => Reclaim!Disown(hold[t].manager)
<1> USE DEF Inv
<1>1. /\ UNCHANGED <<exitPc, frees>> /\ pc[t] = "release" /\ t \notin Producers
      /\ \A x \in Params : InPool(x)' <=> InPool(x) /\ x # hold[t]
  BY ReleaseInv DEF Release, Placed, PCsOf, FlushPCs
<1>2. PICK z \in Params : z = hold[t]
  BY <1>1, ReleaseFacts
<1>3. z.manager \in Producers /\ z.buf \in 0 .. MaxBuffers /\ z = Param(z.manager, z.buf)
  BY ParamFacts
<1>4. InPool(z) /\ ~(InPool(z)') /\ Issued(z)
  <2>1. InPool(hold[t]) /\ Issued(hold[t])
    BY <1>1, <1>2, ReleaseFacts, SingleFacts
  <2> QED
    BY <1>1, <1>2, <2>1
<1>5. \A x \in Params : x # z => (InPool(x)' <=> InPool(x))
  BY <1>1, <1>2
<1>6. CASE z.buf # 0
  <2>1. z.buf \in 1 .. MaxBuffers /\ z.buf \in Buffers(z.manager) /\ ~(z.buf \in Buffers(z.manager)')
    BY <1>3, <1>4, <1>6 DEF Buffers
  <2>2. ASSUME NEW q \in Producers
        PROVE  /\ Buffers(q)' = IF q = z.manager THEN Buffers(q) \ {z.buf} ELSE Buffers(q)
               /\ FirstOwned(q)' <=> FirstOwned(q)
    <3>1. CASE q = z.manager
      <4>1. Buffers(q)' \ {z.buf} = Buffers(q) \ {z.buf} /\ (InPool(Param(q, 0))' <=> InPool(Param(q, 0)))
        BY <1>5, <1>6, <3>1, OneMoves
      <4> QED
        BY <1>1, <2>1, <3>1, <4>1 DEF FirstOwned
    <3>2. CASE q # z.manager
      BY <1>1, <1>5, <3>2, OneMoves DEF FirstOwned
    <3> QED
      BY <3>1, <3>2
  <2>3. ASSUME NEW q \in Producers
        PROVE  /\ PooledBuffers(q)' = IF q = z.manager THEN PooledBuffers(q) \ {z.buf} ELSE PooledBuffers(q)
               /\ Owned(q)' = Owned(q)
    BY <2>2, Seen DEF FirstOwned
  <2>4. z.buf \in PooledBuffers(z.manager)
    BY <1>3, <2>1, Seen
  <2>5. Reclaim!Release(z.manager, z.buf)
    BY <1>1, <1>3, <2>3, <2>4 DEF Reclaim!Release
  <2> QED
    BY <1>2, <1>3, <1>6, <2>1, <2>5
<1>7. CASE z.buf = 0
  <2>1. exitPc[z.manager] = "returned"
    BY <1>4, <1>7 DEF Issued
  <2>2. FirstOwned(z.manager) /\ ~(FirstOwned(z.manager)')
    BY <1>1, <1>3, <1>4, <1>7, <2>1 DEF FirstOwned
  <2>3. ASSUME NEW q \in Producers
        PROVE  Buffers(q)' = Buffers(q) /\ (q # z.manager => (FirstOwned(q)' <=> FirstOwned(q)))
    BY <1>1, <1>5, <1>7, OneMoves DEF FirstOwned
  <2>4. ASSUME NEW q \in Producers
        PROVE  /\ PooledBuffers(q)' = PooledBuffers(q)
               /\ Owned(q)' = IF q = z.manager THEN FALSE ELSE Owned(q)
    BY <2>2, <2>3, Seen DEF FirstOwned
  <2>5. Owned(z.manager)
    BY <1>3, <2>2, Seen
  <2>6. Reclaim!Disown(z.manager)
    BY <1>1, <1>3, <2>4, <2>5 DEF Reclaim!Disown
  <2> QED
    BY <1>2, <1>3, <1>7, <2>6
<1> QED
  BY <1>6, <1>7

\* Without a pool the destroyer lets go when it has joined the flush thread.
LEMMA JoinDisowns ==
    ASSUME Inv, Inv', Mapped, Mapped', NEW p \in Producers, JoinFlush(p), pool = "none"
    PROVE  Reclaim!Disown(p)
<1>1. /\ UNCHANGED frees /\ PoolSame
      /\ exitPc[p] = "join" /\ exitPc' = [exitPc EXCEPT ![p] = "tail"]
  BY DestroyMoves DEF JoinFlush, ExitTo
<1>2. exitPc'[p] = "tail" /\ \A q \in Producers : q # p => exitPc'[q] = exitPc[q]
  BY <1>1 DEF Inv, TypeOK
<1>3. \A q \in Producers : \A n \in 0 .. MaxBuffers : InPool(Param(q, n))' <=> InPool(Param(q, n))
  BY <1>1, ParamFacts DEF PoolSame
<1>4. FirstOwned(p) /\ ~(FirstOwned(p)')
  <2>1. Param(p, 0) \in Params /\ Param(p, 0).manager = p
    BY ParamFacts, Kinds
  <2>2. Param(p, 0).buf = 0 /\ Copies(Param(p, 0)) = 0
    <3>1. Param(p, 0).buf = 0
      BY ParamFacts, Kinds
    <3>2. Copies(Param(p, 0)) \in Nat
      BY <2>1, CopiesFacts DEF Inv
    <3> QED
      BY <1>1, <2>1, <3>1, <3>2 DEF Inv, Single, Issued
  <2>3. ~InPool(Param(p, 0))
    BY <2>1, <2>2, CopiesFacts DEF Inv, InPool
  <2>4. ~(InPool(Param(p, 0))')
    BY <1>3, <2>3, Kinds
  <2> QED
    BY <1>1, <1>2, <2>4 DEF FirstOwned
<1>5. ASSUME NEW q \in Producers
      PROVE  Buffers(q)' = Buffers(q) /\ (q # p => (FirstOwned(q)' <=> FirstOwned(q)))
  BY <1>2, <1>3, Kinds DEF Buffers, FirstOwned
<1>6. ASSUME NEW q \in Producers
      PROVE  /\ PooledBuffers(q)' = PooledBuffers(q)
             /\ Owned(q)' = IF q = p THEN FALSE ELSE Owned(q)
  BY <1>4, <1>5, Seen DEF FirstOwned
<1>7. Owned(p)
  BY <1>4, Seen
<1> QED
  BY <1>1, <1>6, <1>7 DEF Reclaim!Disown

\* Who dropped the last reference frees a producer that nobody owns or uses.
LEMMA LastFrees ==
    ASSUME Inv, Mapped, Mapped', NEW t \in Threads, FreeLast(t)
    PROVE  \E p \in Producers : Reclaim!Free(p)
<1>1. PICK p \in Producers :
        /\ p = hold[t].manager /\ exitPc[p] = "returned" /\ frees[p] = 0
        /\ \A x \in Params : x.manager = p => ~InPool(x)
  BY LastAlone DEF FreeLast
<1>2. PoolSame /\ UNCHANGED exitPc /\ frees' = [frees EXCEPT ![p] = @ + 1]
  BY <1>1, FreeLastInv DEF FreeLast
<1>3. Buffers(p) = {} /\ ~FirstOwned(p)
  BY <1>1, ParamFacts, Kinds DEF Buffers, FirstOwned
<1>4. ASSUME NEW q \in Producers
      PROVE  Buffers(q)' = Buffers(q) /\ (FirstOwned(q)' <=> FirstOwned(q))
  <2>1. \A n \in 0 .. MaxBuffers : InPool(Param(q, n))' <=> InPool(Param(q, n))
    BY <1>2, ParamFacts DEF PoolSame
  <2> QED
    BY <1>2, <2>1, Kinds DEF Buffers, FirstOwned
<1>5. FreedMore(p)
  BY <1>1, <1>2 DEF FreedMore, Inv, TypeOK
<1>6. Reclaim!Free(p)
  BY <1>3, <1>4, <1>5, FreeStep
<1> QED
  BY <1>6

\* So does the destroyer without a pool.
LEMMA TailFrees ==
    ASSUME Inv, Mapped, Mapped', NEW p \in Producers, FreeTail(p)
    PROVE  Reclaim!Free(p)
<1> USE DEF Inv
<1>1. /\ PoolSame /\ exitPc[p] = "tail" /\ exitPc' = [exitPc EXCEPT ![p] = "returned"]
      /\ frees' = [frees EXCEPT ![p] = @ + 1]
  BY FreeTailInv DEF FreeTail, ExitTo
<1>2. frees[p] = 0 /\ \A x \in Params : x.manager = p => ~InPool(x)
  BY <1>1, CopiesFacts DEF Exited, Gone, InPool
<1>3. exitPc'[p] = "returned" /\ \A q \in Producers : q # p => exitPc'[q] = exitPc[q]
  BY <1>1 DEF TypeOK
<1>4. \A q \in Producers : \A n \in 0 .. MaxBuffers : InPool(Param(q, n))' <=> InPool(Param(q, n))
  BY <1>1, ParamFacts DEF PoolSame
<1>5. Buffers(p) = {} /\ ~FirstOwned(p)
  BY <1>1, <1>2, ParamFacts, Kinds DEF Buffers, FirstOwned
<1>6. ASSUME NEW q \in Producers
      PROVE  Buffers(q)' = Buffers(q) /\ (FirstOwned(q)' <=> FirstOwned(q))
  <2>1. Buffers(q)' = Buffers(q)
    BY <1>4, Kinds DEF Buffers
  <2>2. CASE q = p
    <3>1. ~InPool(Param(p, 0))
      BY <1>2, ParamFacts, Kinds
    <3> QED
      BY <1>1, <1>3, <1>4, <2>1, <2>2, <3>1, Kinds DEF FirstOwned
  <2>3. CASE q # p
    BY <1>3, <1>4, <2>1, <2>3, Kinds DEF FirstOwned
  <2> QED
    BY <2>2, <2>3
<1>7. FreedMore(p)
  BY <1>1, <1>2 DEF FreedMore, TypeOK
<1> QED
  BY <1>5, <1>6, <1>7, FreeStep

\* Every step is a step of Reclamation, or changes nothing of what it is about.
LEMMA NextReclaims ==
    ASSUME Inv, Inv', Mapped, Mapped', [Next]_vars
    PROVE  Reclaim!Next \/ UNCHANGED Reclaim!vars
<1>1. CASE UNCHANGED vars
  <2>1. PoolSame /\ UNCHANGED <<frees, exitPc>>
    BY <1>1 DEF vars, PoolSame, InPool, Queued
  <2> QED
    BY <2>1, PoolSameStutters
<1>2. ASSUME NEW p \in Producers, FlushStep(p) PROVE Reclaim!Next \/ UNCHANGED Reclaim!vars
  <2>1. CASE Reserve(p)
    <3>1. rd[p] + 1 \in 1 .. MaxBuffers
      BY <2>1, NotYetIssued DEF Reserve
    <3> QED
      BY <2>1, <3>1, ReserveAcquires DEF Reclaim!Next
  <2>2. CASE FlushRound(p) \/ FlushExit(p) \/ FlushEnd(p)
    BY <2>2, FlushMoves, PoolSameStutters DEF FlushRound, FlushExit, FlushEnd
  <2>3. CASE Push(p)
    BY <2>3, PushInv, PoolSameStutters DEF Push
  <2>4. CASE FlushDirect(p)
    <3>1. PoolSame /\ UNCHANGED <<frees, exitPc>>
      BY <2>4, TakeFromRing DEF FlushDirect, PoolSame
    <3> QED
      BY <3>1, PoolSameStutters
  <2> QED
    BY <1>2, <2>1, <2>2, <2>3, <2>4 DEF FlushStep
<1>3. ASSUME NEW p \in Producers, Destroy(p) \/ DestroyStep(p)
      PROVE  Reclaim!Next \/ UNCHANGED Reclaim!vars
  <2>1. CASE JoinFlush(p) /\ pool = "none"
    BY <2>1, JoinDisowns DEF Reclaim!Next
  <2>2. CASE FreeTail(p)
    BY <2>2, TailFrees DEF Reclaim!Next
  <2>3. CASE PushDestroyParam(p)
    BY <2>3, DestroyParamStutters
  <2>4. CASE Destroy(p) \/ Shutdown(p) \/ (JoinFlush(p) /\ pool # "none")
    <3>1. PoolSame /\ UNCHANGED frees
      BY <2>4, DestroyMoves DEF Destroy, Shutdown, JoinFlush
    <3>2. PICK to \in {"wait", "join", "push"} : exitPc' = [exitPc EXCEPT ![p] = to]
      BY <2>4 DEF Destroy, Shutdown, JoinFlush, ExitTo
    <3>3. exitPc[p] \in {"alive", "wait", "join"}
      BY <2>4 DEF Destroy, Shutdown, JoinFlush
    <3> QED
      BY <3>1, <3>2, <3>3, PoolSameStutters DEF Inv, TypeOK
  <2> QED
    BY <1>3, <2>1, <2>2, <2>3, <2>4 DEF DestroyStep
<1>4. ASSUME NEW t \in Threads, SendFun(t) \/ InnerStep(t) PROVE Reclaim!Next \/ UNCHANGED Reclaim!vars
  <2>1. CASE Release(t)
    BY <2>1, ReleaseReleases DEF Reclaim!Next
  <2>2. CASE FreeLast(t)
    <3>1. PICK p \in Producers : Reclaim!Free(p)
      BY <2>2, LastFrees
    <3> QED
      BY <3>1 DEF Reclaim!Next
  <2>3. CASE SendFun(t)
    <3>1. PoolSame
      BY <2>3, SendMoves, SentInv DEF SendFun
    <3>2. UNCHANGED <<frees, exitPc>>
      BY <2>3 DEF SendFun, SendNothing, SendExit, SendStart, SendDone, SendFailed
    <3> QED
      BY <3>1, <3>2, PoolSameStutters
  <2> QED
    BY <1>4, <2>1, <2>2, <2>3 DEF InnerStep
<1>5. ASSUME NEW w \in Workers, WorkerStep(w) PROVE Reclaim!Next \/ UNCHANGED Reclaim!vars
  <2>1. w \in Threads
    BY Kinds
  <2>2. PoolSame
    <3>1. CASE WorkerPop(w)
      BY <2>1, <3>1, PopInv
    <3>2. CASE WorkerLoop(w) \/ WorkerPopTimeout(w)
      BY <3>2, WorkerMoves
    <3> QED
      BY <1>5, <3>1, <3>2 DEF WorkerStep
  <2>3. UNCHANGED <<frees, exitPc>>
    BY <1>5 DEF WorkerStep, WorkerLoop, WorkerPop, WorkerPopTimeout
  <2> QED
    BY <2>2, <2>3, PoolSameStutters
<1>6. ASSUME GlobalInit \/ EnvDestroy \/ EnvStep PROVE Reclaim!Next \/ UNCHANGED Reclaim!vars
  <2>1. PoolSame
    <3>1. CASE EnvDrain
      BY <3>1, PopInv, Kinds
    <3> QED
      BY <1>6, <3>1, GlobalInitStep, EnvMoves DEF EnvStep
  <2>2. UNCHANGED <<frees, exitPc>>
    BY <1>6 DEF GlobalInit, EnvDestroy, EnvStep, EnvJoin, EnvDrain, EnvDone
  <2> QED
    BY <2>1, <2>2, PoolSameStutters
<1> QED
  BY <1>1, <1>2, <1>3, <1>4, <1>5, <1>6 DEF Next, Ended

\* ref_count implements the reclamation of shared objects: whatever the order in which
\* the workers finish a producer's buffers and its destroy parameter, it is freed
\* once, and when its owner and its last buffer have let go.
THEOREM ImplementsReclamation == Spec => ReclaimSpec
<1>1. Init => Reclaim!Init
  <2> SUFFICES ASSUME Init PROVE Reclaim!Init
    OBVIOUS
  <2>1. Inv /\ Mapped
    BY InitInv, MappedOK
  <2>2. ASSUME NEW p \in Producers
        PROVE  Owned(p) = TRUE /\ PooledBuffers(p) = {} /\ frees[p] = 0
    <3>1. exitPc[p] = "alive" /\ frees[p] = 0
      BY DEF Init
    <3>2. \A x \in Params : ~InPool(x)
      <4>1. \A x \in Params : ~Queued(x) /\ x # Nothing
        BY CountEmpty, ParamFacts DEF Init, Queued
      <4> QED
        BY <4>1 DEF Init, InPool
    <3>3. Buffers(p) = {}
      BY <3>2, ParamFacts, Kinds DEF Buffers
    <3> QED
      BY <2>1, <3>1, <3>3 DEF Mapped, Owned
  <2>3. \A p \in Producers : frees[p] > 0 <=> FALSE
    BY DEF Init
  <2>4. [p \in Producers |-> frees[p] > 0] = [p \in Producers |-> FALSE]
    <3>1. [p \in Producers |-> frees[p] > 0] = [p \in Producers |-> p # p]
      BY <2>3
    <3>2. [p \in Producers |-> p # p] = [p \in Producers |-> FALSE]
      OBVIOUS
    <3> QED
      BY <3>1, <3>2
  <2>5. [p \in Producers |-> Owned(p)] = [p \in Producers |-> TRUE]
    BY <2>2
  <2> QED
    BY <2>2, <2>4, <2>5 DEF Reclaim!Init
<1>2. Inv => Mapped
  BY MappedOK
<1>3. Inv /\ Inv' /\ Mapped /\ Mapped' /\ [Next]_vars => [Reclaim!Next]_(Reclaim!vars)
  BY NextReclaims
<1> QED
  BY <1>1, <1>2, <1>3, Invariant, PTL DEF Spec, ReclaimSpec, Reclaim!Spec
=============================================================================
