---------------------------- MODULE QueueLemmas ----------------------------
(***************************************************************************)
(* Lemmas that the proofs about several modules need: the arithmetic of a  *)
(* ring whose slots are positions modulo its size (data[tail++ % size] of  *)
(* log_queue.c, and send_param_queue), and how often something is in a     *)
(* queue, before and after a push or a pop.                                *)
(***************************************************************************)
EXTENDS Integers, Sequences, FiniteSets, SequenceTheorems, FiniteSetTheorems, TLAPS

\* Two positions in the ring less than its size apart are different slots.
LEMMA ModDistinct ==
    ASSUME NEW n \in Nat \ {0}, NEW a \in Nat, NEW b \in Nat, a < b, b - a < n
    PROVE  a % n # b % n
<1> DEFINE qa == a \div n  qb == b \div n
<1>1. a = n * qa + (a % n) /\ b = n * qb + (b % n) /\ qa \in Int /\ qb \in Int
  OBVIOUS
<1>2. SUFFICES ASSUME a % n = b % n PROVE FALSE
  OBVIOUS
<1>3. b - a = n * (qb - qa)
  BY <1>1, <1>2
<1>4. CASE qb - qa >= 1
  BY <1>1, <1>3, <1>4
<1>5. CASE qb - qa <= 0
  BY <1>1, <1>3, <1>5
<1> QED
  BY <1>1, <1>4, <1>5

\* Adding to a remainder is adding to the number.
LEMMA ModPlus ==
    ASSUME NEW n \in Nat \ {0}, NEW a \in Int, NEW b \in Int
    PROVE  ((a % n) + b) % n = (a + b) % n
<1> DEFINE c == (a % n) + b  d == a + b  qa == a \div n  qc == c \div n  qd == d \div n
           k == qc + qa - qd
<1>1. /\ a = n * qa + (a % n) /\ qa \in Int /\ a % n \in 0 .. n - 1
      /\ c = n * qc + (c % n) /\ qc \in Int /\ c % n \in 0 .. n - 1
      /\ d = n * qd + (d % n) /\ qd \in Int /\ d % n \in 0 .. n - 1
  OBVIOUS
<1>2. d = c + n * qa
  BY <1>1
<1> HIDE DEF c, d, qa, qc, qd
<1>3. (d % n) - (c % n) = n * k /\ k \in Int
  <2>1. n * k = n * qc + n * qa - n * qd
    BY <1>1
  <2> QED
    BY <1>1, <1>2, <2>1
<1>4. (d % n) - (c % n) < n /\ (c % n) - (d % n) < n
  BY <1>1
<1> HIDE DEF k
<1>5. CASE k >= 1
  BY <1>1, <1>3, <1>4, <1>5
<1>6. CASE k <= -1
  BY <1>1, <1>3, <1>4, <1>6
<1>7. CASE k = 0
  <2>1. d % n = c % n
    BY <1>1, <1>3, <1>7
  <2> QED
    BY <2>1 DEF c, d
<1> QED
  BY <1>3, <1>5, <1>6, <1>7

-----------------------------------------------------------------------------
\* The positions of a queue whose items are in T, and their number.
Positions(q, T) == {i \in DOMAIN q : q[i] \in T}
Count(q, T) == Cardinality(Positions(q, T))

\* A number of positions is a natural number, 0 when no item is in T.
LEMMA CountType ==
    ASSUME NEW S, NEW q \in Seq(S), NEW T
    PROVE  /\ IsFiniteSet(Positions(q, T)) /\ Count(q, T) \in Nat
           /\ Count(q, T) = 0 <=> \A i \in DOMAIN q : q[i] \notin T
<1>1. DOMAIN q = 1 .. Len(q) /\ Len(q) \in Nat
  BY LenProperties
<1>2. IsFiniteSet(1 .. Len(q))
  BY <1>1, FS_Interval
<1>3. IsFiniteSet(Positions(q, T))
  <2>1. Positions(q, T) \in SUBSET (1 .. Len(q))
    BY <1>1 DEF Positions
  <2> QED
    BY <1>2, <2>1, FS_Subset
<1>4. Count(q, T) \in Nat /\ (Count(q, T) = 0 <=> Positions(q, T) = {})
  BY <1>3, FS_CardinalityType, FS_EmptySet DEF Count
<1> QED
  BY <1>3, <1>4 DEF Positions

\* Nothing is in an empty queue.
LEMMA CountEmpty == \A T : Count(<<>>, T) = 0
<1>1. \A T : Positions(<<>>, T) = {}
  BY DEF Positions
<1> QED
  BY <1>1, FS_EmptySet DEF Count

\* A push adds one position.
LEMMA CountAppend ==
    ASSUME NEW S, NEW q \in Seq(S), NEW x \in S, NEW T
    PROVE  Count(Append(q, x), T) = Count(q, T) + (IF x \in T THEN 1 ELSE 0)
<1> DEFINE n == Len(q) + 1
<1>1. /\ DOMAIN Append(q, x) = 1 .. n /\ DOMAIN q = 1 .. n - 1 /\ n \in Nat
      /\ Append(q, x)[n] = x /\ \A i \in 1 .. n - 1 : Append(q, x)[i] = q[i]
  BY AppendProperties, LenProperties
<1>2. Positions(Append(q, x), T) = IF x \in T THEN Positions(q, T) \cup {n} ELSE Positions(q, T)
  <2> SUFFICES ASSUME NEW i \in 1 .. n
               PROVE  Append(q, x)[i] \in T <=> (i \in DOMAIN q /\ q[i] \in T) \/ (i = n /\ x \in T)
    BY <1>1 DEF Positions
  <2>1. CASE i = n
    BY <1>1, <2>1
  <2>2. CASE i # n
    BY <1>1, <2>2
  <2> QED
    BY <2>1, <2>2
<1>3. n \notin Positions(q, T)
  BY <1>1 DEF Positions
<1>4. IsFiniteSet(Positions(q, T)) /\ Count(q, T) \in Nat
  BY CountType
<1>5. Cardinality(Positions(q, T) \cup {n}) = Cardinality(Positions(q, T)) + 1
  BY <1>3, <1>4, FS_AddElement
<1> QED
  BY <1>2, <1>4, <1>5 DEF Count

\* A pop removes one.
LEMMA CountTail ==
    ASSUME NEW S, NEW q \in Seq(S), q # <<>>, NEW T
    PROVE  Count(q, T) = Count(Tail(q), T) + (IF Head(q) \in T THEN 1 ELSE 0)
<1>1. /\ DOMAIN q = 1 .. Len(q) /\ DOMAIN Tail(q) = 1 .. Len(q) - 1 /\ Len(q) \in Nat \ {0}
      /\ Head(q) = q[1] /\ \A i \in 1 .. Len(q) - 1 : Tail(q)[i] = q[i + 1]
      /\ Tail(q) \in Seq(S)
  BY HeadTailProperties, LenProperties, EmptySeq
<1> DEFINE R == Positions(q, T) \ {1}
           f == [i \in Positions(Tail(q), T) |-> i + 1]
<1>2. f \in Bijection(Positions(Tail(q), T), R)
  <2>1. \A i \in Positions(Tail(q), T) : i \in 1 .. Len(q) - 1 /\ i + 1 \in R
    BY <1>1 DEF Positions
  <2>2. f \in Injection(Positions(Tail(q), T), R)
    BY <2>1, <1>1 DEF Injection, IsInjective
  <2>3. \A j \in R : j - 1 \in Positions(Tail(q), T) /\ f[j - 1] = j
    <3> SUFFICES ASSUME NEW j \in R PROVE j - 1 \in Positions(Tail(q), T) /\ f[j - 1] = j
      OBVIOUS
    <3>1. j \in 2 .. Len(q) /\ q[j] \in T /\ j - 1 \in 1 .. Len(q) - 1 /\ (j - 1) + 1 = j
      BY <1>1 DEF Positions
    <3>2. j - 1 \in Positions(Tail(q), T)
      BY <1>1, <3>1 DEF Positions
    <3> QED
      BY <3>1, <3>2
  <2>4. f \in Surjection(Positions(Tail(q), T), R)
    BY <2>1, <2>3 DEF Surjection
  <2> QED
    BY <2>2, <2>4 DEF Bijection
<1>3. IsFiniteSet(Positions(Tail(q), T)) /\ IsFiniteSet(Positions(q, T))
  BY <1>1, CountType
<1>4. Cardinality(R) = Count(Tail(q), T)
  BY <1>2, <1>3, FS_Bijection DEF Count, ExistsBijection
<1>5. Cardinality(R) = IF 1 \in Positions(q, T) THEN Count(q, T) - 1 ELSE Count(q, T)
  BY <1>3, FS_RemoveElement DEF Count
<1>6. 1 \in Positions(q, T) <=> Head(q) \in T
  BY <1>1 DEF Positions
<1>7. Count(q, T) \in Nat /\ Count(Tail(q), T) \in Nat
  BY <1>1, CountType
<1> QED
  BY <1>4, <1>5, <1>6, <1>7

-----------------------------------------------------------------------------
\* Two sets that differ at most in x.
LEMMA OneDiffers ==
    ASSUME NEW S, NEW T, NEW x, IsFiniteSet(S), S \ {x} = T \ {x}
    PROVE  /\ IsFiniteSet(T) /\ Cardinality(S) \in Nat /\ Cardinality(T) \in Nat
           /\ Cardinality(T) = Cardinality(S) + (IF x \in T THEN 1 ELSE 0)
                                              - (IF x \in S THEN 1 ELSE 0)
<1>1. IsFiniteSet(S \ {x}) /\ Cardinality(S) \in Nat
      /\ Cardinality(S \ {x}) = IF x \in S THEN Cardinality(S) - 1 ELSE Cardinality(S)
  BY FS_RemoveElement, FS_CardinalityType
<1>2. /\ IsFiniteSet((S \ {x}) \cup {x})
      /\ Cardinality((S \ {x}) \cup {x}) = Cardinality(S \ {x}) + 1
  <2>1. x \notin S \ {x}
    OBVIOUS
  <2> QED
    BY <1>1, <2>1, FS_AddElement
<1>3. /\ IsFiniteSet(T)
      /\ Cardinality(T) = Cardinality(S \ {x}) + (IF x \in T THEN 1 ELSE 0)
  <2>1. CASE x \in T
    <3>1. T = (S \ {x}) \cup {x}
      BY <2>1
    <3> QED
      BY <1>2, <2>1, <3>1
  <2>2. CASE x \notin T
    <3>1. T = S \ {x}
      BY <2>2
    <3>2. Cardinality(T) \in Nat
      BY <1>1, <3>1, FS_CardinalityType
    <3> QED
      BY <1>1, <2>2, <3>1, <3>2
  <2> QED
    BY <2>1, <2>2
<1>4. Cardinality(T) \in Nat
  BY <1>3, FS_CardinalityType
<1> QED
  BY <1>1, <1>3, <1>4

\* A finite set with no element, or with one, has that many.
LEMMA AtMostOne ==
    ASSUME NEW S, IsFiniteSet(S), \A x, y \in S : x = y
    PROVE  Cardinality(S) = IF S = {} THEN 0 ELSE 1
<1>1. CASE S = {}
  BY <1>1, FS_EmptySet
<1>2. ASSUME NEW x \in S PROVE Cardinality(S) = 1
  <2>1. S = {x}
    BY <1>2
  <2> QED
    BY <2>1, FS_Singleton
<1> QED
  BY <1>1, <1>2

\* Disjoint finite sets.
LEMMA Disjoint ==
    ASSUME NEW S, NEW T, IsFiniteSet(S), IsFiniteSet(T), S \cap T = {}
    PROVE  /\ IsFiniteSet(S \cup T)
           /\ Cardinality(S \cup T) = Cardinality(S) + Cardinality(T)
           /\ Cardinality(S) \in Nat /\ Cardinality(T) \in Nat
BY FS_Union, FS_EmptySet, FS_CardinalityType
=============================================================================
