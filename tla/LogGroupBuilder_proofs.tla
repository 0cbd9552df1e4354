------------------------ MODULE LogGroupBuilder_proofs ------------------------
(***************************************************************************)
(* Proofs about LogGroupBuilder, for every base, every length and every    *)
(* sequence of calls: what is announced is what is written, the bytes are  *)
(* protobuf's, nothing is written outside its buffer as long as a group is *)
(* below a quarter of Wrap, and fix_log_group_time writes behind a group   *)
(* only when that ends in an Exposed log.                                  *)
(*                                                                         *)
(* The definitions that recur over a sequence are reasoned about by        *)
(* induction.  The library's induction theorems take a predicate, which no *)
(* prover here can instantiate; Induct below takes a set instead.          *)
(***************************************************************************)
EXTENDS LogGroupBuilder, WellFoundedInduction, SequenceTheorems, TLAPS

-----------------------------------------------------------------------------
(***************************************************************************)
(* Induction                                                               *)
(***************************************************************************)
LEMMA Least ==
    ASSUME NEW T \in SUBSET Nat, T # {}
    PROVE  \E n \in T : \A m \in T : n <= m
<1> DEFINE R == {ss \in Nat \X Nat : ss[1] < ss[2]}
<1>1. IsWellFoundedOn(R, Nat)
  BY NatLessThanWellFounded DEF OpToRel
<1>2. PICK x \in T : \A y \in T : ~(<<y, x>> \in R)
  <2> HIDE DEF R
  <2> QED BY <1>1, WFMin
<1>3. \A y \in T : ~(y < x)
  BY <1>2
<1> QED
  BY <1>3

LEMMA Induct ==
    ASSUME NEW S, 0 \in S, \A n \in Nat : n \in S => n + 1 \in S
    PROVE  Nat \subseteq S
<1> SUFFICES ASSUME Nat \ S # {} PROVE FALSE
  OBVIOUS
<1>1. PICK n \in Nat \ S : \A m \in Nat \ S : n <= m
  BY Least
<1>2. n # 0 /\ n - 1 \in Nat /\ n - 1 \in S
  BY <1>1
<1> QED
  BY <1>1, <1>2

LEMMA InductAppend ==
    ASSUME NEW S, NEW T, <<>> \in T, \A q \in Seq(S), x \in S : q \in T => Append(q, x) \in T
    PROVE  Seq(S) \subseteq T
<1> DEFINE N == {n \in Nat : \A q \in Seq(S) : Len(q) = n => q \in T}
<1>1. 0 \in N
  BY EmptySeq
<1>2. ASSUME NEW n \in Nat, n \in N PROVE n + 1 \in N
  <2> SUFFICES ASSUME NEW q \in Seq(S), Len(q) = n + 1 PROVE q \in T
    OBVIOUS
  <2>1. PICK p \in Seq(S), x \in S : q = Append(p, x)
    BY SequenceEmptyOrAppend
  <2>2. Len(p) = n
    BY <2>1, AppendProperties
  <2> QED
    BY <1>2, <2>1, <2>2
<1>3. Nat \subseteq N
  <2> HIDE DEF N
  <2> QED BY <1>1, <1>2, Induct
<1> QED
  BY <1>3, LenProperties

LEMMA InductFront ==
    ASSUME NEW S, NEW T, <<>> \in T, \A q \in Seq(S), x \in S : q \in T => <<x>> \o q \in T
    PROVE  Seq(S) \subseteq T
<1> DEFINE N == {n \in Nat : \A q \in Seq(S) : Len(q) = n => q \in T}
<1>1. 0 \in N
  BY EmptySeq
<1>2. ASSUME NEW n \in Nat, n \in N PROVE n + 1 \in N
  <2> SUFFICES ASSUME NEW q \in Seq(S), Len(q) = n + 1 PROVE q \in T
    OBVIOUS
  <2>1. Head(q) \in S /\ Tail(q) \in Seq(S) /\ Len(Tail(q)) = n /\ q = <<Head(q)>> \o Tail(q)
    BY HeadTailProperties
  <2> QED
    BY <1>2, <2>1
<1>3. Nat \subseteq N
  <2> HIDE DEF N
  <2> QED BY <1>1, <1>2, Induct
<1> QED
  BY <1>3, LenProperties

-----------------------------------------------------------------------------
(***************************************************************************)
(* FlattenSeq of the community modules: the function it recurs with exists *)
(* and is unique                                                           *)
(***************************************************************************)
IsFlatten(f, q) == f = [i \in 1 .. Len(q) |-> IF i = 1 THEN q[i] ELSE f[i - 1] \o q[i]]

FlattenUpto(f, q, n) == \A i \in 1 .. n : f[i] = IF i = 1 THEN q[i] ELSE f[i - 1] \o q[i]

LEMMA FlattenStep ==
    ASSUME NEW q, NEW f, IsFlatten(f, q)
    PROVE  FlattenUpto(f, q, Len(q))
<1>1. ASSUME NEW i \in 1 .. Len(q) PROVE f[i] = IF i = 1 THEN q[i] ELSE f[i - 1] \o q[i]
  BY DEF IsFlatten
<1> QED
  BY <1>1 DEF FlattenUpto

LEMMA FlattenExists ==
    ASSUME NEW S, NEW q \in Seq(Seq(S))
    PROVE  \E f \in [1 .. Len(q) -> Seq(S)] : IsFlatten(f, q)
<1> DEFINE N == {n \in Nat : n <= Len(q) => \E f \in [1 .. n -> Seq(S)] : FlattenUpto(f, q, n)}
<1>1. 0 \in N
  <2>1. 1 .. 0 = {}
    OBVIOUS
  <2>2. [i \in {} |-> <<>>] \in [{} -> Seq(S)]
    OBVIOUS
  <2> QED
    BY <2>1, <2>2 DEF FlattenUpto
<1>2. ASSUME NEW n \in Nat, n \in N PROVE n + 1 \in N
  <2> SUFFICES ASSUME n + 1 <= Len(q) PROVE \E f \in [1 .. n + 1 -> Seq(S)] : FlattenUpto(f, q, n + 1)
    OBVIOUS
  <2>1. PICK f \in [1 .. n -> Seq(S)] : FlattenUpto(f, q, n)
    BY <1>2, LenProperties
  <2>2. n + 1 \in 1 .. Len(q) /\ q[n + 1] \in Seq(S)
    BY ElementOfSeq
  <2> DEFINE x == IF n = 0 THEN q[1] ELSE f[n] \o q[n + 1]
             g == [i \in 1 .. n + 1 |-> IF i <= n THEN f[i] ELSE x]
  <2>3. x \in Seq(S)
    BY <2>2, ConcatProperties
  <2>4. g \in [1 .. n + 1 -> Seq(S)]
    BY <2>3
  <2>5. FlattenUpto(g, q, n + 1)
    <3> SUFFICES ASSUME NEW i \in 1 .. n + 1
                 PROVE  g[i] = IF i = 1 THEN q[i] ELSE g[i - 1] \o q[i]
      BY DEF FlattenUpto
    <3>1. CASE i <= n
      <4>1. i \in 1 .. n /\ g[i] = f[i] /\ (i # 1 => g[i - 1] = f[i - 1])
        BY <3>1
      <4>2. f[i] = IF i = 1 THEN q[i] ELSE f[i - 1] \o q[i]
        BY <2>1, <4>1 DEF FlattenUpto
      <4> HIDE DEF g
      <4> QED
        BY <4>1, <4>2
    <3>2. CASE i = n + 1
      <4>1. g[i] = x /\ (n # 0 => g[i - 1] = f[n])
        BY <3>2
      <4> HIDE DEF g
      <4> QED
        BY <3>2, <4>1
    <3> QED
      BY <3>1, <3>2
  <2> QED
    BY <2>4, <2>5
<1>3. Len(q) \in N
  <2>1. Nat \subseteq N
    <3> HIDE DEF N
    <3> QED BY <1>1, <1>2, Induct
  <2> QED
    BY <2>1, LenProperties
<1>4. PICK f \in [1 .. Len(q) -> Seq(S)] : FlattenUpto(f, q, Len(q))
  BY <1>3
<1> QED
  BY <1>4 DEF IsFlatten, FlattenUpto

LEMMA FlattenUnique ==
    ASSUME NEW S, NEW q \in Seq(Seq(S)), NEW f, NEW g, IsFlatten(f, q), IsFlatten(g, q)
    PROVE  f = g
<1> DEFINE N == {n \in Nat : n \in 1 .. Len(q) => f[n] = g[n]}
<1>1. 0 \in N
  OBVIOUS
<1>2. ASSUME NEW n \in Nat, n \in N PROVE n + 1 \in N
  <2> SUFFICES ASSUME n + 1 \in 1 .. Len(q) PROVE f[n + 1] = g[n + 1]
    OBVIOUS
  <2>1. /\ f[n + 1] = IF n + 1 = 1 THEN q[n + 1] ELSE f[n + 1 - 1] \o q[n + 1]
        /\ g[n + 1] = IF n + 1 = 1 THEN q[n + 1] ELSE g[n + 1 - 1] \o q[n + 1]
    BY FlattenStep DEF FlattenUpto
  <2>2. n # 0 => f[n] = g[n]
    BY <1>2, LenProperties
  <2> QED
    BY <2>1, <2>2
<1>3. Nat \subseteq N
  <2> HIDE DEF N
  <2> QED BY <1>1, <1>2, Induct
<1>4. \A i \in 1 .. Len(q) : f[i] = g[i]
  BY <1>3
<1>5. /\ f = [i \in 1 .. Len(q) |-> f[i]]
      /\ g = [i \in 1 .. Len(q) |-> g[i]]
  BY DEF IsFlatten
<1> QED
  BY <1>4, <1>5

LEMMA FlattenIs ==
    ASSUME NEW S, NEW q \in Seq(Seq(S)), q # <<>>, NEW f, IsFlatten(f, q)
    PROVE  FlattenSeq(q) = f[Len(q)]
<1> DEFINE g == CHOOSE h : IsFlatten(h, q)
<1>1. IsFlatten(g, q)
  OBVIOUS
<1>2. f = g
  <2> HIDE DEF g
  <2> QED BY <1>1, FlattenUnique
<1>3. FlattenSeq(q) = g[Len(q)]
  BY EmptySeq DEF FlattenSeq, IsFlatten
<1> QED
  BY <1>2, <1>3

LEMMA FlattenEmpty == FlattenSeq(<<>>) = <<>>
BY EmptySeq DEF FlattenSeq

LEMMA FlattenType ==
    ASSUME NEW S, NEW q \in Seq(Seq(S))
    PROVE  FlattenSeq(q) \in Seq(S)
<1>1. CASE q = <<>>
  BY <1>1, FlattenEmpty, EmptySeq
<1>2. CASE q # <<>>
  <2>1. PICK f \in [1 .. Len(q) -> Seq(S)] : IsFlatten(f, q)
    BY FlattenExists
  <2>2. Len(q) \in 1 .. Len(q)
    BY <1>2, EmptySeq, LenProperties
  <2> QED
    BY SMTT(60), <1>2, <2>1, <2>2, FlattenIs
<1> QED
  BY <1>1, <1>2

LEMMA FlattenAppend ==
    ASSUME NEW S, NEW q \in Seq(Seq(S)), NEW x \in Seq(S)
    PROVE  FlattenSeq(Append(q, x)) = FlattenSeq(q) \o x
<1> DEFINE r == Append(q, x)
<1>1. r \in Seq(Seq(S)) /\ r # <<>> /\ Len(r) = Len(q) + 1 /\ r[Len(r)] = x
      /\ \A i \in 1 .. Len(q) : r[i] = q[i]
  BY AppendProperties
<1> HIDE DEF r
<1>2. PICK f \in [1 .. Len(r) -> Seq(S)] : IsFlatten(f, r)
  BY <1>1, FlattenExists
<1>3. FlattenSeq(r) = f[Len(r)]
  BY <1>1, <1>2, FlattenIs
<1>4. CASE q = <<>>
  <2>1. f[Len(r)] = x
    BY <1>1, <1>2, <1>4, EmptySeq DEF IsFlatten
  <2> QED
    BY <1>3, <1>4, <2>1, FlattenEmpty, ConcatEmptySeq DEF r
<1>5. CASE q # <<>>
  <2> DEFINE g == [i \in 1 .. Len(q) |-> f[i]]
  <2>1. Len(q) \in Nat \ {0}
    BY <1>5, EmptySeq, LenProperties
  <2>2. IsFlatten(g, q)
    <3>1. ASSUME NEW i \in 1 .. Len(q) PROVE f[i] = IF i = 1 THEN q[i] ELSE f[i - 1] \o q[i]
      <4>1. i \in 1 .. Len(r) /\ r[i] = q[i]
        BY <1>1, <2>1
      <4> QED
        BY <1>2, <4>1 DEF IsFlatten
    <3>2. ASSUME NEW i \in 1 .. Len(q)
          PROVE  f[i] = IF i = 1 THEN q[i] ELSE g[i - 1] \o q[i]
      <4>1. i # 1 => g[i - 1] = f[i - 1]
        BY <2>1
      <4> QED
        BY <3>1, <4>1
    <3> QED
      BY <3>2 DEF IsFlatten
  <2>3. FlattenSeq(q) = f[Len(q)]
    <3>1. g[Len(q)] = f[Len(q)]
      BY <2>1
    <3> HIDE DEF g
    <3> QED
      BY <1>5, <2>2, <3>1, FlattenIs
  <2>4. f[Len(r)] = f[Len(q)] \o x
    <3>1. Len(r) \in 1 .. Len(r) /\ Len(r) # 1 /\ Len(r) - 1 = Len(q)
      BY <1>1, <2>1
    <3>2. f[Len(r)] = f[Len(r) - 1] \o r[Len(r)]
      BY <1>2, <3>1 DEF IsFlatten
    <3> QED
      BY <1>1, <3>1, <3>2
  <2> QED
    BY <1>3, <2>3, <2>4 DEF r
<1> QED
  BY <1>4, <1>5

LEMMA FlattenOne ==
    ASSUME NEW S, NEW x \in Seq(S)
    PROVE  FlattenSeq(<<x>>) = x
<1>1. <<>> \in Seq(Seq(S)) /\ Append(<<>>, x) = <<x>>
  OBVIOUS
<1>2. FlattenSeq(Append(<<>>, x)) = FlattenSeq(<<>>) \o x
  BY <1>1, FlattenAppend
<1> QED
  BY <1>1, <1>2, FlattenEmpty, ConcatEmptySeq

LEMMA FlattenConcat ==
    ASSUME NEW S, NEW p \in Seq(Seq(S)), NEW q \in Seq(Seq(S))
    PROVE  FlattenSeq(p \o q) = FlattenSeq(p) \o FlattenSeq(q)
<1> DEFINE T == {s \in Seq(Seq(S)) : FlattenSeq(p \o s) = FlattenSeq(p) \o FlattenSeq(s)}
<1>1. <<>> \in T
  BY FlattenEmpty, FlattenType, ConcatEmptySeq
<1>2. ASSUME NEW s \in Seq(Seq(S)), NEW x \in Seq(S), s \in T PROVE Append(s, x) \in T
  <2>1. p \o Append(s, x) = Append(p \o s, x)
    <3>1. Append(s, x) = s \o <<x>> /\ Append(p \o s, x) = (p \o s) \o <<x>>
      BY AppendIsConcat, ConcatProperties
    <3>2. <<x>> \in Seq(Seq(S))
      OBVIOUS
    <3> QED
      BY <3>1, <3>2, ConcatAssociative
  <2>2. FlattenSeq(p \o Append(s, x)) = FlattenSeq(p \o s) \o x
    BY <2>1, FlattenAppend, ConcatProperties
  <2>3. FlattenSeq(p) \in Seq(S) /\ FlattenSeq(s) \in Seq(S)
    BY FlattenType
  <2>4. FlattenSeq(Append(s, x)) = FlattenSeq(s) \o x
    BY FlattenAppend
  <2>5. (FlattenSeq(p) \o FlattenSeq(s)) \o x = FlattenSeq(p) \o (FlattenSeq(s) \o x)
    BY SMTT(60), <2>3, ConcatAssociative
  <2> QED
    BY <1>2, <2>2, <2>4, <2>5, AppendProperties
<1>3. Seq(Seq(S)) \subseteq T
  <2> HIDE DEF T
  <2> QED BY <1>1, <1>2, InductAppend
<1> QED
  BY <1>3

-----------------------------------------------------------------------------
(***************************************************************************)
(* Varints: uint32_pack writes as many bytes as uint32_size says, and      *)
(* those are the digits                                                    *)
(***************************************************************************)
LEMMA Divide ==
    ASSUME NEW v \in Nat, NEW b \in Nat, b > 0
    PROVE  /\ v \div b \in Nat /\ v % b \in 0 .. b - 1
           /\ v = b * (v \div b) + (v % b)
OBVIOUS

LEMMA DivideUnique ==
    ASSUME NEW b \in Nat, NEW q \in Nat, NEW r \in Nat, NEW x \in Nat, NEW y \in Nat,
           r < b, y < b, b * q + r = b * x + y
    PROVE  q = x
<1>1. CASE q < x
  <2>1. b * (q + 1) <= b * x
    BY <1>1
  <2> QED
    BY <2>1
<1>2. CASE x < q
  <2>1. b * (x + 1) <= b * q
    BY <1>2
  <2> QED
    BY <2>1
<1> QED
  BY <1>1, <1>2

LEMMA DivideLess ==
    ASSUME NEW v \in Nat, NEW b \in Nat, b > 0, NEW p \in Nat
    PROVE  v \div b < p <=> v < b * p
<1> DEFINE q == v \div b
<1>1. q \in Nat /\ v % b \in 0 .. b - 1 /\ v = b * q + (v % b)
  BY Divide
<1> HIDE DEF q
<1>2. ASSUME q < p PROVE v < b * p
  <2>1. b * (q + 1) <= b * p
    BY <1>1, <1>2
  <2>2. b * (q + 1) = b * q + b
    BY <1>1
  <2> QED
    BY <1>1, <2>1, <2>2
<1>3. ASSUME p <= q PROVE b * p <= v
  <2>1. b * p <= b * q
    BY <1>1, <1>3
  <2> QED
    BY <1>1, <2>1
<1> QED
  BY <1>1, <1>2, <1>3 DEF q

LEMMA DivideTwice ==
    ASSUME NEW v \in Nat, NEW b \in Nat, b > 0, NEW p \in Nat, p > 0
    PROVE  (v \div b) \div p = v \div (b * p)
<1> DEFINE q == v \div b
           x == q \div p
           y == v \div (b * p)
<1>1. b * p \in Nat /\ b * p > 0
  OBVIOUS
<1>2. q \in Nat /\ v % b \in 0 .. b - 1 /\ v = b * q + (v % b)
  BY Divide
<1>3. x \in Nat /\ q % p \in 0 .. p - 1 /\ q = p * x + (q % p)
  BY <1>2, Divide
<1>4. y \in Nat /\ v % (b * p) \in 0 .. b * p - 1 /\ v = (b * p) * y + (v % (b * p))
  BY <1>1, Divide
<1> HIDE DEF q, x, y
<1> DEFINE r == b * (q % p) + (v % b)
<1>5. v = (b * p) * x + r
  <2>1. b * q = b * (p * x) + b * (q % p)
    BY <1>3
  <2>2. b * (p * x) = (b * p) * x
    BY <1>3
  <2>3. b * q \in Nat /\ b * (q % p) \in Nat /\ (b * p) * x \in Nat /\ v % b \in Nat
    BY <1>1, <1>2, <1>3
  <2>4. v = ((b * p) * x + b * (q % p)) + (v % b)
    BY <1>2, <2>1, <2>2
  <2> QED
    BY <2>3, <2>4
<1>6. r \in Nat /\ r < b * p
  <2>1. b * ((q % p) + 1) <= b * p
    BY <1>3
  <2>2. b * ((q % p) + 1) = b * (q % p) + b /\ b * (q % p) \in Nat
    BY <1>3
  <2> QED
    BY <1>2, <2>1, <2>2
<1>7. x = y
  <2> HIDE DEF r
  <2> QED BY <1>1, <1>3, <1>4, <1>5, <1>6, DivideUnique
<1> QED
  BY <1>7 DEF x, y, q

LEMMA Powers ==
    /\ \A n \in 0 .. 5 : Power(n) \in Nat /\ Power(n) > 0
    /\ \A n \in 0 .. 4 : Power(n + 1) = Base * Power(n) /\ Power(n) < Power(n + 1)
    /\ Power(0) = 1 /\ Power(1) = Base
<1>1. /\ Power(0) = 1 /\ Power(1) = Base
      /\ Power(2) = Base * Base /\ Power(3) = Base * Base * Base
      /\ Power(4) = Base * Base * Base * Base
      /\ Power(5) = Base * Base * Base * Base * Base
  BY DEF Power
<1>2. Base \in Nat /\ Base > 1
  BY BaseAssumption
<1>3. ASSUME NEW p \in Nat, p > 0 PROVE Base * p \in Nat /\ Base * p > p /\ p * Base = Base * p
  <2> DEFINE k == (Base - 2) * p
  <2>1. k \in Nat
    BY <1>2
  <2>2. Base * p = k + 2 * p
    BY <1>2
  <2>3. Base * p \in Nat /\ p * Base = Base * p
    BY <1>2
  <2> HIDE DEF k
  <2>4. Base * p > p
    BY <1>3, <2>1, <2>2
  <2> QED
    BY <2>3, <2>4
<1> DEFINE good(n) == Power(n) \in Nat /\ Power(n) > 0
<1>4. good(0) /\ good(1) /\ Power(0) < Power(1) /\ Power(1) = Base * Power(0)
  BY <1>1, <1>2
<1>5. good(2) /\ Power(1) < Power(2) /\ Power(2) = Base * Power(1)
  BY <1>1, <1>2, <1>3, <1>4
<1>6. good(3) /\ Power(2) < Power(3) /\ Power(3) = Base * Power(2)
  <2>1. Power(3) = Power(2) * Base
    BY <1>1
  <2> QED
    BY <1>3, <1>5, <2>1
<1>7. good(4) /\ Power(3) < Power(4) /\ Power(4) = Base * Power(3)
  <2>1. Power(4) = Power(3) * Base
    BY <1>1
  <2> QED
    BY <1>3, <1>6, <2>1
<1>8. good(5) /\ Power(4) < Power(5) /\ Power(5) = Base * Power(4)
  <2>1. Power(5) = Power(4) * Base
    BY <1>1
  <2> QED
    BY <1>3, <1>7, <2>1
<1> HIDE DEF good
<1>9. \A n \in 0 .. 5 : good(n)
  BY <1>4, <1>5, <1>6, <1>7, <1>8
<1>10. \A n \in 0 .. 4 : Power(n + 1) = Base * Power(n) /\ Power(n) < Power(n + 1)
  BY <1>4, <1>5, <1>6, <1>7, <1>8
<1> QED
  BY <1>1, <1>9, <1>10 DEF good

LEMMA VarSizeCases ==
    ASSUME NEW v \in Nat
    PROVE  /\ VarSize(v) \in 1 .. 5
           /\ \A n \in 1 .. 4 : VarSize(v) <= n <=> v < Power(n)
<1> DEFINE is(n) == (v < Power(n) \/ n = 5) /\ \A m \in 1 .. n - 1 : v >= Power(m)
<1>1. \E n \in 1 .. 5 : is(n)
  <2> DEFINE T == {n \in 1 .. 5 : v < Power(n) \/ n = 5}
  <2>1. T \in SUBSET Nat /\ 5 \in T
    OBVIOUS
  <2>2. PICK n \in T : \A m \in T : n <= m
    <3> HIDE DEF T
    <3> QED BY <2>1, Least
  <2>3. \A m \in 1 .. n - 1 : v >= Power(m)
    BY <2>2, Powers
  <2> QED
    BY <2>2, <2>3
<1>2. VarSize(v) \in 1 .. 5 /\ is(VarSize(v))
  BY <1>1 DEF VarSize
<1>3. ASSUME NEW n \in 1 .. 4 PROVE VarSize(v) <= n <=> v < Power(n)
  <2>1. ASSUME v < Power(n) PROVE VarSize(v) <= n
    BY <1>2, <2>1, Powers
  <2>2. ASSUME VarSize(v) <= n PROVE v < Power(n)
    <3>1. v < Power(VarSize(v))
      BY <1>2, <2>2
    <3>2. Power(1) < Power(2) /\ Power(2) < Power(3) /\ Power(3) < Power(4)
      BY Powers
    <3>3. \A m \in 1 .. 4 : Power(m) \in Nat
      BY Powers
    <3> HIDE DEF is
    <3> QED
      BY <1>2, <2>2, <3>1, <3>2, <3>3
  <2> QED
    BY <2>1, <2>2
<1> QED
  BY <1>2, <1>3

LEMMA MoreIs ==
    ASSUME NEW v \in Nat, NEW rest \in Seq(Nat)
    PROVE  /\ More(v, rest) \in Seq(Nat)
           /\ v < Base => More(v, rest) = <<v>>
           /\ v >= Base => /\ Len(More(v, rest)) = Len(rest) + 1
                           /\ More(v, rest)[1] = (v % Base) + Base
                           /\ \A i \in 1 .. Len(rest) : More(v, rest)[i + 1] = rest[i]
<1>1. Base \in Nat /\ Base > 0
  BY BaseAssumption
<1>2. (v % Base) + Base \in Nat
  BY <1>1, Divide
<1> DEFINE x == (v % Base) + Base
<1>3. CASE v < Base
  BY <1>1, <1>3 DEF More
<1>4. CASE v >= Base
  <2>1. More(v, rest) = <<x>> \o rest
    BY <1>1, <1>4 DEF More
  <2>2. <<x>> \in Seq(Nat) /\ Len(<<x>>) = 1 /\ <<x>>[1] = x
    BY <1>2
  <2> HIDE DEF x
  <2>3. /\ <<x>> \o rest \in Seq(Nat)
        /\ Len(<<x>> \o rest) = 1 + Len(rest)
        /\ \A i \in 1 .. 1 + Len(rest) : (<<x>> \o rest)[i] = IF i <= 1 THEN <<x>>[i] ELSE rest[i - 1]
    BY <2>2, ConcatProperties
  <2>4. Len(rest) \in Nat
    BY LenProperties
  <2>5. (<<x>> \o rest)[1] = x /\ \A i \in 1 .. Len(rest) : (<<x>> \o rest)[i + 1] = rest[i]
    BY <2>2, <2>3, <2>4
  <2> QED
    BY <1>1, <1>4, <2>1, <2>3, <2>4, <2>5 DEF x
<1> QED
  BY <1>1, <1>3, <1>4

\* A varint of one more byte, if one is needed.
LEMMA VarSizeDivide ==
    ASSUME NEW v \in Nat
    PROVE  /\ v \div Base \in Nat
           /\ VarSize(v) = 1 <=> v < Base
           /\ \A k \in 1 .. 3 : VarSize(v \div Base) <= k <=> VarSize(v) <= k + 1
           /\ v < Power(5) => VarSize(v \div Base) <= 4
<1> DEFINE w == v \div Base
<1>1. Base \in Nat /\ Base > 0
  BY BaseAssumption
<1>2. w \in Nat
  BY <1>1, Divide
<1>3. \A k \in 0 .. 4 : w < Power(k) <=> v < Power(k + 1)
  BY <1>1, DivideLess, Powers
<1> HIDE DEF w
<1>4. /\ VarSize(w) \in 1 .. 5 /\ \A n \in 1 .. 4 : VarSize(w) <= n <=> w < Power(n)
      /\ VarSize(v) \in 1 .. 5 /\ \A n \in 1 .. 4 : VarSize(v) <= n <=> v < Power(n)
  BY <1>2, VarSizeCases
<1>5. VarSize(v) = 1 <=> v < Base
  BY <1>4, Powers
<1>6. ASSUME NEW k \in 1 .. 3 PROVE VarSize(w) <= k <=> VarSize(v) <= k + 1
  BY <1>3, <1>4
<1>7. v < Power(5) => VarSize(w) <= 4
  BY <1>3, <1>4
<1> QED
  BY <1>2, <1>5, <1>6, <1>7 DEF w

\* uint32_pack cut off after k bytes.
LengthUpTo(p, v, k) == p \in Seq(Nat) /\ Len(p) = IF VarSize(v) <= k THEN VarSize(v) ELSE k

LEMMA MoreLength ==
    ASSUME NEW v \in Nat, NEW k \in 1 .. 4, NEW rest, LengthUpTo(rest, v \div Base, k)
    PROVE  LengthUpTo(More(v, rest), v, k + 1)
<1>1. rest \in Seq(Nat) /\ More(v, rest) \in Seq(Nat)
      /\ (v < Base => More(v, rest) = <<v>>)
  BY MoreIs DEF LengthUpTo
<1>2. VarSize(v) \in 1 .. 5 /\ VarSize(v \div Base) \in 1 .. 5
  BY VarSizeCases, VarSizeDivide
<1>5. /\ VarSize(v) = 1 <=> v < Base
      /\ \A n \in 1 .. 3 : VarSize(v \div Base) <= n <=> VarSize(v) <= n + 1
  BY VarSizeDivide
<1>3. CASE v < Base
  <2>1. Len(<<v>>) = 1
    OBVIOUS
  <2> QED
    BY <1>1, <1>3, <1>5, <2>1 DEF LengthUpTo
<1>4. CASE v >= Base
  <2>1. Len(More(v, rest)) = Len(rest) + 1
    BY <1>1, <1>4, MoreIs
  <2>2. Len(rest) = IF VarSize(v \div Base) <= k THEN VarSize(v \div Base) ELSE k
    BY DEF LengthUpTo
  <2>3. /\ VarSize(v) # 1
        /\ \A n \in 1 .. 3 : VarSize(v \div Base) <= n <=> VarSize(v) <= n + 1
    BY <1>4, <1>5, BaseAssumption
  <2>4. Len(rest) + 1 = IF VarSize(v) <= k + 1 THEN VarSize(v) ELSE k + 1
    BY <1>2, <2>2, <2>3
  <2> QED
    BY <1>1, <2>1, <2>4 DEF LengthUpTo
<1> QED
  BY <1>3, <1>4, BaseAssumption

\* As many bytes as uint32_size says.
LEMMA PackLength ==
    ASSUME NEW v \in Nat
    PROVE  Pack(v) \in Seq(Nat) /\ Len(Pack(v)) = VarSize(v)
<1>1. \A w \in Nat : w \div Base \in Nat /\ VarSize(w) \in 1 .. 5
  BY VarSizeDivide, VarSizeCases
<1>2. \A w \in Nat : LengthUpTo(Pack1(w), w, 1)
  BY <1>1 DEF LengthUpTo, Pack1
<1>3. \A w \in Nat : LengthUpTo(Pack2(w), w, 2)
  BY <1>1, <1>2, MoreLength DEF Pack2
<1>4. \A w \in Nat : LengthUpTo(Pack3(w), w, 3)
  BY <1>1, <1>3, MoreLength DEF Pack3
<1>5. \A w \in Nat : LengthUpTo(Pack4(w), w, 4)
  BY <1>1, <1>4, MoreLength DEF Pack4
<1>6. LengthUpTo(Pack(v), v, 5)
  BY <1>1, <1>5, MoreLength DEF Pack
<1>7. VarSize(v) <= 5
  BY <1>1
<1> QED
  BY <1>6, <1>7 DEF LengthUpTo

Digits(p, v) ==
    /\ p \in Seq(Nat) /\ Len(p) = VarSize(v)
    /\ \A i \in 1 .. VarSize(v) :
          p[i] = ((v \div Power(i - 1)) % Base) + (IF i < VarSize(v) THEN Base ELSE 0)

LEMMA OneDigit ==
    ASSUME NEW v \in Nat, v < Base
    PROVE  Digits(<<v>>, v)
<1>1. VarSize(v) = 1 /\ Base \in Nat
  BY VarSizeDivide, BaseAssumption
<1>2. v \div Power(0) = v
  <2>1. v \div 1 = v
    OBVIOUS
  <2> QED
    BY <2>1, Powers
<1>3. v % Base = v
  BY <1>1
<1>4. \A i \in 1 .. 1 : i - 1 = 0 /\ <<v>>[i] = v
  OBVIOUS
<1> QED
  BY <1>1, <1>2, <1>3, <1>4 DEF Digits

LEMMA MoreDigits ==
    ASSUME NEW v \in Nat, v < Power(5), NEW rest, v >= Base => Digits(rest, v \div Base),
           rest \in Seq(Nat)
    PROVE  Digits(More(v, rest), v)
<1> DEFINE w == v \div Base
<1>1. Base \in Nat /\ Base > 0 /\ w \in Nat /\ VarSize(v) \in 1 .. 5 /\ VarSize(w) \in 1 .. 5
  BY BaseAssumption, VarSizeDivide, VarSizeCases
<1>2. CASE v < Base
  BY <1>2, MoreIs, OneDigit
<1>3. CASE v >= Base
  <2>1. VarSize(v) = VarSize(w) + 1
    BY <1>1, <1>3, VarSizeDivide
  <2>2. /\ Len(More(v, rest)) = Len(rest) + 1 /\ Len(rest) = VarSize(w)
        /\ More(v, rest)[1] = (v % Base) + Base
        /\ \A i \in 1 .. Len(rest) : More(v, rest)[i + 1] = rest[i]
    BY <1>3, MoreIs DEF Digits
  <2>3. ASSUME NEW i \in 1 .. VarSize(v)
        PROVE  More(v, rest)[i] = ((v \div Power(i - 1)) % Base) + (IF i < VarSize(v) THEN Base ELSE 0)
    <3>1. CASE i = 1
      <4>1. v \div Power(0) = v
        <5>1. v \div 1 = v
          OBVIOUS
        <5> QED
          BY <5>1, Powers
      <4> QED
        BY <1>1, <2>1, <2>2, <3>1, <4>1
    <3>2. CASE i # 1
      <4> DEFINE j == i - 1
      <4>1. j \in 1 .. VarSize(w) /\ i = j + 1 /\ j - 1 \in 0 .. 4 /\ j \in 0 .. 5
        BY <1>1, <2>1, <3>2
      <4> HIDE DEF j, w
      <4>2. More(v, rest)[i] = rest[j]
        BY <2>2, <4>1
      <4>3. rest[j] = ((w \div Power(j - 1)) % Base) + (IF j < VarSize(w) THEN Base ELSE 0)
        BY <1>3, <4>1 DEF Digits, w
      <4>4. w \div Power(j - 1) = v \div Power(j)
        <5>1. /\ \A m \in 0 .. 4 : Power(m + 1) = Base * Power(m)
              /\ \A m \in 0 .. 5 : Power(m) \in Nat /\ Power(m) > 0
          BY Powers
        <5>2. j - 1 + 1 = j /\ j - 1 \in 0 .. 5
          BY <4>1
        <5>3. Power(j) = Base * Power(j - 1) /\ Power(j - 1) \in Nat /\ Power(j - 1) > 0
          BY <4>1, <5>1, <5>2
        <5>4. (v \div Base) \div Power(j - 1) = v \div (Base * Power(j - 1))
          BY <1>1, <5>3, DivideTwice
        <5> QED
          BY <5>3, <5>4 DEF w
      <4>5. j < VarSize(w) <=> i < VarSize(v)
        BY <1>1, <2>1, <4>1
      <4>6. j = i - 1
        BY DEF j
      <4> QED
        BY <4>2, <4>3, <4>4, <4>5, <4>6
    <3> QED
      BY <3>1, <3>2
  <2>4. More(v, rest) \in Seq(Nat)
    BY MoreIs
  <2> QED
    BY <2>1, <2>2, <2>3, <2>4 DEF Digits
<1> QED
  BY <1>1, <1>2, <1>3

LEMMA PackDigits ==
    ASSUME NEW v \in Nat, v < Power(5)
    PROVE  Digits(Pack(v), v)
<1>1. Base \in Nat /\ Base > 0 /\ \A k \in 1 .. 5 : Power(k) \in Nat /\ Power(k) <= Power(5)
  BY BaseAssumption, Powers
<1>2. \A w \in Nat, k \in 1 .. 4 :
        w \div Base \in Nat /\ (w < Power(k + 1) => w \div Base < Power(k))
  <2> SUFFICES ASSUME NEW w \in Nat, NEW k \in 1 .. 4
               PROVE  w \div Base \in Nat /\ (w < Power(k + 1) => w \div Base < Power(k))
    OBVIOUS
  <2>1. Power(k + 1) = Base * Power(k) /\ Power(k) \in Nat
    BY Powers
  <2>2. w \div Base < Power(k) <=> w < Base * Power(k)
    BY <1>1, <2>1, DivideLess
  <2>3. w \div Base \in Nat
    BY <1>1, Divide
  <2> QED
    BY <2>1, <2>2, <2>3
<1>3. \A w \in Nat : w < Power(1) => Digits(Pack1(w), w)
  BY OneDigit, Powers DEF Pack1
<1>4. \A w \in Nat : Pack1(w) \in Seq(Nat)
  BY DEF Pack1
<1>5. \A w \in Nat : Pack2(w) \in Seq(Nat) /\ (w < Power(2) => Digits(Pack2(w), w))
  <2> SUFFICES ASSUME NEW w \in Nat
               PROVE  Pack2(w) \in Seq(Nat) /\ (w < Power(2) => Digits(Pack2(w), w))
    OBVIOUS
  <2>1. w \div Base \in Nat /\ (w < Power(2) => w \div Base < Power(1) /\ w < Power(5))
    BY <1>1, <1>2
  <2>2. /\ Pack1(w \div Base) \in Seq(Nat)
        /\ w < Power(2) => Digits(Pack1(w \div Base), w \div Base)
    BY <1>3, <1>4, <2>1
  <2> QED
    BY <2>1, <2>2, MoreDigits, MoreIs DEF Pack2
<1>6. \A w \in Nat : Pack3(w) \in Seq(Nat) /\ (w < Power(3) => Digits(Pack3(w), w))
  <2> SUFFICES ASSUME NEW w \in Nat
               PROVE  Pack3(w) \in Seq(Nat) /\ (w < Power(3) => Digits(Pack3(w), w))
    OBVIOUS
  <2>1. w \div Base \in Nat /\ (w < Power(3) => w \div Base < Power(2) /\ w < Power(5))
    BY <1>1, <1>2
  <2>2. /\ Pack2(w \div Base) \in Seq(Nat)
        /\ w < Power(3) => Digits(Pack2(w \div Base), w \div Base)
    BY <1>5, <2>1
  <2> QED
    BY <2>1, <2>2, MoreDigits, MoreIs DEF Pack3
<1>7. \A w \in Nat : Pack4(w) \in Seq(Nat) /\ (w < Power(4) => Digits(Pack4(w), w))
  <2> SUFFICES ASSUME NEW w \in Nat
               PROVE  Pack4(w) \in Seq(Nat) /\ (w < Power(4) => Digits(Pack4(w), w))
    OBVIOUS
  <2>1. w \div Base \in Nat /\ (w < Power(4) => w \div Base < Power(3) /\ w < Power(5))
    BY <1>1, <1>2
  <2>2. /\ Pack3(w \div Base) \in Seq(Nat)
        /\ w < Power(4) => Digits(Pack3(w \div Base), w \div Base)
    BY <1>6, <2>1
  <2> QED
    BY <2>1, <2>2, MoreDigits, MoreIs DEF Pack4
<1> QED
  BY <1>1, <1>2, <1>7, MoreDigits, MoreIs DEF Pack

\* The bytes of uint32_pack are the wire format's.
LEMMA PackIsVarint ==
    ASSUME NEW v \in Nat, v < Power(5)
    PROVE  Pack(v) = Varint(v)
<1> DEFINE is(m) == v < Power(m) /\ (m = 1 \/ v >= Power(m - 1))
           n == CHOOSE m \in 1 .. 5 : is(m)
<1>1. VarSize(v) \in 1 .. 5 /\ \A m \in 1 .. 4 : VarSize(v) <= m <=> v < Power(m)
  BY VarSizeCases
<1>2. \A m \in 0 .. 5 : Power(m) \in Nat
  BY Powers
<1>3. is(VarSize(v))
  BY <1>1, <1>2
<1>4. ASSUME NEW m \in 1 .. 5, is(m) PROVE m = VarSize(v)
  <2>1. CASE m = 5
    BY <1>1, <1>2, <1>4, <2>1
  <2>2. CASE m \in 1 .. 4 /\ m # 1
    <3>1. VarSize(v) <= m /\ ~(VarSize(v) <= m - 1)
      BY <1>1, <1>2, <1>4, <2>2
    <3> QED
      BY <1>1, <3>1
  <2>3. CASE m = 1
    BY <1>1, <1>4, <2>3
  <2> QED
    BY <2>1, <2>2, <2>3
<1>5. n = VarSize(v)
  <2> HIDE DEF is
  <2> QED BY <1>1, <1>3, <1>4
<1> DEFINE digit(i) == ((v \div Power(i - 1)) % Base) + (IF i < n THEN Base ELSE 0)
<1>6. Varint(v) = [i \in 1 .. n |-> digit(i)]
  BY DEF Varint
<1>7. /\ Pack(v) \in Seq(Nat) /\ Len(Pack(v)) = n
      /\ \A i \in 1 .. n : Pack(v)[i] = digit(i)
  BY <1>5, PackDigits DEF Digits
<1> HIDE DEF n, digit
<1> QED
  BY <1>6, <1>7

-----------------------------------------------------------------------------
(***************************************************************************)
(* The sizes that are announced are those of the bytes that are written    *)
(***************************************************************************)
LEMMA ConcatLength ==
    ASSUME NEW S, NEW p \in Seq(S), NEW q \in Seq(S)
    PROVE  p \o q \in Seq(S) /\ Len(p \o q) = Len(p) + Len(q) /\ Len(p) \in Nat /\ Len(q) \in Nat
BY ConcatProperties, LenProperties

LEMMA Associative ==
    ASSUME NEW p \in Seq(Nat), NEW q \in Seq(Nat), NEW r \in Seq(Nat)
    PROVE  p \o q \o r = p \o (q \o r)
BY SMTT(60), ConcatAssociative

LEMMA Headers ==
    /\ LogHeader \in Nat /\ TimeHeader \in Nat /\ PairHeader \in Nat
    /\ TopicHeader \in Nat /\ SourceHeader \in Nat /\ TagHeader \in Nat
BY DEF LogHeader, TimeHeader, PairHeader, TopicHeader, SourceHeader, TagHeader

LEMMA ContentLength ==
    ASSUME NEW n \in Nat
    PROVE  Content(n) \in Seq(Nat) /\ Len(Content(n)) = n
<1>1. Content(n) \in [1 .. n -> Nat]
  BY Headers DEF Content
<1> QED
  BY <1>1

LEMMA FieldLength ==
    ASSUME NEW h \in Nat, NEW n \in Nat
    PROVE  /\ <<h>> \in Seq(Nat) /\ Len(<<h>>) = 1
           /\ <<h>> \o Pack(n) \in Seq(Nat) /\ Len(<<h>> \o Pack(n)) = 1 + VarSize(n)
           /\ <<h>> \o Pack(n) \o Content(n) \in Seq(Nat)
           /\ Len(<<h>> \o Pack(n) \o Content(n)) = 1 + VarSize(n) + n
<1>1. <<h>> \in Seq(Nat) /\ Len(<<h>>) = 1
  OBVIOUS
<1>2. Pack(n) \in Seq(Nat) /\ Len(Pack(n)) = VarSize(n) /\ VarSize(n) \in Nat
  BY PackLength, VarSizeCases
<1>3. <<h>> \o Pack(n) \in Seq(Nat) /\ Len(<<h>> \o Pack(n)) = 1 + VarSize(n)
  BY <1>1, <1>2, ConcatLength
<1> QED
  BY SMTT(60), <1>1, <1>3, ContentLength, ConcatLength

LEMMA PairSizeType ==
    ASSUME NEW k \in Nat, NEW v \in Nat
    PROVE  PairSize(k, v) \in Nat
BY VarSizeCases DEF PairSize

LEMMA AnnounceType ==
    ASSUME NEW n \in Nat
    PROVE  Announce(n) \in Nat /\ VarSize(n) \in 1 .. 5 /\ Announce(n) = 1 + VarSize(n) + n
BY VarSizeCases DEF Announce

\* The bytes of a pair after its header, in two parts.
LEMMA PairIs ==
    ASSUME NEW h \in Nat, NEW k \in Nat, NEW v \in Nat
    PROVE  LET key == <<LogHeader>> \o Pack(k) \o Content(k)
               val == <<PairHeader>> \o Pack(v) \o Content(v)
           IN  /\ PairBytes(h, k, v) = <<h>> \o Pack(PairSize(k, v)) \o (key \o val)
               /\ key \o val \in Seq(Nat) /\ Len(key \o val) = PairSize(k, v)
<1> DEFINE key == <<LogHeader>> \o Pack(k) \o Content(k)
           val == <<PairHeader>> \o Pack(v) \o Content(v)
           pre == <<h>> \o Pack(PairSize(k, v))
           a == <<LogHeader>>
           b == Pack(k)
           c == Content(k)
           d == <<PairHeader>>
           e == Pack(v)
           f == Content(v)
<1>1. pre \in Seq(Nat)
  BY FieldLength, PairSizeType
<1>2. /\ a \in Seq(Nat) /\ b \in Seq(Nat) /\ c \in Seq(Nat)
      /\ d \in Seq(Nat) /\ e \in Seq(Nat) /\ f \in Seq(Nat)
  BY Headers, FieldLength, PackLength, ContentLength
<1>3. PairBytes(h, k, v) = pre \o a \o b \o c \o d \o e \o f
  BY DEF PairBytes
<1>4. key \in Seq(Nat) /\ Len(key) = 1 + VarSize(k) + k /\ val \in Seq(Nat) /\ Len(val) = 1 + VarSize(v) + v
  BY Headers, FieldLength
<1>5. key = a \o b \o c /\ val = d \o e \o f
  OBVIOUS
<1>6. VarSize(k) \in Nat /\ VarSize(v) \in Nat
  BY VarSizeCases
<1>7. key \o val \in Seq(Nat) /\ Len(key \o val) = PairSize(k, v)
  <2> HIDE DEF key, val
  <2> QED BY SMTT(60), <1>4, <1>6, ConcatLength DEF PairSize
<1> HIDE DEF pre, key, val, a, b, c, d, e, f
<1>8. ASSUME NEW x \in Seq(Nat)
      PROVE  x \o a \o b \o c = x \o key /\ x \o d \o e \o f = x \o val
  <2> DEFINE ab == a \o b
             de == d \o e
  <2>1. ab \in Seq(Nat) /\ de \in Seq(Nat)
    BY <1>2, ConcatProperties
  <2>2. x \o a \o b = x \o ab
    BY ZenonT(60), <1>2, Associative
  <2>3. x \o d \o e = x \o de
    BY ZenonT(60), <1>2, Associative
  <2>4. key = ab \o c /\ val = de \o f
    BY <1>5
  <2> HIDE DEF ab, de
  <2>5. x \o ab \o c = x \o (ab \o c)
    <3>1. x \in Seq(Nat) /\ ab \in Seq(Nat) /\ c \in Seq(Nat)
      BY <1>2, <2>1
    <3> QED
      BY ONLY <3>1, Associative
  <2>6. x \o de \o f = x \o (de \o f)
    <3>1. x \in Seq(Nat) /\ de \in Seq(Nat) /\ f \in Seq(Nat)
      BY <1>2, <2>1
    <3> QED
      BY ONLY <3>1, Associative
  <2> QED
    BY <2>2, <2>3, <2>4, <2>5, <2>6
<1>9. pre \o a \o b \o c \o d \o e \o f = pre \o key \o val
  <2>1. pre \o key \in Seq(Nat)
    BY <1>1, <1>4, ConcatProperties
  <2>2. pre \o a \o b \o c = pre \o key
    BY <1>1, <1>8
  <2>3. pre \o key \o d \o e \o f = pre \o key \o val
    BY <1>8, <2>1
  <2> QED
    BY <2>2, <2>3
<1>10. pre \o key \o val = pre \o (key \o val)
  BY <1>1, <1>4, Associative
<1>11. PairBytes(h, k, v) = pre \o (key \o val)
  BY <1>3, <1>9, <1>10
<1> QED
  BY <1>7, <1>11 DEF pre, key, val

LEMMA PairLength ==
    ASSUME NEW h \in Nat, NEW k \in Nat, NEW v \in Nat
    PROVE  PairBytes(h, k, v) \in Seq(Nat) /\ Len(PairBytes(h, k, v)) = Announce(PairSize(k, v))
<1> DEFINE content == (<<LogHeader>> \o Pack(k) \o Content(k)) \o (<<PairHeader>> \o Pack(v) \o Content(v))
           pre == <<h>> \o Pack(PairSize(k, v))
<1>1. /\ PairBytes(h, k, v) = pre \o content
      /\ content \in Seq(Nat) /\ Len(content) = PairSize(k, v)
  BY PairIs
<1>2. PairSize(k, v) \in Nat
  BY PairSizeType
<1>3. pre \in Seq(Nat) /\ Len(pre) = 1 + VarSize(PairSize(k, v))
  BY <1>2, FieldLength
<1> HIDE DEF content, pre
<1>4. pre \o content \in Seq(Nat) /\ Len(pre \o content) = 1 + VarSize(PairSize(k, v)) + PairSize(k, v)
  BY <1>1, <1>3, ConcatLength
<1> QED
  BY <1>1, <1>2, <1>4, AnnounceType

LEMMA TimeLength ==
    ASSUME NEW t \in Nat
    PROVE  /\ TimeBytes(t) \in Seq(Nat) /\ Len(TimeBytes(t)) = 1 + VarSize(t)
           /\ Len(TimeBytes(t)) <= 6 /\ (t >= Power(4) => Len(TimeBytes(t)) = 6)
<1>1. TimeBytes(t) \in Seq(Nat) /\ Len(TimeBytes(t)) = 1 + VarSize(t)
  BY Headers, FieldLength DEF TimeBytes
<1>2. VarSize(t) \in 1 .. 5 /\ (VarSize(t) <= 4 <=> t < Power(4)) /\ Power(4) \in Nat
  BY VarSizeCases, Powers
<1> QED
  BY <1>1, <1>2

\* The pairs of a log as add_log_full writes them.
PairsBytes(pairs) == [i \in DOMAIN pairs |-> PairBytes(PairHeader, pairs[i][1], pairs[i][2])]

LEMMA PairsType ==
    ASSUME NEW pairs \in Seq(Nat \X Nat)
    PROVE  /\ PairsBytes(pairs) \in Seq(Seq(Nat)) /\ Len(PairsBytes(pairs)) = Len(pairs)
           /\ \A i \in 1 .. Len(pairs) : /\ pairs[i][1] \in Nat /\ pairs[i][2] \in Nat
                 /\ PairsBytes(pairs)[i] = PairBytes(PairHeader, pairs[i][1], pairs[i][2])
                 /\ Len(PairsBytes(pairs)[i]) = Announce(PairSize(pairs[i][1], pairs[i][2]))
<1>1. DOMAIN pairs = 1 .. Len(pairs) /\ Len(pairs) \in Nat
  BY LenProperties
<1>2. \A i \in 1 .. Len(pairs) : pairs[i] \in Nat \X Nat
  BY ElementOfSeq
<1>3. \A i \in 1 .. Len(pairs) : /\ pairs[i][1] \in Nat /\ pairs[i][2] \in Nat
         /\ PairBytes(PairHeader, pairs[i][1], pairs[i][2]) \in Seq(Nat)
         /\ Len(PairBytes(PairHeader, pairs[i][1], pairs[i][2])) = Announce(PairSize(pairs[i][1], pairs[i][2]))
  <2> SUFFICES ASSUME NEW i \in 1 .. Len(pairs)
               PROVE  /\ pairs[i][1] \in Nat /\ pairs[i][2] \in Nat
                      /\ PairBytes(PairHeader, pairs[i][1], pairs[i][2]) \in Seq(Nat)
                      /\ Len(PairBytes(PairHeader, pairs[i][1], pairs[i][2]))
                            = Announce(PairSize(pairs[i][1], pairs[i][2]))
    OBVIOUS
  <2>1. pairs[i][1] \in Nat /\ pairs[i][2] \in Nat
    BY <1>2
  <2> QED
    BY ZenonT(60), <2>1, PairLength, Headers
<1>4. PairsBytes(pairs) \in [1 .. Len(pairs) -> Seq(Nat)]
  BY <1>1, <1>3 DEF PairsBytes
<1> QED
  BY <1>1, <1>3, <1>4 DEF PairsBytes

\* The loop of add_log_full counts six bytes for the time, and the pairs.
LEMMA LogSizeIs ==
    ASSUME NEW pairs \in Seq(Nat \X Nat)
    PROVE  LogSize(pairs) = 6 + Len(FlattenSeq(PairsBytes(pairs)))
<1> DEFINE q == PairsBytes(pairs)
           n == Len(pairs)
           a(i) == Announce(PairSize(pairs[i][1], pairs[i][2]))
           is(h) == h = [i \in 0 .. n |-> IF i = 0 THEN 6 ELSE h[i - 1] + a(i)]
           u == CHOOSE h : is(h)
<1>1. n \in Nat /\ q \in Seq(Seq(Nat)) /\ Len(q) = n /\ \A i \in 1 .. n : q[i] \in Seq(Nat) /\ Len(q[i]) = a(i)
  BY PairsType, LenProperties, ElementOfSeq
<1>2. LogSize(pairs) = u[n]
  BY DEF LogSize
<1>3. PICK f \in [1 .. n -> Seq(Nat)] : IsFlatten(f, q)
  <2> HIDE DEF q, n
  <2> QED BY <1>1, FlattenExists
<1>4. \A i \in 1 .. n : f[i] = IF i = 1 THEN q[i] ELSE f[i - 1] \o q[i]
  <2> HIDE DEF q, n
  <2> QED BY <1>1, <1>3, FlattenStep DEF FlattenUpto
<1> DEFINE h == [i \in 0 .. n |-> IF i = 0 THEN 6 ELSE 6 + Len(f[i])]
<1> HIDE DEF q, n, a
<1>5. \A i \in 0 .. n : h[i] = IF i = 0 THEN 6 ELSE h[i - 1] + a(i)
  <2> SUFFICES ASSUME NEW i \in 1 .. n PROVE h[i] = h[i - 1] + a(i)
    <3>1. h[0] = 6
      BY <1>1
    <3> HIDE DEF h
    <3> QED
      BY <1>1, <3>1
  <2>1. h[i] = 6 + Len(f[i]) /\ h[i - 1] = IF i = 1 THEN 6 ELSE 6 + Len(f[i - 1])
    BY <1>1
  <2>2. q[i] \in Seq(Nat) /\ Len(q[i]) = a(i) /\ (i # 1 => f[i - 1] \in Seq(Nat))
    BY <1>1, <1>3
  <2>3. f[i] = IF i = 1 THEN q[i] ELSE f[i - 1] \o q[i]
    BY <1>4
  <2> HIDE DEF h
  <2>4. CASE i = 1
    BY <2>1, <2>2, <2>3, <2>4, LenProperties
  <2>5. CASE i # 1
    <3>1. Len(f[i]) = Len(f[i - 1]) + a(i) /\ Len(f[i - 1]) \in Nat /\ a(i) \in Nat
      BY ZenonT(60), <2>2, <2>3, <2>5, ConcatLength
    <3> QED
      BY <2>1, <2>5, <3>1
  <2> QED
    BY <2>4, <2>5
<1>6. is(h)
  BY <1>5
<1>7. is(u)
  <2> HIDE DEF h, is
  <2> QED BY <1>6
<1>8. u[n] = h[n]
  <2> DEFINE N == {i \in Nat : i <= n => u[i] = h[i]}
  <2>1. \A i \in 0 .. n : u[i] = IF i = 0 THEN 6 ELSE u[i - 1] + a(i)
    <3> HIDE DEF u
    <3> QED BY <1>7
  <2> HIDE DEF u, h
  <2>2. 0 \in N
    BY <1>1, <1>5, <2>1
  <2>3. ASSUME NEW i \in Nat, i \in N PROVE i + 1 \in N
    <3> SUFFICES ASSUME i + 1 <= n PROVE u[i + 1] = h[i + 1]
      OBVIOUS
    <3>1. i + 1 \in 0 .. n /\ i + 1 # 0 /\ i + 1 - 1 = i /\ u[i] = h[i]
      BY <1>1, <2>3
    <3> QED
      BY <1>5, <2>1, <3>1
  <2>4. Nat \subseteq N
    <3> HIDE DEF N
    <3> QED BY <2>2, <2>3, Induct
  <2> QED
    BY <1>1, <2>4
<1>9. h[n] = 6 + Len(FlattenSeq(q))
  <2>1. CASE n = 0
    <3>1. q = <<>> /\ Len(<<>>) = 0
      BY <1>1, <2>1, EmptySeq
    <3>2. FlattenSeq(q) = <<>>
      BY <3>1, FlattenEmpty
    <3> QED
      BY <2>1, <3>1, <3>2
  <2>2. CASE n # 0
    <3>1. FlattenSeq(q) = f[n]
      BY <1>1, <1>3, <2>2, FlattenIs, EmptySeq
    <3> QED
      BY <1>1, <2>2, <3>1
  <2> QED
    BY <2>1, <2>2
<1> QED
  BY <1>2, <1>8, <1>9 DEF q

LEMMA LogLength ==
    ASSUME NEW pairs \in Seq(Nat \X Nat), NEW t \in Nat, t >= Power(4)
    PROVE  LET content == TimeBytes(t) \o FlattenSeq(PairsBytes(pairs))
           IN  /\ LogBytes(t, pairs) = <<LogHeader>> \o Pack(LogSize(pairs)) \o content
               /\ content \in Seq(Nat) /\ Len(content) = LogSize(pairs)
               /\ LogBytes(t, pairs) \in Seq(Nat) /\ LogSize(pairs) \in Nat
               /\ Len(LogBytes(t, pairs)) = Announce(LogSize(pairs))
<1> DEFINE rest == FlattenSeq(PairsBytes(pairs))
           content == TimeBytes(t) \o rest
           pre == <<LogHeader>> \o Pack(LogSize(pairs))
<1>1. rest \in Seq(Nat) /\ LogSize(pairs) = 6 + Len(rest)
  BY PairsType, FlattenType, LogSizeIs
<1>2. TimeBytes(t) \in Seq(Nat) /\ Len(TimeBytes(t)) = 6
  BY TimeLength
<1>3. LogBytes(t, pairs) = pre \o TimeBytes(t) \o rest
  BY DEF LogBytes, PairsBytes
<1> HIDE DEF rest
<1>4. content \in Seq(Nat) /\ Len(content) = LogSize(pairs) /\ LogSize(pairs) \in Nat
  BY ZenonT(60), <1>1, <1>2, ConcatLength
<1>5. pre \in Seq(Nat) /\ Len(pre) = 1 + VarSize(LogSize(pairs))
  BY <1>4, FieldLength, Headers
<1> HIDE DEF pre
<1>6. LogBytes(t, pairs) = pre \o content
  BY <1>1, <1>2, <1>3, <1>5, Associative
<1> HIDE DEF content
<1>7. pre \o content \in Seq(Nat) /\ Len(pre \o content) = 1 + VarSize(LogSize(pairs)) + LogSize(pairs)
  BY <1>4, <1>5, ConcatLength
<1> QED
  BY <1>4, <1>6, <1>7, AnnounceType DEF content, pre, rest

-----------------------------------------------------------------------------
(***************************************************************************)
(* The buffers                                                             *)
(***************************************************************************)
Buffers == [bytes : Seq(Nat), max : Nat]

\* The part of a buffer that the properties of the buffers are claimed for: no length
\* that _adjust_buffer computes reaches Wrap.
Fits == Extent < Wrap \div 4

LEMMA Quarter ==
    /\ Wrap \in Nat /\ Wrap > 60 /\ Wrap <= Power(5) /\ Overhead < Wrap /\ Overhead \in Nat
    /\ \A x \in Int : x < Wrap \div 4 => 4 * x + 4 <= Wrap
<1>1. Power(4) \in Nat /\ Power(5) \in Nat /\ Power(4) >= 16
  <2>1. /\ Power(0) = 1 /\ Power(4) = Base * Power(3) /\ Power(3) = Base * Power(2)
        /\ Power(2) = Base * Power(1) /\ Power(1) = Base
        /\ Power(1) \in Nat /\ Power(2) \in Nat /\ Power(3) \in Nat /\ Power(4) \in Nat /\ Power(5) \in Nat
    BY Powers
  <2>2. Base \in Nat /\ Base >= 2
    BY BaseAssumption
  <2>3. ASSUME NEW x \in Nat, x > 0 PROVE Base * x >= 2 * x
    <3> DEFINE y == (Base - 2) * x
    <3>1. y \in Nat /\ Base * x = y + 2 * x
      BY <2>2
    <3> QED
      BY <3>1
  <2>4. Power(2) >= 4
    BY <2>1, <2>2, <2>3
  <2>5. Power(3) >= 8
    BY <2>1, <2>3, <2>4
  <2>6. Power(4) >= 16
    BY <2>1, <2>3, <2>5
  <2> QED
    BY <2>1, <2>6
<1>2. Wrap \in Nat /\ Wrap > 60 /\ Wrap <= Power(5) /\ Overhead < Wrap /\ Overhead \in Nat
  BY <1>1, WrapAssumption, BaseAssumption
<1>3. ASSUME NEW x \in Int, x < Wrap \div 4 PROVE 4 * x + 4 <= Wrap
  BY <1>2, <1>3
<1> QED
  BY <1>2, <1>3

LEMMA Remainder ==
    ASSUME NEW x \in Nat
    PROVE  x % Wrap \in Nat /\ (x < Wrap => x % Wrap = x)
BY Quarter

LEMMA AdjustType ==
    ASSUME NEW buf \in Buffers, NEW n \in Nat
    PROVE  Adjust(buf, n) \in Buffers /\ Adjust(buf, n).bytes = buf.bytes
<1> DEFINE needed == (Len(buf.bytes) + n) % Wrap
           twice == (2 * buf.max) % Wrap
           m == IF IsNull(buf) THEN (4 * n) % Wrap ELSE IF twice < needed THEN needed ELSE twice
<1>1. buf.bytes \in Seq(Nat) /\ buf.max \in Nat /\ Len(buf.bytes) \in Nat
  BY LenProperties DEF Buffers
<1>2. m \in Nat
  <2>1. needed \in Nat /\ twice \in Nat /\ (4 * n) % Wrap \in Nat
    <3> DEFINE a == Len(buf.bytes) + n
               b == 2 * buf.max
               c == 4 * n
    <3>1. a \in Nat /\ b \in Nat /\ c \in Nat
      BY <1>1
    <3> HIDE DEF a, b, c
    <3>2. a % Wrap \in Nat /\ b % Wrap \in Nat /\ c % Wrap \in Nat
      BY <3>1, Remainder
    <3> QED
      BY <3>2 DEF a, b, c
  <2> HIDE DEF needed, twice
  <2> QED BY <2>1
<1>3. Adjust(buf, n) = [buf EXCEPT !.max = m]
  BY DEF Adjust
<1> HIDE DEF m
<1> QED
  BY <1>1, <1>2, <1>3 DEF Buffers

LEMMA AdjustRoom ==
    ASSUME NEW buf \in Buffers, Len(buf.bytes) <= buf.max, NEW n \in Nat,
           IsNull(buf) => 4 * n < Wrap, Len(buf.bytes) + n < Wrap
    PROVE  Adjust(buf, n).max >= Len(buf.bytes) + n
<1> DEFINE needed == (Len(buf.bytes) + n) % Wrap
           twice == (2 * buf.max) % Wrap
           four == (4 * n) % Wrap
           m == IF IsNull(buf) THEN four ELSE IF twice < needed THEN needed ELSE twice
<1>1. buf.bytes \in Seq(Nat) /\ buf.max \in Nat /\ Len(buf.bytes) \in Nat
  BY LenProperties DEF Buffers
<1>2. needed = Len(buf.bytes) + n /\ twice \in Nat
  <2> DEFINE a == Len(buf.bytes) + n
             b == 2 * buf.max
  <2>1. a \in Nat /\ a < Wrap /\ b \in Nat
    BY <1>1
  <2> HIDE DEF a, b
  <2>2. a % Wrap = a /\ b % Wrap \in Nat
    BY <2>1, Remainder
  <2> QED
    BY <2>2 DEF a, b
<1>3. IsNull(buf) => four = 4 * n /\ Len(buf.bytes) = 0
  <2>1. IsNull(buf) => Len(buf.bytes) = 0
    BY DEF IsNull, NoBuffer
  <2>2. 4 * n \in Nat
    OBVIOUS
  <2> QED
    BY <2>1, <2>2, Remainder
<1>4. Adjust(buf, n) = [buf EXCEPT !.max = m]
  BY DEF Adjust
<1> HIDE DEF needed, twice, four
<1>5. m >= Len(buf.bytes) + n
  BY <1>1, <1>2, <1>3
<1> HIDE DEF m
<1> QED
  BY <1>4, <1>5 DEF Buffers

LEMMA EnsureType ==
    ASSUME NEW buf \in Buffers, NEW n \in Nat
    PROVE  Ensure(buf, n) \in Buffers /\ Ensure(buf, n).bytes = buf.bytes
BY AdjustType DEF Ensure

LEMMA EnsureRoom ==
    ASSUME NEW buf \in Buffers, Len(buf.bytes) <= buf.max, NEW n \in Nat,
           4 * n < Wrap, Len(buf.bytes) + n < Wrap
    PROVE  Ensure(buf, n).max >= Len(buf.bytes) + n
<1>1. buf.max \in Nat /\ Len(buf.bytes) \in Nat
  BY LenProperties DEF Buffers
<1>2. CASE IsNull(buf) \/ buf.max < Len(buf.bytes) + n
  BY <1>2, AdjustRoom DEF Ensure
<1>3. CASE ~(IsNull(buf) \/ buf.max < Len(buf.bytes) + n)
  BY <1>1, <1>3 DEF Ensure
<1> QED
  BY <1>2, <1>3

LEMMA WriteIs ==
    ASSUME NEW buf \in Buffers, NEW p \in Seq(Nat)
    PROVE  /\ Write(buf, p) \in Buffers /\ Write(buf, p).max = buf.max
           /\ Write(buf, p).bytes = buf.bytes \o p
           /\ Len(Write(buf, p).bytes) = Len(buf.bytes) + Len(p)
<1>1. buf.bytes \o p \in Seq(Nat) /\ Len(buf.bytes \o p) = Len(buf.bytes) + Len(p)
  BY ConcatLength DEF Buffers
<1> QED
  BY <1>1 DEF Write, Buffers

\* A field as the caller gives it: a time or a pair.
FieldTypes == {<<t>> : t \in 0 .. Power(5) - 1} \cup (Nat \X Nat)
Given(x) == x = <<>> \/ \E n \in Nat : x = <<n>>

TypeInv ==
    /\ logs \in Buffers /\ tags \in Buffers
    /\ open \in BOOLEAN /\ body \in Seq(Nat) /\ size \in Nat
    /\ Given(topic) /\ Given(source) /\ packed \in Seq(Nat)
    /\ given \in Seq(Seq(FieldTypes)) /\ givenTags \in Seq(Nat \X Nat) /\ fixed \in Nat
    /\ overrun \in BOOLEAN /\ Extent < Wrap
    /\ open => given # <<>> /\ packed = <<>>
    /\ ~open => body = <<>>

LEMMA OptionalLength ==
    ASSUME NEW h \in Nat, NEW x, Given(x)
    PROVE  /\ Optional(h, x) \in Seq(Nat) /\ Len(Optional(h, <<>>)) = 0
           /\ \A n \in Nat : Len(Optional(h, <<n>>)) = 1 + VarSize(n) + n
<1>1. ASSUME NEW n \in Nat
      PROVE  /\ Optional(h, <<n>>) \in Seq(Nat)
             /\ Len(Optional(h, <<n>>)) = 1 + VarSize(n) + n
  <2>1. <<n>> # <<>> /\ <<n>>[1] = n
    OBVIOUS
  <2> QED
    BY <2>1, FieldLength DEF Optional
<1>2. Optional(h, <<>>) = <<>>
  BY DEF Optional
<1> QED
  BY <1>1, <1>2, EmptySeq DEF Given

\* What the calls are given.
LEMMA Inputs ==
    /\ Times \subseteq 0 .. Power(5) - 1 /\ Lengths \subseteq Nat
    /\ Power(5) \in Nat /\ Power(4) \in Nat /\ MinTime \in Power(4) .. Power(5) - 1
    /\ \A pairs \in Pairs : pairs \in Seq(Nat \X Nat)
<1>1. Times \subseteq 0 .. Power(5) - 1 /\ Lengths \subseteq Nat /\ MinTime \in Power(4) .. Power(5) - 1
  <2>1. Wrap \in Nat /\ Wrap <= Power(5) /\ Power(5) \in Nat /\ Power(4) \in Nat
    BY Quarter, Powers
  <2>2. /\ MinTime \in Power(4) .. Wrap - 1 /\ Times \subseteq 0 .. Wrap - 1
        /\ Lengths \subseteq Nat
    BY TimesAssumption
  <2> QED
    BY <2>1, <2>2
<1>2. ASSUME NEW pairs \in Pairs PROVE pairs \in Seq(Nat \X Nat)
  <2>1. PICK n \in 0 .. MaxPairs : pairs \in [1 .. n -> Lengths \X Lengths]
    BY DEF Pairs
  <2>2. n \in Nat
    BY TimesAssumption
  <2>3. pairs \in [1 .. n -> Nat \X Nat]
    BY <1>1, <2>1
  <2> QED
    BY <2>2, <2>3
<1>3. Power(5) \in Nat /\ Power(4) \in Nat
  BY Powers
<1> QED
  BY <1>1, <1>2, <1>3

LEMMA LeastTimeType ==
    ASSUME NEW t \in Times
    PROVE  LeastTime(t) \in Power(4) .. Power(5) - 1
BY Inputs DEF LeastTime

LEMMA FullLogType ==
    ASSUME NEW t \in 0 .. Power(5) - 1, NEW pairs \in Seq(Nat \X Nat)
    PROVE  <<<<t>>>> \o pairs \in Seq(FieldTypes)
<1>1. <<t>> \in FieldTypes /\ Nat \X Nat \subseteq FieldTypes
  BY DEF FieldTypes
<1>2. <<<<t>>>> \in Seq(FieldTypes)
  BY <1>1
<1>3. pairs \in Seq(FieldTypes)
  BY <1>1, SeqMonotonic
<1> QED
  BY <1>2, <1>3, ConcatProperties

LEMMA TypeInit == Init => TypeInv
<1>1. <<>> \in Seq(Nat) /\ <<>> \in Seq(Seq(FieldTypes)) /\ <<>> \in Seq(Nat \X Nat)
  OBVIOUS
<1>2. NoBuffer \in Buffers
  BY <1>1 DEF NoBuffer, Buffers
<1>3. ASSUME Init
      PROVE  /\ logs \in Buffers /\ tags \in Buffers /\ open = FALSE
             /\ body \in Seq(Nat) /\ size \in Nat /\ topic = <<>> /\ source = <<>>
             /\ packed \in Seq(Nat) /\ given \in Seq(Seq(FieldTypes))
             /\ givenTags \in Seq(Nat \X Nat) /\ fixed \in Nat /\ overrun = FALSE
             /\ size = Overhead /\ Len(body) = 0 /\ body = <<>>
  BY <1>1, <1>2, <1>3, BaseAssumption DEF Init
<1>4. ASSUME Init PROVE Extent < Wrap
  BY <1>3, <1>4, Quarter DEF Extent
<1> QED
  BY <1>3, <1>4 DEF TypeInv, Given

\* The buffers of the builder: what is written is within them, and loggroup_size is
\* what the group takes, also while a log is open.
BufferInv ==
    /\ size = Overhead + Len(logs.bytes) + Len(Optional(TopicHeader, topic))
              + Len(Optional(SourceHeader, source)) + Len(tags.bytes)
    /\ Fits => /\ Len(logs.bytes) <= logs.max /\ Len(tags.bytes) <= tags.max
               /\ open => Cursor <= logs.max
               /\ Len(packed) <= logs.max

LEMMA Parts ==
    ASSUME TypeInv
    PROVE  /\ Len(logs.bytes) \in Nat /\ logs.max \in Nat /\ Len(tags.bytes) \in Nat /\ tags.max \in Nat
           /\ Len(Optional(TopicHeader, topic)) \in Nat /\ Len(Optional(SourceHeader, source)) \in Nat
           /\ Overhead \in Nat /\ size \in Nat /\ Len(packed) \in Nat /\ Len(body) \in Nat
<1>1. Optional(TopicHeader, topic) \in Seq(Nat) /\ Optional(SourceHeader, source) \in Seq(Nat)
  BY OptionalLength, Headers DEF TypeInv
<1>2. logs.bytes \in Seq(Nat) /\ tags.bytes \in Seq(Nat) /\ logs.max \in Nat /\ tags.max \in Nat
  BY DEF TypeInv, Buffers
<1>3. Len(logs.bytes) \in Nat /\ Len(tags.bytes) \in Nat
  BY <1>2, LenProperties
<1>4. Len(Optional(TopicHeader, topic)) \in Nat /\ Len(Optional(SourceHeader, source)) \in Nat
  BY <1>1, LenProperties
<1>5. Len(packed) \in Nat /\ Len(body) \in Nat
  BY LenProperties DEF TypeInv
<1> QED
  BY <1>2, <1>3, <1>4, <1>5, BaseAssumption DEF TypeInv

LEMMA ExtentIs ==
    ASSUME TypeInv, BufferInv
    PROVE  /\ Extent \in Nat /\ Extent = size + Len(body) /\ Extent >= Len(body)
           /\ Extent >= size /\ size >= Len(logs.bytes) /\ size >= Len(tags.bytes)
           /\ size >= Len(logs.bytes) + Len(Optional(TopicHeader, topic))
                      + Len(Optional(SourceHeader, source)) + Len(tags.bytes)
<1> DEFINE l == Len(logs.bytes)
           g == Len(tags.bytes)
           o == Len(Optional(TopicHeader, topic))
           s == Len(Optional(SourceHeader, source))
           x == Len(body)
<1>1. l \in Nat /\ g \in Nat /\ o \in Nat /\ s \in Nat /\ x \in Nat /\ Overhead \in Nat /\ size \in Nat
  BY Parts
<1>2. size = Overhead + l + o + s + g
  BY DEF BufferInv
<1>3. Extent = size + x
  BY DEF Extent
<1> HIDE DEF l, g, o, s, x
<1>4. Extent \in Nat /\ Extent >= size /\ Extent >= x /\ size >= l /\ size >= g /\ size >= l + o + s + g
  BY <1>1, <1>2, <1>3
<1> QED
  BY <1>3, <1>4 DEF l, g, o, s, x

\* A group that fits after a step fitted before.
LEMMA FitsBefore ==
    ASSUME TypeInv, BufferInv, Fits', Extent' \in Nat, Extent' >= Extent
    PROVE  Fits /\ 4 * Extent' + 4 <= Wrap
<1>1. Extent \in Nat /\ Wrap \in Nat /\ Extent' < Wrap \div 4
  BY ExtentIs, Quarter DEF Fits
<1> DEFINE w == Wrap \div 4
           e == Extent'
<1>2. w \in Int /\ e \in Nat /\ e >= Extent /\ e < w
  BY <1>1
<1>5. e < Wrap \div 4
  BY <1>1
<1> HIDE DEF w, e
<1>3. 4 * e + 4 <= Wrap
  BY <1>2, <1>5, Quarter
<1>4. Extent < w
  BY <1>1, <1>2
<1> QED
  BY <1>3, <1>4 DEF Fits, w, e

\* The steps change the sequences and the buffers as follows.
LEMMA FullStep ==
    ASSUME TypeInv, BufferInv, NEW t \in Times, NEW pairs \in Pairs, AddLogFull(t, pairs)
    PROVE  /\ logs' \in Buffers /\ size' \in Nat /\ given' \in Seq(Seq(FieldTypes))
           /\ logs'.bytes = logs.bytes \o LogBytes(LeastTime(t), pairs)
           /\ Len(logs'.bytes) = Len(logs.bytes) + Announce(LogSize(pairs))
           /\ Extent' = Extent + Announce(LogSize(pairs)) /\ Extent' < Wrap
           /\ Fits' => Len(logs'.bytes) <= logs'.max
           /\ size' = size + Announce(LogSize(pairs)) /\ Announce(LogSize(pairs)) \in Nat
<1> DEFINE lt == LeastTime(t)
           total == Announce(LogSize(pairs))
<1>1. lt \in Nat /\ lt >= Power(4) /\ lt \in 0 .. Power(5) - 1 /\ pairs \in Seq(Nat \X Nat)
  BY Inputs, LeastTimeType
<1>2. LogBytes(lt, pairs) \in Seq(Nat) /\ LogSize(pairs) \in Nat /\ Len(LogBytes(lt, pairs)) = total
  BY <1>1, LogLength
<1>3. total \in Nat
  BY <1>2, AnnounceType
<1>4. logs' = Write(Ensure(logs, total), LogBytes(lt, pairs)) /\ size' = size + total
      /\ given' = Append(given, <<<<lt>>>> \o pairs) /\ body' = body /\ Extent + total < Wrap
  BY DEF AddLogFull, Room
<1>5. <<<<lt>>>> \o pairs \in Seq(FieldTypes)
  BY <1>1, FullLogType
<1>6. given' \in Seq(Seq(FieldTypes))
  BY <1>4, <1>5, AppendProperties DEF TypeInv
<1> HIDE DEF total, lt
<1> DEFINE buf == Ensure(logs, total)
           p == LogBytes(lt, pairs)
<1>12. Extent' = Extent + total
  <2>1. Extent = size + Len(body) /\ Extent' = size' + Len(body')
    BY DEF Extent
  <2>2. size \in Nat /\ Len(body) \in Nat
    BY Parts
  <2> QED
    BY <1>3, <1>4, <2>1, <2>2
<1>7. /\ buf \in Buffers /\ buf.bytes = logs.bytes
      /\ Fits' => buf.max >= Len(logs.bytes) + total
  <2>1. buf \in Buffers /\ buf.bytes = logs.bytes
    BY <1>3, EnsureType DEF TypeInv
  <2>2. ASSUME Fits' PROVE buf.max >= Len(logs.bytes) + total
    <3>1. Fits /\ 4 * Extent' + 4 <= Wrap
      BY <1>3, <1>12, <2>2, ExtentIs, FitsBefore
    <3>2. Len(logs.bytes) \in Nat /\ Len(logs.bytes) <= logs.max /\ Len(logs.bytes) <= Extent /\ Extent \in Nat
      <4>1. Len(logs.bytes) <= logs.max
        BY <3>1 DEF BufferInv
      <4> DEFINE l == Len(logs.bytes)
      <4>2. l \in Nat /\ Extent >= size /\ size >= l /\ size \in Nat /\ Extent \in Nat
        BY Parts, ExtentIs
      <4> HIDE DEF l
      <4>3. l <= Extent
        BY <4>2
      <4> QED
        BY <4>1, <4>2, <4>3 DEF l
    <3>3. 4 * total < Wrap /\ Len(logs.bytes) + total < Wrap
      BY <1>3, <1>12, <3>1, <3>2, Quarter
    <3> QED
      BY <1>3, <3>2, <3>3, EnsureRoom DEF TypeInv
  <2> QED
    BY <2>1, <2>2
<1>8. p \in Seq(Nat) /\ Len(p) = total
  BY <1>2
<1>9. logs' = Write(buf, p)
  BY <1>4
<1> HIDE DEF buf, p
<1>10. /\ Write(buf, p) \in Buffers /\ Write(buf, p).max = buf.max
       /\ Write(buf, p).bytes = logs.bytes \o p
       /\ Len(Write(buf, p).bytes) = Len(logs.bytes) + total
  BY ZenonT(60), <1>7, <1>8, WriteIs
<1>11. size' \in Nat
  BY <1>3, <1>4 DEF TypeInv
<1> QED
  BY <1>3, <1>4, <1>6, <1>7, <1>9, <1>10, <1>11, <1>12 DEF total, lt, p

LEMMA TagStep ==
    ASSUME TypeInv, BufferInv, NEW k \in Lengths, NEW v \in Lengths, AddTag(k, v)
    PROVE  /\ tags' \in Buffers /\ size' \in Nat /\ givenTags' \in Seq(Nat \X Nat)
           /\ tags'.bytes = tags.bytes \o PairBytes(TagHeader, k, v)
           /\ Len(tags'.bytes) = Len(tags.bytes) + Announce(PairSize(k, v))
           /\ Extent' = Extent + Announce(PairSize(k, v)) /\ Extent' < Wrap
           /\ Fits' => Len(tags'.bytes) <= tags'.max
           /\ size' = size + Announce(PairSize(k, v)) /\ Announce(PairSize(k, v)) \in Nat
<1> DEFINE n == Announce(PairSize(k, v))
           p == PairBytes(TagHeader, k, v)
           buf == Ensure(tags, n)
<1>1. k \in Nat /\ v \in Nat
  BY Inputs
<1>2. p \in Seq(Nat) /\ Len(p) = n
  <2>1. TagHeader \in Nat
    BY Headers
  <2> QED
    BY <1>1, <2>1, PairLength
<1>3. n \in Nat
  BY <1>1, AnnounceType, PairSizeType
<1>4. tags' = Write(buf, p) /\ size' = size + n /\ givenTags' = Append(givenTags, <<k, v>>)
      /\ body' = body /\ Extent + n < Wrap
  BY DEF AddTag, Room
<1>5. givenTags' \in Seq(Nat \X Nat)
  BY <1>1, <1>4, AppendProperties DEF TypeInv
<1> HIDE DEF n, p
<1>9. Extent' = Extent + n
  <2>1. Extent = size + Len(body) /\ Extent' = size' + Len(body')
    BY DEF Extent
  <2>2. size \in Nat /\ Len(body) \in Nat
    BY Parts
  <2> QED
    BY <1>3, <1>4, <2>1, <2>2
<1>6. /\ buf \in Buffers /\ buf.bytes = tags.bytes
      /\ Fits' => buf.max >= Len(tags.bytes) + n
  <2>1. buf \in Buffers /\ buf.bytes = tags.bytes
    BY <1>3, EnsureType DEF TypeInv
  <2>2. ASSUME Fits' PROVE buf.max >= Len(tags.bytes) + n
    <3>1. Fits /\ 4 * Extent' + 4 <= Wrap
      BY <1>3, <1>9, <2>2, ExtentIs, FitsBefore
    <3>2. Len(tags.bytes) \in Nat /\ Len(tags.bytes) <= tags.max /\ Len(tags.bytes) <= Extent /\ Extent \in Nat
      <4>1. Len(tags.bytes) <= tags.max
        BY <3>1 DEF BufferInv
      <4> DEFINE l == Len(tags.bytes)
      <4>2. l \in Nat /\ Extent >= size /\ size >= l /\ size \in Nat /\ Extent \in Nat
        BY Parts, ExtentIs
      <4> HIDE DEF l
      <4>3. l <= Extent
        BY <4>2
      <4> QED
        BY <4>1, <4>2, <4>3 DEF l
    <3>3. 4 * n < Wrap /\ Len(tags.bytes) + n < Wrap
      BY <1>3, <1>9, <3>1, <3>2, Quarter
    <3> QED
      BY <1>3, <3>2, <3>3, EnsureRoom DEF TypeInv
  <2> QED
    BY <2>1, <2>2
<1> HIDE DEF buf
<1>7. /\ Write(buf, p) \in Buffers /\ Write(buf, p).max = buf.max
      /\ Write(buf, p).bytes = tags.bytes \o p
      /\ Len(Write(buf, p).bytes) = Len(tags.bytes) + n
  BY ZenonT(60), <1>2, <1>6, WriteIs
<1>8. size' \in Nat
  BY <1>3, <1>4 DEF TypeInv
<1> QED
  BY <1>3, <1>4, <1>5, <1>6, <1>7, <1>8, <1>9 DEF n, p

LEMMA CursorRoom ==
    ASSUME TypeInv, BufferInv, open, NEW n \in Nat
    PROVE  /\ EnsureCursor(n) \in Buffers /\ EnsureCursor(n).bytes = logs.bytes
           /\ Fits /\ Len(logs.bytes) + (Cursor + n) < Wrap => EnsureCursor(n).max >= Cursor + n
           /\ Cursor \in Nat /\ Cursor = Len(logs.bytes) + 3 + Len(body)
<1>1. logs.max \in Nat /\ Len(logs.bytes) \in Nat /\ Len(body) \in Nat
  BY LenProperties DEF TypeInv, Buffers
<1>2. Cursor \in Nat /\ Cursor = Len(logs.bytes) + 3 + Len(body)
  BY <1>1 DEF Cursor, Reserved
<1>3. CASE Cursor + n > logs.max
  <2> DEFINE m == Cursor + n
  <2>1. m \in Nat /\ EnsureCursor(n) = Adjust(logs, m)
    BY <1>2, <1>3 DEF EnsureCursor
  <2> HIDE DEF m
  <2>2. Adjust(logs, m) \in Buffers /\ Adjust(logs, m).bytes = logs.bytes
    BY <2>1, AdjustType DEF TypeInv
  <2>3. Adjust(logs, m).max \in Nat
    BY <2>2 DEF Buffers
  <2>4. ASSUME Fits, Len(logs.bytes) + m < Wrap PROVE Adjust(logs, m).max >= m
    <3>1. Len(logs.bytes) <= logs.max /\ Cursor <= logs.max
      BY <2>4 DEF BufferInv
    <3>2. ~IsNull(logs)
      <4>1. IsNull(logs) => logs.max = 0
        BY DEF IsNull, NoBuffer
      <4> QED
        BY <1>1, <1>2, <3>1, <4>1
    <3>3. Adjust(logs, m).max >= Len(logs.bytes) + m
      BY <2>1, <2>4, <3>1, <3>2, AdjustRoom DEF TypeInv
    <3> QED
      BY <1>1, <2>1, <2>3, <3>3
  <2> QED
    BY <1>2, <2>1, <2>2, <2>4 DEF m
<1>4. CASE ~(Cursor + n > logs.max)
  BY <1>1, <1>2, <1>4 DEF EnsureCursor, TypeInv
<1> QED
  BY <1>3, <1>4

\* A field in an open log: its bytes b are at most the n that are ensured.
LEMMA FieldStep ==
    ASSUME TypeInv, BufferInv, open, NEW f \in FieldTypes, NEW b \in Seq(Nat), NEW n \in Nat,
           Len(b) <= n, logs' = EnsureCursor(n), body' = body \o b, GivenField(f),
           size' = size
    PROVE  /\ logs' \in Buffers /\ logs'.bytes = logs.bytes /\ body' \in Seq(Nat)
           /\ Extent' = Extent + Len(b)
           /\ Len(body') = Len(body) + Len(b)
           /\ given' \in Seq(Seq(FieldTypes)) /\ Len(given') = Len(given) /\ Len(given) \in Nat \ {0}
           /\ \A i \in 1 .. Len(given) : given'[i] = IF i = Len(given) THEN Append(given[i], f) ELSE given[i]
           /\ Fits' /\ Len(logs.bytes) + (Cursor + n) < Wrap
              => Len(logs'.bytes) <= logs'.max /\ Cursor' <= logs'.max
<1>1. /\ logs' \in Buffers /\ logs'.bytes = logs.bytes
      /\ Fits /\ Len(logs.bytes) + (Cursor + n) < Wrap => logs'.max >= Cursor + n
      /\ Cursor \in Nat /\ Cursor = Len(logs.bytes) + 3 + Len(body)
  BY CursorRoom
<1>2. body' \in Seq(Nat) /\ Len(body') = Len(body) + Len(b) /\ Len(b) \in Nat /\ Len(body) \in Nat
  BY ConcatLength DEF TypeInv
<1>3. Len(given) \in Nat \ {0} /\ Len(given) \in 1 .. Len(given)
  BY EmptySeq, LenProperties DEF TypeInv
<1>4. given[Len(given)] \in Seq(FieldTypes)
  BY <1>3, ElementOfSeq DEF TypeInv
<1>5. Append(given[Len(given)], f) \in Seq(FieldTypes)
  BY <1>4, AppendProperties
<1> DEFINE x == Append(given[Len(given)], f)
<1>6. given' = [given EXCEPT ![Len(given)] = x]
  BY DEF GivenField
<1> HIDE DEF x
<1>7. /\ [given EXCEPT ![Len(given)] = x] \in Seq(Seq(FieldTypes))
      /\ Len([given EXCEPT ![Len(given)] = x]) = Len(given)
      /\ \A j \in 1 .. Len(given) : [given EXCEPT ![Len(given)] = x][j] = IF j = Len(given) THEN x ELSE given[j]
  BY <1>3, <1>5, ExceptSeq DEF TypeInv, x
<1>8. Cursor' = Len(logs'.bytes) + 3 + Len(body')
  BY DEF Cursor, Reserved
<1>9. logs'.max \in Nat /\ Len(logs.bytes) \in Nat
  BY <1>1, LenProperties DEF TypeInv, Buffers
<1>14. Extent' = Extent + Len(b)
  <2>1. Extent = size + Len(body) /\ Extent' = size' + Len(body') /\ size \in Nat
    BY DEF Extent, TypeInv
  <2> QED
    BY <1>2, <2>1
<1>10. ASSUME Fits', Len(logs.bytes) + (Cursor + n) < Wrap
       PROVE  Cursor' <= logs'.max /\ Len(logs'.bytes) <= logs'.max
  <2> DEFINE l == Len(logs.bytes)
             m == logs'.max
  <2>1. Cursor' = l + 3 + Len(body') /\ Len(logs'.bytes) = l
    BY <1>1, <1>8
  <2>2. Len(body') = Len(body) + Len(b) /\ Len(b) \in Nat /\ Len(body) \in Nat
    BY <1>2
  <2>3. Fits
    BY <1>2, <1>10, <1>14, ExtentIs, FitsBefore
  <2>4. m >= Cursor + n /\ Cursor = l + 3 + Len(body)
    BY <1>1, <1>10, <2>3
  <2>5. m \in Nat /\ l \in Nat
    BY <1>9
  <2> HIDE DEF l, m
  <2>6. Cursor' <= m /\ l <= m
    BY <2>1, <2>2, <2>4, <2>5
  <2> QED
    BY <2>1, <2>6 DEF m, l
<1>12. /\ given' \in Seq(Seq(FieldTypes)) /\ Len(given') = Len(given)
       /\ \A i \in 1 .. Len(given) : given'[i] = IF i = Len(given) THEN x ELSE given[i]
  BY <1>6, <1>7
<1>13. \A i \in 1 .. Len(given) :
         given'[i] = IF i = Len(given) THEN Append(given[i], f) ELSE given[i]
  BY <1>12 DEF x
<1> QED
  BY <1>1, <1>2, <1>3, <1>10, <1>12, <1>13, <1>14

LEMMA EndStep ==
    ASSUME TypeInv, BufferInv, AddLogEnd
    PROVE  /\ logs' \in Buffers /\ size' \in Nat
           /\ logs'.bytes = logs.bytes \o (<<LogHeader>> \o Pack(Len(body)) \o body)
           /\ Len(logs'.bytes) = Len(logs.bytes) + Announce(Len(body))
           /\ Extent' = size + Announce(Len(body)) /\ Extent' < Wrap /\ Extent' >= Extent
           /\ Fits' => Len(logs'.bytes) <= logs'.max
           /\ size' = size + Announce(Len(body)) /\ Len(body) \in Nat /\ Announce(Len(body)) \in Nat
<1> DEFINE longer == 1 + VarSize(Len(body)) - Reserved
           buf == IF longer > 0 THEN EnsureCursor(longer) ELSE logs
           pre == <<LogHeader>> \o Pack(Len(body))
<1>1. Len(body) \in Nat /\ body \in Seq(Nat) /\ open
  BY LenProperties DEF TypeInv, AddLogEnd
<1>2. VarSize(Len(body)) \in 1 .. 5 /\ Announce(Len(body)) = 1 + VarSize(Len(body)) + Len(body)
      /\ Announce(Len(body)) \in Nat
  BY <1>1, AnnounceType
<1>3. pre \in Seq(Nat) /\ Len(pre) = 1 + VarSize(Len(body))
  BY <1>1, Headers, FieldLength
<1>4. logs' = Write(buf, pre \o body) /\ size' = size + Announce(Len(body))
      /\ body' = <<>> /\ size + Announce(Len(body)) < Wrap
  BY DEF AddLogEnd
<1>5. longer \in Int /\ longer = VarSize(Len(body)) - 2
  BY <1>2 DEF Reserved
<1>6. Cursor \in Nat /\ Cursor = Len(logs.bytes) + 3 + Len(body) /\ Len(logs.bytes) \in Nat /\ logs.max \in Nat
  BY <1>1, CursorRoom, LenProperties DEF TypeInv, Buffers
<1> HIDE DEF pre, longer
<1>12. Extent' = size + Announce(Len(body)) /\ Extent' \in Nat /\ Extent' >= Extent
  <2> DEFINE n == Len(body)
             a == Announce(n)
  <2>1. Extent = size + n /\ Extent' = size' + Len(body') /\ size \in Nat /\ Len(body') = 0
    BY <1>4 DEF Extent, TypeInv
  <2>2. n \in Nat /\ a \in Nat /\ a >= n /\ size' = size + a
    BY <1>1, <1>2, <1>4
  <2> HIDE DEF n, a
  <2>3. Extent' = size + a /\ Extent' \in Nat /\ Extent' >= Extent
    BY <2>1, <2>2
  <2> QED
    BY <2>3 DEF n, a
<1>13. ASSUME Fits' PROVE Fits /\ (longer > 0 => Len(logs.bytes) + (Cursor + longer) < Wrap)
  <2> DEFINE l == Len(logs.bytes)
             n == Len(body)
             e == Extent'
  <2>1. Fits /\ 4 * e + 4 <= Wrap
    BY <1>12, <1>13, FitsBefore
  <2>2. e \in Nat /\ e >= l + n /\ l \in Nat /\ n \in Nat /\ Wrap > 60 /\ Wrap \in Nat
    <3>1. Extent \in Nat /\ Extent = size + n /\ size >= l /\ size \in Nat /\ l \in Nat /\ n \in Nat /\ e >= Extent
      BY <1>12, ExtentIs, Parts
    <3>2. e \in Nat
      BY <1>12
    <3> HIDE DEF e, l, n
    <3> QED BY <3>1, <3>2, Quarter
  <2>3. Cursor = l + 3 + n /\ longer \in Int /\ longer <= 3
    BY <1>2, <1>5, <1>6
  <2> HIDE DEF l, n, e
  <2>4. l + (Cursor + longer) < Wrap
    BY <2>1, <2>2, <2>3
  <2> QED
    BY <2>1, <2>4 DEF l
<1>7. /\ buf \in Buffers /\ buf.bytes = logs.bytes
      /\ Fits' => buf.max >= Len(logs.bytes) + Announce(Len(body))
  <2>1. CASE longer > 0
    <3>1. /\ EnsureCursor(longer) \in Buffers /\ EnsureCursor(longer).bytes = logs.bytes
          /\ Fits' => EnsureCursor(longer).max >= Cursor + longer
      BY <1>1, <1>5, <1>13, <2>1, CursorRoom
    <3>2. EnsureCursor(longer).max \in Nat /\ buf = EnsureCursor(longer)
      BY <2>1, <3>1 DEF Buffers
    <3>3. Cursor + longer = Len(logs.bytes) + Announce(Len(body))
      <4> DEFINE l == Len(logs.bytes)
                 n == Len(body)
                 a == Announce(n)
                 s == VarSize(n)
      <4>1. n \in Nat /\ l \in Nat /\ Cursor = l + 3 + n
        BY <1>1, <1>6
      <4>2. s \in 1 .. 5 /\ a = 1 + s + n /\ longer = s - 2
        BY <1>2, <1>5
      <4> HIDE DEF l, n, a, s
      <4>3. Cursor + longer = l + a
        BY <4>1, <4>2
      <4> QED
        BY <4>3 DEF l, n, a
    <3> HIDE DEF buf
    <3> QED
      BY <3>1, <3>2, <3>3
  <2>2. CASE ~(longer > 0)
    <3>1. Fits' => Cursor <= logs.max
      BY <1>1, <1>13 DEF BufferInv
    <3>2. buf = logs
      BY <2>2
    <3>3. Len(logs.bytes) + Announce(Len(body)) <= Cursor
      BY <1>1, <1>2, <1>5, <1>6, <2>2
    <3>4. logs \in Buffers
      BY DEF TypeInv
    <3> HIDE DEF buf
    <3> QED
      BY <1>2, <1>6, <3>1, <3>2, <3>3, <3>4
  <2> QED
    BY <2>1, <2>2
<1> HIDE DEF buf
<1>8. pre \o body \in Seq(Nat) /\ Len(pre \o body) = Announce(Len(body))
  BY <1>1, <1>2, <1>3, ConcatLength
<1> DEFINE w == pre \o body
<1> HIDE DEF w
<1>9. /\ Write(buf, w) \in Buffers /\ Write(buf, w).max = buf.max
      /\ Write(buf, w).bytes = logs.bytes \o w
      /\ Len(Write(buf, w).bytes) = Len(logs.bytes) + Announce(Len(body))
  BY <1>7, <1>8, WriteIs DEF w
<1>10. logs' = Write(buf, w)
  BY <1>4 DEF w
<1> DEFINE a == Announce(Len(body))
<1>11. size' \in Nat
  <2>1. size \in Nat
    BY DEF TypeInv
  <2>2. a \in Nat /\ size' = size + a
    BY <1>2, <1>4
  <2> HIDE DEF a
  <2> QED
    BY <2>1, <2>2
<1> QED
  BY <1>1, <1>2, <1>4, <1>7, <1>9, <1>10, <1>11, <1>12 DEF w, pre

-----------------------------------------------------------------------------
(***************************************************************************)
(* Every step keeps the types and the buffers                              *)
(***************************************************************************)
LEMMA InitInv == Init => BufferInv
<1> SUFFICES ASSUME Init PROVE BufferInv
  OBVIOUS
<1>1. Len(<<>>) = 0 /\ Optional(TopicHeader, <<>>) = <<>> /\ Optional(SourceHeader, <<>>) = <<>>
  BY DEF Optional
<1>2. /\ logs.bytes = <<>> /\ logs.max = 0 /\ tags.bytes = <<>> /\ tags.max = 0
      /\ open = FALSE /\ packed = <<>> /\ topic = <<>> /\ source = <<>> /\ size = Overhead
  BY DEF Init, NoBuffer
<1> QED
  BY <1>1, <1>2, BaseAssumption DEF BufferInv, Fits

LEMMA FullInv ==
    ASSUME TypeInv, BufferInv, NEW t \in Times, NEW pairs \in Pairs, AddLogFull(t, pairs)
    PROVE  TypeInv' /\ BufferInv'
<1> DEFINE n == Announce(LogSize(pairs))
           l == Len(logs.bytes)
           g == Len(tags.bytes)
           o == Len(Optional(TopicHeader, topic))
           s == Len(Optional(SourceHeader, source))
<1>1. /\ logs' \in Buffers /\ size' \in Nat /\ given' \in Seq(Seq(FieldTypes))
      /\ Len(logs'.bytes) = l + n /\ Extent' = Extent + n /\ Extent' < Wrap
      /\ Fits' => Len(logs'.bytes) <= logs'.max
      /\ size' = size + n /\ n \in Nat
  BY FullStep
<1>2. /\ tags' = tags /\ open' = open /\ body' = body /\ topic' = topic /\ source' = source
      /\ packed' = packed /\ givenTags' = givenTags /\ fixed' = fixed /\ overrun' = overrun
      /\ ~open /\ packed = <<>>
  BY DEF AddLogFull, Room, Building
<1>3. TypeInv'
  BY <1>1, <1>2 DEF TypeInv, Given
<1>4. l \in Nat /\ g \in Nat /\ o \in Nat /\ s \in Nat /\ Overhead \in Nat /\ size = Overhead + l + o + s + g
  BY Parts DEF BufferInv
<1>5. Len(packed') <= logs'.max
  <2>1. Len(packed') = 0 /\ logs'.max \in Nat
    BY <1>1, <1>2 DEF Buffers
  <2> QED
    BY <2>1
<1>6. Fits' => Len(tags'.bytes) <= tags'.max
  <2>1. Fits' => Fits
    BY <1>1, ExtentIs, FitsBefore
  <2> QED
    BY <1>2, <2>1 DEF BufferInv
<1>7. size' = Overhead + Len(logs'.bytes) + Len(Optional(TopicHeader, topic'))
                + Len(Optional(SourceHeader, source')) + Len(tags'.bytes)
  <2>1. size' = Overhead + (l + n) + o + s + g
    <3> HIDE DEF n, l, g, o, s
    <3> QED BY <1>1, <1>4
  <2> QED
    BY <1>1, <1>2, <2>1
<1> QED
  BY <1>1, <1>2, <1>3, <1>5, <1>6, <1>7 DEF BufferInv

LEMMA TagInv ==
    ASSUME TypeInv, BufferInv, NEW k \in Lengths, NEW v \in Lengths, AddTag(k, v)
    PROVE  TypeInv' /\ BufferInv'
<1> DEFINE n == Announce(PairSize(k, v))
           l == Len(logs.bytes)
           g == Len(tags.bytes)
           o == Len(Optional(TopicHeader, topic))
           s == Len(Optional(SourceHeader, source))
<1>1. /\ tags' \in Buffers /\ size' \in Nat /\ givenTags' \in Seq(Nat \X Nat)
      /\ Len(tags'.bytes) = g + n /\ Extent' = Extent + n /\ Extent' < Wrap
      /\ Fits' => Len(tags'.bytes) <= tags'.max
      /\ size' = size + n /\ n \in Nat
  BY TagStep
<1>2. /\ logs' = logs /\ open' = open /\ body' = body /\ topic' = topic /\ source' = source
      /\ packed' = packed /\ given' = given /\ fixed' = fixed /\ overrun' = overrun
      /\ packed = <<>>
  BY DEF AddTag, Room, Building
<1>3. TypeInv'
  BY <1>1, <1>2 DEF TypeInv, Given
<1>4. l \in Nat /\ g \in Nat /\ o \in Nat /\ s \in Nat /\ Overhead \in Nat /\ size = Overhead + l + o + s + g
  BY Parts DEF BufferInv
<1>5. Fits' => /\ Len(logs'.bytes) <= logs'.max /\ Len(packed') <= logs'.max
               /\ open' => Cursor' <= logs'.max
  <2>1. Fits' => Fits
    BY <1>1, ExtentIs, FitsBefore
  <2> QED
    BY <1>2, <2>1 DEF BufferInv, Cursor
<1>6. size' = Overhead + Len(logs'.bytes) + Len(Optional(TopicHeader, topic'))
                + Len(Optional(SourceHeader, source')) + Len(tags'.bytes)
  <2>1. size' = Overhead + l + o + s + (g + n)
    <3> HIDE DEF n, l, g, o, s
    <3> QED BY <1>1, <1>4
  <2> QED
    BY <1>1, <1>2, <2>1
<1> QED
  BY <1>1, <1>3, <1>5, <1>6 DEF BufferInv

LEMMA TopicInv ==
    ASSUME TypeInv, BufferInv, NEW n \in Lengths, AddTopic(n) \/ AddSource(n)
    PROVE  TypeInv' /\ BufferInv'
<1> DEFINE l == Len(logs.bytes)
           g == Len(tags.bytes)
           o == Len(Optional(TopicHeader, topic))
           s == Len(Optional(SourceHeader, source))
           m == 1 + VarSize(n) + n
<1>1. n \in Nat /\ VarSize(n) \in Nat
  BY Inputs, VarSizeCases
<1>2. /\ logs' = logs /\ tags' = tags /\ open' = open /\ body' = body /\ packed' = packed
      /\ given' = given /\ givenTags' = givenTags /\ fixed' = fixed
      /\ overrun' = overrun /\ size' = size + n + VarSize(n) + 1
      /\ Extent + (n + VarSize(n) + 1) < Wrap
  BY DEF AddTopic, AddSource, Room, caller
<1>3. /\ (topic = <<>> /\ topic' = <<n>> /\ source' = source)
         \/ (source = <<>> /\ source' = <<n>> /\ topic' = topic)
  BY DEF AddTopic, AddSource
<1>4. Given(topic') /\ Given(source') /\ size' \in Nat
  <2>1. Given(topic) /\ Given(source) /\ Given(<<n>>)
    BY <1>1 DEF TypeInv, Given
  <2>2. size \in Nat
    BY Parts
  <2> DEFINE v == VarSize(n)
  <2>3. v \in Nat /\ size' = size + n + v + 1
    BY <1>1, <1>2
  <2> HIDE DEF v
  <2>4. size' \in Nat
    BY <1>1, <2>2, <2>3
  <2> QED
    BY <1>3, <2>1, <2>4
<1>10. Extent' = Extent + (n + VarSize(n) + 1) /\ Extent' >= Extent /\ Extent' < Wrap
  <2>1. Extent = size + Len(body) /\ Extent' = size' + Len(body')
    BY DEF Extent
  <2>2. size \in Nat /\ Len(body) \in Nat
    BY Parts
  <2> QED
    BY <1>1, <1>2, <2>1, <2>2
<1>5. TypeInv'
  BY <1>2, <1>4, <1>10 DEF TypeInv
<1>6. Fits' => /\ Len(logs'.bytes) <= logs'.max /\ Len(packed') <= logs'.max
               /\ Len(tags'.bytes) <= tags'.max
               /\ open' => Cursor' <= logs'.max
  <2>1. Fits' => Fits
    BY <1>1, <1>10, ExtentIs, FitsBefore
  <2> QED
    BY <1>2, <2>1 DEF BufferInv, Cursor
<1>7. /\ l \in Nat /\ g \in Nat /\ o \in Nat /\ s \in Nat /\ Overhead \in Nat /\ size \in Nat
      /\ size = Overhead + l + o + s + g
  BY Parts DEF BufferInv
<1>8. \/ o = 0 /\ Len(Optional(TopicHeader, topic')) = m /\ Len(Optional(SourceHeader, source')) = s
      \/ s = 0 /\ Len(Optional(SourceHeader, source')) = m /\ Len(Optional(TopicHeader, topic')) = o
  BY ZenonT(60), <1>1, <1>3, <1>4, Headers, OptionalLength
<1>9. size' = Overhead + l + Len(Optional(TopicHeader, topic')) + Len(Optional(SourceHeader, source')) + g
  <2> DEFINE x == Len(Optional(TopicHeader, topic'))
             y == Len(Optional(SourceHeader, source'))
  <2>1. (o = 0 /\ x = m /\ y = s) \/ (s = 0 /\ y = m /\ x = o)
    BY <1>8
  <2> HIDE DEF l, g, o, s, x, y
  <2>2. size' = Overhead + l + x + y + g
    BY <1>1, <1>2, <1>7, <2>1
  <2> QED
    BY <2>2 DEF x, y
<1> QED
  BY <1>2, <1>5, <1>6, <1>9 DEF BufferInv

LEMMA BeginInv ==
    ASSUME TypeInv, BufferInv, AddLogBegin
    PROVE  TypeInv' /\ BufferInv' /\ logs'.bytes = logs.bytes
<1>1. /\ tags' = tags /\ topic' = topic /\ source' = source /\ packed' = packed /\ size' = size
      /\ givenTags' = givenTags /\ fixed' = fixed /\ overrun' = overrun /\ packed = <<>>
      /\ open' = TRUE /\ body' = <<>> /\ logs' = Ensure(logs, 3) /\ given' = Append(given, <<>>)
      /\ ~open /\ Extent + 3 < Wrap
  BY DEF AddLogBegin, Room, Building, Reserved
<1>9. Extent' \in Nat /\ Extent' = Extent /\ Extent' < Wrap
  <2>1. Extent' = Extent /\ Extent < Wrap
    BY <1>1 DEF Extent, TypeInv
  <2> QED
    BY <2>1, ExtentIs
<1>2. /\ logs' \in Buffers /\ logs'.bytes = logs.bytes
      /\ Fits' => logs'.max >= Len(logs.bytes) + 3
  <2>1. logs' \in Buffers /\ logs'.bytes = logs.bytes
    BY <1>1, EnsureType DEF TypeInv
  <2>2. ASSUME Fits' PROVE logs'.max >= Len(logs.bytes) + 3
    <3>1. Fits /\ 4 * Extent' + 4 <= Wrap
      BY <1>1, <1>9, <2>2, ExtentIs, FitsBefore
    <3> DEFINE l == Len(logs.bytes)
    <3>2. l \in Nat /\ l <= logs.max /\ Extent >= size /\ size >= l /\ size \in Nat /\ Extent \in Nat
      <4>1. l <= logs.max
        BY <3>1 DEF BufferInv
      <4> QED
        BY <4>1, Parts, ExtentIs
    <3>3. 4 * 3 < Wrap /\ l + 3 < Wrap
      <4> HIDE DEF l
      <4> QED BY <1>1, <3>2, Quarter
    <3> QED
      BY <1>1, <3>2, <3>3, EnsureRoom DEF TypeInv
  <2> QED
    BY <2>1, <2>2
<1>3. given' \in Seq(Seq(FieldTypes)) /\ given' # <<>>
  <2>1. <<>> \in Seq(FieldTypes) /\ given \in Seq(Seq(FieldTypes)) /\ given' = Append(given, <<>>)
    BY <1>1 DEF TypeInv
  <2> QED
    BY ONLY <2>1, AppendProperties
<1>4. TypeInv'
  <2>1. logs' \in Buffers /\ body' \in Seq(Nat)
    BY <1>1, <1>2
  <2>2. /\ tags' \in Buffers /\ size' \in Nat /\ Given(topic') /\ Given(source') /\ packed' \in Seq(Nat)
        /\ givenTags' \in Seq(Nat \X Nat) /\ fixed' \in Nat /\ overrun' \in BOOLEAN
    BY <1>1 DEF TypeInv
  <2>3. open' = TRUE /\ packed' = <<>>
    BY <1>1
  <2> QED
    BY <1>3, <1>9, <2>1, <2>2, <2>3 DEF TypeInv, Given
<1>5. Cursor' = Len(logs.bytes) + 3
  <2>1. Cursor' = Len(logs'.bytes) + 3 + Len(body')
    BY DEF Cursor, Reserved
  <2>2. Len(body') = 0
    <3>1. body' = <<>>
      BY <1>1
    <3> QED
      BY <3>1
  <2>3. Len(logs.bytes) \in Nat /\ logs'.bytes = logs.bytes
    BY <1>2, Parts
  <2> QED
    BY <2>1, <2>2, <2>3
<1>6. Len(packed') = 0 /\ logs'.max \in Nat /\ logs.max \in Nat
  <2>1. packed' = <<>> /\ logs' \in Buffers
    BY <1>1, <1>2
  <2>2. logs.max \in Nat
    BY Parts
  <2> QED
    BY <2>1, <2>2 DEF Buffers
<1> DEFINE l == Len(logs.bytes)
           m == logs'.max
<1>7. l \in Nat /\ m \in Nat /\ (Fits' => m >= l + 3)
  BY <1>2, <1>6, Parts
<1>8. Fits' => l <= m /\ Cursor' <= m /\ Len(packed') <= m
  <2>1. Cursor' = l + 3
    BY <1>5
  <2> HIDE DEF l, m
  <2> QED BY <1>6, <1>7, <2>1
<1>10. Fits' => Len(tags'.bytes) <= tags'.max
  <2>1. Fits' => Fits
    BY <1>1, <1>9, ExtentIs, FitsBefore
  <2> QED
    BY <1>1, <2>1 DEF BufferInv
<1> QED
  BY <1>1, <1>2, <1>4, <1>8, <1>10 DEF BufferInv

LEMMA FieldInv ==
    ASSUME TypeInv, BufferInv, open, NEW f \in FieldTypes, NEW b \in Seq(Nat), NEW n \in Nat,
           Len(b) <= n, logs' = EnsureCursor(n), body' = body \o b, GivenField(f),
           Fits' => Len(logs.bytes) + (Cursor + n) < Wrap, Extent + n < Wrap,
           UNCHANGED <<tags, open, size, topic, source, packed, givenTags, fixed, overrun>>
    PROVE  TypeInv' /\ BufferInv'
<1>1. /\ logs' \in Buffers /\ logs'.bytes = logs.bytes /\ body' \in Seq(Nat)
      /\ given' \in Seq(Seq(FieldTypes)) /\ Len(given') = Len(given) /\ Len(given) \in Nat \ {0}
      /\ Extent' = Extent + Len(b) /\ Len(b) \in Nat
      /\ Fits' => Len(logs'.bytes) <= logs'.max /\ Cursor' <= logs'.max
  BY FieldStep, LenProperties
<1>2. given' # <<>> /\ packed = <<>>
  BY <1>1, EmptySeq DEF TypeInv
<1>6. Extent' >= Extent /\ Extent' < Wrap
  BY <1>1, ExtentIs, Quarter
<1>3. TypeInv'
  BY <1>1, <1>2, <1>6 DEF TypeInv, Given
<1>4. Len(packed') <= logs'.max
  <2>1. Len(packed') = 0 /\ logs'.max \in Nat
    BY <1>1, <1>2 DEF Buffers
  <2> QED
    BY <2>1
<1>5. Fits' => Len(tags'.bytes) <= tags'.max
  <2>1. Fits' => Fits
    BY <1>1, <1>6, ExtentIs, FitsBefore
  <2> QED
    BY <2>1 DEF BufferInv
<1> QED
  BY <1>1, <1>3, <1>4, <1>5 DEF BufferInv

LEMMA FieldTime ==
    ASSUME NEW t \in Times
    PROVE  /\ <<t>> \in FieldTypes /\ t \in 0 .. Power(5) - 1 /\ t \in Nat
           /\ TimeBytes(t) \in Seq(Nat) /\ Len(TimeBytes(t)) <= 6
<1>1. t \in 0 .. Power(5) - 1 /\ Power(5) \in Nat
  BY Inputs
<1>2. t \in Nat
  BY <1>1
<1> QED
  BY <1>1, <1>2, TimeLength DEF FieldTypes

LEMMA FieldPair ==
    ASSUME NEW k \in Lengths, NEW v \in Lengths
    PROVE  /\ <<k, v>> \in FieldTypes /\ k \in Nat /\ v \in Nat
           /\ PairBytes(PairHeader, k, v) \in Seq(Nat)
           /\ Len(PairBytes(PairHeader, k, v)) = Announce(PairSize(k, v))
           /\ Announce(PairSize(k, v)) \in Nat
<1>1. k \in Nat /\ v \in Nat /\ PairHeader \in Nat
  BY Inputs, Headers
<1>2. PairSize(k, v) \in Nat
  BY <1>1, PairSizeType
<1>3. Announce(PairSize(k, v)) \in Nat
  BY <1>2, AnnounceType
<1>4. <<k, v>> \in FieldTypes
  BY <1>1 DEF FieldTypes
<1>5. PairBytes(PairHeader, k, v) \in Seq(Nat) /\ Len(PairBytes(PairHeader, k, v)) = Announce(PairSize(k, v))
  BY <1>1, PairLength
<1> QED
  BY <1>1, <1>3, <1>4, <1>5

\* What CursorRoom asks for, when the n bytes are exact or few.
LEMMA FieldRoom ==
    ASSUME TypeInv, BufferInv, NEW n \in Nat, NEW x \in Nat, Extent' = Extent + x, n <= x \/ n <= 6, Fits'
    PROVE  Len(logs.bytes) + (Cursor + n) < Wrap
<1> DEFINE l == Len(logs.bytes)
           b == Len(body)
           e == Extent'
<1>1. l \in Nat /\ b \in Nat /\ Cursor = l + 3 + b
  BY Parts DEF Cursor, Reserved
<1>2. Extent \in Nat /\ Extent = size + b /\ size >= l /\ size \in Nat
  BY ExtentIs, Parts
<1>3. e \in Nat /\ e >= l + b + x
  <2>1. e = Extent + x
    OBVIOUS
  <2> HIDE DEF e, l, b
  <2> QED BY <1>1, <1>2, <2>1
<1>4. 4 * e + 4 <= Wrap
  <2>1. e \in Int /\ e < Wrap \div 4
    BY <1>3 DEF Fits
  <2> HIDE DEF e
  <2> QED BY <2>1, Quarter
<1> HIDE DEF l, b, e
<1>5. l + (Cursor + n) < Wrap
  BY <1>1, <1>3, <1>4, Quarter
<1> QED
  BY <1>5 DEF l

LEMMA FieldExtent ==
    ASSUME TypeInv, NEW b \in Seq(Nat), body' = body \o b, size' = size
    PROVE  Extent' = Extent + Len(b) /\ Len(b) \in Nat
<1>1. Len(body') = Len(body) + Len(b) /\ Len(b) \in Nat /\ Len(body) \in Nat /\ size \in Nat
  BY ConcatLength DEF TypeInv
<1>2. Extent = size + Len(body) /\ Extent' = size' + Len(body')
  BY DEF Extent
<1> QED
  BY <1>1, <1>2

LEMMA TimeInv ==
    ASSUME TypeInv, BufferInv, NEW t \in Times, AddLogTime(t)
    PROVE  TypeInv' /\ BufferInv'
<1>1. /\ logs' = EnsureCursor(6) /\ body' = body \o TimeBytes(t) /\ GivenField(<<t>>) /\ open
      /\ UNCHANGED <<tags, open, size, topic, source, packed, givenTags, fixed, overrun>>
      /\ Extent + 6 < Wrap
  BY DEF AddLogTime, Room
<1>2. TimeBytes(t) \in Seq(Nat) /\ Len(TimeBytes(t)) <= 6 /\ <<t>> \in FieldTypes
  BY FieldTime
<1>3. Extent' = Extent + Len(TimeBytes(t)) /\ Len(TimeBytes(t)) \in Nat
  BY <1>1, <1>2, FieldExtent
<1>4. Fits' => Len(logs.bytes) + (Cursor + 6) < Wrap
  BY <1>3, FieldRoom
<1> QED
  BY <1>1, <1>2, <1>4, FieldInv

LEMMA KeyValueInv ==
    ASSUME TypeInv, BufferInv, NEW k \in Lengths, NEW v \in Lengths, AddLogKeyValue(k, v)
    PROVE  TypeInv' /\ BufferInv'
<1> DEFINE n == Announce(PairSize(k, v))
           b == PairBytes(PairHeader, k, v)
<1>1. /\ logs' = EnsureCursor(n) /\ body' = body \o b /\ GivenField(<<k, v>>) /\ open
      /\ UNCHANGED <<tags, open, size, topic, source, packed, givenTags, fixed, overrun>>
      /\ Extent + n < Wrap
  BY DEF AddLogKeyValue, Room
<1>2. b \in Seq(Nat) /\ Len(b) = n /\ n \in Nat /\ <<k, v>> \in FieldTypes
  BY FieldPair
<1> HIDE DEF n, b
<1>3. Extent' = Extent + n
  BY <1>1, <1>2, FieldExtent
<1>4. Fits' => Len(logs.bytes) + (Cursor + n) < Wrap
  BY <1>2, <1>3, FieldRoom
<1>5. Len(b) <= n
  BY <1>2
<1> QED
  BY <1>1, <1>2, <1>4, <1>5, FieldInv

LEMMA EndInv ==
    ASSUME TypeInv, BufferInv, AddLogEnd
    PROVE  TypeInv' /\ BufferInv'
<1> DEFINE n == Announce(Len(body))
           l == Len(logs.bytes)
           g == Len(tags.bytes)
           o == Len(Optional(TopicHeader, topic))
           s == Len(Optional(SourceHeader, source))
<1>1. /\ logs' \in Buffers /\ size' \in Nat
      /\ Len(logs'.bytes) = l + n /\ Extent' = size + n /\ Extent' < Wrap /\ Extent' >= Extent
      /\ Fits' => Len(logs'.bytes) <= logs'.max
      /\ size' = size + n /\ n \in Nat
  BY EndStep
<1>2. /\ tags' = tags /\ open' = FALSE /\ body' = <<>> /\ topic' = topic /\ source' = source
      /\ packed' = packed /\ given' = given /\ givenTags' = givenTags /\ fixed' = fixed
      /\ overrun' = overrun /\ packed = <<>>
  BY DEF AddLogEnd, Building, caller
<1>3. TypeInv'
  BY <1>1, <1>2 DEF TypeInv, Given
<1>4. l \in Nat /\ g \in Nat /\ o \in Nat /\ s \in Nat /\ Overhead \in Nat /\ size = Overhead + l + o + s + g
  BY Parts DEF BufferInv
<1>5. Len(packed') <= logs'.max
  <2>1. Len(packed') = 0 /\ logs'.max \in Nat
    BY <1>1, <1>2 DEF Buffers
  <2> QED
    BY <2>1
<1>6. Fits' => Len(tags'.bytes) <= tags'.max
  <2>1. size + n \in Nat
    BY <1>1, Parts
  <2>2. Fits' => Fits
    BY <1>1, <2>1, FitsBefore
  <2> QED
    BY <1>2, <2>2 DEF BufferInv
<1>7. size' = Overhead + Len(logs'.bytes) + Len(Optional(TopicHeader, topic'))
                + Len(Optional(SourceHeader, source')) + Len(tags'.bytes)
  <2>1. size' = Overhead + (l + n) + o + s + g
    <3> HIDE DEF n, l, g, o, s
    <3> QED BY <1>1, <1>4
  <2> QED
    BY <1>1, <1>2, <2>1
<1> QED
  BY <1>1, <1>2, <1>3, <1>5, <1>6, <1>7 DEF BufferInv

LEMMA LogPackLength ==
    ASSUME TypeInv
    PROVE  /\ LogPack \in Seq(Nat)
           /\ Len(LogPack) = Len(logs.bytes) + Len(Optional(TopicHeader, topic))
                             + Len(Optional(SourceHeader, source)) + Len(tags.bytes)
<1> DEFINE a == logs.bytes
           b == Optional(TopicHeader, topic)
           c == Optional(SourceHeader, source)
           d == tags.bytes
<1>1. a \in Seq(Nat) /\ b \in Seq(Nat) /\ c \in Seq(Nat) /\ d \in Seq(Nat)
  BY OptionalLength, Headers DEF TypeInv, Buffers
<1>2. LogPack = a \o b \o c \o d
  BY DEF LogPack
<1> HIDE DEF a, b, c, d
<1> DEFINE ab == a \o b
<1>3. ab \in Seq(Nat) /\ Len(ab) = Len(a) + Len(b)
  BY <1>1, ConcatLength
<1>4. LogPack = ab \o c \o d
  BY <1>2
<1> HIDE DEF ab
<1> DEFINE abc == ab \o c
<1>5. abc \in Seq(Nat) /\ Len(abc) = Len(ab) + Len(c)
  BY <1>1, <1>3, ConcatLength
<1>6. LogPack = abc \o d
  BY <1>4
<1> HIDE DEF abc
<1>7. LogPack \in Seq(Nat) /\ Len(LogPack) = Len(abc) + Len(d)
  BY <1>1, <1>5, <1>6, ConcatLength
<1> QED
  BY <1>3, <1>5, <1>7 DEF a, b, c, d

LEMMA SerializeInv ==
    ASSUME TypeInv, BufferInv, Serialize
    PROVE  TypeInv' /\ BufferInv' /\ logs'.bytes = logs.bytes
<1> DEFINE l == Len(logs.bytes)
           g == Len(tags.bytes)
           o == Len(Optional(TopicHeader, topic))
           s == Len(Optional(SourceHeader, source))
           n == size - l
<1>1. /\ tags' = tags /\ open' = open /\ body' = body /\ topic' = topic /\ source' = source
      /\ size' = size /\ given' = given /\ givenTags' = givenTags /\ fixed' = fixed /\ ~open
      /\ overrun' = overrun
      /\ packed' = LogPack /\ logs' = IF logs.max < size THEN Adjust(logs, n) ELSE logs
  BY DEF Serialize, caller
<1>2. LogPack \in Seq(Nat) /\ Len(LogPack) = l + o + s + g
  BY LogPackLength
<1>3. /\ l \in Nat /\ g \in Nat /\ o \in Nat /\ s \in Nat /\ Overhead \in Nat
      /\ logs.max \in Nat /\ size = Overhead + l + o + s + g
  BY Parts DEF BufferInv
<1>4. n \in Nat /\ l + n = size
  <2> HIDE DEF l, g, o, s
  <2> QED BY <1>3
<1> HIDE DEF n
<1>8. Extent' = Extent
  BY <1>1 DEF Extent
<1>5. /\ logs' \in Buffers /\ logs'.bytes = logs.bytes /\ logs'.max \in Nat
      /\ Fits => logs'.max >= size
  <2>1. CASE logs.max < size
    <3>1. /\ Adjust(logs, n) \in Buffers /\ Adjust(logs, n).bytes = logs.bytes
          /\ Fits => Adjust(logs, n).max >= l + n
      <4>1. Adjust(logs, n) \in Buffers /\ Adjust(logs, n).bytes = logs.bytes
        BY <1>4, AdjustType DEF TypeInv
      <4>2. l + n < Wrap
        <5>1. size \in Nat /\ Extent \in Nat /\ Extent >= size /\ Extent < Wrap /\ Wrap \in Nat
          BY ExtentIs, Quarter DEF TypeInv
        <5> HIDE DEF l
        <5> QED
          BY <1>4, <5>1
      <4>3. ~IsNull(logs)
        BY DEF Serialize
      <4>4. Fits => Len(logs.bytes) <= logs.max
        BY DEF BufferInv
      <4> QED
        BY <1>4, <4>1, <4>2, <4>3, <4>4, AdjustRoom DEF TypeInv
    <3>2. Adjust(logs, n).max \in Nat
      BY <3>1 DEF Buffers
    <3> QED
      BY <1>1, <1>4, <2>1, <3>1, <3>2
  <2>2. CASE ~(logs.max < size)
    <3>1. logs \in Buffers /\ size \in Nat /\ logs' = logs
      BY <1>1, <2>2 DEF TypeInv
    <3>2. logs.max \in Nat
      BY <1>3
    <3>3. logs.max >= size
      BY <2>2, <3>1, <3>2
    <3> QED
      BY <3>1, <3>2, <3>3
  <2> QED
    BY <2>1, <2>2
<1>6. TypeInv'
  BY <1>1, <1>2, <1>5, <1>8 DEF TypeInv, Given
<1>7. Fits => Len(packed') <= logs'.max /\ l <= logs'.max
  <2> DEFINE m == logs'.max
  <2>1. m \in Nat /\ (Fits => m >= size) /\ Len(packed') = l + o + s + g
    BY <1>1, <1>2, <1>5
  <2> HIDE DEF l, g, o, s, m
  <2>2. Fits => Len(packed') <= m /\ l <= m
    BY <1>3, <2>1
  <2> QED
    BY <2>2 DEF m
<1>9. Fits' => Fits
  BY <1>8 DEF Fits
<1> QED
  BY <1>1, <1>5, <1>6, <1>7, <1>9 DEF BufferInv

\* What parse_uint32 reads of each byte is a number.
LEMMA DigitType ==
    ASSUME NEW b \in Seq(Nat), NEW p \in Nat \ {0}, NEW i \in 1 .. 5, p + i - 1 <= Len(b)
    PROVE  b[p + i - 1] \in Nat /\ (b[p + i - 1] % Base) * Power(i - 1) \in Nat
<1>1. Base \in Nat /\ Base > 0 /\ Len(b) \in Nat
  BY BaseAssumption, LenProperties
<1>2. p + i - 1 \in 1 .. Len(b)
  BY <1>1
<1>3. b[p + i - 1] \in Nat
  BY <1>2, ElementOfSeq
<1> DEFINE x == b[p + i - 1] % Base
           y == Power(i - 1)
<1>4. x \in Nat
  BY <1>1, <1>3
<1>5. y \in Nat
  <2>1. i - 1 \in 0 .. 5
    OBVIOUS
  <2> QED
    BY <2>1, Powers
<1>6. x * y \in Nat
  <2> HIDE DEF x, y
  <2> QED BY <1>4, <1>5
<1> QED
  BY <1>3, <1>6

LEMMA ScanType ==
    ASSUME NEW b \in Seq(Nat), NEW p \in Nat \ {0}
    PROVE  /\ ScanVarint(b, p) \in 0 .. 5
           /\ \A n \in 0 .. 5 : ParseUint32(n, b, p) \in Nat
<1>1. ScanVarint(b, p) \in 0 .. 5
  <2> DEFINE last == {n \in 1 .. 5 : p + n - 1 <= Len(b) /\ ~HasSuccessor(b[p + n - 1])}
             c == CHOOSE n \in last : \A m \in last : n <= m
  <2>1. ScanVarint(b, p) = IF last = {} THEN 0 ELSE c
    BY DEF ScanVarint
  <2>2. last \subseteq 1 .. 5
    OBVIOUS
  <2> HIDE DEF last
  <2>3. ASSUME last # {} PROVE c \in last
    <3>1. last \in SUBSET Nat
      BY <2>2
    <3>2. \E n \in last : \A m \in last : n <= m
      BY <2>3, <3>1, Least
    <3> QED
      BY <3>2
  <2> HIDE DEF c
  <2>4. CASE last = {}
    <3>1. ScanVarint(b, p) = 0
      BY <2>1, <2>4
    <3> QED
      BY <3>1
  <2>5. CASE last # {}
    <3>1. ScanVarint(b, p) = c
      BY <2>1, <2>5
    <3>2. c \in 1 .. 5
      BY <2>2, <2>3, <2>5
    <3> QED
      BY <3>1, <3>2
  <2> QED
    BY <2>4, <2>5
<1>2. ASSUME NEW n \in 0 .. 5 PROVE ParseUint32(n, b, p) \in Nat
  <2> DEFINE read(i) == (i = 1 \/ i <= n) /\ p + i - 1 <= Len(b)
             d(i) == IF read(i) THEN (b[p + i - 1] % Base) * Power(i - 1) ELSE 0
  <2>1. ParseUint32(n, b, p) = d(1) + d(2) + d(3) + d(4) + d(5)
    BY DEF ParseUint32
  <2>2. \A i \in 1 .. 5 : d(i) \in Nat
    BY DigitType
  <2> HIDE DEF d
  <2>3. d(1) \in Nat /\ d(2) \in Nat /\ d(3) \in Nat /\ d(4) \in Nat /\ d(5) \in Nat
    BY <2>2
  <2> QED
    BY SMTT(60), <2>1, <2>3
<1> QED
  BY <1>1, <1>2

\* The turns of fix_log_group_time.
IsAfter(after, memory, len, t) ==
    after = [k \in 0 .. len |->
               IF k = 0 THEN [memory |-> memory, at |-> 1]
               ELSE IF Going(after[k - 1], len) THEN Turn(after[k - 1], t) ELSE after[k - 1]]

AfterUpto(after, memory, len, t, n) ==
    \A k \in 0 .. n :
      after[k] = IF k = 0 THEN [memory |-> memory, at |-> 1]
                 ELSE IF Going(after[k - 1], len) THEN Turn(after[k - 1], t) ELSE after[k - 1]

LEMMA AfterExists ==
    ASSUME NEW memory, NEW len \in Nat, NEW t
    PROVE  \E after : IsAfter(after, memory, len, t)
<1> DEFINE first == [memory |-> memory, at |-> 1]
           next(s) == IF Going(s, len) THEN Turn(s, t) ELSE s
           N == {n \in Nat : \E after : AfterUpto(after, memory, len, t, n)}
<1>1. 0 \in N
  <2> DEFINE f == [k \in {0} |-> first]
  <2>1. f[0] = first
    OBVIOUS
  <2>2. AfterUpto(f, memory, len, t, 0)
    <3> SUFFICES ASSUME NEW k \in 0 .. 0 PROVE k = 0 /\ f[k] = first
      BY DEF AfterUpto
    <3> HIDE DEF f
    <3> QED BY <2>1
  <2> QED
    BY <2>2
<1>2. ASSUME NEW n \in Nat, n \in N PROVE n + 1 \in N
  <2>1. PICK f : AfterUpto(f, memory, len, t, n)
    BY <1>2
  <2> DEFINE x == next(f[n])
             g == [k \in 0 .. n + 1 |-> IF k <= n THEN f[k] ELSE x]
  <2>2. ASSUME NEW k \in 0 .. n + 1 PROVE g[k] = IF k = 0 THEN first ELSE next(g[k - 1])
    <3>1. CASE k <= n
      <4>1. k \in 0 .. n /\ g[k] = f[k] /\ (k # 0 => g[k - 1] = f[k - 1])
        BY <3>1
      <4>2. f[k] = IF k = 0 THEN first ELSE next(f[k - 1])
        BY <2>1, <4>1 DEF AfterUpto
      <4> HIDE DEF g, next, first
      <4> QED
        BY <4>1, <4>2
    <3>2. CASE k = n + 1
      <4>1. g[k] = x /\ g[k - 1] = f[n] /\ k # 0 /\ k - 1 = n
        BY <3>2
      <4> HIDE DEF g
      <4> QED
        BY <4>1
    <3> QED
      BY <3>1, <3>2
  <2>3. AfterUpto(g, memory, len, t, n + 1)
    <3> HIDE DEF g
    <3> QED BY <2>2 DEF AfterUpto
  <2> QED
    BY <2>3
<1>3. len \in N
  <2>1. Nat \subseteq N
    <3> HIDE DEF N
    <3> QED BY <1>1, <1>2, Induct
  <2> QED
    BY <2>1
<1>4. PICK f : AfterUpto(f, memory, len, t, len)
  BY <1>3
<1> DEFINE g == [k \in 0 .. len |-> f[k]]
<1>5. g = [k \in 0 .. len |-> IF k = 0 THEN first ELSE next(g[k - 1])]
  <2>1. ASSUME NEW k \in 0 .. len PROVE g[k] = IF k = 0 THEN first ELSE next(g[k - 1])
    <3>1. g[k] = f[k] /\ (k # 0 => g[k - 1] = f[k - 1])
      OBVIOUS
    <3>2. f[k] = IF k = 0 THEN first ELSE next(f[k - 1])
      BY <1>4 DEF AfterUpto
    <3> HIDE DEF g, next, first
    <3> QED BY <3>1, <3>2
  <2>2. g = [k \in 0 .. len |-> g[k]]
    OBVIOUS
  <2> HIDE DEF g, next, first
  <2> QED BY <2>1, <2>2
<1> QED
  BY <1>5 DEF IsAfter

LEMMA OverwriteType ==
    ASSUME NEW memory \in Seq(Nat), NEW from \in Nat, NEW bytes \in Seq(Nat)
    PROVE  /\ Overwrite(memory, from, bytes) \in Seq(Nat)
           /\ Len(Overwrite(memory, from, bytes)) = Len(memory)
           /\ \A i \in 1 .. Len(memory) :
                Overwrite(memory, from, bytes)[i] =
                  IF i - from + 1 \in 1 .. Len(bytes) THEN bytes[i - from + 1] ELSE memory[i]
<1> DEFINE new == Overwrite(memory, from, bytes)
<1>1. DOMAIN memory = 1 .. Len(memory) /\ DOMAIN bytes = 1 .. Len(bytes) /\ Len(memory) \in Nat
  BY LenProperties
<1>2. new = [i \in 1 .. Len(memory) |->
               IF i - from + 1 \in 1 .. Len(bytes) THEN bytes[i - from + 1] ELSE memory[i]]
  BY <1>1 DEF Overwrite
<1>3. \A i \in 1 .. Len(memory) :
        new[i] = IF i - from + 1 \in 1 .. Len(bytes) THEN bytes[i - from + 1] ELSE memory[i]
  BY <1>2
<1>4. ASSUME NEW i \in 1 .. Len(memory) PROVE new[i] \in Nat
  BY <1>3, ElementOfSeq
<1>5. new \in [1 .. Len(memory) -> Nat]
  <2>1. new = [i \in 1 .. Len(memory) |-> new[i]]
    BY <1>2
  <2> HIDE DEF new
  <2> QED
    BY <1>4, <2>1
<1> HIDE DEF new
<1>6. new \in Seq(Nat) /\ Len(new) = Len(memory)
  <2> DEFINE m == Len(memory)
  <2>1. m \in Nat /\ new \in [1 .. m -> Nat]
    BY <1>1, <1>5
  <2> HIDE DEF m
  <2>2. new \in Seq(Nat) /\ Len(new) = m
    BY <2>1
  <2> QED
    BY <2>2 DEF m
<1> QED
  BY <1>3, <1>6 DEF new

\* A place in memory between two turns.
Place(s, memory) == s.memory \in Seq(Nat) /\ Len(s.memory) = Len(memory) /\ s.at \in Nat \ {0}

LEMMA TurnType ==
    ASSUME NEW s, NEW memory \in Seq(Nat), Place(s, memory), NEW t \in Nat
    PROVE  Place(Turn(s, t), memory) /\ Turn(s, t).at > s.at
<1> DEFINE n == ScanVarint(s.memory, s.at + 1)
           first == s.at + 1 + n
           v == ParseUint32(n, s.memory, s.at + 1)
           new == IF s.memory[first] = TimeHeader THEN Overwrite(s.memory, first + 1, Pack(t)) ELSE s.memory
<1>1. s.memory \in Seq(Nat) /\ Len(s.memory) = Len(memory) /\ s.at \in Nat \ {0}
  BY DEF Place
<1>2. n \in 0 .. 5 /\ v \in Nat
  <2>1. s.at + 1 \in Nat \ {0}
    BY <1>1
  <2> QED
    BY <1>1, <2>1, ScanType
<1>3. Turn(s, t) = [memory |-> new, at |-> first + v]
  BY DEF Turn
<1> HIDE DEF n, v
<1>4. first \in Nat /\ first + v \in Nat \ {0} /\ first + v > s.at
  BY <1>1, <1>2
<1> HIDE DEF first
<1>5. new \in Seq(Nat) /\ Len(new) = Len(memory)
  <2>1. first + 1 \in Nat /\ Pack(t) \in Seq(Nat)
    BY <1>4, PackLength
  <2>2. Overwrite(s.memory, first + 1, Pack(t)) \in Seq(Nat)
        /\ Len(Overwrite(s.memory, first + 1, Pack(t))) = Len(s.memory)
    BY ONLY <1>1, <2>1, OverwriteType
  <2> QED
    BY <1>1, <2>2
<1> HIDE DEF new
<1> QED
  BY <1>3, <1>4, <1>5 DEF Place

\* The memory that fix_log_group_time leaves is that of the end of its loop, which is
\* reached: every turn goes on by a byte or more.
LEMMA FixTimeIs ==
    ASSUME NEW memory \in Seq(Nat), NEW len \in Nat, NEW t \in Nat, t >= MinTime
    PROVE  \E after : /\ AfterUpto(after, memory, len, t, len)
                      /\ \A k \in 0 .. len : Place(after[k], memory)
                      /\ \E k \in 0 .. len : ~Going(after[k], len)
                                             /\ FixTime(memory, len, t) = after[k].memory
<1> DEFINE f == CHOOSE h : IsAfter(h, memory, len, t)
           last == CHOOSE k \in 0 .. len : ~Going(f[k], len)
<1>1. FixTime(memory, len, t) = IF t < MinTime THEN memory ELSE f[last].memory
  BY DEF FixTime, IsAfter
<1>2. FixTime(memory, len, t) = f[last].memory
  <2>1. MinTime \in Nat
    BY Inputs
  <2> QED
    BY <1>1, <2>1
<1>3. IsAfter(f, memory, len, t)
  BY AfterExists
<1> HIDE DEF f
<1> DEFINE first == [memory |-> memory, at |-> 1]
           next(s) == IF Going(s, len) THEN Turn(s, t) ELSE s
<1>4. ASSUME NEW k \in 0 .. len PROVE f[k] = IF k = 0 THEN first ELSE next(f[k - 1])
  BY <1>3 DEF IsAfter
<1>5. AfterUpto(f, memory, len, t, len)
  BY <1>4 DEF AfterUpto
<1> DEFINE N == {n \in Nat : n <= len => Place(f[n], memory)
                                        /\ (f[n].at >= n + 1 \/ \E j \in 0 .. n : ~Going(f[j], len))}
<1>6. 0 \in N
  <2>1. f[0] = first
    BY <1>4
  <2> QED
    BY <2>1 DEF Place
<1>7. ASSUME NEW n \in Nat, n \in N PROVE n + 1 \in N
  <2> SUFFICES ASSUME n + 1 <= len
               PROVE  /\ Place(f[n + 1], memory)
                      /\ f[n + 1].at >= n + 1 + 1 \/ \E j \in 0 .. n + 1 : ~Going(f[j], len)
    OBVIOUS
  <2>1. Place(f[n], memory) /\ (f[n].at >= n + 1 \/ \E j \in 0 .. n : ~Going(f[j], len))
    BY <1>7
  <2>2. f[n + 1] = next(f[n])
    <3>1. n + 1 \in 0 .. len /\ n + 1 # 0 /\ n + 1 - 1 = n
      OBVIOUS
    <3> QED
      BY <1>4, <3>1
  <2>3. CASE Going(f[n], len)
    <3>1. f[n + 1] = Turn(f[n], t)
      BY <2>2, <2>3
    <3>2. Place(f[n + 1], memory) /\ f[n + 1].at > f[n].at
      BY <2>1, <3>1, TurnType
    <3>3. f[n].at \in Nat /\ f[n + 1].at \in Nat
      BY <2>1, <3>2 DEF Place
    <3>4. (\E j \in 0 .. n : ~Going(f[j], len)) => \E j \in 0 .. n + 1 : ~Going(f[j], len)
      OBVIOUS
    <3> QED
      BY <2>1, <3>2, <3>3, <3>4
  <2>4. CASE ~Going(f[n], len)
    <3>1. f[n + 1] = f[n] /\ n \in 0 .. n + 1
      BY <2>2, <2>4
    <3> QED
      BY <2>1, <2>4, <3>1
  <2> QED
    BY <2>3, <2>4
<1>8. Nat \subseteq N
  <2> HIDE DEF N
  <2> QED BY <1>6, <1>7, Induct
<1>9. \A k \in 0 .. len : Place(f[k], memory)
  BY <1>8
<1>10. \E k \in 0 .. len : ~Going(f[k], len)
  <2>1. f[len].at >= len + 1 \/ \E j \in 0 .. len : ~Going(f[j], len)
    BY <1>8
  <2>2. f[len].at \in Nat
    BY <1>9 DEF Place
  <2>3. f[len].at >= len + 1 => ~Going(f[len], len)
    BY <2>2 DEF Going
  <2> QED
    BY <2>1, <2>3
<1>11. last \in 0 .. len /\ ~Going(f[last], len)
  BY <1>10
<1> HIDE DEF last
<1> QED
  BY <1>2, <1>5, <1>9, <1>11

LEMMA FixTimeType ==
    ASSUME NEW memory \in Seq(Nat), NEW len \in Nat, NEW t \in Nat
    PROVE  FixTime(memory, len, t) \in Seq(Nat) /\ Len(FixTime(memory, len, t)) = Len(memory)
<1>1. CASE t < MinTime
  BY <1>1 DEF FixTime
<1>2. CASE ~(t < MinTime)
  <2>1. t >= MinTime
    BY <1>2, Inputs
  <2>3. PICK f : /\ AfterUpto(f, memory, len, t, len)
                 /\ \A k \in 0 .. len : Place(f[k], memory)
                 /\ \E k \in 0 .. len : ~Going(f[k], len) /\ FixTime(memory, len, t) = f[k].memory
    BY ONLY <2>1, memory \in Seq(Nat), len \in Nat, t \in Nat, FixTimeIs, Zenon
  <2>2. PICK k \in 0 .. len : Place(f[k], memory) /\ FixTime(memory, len, t) = f[k].memory
    BY <2>3
  <2> QED
    BY <2>2 DEF Place
<1> QED
  BY <1>1, <1>2

LEMMA BehindIs ==
    ASSUME NEW next \in {LogHeader, TimeHeader}
    PROVE  Behind(next) \in Seq(Nat) /\ Len(Behind(next)) = 6 /\ Behind(next)[1] = next
<1>1. <<next>> \in Seq(Nat) /\ Len(<<next>>) = 1 /\ <<next>>[1] = next
  BY Headers
<1>2. Content(5) \in Seq(Nat) /\ Len(Content(5)) = 5
  BY ContentLength
<1> QED
  <2> DEFINE a == <<next>>
             c == Content(5)
  <2>1. a \in Seq(Nat) /\ c \in Seq(Nat) /\ Len(a) = 1 /\ Len(c) = 5 /\ a[1] = next /\ Behind(next) = a \o c
    BY <1>1, <1>2 DEF Behind
  <2> HIDE DEF a, c
  <2>3. /\ a \o c \in Seq(Nat) /\ Len(a \o c) = Len(a) + Len(c)
        /\ \A i \in 1 .. Len(a) + Len(c) : (a \o c)[i] = IF i <= Len(a) THEN a[i] ELSE c[i - Len(a)]
    BY ONLY <2>1, ConcatProperties
  <2>2. a \o c \in Seq(Nat) /\ Len(a \o c) = 6 /\ (a \o c)[1] = a[1]
    BY <2>1, <2>3
  <2> QED
    BY <2>1, <2>2

\* The group, and what lies behind it.
LEMMA MemoryIs ==
    ASSUME NEW q \in Seq(Nat), NEW next \in {LogHeader, TimeHeader}
    PROVE  /\ q \o Behind(next) \in Seq(Nat) /\ Len(q \o Behind(next)) = Len(q) + 6
           /\ \A i \in 1 .. Len(q) : (q \o Behind(next))[i] = q[i]
           /\ (q \o Behind(next))[Len(q) + 1] = next
<1> DEFINE b == Behind(next)
<1>1. b \in Seq(Nat) /\ Len(b) = 6 /\ b[1] = next
  BY BehindIs
<1> HIDE DEF b
<1>2. Len(q) \in Nat
  BY LenProperties
<1>3. /\ q \o b \in Seq(Nat) /\ Len(q \o b) = Len(q) + 6
      /\ \A i \in 1 .. Len(q) + 6 : (q \o b)[i] = IF i <= Len(q) THEN q[i] ELSE b[i - Len(q)]
  <2>1. /\ q \o b \in Seq(Nat) /\ Len(q \o b) = Len(q) + Len(b)
        /\ \A i \in 1 .. Len(q) + Len(b) : (q \o b)[i] = IF i <= Len(q) THEN q[i] ELSE b[i - Len(q)]
    BY ONLY q \in Seq(Nat), <1>1, ConcatProperties
  <2> QED
    BY <1>1, <2>1
<1>4. Len(q) + 1 \in 1 .. Len(q) + 6 /\ Len(q) + 1 - Len(q) = 1 /\ ~(Len(q) + 1 <= Len(q))
  BY <1>2
<1>5. (q \o b)[Len(q) + 1] = next
  BY <1>1, <1>3, <1>4
<1>6. \A i \in 1 .. Len(q) : i \in 1 .. Len(q) + 6 /\ i <= Len(q)
  BY <1>2
<1> QED
  BY <1>3, <1>5, <1>6 DEF b

LEMMA FixInv ==
    ASSUME TypeInv, BufferInv, NEW t \in Times, NEW next \in {LogHeader, TimeHeader}, Fix(t, next)
    PROVE  TypeInv' /\ BufferInv'
<1> DEFINE memory == FixTime(packed \o Behind(next), Len(packed), t)
<1>1. /\ logs' = logs /\ tags' = tags /\ open' = open /\ body' = body /\ topic' = topic
      /\ source' = source /\ size' = size /\ given' = given /\ givenTags' = givenTags
      /\ packed' = SubSeq(memory, 1, Len(packed)) /\ fixed' = t /\ packed # <<>>
      /\ overrun' \in BOOLEAN
  BY DEF Fix, Building
<1>2. t \in Nat
  BY FieldTime
<1>3. packed' \in Seq(Nat) /\ Len(packed') = Len(packed)
  <2>1. Len(packed) \in Nat /\ packed \in Seq(Nat)
    BY Parts DEF TypeInv
  <2>2. packed \o Behind(next) \in Seq(Nat) /\ Len(packed \o Behind(next)) = Len(packed) + 6
    BY <2>1, MemoryIs
  <2>3. memory \in Seq(Nat) /\ Len(memory) = Len(packed) + 6
    BY <1>2, <2>1, <2>2, FixTimeType
  <2> HIDE DEF memory
  <2> QED
    BY <1>1, <2>1, <2>3, SubSeqProperties
<1>4. ~open
  BY <1>1 DEF TypeInv
<1>6. Extent' = Extent /\ (Fits' => Fits)
  BY <1>1 DEF Extent, Fits
<1>5. TypeInv'
  BY <1>1, <1>2, <1>3, <1>4, <1>6 DEF TypeInv, Given
<1> QED
  BY <1>1, <1>3, <1>4, <1>5, <1>6 DEF BufferInv

LEMMA StepInv == TypeInv /\ BufferInv /\ [Next]_vars => TypeInv' /\ BufferInv'
<1> SUFFICES ASSUME TypeInv, BufferInv, [Next]_vars PROVE TypeInv' /\ BufferInv'
  OBVIOUS
<1>1. CASE \E t \in Times, pairs \in Pairs : AddLogFull(t, pairs)
  BY <1>1, FullInv
<1>2. CASE \E k \in Lengths, v \in Lengths : AddTag(k, v) \/ AddLogKeyValue(k, v)
  BY <1>2, TagInv, KeyValueInv
<1>3. CASE \E n \in Lengths : AddTopic(n) \/ AddSource(n)
  BY <1>3, TopicInv
<1>4. CASE \E t \in Times : AddLogTime(t)
  BY <1>4, TimeInv
<1>9. CASE \E t \in Times, next \in {LogHeader, TimeHeader} : Fix(t, next)
  BY <1>9, FixInv
<1>5. CASE AddLogBegin
  BY <1>5, BeginInv
<1>6. CASE AddLogEnd
  BY <1>6, EndInv
<1>7. CASE Serialize
  BY <1>7, SerializeInv
<1>8. CASE UNCHANGED vars
  <2>1. /\ logs' = logs /\ tags' = tags /\ open' = open /\ body' = body /\ topic' = topic
        /\ source' = source /\ size' = size /\ given' = given /\ givenTags' = givenTags
        /\ packed' = packed /\ fixed' = fixed /\ overrun' = overrun
    BY <1>8 DEF vars, caller
  <2> QED
    BY <2>1 DEF TypeInv, BufferInv, Given, Cursor, Fits, Extent
<1> QED
  BY <1>1, <1>2, <1>3, <1>4, <1>5, <1>6, <1>7, <1>8, <1>9 DEF Next

LEMMA Invariance == Spec => [](TypeInv /\ BufferInv)
<1>1. Init => TypeInv /\ BufferInv
  BY TypeInit, InitInv
<1> QED
  BY <1>1, StepInv, PTL DEF Spec

\* loggroup_size, which totalBufferSize counts, is exactly what the group takes.
THEOREM SizeExact == Spec => []SizeAnnounced
<1>1. BufferInv => SizeAnnounced
  BY DEF BufferInv, SizeAnnounced
<1> QED
  BY <1>1, Invariance, PTL

-----------------------------------------------------------------------------
(***************************************************************************)
(* The bytes that are written are the wire format's                        *)
(***************************************************************************)
LEMMA ConsIs ==
    ASSUME NEW S, NEW x \in S, NEW q \in Seq(S)
    PROVE  /\ <<x>> \o q \in Seq(S) /\ Len(<<x>> \o q) = Len(q) + 1 /\ Len(q) \in Nat
           /\ (<<x>> \o q)[1] = x
           /\ \A i \in 1 .. Len(q) : (<<x>> \o q)[i + 1] = q[i]
<1> DEFINE p == <<x>>
           n == Len(q)
<1>1. p \in Seq(S) /\ Len(p) = 1 /\ p[1] = x
  OBVIOUS
<1>2. n \in Nat
  BY LenProperties
<1> HIDE DEF p
<1>3. /\ p \o q \in Seq(S) /\ Len(p \o q) = 1 + n
      /\ \A i \in 1 .. 1 + n : (p \o q)[i] = IF i <= 1 THEN p[i] ELSE q[i - 1]
  <2>1. /\ p \o q \in Seq(S) /\ Len(p \o q) = Len(p) + Len(q)
        /\ \A i \in 1 .. Len(p) + Len(q) : (p \o q)[i] = IF i <= Len(p) THEN p[i] ELSE q[i - Len(p)]
    BY <1>1, ConcatProperties
  <2> QED
    BY <1>1, <2>1
<1> HIDE DEF n
<1>4. (p \o q)[1] = x
  BY <1>1, <1>2, <1>3
<1>5. ASSUME NEW i \in 1 .. n PROVE (p \o q)[i + 1] = q[i]
  <2>1. i + 1 \in 1 .. 1 + n /\ ~(i + 1 <= 1) /\ i + 1 - 1 = i
    BY <1>2
  <2> QED
    BY <1>3, <2>1
<1> QED
  BY <1>2, <1>3, <1>4, <1>5 DEF p, n

LEMMA FlattenElement ==
    ASSUME NEW S, NEW q \in Seq(Seq(S)), NEW i \in 1 .. Len(q)
    PROVE  Len(q[i]) \in Nat /\ Len(FlattenSeq(q)) \in Nat /\ Len(q[i]) <= Len(FlattenSeq(q))
<1> DEFINE T == {s \in Seq(Seq(S)) : \A j \in 1 .. Len(s) : Len(s[j]) <= Len(FlattenSeq(s))}
<1>1. <<>> \in T
  BY EmptySeq
<1>2. ASSUME NEW s \in Seq(Seq(S)), NEW x \in Seq(S), s \in T PROVE Append(s, x) \in T
  <2> DEFINE r == Append(s, x)
  <2>1. /\ r \in Seq(Seq(S)) /\ Len(r) = Len(s) + 1 /\ r[Len(s) + 1] = x
        /\ \A j \in 1 .. Len(s) : r[j] = s[j]
    BY AppendProperties
  <2>2. FlattenSeq(r) = FlattenSeq(s) \o x /\ FlattenSeq(s) \in Seq(S)
    BY FlattenAppend, FlattenType
  <2>3. Len(FlattenSeq(r)) = Len(FlattenSeq(s)) + Len(x) /\ Len(FlattenSeq(s)) \in Nat /\ Len(x) \in Nat
    BY <2>2, ConcatLength
  <2>4. Len(s) \in Nat
    BY LenProperties
  <2> HIDE DEF r
  <2>5. ASSUME NEW j \in 1 .. Len(r) PROVE Len(r[j]) <= Len(FlattenSeq(r))
    <3>1. CASE j = Len(s) + 1
      BY <2>1, <2>3, <3>1
    <3>2. CASE j \in 1 .. Len(s)
      <4>1. Len(s[j]) <= Len(FlattenSeq(s)) /\ r[j] = s[j]
        BY <1>2, <2>1, <3>2
      <4>2. Len(s[j]) \in Nat
        BY <3>2, ElementOfSeq, LenProperties
      <4> QED
        BY <2>3, <4>1, <4>2
    <3> QED
      BY <2>1, <2>4, <3>1, <3>2
  <2> QED
    BY <2>1, <2>5 DEF r
<1>3. Seq(Seq(S)) \subseteq T
  <2> HIDE DEF T
  <2> QED BY <1>1, <1>2, InductAppend
<1>4. q[i] \in Seq(S) /\ FlattenSeq(q) \in Seq(S)
  BY ElementOfSeq, FlattenType
<1>5. Len(q[i]) \in Nat /\ Len(FlattenSeq(q)) \in Nat
  BY <1>4, LenProperties
<1> QED
  BY <1>3, <1>5

LEMMA MessageIs ==
    ASSUME NEW h \in Nat, NEW c \in Seq(Nat), Len(c) < Power(5)
    PROVE  /\ Message(h, c) = <<h>> \o Pack(Len(c)) \o c
           /\ Message(h, c) \in Seq(Nat) /\ Len(Message(h, c)) = 1 + VarSize(Len(c)) + Len(c)
<1>1. Len(c) \in Nat
  BY LenProperties
<1>2. Message(h, c) = <<h>> \o Pack(Len(c)) \o c
  BY <1>1, PackIsVarint DEF Message
<1>3. <<h>> \o Pack(Len(c)) \in Seq(Nat) /\ Len(<<h>> \o Pack(Len(c))) = 1 + VarSize(Len(c))
  BY <1>1, FieldLength
<1> DEFINE pre == <<h>> \o Pack(Len(c))
<1> HIDE DEF pre
<1>4. pre \o c \in Seq(Nat) /\ Len(pre \o c) = Len(pre) + Len(c)
  BY <1>3, ConcatLength DEF pre
<1> QED
  BY <1>2, <1>3, <1>4 DEF pre

LEMMA ContentMessage ==
    ASSUME NEW h \in Nat, NEW n \in Nat, n < Power(5)
    PROVE  Message(h, Content(n)) = <<h>> \o Pack(n) \o Content(n)
BY ContentLength, MessageIs

LEMMA PairMessageIs ==
    ASSUME NEW h \in Nat, NEW k \in Nat, NEW v \in Nat, PairSize(k, v) < Power(5)
    PROVE  PairMessage(h, k, v) = PairBytes(h, k, v)
<1> DEFINE c == (<<LogHeader>> \o Pack(k) \o Content(k)) \o (<<PairHeader>> \o Pack(v) \o Content(v))
<1>1. /\ PairBytes(h, k, v) = <<h>> \o Pack(PairSize(k, v)) \o c
      /\ c \in Seq(Nat) /\ Len(c) = PairSize(k, v)
  BY PairIs
<1>2. k < Power(5) /\ v < Power(5)
  <2>1. VarSize(k) \in Nat /\ VarSize(v) \in Nat /\ Power(5) \in Nat
    BY VarSizeCases, Powers
  <2> QED
    BY <2>1 DEF PairSize
<1>3. /\ Message(LogHeader, Content(k)) = <<LogHeader>> \o Pack(k) \o Content(k)
      /\ Message(PairHeader, Content(v)) = <<PairHeader>> \o Pack(v) \o Content(v)
  BY <1>2, ContentMessage, Headers
<1>4. PairMessage(h, k, v) = Message(h, c)
  BY <1>3 DEF PairMessage
<1> HIDE DEF c
<1>5. Message(h, c) = <<h>> \o Pack(PairSize(k, v)) \o c
  BY <1>1, MessageIs
<1> QED
  BY <1>1, <1>4, <1>5

LEMMA TimeMessageIs ==
    ASSUME NEW t \in 0 .. Power(5) - 1
    PROVE  FieldMessage(<<t>>) = TimeBytes(t)
<1>1. t \in Nat /\ t < Power(5)
  BY Powers
<1>2. Len(<<t>>) = 1 /\ <<t>>[1] = t
  OBVIOUS
<1> QED
  BY <1>1, <1>2, PackIsVarint DEF FieldMessage, TimeBytes

LEMMA FieldPairIs ==
    ASSUME NEW f \in Nat \X Nat
    PROVE  FieldMessage(f) = PairMessage(PairHeader, f[1], f[2])
<1>1. PICK k \in Nat, v \in Nat : f = <<k, v>>
  OBVIOUS
<1>2. Len(<<k, v>>) = 2
  OBVIOUS
<1>3. Len(f) # 1
  BY <1>1, <1>2
<1> QED
  BY <1>3 DEF FieldMessage

FieldMessages(log) == [i \in DOMAIN log |-> FieldMessage(log[i])]
FieldBytes(log) == FlattenSeq(FieldMessages(log))

\* A log that the wire format can hold: its fields, and their bytes together.
Small(log) == \A i \in DOMAIN log : Len(log[i]) # 1 => PairSize(log[i][1], log[i][2]) < Power(5)
Encodable(log) ==
    /\ Small(log) /\ FieldMessages(log) \in Seq(Seq(Nat)) /\ Len(FieldBytes(log)) < Power(5)

LEMMA LogMessageIs ==
    ASSUME NEW t \in 0 .. Power(5) - 1, t >= Power(4), NEW pairs \in Seq(Nat \X Nat), LogSize(pairs) < Power(5)
    PROVE  LogMessage(<<<<t>>>> \o pairs) = LogBytes(t, pairs) /\ Encodable(<<<<t>>>> \o pairs)
<1> DEFINE log == <<<<t>>>> \o pairs
           q == PairsBytes(pairs)
           content == TimeBytes(t) \o FlattenSeq(q)
           n == Len(pairs)
<1>1. t \in Nat /\ Power(5) \in Nat
  BY Powers
<1>2. /\ LogBytes(t, pairs) = <<LogHeader>> \o Pack(LogSize(pairs)) \o content
      /\ content \in Seq(Nat) /\ Len(content) = LogSize(pairs)
  BY <1>1, LogLength
<1>3. n \in Nat /\ q \in Seq(Seq(Nat)) /\ Len(q) = n
  BY PairsType, LenProperties
<1>4. /\ log \in Seq(FieldTypes) /\ Len(log) = n + 1 /\ log[1] = <<t>>
      /\ \A i \in 1 .. n : log[i + 1] = pairs[i]
  <2>1. <<t>> \in FieldTypes /\ pairs \in Seq(FieldTypes)
    <3>1. <<t>> \in FieldTypes /\ Nat \X Nat \subseteq FieldTypes
      BY DEF FieldTypes
    <3> QED
      BY <3>1, SeqMonotonic
  <2> DEFINE f == <<t>>
  <2>2. f \in FieldTypes /\ log = <<f>> \o pairs
    BY <2>1
  <2> HIDE DEF f, log
  <2>3. /\ log \in Seq(FieldTypes) /\ Len(log) = n + 1 /\ log[1] = f
        /\ \A i \in 1 .. n : log[i + 1] = pairs[i]
    BY ONLY <2>1, <2>2, ConsIs
  <2> QED
    BY <2>3 DEF f
<1>5. ASSUME NEW i \in 1 .. n
      PROVE  FieldMessage(pairs[i]) = q[i] /\ PairSize(pairs[i][1], pairs[i][2]) < Power(5)
  <2>1. /\ pairs[i] \in Nat \X Nat /\ pairs[i][1] \in Nat /\ pairs[i][2] \in Nat
        /\ q[i] = PairBytes(PairHeader, pairs[i][1], pairs[i][2])
        /\ Len(q[i]) = Announce(PairSize(pairs[i][1], pairs[i][2]))
    BY PairsType, ElementOfSeq
  <2> DEFINE m == PairSize(pairs[i][1], pairs[i][2])
  <2>2. m \in Nat /\ Len(q[i]) = 1 + VarSize(m) + m /\ VarSize(m) \in 1 .. 5
    BY <2>1, PairSizeType, AnnounceType
  <2>3. Len(q[i]) <= Len(FlattenSeq(q)) /\ Len(FlattenSeq(q)) \in Nat
    <3> HIDE DEF q
    <3> QED BY <1>3, FlattenElement
  <2>4. LogSize(pairs) = 6 + Len(FlattenSeq(q))
    BY LogSizeIs
  <2>5. m < Power(5)
    <3> DEFINE x == Len(q[i])
               y == Len(FlattenSeq(q))
    <3>1. x <= y /\ y \in Nat /\ x = 1 + VarSize(m) + m /\ LogSize(pairs) = 6 + y
      BY <2>2, <2>3, <2>4
    <3>2. m \in Nat /\ VarSize(m) \in 1 .. 5
      BY <2>2
    <3> DEFINE z == VarSize(m)
    <3>3. x = 1 + z + m /\ z \in 1 .. 5
      BY <3>1, <3>2
    <3>4. 6 + y < Power(5)
      BY <3>1
    <3> HIDE DEF x, y, m, z
    <3> QED BY SMTT(60), <1>1, <3>1, <3>2, <3>3, <3>4
  <2>6. PairMessage(PairHeader, pairs[i][1], pairs[i][2]) = q[i]
    BY <2>1, <2>5, PairMessageIs, Headers
  <2>7. FieldMessage(pairs[i]) = PairMessage(PairHeader, pairs[i][1], pairs[i][2])
    BY <2>1, FieldPairIs
  <2> QED
    BY <2>5, <2>6, <2>7
<1>6. FieldMessages(log) = <<TimeBytes(t)>> \o q /\ FieldMessages(log) \in Seq(Seq(Nat))
  <2> DEFINE w == <<TimeBytes(t)>> \o q
  <2>1. TimeBytes(t) \in Seq(Nat) /\ TimeBytes(t) = FieldMessage(<<t>>)
    BY <1>1, TimeLength, TimeMessageIs
  <2> HIDE DEF q, log, n
  <2>2. /\ w \in Seq(Seq(Nat)) /\ Len(w) = n + 1 /\ w[1] = TimeBytes(t)
        /\ \A i \in 1 .. n : w[i + 1] = q[i]
    BY <1>3, <2>1, ConsIs
  <2>3. DOMAIN log = 1 .. n + 1
    BY <1>3, <1>4, LenProperties
  <2> HIDE DEF w
  <2>4. ASSUME NEW i \in 1 .. n + 1 PROVE FieldMessage(log[i]) = w[i]
    <3>1. CASE i = 1
      BY <1>4, <2>1, <2>2, <3>1
    <3>2. CASE i # 1
      <4> DEFINE j == i - 1
      <4>1. j \in 1 .. n /\ i = j + 1
        BY <1>3, <3>2
      <4> HIDE DEF j
      <4>2. log[i] = pairs[j] /\ w[i] = q[j]
        BY <1>4, <2>2, <4>1
      <4> QED
        BY <1>5, <4>1, <4>2
    <3> QED
      BY <3>1, <3>2
  <2>5. w = [i \in 1 .. n + 1 |-> w[i]]
    BY <1>3, <2>2
  <2>6. FieldMessages(log) = w
    BY <2>3, <2>4, <2>5 DEF FieldMessages
  <2> QED
    BY <2>2, <2>6 DEF w
<1>7. FlattenSeq(FieldMessages(log)) = content
  <2>1. TimeBytes(t) \in Seq(Nat)
    BY <1>1, TimeLength
  <2>2. <<TimeBytes(t)>> \in Seq(Seq(Nat))
    BY <2>1
  <2> HIDE DEF q
  <2>3. FlattenSeq(<<TimeBytes(t)>> \o q) = FlattenSeq(<<TimeBytes(t)>>) \o FlattenSeq(q)
    BY <1>3, <2>2, FlattenConcat
  <2>4. FlattenSeq(<<TimeBytes(t)>>) = TimeBytes(t)
    BY <2>1, FlattenOne
  <2> QED
    BY <1>6, <2>3, <2>4
<1>8. LogMessage(log) = Message(LogHeader, content)
  BY <1>7 DEF LogMessage, FieldMessages
<1> HIDE DEF content
<1>9. Message(LogHeader, content) = <<LogHeader>> \o Pack(LogSize(pairs)) \o content
  BY <1>2, MessageIs, Headers
<1>10. Small(log)
  <2> SUFFICES ASSUME NEW i \in DOMAIN log, Len(log[i]) # 1
               PROVE  PairSize(log[i][1], log[i][2]) < Power(5)
    BY DEF Small
  <2>1. i \in 1 .. n + 1
    <3>1. DOMAIN log = 1 .. Len(log)
      BY <1>4, LenProperties
    <3> QED
      BY <1>4, <3>1
  <2>2. i # 1
    <3>1. Len(<<t>>) = 1
      OBVIOUS
    <3> HIDE DEF log
    <3> QED
      BY <1>4, <3>1
  <2> DEFINE j == i - 1
  <2> HIDE DEF log, n
  <2>3. j \in 1 .. n /\ i = j + 1
    BY <1>3, <2>1, <2>2
  <2> HIDE DEF j
  <2> QED
    BY <1>4, <1>5, <2>3
<1>11. Encodable(log)
  <2> HIDE DEF log
  <2> QED BY <1>2, <1>6, <1>7, <1>10 DEF Encodable, FieldBytes
<1> QED
  BY <1>2, <1>8, <1>9, <1>11

-----------------------------------------------------------------------------
(***************************************************************************)
(* The invariant behind Encoded: as long as the group is smaller than what *)
(* a varint of five bytes can announce, the buffers hold the messages of   *)
(* the logs that are closed and of the tags, and an open log its fields.   *)
(***************************************************************************)
Closed == Len(given) - (IF open THEN 1 ELSE 0)
LogMessages == [i \in 1 .. Closed |-> LogMessage(given[i])]
TagMessages == [i \in DOMAIN givenTags |-> PairMessage(TagHeader, givenTags[i][1], givenTags[i][2])]
OpenMessages == FieldMessages(given[Len(given)])

BodyInv == open /\ Len(body) < Power(5) =>
    OpenMessages \in Seq(Seq(Nat)) /\ body = FlattenSeq(OpenMessages)

LogsInv == LogMessages \in Seq(Seq(Nat)) /\ logs.bytes = FlattenSeq(LogMessages)
TagsInv == TagMessages \in Seq(Seq(Nat)) /\ tags.bytes = FlattenSeq(TagMessages)

EncodeInv ==
    /\ BodyInv
    /\ size < Power(5) => LogsInv /\ TagsInv /\ Encoded

\* A sequence of messages that gets one more.
LEMMA MapAppend ==
    ASSUME NEW n \in Nat, NEW q \in Seq(Seq(Nat)), Len(q) = n, NEW x \in Seq(Nat),
           NEW r \in [1 .. n + 1 -> Seq(Nat)], r[n + 1] = x, \A i \in 1 .. n : r[i] = q[i]
    PROVE  r = Append(q, x) /\ r \in Seq(Seq(Nat)) /\ FlattenSeq(r) = FlattenSeq(q) \o x
<1> DEFINE a == Append(q, x)
<1>1. /\ a \in Seq(Seq(Nat)) /\ Len(a) = n + 1 /\ a[n + 1] = x
      /\ \A i \in 1 .. n : a[i] = q[i]
  BY AppendProperties
<1>2. FlattenSeq(a) = FlattenSeq(q) \o x
  BY FlattenAppend
<1> HIDE DEF a
<1>3. a = [i \in 1 .. n + 1 |-> a[i]]
  BY <1>1
<1>4. ASSUME NEW i \in 1 .. n + 1 PROVE r[i] = a[i]
  <2>1. i = n + 1 \/ i \in 1 .. n
    OBVIOUS
  <2> QED
    BY <1>1, <2>1
<1>5. r = a
  BY <1>3, <1>4
<1> QED
  BY <1>1, <1>2, <1>5 DEF a

\* A log is closed: its message follows the others.
LEMMA LogsGrow ==
    ASSUME LogsInv, Closed \in Nat, Closed' = Closed + 1, \A i \in 1 .. Closed : given'[i] = given[i],
           NEW x \in Seq(Nat), LogMessage(given'[Closed + 1]) = x, logs'.bytes = logs.bytes \o x
    PROVE  LogsInv'
<1> DEFINE n == Closed
           q == LogMessages
           r == LogMessages'
<1>1. q = [i \in 1 .. n |-> LogMessage(given[i])] /\ q \in Seq(Seq(Nat)) /\ n \in Nat
  BY DEF LogMessages, LogsInv
<1>2. Len(q) = n
  BY <1>1
<1>3. r = [i \in 1 .. n + 1 |-> LogMessage(given'[i])]
  BY DEF LogMessages
<1>4. r[n + 1] = x /\ \A i \in 1 .. n : r[i] = q[i]
  BY <1>1, <1>3
<1>5. \A i \in 1 .. n : q[i] \in Seq(Nat)
  BY <1>1, <1>2, ElementOfSeq
<1>6. r \in [1 .. n + 1 -> Seq(Nat)]
  <2>1. \A i \in 1 .. n + 1 : r[i] \in Seq(Nat)
    <3> SUFFICES ASSUME NEW i \in 1 .. n + 1 PROVE r[i] \in Seq(Nat)
      OBVIOUS
    <3>1. i = n + 1 \/ i \in 1 .. n
      BY <1>1
    <3> HIDE DEF r, q, n
    <3> QED
      BY <1>4, <1>5, <3>1
  <2>2. r = [i \in 1 .. n + 1 |-> r[i]]
    BY <1>3
  <2> HIDE DEF r, n
  <2> QED
    BY <2>1, <2>2
<1> HIDE DEF n, q, r
<1>7. r \in Seq(Seq(Nat)) /\ FlattenSeq(r) = FlattenSeq(q) \o x
  BY <1>1, <1>2, <1>4, <1>6, MapAppend
<1> QED
  BY <1>7 DEF LogsInv, q, r

LEMMA FullEncodes ==
    ASSUME TypeInv, BufferInv, EncodeInv, NEW t \in Times, NEW pairs \in Pairs, AddLogFull(t, pairs)
    PROVE  EncodeInv'
<1> DEFINE lt == LeastTime(t)
           total == Announce(LogSize(pairs))
           log == <<<<lt>>>> \o pairs
           n == Len(given)
           x == LogBytes(lt, pairs)
<1>1. /\ logs'.bytes = logs.bytes \o x /\ size' = size + total /\ total \in Nat
  BY FullStep
<1>2. /\ tags' = tags /\ open' = open /\ body' = body /\ givenTags' = givenTags
      /\ packed' = packed /\ ~open /\ packed = <<>> /\ given' = Append(given, log)
  BY DEF AddLogFull, Room, Building
<1>3. lt \in 0 .. Power(5) - 1 /\ lt >= Power(4) /\ pairs \in Seq(Nat \X Nat) /\ Power(5) \in Nat /\ lt \in Nat
  BY Inputs, LeastTimeType
<1>4. x \in Seq(Nat) /\ LogSize(pairs) \in Nat
  BY <1>3, LogLength
<1>5. BodyInv'
  BY <1>2 DEF BodyInv
<1>6. ASSUME size' < Power(5) PROVE LogsInv' /\ TagsInv' /\ Encoded'
  <2>1. size < Power(5) /\ LogSize(pairs) < Power(5)
    <3> DEFINE m == LogSize(pairs)
               z == VarSize(m)
    <3>1. m \in Nat /\ z \in 1 .. 5 /\ total = 1 + z + m /\ size \in Nat
      BY <1>4, AnnounceType DEF TypeInv
    <3> HIDE DEF m, z, total
    <3>2. m < Power(5) /\ size < Power(5)
      BY <1>1, <1>3, <1>6, <3>1
    <3> QED
      BY <3>2 DEF m
  <2>2. LogsInv /\ TagsInv
    BY <2>1 DEF EncodeInv
  <2>3. LogMessage(log) = x
    BY <1>3, <2>1, LogMessageIs
  <2>4. n \in Nat /\ Closed = n
    BY <1>2, LenProperties DEF Closed, TypeInv
  <2>5. log \in Seq(FieldTypes)
    BY <1>3, FullLogType
  <2> HIDE DEF log, x, n
  <2>6. Len(given') = n + 1 /\ given'[n + 1] = log /\ \A i \in 1 .. n : given'[i] = given[i]
    BY <1>2, <2>5, AppendProperties DEF TypeInv, n
  <2>7. Closed' = n + 1
    BY <1>2, <2>4, <2>6 DEF Closed
  <2>8. LogsInv'
    BY <1>1, <1>4, <2>2, <2>3, <2>4, <2>6, <2>7, LogsGrow
  <2>9. TagsInv'
    BY <1>2, <2>2 DEF TagsInv, TagMessages
  <2> QED
    BY <1>2, <2>8, <2>9 DEF Encoded
<1> QED
  BY <1>5, <1>6 DEF EncodeInv

LEMMA TagEncodes ==
    ASSUME TypeInv, BufferInv, EncodeInv, NEW k \in Lengths, NEW v \in Lengths, AddTag(k, v)
    PROVE  EncodeInv'
<1> DEFINE m == PairSize(k, v)
           total == Announce(m)
           x == PairBytes(TagHeader, k, v)
           n == Len(givenTags)
<1>1. tags'.bytes = tags.bytes \o x /\ size' = size + total
  BY TagStep
<1>2. /\ logs' = logs /\ open' = open /\ body' = body /\ given' = given
      /\ packed' = packed /\ packed = <<>> /\ givenTags' = Append(givenTags, <<k, v>>)
  BY DEF AddTag, Room, Building
<1>3. k \in Nat /\ v \in Nat /\ TagHeader \in Nat /\ Power(5) \in Nat
  BY Inputs, Headers
<1>4. m \in Nat /\ x \in Seq(Nat)
  BY <1>3, PairSizeType, PairLength
<1>5. BodyInv'
  BY <1>2 DEF EncodeInv, BodyInv, OpenMessages
<1>6. ASSUME size' < Power(5) PROVE LogsInv' /\ TagsInv' /\ Encoded'
  <2>1. size < Power(5) /\ m < Power(5)
    <3> DEFINE z == VarSize(m)
    <3>1. z \in 1 .. 5 /\ total = 1 + z + m /\ size \in Nat
      BY <1>4, AnnounceType DEF TypeInv
    <3> HIDE DEF m, z, total
    <3> QED
      BY <1>1, <1>3, <1>4, <1>6, <3>1
  <2>2. LogsInv /\ TagsInv
    BY <2>1 DEF EncodeInv
  <2>3. PairMessage(TagHeader, k, v) = x
    BY <1>3, <2>1, PairMessageIs
  <2>4. n \in Nat /\ DOMAIN givenTags = 1 .. n
    BY LenProperties DEF TypeInv
  <2>5. <<k, v>> \in Nat \X Nat
    BY <1>3
  <2> HIDE DEF x, n
  <2>6. /\ DOMAIN givenTags' = 1 .. n + 1 /\ givenTags'[n + 1] = <<k, v>>
        /\ \A i \in 1 .. n : givenTags'[i] = givenTags[i]
    <3>1. /\ givenTags' \in Seq(Nat \X Nat) /\ Len(givenTags') = n + 1 /\ givenTags'[n + 1] = <<k, v>>
          /\ \A i \in 1 .. n : givenTags'[i] = givenTags[i]
      BY <1>2, <2>5, AppendProperties DEF TypeInv, n
    <3> QED
      BY <3>1, LenProperties
  <2> DEFINE q == TagMessages
             r == TagMessages'
  <2>7. q = [i \in 1 .. n |-> PairMessage(TagHeader, givenTags[i][1], givenTags[i][2])] /\ q \in Seq(Seq(Nat))
    BY <2>2, <2>4 DEF TagMessages, TagsInv
  <2>8. Len(q) = n
    BY <2>4, <2>7
  <2>9. r = [i \in 1 .. n + 1 |-> PairMessage(TagHeader, givenTags'[i][1], givenTags'[i][2])]
    BY <2>6 DEF TagMessages
  <2>10. r[n + 1] = x /\ \A i \in 1 .. n : r[i] = q[i]
    <3>1. r[n + 1] = x
      BY <2>3, <2>4, <2>6, <2>9
    <3>2. \A i \in 1 .. n : r[i] = q[i]
      BY <2>4, <2>6, <2>7, <2>9
    <3> QED
      BY <3>1, <3>2
  <2>11. \A i \in 1 .. n : q[i] \in Seq(Nat)
    BY <2>7, <2>8, ElementOfSeq
  <2>12. r \in [1 .. n + 1 -> Seq(Nat)]
    <3>1. r = [i \in 1 .. n + 1 |-> r[i]]
      BY <2>9
    <3> HIDE DEF r, q
    <3>2. ASSUME NEW i \in 1 .. n + 1 PROVE r[i] \in Seq(Nat)
      <4>1. i = n + 1 \/ i \in 1 .. n
        BY <2>4
      <4> QED
        BY <1>4, <2>10, <2>11, <4>1
    <3> QED
      BY <3>1, <3>2
  <2> HIDE DEF q, r
  <2>13. r \in Seq(Seq(Nat)) /\ FlattenSeq(r) = FlattenSeq(q) \o x
    <3>1. n \in Nat /\ q \in Seq(Seq(Nat)) /\ Len(q) = n /\ x \in Seq(Nat)
      BY <1>4, <2>4, <2>7, <2>8
    <3>2. r[n + 1] = x /\ \A i \in 1 .. n : r[i] = q[i]
      BY <2>10
    <3> QED
      BY <2>12, <3>1, <3>2, MapAppend
  <2>14. TagsInv'
    BY <1>1, <2>2, <2>13 DEF TagsInv, q, r
  <2>15. LogsInv'
    BY <1>2, <2>2 DEF LogsInv, LogMessages, Closed
  <2> QED
    BY <1>2, <2>14, <2>15 DEF Encoded
<1> QED
  BY <1>5, <1>6 DEF EncodeInv

LEMMA TopicEncodes ==
    ASSUME TypeInv, BufferInv, EncodeInv, NEW n \in Lengths, AddTopic(n) \/ AddSource(n)
    PROVE  EncodeInv'
<1>1. /\ logs' = logs /\ tags' = tags /\ open' = open /\ body' = body /\ packed' = packed
      /\ given' = given /\ givenTags' = givenTags /\ packed = <<>>
      /\ size' = size + n + VarSize(n) + 1
  BY DEF AddTopic, AddSource, caller, Room, Building
<1>2. n \in Nat /\ VarSize(n) \in 1 .. 5 /\ Power(5) \in Nat /\ size \in Nat
  BY Inputs, VarSizeCases DEF TypeInv
<1>3. size' < Power(5) => size < Power(5)
  BY <1>1, <1>2
<1>4. BodyInv'
  BY <1>1 DEF EncodeInv, BodyInv, OpenMessages
<1>5. LogsInv /\ TagsInv => LogsInv' /\ TagsInv'
  BY <1>1 DEF LogsInv, TagsInv, LogMessages, TagMessages, Closed
<1> QED
  BY <1>1, <1>3, <1>4, <1>5 DEF EncodeInv, Encoded

LEMMA BeginEncodes ==
    ASSUME TypeInv, BufferInv, EncodeInv, AddLogBegin
    PROVE  EncodeInv'
<1> DEFINE n == Len(given)
<1>1. /\ tags' = tags /\ size' = size /\ givenTags' = givenTags /\ packed' = packed /\ packed = <<>>
      /\ open' = TRUE /\ ~open /\ body' = <<>> /\ given' = Append(given, <<>>)
  BY DEF AddLogBegin, Room, Building
<1>2. logs'.bytes = logs.bytes
  BY BeginInv
<1>3. /\ Len(given') = n + 1 /\ given'[n + 1] = <<>> /\ n \in Nat
      /\ \A i \in 1 .. n : given'[i] = given[i]
  <2>1. <<>> \in Seq(FieldTypes)
    OBVIOUS
  <2> QED
    BY <1>1, <2>1, AppendProperties, LenProperties DEF TypeInv
<1>4. Closed = n /\ Closed' = n
  BY <1>1, <1>3 DEF Closed
<1>5. LogMessages' = LogMessages
  <2>1. LogMessages' = [i \in 1 .. n |-> LogMessage(given'[i])]
    BY <1>4 DEF LogMessages
  <2>2. LogMessages = [i \in 1 .. n |-> LogMessage(given[i])]
    BY <1>4 DEF LogMessages
  <2> QED
    BY <1>3, <2>1, <2>2
<1>6. OpenMessages' = <<>>
  <2>1. OpenMessages' = FieldMessages(<<>>)
    BY <1>3 DEF OpenMessages
  <2> QED
    BY <2>1 DEF FieldMessages
<1>7. BodyInv'
  <2>1. <<>> \in Seq(Seq(Nat))
    OBVIOUS
  <2> QED
    BY <1>1, <1>6, <2>1, FlattenEmpty DEF BodyInv
<1>8. LogsInv /\ TagsInv => LogsInv' /\ TagsInv'
  BY <1>1, <1>2, <1>5 DEF LogsInv, TagsInv, TagMessages
<1> QED
  BY <1>1, <1>7, <1>8 DEF EncodeInv, Encoded

LEMMA FieldEncodes ==
    ASSUME TypeInv, BufferInv, EncodeInv, open, NEW f \in FieldTypes, NEW b \in Seq(Nat), NEW n \in Nat,
           Len(b) <= n, logs' = EnsureCursor(n), body' = body \o b, GivenField(f),
           UNCHANGED <<tags, open, size, topic, source, packed, givenTags, fixed>>,
           Len(b) < Power(5) => FieldMessage(f) = b
    PROVE  EncodeInv'
<1> DEFINE l == Len(given)
           g == given[l]
           m == Len(g)
<1>1. /\ logs'.bytes = logs.bytes /\ body' \in Seq(Nat) /\ Len(body') = Len(body) + Len(b)
      /\ Len(given') = l /\ l \in Nat \ {0}
      /\ \A i \in 1 .. l : given'[i] = IF i = l THEN Append(given[i], f) ELSE given[i]
  BY FieldStep
<1>2. g \in Seq(FieldTypes) /\ given'[l] = Append(g, f) /\ packed = <<>>
  <2>1. given \in Seq(Seq(FieldTypes)) /\ packed = <<>>
    BY DEF TypeInv
  <2>2. l \in 1 .. l
    BY <1>1
  <2>3. g \in Seq(FieldTypes)
    BY <2>1, <2>2, ElementOfSeq
  <2> QED
    BY <1>1, <2>1, <2>2, <2>3
<1>3. LogMessages' = LogMessages /\ TagMessages' = TagMessages
  <2> HIDE DEF l
  <2>1. Closed = l - 1 /\ Closed' = l - 1
    BY <1>1 DEF Closed, l
  <2>2. LogMessages' = [i \in 1 .. l - 1 |-> LogMessage(given'[i])]
    BY <2>1 DEF LogMessages
  <2>3. LogMessages = [i \in 1 .. l - 1 |-> LogMessage(given[i])]
    BY <2>1 DEF LogMessages
  <2>4. \A i \in 1 .. l - 1 : given'[i] = given[i]
    BY <1>1
  <2>5. LogMessages' = LogMessages
    BY <2>2, <2>3, <2>4
  <2> QED
    BY <2>5 DEF TagMessages
<1>4. ASSUME Len(body') < Power(5)
      PROVE  OpenMessages' \in Seq(Seq(Nat)) /\ body' = FlattenSeq(OpenMessages')
  <2>1. Len(body) < Power(5) /\ Len(b) < Power(5)
    <3>1. Len(body) \in Nat /\ Len(b) \in Nat /\ Power(5) \in Nat
      BY LenProperties, Powers DEF TypeInv
    <3> QED
      BY <1>1, <1>4, <3>1
  <2>2. OpenMessages \in Seq(Seq(Nat)) /\ body = FlattenSeq(OpenMessages) /\ FieldMessage(f) = b
    BY <2>1 DEF EncodeInv, BodyInv
  <2>3. m \in Nat /\ DOMAIN g = 1 .. m
    BY <1>2, LenProperties
  <2> DEFINE q == OpenMessages
             r == OpenMessages'
  <2> HIDE DEF g, m, l
  <2>4. q = [i \in 1 .. m |-> FieldMessage(g[i])] /\ Len(q) = m /\ q \in Seq(Seq(Nat))
    <3>1. q = [i \in 1 .. m |-> FieldMessage(g[i])]
      BY <2>3 DEF OpenMessages, FieldMessages, g, l
    <3> QED
      BY <2>2, <2>3, <3>1
  <2> DEFINE h == Append(g, f)
  <2>5. /\ DOMAIN h = 1 .. m + 1 /\ h[m + 1] = f /\ \A i \in 1 .. m : h[i] = g[i]
    <3>1. h \in Seq(FieldTypes) /\ Len(h) = m + 1 /\ h[m + 1] = f /\ \A i \in 1 .. m : h[i] = g[i]
      BY <1>2, AppendProperties DEF m
    <3> QED
      BY <3>1, LenProperties
  <2> HIDE DEF h
  <2>6. r = [i \in 1 .. m + 1 |-> FieldMessage(h[i])]
    <3>1. r = FieldMessages(h)
      BY <1>1, <1>2 DEF OpenMessages, h
    <3> QED
      BY <2>5, <3>1 DEF FieldMessages
  <2>7. r[m + 1] = b /\ \A i \in 1 .. m : r[i] = q[i]
    <3>1. r[m + 1] = b
      BY <2>2, <2>3, <2>5, <2>6
    <3>2. \A i \in 1 .. m : r[i] = q[i]
      BY <2>3, <2>4, <2>5, <2>6
    <3> QED
      BY <3>1, <3>2
  <2>8. \A i \in 1 .. m : q[i] \in Seq(Nat)
    BY <2>4, ElementOfSeq
  <2>9. r \in [1 .. m + 1 -> Seq(Nat)]
    <3>1. r = [i \in 1 .. m + 1 |-> r[i]]
      BY <2>6
    <3> HIDE DEF r, q
    <3>2. ASSUME NEW i \in 1 .. m + 1 PROVE r[i] \in Seq(Nat)
      <4>1. i = m + 1 \/ i \in 1 .. m
        BY <2>3
      <4> QED
        BY <2>7, <2>8, <4>1
    <3> QED
      BY <3>1, <3>2
  <2> HIDE DEF q, r
  <2>10. r \in Seq(Seq(Nat)) /\ FlattenSeq(r) = FlattenSeq(q) \o b
    <3>1. m \in Nat /\ q \in Seq(Seq(Nat)) /\ Len(q) = m
      BY <2>3, <2>4
    <3>2. r[m + 1] = b /\ \A i \in 1 .. m : r[i] = q[i]
      BY <2>7
    <3> QED
      BY <2>9, <3>1, <3>2, MapAppend
  <2> QED
    BY <2>2, <2>10 DEF q, r
<1>5. BodyInv'
  BY <1>4 DEF BodyInv
<1>6. LogsInv /\ TagsInv => LogsInv' /\ TagsInv'
  BY <1>1, <1>3 DEF LogsInv, TagsInv
<1> QED
  BY <1>2, <1>5, <1>6 DEF EncodeInv, Encoded

LEMMA TimeEncodes ==
    ASSUME TypeInv, BufferInv, EncodeInv, NEW t \in Times, AddLogTime(t)
    PROVE  EncodeInv'
<1>1. /\ logs' = EnsureCursor(6) /\ body' = body \o TimeBytes(t) /\ GivenField(<<t>>) /\ open
      /\ UNCHANGED <<tags, open, size, topic, source, packed, givenTags, fixed>>
  BY DEF AddLogTime
<1>2. FieldMessage(<<t>>) = TimeBytes(t)
  BY FieldTime, TimeMessageIs
<1> QED
  BY <1>1, <1>2, FieldTime, FieldEncodes

LEMMA KeyValueEncodes ==
    ASSUME TypeInv, BufferInv, EncodeInv, NEW k \in Lengths, NEW v \in Lengths, AddLogKeyValue(k, v)
    PROVE  EncodeInv'
<1> DEFINE b == PairBytes(PairHeader, k, v)
<1>1. /\ logs' = EnsureCursor(Announce(PairSize(k, v))) /\ body' = body \o b
      /\ GivenField(<<k, v>>) /\ open
      /\ UNCHANGED <<tags, open, size, topic, source, packed, givenTags, fixed>>
  BY DEF AddLogKeyValue
<1>2. k \in Nat /\ v \in Nat /\ PairHeader \in Nat
  BY FieldPair, Headers
<1>3. ASSUME Len(b) < Power(5) PROVE FieldMessage(<<k, v>>) = b
  <2> DEFINE m == PairSize(k, v)
             z == VarSize(m)
  <2>1. m \in Nat
    BY <1>2, PairSizeType
  <2>2. z \in 1 .. 5 /\ Announce(m) = 1 + z + m
    BY <2>1, AnnounceType
  <2>3. Len(b) = Announce(m)
    BY <1>2, PairLength
  <2>4. Power(5) \in Nat
    BY Powers
  <2>5. m < Power(5)
    <3>1. Len(b) = 1 + z + m
      BY <2>2, <2>3
    <3> HIDE DEF m, z, b
    <3> QED BY <1>3, <2>1, <2>2, <2>4, <3>1
  <2>6. PairMessage(PairHeader, k, v) = b
    BY <1>2, <2>5, PairMessageIs
  <2>7. <<k, v>> \in Nat \X Nat /\ <<k, v>>[1] = k /\ <<k, v>>[2] = v
    BY <1>2
  <2> QED
    BY <2>6, <2>7, FieldPairIs
<1> DEFINE n == Announce(PairSize(k, v))
<1>4. b \in Seq(Nat) /\ n \in Nat /\ <<k, v>> \in FieldTypes /\ Len(b) = n
  BY FieldPair
<1>5. Len(b) <= n /\ logs' = EnsureCursor(n)
  BY <1>1, <1>4
<1> HIDE DEF b, n
<1> QED
  BY <1>1, <1>3, <1>4, <1>5, FieldEncodes

LEMMA EndEncodes ==
    ASSUME TypeInv, BufferInv, EncodeInv, AddLogEnd
    PROVE  EncodeInv'
<1> DEFINE m == Len(body)
           n == Len(given)
           x == <<LogHeader>> \o Pack(m) \o body
<1>1. /\ logs'.bytes = logs.bytes \o x /\ size' = size + Announce(m) /\ m \in Nat
  BY EndStep
<1>2. /\ tags' = tags /\ open' = FALSE /\ open /\ givenTags' = givenTags /\ given' = given
      /\ packed' = packed /\ packed = <<>>
  BY DEF AddLogEnd, Building, caller
<1>3. BodyInv'
  BY <1>2 DEF BodyInv
<1>4. ASSUME size' < Power(5) PROVE LogsInv' /\ TagsInv' /\ Encoded'
  <2>1. size < Power(5) /\ m < Power(5)
    <3> DEFINE z == VarSize(m)
               a == Announce(m)
    <3>1. z \in 1 .. 5 /\ a = 1 + z + m
      BY <1>1, AnnounceType
    <3>2. size \in Nat /\ Power(5) \in Nat
      BY Powers DEF TypeInv
    <3>3. m \in Nat /\ size' = size + a
      BY <1>1
    <3> HIDE DEF m, z, a
    <3> QED
      BY <1>4, <3>1, <3>2, <3>3
  <2>2. LogsInv /\ TagsInv
    BY <2>1 DEF EncodeInv
  <2>3. OpenMessages \in Seq(Seq(Nat)) /\ body = FlattenSeq(OpenMessages)
    BY <1>2, <2>1 DEF EncodeInv, BodyInv
  <2>4. n \in Nat \ {0}
    <3>1. given \in Seq(Seq(FieldTypes)) /\ given # <<>>
      BY <1>2 DEF TypeInv
    <3> QED
      BY <3>1, EmptySeq, LenProperties
  <2>5. body \in Seq(Nat)
    BY DEF TypeInv
  <2>6. LogMessage(given[n]) = Message(LogHeader, body)
    BY <2>3 DEF LogMessage, OpenMessages, FieldMessages
  <2>7. Message(LogHeader, body) = x /\ x \in Seq(Nat)
    BY <2>1, <2>5, MessageIs, Headers
  <2> HIDE DEF x, n
  <2>8. Closed = n - 1 /\ Closed' = n
    BY <1>2, <2>4 DEF Closed, n
  <2>9. /\ Closed \in Nat /\ Closed' = Closed + 1
        /\ LogMessage(given'[Closed + 1]) = x /\ \A i \in 1 .. Closed : given'[i] = given[i]
    <3>1. n - 1 + 1 = n /\ n - 1 \in Nat
      BY <2>4
    <3> QED
      BY <1>2, <2>6, <2>7, <2>8, <3>1
  <2>10. LogsInv'
    BY <1>1, <2>2, <2>7, <2>9, LogsGrow
  <2>11. TagsInv'
    BY <1>2, <2>2 DEF TagsInv, TagMessages
  <2> QED
    BY <1>2, <2>10, <2>11 DEF Encoded
<1> QED
  BY <1>3, <1>4 DEF EncodeInv

\* What a group ends with is written as the wire format wants it.
LEMMA GroupMessageIs ==
    ASSUME TypeInv, BufferInv, TagsInv, size < Power(5), NEW gs
    PROVE  GroupMessage(gs) = FlattenSeq([i \in DOMAIN gs |-> LogMessage(gs[i])])
             \o Optional(TopicHeader, topic) \o Optional(SourceHeader, source) \o tags.bytes
<1>1. ASSUME NEW h \in Nat, NEW y, Given(y), Len(Optional(h, y)) <= size
      PROVE  (IF y = <<>> THEN <<>> ELSE Message(h, Content(y[1]))) = Optional(h, y)
  <2>1. CASE y = <<>>
    BY <2>1 DEF Optional
  <2>2. ASSUME NEW n \in Nat, y = <<n>> PROVE Message(h, Content(y[1])) = Optional(h, y) /\ y # <<>>
    <3>1. y # <<>> /\ y[1] = n
      BY <2>2
    <3>2. Len(Optional(h, y)) = 1 + VarSize(n) + n
      BY <1>1, <2>2, OptionalLength
    <3>3. n < Power(5)
      <4> DEFINE z == VarSize(n)
                 l == Len(Optional(h, y))
      <4>1. z \in 1 .. 5 /\ l = 1 + z + n /\ l <= size
        BY <1>1, <3>2, VarSizeCases
      <4>2. size \in Nat /\ Power(5) \in Nat
        BY Powers DEF TypeInv
      <4> HIDE DEF z, l
      <4> QED
        BY <4>1, <4>2
    <3>4. Message(h, Content(n)) = <<h>> \o Pack(n) \o Content(n)
      BY <3>3, ContentMessage
    <3> QED
      BY <3>1, <3>4 DEF Optional
  <2> QED
    BY <1>1, <2>1, <2>2 DEF Given
<1>2. Len(Optional(TopicHeader, topic)) <= size /\ Len(Optional(SourceHeader, source)) <= size
  <2> DEFINE l == Len(logs.bytes)
             t == Len(Optional(TopicHeader, topic))
             s == Len(Optional(SourceHeader, source))
             g == Len(tags.bytes)
  <2>1. size = Overhead + l + t + s + g
    BY DEF BufferInv
  <2>2. l \in Nat /\ g \in Nat
    BY LenProperties DEF TypeInv, Buffers
  <2>3. t \in Nat /\ s \in Nat
    <3>1. Optional(TopicHeader, topic) \in Seq(Nat) /\ Optional(SourceHeader, source) \in Seq(Nat)
      BY OptionalLength, Headers DEF TypeInv
    <3> QED
      BY <3>1, LenProperties
  <2>4. Overhead \in Nat
    BY BaseAssumption
  <2>5. t <= size /\ s <= size
    <3> HIDE DEF l, t, s, g
    <3> QED BY <2>1, <2>2, <2>3, <2>4
  <2> QED
    BY <2>5
<1>3. (IF topic = <<>> THEN <<>> ELSE Message(TopicHeader, Content(topic[1]))) = Optional(TopicHeader, topic)
  BY <1>1, <1>2, Headers DEF TypeInv
<1>4. (IF source = <<>> THEN <<>> ELSE Message(SourceHeader, Content(source[1]))) = Optional(SourceHeader, source)
  BY <1>1, <1>2, Headers DEF TypeInv
<1>5. FlattenSeq([i \in DOMAIN givenTags |-> PairMessage(TagHeader, givenTags[i][1], givenTags[i][2])]) = tags.bytes
  BY DEF TagsInv, TagMessages
<1> QED
  BY <1>3, <1>4, <1>5 DEF GroupMessage

LEMMA SerializeEncodes ==
    ASSUME TypeInv, BufferInv, EncodeInv, Serialize
    PROVE  EncodeInv'
<1>1. /\ tags' = tags /\ open' = open /\ body' = body /\ size' = size /\ topic' = topic /\ source' = source
      /\ given' = given /\ givenTags' = givenTags /\ ~open /\ packed' = LogPack
  BY DEF Serialize, Building, caller
<1>2. logs'.bytes = logs.bytes
  BY DEF Serialize, Adjust, TypeInv, Buffers
<1>3. BodyInv'
  BY <1>1 DEF BodyInv
<1>4. ASSUME size < Power(5) PROVE packed' = GroupMessage(given)
  <2>1. LogsInv /\ TagsInv
    BY <1>4 DEF EncodeInv
  <2>2. FlattenSeq([i \in DOMAIN given |-> LogMessage(given[i])]) = logs.bytes
    <3>1. DOMAIN given = 1 .. Len(given) /\ Len(given) \in Nat
      BY LenProperties DEF TypeInv
    <3>2. Closed = Len(given)
      BY <1>1, <3>1 DEF Closed
    <3> QED
      BY <2>1, <3>1, <3>2 DEF LogsInv, LogMessages
  <2>3. GroupMessage(given) = FlattenSeq([i \in DOMAIN given |-> LogMessage(given[i])])
          \o Optional(TopicHeader, topic) \o Optional(SourceHeader, source) \o tags.bytes
    BY <1>4, <2>1, GroupMessageIs
  <2> QED
    BY <1>1, <2>2, <2>3 DEF LogPack
<1>5. GroupMessage(given)' = GroupMessage(given)
  BY <1>1 DEF GroupMessage
<1>6. LogsInv /\ TagsInv => LogsInv' /\ TagsInv'
  BY <1>1, <1>2 DEF LogsInv, TagsInv, LogMessages, TagMessages, Closed
<1> QED
  BY <1>1, <1>3, <1>4, <1>5, <1>6 DEF EncodeInv, Encoded

LEMMA FixEncodes ==
    ASSUME TypeInv, BufferInv, EncodeInv, NEW t \in Times, NEW next \in {LogHeader, TimeHeader},
           Fix(t, next)
    PROVE  EncodeInv'
<1> DEFINE b == packed \o Behind(next)
<1>1. /\ logs' = logs /\ tags' = tags /\ open' = open /\ body' = body /\ size' = size /\ topic' = topic
      /\ source' = source /\ given' = given /\ givenTags' = givenTags
      /\ packed' = SubSeq(FixTime(b, Len(packed), t), 1, Len(packed)) /\ fixed' = t
      /\ packed # <<>> /\ fixed = 0
  BY DEF Fix, Building
<1>2. ASSUME fixed' = 0 PROVE packed' = packed
  <2>1. 0 < MinTime
    BY Powers, TimesAssumption
  <2>2. packed' = SubSeq(b, 1, Len(packed))
    BY <1>1, <1>2, <2>1 DEF FixTime
  <2>3. /\ packed \in Seq(Nat) /\ Len(packed) \in Nat /\ b \in Seq(Nat) /\ Len(b) = Len(packed) + 6
        /\ \A i \in 1 .. Len(packed) : b[i] = packed[i]
    BY MemoryIs, LenProperties DEF TypeInv
  <2> HIDE DEF b
  <2>4. /\ packed' \in Seq(Nat) /\ Len(packed') = Len(packed)
        /\ \A i \in 1 .. Len(packed) : packed'[i] = packed[i]
    BY <2>2, <2>3, SubSeqProperties
  <2> QED
    BY <2>3, <2>4, SeqEqual
<1>3. GroupMessage(given)' = GroupMessage(given)
  BY <1>1 DEF GroupMessage
<1>4. BodyInv'
  BY <1>1 DEF EncodeInv, BodyInv, OpenMessages
<1>5. LogsInv /\ TagsInv => LogsInv' /\ TagsInv'
  BY <1>1 DEF LogsInv, TagsInv, LogMessages, TagMessages, Closed
<1> QED
  BY <1>1, <1>2, <1>3, <1>4, <1>5 DEF EncodeInv, Encoded

LEMMA StutterEncodes ==
    ASSUME EncodeInv, UNCHANGED vars
    PROVE  EncodeInv'
<1>1. /\ logs' = logs /\ tags' = tags /\ open' = open /\ body' = body /\ size' = size /\ topic' = topic
      /\ source' = source /\ packed' = packed /\ given' = given /\ givenTags' = givenTags /\ fixed' = fixed
  BY DEF vars, caller
<1> QED
  BY <1>1 DEF EncodeInv, BodyInv, LogsInv, TagsInv, Encoded, LogMessages, TagMessages, OpenMessages,
              Closed, GroupMessage

LEMMA InitEncodes ==
    ASSUME Init
    PROVE  EncodeInv
<1>1. /\ logs.bytes = <<>> /\ tags.bytes = <<>> /\ given = <<>> /\ givenTags = <<>> /\ ~open /\ packed = <<>>
  BY DEF Init, NoBuffer
<1>2. Closed = 0
  BY <1>1, EmptySeq DEF Closed
<1>3. LogMessages = <<>> /\ TagMessages = <<>>
  BY <1>1, <1>2 DEF LogMessages, TagMessages
<1>4. <<>> \in Seq(Seq(Nat))
  OBVIOUS
<1> QED
  BY <1>1, <1>3, <1>4, FlattenEmpty DEF EncodeInv, BodyInv, LogsInv, TagsInv, Encoded

LEMMA EncodeStep ==
    ASSUME TypeInv, BufferInv, EncodeInv, [Next]_vars
    PROVE  EncodeInv'
<1>1. CASE \E t \in Times, pairs \in Pairs : AddLogFull(t, pairs)
  BY <1>1, FullEncodes
<1>2. CASE \E k \in Lengths, v \in Lengths : AddTag(k, v) \/ AddLogKeyValue(k, v)
  BY <1>2, TagEncodes, KeyValueEncodes
<1>3. CASE \E n \in Lengths : AddTopic(n) \/ AddSource(n)
  BY <1>3, TopicEncodes
<1>4. CASE \E t \in Times : AddLogTime(t)
  BY <1>4, TimeEncodes
<1>7. CASE \E t \in Times, next \in {LogHeader, TimeHeader} : Fix(t, next)
  BY <1>7, FixEncodes
<1>5. CASE AddLogBegin \/ AddLogEnd \/ Serialize
  BY <1>5, BeginEncodes, EndEncodes, SerializeEncodes
<1>6. CASE UNCHANGED vars
  BY <1>6, StutterEncodes
<1> QED
  BY <1>1, <1>2, <1>3, <1>4, <1>5, <1>6, <1>7 DEF Next

LEMMA SizeBound ==
    ASSUME TypeInv, BufferInv
    PROVE  size < Power(5)
<1>1. Extent < Wrap /\ Extent \in Nat /\ Extent >= size /\ size \in Nat
  BY ExtentIs DEF TypeInv
<1>2. Wrap \in Nat /\ Wrap <= Power(5) /\ Power(5) \in Nat
  BY Quarter, Powers
<1> QED
  BY <1>1, <1>2

\* Encoded, for every sequence of calls that builds a group whose size is a uint32_t:
\* the bytes that serialize_to_proto_buf_with_malloc returns are the protobuf message
\* of the logs, the tags, the topic and the source that the caller gave, whichever
\* of the two interfaces wrote each log and wherever the buffers grew.
THEOREM GroupEncoded == Spec => []Encoded
<1>1. Init => EncodeInv
  BY InitEncodes
<1>2. TypeInv /\ BufferInv /\ EncodeInv /\ [Next]_vars => EncodeInv'
  BY EncodeStep
<1>3. TypeInv /\ BufferInv /\ EncodeInv => Encoded
  BY SizeBound DEF EncodeInv
<1> QED
  BY Invariance, <1>1, <1>2, <1>3, PTL DEF Spec

-----------------------------------------------------------------------------
(***************************************************************************)
(* Where the parts of a flattened sequence begin                           *)
(***************************************************************************)
\* Part j of q comes after off[j] bytes.
Offsets(off, q) ==
    /\ off \in [1 .. Len(q) + 1 -> Nat] /\ off[1] = 0
    /\ \A j \in 1 .. Len(q) : off[j + 1] = off[j] + Len(q[j])

\* Every byte of every part has its place, and every place has a byte of a part.
Laid(off, q, b) ==
    /\ off[Len(q) + 1] = Len(b)
    /\ \A j \in 1 .. Len(q) : \A k \in 1 .. Len(q[j]) : b[off[j] + k] = q[j][k]
    /\ \A i \in 1 .. Len(b) : \E j \in 1 .. Len(q) : \E k \in 1 .. Len(q[j]) : i = off[j] + k

LEMMA OffsetsGrow ==
    ASSUME NEW S, NEW q \in Seq(Seq(S)), NEW off, Offsets(off, q)
    PROVE  \A i \in 1 .. Len(q) : \A j \in i + 1 .. Len(q) + 1 : off[i + 1] <= off[j]
<1>1. Len(q) \in Nat /\ \A j \in 1 .. Len(q) : Len(q[j]) \in Nat
  BY ElementOfSeq, LenProperties
<1> DEFINE n == Len(q)
           l(j) == Len(q[j])
<1>2. /\ n \in Nat /\ \A j \in 1 .. n : l(j) \in Nat
      /\ \A j \in 1 .. n + 1 : off[j] \in Nat
      /\ \A j \in 1 .. n : off[j + 1] = off[j] + l(j)
  BY <1>1 DEF Offsets
<1> SUFFICES ASSUME NEW i \in 1 .. n PROVE \A j \in i + 1 .. n + 1 : off[i + 1] <= off[j]
  OBVIOUS
<1> HIDE DEF n, l
<1> DEFINE N == {d \in Nat : i + 1 + d <= n + 1 => off[i + 1] <= off[i + 1 + d]}
<1>3. 0 \in N
  BY <1>2
<1>4. ASSUME NEW d \in Nat, d \in N PROVE d + 1 \in N
  <2> SUFFICES ASSUME i + 1 + (d + 1) <= n + 1 PROVE off[i + 1] <= off[i + 1 + (d + 1)]
    OBVIOUS
  <2> DEFINE j == i + 1 + d
  <2>1. j \in 1 .. n /\ i + 1 + (d + 1) = j + 1 /\ i + 1 \in 1 .. n + 1
    BY <1>2
  <2>2. off[i + 1] <= off[j]
    BY <1>4, <1>2
  <2> HIDE DEF j
  <2>3. off[j + 1] = off[j] + l(j) /\ l(j) \in Nat /\ off[j] \in Nat /\ off[i + 1] \in Nat
    BY <1>2, <2>1
  <2> QED
    BY <2>1, <2>2, <2>3
<1>5. Nat \subseteq N
  <2> HIDE DEF N
  <2> QED BY <1>3, <1>4, Induct
<1>6. ASSUME NEW j \in i + 1 .. n + 1 PROVE off[i + 1] <= off[j]
  <2> DEFINE d == j - (i + 1)
  <2>1. d \in Nat /\ i + 1 + d = j /\ i + 1 + d <= n + 1
    BY <1>2
  <2> HIDE DEF d
  <2>2. d \in N
    BY <1>5, <2>1
  <2> QED
    BY <2>1, <2>2
<1> QED
  BY <1>6

LEMMA OffsetsUnique ==
    ASSUME NEW q, NEW r, Len(q) = Len(r), Len(q) \in Nat, \A j \in 1 .. Len(q) : Len(q[j]) = Len(r[j]),
           NEW f, NEW g, Offsets(f, q), Offsets(g, r)
    PROVE  f = g
<1> DEFINE n == Len(q)
<1>1. /\ f \in [1 .. n + 1 -> Nat] /\ g \in [1 .. n + 1 -> Nat] /\ f[1] = g[1]
      /\ \A j \in 1 .. n : f[j] = g[j] => f[j + 1] = g[j + 1]
  BY DEF Offsets
<1>2. n \in Nat
  OBVIOUS
<1> HIDE DEF n
<1> DEFINE N == {d \in Nat : d + 1 <= n + 1 => f[d + 1] = g[d + 1]}
<1>3. 0 \in N
  BY <1>1
<1>4. ASSUME NEW d \in Nat, d \in N PROVE d + 1 \in N
  <2>1. d + 1 + 1 <= n + 1 => d + 1 \in 1 .. n
    BY <1>2
  <2> QED
    BY <1>1, <1>2, <1>4, <2>1
<1>5. Nat \subseteq N
  <2> HIDE DEF N
  <2> QED BY <1>3, <1>4, Induct
<1>6. ASSUME NEW j \in 1 .. n + 1 PROVE f[j] = g[j]
  <2> DEFINE d == j - 1
  <2>1. d \in Nat /\ d + 1 = j /\ d + 1 <= n + 1
    BY <1>2
  <2> HIDE DEF d
  <2>2. d \in N
    BY <1>5, <2>1
  <2> QED
    BY <2>1, <2>2
<1>7. f = [j \in 1 .. n + 1 |-> f[j]] /\ g = [j \in 1 .. n + 1 |-> g[j]]
  BY <1>1
<1> QED
  BY <1>6, <1>7

LEMMA LaidOut ==
    ASSUME NEW S, NEW q \in Seq(Seq(S))
    PROVE  \E off : Offsets(off, q) /\ Laid(off, q, FlattenSeq(q))
<1> DEFINE T == {s \in Seq(Seq(S)) : \E off : Offsets(off, s) /\ Laid(off, s, FlattenSeq(s))}
<1>1. <<>> \in T
  <2> DEFINE off == [j \in 1 .. 1 |-> 0]
  <2>1. Len(<<>>) = 0 /\ <<>> \in Seq(Seq(S)) /\ FlattenSeq(<<>>) = <<>>
    BY EmptySeq, FlattenEmpty
  <2>2. Offsets(off, <<>>)
    BY <2>1 DEF Offsets
  <2>3. Laid(off, <<>>, <<>>)
    BY <2>1 DEF Laid
  <2> QED
    BY <2>1, <2>2, <2>3
<1>2. ASSUME NEW s \in Seq(Seq(S)), NEW x \in Seq(S), s \in T PROVE Append(s, x) \in T
  <2> DEFINE r == Append(s, x)
             n == Len(s)
             b == FlattenSeq(s)
             c == FlattenSeq(r)
  <2>1. PICK f : Offsets(f, s) /\ Laid(f, s, b)
    BY <1>2
  <2>2. /\ r \in Seq(Seq(S)) /\ Len(r) = n + 1 /\ r[n + 1] = x
        /\ \A j \in 1 .. n : r[j] = s[j]
    BY AppendProperties
  <2>3. c = b \o x /\ b \in Seq(S) /\ n \in Nat
    BY FlattenAppend, FlattenType, LenProperties
  <2> DEFINE lb == Len(b)
             lx == Len(x)
  <2>4. /\ Len(c) = lb + lx /\ lb \in Nat /\ lx \in Nat
        /\ \A i \in 1 .. lb + lx : c[i] = IF i <= lb THEN b[i] ELSE x[i - lb]
    <3>1. lb \in Nat /\ lx \in Nat
      BY <2>3, LenProperties
    <3>2. Len(b \o x) = lb + lx /\ \A i \in 1 .. lb + lx : (b \o x)[i] = IF i <= lb THEN b[i] ELSE x[i - lb]
      BY <2>3, ConcatProperties
    <3> QED
      BY <2>3, <3>1, <3>2
  <2>5. \A j \in 1 .. n : Len(s[j]) \in Nat
    BY ElementOfSeq, LenProperties
  <2> DEFINE g == [j \in 1 .. n + 2 |-> IF j <= n + 1 THEN f[j] ELSE lb + lx]
  <2>6. /\ f \in [1 .. n + 1 -> Nat] /\ f[1] = 0 /\ f[n + 1] = lb
        /\ \A j \in 1 .. n : f[j + 1] = f[j] + Len(s[j])
        /\ \A j \in 1 .. n : \A k \in 1 .. Len(s[j]) : b[f[j] + k] = s[j][k]
        /\ \A i \in 1 .. lb : \E j \in 1 .. n : \E k \in 1 .. Len(s[j]) : i = f[j] + k
    BY <2>1 DEF Offsets, Laid
  <2>7. \A j \in 1 .. n : f[j + 1] <= lb
    <3>1. \A i \in 1 .. n : \A j \in i + 1 .. n + 1 : f[i + 1] <= f[j]
      BY <2>1, OffsetsGrow
    <3>2. \A i \in 1 .. n : n + 1 \in i + 1 .. n + 1
      BY <2>3
    <3> QED
      BY <2>6, <3>1, <3>2
  <2>8. /\ g[n + 2] = lb + lx /\ g[n + 1] = lb /\ \A j \in 1 .. n : g[j] = f[j] /\ g[j + 1] = f[j + 1]
        /\ g \in [1 .. n + 2 -> Nat] /\ g[1] = 0
    BY <2>3, <2>4, <2>6
  <2>9. /\ Len(r[n + 1]) = lx /\ \A j \in 1 .. n : Len(r[j]) = Len(s[j])
    BY <2>2
  <2> HIDE DEF r, c, b, lb, lx, n, g
  <2>10. Offsets(g, r)
    <3>1. n + 1 + 1 = n + 2
      BY <2>3
    <3>2. ASSUME NEW j \in 1 .. n + 1 PROVE g[j + 1] = g[j] + Len(r[j])
      <4>1. CASE j = n + 1
        <5>1. g[j + 1] = lb + lx /\ g[j] = lb /\ Len(r[j]) = lx
          BY <2>8, <2>9, <3>1, <4>1
        <5> QED
          BY <5>1
      <4>2. CASE j \in 1 .. n
        BY <2>3, <2>6, <2>8, <2>9, <4>2
      <4> QED
        BY <2>3, <4>1, <4>2
    <3> QED
      BY <2>2, <2>8, <3>1, <3>2 DEF Offsets
  <2>11. Laid(g, r, c)
    <3>1. n + 1 + 1 = n + 2
      BY <2>3
    <3>2. ASSUME NEW j \in 1 .. n + 1, NEW k \in 1 .. Len(r[j]) PROVE c[g[j] + k] = r[j][k]
      <4>1. CASE j = n + 1
        <5>1. k \in 1 .. lx /\ g[j] + k = lb + k /\ r[j][k] = x[k]
          BY <2>2, <2>8, <2>9, <3>2, <4>1
        <5>2. lb + k \in 1 .. lb + lx /\ ~(lb + k <= lb) /\ lb + k - lb = k
          BY <2>4, <5>1
        <5> QED
          BY <2>4, <5>1, <5>2
      <4>2. CASE j \in 1 .. n
        <5>1. k \in 1 .. Len(s[j]) /\ g[j] = f[j] /\ r[j] = s[j]
          BY <2>2, <2>8, <2>9, <3>2, <4>2
        <5>2. f[j] + k \in 1 .. lb
          <6> DEFINE l == Len(s[j])
          <6>1. l \in Nat /\ f[j] \in Nat /\ f[j + 1] = f[j] + l /\ f[j + 1] <= lb /\ k \in 1 .. l
            BY <2>3, <2>5, <2>6, <2>7, <4>2, <5>1
          <6> HIDE DEF l
          <6> QED
            BY SMTT(60), <2>4, <6>1
        <5>3. b[f[j] + k] = s[j][k]
          BY <2>6, <4>2, <5>1
        <5>4. c[f[j] + k] = b[f[j] + k]
          BY <2>4, <5>2
        <5> QED
          BY <5>1, <5>3, <5>4
      <4>3. j = n + 1 \/ j \in 1 .. n
        BY <2>3
      <4> QED
        BY <4>1, <4>2, <4>3
    <3>3. ASSUME NEW i \in 1 .. lb + lx PROVE \E j \in 1 .. n + 1 : \E k \in 1 .. Len(r[j]) : i = g[j] + k
      <4>1. CASE i <= lb
        <5>1. i \in 1 .. lb
          BY <2>4, <4>1
        <5>2. PICK j \in 1 .. n : \E k \in 1 .. Len(s[j]) : i = f[j] + k
          BY <2>6, <5>1
        <5>3. PICK k \in 1 .. Len(s[j]) : i = f[j] + k
          BY <5>2
        <5>4. j \in 1 .. n + 1
          BY <2>3
        <5>5. Len(r[j]) = Len(s[j]) /\ g[j] = f[j]
          BY <2>8, <2>9
        <5> QED
          BY <5>3, <5>4, <5>5
      <4>2. CASE ~(i <= lb)
        <5> DEFINE k == i - lb
        <5>1. k \in 1 .. lx /\ i = lb + k
          BY <2>4, <4>2
        <5> HIDE DEF k
        <5>2. n + 1 \in 1 .. n + 1 /\ k \in 1 .. Len(r[n + 1]) /\ i = g[n + 1] + k
          BY <2>3, <2>8, <2>9, <5>1
        <5> QED
          BY <5>2
      <4> QED
        BY <4>1, <4>2
    <3> QED
      BY <2>2, <2>4, <2>8, <3>1, <3>2, <3>3 DEF Laid
  <2> QED
    BY <2>2, <2>10, <2>11 DEF r, c
<1>3. Seq(Seq(S)) \subseteq T
  <2> HIDE DEF T
  <2> QED BY <1>1, <1>2, InductAppend
<1> QED
  BY <1>3

-----------------------------------------------------------------------------
(***************************************************************************)
(* Reading back what uint32_pack has written                               *)
(***************************************************************************)
\* A number is the sum of its digits.
LEMMA SumOfDigits ==
    ASSUME NEW v \in Nat, v < Power(5)
    PROVE  /\ v = ((v \div Power(0)) % Base) * Power(0) + ((v \div Power(1)) % Base) * Power(1)
                  + ((v \div Power(2)) % Base) * Power(2) + ((v \div Power(3)) % Base) * Power(3)
                  + ((v \div Power(4)) % Base) * Power(4)
           /\ \A i \in 0 .. 4 : v \div Power(i) \in Nat /\ (v < Power(i) => (v \div Power(i)) % Base = 0)
<1> DEFINE p(i) == Power(i)
           w(i) == v \div p(i)
           d(i) == w(i) % Base
<1>1. Base \in Nat /\ Base > 1
  BY BaseAssumption
<1>2. /\ \A n \in 0 .. 5 : p(n) \in Nat /\ p(n) > 0
      /\ \A n \in 0 .. 4 : p(n + 1) = Base * p(n)
      /\ p(0) = 1 /\ p(1) = Base
  BY Powers
<1> HIDE DEF p
<1>3. \A i \in 0 .. 5 : w(i) \in Nat
  BY <1>2, Divide
<1>4. w(0) = v
  BY <1>2
<1>5. ASSUME NEW i \in 0 .. 4 PROVE d(i) \in 0 .. Base - 1 /\ w(i) = Base * w(i + 1) + d(i)
  <2>1. p(i) \in Nat /\ p(i) > 0 /\ p(i + 1) = Base * p(i)
    BY <1>2
  <2>2. w(i) \div Base = v \div (p(i) * Base)
    BY <1>1, <2>1, DivideTwice
  <2>3. p(i) * Base = Base * p(i)
    BY <1>1, <2>1
  <2>4. w(i) \div Base = w(i + 1)
    BY <2>1, <2>2, <2>3
  <2>5. w(i) \in Nat
    BY <1>3
  <2> DEFINE x == w(i)
             y == w(i + 1)
  <2>6. x \in Nat /\ x \div Base = y /\ d(i) = x % Base
    BY <2>4, <2>5
  <2> HIDE DEF x, y, d
  <2>7. x % Base \in 0 .. Base - 1 /\ x = Base * (x \div Base) + (x % Base)
    BY <1>1, <2>6, Divide
  <2>8. d(i) \in 0 .. Base - 1 /\ x = Base * y + d(i)
    BY <2>6, <2>7
  <2> QED
    BY <2>8 DEF x, y
<1>6. ASSUME NEW i \in 0 .. 5, v < p(i) PROVE w(i) = 0
  <2>1. p(i) \in Nat /\ p(i) > 0
    BY <1>2
  <2>2. v \div p(i) < 1 <=> v < p(i) * 1
    BY <2>1, DivideLess
  <2> QED
    BY <1>3, <1>6, <2>1, <2>2
<1>7. w(5) = 0
  BY <1>6 DEF p
<1> HIDE DEF w
<1>8. ASSUME NEW i \in 0 .. 4, v < p(i) PROVE d(i) = 0
  BY <1>1, <1>6, <1>8
<1> HIDE DEF d
<1>9. /\ v = Base * w(1) + d(0) /\ w(1) = Base * w(2) + d(1) /\ w(2) = Base * w(3) + d(2)
      /\ w(3) = Base * w(4) + d(3) /\ w(4) = d(4)
  <2>1. w(0) = Base * w(0 + 1) + d(0) /\ w(1) = Base * w(1 + 1) + d(1) /\ w(2) = Base * w(2 + 1) + d(2)
        /\ w(3) = Base * w(3 + 1) + d(3) /\ w(4) = Base * w(4 + 1) + d(4)
    BY <1>5
  <2>2. d(4) \in Nat
    BY <1>1, <1>5
  <2> QED
    BY <1>1, <1>4, <1>7, <2>1, <2>2
<1>10. /\ p(2) = Base * Base /\ p(3) = Base * (Base * Base) /\ p(4) = Base * (Base * (Base * Base))
  <2>1. p(1 + 1) = Base * p(1) /\ p(2 + 1) = Base * p(2) /\ p(3 + 1) = Base * p(3)
    BY <1>2
  <2> QED
    BY <1>2, <2>1
<1>11. v = d(0) * p(0) + d(1) * p(1) + d(2) * p(2) + d(3) * p(3) + d(4) * p(4)
  <2>1. d(0) \in Nat /\ d(1) \in Nat /\ d(2) \in Nat /\ d(3) \in Nat /\ d(4) \in Nat
    BY <1>1, <1>5
  <2> DEFINE a == Base * Base
             b == Base * a
             c == Base * b
  <2>2. p(0) = 1 /\ p(1) = Base /\ p(2) = a /\ p(3) = b /\ p(4) = c
    BY <1>2, <1>10
  <2>3. a \in Nat /\ b \in Nat /\ c \in Nat
    BY <1>1
  <2>4. Base * (Base * (Base * (Base * d(4)))) = d(4) * c
    BY <1>1, <2>1
  <2>5. Base * (Base * (Base * d(3))) = d(3) * b /\ Base * (Base * d(2)) = d(2) * a /\ Base * d(1) = d(1) * Base
    BY <1>1, <2>1
  <2>6. v = d(0) + Base * d(1) + Base * (Base * d(2)) + Base * (Base * (Base * d(3)))
            + Base * (Base * (Base * (Base * d(4))))
    BY <1>1, <1>9, <2>1
  <2> HIDE DEF a, b, c
  <2>7. d(2) * a \in Nat /\ d(3) * b \in Nat /\ d(4) * c \in Nat /\ d(1) * Base \in Nat /\ d(0) * 1 = d(0)
    BY <1>1, <2>1, <2>3
  <2> QED
    BY <2>1, <2>2, <2>4, <2>5, <2>6, <2>7
<1>12. ASSUME NEW i \in 0 .. 4 PROVE w(i) \in Nat /\ (v < p(i) => d(i) = 0)
  BY <1>3, <1>8
<1> QED
  BY <1>11, <1>12 DEF d, w, p

\* scan_varint and parse_uint32, where a packed number is.
LEMMA ReadsBack ==
    ASSUME NEW b \in Seq(Nat), NEW p \in Nat \ {0}, NEW v \in Nat, v < Power(5),
           p + VarSize(v) - 1 <= Len(b), \A i \in 1 .. VarSize(v) : b[p + i - 1] = Pack(v)[i]
    PROVE  ScanVarint(b, p) = VarSize(v) /\ ParseUint32(VarSize(v), b, p) = v
<1> DEFINE s == VarSize(v)
           g(i) == (v \div Power(i - 1)) % Base
<1>1. Base \in Nat /\ Base > 1 /\ Len(b) \in Nat
  BY BaseAssumption, LenProperties
<1>2. s \in 1 .. 5 /\ \A n \in 1 .. 4 : s <= n <=> v < Power(n)
  BY VarSizeCases
<1>3. \A i \in 1 .. s : Pack(v)[i] = g(i) + (IF i < s THEN Base ELSE 0)
  BY PackDigits DEF Digits
<1>4. \A i \in 1 .. 5 : v \div Power(i - 1) \in Nat /\ (v < Power(i - 1) => g(i) = 0)
  <2>1. \A j \in 0 .. 4 : v \div Power(j) \in Nat /\ (v < Power(j) => (v \div Power(j)) % Base = 0)
    BY SumOfDigits
  <2>2. \A i \in 1 .. 5 : i - 1 \in 0 .. 4
    OBVIOUS
  <2> QED
    BY <2>1, <2>2
<1>5. \A i \in 1 .. 5 : g(i) \in 0 .. Base - 1
  <2>1. ASSUME NEW i \in 1 .. 5 PROVE g(i) \in 0 .. Base - 1
    <3> DEFINE x == v \div Power(i - 1)
    <3>1. x \in Nat
      BY <1>4
    <3> HIDE DEF x
    <3>2. x % Base \in 0 .. Base - 1
      BY <1>1, <3>1
    <3> QED
      BY <3>2 DEF x
  <2> QED
    BY <2>1
<1>6. v = g(1) * Power(0) + g(2) * Power(1) + g(3) * Power(2) + g(4) * Power(3) + g(5) * Power(4)
  <2>1. 1 - 1 = 0 /\ 2 - 1 = 1 /\ 3 - 1 = 2 /\ 4 - 1 = 3 /\ 5 - 1 = 4
    OBVIOUS
  <2> QED
    BY <2>1, SumOfDigits
<1>7. ASSUME NEW i \in 1 .. 5, ~(i <= s) PROVE g(i) = 0
  <2> HIDE DEF s, g
  <2>1. i \in 1 .. 5 /\ ~(i <= s) /\ s \in 1 .. 5
    BY <1>2, <1>7
  <2>2. i - 1 \in 1 .. 4 /\ s <= i - 1
    BY ONLY <2>1
  <2>3. v < Power(i - 1)
    BY <1>2, <2>2
  <2> QED
    BY <1>4, <2>3
<1>8. ASSUME NEW i \in 1 .. s PROVE p + i - 1 <= Len(b) /\ b[p + i - 1] = g(i) + (IF i < s THEN Base ELSE 0)
  <2>1. b[p + i - 1] = Pack(v)[i]
    BY <1>8
  <2>2. p + i - 1 <= Len(b)
    BY <1>1, <1>2
  <2> QED
    BY <1>3, <1>8, <2>1, <2>2
<1> HIDE DEF s, g
<1>9. ASSUME NEW i \in 1 .. s
      PROVE  /\ b[p + i - 1] % Base = g(i)
             /\ HasSuccessor(b[p + i - 1]) <=> i < s
  <2> DEFINE x == b[p + i - 1]
             y == g(i)
  <2>1. y \in 0 .. Base - 1 /\ x = y + (IF i < s THEN Base ELSE 0)
    <3>1. i \in 1 .. 5
      BY <1>2
    <3>2. y \in 0 .. Base - 1
      BY <1>5, <3>1
    <3>3. x = y + (IF i < s THEN Base ELSE 0)
      BY <1>8
    <3> QED
      BY <3>2, <3>3
  <2> HIDE DEF x, y
  <2>2. x % Base = y
    <3>1. y % Base = y
      BY <1>1, <2>1
    <3>2. (y + Base) % Base = y
      BY <1>1, <2>1
    <3> QED
      BY <1>1, <2>1, <3>1, <3>2
  <2>3. HasSuccessor(x) <=> i < s
    BY <1>1, <1>2, <2>1 DEF HasSuccessor
  <2> QED
    BY <2>2, <2>3 DEF x, y
<1>10. ScanVarint(b, p) = s
  <2> DEFINE last == {n \in 1 .. 5 : p + n - 1 <= Len(b) /\ ~HasSuccessor(b[p + n - 1])}
  <2>1. ScanVarint(b, p) = IF last = {} THEN 0 ELSE CHOOSE n \in last : \A m \in last : n <= m
    BY DEF ScanVarint
  <2>2. s \in last
    <3>1. s \in 1 .. s /\ s \in 1 .. 5
      BY <1>2
    <3> QED
      BY <1>8, <1>9, <3>1
  <2>3. \A m \in last : s <= m
    <3> SUFFICES ASSUME NEW m \in last, ~(s <= m) PROVE FALSE
      OBVIOUS
    <3>1. m \in 1 .. s /\ m < s /\ ~HasSuccessor(b[p + m - 1])
      BY <1>2
    <3> QED
      BY <1>9, <3>1
  <2>4. last \subseteq Nat
    OBVIOUS
  <2> HIDE DEF last
  <2>5. \A n \in last : (\A m \in last : n <= m) => n = s
    <3> SUFFICES ASSUME NEW n \in last, \A m \in last : n <= m PROVE n = s
      OBVIOUS
    <3>1. n <= s /\ s <= n /\ n \in Nat /\ s \in Nat
      BY <2>2, <2>3, <2>4
    <3> QED
      BY <3>1
  <2> QED
    BY <2>1, <2>2, <2>3, <2>5
<1>11. ParseUint32(s, b, p) = v
  <2> DEFINE read(i) == (i = 1 \/ i <= s) /\ p + i - 1 <= Len(b)
             d(i) == IF read(i) THEN (b[p + i - 1] % Base) * Power(i - 1) ELSE 0
  <2>1. ParseUint32(s, b, p) = d(1) + d(2) + d(3) + d(4) + d(5)
    BY DEF ParseUint32
  <2>2. ASSUME NEW i \in 1 .. 5 PROVE d(i) = g(i) * Power(i - 1)
    <3>1. CASE i <= s
      <4>1. i \in 1 .. s
        BY <3>1
      <4>2. read(i)
        BY <1>8, <3>1, <4>1
      <4> QED
        BY <1>9, <4>1, <4>2
    <3>2. CASE ~(i <= s)
      <4>1. ~read(i)
        BY <1>2, <3>2
      <4>2. g(i) = 0 /\ Power(i - 1) \in Nat
        <5>1. i - 1 \in 0 .. 5
          OBVIOUS
        <5> QED
          BY <1>7, <3>2, <5>1, Powers
      <4>3. 0 * Power(i - 1) = 0
        BY <4>2
      <4> QED
        BY <4>1, <4>2, <4>3
    <3> QED
      BY <3>1, <3>2
  <2> HIDE DEF d
  <2>3. d(1) = g(1) * Power(1 - 1) /\ d(2) = g(2) * Power(2 - 1) /\ d(3) = g(3) * Power(3 - 1)
        /\ d(4) = g(4) * Power(4 - 1) /\ d(5) = g(5) * Power(5 - 1)
    BY <2>2
  <2>4. 1 - 1 = 0 /\ 2 - 1 = 1 /\ 3 - 1 = 2 /\ 4 - 1 = 3 /\ 5 - 1 = 4
    OBVIOUS
  <2> QED
    BY <1>6, <2>1, <2>3, <2>4
<1> QED
  BY <1>10, <1>11 DEF s

-----------------------------------------------------------------------------
(***************************************************************************)
(* The walk of fix_log_group_time on the messages of logs                  *)
(***************************************************************************)
\* A message with LogHeader, of m bytes after its length.
Framed(x, m) ==
    /\ x \in Seq(Nat) /\ m \in Nat /\ m < Power(5) /\ Len(x) = Announce(m)
    /\ x[1] = LogHeader /\ \A i \in 1 .. VarSize(m) : x[1 + i] = Pack(m)[i]

\* Memory that begins with such messages, of the sizes sz, and goes on with another
\* header: its first len bytes are a group.
Grouped(b, len, q, sz, off) ==
    /\ b \in Seq(Nat) /\ len \in Nat /\ Len(b) = len + 6
    /\ q \in Seq(Seq(Nat)) /\ Offsets(off, q) /\ sz \in [1 .. Len(q) -> Nat]
    /\ \A j \in 1 .. Len(q) : Framed(q[j], sz[j])
    /\ \A j \in 1 .. Len(q) : \A k \in 1 .. Len(q[j]) : b[off[j] + k] = q[j][k]
    /\ off[Len(q) + 1] <= len
    /\ off[Len(q) + 1] < len => b[off[Len(q) + 1] + 1] # LogHeader /\ b[off[Len(q) + 1] + 1] # TimeHeader

\* The first byte of the body of message j.
Start(off, sz, j) == off[j] + 2 + VarSize(sz[j])

LEMMA GroupedPlaces ==
    ASSUME NEW b, NEW len, NEW q, NEW sz, NEW off, Grouped(b, len, q, sz, off), NEW j \in 1 .. Len(q)
    PROVE  /\ Len(q) \in Nat /\ len \in Nat /\ off[j] \in Nat /\ off[j + 1] \in Nat /\ sz[j] \in Nat
           /\ VarSize(sz[j]) \in 1 .. 5
           /\ Len(q[j]) = 1 + VarSize(sz[j]) + sz[j]
           /\ off[j + 1] = off[j] + Len(q[j]) /\ off[j + 1] <= len
           /\ Start(off, sz, j) \in Nat /\ Start(off, sz, j) + sz[j] = off[j + 1] + 1
           /\ Start(off, sz, j) >= off[j] + 3
<1>1. /\ q \in Seq(Seq(Nat)) /\ len \in Nat /\ Offsets(off, q) /\ off[Len(q) + 1] <= len
      /\ Framed(q[j], sz[j])
  BY DEF Grouped
<1>2. Len(q) \in Nat
  BY <1>1, LenProperties
<1>3. j \in 1 .. Len(q) + 1 /\ j + 1 \in 1 .. Len(q) + 1 /\ Len(q) + 1 \in j + 1 .. Len(q) + 1
  BY <1>2
<1>4. off[j] \in Nat /\ off[j + 1] \in Nat /\ off[Len(q) + 1] \in Nat /\ off[j + 1] = off[j] + Len(q[j])
  <2>1. off \in [1 .. Len(q) + 1 -> Nat] /\ off[j + 1] = off[j] + Len(q[j])
    BY <1>1 DEF Offsets
  <2>2. Len(q) + 1 \in 1 .. Len(q) + 1
    BY <1>2
  <2> QED
    BY <1>3, <2>1, <2>2
<1>5. off[j + 1] <= off[Len(q) + 1]
  BY <1>1, <1>3, OffsetsGrow
<1>6. sz[j] \in Nat /\ Len(q[j]) = Announce(sz[j])
  BY <1>1 DEF Framed
<1>7. VarSize(sz[j]) \in 1 .. 5 /\ Announce(sz[j]) = 1 + VarSize(sz[j]) + sz[j]
  BY <1>6, AnnounceType
<1>8. off[j + 1] <= len
  BY <1>1, <1>2, <1>4, <1>5
<1>9. /\ Start(off, sz, j) \in Nat /\ Start(off, sz, j) + sz[j] = off[j + 1] + 1
      /\ Start(off, sz, j) >= off[j] + 3
  <2> DEFINE s == VarSize(sz[j])
             m == sz[j]
             o == off[j]
             e == off[j + 1]
             x == Len(q[j])
  <2>1. s \in 1 .. 5 /\ m \in Nat /\ o \in Nat /\ e \in Nat /\ e = o + x /\ x = 1 + s + m
    BY <1>4, <1>6, <1>7
  <2>2. Start(off, sz, j) = o + 2 + s
    BY DEF Start
  <2> HIDE DEF s, m, o, e, x
  <2>3. o + 2 + s \in Nat /\ o + 2 + s + m = e + 1 /\ o + 2 + s >= o + 3
    BY <2>1
  <2> QED
    BY <2>2, <2>3 DEF m, e, o
<1> QED
  BY <1>1, <1>2, <1>4, <1>6, <1>7, <1>8, <1>9

\* The messages end where the rest begins.
LEMMA GroupedEnd ==
    ASSUME NEW b, NEW len, NEW q, NEW sz, NEW off, Grouped(b, len, q, sz, off)
    PROVE  /\ Len(q) \in Nat /\ len \in Nat /\ off[1] = 0 /\ off[Len(q) + 1] \in 0 .. len
           /\ \A j \in 1 .. Len(q) + 1 : off[j] \in Nat /\ off[j] >= j - 1
           /\ \A i \in 1 .. Len(q) : \A j \in i + 1 .. Len(q) + 1 : off[i + 1] <= off[j]
<1> DEFINE n == Len(q)
<1>1. /\ q \in Seq(Seq(Nat)) /\ len \in Nat /\ Offsets(off, q) /\ off[n + 1] <= len
  BY DEF Grouped
<1>2. n \in Nat
  BY <1>1, LenProperties
<1>3. off[1] = 0 /\ \A j \in 1 .. n + 1 : off[j] \in Nat
  BY <1>1 DEF Offsets
<1>4. \A j \in 1 .. n : off[j + 1] >= off[j] + 1
  <2> SUFFICES ASSUME NEW j \in 1 .. n PROVE off[j + 1] >= off[j] + 1
    OBVIOUS
  <2>1. /\ sz[j] \in Nat /\ VarSize(sz[j]) \in 1 .. 5 /\ Len(q[j]) = 1 + VarSize(sz[j]) + sz[j]
        /\ off[j + 1] = off[j] + Len(q[j]) /\ off[j] \in Nat
    BY GroupedPlaces
  <2> QED
    BY <2>1
<1>5. \A i \in 1 .. n : \A j \in i + 1 .. n + 1 : off[i + 1] <= off[j]
  BY <1>1, OffsetsGrow
<1> HIDE DEF n
<1> DEFINE N == {k \in Nat : k <= n => off[k + 1] >= k}
<1>6. 0 \in N
  BY <1>3
<1>7. ASSUME NEW k \in Nat, k \in N PROVE k + 1 \in N
  <2> SUFFICES ASSUME k + 1 <= n PROVE off[k + 1 + 1] >= k + 1
    OBVIOUS
  <2> DEFINE j == k + 1
  <2>1. j \in 1 .. n /\ j \in 1 .. n + 1 /\ j + 1 \in 1 .. n + 1 /\ k <= n
    BY <1>2
  <2>2. off[j] >= k /\ off[j] \in Nat /\ off[j + 1] \in Nat /\ off[j + 1] >= off[j] + 1
    BY <1>3, <1>4, <1>7, <2>1
  <2> HIDE DEF j
  <2>3. off[j + 1] >= k + 1
    BY <2>2
  <2> QED
    BY <2>3 DEF j
<1>8. Nat \subseteq N
  <2> HIDE DEF N
  <2> QED BY <1>6, <1>7, Induct
<1>9. ASSUME NEW j \in 1 .. n + 1 PROVE off[j] >= j - 1
  <2> DEFINE k == j - 1
  <2>1. k \in Nat /\ k <= n /\ k + 1 = j
    BY <1>2
  <2> HIDE DEF k
  <2>2. off[k + 1] >= k
    BY <1>8, <2>1
  <2> QED
    BY <2>1, <2>2 DEF k
<1>10. off[n + 1] \in 0 .. len
  <2>1. n + 1 \in 1 .. n + 1
    BY <1>2
  <2> QED
    BY <1>1, <1>3, <2>1 DEF n
<1> QED
  BY <1>1, <1>2, <1>3, <1>5, <1>9, <1>10 DEF n

\* The loop at a message that no turn has changed: its length is read back, and the
\* next place is behind the message.
LEMMA TurnAt ==
    ASSUME NEW b, NEW len, NEW q, NEW sz, NEW off, Grouped(b, len, q, sz, off), NEW j \in 1 .. Len(q),
           NEW s, Place(s, b), s.at = off[j] + 1,
           \A i \in off[j] + 1 .. off[j + 1] : s.memory[i] = b[i], NEW t \in Nat
    PROVE  /\ Going(s, len) /\ Turn(s, t).at = off[j + 1] + 1
           /\ Turn(s, t).memory =
                IF s.memory[Start(off, sz, j)] = TimeHeader
                THEN Overwrite(s.memory, Start(off, sz, j) + 1, Pack(t)) ELSE s.memory
<1> DEFINE m == sz[j]
           v == VarSize(m)
           o == off[j]
           e == off[j + 1]
           x == q[j]
           lx == Len(x)
           c == s.memory
           l == Len(c)
<1>1. /\ len \in Nat /\ o \in Nat /\ e \in Nat /\ m \in Nat /\ v \in 1 .. 5 /\ lx = 1 + v + m
      /\ e = o + lx /\ e <= len
  BY ONLY Grouped(b, len, q, sz, off), j \in 1 .. Len(q), GroupedPlaces
<1>2. /\ Framed(x, m) /\ \A k \in 1 .. lx : b[o + k] = x[k]
      /\ Len(b) = len + 6
  BY DEF Grouped
<1>3. m < Power(5) /\ x[1] = LogHeader /\ \A i \in 1 .. v : x[1 + i] = Pack(m)[i]
  BY <1>2 DEF Framed
<1>4. c \in Seq(Nat) /\ l = len + 6 /\ s.at = o + 1
  BY <1>2 DEF Place
<1>5. \A i \in o + 1 .. e : c[i] = b[i]
  OBVIOUS
<1>6. Start(off, sz, j) = o + 2 + v
  BY DEF Start
<1> HIDE DEF v, o, e, l, x, lx, c
<1>7. 1 \in 1 .. lx /\ o + 1 \in o + 1 .. e /\ o + 1 + 1 \in Nat \ {0} /\ (o + 1 + 1) + v - 1 <= l /\ o + 1 <= len
  <2> HIDE DEF m
  <2> QED BY <1>1, <1>4
<1>8. c[o + 1] = LogHeader
  BY <1>2, <1>3, <1>5, <1>7
<1>9. ASSUME NEW i \in 1 .. v PROVE c[(o + 1 + 1) + i - 1] = Pack(m)[i]
  <2>1. 1 + i \in 1 .. lx /\ (o + 1 + 1) + i - 1 = o + (1 + i) /\ o + (1 + i) \in o + 1 .. e
    <3> HIDE DEF m
    <3> QED BY <1>1
  <2> QED
    BY <1>2, <1>3, <1>5, <2>1
<1>10. ScanVarint(c, o + 1 + 1) = v /\ ParseUint32(v, c, o + 1 + 1) = m
  <2> HIDE DEF m
  <2> DEFINE p == o + 1 + 1
  <2>1. p \in Nat \ {0} /\ p + v - 1 <= l /\ \A i \in 1 .. v : c[p + i - 1] = Pack(m)[i]
    BY <1>7, <1>9
  <2> HIDE DEF p
  <2>2. ScanVarint(c, p) = v /\ ParseUint32(v, c, p) = m
    BY <1>1, <1>3, <1>4, <2>1, ReadsBack DEF v, l
  <2> QED
    BY <2>2 DEF p
<1>11. Going(s, len)
  BY <1>4, <1>7, <1>8 DEF Going, c
<1>12. o + 1 + 1 + v = o + 2 + v /\ o + 2 + v + m = e + 1
  <2> HIDE DEF m
  <2> QED BY <1>1
<1>13. Turn(s, t) = [memory |-> IF c[o + 2 + v] = TimeHeader THEN Overwrite(c, o + 2 + v + 1, Pack(t)) ELSE c,
                     at |-> o + 2 + v + m]
  BY <1>4, <1>10, <1>12 DEF Turn, c
<1> QED
  BY <1>6, <1>11, <1>12, <1>13 DEF o, v, e, c, m

\* The five bytes of a time, none of them a header.
LEMMA TimeWritten ==
    ASSUME NEW c \in Seq(Nat), NEW p \in Nat, NEW t \in MinTime .. Power(5) - 1
    PROVE  /\ Overwrite(c, p + 1, Pack(t)) \in Seq(Nat)
           /\ Len(Overwrite(c, p + 1, Pack(t))) = Len(c)
           /\ \A i \in 1 .. Len(c) :
                Overwrite(c, p + 1, Pack(t))[i] = IF i - p \in 1 .. 5 THEN Pack(t)[i - p] ELSE c[i]
           /\ \A i \in 1 .. 5 : Pack(t)[i] \in Nat /\ Pack(t)[i] # LogHeader
<1> DEFINE w == Pack(t)
           d == Overwrite(c, p + 1, w)
<1>1. t \in Nat /\ t >= Power(4) /\ t < Power(5) /\ Power(4) \in Nat /\ Power(5) \in Nat
  BY Inputs
<1>2. w \in Seq(Nat) /\ Len(w) = 5
  <2>1. VarSize(t) = 5
    BY <1>1, VarSizeCases
  <2> QED
    BY <1>1, <2>1, PackLength
<1>3. ASSUME NEW i \in 1 .. 5 PROVE w[i] \in Nat /\ w[i] # LogHeader
  <2> DEFINE g == (t \div Power(i - 1)) % Base
  <2>1. VarSize(t) = 5
    BY <1>1, VarSizeCases
  <2>2. w[i] = g + (IF i < 5 THEN Base ELSE 0)
    BY <1>1, <2>1, PackDigits DEF Digits
  <2>3. Base \in Nat /\ Base > 1 /\ 2 * Base <= LogHeader /\ LogHeader \in Nat
    BY BaseAssumption, HeaderAssumption, Headers
  <2>4. t \div Power(i - 1) \in Nat
    <3>1. i - 1 \in 0 .. 4
      OBVIOUS
    <3> QED
      BY <1>1, <3>1, SumOfDigits
  <2>5. g \in 0 .. Base - 1
    <3> DEFINE y == t \div Power(i - 1)
    <3>1. y \in Nat
      BY <2>4
    <3> HIDE DEF y
    <3>2. y % Base \in 0 .. Base - 1
      BY <2>3, <3>1
    <3> QED
      BY <3>2 DEF y
  <2> HIDE DEF g, w
  <2> QED
    BY <2>2, <2>3, <2>5
<1>4. p + 1 \in Nat
  OBVIOUS
<1> HIDE DEF w
<1>5. /\ d \in Seq(Nat) /\ Len(d) = Len(c)
      /\ \A i \in 1 .. Len(c) : d[i] = IF i - (p + 1) + 1 \in 1 .. 5 THEN w[i - (p + 1) + 1] ELSE c[i]
  <2>1. /\ d \in Seq(Nat) /\ Len(d) = Len(c)
        /\ \A i \in 1 .. Len(c) :
             d[i] = IF i - (p + 1) + 1 \in 1 .. Len(w) THEN w[i - (p + 1) + 1] ELSE c[i]
    BY <1>2, <1>4, OverwriteType
  <2> QED
    BY <1>2, <2>1
<1>6. Len(c) \in Nat
  BY LenProperties
<1> HIDE DEF d
<1>7. \A i \in 1 .. Len(c) : i - (p + 1) + 1 = i - p
  BY <1>6
<1>8. \A i \in 1 .. Len(c) : d[i] = IF i - p \in 1 .. 5 THEN w[i - p] ELSE c[i]
  BY <1>5, <1>7
<1> QED
  BY <1>3, <1>5, <1>8 DEF d, w

-----------------------------------------------------------------------------
(***************************************************************************)
(* What the loop of fix_log_group_time leaves                              *)
(***************************************************************************)
LEMMA AfterTurn ==
    ASSUME NEW after, NEW memory, NEW len \in Nat, NEW t, AfterUpto(after, memory, len, t, len),
           NEW k \in Nat, k + 1 <= len
    PROVE  after[k + 1] = IF Going(after[k], len) THEN Turn(after[k], t) ELSE after[k]
<1>1. k + 1 \in 0 .. len /\ k + 1 # 0 /\ k + 1 - 1 = k
  OBVIOUS
<1> QED
  BY <1>1 DEF AfterUpto

\* Nothing changes once the loop has ended.
LEMMA Ended ==
    ASSUME NEW after, NEW memory, NEW len \in Nat, NEW t, AfterUpto(after, memory, len, t, len),
           NEW n \in 0 .. len, ~Going(after[n], len), \A k \in 0 .. n - 1 : Going(after[k], len),
           NEW k \in 0 .. len, ~Going(after[k], len)
    PROVE  after[k] = after[n]
<1>1. k >= n
  <2> SUFFICES ASSUME ~(k >= n) PROVE FALSE
    OBVIOUS
  <2>1. k \in 0 .. n - 1
    OBVIOUS
  <2> QED
    BY <2>1
<1> DEFINE N == {d \in Nat : n + d <= len => after[n + d] = after[n]}
<1>2. 0 \in N
  OBVIOUS
<1>3. ASSUME NEW d \in Nat, d \in N PROVE d + 1 \in N
  <2> SUFFICES ASSUME n + (d + 1) <= len PROVE after[n + (d + 1)] = after[n]
    OBVIOUS
  <2> DEFINE i == n + d
  <2>1. i \in Nat /\ i + 1 <= len /\ n + (d + 1) = i + 1 /\ after[i] = after[n]
    BY <1>3
  <2> HIDE DEF i
  <2>2. after[i + 1] = after[i]
    BY <2>1, AfterTurn
  <2> QED
    BY <2>1, <2>2
<1>4. Nat \subseteq N
  <2> HIDE DEF N
  <2> QED BY <1>2, <1>3, Induct
<1> DEFINE d == k - n
<1>5. d \in Nat /\ n + d = k /\ n + d <= len
  BY <1>1
<1> HIDE DEF d
<1>6. d \in N
  BY <1>4, <1>5
<1> QED
  BY <1>5, <1>6

\* Which messages begin with a time: those of J, in six bytes.
Messages(q, sz, J) ==
    /\ J \subseteq 1 .. Len(q)
    /\ \A j \in 1 .. Len(q) : Framed(q[j], sz[j])
    /\ \A j \in J : sz[j] >= 6 /\ q[j][2 + VarSize(sz[j])] = TimeHeader
    /\ \A j \in (1 .. Len(q)) \ J : sz[j] = 0 \/ q[j][2 + VarSize(sz[j])] # TimeHeader

\* Byte k of a message of J, after the five bytes of its time are overwritten.
Rewritten(x, s, k, t, j, J) == IF j \in J /\ k - (2 + s) \in 1 .. 5 THEN Pack(t)[k - (2 + s)] ELSE x[k]

\* A turn at a message of a group whose times all have their five bytes: within the
\* group it overwrites those bytes and nothing else.
LEMMA TurnWrites ==
    ASSUME NEW b, NEW len, NEW q, NEW sz, NEW off, Grouped(b, len, q, sz, off), NEW J, Messages(q, sz, J),
           NEW j \in 1 .. Len(q), NEW s, Place(s, b), s.at = off[j] + 1,
           \A i \in off[j] + 1 .. len : s.memory[i] = b[i], NEW t \in MinTime .. Power(5) - 1
    PROVE  /\ Going(s, len) /\ Turn(s, t).at = off[j + 1] + 1
           /\ \A i \in 1 .. len : Turn(s, t).memory[i] =
                IF j \in J /\ i - Start(off, sz, j) \in 1 .. 5
                THEN Pack(t)[i - Start(off, sz, j)] ELSE s.memory[i]
           /\ j \in J => Start(off, sz, j) + 5 <= off[j + 1]
<1> DEFINE p == Start(off, sz, j)
           o == off[j]
           e == off[j + 1]
           m == sz[j]
           v == VarSize(m)
           c == s.memory
           d == Turn(s, t).memory
<1>1. /\ len \in Nat /\ o \in Nat /\ e \in Nat /\ m \in Nat /\ v \in 1 .. 5 /\ Len(q[j]) = 1 + v + m
      /\ e = o + Len(q[j]) /\ e <= len /\ p \in Nat /\ p + m = e + 1 /\ p >= o + 3
  BY ONLY Grouped(b, len, q, sz, off), j \in 1 .. Len(q), GroupedPlaces
<1>2. p = o + 2 + v
  BY DEF Start
<1>3. /\ Len(b) = len + 6 /\ c \in Seq(Nat) /\ Len(c) = len + 6
      /\ \A k \in 1 .. Len(q[j]) : b[o + k] = q[j][k]
  BY DEF Grouped, Place
<1>4. \A i \in o + 1 .. len : c[i] = b[i]
  OBVIOUS
<1>5. t \in Nat
  BY Inputs
<1>6. /\ Going(s, len) /\ Turn(s, t).at = e + 1
      /\ d = IF c[p] = TimeHeader THEN Overwrite(c, p + 1, Pack(t)) ELSE c
  <2>1. \A i \in o + 1 .. e : s.memory[i] = b[i]
    BY <1>1, <1>4
  <2> HIDE DEF o, e
  <2>2. \A i \in off[j] + 1 .. off[j + 1] : s.memory[i] = b[i]
    BY <2>1 DEF o, e
  <2> QED
    BY ONLY <1>5, <2>2, Grouped(b, len, q, sz, off), j \in 1 .. Len(q), Place(s, b), s.at = off[j] + 1, TurnAt DEF o, e
<1>7. ASSUME NEW i \in 1 .. len
      PROVE  d[i] = IF c[p] = TimeHeader /\ i - p \in 1 .. 5 THEN Pack(t)[i - p] ELSE c[i]
  <2>1. CASE c[p] = TimeHeader
    <3>1. i \in 1 .. Len(c) /\ d = Overwrite(c, p + 1, Pack(t))
      BY <1>1, <1>3, <1>6, <2>1
    <3>2. Overwrite(c, p + 1, Pack(t))[i] = IF i - p \in 1 .. 5 THEN Pack(t)[i - p] ELSE c[i]
      <4>1. c \in Seq(Nat) /\ p \in Nat /\ t \in MinTime .. Power(5) - 1 /\ i \in 1 .. Len(c)
        BY <1>1, <1>3, <3>1
      <4> HIDE DEF c, p
      <4> QED BY ONLY <4>1, TimeWritten
    <3> HIDE DEF c, p, d
    <3> QED
      BY <2>1, <3>1, <3>2
  <2>2. CASE c[p] # TimeHeader
    BY <1>6, <2>2
  <2> QED
    BY <2>1, <2>2
\* What is read at the place of a time.
<1>8. m # 0 => c[p] = q[j][2 + v] /\ p <= len
  <2> SUFFICES ASSUME m # 0 PROVE c[p] = q[j][2 + v] /\ p <= len
    OBVIOUS
  <2> HIDE DEF p, o, e, m, v, c
  <2>1. 2 + v \in 1 .. Len(q[j]) /\ o + (2 + v) = p /\ p \in o + 1 .. len
    BY <1>1, <1>2
  <2> QED
    BY <1>3, <1>4, <2>1
<1>9. m = 0 /\ p <= len => c[p] # TimeHeader
  <2> SUFFICES ASSUME m = 0, p <= len PROVE c[p] # TimeHeader
    OBVIOUS
  <2>1. p = e + 1 /\ p \in o + 1 .. len
    <3> HIDE DEF p, o, e, m
    <3> QED BY <1>1
  <2>2. c[p] = b[p]
    BY <1>4, <2>1
  <2>3. CASE j = Len(q)
    <3>1. e < len
      BY <1>1, <2>1
    <3>2. b[e + 1] # TimeHeader
      BY <2>3, <3>1 DEF Grouped
    <3> QED
      BY <2>1, <2>2, <3>2
  <2>4. CASE j # Len(q)
    <3>1. j + 1 \in 1 .. Len(q)
      BY <2>4, GroupedEnd
    <3>2. Framed(q[j + 1], sz[j + 1]) /\ \A k \in 1 .. Len(q[j + 1]) : b[e + k] = q[j + 1][k]
      BY <3>1 DEF Grouped
    <3>3. 1 \in 1 .. Len(q[j + 1])
      <4>1. /\ sz[j + 1] \in Nat /\ VarSize(sz[j + 1]) \in 1 .. 5
            /\ Len(q[j + 1]) = 1 + VarSize(sz[j + 1]) + sz[j + 1]
        BY <3>1, GroupedPlaces
      <4> QED
        BY <4>1
    <3>4. b[e + 1] = LogHeader
      BY <3>2, <3>3 DEF Framed
    <3> QED
      BY <2>1, <2>2, <3>4 DEF LogHeader, TimeHeader
  <2> QED
    BY <2>3, <2>4
<1>10. CASE j \in J
  <2>1. m >= 6 /\ q[j][2 + v] = TimeHeader
    BY <1>10 DEF Messages
  <2>2. c[p] = TimeHeader
    BY <1>1, <1>8, <2>1
  <2>3. p + 5 <= e
    <3> HIDE DEF p, o, e, m
    <3> QED BY <1>1, <2>1
  <2> HIDE DEF d, c
  <2> QED
    BY <1>6, <1>7, <1>10, <2>2, <2>3 DEF d, c
<1>11. CASE j \notin J
  <2>1. m = 0 \/ q[j][2 + v] # TimeHeader
    BY <1>11 DEF Messages
  <2>2. c[p] # TimeHeader \/ p > len
    <3>1. CASE m = 0
      <4>1. p <= len \/ p > len
        <5> HIDE DEF p
        <5> QED BY ONLY <1>1
      <4> QED
        BY <1>9, <3>1, <4>1
    <3>2. CASE m # 0
      BY <1>8, <2>1, <3>2
    <3> QED
      BY <3>1, <3>2
  <2>3. ASSUME NEW i \in 1 .. len PROVE d[i] = c[i]
    <3>1. c[p] = TimeHeader => ~(i - p \in 1 .. 5)
      <4>1. p > len => ~(i - p \in 1 .. 5)
        <5> HIDE DEF p
        <5>1. p \in Nat /\ len \in Nat
          BY <1>1
        <5> QED BY ONLY <5>1, i \in 1 .. len
      <4> QED BY <2>2, <4>1
    <3> QED
      BY <1>7, <3>1
  <2> HIDE DEF d, c
  <2> QED
    BY <1>6, <1>11, <2>3 DEF d, c
<1> QED
  BY <1>10, <1>11

\* What k turns have made of the first k messages; the others are as they were.
Walked(s, k, b, len, q, sz, off, J, t) ==
    /\ s.at = off[k + 1] + 1
    /\ \A i \in off[k + 1] + 1 .. len : s.memory[i] = b[i]
    /\ \A j \in 1 .. k : \A x \in 1 .. Len(q[j]) :
         s.memory[off[j] + x] = Rewritten(q[j], VarSize(sz[j]), x, t, j, J)

LEMMA WalkStep ==
    ASSUME NEW b, NEW len, NEW q, NEW sz, NEW off, Grouped(b, len, q, sz, off), NEW J, Messages(q, sz, J),
           NEW t \in MinTime .. Power(5) - 1, NEW k \in Nat, k + 1 <= Len(q),
           NEW s, Place(s, b), Walked(s, k, b, len, q, sz, off, J, t)
    PROVE  Going(s, len) /\ Walked(Turn(s, t), k + 1, b, len, q, sz, off, J, t)
<1> DEFINE j == k + 1
           p == Start(off, sz, j)
           o == off[j]
           e == off[j + 1]
           v == VarSize(sz[j])
           c == s.memory
           d == Turn(s, t).memory
<1>1. /\ Len(q) \in Nat /\ len \in Nat /\ j \in 1 .. Len(q)
      /\ \A i \in 1 .. Len(q) : \A h \in i + 1 .. Len(q) + 1 : off[i + 1] <= off[h]
  BY GroupedEnd
<1>2. /\ c \in Seq(Nat) /\ s.at = o + 1 /\ \A i \in o + 1 .. len : c[i] = b[i]
      /\ \A h \in 1 .. k : \A x \in 1 .. Len(q[h]) :
           c[off[h] + x] = Rewritten(q[h], VarSize(sz[h]), x, t, h, J)
  BY DEF Walked, Place
<1>3. /\ o \in Nat /\ e \in Nat /\ v \in 1 .. 5 /\ Len(q[j]) \in Nat /\ e = o + Len(q[j]) /\ e <= len
      /\ p \in Nat /\ p >= o + 3 /\ p = o + 2 + v
  <2> HIDE DEF j
  <2>1. j \in 1 .. Len(q)
    BY <1>1
  <2>2. /\ off[j] \in Nat /\ off[j + 1] \in Nat /\ VarSize(sz[j]) \in 1 .. 5 /\ sz[j] \in Nat
        /\ Len(q[j]) = 1 + VarSize(sz[j]) + sz[j] /\ off[j + 1] = off[j] + Len(q[j]) /\ off[j + 1] <= len
        /\ Start(off, sz, j) \in Nat /\ Start(off, sz, j) >= off[j] + 3
    BY ONLY <2>1, Grouped(b, len, q, sz, off), GroupedPlaces
  <2>3. Start(off, sz, j) = off[j] + 2 + VarSize(sz[j])
    BY DEF Start
  <2>4. Len(q[j]) \in Nat
    BY <2>2
  <2> QED
    BY ONLY <2>2, <2>3, <2>4
<1>4. /\ Going(s, len) /\ Turn(s, t).at = e + 1
      /\ \A i \in 1 .. len : d[i] = IF j \in J /\ i - p \in 1 .. 5 THEN Pack(t)[i - p] ELSE c[i]
      /\ j \in J => p + 5 <= e
  <2>1. /\ j \in 1 .. Len(q) /\ s.at = off[j] + 1
        /\ \A i \in off[j] + 1 .. len : s.memory[i] = b[i]
    BY <1>1, <1>2
  <2> HIDE DEF j
  <2> QED
    BY ONLY <2>1, Grouped(b, len, q, sz, off), Messages(q, sz, J), Place(s, b),
            t \in MinTime .. Power(5) - 1, TurnWrites
<1>5. \A x \in 1 .. Len(q[j]) : b[o + x] = q[j][x]
  BY <1>1 DEF Grouped
<1> HIDE DEF p, o, e, v, c, d, j
<1>6. ASSUME NEW i \in e + 1 .. len PROVE d[i] = b[i]
  <2>1. i \in 1 .. len /\ i \in o + 1 .. len /\ ~(j \in J /\ i - p \in 1 .. 5)
    BY ONLY <1>1, <1>3, <1>4, i \in e + 1 .. len
  <2>2. d[i] = c[i] /\ c[i] = b[i]
    BY ONLY <1>2, <1>4, <2>1
  <2> QED
    BY <2>2
<1>7. ASSUME NEW h \in 1 .. k, NEW x \in 1 .. Len(q[h])
      PROVE  d[off[h] + x] = Rewritten(q[h], VarSize(sz[h]), x, t, h, J)
  <2> DEFINE i == off[h] + x
  <2>1. h \in 1 .. Len(q) /\ j \in h + 1 .. Len(q) + 1
    BY <1>1 DEF j
  <2>2. off[h] \in Nat /\ off[h + 1] \in Nat /\ off[h + 1] = off[h] + Len(q[h])
    BY ONLY <2>1, Grouped(b, len, q, sz, off), GroupedPlaces
  <2>3. off[h + 1] <= o
    BY ONLY <1>1, <2>1 DEF o
  <2>4. Len(q[h]) \in Nat
    <3>1. q \in Seq(Seq(Nat))
      BY DEF Grouped
    <3> QED
      BY ONLY <2>1, <3>1, ElementOfSeq, LenProperties
  <2>5. i \in 1 .. len /\ ~(i - p \in 1 .. 5)
    <3> DEFINE u == off[h]
               w == off[h + 1]
               y == Len(q[h])
    <3>1. u \in Nat /\ w \in Nat /\ w = u + y /\ w <= o /\ y \in Nat /\ x \in 1 .. y
      BY <2>2, <2>3, <2>4
    <3>2. o \in Nat /\ o <= len /\ len \in Nat /\ p \in Nat /\ p >= o + 3
      <4>1. o <= e
        BY ONLY <1>3
      <4> QED
        BY ONLY <1>1, <1>3, <4>1
    <3> HIDE DEF u, w, y
    <3>3. u + x \in 1 .. len /\ ~(u + x - p \in 1 .. 5)
      BY ONLY <3>1, <3>2
    <3>4. i = u + x
      BY DEF u
    <3> HIDE DEF i
    <3> QED
      BY ONLY <3>1, <3>2, <3>3, <3>4
  <2>6. d[i] = c[i]
    <3> HIDE DEF i
    <3> QED BY ONLY <1>4, <2>5
  <2> QED
    BY <1>2, <2>6
<1>8. ASSUME NEW x \in 1 .. Len(q[j])
      PROVE  d[off[j] + x] = Rewritten(q[j], VarSize(sz[j]), x, t, j, J)
  <2> DEFINE i == o + x
  <2>1. i \in 1 .. len /\ i \in o + 1 .. len /\ i - p = x - (2 + v)
    BY ONLY <1>1, <1>3, x \in 1 .. Len(q[j])
  <2> HIDE DEF i
  <2>2. d[i] = IF j \in J /\ i - p \in 1 .. 5 THEN Pack(t)[i - p] ELSE c[i]
    BY ONLY <1>4, <2>1
  <2>3. c[i] = q[j][x]
    <3>1. c[i] = b[i]
      BY ONLY <1>2, <2>1
    <3>2. b[i] = q[j][x]
      BY <1>5 DEF i
    <3> QED
      BY <3>1, <3>2
  <2>4. d[i] = IF j \in J /\ x - (2 + v) \in 1 .. 5 THEN Pack(t)[x - (2 + v)] ELSE q[j][x]
    BY ONLY <2>1, <2>2, <2>3
  <2>5. i = off[j] + x /\ v = VarSize(sz[j])
    BY DEF i, o, v
  <2> QED
    BY ONLY <2>4, <2>5 DEF Rewritten
<1>9. \A h \in 1 .. k + 1 : \A x \in 1 .. Len(q[h]) :
        d[off[h] + x] = Rewritten(q[h], VarSize(sz[h]), x, t, h, J)
  <2> SUFFICES ASSUME NEW h \in 1 .. k + 1, NEW x \in 1 .. Len(q[h])
               PROVE  d[off[h] + x] = Rewritten(q[h], VarSize(sz[h]), x, t, h, J)
    OBVIOUS
  <2>1. h \in 1 .. k \/ h = j
    BY DEF j
  <2> QED
    BY <1>7, <1>8, <2>1
<1>10. e = off[k + 1 + 1]
  BY DEF e, j
<1>11. Turn(s, t).at = off[k + 1 + 1] + 1
  BY <1>4, <1>10
<1> QED
  BY <1>4, <1>6, <1>9, <1>10, <1>11 DEF Walked, d

\* fix_log_group_time overwrites the five bytes of each time, and nothing else.
Overwritten(b, q, sz, off, J, t) ==
    \A j \in 1 .. Len(q) : \A x \in 1 .. Len(q[j]) :
        b[off[j] + x] = Rewritten(q[j], VarSize(sz[j]), x, t, j, J)

LEMMA FixWrites ==
    ASSUME NEW b, NEW len, NEW q, NEW sz, NEW off, Grouped(b, len, q, sz, off), NEW J, Messages(q, sz, J),
           NEW t \in MinTime .. Power(5) - 1
    PROVE  /\ FixTime(b, len, t) \in Seq(Nat) /\ Len(FixTime(b, len, t)) = Len(b)
           /\ Overwritten(FixTime(b, len, t), q, sz, off, J, t)
           /\ \A i \in off[Len(q) + 1] + 1 .. len : FixTime(b, len, t)[i] = b[i]
<1> DEFINE n == Len(q)
           out == FixTime(b, len, t)
           W(s, k) == Walked(s, k, b, len, q, sz, off, J, t)
<1>1. b \in Seq(Nat) /\ Len(b) = len + 6 /\ t \in Nat /\ t >= MinTime
  <2>1. MinTime \in Nat
    BY Inputs
  <2> QED
    BY <2>1 DEF Grouped
<1>2. /\ n \in Nat /\ len \in Nat /\ off[1] = 0 /\ off[n + 1] \in 0 .. len
      /\ \A j \in 1 .. n + 1 : off[j] \in Nat /\ off[j] >= j - 1
  BY GroupedEnd
<1>3. PICK f : /\ AfterUpto(f, b, len, t, len)
               /\ \A k \in 0 .. len : Place(f[k], b)
               /\ \E k \in 0 .. len : ~Going(f[k], len) /\ out = f[k].memory
  BY ONLY <1>1, <1>2, FixTimeIs, Zenon
<1>4. n \in 0 .. len
  <2>1. n + 1 \in 1 .. n + 1
    BY ONLY <1>2
  <2> HIDE DEF n
  <2> QED
    BY ONLY <1>2, <2>1
<1> HIDE DEF n, out, W
<1> DEFINE N == {k \in Nat : k <= n => W(f[k], k) /\ \A i \in 0 .. k - 1 : Going(f[i], len)}
<1>5. 0 \in N
  <2>1. f[0] = [memory |-> b, at |-> 1]
    <3>1. 0 \in 0 .. len
      BY <1>2
    <3> QED
      BY ONLY <1>3, <3>1 DEF AfterUpto
  <2>2. W(f[0], 0)
    BY <1>2, <2>1 DEF W, Walked
  <2> QED
    BY <2>2
<1>6. ASSUME NEW k \in Nat, k \in N PROVE k + 1 \in N
  <2> SUFFICES ASSUME k + 1 <= n PROVE W(f[k + 1], k + 1) /\ \A i \in 0 .. k + 1 - 1 : Going(f[i], len)
    OBVIOUS
  <2>1. W(f[k], k) /\ (\A i \in 0 .. k - 1 : Going(f[i], len)) /\ k \in 0 .. len /\ k + 1 <= len
    BY <1>2, <1>4, <1>6
  <2>2. Place(f[k], b)
    BY <1>3, <2>1
  <2>3. Going(f[k], len) /\ W(Turn(f[k], t), k + 1)
    <3>1. Walked(f[k], k, b, len, q, sz, off, J, t) /\ k + 1 <= Len(q)
      BY <2>1 DEF W, n
    <3> QED
      BY ONLY <2>2, <3>1, Grouped(b, len, q, sz, off), Messages(q, sz, J), k \in Nat,
              t \in MinTime .. Power(5) - 1, WalkStep DEF W
  <2>4. f[k + 1] = Turn(f[k], t)
    <3>1. f[k + 1] = IF Going(f[k], len) THEN Turn(f[k], t) ELSE f[k]
      BY ONLY <1>2, <1>3, <2>1, k \in Nat, AfterTurn
    <3> QED
      BY <2>3, <3>1
  <2>5. ASSUME NEW i \in 0 .. k + 1 - 1 PROVE Going(f[i], len)
    <3>1. i \in 0 .. k - 1 \/ i = k
      OBVIOUS
    <3> QED
      BY <2>1, <2>3, <3>1
  <2> QED
    BY <2>3, <2>4, <2>5
<1>7. W(f[n], n) /\ \A i \in 0 .. n - 1 : Going(f[i], len)
  <2>1. Nat \subseteq N
    <3> HIDE DEF N
    <3> QED BY <1>5, <1>6, Induct
  <2> QED
    BY <1>2, <2>1
<1>8. /\ f[n].at = off[n + 1] + 1 /\ \A i \in off[n + 1] + 1 .. len : f[n].memory[i] = b[i]
      /\ Overwritten(f[n].memory, q, sz, off, J, t)
  BY <1>7 DEF W, Walked, Overwritten, n
<1>9. ~Going(f[n], len)
  <2> SUFFICES ASSUME Going(f[n], len) PROVE FALSE
    OBVIOUS
  <2>1. off[n + 1] + 1 <= len /\ f[n].memory[off[n + 1] + 1] = LogHeader
    BY <1>8 DEF Going
  <2>2. off[n + 1] < len /\ off[n + 1] + 1 \in off[n + 1] + 1 .. len
    BY <1>2, <2>1
  <2>3. b[off[n + 1] + 1] # LogHeader
    BY <2>2 DEF Grouped, n
  <2> QED
    BY <1>8, <2>1, <2>2, <2>3
<1>10. PICK k \in 0 .. len : ~Going(f[k], len) /\ out = f[k].memory
  BY <1>3
<1>11. f[k] = f[n]
  BY ONLY <1>2, <1>3, <1>4, <1>7, <1>9, <1>10, Ended
<1>12. Place(f[n], b) /\ out = f[n].memory
  BY <1>3, <1>4, <1>10, <1>11
<1> QED
  BY <1>8, <1>12 DEF Place, out, n

\* The memory that fix_log_group_time works in.
LEMMA GroupedMemory ==
    ASSUME NEW q \in Seq(Seq(Nat)), NEW rest \in Seq(Nat), NEW next \in {LogHeader, TimeHeader},
           NEW sz \in [1 .. Len(q) -> Nat], \A j \in 1 .. Len(q) : Framed(q[j], sz[j]),
           rest # <<>> => rest[1] # LogHeader /\ rest[1] # TimeHeader,
           NEW off, Offsets(off, q), Laid(off, q, FlattenSeq(q))
    PROVE  Grouped((FlattenSeq(q) \o rest) \o Behind(next), Len(FlattenSeq(q) \o rest), q, sz, off)
<1> DEFINE f == FlattenSeq(q)
           b == f \o rest
           m == b \o Behind(next)
           n == Len(q)
           lf == Len(f)
           lr == Len(rest)
<1>1. n \in Nat /\ f \in Seq(Nat)
  BY FlattenType, LenProperties
<1>2. /\ off[n + 1] = lf /\ \A j \in 1 .. n : \A k \in 1 .. Len(q[j]) : f[off[j] + k] = q[j][k]
      /\ \A j \in 1 .. n : off[j] \in Nat /\ off[j + 1] \in Nat /\ off[j + 1] = off[j] + Len(q[j])
  <2>1. \A j \in 1 .. n : j \in 1 .. n + 1 /\ j + 1 \in 1 .. n + 1
    BY <1>1
  <2> QED
    BY <2>1 DEF Laid, Offsets
<1> HIDE DEF f
<1>3. lf \in Nat /\ lr \in Nat
  BY <1>1, LenProperties
<1>4. /\ b \in Seq(Nat) /\ Len(b) = lf + lr
      /\ \A i \in 1 .. lf + lr : b[i] = IF i <= lf THEN f[i] ELSE rest[i - lf]
  BY <1>1, ConcatProperties
<1>5. lr > 0 => rest # <<>>
  BY EmptySeq
<1> HIDE DEF b
<1>6. m \in Seq(Nat) /\ Len(m) = lf + lr + 6 /\ \A i \in 1 .. lf + lr : m[i] = b[i]
  <2>1. m \in Seq(Nat) /\ Len(m) = Len(b) + 6 /\ \A i \in 1 .. Len(b) : m[i] = b[i]
    BY ONLY <1>4, next \in {LogHeader, TimeHeader}, MemoryIs
  <2> QED
    BY <1>4, <2>1
<1> HIDE DEF m, lf, lr, n
<1>7. ASSUME NEW j \in 1 .. n, NEW k \in 1 .. Len(q[j]) PROVE m[off[j] + k] = q[j][k]
  <2> DEFINE x == Len(q[j])
             o == off[j]
             e == off[j + 1]
             i == o + k
  <2>1. x \in Nat
    BY ElementOfSeq, LenProperties DEF n
  <2>2. o \in Nat /\ e \in Nat /\ e = o + x
    BY <1>2
  <2>3. e <= lf
    <3>1. \A y \in 1 .. n : \A z \in y + 1 .. n + 1 : off[y + 1] <= off[z]
      BY OffsetsGrow DEF n
    <3>2. n + 1 \in j + 1 .. n + 1
      BY <1>1
    <3> QED
      BY <1>2, <3>1, <3>2
  <2>4. k \in 1 .. x
    OBVIOUS
  <2>5. f[i] = q[j][k]
    BY <1>2
  <2> HIDE DEF x, e, o
  <2>6. i \in 1 .. lf /\ i \in 1 .. lf + lr /\ i <= lf
    BY ONLY <1>3, <2>1, <2>2, <2>3, <2>4
  <2> HIDE DEF i
  <2>7. m[i] = f[i]
    BY ONLY <1>4, <1>6, <2>6
  <2> QED
    BY <2>5, <2>7 DEF i, o
<1>8. ASSUME off[n + 1] < lf + lr PROVE m[off[n + 1] + 1] # LogHeader /\ m[off[n + 1] + 1] # TimeHeader
  <2> DEFINE e == lf + 1
  <2>1. e \in 1 .. lf + lr /\ ~(e <= lf) /\ e - lf = 1 /\ lr > 0
    BY <1>2, <1>3, <1>8
  <2>2. m[e] = rest[1]
    <3> HIDE DEF e
    <3>1. m[e] = b[e] /\ b[e] = IF e <= lf THEN f[e] ELSE rest[e - lf]
      BY ONLY <1>4, <1>6, <2>1
    <3> QED
      BY ONLY <2>1, <3>1
  <2>3. off[n + 1] = lf /\ rest # <<>>
    BY <1>2, <1>5, <2>1
  <2> QED
    BY <2>2, <2>3
<1>9. off[n + 1] <= lf + lr /\ lf + lr \in Nat
  BY <1>2, <1>3
<1>10. Len(b) = lf + lr
  BY <1>4
<1> HIDE DEF b
<1>11. Grouped(m, Len(b), q, sz, off)
  BY <1>6, <1>7, <1>8, <1>9, <1>10 DEF Grouped, n
<1> QED
  BY <1>11 DEF m, b, f

\* The same messages with another time.
Rewrites(r, q, sz, J, t) ==
    /\ Len(r) = Len(q) /\ \A j \in 1 .. Len(q) : Len(r[j]) = Len(q[j])
    /\ \A j \in 1 .. Len(q) : \A k \in 1 .. Len(q[j]) :
           r[j][k] = Rewritten(q[j], VarSize(sz[j]), k, t, j, J)

\* The group that fix_log_group_time leaves.
Fixed(b, next, t) == SubSeq(FixTime(b \o Behind(next), Len(b), t), 1, Len(b))

\* fix_log_group_time turns the one into the other, whatever follows.
LEMMA FixGroup ==
    ASSUME NEW q \in Seq(Seq(Nat)), NEW r \in Seq(Seq(Nat)), NEW rest \in Seq(Nat),
           NEW next \in {LogHeader, TimeHeader},
           NEW sz \in [1 .. Len(q) -> Nat], NEW J,
           NEW t \in MinTime .. Power(5) - 1, Messages(q, sz, J), Rewrites(r, q, sz, J, t),
           rest # <<>> => rest[1] # LogHeader /\ rest[1] # TimeHeader
    PROVE  Fixed(FlattenSeq(q) \o rest, next, t) = FlattenSeq(r) \o rest
<1> DEFINE f == FlattenSeq(q)
           g == FlattenSeq(r)
           b == f \o rest
           c == g \o rest
           m == b \o Behind(next)
           n == Len(q)
           lf == Len(f)
           lr == Len(rest)
           l == Len(b)
           x == FixTime(m, l, t)
           y == SubSeq(x, 1, l)
<1>1. n \in Nat /\ f \in Seq(Nat) /\ g \in Seq(Nat)
  BY FlattenType, LenProperties
<1>2. PICK off : Offsets(off, q) /\ Laid(off, q, f)
  BY LaidOut
<1>3. PICK o2 : Offsets(o2, r) /\ Laid(o2, r, g)
  BY LaidOut
<1>4. o2 = off
  BY <1>1, <1>2, <1>3, OffsetsUnique DEF Rewrites
<1>5. /\ off[n + 1] = lf /\ Len(g) = lf
      /\ \A j \in 1 .. n : \A k \in 1 .. Len(q[j]) : g[off[j] + k] = r[j][k]
      /\ \A i \in 1 .. lf : \E j \in 1 .. n : \E k \in 1 .. Len(q[j]) : i = off[j] + k
  <2>1. /\ off[n + 1] = lf
        /\ \A i \in 1 .. lf : \E j \in 1 .. n : \E k \in 1 .. Len(q[j]) : i = off[j] + k
    BY <1>2 DEF Laid
  <2>2. Len(r) = n /\ \A j \in 1 .. n : Len(r[j]) = Len(q[j])
    BY DEF Rewrites
  <2>3. /\ off[n + 1] = Len(g)
        /\ \A j \in 1 .. n : \A k \in 1 .. Len(q[j]) : g[off[j] + k] = r[j][k]
    BY <1>3, <1>4, <2>2 DEF Laid
  <2> QED
    BY <2>1, <2>3
<1>6. Grouped(m, l, q, sz, off)
  <2>1. \A j \in 1 .. Len(q) : Framed(q[j], sz[j])
    BY DEF Messages
  <2> QED
    BY <1>2, <2>1, GroupedMemory
<1>7. /\ x \in Seq(Nat) /\ Len(x) = Len(m) /\ Overwritten(x, q, sz, off, J, t)
      /\ \A i \in off[n + 1] + 1 .. l : x[i] = m[i]
  <2> HIDE DEF m, l
  <2> QED
    BY ONLY <1>6, Messages(q, sz, J), t \in MinTime .. Power(5) - 1, FixWrites
<1> HIDE DEF f, g
<1>8. lf \in Nat /\ lr \in Nat
  BY <1>1, LenProperties
<1>9. /\ b \in Seq(Nat) /\ l = lf + lr
      /\ \A i \in 1 .. lf + lr : b[i] = IF i <= lf THEN f[i] ELSE rest[i - lf]
  BY <1>1, ConcatProperties
<1>10. /\ c \in Seq(Nat) /\ Len(c) = lf + lr
       /\ \A i \in 1 .. lf + lr : c[i] = IF i <= lf THEN g[i] ELSE rest[i - lf]
  <2>1. /\ c \in Seq(Nat) /\ Len(c) = Len(g) + lr
        /\ \A i \in 1 .. Len(g) + lr : c[i] = IF i <= Len(g) THEN g[i] ELSE rest[i - Len(g)]
    BY <1>1, ConcatProperties
  <2> QED
    BY <1>5, <2>1
<1> HIDE DEF b
<1>11. Len(m) = l + 6 /\ \A i \in 1 .. l : m[i] = b[i]
  BY ONLY <1>9, next \in {LogHeader, TimeHeader}, MemoryIs
<1> HIDE DEF c, m, lf, lr, n, l, x
<1>12. ASSUME NEW i \in 1 .. l PROVE x[i] = c[i]
  <2>1. CASE i <= lf
    <3>1. i \in 1 .. lf
      BY <1>8, <1>9, <2>1
    <3>2. PICK j \in 1 .. n : \E k \in 1 .. Len(q[j]) : i = off[j] + k
      BY <1>5, <3>1
    <3>3. PICK k \in 1 .. Len(q[j]) : i = off[j] + k
      BY <3>2
    <3>4. j \in 1 .. Len(q)
      BY DEF n
    <3>5. r[j][k] = Rewritten(q[j], VarSize(sz[j]), k, t, j, J)
      BY <3>4 DEF Rewrites
    <3>6. x[off[j] + k] = Rewritten(q[j], VarSize(sz[j]), k, t, j, J)
      BY <1>7, <3>4 DEF Overwritten
    <3>7. g[off[j] + k] = r[j][k]
      BY <1>5
    <3>8. c[i] = g[i]
      BY <1>8, <1>9, <1>10, <2>1
    <3> QED
      BY <3>3, <3>5, <3>6, <3>7, <3>8
  <2>2. CASE ~(i <= lf)
    <3>1. i \in lf + 1 .. l /\ i \in 1 .. lf + lr
      BY <1>8, <1>9, <2>2
    <3>2. x[i] = m[i] /\ m[i] = b[i]
      BY <1>5, <1>7, <1>11, <3>1
    <3>3. b[i] = rest[i - lf] /\ c[i] = rest[i - lf]
      BY <1>9, <1>10, <2>2, <3>1
    <3> QED
      BY <3>2, <3>3
  <2> QED
    BY <2>1, <2>2
<1>13. y \in Seq(Nat) /\ Len(y) = l /\ \A i \in 1 .. l : y[i] = x[i]
  <2>1. x \in Seq(Nat) /\ l \in Nat /\ Len(x) = l + 6
    BY <1>7, <1>8, <1>9, <1>11
  <2>2. 1 \in 1 .. Len(x) + 1 /\ l \in 1 - 1 .. Len(x)
    BY <2>1
  <2>3. /\ y \in Seq(Nat) /\ Len(y) = IF 1 <= l THEN l - 1 + 1 ELSE 0
        /\ \A i \in 1 .. l - 1 + 1 : y[i] = x[1 + i - 1]
    BY ONLY <2>1, <2>2, SubSeqProperties
  <2>4. \A i \in 1 .. l : i \in 1 .. l - 1 + 1 /\ 1 + i - 1 = i
    BY <2>1
  <2>5. Len(y) = l
    BY ONLY <2>1, <2>3
  <2> QED
    BY <2>3, <2>4, <2>5
<1>14. y = c
  <2> HIDE DEF y
  <2>1. Len(y) = Len(c)
    BY <1>9, <1>10, <1>13
  <2>2. \A i \in 1 .. Len(y) : y[i] = c[i]
    BY <1>12, <1>13
  <2> QED
    BY <1>10, <1>13, <2>1, <2>2, SeqEqual
<1> QED
  BY <1>14 DEF y, x, m, l, b, c, f, g, Fixed

LEMMA FixedType ==
    ASSUME NEW b \in Seq(Nat), NEW next \in {LogHeader, TimeHeader}, NEW t \in Nat
    PROVE  Fixed(b, next, t) \in Seq(Nat) /\ Len(Fixed(b, next, t)) = Len(b)
<1> DEFINE m == b \o Behind(next)
           x == FixTime(m, Len(b), t)
<1>1. m \in Seq(Nat) /\ Len(m) = Len(b) + 6 /\ Len(b) \in Nat
  BY MemoryIs, LenProperties
<1> HIDE DEF m
<1>2. x \in Seq(Nat) /\ Len(x) = Len(b) + 6
  BY <1>1, FixTimeType
<1> HIDE DEF x
<1>3. SubSeq(x, 1, Len(b)) \in Seq(Nat) /\ Len(SubSeq(x, 1, Len(b))) = Len(b)
  BY <1>1, <1>2, SubSeqProperties
<1> QED
  BY <1>3 DEF Fixed, x, m

-----------------------------------------------------------------------------
(***************************************************************************)
(* Where fix_log_group_time writes behind the group                        *)
(***************************************************************************)
\* The bytes behind the group are as they were, and the loop is at a message that no
\* turn has changed, or ends: after a time that was overwritten beyond its message.
Tidy(s, k, b, len, q, off) ==
    /\ \A i \in len + 1 .. len + 6 : s.memory[i] = b[i]
    /\ \/ ~Going(s, len)
       \/ /\ k <= Len(q) /\ s.at = off[k + 1] + 1
          /\ \A i \in off[k + 1] + 1 .. len + 6 : s.memory[i] = b[i]

\* Every time has its five bytes in front of the end of the group.
Roomy(b, len, q, sz, off) ==
    \A j \in 1 .. Len(q) : b[Start(off, sz, j)] = TimeHeader => Start(off, sz, j) + 5 <= len

LEMMA TidyTurn ==
    ASSUME NEW b, NEW len, NEW q, NEW sz, NEW off, Grouped(b, len, q, sz, off),
           Roomy(b, len, q, sz, off), NEW t \in MinTime .. Power(5) - 1, NEW k \in Nat,
           NEW s, Place(s, b), Tidy(s, k, b, len, q, off), Going(s, len)
    PROVE  Tidy(Turn(s, t), k + 1, b, len, q, off)
<1> DEFINE j == k + 1
           p == Start(off, sz, j)
           m == sz[j]
           o == off[j]
           e == off[j + 1]
           c == s.memory
           d == Turn(s, t).memory
           y == Turn(s, t).at
<1>1. /\ k <= Len(q) /\ s.at = o + 1
      /\ \A i \in o + 1 .. len + 6 : c[i] = b[i]
      /\ \A i \in len + 1 .. len + 6 : c[i] = b[i]
  BY DEF Tidy
<1>2. Len(q) \in Nat /\ len \in Nat /\ off[Len(q) + 1] \in 0 .. len
  BY GroupedEnd
<1>3. j \in 1 .. Len(q)
  <2> SUFFICES ASSUME k = Len(q) PROVE FALSE
    BY <1>1, <1>2
  <2>1. o = off[Len(q) + 1] /\ o + 1 <= len /\ c[o + 1] = LogHeader
    BY <1>1 DEF Going
  <2>2. o < len /\ o + 1 \in o + 1 .. len + 6
    <3>1. o \in Nat
      BY <1>2, <2>1
    <3> HIDE DEF o
    <3> QED BY <1>2, <2>1, <3>1
  <2>3. b[o + 1] # LogHeader
    BY <2>1, <2>2 DEF Grouped
  <2> QED
    BY <1>1, <2>1, <2>2, <2>3
<1>4. /\ o \in Nat /\ e \in Nat /\ m \in Nat /\ e <= len /\ e >= o
      /\ p \in Nat /\ p >= o + 3 /\ p + m = e + 1
  <2> HIDE DEF j
  <2>1. /\ off[j] \in Nat /\ off[j + 1] \in Nat /\ VarSize(sz[j]) \in 1 .. 5 /\ sz[j] \in Nat
        /\ Len(q[j]) = 1 + VarSize(sz[j]) + sz[j] /\ off[j + 1] = off[j] + Len(q[j]) /\ off[j + 1] <= len
        /\ Start(off, sz, j) \in Nat /\ Start(off, sz, j) >= off[j] + 3
        /\ Start(off, sz, j) + sz[j] = off[j + 1] + 1
    BY ONLY <1>3, Grouped(b, len, q, sz, off), GroupedPlaces
  <2>2. off[j + 1] >= off[j]
    BY ONLY <2>1
  <2> QED
    BY ONLY <2>1, <2>2
<1>5. c \in Seq(Nat) /\ Len(c) = len + 6
  BY DEF Place, Grouped
<1>6. y = e + 1 /\ d = IF c[p] = TimeHeader THEN Overwrite(c, p + 1, Pack(t)) ELSE c
  <2>1. t \in Nat
    BY Inputs
  <2>2. \A i \in o + 1 .. e : c[i] = b[i]
    <3>1. \A i \in o + 1 .. e : i \in o + 1 .. len + 6
      <4> HIDE DEF o, e
      <4> QED BY ONLY <1>2, <1>4
    <3> QED
      BY ONLY <1>1, <3>1
  <2>3. s.at = off[j] + 1
    BY <1>1
  <2> HIDE DEF j
  <2> QED
    BY ONLY <1>3, <2>1, <2>2, <2>3, Grouped(b, len, q, sz, off), Place(s, b), TurnAt
<1>7. c[p] = b[p]
  <2>1. p \in o + 1 .. len + 6
    <3> HIDE DEF p, o, e, m
    <3> QED BY ONLY <1>2, <1>4
  <2> QED
    BY ONLY <1>1, <2>1
<1>8. e = off[k + 1 + 1]
  OBVIOUS
<1>9. CASE c[p] # TimeHeader
  <2>1. d = c /\ k + 1 <= Len(q) /\ y = e + 1
    BY <1>3, <1>6, <1>9
  <2>2. \A i \in e + 1 .. len + 6 : c[i] = b[i]
    <3>1. \A i \in e + 1 .. len + 6 : i \in o + 1 .. len + 6
      <4> HIDE DEF e, o
      <4> QED BY ONLY <1>2, <1>4
    <3> QED
      BY ONLY <1>1, <3>1
  <2> HIDE DEF d, c, y, e
  <2> QED
    BY <1>1, <1>8, <2>1, <2>2 DEF Tidy, d, y
<1>10. CASE c[p] = TimeHeader
  <2>1. p + 5 <= len
    BY <1>3, <1>7, <1>10 DEF Roomy
  <2>2. d = Overwrite(c, p + 1, Pack(t))
    BY <1>6, <1>10
  <2>3. /\ \A i \in 1 .. Len(c) : d[i] = IF i - p \in 1 .. 5 THEN Pack(t)[i - p] ELSE c[i]
        /\ \A i \in 1 .. 5 : Pack(t)[i] # LogHeader
    <3> HIDE DEF d, c, p
    <3>1. c \in Seq(Nat) /\ p \in Nat /\ t \in MinTime .. Power(5) - 1
      BY ONLY <1>4, <1>5, t \in MinTime .. Power(5) - 1
    <3>2. /\ \A i \in 1 .. Len(c) : Overwrite(c, p + 1, Pack(t))[i] = IF i - p \in 1 .. 5 THEN Pack(t)[i - p] ELSE c[i]
          /\ \A i \in 1 .. 5 : Pack(t)[i] \in Nat /\ Pack(t)[i] # LogHeader
      BY ONLY <3>1, TimeWritten
    <3> QED BY ONLY <2>2, <3>2
  <2> HIDE DEF d, c, p, o, e, y, m, j
  <2>4. ASSUME NEW i \in len + 1 .. len + 6 PROVE d[i] = b[i]
    <3>1. i \in 1 .. Len(c) /\ ~(i - p \in 1 .. 5)
      BY ONLY <1>2, <1>4, <1>5, <2>1, i \in len + 1 .. len + 6
    <3> QED
      BY ONLY <1>1, <2>3, <3>1, i \in len + 1 .. len + 6
  <2>5. CASE p + 5 <= e
    <3>1. ASSUME NEW i \in e + 1 .. len + 6 PROVE d[i] = b[i]
      <4>1. i \in 1 .. Len(c) /\ ~(i - p \in 1 .. 5) /\ i \in o + 1 .. len + 6
        BY ONLY <1>2, <1>4, <1>5, <2>5, i \in e + 1 .. len + 6
      <4> QED
        BY ONLY <1>1, <2>3, <4>1
    <3>2. k + 1 <= Len(q)
      BY <1>3 DEF j
    <3> QED
      BY <1>6, <1>8, <2>4, <3>1, <3>2 DEF Tidy, d, y
  <2>6. CASE ~(p + 5 <= e)
    <3>1. y \in 1 .. Len(c) /\ (y - p \in 1 .. 5 \/ y = p)
      BY ONLY <1>2, <1>4, <1>5, <1>6, <2>1, <2>6
    <3>2. CASE y - p \in 1 .. 5
      <4>1. d[y] = Pack(t)[y - p]
        BY ONLY <2>3, <3>1, <3>2
      <4>2. d[y] # LogHeader
        BY ONLY <2>3, <3>2, <4>1
      <4> QED
        BY <2>4, <4>2 DEF Tidy, Going, d, y
    <3>3. CASE y = p
      <4>1. ~(y - p \in 1 .. 5)
        BY ONLY <1>4, <3>3
      <4>2. d[y] = TimeHeader
        BY ONLY <1>10, <2>3, <3>1, <3>3, <4>1
      <4>3. d[y] # LogHeader
        BY <4>2 DEF TimeHeader, LogHeader
      <4> QED
        BY <2>4, <4>3 DEF Tidy, Going, d, y
    <3> QED
      BY <3>1, <3>2, <3>3
  <2> QED
    BY <2>5, <2>6
<1> QED
  BY <1>9, <1>10

\* fix_log_group_time stays within a group in which every time has its room.
LEMMA NoOverrun ==
    ASSUME NEW b, NEW len, NEW q, NEW sz, NEW off, Grouped(b, len, q, sz, off),
           Roomy(b, len, q, sz, off), NEW t \in MinTime .. Power(5) - 1
    PROVE  \A i \in len + 1 .. len + 6 : FixTime(b, len, t)[i] = b[i]
<1> DEFINE out == FixTime(b, len, t)
<1>1. b \in Seq(Nat) /\ len \in Nat /\ off[1] = 0 /\ Len(q) \in Nat /\ t \in Nat /\ t >= MinTime
  <2>1. MinTime \in Nat
    BY Inputs
  <2>2. b \in Seq(Nat)
    BY DEF Grouped
  <2>3. len \in Nat /\ off[1] = 0 /\ Len(q) \in Nat
    BY ONLY Grouped(b, len, q, sz, off), GroupedEnd
  <2>4. Power(5) \in Nat
    BY Powers
  <2> QED
    BY ONLY <2>1, <2>2, <2>3, <2>4, t \in MinTime .. Power(5) - 1
<1>2. PICK f : /\ AfterUpto(f, b, len, t, len)
               /\ \A k \in 0 .. len : Place(f[k], b)
               /\ \E k \in 0 .. len : ~Going(f[k], len) /\ out = f[k].memory
  BY ONLY <1>1, FixTimeIs, Zenon
<1> HIDE DEF out
<1> DEFINE T(s, k) == Tidy(s, k, b, len, q, off)
           N == {k \in Nat : k <= len => T(f[k], k)}
<1>3. 0 \in N
  <2>1. f[0] = [memory |-> b, at |-> 1]
    <3>1. 0 \in 0 .. len
      BY <1>1
    <3> QED
      BY ONLY <1>2, <3>1 DEF AfterUpto
  <2> QED
    BY <1>1, <2>1 DEF Tidy
<1>4. ASSUME NEW k \in Nat, k \in N PROVE k + 1 \in N
  <2> SUFFICES ASSUME k + 1 <= len PROVE T(f[k + 1], k + 1)
    OBVIOUS
  <2>1. T(f[k], k) /\ k \in 0 .. len
    BY <1>1, <1>4
  <2>2. Place(f[k], b)
    BY <1>2, <2>1
  <2>3. f[k + 1] = IF Going(f[k], len) THEN Turn(f[k], t) ELSE f[k]
    BY ONLY <1>1, <1>2, k + 1 <= len, k \in Nat, AfterTurn
  <2>4. CASE Going(f[k], len)
    <3>1. T(Turn(f[k], t), k + 1)
      BY ONLY <2>1, <2>2, <2>4, Grouped(b, len, q, sz, off), Roomy(b, len, q, sz, off), k \in Nat,
              t \in MinTime .. Power(5) - 1, TidyTurn
    <3> QED
      BY <2>3, <2>4, <3>1
  <2>5. CASE ~Going(f[k], len)
    BY <2>1, <2>3, <2>5 DEF Tidy
  <2> QED
    BY <2>4, <2>5
<1>5. Nat \subseteq N
  <2> HIDE DEF N
  <2> QED BY <1>3, <1>4, Induct
<1>6. PICK k \in 0 .. len : out = f[k].memory
  BY <1>2
<1>7. T(f[k], k)
  BY <1>5
<1> QED
  BY <1>6, <1>7 DEF Tidy, out


-----------------------------------------------------------------------------
(***************************************************************************)
(* Logs that get a new time                                                *)
(***************************************************************************)
\* A flattened sequence begins with its first part.
LEMMA FirstOf ==
    ASSUME NEW S, NEW q \in Seq(Seq(S)), q # <<>>, q[1] # <<>>
    PROVE  FlattenSeq(q) # <<>> /\ FlattenSeq(q)[1] = q[1][1]
<1>1. PICK off : Offsets(off, q) /\ Laid(off, q, FlattenSeq(q))
  BY LaidOut
<1>2. 1 \in 1 .. Len(q)
  BY EmptySeq
<1>3. q[1] \in Seq(S)
  BY <1>2, ElementOfSeq
<1>4. 1 \in 1 .. Len(q[1])
  BY <1>3, EmptySeq
<1>5. FlattenSeq(q)[off[1] + 1] = q[1][1] /\ off[1] = 0
  BY <1>1, <1>2, <1>4 DEF Laid, Offsets
<1>6. Len(q[1]) \in Nat /\ Len(FlattenSeq(q)) \in Nat /\ Len(q[1]) <= Len(FlattenSeq(q))
  BY <1>2, FlattenElement
<1>7. FlattenSeq(q) # <<>>
  BY <1>4, <1>6, EmptySeq
<1> QED
  BY <1>5, <1>7

\* A length and what has that length, behind a header.
LEMMA FrameIs ==
    ASSUME NEW c \in Seq(Nat), Len(c) < Power(5)
    PROVE  /\ Framed(<<LogHeader>> \o Pack(Len(c)) \o c, Len(c))
           /\ \A i \in 1 .. Len(c) :
                 (<<LogHeader>> \o Pack(Len(c)) \o c)[1 + VarSize(Len(c)) + i] = c[i]
<1> DEFINE m == Len(c)
           s == VarSize(m)
           w == Pack(m)
           pre == <<LogHeader>> \o w
           x == pre \o c
<1>1. m \in Nat /\ s \in 1 .. 5 /\ w \in Seq(Nat) /\ Len(w) = s /\ Announce(m) = 1 + s + m
  BY LenProperties, VarSizeCases, PackLength, AnnounceType
<1>2. m < Power(5)
  OBVIOUS
<1> HIDE DEF m, s, w
<1>3. /\ pre \in Seq(Nat) /\ Len(pre) = s + 1 /\ pre[1] = LogHeader
      /\ \A i \in 1 .. s : pre[i + 1] = w[i]
  BY <1>1, Headers, ConsIs
<1> HIDE DEF pre
<1>4. /\ x \in Seq(Nat) /\ Len(x) = s + 1 + m
      /\ \A i \in 1 .. s + 1 + m : x[i] = IF i <= s + 1 THEN pre[i] ELSE c[i - (s + 1)]
  <2>1. /\ x \in Seq(Nat) /\ Len(x) = Len(pre) + Len(c)
        /\ \A i \in 1 .. Len(pre) + Len(c) : x[i] = IF i <= Len(pre) THEN pre[i] ELSE c[i - Len(pre)]
    BY <1>3, ConcatProperties
  <2> QED
    BY <1>3, <2>1 DEF m
<1> HIDE DEF x
<1>5. x[1] = LogHeader
  BY <1>1, <1>3, <1>4
<1>6. ASSUME NEW i \in 1 .. s PROVE x[1 + i] = w[i]
  <2>1. 1 + i \in 1 .. s + 1 + m /\ 1 + i <= s + 1 /\ 1 + i = i + 1
    BY <1>1
  <2> QED
    BY <1>3, <1>4, <2>1
<1>7. ASSUME NEW i \in 1 .. m PROVE x[1 + s + i] = c[i]
  <2> DEFINE k == 1 + s + i
  <2>1. k \in 1 .. s + 1 + m /\ ~(k <= s + 1) /\ k - (s + 1) = i
    BY <1>1
  <2> HIDE DEF k
  <2>2. x[k] = c[i]
    BY <1>4, <2>1
  <2> QED
    BY <2>2 DEF k
<1>8. Len(x) = Announce(m)
  BY <1>1, <1>4
<1>9. Framed(x, m)
  BY <1>1, <1>2, <1>4, <1>5, <1>6, <1>8 DEF Framed, s, w
<1> QED
  BY <1>7, <1>9 DEF x, pre, m, s, w

LEMMA EncodableIs ==
    ASSUME NEW log, Encodable(log)
    PROVE  /\ FieldBytes(log) \in Seq(Nat) /\ Len(FieldBytes(log)) \in Nat /\ Len(FieldBytes(log)) < Power(5)
           /\ LogMessage(log) = <<LogHeader>> \o Pack(Len(FieldBytes(log))) \o FieldBytes(log)
<1>1. FieldBytes(log) \in Seq(Nat) /\ Len(FieldBytes(log)) < Power(5)
  BY FlattenType DEF Encodable, FieldBytes
<1>2. LogMessage(log) = Message(LogHeader, FieldBytes(log))
  BY DEF LogMessage, FieldBytes, FieldMessages
<1> QED
  BY <1>1, <1>2, MessageIs, Headers, LenProperties

\* A log that begins with a time.
LEMMA TimeFirst ==
    ASSUME NEW u \in 0 .. Power(5) - 1, u >= Power(4), NEW rest \in Seq(FieldTypes),
           FieldMessages(rest) \in Seq(Seq(Nat))
    PROVE  /\ FieldMessages(<<<<u>>>> \o rest) \in Seq(Seq(Nat))
           /\ FieldBytes(<<<<u>>>> \o rest) = TimeBytes(u) \o FieldBytes(rest)
<1> DEFINE log == <<<<u>>>> \o rest
           q == FieldMessages(rest)
           n == Len(rest)
           x == TimeBytes(u)
           w == <<x>> \o q
<1>1. n \in Nat /\ DOMAIN rest = 1 .. n /\ q \in Seq(Seq(Nat)) /\ u \in Nat
  BY LenProperties, Powers
<1>2. q = [i \in 1 .. n |-> FieldMessage(rest[i])]
  BY <1>1 DEF FieldMessages
<1>3. Len(q) = n
  BY <1>1, <1>2
<1>4. <<u>> \in FieldTypes
  BY DEF FieldTypes
<1>5. x \in Seq(Nat) /\ FieldMessage(<<u>>) = x
  BY <1>1, TimeLength, TimeMessageIs
<1>6. /\ log \in Seq(FieldTypes) /\ Len(log) = n + 1 /\ log[1] = <<u>>
      /\ \A i \in 1 .. n : log[i + 1] = rest[i]
  BY <1>4, ConsIs
<1>7. \A i \in 1 .. n : q[i] = FieldMessage(rest[i])
  BY <1>2
<1> HIDE DEF q, log, x, n
<1>8. /\ w \in Seq(Seq(Nat)) /\ Len(w) = n + 1 /\ w[1] = x
      /\ \A i \in 1 .. n : w[i + 1] = q[i]
  BY <1>1, <1>3, <1>5, ConsIs
<1>9. DOMAIN log = 1 .. n + 1
  BY <1>6, LenProperties
<1> HIDE DEF w
<1>10. ASSUME NEW i \in 1 .. n + 1 PROVE FieldMessage(log[i]) = w[i]
  <2>1. CASE i = 1
    BY <1>5, <1>6, <1>8, <2>1
  <2>2. CASE i # 1
    <3> DEFINE j == i - 1
    <3>1. j \in 1 .. n /\ i = j + 1
      BY <1>1, <2>2
    <3> HIDE DEF j
    <3> QED
      BY <1>6, <1>7, <1>8, <3>1
  <2> QED
    BY <2>1, <2>2
<1>11. w = [i \in 1 .. n + 1 |-> w[i]]
  BY <1>1, <1>8
<1>12. FieldMessages(log) = w
  BY <1>9, <1>10, <1>11 DEF FieldMessages
<1>13. FlattenSeq(w) = x \o FlattenSeq(q)
  <2>1. <<x>> \in Seq(Seq(Nat)) /\ FlattenSeq(<<x>>) = x
    BY <1>5, FlattenOne
  <2>2. FlattenSeq(<<x>> \o q) = FlattenSeq(<<x>>) \o FlattenSeq(q)
    BY <1>1, <2>1, FlattenConcat
  <2> QED
    BY <2>1, <2>2 DEF w
<1> QED
  BY <1>8, <1>12, <1>13 DEF FieldBytes, log, q, x

\* The bytes of a log that begins with a time, and of the same log with another.
LEMMA TimedBytes ==
    ASSUME NEW u \in Power(4) .. Power(5) - 1, NEW y \in Seq(Nat)
    PROVE  /\ TimeBytes(u) \o y \in Seq(Nat) /\ Len(TimeBytes(u) \o y) = 6 + Len(y) /\ Len(y) \in Nat
           /\ (TimeBytes(u) \o y)[1] = TimeHeader
           /\ \A i \in 1 .. 5 : (TimeBytes(u) \o y)[i + 1] = Pack(u)[i]
           /\ \A i \in 1 .. Len(y) : (TimeBytes(u) \o y)[6 + i] = y[i]
<1> DEFINE x == TimeBytes(u)
           w == Pack(u)
           l == Len(y)
           c == x \o y
<1>1. u \in Nat /\ u >= Power(4) /\ u < Power(5)
  <2>1. Power(4) \in Nat /\ Power(5) \in Nat
    BY Powers
  <2> QED
    BY <2>1
<1>2. x \in Seq(Nat) /\ Len(x) = 6 /\ w \in Seq(Nat) /\ l \in Nat
  BY <1>1, TimeLength, PackLength, LenProperties
<1>3. Len(w) = 5
  <2>1. Len(w) = VarSize(u) /\ VarSize(u) \in 1 .. 5 /\ ~(VarSize(u) <= 4)
    <3>1. Power(4) \in Nat
      BY Powers
    <3> QED
      BY <1>1, <3>1, PackLength, VarSizeCases
  <2> QED
    BY <2>1
<1>4. x = <<TimeHeader>> \o w
  BY DEF TimeBytes
<1> HIDE DEF w, l
<1>5. x[1] = TimeHeader /\ \A i \in 1 .. 5 : x[i + 1] = w[i]
  BY <1>2, <1>3, <1>4, Headers, ConsIs
<1> HIDE DEF x
<1>6. /\ c \in Seq(Nat) /\ Len(c) = 6 + l
      /\ \A i \in 1 .. 6 + l : c[i] = IF i <= 6 THEN x[i] ELSE y[i - 6]
  <2>1. /\ c \in Seq(Nat) /\ Len(c) = Len(x) + Len(y)
        /\ \A i \in 1 .. Len(x) + Len(y) : c[i] = IF i <= Len(x) THEN x[i] ELSE y[i - Len(x)]
    BY <1>2, ConcatProperties
  <2> QED
    BY <1>2, <2>1 DEF l
<1> HIDE DEF c
<1>7. c[1] = TimeHeader
  BY <1>2, <1>5, <1>6
<1>8. ASSUME NEW i \in 1 .. 5 PROVE c[i + 1] = w[i]
  <2>1. i + 1 \in 1 .. 6 + l /\ i + 1 <= 6
    BY <1>2
  <2> QED
    BY SMTT(60), <1>5, <1>6, <2>1
<1>9. ASSUME NEW i \in 1 .. l PROVE c[6 + i] = y[i]
  <2> DEFINE k == 6 + i
  <2>1. k \in 1 .. 6 + l /\ ~(k <= 6) /\ k - 6 = i
    BY <1>2
  <2> HIDE DEF k
  <2>2. c[k] = y[i]
    BY <1>6, <2>1
  <2> QED
    BY <2>2 DEF k
<1> QED
  BY <1>2, <1>6, <1>7, <1>8, <1>9 DEF c, x, w, l

\* The message of a log whose time is replaced differs in the five bytes of the time.
LEMMA TimedLog ==
    ASSUME NEW log \in Seq(FieldTypes), Encodable(log), Timed(log), NEW t \in MinTime .. Power(5) - 1
    PROVE  LET m == Len(FieldBytes(log))
               x == LogMessage(log)
               y == LogMessage(Retimed(log, t))
           IN  /\ m >= 6 /\ x[2 + VarSize(m)] = TimeHeader
               /\ y \in Seq(Nat) /\ Len(y) = Len(x)
               /\ \A k \in 1 .. Len(x) :
                     y[k] = IF k - (2 + VarSize(m)) \in 1 .. 5 THEN Pack(t)[k - (2 + VarSize(m))] ELSE x[k]
<1> DEFINE rest == Tail(log)
           u == log[1][1]
           z == FieldBytes(rest)
           c == TimeBytes(u) \o z
           d == TimeBytes(t) \o z
           m == Len(FieldBytes(log))
           s == VarSize(m)
           x == LogMessage(log)
           y == LogMessage(Retimed(log, t))
           l == Len(z)
<1>1. Power(4) \in Nat /\ Power(5) \in Nat /\ MinTime \in Power(4) .. Power(5) - 1
  BY Inputs
<1>2. log # <<>> /\ Len(log[1]) = 1 /\ u >= MinTime
  BY DEF Timed
<1>3. /\ rest \in Seq(FieldTypes) /\ log = <<log[1]>> \o rest /\ log[1] \in FieldTypes
      /\ Len(log) \in Nat /\ Len(rest) = Len(log) - 1 /\ \A i \in 1 .. Len(rest) : rest[i] = log[i + 1]
  <2>1. /\ Head(log) \in FieldTypes /\ Tail(log) \in Seq(FieldTypes) /\ Len(Tail(log)) = Len(log) - 1
        /\ \A i \in 1 .. Len(Tail(log)) : Tail(log)[i] = log[i + 1]
    BY <1>2, HeadTailProperties
  <2>2. Head(log) = log[1] /\ Len(log) \in Nat
    BY LenProperties DEF Head
  <2> DEFINE w == <<log[1]>> \o Tail(log)
             p == Tail(log)
  <2>3. /\ w \in Seq(FieldTypes) /\ Len(w) = Len(p) + 1 /\ Len(p) \in Nat /\ w[1] = log[1]
        /\ \A i \in 1 .. Len(p) : w[i + 1] = p[i]
    BY <2>1, <2>2, ConsIs
  <2> HIDE DEF w, p
  <2>4. Len(p) = Len(log) - 1 /\ \A i \in 1 .. Len(p) : p[i] = log[i + 1]
    BY <2>1 DEF p
  <2>5. Len(w) = Len(log)
    BY <2>2, <2>3, <2>4
  <2>6. ASSUME NEW i \in 1 .. Len(w) PROVE w[i] = log[i]
    <3>1. CASE i = 1
      BY <2>3, <3>1
    <3>2. CASE i # 1
      <4> DEFINE j == i - 1
      <4>1. j \in 1 .. Len(p) /\ i = j + 1
        BY <2>2, <2>3, <3>2
      <4> HIDE DEF j
      <4> QED
        BY <2>3, <2>4, <4>1
    <3> QED
      BY <3>1, <3>2
  <2>7. w = log
    BY <2>3, <2>5, <2>6, SeqEqual
  <2> QED
    BY <2>1, <2>2, <2>7 DEF w
<1>4. u \in Power(4) .. Power(5) - 1 /\ log[1] = <<u>> /\ u \in 0 .. Power(5) - 1 /\ u >= Power(4)
  <2>1. CASE log[1] \in Nat \X Nat
    <3>1. PICK a \in Nat, b \in Nat : log[1] = <<a, b>>
      BY <2>1
    <3>2. Len(<<a, b>>) = 2
      OBVIOUS
    <3> QED
      BY <1>2, <3>1, <3>2
  <2>2. ASSUME NEW v \in 0 .. Power(5) - 1, log[1] = <<v>> PROVE u = v
    BY <2>2
  <2> QED
    BY <1>1, <1>2, <1>3, <2>1, <2>2 DEF FieldTypes
<1>5. FieldMessages(rest) \in Seq(Seq(Nat))
  <2> DEFINE n == Len(rest)
             q == FieldMessages(log)
             r == FieldMessages(rest)
  <2>1. n \in Nat /\ DOMAIN rest = 1 .. n /\ DOMAIN log = 1 .. n + 1
    BY <1>3, LenProperties
  <2>2. r = [i \in 1 .. n |-> FieldMessage(rest[i])] /\ q = [i \in 1 .. n + 1 |-> FieldMessage(log[i])]
    BY <2>1 DEF FieldMessages
  <2>3. q \in Seq(Seq(Nat)) /\ Len(q) = n + 1
    BY <2>1, <2>2 DEF Encodable
  <2>4. \A i \in 1 .. n : rest[i] = log[i + 1] /\ i + 1 \in 1 .. n + 1
    BY <1>3, <2>1
  <2>5. \A i \in 1 .. n + 1 : q[i] \in Seq(Nat) /\ q[i] = FieldMessage(log[i])
    BY <2>2, <2>3, ElementOfSeq
  <2>6. \A i \in 1 .. n : FieldMessage(rest[i]) \in Seq(Nat)
    BY <2>4, <2>5
  <2> HIDE DEF q, n
  <2>7. r \in [1 .. n -> Seq(Nat)]
    BY <2>2, <2>6
  <2> QED
    BY <2>1, <2>7
<1>6. FieldBytes(log) = c
  <2> HIDE DEF rest, u
  <2>1. FieldBytes(<<<<u>>>> \o rest) = TimeBytes(u) \o z
    BY <1>3, <1>4, <1>5, TimeFirst
  <2> QED
    BY <1>3, <1>4, <2>1
<1>7. z \in Seq(Nat)
  BY <1>5, FlattenType DEF FieldBytes
<1>8. t \in 0 .. Power(5) - 1 /\ t >= Power(4) /\ t \in Power(4) .. Power(5) - 1
  BY <1>1
<1>9. /\ FieldMessages(<<<<t>>>> \o rest) \in Seq(Seq(Nat))
      /\ FieldBytes(<<<<t>>>> \o rest) = d
  <2> HIDE DEF rest
  <2> QED BY <1>3, <1>5, <1>8, TimeFirst
<1>10. Retimed(log, t) = <<<<t>>>> \o rest
  <2> DEFINE w == <<<<t>>>> \o rest
             n == Len(log)
             e == [log EXCEPT ![1] = <<t>>]
  <2>1. Retimed(log, t) = e
    BY DEF Retimed
  <2>2. <<t>> \in FieldTypes /\ 1 \in 1 .. n
    BY <1>2, <1>8, EmptySeq DEF FieldTypes
  <2>3. e \in Seq(FieldTypes) /\ Len(e) = n /\ \A i \in 1 .. n : e[i] = IF i = 1 THEN <<t>> ELSE log[i]
    BY <2>2, ExceptSeq
  <2>4. /\ w \in Seq(FieldTypes) /\ Len(w) = Len(rest) + 1 /\ w[1] = <<t>>
        /\ \A i \in 1 .. Len(rest) : w[i + 1] = rest[i]
    BY <1>3, <2>2, ConsIs
  <2>5. n \in Nat /\ Len(rest) = n - 1 /\ \A i \in 1 .. Len(rest) : rest[i] = log[i + 1]
    BY <1>3
  <2> HIDE DEF w, e, n, rest
  <2>6. Len(w) = n
    BY <2>4, <2>5
  <2>7. ASSUME NEW i \in 1 .. n PROVE w[i] = e[i]
    <3>1. CASE i = 1
      BY <2>3, <2>4, <3>1
    <3>2. CASE i # 1
      <4> DEFINE j == i - 1
      <4>1. j \in 1 .. Len(rest) /\ i = j + 1
        BY <2>5, <3>2
      <4>2. e[i] = log[i]
        BY <2>3, <3>2
      <4> HIDE DEF j
      <4>3. w[i] = rest[j] /\ rest[j] = log[i]
        BY <2>4, <2>5, <4>1
      <4> QED
        BY <4>2, <4>3
    <3> QED
      BY <3>1, <3>2
  <2>8. w = e
    BY <2>3, <2>4, <2>6, <2>7, SeqEqual
  <2> QED
    BY <2>1, <2>8 DEF w
<1>11. /\ c \in Seq(Nat) /\ Len(c) = 6 + l /\ l \in Nat /\ c[1] = TimeHeader
       /\ \A i \in 1 .. l : c[6 + i] = z[i]
  <2> HIDE DEF u, z
  <2> QED BY <1>4, <1>7, TimedBytes
<1>12. /\ d \in Seq(Nat) /\ Len(d) = 6 + l /\ d[1] = TimeHeader
       /\ \A i \in 1 .. 5 : d[i + 1] = Pack(t)[i]
       /\ \A i \in 1 .. l : d[6 + i] = z[i]
  <2> HIDE DEF z
  <2> QED BY <1>7, <1>8, TimedBytes
<1>13. m = 6 + l /\ m \in Nat /\ m < Power(5) /\ s \in 1 .. 5
  <2>1. m = 6 + l /\ m \in Nat /\ m < Power(5)
    BY <1>6, <1>11 DEF Encodable
  <2> QED
    BY <2>1, VarSizeCases
<1>14. x = <<LogHeader>> \o Pack(m) \o c
  BY <1>6, EncodableIs
<1>15. y = <<LogHeader>> \o Pack(m) \o d
  <2>1. y = Message(LogHeader, d)
    BY <1>9, <1>10 DEF LogMessage, FieldBytes, FieldMessages
  <2>2. Len(d) = m
    BY <1>12, <1>13
  <2> HIDE DEF d, y, m
  <2> QED
    BY <1>12, <1>13, <2>1, <2>2, MessageIs, Headers
<1>16. Len(c) = m /\ Len(d) = m
  BY <1>11, <1>12, <1>13
<1> HIDE DEF x, y, c, d, m
<1>17. Framed(x, m) /\ \A i \in 1 .. m : x[1 + s + i] = c[i]
  BY <1>11, <1>13, <1>14, <1>16, FrameIs
<1>18. Framed(y, m) /\ \A i \in 1 .. m : y[1 + s + i] = d[i]
  BY <1>12, <1>13, <1>15, <1>16, FrameIs
<1> DEFINE a == Announce(m)
           w == Pack(m)
<1>19. a = 1 + s + m
  BY <1>13, AnnounceType
<1>20. /\ Len(x) = a /\ Len(y) = a /\ y \in Seq(Nat) /\ x[1] = LogHeader /\ y[1] = LogHeader
       /\ \A i \in 1 .. s : x[1 + i] = w[i] /\ y[1 + i] = w[i]
  BY <1>17, <1>18 DEF Framed
<1> HIDE DEF s, a, l, w
<1>21. m >= 6 /\ x[2 + s] = TimeHeader
  <2>1. 1 \in 1 .. m /\ 1 + s + 1 = 2 + s /\ m >= 6
    BY <1>11, <1>13
  <2> QED
    BY <1>11, <1>17, <2>1
<1>22. ASSUME NEW k \in 1 .. a
       PROVE  y[k] = IF k - (2 + s) \in 1 .. 5 THEN Pack(t)[k - (2 + s)] ELSE x[k]
  <2>1. CASE k = 1
    <3>1. ~(k - (2 + s) \in 1 .. 5)
      BY <1>13, <2>1
    <3> QED
      BY <1>20, <2>1, <3>1
  <2>2. CASE k # 1 /\ k <= 1 + s
    <3> DEFINE i == k - 1
    <3>1. i \in 1 .. s /\ k = 1 + i /\ ~(k - (2 + s) \in 1 .. 5)
      BY <1>13, <2>2
    <3> HIDE DEF i
    <3>2. y[k] = x[k]
      BY <1>20, <3>1
    <3> QED
      BY <3>1, <3>2
  <2>3. CASE k > 1 + s
    <3> DEFINE i == k - (1 + s)
    <3>1. i \in 1 .. m /\ k = 1 + s + i /\ k - (2 + s) = i - 1
      BY <1>13, <1>19, <2>3
    <3> HIDE DEF i
    <3>2. y[k] = d[i] /\ x[k] = c[i]
      BY <1>17, <1>18, <3>1
    <3>3. CASE i = 1
      <4>1. ~(i - 1 \in 1 .. 5)
        BY <3>3
      <4> QED
        BY <1>11, <1>12, <3>1, <3>2, <3>3, <4>1
    <3>4. CASE i \in 2 .. 6
      <4> DEFINE j == i - 1
      <4>1. j \in 1 .. 5 /\ i = j + 1 /\ k - (2 + s) = j
        BY <3>1, <3>4
      <4> HIDE DEF j
      <4>2. d[i] = Pack(t)[j]
        BY <1>12, <4>1
      <4> QED
        BY <3>2, <4>1, <4>2
    <3>5. CASE i > 6
      <4> DEFINE j == i - 6
      <4>1. j \in 1 .. l /\ i = 6 + j /\ ~(i - 1 \in 1 .. 5)
        BY <1>11, <1>13, <3>1, <3>5
      <4> HIDE DEF j
      <4>2. d[i] = z[j] /\ c[i] = z[j]
        BY <1>11, <1>12, <4>1
      <4> QED
        BY <3>1, <3>2, <4>1, <4>2
    <3>6. i = 1 \/ i \in 2 .. 6 \/ i > 6
      BY <1>13, <3>1
    <3> QED
      BY <3>3, <3>4, <3>5, <3>6
  <2>4. k = 1 \/ (k # 1 /\ k <= 1 + s) \/ k > 1 + s
    BY <1>13, <1>19
  <2> QED
    BY <2>1, <2>2, <2>3, <2>4
<1> QED
  BY <1>20, <1>21, <1>22 DEF x, y, m, s

\* The header of a pair is its first byte.
LEMMA PairFirst ==
    ASSUME NEW h \in Nat, NEW k \in Nat, NEW v \in Nat
    PROVE  /\ PairBytes(h, k, v) \in Seq(Nat) /\ PairBytes(h, k, v) # <<>>
           /\ PairBytes(h, k, v)[1] = h
<1> DEFINE c == (<<LogHeader>> \o Pack(k) \o Content(k)) \o (<<PairHeader>> \o Pack(v) \o Content(v))
           w == Pack(PairSize(k, v))
           x == PairBytes(h, k, v)
<1>1. x = (<<h>> \o w) \o c /\ c \in Seq(Nat) /\ w \in Seq(Nat)
  BY ZenonT(60), PairIs, PairSizeType, PackLength
<1> HIDE DEF c, w, x
<1>2. <<h>> \in Seq(Nat) /\ x = <<h>> \o (w \o c) /\ w \o c \in Seq(Nat)
  <2>1. <<h>> \in Seq(Nat)
    OBVIOUS
  <2> QED
    BY <1>1, <2>1, ConcatAssociative, ConcatProperties
<1> DEFINE d == w \o c
<1> HIDE DEF d
<1>3. d \in Seq(Nat) /\ x = <<h>> \o d
  BY <1>2 DEF d
<1>4. x \in Seq(Nat) /\ Len(x) = Len(d) + 1 /\ Len(d) \in Nat /\ x[1] = h
  BY <1>3, ConsIs
<1>5. x # <<>>
  BY <1>4, EmptySeq
<1> QED
  BY <1>4, <1>5 DEF x

\* The message of a log that does not begin with a time.
LEMMA UntimedLog ==
    ASSUME NEW log \in Seq(FieldTypes), Encodable(log), Untimed(log)
    PROVE  Len(FieldBytes(log)) = 0 \/ FieldBytes(log)[1] # TimeHeader
<1>1. CASE log = <<>>
  <2>1. FieldMessages(log) = <<>>
    BY <1>1 DEF FieldMessages
  <2> QED
    BY <2>1, FlattenEmpty, EmptySeq DEF FieldBytes
<1>2. CASE log # <<>>
  <2> DEFINE f == log[1]
             q == FieldMessages(log)
             m == PairSize(f[1], f[2])
  <2>1. Len(f) # 1 /\ q \in Seq(Seq(Nat)) /\ 1 \in 1 .. Len(log) /\ DOMAIN log = 1 .. Len(log)
    BY <1>2, EmptySeq, LenProperties DEF Untimed, Encodable
  <2>2. f \in FieldTypes
    BY <2>1, ElementOfSeq
  <2>3. f \in Nat \X Nat
    BY <2>1, <2>2 DEF FieldTypes
  <2>4. f[1] \in Nat /\ f[2] \in Nat /\ m < Power(5)
    BY <2>1, <2>3 DEF Encodable, Small
  <2>5. q = [i \in 1 .. Len(log) |-> FieldMessage(log[i])]
    BY <2>1 DEF FieldMessages
  <2>6. q # <<>> /\ q[1] = FieldMessage(f)
    <3>1. DOMAIN q = 1 .. Len(log)
      BY <2>5
    <3> QED
      BY <2>1, <2>5, <3>1
  <2> HIDE DEF f, q
  <2>7. q[1] = PairBytes(PairHeader, f[1], f[2])
    BY <2>3, <2>4, <2>6, FieldPairIs, PairMessageIs, Headers
  <2>8. q[1] # <<>> /\ q[1][1] = PairHeader
    <3>1. PairHeader \in Nat
      BY Headers
    <3>2. PairBytes(PairHeader, f[1], f[2]) # <<>> /\ PairBytes(PairHeader, f[1], f[2])[1] = PairHeader
      BY <2>4, <3>1, PairFirst
    <3> QED
      BY <2>7, <3>2
  <2>9. FlattenSeq(q)[1] = q[1][1]
    BY <2>1, <2>6, <2>8, FirstOf
  <2> QED
    BY <2>8, <2>9 DEF FieldBytes, q, PairHeader, TimeHeader
<1> QED
  BY <1>1, <1>2

\* What fix_log_group_time reads and writes of a log's message.
LEMMA LogFixed ==
    ASSUME NEW log \in Seq(FieldTypes), Encodable(log), Timed(log) \/ Untimed(log),
           NEW t \in MinTime .. Power(5) - 1
    PROVE  LET m == Len(FieldBytes(log))
               x == LogMessage(log)
               y == LogMessage(Retimed(log, t))
           IN  /\ Framed(x, m)
               /\ Timed(log) => m >= 6 /\ x[2 + VarSize(m)] = TimeHeader
               /\ ~Timed(log) => m = 0 \/ x[2 + VarSize(m)] # TimeHeader
               /\ y \in Seq(Nat) /\ Len(y) = Len(x)
               /\ \A k \in 1 .. Len(x) :
                     y[k] = IF Timed(log) /\ k - (2 + VarSize(m)) \in 1 .. 5
                            THEN Pack(t)[k - (2 + VarSize(m))] ELSE x[k]
<1> DEFINE c == FieldBytes(log)
           m == Len(c)
           x == LogMessage(log)
           y == LogMessage(Retimed(log, t))
<1>1. c \in Seq(Nat) /\ m \in Nat /\ m < Power(5) /\ x = <<LogHeader>> \o Pack(m) \o c
  BY EncodableIs
<1>2. Framed(x, m) /\ \A i \in 1 .. m : x[1 + VarSize(m) + i] = c[i]
  <2> HIDE DEF c
  <2> QED BY <1>1, FrameIs
<1>3. CASE Timed(log)
  <2>1. /\ m >= 6 /\ x[2 + VarSize(m)] = TimeHeader /\ y \in Seq(Nat) /\ Len(y) = Len(x)
        /\ \A k \in 1 .. Len(x) :
              y[k] = IF k - (2 + VarSize(m)) \in 1 .. 5 THEN Pack(t)[k - (2 + VarSize(m))] ELSE x[k]
    BY <1>3, TimedLog
  <2> HIDE DEF m, x, y
  <2> QED
    BY <1>2, <1>3, <2>1 DEF m, x, y, c
<1>4. CASE ~Timed(log)
  <2>1. y = x
    BY <1>4 DEF Retimed
  <2>2. m = 0 \/ c[1] # TimeHeader
    BY <1>4, UntimedLog
  <2>3. m = 0 \/ x[2 + VarSize(m)] # TimeHeader
    <3> SUFFICES ASSUME m # 0 PROVE x[2 + VarSize(m)] # TimeHeader
      OBVIOUS
    <3> DEFINE s == VarSize(m)
    <3>1. s \in 1 .. 5 /\ 1 \in 1 .. m
      BY <1>1, VarSizeCases
    <3> HIDE DEF s, c
    <3>2. 1 + s + 1 = 2 + s
      BY <3>1
    <3>3. x[1 + s + 1] = c[1]
      BY <1>2, <3>1 DEF s
    <3> QED
      BY <2>2, <3>2, <3>3 DEF s
  <2>4. x \in Seq(Nat)
    BY <1>2 DEF Framed
  <2> HIDE DEF m, x, y
  <2> QED
    BY <1>2, <1>4, <2>1, <2>3, <2>4 DEF m, x, y, c
<1> QED
  BY <1>3, <1>4

\* fix_log_group_time on the messages of a group's logs, whatever follows them.
LEMMA LogsFixed ==
    ASSUME NEW gs \in Seq(Seq(FieldTypes)),
           \A i \in 1 .. Len(gs) : Encodable(gs[i]) /\ (Timed(gs[i]) \/ Untimed(gs[i])),
           NEW rest \in Seq(Nat), rest # <<>> => rest[1] # LogHeader /\ rest[1] # TimeHeader,
           NEW next \in {LogHeader, TimeHeader}, NEW t \in MinTime .. Power(5) - 1
    PROVE  Fixed(FlattenSeq([i \in 1 .. Len(gs) |-> LogMessage(gs[i])]) \o rest, next, t)
             = FlattenSeq([i \in 1 .. Len(gs) |-> LogMessage(Retimed(gs[i], t))]) \o rest
<1> DEFINE n == Len(gs)
           q == [i \in 1 .. n |-> LogMessage(gs[i])]
           r == [i \in 1 .. n |-> LogMessage(Retimed(gs[i], t))]
           sz == [i \in 1 .. n |-> Len(FieldBytes(gs[i]))]
           J == {i \in 1 .. n : Timed(gs[i])}
<1>1. n \in Nat
  BY LenProperties
<1>2. ASSUME NEW i \in 1 .. n
      PROVE  /\ Framed(q[i], sz[i])
             /\ i \in J => sz[i] >= 6 /\ q[i][2 + VarSize(sz[i])] = TimeHeader
             /\ i \notin J => sz[i] = 0 \/ q[i][2 + VarSize(sz[i])] # TimeHeader
             /\ r[i] \in Seq(Nat) /\ Len(r[i]) = Len(q[i])
             /\ \A k \in 1 .. Len(q[i]) : r[i][k] = Rewritten(q[i], VarSize(sz[i]), k, t, i, J)
  <2> DEFINE g == gs[i]
             m == Len(FieldBytes(g))
             x == LogMessage(g)
             y == LogMessage(Retimed(g, t))
  <2>1. g \in Seq(FieldTypes) /\ Encodable(g) /\ (Timed(g) \/ Untimed(g))
    BY ElementOfSeq
  <2>2. /\ Framed(x, m)
        /\ Timed(g) => m >= 6 /\ x[2 + VarSize(m)] = TimeHeader
        /\ ~Timed(g) => m = 0 \/ x[2 + VarSize(m)] # TimeHeader
        /\ y \in Seq(Nat) /\ Len(y) = Len(x)
        /\ \A k \in 1 .. Len(x) :
              y[k] = IF Timed(g) /\ k - (2 + VarSize(m)) \in 1 .. 5
                     THEN Pack(t)[k - (2 + VarSize(m))] ELSE x[k]
    <3> HIDE DEF g
    <3> QED BY <2>1, LogFixed
  <2>3. q[i] = x /\ r[i] = y /\ sz[i] = m /\ (i \in J <=> Timed(g))
    OBVIOUS
  <2> HIDE DEF g, m, x, y, q, r, sz, J, n
  <2>4. \A k \in 1 .. Len(x) : y[k] = Rewritten(x, VarSize(m), k, t, i, J)
    BY <2>2, <2>3 DEF Rewritten
  <2> QED
    BY <2>2, <2>3, <2>4
<1>3. sz \in [1 .. n -> Nat]
  <2>1. \A i \in 1 .. n : sz[i] \in Nat
    BY <1>2 DEF Framed
  <2> QED
    BY <2>1
<1>4. Len(q) = n /\ Len(r) = n /\ J \in SUBSET (1 .. n)
  BY <1>1
<1>5. q = [i \in 1 .. n |-> q[i]] /\ r = [i \in 1 .. n |-> r[i]]
  OBVIOUS
<1> HIDE DEF q, r, sz, J, n
<1>6. q \in Seq(Seq(Nat)) /\ r \in Seq(Seq(Nat))
  <2>1. \A i \in 1 .. n : q[i] \in Seq(Nat) /\ r[i] \in Seq(Nat)
    BY <1>2 DEF Framed
  <2>2. q \in [1 .. n -> Seq(Nat)] /\ r \in [1 .. n -> Seq(Nat)]
    BY <1>5, <2>1
  <2> QED
    BY <1>1, <2>2
<1>7. sz \in [1 .. Len(q) -> Nat] /\ J \in SUBSET (1 .. Len(q))
  BY <1>3, <1>4
<1>8. Messages(q, sz, J)
  BY <1>2, <1>4 DEF Messages
<1>9. Rewrites(r, q, sz, J, t)
  BY <1>2, <1>4 DEF Rewrites
<1>10. Fixed(FlattenSeq(q) \o rest, next, t) = FlattenSeq(r) \o rest
  BY <1>6, <1>7, <1>8, <1>9, FixGroup
<1> QED
  BY <1>10 DEF q, r, n

\* The bytes that a first part, or else a second, begins with.
LEMMA FirstByte ==
    ASSUME NEW x \in Seq(Nat), NEW y \in Seq(Nat), NEW H,
           x # <<>> => x[1] \in H, y # <<>> => y[1] \in H
    PROVE  x \o y \in Seq(Nat) /\ (x \o y # <<>> => (x \o y)[1] \in H)
<1>1. x \o y \in Seq(Nat)
  BY ConcatProperties
<1>2. CASE x = <<>>
  BY <1>1, <1>2, ConcatEmptySeq
<1>3. CASE x # <<>>
  <2>1. /\ Len(x \o y) = Len(x) + Len(y)
        /\ \A i \in 1 .. Len(x) + Len(y) : (x \o y)[i] = IF i <= Len(x) THEN x[i] ELSE y[i - Len(x)]
    BY ConcatProperties
  <2>2. Len(x) \in Nat \ {0} /\ Len(y) \in Nat
    BY <1>3, EmptySeq, LenProperties
  <2>3. 1 \in 1 .. Len(x) + Len(y) /\ 1 <= Len(x)
    BY <2>2
  <2>4. (x \o y)[1] = x[1]
    BY <2>1, <2>3
  <2> QED
    BY <1>1, <1>3, <2>4
<1> QED
  BY <1>2, <1>3

LEMMA OptionalFirst ==
    ASSUME NEW h \in Nat, NEW x, Given(x)
    PROVE  Optional(h, x) \in Seq(Nat) /\ (Optional(h, x) # <<>> => Optional(h, x)[1] = h)
<1>1. CASE x = <<>>
  BY <1>1, OptionalLength DEF Optional
<1>2. CASE x # <<>>
  <2>1. PICK n \in Nat : x = <<n>>
    BY <1>2 DEF Given
  <2> DEFINE w == Pack(n)
             c == Content(n)
             d == w \o c
  <2>2. Optional(h, x) = (<<h>> \o w) \o c
    BY <1>2, <2>1 DEF Optional
  <2>3. w \in Seq(Nat) /\ c \in Seq(Nat) /\ <<h>> \in Seq(Nat)
    BY PackLength, ContentLength
  <2> HIDE DEF w, c
  <2>4. (<<h>> \o w) \o c = <<h>> \o d
    BY ZenonT(60), <2>3, Associative
  <2>5. d \in Seq(Nat)
    BY <2>3, ConcatProperties
  <2>6. Optional(h, x) = <<h>> \o d
    BY <2>2, <2>4
  <2> HIDE DEF d
  <2> QED
    BY <2>5, <2>6, ConsIs
<1> QED
  BY <1>1, <1>2

\* The rest of the group does not look like another log, or like a time.
LastHeaders == {TopicHeader, SourceHeader, TagHeader}
TagsFirst == tags.bytes # <<>> => tags.bytes[1] = TagHeader
Ending == Optional(TopicHeader, topic) \o (Optional(SourceHeader, source) \o tags.bytes)

LEMMA EndingFirst ==
    ASSUME TypeInv, TagsFirst
    PROVE  /\ Ending \in Seq(Nat)
           /\ Ending # <<>> => Ending[1] # LogHeader /\ Ending[1] # TimeHeader
<1> DEFINE T == Optional(TopicHeader, topic)
           S == Optional(SourceHeader, source)
           G == tags.bytes
           y == S \o G
<1>1. /\ T \in Seq(Nat) /\ S \in Seq(Nat)
      /\ T # <<>> => T[1] \in LastHeaders
      /\ S # <<>> => S[1] \in LastHeaders
  BY OptionalFirst, Headers DEF TypeInv, LastHeaders
<1>2. G \in Seq(Nat) /\ (G # <<>> => G[1] \in LastHeaders)
  BY DEF TypeInv, Buffers, TagsFirst, LastHeaders
<1> HIDE DEF T, S, G
<1>3. y \in Seq(Nat) /\ (y # <<>> => y[1] \in LastHeaders)
  BY <1>1, <1>2, FirstByte
<1> HIDE DEF y
<1>4. T \o y \in Seq(Nat) /\ (T \o y # <<>> => (T \o y)[1] \in LastHeaders)
  BY <1>1, <1>3, FirstByte
<1>5. LogHeader \notin LastHeaders /\ TimeHeader \notin LastHeaders
  BY DEF LastHeaders, LogHeader, TimeHeader, TopicHeader, SourceHeader, TagHeader
<1>6. T \o y = Ending
  BY DEF T, y, S, G, Ending
<1> QED
  BY <1>4, <1>5, <1>6

-----------------------------------------------------------------------------
(***************************************************************************)
(* The invariant behind TimesFixed                                         *)
(***************************************************************************)
\* Every closed log can be encoded, and so can the fields of an open one.
SmallInv ==
    /\ open /\ Len(body) < Power(5) => Small(given[Len(given)])
    /\ size < Power(5) => \A i \in 1 .. Closed : Encodable(given[i])

\* In addition, for fix_log_group_time: what the tags begin with, and that no time
\* was fixed before the group is serialized.
TimesInv ==
    /\ SmallInv
    /\ TagsFirst
    /\ packed = <<>> => fixed = 0
    /\ size < Power(5) => TimesFixed

\* Before the group is serialized, no time was fixed.
LEMMA NotFixed ==
    ASSUME TimesInv, packed = <<>>, fixed' = fixed
    PROVE  fixed' = 0 /\ TimesFixed'
<1>1. fixed' = 0
  BY DEF TimesInv
<1>2. 0 < MinTime /\ MinTime \in Nat
  BY SMTT(60), Inputs, Powers
<1> QED
  BY <1>1, <1>2 DEF TimesFixed

\* A step that gives no log and no field, and announces no smaller group.
LEMMA KeepsTimes ==
    ASSUME TypeInv, TypeInv', TimesInv, UNCHANGED <<open, body, given, fixed>>, size' >= size,
           TagsFirst', packed = <<>>
    PROVE  TimesInv'
<1>1. size \in Nat /\ size' \in Nat /\ Power(5) \in Nat
  BY Powers DEF TypeInv
<1>2. size' < Power(5) => size < Power(5)
  BY <1>1
<1>3. Closed' = Closed
  BY DEF Closed
<1>4. SmallInv'
  BY <1>2, <1>3 DEF TimesInv, SmallInv
<1>5. fixed' = 0 /\ TimesFixed'
  BY NotFixed
<1> QED
  BY <1>4, <1>5 DEF TimesInv

LEMMA TagTimes ==
    ASSUME TypeInv, BufferInv, TypeInv', TimesInv, NEW k \in Lengths, NEW v \in Lengths, AddTag(k, v)
    PROVE  TimesInv'
<1> DEFINE x == PairBytes(TagHeader, k, v)
           n == Announce(PairSize(k, v))
<1>1. tags'.bytes = tags.bytes \o x /\ size' = size + n /\ n \in Nat
  BY TagStep
<1>2. packed = <<>> /\ UNCHANGED <<open, body, given, fixed>>
  BY DEF AddTag, Room, Building
<1>3. x \in Seq(Nat) /\ x[1] = TagHeader
  <2>1. k \in Nat /\ v \in Nat /\ TagHeader \in Nat
    BY Inputs, Headers
  <2> QED
    BY <2>1, PairFirst
<1>4. tags.bytes \in Seq(Nat) /\ (tags.bytes # <<>> => tags.bytes[1] \in {TagHeader})
  BY DEF TypeInv, Buffers, TimesInv, TagsFirst
<1> HIDE DEF x, n
<1>5. x # <<>> => x[1] \in {TagHeader}
  BY <1>3
<1>6. tags.bytes \o x # <<>> => (tags.bytes \o x)[1] \in {TagHeader}
  BY <1>3, <1>4, <1>5, FirstByte
<1>7. TagsFirst'
  BY <1>1, <1>6 DEF TagsFirst
<1>8. size' >= size
  BY <1>1 DEF TypeInv
<1> QED
  BY <1>2, <1>7, <1>8, KeepsTimes

LEMMA TopicTimes ==
    ASSUME TypeInv, TypeInv', TimesInv, NEW n \in Lengths, AddTopic(n) \/ AddSource(n)
    PROVE  TimesInv'
<1>1. n \in Nat
  BY Inputs
<1>2. /\ packed = <<>> /\ UNCHANGED <<open, body, given, fixed, tags>>
      /\ size' = size + n + VarSize(n) + 1
  BY DEF AddTopic, AddSource, Room, Building, caller
<1>3. size' >= size
  <2>1. VarSize(n) \in 1 .. 5 /\ size \in Nat
    BY <1>1, VarSizeCases DEF TypeInv
  <2> QED
    BY <1>1, <1>2, <2>1
<1>4. TagsFirst'
  BY <1>2 DEF TimesInv, TagsFirst
<1> QED
  BY <1>2, <1>3, <1>4, KeepsTimes

LEMMA SerializeTimes ==
    ASSUME TypeInv, TypeInv', TimesInv, Serialize
    PROVE  TimesInv'
<1>1. packed = <<>> /\ UNCHANGED <<open, body, given, fixed, tags, size>>
  BY DEF Serialize, Building, caller
<1>2. size' >= size
  BY <1>1 DEF TypeInv
<1>3. TagsFirst'
  BY <1>1 DEF TimesInv, TagsFirst
<1> QED
  BY <1>1, <1>2, <1>3, KeepsTimes

LEMMA FullTimes ==
    ASSUME TypeInv, BufferInv, TimesInv, NEW t \in Times, NEW pairs \in Pairs, AddLogFull(t, pairs)
    PROVE  TimesInv'
<1> DEFINE lt == LeastTime(t)
           m == LogSize(pairs)
           log == <<<<lt>>>> \o pairs
           n == Len(given)
<1>1. size' = size + Announce(m)
  BY FullStep
<1>2. /\ tags' = tags /\ open' = open /\ ~open /\ packed = <<>> /\ fixed' = fixed
      /\ given' = Append(given, log)
  BY DEF AddLogFull, Room, Building
<1>3. /\ lt \in 0 .. Power(5) - 1 /\ lt >= Power(4) /\ pairs \in Seq(Nat \X Nat)
      /\ Power(5) \in Nat /\ lt \in Nat
  BY Inputs, LeastTimeType
<1>4. m \in Nat
  BY <1>3, LogLength
<1>5. size' < Power(5) => size < Power(5) /\ m < Power(5)
  <2> DEFINE z == VarSize(m)
             total == Announce(m)
  <2>1. z \in 1 .. 5 /\ total = 1 + z + m /\ size \in Nat
    BY <1>4, AnnounceType DEF TypeInv
  <2>2. size' = size + total
    BY <1>1
  <2> HIDE DEF m, z, total
  <2> QED
    BY <1>3, <1>4, <2>1, <2>2
<1>6. log \in Seq(FieldTypes) /\ given \in Seq(Seq(FieldTypes)) /\ n \in Nat
  BY <1>3, FullLogType, LenProperties DEF TypeInv
<1>7. size' < Power(5) => Encodable(log)
  BY <1>3, <1>5, LogMessageIs
<1> HIDE DEF log, n, m
<1>8. Len(given') = n + 1 /\ given'[n + 1] = log /\ \A i \in 1 .. n : given'[i] = given[i]
  BY <1>2, <1>6, AppendProperties DEF n
<1>9. Closed = n /\ Closed' = n + 1
  BY <1>2, <1>6, <1>8 DEF Closed, n
<1>10. ASSUME size' < Power(5), NEW i \in 1 .. Closed' PROVE Encodable(given'[i])
  <2>1. CASE i = n + 1
    BY <1>7, <1>8, <1>10, <2>1
  <2>2. CASE i # n + 1
    <3>1. i \in 1 .. n
      BY <1>6, <1>9, <2>2
    <3> QED
      BY <1>5, <1>8, <1>9, <1>10, <3>1 DEF TimesInv, SmallInv
  <2> QED
    BY <2>1, <2>2
<1>11. SmallInv'
  BY <1>2, <1>10 DEF SmallInv
<1>12. TagsFirst' /\ fixed' = 0 /\ TimesFixed'
  BY <1>2, NotFixed DEF TimesInv, TagsFirst
<1> QED
  BY <1>11, <1>12 DEF TimesInv

LEMMA BeginTimes ==
    ASSUME TypeInv, TimesInv, AddLogBegin
    PROVE  TimesInv'
<1> DEFINE n == Len(given)
<1>1. /\ tags' = tags /\ open' = TRUE /\ ~open /\ packed = <<>> /\ fixed' = fixed /\ size' = size
      /\ given' = Append(given, <<>>)
  BY DEF AddLogBegin, Room, Building
<1>2. <<>> \in Seq(FieldTypes) /\ given \in Seq(Seq(FieldTypes)) /\ n \in Nat
  BY LenProperties DEF TypeInv
<1> HIDE DEF n
<1>3. Len(given') = n + 1 /\ given'[n + 1] = <<>> /\ \A i \in 1 .. n : given'[i] = given[i]
  BY <1>1, <1>2, AppendProperties DEF n
<1>4. Closed = n /\ Closed' = n
  BY <1>1, <1>2, <1>3 DEF Closed, n
<1>5. Small(given'[Len(given')])
  BY <1>2, <1>3 DEF Small
<1>6. SmallInv'
  BY <1>1, <1>3, <1>4, <1>5 DEF TimesInv, SmallInv
<1>7. TagsFirst' /\ fixed' = 0 /\ TimesFixed'
  BY <1>1, NotFixed DEF TimesInv, TagsFirst
<1> QED
  BY <1>6, <1>7 DEF TimesInv

LEMMA FieldTimes ==
    ASSUME TypeInv, BufferInv, TimesInv, open, NEW f \in FieldTypes, NEW b \in Seq(Nat), NEW n \in Nat,
           Len(b) <= n, logs' = EnsureCursor(n), body' = body \o b, GivenField(f),
           UNCHANGED <<tags, open, size, packed, fixed>>,
           Len(b) < Power(5) => Len(f) = 1 \/ PairSize(f[1], f[2]) < Power(5)
    PROVE  TimesInv'
<1> DEFINE l == Len(given)
           g == given[l]
           m == Len(g)
           h == Append(g, f)
<1>1. /\ Len(body') = Len(body) + Len(b) /\ Len(given') = l /\ l \in Nat \ {0}
      /\ \A i \in 1 .. l : given'[i] = IF i = l THEN Append(given[i], f) ELSE given[i]
  BY FieldStep
<1>2. g \in Seq(FieldTypes) /\ packed = <<>> /\ m \in Nat /\ l \in 1 .. l
  <2>1. given \in Seq(Seq(FieldTypes)) /\ packed = <<>> /\ l \in 1 .. l
    BY <1>1 DEF TypeInv
  <2>2. g \in Seq(FieldTypes)
    BY <2>1, ElementOfSeq
  <2> QED
    BY <2>1, <2>2, LenProperties
<1>3. given'[Len(given')] = h
  BY <1>1, <1>2
<1> HIDE DEF g, m
<1>4. /\ h \in Seq(FieldTypes) /\ Len(h) = m + 1 /\ h[m + 1] = f
      /\ \A i \in 1 .. m : h[i] = g[i]
  BY <1>2, AppendProperties DEF m
<1>5. DOMAIN h = 1 .. m + 1 /\ DOMAIN g = 1 .. m
  BY <1>2, <1>4, LenProperties DEF m
<1> HIDE DEF l, h
<1>6. ASSUME Len(body') < Power(5) PROVE Small(h)
  <2>1. Len(body) < Power(5) /\ Len(b) < Power(5)
    <3>1. Len(body) \in Nat /\ Len(b) \in Nat /\ Power(5) \in Nat
      BY LenProperties, Powers DEF TypeInv
    <3> QED
      BY <1>1, <1>6, <3>1
  <2>2. Small(g)
    BY <2>1 DEF TimesInv, SmallInv, g, l
  <2> SUFFICES ASSUME NEW i \in 1 .. m + 1, Len(h[i]) # 1 PROVE PairSize(h[i][1], h[i][2]) < Power(5)
    BY <1>5 DEF Small
  <2>3. CASE i = m + 1
    BY <1>4, <2>1, <2>3
  <2>4. CASE i # m + 1
    <3>1. i \in 1 .. m
      BY <1>2, <2>4
    <3> QED
      BY <1>4, <1>5, <2>2, <3>1 DEF Small
  <2> QED
    BY <2>3, <2>4
<1>7. Closed = l - 1 /\ Closed' = l - 1
  BY <1>1 DEF Closed, l
<1>8. \A i \in 1 .. l - 1 : given'[i] = given[i]
  BY <1>1
<1>9. SmallInv'
  BY <1>3, <1>6, <1>7, <1>8 DEF TimesInv, SmallInv
<1>10. TagsFirst' /\ fixed' = 0 /\ TimesFixed'
  BY <1>2, NotFixed DEF TimesInv, TagsFirst
<1> QED
  BY <1>9, <1>10 DEF TimesInv

LEMMA TimeTimes ==
    ASSUME TypeInv, BufferInv, TimesInv, NEW t \in Times, AddLogTime(t)
    PROVE  TimesInv'
<1>1. /\ logs' = EnsureCursor(6) /\ body' = body \o TimeBytes(t) /\ GivenField(<<t>>) /\ open
      /\ UNCHANGED <<tags, open, size, packed, fixed>>
  BY DEF AddLogTime
<1>2. Len(<<t>>) = 1
  OBVIOUS
<1> QED
  BY <1>1, <1>2, FieldTime, FieldTimes

LEMMA KeyValueTimes ==
    ASSUME TypeInv, BufferInv, TimesInv, NEW k \in Lengths, NEW v \in Lengths, AddLogKeyValue(k, v)
    PROVE  TimesInv'
<1> DEFINE b == PairBytes(PairHeader, k, v)
           m == PairSize(k, v)
<1>1. /\ logs' = EnsureCursor(Announce(m)) /\ body' = body \o b /\ GivenField(<<k, v>>) /\ open
      /\ UNCHANGED <<tags, open, size, packed, fixed>>
  BY DEF AddLogKeyValue
<1>2. k \in Nat /\ v \in Nat /\ PairHeader \in Nat
  BY FieldPair, Headers
<1>3. ASSUME Len(b) < Power(5) PROVE m < Power(5)
  <2> DEFINE z == VarSize(m)
  <2>1. m \in Nat
    BY <1>2, PairSizeType
  <2>2. z \in 1 .. 5 /\ Announce(m) = 1 + z + m
    BY <2>1, AnnounceType
  <2>3. Len(b) = Announce(m)
    BY <1>2, PairLength
  <2>4. Power(5) \in Nat
    BY Powers
  <2> HIDE DEF m, z, b
  <2> QED BY <1>3, <2>1, <2>2, <2>3, <2>4
<1>4. <<k, v>>[1] = k /\ <<k, v>>[2] = v
  OBVIOUS
<1> DEFINE n == Announce(m)
<1>5. b \in Seq(Nat) /\ n \in Nat /\ <<k, v>> \in FieldTypes /\ Len(b) = n
  BY FieldPair
<1>6. Len(b) <= n /\ logs' = EnsureCursor(n)
  BY <1>1, <1>5
<1> HIDE DEF b, n
<1> QED
  BY <1>1, <1>3, <1>4, <1>5, <1>6, FieldTimes

LEMMA EndTimes ==
    ASSUME TypeInv, BufferInv, EncodeInv, TimesInv, AddLogEnd
    PROVE  TimesInv'
<1> DEFINE m == Len(body)
           n == Len(given)
           log == given[n]
<1>1. size' = size + Announce(m) /\ m \in Nat
  BY EndStep
<1>2. /\ tags' = tags /\ open' = FALSE /\ open /\ given' = given /\ packed = <<>> /\ fixed' = fixed
  BY DEF AddLogEnd, Building, caller
<1>3. size' < Power(5) => size < Power(5) /\ m < Power(5)
  <2> DEFINE z == VarSize(m)
             a == Announce(m)
  <2>1. z \in 1 .. 5 /\ a = 1 + z + m
    BY <1>1, AnnounceType
  <2>2. size \in Nat /\ Power(5) \in Nat
    BY Powers DEF TypeInv
  <2>3. m \in Nat /\ size' = size + a
    BY <1>1
  <2> HIDE DEF m, z, a
  <2> QED
    BY <2>1, <2>2, <2>3
<1>4. n \in Nat \ {0}
  <2>1. given \in Seq(Seq(FieldTypes)) /\ given # <<>>
    BY <1>2 DEF TypeInv
  <2> QED
    BY <2>1, EmptySeq, LenProperties
<1>5. m < Power(5) => Encodable(log)
  <2> SUFFICES ASSUME m < Power(5) PROVE Encodable(log)
    OBVIOUS
  <2>1. FieldMessages(log) \in Seq(Seq(Nat)) /\ body = FieldBytes(log)
    BY <1>2 DEF EncodeInv, BodyInv, OpenMessages, FieldBytes
  <2>2. Small(log)
    BY <1>2 DEF TimesInv, SmallInv
  <2> QED
    BY <2>1, <2>2 DEF Encodable
<1> HIDE DEF log, n, m
<1>6. Closed = n - 1 /\ Closed' = n
  BY <1>2, <1>4 DEF Closed, n
<1>7. ASSUME size' < Power(5), NEW i \in 1 .. Closed' PROVE Encodable(given'[i])
  <2>1. CASE i = n
    BY <1>2, <1>3, <1>5, <1>7, <2>1 DEF log
  <2>2. CASE i # n
    <3>1. i \in 1 .. Closed
      BY <1>4, <1>6, <2>2
    <3> QED
      BY <1>2, <1>3, <1>7, <3>1 DEF TimesInv, SmallInv
  <2> QED
    BY <2>1, <2>2
<1>8. SmallInv'
  BY <1>2, <1>7 DEF SmallInv
<1>9. TagsFirst' /\ fixed' = 0 /\ TimesFixed'
  BY <1>2, NotFixed DEF TimesInv, TagsFirst
<1> QED
  BY <1>8, <1>9 DEF TimesInv

\* A group is its logs and what it ends with.
LEMMA GroupEnds ==
    ASSUME TypeInv, BufferInv, TagsInv, size < Power(5), NEW gs,
           FlattenSeq([i \in DOMAIN gs |-> LogMessage(gs[i])]) \in Seq(Nat)
    PROVE  GroupMessage(gs) = FlattenSeq([i \in DOMAIN gs |-> LogMessage(gs[i])]) \o Ending
<1> DEFINE F == FlattenSeq([i \in DOMAIN gs |-> LogMessage(gs[i])])
           T == Optional(TopicHeader, topic)
           S == Optional(SourceHeader, source)
           G == tags.bytes
<1>1. GroupMessage(gs) = ((F \o T) \o S) \o G
  BY GroupMessageIs
<1>2. F \in Seq(Nat) /\ T \in Seq(Nat) /\ S \in Seq(Nat) /\ G \in Seq(Nat)
  BY OptionalLength, Headers DEF TypeInv, Buffers
<1> HIDE DEF F, T, S, G
<1>3. ((F \o T) \o S) \o G = (F \o T) \o (S \o G)
  <2>1. F \o T \in Seq(Nat)
    BY <1>2, ConcatProperties
  <2> QED
    BY ZenonT(60), <1>2, <2>1, Associative
<1>4. (F \o T) \o (S \o G) = F \o (T \o (S \o G))
  <2> DEFINE y == S \o G
  <2>1. y \in Seq(Nat)
    BY <1>2, ConcatProperties
  <2> HIDE DEF y
  <2>2. (F \o T) \o y = F \o (T \o y)
    <3>1. F \in Seq(Nat) /\ T \in Seq(Nat)
      BY <1>2
    <3> QED
      BY ONLY <2>1, <3>1, Associative
  <2> QED
    BY <2>2 DEF y
<1> QED
  BY <1>1, <1>3, <1>4 DEF Ending, F, T, S, G

LEMMA FixTimes ==
    ASSUME TypeInv, BufferInv, EncodeInv, TimesInv, NEW t \in Times,
           NEW next \in {LogHeader, TimeHeader}, Fix(t, next)
    PROVE  TimesInv'
<1> DEFINE n == Len(given)
           q == [i \in 1 .. n |-> LogMessage(given[i])]
           gs == [i \in 1 .. n |-> Retimed(given[i], t)]
           r == [i \in 1 .. n |-> LogMessage(Retimed(given[i], t))]
<1>1. /\ UNCHANGED <<logs, tags, open, body, size, topic, source, given, givenTags>>
      /\ packed' = Fixed(packed, next, t) /\ fixed' = t /\ packed # <<>> /\ fixed = 0
  BY DEF Fix, Building, Fixed
<1>2. SmallInv'
  <2>1. Closed' = Closed
    BY <1>1 DEF Closed
  <2> QED
    BY <1>1, <2>1 DEF TimesInv, SmallInv
<1>3. TagsFirst'
  BY <1>1 DEF TimesInv, TagsFirst
<1>4. t \in 0 .. Power(5) - 1 /\ MinTime \in Nat /\ Power(5) \in Nat
  <2>1. t \in 0 .. Power(5) - 1 /\ MinTime \in Nat
    <3> HIDE DEF n, q, gs, r
    <3> QED BY Inputs
  <2>2. Power(5) \in Nat
    BY Powers
  <2> QED
    BY ONLY <2>1, <2>2
<1>5. packed' # <<>>
  <2>1. packed' \in Seq(Nat) /\ Len(packed') = Len(packed)
    <3>1. packed \in Seq(Nat) /\ t \in Nat
      BY <1>4 DEF TypeInv
    <3> QED
      BY ONLY <1>1, <3>1, next \in {LogHeader, TimeHeader}, FixedType
  <2>2. packed \in Seq(Nat)
    BY DEF TypeInv
  <2> QED
    BY <1>1, <2>1, <2>2, EmptySeq
<1>6. given \in Seq(Seq(FieldTypes)) /\ n \in Nat /\ DOMAIN given = 1 .. n /\ Closed = n
  <2>1. ~open /\ given \in Seq(Seq(FieldTypes))
    BY <1>1 DEF TypeInv
  <2>2. n \in Nat /\ DOMAIN given = 1 .. n
    BY <2>1, LenProperties
  <2> QED
    BY <2>1, <2>2 DEF Closed
<1>7. ASSUME size < Power(5), t >= MinTime,
             \A i \in DOMAIN given : Timed(given[i]) \/ Untimed(given[i])
      PROVE  packed' = GroupMessage(gs)
  <2>1. LogsInv /\ TagsInv /\ packed = GroupMessage(given)
    BY <1>1, <1>7 DEF EncodeInv, Encoded
  <2>2. LogMessages = q
    BY <1>6 DEF LogMessages
  <2>3. FlattenSeq(q) \in Seq(Nat)
    BY <2>1, <2>2, FlattenType DEF LogsInv
  <2>4. packed = FlattenSeq(q) \o Ending
    BY <1>6, <1>7, <2>1, <2>3, GroupEnds
  <2>5. t \in MinTime .. Power(5) - 1
    BY <1>4, <1>7
  <2>6. \A i \in 1 .. n : Encodable(given[i]) /\ (Timed(given[i]) \/ Untimed(given[i]))
    BY <1>6, <1>7 DEF TimesInv, SmallInv
  <2>7. Ending \in Seq(Nat) /\ (Ending # <<>> => Ending[1] # LogHeader /\ Ending[1] # TimeHeader)
    BY EndingFirst DEF TimesInv
  <2>8. Fixed(FlattenSeq(q) \o Ending, next, t) = FlattenSeq(r) \o Ending
    BY <1>6, <2>5, <2>6, <2>7, LogsFixed
  <2>9. FlattenSeq(r) \in Seq(Nat)
    <3>1. ASSUME NEW i \in 1 .. n PROVE r[i] \in Seq(Nat)
      <4>1. given[i] \in Seq(FieldTypes)
        BY <1>6, ElementOfSeq
      <4>2. LogMessage(Retimed(given[i], t)) \in Seq(Nat)
        BY <2>5, <2>6, <4>1, LogFixed
      <4> QED
        BY <4>2
    <3>2. r \in [1 .. n -> Seq(Nat)]
      <4>1. r = [i \in 1 .. n |-> r[i]]
        OBVIOUS
      <4> HIDE DEF r
      <4> QED
        BY <3>1, <4>1
    <3> HIDE DEF r, n
    <3>3. r \in Seq(Seq(Nat))
      BY <1>6, <3>2
    <3> QED
      BY <3>3, FlattenType
  <2>10. [i \in DOMAIN gs |-> LogMessage(gs[i])] = r
    OBVIOUS
  <2>11. GroupMessage(gs) = FlattenSeq(r) \o Ending
    <3> HIDE DEF gs, r
    <3> QED BY <1>7, <2>1, <2>9, <2>10, GroupEnds
  <2> QED
    BY <1>1, <2>4, <2>8, <2>11
<1>8. ASSUME size < Power(5) PROVE TimesFixed'
  <2> SUFFICES ASSUME t >= MinTime, \A i \in DOMAIN given : Timed(given[i]) \/ Untimed(given[i])
               PROVE  packed' = GroupMessage([i \in DOMAIN given |-> Retimed(given[i], fixed)])'
    BY <1>1 DEF TimesFixed
  <2>1. packed' = GroupMessage(gs)
    BY <1>7, <1>8
  <2>2. GroupMessage([i \in DOMAIN given |-> Retimed(given[i], fixed)])' = GroupMessage(gs)
    BY <1>1, <1>6 DEF GroupMessage
  <2> QED
    BY <2>1, <2>2
<1> QED
  BY <1>1, <1>2, <1>3, <1>5, <1>8 DEF TimesInv

LEMMA StutterTimes ==
    ASSUME TimesInv, UNCHANGED vars
    PROVE  TimesInv'
<1>1. /\ tags' = tags /\ open' = open /\ body' = body /\ size' = size /\ topic' = topic
      /\ source' = source /\ packed' = packed /\ given' = given /\ givenTags' = givenTags /\ fixed' = fixed
  BY DEF vars, caller
<1> QED
  BY <1>1 DEF TimesInv, SmallInv, TagsFirst, TimesFixed, Closed, GroupMessage

LEMMA InitTimes ==
    ASSUME Init
    PROVE  TimesInv
<1>1. tags.bytes = <<>> /\ given = <<>> /\ ~open /\ packed = <<>> /\ fixed = 0
  BY DEF Init, NoBuffer
<1>2. Closed = 0
  BY <1>1, EmptySeq DEF Closed
<1> QED
  BY <1>1, <1>2 DEF TimesInv, SmallInv, TagsFirst, TimesFixed

LEMMA TimesStep ==
    ASSUME TypeInv, BufferInv, EncodeInv, TimesInv, TypeInv', [Next]_vars
    PROVE  TimesInv'
<1>1. CASE \E t \in Times, pairs \in Pairs : AddLogFull(t, pairs)
  BY <1>1, FullTimes
<1>2. CASE \E k \in Lengths, v \in Lengths : AddTag(k, v) \/ AddLogKeyValue(k, v)
  BY <1>2, TagTimes, KeyValueTimes
<1>3. CASE \E n \in Lengths : AddTopic(n) \/ AddSource(n)
  BY <1>3, TopicTimes
<1>4. CASE \E t \in Times : AddLogTime(t)
  BY <1>4, TimeTimes
<1>7. CASE \E t \in Times, next \in {LogHeader, TimeHeader} : Fix(t, next)
  BY <1>7, FixTimes
<1>5. CASE AddLogBegin \/ AddLogEnd \/ Serialize
  BY <1>5, BeginTimes, EndTimes, SerializeTimes
<1>6. CASE UNCHANGED vars
  BY <1>6, StutterTimes
<1> QED
  BY <1>1, <1>2, <1>3, <1>4, <1>5, <1>6, <1>7 DEF Next

\* TimesFixed, for every group whose size is a uint32_t: the walk of fix_log_group_time
\* over the bytes of any number of logs, each with any fields, finds the time of each,
\* and what it overwrites of the group is the time and nothing else.
THEOREM TimesRewritten == Spec => []TimesFixed
<1>1. Init => EncodeInv /\ TimesInv
  BY InitEncodes, InitTimes
<1>2. /\ TypeInv /\ BufferInv /\ EncodeInv /\ TimesInv /\ TypeInv' /\ BufferInv' /\ [Next]_vars
      => EncodeInv' /\ TimesInv'
  BY EncodeStep, TimesStep
<1>3. TypeInv /\ BufferInv /\ TimesInv => TimesFixed
  BY SizeBound DEF TimesInv
<1> QED
  BY Invariance, <1>1, <1>2, <1>3, PTL DEF Spec

-----------------------------------------------------------------------------
(***************************************************************************)
(* The room behind a log's header in the group                             *)
(***************************************************************************)
\* What lies in front of part j, the part, and what lies behind it.
LEMMA Split ==
    ASSUME NEW q \in Seq(Seq(Nat)), NEW off, Offsets(off, q), NEW j \in 1 .. Len(q)
    PROVE  \E a \in Seq(Nat) :
             /\ Len(a) = off[j] /\ SubSeq(q, j + 1, Len(q)) \in Seq(Seq(Nat))
             /\ FlattenSeq(q) = (a \o q[j]) \o FlattenSeq(SubSeq(q, j + 1, Len(q)))
<1> DEFINE n == Len(q)
           p == SubSeq(q, 1, j - 1)
           r == SubSeq(q, j + 1, n)
           x == <<q[j]>>
           a == FlattenSeq(p)
<1>1. n \in Nat /\ j \in 1 .. n /\ \A i \in 1 .. n : q[i] \in Seq(Nat)
  BY ElementOfSeq, LenProperties
<1>2. p \in Seq(Seq(Nat)) /\ Len(p) = j - 1 /\ \A i \in 1 .. j - 1 : p[i] = q[i]
  <2>1. 1 \in Int /\ j - 1 \in Int /\ \A i \in 1 .. j - 1 : q[i] \in Seq(Nat)
    BY <1>1
  <2>2. /\ p \in Seq(Seq(Nat)) /\ Len(p) = IF 1 <= j - 1 THEN (j - 1) - 1 + 1 ELSE 0
        /\ \A i \in 1 .. (j - 1) - 1 + 1 : p[i] = q[1 + i - 1]
    BY ONLY <2>1, SubSeqProperties
  <2>3. \A i \in 1 .. j - 1 : i \in 1 .. (j - 1) - 1 + 1 /\ 1 + i - 1 = i
    BY <1>1
  <2>4. Len(p) = j - 1
    BY ONLY <1>1, <2>2
  <2> QED
    BY ONLY <2>2, <2>3, <2>4
<1>3. r \in Seq(Seq(Nat)) /\ Len(r) = n - j /\ \A i \in 1 .. n - j : r[i] = q[j + i]
  <2>1. j + 1 \in Int /\ n \in Int /\ \A i \in j + 1 .. n : q[i] \in Seq(Nat)
    BY <1>1
  <2>2. /\ r \in Seq(Seq(Nat)) /\ Len(r) = IF j + 1 <= n THEN n - (j + 1) + 1 ELSE 0
        /\ \A i \in 1 .. n - (j + 1) + 1 : r[i] = q[j + 1 + i - 1]
    BY ONLY <2>1, SubSeqProperties
  <2>3. \A i \in 1 .. n - j : i \in 1 .. n - (j + 1) + 1 /\ j + 1 + i - 1 = j + i
    BY <1>1
  <2>4. Len(r) = n - j
    BY ONLY <1>1, <2>2
  <2> QED
    BY ONLY <2>2, <2>3, <2>4
<1>4. x \in Seq(Seq(Nat)) /\ Len(x) = 1 /\ x[1] = q[j] /\ FlattenSeq(x) = q[j]
  BY <1>1, FlattenOne
<1> HIDE DEF p, r, x
<1>5. q = (p \o x) \o r
  <2> DEFINE y == p \o x
             z == y \o r
  <2>1. /\ y \in Seq(Seq(Nat)) /\ Len(y) = j
        /\ \A i \in 1 .. j : y[i] = IF i <= j - 1 THEN p[i] ELSE x[i - (j - 1)]
    <3>1. /\ y \in Seq(Seq(Nat)) /\ Len(y) = Len(p) + Len(x)
          /\ \A i \in 1 .. Len(p) + Len(x) : y[i] = IF i <= Len(p) THEN p[i] ELSE x[i - Len(p)]
      BY ONLY <1>2, <1>4, ConcatProperties
    <3>2. Len(p) + Len(x) = j
      BY ONLY <1>1, <1>2, <1>4
    <3> QED
      BY ONLY <1>2, <3>1, <3>2
  <2>2. \A i \in 1 .. j : y[i] = q[i]
    <3> SUFFICES ASSUME NEW i \in 1 .. j PROVE y[i] = q[i]
      OBVIOUS
    <3>1. CASE i <= j - 1
      <4>1. i \in 1 .. j - 1
        BY <1>1, <3>1
      <4> QED
        BY <1>2, <2>1, <3>1, <4>1
    <3>2. CASE ~(i <= j - 1)
      <4>1. i = j /\ i - (j - 1) = 1
        BY <1>1, <3>2
      <4> QED
        BY <1>4, <2>1, <3>2, <4>1
    <3> QED
      BY <3>1, <3>2
  <2> HIDE DEF y
  <2>3. /\ z \in Seq(Seq(Nat)) /\ Len(z) = n
        /\ \A i \in 1 .. n : z[i] = IF i <= j THEN y[i] ELSE r[i - j]
    <3>1. /\ z \in Seq(Seq(Nat)) /\ Len(z) = Len(y) + Len(r)
          /\ \A i \in 1 .. Len(y) + Len(r) : z[i] = IF i <= Len(y) THEN y[i] ELSE r[i - Len(y)]
      BY ONLY <1>3, <2>1, ConcatProperties
    <3>2. Len(y) + Len(r) = n
      BY ONLY <1>1, <1>3, <2>1
    <3> QED
      BY ONLY <2>1, <3>1, <3>2
  <2> HIDE DEF z
  <2>4. ASSUME NEW i \in 1 .. n PROVE z[i] = q[i]
    <3>1. CASE i <= j
      <4>1. i \in 1 .. j
        BY <1>1, <3>1
      <4> QED
        BY <2>2, <2>3, <3>1, <4>1
    <3>2. CASE ~(i <= j)
      <4> DEFINE h == i - j
      <4>1. h \in 1 .. n - j /\ j + h = i
        BY <1>1, <3>2
      <4>2. z[i] = r[h]
        BY <2>3, <3>2
      <4> HIDE DEF h
      <4> QED
        BY <1>3, <4>1, <4>2
    <3> QED
      BY <3>1, <3>2
  <2>5. z = q
    BY <2>3, <2>4, SeqEqual
  <2> QED
    BY <2>5 DEF z, y
<1>6. FlattenSeq(q) = (a \o q[j]) \o FlattenSeq(r)
  <2>1. FlattenSeq(p \o x) = a \o q[j]
    BY <1>2, <1>4, FlattenConcat
  <2>2. p \o x \in Seq(Seq(Nat))
    BY <1>2, <1>4, ConcatProperties
  <2>3. FlattenSeq((p \o x) \o r) = FlattenSeq(p \o x) \o FlattenSeq(r)
    BY <1>3, <2>2, FlattenConcat
  <2> QED
    BY <1>5, <2>1, <2>3
<1>7. a \in Seq(Nat) /\ Len(a) = off[j]
  <2>1. PICK f : Offsets(f, p) /\ Laid(f, p, a)
    BY <1>2, LaidOut
  <2> DEFINE g == [i \in 1 .. j |-> off[i]]
  <2>2. Offsets(g, p)
    <3>1. /\ \A i \in 1 .. n + 1 : off[i] \in Nat
          /\ off[1] = 0 /\ \A i \in 1 .. n : off[i + 1] = off[i] + Len(q[i])
      BY DEF Offsets
    <3>2. j - 1 + 1 = j /\ 1 \in 1 .. j /\ \A i \in 1 .. j : i \in 1 .. n + 1
      BY <1>1
    <3>3. ASSUME NEW i \in 1 .. j - 1 PROVE g[i + 1] = g[i] + Len(p[i])
      <4>1. i \in 1 .. j /\ i + 1 \in 1 .. j /\ i \in 1 .. n
        BY <1>1
      <4>2. g[i + 1] = off[i + 1] /\ g[i] = off[i] /\ p[i] = q[i]
        BY <1>2, <4>1
      <4> HIDE DEF g
      <4> QED
        BY <3>1, <4>1, <4>2
    <3>4. g \in [1 .. j -> Nat] /\ g[1] = 0
      BY <3>1, <3>2
    <3> HIDE DEF g
    <3>5. g \in [1 .. Len(p) + 1 -> Nat]
      BY <1>2, <3>2, <3>4
    <3> QED
      BY <1>2, <3>3, <3>4, <3>5 DEF Offsets
  <2>3. Len(p) \in Nat
    BY <1>1, <1>2
  <2>4. f = g
    <3> HIDE DEF g
    <3> QED BY <2>1, <2>2, <2>3, OffsetsUnique
  <2>5. f[j] = Len(a)
    <3>1. Len(p) + 1 = j
      BY <1>1, <1>2
    <3> QED
      BY <2>1, <3>1 DEF Laid
  <2>6. g[j] = off[j]
    BY <1>1
  <2> QED
    BY <1>2, <2>4, <2>5, <2>6, FlattenType
<1> QED
  BY <1>3, <1>6, <1>7 DEF r

\* The logs of a serialized group, as fix_log_group_time walks over them.
GroupLogs == [i \in 1 .. Len(given) |-> LogMessage(given[i])]
GroupSizes == [i \in 1 .. Len(given) |-> Len(FieldBytes(given[i]))]

LEMMA GroupIs ==
    ASSUME TypeInv, BufferInv, EncodeInv, TimesInv, packed # <<>>, fixed = 0
    PROVE  /\ given \in Seq(Seq(FieldTypes)) /\ Len(given) \in Nat /\ size < Power(5) /\ TagsInv
           /\ \A i \in 1 .. Len(given) : Encodable(given[i])
           /\ GroupLogs \in Seq(Seq(Nat)) /\ Len(GroupLogs) = Len(given)
           /\ Ending \in Seq(Nat) /\ (Ending # <<>> => Ending[1] # LogHeader /\ Ending[1] # TimeHeader)
           /\ packed = FlattenSeq(GroupLogs) \o Ending
<1>1. size < Power(5)
  BY SizeBound
<1>2. LogsInv /\ TagsInv /\ packed = GroupMessage(given)
  BY <1>1 DEF EncodeInv, Encoded
<1>3. ~open /\ given \in Seq(Seq(FieldTypes))
  BY DEF TypeInv
<1>4. Len(given) \in Nat /\ DOMAIN given = 1 .. Len(given) /\ Closed = Len(given)
  BY <1>3, LenProperties DEF Closed
<1>5. \A i \in 1 .. Len(given) : Encodable(given[i])
  BY <1>1, <1>4 DEF TimesInv, SmallInv
<1>6. LogMessages = GroupLogs
  BY <1>4 DEF LogMessages, GroupLogs
<1>7. GroupLogs \in Seq(Seq(Nat)) /\ Len(GroupLogs) = Len(given)
  <2>1. Len(GroupLogs) = Len(given)
    BY <1>4 DEF GroupLogs
  <2> QED
    BY <1>2, <1>6, <2>1 DEF LogsInv
<1>8. FlattenSeq(GroupLogs) \in Seq(Nat)
  BY <1>7, FlattenType
<1>9. packed = FlattenSeq(GroupLogs) \o Ending
  <2>1. [i \in DOMAIN given |-> LogMessage(given[i])] = GroupLogs
    BY <1>4 DEF GroupLogs
  <2> QED
    BY <1>1, <1>2, <1>8, <2>1, GroupEnds
<1>10. Ending \in Seq(Nat) /\ (Ending # <<>> => Ending[1] # LogHeader /\ Ending[1] # TimeHeader)
  BY EndingFirst DEF TimesInv
<1> QED
  BY <1>1, <1>2, <1>3, <1>4, <1>5, <1>7, <1>9, <1>10

LEMMA RestIs ==
    ASSUME TypeInv, BufferInv, EncodeInv, TimesInv, packed # <<>>, fixed = 0, NEW j \in 1 .. Len(given)
    PROVE  Rest(j) = FieldBytes(given[j]) \o (FlattenSeq(SubSeq(GroupLogs, j + 1, Len(given))) \o Ending)
<1> DEFINE n == Len(given)
           gs == SubSeq(given, j + 1, n)
           r == SubSeq(GroupLogs, j + 1, n)
           w == [i \in DOMAIN gs |-> LogMessage(gs[i])]
<1>1. /\ given \in Seq(Seq(FieldTypes)) /\ n \in Nat /\ size < Power(5) /\ TagsInv
      /\ GroupLogs \in Seq(Seq(Nat)) /\ Len(GroupLogs) = n
  BY GroupIs
<1>2. \A i \in 1 .. n : GroupLogs[i] = LogMessage(given[i])
  BY DEF GroupLogs
<1>3. \A i \in j + 1 .. n : given[i] \in Seq(FieldTypes) /\ GroupLogs[i] \in Seq(Nat) /\ i \in 1 .. n
  <2>1. \A i \in j + 1 .. n : i \in 1 .. n
    BY <1>1
  <2> QED
    BY <1>1, <2>1, ElementOfSeq
<1>4. j + 1 \in Int /\ n \in Int
  BY <1>1
<1>5. /\ gs \in Seq(Seq(FieldTypes)) /\ Len(gs) = IF j + 1 <= n THEN n - (j + 1) + 1 ELSE 0
      /\ \A i \in 1 .. n - (j + 1) + 1 : gs[i] = given[j + 1 + i - 1]
  BY ONLY <1>3, <1>4, SubSeqProperties
<1>6. /\ r \in Seq(Seq(Nat)) /\ Len(r) = IF j + 1 <= n THEN n - (j + 1) + 1 ELSE 0
      /\ \A i \in 1 .. n - (j + 1) + 1 : r[i] = GroupLogs[j + 1 + i - 1]
  BY ONLY <1>3, <1>4, SubSeqProperties
<1>7. DOMAIN gs = 1 .. Len(gs) /\ DOMAIN r = 1 .. Len(r)
  BY <1>5, <1>6, LenProperties
<1> HIDE DEF gs, r, n
<1>8. ASSUME NEW i \in 1 .. Len(r) PROVE r[i] = LogMessage(gs[i])
  <2>1. i \in 1 .. n - (j + 1) + 1 /\ j + 1 + i - 1 \in 1 .. n
    <3>1. j + 1 <= n
      <4> SUFFICES ASSUME ~(j + 1 <= n) PROVE FALSE
        OBVIOUS
      <4>1. Len(r) = 0
        BY <1>6
      <4> QED
        BY <4>1
    <3> QED
      BY ONLY <1>1, <1>6, <3>1, i \in 1 .. Len(r), j \in 1 .. Len(given) DEF n
  <2>2. r[i] = GroupLogs[j + 1 + i - 1] /\ gs[i] = given[j + 1 + i - 1]
    BY <1>5, <1>6, <2>1
  <2> QED
    BY <1>2, <2>1, <2>2
<1>9. w = r
  <2>1. w = [i \in 1 .. Len(r) |-> LogMessage(gs[i])] /\ r = [i \in 1 .. Len(r) |-> r[i]]
    BY <1>5, <1>6, <1>7
  <2> QED
    BY <1>8, <2>1
<1>10. FlattenSeq(r) \in Seq(Nat)
  BY <1>6, FlattenType
<1>11. GroupMessage(gs) = FlattenSeq(r) \o Ending
  <2>1. FlattenSeq(w) \in Seq(Nat)
    BY <1>9, <1>10
  <2> QED
    BY <1>1, <1>9, <2>1, GroupEnds
<1>12. Rest(j) = FieldBytes(given[j]) \o GroupMessage(gs)
  BY DEF Rest, FieldBytes, FieldMessages, gs, n
<1> QED
  BY <1>11, <1>12 DEF r, n

\* The rest of log j fills the group from the first byte of its body on.
LEMMA RestPlace ==
    ASSUME TypeInv, BufferInv, EncodeInv, TimesInv, packed # <<>>, fixed = 0,
           NEW off, Offsets(off, GroupLogs), NEW j \in 1 .. Len(given)
    PROVE  LET p == Start(off, GroupSizes, j)
           IN  /\ p \in Nat /\ Rest(j) \in Seq(Nat) /\ Len(packed) = p - 1 + Len(Rest(j))
               /\ Rest(j) # <<>> => packed[p] = Rest(j)[1]
<1> DEFINE q == GroupLogs
           c == FieldBytes(given[j])
           m == Len(c)
           h == <<LogHeader>> \o Pack(m)
           z == FlattenSeq(SubSeq(q, j + 1, Len(q)))
           p == Start(off, GroupSizes, j)
           y == Rest(j)
<1>1. /\ q \in Seq(Seq(Nat)) /\ Len(q) = Len(given) /\ Encodable(given[j])
      /\ Ending \in Seq(Nat) /\ packed = FlattenSeq(q) \o Ending
  BY GroupIs
<1>2. c \in Seq(Nat) /\ m \in Nat /\ q[j] = h \o c
  <2>1. c \in Seq(Nat) /\ m \in Nat /\ LogMessage(given[j]) = (<<LogHeader>> \o Pack(m)) \o c
    BY <1>1, EncodableIs
  <2>2. q[j] = LogMessage(given[j])
    BY DEF GroupLogs
  <2> QED
    BY <2>1, <2>2
<1>3. PICK a \in Seq(Nat) : /\ Len(a) = off[j] /\ SubSeq(q, j + 1, Len(q)) \in Seq(Seq(Nat))
                            /\ FlattenSeq(q) = (a \o q[j]) \o z
  <2>1. j \in 1 .. Len(q)
    BY <1>1
  <2> HIDE DEF q
  <2> QED
    BY <1>1, <2>1, Split DEF q
<1>4. z \in Seq(Nat)
  BY <1>3, FlattenType
<1>5. h \in Seq(Nat) /\ Len(h) = 1 + VarSize(m) /\ VarSize(m) \in 1 .. 5
  <2>1. Pack(m) \in Seq(Nat) /\ Len(Pack(m)) = VarSize(m) /\ VarSize(m) \in 1 .. 5
    BY <1>2, PackLength, VarSizeCases
  <2> DEFINE w == Pack(m)
  <2> HIDE DEF w
  <2>2. w \in Seq(Nat) /\ Len(w) = VarSize(m)
    BY <2>1 DEF w
  <2>3. <<LogHeader>> \o w \in Seq(Nat) /\ Len(<<LogHeader>> \o w) = Len(w) + 1
    BY <2>2, Headers, ConsIs
  <2> QED
    BY <2>1, <2>2, <2>3 DEF w
<1>6. y = c \o (z \o Ending)
  BY <1>1, RestIs
<1>7. p = off[j] + 2 + VarSize(m)
  BY DEF Start, GroupSizes
<1>8. off[j] \in Nat
  BY <1>3, LenProperties
<1> DEFINE e == Ending
<1> HIDE DEF q, c, m, h, z, p, y, e
<1>9. e \in Seq(Nat) /\ packed = ((a \o (h \o c)) \o z) \o e /\ y = c \o (z \o e)
  BY <1>1, <1>2, <1>3, <1>6 DEF e
<1> DEFINE u == a \o h
           ze == z \o e
<1>10. u \in Seq(Nat) /\ Len(u) = Len(a) + Len(h) /\ ze \in Seq(Nat)
  BY <1>4, <1>5, <1>9, ConcatProperties
<1>11. y \in Seq(Nat) /\ packed = u \o y
  <2>1. a \o (h \o c) = u \o c
    BY ONLY a \in Seq(Nat), <1>2, <1>5, Associative
  <2> HIDE DEF u, ze
  <2>2. u \o c \in Seq(Nat) /\ c \o ze \in Seq(Nat)
    BY <1>2, <1>10, ConcatProperties
  <2>3. ((u \o c) \o z) \o e = (u \o c) \o ze
    BY ONLY <1>4, <1>9, <2>2, Associative DEF ze
  <2>4. (u \o c) \o ze = u \o (c \o ze)
    BY ONLY <1>2, <1>10, Associative
  <2>5. y = c \o ze
    BY <1>9 DEF ze
  <2> QED
    BY <1>9, <2>1, <2>2, <2>3, <2>4, <2>5
<1> HIDE DEF u, ze
<1>12. /\ Len(packed) = Len(u) + Len(y)
       /\ \A i \in 1 .. Len(u) + Len(y) : packed[i] = IF i <= Len(u) THEN u[i] ELSE y[i - Len(u)]
  <2>1. u \in Seq(Nat) /\ y \in Seq(Nat)
    BY <1>10, <1>11
  <2>2. /\ Len(u \o y) = Len(u) + Len(y)
        /\ \A i \in 1 .. Len(u) + Len(y) : (u \o y)[i] = IF i <= Len(u) THEN u[i] ELSE y[i - Len(u)]
    BY ONLY <2>1, ConcatProperties
  <2> QED
    BY ONLY <1>11, <2>2
<1>13. Len(u) = p - 1 /\ p \in Nat /\ p >= 1 /\ Len(y) \in Nat
  <2>1. Len(a) = off[j] /\ off[j] \in Nat
    BY <1>3, <1>8
  <2>2. Len(y) \in Nat
    BY <1>11, LenProperties
  <2> DEFINE o == off[j]
             s == VarSize(m)
  <2>3. o \in Nat /\ s \in 1 .. 5 /\ p = o + 2 + s /\ Len(u) = o + (1 + s)
    BY <1>5, <1>7, <1>10, <2>1
  <2> HIDE DEF o, s
  <2> QED
    BY ONLY <2>2, <2>3
<1>14. ASSUME y # <<>> PROVE packed[p] = y[1]
  <2>1. Len(y) # 0
    BY <1>11, <1>14, EmptySeq
  <2>2. p \in 1 .. Len(u) + Len(y) /\ ~(p <= Len(u)) /\ p - Len(u) = 1
    BY ONLY <1>13, <2>1
  <2>3. packed[p] = IF p <= Len(u) THEN u[p] ELSE y[p - Len(u)]
    BY ONLY <1>12, <2>2
  <2> QED
    BY <2>2, <2>3
<1>15. Len(packed) = p - 1 + Len(y)
  BY ONLY <1>12, <1>13
<1> QED
  BY <1>11, <1>13, <1>14, <1>15 DEF p, y

-----------------------------------------------------------------------------
(***************************************************************************)
(* The invariant behind WithinBuffers                                      *)
(***************************************************************************)
\* fix_log_group_time has written behind the group only where a log is Exposed.
OverrunInv == (overrun => Exposed) /\ (packed = <<>> => ~overrun)

\* A group without such a log is left in its bounds, whatever lies behind it.
LEMMA FixWithin ==
    ASSUME TypeInv, BufferInv, EncodeInv, TimesInv, packed # <<>>, fixed = 0, ~Exposed,
           NEW next \in {LogHeader, TimeHeader}, NEW t \in MinTime .. Power(5) - 1
    PROVE  \A i \in Len(packed) + 1 .. Len(packed) + 6 :
             FixTime(packed \o Behind(next), Len(packed), t)[i] = (packed \o Behind(next))[i]
<1> DEFINE q == GroupLogs
           sz == GroupSizes
           l == Len(packed)
           b == packed \o Behind(next)
<1>1. /\ given \in Seq(Seq(FieldTypes)) /\ Len(given) \in Nat
      /\ \A i \in 1 .. Len(given) : Encodable(given[i])
      /\ q \in Seq(Seq(Nat)) /\ Len(q) = Len(given)
      /\ Ending \in Seq(Nat) /\ (Ending # <<>> => Ending[1] # LogHeader /\ Ending[1] # TimeHeader)
      /\ packed = FlattenSeq(q) \o Ending
  BY GroupIs
<1>2. PICK off : Offsets(off, q) /\ Laid(off, q, FlattenSeq(q))
  BY <1>1, LaidOut
<1>3. ASSUME NEW j \in 1 .. Len(q) PROVE Framed(q[j], sz[j]) /\ sz[j] \in Nat
  <2> DEFINE c == FieldBytes(given[j])
  <2>1. j \in 1 .. Len(given) /\ Encodable(given[j])
    BY <1>1
  <2>2. /\ c \in Seq(Nat) /\ Len(c) \in Nat /\ Len(c) < Power(5)
        /\ LogMessage(given[j]) = <<LogHeader>> \o Pack(Len(c)) \o c
    BY <2>1, EncodableIs
  <2>3. q[j] = LogMessage(given[j]) /\ sz[j] = Len(c)
    BY <2>1 DEF GroupLogs, GroupSizes
  <2> HIDE DEF c
  <2>4. Framed(<<LogHeader>> \o Pack(Len(c)) \o c, Len(c))
    BY ONLY <2>2, FrameIs
  <2> QED
    BY <2>2, <2>3, <2>4
<1>4. sz \in [1 .. Len(q) -> Nat]
  <2>1. sz = [j \in 1 .. Len(q) |-> sz[j]]
    BY <1>1 DEF GroupSizes
  <2> HIDE DEF sz
  <2> QED
    BY <1>3, <2>1
<1>5. Grouped(b, l, q, sz, off)
  <2> HIDE DEF q, sz, b, l
  <2>1. Grouped((FlattenSeq(q) \o Ending) \o Behind(next), Len(FlattenSeq(q) \o Ending), q, sz, off)
    BY ONLY <1>1, <1>2, <1>3, <1>4, next \in {LogHeader, TimeHeader}, GroupedMemory
  <2> QED
    BY <1>1, <2>1 DEF b, l
<1>6. l \in Nat /\ Len(b) = l + 6 /\ (\A i \in 1 .. l : b[i] = packed[i])
  <2>1. packed \in Seq(Nat)
    BY DEF TypeInv
  <2> QED
    BY <2>1, MemoryIs, LenProperties
<1>7. Roomy(b, l, q, sz, off)
  <2> SUFFICES ASSUME NEW j \in 1 .. Len(q), b[Start(off, sz, j)] = TimeHeader
               PROVE  Start(off, sz, j) + 5 <= l
    BY DEF Roomy
  <2> DEFINE p == Start(off, sz, j)
             y == Rest(j)
  <2>1. j \in 1 .. Len(given) /\ j \in DOMAIN given
    BY <1>1, LenProperties
  <2>2. p \in Nat /\ y \in Seq(Nat) /\ l = p - 1 + Len(y) /\ (y # <<>> => packed[p] = y[1])
    BY <1>2, <2>1, RestPlace
  <2>3. ~(Len(y) < 6 /\ (y = <<>> \/ y[1] = TimeHeader))
    BY <2>1 DEF Exposed
  <2>4. Len(y) \in Nat
    BY <2>2, LenProperties
  <2>5. b[p] = TimeHeader
    OBVIOUS
  <2> HIDE DEF p, y, b, l
  <2>6. CASE ~(Len(y) < 6)
    <3>1. p + 5 <= l
      BY ONLY <2>2, <2>4, <2>6
    <3> QED
      BY <3>1 DEF p
  <2>7. CASE Len(y) < 6
    <3>1. y # <<>> /\ y[1] # TimeHeader
      BY <2>3, <2>7
    <3>2. Len(y) # 0
      BY <2>2, <3>1, EmptySeq
    <3>3. p <= l /\ p >= 3
      <4>1. p >= 3
        <5> HIDE DEF sz, q
        <5>1. Start(off, sz, j) >= off[j] + 3 /\ off[j] \in Nat
          BY ONLY <1>5, j \in 1 .. Len(q), GroupedPlaces
        <5> QED
          BY <2>2, <5>1 DEF p
      <4> QED
        BY ONLY <1>6, <2>2, <2>4, <3>2, <4>1
    <3>4. p \in 1 .. l
      BY ONLY <1>6, <2>2, <3>3
    <3>5. b[p] = y[1]
      BY <1>6, <2>2, <3>1, <3>4
    <3> QED
      BY <2>5, <3>1, <3>5
  <2> QED
    BY <2>6, <2>7
<1> HIDE DEF b, l, q, sz
<1>8. \A i \in l + 1 .. l + 6 : FixTime(b, l, t)[i] = b[i]
  BY ONLY <1>5, <1>7, t \in MinTime .. Power(5) - 1, NoOverrun
<1> QED
  BY <1>8 DEF b, l

LEMMA FixOverrun ==
    ASSUME TypeInv, BufferInv, EncodeInv, TimesInv, OverrunInv, NEW t \in Times,
           NEW next \in {LogHeader, TimeHeader}, Fix(t, next), TypeInv'
    PROVE  OverrunInv'
<1> DEFINE l == Len(packed)
           w == Behind(next)
           b == packed \o w
           m == FixTime(b, l, t)
<1>1. /\ UNCHANGED <<topic, source, given, givenTags>> /\ packed # <<>> /\ fixed = 0
      /\ packed' = SubSeq(m, 1, l) /\ overrun' = (SubSeq(m, l + 1, l + 6) # w)
  BY DEF Fix, Building
<1>2. Exposed' = Exposed
  BY <1>1 DEF Exposed, Rest, GroupMessage
<1>3. t \in 0 .. Power(5) - 1 /\ MinTime \in Nat /\ Power(5) \in Nat
  <2> HIDE DEF l, w, b, m
  <2> QED BY Inputs, Powers
<1>4. /\ w \in Seq(Nat) /\ Len(w) = 6 /\ l \in Nat /\ packed \in Seq(Nat)
      /\ b \in Seq(Nat) /\ Len(b) = l + 6 /\ \A i \in 1 .. 6 : b[l + i] = w[i]
  <2>1. packed \in Seq(Nat) /\ l \in Nat
    BY LenProperties DEF TypeInv
  <2>2. w \in Seq(Nat) /\ Len(w) = 6
    BY BehindIs
  <2> HIDE DEF w
  <2>3. /\ b \in Seq(Nat) /\ Len(b) = l + Len(w)
        /\ \A i \in 1 .. l + Len(w) : b[i] = IF i <= l THEN packed[i] ELSE w[i - l]
    BY ONLY <2>1, <2>2, ConcatProperties
  <2> HIDE DEF b, l
  <2>4. ASSUME NEW i \in 1 .. 6 PROVE b[l + i] = w[i]
    <3> DEFINE k == l + i
    <3>1. k \in 1 .. l + Len(w) /\ ~(k <= l) /\ k - l = i
      BY <2>1, <2>2
    <3> HIDE DEF k
    <3>2. b[k] = w[i]
      BY <2>3, <3>1
    <3> QED
      BY <3>2 DEF k
  <2> QED
    BY <2>1, <2>2, <2>3, <2>4
<1>5. m \in Seq(Nat) /\ Len(m) = l + 6
  <2>1. t \in Nat
    BY <1>3
  <2> HIDE DEF b, l
  <2> QED
    BY ONLY <1>4, <2>1, FixTimeType
<1>6. packed' # <<>>
  <2> HIDE DEF m, l
  <2>1. SubSeq(m, 1, l) \in Seq(Nat) /\ Len(SubSeq(m, 1, l)) = l
    <3>1. m \in Seq(Nat) /\ Len(m) = l + 6 /\ l \in Nat
      BY <1>4, <1>5
    <3>2. \A i \in 1 .. l : i \in 1 .. Len(m)
      BY ONLY <3>1
    <3>3. 1 \in Int /\ l \in Int /\ \A i \in 1 .. l : m[i] \in Nat
      BY ONLY <3>1, <3>2, ElementOfSeq
    <3>4. SubSeq(m, 1, l) \in Seq(Nat) /\ Len(SubSeq(m, 1, l)) = IF 1 <= l THEN l - 1 + 1 ELSE 0
      BY ONLY <3>3, SubSeqProperties
    <3> QED
      BY ONLY <3>1, <3>4
  <2>2. l # 0
    BY <1>1, <1>4, EmptySeq DEF l
  <2> QED
    BY <1>1, <2>1, <2>2, EmptySeq
<1>7. ASSUME \A i \in l + 1 .. l + 6 : m[i] = b[i] PROVE ~overrun'
  <2> HIDE DEF m, l, b, w
  <2> DEFINE g == l + 1
             h == l + 6
             y == SubSeq(m, g, h)
  <2>1. l \in Nat /\ g \in Nat /\ h \in Nat /\ g = l + 1 /\ h = l + 6 /\ h - g + 1 = 6
    BY <1>4
  <2>2. ~overrun' <=> y = w
    BY <1>1
  <2>3. \A i \in g .. h : m[i] = b[i]
    BY <1>7
  <2> HIDE DEF g, h
  <2>4. \A i \in g .. h : m[i] \in Nat
    <3>1. m \in Seq(Nat) /\ Len(m) = l + 6
      BY <1>5
    <3>2. \A i \in g .. h : i \in 1 .. Len(m)
      BY ONLY <2>1, <3>1
    <3> QED
      BY ONLY <3>1, <3>2, ElementOfSeq
  <2>5. /\ y \in Seq(Nat) /\ Len(y) = IF g <= h THEN h - g + 1 ELSE 0
        /\ \A i \in 1 .. h - g + 1 : y[i] = m[g + i - 1]
    <3>1. g \in Int /\ h \in Int
      BY <2>1
    <3> QED
      BY ONLY <2>4, <3>1, SubSeqProperties
  <2> HIDE DEF y
  <2>6. Len(y) = 6
    BY ONLY <2>1, <2>5
  <2>7. ASSUME NEW i \in 1 .. 6 PROVE y[i] = w[i]
    <3> DEFINE k == l + i
    <3>1. i \in 1 .. h - g + 1 /\ g + i - 1 = k /\ k \in g .. h
      BY ONLY <2>1, i \in 1 .. 6
    <3>2. b[k] = w[i]
      BY <1>4
    <3> HIDE DEF k
    <3>3. y[i] = m[k]
      BY ONLY <2>5, <3>1
    <3>4. m[k] = b[k]
      BY ONLY <2>3, <3>1
    <3> QED
      BY ONLY <3>2, <3>3, <3>4
  <2>8. y = w
    <3>1. w \in Seq(Nat) /\ Len(w) = 6
      BY <1>4
    <3> QED
      BY ONLY <2>5, <2>6, <2>7, <3>1, SeqEqual
  <2> QED
    BY <2>2, <2>8
<1>8. CASE t < MinTime
  <2>1. m = b
    BY <1>8 DEF FixTime
  <2> HIDE DEF m, b, l, w
  <2> QED
    BY <1>6, <1>7, <2>1 DEF OverrunInv
<1>9. CASE ~(t < MinTime)
  <2>1. t \in MinTime .. Power(5) - 1
    BY <1>3, <1>9
  <2>2. ~Exposed => \A i \in l + 1 .. l + 6 : m[i] = b[i]
    BY <1>1, <2>1, FixWithin
  <2> HIDE DEF m, b, l, w
  <2> QED
    BY <1>2, <1>6, <1>7, <2>2 DEF OverrunInv
<1> QED
  BY <1>8, <1>9

LEMMA OverrunStep ==
    ASSUME TypeInv, BufferInv, EncodeInv, TimesInv, OverrunInv, [Next]_vars, TypeInv'
    PROVE  OverrunInv'
<1>1. CASE \E t \in Times, next \in {LogHeader, TimeHeader} : Fix(t, next)
  BY <1>1, FixOverrun
<1>2. CASE UNCHANGED vars
  <2>1. UNCHANGED <<topic, source, packed, given, givenTags, overrun>>
    BY <1>2 DEF vars, caller
  <2> QED
    BY <2>1 DEF OverrunInv, Exposed, Rest, GroupMessage
<1>3. ASSUME packed = <<>>, overrun' = overrun PROVE OverrunInv'
  BY <1>3 DEF OverrunInv
<1>4. CASE \E t \in Times, pairs \in Pairs : AddLogFull(t, pairs)
  BY <1>3, <1>4 DEF AddLogFull, Room, Building
<1>5. CASE \E k \in Lengths, v \in Lengths : AddTag(k, v) \/ AddLogKeyValue(k, v)
  BY <1>3, <1>5 DEF AddTag, AddLogKeyValue, Room, Building
<1>6. CASE \E n \in Lengths : AddTopic(n) \/ AddSource(n)
  BY <1>3, <1>6 DEF AddTopic, AddSource, Room, Building, caller
<1>7. CASE \E t \in Times : AddLogTime(t)
  BY <1>3, <1>7 DEF AddLogTime, Room, Building
<1>8. CASE AddLogBegin \/ AddLogEnd \/ Serialize
  BY <1>3, <1>8 DEF AddLogBegin, AddLogEnd, Serialize, Room, Building, caller
<1> QED
  BY <1>1, <1>2, <1>4, <1>5, <1>6, <1>7, <1>8 DEF Next

\* WithinBuffers, for every sequence of calls, with logs, tags and fields of any lengths:
\* while the group is smaller than a quarter of what a uint32_t holds, nothing that
\* log_builder.c writes leaves the buffer that it wrote to; and fix_log_group_time
\* writes behind a group only if the group ends in an empty log, or fewer than five
\* bytes behind the header of a time with which a log begins.
THEOREM BuffersKept == Spec => []WithinBuffers
<1>1. Init => EncodeInv /\ TimesInv /\ OverrunInv
  <2>1. Init => OverrunInv
    BY DEF Init, OverrunInv
  <2> QED
    BY <2>1, InitEncodes, InitTimes
<1>2. /\ TypeInv /\ BufferInv /\ EncodeInv /\ TimesInv /\ OverrunInv /\ TypeInv' /\ BufferInv' /\ [Next]_vars
      => EncodeInv' /\ TimesInv' /\ OverrunInv'
  BY EncodeStep, TimesStep, OverrunStep
<1>3. BufferInv /\ OverrunInv => WithinBuffers
  BY DEF BufferInv, OverrunInv, WithinBuffers, Fits
<1> QED
  BY Invariance, <1>1, <1>2, <1>3, PTL DEF Spec
=============================================================================
