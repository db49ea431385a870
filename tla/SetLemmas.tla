------------------------------ MODULE SetLemmas ------------------------------
(***************************************************************************)
(* Lemmas on which the proofs about several components rest: the least and *)
(* greatest elements of finite sets, their elements in an order and as a   *)
(* sequence; induction; and sequences of samples.                          *)
(***************************************************************************)
EXTENDS SequencesExt, FiniteSetTheorems, FunctionTheorems, SequenceTheorems, TLAPS

\* A finite set as a sequence: each of its elements once.
LEMMA SetToSeqIs ==
  ASSUME NEW S, IsFiniteSet(S)
  PROVE  /\ SetToSeq(S) \in Seq(S)
         /\ ToSet(SetToSeq(S)) = S
         /\ IsInjective(SetToSeq(S))
<1> DEFINE n == Cardinality(S)
           s == SetToSeq(S)
<1>1. n \in Nat /\ ExistsBijection(1..n, S)
  BY FS_CardinalityType
<1>2. PICK f \in Bijection(1..n, S) : TRUE
  BY <1>1 DEF ExistsBijection
<1>3. f \in [1..n -> S] /\ \A a, b \in 1..n : f[a] = f[b] => a = b
  BY Fun_BijectionProperties
<1>4. s \in [1..n -> S] /\ IsInjective(s)
  <2>1. IsInjective(f)
    BY <1>3 DEF IsInjective
  <2>2. QED
    BY <2>1, <1>3 DEF SetToSeq
<1>5. s \in Injection(1..n, S)
  BY <1>4 DEF Injection
<1> HIDE DEF s
<1>6. s \in Surjection(1..n, S)
  <2>1. IsFiniteSet(1..n) /\ Cardinality(1..n) = n
    <3>1. IsFiniteSet(1..n) /\ Cardinality(1..n) = IF 1 > n THEN 0 ELSE n - 1 + 1
      BY <1>1, FS_Interval
    <3>2. QED
      BY <3>1, <1>1
  <2>2. Cardinality(1..n) = Cardinality(S) <=> s \in Surjection(1..n, S)
    BY <1>5, FS_Injection
  <2>3. QED
    BY <2>1, <2>2
<1>7. \A x \in S : \E i \in 1..n : s[i] = x
  BY <1>6 DEF Surjection
<1>8. ToSet(s) = S
  BY <1>4, <1>7 DEF ToSet
<1>9. s \in Seq(S)
  BY <1>4, <1>1, SeqDef
<1>10. QED
  BY <1>4, <1>8, <1>9 DEF s

\* A set of one or of no element as a sequence.
LEMMA SmallSetToSeq ==
  /\ SetToSeq({}) = <<>>
  /\ \A x : SetToSeq({x}) = <<x>>
<1>1. SetToSeq({}) = <<>>
  <2>1. SetToSeq({}) \in Seq({})
    BY FS_EmptySet, SetToSeqIs
  <2> DEFINE s == SetToSeq({})
  <2>2. Len(s) \in Nat /\ s \in [1..Len(s) -> {}]
    BY <2>1, LenProperties
  <2> DEFINE n == Len(s)
  <2> HIDE DEF s, n
  <2>3. n = 0
    <3>1. n \in Nat /\ \A i \in 1..n : FALSE
      BY <2>2 DEF n
    <3>2. n # 0 => 1 \in 1..n
      BY <3>1
    <3>3. QED
      BY <3>1, <3>2
  <2>4. QED
    BY <2>1, <2>3, EmptySeq DEF s, n
<1>2. ASSUME NEW x  PROVE SetToSeq({x}) = <<x>>
  <2> DEFINE s == SetToSeq({x})
             n == Len(s)
  <2>1. s \in Seq({x}) /\ ToSet(s) = {x} /\ IsInjective(s)
    BY FS_Singleton, SetToSeqIs
  <2> HIDE DEF s
  <2>2. n \in Nat /\ s \in [1..n -> {x}] /\ DOMAIN s = 1..n
    BY <2>1, LenProperties
  <2> HIDE DEF n
  <2>3. \A i, j \in 1..n : i = j
    BY <2>1, <2>2 DEF IsInjective
  <2>4. n # 0
    BY <2>1, <2>2 DEF ToSet
  <2>5. n = 1
    <3>1. n > 1 => 1 \in 1..n /\ 2 \in 1..n
      BY <2>2
    <3>2. ~(n > 1)
      BY <3>1, <2>3
    <3>3. QED
      BY <3>2, <2>2, <2>4
  <2>6. s = [i \in 1..1 |-> x]
    BY <2>2, <2>5
  <2>7. QED
    BY <2>6 DEF s
<1>3. QED
  BY <1>1, <1>2

\* What a function makes of a finite set is finite.
LEMMA ImageIsFinite ==
  ASSUME NEW f, IsFiniteSet(DOMAIN f), f = [x \in DOMAIN f |-> f[x]]
  PROVE  IsFiniteSet({f[x] : x \in DOMAIN f})
<1> DEFINE T == {f[x] : x \in DOMAIN f}
<1>1. f \in Surjection(DOMAIN f, T)
  BY DEF Surjection
<1>2. QED
  BY <1>1, FS_Surjection

\* In a strict total order on a finite set, every place is taken by one element: there is
\* one that comes after none, one that comes after one, and so on.
LEMMA RankIs ==
  ASSUME NEW S, IsFiniteSet(S), NEW R,
         \A x \in S : <<x, x>> \notin R,
         \A x, y \in S : x # y => <<x, y>> \in R \/ <<y, x>> \in R,
         \A x, y, z \in S : <<x, y>> \in R /\ <<y, z>> \in R => <<x, z>> \in R
  PROVE  LET rank(x) == Cardinality({y \in S : <<y, x>> \in R})
         IN /\ Cardinality(S) \in Nat
            /\ \A x \in S : rank(x) \in 0..(Cardinality(S) - 1)
            /\ \A x, y \in S : rank(x) < rank(y) <=> <<x, y>> \in R
            /\ \A i \in 1..Cardinality(S) : \E x \in S : rank(x) = i - 1
<1> DEFINE n == Cardinality(S)
           before(x) == {y \in S : <<y, x>> \in R}
           rank(x) == Cardinality(before(x))
<1>1. n \in Nat
  BY FS_CardinalityType
<1>2. ASSUME NEW x \in S  PROVE IsFiniteSet(before(x)) /\ rank(x) \in 0..(n - 1) /\ rank(x) \in Nat
  <2>1. before(x) \subseteq S /\ x \notin before(x)
    OBVIOUS
  <2> HIDE DEF before
  <2>2. /\ IsFiniteSet(before(x)) /\ Cardinality(before(x)) <= n
        /\ (n = Cardinality(before(x)) => S = before(x))
    BY <2>1, FS_Subset
  <2>3. Cardinality(before(x)) \in Nat /\ Cardinality(before(x)) # n
    BY <2>1, <2>2, FS_CardinalityType
  <2>4. QED
    BY <2>2, <2>3, <1>1
<1>3. ASSUME NEW x \in S, NEW y \in S, <<x, y>> \in R  PROVE rank(x) < rank(y)
  <2>1. before(x) \subseteq before(y) /\ x \in before(y) /\ x \notin before(x)
    BY <1>3
  <2>2. IsFiniteSet(before(y)) /\ rank(x) \in Nat /\ rank(y) \in Nat
    BY <1>2
  <2> HIDE DEF before
  <2>3. /\ Cardinality(before(x)) <= Cardinality(before(y))
        /\ (Cardinality(before(y)) = Cardinality(before(x)) => before(y) = before(x))
    BY <2>1, <2>2, FS_Subset
  <2>4. QED
    BY <2>1, <2>2, <2>3
<1>4. \A x \in S : rank(x) \in 0..(n - 1) /\ rank(x) \in Nat
  BY <1>2
<1> HIDE DEF rank
<1>5. \A x, y \in S : rank(x) < rank(y) => <<x, y>> \in R
  <2>1. SUFFICES ASSUME NEW x \in S, NEW y \in S, rank(x) < rank(y)  PROVE <<x, y>> \in R
    OBVIOUS
  <2>2. x # y /\ ~(rank(y) < rank(x))
    BY <2>1, <1>4
  <2>3. QED
    BY <2>2, <1>3
<1>6. \A i \in 0..(n - 1) : \E x \in S : rank(x) = i
  <2> DEFINE f == [x \in S |-> rank(x)]
  <2>1. f \in [S -> 0..(n - 1)] /\ \A x, y \in S : f[x] = f[y] => x = y
    <3>1. \A x, y \in S : rank(x) = rank(y) => x = y
      <4>1. SUFFICES ASSUME NEW x \in S, NEW y \in S, rank(x) = rank(y), x # y  PROVE FALSE
        OBVIOUS
      <4>2. ~(rank(x) < rank(y)) /\ ~(rank(y) < rank(x))
        BY <4>1, <1>4
      <4>3. QED
        BY <4>1, <4>2, <1>3
    <3>2. QED
      BY <3>1, <1>4
  <2>2. f \in Injection(S, 0..(n - 1))
    BY <2>1 DEF Injection, IsInjective
  <2>3. IsFiniteSet(0..(n - 1)) /\ Cardinality(0..(n - 1)) = n
    <3>1. IsFiniteSet(0..(n - 1)) /\ Cardinality(0..(n - 1)) = IF 0 > n - 1 THEN 0 ELSE n - 1 - 0 + 1
      BY <1>1, FS_Interval
    <3>2. QED
      BY <3>1, <1>1
  <2>4. f \in Surjection(S, 0..(n - 1))
    BY <2>2, <2>3, FS_Injection
  <2>5. QED
    BY <2>4 DEF Surjection
<1>7. \A i \in 1..n : \E x \in S : rank(x) = i - 1
  BY <1>1, <1>6
<1>8. \A x, y \in S : rank(x) < rank(y) <=> <<x, y>> \in R
  BY <1>3, <1>5
<1>9. QED
  BY <1>1, <1>4, <1>7, <1>8 DEF rank

\* R is a strict total order on S.
StrictOrder(R, S) ==
  /\ \A x \in S : <<x, x>> \notin R
  /\ \A x, y \in S : x # y => <<x, y>> \in R \/ <<y, x>> \in R
  /\ \A x, y, z \in S : <<x, y>> \in R /\ <<y, z>> \in R => <<x, z>> \in R

\* Every element has as many before it as its place says.
Ranked(f, S, R) ==
  /\ f \in [1..Cardinality(S) -> S]
  /\ \A i \in 1..Cardinality(S) : Cardinality({y \in S : <<y, f[i]>> \in R}) = i - 1

\* How many elements of S come before x.
HowManyBefore(x, S, R) == Cardinality({y \in S : <<y, x>> \in R})

\* Every place in an order is taken.
LEMMA PlaceIsTaken ==
  ASSUME NEW S, NEW R, IsFiniteSet(S), StrictOrder(R, S)
  PROVE  \A i \in 1..Cardinality(S) : \E x \in S : HowManyBefore(x, S, R) = i - 1
<1> DEFINE rank(x) == Cardinality({y \in S : <<y, x>> \in R})
<1>1. \A k \in 1..Cardinality(S) : \E x \in S : rank(x) = k - 1
  BY RankIs DEF StrictOrder
<1>2. QED
  BY <1>1 DEF HowManyBefore

\* What is ranked is in order, and has every element.
LEMMA OrderIs ==
  ASSUME NEW S, NEW R, NEW f, IsFiniteSet(S), StrictOrder(R, S), Ranked(f, S, R)
  PROVE  /\ \A i, j \in 1..Cardinality(S) : i < j => <<f[i], f[j]>> \in R
         /\ \A x \in S : \E i \in 1..Cardinality(S) : f[i] = x
<1> DEFINE n == Cardinality(S)
           rank(x) == Cardinality({y \in S : <<y, x>> \in R})
<1>1. /\ n \in Nat
      /\ \A x \in S : rank(x) \in 0..(n - 1)
      /\ \A x, y \in S : rank(x) < rank(y) <=> <<x, y>> \in R
  BY RankIs DEF StrictOrder
<1>2. \A i \in 1..n : f[i] \in S /\ rank(f[i]) = i - 1
  BY DEF Ranked
<1> HIDE DEF rank, n
<1>3. \A i, j \in 1..n : i < j => <<f[i], f[j]>> \in R
  BY <1>1, <1>2
<1>4. ASSUME NEW x \in S  PROVE \E i \in 1..n : f[i] = x
  <2> DEFINE i == rank(x) + 1
  <2>1. i \in 1..n /\ rank(x) = i - 1
    BY <1>1
  <2> HIDE DEF i
  <2>2. f[i] \in S /\ rank(f[i]) = rank(x) /\ rank(x) \in Int
    BY <1>1, <1>2, <2>1
  <2>3. <<f[i], x>> \notin R /\ <<x, f[i]>> \notin R
    BY <1>1, <2>2
  <2>4. QED
    BY <2>1, <2>2, <2>3 DEF StrictOrder
<1>5. QED
  BY <1>3, <1>4 DEF n

\* Integers in their order: the k-th is the one that has k - 1 smaller ones.
LEMMA IntsInOrder ==
  ASSUME NEW S \in SUBSET Int, IsFiniteSet(S)
  PROVE  LET f == [k \in 1..Cardinality(S) |->
                     CHOOSE i \in S : Cardinality({j \in S : j < i}) = k - 1]
         IN /\ Cardinality(S) \in Nat
            /\ f \in [1..Cardinality(S) -> S]
            /\ \A k, l \in 1..Cardinality(S) : k < l => f[k] < f[l]
            /\ \A i \in S : \E k \in 1..Cardinality(S) : f[k] = i
<1> DEFINE R == {p \in S \X S : p[1] < p[2]}
           n == Cardinality(S)
           f == [k \in 1..n |-> CHOOSE i \in S : Cardinality({j \in S : j < i}) = k - 1]
<1>1. \A x, y \in S : <<x, y>> \in R <=> x < y
  OBVIOUS
<1>2. n \in Nat
  BY FS_CardinalityType
<1> HIDE DEF R
<1>3. StrictOrder(R, S)
  BY <1>1 DEF StrictOrder
<1>4. \A x \in S : {y \in S : <<y, x>> \in R} = {y \in S : y < x}
  BY <1>1
<1>5. \A k \in 1..n : f[k] \in S /\ Cardinality({j \in S : j < f[k]}) = k - 1
  <2>1. SUFFICES ASSUME NEW k \in 1..n
                 PROVE  f[k] \in S /\ Cardinality({j \in S : j < f[k]}) = k - 1
    OBVIOUS
  <2>2. \E x \in S : HowManyBefore(x, S, R) = k - 1
    BY <1>3, PlaceIsTaken
  <2>3. \E x \in S : Cardinality({y \in S : y < x}) = k - 1
    BY <2>2, <1>4 DEF HowManyBefore
  <2>4. QED
    BY <2>3
<1>6. Ranked(f, S, R)
  <2>1. f \in [1..n -> S]
    BY <1>5
  <2> HIDE DEF f
  <2>2. QED
    BY <2>1, <1>4, <1>5 DEF Ranked
<1> HIDE DEF f
<1>7. /\ \A i, j \in 1..n : i < j => <<f[i], f[j]>> \in R
      /\ \A x \in S : \E i \in 1..n : f[i] = x
  BY <1>3, <1>6, OrderIs
<1>8. f \in [1..n -> S]
  BY <1>6 DEF Ranked
<1>9. \A k, l \in 1..n : k < l => f[k] < f[l]
  BY <1>1, <1>7, <1>8
<1>10. QED
  BY <1>2, <1>7, <1>8, <1>9 DEF f

\* A finite set of integers that is not empty has a least and a greatest element.
LEMMA ExtremesAre ==
  ASSUME NEW S \in SUBSET Int, IsFiniteSet(S), S # {}
  PROVE  /\ Min(S) \in S /\ \A x \in S : Min(S) <= x
         /\ Max(S) \in S /\ \A x \in S : x <= Max(S)
<1> DEFINE R == {p \in S \X S : p[1] < p[2]}
           rank(x) == Cardinality({y \in S : <<y, x>> \in R})
           n == Cardinality(S)
<1>1. \A x, y \in S : <<x, y>> \in R <=> x < y
  OBVIOUS
<1>2. n \in Nat \ {0}
  BY FS_CardinalityType, FS_EmptySet
<1>3. /\ \A x \in S : <<x, x>> \notin R
      /\ \A x, y \in S : x # y => <<x, y>> \in R \/ <<y, x>> \in R
      /\ \A x, y, z \in S : <<x, y>> \in R /\ <<y, z>> \in R => <<x, z>> \in R
  <2> HIDE DEF R
  <2>1. QED
    BY <1>1
<1> HIDE DEF R
<1>4. /\ \A x \in S : rank(x) \in 0..(n - 1)
      /\ \A x, y \in S : rank(x) < rank(y) <=> <<x, y>> \in R
      /\ \A i \in 1..n : \E x \in S : rank(x) = i - 1
  <2> HIDE DEF n
  <2>1. QED
    BY <1>3, RankIs DEF n
<1> HIDE DEF rank, n
<1>5. \E x \in S : \A y \in S : x <= y
  <2>1. PICK x \in S : rank(x) = 0
    <3>1. 1 \in 1..n /\ 1 - 1 = 0
      BY <1>2
    <3>2. QED
      BY <3>1, <1>4
  <2>2. \A y \in S : ~(rank(y) < rank(x))
    BY <2>1, <1>4, <1>2
  <2>3. \A y \in S : ~(y < x)
    BY <2>2, <1>4, <1>1
  <2>4. QED
    BY <2>3
<1>6. \E x \in S : \A y \in S : x >= y
  <2>1. PICK x \in S : rank(x) = n - 1
    <3>1. n \in 1..n
      BY <1>2
    <3>2. QED
      BY <3>1, <1>4
  <2>2. \A y \in S : ~(rank(x) < rank(y))
    BY <2>1, <1>4, <1>2
  <2>3. \A y \in S : ~(x < y)
    BY <2>2, <1>4, <1>1
  <2>4. QED
    BY <2>3
<1>7. Min(S) \in S /\ \A x \in S : Min(S) <= x
  BY <1>5 DEF Min
<1>8. Max(S) \in S /\ \A x \in S : Max(S) >= x
  BY <1>6 DEF Max
<1>9. QED
  BY <1>7, <1>8

\* The smaller and the larger of two integers.
LEMMA MinOfTwo ==
  ASSUME NEW a \in Int, NEW b \in Int
  PROVE  Min({a, b}) = IF a <= b THEN a ELSE b
<1> DEFINE m == IF a <= b THEN a ELSE b
<1>1. m \in {a, b} /\ \A y \in {a, b} : m <= y
  OBVIOUS
<1>2. \A x \in {a, b} : (\A y \in {a, b} : x <= y) => x = m
  OBVIOUS
<1>3. QED
  BY <1>1, <1>2 DEF Min

\* The later of two is one of them.
LEMMA MaxOfTwo ==
  ASSUME NEW a \in Int, NEW b \in Int
  PROVE  Max({a, b}) = IF a >= b THEN a ELSE b
<1> DEFINE m == IF a >= b THEN a ELSE b
<1>1. m \in {a, b} /\ \A y \in {a, b} : m >= y
  OBVIOUS
<1>2. \A x \in {a, b} : (\A y \in {a, b} : x >= y) => x = m
  OBVIOUS
<1>3. QED
  BY <1>1, <1>2 DEF Max

-----------------------------------------------------------------------------
(***************************************************************************)
(* Induction.                                                              *)
(***************************************************************************)

\* Numbers have a least one.
LEMMA LeastNumber ==
  ASSUME NEW S \in SUBSET Nat, S # {}
  PROVE  \E m \in S : \A x \in S : m <= x
<1>1. PICK k \in S : TRUE
  OBVIOUS
<1> DEFINE T == {x \in S : x <= k}
<1>2. k \in T /\ T \subseteq 0..k /\ T \in SUBSET Int /\ k \in Nat
  <2>1. k \in Nat /\ k <= k
    OBVIOUS
  <2>2. \A x \in T : x \in 0..k /\ x \in Int
    BY <2>1
  <2>3. QED
    BY <2>1, <2>2
<1>3. IsFiniteSet(T)
  <2>1. IsFiniteSet(0..k)
    BY <1>2, FS_Interval
  <2>2. QED
    BY <2>1, <1>2, FS_Subset
<1>4. Min(T) \in T /\ \A x \in T : Min(T) <= x
  <2> HIDE DEF T
  <2>1. QED
    BY <1>2, <1>3, ExtremesAre
<1>5. \A x \in S : Min(T) <= x
  <2>1. SUFFICES ASSUME NEW x \in S  PROVE Min(T) <= x
    OBVIOUS
  <2> DEFINE m == Min(T)
  <2>2. m \in Nat /\ m <= k /\ (x \in T => m <= x)
    BY <1>4
  <2> HIDE DEF m
  <2>3. m <= x
    BY <2>2, <1>2
  <2>4. QED
    BY <2>3 DEF m
<1>6. QED
  BY <1>4, <1>5

\* A set with 0 and every successor of its numbers has every number.
LEMMA EveryNumber ==
  ASSUME NEW S, 0 \in S, \A n \in Nat : n \in S => n + 1 \in S
  PROVE  \A n \in Nat : n \in S
<1> DEFINE T == {n \in Nat : n \notin S}
<1>1. SUFFICES ASSUME T # {}  PROVE FALSE
  OBVIOUS
<1>2. PICK m \in T : \A x \in T : m <= x
  BY <1>1, LeastNumber
<1>3. m - 1 \in Nat /\ m - 1 \notin T
  BY <1>2
<1>4. QED
  BY <1>2, <1>3

-----------------------------------------------------------------------------
(***************************************************************************)
(* Samples in the order of time.                                           *)
(***************************************************************************)
InTime(ss) ==
  /\ ss \in Seq(ToSet(ss))
  /\ \A i \in DOMAIN ss : ss[i].t \in Int
  /\ \A i, j \in DOMAIN ss : i < j => ss[i].t < ss[j].t

\* What there is to know of such a sequence without knowing what a sequence is.
LEMMA SamplesAre ==
  ASSUME NEW ss, InTime(ss)
  PROVE  /\ Len(ss) \in Nat /\ DOMAIN ss = 1..Len(ss)
         /\ ToSet(ss) = {ss[i] : i \in 1..Len(ss)}
         /\ \A i \in 1..Len(ss) : ss[i].t \in Int
         /\ \A i, j \in 1..Len(ss) : i < j => ss[i].t < ss[j].t
         /\ \A p \in ToSet(ss) : p.t \in Int
         /\ \A p, r \in ToSet(ss) : p.t = r.t => p = r
<1>1. Len(ss) \in Nat /\ DOMAIN ss = 1..Len(ss)
  BY LenProperties DEF InTime
<1>2. ToSet(ss) = {ss[i] : i \in 1..Len(ss)}
  BY <1>1 DEF ToSet
<1>3. /\ \A i \in 1..Len(ss) : ss[i].t \in Int
      /\ \A i, j \in 1..Len(ss) : i < j => ss[i].t < ss[j].t
  BY <1>1 DEF InTime
<1> DEFINE n == Len(ss)
<1>4. \A i, j \in 1..n : ss[i].t = ss[j].t => i = j
  <2>1. SUFFICES ASSUME NEW i \in 1..n, NEW j \in 1..n, ss[i].t = ss[j].t, i # j  PROVE FALSE
    OBVIOUS
  <2>2. i \in Int /\ j \in Int
    BY <1>1
  <2>3. i < j \/ j < i
    BY <2>1, <2>2
  <2>4. ss[i].t < ss[j].t \/ ss[j].t < ss[i].t
    BY <2>3, <1>3
  <2>5. ss[i].t \in Int /\ ss[j].t \in Int
    BY <1>3
  <2>6. QED
    BY <2>1, <2>4, <2>5
<1>5. QED
  BY <1>1, <1>2, <1>3, <1>4

\* A function on 1..n whose values have growing times is one.
LEMMA InTimeIs ==
  ASSUME NEW n \in Nat, NEW ss, ss = [i \in 1..n |-> ss[i]],
         \A i \in 1..n : ss[i].t \in Int,
         \A i, j \in 1..n : i < j => ss[i].t < ss[j].t
  PROVE  InTime(ss) /\ Len(ss) = n
<1>1. DOMAIN ss = 1..n
  OBVIOUS
<1>2. ToSet(ss) = {ss[i] : i \in 1..n}
  BY <1>1 DEF ToSet
<1>3. ss \in [1..n -> ToSet(ss)]
  BY <1>2
<1>4. ss \in Seq(ToSet(ss))
  BY <1>3, SeqDef
<1>5. Len(ss) = n
  BY <1>1, <1>4, LenProperties
<1>6. QED
  BY <1>1, <1>4, <1>5 DEF InTime

\* The place of the first one after t.
PlaceAfter(ss, t) == Min({i \in 1..(Len(ss) + 1) : i <= Len(ss) => ss[i].t > t})

\* Up to that place they are at or before t.
LEMMA PlaceAfterIs ==
  ASSUME NEW ss, InTime(ss), NEW t \in Int
  PROVE  /\ PlaceAfter(ss, t) \in 1..(Len(ss) + 1)
         /\ \A i \in 1..Len(ss) : i < PlaceAfter(ss, t) <=> ss[i].t <= t
<1> DEFINE n == Len(ss)
           S == {i \in 1..(n + 1) : i <= n => ss[i].t > t}
           f == Min(S)
<1>1. /\ n \in Nat /\ \A i \in 1..n : ss[i].t \in Int
      /\ \A i, j \in 1..n : i < j => ss[i].t < ss[j].t
  BY SamplesAre
<1>2. PlaceAfter(ss, t) = f
  BY DEF PlaceAfter
<1> HIDE DEF n
<1>3. S \in SUBSET Int /\ n + 1 \in S
  BY <1>1
<1>4. IsFiniteSet(S)
  <2>1. 1 \in Int /\ n + 1 \in Int
    BY <1>1
  <2>2. IsFiniteSet(1..(n + 1)) /\ S \subseteq 1..(n + 1)
    BY <2>1, FS_Interval
  <2>3. QED
    BY <2>2, FS_Subset
<1>5. f \in S /\ \A x \in S : f <= x
  <2> HIDE DEF S
  <2>1. S # {}
    BY <1>3
  <2>2. QED
    BY <1>3, <1>4, <2>1, ExtremesAre
<1> HIDE DEF f
<1>6. f \in 1..(n + 1) /\ (f <= n => ss[f].t > t)
  BY <1>5
<1>7. ASSUME NEW i \in 1..n, i < f  PROVE ss[i].t <= t
  <2>1. i \notin S
    BY <1>5, <1>6, <1>7, <1>1
  <2>2. ~(ss[i].t > t)
    BY <2>1, <1>1
  <2>3. QED
    BY <2>2, <1>1
<1>8. ASSUME NEW i \in 1..n, f <= i  PROVE ~(ss[i].t <= t)
  <2>1. f \in 1..n /\ ss[f].t > t
    BY <1>6, <1>8, <1>1
  <2>2. ss[f].t <= ss[i].t
    <3>1. CASE f = i
      BY <3>1, <2>1, <1>1
    <3>2. CASE f < i
      BY <3>2, <2>1, <1>1
    <3>3. QED
      BY <3>1, <3>2, <1>8, <2>1
  <2>3. ss[f].t \in Int /\ ss[i].t \in Int
    BY <1>1, <2>1
  <2>4. QED
    BY <2>1, <2>2, <2>3
<1>9. \A i \in 1..n : i < f <=> ss[i].t <= t
  BY <1>6, <1>7, <1>8, <1>1
<1>10. QED
  BY <1>2, <1>6, <1>9 DEF n

\* Those after `from' up to `to'.
Between(ss, from, to) == SubSeq(ss, PlaceAfter(ss, from), PlaceAfter(ss, to) - 1)

\* They are in the same order.
LEMMA BetweenIs ==
  ASSUME NEW ss, InTime(ss), NEW from \in Int, NEW to \in Int
  PROVE  /\ InTime(Between(ss, from, to))
         /\ ToSet(Between(ss, from, to)) = {p \in ToSet(ss) : from < p.t /\ p.t <= to}
<1> DEFINE n == Len(ss)
           lo == PlaceAfter(ss, from)
           hi == PlaceAfter(ss, to)
           w == SubSeq(ss, lo, hi - 1)
           m == IF lo <= hi - 1 THEN hi - lo ELSE 0
<1>1. /\ n \in Nat /\ ToSet(ss) = {ss[i] : i \in 1..n}
      /\ \A i \in 1..n : ss[i].t \in Int
      /\ \A i, j \in 1..n : i < j => ss[i].t < ss[j].t
  BY SamplesAre
<1>2. /\ lo \in 1..(n + 1) /\ \A i \in 1..n : i < lo <=> ss[i].t <= from
      /\ hi \in 1..(n + 1) /\ \A i \in 1..n : i < hi <=> ss[i].t <= to
  BY PlaceAfterIs
<1>3. Between(ss, from, to) = w
  BY DEF Between
<1>4. w = [i \in 1..m |-> ss[lo + i - 1]] /\ m \in Nat
  <2> HIDE DEF lo, hi, n
  <2>1. lo \in Int /\ hi \in Int
    BY <1>1, <1>2
  <2>2. m \in Nat
    BY <2>1
  <2>3. 1..(hi - 1 - lo + 1) = 1..m
    BY <2>1
  <2>4. w = [i \in 1..(hi - 1 - lo + 1) |-> ss[lo + i - 1]]
    BY <2>1
  <2>5. QED
    BY <2>2, <2>3, <2>4
<1> HIDE DEF lo, hi, n, w, m
<1>5. \A i \in 1..m : lo + i - 1 \in 1..n /\ w[i] = ss[lo + i - 1] /\ lo + i - 1 >= lo /\ lo + i - 1 < hi
  <2>1. lo \in Int /\ hi \in Int /\ lo >= 1 /\ hi <= n + 1
    BY <1>1, <1>2
  <2>2. \A i \in 1..m : lo + i - 1 \in 1..n /\ lo + i - 1 >= lo /\ lo + i - 1 < hi
    BY <1>1, <2>1 DEF m
  <2>3. QED
    BY <2>2, <1>4
<1>6. InTime(w)
  <2>1. \A i \in 1..m : w[i].t \in Int
    BY <1>1, <1>5
  <2>2. \A i, j \in 1..m : i < j => w[i].t < w[j].t
    <3>1. SUFFICES ASSUME NEW i \in 1..m, NEW j \in 1..m, i < j  PROVE w[i].t < w[j].t
      OBVIOUS
    <3>2. lo + i - 1 < lo + j - 1
      BY <3>1, <1>2, <1>1
    <3>3. QED
      BY <3>2, <1>1, <1>5
  <2>3. w = [i \in 1..m |-> w[i]]
    BY <1>4
  <2> HIDE DEF m
  <2>4. m \in Nat
    BY <1>4
  <2>5. QED
    BY <2>1, <2>2, <2>3, <2>4, InTimeIs
<1>7. ToSet(w) = {w[i] : i \in 1..m}
  BY <1>4 DEF ToSet
<1>8. ASSUME NEW p \in ToSet(w)  PROVE p \in ToSet(ss) /\ from < p.t /\ p.t <= to
  <2>1. PICK i \in 1..m : p = w[i]
    BY <1>7
  <2> DEFINE k == lo + i - 1
  <2>2. k \in 1..n /\ p = ss[k] /\ k >= lo /\ k < hi
    BY <2>1, <1>5
  <2> HIDE DEF k
  <2>3. p \in ToSet(ss) /\ p.t \in Int /\ p.t <= to
    BY <2>2, <1>1, <1>2
  <2>4. ~(p.t <= from)
    BY <2>2, <1>2, <1>1
  <2>5. QED
    BY <2>3, <2>4
<1>9. ASSUME NEW p \in ToSet(ss), from < p.t, p.t <= to  PROVE p \in ToSet(w)
  <2>1. PICK k \in 1..n : p = ss[k]
    BY <1>1
  <2>2. p.t \in Int /\ ~(p.t <= from)
    BY <2>1, <1>1, <1>9
  <2>3. k < hi /\ ~(k < lo)
    BY <2>1, <2>2, <1>2, <1>9
  <2>4. k - lo + 1 \in 1..m /\ lo + (k - lo + 1) - 1 = k
    BY <2>3, <1>2, <1>1 DEF m
  <2>5. w[k - lo + 1] = ss[k]
    BY <2>4, <1>4
  <2>6. QED
    BY <2>1, <2>4, <2>5, <1>7
<1>10. QED
  BY <1>3, <1>6, <1>8, <1>9

\* Samples with different times are as many as their places.
LEMMA CountIs ==
  ASSUME NEW ss, InTime(ss)
  PROVE  IsFiniteSet(ToSet(ss)) /\ Cardinality(ToSet(ss)) = Len(ss)
<1> DEFINE n == Len(ss)
<1>1. /\ n \in Nat /\ DOMAIN ss = 1..n /\ ToSet(ss) = {ss[i] : i \in 1..n}
      /\ \A i \in 1..n : ss[i].t \in Int
      /\ \A i, j \in 1..n : i < j => ss[i].t < ss[j].t
  BY SamplesAre
<1>2. ss \in [1..n -> ToSet(ss)]
  BY <1>1, LenProperties DEF InTime
<1> HIDE DEF n
<1>3. \A i, j \in 1..n : ss[i] = ss[j] => i = j
  BY <1>1
<1>4. ss \in Bijection(1..n, ToSet(ss))
  BY <1>1, <1>2, <1>3 DEF Bijection, Injection, Surjection, IsInjective
<1>5. IsFiniteSet(1..n) /\ Cardinality(1..n) = n
  <2>1. 1 \in Int /\ n \in Int
    BY <1>1
  <2>2. IsFiniteSet(1..n) /\ Cardinality(1..n) = IF 1 > n THEN 0 ELSE n - 1 + 1
    BY <2>1, FS_Interval
  <2>3. QED
    BY <2>2, <1>1
<1>6. Cardinality(1..n) = Cardinality(ToSet(ss)) /\ IsFiniteSet(ToSet(ss))
  BY <1>4, <1>5, FS_Bijection DEF ExistsBijection
<1>7. QED
  BY <1>5, <1>6 DEF n

\* The last sample at or before t.
NewestOf(ss, t) ==
  {p \in ToSet(ss) : p.t <= t /\ \A r \in ToSet(ss) : r.t <= t => r.t <= p.t}

\* It is the one before the first one after t.
LEMMA NewestIs ==
  ASSUME NEW ss, InTime(ss), NEW t \in Int
  PROVE  LET idx == PlaceAfter(ss, t) - 1
         IN /\ idx \in 0..Len(ss)
            /\ NewestOf(ss, t) = IF idx = 0 THEN {} ELSE {ss[idx]}
<1> DEFINE n == Len(ss)
           f == PlaceAfter(ss, t)
           idx == f - 1
<1>1. /\ n \in Nat /\ ToSet(ss) = {ss[i] : i \in 1..n}
      /\ \A i \in 1..n : ss[i].t \in Int
      /\ \A i, j \in 1..n : i < j => ss[i].t < ss[j].t
      /\ \A p, r \in ToSet(ss) : p.t = r.t => p = r
  BY SamplesAre
<1>2. f \in 1..(n + 1) /\ \A i \in 1..n : i < f <=> ss[i].t <= t
  BY PlaceAfterIs
<1> HIDE DEF n, f
<1>4. idx \in 0..n
  BY <1>1, <1>2
<1>5. NewestOf(ss, t) = IF idx = 0 THEN {} ELSE {ss[idx]}
  <2>1. CASE idx = 0
    <3>1. ASSUME NEW p \in ToSet(ss)  PROVE ~(p.t <= t)
      <4>1. PICK i \in 1..n : p = ss[i]
        BY <1>1
      <4>2. ~(i < f)
        BY <2>1, <1>1, <1>2
      <4>3. QED
        BY <4>1, <4>2, <1>2
    <3>2. QED
      BY <2>1, <3>1 DEF NewestOf
  <2>2. CASE idx # 0
    <3>1. idx \in 1..n /\ idx < f
      BY <2>2, <1>4, <1>1, <1>2
    <3> HIDE DEF idx
    <3>2. ss[idx] \in ToSet(ss) /\ ss[idx].t <= t
      BY <3>1, <1>1, <1>2
    <3>3. ASSUME NEW r \in ToSet(ss), r.t <= t  PROVE r.t <= ss[idx].t
      <4>1. PICK i \in 1..n : r = ss[i]
        BY <1>1
      <4>2. i < f
        BY <4>1, <3>3, <1>2
      <4>3. i <= idx
        BY <4>2, <1>2, <1>1 DEF idx
      <4>4. i = idx \/ i < idx
        BY <4>3, <3>1
      <4>5. CASE i = idx
        BY <4>5, <4>1, <1>1
      <4>6. CASE i < idx
        <5>1. ss[i].t < ss[idx].t /\ ss[i].t \in Int /\ ss[idx].t \in Int
          BY <4>6, <3>1, <1>1
        <5>2. QED
          BY <5>1, <4>1
      <4>7. QED
        BY <4>4, <4>5, <4>6
    <3>4. ss[idx] \in NewestOf(ss, t)
      BY <3>2, <3>3 DEF NewestOf
    <3>5. ASSUME NEW p \in NewestOf(ss, t)  PROVE p = ss[idx]
      <4>1. p \in ToSet(ss) /\ p.t <= ss[idx].t /\ ss[idx].t <= p.t
        BY <3>5, <3>2, <3>3 DEF NewestOf
      <4>2. p.t \in Int /\ ss[idx].t \in Int
        BY <4>1, <1>1, <3>1
      <4>3. p.t = ss[idx].t
        BY <4>1, <4>2
      <4>4. QED
        BY <4>1, <4>3, <3>2, <1>1
    <3>6. QED
      BY <3>4, <3>5, <2>2
  <2>3. QED
    BY <2>1, <2>2
<1>6. QED
  BY <1>4, <1>5 DEF n, f
=============================================================================
