-------------------------- MODULE ResultCacheProofs --------------------------
(***************************************************************************)
(* Theorems about ResultCache, for every value of its constants.           *)
(*                                                                         *)
(* The inductive invariant IInv ties what a caller decided and read to     *)
(* what the cache then holds: a leader's key is in flight and nobody       *)
(* else's, what its second Get missed stays missing until it stores, an    *)
(* answer to be kept was asked for when its window had settled, and the    *)
(* list is in the order of use.                                            *)
(***************************************************************************)
EXTENDS ResultCache, SequenceTheorems, TLAPS

-----------------------------------------------------------------------------
(***************************************************************************)
(* The list, as a sequence without repetitions.                            *)
(***************************************************************************)

\* The elements of a sequence are those at its positions.
LEMMA ToSetIs ==
  ASSUME NEW S, NEW s \in Seq(S)
  PROVE  /\ ToSet(s) = {s[i] : i \in 1..Len(s)}
         /\ ToSet(s) \subseteq S
         /\ Len(s) \in Nat /\ DOMAIN s = 1..Len(s)
         /\ \A i \in 1..Len(s) : s[i] \in S
<1>1. Len(s) \in Nat /\ s \in [1..Len(s) -> S] /\ DOMAIN s = 1..Len(s)
  BY LenProperties
<1>2. QED
  BY <1>1 DEF ToSet

\* Without an element a sequence keeps the others in their order: those behind it move up.
LEMMA WithoutIs ==
  ASSUME NEW S, NEW s \in Seq(S), NEW k, k \in ToSet(s)
  PROVE  \E p \in 1..Len(s) :
           /\ s[p] = k
           /\ Without(s, k) \in Seq(S)
           /\ Len(Without(s, k)) = Len(s) - 1
           /\ \A i \in 1..(Len(s) - 1) : Without(s, k)[i] = s[IF i < p THEN i ELSE i + 1]
<1> DEFINE p == CHOOSE i \in DOMAIN s : s[i] = k
           front == SubSeq(s, 1, p - 1)
           back == SubSeq(s, p + 1, Len(s))
<1>1. Len(s) \in Nat /\ DOMAIN s = 1..Len(s) /\ \A i \in 1..Len(s) : s[i] \in S
  BY ToSetIs
<1>2. p \in 1..Len(s) /\ s[p] = k
  <2>1. \E i \in DOMAIN s : s[i] = k
    BY DEF ToSet
  <2>2. QED
    BY <2>1, <1>1
<1> HIDE DEF p
<1>3. Without(s, k) = front \o back
  BY DEF Without, RemoveAt, p
<1>4. /\ front \in Seq(S) /\ Len(front) = p - 1
      /\ \A i \in 1..(p - 1) : front[i] = s[i]
  <2>1. 1 \in Int /\ p - 1 \in Int /\ \A i \in 1..(p - 1) : s[i] \in S
    BY <1>1, <1>2
  <2>2. /\ front \in Seq(S) /\ Len(front) = (IF 1 <= p - 1 THEN p - 1 - 1 + 1 ELSE 0)
        /\ \A i \in 1..(p - 1 - 1 + 1) : front[i] = s[1 + i - 1]
    BY <2>1, SubSeqProperties
  <2> HIDE DEF front
  <2>3. p - 1 - 1 + 1 = p - 1 /\ \A i \in 1..(p - 1) : 1 + i - 1 = i
    BY <1>1, <1>2
  <2>4. QED
    BY <2>2, <2>3, <1>1, <1>2
<1>5. /\ back \in Seq(S) /\ Len(back) = Len(s) - p
      /\ \A i \in 1..(Len(s) - p) : back[i] = s[p + i]
  <2>1. p + 1 \in Int /\ Len(s) \in Int /\ \A i \in (p + 1)..Len(s) : s[i] \in S
    BY <1>1, <1>2
  <2>2. /\ back \in Seq(S) /\ Len(back) = (IF p + 1 <= Len(s) THEN Len(s) - (p + 1) + 1 ELSE 0)
        /\ \A i \in 1..(Len(s) - (p + 1) + 1) : back[i] = s[p + 1 + i - 1]
    BY <2>1, SubSeqProperties
  <2> HIDE DEF back
  <2>3. Len(back) = Len(s) - p
    <3>1. Len(s) \in Nat /\ p \in 1..Len(s)
      BY <1>1, <1>2
    <3>2. (IF p + 1 <= Len(s) THEN Len(s) - (p + 1) + 1 ELSE 0) = Len(s) - p
      BY <3>1
    <3>3. QED
      BY <3>2, <2>2
  <2>4. ASSUME NEW i \in 1..(Len(s) - p)  PROVE back[i] = s[p + i]
    <3>1. i \in 1..(Len(s) - (p + 1) + 1) /\ p + 1 + i - 1 = p + i
      BY <1>1, <1>2
    <3>2. back[i] = s[p + 1 + i - 1]
      BY <3>1, <2>2
    <3>3. QED
      BY <3>1, <3>2
  <2>5. QED
    BY <2>2, <2>3, <2>4
<1> HIDE DEF front, back
<1>6. /\ front \o back \in Seq(S)
      /\ Len(front \o back) = Len(front) + Len(back)
      /\ \A i \in 1..(Len(front) + Len(back)) :
           (front \o back)[i] = IF i <= Len(front) THEN front[i] ELSE back[i - Len(front)]
  BY <1>4, <1>5, ConcatProperties
<1>7. Len(front \o back) = Len(s) - 1
  BY <1>1, <1>2, <1>4, <1>5, <1>6
<1>8. ASSUME NEW i \in 1..(Len(s) - 1)
      PROVE  (front \o back)[i] = s[IF i < p THEN i ELSE i + 1]
  <2>1. i \in 1..(Len(front) + Len(back))
    BY <1>1, <1>2, <1>4, <1>5
  <2>2. CASE i < p
    BY <2>1, <2>2, <1>1, <1>2, <1>4, <1>6
  <2>3. CASE ~(i < p)
    <3>1. ~(i <= Len(front)) /\ i - Len(front) \in 1..(Len(s) - p) /\ p + (i - Len(front)) = i + 1
      BY <2>3, <1>1, <1>2, <1>4
    <3>2. QED
      BY <2>1, <2>3, <3>1, <1>5, <1>6
  <2>4. QED
    BY <2>2, <2>3
<1>9. QED
  BY <1>2, <1>3, <1>6, <1>7, <1>8

\* Of a sequence without repetitions, taking an element out leaves the others.
LEMMA WithoutSet ==
  ASSUME NEW S, NEW s \in Seq(S), NEW k, IsInjective(s)
  PROVE  /\ Without(s, k) \in Seq(S)
         /\ ToSet(Without(s, k)) = ToSet(s) \ {k}
         /\ IsInjective(Without(s, k))
         /\ Len(Without(s, k)) <= Len(s)
         /\ k \in ToSet(s) => Len(Without(s, k)) < Len(s)
<1>1. Len(s) \in Nat /\ DOMAIN s = 1..Len(s) /\ ToSet(s) = {s[i] : i \in 1..Len(s)}
  BY ToSetIs
<1>2. CASE k \notin ToSet(s)
  BY <1>1, <1>2 DEF Without
<1>3. CASE k \in ToSet(s)
  <2> DEFINE w == Without(s, k)
  <2>1. PICK p \in 1..Len(s) :
          /\ s[p] = k
          /\ w \in Seq(S)
          /\ Len(w) = Len(s) - 1
          /\ \A i \in 1..(Len(s) - 1) : w[i] = s[IF i < p THEN i ELSE i + 1]
    BY <1>3, WithoutIs
  <2>2. DOMAIN w = 1..(Len(s) - 1) /\ ToSet(w) = {w[i] : i \in 1..(Len(s) - 1)}
    BY <2>1, ToSetIs
  <2> DEFINE From(i) == IF i < p THEN i ELSE i + 1
  <2> HIDE DEF w
  <2>3. \A i \in 1..(Len(s) - 1) : From(i) \in 1..Len(s) /\ From(i) # p
    BY <1>1
  <2>4. \A i, j \in 1..(Len(s) - 1) : From(i) = From(j) => i = j
    BY <1>1
  <2>5. \A i, j \in 1..Len(s) : s[i] = s[j] => i = j
    BY <1>1 DEF IsInjective
  <2>6. IsInjective(w)
    BY <2>1, <2>2, <2>3, <2>4, <2>5 DEF IsInjective
  <2>7. ASSUME NEW x \in ToSet(w)  PROVE x \in ToSet(s) \ {k}
    <3>1. PICK i \in 1..(Len(s) - 1) : x = s[From(i)]
      BY <2>1, <2>2
    <3>2. QED
      BY <3>1, <2>1, <2>3, <2>5, <1>1
  <2>8. ASSUME NEW x \in ToSet(s) \ {k}  PROVE x \in ToSet(w)
    <3>1. PICK j \in 1..Len(s) : x = s[j]
      BY <1>1
    <3>2. j # p
      BY <3>1, <2>1
    <3>3. PICK i \in 1..(Len(s) - 1) : From(i) = j
      <4>1. CASE j < p
        BY <4>1, <1>1
      <4>2. CASE j > p
        <5>1. j - 1 \in 1..(Len(s) - 1) /\ From(j - 1) = j
          BY <4>2, <1>1
        <5>2. QED
          BY <5>1
      <4>3. QED
        BY <3>2, <4>1, <4>2
    <3>4. QED
      BY <3>1, <3>3, <2>1, <2>2
  <2>9. QED
    BY <2>1, <2>6, <2>7, <2>8, <1>1 DEF w
<1>4. QED
  BY <1>2, <1>3
\* Taking an element out leaves the others in their order.
LEMMA WithoutOrder ==
  ASSUME NEW S, NEW s \in Seq(S), NEW k,
         NEW i \in 1..Len(Without(s, k)), NEW j \in 1..Len(Without(s, k)), i < j
  PROVE  \E a, b \in 1..Len(s) : a < b /\ Without(s, k)[i] = s[a] /\ Without(s, k)[j] = s[b]
<1>1. Len(s) \in Nat
  BY ToSetIs
<1>2. CASE k \notin ToSet(s)
  BY <1>2 DEF Without
<1>3. CASE k \in ToSet(s)
  <2>1. PICK p \in 1..Len(s) :
          /\ Len(Without(s, k)) = Len(s) - 1
          /\ \A h \in 1..(Len(s) - 1) : Without(s, k)[h] = s[IF h < p THEN h ELSE h + 1]
    BY <1>3, WithoutIs
  <2> DEFINE a == IF i < p THEN i ELSE i + 1
             b == IF j < p THEN j ELSE j + 1
  <2>2. i \in 1..(Len(s) - 1) /\ j \in 1..(Len(s) - 1)
    BY <2>1
  <2>3. a \in 1..Len(s) /\ b \in 1..Len(s) /\ a < b
    BY <1>1, <2>2
  <2>4. Without(s, k)[i] = s[a] /\ Without(s, k)[j] = s[b]
    BY <2>1, <2>2
  <2> HIDE DEF a, b
  <2>5. QED
    BY <2>3, <2>4
<1>4. QED
  BY <1>2, <1>3

\* The list with a key moved, or added, to its front.
Fronted(s, k) == <<k>> \o Without(s, k)

\* Moving to the front keeps a list without repetitions, adds the key at most, and
\* leaves the others behind it.
LEMMA FrontedIs ==
  ASSUME NEW S, NEW s \in Seq(S), NEW k \in S, IsInjective(s)
  PROVE  /\ Fronted(s, k) \in Seq(S)
         /\ Len(Fronted(s, k)) = Len(Without(s, k)) + 1
         /\ Fronted(s, k)[1] = k
         /\ \A i \in 1..Len(Without(s, k)) : Fronted(s, k)[i + 1] = Without(s, k)[i]
         /\ ToSet(Fronted(s, k)) = ToSet(s) \union {k}
         /\ IsInjective(Fronted(s, k))
<1> DEFINE w == Without(s, k)
           f == <<k>> \o w
<1>1. /\ w \in Seq(S) /\ ToSet(w) = ToSet(s) \ {k} /\ IsInjective(w)
  BY WithoutSet
<1> HIDE DEF w
<1>2. /\ Len(w) \in Nat /\ DOMAIN w = 1..Len(w)
      /\ ToSet(w) = {w[i] : i \in 1..Len(w)}
  BY <1>1, ToSetIs
<1>3. <<k>> \in Seq(S) /\ Len(<<k>>) = 1 /\ <<k>>[1] = k
  OBVIOUS
<1>4. /\ f \in Seq(S) /\ Len(f) = 1 + Len(w)
      /\ \A i \in 1..(1 + Len(w)) : f[i] = IF i <= 1 THEN <<k>>[i] ELSE w[i - 1]
  BY <1>1, <1>3, ConcatProperties
<1> HIDE DEF f
<1>5. f[1] = k
  BY <1>2, <1>3, <1>4
<1>6. \A i \in 1..Len(w) : i + 1 \in 1..(1 + Len(w)) /\ ~(i + 1 <= 1) /\ (i + 1) - 1 = i
  BY <1>2
<1>7. \A i \in 1..Len(w) : f[i + 1] = w[i]
  BY <1>4, <1>6
<1>8. /\ DOMAIN f = 1..(1 + Len(w))
      /\ ToSet(f) = {f[i] : i \in 1..(1 + Len(w))}
  BY <1>4, ToSetIs
<1>9. \A i \in 1..(1 + Len(w)) : i = 1 \/ (i - 1 \in 1..Len(w) /\ (i - 1) + 1 = i)
  BY <1>2
<1>10. \A i \in 1..(1 + Len(w)) : i = 1 \/ (i - 1 \in 1..Len(w) /\ f[i] = w[i - 1])
  BY <1>7, <1>9
<1>11. ToSet(f) = {k} \union ToSet(w)
  <2>1. ASSUME NEW x \in ToSet(f)  PROVE x \in {k} \union ToSet(w)
    BY <1>2, <1>5, <1>8, <1>10
  <2>2. 1 \in 1..(1 + Len(w))
    BY <1>2
  <2>3. ASSUME NEW x \in {k} \union ToSet(w)  PROVE x \in ToSet(f)
    BY <1>2, <1>5, <1>6, <1>7, <1>8, <2>2
  <2>4. QED
    BY <2>1, <2>3
<1>12. ToSet(f) = ToSet(s) \union {k}
  BY <1>1, <1>11
<1>13. \A i \in 1..Len(w) : w[i] # k
  BY <1>1, <1>2
<1>14. \A i, j \in 1..Len(w) : w[i] = w[j] => i = j
  BY <1>1, <1>2 DEF IsInjective
<1>15. ASSUME NEW i \in 1..(1 + Len(w)), NEW j \in 1..(1 + Len(w)), f[i] = f[j]
       PROVE  i = j
  <2>1. CASE i = 1 \/ j = 1
    BY <2>1, <1>5, <1>10, <1>13, <1>15
  <2>2. CASE i # 1 /\ j # 1
    <3>1. i - 1 = j - 1
      BY <2>2, <1>10, <1>14, <1>15
    <3>2. QED
      BY <3>1, <1>2
  <2>3. QED
    BY <2>1, <2>2
<1>16. IsInjective(f)
  BY <1>8, <1>15 DEF IsInjective
<1>17. Len(f) = Len(w) + 1
  BY <1>2, <1>4
<1>18. QED
  BY <1>4, <1>5, <1>7, <1>12, <1>16, <1>17 DEF w, f, Fronted

\* Dropping the last element of a list without repetitions drops that element only.
LEMMA FrontIs ==
  ASSUME NEW S, NEW s \in Seq(S), IsInjective(s), Len(s) > 0
  PROVE  /\ Front(s) \in Seq(S)
         /\ Len(Front(s)) = Len(s) - 1
         /\ \A i \in 1..(Len(s) - 1) : Front(s)[i] = s[i]
         /\ ToSet(Front(s)) = ToSet(s) \ {s[Len(s)]}
         /\ IsInjective(Front(s))
<1> DEFINE f == Front(s)
           n == Len(s) - 1
<1>1. /\ Len(s) \in Nat /\ DOMAIN s = 1..Len(s) /\ ToSet(s) = {s[i] : i \in 1..Len(s)}
      /\ \A i \in 1..Len(s) : s[i] \in S
  BY ToSetIs
<1>0. Len(s) \in Nat
  BY <1>1
<1>2. n \in Nat /\ n + 1 = Len(s)
  BY <1>0
<1>3. f \in Seq(S) /\ Len(f) = n /\ \A i \in 1..n : f[i] = s[i]
  <2>1. 1 \in Int /\ n \in Int /\ \A i \in 1..n : s[i] \in S
    BY <1>1
  <2>2. f = SubSeq(s, 1, n)
    BY DEF Front
  <2>3. /\ f \in Seq(S) /\ Len(f) = (IF 1 <= n THEN n - 1 + 1 ELSE 0)
        /\ \A i \in 1..(n - 1 + 1) : f[i] = s[1 + i - 1]
    BY <2>1, <2>2, SubSeqProperties
  <2> HIDE DEF f, n
  <2>4. n - 1 + 1 = n /\ \A i \in 1..n : 1 + i - 1 = i
    BY <1>2
  <2>5. QED
    BY <2>3, <2>4, <1>2
<1> HIDE DEF f
<1>4. DOMAIN f = 1..n /\ ToSet(f) = {f[i] : i \in 1..n}
  BY <1>3, ToSetIs
<1>5. \A i, j \in 1..Len(s) : s[i] = s[j] => i = j
  BY <1>1 DEF IsInjective
<1>6. \A i \in 1..n : i \in 1..Len(s) /\ i # Len(s)
  BY <1>0
<1>7. \A i \in 1..Len(s) : i \in 1..n \/ i = Len(s)
  BY <1>0
<1>8. Len(s) \in 1..Len(s)
  BY <1>0
<1> HIDE DEF n
<1>9. IsInjective(f)
  BY <1>3, <1>4, <1>5, <1>6 DEF IsInjective
<1>10. ASSUME NEW x \in ToSet(f)  PROVE x \in ToSet(s) \ {s[Len(s)]}
  <2>1. PICK i \in 1..n : x = s[i]
    BY <1>3, <1>4
  <2>2. QED
    BY <2>1, <1>1, <1>5, <1>6, <1>8
<1>11. ASSUME NEW x \in ToSet(s) \ {s[Len(s)]}  PROVE x \in ToSet(f)
  BY <1>1, <1>3, <1>4, <1>7
<1>12. QED
  BY <1>3, <1>9, <1>10, <1>11 DEF f, n

-----------------------------------------------------------------------------
(***************************************************************************)
(* The inductive invariant, part one: the cache.                           *)
(***************************************************************************)

\* An entry, its expiry and its history.
ItemTyped(k) ==
  /\ items[k] \in [entry : Entries, expiresAt : 0..(clock + TTL), setAt : Times, usedAt : Times]
  /\ items[k].expiresAt = items[k].setAt + TTL

CacheTyped ==
  /\ clock \in Times
  /\ lru \in Seq(Keys)
  /\ DOMAIN items \subseteq Keys
  /\ \A k \in DOMAIN items : ItemTyped(k)

\* The list is in the order of use.
RecentFirst ==
  \A i, j \in 1..Len(lru) : i < j => items[lru[j]].usedAt <= items[lru[i]].usedAt

UsedBefore == \A k \in DOMAIN items : items[k].usedAt <= clock

\* An entry is found under the key of the request it answers.
EntriesBelong == \A k \in DOMAIN items : KeyOf(items[k].entry.req) = k

CacheInv ==
  /\ CacheTyped
  /\ CacheConsistent
  /\ RecentFirst
  /\ UsedBefore
  /\ EntriesBelong
  /\ StoredIsSettled

\* What the list holds, in terms of its positions.
LEMMA ListedIs ==
  ASSUME CacheTyped, CacheConsistent
  PROVE  /\ Len(lru) \in Nat
         /\ DOMAIN items = {lru[i] : i \in 1..Len(lru)}
BY ToSetIs DEF CacheTyped, CacheConsistent

\* The entry of a key moved to the front and used now, the others as they were: the
\* list remains in the order of use.
LEMMA FrontedOrder ==
  ASSUME CacheInv, NEW k \in Keys,
         NEW i \in 1..Len(Fronted(lru, k)), NEW j \in 1..Len(Fronted(lru, k)), i < j
  PROVE  /\ Fronted(lru, k)[j] \in DOMAIN items \ {k}
         /\ \/ Fronted(lru, k)[i] = k
            \/ /\ Fronted(lru, k)[i] \in DOMAIN items \ {k}
               /\ items[Fronted(lru, k)[j]].usedAt <= items[Fronted(lru, k)[i]].usedAt
<1> DEFINE f == Fronted(lru, k)
           w == Without(lru, k)
<1>1. lru \in Seq(Keys) /\ IsInjective(lru) /\ ToSet(lru) = DOMAIN items
  BY DEF CacheInv, CacheTyped, CacheConsistent
<1>2. /\ w \in Seq(Keys) /\ ToSet(w) = DOMAIN items \ {k}
  BY <1>1, WithoutSet
<1>3. /\ Len(f) = Len(w) + 1 /\ f[1] = k
      /\ \A h \in 1..Len(w) : f[h + 1] = w[h]
  BY <1>1, FrontedIs
<1>4. \A g, h \in 1..Len(w) : g < h =>
         \E a, b \in 1..Len(lru) : a < b /\ w[g] = lru[a] /\ w[h] = lru[b]
  BY <1>1, WithoutOrder
<1>5. Len(w) \in Nat /\ ToSet(w) = {w[h] : h \in 1..Len(w)}
  BY <1>2, ToSetIs
<1> HIDE DEF w
<1>6. j - 1 \in 1..Len(w) /\ (j - 1) + 1 = j
  BY <1>3, <1>5
<1>7. f[j] = w[j - 1] /\ f[j] \in DOMAIN items \ {k}
  <2>1. f[j] = w[j - 1]
    BY <1>3, <1>6
  <2>2. w[j - 1] \in DOMAIN items \ {k}
    BY <1>2, <1>5, <1>6
  <2>3. QED
    BY <2>1, <2>2
<1>8. CASE i = 1
  BY <1>3, <1>7, <1>8
<1>9. CASE i # 1
  <2>1. i - 1 \in 1..Len(w) /\ (i - 1) + 1 = i /\ i - 1 < j - 1
    BY <1>9, <1>3, <1>5
  <2>2. f[i] = w[i - 1] /\ f[i] \in DOMAIN items \ {k}
    <3>1. f[i] = w[i - 1]
      BY <1>3, <2>1
    <3>2. w[i - 1] \in DOMAIN items \ {k}
      BY <1>2, <1>5, <2>1
    <3>3. QED
      BY <3>1, <3>2
  <2>3. PICK a \in 1..Len(lru), b \in 1..Len(lru) :
          a < b /\ w[i - 1] = lru[a] /\ w[j - 1] = lru[b]
    BY <1>4, <1>6, <2>1
  <2>4. items[lru[b]].usedAt <= items[lru[a]].usedAt
    BY <2>3 DEF CacheInv, RecentFirst
  <2> HIDE DEF f
  <2>5. f[i] = lru[a] /\ f[j] = lru[b]
    BY <1>7, <2>2, <2>3
  <2>6. items[f[j]].usedAt <= items[f[i]].usedAt
    BY <2>4, <2>5
  <2>7. QED
    BY <1>7, <2>2, <2>6 DEF f
<1>10. QED
  BY <1>8, <1>9

\* A Get that finds a live entry keeps the cache in order and every entry in it.
LEMMA PromoteKeeps ==
  ASSUME CacheInv, NEW k \in DOMAIN items, Promote(k), UNCHANGED clock
  PROVE  CacheInv' /\ DOMAIN items' = DOMAIN items
<1>1. lru \in Seq(Keys) /\ IsInjective(lru) /\ ToSet(lru) = DOMAIN items /\ k \in Keys
  BY DEF CacheInv, CacheTyped, CacheConsistent
<1>2. lru' = Fronted(lru, k)
  BY DEF Promote, Fronted
<1>3. /\ DOMAIN items' = DOMAIN items
      /\ \A j \in DOMAIN items : items'[j] = IF j = k THEN [items[k] EXCEPT !.usedAt = clock] ELSE items[j]
  BY DEF Promote
<1>4. \A j \in DOMAIN items : /\ ItemTyped(j)
                              /\ items[j].usedAt <= clock
  BY DEF CacheInv, CacheTyped, UsedBefore
<1>5. clock \in Times
  BY DEF CacheInv, CacheTyped
<1>6. /\ items'[k].entry = items[k].entry
      /\ items'[k].expiresAt = items[k].expiresAt
      /\ items'[k].setAt = items[k].setAt
      /\ items'[k].usedAt = clock
  BY <1>3, <1>4 DEF ItemTyped
<1>7. CacheTyped'
  <2>1. lru' \in Seq(Keys)
    BY <1>1, <1>2, FrontedIs
  <2>2. ASSUME NEW j \in DOMAIN items'  PROVE ItemTyped(j)'
    <3>1. CASE j = k
      BY <3>1, <1>3, <1>4, <1>5, <1>6 DEF ItemTyped
    <3>2. CASE j # k
      BY <3>2, <1>3, <1>4 DEF ItemTyped
    <3>3. QED
      BY <3>1, <3>2
  <2>3. QED
    BY <2>1, <2>2, <1>1, <1>3, <1>5 DEF CacheInv, CacheTyped
<1>8. CacheConsistent'
  <2>1. ToSet(lru') = DOMAIN items' /\ IsInjective(lru')
    <3>1. lru \in Seq(Keys) /\ k \in Keys /\ IsInjective(lru)
      BY <1>1
    <3>2. /\ ToSet(Fronted(lru, k)) = ToSet(lru) \union {k}
          /\ IsInjective(Fronted(lru, k))
      BY <3>1, FrontedIs
    <3>3. ToSet(lru) \union {k} = DOMAIN items
      BY <1>1
    <3>4. QED
      BY <3>2, <3>3, <1>2, <1>3
  <2>2. Len(lru') <= MaxSize
    <3>1. Len(lru') = Len(Without(lru, k)) + 1
      BY <1>1, <1>2, FrontedIs
    <3>2. Len(Without(lru, k)) < Len(lru) /\ Len(Without(lru, k)) \in Nat /\ Len(lru) \in Nat
      BY <1>1, WithoutSet, ToSetIs
    <3>3. Len(lru) <= MaxSize /\ MaxSize \in Nat
      BY CacheAssumption DEF CacheInv, CacheConsistent
    <3>4. QED
      BY <3>1, <3>2, <3>3
  <2>3. QED
    BY <2>1, <2>2 DEF CacheConsistent
<1>9. RecentFirst'
  <2>1. ASSUME NEW i \in 1..Len(lru'), NEW j \in 1..Len(lru'), i < j
        PROVE  items'[lru'[j]].usedAt <= items'[lru'[i]].usedAt
    <3>1. /\ lru'[j] \in DOMAIN items \ {k}
          /\ \/ lru'[i] = k
             \/ /\ lru'[i] \in DOMAIN items \ {k}
                /\ items[lru'[j]].usedAt <= items[lru'[i]].usedAt
      BY <1>1, <1>2, <2>1, FrontedOrder
    <3>2. items'[lru'[j]] = items[lru'[j]]
      BY <1>3, <3>1
    <3>3. CASE lru'[i] = k
      BY <3>1, <3>2, <3>3, <1>4, <1>6
    <3>4. CASE lru'[i] # k
      BY <3>1, <3>2, <3>4, <1>3
    <3>5. QED
      BY <3>3, <3>4
  <2>2. QED
    BY <2>1 DEF RecentFirst
<1>10. UsedBefore'
  BY <1>3, <1>4, <1>5, <1>6 DEF UsedBefore, Times
<1>11. EntriesBelong' /\ StoredIsSettled'
  BY <1>3, <1>6 DEF CacheInv, EntriesBelong, StoredIsSettled, KeyOf, Ms
<1>12. QED
  BY <1>3, <1>7, <1>8, <1>9, <1>10, <1>11 DEF CacheInv

\* A Get that finds no live entry takes an expired one out, and nothing else.
LEMMA DropKeeps ==
  ASSUME CacheInv, NEW k \in Keys, DropExpired(k), UNCHANGED clock
  PROVE  CacheInv' /\ DOMAIN items' = DOMAIN items \ {k}
<1>1. lru \in Seq(Keys) /\ IsInjective(lru) /\ ToSet(lru) = DOMAIN items
  BY DEF CacheInv, CacheTyped, CacheConsistent
<1>2. lru' = Without(lru, k)
  BY DEF DropExpired
<1>3. /\ DOMAIN items' = DOMAIN items \ {k}
      /\ \A j \in DOMAIN items' : items'[j] = items[j]
  BY DEF DropExpired, Restrict
<1>4. CacheTyped'
  <2>1. lru' \in Seq(Keys)
    BY <1>1, <1>2, WithoutSet
  <2>2. \A j \in DOMAIN items' : ItemTyped(j)'
    BY <1>3 DEF CacheInv, CacheTyped, ItemTyped
  <2>3. QED
    BY <2>1, <2>2, <1>3 DEF CacheInv, CacheTyped
<1>5. CacheConsistent'
  <2>1. ToSet(lru') = DOMAIN items' /\ IsInjective(lru')
    BY <1>1, <1>2, <1>3, WithoutSet
  <2>2. Len(lru') <= MaxSize
    <3>1. Len(lru') <= Len(lru) /\ lru' \in Seq(Keys)
      BY <1>1, <1>2, WithoutSet
    <3>2. Len(lru') \in Nat /\ Len(lru) \in Nat
      BY <1>1, <3>1, ToSetIs
    <3>3. Len(lru) <= MaxSize /\ MaxSize \in Nat
      BY CacheAssumption DEF CacheInv, CacheConsistent
    <3>4. QED
      BY <3>1, <3>2, <3>3
  <2>3. QED
    BY <2>1, <2>2 DEF CacheConsistent
<1>6. RecentFirst'
  <2>1. ASSUME NEW i \in 1..Len(lru'), NEW j \in 1..Len(lru'), i < j
        PROVE  items'[lru'[j]].usedAt <= items'[lru'[i]].usedAt
    <3>1. PICK a \in 1..Len(lru), b \in 1..Len(lru) :
            a < b /\ lru'[i] = lru[a] /\ lru'[j] = lru[b]
      BY <1>1, <1>2, <2>1, WithoutOrder
    <3>2. items[lru[b]].usedAt <= items[lru[a]].usedAt
      BY <3>1 DEF CacheInv, RecentFirst
    <3>3. lru'[i] \in DOMAIN items' /\ lru'[j] \in DOMAIN items'
      <4>1. lru' \in Seq(Keys)
        BY <1>4 DEF CacheTyped
      <4>2. ToSet(lru') = {lru'[h] : h \in 1..Len(lru')}
        BY <4>1, ToSetIs
      <4>3. ToSet(lru') = DOMAIN items'
        BY <1>5 DEF CacheConsistent
      <4>4. QED
        BY <4>2, <4>3
    <3>4. QED
      BY <3>1, <3>2, <3>3, <1>3
  <2>2. QED
    BY <2>1 DEF RecentFirst
<1>7. UsedBefore' /\ EntriesBelong' /\ StoredIsSettled'
  BY <1>3 DEF CacheInv, UsedBefore, EntriesBelong, StoredIsSettled, KeyOf, Ms
<1>8. QED
  BY <1>3, <1>4, <1>5, <1>6, <1>7 DEF CacheInv

\* What Set leaves on the list: all of it with the key in front, or all but the last.
LEMMA KeptIs ==
  ASSUME CacheInv, NEW k \in Keys, NEW kept,
         kept = IF Len(Fronted(lru, k)) > MaxSize
                  THEN Front(Fronted(lru, k)) ELSE Fronted(lru, k)
  PROVE  /\ kept \in Seq(Keys)
         /\ IsInjective(kept)
         /\ Len(kept) <= MaxSize
         /\ Len(kept) <= Len(Fronted(lru, k))
         /\ \A i \in 1..Len(kept) : kept[i] = Fronted(lru, k)[i]
         /\ k \in ToSet(kept)
         /\ ToSet(kept) \subseteq DOMAIN items \union {k}
         /\ \A x \in DOMAIN items \ ToSet(kept) : x = Fronted(lru, k)[Len(Fronted(lru, k))]
<1> DEFINE f == Fronted(lru, k)
<1>1. lru \in Seq(Keys) /\ IsInjective(lru) /\ ToSet(lru) = DOMAIN items
  BY DEF CacheInv, CacheTyped, CacheConsistent
<1>2. /\ f \in Seq(Keys) /\ IsInjective(f) /\ ToSet(f) = DOMAIN items \union {k}
      /\ f[1] = k /\ Len(f) = Len(Without(lru, k)) + 1
  <2>1. lru \in Seq(Keys) /\ IsInjective(lru)
    BY <1>1
  <2>2. /\ f \in Seq(Keys) /\ IsInjective(f) /\ ToSet(f) = ToSet(lru) \union {k}
        /\ f[1] = k /\ Len(f) = Len(Without(lru, k)) + 1
    BY <2>1, FrontedIs
  <2>3. QED
    BY <2>2, <1>1
<1>3. Len(f) \in Nat /\ Len(Without(lru, k)) <= Len(lru) /\ Len(Without(lru, k)) \in Nat
  BY <1>1, <1>2, WithoutSet, ToSetIs
<1>4. Len(lru) <= MaxSize /\ Len(lru) \in Nat /\ MaxSize \in Nat \ {0}
  BY <1>1, ToSetIs, CacheAssumption DEF CacheInv, CacheConsistent
<1>5. 1 <= Len(f) /\ Len(f) - 1 <= MaxSize
  BY <1>2, <1>3, <1>4
<1>6. 1 \in 1..Len(f)
  BY <1>3, <1>5
<1> HIDE DEF f
<1>7. CASE Len(f) > MaxSize
  <2>1. kept = Front(f)
    BY <1>7 DEF f
  <2>2. Len(f) > 0
    BY <1>3, <1>5
  <2>3. /\ kept \in Seq(Keys) /\ Len(kept) = Len(f) - 1
        /\ \A i \in 1..(Len(f) - 1) : kept[i] = f[i]
        /\ ToSet(kept) = ToSet(f) \ {f[Len(f)]}
        /\ IsInjective(kept)
    BY <2>1, <2>2, <1>2, FrontIs
  <2>4. 1 \in 1..Len(kept)
    BY <2>3, <1>3, <1>4, <1>7
  <2>5. k \in ToSet(kept)
    <3>1. ToSet(kept) = {kept[i] : i \in 1..Len(kept)}
      BY <2>3, ToSetIs
    <3>2. kept[1] = k
      BY <2>3, <2>4, <1>2
    <3>3. QED
      BY <3>1, <3>2, <2>4
  <2>6. Len(kept) <= Len(f)
    BY <2>3, <1>3
  <2>7. QED
    BY <2>3, <2>5, <2>6, <1>2, <1>5 DEF f
<1>8. CASE ~(Len(f) > MaxSize)
  <2>1. kept = f
    BY <1>8 DEF f
  <2>2. Len(f) <= MaxSize
    BY <1>3, <1>4, <1>8
  <2>3. QED
    BY <2>1, <2>2, <1>2, <1>3 DEF f
<1>9. QED
  BY <1>7, <1>8

\* A Set of a settled entry under its own key keeps the cache in order and within its
\* capacity, and brings in no other key.
LEMMA PutKeeps ==
  ASSUME CacheInv, NEW e \in Entries, NEW k \in Keys, Put(k, e), UNCHANGED clock,
         KeyOf(e.req) = k, e.readAt >= e.req.end + MaxFreshness
  PROVE  CacheInv' /\ DOMAIN items' \subseteq DOMAIN items \union {k}
<1> DEFINE f == Fronted(lru, k)
<1>1. lru' = IF Len(f) > MaxSize THEN Front(f) ELSE f
  BY DEF Put, Fronted
<1>2. /\ DOMAIN items' = ToSet(lru')
      /\ \A j \in DOMAIN items' : items'[j] = IF j = k THEN NewItem(e) ELSE items[j]
  BY DEF Put
<1>3. /\ lru' \in Seq(Keys) /\ IsInjective(lru')
      /\ Len(lru') <= MaxSize /\ Len(lru') <= Len(f)
      /\ \A i \in 1..Len(lru') : lru'[i] = f[i]
      /\ k \in ToSet(lru') /\ ToSet(lru') \subseteq DOMAIN items \union {k}
  BY <1>1, KeptIs
<1>4. clock \in Nat /\ clock \in Times /\ TTL \in Nat /\ lru \in Seq(Keys) /\ IsInjective(lru)
  BY CacheAssumption DEF CacheInv, CacheTyped, CacheConsistent, Times
<1>5. Len(f) \in Nat /\ Len(lru') \in Nat
  BY <1>3, <1>4, FrontedIs, ToSetIs
<1> HIDE DEF f
<1>6. /\ items'[k].entry = e
      /\ items'[k].usedAt = clock
      /\ k \in DOMAIN items'
      /\ items'[k] = NewItem(e)
  BY <1>2, <1>3 DEF NewItem
<1>7. CacheTyped'
  <2>1. ASSUME NEW j \in DOMAIN items'  PROVE ItemTyped(j)'
    <3>1. CASE j = k
      BY <3>1, <1>4, <1>6 DEF ItemTyped, NewItem
    <3>2. CASE j # k
      BY <3>2, <1>2, <1>3 DEF CacheInv, CacheTyped, ItemTyped
    <3>3. QED
      BY <3>1, <3>2
  <2>2. QED
    BY <2>1, <1>2, <1>3, <1>4 DEF CacheTyped, CacheInv
<1>8. CacheConsistent'
  BY <1>2, <1>3 DEF CacheConsistent
<1>9. RecentFirst'
  <2>1. ASSUME NEW i \in 1..Len(lru'), NEW j \in 1..Len(lru'), i < j
        PROVE  items'[lru'[j]].usedAt <= items'[lru'[i]].usedAt
    <3>1. i \in 1..Len(f) /\ j \in 1..Len(f)
      BY <1>3, <1>5
    <3>2. /\ f[j] \in DOMAIN items \ {k}
          /\ \/ f[i] = k
             \/ f[i] \in DOMAIN items \ {k} /\ items[f[j]].usedAt <= items[f[i]].usedAt
      BY <2>1, <3>1, FrontedOrder DEF f
    <3>3. lru'[i] = f[i] /\ lru'[j] = f[j]
      BY <1>3
    <3>4. lru'[i] \in DOMAIN items' /\ lru'[j] \in DOMAIN items'
      <4>1. ToSet(lru') = {lru'[h] : h \in 1..Len(lru')}
        BY <1>3, ToSetIs
      <4>2. QED
        BY <4>1, <1>2
    <3>5. items'[lru'[j]] = items[f[j]]
      BY <3>2, <3>3, <3>4, <1>2
    <3>6. CASE f[i] = k
      <4>1. items[f[j]].usedAt <= clock
        BY <3>2 DEF CacheInv, UsedBefore
      <4>2. QED
        BY <4>1, <3>3, <3>5, <3>6, <1>6
    <3>7. CASE f[i] # k
      BY <3>2, <3>3, <3>4, <3>5, <3>7, <1>2
    <3>8. QED
      BY <3>6, <3>7
  <2>2. QED
    BY <2>1 DEF RecentFirst
<1>10. ASSUME NEW j \in DOMAIN items'
       PROVE  /\ items'[j].usedAt <= clock
              /\ KeyOf(items'[j].entry.req) = j
              /\ items'[j].entry.readAt >= items'[j].entry.req.end + MaxFreshness
  <2>1. CASE j = k
    BY <2>1, <1>4, <1>6
  <2>2. CASE j # k
    <3>1. j \in DOMAIN items /\ items'[j] = items[j]
      BY <2>2, <1>2, <1>3
    <3>2. QED
      BY <3>1 DEF CacheInv, UsedBefore, EntriesBelong, StoredIsSettled
  <2>3. QED
    BY <2>1, <2>2
<1>11. UsedBefore' /\ EntriesBelong' /\ StoredIsSettled'
  BY <1>10 DEF UsedBefore, EntriesBelong, StoredIsSettled, KeyOf, Ms
<1>12. QED
  BY <1>2, <1>3, <1>7, <1>8, <1>9, <1>11 DEF CacheInv

\* Steps that touch neither the clock nor the cache.
LEMMA CacheUntouched ==
  ASSUME CacheInv, UNCHANGED <<clock, lru, items>>
  PROVE  CacheInv'
BY DEF CacheInv, CacheTyped, ItemTyped, CacheConsistent, RecentFirst, UsedBefore,
       EntriesBelong, StoredIsSettled

\* Time only makes entries expire.
LEMMA TickKeepsCache ==
  ASSUME CacheInv, clock < MaxTime, clock' = clock + 1, UNCHANGED <<lru, items>>
  PROVE  CacheInv'
<1>1. clock \in Times /\ MaxTime \in Nat /\ TTL \in Nat
  BY CacheAssumption DEF CacheInv, CacheTyped
<1>2. clock' \in Times
  BY <1>1 DEF Times
<1>3. ASSUME NEW k \in DOMAIN items  PROVE ItemTyped(k)'
  <2>1. ItemTyped(k)
    BY DEF CacheInv, CacheTyped
  <2>2. \A t \in 0..(clock + TTL) : t \in 0..(clock' + TTL)
    BY <1>1 DEF Times
  <2>3. items[k] \in [entry : Entries, expiresAt : 0..(clock' + TTL), setAt : Times, usedAt : Times]
    BY <2>1, <2>2 DEF ItemTyped
  <2>4. QED
    BY <2>1, <2>3 DEF ItemTyped
<1>4. UsedBefore'
  <2>1. ASSUME NEW k \in DOMAIN items  PROVE items[k].usedAt <= clock'
    <3>1. items[k].usedAt \in Times /\ items[k].usedAt <= clock
      BY DEF CacheInv, CacheTyped, ItemTyped, UsedBefore
    <3>2. QED
      BY <3>1, <1>1 DEF Times
  <2>2. QED
    BY <2>1 DEF UsedBefore
<1>5. CacheTyped'
  BY <1>2, <1>3 DEF CacheInv, CacheTyped
<1>6. QED
  BY <1>4, <1>5 DEF CacheInv, CacheConsistent, RecentFirst, EntriesBelong, StoredIsSettled

-----------------------------------------------------------------------------
(***************************************************************************)
(* The inductive invariant, part two: the calls.                           *)
(***************************************************************************)

States == {"idle", "get", "do", "wait", "done"} \union Leading

CallTyped ==
  /\ pc \in [Callers -> States]
  /\ req \in [Callers -> Requests]
  /\ keep \in [Callers -> BOOLEAN]
  /\ result \in [Callers -> SUBSET Entries]
  /\ flight \in SUBSET Keys

\* A leader's key is in flight, and no two callers lead a flight of the same key.
FlightLed ==
  /\ \A c \in Callers : pc[c] \in Leading => Key(c) \in flight
  /\ \A c, d \in Callers :
       pc[c] \in Leading /\ pc[d] \in Leading /\ Key(c) = Key(d) => c = d

\* What a leader missed in its second Get is still missing when it stores.
MissHeld == \A c \in Callers : pc[c] \in {"evaluate", "store"} => Key(c) \notin DOMAIN items

\* A request whose answer is to be kept has a window that had settled.
KeepIsSettled == \A c \in Callers : keep[c] => req[c].end + MaxFreshness <= clock

\* What is about to be stored was read after its window had settled.
StoreReady ==
  \A c \in Callers : pc[c] = "store" =>
    \A e \in result[c] : e.readAt >= e.req.end + MaxFreshness

\* A handler has no answer before it asks, and then only answers under its request's key.
ResultsBelong ==
  \A c \in Callers :
    /\ pc[c] = "idle" => result[c] = {}
    /\ \A e \in result[c] : KeyOf(e.req) = Key(c)

IInv ==
  /\ CacheInv
  /\ CallTyped
  /\ FlightLed
  /\ MissHeld
  /\ KeepIsSettled
  /\ StoreReady
  /\ ResultsBelong

\* A key of a request is a key.
LEMMA KeyTyped ==
  ASSUME CallTyped, NEW c \in Callers
  PROVE  Key(c) \in Keys /\ req[c] \in Requests /\ req[c].end \in Nat
<1>1. req[c] \in Requests
  BY DEF CallTyped
<1>2. req[c].end \in Nat
  BY <1>1, CacheAssumption
<1>3. QED
  BY <1>1, <1>2 DEF Key, Keys

\* Initially no handler has a request and the cache is empty.
LEMMA InitInv == Init => IInv
<1> SUFFICES ASSUME Init  PROVE IInv
  OBVIOUS
<1>1. NoRequest \in Requests
  BY CacheAssumption DEF NoRequest
<1>2. 0 \in Times /\ MaxSize \in Nat
  BY CacheAssumption DEF Times
<1>3. lru = <<>> /\ Len(lru) = 0 /\ DOMAIN lru = {} /\ DOMAIN items = {} /\ clock = 0
  BY DEF Init
<1>4. CacheInv
  <2>1. CacheTyped
    BY <1>2, <1>3 DEF CacheTyped
  <2>2. CacheConsistent
    BY <1>2, <1>3 DEF CacheConsistent, ToSet, IsInjective
  <2>3. RecentFirst
    BY <1>3 DEF RecentFirst
  <2>4. QED
    BY <2>1, <2>2, <2>3, <1>3 DEF CacheInv, UsedBefore, EntriesBelong, StoredIsSettled
<1>5. CallTyped
  BY <1>1 DEF Init, CallTyped, States
<1>6. FlightLed /\ MissHeld /\ KeepIsSettled /\ StoreReady /\ ResultsBelong
  BY DEF Init, FlightLed, MissHeld, KeepIsSettled, StoreReady, ResultsBelong, Leading
<1>7. QED
  BY <1>4, <1>5, <1>6 DEF IInv

\* A step of one caller within its Fetch: what is left to show is that flights stay
\* led, misses held and the cache in order.
LEMMA MoveKeeps ==
  ASSUME IInv, NEW c \in Callers, NEW l \in States \ {"idle"}, Goto(c, l),
         UNCHANGED <<clock, req, keep>>,
         NEW R \in SUBSET Entries, result' = [result EXCEPT ![c] = R],
         \A e \in R : KeyOf(e.req) = Key(c),
         l = "store" => \A e \in R : e.readAt >= e.req.end + MaxFreshness,
         flight' \in SUBSET Keys,
         CacheInv', FlightLed', MissHeld'
  PROVE  IInv'
<1>1. /\ pc' = [pc EXCEPT ![c] = l] /\ pc \in [Callers -> States]
      /\ result \in [Callers -> SUBSET Entries]
  BY DEF IInv, CallTyped, Goto
<1>2. \A d \in Callers : /\ pc'[d] = IF d = c THEN l ELSE pc[d]
                         /\ result'[d] = IF d = c THEN R ELSE result[d]
                         /\ Key(d)' = Key(d)
  BY <1>1 DEF Key
<1>3. CallTyped'
  BY <1>1 DEF IInv, CallTyped
<1>4. KeepIsSettled'
  BY DEF IInv, KeepIsSettled
<1>5. StoreReady'
  BY <1>2 DEF IInv, StoreReady
<1>6. ResultsBelong'
  <2>1. ASSUME NEW d \in Callers
        PROVE  (pc'[d] = "idle" => result'[d] = {}) /\ \A e \in result'[d] : KeyOf(e.req) = Key(d)'
    <3>1. CASE d = c
      BY <3>1, <1>2
    <3>2. CASE d # c
      BY <3>2, <1>2 DEF IInv, ResultsBelong
    <3>3. QED
      BY <3>1, <3>2
  <2>2. QED
    BY <2>1 DEF ResultsBelong
<1>7. QED
  BY <1>3, <1>4, <1>5, <1>6 DEF IInv

\* A step that starts no flight and ends none leaves the flights led.
LEMMA FlightKeeps ==
  ASSUME IInv, NEW c \in Callers, NEW l \in States, Goto(c, l), UNCHANGED <<req, flight>>,
         l \in Leading => pc[c] \in Leading
  PROVE  FlightLed' /\ flight' \in SUBSET Keys
<1>1. \A d \in Callers : Key(d)' = Key(d) /\ pc'[d] = IF d = c THEN l ELSE pc[d]
  BY DEF IInv, CallTyped, Goto, Key
<1>2. QED
  BY <1>1 DEF IInv, CallTyped, FlightLed

\* A step that brings no key in leaves what was missed missing.
LEMMA MissKeeps ==
  ASSUME IInv, NEW c \in Callers, NEW l \in States, Goto(c, l), UNCHANGED req,
         DOMAIN items' \subseteq DOMAIN items,
         l \in {"evaluate", "store"} =>
           pc[c] \in {"evaluate", "store"} \/ Key(c) \notin DOMAIN items'
  PROVE  MissHeld'
<1>1. \A d \in Callers : Key(d)' = Key(d) /\ pc'[d] = IF d = c THEN l ELSE pc[d]
  BY DEF IInv, CallTyped, Goto, Key
<1>2. QED
  BY <1>1 DEF IInv, MissHeld

-----------------------------------------------------------------------------
(***************************************************************************)
(* Every step keeps the invariant.                                         *)
(***************************************************************************)

\* A Get that finds its entry: of a caller that has just asked, or of a leader.
LEMMA HitKeeps ==
  ASSUME IInv, NEW c \in Callers, NEW l \in {"done", "release"}, Goto(c, l),
         l = "release" => pc[c] \in Leading,
         Live(Key(c)), Promote(Key(c)),
         result' = [result EXCEPT ![c] = {items[Key(c)].entry}],
         UNCHANGED <<clock, req, keep, flight>>
  PROVE  IInv'
<1>1. Key(c) \in DOMAIN items
  BY DEF Live
<1>2. CacheInv' /\ DOMAIN items' = DOMAIN items
  BY <1>1, PromoteKeeps DEF IInv
<1>3. /\ {items[Key(c)].entry} \in SUBSET Entries
      /\ KeyOf(items[Key(c)].entry.req) = Key(c)
  BY <1>1 DEF IInv, CacheInv, CacheTyped, ItemTyped, EntriesBelong
<1>4. l \in States \ {"idle"} /\ l \notin {"evaluate", "store"}
      /\ (l \in Leading => pc[c] \in Leading)
  BY DEF States, Leading
<1>5. FlightLed' /\ flight' \in SUBSET Keys
  BY <1>4, FlightKeeps
<1>6. MissHeld'
  BY <1>2, <1>4, MissKeeps
<1>7. QED
  BY <1>2, <1>3, <1>4, <1>5, <1>6, MoveKeeps

\* A Get that finds none: an expired entry goes, and a leader then holds the miss.
LEMMA MissedKeeps ==
  ASSUME IInv, NEW c \in Callers, NEW l \in {"do", "evaluate"}, Goto(c, l),
         l = "evaluate" => pc[c] \in Leading,
         DropExpired(Key(c)), UNCHANGED <<clock, req, keep, result, flight>>
  PROVE  IInv'
<1>1. Key(c) \in Keys
  BY KeyTyped DEF IInv
<1>2. CacheInv' /\ DOMAIN items' = DOMAIN items \ {Key(c)}
  BY <1>1, DropKeeps DEF IInv
<1>3. l \in States \ {"idle"} /\ l # "store" /\ (l \in Leading => pc[c] \in Leading)
  BY DEF States, Leading
<1>4. FlightLed' /\ flight' \in SUBSET Keys
  BY <1>3, FlightKeeps
<1>5. MissHeld'
  BY <1>2, <1>3, MissKeeps
<1>6. /\ result[c] \in SUBSET Entries
      /\ result' = [result EXCEPT ![c] = result[c]]
      /\ \A e \in result[c] : KeyOf(e.req) = Key(c)
  BY DEF IInv, CallTyped, ResultsBelong
<1>7. QED
  BY <1>2, <1>3, <1>4, <1>5, <1>6, MoveKeeps

\* Every step of the specification keeps the invariant.
LEMMA StepInv == IInv /\ [Next]_vars => IInv'
<1> SUFFICES ASSUME IInv, [Next]_vars  PROVE IInv'
  OBVIOUS
<1>0. /\ clock \in Nat /\ MaxFreshness \in Nat
      /\ \A d \in Callers : Key(d) \in Keys /\ req[d] \in Requests /\ req[d].end \in Nat
  BY KeyTyped, CacheAssumption DEF IInv, CacheInv, CacheTyped, Times
<1>1. CASE Tick
  <2>1. CacheInv'
    BY <1>1, TickKeepsCache DEF Tick, IInv, cacheVars
  <2>2. UNCHANGED <<pc, req, keep, result, flight, lru, items>> /\ clock' = clock + 1
    BY <1>1 DEF Tick, callVars, cacheVars
  <2>3. \A d \in Callers : Key(d)' = Key(d)
    BY <2>2 DEF Key
  <2>4. KeepIsSettled'
    <3>1. \A d \in Callers : req[d].end + MaxFreshness <= clock =>
                               req[d].end + MaxFreshness <= clock + 1
      BY <1>0
    <3>2. QED
      BY <3>1, <2>2 DEF IInv, KeepIsSettled
  <2>5. QED
    BY <2>1, <2>2, <2>3, <2>4
       DEF IInv, CallTyped, FlightLed, MissHeld, StoreReady, ResultsBelong
<1>2. ASSUME NEW c \in Callers, NEW r \in Requests, Ask(c, r)  PROVE IInv'
  <2>1. /\ pc[c] = "idle" /\ pc' = [pc EXCEPT ![c] = "get"]
        /\ req' = [req EXCEPT ![c] = r] /\ keep' = [keep EXCEPT ![c] = Storable(r)]
        /\ UNCHANGED <<clock, result, flight, lru, items>>
    BY <1>2 DEF Ask, Goto, cacheVars
  <2>2. \A d \in Callers : /\ pc'[d] = IF d = c THEN "get" ELSE pc[d]
                           /\ req'[d] = IF d = c THEN r ELSE req[d]
                           /\ keep'[d] = IF d = c THEN Storable(r) ELSE keep[d]
    BY <2>1 DEF IInv, CallTyped
  <2>3. \A d \in Callers : d # c => Key(d)' = Key(d)
    BY <2>2 DEF Key
  <2>4. CacheInv'
    BY <2>1, CacheUntouched DEF IInv
  <2>5. CallTyped'
    <3>1. Storable(r) \in BOOLEAN
      <4>1. CASE Instant(r)
        BY <4>1 DEF Storable
      <4>2. CASE ~Instant(r)
        BY <4>2 DEF Storable
      <4>3. QED
        BY <4>1, <4>2
    <3>2. QED
      BY <2>1, <3>1 DEF IInv, CallTyped, States
  <2>6. FlightLed' /\ MissHeld' /\ StoreReady'
    <3>1. "get" \notin Leading
      BY DEF Leading
    <3>2. FlightLed'
      BY <2>1, <2>2, <2>3, <3>1 DEF IInv, FlightLed
    <3>3. MissHeld' /\ StoreReady'
      BY <2>1, <2>2, <2>3 DEF IInv, MissHeld, StoreReady
    <3>4. QED
      BY <3>2, <3>3
  <2>7. KeepIsSettled'
    <3>1. r.end \in Nat
      BY CacheAssumption
    <3>2. Storable(r) => r.end + MaxFreshness <= clock
      BY <3>1, <1>0 DEF Storable
    <3>3. QED
      BY <3>2, <2>1, <2>2 DEF IInv, KeepIsSettled
  <2>8. ResultsBelong'
    BY <2>1, <2>2, <2>3 DEF IInv, ResultsBelong
  <2>9. QED
    BY <2>4, <2>5, <2>6, <2>7, <2>8 DEF IInv
<1>3. ASSUME NEW c \in Callers, GetHit(c)  PROVE IInv'
  BY <1>3, HitKeeps DEF GetHit
<1>4. ASSUME NEW c \in Callers, GetMiss(c)  PROVE IInv'
  BY <1>4, MissedKeeps DEF GetMiss
<1>5. ASSUME NEW c \in Callers, Lead(c)  PROVE IInv'
  <2>1. /\ Goto(c, "recheck") /\ pc' = [pc EXCEPT ![c] = "recheck"]
        /\ Key(c) \notin flight /\ flight' = flight \union {Key(c)}
        /\ UNCHANGED <<clock, req, keep, result, lru, items>>
    BY <1>5 DEF Lead, Goto, cacheVars
  <2>2. \A d \in Callers : Key(d)' = Key(d) /\ pc'[d] = IF d = c THEN "recheck" ELSE pc[d]
    BY <2>1 DEF IInv, CallTyped, Key
  <2>3. \A d \in Callers : pc[d] \in Leading => Key(d) # Key(c)
    BY <2>1 DEF IInv, FlightLed
  <2>4. FlightLed'
    BY <2>1, <2>2, <2>3 DEF IInv, FlightLed
  <2>5. "recheck" \in States \ {"idle"}
    BY DEF States, Leading
  <2>6. MissHeld'
    BY <2>1, <2>5, MissKeeps
  <2>7. CacheInv' /\ flight' \in SUBSET Keys
    BY <2>1, <1>0, CacheUntouched DEF IInv, CallTyped
  <2>8. /\ result[c] \in SUBSET Entries /\ result' = [result EXCEPT ![c] = result[c]]
        /\ \A e \in result[c] : KeyOf(e.req) = Key(c)
    BY <2>1 DEF IInv, CallTyped, ResultsBelong
  <2>9. Goto(c, "recheck") /\ UNCHANGED <<clock, req, keep>>
    BY <2>1
  <2>10. QED
    BY <2>4, <2>5, <2>6, <2>7, <2>8, <2>9, MoveKeeps
<1>6. ASSUME NEW c \in Callers, Follow(c) \/ EvaluateFails(c)  PROVE IInv'
  <2>1. PICK l \in {"wait", "release"} :
          /\ Goto(c, l) /\ (l = "release" => pc[c] \in Leading)
          /\ UNCHANGED <<clock, req, keep, result, flight, lru, items>>
    BY <1>6 DEF Follow, EvaluateFails, cacheVars, Leading
  <2>2. /\ l \in States \ {"idle"} /\ l \notin {"evaluate", "store"}
        /\ (l \in Leading => pc[c] \in Leading)
    BY <2>1 DEF States, Leading
  <2>3. FlightLed' /\ flight' \in SUBSET Keys
    BY <2>1, <2>2, FlightKeeps
  <2>4. MissHeld'
    BY <2>1, <2>2, MissKeeps
  <2>5. CacheInv'
    BY <2>1, CacheUntouched DEF IInv
  <2>6. /\ result[c] \in SUBSET Entries /\ result' = [result EXCEPT ![c] = result[c]]
        /\ \A e \in result[c] : KeyOf(e.req) = Key(c)
    BY <2>1 DEF IInv, CallTyped, ResultsBelong
  <2>7. QED
    BY <2>1, <2>2, <2>3, <2>4, <2>5, <2>6, MoveKeeps
<1>7. ASSUME NEW c \in Callers, RecheckHit(c)  PROVE IInv'
  BY <1>7, HitKeeps DEF RecheckHit, Leading
<1>8. ASSUME NEW c \in Callers, RecheckMiss(c)  PROVE IInv'
  BY <1>8, MissedKeeps DEF RecheckMiss, Leading
<1>9. ASSUME NEW c \in Callers, Evaluate(c)  PROVE IInv'
  <2> DEFINE e == [req |-> req[c], readAt |-> clock]
             l == IF keep[c] THEN "store" ELSE "release"
  <2>1. /\ Goto(c, l) /\ result' = [result EXCEPT ![c] = {e}] /\ pc[c] = "evaluate"
        /\ UNCHANGED <<clock, req, keep, flight, lru, items>>
    BY <1>9 DEF Evaluate, cacheVars
  <2>2. l \in States \ {"idle"} /\ l \in Leading /\ pc[c] \in Leading
    BY <2>1 DEF States, Leading
  <2>3. {e} \in SUBSET Entries /\ KeyOf(e.req) = Key(c)
    BY <1>0 DEF IInv, CacheInv, CacheTyped, Entries, Key
  <2>4. l = "store" => e.readAt >= e.req.end + MaxFreshness
    <3>1. l = "store" => keep[c]
      OBVIOUS
    <3>2. keep[c] => req[c].end + MaxFreshness <= clock
      BY DEF IInv, KeepIsSettled
    <3>3. QED
      BY <3>1, <3>2, <1>0
  <2> HIDE DEF e, l
  <2>5. FlightLed' /\ flight' \in SUBSET Keys
    BY <2>1, <2>2, FlightKeeps
  <2>6. MissHeld'
    BY <2>1, <2>2, MissKeeps
  <2>7. CacheInv'
    BY <2>1, CacheUntouched DEF IInv
  <2>8. QED
    BY <2>1, <2>2, <2>3, <2>4, <2>5, <2>6, <2>7, MoveKeeps
<1>10. ASSUME NEW c \in Callers, Store(c)  PROVE IInv'
  <2>1. /\ pc[c] = "store" /\ Goto(c, "release") /\ pc' = [pc EXCEPT ![c] = "release"]
        /\ UNCHANGED <<clock, req, keep, result, flight>>
    BY <1>10 DEF Store, Goto
  <2>2. PICK e \in result[c] : Put(Key(c), e)
    BY <1>10 DEF Store
  <2>3. /\ e \in Entries /\ KeyOf(e.req) = Key(c) /\ e.readAt >= e.req.end + MaxFreshness
    BY <2>1, <2>2 DEF IInv, CallTyped, ResultsBelong, StoreReady
  <2>4. CacheInv' /\ DOMAIN items' \subseteq DOMAIN items \union {Key(c)}
    BY <1>0, <2>1, <2>2, <2>3, PutKeeps DEF IInv
  <2>5. "release" \in States \ {"idle"} /\ {"evaluate", "store"} \subseteq Leading
    BY DEF States, Leading
  <2>6. \A d \in Callers : Key(d)' = Key(d) /\ pc'[d] = IF d = c THEN "release" ELSE pc[d]
    BY <2>1 DEF IInv, CallTyped, Key
  <2>7. MissHeld'
    <3>1. ASSUME NEW d \in Callers, pc'[d] \in {"evaluate", "store"}
          PROVE  Key(d) \notin DOMAIN items'
      <4>1. d # c /\ pc[d] \in {"evaluate", "store"}
        BY <2>6, <3>1
      <4>2. Key(d) # Key(c)
        BY <2>1, <2>5, <4>1 DEF IInv, FlightLed
      <4>3. Key(d) \notin DOMAIN items
        BY <4>1 DEF IInv, MissHeld
      <4>4. QED
        BY <2>4, <4>2, <4>3
    <3>2. QED
      BY <3>1, <2>6 DEF MissHeld
  <2>8. FlightLed' /\ flight' \in SUBSET Keys
    BY <2>1, <2>5, FlightKeeps
  <2>9. /\ result[c] \in SUBSET Entries /\ result' = [result EXCEPT ![c] = result[c]]
        /\ \A x \in result[c] : KeyOf(x.req) = Key(c)
    BY <2>1 DEF IInv, CallTyped, ResultsBelong
  <2>10. QED
    BY <2>1, <2>4, <2>5, <2>7, <2>8, <2>9, MoveKeeps
<1>11. ASSUME NEW c \in Callers, Release(c)  PROVE IInv'
  <2> DEFINE served == Followers(Key(c)) \union {c}
  <2>1. /\ pc[c] = "release" /\ flight' = flight \ {Key(c)}
        /\ pc' = [d \in Callers |-> IF d \in served THEN "done" ELSE pc[d]]
        /\ result' = [d \in Callers |-> IF d \in served THEN result[c] ELSE result[d]]
        /\ UNCHANGED <<clock, req, keep, lru, items>>
    BY <1>11 DEF Release, cacheVars
  <2>2. \A d \in served : Key(d) = Key(c)
    BY DEF Followers
  <2> HIDE DEF served
  <2>3. \A d \in Callers : Key(d)' = Key(d)
    BY <2>1 DEF Key
  <2>4. CacheInv'
    BY <2>1, CacheUntouched DEF IInv
  <2>5. CallTyped'
    BY <2>1 DEF IInv, CallTyped, States
  <2>6. FlightLed'
    <3>1. "done" \notin Leading /\ "release" \in Leading
      BY DEF Leading
    <3>2. c \in served
      BY DEF served
    <3>3. \A d \in Callers : pc'[d] \in Leading => pc[d] \in Leading /\ d # c
      BY <2>1, <3>1, <3>2
    <3>4. \A d \in Callers : pc'[d] \in Leading => Key(d) # Key(c)
      BY <2>1, <3>1, <3>3 DEF IInv, FlightLed
    <3>5. QED
      BY <2>1, <2>3, <3>3, <3>4 DEF IInv, FlightLed
  <2>7. MissHeld' /\ KeepIsSettled' /\ StoreReady'
    BY <2>1, <2>3 DEF IInv, MissHeld, KeepIsSettled, StoreReady
  <2>8. ResultsBelong'
    <3>1. ASSUME NEW d \in Callers
          PROVE  (pc'[d] = "idle" => result'[d] = {}) /\ \A e \in result'[d] : KeyOf(e.req) = Key(d)
      BY <2>1, <2>2 DEF IInv, ResultsBelong
    <3>2. QED
      BY <3>1, <2>3 DEF ResultsBelong
  <2>9. QED
    BY <2>4, <2>5, <2>6, <2>7, <2>8 DEF IInv
<1>12. ASSUME NEW c \in Callers, Respond(c)  PROVE IInv'
  <2>1. /\ pc' = [pc EXCEPT ![c] = "idle"] /\ req' = [req EXCEPT ![c] = NoRequest]
        /\ keep' = [keep EXCEPT ![c] = FALSE] /\ result' = [result EXCEPT ![c] = {}]
        /\ UNCHANGED <<clock, flight, lru, items>>
    BY <1>12 DEF Respond, Goto, cacheVars
  <2>2. \A d \in Callers : /\ pc'[d] = IF d = c THEN "idle" ELSE pc[d]
                           /\ req'[d] = IF d = c THEN NoRequest ELSE req[d]
                           /\ keep'[d] = IF d = c THEN FALSE ELSE keep[d]
                           /\ result'[d] = IF d = c THEN {} ELSE result[d]
    BY <2>1 DEF IInv, CallTyped
  <2>3. \A d \in Callers : d # c => Key(d)' = Key(d)
    BY <2>2 DEF Key
  <2>4. CacheInv'
    BY <2>1, CacheUntouched DEF IInv
  <2>5. CallTyped'
    <3>1. NoRequest \in Requests
      BY CacheAssumption DEF NoRequest
    <3>2. QED
      BY <2>1, <3>1 DEF IInv, CallTyped, States
  <2>6. "idle" \notin Leading
    BY DEF Leading
  <2>7. FlightLed'
    <3>1. \A d \in Callers : pc'[d] \in Leading => d # c /\ pc[d] \in Leading /\ Key(d)' = Key(d)
      BY <2>2, <2>3, <2>6
    <3>2. flight' = flight
      BY <2>1
    <3>3. QED
      BY <3>1, <3>2 DEF IInv, FlightLed
  <2>8. MissHeld' /\ StoreReady'
    <3>1. ASSUME NEW d \in Callers, pc'[d] \in {"evaluate", "store"}
          PROVE  d # c /\ pc'[d] = pc[d] /\ result'[d] = result[d] /\ Key(d)' = Key(d)
      BY <3>1, <2>2, <2>3
    <3>2. items' = items
      BY <2>1
    <3>3. QED
      BY <3>1, <3>2 DEF IInv, MissHeld, StoreReady
  <2>9. KeepIsSettled'
    <3>1. \A d \in Callers : keep'[d] => d # c /\ keep[d] /\ req'[d] = req[d]
      BY <2>2
    <3>2. clock' = clock
      BY <2>1
    <3>3. QED
      BY <3>1, <3>2 DEF IInv, KeepIsSettled
  <2>10. ResultsBelong'
    <3>1. ASSUME NEW d \in Callers
          PROVE  (pc'[d] = "idle" => result'[d] = {}) /\ \A e \in result'[d] : KeyOf(e.req) = Key(d)'
      <4>1. CASE d = c
        BY <4>1, <2>2
      <4>2. CASE d # c
        BY <4>2, <2>2, <2>3 DEF IInv, ResultsBelong
      <4>3. QED
        BY <4>1, <4>2
    <3>2. QED
      BY <3>1 DEF ResultsBelong
  <2>11. QED
    BY <2>4, <2>5, <2>7, <2>8, <2>9, <2>10 DEF IInv
<1>13. CASE UNCHANGED vars
  <2>1. UNCHANGED <<clock, pc, req, keep, result, flight, lru, items>>
    BY <1>13 DEF vars
  <2>2. CacheInv' /\ \A d \in Callers : Key(d)' = Key(d)
    BY <2>1, CacheUntouched DEF IInv, Key
  <2>3. QED
    BY <2>1, <2>2
       DEF IInv, CallTyped, FlightLed, MissHeld, KeepIsSettled, StoreReady, ResultsBelong
<1>14. QED
  BY <1>1, <1>2, <1>3, <1>4, <1>5, <1>6, <1>7, <1>8, <1>9, <1>10, <1>11, <1>12, <1>13
     DEF Next, Fetch

-----------------------------------------------------------------------------
(***************************************************************************)
(* What follows from it.                                                   *)
(***************************************************************************)

\* Every reachable state satisfies the inductive invariant: Get and Set of any number of
\* handlers, flights, expiry and eviction in any order.
THEOREM Invariance == Spec => []IInv
<1>1. Init => IInv
  BY InitInv
<1>2. IInv /\ [Next]_vars => IInv'
  BY StepInv
<1>3. QED
  BY <1>1, <1>2, PTL DEF Spec

\* The variables have their types and no entry outlives TTL from its Set: using an entry
\* does not prolong its life.
THEOREM TypeCorrect == Spec => []TypeOK
<1>1. IInv => TypeOK
  BY DEF IInv, CacheInv, CacheTyped, ItemTyped, CallTyped, States, TypeOK
<1>2. QED
  BY <1>1, Invariance, PTL

\* The list and the map of the LRU agree, without repetitions and within MaxSize, for any
\* number of handlers and any capacity.
THEOREM CacheConsistentHolds == Spec => []CacheConsistent
<1>1. IInv => CacheConsistent
  BY DEF IInv, CacheInv
<1>2. QED
  BY <1>1, Invariance, PTL

\* The singleflight group and the leader's second Get together: while a key is being
\* evaluated it has one evaluation and no entry.
THEOREM NoDuplicateWorkHolds == Spec => []NoDuplicateWork
<1>1. IInv => NoDuplicateWork
  <2>1. ASSUME IInv, NEW c \in Callers, pc[c] \in {"evaluate", "store"}
        PROVE  /\ Key(c) \notin DOMAIN items
               /\ \A d \in Callers \ {c} : pc[d] \in Leading => Key(d) # Key(c)
    <3>1. Key(c) \notin DOMAIN items
      BY <2>1 DEF IInv, MissHeld
    <3>2. pc[c] \in Leading
      BY <2>1 DEF Leading
    <3>3. QED
      BY <2>1, <3>1, <3>2 DEF IInv, FlightLed
  <2>2. QED
    BY <2>1 DEF NoDuplicateWork
<1>2. QED
  BY <1>1, Invariance, PTL

\* Whatever the cache holds was read when its window had settled, although the decision
\* to store it is taken before the evaluation, by the caller's clock.
THEOREM StoredIsSettledHolds == Spec => []StoredIsSettled
<1>1. IInv => StoredIsSettled
  BY DEF IInv, CacheInv
<1>2. QED
  BY <1>1, Invariance, PTL

\* When no two requests share a key, every answer is the answer to its own request.  They
\* do share one when their bounds differ by less than a millisecond.
THEOREM AnswersMatchHolds ==
  ASSUME \A r, q \in Requests : KeyOf(r) = KeyOf(q) => r = q
  PROVE  Spec => []AnswersMatch
<1>1. IInv => AnswersMatch
  <2>1. ASSUME IInv, NEW c \in Callers, NEW e \in result[c]  PROVE e.req = req[c]
    <3>1. KeyOf(e.req) = KeyOf(req[c])
      BY <2>1 DEF IInv, ResultsBelong, Key
    <3>2. e.req \in Requests /\ req[c] \in Requests
      BY <2>1 DEF IInv, CallTyped, Entries
    <3>3. QED
      BY <3>1, <3>2
  <2>2. QED
    BY <2>1 DEF AnswersMatch
<1>2. QED
  BY <1>1, Invariance, PTL

\* Set makes room by taking out the entry used least recently: the list is in the order
\* of use, and only its last key can leave.
THEOREM EvictsLeastRecentHolds == Spec => EvictsLeastRecent
<1>1. ASSUME IInv, NEW c \in Callers, Store(c),
             NEW j \in DOMAIN items \ DOMAIN items',
             NEW k \in DOMAIN items \intersect DOMAIN items'
      PROVE  items[j].usedAt <= items[k].usedAt
  <2> DEFINE f == Fronted(lru, Key(c))
  <2>1. Key(c) \in Keys /\ Key(c) \notin DOMAIN items
    BY <1>1, KeyTyped DEF IInv, MissHeld, Store
  <2>2. /\ lru' = IF Len(f) > MaxSize THEN Front(f) ELSE f
        /\ DOMAIN items' = ToSet(lru')
    BY <1>1 DEF Store, Put, Fronted
  <2>3. /\ lru \in Seq(Keys) /\ IsInjective(lru) /\ ToSet(lru) = DOMAIN items
    BY <1>1 DEF IInv, CacheInv, CacheTyped, CacheConsistent
  <2>4. j = f[Len(f)]
    BY <1>1, <2>1, <2>2, KeptIs DEF IInv
  <2>5. f \in Seq(Keys) /\ ToSet(f) = ToSet(lru) \union {Key(c)}
    <3>1. lru \in Seq(Keys) /\ IsInjective(lru) /\ Key(c) \in Keys
      BY <2>1, <2>3
    <3>2. QED
      BY <3>1, FrontedIs
  <2> HIDE DEF f
  <2>6. k \in ToSet(f) /\ k # j /\ k # Key(c)
    BY <1>1, <2>1, <2>3, <2>5
  <2>7. Len(f) \in Nat /\ ToSet(f) = {f[i] : i \in 1..Len(f)}
    BY <2>5, ToSetIs
  <2>8. PICK i \in 1..Len(f) : f[i] = k
    BY <2>6, <2>7
  <2>9. i < Len(f) /\ Len(f) \in 1..Len(f)
    BY <2>4, <2>6, <2>7, <2>8
  <2>10. items[f[Len(f)]].usedAt <= items[f[i]].usedAt
    BY <1>1, <2>1, <2>6, <2>8, <2>9, FrontedOrder DEF IInv, f
  <2>11. QED
    BY <2>4, <2>8, <2>10
<1>2. IInv /\ [Next]_vars =>
        [\A c \in Callers : Store(c) =>
           \A j \in DOMAIN items \ DOMAIN items', k \in DOMAIN items \intersect DOMAIN items' :
             items[j].usedAt <= items[k].usedAt]_vars
  BY <1>1
<1>3. QED
  BY <1>2, Invariance, PTL DEF Spec, EvictsLeastRecent
=============================================================================
