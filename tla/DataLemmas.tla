------------------------------ MODULE DataLemmas -------------------------------
(***************************************************************************)
(* Lemmas about natural numbers, recursive functions and sorted sequences. *)
(* They speak of sets, functions and relations where the theorems of the   *)
(* library take operators, so that they can be applied to any of them.     *)
(***************************************************************************)
EXTENDS Integers, Sequences, Sorting, FiniteSetTheorems, WellFoundedInduction, NaturalsInduction, TLAPS

-----------------------------------------------------------------------------
(* Induction.                                                               *)

\* A set of natural numbers has a least element.
LEMMA LeastNatural ==
  ASSUME NEW S \in SUBSET Nat, S # {}
  PROVE  \E m \in S : \A k \in S : m <= k
<1>1. PICK m \in S : \A k \in S : ~(<<k, m>> \in OpToRel(<, Nat))
  BY NatLessThanWellFounded, WFMin
<1>2. \A k \in S : ~(k < m)
  BY <1>1 DEF OpToRel
<1> QED BY <1>2

\* A bounded one has a greatest element.
LEMMA GreatestNatural ==
  ASSUME NEW n \in Int, NEW S \in SUBSET Nat, S # {}, \A k \in S : k <= n
  PROVE  \E m \in S : \A k \in S : k <= m
<1> DEFINE T == {n - k : k \in S}
<1>1. T \in SUBSET Nat /\ T # {}
  <2>1. \A k \in S : n - k \in Nat
    OBVIOUS
  <2> QED BY <2>1
<1>2. PICK m \in T : \A k \in T : m <= k
  <2> HIDE DEF T
  <2> QED BY <1>1, LeastNatural
<1>3. PICK i \in S : m = n - i
  OBVIOUS
<1>4. \A k \in S : n - i <= n - k
  BY <1>2, <1>3
<1> QED BY <1>4

LEMMA SetInduction ==
  ASSUME NEW S, 0 \in S, \A n \in Nat : n \in S => n + 1 \in S
  PROVE  \A n \in Nat : n \in S
<1> SUFFICES ASSUME NEW n \in Nat, n \notin S PROVE FALSE
  OBVIOUS
<1> DEFINE T == Nat \ S
<1>1. PICK m \in T : \A k \in T : m <= k
  <2>1. T \in SUBSET Nat /\ T # {}
    OBVIOUS
  <2> HIDE DEF T
  <2> QED BY <2>1, LeastNatural
<1>2. m # 0 /\ m - 1 \in Nat
  OBVIOUS
<1>3. m - 1 \in S
  BY <1>1, <1>2
<1> QED BY <1>2, <1>3

-----------------------------------------------------------------------------
(* Recursive functions.                                                     *)

\* f begins with base and goes on by step.
Follows(f, base, step) == f[0] = base /\ \A n \in Nat : f[n + 1] = step[<<n, f[n]>>]

\* A function may be given by its value at 0 and the step from n to n + 1.
LEMMA RecursiveFunction ==
  ASSUME NEW S, NEW base \in S, NEW step \in [Nat \X S -> S]
  PROVE  \E f \in [Nat -> S] : Follows(f, base, step)
<1> DEFINE Upto(n) == {g \in [0 .. n -> S] : g[0] = base /\ \A i \in 0 .. n - 1 : g[i + 1] = step[<<i, g[i]>>]}
           some == {n \in Nat : Upto(n) # {}}
<1>1. 0 \in some
  <2> DEFINE g == [i \in 0 .. 0 |-> base]
  <2>1. g \in Upto(0)
    OBVIOUS
  <2> QED BY <2>1
<1>2. ASSUME NEW n \in Nat, n \in some PROVE n + 1 \in some
  <2>1. PICK g : g \in Upto(n)
    BY <1>2
  <2> DEFINE h == [i \in 0 .. n + 1 |-> IF i = n + 1 THEN step[<<n, g[n]>>] ELSE g[i]]
  <2>2. g[n] \in S /\ step[<<n, g[n]>>] \in S
    BY <2>1
  <2>3. h \in [0 .. n + 1 -> S]
    BY <2>1, <2>2
  <2>4. ASSUME NEW i \in 0 .. n PROVE h[i + 1] = step[<<i, h[i]>>]
    <3>1. i + 1 \in 0 .. n + 1 /\ i \in 0 .. n + 1 /\ i # n + 1
      OBVIOUS
    <3>2. CASE i = n
      BY <3>1, <3>2
    <3>3. CASE i # n
      <4>1. i \in 0 .. n - 1 /\ i + 1 # n + 1
        BY <3>3
      <4>2. g[i + 1] = step[<<i, g[i]>>]
        BY <2>1, <4>1
      <4> QED BY <3>1, <4>1, <4>2
    <3> QED BY <3>2, <3>3
  <2>5. h[0] = base
    BY <2>1
  <2>6. (n + 1) - 1 = n
    OBVIOUS
  <2> HIDE DEF h
  <2>7. h \in Upto(n + 1)
    <3>1. \A i \in 0 .. (n + 1) - 1 : h[i + 1] = step[<<i, h[i]>>]
      BY <2>4, <2>6
    <3> QED BY <2>3, <2>5, <3>1
  <2> QED BY <2>7
<1>3. \A n \in Nat : n \in some
  <2> HIDE DEF some
  <2> QED BY <1>1, <1>2, SetInduction
<1>4. ASSUME NEW m \in Nat, NEW n \in Nat, m <= n, NEW g \in Upto(m), NEW h \in Upto(n)
      PROVE  g[m] = h[m]
  <2> DEFINE T == {i \in Nat : i <= m => g[i] = h[i]}
  <2>1. 0 \in T
    OBVIOUS
  <2>2. ASSUME NEW i \in Nat, i \in T PROVE i + 1 \in T
    <3> SUFFICES ASSUME i + 1 <= m PROVE g[i + 1] = h[i + 1]
      OBVIOUS
    <3>1. i \in 0 .. m - 1 /\ i \in 0 .. n - 1 /\ g[i] = h[i]
      BY <1>4, <2>2
    <3> QED BY <3>1
  <2>3. \A i \in Nat : i \in T
    <3> HIDE DEF T
    <3> QED BY <2>1, <2>2, SetInduction
  <2> QED BY <2>3
<1> DEFINE pick(n) == CHOOSE g : g \in Upto(n)
           f == [n \in Nat |-> pick(n)[n]]
<1>5. \A n \in Nat : pick(n) \in Upto(n)
  BY <1>3
<1> HIDE DEF pick
<1>6. f \in [Nat -> S]
  <2> SUFFICES ASSUME NEW n \in Nat PROVE pick(n)[n] \in S
    OBVIOUS
  <2> QED BY <1>5
<1>7. f[0] = base
  BY <1>5
<1>8. ASSUME NEW n \in Nat PROVE f[n + 1] = step[<<n, f[n]>>]
  <2>1. pick(n + 1) \in Upto(n + 1) /\ pick(n) \in Upto(n) /\ n + 1 \in Nat
    BY <1>5
  <2>2. pick(n + 1)[n + 1] = step[<<n, pick(n + 1)[n]>>]
    <3>1. n \in 0 .. (n + 1) - 1
      OBVIOUS
    <3> QED BY <2>1, <3>1
  <2>3. pick(n)[n] = pick(n + 1)[n]
    <3> HIDE DEF Upto
    <3>1. n <= n + 1
      OBVIOUS
    <3> QED BY <1>4, <2>1, <3>1
  <2> QED BY <2>1, <2>2, <2>3
<1> QED BY <1>6, <1>7, <1>8 DEF Follows

\* Likewise a function on the numbers up to N.
FollowsUpto(f, N, base, step) == f[0] = base /\ \A n \in 1 .. N : f[n] = step[<<n, f[n - 1]>>]

LEMMA BoundedRecursion ==
  ASSUME NEW N \in Nat, NEW S, NEW base \in S, NEW step \in [(1 .. N) \X S -> S]
  PROVE  \E f \in [0 .. N -> S] : FollowsUpto(f, N, base, step)
<1> DEFINE total == [p \in Nat \X S |-> IF p[1] + 1 \in 1 .. N THEN step[<<p[1] + 1, p[2]>>] ELSE base]
<1>1. total \in [Nat \X S -> S]
  OBVIOUS
<1>2. ASSUME NEW n \in 1 .. N, NEW x \in S PROVE total[<<n - 1, x>>] = step[<<n, x>>]
  <2>1. n - 1 \in Nat /\ (n - 1) + 1 = n /\ <<n - 1, x>> \in Nat \X S
    OBVIOUS
  <2> QED BY <2>1
<1> HIDE DEF total
<1>3. PICK g \in [Nat -> S] : Follows(g, base, total)
  BY <1>1, RecursiveFunction
<1> DEFINE f == [n \in 0 .. N |-> g[n]]
<1>4. f \in [0 .. N -> S] /\ f[0] = base
  BY <1>3 DEF Follows
<1>5. ASSUME NEW n \in 1 .. N PROVE f[n] = step[<<n, f[n - 1]>>]
  <2>1. n - 1 \in Nat /\ (n - 1) + 1 = n /\ n \in 0 .. N /\ n - 1 \in 0 .. N
    OBVIOUS
  <2>2. g[n] = total[<<n - 1, g[n - 1]>>]
    BY <1>3, <2>1 DEF Follows
  <2>3. g[n - 1] \in S
    BY <2>1
  <2> QED BY <1>2, <2>1, <2>2, <2>3
<1> QED BY <1>4, <1>5 DEF FollowsUpto

-----------------------------------------------------------------------------
(* Sorted sequences.                                                        *)

\* s lists the elements of S, each of them once.
Lists(s, S) ==
  /\ s \in Seq(S) /\ Len(s) = Cardinality(S) /\ DOMAIN s = 1 .. Cardinality(S)
  /\ \A i \in DOMAIN s : s[i] \in S
  /\ \A x \in S : \E i \in DOMAIN s : s[i] = x
  /\ \A i, j \in DOMAIN s : s[i] = s[j] => i = j

\* s is sorted: earlier elements are less in R, a set of pairs.
Orders(s, R) == \A i, j \in DOMAIN s : i < j <=> <<s[i], s[j]>> \in R

\* The rank of each element of S in R: how many are less.
Rank(S, R) == [x \in S |-> Cardinality({y \in S : <<y, x>> \in R})]

\* A strict total order by ranks: there is one element of each rank.
LEMMA RankedSequence ==
  ASSUME NEW S, NEW n \in Nat, IsFiniteSet(S), Cardinality(S) = n, NEW R,
         \A x, y \in S : x = y \/ <<x, y>> \in R \/ <<y, x>> \in R,
         NEW rank \in [S -> 0 .. n - 1],
         \A x, y \in S : <<x, y>> \in R => rank[x] < rank[y],
         NEW s, s = Ranked(S, rank)
  PROVE  Lists(s, S) /\ Orders(s, R)
<1> DEFINE q == [x \in S |-> rank[x] + 1]
<1>1. ASSUME NEW x \in S, NEW y \in S, rank[x] = rank[y] PROVE x = y
  <2>1. rank[x] \in Int /\ rank[y] \in Int /\ ~(rank[x] < rank[y]) /\ ~(rank[y] < rank[x])
    BY <1>1
  <2> QED BY <2>1
<1>2. q \in Surjection(S, 1 .. n)
  <2>1. q \in Injection(S, 1 .. n)
    <3>1. \A x \in S : rank[x] + 1 \in 1 .. n
      OBVIOUS
    <3>2. \A x, y \in S : rank[x] + 1 = rank[y] + 1 => x = y
      <4> SUFFICES ASSUME NEW x \in S, NEW y \in S, rank[x] + 1 = rank[y] + 1 PROVE x = y
        OBVIOUS
      <4>1. rank[x] = rank[y]
        <5>1. rank[x] \in Int /\ rank[y] \in Int
          OBVIOUS
        <5> QED BY <5>1
      <4> QED BY <1>1, <4>1
    <3> QED BY <3>1, <3>2 DEF Injection, IsInjective
  <2>2. IsFiniteSet(1 .. n) /\ Cardinality(1 .. n) = n
    BY FS_Interval
  <2> HIDE DEF q
  <2> QED BY <2>1, <2>2, FS_Injection
<1>3. ASSUME NEW i \in 1 .. n PROVE s[i] \in S /\ rank[s[i]] = i - 1
  <2>1. PICK x \in S : q[x] = i
    <3> HIDE DEF q
    <3> QED BY <1>2 DEF Surjection
  <2>2. rank[x] = i - 1
    BY <2>1
  <2>3. s[i] = CHOOSE y \in S : rank[y] = i - 1
    BY DEF Ranked
  <2> QED BY <2>2, <2>3
<1>4. DOMAIN s = 1 .. n /\ s = [i \in 1 .. n |-> s[i]]
  BY DEF Ranked
<1>6. s \in Seq(S) /\ Len(s) = n
  <2>1. s \in [1 .. n -> S]
    BY <1>3, <1>4
  <2> QED BY <2>1
<1>7. ASSUME NEW i \in 1 .. n, NEW j \in 1 .. n PROVE i < j <=> <<s[i], s[j]>> \in R
  <2>1. s[i] \in S /\ s[j] \in S /\ rank[s[i]] = i - 1 /\ rank[s[j]] = j - 1
    BY <1>3
  <2>2. CASE i < j
    <3>1. ~(rank[s[j]] < rank[s[i]]) /\ s[i] # s[j]
      BY <2>1, <2>2
    <3> QED BY <2>1, <2>2, <3>1
  <2>3. CASE ~(i < j)
    <3>1. ~(rank[s[i]] < rank[s[j]])
      BY <2>1, <2>3
    <3> QED BY <2>1, <2>3, <3>1
  <2> QED BY <2>2, <2>3
<1>8. ASSUME NEW i \in 1 .. n, NEW j \in 1 .. n, s[i] = s[j] PROVE i = j
  <2>1. i - 1 = j - 1
    BY <1>3, <1>8
  <2> QED BY <2>1
<1>9. ASSUME NEW x \in S PROVE \E i \in 1 .. n : s[i] = x
  <2>1. rank[x] + 1 \in 1 .. n /\ (rank[x] + 1) - 1 = rank[x]
    OBVIOUS
  <2>2. s[rank[x] + 1] \in S /\ rank[s[rank[x] + 1]] = rank[x]
    BY <1>3, <2>1
  <2> QED BY <1>1, <2>1, <2>2
<1>11. \A i, j \in 1 .. n : i < j <=> <<s[i], s[j]>> \in R
  BY <1>7
<1>12. \A i, j \in 1 .. n : s[i] = s[j] => i = j
  BY <1>8
<1> QED BY <1>3, <1>4, <1>6, <1>9, <1>11, <1>12 DEF Lists, Orders

\* What Sorted gives for the order R is a sequence of all elements without
\* repetition, in that order.
LEMMA SortedSequence ==
  ASSUME NEW S, IsFiniteSet(S), NEW R,
         \A x \in S : <<x, x>> \notin R,
         \A x, y \in S : x = y \/ <<x, y>> \in R \/ <<y, x>> \in R,
         \A x, y, z \in S : <<x, y>> \in R /\ <<y, z>> \in R => <<x, z>> \in R,
         NEW s, s = Ranked(S, Rank(S, R))
  PROVE  Lists(s, S) /\ Orders(s, R)
<1> DEFINE n == Cardinality(S)
           below(x) == {y \in S : <<y, x>> \in R}
           rank == [x \in S |-> Cardinality(below(x))]
<1>1. n \in Nat
  BY FS_CardinalityType
<1>2. ASSUME NEW x \in S PROVE IsFiniteSet(below(x)) /\ Cardinality(below(x)) \in 0 .. n - 1
  <2>1. below(x) \in SUBSET (S \ {x})
    OBVIOUS
  <2>2. IsFiniteSet(S \ {x}) /\ Cardinality(S \ {x}) = n - 1
    BY FS_RemoveElement
  <2> HIDE DEF below
  <2>3. IsFiniteSet(below(x)) /\ Cardinality(below(x)) <= Cardinality(S \ {x})
    BY <2>1, <2>2, FS_Subset
  <2>4. Cardinality(below(x)) \in Nat
    BY <2>3, FS_CardinalityType
  <2> HIDE DEF n
  <2> QED BY <1>1, <2>2, <2>3, <2>4
<1>3. ASSUME NEW x \in S, NEW y \in S, <<x, y>> \in R
      PROVE  Cardinality(below(x)) < Cardinality(below(y))
  <2>1. below(x) \cup {x} \in SUBSET below(y) /\ x \notin below(x)
    BY <1>3
  <2> HIDE DEF below
  <2>2. IsFiniteSet(below(x)) /\ IsFiniteSet(below(y))
    BY <1>2
  <2>3. Cardinality(below(x)) \in Nat /\ Cardinality(below(y)) \in Nat
    BY <2>2, FS_CardinalityType
  <2>4. Cardinality(below(x) \cup {x}) = Cardinality(below(x)) + 1
    BY <2>1, <2>2, FS_AddElement
  <2>5. Cardinality(below(x) \cup {x}) <= Cardinality(below(y))
    BY <2>1, <2>2, FS_Subset
  <2> QED BY <2>3, <2>4, <2>5
<1>4. s = Ranked(S, rank)
  BY DEF Rank
<1> HIDE DEF below
<1>5. rank \in [S -> 0 .. n - 1]
  <2> HIDE DEF n
  <2> QED BY <1>2
<1>6. \A x, y \in S : <<x, y>> \in R => rank[x] < rank[y]
  BY <1>3
<1>7. n = Cardinality(S)
  OBVIOUS
<1> HIDE DEF n, rank
<1>8. Lists(s, S) /\ Orders(s, R)
  <2>1. IsFiniteSet(S) /\ Cardinality(S) = n /\ n \in Nat
    BY <1>1, <1>7
  <2>2. \A x, y \in S : x = y \/ <<x, y>> \in R \/ <<y, x>> \in R
    OBVIOUS
  <2> HIDE <1>7
  <2> QED BY ONLY <2>1, <2>2, <1>4, <1>5, <1>6, RankedSequence
<1> QED BY <1>8

\* The elements of a set of numbers in ascending order.
LEMMA AscendingSequence ==
  ASSUME NEW S \in SUBSET Int, IsFiniteSet(S), NEW s, s = Ascending(S)
  PROVE  Lists(s, S) /\ \A i, j \in DOMAIN s : i < j <=> s[i] < s[j]
<1> DEFINE R == {p \in S \X S : p[1] < p[2]}
<1>1. \A x, y \in S : <<x, y>> \in R <=> x < y
  OBVIOUS
<1>2. \A x \in S : {y \in S : y < x} = {y \in S : <<y, x>> \in R}
  BY <1>1
<1> HIDE DEF R
<1>3. s = Ranked(S, Rank(S, R))
  <2>1. s = Ranked(S, [x \in S |-> Cardinality({y \in S : y < x})])
    BY DEF Ascending, Sorted
  <2>2. [x \in S |-> Cardinality({y \in S : y < x})] = Rank(S, R)
    BY <1>2 DEF Rank
  <2> QED BY <2>1, <2>2
<1>4. /\ \A x \in S : <<x, x>> \notin R
      /\ \A x, y \in S : x = y \/ <<x, y>> \in R \/ <<y, x>> \in R
      /\ \A x, y, z \in S : <<x, y>> \in R /\ <<y, z>> \in R => <<x, z>> \in R
  <2>1. \A x \in S : x \in Int
    OBVIOUS
  <2> QED BY <1>1, <2>1
<1>5. Lists(s, S) /\ Orders(s, R)
  BY <1>3, <1>4, SortedSequence
<1>6. \A i \in DOMAIN s : s[i] \in S
  BY <1>5 DEF Lists
<1>7. \A i, j \in DOMAIN s : i < j <=> s[i] < s[j]
  BY <1>1, <1>5, <1>6 DEF Orders
<1> QED BY <1>5, <1>7
===============================================================================
