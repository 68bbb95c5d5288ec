------------------------ MODULE ResourcePackerProofs --------------------------
(***************************************************************************)
(* Theorems about ResourcePacker: the search of the bin packer finds units *)
(* for all requirements exactly when there are some, and the allocator     *)
(* never refuses what the packer has found.                                *)
(***************************************************************************)
EXTENDS ResourcePacker, DataLemmas

-----------------------------------------------------------------------------
(* The slots that a choice of units takes.                                  *)

\* The slots of one requirement.
LEMMA SlotsOfRequirement ==
  ASSUME NEW r, NEW n \in Nat
  PROVE  IsFiniteSet({r} \X (1 .. n)) /\ Cardinality({r} \X (1 .. n)) = n
<1>1. IsFiniteSet(1 .. n) /\ Cardinality(1 .. n) = n
  BY FS_Interval
<1>2. IsFiniteSet({r}) /\ Cardinality({r}) = 1
  BY FS_Singleton
<1>3. 1 * n = n
  OBVIOUS
<1> QED BY <1>1, <1>2, <1>3, FS_Product

\* units extends rest by a unit for requirement r.
Extends(units, rest, r) ==
  /\ r \notin DOMAIN rest
  /\ DOMAIN units = DOMAIN rest \cup {r}
  /\ \A i \in DOMAIN rest : units[i] = rest[i]

\* A requirement more adds its slots to those of its unit.
LEMMA TakenAdd ==
  ASSUME NEW needs, NEW r, needs[r] \in Nat, NEW rest, NEW units, Extends(units, rest, r),
         NEW u, IsFiniteSet(Taken(needs, rest, u))
  PROVE  /\ IsFiniteSet(Taken(needs, units, u))
         /\ units[r] = u => Cardinality(Taken(needs, units, u)) = Cardinality(Taken(needs, rest, u)) + needs[r]
         /\ units[r] # u => Cardinality(Taken(needs, units, u)) = Cardinality(Taken(needs, rest, u))
<1> DEFINE New == {r} \X (1 .. needs[r])
<1>1. CASE units[r] = u
  <2>1. Taken(needs, units, u) = Taken(needs, rest, u) \cup New
    BY <1>1 DEF Taken, Extends
  <2>2. Taken(needs, rest, u) \cap New = {}
    BY DEF Taken, Extends
  <2>3. IsFiniteSet(New) /\ Cardinality(New) = needs[r]
    BY SlotsOfRequirement
  <2>4. Cardinality(Taken(needs, rest, u)) \in Nat
    BY FS_CardinalityType
  <2> HIDE DEF New
  <2>7. needs[r] \in Nat
    OBVIOUS
  <2>5. /\ IsFiniteSet(Taken(needs, rest, u) \cup New)
        /\ Cardinality(Taken(needs, rest, u) \cup New)
           = Cardinality(Taken(needs, rest, u)) + Cardinality(New)
             - Cardinality(Taken(needs, rest, u) \cap New)
    BY <2>3, FS_Union
  <2>6. Cardinality({}) = 0
    BY FS_EmptySet
  <2>8. Cardinality(Taken(needs, units, u)) = Cardinality(Taken(needs, rest, u)) + needs[r]
    <3>1. Cardinality(Taken(needs, rest, u) \cap New) = 0
      BY <2>2, <2>6
    <3> QED BY ONLY <3>1, <2>1, <2>3, <2>4, <2>5, <2>7
  <2> QED BY <1>1, <2>1, <2>5, <2>8
<1>2. CASE units[r] # u
  <2>1. {j \in DOMAIN units : units[j] = u} = {j \in DOMAIN rest : rest[j] = u}
    BY <1>2 DEF Extends
  <2>2. Taken(needs, units, u) = Taken(needs, rest, u)
    BY <2>1 DEF Taken
  <2>3. Cardinality(Taken(needs, rest, u)) \in Nat
    BY FS_CardinalityType
  <2> QED BY <1>2, <2>2, <2>3
<1> QED BY <1>1, <1>2

\* What a choice of units for requirements of a test takes is finite.
LEMMA TakenFinite ==
  ASSUME NEW needs \in Seq(Nat), NEW I \in SUBSET DOMAIN needs, NEW units, DOMAIN units = I, NEW u
  PROVE  IsFiniteSet(Taken(needs, units, u))
<1> DEFINE n == Len(needs)
           S == {k \in Nat : k <= n =>
                   \A f : DOMAIN f = I \cap (1 .. k) => IsFiniteSet(Taken(needs, f, u))}
<1>1. DOMAIN needs = 1 .. n /\ n \in Nat
  OBVIOUS
<1>2. 0 \in S
  <2>1. ASSUME NEW f, DOMAIN f = I \cap (1 .. 0) PROVE Taken(needs, f, u) = {}
    BY <2>1 DEF Taken
  <2> QED BY <2>1, FS_EmptySet
<1>3. ASSUME NEW k \in Nat, k \in S PROVE k + 1 \in S
  <2> SUFFICES ASSUME k + 1 <= n, NEW f, DOMAIN f = I \cap (1 .. k + 1)
               PROVE  IsFiniteSet(Taken(needs, f, u))
    <3>1. k + 1 \in Nat
      OBVIOUS
    <3> QED BY <3>1
  <2> DEFINE g == [i \in I \cap (1 .. k) |-> f[i]]
  <2>1. IsFiniteSet(Taken(needs, g, u))
    <3>1. DOMAIN g = I \cap (1 .. k) /\ k <= n
      OBVIOUS
    <3> QED BY <1>3, <3>1
  <2>2. CASE k + 1 \in I
    <3>1. DOMAIN f = DOMAIN g \cup {k + 1} /\ k + 1 \notin DOMAIN g /\ needs[k + 1] \in Nat
      BY <1>1, <2>2
    <3>2. Extends(f, g, k + 1)
      BY <3>1 DEF Extends
    <3> HIDE DEF g, S
    <3> QED BY ONLY <2>1, <3>1, <3>2, TakenAdd
  <2>3. CASE k + 1 \notin I
    <3>1. DOMAIN f = DOMAIN g
      BY <2>3
    <3>2. {j \in DOMAIN f : f[j] = u} = {j \in DOMAIN g : g[j] = u}
      BY <3>1
    <3>3. Taken(needs, f, u) = Taken(needs, g, u)
      BY <3>2 DEF Taken
    <3> QED BY <2>1, <3>3
  <2> QED BY <2>2, <2>3
<1>4. \A k \in Nat : k \in S
  <2> HIDE DEF S
  <2> QED BY <1>2, <1>3, SetInduction
<1>5. DOMAIN units = I \cap (1 .. n)
  BY <1>1
<1> QED BY <1>1, <1>4, <1>5

\* The unit that stands for u when a and b change places.
Swap(a, b, u) == IF u = a THEN b ELSE IF u = b THEN a ELSE u

\* swapped is units with a and b in each other's place.
Swapped(swapped, units, a, b) ==
  DOMAIN swapped = DOMAIN units /\ \A i \in DOMAIN units : swapped[i] = Swap(a, b, units[i])

\* Two units change places: each takes what the other took.
LEMMA TakenSwap ==
  ASSUME NEW needs, NEW units, NEW a, NEW b, NEW swapped, Swapped(swapped, units, a, b), NEW u
  PROVE  Taken(needs, swapped, u) = Taken(needs, units, Swap(a, b, u))
<1>1. \A i \in DOMAIN units : swapped[i] = u <=> units[i] = Swap(a, b, u)
  BY DEF Swapped, Swap
<1>2. {j \in DOMAIN swapped : swapped[j] = u} = {j \in DOMAIN units : units[j] = Swap(a, b, u)}
  BY <1>1 DEF Swapped
<1> QED BY <1>2 DEF Taken

\* less is free without the slots that unit u gives to one requirement.
Lessened(less, free, u, need) ==
  /\ less[u] = free[u] - need
  /\ \A v \in Unit : v # u => less[v] = free[v]

\* Units for one requirement more fit if its unit has the slots for it, and the
\* others fit into what is left.
LEMMA FitsAdd ==
  ASSUME NEW needs \in Seq(Nat), NEW r \in DOMAIN needs, NEW free \in [Unit -> Nat],
         NEW rest, NEW units, DOMAIN rest \subseteq DOMAIN needs, Extends(units, rest, r),
         NEW u \in Unit, units[r] = u, NEW less, Lessened(less, free, u, needs[r])
  PROVE  /\ Fits(free, needs, units) => free[u] >= needs[r]
         /\ Fits(free, needs, units) <=> Fits(less, needs, rest)
<1>1. needs[r] \in Nat
  OBVIOUS
<1>2. ASSUME NEW v \in Unit
      PROVE  /\ v = u => Cardinality(Taken(needs, units, v)) = Cardinality(Taken(needs, rest, v)) + needs[r]
             /\ v # u => Cardinality(Taken(needs, units, v)) = Cardinality(Taken(needs, rest, v))
             /\ Cardinality(Taken(needs, rest, v)) \in Nat
             /\ free[v] \in Nat
             /\ less[v] = IF v = u THEN free[u] - needs[r] ELSE free[v]
  <2>1. IsFiniteSet(Taken(needs, rest, v))
    BY ONLY DOMAIN rest \in SUBSET DOMAIN needs, needs \in Seq(Nat), TakenFinite
  <2>2. Cardinality(Taken(needs, rest, v)) \in Nat
    BY <2>1, FS_CardinalityType
  <2>3. Extends(units, rest, r) /\ units[r] = u
    OBVIOUS
  <2>4. /\ u = v => Cardinality(Taken(needs, units, v)) = Cardinality(Taken(needs, rest, v)) + needs[r]
        /\ u # v => Cardinality(Taken(needs, units, v)) = Cardinality(Taken(needs, rest, v))
    BY ONLY <1>1, <2>1, <2>3, TakenAdd
  <2> QED BY <2>2, <2>4 DEF Lessened
<1>3. ASSUME NEW v \in Unit
      PROVE  Cardinality(Taken(needs, units, v)) <= free[v] <=> Cardinality(Taken(needs, rest, v)) <= less[v]
  BY ONLY <1>1, <1>2, v \in Unit, SMTT(30)
<1>4. Cardinality(Taken(needs, units, u)) <= free[u] => free[u] >= needs[r]
  <2>1. /\ Cardinality(Taken(needs, units, u)) = Cardinality(Taken(needs, rest, u)) + needs[r]
        /\ Cardinality(Taken(needs, rest, u)) \in Nat /\ free[u] \in Nat
    BY ONLY <1>2, u \in Unit
  <2> QED BY ONLY <1>1, <2>1
<1> QED BY ONLY <1>3, <1>4, u \in Unit DEF Fits

-----------------------------------------------------------------------------
(* The sorted lists of the search.                                          *)

\* Every unit is in the list.
Covers(sorted) == \A u \in Unit : \E j \in DOMAIN sorted : sorted[j] = u

\* InitialSort lists all units.
LEMMA InitialSortLists ==
  ASSUME NEW free \in [Unit -> Int]
  PROVE  InitialSort(free) \in Seq(Unit) /\ Covers(InitialSort(free))
<1> DEFINE R == {p \in Unit \X Unit : free[p[1]] > free[p[2]] \/ (free[p[1]] = free[p[2]] /\ p[1] < p[2])}
<1>1. \A u, v \in Unit : <<u, v>> \in R <=> free[u] > free[v] \/ (free[u] = free[v] /\ u < v)
  OBVIOUS
<1>2. Unit \subseteq Nat /\ IsFiniteSet(Unit) /\ \A u \in Unit : free[u] \in Int
  BY UnitAssumption
<1> HIDE DEF R
<1>3. \A u \in Unit : <<u, u>> \notin R
  BY <1>1, <1>2
<1>4. \A u, v \in Unit : u = v \/ <<u, v>> \in R \/ <<v, u>> \in R
  <2> SUFFICES ASSUME NEW u \in Unit, NEW v \in Unit PROVE u = v \/ <<u, v>> \in R \/ <<v, u>> \in R
    OBVIOUS
  <2>1. u \in Int /\ v \in Int /\ free[u] \in Int /\ free[v] \in Int
    BY <1>2
  <2> QED BY <1>1, <2>1
<1>5. \A u, v, w \in Unit : <<u, v>> \in R /\ <<v, w>> \in R => <<u, w>> \in R
  <2> SUFFICES ASSUME NEW u \in Unit, NEW v \in Unit, NEW w \in Unit, <<u, v>> \in R, <<v, w>> \in R
               PROVE  <<u, w>> \in R
    OBVIOUS
  <2>1. /\ u \in Int /\ v \in Int /\ w \in Int
        /\ free[u] \in Int /\ free[v] \in Int /\ free[w] \in Int
    BY <1>2
  <2> QED BY <1>1, <2>1
<1>6. \A u \in Unit : {v \in Unit : free[v] > free[u] \/ (free[v] = free[u] /\ v < u)}
                      = {v \in Unit : <<v, u>> \in R}
  BY <1>1
<1>7. InitialSort(free) = Ranked(Unit, Rank(Unit, R))
  <2>1. InitialSort(free)
        = Ranked(Unit, [u \in Unit |->
            Cardinality({v \in Unit : free[v] > free[u] \/ (free[v] = free[u] /\ v < u)})])
    BY DEF InitialSort, Sorted
  <2>2. [u \in Unit |-> Cardinality({v \in Unit : free[v] > free[u] \/ (free[v] = free[u] /\ v < u)})]
        = Rank(Unit, R)
    BY <1>6 DEF Rank
  <2> QED BY <2>1, <2>2
<1>8. Lists(InitialSort(free), Unit)
  BY <1>2, <1>3, <1>4, <1>5, <1>7, SortedSequence
<1> QED BY <1>8 DEF Lists, Covers

\* The search takes the requirements one by one, each of them once.
LEMMA NeedsSortedLists ==
  ASSUME NEW needs \in Seq(Nat)
  PROVE  LET order == NeedsSorted(needs) n == Len(needs)
         IN  /\ DOMAIN order = 1 .. n
             /\ \A j \in 1 .. n : order[j] \in 1 .. n
             /\ \A j \in 1 .. n : \E i \in 1 .. n : order[i] = j
             /\ \A i, j \in 1 .. n : order[i] = order[j] => i = j
<1> DEFINE D == DOMAIN needs
           R == {p \in D \X D : needs[p[1]] > needs[p[2]] \/ (needs[p[1]] = needs[p[2]] /\ p[1] < p[2])}
           n == Len(needs)
<1>1. \A u, v \in D : <<u, v>> \in R <=> needs[u] > needs[v] \/ (needs[u] = needs[v] /\ u < v)
  OBVIOUS
<1>2. D = 1 .. n /\ n \in Nat /\ \A u \in D : u \in Int /\ needs[u] \in Int
  OBVIOUS
<1> HIDE DEF R
<1>3. \A u \in D : <<u, u>> \notin R
  BY <1>1, <1>2
<1>4. \A u, v \in D : u = v \/ <<u, v>> \in R \/ <<v, u>> \in R
  <2> SUFFICES ASSUME NEW u \in D, NEW v \in D PROVE u = v \/ <<u, v>> \in R \/ <<v, u>> \in R
    OBVIOUS
  <2>1. u \in Int /\ v \in Int /\ needs[u] \in Int /\ needs[v] \in Int
    BY <1>2
  <2> QED BY <1>1, <2>1
<1>5. \A u, v, w \in D : <<u, v>> \in R /\ <<v, w>> \in R => <<u, w>> \in R
  <2> SUFFICES ASSUME NEW u \in D, NEW v \in D, NEW w \in D, <<u, v>> \in R, <<v, w>> \in R
               PROVE  <<u, w>> \in R
    OBVIOUS
  <2>1. /\ u \in Int /\ v \in Int /\ w \in Int
        /\ needs[u] \in Int /\ needs[v] \in Int /\ needs[w] \in Int
    BY <1>2
  <2>2. needs[u] > needs[v] \/ (needs[u] = needs[v] /\ u < v)
    BY <1>1
  <2>3. needs[v] > needs[w] \/ (needs[v] = needs[w] /\ v < w)
    BY <1>1
  <2>4. needs[u] > needs[w] \/ (needs[u] = needs[w] /\ u < w)
    BY ONLY <2>1, <2>2, <2>3
  <2> QED BY <1>1, <2>4
<1>6. \A u \in D : {v \in D : needs[v] > needs[u] \/ (needs[v] = needs[u] /\ v < u)}
                   = {v \in D : <<v, u>> \in R}
  BY <1>1
<1>7. NeedsSorted(needs) = Ranked(D, Rank(D, R))
  <2>1. NeedsSorted(needs)
        = Ranked(D, [u \in D |->
            Cardinality({v \in D : needs[v] > needs[u] \/ (needs[v] = needs[u] /\ v < u)})])
    BY DEF NeedsSorted, Sorted
  <2>2. [u \in D |-> Cardinality({v \in D : needs[v] > needs[u] \/ (needs[v] = needs[u] /\ v < u)})]
        = Rank(D, R)
    BY <1>6 DEF Rank
  <2> QED BY <2>1, <2>2
<1>8. IsFiniteSet(D) /\ Cardinality(D) = n
  <2>1. IsFiniteSet(1 .. n) /\ Cardinality(1 .. n) = n
    <3>1. n \in Nat
      OBVIOUS
    <3> HIDE DEF n
    <3> QED BY ONLY <3>1, FS_Interval
  <2> QED BY <1>2, <2>1
<1> HIDE DEF D
<1>9. Lists(NeedsSorted(needs), D)
  BY <1>3, <1>4, <1>5, <1>7, <1>8, SortedSequence
<1> QED BY <1>2, <1>8, <1>9 DEF Lists

\* IncrementalSort of either strategy only moves units.
LEMMA IncrementalSortCovers ==
  ASSUME NEW free \in [Unit -> Int], NEW sorted \in Seq(Unit), NEW i \in DOMAIN sorted
  PROVE  /\ IncrementalSort(free, sorted, i) \in Seq(Unit)
         /\ Covers(sorted) => Covers(IncrementalSort(free, sorted, i))
<1> DEFINE n == Len(sorted)
<1>1. n \in Nat /\ DOMAIN sorted = 1 .. n /\ i \in 1 .. n /\ \A j \in 1 .. n : sorted[j] \in Unit
  OBVIOUS
<1>2. ASSUME NEW s, DOMAIN s = 1 .. n, \A j \in 1 .. n : s[j] \in Unit, s = [j \in 1 .. n |-> s[j]],
             \A m \in 1 .. n : \E j \in 1 .. n : s[j] = sorted[m]
      PROVE  s \in Seq(Unit) /\ (Covers(sorted) => Covers(s))
  <2>1. s \in Seq(Unit)
    BY <1>1, <1>2
  <2> QED BY <1>1, <1>2, <2>1 DEF Covers
<1>3. CASE strategy = "Block"
  <2> DEFINE s == BlockSort(sorted, i)
  <2>1. s = [j \in 1 .. n |-> CASE j = 1 -> sorted[i] [] j \in 2 .. i -> sorted[j - 1] [] OTHER -> sorted[j]]
    BY <1>1 DEF BlockSort
  <2>2. ASSUME NEW j \in 1 .. n
        PROVE  s[j] = IF j = 1 THEN sorted[i] ELSE IF j \in 2 .. i THEN sorted[j - 1] ELSE sorted[j]
    BY <1>1, <2>1
  <2>3. ASSUME NEW m \in 1 .. n PROVE \E j \in 1 .. n : s[j] = sorted[m]
    <3>1. CASE m = i
      BY <1>1, <2>2, <3>1
    <3>2. CASE m < i
      <4>1. m + 1 \in 1 .. n /\ m + 1 # 1 /\ m + 1 \in 2 .. i /\ (m + 1) - 1 = m
        BY <1>1, <3>2
      <4> HIDE DEF s
      <4>2. s[m + 1] = sorted[m]
        BY <2>2, <4>1
      <4> QED BY <4>1, <4>2
    <3>3. CASE m > i
      <4>1. m # 1 /\ ~(m \in 2 .. i)
        BY <1>1, <3>3
      <4> QED BY <2>2, <4>1
    <3> QED BY <1>1, <3>1, <3>2, <3>3
  <2>4. \A j \in 1 .. n : s[j] \in Unit
    <3> SUFFICES ASSUME NEW j \in 1 .. n PROVE s[j] \in Unit
      OBVIOUS
    <3>1. j \in 2 .. i => j - 1 \in 1 .. n
      BY <1>1
    <3> HIDE DEF s
    <3> QED BY <1>1, <2>2, <3>1
  <2>5. DOMAIN s = 1 .. n /\ s = [j \in 1 .. n |-> s[j]]
    BY <2>1
  <2>6. IncrementalSort(free, sorted, i) = s
    BY <1>3 DEF IncrementalSort
  <2> HIDE DEF s
  <2> QED BY <1>2, <2>3, <2>4, <2>5, <2>6
<1>4. CASE strategy # "Block"
  <2> DEFINE s == RoundRobinSort(free, sorted, i)
             More(j) == free[sorted[j]] > free[sorted[i]]
             Last(k) == /\ k \in i .. n
                        /\ \A j \in i + 1 .. k : More(j)
                        /\ k < n => free[sorted[k + 1]] <= free[sorted[i]]
             last == CHOOSE k : Last(k)
  <2>1. \E k : Last(k)
    <3> DEFINE T == {k \in i .. n : \A j \in i + 1 .. k : More(j)}
    <3>1. T \in SUBSET Nat /\ T # {} /\ \A k \in T : k <= n
      <4>1. i \in T
        BY <1>1
      <4> QED BY <1>1, <4>1
    <3>2. PICK k \in T : \A l \in T : l <= k
      <4>1. n \in Int
        BY <1>1
      <4> HIDE DEF T, n
      <4> QED BY <3>1, <4>1, GreatestNatural
    <3>3. ASSUME k < n PROVE ~More(k + 1)
      <4>1. k + 1 \in i .. n /\ k + 1 \notin T
        BY <1>1, <3>2, <3>3
      <4>2. \A j \in i + 1 .. k + 1 : j = k + 1 \/ j \in i + 1 .. k
        BY <1>1, <3>2
      <4> QED BY <3>2, <4>1, <4>2
    <3>4. ASSUME k < n PROVE free[sorted[k + 1]] <= free[sorted[i]]
      <4>1. k + 1 \in 1 .. n
        BY <1>1, <3>2, <3>4
      <4>2. free[sorted[k + 1]] \in Int /\ free[sorted[i]] \in Int
        BY <1>1, <4>1
      <4> QED BY <3>3, <3>4, <4>2
    <3>5. Last(k)
      BY <3>2, <3>4
    <3> QED BY <3>5
  <2>2. last \in i .. n
    <3>1. Last(last)
      <4> HIDE DEF Last
      <4> QED BY <2>1
    <3> QED BY <3>1
  <2>3. s = [j \in 1 .. n |-> CASE j \in i .. last - 1 -> sorted[j + 1]
                                [] j = last -> sorted[i]
                                [] OTHER -> sorted[j]]
    <3>1. last = CHOOSE k \in i .. Len(sorted) :
                /\ \A j \in i + 1 .. k : free[sorted[j]] > free[sorted[i]]
                /\ k < Len(sorted) => free[sorted[k + 1]] <= free[sorted[i]]
      OBVIOUS
    <3> HIDE DEF last
    <3> QED BY <1>1, <3>1 DEF RoundRobinSort
  <2> HIDE DEF last
  <2>4. ASSUME NEW j \in 1 .. n
        PROVE  s[j] = IF j \in i .. last - 1 THEN sorted[j + 1] ELSE IF j = last THEN sorted[i] ELSE sorted[j]
    BY <1>1, <2>2, <2>3
  <2> HIDE DEF s
  <2>5. ASSUME NEW m \in 1 .. n PROVE \E j \in 1 .. n : s[j] = sorted[m]
    <3>1. CASE m = i
      <4>1. last \in 1 .. n /\ ~(last \in i .. last - 1)
        BY <1>1, <2>2
      <4> QED BY <2>4, <3>1, <4>1
    <3>2. CASE m \in i + 1 .. last
      <4>1. m - 1 \in 1 .. n /\ m - 1 \in i .. last - 1 /\ (m - 1) + 1 = m
        BY <1>1, <2>2, <3>2
      <4>2. s[m - 1] = sorted[m]
        BY <2>4, <4>1
      <4> QED BY <4>1, <4>2
    <3>3. CASE m # i /\ ~(m \in i + 1 .. last)
      <4>1. ~(m \in i .. last - 1) /\ m # last
        BY <1>1, <2>2, <3>3
      <4> QED BY <2>4, <4>1
    <3> QED BY <3>1, <3>2, <3>3
  <2>6. \A j \in 1 .. n : s[j] \in Unit
    <3> SUFFICES ASSUME NEW j \in 1 .. n PROVE s[j] \in Unit
      OBVIOUS
    <3>1. j \in i .. last - 1 => j + 1 \in 1 .. n
      BY <1>1, <2>2
    <3> QED BY <1>1, <2>4, <3>1
  <2>7. DOMAIN s = 1 .. n /\ s = [j \in 1 .. n |-> s[j]]
    BY <2>3
  <2>8. IncrementalSort(free, sorted, i) = s
    BY <1>4 DEF IncrementalSort, s
  <2> QED BY <1>2, <2>5, <2>6, <2>7, <2>8
<1> QED BY <1>3, <1>4

-----------------------------------------------------------------------------
(* The search.                                                              *)

\* f is the search for the requirements I: what it returns fits, and it returns
\* something when there is something that fits.
Solves(f, needs, I) ==
  \A free \in [Unit -> Nat], sorted \in Seq(Unit) :
    /\ \A units \in f[free][sorted] : units \in [I -> Unit] /\ Fits(free, needs, units)
    /\ Covers(sorted) /\ (\E units \in [I -> Unit] : Fits(free, needs, units)) => f[free][sorted] # {}

\* One level of the search: skipping units with as many free slots as the unit
\* before loses nothing, since the two may change places in any solution.
LEMMA PlaceSolves ==
  ASSUME NEW needs \in Seq(Nat), NEW I \in SUBSET DOMAIN needs, NEW r \in DOMAIN needs, r \notin I,
         NEW more, Solves(more, needs, I)
  PROVE  Solves(Place(r, needs[r], more), needs, I \cup {r})
<1> DEFINE need == needs[r]
<1>1. need \in Nat
  OBVIOUS
<1> DEFINE Found(free, sorted) == Place(r, need, more)[free][sorted]
<1> SUFFICES ASSUME NEW free \in [Unit -> Nat], NEW sorted \in Seq(Unit)
             PROVE  /\ \A units \in Found(free, sorted) :
                         units \in [I \cup {r} -> Unit] /\ Fits(free, needs, units)
                    /\ Covers(sorted) /\ (\E units \in [I \cup {r} -> Unit] : Fits(free, needs, units))
                         => Found(free, sorted) # {}
  BY DEF Solves
<1> DEFINE Less(i) == [free EXCEPT ![sorted[i]] = @ - need]
           Resorted(i) == IncrementalSort(Less(i), sorted, i)
           Rest(i) == more[Less(i)][Resorted(i)]
           good == {i \in DOMAIN sorted : UnitTried(free, sorted, need, i) /\ Rest(i) # {}}
           first == {i \in good : \A j \in good : i <= j}
           found == Found(free, sorted)
<1>2. free \in [Unit -> Int]
  OBVIOUS
<1>3. \A units : units \in found <=> \E i \in first : \E rest \in Rest(i) : units = Put(rest, r, sorted[i])
  <2>1. found = UNION {{Put(rest, r, sorted[i]) : rest \in Rest(i)} : i \in first}
    BY <1>2 DEF Place
  <2> HIDE DEF found, Rest, first
  <2> QED BY <2>1
<1>4. ASSUME NEW i \in DOMAIN sorted, free[sorted[i]] >= need
      PROVE  /\ sorted[i] \in Unit
             /\ Less(i) \in [Unit -> Nat]
             /\ Resorted(i) \in Seq(Unit)
             /\ Covers(sorted) => Covers(Resorted(i))
  <2>1. sorted[i] \in Unit
    OBVIOUS
  <2>2. free[sorted[i]] - need \in Nat
    BY <1>1, <1>4, <2>1
  <2>3. Less(i) \in [Unit -> Nat]
    BY <2>1, <2>2
  <2>4. Less(i) \in [Unit -> Int]
    BY <2>3
  <2> HIDE DEF Less
  <2> QED BY <2>1, <2>3, <2>4, IncrementalSortCovers
<1> HIDE DEF Less, Resorted
<1>5. ASSUME NEW units \in found
      PROVE  units \in [I \cup {r} -> Unit] /\ Fits(free, needs, units)
  <2>1. PICK i \in first : \E rest \in Rest(i) : units = Put(rest, r, sorted[i])
    BY <1>3
  <2>2. PICK rest \in Rest(i) : units = Put(rest, r, sorted[i])
    BY <2>1
  <2>3. i \in DOMAIN sorted /\ free[sorted[i]] >= need
    BY DEF UnitTried
  <2>4. /\ sorted[i] \in Unit
        /\ Less(i) \in [Unit -> Nat]
        /\ Resorted(i) \in Seq(Unit)
    BY <1>4, <2>3
  <2>5. rest \in [I -> Unit] /\ Fits(Less(i), needs, rest)
    BY <2>4 DEF Solves
  <2>6. /\ units \in [I \cup {r} -> Unit] /\ units[r] = sorted[i]
        /\ \A k \in I : units[k] = rest[k]
    <3>1. units = [x \in I \cup {r} |-> IF x = r THEN sorted[i] ELSE rest[x]]
      BY <2>2, <2>5 DEF Put
    <3> QED BY ONLY <3>1, <2>4, <2>5, r \notin I
  <2>7. Lessened(Less(i), free, sorted[i], needs[r])
    BY <2>4 DEF Less, Lessened
  <2>8. Extends(units, rest, r) /\ DOMAIN rest \subseteq DOMAIN needs
    BY <2>5, <2>6 DEF Extends
  <2> QED BY ONLY <2>4, <2>5, <2>6, <2>7, <2>8, FitsAdd, needs \in Seq(Nat), r \in DOMAIN needs,
                  free \in [Unit -> Nat]
<1>6. ASSUME Covers(sorted), NEW units \in [I \cup {r} -> Unit], Fits(free, needs, units)
      PROVE  found # {}
  <2>1. PICK j \in DOMAIN sorted : sorted[j] = units[r]
    <3>1. units[r] \in Unit
      OBVIOUS
    <3> QED BY <1>6, <3>1 DEF Covers
  <2> DEFINE u == units[r]
             T == {k \in 1 .. j : \A m \in k .. j : free[sorted[m]] = free[u]}
  <2>2. DOMAIN sorted = 1 .. Len(sorted) /\ Len(sorted) \in Nat /\ j \in 1 .. Len(sorted) /\ u \in Unit
    BY <2>1
  <2>3. PICK i \in T : \A k \in T : i <= k
    <3>1. j \in T
      BY <2>1, <2>2
    <3>2. T \in SUBSET Nat /\ T # {}
      BY <3>1
    <3> HIDE DEF T
    <3> QED BY <3>2, LeastNatural
  <2>4. i \in DOMAIN sorted /\ free[sorted[i]] = free[u]
    BY <2>2, <2>3
  <2> DEFINE v == sorted[i]
             units2 == [k \in I \cup {r} |-> Swap(u, v, units[k])]
             rest == [k \in I |-> units2[k]]
  <2>5. i = 1 \/ free[sorted[i]] # free[sorted[i - 1]]
    <3> SUFFICES ASSUME i # 1, free[sorted[i]] = free[sorted[i - 1]] PROVE FALSE
      OBVIOUS
    <3>1. i - 1 \in 1 .. j
      BY <2>2, <2>3
    <3>2. \A m \in i - 1 .. j : m = i - 1 \/ m \in i .. j
      BY <2>2, <2>3
    <3>3. i - 1 \in T
      BY <2>3, <2>4, <3>1, <3>2
    <3> QED BY <2>3, <3>3
  <2> HIDE DEF T
  <2>6. v \in Unit /\ free[v] = free[u]
    BY <2>2, <2>4
  <2>8. units2 \in [I \cup {r} -> Unit] /\ units2[r] = v
    BY <2>2, <2>6 DEF Swap
  <2>7. Swapped(units2, units, u, v)
    BY DEF Swapped
  <2>9. Fits(free, needs, units2)
    <3> HIDE DEF u, v, units2
    <3> SUFFICES ASSUME NEW w \in Unit PROVE Cardinality(Taken(needs, units2, w)) <= free[w]
      BY DEF Fits
    <3>1. Taken(needs, units2, w) = Taken(needs, units, Swap(u, v, w))
      BY ONLY <2>7, TakenSwap
    <3>2. Swap(u, v, w) \in Unit /\ free[Swap(u, v, w)] = free[w]
      BY <2>2, <2>6 DEF Swap
    <3> QED BY <1>6, <3>1, <3>2 DEF Fits
  <2>10. rest \in [I -> Unit] /\ \A k \in I : units2[k] = rest[k]
    BY <2>8
  <2>11. Lessened(Less(i), free, v, needs[r])
    BY <2>6 DEF Less, Lessened
  <2> HIDE DEF units2, rest, v
  <2>12. free[v] >= needs[r] /\ Fits(Less(i), needs, rest)
    <3>1. Extends(units2, rest, r) /\ DOMAIN rest \subseteq DOMAIN needs
      BY <2>8, <2>10 DEF Extends
    <3> QED BY ONLY <2>6, <2>8, <2>9, <2>10, <2>11, <3>1, FitsAdd, needs \in Seq(Nat), r \in DOMAIN needs,
                    free \in [Unit -> Nat]
  <2>13. free[sorted[i]] >= need
    BY <2>12 DEF v
  <2>14. Rest(i) # {}
    BY <1>4, <1>6, <2>4, <2>10, <2>12, <2>13 DEF Solves
  <2>15. i \in good
    BY <2>4, <2>5, <2>13, <2>14 DEF UnitTried
  <2>16. PICK l \in good : \A k \in good : l <= k
    <3>1. good \in SUBSET Nat /\ good # {}
      BY <2>2, <2>15
    <3> HIDE DEF good
    <3> QED BY <3>1, LeastNatural
  <2>17. l \in first /\ Rest(l) # {}
    BY <2>16
  <2> HIDE DEF first, Rest, found
  <2> QED BY <1>3, <2>17
<1> HIDE DEF Found
<1> QED BY <1>5, <1>6

\* The values that the levels of the search have.
Choices(needs) == UNION {[I -> Unit] : I \in SUBSET DOMAIN needs}
Searches(needs) == [[Unit -> Int] -> [Seq(Unit) -> SUBSET Choices(needs)]]

LEMMA PlaceType ==
  ASSUME NEW needs \in Seq(Nat), NEW r \in DOMAIN needs, NEW more \in Searches(needs)
  PROVE  Place(r, needs[r], more) \in Searches(needs)
<1> DEFINE Less(free, sorted, i) == [free EXCEPT ![sorted[i]] = @ - needs[r]]
           Rest(free, sorted, i) == more[Less(free, sorted, i)][IncrementalSort(Less(free, sorted, i), sorted, i)]
           good(free, sorted) == {i \in DOMAIN sorted :
                                    UnitTried(free, sorted, needs[r], i) /\ Rest(free, sorted, i) # {}}
           first(free, sorted) == {i \in good(free, sorted) : \A j \in good(free, sorted) : i <= j}
           found(free, sorted) == UNION {{Put(rest, r, sorted[i]) : rest \in Rest(free, sorted, i)} :
                                           i \in first(free, sorted)}
<1>1. Place(r, needs[r], more) = [free \in [Unit -> Int] |-> [sorted \in Seq(Unit) |-> found(free, sorted)]]
  BY DEF Place
<1>2. ASSUME NEW free \in [Unit -> Int], NEW sorted \in Seq(Unit) PROVE found(free, sorted) \in SUBSET Choices(needs)
  <2> SUFFICES ASSUME NEW x \in found(free, sorted) PROVE x \in Choices(needs)
    OBVIOUS
  <2>8. PICK i \in first(free, sorted) : \E rest \in Rest(free, sorted, i) : x = Put(rest, r, sorted[i])
    <3> HIDE DEF first, Rest
    <3> QED OBVIOUS
  <2>9. PICK rest \in Rest(free, sorted, i) : x = Put(rest, r, sorted[i])
    BY <2>8
  <2>10. i \in DOMAIN sorted
    OBVIOUS
  <2> HIDE DEF found, first
  <2>1. sorted[i] \in Unit /\ needs[r] \in Int
    BY <2>10
  <2>2. Less(free, sorted, i) \in [Unit -> Int]
    BY <2>1
  <2>3. IncrementalSort(Less(free, sorted, i), sorted, i) \in Seq(Unit)
    <3> HIDE DEF Less
    <3> QED BY <2>2, <2>10, IncrementalSortCovers
  <2>4. rest \in Choices(needs)
    <3> HIDE DEF Less
    <3> QED BY <2>2, <2>3 DEF Searches
  <2>5. PICK I \in SUBSET DOMAIN needs : rest \in [I -> Unit]
    BY <2>4 DEF Choices
  <2>6. Put(rest, r, sorted[i]) \in [I \cup {r} -> Unit]
    BY ONLY <2>1, <2>5 DEF Put
  <2>7. I \cup {r} \in SUBSET DOMAIN needs
    OBVIOUS
  <2>11. Put(rest, r, sorted[i]) \in Choices(needs)
    BY ONLY <2>6, <2>7 DEF Choices
  <2> QED BY <2>9, <2>11
<1> HIDE DEF found
<1>3. ASSUME NEW free \in [Unit -> Int]
      PROVE  [sorted \in Seq(Unit) |-> found(free, sorted)] \in [Seq(Unit) -> SUBSET Choices(needs)]
  BY <1>2
<1> QED BY <1>1, <1>3 DEF Searches

\* The search as a recursion on the number of requirements left.
LEMMA SearchRecursion ==
  ASSUME NEW needs \in Seq(Nat)
  PROVE  LET search == AllocateCTestResources(needs)
             n == Len(needs)
         IN  /\ search[0] = [free \in [Unit -> Int] |-> [sorted \in Seq(Unit) |-> {<<>>}]]
             /\ \A k \in 1 .. n :
                  LET r == NeedsSorted(needs)[n - k + 1] IN search[k] = Place(r, needs[r], search[k - 1])
<1> DEFINE n == Len(needs)
           order == NeedsSorted(needs)
           req(k) == order[n - k + 1]
           base == [free \in [Unit -> Int] |-> [sorted \in Seq(Unit) |-> {<<>>}]]
           step == [p \in (1 .. n) \X Searches(needs) |-> Place(req(p[1]), needs[req(p[1])], p[2])]
           Is(f) == f = [k \in 0 .. n |-> IF k = 0 THEN base ELSE Place(req(k), needs[req(k)], f[k - 1])]
<1>1. n \in Nat /\ DOMAIN needs = 1 .. n
  OBVIOUS
<1>2. ASSUME NEW k \in 1 .. n PROVE req(k) \in DOMAIN needs
  <2>1. n - k + 1 \in 1 .. n
    BY <1>1
  <2> QED BY <1>1, <2>1, NeedsSortedLists
<1>3. base \in Searches(needs)
  <2>1. <<>> \in Choices(needs)
    <3>1. <<>> \in [{} -> Unit] /\ {} \in SUBSET DOMAIN needs
      OBVIOUS
    <3> QED BY ONLY <3>1 DEF Choices
  <2> QED BY ONLY <2>1 DEF Searches
<1> HIDE DEF req
<1>4. step \in [(1 .. n) \X Searches(needs) -> Searches(needs)]
  BY <1>2, PlaceType
<1>5. ASSUME NEW k \in 1 .. n, NEW s \in Searches(needs) PROVE step[<<k, s>>] = Place(req(k), needs[req(k)], s)
  OBVIOUS
<1> HIDE DEF base, step, n
<1>6. PICK f \in [0 .. n -> Searches(needs)] : FollowsUpto(f, n, base, step)
  BY <1>1, <1>3, <1>4, BoundedRecursion
<1>7. ASSUME NEW k \in 1 .. n PROVE f[k] = Place(req(k), needs[req(k)], f[k - 1])
  <2>1. k - 1 \in 0 .. n
    BY <1>1
  <2> QED BY <1>5, <1>6, <2>1 DEF FollowsUpto
<1>8. Is(f)
  <2>1. f = [k \in 0 .. n |-> f[k]]
    OBVIOUS
  <2>2. \A k \in 0 .. n : f[k] = IF k = 0 THEN base ELSE Place(req(k), needs[req(k)], f[k - 1])
    BY <1>1, <1>6, <1>7 DEF FollowsUpto
  <2> QED BY <2>1, <2>2
<1> DEFINE search == CHOOSE g : Is(g)
<1>9. AllocateCTestResources(needs) = search
  BY DEF AllocateCTestResources, n, base, req
<1>10. Is(search)
  <2> HIDE DEF Is
  <2> QED BY <1>8
<1> HIDE DEF search
<1>11. search[0] = base
  BY <1>1, <1>10
<1>12. \A k \in 1 .. n : search[k] = Place(req(k), needs[req(k)], search[k - 1])
  BY <1>1, <1>10
<1> HIDE DEF Is
<1> QED BY <1>9, <1>11, <1>12 DEF base, req, n

\* The search for the last k requirements, by induction on k.
LEMMA SearchSolves ==
  ASSUME NEW needs \in Seq(Nat)
  PROVE  Solves(AllocateCTestResources(needs)[Len(needs)], needs, DOMAIN needs)
<1> DEFINE n == Len(needs)
           order == NeedsSorted(needs)
           search == AllocateCTestResources(needs)
           Todo(k) == {order[j] : j \in n - k + 1 .. n}
           S == {k \in Nat : k <= n => Solves(search[k], needs, Todo(k))}
<1>1. n \in Nat /\ DOMAIN needs = 1 .. n
  OBVIOUS
<1>2. /\ \A j \in 1 .. n : order[j] \in 1 .. n
      /\ \A j \in 1 .. n : \E i \in 1 .. n : order[i] = j
      /\ \A i, j \in 1 .. n : order[i] = order[j] => i = j
  BY NeedsSortedLists
<1>3. /\ search[0] = [free \in [Unit -> Int] |-> [sorted \in Seq(Unit) |-> {<<>>}]]
      /\ \A k \in 1 .. n : search[k] = Place(order[n - k + 1], needs[order[n - k + 1]], search[k - 1])
  BY SearchRecursion
<1> HIDE DEF order, search, n
<1>4. 0 \in S
  <2>1. Todo(0) = {}
    BY <1>1
  <2> SUFFICES Solves(search[0], needs, {})
    BY <2>1
  <2> SUFFICES ASSUME NEW free \in [Unit -> Nat], NEW sorted \in Seq(Unit)
               PROVE  /\ search[0][free][sorted] = {<<>>}
                      /\ <<>> \in [{} -> Unit]
                      /\ Fits(free, needs, <<>>)
    BY DEF Solves
  <2>2. free \in [Unit -> Int]
    OBVIOUS
  <2>3. ASSUME NEW u \in Unit PROVE Cardinality(Taken(needs, <<>>, u)) <= free[u]
    <3>1. Taken(needs, <<>>, u) = {}
      BY DEF Taken
    <3>2. Cardinality(Taken(needs, <<>>, u)) = 0
      BY <3>1, FS_EmptySet
    <3>3. free[u] \in Nat
      OBVIOUS
    <3> QED BY <3>2, <3>3
  <2> QED BY <1>3, <2>2, <2>3 DEF Fits
<1>5. ASSUME NEW k \in Nat, k \in S PROVE k + 1 \in S
  <2> SUFFICES ASSUME k + 1 <= n PROVE Solves(search[k + 1], needs, Todo(k + 1))
    <3>1. k + 1 \in Nat
      OBVIOUS
    <3> HIDE DEF Todo
    <3> QED BY <3>1
  <2> DEFINE j == n - (k + 1) + 1
             r == order[j]
  <2>1. j \in 1 .. n /\ j = n - k /\ k + 1 \in 1 .. n /\ (k + 1) - 1 = k
    BY <1>1
  <2>2. r \in DOMAIN needs /\ Todo(k) \in SUBSET DOMAIN needs
    <3>1. \A i \in n - k + 1 .. n : i \in 1 .. n
      BY <1>1
    <3>2. r \in 1 .. n
      BY <1>2, <2>1
    <3>3. \A i \in n - k + 1 .. n : order[i] \in 1 .. n
      BY <1>2, <3>1
    <3> QED BY <1>1, <3>2, <3>3
  <2>3. r \notin Todo(k)
    <3>1. \A i \in n - k + 1 .. n : i \in 1 .. n /\ i # j
      BY <1>1, <2>1
    <3> HIDE DEF j
    <3>2. \A i \in n - k + 1 .. n : order[i] # order[j]
      BY ONLY <1>2, <2>1, <3>1
    <3> QED BY ONLY <3>2 DEF r, Todo
  <2>4. Todo(k + 1) = Todo(k) \cup {r}
    <3>1. \A i : i \in n - (k + 1) + 1 .. n <=> i \in n - k + 1 .. n \/ i = j
      BY <1>1, <2>1
    <3> HIDE DEF j
    <3> QED BY <3>1
  <2>5. Solves(search[k], needs, Todo(k))
    <3>1. k <= n
      BY <1>1
    <3> HIDE DEF Todo
    <3> QED BY <1>5, <3>1
  <2>6. search[k + 1] = Place(r, needs[r], search[k])
    BY <1>3, <2>1
  <2> HIDE DEF r, Todo
  <2> QED BY <2>2, <2>3, <2>4, <2>5, <2>6, PlaceSolves
<1>6. n \in S
  <2> HIDE DEF S
  <2> QED BY <1>1, <1>4, <1>5, SetInduction
<1>7. Todo(n) = DOMAIN needs
  <2>1. n - n + 1 = 1
    BY <1>1
  <2>2. Todo(n) = {order[j] : j \in 1 .. n}
    BY <2>1
  <2>3. {order[j] : j \in 1 .. n} = 1 .. n
    BY ONLY <1>2
  <2> QED BY <1>1, <2>2, <2>3
<1>8. Solves(search[n], needs, Todo(n))
  BY <1>1, <1>6
<1> QED BY <1>7, <1>8 DEF search, n

\* What the packer returns fits, and it returns something exactly when something
\* fits: for every machine, both strategies and any list of requirements.
THEOREM PackingExact ==
  ASSUME NEW needs \in Seq(Nat), NEW free \in [Unit -> Nat]
  PROVE  /\ \A units \in Packing(free, needs) : units \in [DOMAIN needs -> Unit] /\ Fits(free, needs, units)
         /\ Packing(free, needs) # {} <=> Possible(free, needs)
<1> DEFINE sorted == InitialSort(free)
<1>1. sorted \in Seq(Unit) /\ Covers(sorted)
  <2>1. free \in [Unit -> Int]
    OBVIOUS
  <2> QED BY <2>1, InitialSortLists
<1>2. Packing(free, needs) = AllocateCTestResources(needs)[Len(needs)][free][sorted]
  BY DEF Packing
<1> HIDE DEF sorted
<1>3. /\ \A units \in Packing(free, needs) : units \in [DOMAIN needs -> Unit] /\ Fits(free, needs, units)
      /\ (\E units \in [DOMAIN needs -> Unit] : Fits(free, needs, units)) => Packing(free, needs) # {}
  BY <1>1, <1>2, SearchSolves DEF Solves
<1> QED BY <1>3 DEF Possible

-----------------------------------------------------------------------------
(* The counters of the allocator.                                           *)

Locks == [lock : [Unit -> Nat], refused : BOOLEAN]

\* One step of AllocateEach and of DeallocateEach.
AllocateOne(before, need, u) ==
  IF before.lock[u] + need <= Total[u] THEN [before EXCEPT !.lock[u] = @ + need]
                                       ELSE [before EXCEPT !.refused = TRUE]
DeallocateOne(before, need, u) ==
  IF before.lock[u] >= need THEN [before EXCEPT !.lock[u] = @ - need]
                            ELSE [before EXCEPT !.refused = TRUE]

LEMMA AllocateEachRecursion ==
  ASSUME NEW needs \in Seq(Nat), NEW units \in [DOMAIN needs -> Unit], NEW lock \in [Unit -> Nat]
  PROVE  LET after == AllocateEach(lock, needs, units)
             n == Len(needs)
         IN  /\ after[0] = [lock |-> lock, refused |-> FALSE]
             /\ \A k \in 1 .. n : after[k] = AllocateOne(after[k - 1], needs[k], units[k])
<1> DEFINE n == Len(needs)
           base == [lock |-> lock, refused |-> FALSE]
           step == [p \in (1 .. n) \X Locks |-> AllocateOne(p[2], needs[p[1]], units[p[1]])]
           Is(f) == f = [k \in 0 .. n |-> IF k = 0 THEN base ELSE AllocateOne(f[k - 1], needs[k], units[k])]
<1>1. n \in Nat /\ DOMAIN needs = 1 .. n
  OBVIOUS
<1>2. base \in Locks
  BY DEF Locks
<1>3. ASSUME NEW k \in 1 .. n, NEW s \in Locks PROVE AllocateOne(s, needs[k], units[k]) \in Locks
  <2>1. needs[k] \in Nat /\ units[k] \in Unit
    BY <1>1
  <2>2. s.lock \in [Unit -> Nat] /\ s.refused \in BOOLEAN /\ s.lock[units[k]] \in Nat
    BY <2>1 DEF Locks
  <2>3. CASE s.lock[units[k]] + needs[k] <= Total[units[k]]
    <3>1. s.lock[units[k]] + needs[k] \in Nat
      BY ONLY <2>1, <2>2, <2>3
    <3>2. [s EXCEPT !.lock[units[k]] = s.lock[units[k]] + needs[k]] \in Locks
      BY <2>2, <3>1 DEF Locks
    <3> QED BY <2>3, <3>2 DEF AllocateOne
  <2>4. CASE ~(s.lock[units[k]] + needs[k] <= Total[units[k]])
    BY <2>4 DEF Locks, AllocateOne
  <2> QED BY <2>3, <2>4
<1>4. step \in [(1 .. n) \X Locks -> Locks]
  BY <1>3
<1>5. ASSUME NEW k \in 1 .. n, NEW s \in Locks PROVE step[<<k, s>>] = AllocateOne(s, needs[k], units[k])
  OBVIOUS
<1> HIDE DEF base, step, n
<1>6. PICK f \in [0 .. n -> Locks] : FollowsUpto(f, n, base, step)
  BY <1>1, <1>2, <1>4, BoundedRecursion
<1>7. ASSUME NEW k \in 1 .. n PROVE f[k] = AllocateOne(f[k - 1], needs[k], units[k])
  <2>1. k - 1 \in 0 .. n
    BY <1>1
  <2> QED BY <1>5, <1>6, <2>1 DEF FollowsUpto
<1>8. Is(f)
  <2>1. f = [k \in 0 .. n |-> f[k]]
    OBVIOUS
  <2>2. \A k \in 0 .. n : f[k] = IF k = 0 THEN base ELSE AllocateOne(f[k - 1], needs[k], units[k])
    BY <1>1, <1>6, <1>7 DEF FollowsUpto
  <2> QED BY <2>1, <2>2
<1> DEFINE after == CHOOSE g : Is(g)
<1>9. AllocateEach(lock, needs, units) = after
  BY DEF AllocateEach, AllocateOne, n, base
<1>10. Is(after)
  <2> HIDE DEF Is
  <2> QED BY <1>8
<1> HIDE DEF after
<1>11. after[0] = base
  BY <1>1, <1>10
<1>12. \A k \in 1 .. n : after[k] = AllocateOne(after[k - 1], needs[k], units[k])
  BY <1>1, <1>10
<1> HIDE DEF Is
<1> QED BY <1>9, <1>11, <1>12 DEF base, n

LEMMA DeallocateEachRecursion ==
  ASSUME NEW needs \in Seq(Nat), NEW units \in [DOMAIN needs -> Unit], NEW lock \in [Unit -> Nat]
  PROVE  LET after == DeallocateEach(lock, needs, units)
             n == Len(needs)
         IN  /\ after[0] = [lock |-> lock, refused |-> FALSE]
             /\ \A k \in 1 .. n : after[k] = DeallocateOne(after[k - 1], needs[k], units[k])
<1> DEFINE n == Len(needs)
           base == [lock |-> lock, refused |-> FALSE]
           step == [p \in (1 .. n) \X Locks |-> DeallocateOne(p[2], needs[p[1]], units[p[1]])]
           Is(f) == f = [k \in 0 .. n |-> IF k = 0 THEN base ELSE DeallocateOne(f[k - 1], needs[k], units[k])]
<1>1. n \in Nat /\ DOMAIN needs = 1 .. n
  OBVIOUS
<1>2. base \in Locks
  BY DEF Locks
<1>3. ASSUME NEW k \in 1 .. n, NEW s \in Locks PROVE DeallocateOne(s, needs[k], units[k]) \in Locks
  <2>1. needs[k] \in Nat /\ units[k] \in Unit
    BY <1>1
  <2>2. s.lock \in [Unit -> Nat] /\ s.refused \in BOOLEAN /\ s.lock[units[k]] \in Nat
    BY <2>1 DEF Locks
  <2>3. CASE s.lock[units[k]] >= needs[k]
    <3>1. s.lock[units[k]] - needs[k] \in Nat
      BY ONLY <2>1, <2>2, <2>3
    <3>2. [s EXCEPT !.lock[units[k]] = s.lock[units[k]] - needs[k]] \in Locks
      BY <2>2, <3>1 DEF Locks
    <3> QED BY <2>3, <3>2 DEF DeallocateOne
  <2>4. CASE ~(s.lock[units[k]] >= needs[k])
    BY <2>4 DEF Locks, DeallocateOne
  <2> QED BY <2>3, <2>4
<1>4. step \in [(1 .. n) \X Locks -> Locks]
  BY <1>3
<1>5. ASSUME NEW k \in 1 .. n, NEW s \in Locks PROVE step[<<k, s>>] = DeallocateOne(s, needs[k], units[k])
  OBVIOUS
<1> HIDE DEF base, step, n
<1>6. PICK f \in [0 .. n -> Locks] : FollowsUpto(f, n, base, step)
  BY <1>1, <1>2, <1>4, BoundedRecursion
<1>7. ASSUME NEW k \in 1 .. n PROVE f[k] = DeallocateOne(f[k - 1], needs[k], units[k])
  <2>1. k - 1 \in 0 .. n
    BY <1>1
  <2> QED BY <1>5, <1>6, <2>1 DEF FollowsUpto
<1>8. Is(f)
  <2>1. f = [k \in 0 .. n |-> f[k]]
    OBVIOUS
  <2>2. \A k \in 0 .. n : f[k] = IF k = 0 THEN base ELSE DeallocateOne(f[k - 1], needs[k], units[k])
    BY <1>1, <1>6, <1>7 DEF FollowsUpto
  <2> QED BY <2>1, <2>2
<1> DEFINE after == CHOOSE g : Is(g)
<1>9. DeallocateEach(lock, needs, units) = after
  BY DEF DeallocateEach, DeallocateOne, n, base
<1>10. Is(after)
  <2> HIDE DEF Is
  <2> QED BY <1>8
<1> HIDE DEF after
<1>11. after[0] = base
  BY <1>1, <1>10
<1>12. \A k \in 1 .. n : after[k] = DeallocateOne(after[k - 1], needs[k], units[k])
  BY <1>1, <1>10
<1> HIDE DEF Is
<1> QED BY <1>9, <1>11, <1>12 DEF base, n

\* What the first k + 1 requirements take, from what the first k take.
LEMMA TakenPrefix ==
  ASSUME NEW needs \in Seq(Nat), NEW units \in [DOMAIN needs -> Unit], NEW k \in Nat, k + 1 <= Len(needs),
         NEW u \in Unit
  PROVE  LET Card(j) == Cardinality(Taken(needs, [i \in 1 .. j |-> units[i]], u))
         IN  /\ Card(k) \in Nat
             /\ units[k + 1] = u => Card(k + 1) = Card(k) + needs[k + 1]
             /\ units[k + 1] # u => Card(k + 1) = Card(k)
             /\ Cardinality(Taken(needs, units, u)) \in Nat
             /\ Card(k + 1) <= Cardinality(Taken(needs, units, u))
<1> DEFINE upto(j) == [i \in 1 .. j |-> units[i]]
<1>1. /\ DOMAIN needs = 1 .. Len(needs) /\ Len(needs) \in Nat /\ k + 1 \in DOMAIN needs
      /\ needs[k + 1] \in Nat /\ DOMAIN units = DOMAIN needs
  OBVIOUS
<1>2. \A i : i \in 1 .. k + 1 <=> i \in 1 .. k \/ i = k + 1
  OBVIOUS
<1>3. Extends(upto(k + 1), upto(k), k + 1) /\ upto(k + 1)[k + 1] = units[k + 1]
  BY <1>2 DEF Extends
<1>4. /\ DOMAIN upto(k) \in SUBSET DOMAIN needs
      /\ DOMAIN units \in SUBSET DOMAIN needs
  BY <1>1
<1>5. Taken(needs, upto(k + 1), u) \subseteq Taken(needs, units, u)
  <2>1. {j \in DOMAIN upto(k + 1) : upto(k + 1)[j] = u} \subseteq {j \in DOMAIN units : units[j] = u}
    BY <1>1
  <2> HIDE DEF upto
  <2> QED BY <2>1 DEF Taken
<1> HIDE DEF upto
<1>6. IsFiniteSet(Taken(needs, upto(k), u)) /\ IsFiniteSet(Taken(needs, units, u))
  BY ONLY <1>4, needs \in Seq(Nat), TakenFinite
<1>7. Cardinality(Taken(needs, upto(k), u)) \in Nat /\ Cardinality(Taken(needs, units, u)) \in Nat
  BY <1>6, FS_CardinalityType
<1>8. /\ units[k + 1] = u => Cardinality(Taken(needs, upto(k + 1), u))
                             = Cardinality(Taken(needs, upto(k), u)) + needs[k + 1]
      /\ units[k + 1] # u => Cardinality(Taken(needs, upto(k + 1), u)) = Cardinality(Taken(needs, upto(k), u))
  BY ONLY <1>1, <1>3, <1>6, TakenAdd
<1>9. Cardinality(Taken(needs, upto(k + 1), u)) <= Cardinality(Taken(needs, units, u))
  BY <1>5, <1>6, FS_Subset
<1> QED BY <1>7, <1>8, <1>9 DEF upto

\* AllocateResource for each requirement accepts all of them if they fit.
LEMMA AllocateEachExact ==
  ASSUME NEW needs \in Seq(Nat), NEW units \in [DOMAIN needs -> Unit], NEW lock \in [Unit -> Nat],
         \A u \in Unit : lock[u] + Cardinality(Taken(needs, units, u)) <= Total[u]
  PROVE  AllocateEach(lock, needs, units)[Len(needs)]
         = [lock |-> [u \in Unit |-> lock[u] + Cardinality(Taken(needs, units, u))], refused |-> FALSE]
<1> DEFINE n == Len(needs)
           after == AllocateEach(lock, needs, units)
           Card(k, u) == Cardinality(Taken(needs, [i \in 1 .. k |-> units[i]], u))
           Now(k) == [lock |-> [u \in Unit |-> lock[u] + Card(k, u)], refused |-> FALSE]
           S == {k \in Nat : k <= n => after[k] = Now(k)}
<1>1. n \in Nat /\ DOMAIN needs = 1 .. n /\ DOMAIN units = 1 .. n
  OBVIOUS
<1>2. /\ after[0] = [lock |-> lock, refused |-> FALSE]
      /\ \A k \in 1 .. n : after[k] = AllocateOne(after[k - 1], needs[k], units[k])
  BY AllocateEachRecursion
<1> HIDE DEF after
<1>3. 0 \in S
  <2>1. ASSUME NEW u \in Unit PROVE lock[u] + Card(0, u) = lock[u]
    <3>1. Taken(needs, [i \in 1 .. 0 |-> units[i]], u) = {}
      BY DEF Taken
    <3>2. Card(0, u) = 0
      BY <3>1, FS_EmptySet
    <3>3. lock[u] \in Nat
      OBVIOUS
    <3> HIDE DEF Card
    <3> QED BY <3>2, <3>3
  <2> HIDE DEF Card
  <2>2. [u \in Unit |-> lock[u] + Card(0, u)] = lock
    BY <2>1
  <2> QED BY <1>2, <2>2
<1>4. ASSUME NEW k \in Nat, k \in S PROVE k + 1 \in S
  <2> SUFFICES ASSUME k + 1 <= n PROVE after[k + 1] = Now(k + 1)
    <3>1. k + 1 \in Nat
      OBVIOUS
    <3> HIDE DEF Now
    <3> QED BY <3>1
  <2> DEFINE v == units[k + 1]
  <2>1. k + 1 \in 1 .. n /\ (k + 1) - 1 = k /\ needs[k + 1] \in Nat /\ v \in Unit /\ k <= n
    BY <1>1
  <2>2. ASSUME NEW u \in Unit
        PROVE  /\ Card(k, u) \in Nat
               /\ v = u => Card(k + 1, u) = Card(k, u) + needs[k + 1]
               /\ v # u => Card(k + 1, u) = Card(k, u)
               /\ Cardinality(Taken(needs, units, u)) \in Nat
               /\ Card(k + 1, u) <= Cardinality(Taken(needs, units, u))
    BY TakenPrefix
  <2>3. after[k] = Now(k)
    <3> HIDE DEF Now
    <3> QED BY <1>4, <2>1
  <2> HIDE DEF Card, v
  <2>4. lock[v] + Card(k, v) + needs[k + 1] <= Total[v]
    <3>1. /\ Card(k, v) \in Nat /\ Card(k + 1, v) = Card(k, v) + needs[k + 1]
          /\ Cardinality(Taken(needs, units, v)) \in Nat
          /\ Card(k + 1, v) <= Cardinality(Taken(needs, units, v))
      BY <2>1, <2>2
    <3>2. lock[v] + Cardinality(Taken(needs, units, v)) <= Total[v] /\ lock[v] \in Nat /\ Total[v] \in Nat
      BY <2>1, UnitAssumption
    <3>3. needs[k + 1] \in Nat
      BY <2>1
    <3> HIDE DEF v
    <3> DEFINE c == Card(k, v)
               all == Cardinality(Taken(needs, units, v))
               r == needs[k + 1]
    <3>4. c \in Nat /\ all \in Nat /\ r \in Nat /\ c + r <= all
      BY <3>1, <3>3
    <3> HIDE DEF c, all, r
    <3>5. lock[v] + c + r <= Total[v]
      <4>1. lock[v] + all <= Total[v] /\ lock[v] \in Nat /\ Total[v] \in Nat
        BY <3>2 DEF all
      <4> QED BY ONLY <3>4, <4>1
    <3> QED BY <3>5 DEF c, r
  <2>5. after[k + 1] = AllocateOne(Now(k), needs[k + 1], v)
    BY <1>2, <2>1, <2>3 DEF v
  <2>6. Now(k).lock[v] + needs[k + 1] <= Total[v]
    BY <2>1, <2>4
  <2>7. after[k + 1] = [Now(k) EXCEPT !.lock[v] = @ + needs[k + 1]]
    <3> HIDE DEF Now
    <3> QED BY <2>5, <2>6 DEF AllocateOne
  <2>8. [[u \in Unit |-> lock[u] + Card(k, u)] EXCEPT ![v] = @ + needs[k + 1]]
        = [u \in Unit |-> lock[u] + Card(k + 1, u)]
    <3>1. ASSUME NEW u \in Unit
          PROVE  lock[u] + Card(k + 1, u) = IF u = v THEN lock[v] + Card(k, v) + needs[k + 1] ELSE lock[u] + Card(k, u)
      <4>1. /\ lock[u] \in Nat /\ needs[k + 1] \in Nat /\ Card(k, u) \in Nat
            /\ u = v => Card(k + 1, u) = Card(k, u) + needs[k + 1]
            /\ u # v => Card(k + 1, u) = Card(k, u)
        BY <2>1, <2>2
      <4>2. CASE u = v
        BY ONLY <4>1, <4>2
      <4>3. CASE u # v
        BY ONLY <4>1, <4>3
      <4> QED BY <4>2, <4>3
    <3> QED BY <2>1, <3>1
  <2> QED BY <2>7, <2>8
<1>5. n \in S
  <2> HIDE DEF S
  <2> QED BY <1>1, <1>3, <1>4, SetInduction
<1>6. after[n] = Now(n)
  BY <1>1, <1>5
<1>7. [i \in 1 .. n |-> units[i]] = units
  BY <1>1
<1> QED BY <1>6, <1>7 DEF after

\* DeallocateResource for each requirement accepts all of them if they are locked.
LEMMA DeallocateEachExact ==
  ASSUME NEW needs \in Seq(Nat), NEW units \in [DOMAIN needs -> Unit], NEW lock \in [Unit -> Nat],
         \A u \in Unit : Cardinality(Taken(needs, units, u)) <= lock[u]
  PROVE  DeallocateEach(lock, needs, units)[Len(needs)]
         = [lock |-> [u \in Unit |-> lock[u] - Cardinality(Taken(needs, units, u))], refused |-> FALSE]
<1> DEFINE n == Len(needs)
           after == DeallocateEach(lock, needs, units)
           Card(k, u) == Cardinality(Taken(needs, [i \in 1 .. k |-> units[i]], u))
           Now(k) == [lock |-> [u \in Unit |-> lock[u] - Card(k, u)], refused |-> FALSE]
           S == {k \in Nat : k <= n => after[k] = Now(k)}
<1>1. n \in Nat /\ DOMAIN needs = 1 .. n /\ DOMAIN units = 1 .. n
  OBVIOUS
<1>2. /\ after[0] = [lock |-> lock, refused |-> FALSE]
      /\ \A k \in 1 .. n : after[k] = DeallocateOne(after[k - 1], needs[k], units[k])
  BY DeallocateEachRecursion
<1> HIDE DEF after
<1>3. 0 \in S
  <2>1. ASSUME NEW u \in Unit PROVE lock[u] - Card(0, u) = lock[u]
    <3>1. Taken(needs, [i \in 1 .. 0 |-> units[i]], u) = {}
      BY DEF Taken
    <3>2. Card(0, u) = 0
      BY <3>1, FS_EmptySet
    <3>3. lock[u] \in Nat
      OBVIOUS
    <3> HIDE DEF Card
    <3> QED BY <3>2, <3>3
  <2> HIDE DEF Card
  <2>2. [u \in Unit |-> lock[u] - Card(0, u)] = lock
    BY <2>1
  <2> QED BY <1>2, <2>2
<1>4. ASSUME NEW k \in Nat, k \in S PROVE k + 1 \in S
  <2> SUFFICES ASSUME k + 1 <= n PROVE after[k + 1] = Now(k + 1)
    <3>1. k + 1 \in Nat
      OBVIOUS
    <3> HIDE DEF Now
    <3> QED BY <3>1
  <2> DEFINE v == units[k + 1]
  <2>1. k + 1 \in 1 .. n /\ (k + 1) - 1 = k /\ needs[k + 1] \in Nat /\ v \in Unit /\ k <= n
    BY <1>1
  <2>2. ASSUME NEW u \in Unit
        PROVE  /\ Card(k, u) \in Nat
               /\ v = u => Card(k + 1, u) = Card(k, u) + needs[k + 1]
               /\ v # u => Card(k + 1, u) = Card(k, u)
               /\ Cardinality(Taken(needs, units, u)) \in Nat
               /\ Card(k + 1, u) <= Cardinality(Taken(needs, units, u))
    BY TakenPrefix
  <2>3. after[k] = Now(k)
    <3> HIDE DEF Now
    <3> QED BY <1>4, <2>1
  <2> HIDE DEF Card, v
  <2>4. lock[v] - Card(k, v) >= needs[k + 1]
    <3>1. /\ Card(k, v) \in Nat /\ Card(k + 1, v) = Card(k, v) + needs[k + 1]
          /\ Cardinality(Taken(needs, units, v)) \in Nat
          /\ Card(k + 1, v) <= Cardinality(Taken(needs, units, v))
      BY <2>1, <2>2
    <3>2. Cardinality(Taken(needs, units, v)) <= lock[v] /\ lock[v] \in Nat
      BY <2>1
    <3> QED BY ONLY <2>1, <3>1, <3>2
  <2>5. after[k + 1] = DeallocateOne(Now(k), needs[k + 1], v)
    BY <1>2, <2>1, <2>3 DEF v
  <2>6. Now(k).lock[v] >= needs[k + 1]
    BY <2>1, <2>4
  <2>7. after[k + 1] = [Now(k) EXCEPT !.lock[v] = @ - needs[k + 1]]
    <3> HIDE DEF Now
    <3> QED BY <2>5, <2>6 DEF DeallocateOne
  <2>8. [[u \in Unit |-> lock[u] - Card(k, u)] EXCEPT ![v] = @ - needs[k + 1]]
        = [u \in Unit |-> lock[u] - Card(k + 1, u)]
    <3>1. ASSUME NEW u \in Unit
          PROVE  lock[u] - Card(k + 1, u) = IF u = v THEN lock[v] - Card(k, v) - needs[k + 1] ELSE lock[u] - Card(k, u)
      <4>1. /\ lock[u] \in Nat /\ needs[k + 1] \in Nat /\ Card(k, u) \in Nat
            /\ u = v => Card(k + 1, u) = Card(k, u) + needs[k + 1]
            /\ u # v => Card(k + 1, u) = Card(k, u)
        BY <2>1, <2>2
      <4>2. CASE u = v
        BY ONLY <4>1, <4>2
      <4>3. CASE u # v
        BY ONLY <4>1, <4>3
      <4> QED BY <4>2, <4>3
    <3> QED BY <2>1, <3>1
  <2> QED BY <2>7, <2>8
<1>5. n \in S
  <2> HIDE DEF S
  <2> QED BY <1>1, <1>3, <1>4, SetInduction
<1>6. after[n] = Now(n)
  BY <1>1, <1>5
<1>7. [i \in 1 .. n |-> units[i]] = units
  BY <1>1
<1> QED BY <1>6, <1>7 DEF after

-----------------------------------------------------------------------------
(* The specification.                                                       *)

HeldIn(h, u) == UNION {{t} \X Taken(Needs[t], h[t], u) : t \in DOMAIN h}

\* The map more is h with units for the test t.
Grants(more, h, t, units) ==
  /\ t \notin DOMAIN h
  /\ DOMAIN more = DOMAIN h \cup {t}
  /\ more[t] = units
  /\ \A s \in DOMAIN h : more[s] = h[s]

\* What all tests hold, when one of them is granted some units.
LEMMA HeldGrant ==
  ASSUME NEW more, NEW h, NEW t \in Test, NEW units \in [DOMAIN Needs[t] -> Unit], Grants(more, h, t, units),
         NEW u
  PROVE  /\ IsFiniteSet(HeldIn(h, u)) <=> IsFiniteSet(HeldIn(more, u))
         /\ IsFiniteSet(HeldIn(h, u)) =>
              /\ Cardinality(HeldIn(h, u)) \in Nat /\ Cardinality(Taken(Needs[t], units, u)) \in Nat
              /\ Cardinality(HeldIn(more, u)) = Cardinality(HeldIn(h, u)) + Cardinality(Taken(Needs[t], units, u))
<1> DEFINE T == Taken(Needs[t], units, u)
           New == {t} \X T
<1>1. IsFiniteSet(T)
  <2>1. Needs[t] \in Seq(Nat) /\ DOMAIN units \in SUBSET DOMAIN Needs[t]
    BY NeedsAssumption
  <2> QED BY ONLY <2>1, TakenFinite
<1>2. HeldIn(more, u) = HeldIn(h, u) \cup New
  <2> HIDE DEF T
  <2>1. ASSUME NEW x PROVE x \in HeldIn(more, u) <=> x \in HeldIn(h, u) \/ x \in New
    <3>1. x \in HeldIn(more, u) <=> \E s \in DOMAIN more : x \in {s} \X Taken(Needs[s], more[s], u)
      BY DEF HeldIn
    <3>2. x \in HeldIn(h, u) <=> \E s \in DOMAIN h : x \in {s} \X Taken(Needs[s], h[s], u)
      BY DEF HeldIn
    <3>3. \A s \in DOMAIN h : {s} \X Taken(Needs[s], more[s], u) = {s} \X Taken(Needs[s], h[s], u)
      BY DEF Grants
    <3>4. {t} \X Taken(Needs[t], more[t], u) = New
      BY DEF Grants, T
    <3> HIDE DEF New
    <3> QED BY <3>1, <3>2, <3>3, <3>4 DEF Grants
  <2> QED BY <2>1
<1>3. HeldIn(h, u) \cap New = {}
  <2>1. \A x \in HeldIn(h, u) : x[1] \in DOMAIN h
    BY DEF HeldIn
  <2>2. \A x \in New : x[1] = t
    OBVIOUS
  <2> QED BY <2>1, <2>2 DEF Grants
<1>4. IsFiniteSet(New) /\ Cardinality(New) = Cardinality(T) /\ Cardinality(T) \in Nat
  <2>1. IsFiniteSet({t}) /\ Cardinality({t}) = 1
    BY FS_Singleton
  <2> HIDE DEF T
  <2>2. Cardinality(T) \in Nat
    BY <1>1, FS_CardinalityType
  <2>3. IsFiniteSet(New) /\ Cardinality(New) = Cardinality({t}) * Cardinality(T)
    BY <1>1, <2>1, FS_Product
  <2> HIDE DEF New
  <2> QED BY <2>1, <2>2, <2>3
<1> HIDE DEF T, New
<1>5. IsFiniteSet(HeldIn(more, u)) => IsFiniteSet(HeldIn(h, u))
  <2>1. HeldIn(h, u) \subseteq HeldIn(more, u)
    BY <1>2
  <2> QED BY <2>1, FS_Subset
<1>6. ASSUME IsFiniteSet(HeldIn(h, u))
      PROVE  /\ IsFiniteSet(HeldIn(more, u))
             /\ Cardinality(HeldIn(h, u)) \in Nat
             /\ Cardinality(HeldIn(more, u)) = Cardinality(HeldIn(h, u)) + Cardinality(T)
  <2>1. Cardinality(HeldIn(h, u)) \in Nat
    BY <1>6, FS_CardinalityType
  <2>2. /\ IsFiniteSet(HeldIn(h, u) \cup New)
        /\ Cardinality(HeldIn(h, u) \cup New)
           = Cardinality(HeldIn(h, u)) + Cardinality(New) - Cardinality(HeldIn(h, u) \cap New)
    BY <1>4, <1>6, FS_Union
  <2>3. Cardinality(HeldIn(h, u) \cap New) = 0
    BY <1>3, FS_EmptySet
  <2> QED BY <1>2, <1>4, <2>1, <2>2, <2>3
<1> QED BY <1>4, <1>5, <1>6 DEF T

HeldFinite == \A u \in Unit : IsFiniteSet(Held(u))

\* The inductive invariant: what is locked is what the tests hold, so a unit
\* that fits the free slots can be taken, and what was taken can be given back.
IInv == TypeOK /\ HeldFinite /\ LockedExact /\ ~refused

LEMMA InitIInv == Init => IInv
<1> SUFFICES ASSUME Init PROVE IInv
  OBVIOUS
<1>1. TypeOK
  <2>1. DOMAIN held = {}
    BY DEF Init
  <2>2. locked \in [Unit -> Nat] /\ strategy \in Strategies /\ refused \in BOOLEAN
    BY DEF Init
  <2> QED BY <2>1, <2>2 DEF TypeOK
<1>2. ASSUME NEW u \in Unit PROVE Held(u) = {}
  BY DEF Init, Held
<1>3. HeldFinite
  BY <1>2, FS_EmptySet DEF HeldFinite
<1>4. LockedExact
  <2> SUFFICES ASSUME NEW u \in Unit PROVE locked[u] = Cardinality(Held(u)) /\ locked[u] <= Total[u]
    BY DEF LockedExact
  <2>1. Cardinality(Held(u)) = 0
    BY <1>2, FS_EmptySet
  <2>2. locked[u] = 0 /\ Total[u] \in Nat
    BY UnitAssumption DEF Init
  <2> QED BY <2>1, <2>2
<1> QED BY <1>1, <1>3, <1>4 DEF IInv, Init

LEMMA FreeType ==
  ASSUME IInv
  PROVE  /\ Free \in [Unit -> Nat]
         /\ \A u \in Unit : locked[u] \in Nat /\ Total[u] \in Nat /\ Free[u] = Total[u] - locked[u]
<1>1. \A u \in Unit : locked[u] \in Nat /\ Total[u] \in Nat /\ locked[u] <= Total[u]
  BY UnitAssumption DEF IInv, TypeOK, LockedExact
<1> QED BY <1>1 DEF Free

LEMMA NeedsType ==
  ASSUME NEW t \in Test
  PROVE  Needs[t] \in Seq(Nat)
  BY NeedsAssumption

LEMMA AllocateStep ==
  ASSUME IInv, NEW t \in Test, Allocate(t)
  PROVE  IInv'
<1> DEFINE needs == Needs[t]
<1>1. PICK units \in Packing(Free, needs) :
        LET after == AllocateEach(locked, needs, units)[Len(needs)]
        IN locked' = after.lock /\ refused' = after.refused /\ held' = Put(held, t, units)
  BY DEF Allocate
<1>2. needs \in Seq(Nat) /\ Free \in [Unit -> Nat]
  BY NeedsType, FreeType
<1>3. units \in [DOMAIN needs -> Unit] /\ Fits(Free, needs, units)
  <2> HIDE DEF needs
  <2> QED BY <1>2, PackingExact
<1>4. Grants(held', held, t, units)
  BY <1>1 DEF Allocate, Put, Grants
<1>5. ASSUME NEW u \in Unit
      PROVE  /\ IsFiniteSet(HeldIn(held', u))
             /\ Cardinality(HeldIn(held, u)) \in Nat /\ Cardinality(Taken(needs, units, u)) \in Nat
             /\ Cardinality(HeldIn(held', u)) = Cardinality(HeldIn(held, u)) + Cardinality(Taken(needs, units, u))
  <2>1. IsFiniteSet(HeldIn(held, u))
    BY DEF IInv, HeldFinite, Held, HeldIn
  <2> QED BY <1>3, <1>4, <2>1, HeldGrant
<1>6. ASSUME NEW u \in Unit
      PROVE  /\ locked[u] \in Nat /\ Total[u] \in Nat
             /\ locked[u] = Cardinality(HeldIn(held, u))
             /\ locked[u] + Cardinality(Taken(needs, units, u)) <= Total[u]
  <2>1. locked[u] \in Nat /\ Total[u] \in Nat /\ Free[u] = Total[u] - locked[u]
    BY FreeType
  <2>2. Cardinality(Taken(needs, units, u)) <= Free[u]
    BY <1>3 DEF Fits
  <2>3. locked[u] = Cardinality(HeldIn(held, u))
    BY DEF IInv, LockedExact, Held, HeldIn
  <2>4. Cardinality(Taken(needs, units, u)) \in Nat
    BY <1>5
  <2> QED BY ONLY <2>1, <2>2, <2>3, <2>4
<1>7. locked \in [Unit -> Nat]
  BY DEF IInv, TypeOK
<1>8. AllocateEach(locked, needs, units)[Len(needs)]
      = [lock |-> [u \in Unit |-> locked[u] + Cardinality(Taken(needs, units, u))], refused |-> FALSE]
  <2>1. \A u \in Unit : locked[u] + Cardinality(Taken(needs, units, u)) <= Total[u]
    BY <1>6
  <2> HIDE DEF needs
  <2> QED BY ONLY <1>2, <1>3, <1>7, <2>1, AllocateEachExact
<1>9. locked' = [u \in Unit |-> locked[u] + Cardinality(Taken(needs, units, u))] /\ refused' = FALSE
  BY <1>1, <1>8
<1>10. TypeOK'
  <2>1. locked' \in [Unit -> Nat]
    BY <1>5, <1>6, <1>9
  <2>2. DOMAIN held' \subseteq Test /\ \A s \in DOMAIN held' : held'[s] \in [DOMAIN Needs[s] -> Unit]
    BY <1>3, <1>4 DEF IInv, TypeOK, Grants
  <2>3. strategy' \in Strategies
    BY DEF Allocate, IInv, TypeOK
  <2> QED BY <1>9, <2>1, <2>2, <2>3 DEF TypeOK
<1>11. HeldFinite'
  BY <1>5 DEF HeldFinite, Held, HeldIn
<1>12. LockedExact'
  <2> SUFFICES ASSUME NEW u \in Unit
               PROVE  locked'[u] = Cardinality(HeldIn(held', u)) /\ locked'[u] <= Total[u]
    BY DEF LockedExact, Held, HeldIn
  <2> QED BY <1>5, <1>6, <1>9
<1> QED BY <1>9, <1>10, <1>11, <1>12 DEF IInv

LEMMA DeallocateStep ==
  ASSUME IInv, NEW t \in Test, Deallocate(t)
  PROVE  IInv'
<1> DEFINE needs == Needs[t]
           units == held[t]
<1>1. /\ t \in DOMAIN held
      /\ held' = [s \in DOMAIN held \ {t} |-> held[s]]
      /\ locked' = DeallocateEach(locked, needs, units)[Len(needs)].lock
      /\ refused' = DeallocateEach(locked, needs, units)[Len(needs)].refused
      /\ strategy' = strategy
  BY DEF Deallocate
<1>2. needs \in Seq(Nat) /\ units \in [DOMAIN needs -> Unit]
  BY <1>1, NeedsType DEF IInv, TypeOK
<1>3. Grants(held, held', t, units)
  BY <1>1 DEF Grants
<1>4. ASSUME NEW u \in Unit
      PROVE  /\ IsFiniteSet(HeldIn(held', u))
             /\ Cardinality(HeldIn(held', u)) \in Nat /\ Cardinality(Taken(needs, units, u)) \in Nat
             /\ Cardinality(HeldIn(held, u)) = Cardinality(HeldIn(held', u)) + Cardinality(Taken(needs, units, u))
  <2>1. IsFiniteSet(HeldIn(held, u))
    BY DEF IInv, HeldFinite, Held, HeldIn
  <2> QED BY <1>2, <1>3, <2>1, HeldGrant
<1>5. ASSUME NEW u \in Unit
      PROVE  /\ locked[u] \in Nat /\ Total[u] \in Nat
             /\ locked[u] = Cardinality(HeldIn(held, u)) /\ locked[u] <= Total[u]
             /\ Cardinality(Taken(needs, units, u)) <= locked[u]
  <2>1. locked[u] \in Nat /\ Total[u] \in Nat
    BY FreeType
  <2>2. locked[u] = Cardinality(HeldIn(held, u)) /\ locked[u] <= Total[u]
    BY DEF IInv, LockedExact, Held, HeldIn
  <2> QED BY <1>4, <2>1, <2>2
<1>6. locked \in [Unit -> Nat]
  BY DEF IInv, TypeOK
<1>7. DeallocateEach(locked, needs, units)[Len(needs)]
      = [lock |-> [u \in Unit |-> locked[u] - Cardinality(Taken(needs, units, u))], refused |-> FALSE]
  <2>1. \A u \in Unit : Cardinality(Taken(needs, units, u)) <= locked[u]
    BY <1>5
  <2> HIDE DEF needs, units
  <2> QED BY ONLY <1>2, <1>6, <2>1, DeallocateEachExact
<1>8. locked' = [u \in Unit |-> locked[u] - Cardinality(Taken(needs, units, u))] /\ refused' = FALSE
  BY <1>1, <1>7
<1>9. TypeOK'
  <2>1. locked' \in [Unit -> Nat]
    <3>1. \A u \in Unit : locked[u] - Cardinality(Taken(needs, units, u)) \in Nat
      BY <1>4, <1>5
    <3> QED BY <1>8, <3>1
  <2>2. DOMAIN held' \subseteq Test /\ \A s \in DOMAIN held' : held'[s] \in [DOMAIN Needs[s] -> Unit]
    BY <1>1 DEF IInv, TypeOK
  <2>3. strategy' \in Strategies
    BY <1>1 DEF IInv, TypeOK
  <2> QED BY <1>8, <2>1, <2>2, <2>3 DEF TypeOK
<1>10. HeldFinite'
  BY <1>4 DEF HeldFinite, Held, HeldIn
<1>11. LockedExact'
  <2> SUFFICES ASSUME NEW u \in Unit
               PROVE  locked'[u] = Cardinality(HeldIn(held', u)) /\ locked'[u] <= Total[u]
    BY DEF LockedExact, Held, HeldIn
  <2> HIDE DEF needs, units
  <2>1. /\ Cardinality(HeldIn(held', u)) \in Nat /\ Cardinality(Taken(needs, units, u)) \in Nat
        /\ Cardinality(HeldIn(held, u)) = Cardinality(HeldIn(held', u)) + Cardinality(Taken(needs, units, u))
        /\ locked[u] = Cardinality(HeldIn(held, u)) /\ locked[u] <= Total[u] /\ Total[u] \in Nat
        /\ locked'[u] = locked[u] - Cardinality(Taken(needs, units, u))
    BY <1>4, <1>5, <1>8
  <2> QED BY ONLY <2>1
<1> QED BY <1>8, <1>9, <1>10, <1>11 DEF IInv

LEMMA NextIInv == IInv /\ [Next]_vars => IInv'
<1> SUFFICES ASSUME IInv, [Next]_vars PROVE IInv'
  OBVIOUS
<1>1. ASSUME NEW t \in Test, Allocate(t) PROVE IInv'
  BY <1>1, AllocateStep
<1>2. ASSUME NEW t \in Test, Deallocate(t) PROVE IInv'
  BY <1>2, DeallocateStep
<1>3. CASE UNCHANGED vars
  BY <1>3 DEF vars, IInv, TypeOK, HeldFinite, LockedExact, Held
<1> QED BY <1>1, <1>2, <1>3 DEF Next

LEMMA Inductive == Spec => []IInv
<1>1. Init => IInv
  BY InitIInv
<1>2. IInv /\ [Next]_vars => IInv'
  BY NextIInv
<1> QED BY <1>1, <1>2, PTL DEF Spec

\* The fields keep their types: the counters, unsigned in the code, never go
\* below zero, and a test holds a unit for each of its requirements.
THEOREM ResourceTypes == Spec => []TypeOK
<1>1. IInv => TypeOK
  BY DEF IInv
<1> QED BY <1>1, Inductive, PTL

\* The counters of the allocator are what the tests hold and never exceed the
\* slots of a unit.
THEOREM LockedCounts == Spec => []LockedExact
<1>1. IInv => LockedExact
  BY DEF IInv
<1> QED BY <1>1, Inductive, PTL

\* No AllocateResource or DeallocateResource is refused.
THEOREM AssertsHold == Spec => []NeverRefused
<1>1. IInv => NeverRefused
  BY DEF IInv, NeverRefused
<1> QED BY <1>1, Inductive, PTL

\* Whatever is locked, the packer finds units exactly when there are some.
THEOREM PackerComplete == Spec => []FindsPacking
<1>1. IInv => FindsPacking
  <2> SUFFICES ASSUME IInv, NEW t \in Test
               PROVE  Packing(Free, Needs[t]) # {} <=> Possible(Free, Needs[t])
    BY DEF FindsPacking
  <2> QED BY FreeType, NeedsType, PackingExact
<1> QED BY <1>1, Inductive, PTL
===============================================================================
