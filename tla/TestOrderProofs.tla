--------------------------- MODULE TestOrderProofs ----------------------------
(***************************************************************************)
(* Theorems about TestOrder: the fixture closure, the cycle search and the *)
(* two orders do what they promise for every suite.                        *)
(***************************************************************************)
EXTENDS TestOrder, DataLemmas, FunctionTheorems, SequenceTheorems

-----------------------------------------------------------------------------
(* 1. Cycles in a dependency graph.                                         *)

\* A map from numbered tests to the tests they depend on, of the same list.
Graph(d) ==
  /\ IsFiniteSet(DOMAIN d) /\ DOMAIN d \subseteq Nat
  /\ \A t \in DOMAIN d : d[t] \in SUBSET DOMAIN d

LEMMA SmallestSet ==
  ASSUME NEW F, F # {}, \A P \in F : IsFiniteSet(P)
  PROVE  \E P \in F : \A Q \in F : Cardinality(P) <= Cardinality(Q)
<1> DEFINE sizes == {Cardinality(P) : P \in F}
<1>1. sizes \in SUBSET Nat /\ sizes # {}
  BY FS_CardinalityType
<1>2. PICK m \in sizes : \A k \in sizes : m <= k
  BY <1>1, LeastNatural
<1> QED BY <1>2

\* What is left of a finite set without one of its elements.
LEMMA RemoveOne ==
  ASSUME NEW P, IsFiniteSet(P), NEW x \in P
  PROVE  /\ IsFiniteSet(P \ {x})
         /\ ~(Cardinality(P) <= Cardinality(P \ {x}))
<1>1. IsFiniteSet(P \ {x}) /\ Cardinality(P \ {x}) = Cardinality(P) - 1
  BY FS_RemoveElement
<1>2. Cardinality(P) \in Nat
  BY FS_CardinalityType
<1> QED BY <1>1, <1>2

\* If each test of a set is one that another test of it depends on, the graph
\* has a cycle: in a smallest such set each test depends on one of the set, as
\* one that does not could be left out.
LEMMA PredecessorCycle ==
  ASSUME NEW d, Graph(d), NEW V \in SUBSET DOMAIN d, V # {},
         \A t \in V : \E u \in V : t \in d[u]
  PROVE  Cyclic(d)
<1> DEFINE F == {P \in SUBSET V : P # {} /\ \A t \in P : \E u \in P : t \in d[u]}
<1>1. V \in F /\ \A P \in F : IsFiniteSet(P)
  BY FS_Subset DEF Graph
<1>2. PICK P \in F : \A Q \in F : Cardinality(P) <= Cardinality(Q)
  <2> HIDE DEF F
  <2> QED BY <1>1, SmallestSet
<1>3. ASSUME NEW t \in P, d[t] \cap P = {} PROVE FALSE
  <2> DEFINE Q == P \ {t}
  <2>1. Q \in F
    BY <1>3
  <2>2. ~(Cardinality(P) <= Cardinality(Q))
    BY <1>1, RemoveOne
  <2> QED BY <1>2, <2>1, <2>2
<1>4. P \in (SUBSET DOMAIN d) \ {{}}
  OBVIOUS
<1> QED BY <1>3, <1>4 DEF Cyclic

\* C holds what its tests depend on.
Closed(d, C) == C \subseteq DOMAIN d /\ \A t \in C : d[t] \subseteq C

\* If each test is in a closed set of which no test depends on it, there is no
\* cycle: what a smallest closed set with a test of the cycle has in common with
\* the one of that test stays closed without the test.
LEMMA ClosedSetsNoCycle ==
  ASSUME NEW d, Graph(d),
         \A root \in DOMAIN d : \E V : Closed(d, V) /\ root \in V /\ \A t \in V : root \notin d[t]
  PROVE  ~Cyclic(d)
<1> SUFFICES ASSUME Cyclic(d) PROVE FALSE
  OBVIOUS
<1>1. PICK S \in (SUBSET DOMAIN d) \ {{}} : \A t \in S : d[t] \cap S # {}
  BY DEF Cyclic
<1> DEFINE F == {C \in SUBSET DOMAIN d : Closed(d, C) /\ C \cap S # {}}
<1>2. DOMAIN d \in F /\ \A C \in F : IsFiniteSet(C)
  BY <1>1, FS_Subset DEF Graph, Closed
<1>3. PICK C \in F : \A Q \in F : Cardinality(C) <= Cardinality(Q)
  <2> HIDE DEF F
  <2> QED BY <1>2, SmallestSet
<1>4. PICK r : r \in C \cap S
  BY <1>3
<1>5. PICK V : Closed(d, V) /\ r \in V /\ \A t \in V : r \notin d[t]
  BY <1>4
<1>6. PICK u : u \in d[r] \cap S
  BY <1>1, <1>4
<1> DEFINE Q == (C \cap V) \ {r}
<1>7. Q \in F
  <2>1. Closed(d, Q)
    BY <1>3, <1>5 DEF Closed
  <2>2. u \in Q
    BY <1>3, <1>4, <1>5, <1>6 DEF Closed
  <2> QED BY <1>6, <2>1, <2>2 DEF Closed
<1>8. IsFiniteSet(C \ {r}) /\ ~(Cardinality(C) <= Cardinality(C \ {r}))
  BY <1>2, <1>4, RemoveOne
<1>9. Cardinality(Q) <= Cardinality(C \ {r})
  BY <1>8, FS_Subset
<1>10. Cardinality(Q) \in Nat /\ Cardinality(C) \in Nat /\ Cardinality(C \ {r}) \in Nat
  BY <1>2, <1>7, <1>8, FS_CardinalityType
<1> QED BY <1>3, <1>7, <1>8, <1>9, <1>10

-----------------------------------------------------------------------------
(* 2. The depth first search.                                               *)

Searches(D) == [stack : Seq(D), visited : SUBSET D, found : BOOLEAN]

Rounds(d) == 1 + Cardinality(DOMAIN d) * Cardinality(DOMAIN d)

\* The dependencies of a test in the order in which they are pushed.
LEMMA Pushed ==
  ASSUME NEW d, Graph(d), NEW t \in DOMAIN d
  PROVE  /\ Lists(Ascending(d[t]), d[t])
         /\ Ascending(d[t]) \in Seq(DOMAIN d)
         /\ Cardinality(d[t]) \in Nat /\ Cardinality(d[t]) <= Cardinality(DOMAIN d)
<1>1. d[t] \in SUBSET Int /\ d[t] \subseteq DOMAIN d
  BY DEF Graph
<1>2. IsFiniteSet(d[t]) /\ Cardinality(d[t]) <= Cardinality(DOMAIN d)
  BY <1>1, FS_Subset DEF Graph
<1>3. Lists(Ascending(d[t]), d[t])
  BY <1>1, <1>2, AscendingSequence
<1>4. Ascending(d[t]) \in Seq(DOMAIN d)
  BY <1>1, <1>3 DEF Lists
<1> QED BY <1>2, <1>3, <1>4, FS_CardinalityType

\* A round pops test from the stack and leaves rest: of a test met before it
\* drops the entry only.
Popped(stack, rest, test) ==
  /\ Len(stack) = Len(rest) + 1 /\ stack[Len(stack)] = test
  /\ \A i \in 1 .. Len(rest) : stack[i] = rest[i]

Drops(s, after, rest, test) ==
  /\ ~s.found /\ Popped(s.stack, rest, test) /\ test \in s.visited
  /\ after = [stack |-> rest, visited |-> s.visited, found |-> FALSE]

Descends(d, root, s, after, rest, test) ==
  /\ ~s.found /\ Popped(s.stack, rest, test) /\ test \notin s.visited
  /\ after = [stack |-> rest \o Ascending(d[test]), visited |-> s.visited \cup {test},
              found |-> root \in d[test]]

LEMMA VisitCases ==
  ASSUME NEW d, Graph(d), NEW root \in DOMAIN d, NEW s \in Searches(DOMAIN d)
  PROVE  \/ (s.found \/ s.stack = <<>>) /\ Visit(d, root, s) = s
         \/ \E test \in DOMAIN d, rest \in Seq(DOMAIN d) :
              \/ Drops(s, Visit(d, root, s), rest, test)
              \/ Descends(d, root, s, Visit(d, root, s), rest, test)
<1> DEFINE last == Len(s.stack)
           test == s.stack[last]
           rest == SubSeq(s.stack, 1, last - 1)
<1>1. s.stack \in Seq(DOMAIN d) /\ s.visited \in SUBSET DOMAIN d /\ s.found \in BOOLEAN
      /\ s = [stack |-> s.stack, visited |-> s.visited, found |-> s.found]
  BY DEF Searches
<1>2. CASE s.found \/ last = 0
  <2>1. Visit(d, root, s) = s
    BY <1>2 DEF Visit
  <2>2. last = 0 => s.stack = <<>>
    BY <1>1
  <2> QED BY <1>2, <2>1, <2>2
<1>3. CASE ~s.found /\ last # 0
  <2>1. last \in Nat /\ last > 0 /\ test \in DOMAIN d
    BY <1>1, <1>3
  <2>2. \A i \in 1 .. last - 1 : s.stack[i] \in DOMAIN d
    BY <1>1
  <2>3. rest \in Seq(DOMAIN d) /\ Len(rest) = last - 1 /\ \A i \in 1 .. last - 1 : rest[i] = s.stack[i]
    <3>1. 1 \in Int /\ last - 1 \in Int
      BY <2>1
    <3>2. /\ rest \in Seq(DOMAIN d)
          /\ Len(rest) = IF 1 <= last - 1 THEN last - 1 - 1 + 1 ELSE 0
          /\ \A i \in 1 .. last - 1 - 1 + 1 : rest[i] = s.stack[1 + i - 1]
      BY <2>2, <3>1, SubSeqProperties
    <3> QED BY <2>1, <3>2
  <2>4. Popped(s.stack, rest, test)
    BY <2>1, <2>3 DEF Popped
  <2>5. CASE test \in s.visited
    <3>1. Visit(d, root, s) = [s EXCEPT !.stack = rest]
      BY <1>3, <2>5 DEF Visit
    <3>2. Visit(d, root, s) = [stack |-> rest, visited |-> s.visited, found |-> FALSE]
      BY <1>1, <1>3, <3>1
    <3>3. Drops(s, Visit(d, root, s), rest, test)
      BY <1>3, <2>4, <2>5, <3>2 DEF Drops
    <3> HIDE DEF rest, test
    <3> QED BY <2>1, <2>3, <3>3
  <2>6. CASE test \notin s.visited
    <3>1. Visit(d, root, s) = [stack |-> rest \o Ascending(d[test]),
                               visited |-> s.visited \cup {test},
                               found |-> root \in d[test]]
      BY <1>3, <2>6 DEF Visit
    <3>2. Descends(d, root, s, Visit(d, root, s), rest, test)
      BY <1>3, <2>4, <2>6, <3>1 DEF Descends
    <3> HIDE DEF rest, test
    <3> QED BY <2>1, <2>3, <3>2
  <2> QED BY <2>5, <2>6
<1> QED BY <1>2, <1>3

LEMMA VisitType ==
  ASSUME NEW d, Graph(d), NEW root \in DOMAIN d, NEW s \in Searches(DOMAIN d)
  PROVE  Visit(d, root, s) \in Searches(DOMAIN d)
<1>1. ASSUME NEW test \in DOMAIN d, NEW rest \in Seq(DOMAIN d),
             Drops(s, Visit(d, root, s), rest, test)
      PROVE  Visit(d, root, s) \in Searches(DOMAIN d)
  BY <1>1 DEF Searches, Drops
<1>2. ASSUME NEW test \in DOMAIN d, NEW rest \in Seq(DOMAIN d),
             Descends(d, root, s, Visit(d, root, s), rest, test)
      PROVE  Visit(d, root, s) \in Searches(DOMAIN d)
  <2>1. rest \o Ascending(d[test]) \in Seq(DOMAIN d)
    BY Pushed
  <2>2. s.visited \cup {test} \in SUBSET DOMAIN d
    BY DEF Searches
  <2>3. (root \in d[test]) \in BOOLEAN
    OBVIOUS
  <2> QED BY <1>2, <2>1, <2>2, <2>3 DEF Searches, Descends
<1> QED BY <1>1, <1>2, VisitCases

Start(root) == [stack |-> <<root>>, visited |-> {}, found |-> FALSE]

\* The rounds of FindsRoot one by one.
LEMMA FindsRootRecursion ==
  ASSUME NEW d, Graph(d), NEW root \in DOMAIN d
  PROVE  \E search \in [0 .. Rounds(d) -> Searches(DOMAIN d)] :
           /\ search[0] = Start(root)
           /\ \A n \in 1 .. Rounds(d) : search[n] = Visit(d, root, search[n - 1])
           /\ FindsRoot(d, root) = search[Rounds(d)].found
<1> DEFINE N == Rounds(d)
           S == Searches(DOMAIN d)
           move == [p \in (1 .. N) \X S |-> Visit(d, root, p[2])]
           Is(g) == g = [n \in 0 .. N |-> IF n = 0 THEN Start(root) ELSE Visit(d, root, g[n - 1])]
<1>1. N \in Nat
  BY FS_CardinalityType DEF Graph, Rounds
<1>2. Start(root) \in S
  BY DEF Start, Searches
<1>3. \A s \in S : Visit(d, root, s) \in S
  BY VisitType
<1> HIDE DEF S, N
<1>4. move \in [(1 .. N) \X S -> S]
  BY <1>3
<1>5. \A n \in 1 .. N, s \in S : move[<<n, s>>] = Visit(d, root, s)
  OBVIOUS
<1> HIDE DEF move
<1>6. PICK f \in [0 .. N -> S] : FollowsUpto(f, N, Start(root), move)
  BY <1>1, <1>2, <1>4, BoundedRecursion
<1>7. ASSUME NEW n \in 1 .. N PROVE f[n] = Visit(d, root, f[n - 1])
  <2>1. n - 1 \in 0 .. N
    BY <1>1
  <2> QED BY <1>5, <1>6, <2>1 DEF FollowsUpto
<1>8. Is(f)
  <2>1. f = [n \in 0 .. N |-> f[n]]
    OBVIOUS
  <2>2. \A n \in 0 .. N : f[n] = IF n = 0 THEN Start(root) ELSE Visit(d, root, f[n - 1])
    BY <1>1, <1>6, <1>7 DEF FollowsUpto
  <2> QED BY <2>1, <2>2
<1> DEFINE search == CHOOSE g : Is(g)
<1>9. FindsRoot(d, root) = search[N].found
  BY DEF FindsRoot, Rounds, Start, N
<1>10. Is(search)
  <2> HIDE DEF Is
  <2> QED BY <1>8
<1> HIDE DEF search
<1>11. DOMAIN search = 0 .. N /\ search[0] = Start(root)
  BY <1>1, <1>10
<1>12. \A n \in 1 .. N : search[n] = Visit(d, root, search[n - 1])
  BY <1>1, <1>10
<1>13. \A n \in 0 .. N : search[n] = f[n]
  <2> DEFINE T == {n \in Nat : n <= N => search[n] = f[n]}
  <2>1. 0 \in T
    BY <1>1, <1>6, <1>11 DEF FollowsUpto
  <2>2. ASSUME NEW n \in Nat, n \in T PROVE n + 1 \in T
    <3> SUFFICES ASSUME n + 1 <= N PROVE search[n + 1] = f[n + 1]
      OBVIOUS
    <3>1. n + 1 \in 1 .. N /\ (n + 1) - 1 = n /\ search[n] = f[n]
      BY <1>1, <2>2
    <3> HIDE DEF T
    <3> QED BY <1>7, <1>12, <3>1
  <2> HIDE DEF T
  <2>3. \A n \in Nat : n \in T
    BY <2>1, <2>2, SetInduction
  <2> QED BY <1>1, <2>3 DEF T
<1> HIDE DEF Is
<1>14. search \in [0 .. N -> S]
  <2>1. search = [n \in 0 .. N |-> search[n]]
    BY <1>10 DEF Is
  <2> QED BY <1>13, <2>1
<1> QED BY <1>9, <1>11, <1>12, <1>14 DEF N, S

Pending(s, x) == \E i \in 1 .. Len(s.stack) : s.stack[i] = x

\* What holds after n rounds: what was met or is still on the stack, other than
\* the root, is a dependency of a test that was met, and the root itself if it
\* was found; else the dependencies of what was met are met or on the stack, and
\* each round so far has popped one of the tests pushed.
Searched(d, root, n, s) ==
  /\ s \in Searches(DOMAIN d)
  /\ root \in s.visited \/ Pending(s, root)
  /\ \A x \in DOMAIN d : x \in s.visited \/ Pending(s, x) =>
       x = root \/ \E u \in s.visited : x \in d[u]
  /\ s.found => \E u \in s.visited : root \in d[u]
  /\ ~s.found => \A t \in s.visited : root \notin d[t] /\ \A x \in d[t] : x \in s.visited \/ Pending(s, x)
  /\ \/ s.found \/ s.stack = <<>>
     \/ n + Len(s.stack) <= 1 + Cardinality(DOMAIN d) * Cardinality(s.visited)

LEMMA SearchedStart ==
  ASSUME NEW d, Graph(d), NEW root \in DOMAIN d
  PROVE  Searched(d, root, 0, Start(root))
<1>1. Start(root) \in Searches(DOMAIN d)
  BY DEF Start, Searches
<1>2. \A x : Pending(Start(root), x) <=> x = root
  BY DEF Start, Pending
<1>3. Start(root).visited = {} /\ ~Start(root).found /\ Len(Start(root).stack) = 1
  BY DEF Start
<1>4. 0 + 1 <= 1 + Cardinality(DOMAIN d) * Cardinality({})
  BY FS_CardinalityType, FS_EmptySet DEF Graph
<1> QED BY <1>1, <1>2, <1>3, <1>4 DEF Searched

LEMMA SearchedDrop ==
  ASSUME NEW d, Graph(d), NEW root \in DOMAIN d, NEW n \in Nat, NEW s, Searched(d, root, n, s),
         NEW after, NEW test \in DOMAIN d, NEW rest \in Seq(DOMAIN d), Drops(s, after, rest, test)
  PROVE  Searched(d, root, n + 1, after)
<1>1. s \in Searches(DOMAIN d) /\ after \in Searches(DOMAIN d) /\ Len(rest) \in Nat
  BY DEF Searched, Searches, Drops
<1>2. ASSUME NEW x \in DOMAIN d PROVE x \in after.visited \/ Pending(after, x) <=> x \in s.visited \/ Pending(s, x)
  BY <1>1 DEF Pending, Drops, Popped
<1>3. after.visited = s.visited /\ ~after.found /\ ~s.found /\ after.stack = rest
      /\ Len(s.stack) = Len(rest) + 1 /\ s.stack # <<>>
  BY DEF Drops, Popped
<1>4. n + 1 + Len(rest) <= 1 + Cardinality(DOMAIN d) * Cardinality(s.visited)
  <2>1. n + (Len(rest) + 1) <= 1 + Cardinality(DOMAIN d) * Cardinality(s.visited)
    BY <1>3 DEF Searched
  <2> HIDE DEF Graph
  <2> DEFINE c == 1 + Cardinality(DOMAIN d) * Cardinality(s.visited)
  <2>2. n + (Len(rest) + 1) = n + 1 + Len(rest)
    BY <1>1
  <2> QED BY <2>1, <2>2
<1>5. \A t \in s.visited : d[t] \subseteq DOMAIN d
  BY <1>1 DEF Graph, Searches
<1> QED BY <1>1, <1>2, <1>3, <1>4, <1>5 DEF Searched

LEMMA SearchedDescend ==
  ASSUME NEW d, Graph(d), NEW root \in DOMAIN d, NEW n \in Nat, NEW s, Searched(d, root, n, s),
         NEW after, NEW test \in DOMAIN d, NEW rest \in Seq(DOMAIN d), Descends(d, root, s, after, rest, test)
  PROVE  Searched(d, root, n + 1, after)
<1> DEFINE more == Ascending(d[test])
           c == Cardinality(DOMAIN d)
           v == Cardinality(s.visited)
<1>1. s \in Searches(DOMAIN d) /\ Len(rest) \in Nat
  BY DEF Searched
<1>2. /\ Lists(more, d[test]) /\ more \in Seq(DOMAIN d)
      /\ Cardinality(d[test]) \in Nat /\ Cardinality(d[test]) <= c
  BY Pushed
<1> HIDE DEF more
<1>3. after.stack = rest \o more /\ after.visited = s.visited \cup {test} /\ (after.found <=> root \in d[test])
      /\ ~s.found /\ s.stack # <<>> /\ Popped(s.stack, rest, test)
  <2>1. after.stack = rest \o more /\ after.visited = s.visited \cup {test} /\ ~s.found
        /\ Popped(s.stack, rest, test)
    BY DEF Descends, more
  <2>2. after.found <=> root \in d[test]
    BY Zenon DEF Descends
  <2>3. s.stack # <<>>
    BY <1>1, <2>1 DEF Popped
  <2> QED BY <2>1, <2>2, <2>3
<1>4. after \in Searches(DOMAIN d)
  BY <1>1, <1>2 DEF Searches, Descends, more
<1>5. \A x : Pending(after, x) <=> (\E i \in 1 .. Len(rest) : rest[i] = x) \/ x \in d[test]
  <2>1. /\ Len(rest \o more) = Len(rest) + Len(more) /\ Len(more) \in Nat
        /\ \A i \in 1 .. Len(rest) : (rest \o more)[i] = rest[i]
        /\ \A i \in 1 .. Len(more) : (rest \o more)[Len(rest) + i] = more[i]
        /\ \A i \in Len(rest) + 1 .. Len(rest) + Len(more) :
             i - Len(rest) \in 1 .. Len(more) /\ (rest \o more)[i] = more[i - Len(rest)]
    BY <1>2
  <2>2. /\ \A i \in 1 .. Len(more) : more[i] \in d[test]
        /\ \A x \in d[test] : \E i \in 1 .. Len(more) : more[i] = x
    BY <1>2 DEF Lists
  <2>3. ASSUME NEW x, Pending(after, x) PROVE (\E i \in 1 .. Len(rest) : rest[i] = x) \/ x \in d[test]
    <3>1. PICK i \in 1 .. Len(rest) + Len(more) : (rest \o more)[i] = x
      BY <1>3, <2>1, <2>3 DEF Pending
    <3>2. CASE i <= Len(rest)
      BY <1>1, <2>1, <3>1, <3>2
    <3>3. CASE i > Len(rest)
      BY <1>1, <2>1, <2>2, <3>1, <3>3
    <3> QED BY <1>1, <2>1, <3>2, <3>3
  <2>4. ASSUME NEW x, NEW i \in 1 .. Len(rest), rest[i] = x PROVE Pending(after, x)
    BY <1>1, <1>3, <2>1, <2>4 DEF Pending
  <2>5. ASSUME NEW x \in d[test] PROVE Pending(after, x)
    <3>1. PICK i \in 1 .. Len(more) : more[i] = x
      BY <2>2
    <3>2. Len(rest) + i \in 1 .. Len(rest) + Len(more)
      BY <1>1, <2>1
    <3> QED BY <1>3, <2>1, <3>1, <3>2 DEF Pending
  <2> QED BY <2>3, <2>4, <2>5
<1>6. \A x : Pending(s, x) <=> (\E i \in 1 .. Len(rest) : rest[i] = x) \/ x = test
  <2>1. Len(s.stack) = Len(rest) + 1 /\ s.stack[Len(rest) + 1] = test
        /\ \A i \in 1 .. Len(rest) : s.stack[i] = rest[i]
    BY <1>3 DEF Popped
  <2>2. \A i \in 1 .. Len(rest) + 1 : i \in 1 .. Len(rest) \/ i = Len(rest) + 1
    BY <1>1
  <2>3. Len(rest) + 1 \in 1 .. Len(rest) + 1 /\ \A i \in 1 .. Len(rest) : i \in 1 .. Len(rest) + 1
    BY <1>1
  <2> QED BY <2>1, <2>2, <2>3 DEF Pending
<1>7. n + 1 + Len(after.stack) <= 1 + c * Cardinality(after.visited)
  <2>1. IsFiniteSet(s.visited) /\ v \in Nat /\ c \in Nat
    BY <1>1, FS_Subset, FS_CardinalityType DEF Graph, Searches
  <2>2. Cardinality(after.visited) = v + 1
    BY <1>3, <2>1, FS_AddElement DEF Descends
  <2>3. n + (Len(rest) + 1) <= 1 + c * v
    BY <1>3 DEF Searched, Descends, Popped
  <2>4. Len(after.stack) = Len(rest) + Cardinality(d[test])
    <3>1. Len(more) = Cardinality(d[test])
      BY <1>2 DEF Lists
    <3>2. Len(rest \o more) = Len(rest) + Len(more)
      BY <1>2
    <3> QED BY <1>3, <3>1, <3>2
  <2>5. c * (v + 1) = c * v + c /\ c * v \in Nat
    BY <2>1
  <2> HIDE DEF c, v
  <2> DEFINE p == c * v
  <2>6. p \in Nat /\ n + (Len(rest) + 1) <= 1 + p /\ c * (v + 1) = p + c
    BY <2>3, <2>5
  <2> HIDE DEF p
  <2> QED BY <1>1, <1>2, <2>1, <2>2, <2>4, <2>6 DEF c
<1>8. \A x \in DOMAIN d : x \in s.visited \/ Pending(s, x) =>
        x = root \/ \E u \in s.visited : x \in d[u]
  BY DEF Searched
<1>9. \A x \in DOMAIN d : x \in after.visited \/ Pending(after, x) =>
        x = root \/ \E u \in after.visited : x \in d[u]
  BY <1>3, <1>5, <1>6, <1>8
<1>10. after.found => \E u \in after.visited : root \in d[u]
  BY <1>3
<1>11. root \in after.visited \/ Pending(after, root)
  BY <1>3, <1>5, <1>6 DEF Searched
<1>12. \A t \in s.visited : root \notin d[t] /\ \A x \in d[t] : x \in s.visited \/ Pending(s, x)
  BY <1>3 DEF Searched
<1>13. ~after.found => \A t \in after.visited :
         root \notin d[t] /\ \A x \in d[t] : x \in after.visited \/ Pending(after, x)
  BY <1>3, <1>5, <1>6, <1>12
<1> HIDE DEF c, v
<1> QED BY <1>4, <1>7, <1>9, <1>10, <1>11, <1>13 DEF Searched, c

LEMMA SearchedAll ==
  ASSUME NEW d, Graph(d), NEW root \in DOMAIN d,
         NEW search \in [0 .. Rounds(d) -> Searches(DOMAIN d)], search[0] = Start(root),
         \A n \in 1 .. Rounds(d) : search[n] = Visit(d, root, search[n - 1])
  PROVE  Searched(d, root, Rounds(d), search[Rounds(d)])
<1> DEFINE N == Rounds(d)
           T == {n \in Nat : n <= N => Searched(d, root, n, search[n])}
<1>1. N \in Nat
  BY FS_CardinalityType DEF Graph, Rounds
<1> HIDE DEF N
<1>2. 0 \in T
  BY SearchedStart
<1>3. ASSUME NEW n \in Nat, n \in T PROVE n + 1 \in T
  <2> SUFFICES ASSUME n + 1 <= N PROVE Searched(d, root, n + 1, search[n + 1])
    OBVIOUS
  <2>1. Searched(d, root, n, search[n])
    BY <1>1, <1>3
  <2>2. search[n + 1] = Visit(d, root, search[n]) /\ search[n] \in Searches(DOMAIN d)
    BY <1>1 DEF N
  <2>3. CASE (search[n].found \/ search[n].stack = <<>>) /\ search[n + 1] = search[n]
    BY <2>1, <2>3 DEF Searched
  <2>4. ASSUME NEW test \in DOMAIN d, NEW rest \in Seq(DOMAIN d), Drops(search[n], search[n + 1], rest, test)
        PROVE  Searched(d, root, n + 1, search[n + 1])
    BY <2>1, <2>4, SearchedDrop
  <2>5. ASSUME NEW test \in DOMAIN d, NEW rest \in Seq(DOMAIN d),
               Descends(d, root, search[n], search[n + 1], rest, test)
        PROVE  Searched(d, root, n + 1, search[n + 1])
    BY <2>1, <2>5, SearchedDescend
  <2>6. \/ (search[n].found \/ search[n].stack = <<>>) /\ Visit(d, root, search[n]) = search[n]
        \/ \E test \in DOMAIN d, rest \in Seq(DOMAIN d) :
             \/ Drops(search[n], Visit(d, root, search[n]), rest, test)
             \/ Descends(d, root, search[n], Visit(d, root, search[n]), rest, test)
    BY <2>2, VisitCases
  <2> QED BY <2>2, <2>3, <2>4, <2>5, <2>6
<1> HIDE DEF T
<1>4. \A n \in Nat : n \in T
  BY <1>2, <1>3, SetInduction
<1> QED BY <1>1, <1>4 DEF T, N

\* Over a graph without cycles the search comes back from no root, and in one
\* with cycles it does from some.
LEMMA FindsRootSound ==
  ASSUME NEW d, Graph(d), NEW root \in DOMAIN d, FindsRoot(d, root)
  PROVE  Cyclic(d)
<1>1. PICK search \in [0 .. Rounds(d) -> Searches(DOMAIN d)] :
           /\ search[0] = Start(root)
           /\ \A n \in 1 .. Rounds(d) : search[n] = Visit(d, root, search[n - 1])
           /\ FindsRoot(d, root) = search[Rounds(d)].found
  BY FindsRootRecursion
<1> DEFINE s == search[Rounds(d)]
<1>2. Searched(d, root, Rounds(d), s)
  BY <1>1, SearchedAll
<1>3. s.found
  BY <1>1
<1> HIDE DEF s
<1>4. s.visited \in SUBSET DOMAIN d /\ s.visited # {} /\ \A t \in s.visited : \E u \in s.visited : t \in d[u]
  BY <1>2, <1>3 DEF Searched, Searches
<1> QED BY <1>4, PredecessorCycle

LEMMA FindsRootComplete ==
  ASSUME NEW d, Graph(d), NEW root \in DOMAIN d, ~FindsRoot(d, root)
  PROVE  \E V : Closed(d, V) /\ root \in V /\ \A t \in V : root \notin d[t]
<1>1. PICK search \in [0 .. Rounds(d) -> Searches(DOMAIN d)] :
           /\ search[0] = Start(root)
           /\ \A n \in 1 .. Rounds(d) : search[n] = Visit(d, root, search[n - 1])
           /\ FindsRoot(d, root) = search[Rounds(d)].found
  BY FindsRootRecursion
<1> DEFINE s == search[Rounds(d)]
           c == Cardinality(DOMAIN d)
           v == Cardinality(s.visited)
<1>2. Searched(d, root, Rounds(d), s)
  BY <1>1, SearchedAll
<1>3. ~s.found
  BY <1>1
<1> HIDE DEF s
<1>4. s.stack \in Seq(DOMAIN d) /\ s.visited \in SUBSET DOMAIN d
  BY <1>2 DEF Searched, Searches
<1>5. s.stack = <<>>
  <2> SUFFICES ASSUME s.stack # <<>> PROVE FALSE
    OBVIOUS
  <2>1. 1 + c * c + Len(s.stack) <= 1 + c * v
    BY <1>2, <1>3 DEF Searched, Rounds
  <2>2. c \in Nat /\ v \in Nat /\ v <= c
    BY <1>4, FS_Subset, FS_CardinalityType DEF Graph
  <2>3. Len(s.stack) \in Nat /\ Len(s.stack) > 0
    BY <1>4
  <2> HIDE DEF c, v
  <2>4. c * v <= c * c /\ c * v \in Nat /\ c * c \in Nat
    <3>1. c * c = c * v + c * (c - v) /\ c - v \in Nat
      BY <2>2
    <3>2. c * (c - v) \in Nat /\ c * v \in Nat /\ c * c \in Nat
      BY <2>2, <3>1
    <3> DEFINE a == c * c
               b == c * v
               e == c * (c - v)
    <3>3. a = b + e /\ a \in Nat /\ b \in Nat /\ e \in Nat
      BY <3>1, <3>2
    <3> HIDE DEF a, b, e
    <3>4. b <= a
      BY <3>3
    <3> QED BY <3>2, <3>4 DEF a, b
  <2> DEFINE a == c * c
             b == c * v
             l == Len(s.stack)
  <2>5. 1 + a + l <= 1 + b /\ b <= a /\ a \in Nat /\ b \in Nat
    BY <2>1, <2>4
  <2>6. l \in Nat /\ l > 0
    BY <2>3
  <2> HIDE DEF a, b, l
  <2> QED BY ONLY <2>5, <2>6
<1>6. \A x : ~Pending(s, x)
  BY <1>5 DEF Pending
<1>7. Closed(d, s.visited) /\ root \in s.visited /\ \A t \in s.visited : root \notin d[t]
  <2>1. \A t \in s.visited : root \notin d[t] /\ \A x \in d[t] : x \in s.visited \/ Pending(s, x)
    BY <1>2, <1>3 DEF Searched
  <2>2. root \in s.visited
    BY <1>2, <1>6 DEF Searched
  <2> QED BY <1>4, <1>6, <2>1, <2>2 DEF Closed
<1> QED BY <1>7

\* CheckCycles is right about every graph.
LEMMA CheckCyclesExact ==
  ASSUME NEW d, Graph(d)
  PROVE  CheckCycles(d) <=> ~Cyclic(d)
<1>1. ASSUME NEW root \in DOMAIN d, FindsRoot(d, root) PROVE Cyclic(d)
  BY <1>1, FindsRootSound
<1>2. ASSUME \A root \in DOMAIN d : ~FindsRoot(d, root) PROVE ~Cyclic(d)
  <2>1. \A root \in DOMAIN d : \E V : Closed(d, V) /\ root \in V /\ \A t \in V : root \notin d[t]
    BY <1>2, FindsRootComplete
  <2> QED BY <2>1, ClosedSetsNoCycle
<1> QED BY <1>1, <1>2 DEF CheckCycles

-----------------------------------------------------------------------------
(* 3. The tests that fixtures add.                                          *)

LEMMA FixtureTestsForSubset ==
  ASSUME NEW s \in Suite, NEW S \in SUBSET Test
  PROVE  FixtureTestsFor(s, S) \in SUBSET Test
  BY DEF FixtureTestsFor, FixtureTests, SetupsOf, CleanupsOf

\* A list brings all fixture tests it needs, or grows.
Grown(s, n, L) == FixtureTestsFor(s, L) \subseteq L \/ Cardinality(L) >= n

LEMMA AddFixtureTestsRecursion ==
  ASSUME NEW s \in Suite, NEW S \in SUBSET Test
  PROVE  \E list \in [0 .. Cardinality(Test) -> SUBSET Test] :
           /\ list[0] = S
           /\ \A n \in 1 .. Cardinality(Test) :
                list[n] = list[n - 1] \cup FixtureTestsFor(s, list[n - 1])
           /\ AddFixtureTests(s, S) = list[Cardinality(Test)]
<1> DEFINE N == Cardinality(Test)
           more(L) == L \cup FixtureTestsFor(s, L)
           move == [p \in (1 .. N) \X SUBSET Test |-> more(p[2])]
           Is(g) == g = [n \in 0 .. N |-> IF n = 0 THEN S ELSE more(g[n - 1])]
<1>1. N \in Nat
  BY SuitesAssumption, FS_CardinalityType
<1>2. \A L \in SUBSET Test : more(L) \in SUBSET Test
  BY FixtureTestsForSubset
<1>3. AddFixtureTests(s, S) = (CHOOSE g : Is(g))[N]
  BY DEF AddFixtureTests
<1> HIDE DEF N, more
<1>4. move \in [(1 .. N) \X SUBSET Test -> SUBSET Test]
  BY <1>2
<1>5. \A n \in 1 .. N, L \in SUBSET Test : move[<<n, L>>] = more(L)
  OBVIOUS
<1> HIDE DEF move
<1>6. PICK f \in [0 .. N -> SUBSET Test] : FollowsUpto(f, N, S, move)
  <2>1. S \in SUBSET Test
    OBVIOUS
  <2> QED BY <1>1, <1>4, <2>1, BoundedRecursion
<1>7. ASSUME NEW n \in 1 .. N PROVE f[n] = more(f[n - 1])
  <2>1. n - 1 \in 0 .. N
    BY <1>1
  <2> QED BY <1>5, <1>6, <2>1 DEF FollowsUpto
<1>8. Is(f)
  <2>1. f = [n \in 0 .. N |-> f[n]]
    OBVIOUS
  <2>2. \A n \in 0 .. N : f[n] = IF n = 0 THEN S ELSE more(f[n - 1])
    BY <1>1, <1>6, <1>7 DEF FollowsUpto
  <2> QED BY <2>1, <2>2
<1> DEFINE list == CHOOSE g : Is(g)
<1>9. Is(list)
  <2> HIDE DEF Is
  <2> QED BY <1>8
<1> HIDE DEF list
<1>10. list[0] = S /\ \A n \in 1 .. N : list[n] = more(list[n - 1])
  BY <1>1, <1>9
<1>11. \A n \in 0 .. N : list[n] \in SUBSET Test
  <2> DEFINE T == {n \in Nat : n <= N => list[n] \in SUBSET Test}
  <2>1. 0 \in T
    BY <1>10
  <2>2. ASSUME NEW n \in Nat, n \in T PROVE n + 1 \in T
    <3> SUFFICES ASSUME n + 1 <= N PROVE list[n + 1] \in SUBSET Test
      OBVIOUS
    <3>1. n + 1 \in 1 .. N /\ (n + 1) - 1 = n /\ list[n] \in SUBSET Test
      BY <1>1, <2>2
    <3> QED BY <1>2, <1>10, <3>1
  <2> HIDE DEF T
  <2>3. \A n \in Nat : n \in T
    BY <2>1, <2>2, SetInduction
  <2> QED BY <1>1, <2>3 DEF T
<1>12. list \in [0 .. N -> SUBSET Test]
  <2>1. list = [n \in 0 .. N |-> list[n]]
    BY <1>9 DEF Is
  <2> QED BY <1>11, <2>1
<1> HIDE DEF Is
<1> QED BY <1>3, <1>10, <1>12 DEF N, more, list

\* The closure: it holds S, what it needs, and no more.
LEMMA AddFixtureTestsExact ==
  ASSUME NEW s \in Suite, NEW S \in SUBSET Test
  PROVE  /\ AddFixtureTests(s, S) \in SUBSET Test /\ S \subseteq AddFixtureTests(s, S)
         /\ FixtureTestsFor(s, AddFixtureTests(s, S)) \subseteq AddFixtureTests(s, S)
         /\ \A P \in SUBSET Test : S \subseteq P /\ FixtureTestsFor(s, P) \subseteq P
              => AddFixtureTests(s, S) \subseteq P
<1> DEFINE N == Cardinality(Test)
<1>1. PICK list \in [0 .. N -> SUBSET Test] :
           /\ list[0] = S
           /\ \A n \in 1 .. N : list[n] = list[n - 1] \cup FixtureTestsFor(s, list[n - 1])
           /\ AddFixtureTests(s, S) = list[N]
  BY AddFixtureTestsRecursion
<1>2. N \in Nat /\ IsFiniteSet(Test)
  BY SuitesAssumption, FS_CardinalityType
<1>3. \A L \in SUBSET Test : IsFiniteSet(L) /\ Cardinality(L) \in Nat
  BY <1>2, FS_Subset, FS_CardinalityType
<1> DEFINE Good(n, L) == /\ S \subseteq L /\ Grown(s, n, L)
                         /\ \A P \in SUBSET Test : S \subseteq P /\ FixtureTestsFor(s, P) \subseteq P => L \subseteq P
           T == {n \in Nat : n <= N => Good(n, list[n])}
<1> HIDE DEF N
<1>4. 0 \in T
  <2>1. Cardinality(S) >= 0
    BY <1>3
  <2> QED BY <1>1, <2>1 DEF Grown
<1>5. ASSUME NEW n \in Nat, n \in T PROVE n + 1 \in T
  <2> SUFFICES ASSUME n + 1 <= N PROVE Good(n + 1, list[n + 1])
    OBVIOUS
  <2> DEFINE L == list[n]
  <2>1. n \in 0 .. N /\ n + 1 \in 1 .. N /\ (n + 1) - 1 = n
    BY <1>2
  <2>2. Good(n, L) /\ L \in SUBSET Test /\ list[n + 1] = L \cup FixtureTestsFor(s, L) /\ list[n + 1] \in SUBSET Test
    <3>1. Good(n, L)
      BY <1>2, <1>5
    <3>2. list[n + 1] = list[(n + 1) - 1] \cup FixtureTestsFor(s, list[(n + 1) - 1])
      BY <1>1, <2>1
    <3> QED BY <2>1, <3>1, <3>2
  <2> HIDE DEF L
  <2>3. \A P \in SUBSET Test : L \subseteq P => FixtureTestsFor(s, L) \subseteq FixtureTestsFor(s, P)
    BY DEF FixtureTestsFor
  <2>4. CASE FixtureTestsFor(s, L) \subseteq L
    <3>1. list[n + 1] = L
      BY <2>2, <2>4
    <3> QED BY <2>2, <2>4, <3>1 DEF Grown
  <2>5. CASE ~(FixtureTestsFor(s, L) \subseteq L)
    <3>1. PICK t : t \in FixtureTestsFor(s, L) /\ t \notin L
      BY <2>5
    <3>2. Cardinality(L \cup {t}) = Cardinality(L) + 1 /\ L \cup {t} \subseteq list[n + 1]
      BY <1>3, <2>2, <3>1, FS_AddElement
    <3>3. Cardinality(L \cup {t}) <= Cardinality(list[n + 1])
      BY <1>3, <2>2, <3>2, FS_Subset
    <3>4. Cardinality(L) >= n
      BY <2>2, <2>5 DEF Grown
    <3>5. Cardinality(list[n + 1]) >= n + 1
      BY <1>3, <2>2, <3>2, <3>3, <3>4
    <3> QED BY <2>2, <2>3, <3>5 DEF Grown
  <2> QED BY <2>4, <2>5
<1> HIDE DEF T
<1>6. \A n \in Nat : n \in T
  BY <1>4, <1>5, SetInduction
<1>7. Good(N, list[N])
  BY <1>2, <1>6 DEF T
<1>8. list[N] \in SUBSET Test
  BY <1>2
<1>9. FixtureTestsFor(s, list[N]) \subseteq list[N]
  <2>1. SUFFICES ASSUME Cardinality(list[N]) >= N PROVE FixtureTestsFor(s, list[N]) \subseteq list[N]
    BY <1>7 DEF Grown
  <2>2. list[N] = Test
    <3>1. Cardinality(list[N]) = Cardinality(Test)
      <4>1. Cardinality(list[N]) <= N
        BY <1>2, <1>8, FS_Subset DEF N
      <4> QED BY <1>2, <1>3, <1>8, <2>1, <4>1 DEF N
    <3> QED BY <1>2, <1>8, <3>1, FS_Subset
  <2>3. FixtureTestsFor(s, Test) \subseteq Test
    BY FixtureTestsForSubset
  <2> QED BY <2>2, <2>3
<1> QED BY <1>1, <1>7, <1>8, <1>9

-----------------------------------------------------------------------------
(* 4. Lists in which tests stand after the tests they depend on.            *)

Before(list, i, x) == \E j \in 1 .. i - 1 : list[j] = x

\* Each test of the list that is not free to stand anywhere has the tests it
\* depends on before it.
AfterDepends(d, free, list) ==
  /\ list \in Seq(DOMAIN d)
  /\ \A i \in 1 .. Len(list) : list[i] \in free \/ \A u \in d[list[i]] : Before(list, i, u)

Once(list) == \A i, j \in 1 .. Len(list) : list[i] = list[j] => i = j

LEMMA InRange ==
  ASSUME NEW S, NEW list \in Seq(S), NEW x
  PROVE  x \in Range(list) <=> \E i \in 1 .. Len(list) : list[i] = x
  BY DEF Range

LEMMA AppendRange ==
  ASSUME NEW S, NEW list \in Seq(S), NEW x \in S
  PROVE  Range(Append(list, x)) = Range(list) \cup {x}
<1>1. /\ Append(list, x) \in Seq(S) /\ Len(Append(list, x)) = Len(list) + 1
      /\ \A i \in 1 .. Len(list) : Append(list, x)[i] = list[i]
      /\ Append(list, x)[Len(list) + 1] = x
  BY AppendProperties
<1>2. \A y : y \in Range(Append(list, x)) <=> \E i \in 1 .. Len(list) + 1 : Append(list, x)[i] = y
  <2> DEFINE q == Append(list, x)
  <2>1. q \in Seq(S) /\ Len(q) = Len(list) + 1
    BY <1>1
  <2> HIDE DEF q
  <2>2. \A y : y \in Range(q) <=> \E i \in 1 .. Len(q) : q[i] = y
    BY <2>1, InRange
  <2> QED BY <2>1, <2>2 DEF q
<1>3. \A y : y \in Range(list) <=> \E i \in 1 .. Len(list) : list[i] = y
  BY InRange
<1>4. /\ \A i \in 1 .. Len(list) + 1 : i \in 1 .. Len(list) \/ i = Len(list) + 1
      /\ \A i \in 1 .. Len(list) : i \in 1 .. Len(list) + 1
      /\ Len(list) + 1 \in 1 .. Len(list) + 1
  OBVIOUS
<1>5. \A y : y \in Range(Append(list, x)) <=> y \in Range(list) \cup {x}
  BY <1>1, <1>2, <1>3, <1>4
<1> QED BY <1>5

LEMMA ConcatRange ==
  ASSUME NEW S, NEW q \in Seq(S), NEW r \in Seq(S)
  PROVE  Range(q \o r) = Range(q) \cup Range(r)
<1>1. /\ q \o r \in Seq(S) /\ Len(q \o r) = Len(q) + Len(r)
      /\ \A i \in 1 .. Len(q) + Len(r) : (q \o r)[i] = IF i <= Len(q) THEN q[i] ELSE r[i - Len(q)]
  BY ConcatProperties
<1>2. \A y : y \in Range(q \o r) <=> \E i \in 1 .. Len(q) + Len(r) : (q \o r)[i] = y
  BY <1>1, InRange
<1>3. \A y : (y \in Range(q) <=> \E i \in 1 .. Len(q) : q[i] = y)
             /\ (y \in Range(r) <=> \E i \in 1 .. Len(r) : r[i] = y)
  BY InRange
<1>4. Len(q) \in Nat /\ Len(r) \in Nat
  OBVIOUS
<1>5. ASSUME NEW y \in Range(q \o r) PROVE y \in Range(q) \cup Range(r)
  <2>1. PICK i \in 1 .. Len(q) + Len(r) : (q \o r)[i] = y
    BY <1>2
  <2>2. CASE i <= Len(q)
    BY <1>1, <1>3, <1>4, <2>1, <2>2
  <2>3. CASE i > Len(q)
    <3>1. i - Len(q) \in 1 .. Len(r) /\ r[i - Len(q)] = y
      BY <1>1, <1>4, <2>1, <2>3
    <3> QED BY <1>3, <3>1
  <2> QED BY <1>4, <2>2, <2>3
<1>6. ASSUME NEW y \in Range(q) PROVE y \in Range(q \o r)
  <2>1. PICK i \in 1 .. Len(q) : q[i] = y
    BY <1>3
  <2>2. i \in 1 .. Len(q) + Len(r) /\ i <= Len(q)
    BY <1>4
  <2> QED BY <1>1, <1>2, <2>1, <2>2
<1>7. ASSUME NEW y \in Range(r) PROVE y \in Range(q \o r)
  <2>1. PICK i \in 1 .. Len(r) : r[i] = y
    BY <1>3
  <2>2. Len(q) + i \in 1 .. Len(q) + Len(r) /\ ~(Len(q) + i <= Len(q)) /\ Len(q) + i - Len(q) = i
    BY <1>4
  <2>3. (q \o r)[Len(q) + i] = r[i]
    BY <1>1, <2>2
  <2> QED BY <1>2, <2>1, <2>2, <2>3
<1> QED BY <1>5, <1>6, <1>7

LEMMA AppendAfter ==
  ASSUME NEW d, NEW free, NEW list, AfterDepends(d, free, list),
         NEW x \in DOMAIN d, x \in free \/ d[x] \subseteq Range(list)
  PROVE  AfterDepends(d, free, Append(list, x))
<1> DEFINE q == Append(list, x)
<1>1. /\ list \in Seq(DOMAIN d) /\ Len(list) \in Nat
      /\ q \in Seq(DOMAIN d) /\ Len(q) = Len(list) + 1
      /\ \A i \in 1 .. Len(list) : q[i] = list[i]
      /\ q[Len(list) + 1] = x
  BY AppendProperties DEF AfterDepends
<1> HIDE DEF q
<1>2. ASSUME NEW i \in 1 .. Len(list), q[i] \notin free, NEW u \in d[q[i]] PROVE Before(q, i, u)
  <2>1. Before(list, i, u)
    BY <1>1, <1>2 DEF AfterDepends
  <2>2. PICK j \in 1 .. i - 1 : list[j] = u
    BY <2>1 DEF Before
  <2>3. j \in 1 .. Len(list)
    BY <1>1
  <2> QED BY <1>1, <2>2, <2>3 DEF Before
<1>3. ASSUME x \notin free, NEW u \in d[x] PROVE Before(q, Len(list) + 1, u)
  <2>1. u \in Range(list)
    BY <1>3
  <2>2. PICK j \in 1 .. Len(list) : list[j] = u
    BY <1>1, <2>1, InRange
  <2>3. j \in 1 .. (Len(list) + 1) - 1
    BY <1>1
  <2> QED BY <1>1, <2>2, <2>3 DEF Before
<1>4. \A i \in 1 .. Len(q) : i \in 1 .. Len(list) \/ i = Len(list) + 1
  BY <1>1
<1>5. \A i \in 1 .. Len(q) : q[i] \in free \/ \A u \in d[q[i]] : Before(q, i, u)
  BY <1>1, <1>2, <1>3, <1>4
<1>6. AfterDepends(d, free, q)
  BY <1>1, <1>5 DEF AfterDepends
<1> QED BY <1>6 DEF q

LEMMA ConcatAfter ==
  ASSUME NEW d, NEW free, NEW q, NEW r, AfterDepends(d, free, q), AfterDepends(d, free, r)
  PROVE  AfterDepends(d, free, q \o r)
<1> DEFINE list == q \o r
<1>1. /\ list \in Seq(DOMAIN d) /\ Len(list) = Len(q) + Len(r)
      /\ Len(q) \in Nat /\ Len(r) \in Nat
      /\ \A i \in 1 .. Len(q) + Len(r) : list[i] = IF i <= Len(q) THEN q[i] ELSE r[i - Len(q)]
  <2>1. q \in Seq(DOMAIN d) /\ r \in Seq(DOMAIN d)
    BY DEF AfterDepends
  <2> QED BY <2>1, ConcatProperties
<1> HIDE DEF list
<1>2. ASSUME NEW i \in 1 .. Len(list), list[i] \notin free, NEW u \in d[list[i]]
      PROVE  Before(list, i, u)
  <2>1. CASE i <= Len(q)
    <3>1. list[i] = q[i] /\ i \in 1 .. Len(q)
      BY <1>1, <2>1
    <3>2. Before(q, i, u)
      BY <1>2, <3>1 DEF AfterDepends
    <3>3. PICK j \in 1 .. i - 1 : q[j] = u
      BY <3>2 DEF Before
    <3>4. j \in 1 .. Len(q) + Len(r) /\ j <= Len(q)
      BY <1>1, <2>1
    <3>5. list[j] = u
      BY <1>1, <3>3, <3>4
    <3> QED BY <3>5 DEF Before
  <2>2. CASE ~(i <= Len(q))
    <3>1. list[i] = r[i - Len(q)] /\ i - Len(q) \in 1 .. Len(r)
      BY <1>1, <2>2
    <3>2. Before(r, i - Len(q), u)
      BY <1>2, <3>1 DEF AfterDepends
    <3>3. PICK j \in 1 .. (i - Len(q)) - 1 : r[j] = u
      BY <3>2 DEF Before
    <3>4. /\ j + Len(q) \in 1 .. Len(q) + Len(r) /\ ~(j + Len(q) <= Len(q))
          /\ j + Len(q) - Len(q) = j /\ j + Len(q) \in 1 .. i - 1
      BY <1>1
    <3>5. list[j + Len(q)] = r[j]
      BY <1>1, <3>4
    <3> QED BY <3>3, <3>4, <3>5 DEF Before
  <2> QED BY <2>1, <2>2
<1>3. AfterDepends(d, free, list)
  BY <1>1, <1>2 DEF AfterDepends
<1> QED BY <1>3 DEF list

LEMMA AppendOnce ==
  ASSUME NEW S, NEW list \in Seq(S), Once(list), NEW x \in S, x \notin Range(list)
  PROVE  Once(Append(list, x))
<1>1. /\ Len(Append(list, x)) = Len(list) + 1
      /\ \A i \in 1 .. Len(list) : Append(list, x)[i] = list[i]
      /\ Append(list, x)[Len(list) + 1] = x
  BY AppendProperties
<1>2. \A i \in 1 .. Len(list) : list[i] # x
  BY InRange
<1>3. \A i \in 1 .. Len(list) + 1 : i \in 1 .. Len(list) \/ i = Len(list) + 1
  OBVIOUS
<1> QED BY <1>1, <1>2, <1>3 DEF Once

-----------------------------------------------------------------------------
(* 5. Sorting by cost, and push_back of what is not in a list yet.          *)

LEMMA CostSortedLists ==
  ASSUME NEW S \in SUBSET Nat, IsFiniteSet(S), NEW c, \A t \in S : c[t] \in Nat
  PROVE  Lists(CostSorted(S, c), S)
<1> DEFINE R == {p \in S \X S : c[p[1]] > c[p[2]] \/ (c[p[1]] = c[p[2]] /\ p[1] < p[2])}
<1>1. \A t, u \in S : <<t, u>> \in R <=> c[t] > c[u] \/ (c[t] = c[u] /\ t < u)
  OBVIOUS
<1> HIDE DEF R
<1>2. \A t \in S : <<t, t>> \notin R
  BY <1>1
<1>3. \A t, u \in S : t = u \/ <<t, u>> \in R \/ <<u, t>> \in R
  <2> SUFFICES ASSUME NEW t \in S, NEW u \in S PROVE t = u \/ <<t, u>> \in R \/ <<u, t>> \in R
    OBVIOUS
  <2>1. t \in Nat /\ u \in Nat /\ c[t] \in Nat /\ c[u] \in Nat
    OBVIOUS
  <2> QED BY <1>1, <2>1
<1>4. \A t, u, v \in S : <<t, u>> \in R /\ <<u, v>> \in R => <<t, v>> \in R
  <2> SUFFICES ASSUME NEW t \in S, NEW u \in S, NEW v \in S, <<t, u>> \in R, <<u, v>> \in R
               PROVE  <<t, v>> \in R
    OBVIOUS
  <2>1. t \in Nat /\ u \in Nat /\ v \in Nat /\ c[t] \in Nat /\ c[u] \in Nat /\ c[v] \in Nat
    OBVIOUS
  <2> QED BY <1>1, <2>1
<1>5. CostSorted(S, c) = Ranked(S, Rank(S, R))
  <2>1. CostSorted(S, c)
        = Ranked(S, [u \in S |-> Cardinality({t \in S : c[t] > c[u] \/ (c[t] = c[u] /\ t < u)})])
    BY DEF CostSorted, Sorted
  <2>2. \A u \in S : {t \in S : c[t] > c[u] \/ (c[t] = c[u] /\ t < u)} = {t \in S : <<t, u>> \in R}
    BY <1>1
  <2>3. [u \in S |-> Cardinality({t \in S : c[t] > c[u] \/ (c[t] = c[u] /\ t < u)})] = Rank(S, R)
    BY <2>2 DEF Rank
  <2> QED BY <2>1, <2>3
<1> QED BY <1>2, <1>3, <1>4, <1>5, SortedSequence

LEMMA ListsRange ==
  ASSUME NEW S, NEW list, Lists(list, S)
  PROVE  list \in Seq(S) /\ Range(list) = S /\ Len(list) = Cardinality(S) /\ Once(list)
<1>1. list \in Seq(S) /\ Len(list) = Cardinality(S) /\ DOMAIN list = 1 .. Len(list)
  BY DEF Lists
<1> QED BY <1>1 DEF Lists, Once, Range

\* The elements of seq from the first one, if their dependencies are in the
\* list or stand before them in seq.
Ready(d, free, list, seq) ==
  \A k \in 1 .. Len(seq) : seq[k] \in free \/ \A u \in d[seq[k]] : u \in Range(list) \/ Before(seq, k, u)

Added(some, x) == IF x \in Range(some) THEN some ELSE Append(some, x)

LEMMA AppendNewRecursion ==
  ASSUME NEW S, NEW list \in Seq(S), NEW seq \in Seq(S)
  PROVE  \E sorted \in [0 .. Len(seq) -> Seq(S)] :
           /\ sorted[0] = list
           /\ \A k \in 1 .. Len(seq) : sorted[k] = Added(sorted[k - 1], seq[k])
           /\ AppendNew(list, seq) = sorted[Len(seq)]
<1> DEFINE N == Len(seq)
           L == Seq(S)
           move == [p \in (1 .. N) \X L |-> Added(p[2], seq[p[1]])]
           Is(g) == g = [k \in 0 .. N |-> IF k = 0 THEN list ELSE Added(g[k - 1], seq[k])]
<1>1. N \in Nat
  OBVIOUS
<1>2. \A k \in 1 .. N, l \in L : Added(l, seq[k]) \in L
  BY AppendProperties DEF Added
<1>3. AppendNew(list, seq) = (CHOOSE g : Is(g))[N]
  BY DEF AppendNew, Added
<1>4. list \in L
  OBVIOUS
<1> HIDE DEF N, L
<1>5. move \in [(1 .. N) \X L -> L] /\ \A k \in 1 .. N, l \in L : move[<<k, l>>] = Added(l, seq[k])
  BY <1>2
<1> HIDE DEF move
<1>6. PICK f \in [0 .. N -> L] : FollowsUpto(f, N, list, move)
  BY <1>1, <1>4, <1>5, BoundedRecursion
<1>7. ASSUME NEW k \in 1 .. N PROVE f[k] = Added(f[k - 1], seq[k])
  <2>1. k - 1 \in 0 .. N
    BY <1>1
  <2> QED BY <1>5, <1>6, <2>1 DEF FollowsUpto
<1>8. Is(f)
  <2>1. f = [k \in 0 .. N |-> f[k]]
    OBVIOUS
  <2>2. \A k \in 0 .. N : f[k] = IF k = 0 THEN list ELSE Added(f[k - 1], seq[k])
    BY <1>1, <1>6, <1>7 DEF FollowsUpto
  <2> QED BY <2>1, <2>2
<1> DEFINE sorted == CHOOSE g : Is(g)
<1>9. Is(sorted)
  <2> HIDE DEF Is
  <2> QED BY <1>8
<1> HIDE DEF sorted
<1>10. sorted[0] = list /\ \A k \in 1 .. N : sorted[k] = Added(sorted[k - 1], seq[k])
  BY <1>1, <1>9
<1>11. \A k \in 0 .. N : sorted[k] \in L
  <2> DEFINE T == {k \in Nat : k <= N => sorted[k] \in L}
  <2>1. 0 \in T
    BY <1>4, <1>10
  <2>2. ASSUME NEW k \in Nat, k \in T PROVE k + 1 \in T
    <3> SUFFICES ASSUME k + 1 <= N PROVE sorted[k + 1] \in L
      OBVIOUS
    <3>1. k + 1 \in 1 .. N /\ (k + 1) - 1 = k /\ sorted[k] \in L
      BY <1>1, <2>2
    <3> QED BY <1>2, <1>10, <3>1
  <2> HIDE DEF T
  <2>3. \A k \in Nat : k \in T
    BY <2>1, <2>2, SetInduction
  <2> QED BY <1>1, <2>3 DEF T
<1>12. sorted \in [0 .. N -> L]
  <2>1. sorted = [k \in 0 .. N |-> sorted[k]]
    BY <1>9 DEF Is
  <2> QED BY <1>11, <2>1
<1> HIDE DEF Is
<1> QED BY <1>3, <1>10, <1>12 DEF N, L, sorted

LEMMA AppendNewOrdered ==
  ASSUME NEW d, NEW free, NEW list, AfterDepends(d, free, list), Once(list),
         NEW seq \in Seq(DOMAIN d), Ready(d, free, list, seq)
  PROVE  /\ AfterDepends(d, free, AppendNew(list, seq)) /\ Once(AppendNew(list, seq))
         /\ Range(AppendNew(list, seq)) = Range(list) \cup Range(seq)
<1> DEFINE N == Len(seq)
           D == DOMAIN d
<1>1. list \in Seq(D)
  BY DEF AfterDepends
<1>2. PICK sorted \in [0 .. N -> Seq(D)] :
           /\ sorted[0] = list
           /\ \A k \in 1 .. N : sorted[k] = Added(sorted[k - 1], seq[k])
           /\ AppendNew(list, seq) = sorted[N]
  BY <1>1, AppendNewRecursion
<1>3. N \in Nat /\ \A k \in 1 .. N : seq[k] \in D
  OBVIOUS
<1> DEFINE Good(k, l) == /\ AfterDepends(d, free, l) /\ Once(l)
                         /\ Range(l) = Range(list) \cup {seq[j] : j \in 1 .. k}
           T == {k \in Nat : k <= N => Good(k, sorted[k])}
<1> HIDE DEF N, D
<1>4. 0 \in T
  BY <1>2
<1>5. ASSUME NEW k \in Nat, k \in T PROVE k + 1 \in T
  <2> SUFFICES ASSUME k + 1 <= N PROVE Good(k + 1, sorted[k + 1])
    OBVIOUS
  <2> DEFINE l == sorted[k]
             x == seq[k + 1]
  <2>1. k + 1 \in 1 .. N /\ (k + 1) - 1 = k /\ k \in 0 .. N
    BY <1>3
  <2>2. Good(k, l) /\ l \in Seq(D) /\ sorted[k + 1] = Added(l, x) /\ x \in D
    <3>1. sorted[k + 1] = Added(sorted[(k + 1) - 1], seq[k + 1])
      BY <1>2, <2>1
    <3>2. Good(k, l)
      BY <1>3, <1>5
    <3>3. x \in D
      BY <1>3, <2>1
    <3> QED BY <1>2, <2>1, <3>1, <3>2, <3>3
  <2>3. x \in free \/ d[x] \subseteq Range(l)
    <3> SUFFICES ASSUME x \notin free, NEW u \in d[x], u \notin Range(list) PROVE u \in Range(l)
      BY <2>2
    <3>1. Before(seq, k + 1, u)
      BY <2>1 DEF Ready, N
    <3>2. PICK j \in 1 .. (k + 1) - 1 : seq[j] = u
      BY <3>1 DEF Before
    <3> QED BY <2>1, <2>2, <3>2
  <2>4. {seq[j] : j \in 1 .. k + 1} = {seq[j] : j \in 1 .. k} \cup {x}
    <3>1. \A j \in 1 .. k + 1 : j \in 1 .. k \/ j = k + 1
      BY <2>1
    <3>2. (\A j \in 1 .. k : j \in 1 .. k + 1) /\ k + 1 \in 1 .. k + 1
      BY <2>1
    <3> QED BY <3>1, <3>2
  <2> HIDE DEF l, x
  <2>5. CASE x \in Range(l)
    <3>1. sorted[k + 1] = l
      BY <2>2, <2>5 DEF Added
    <3>2. Range(l) = Range(list) \cup {seq[j] : j \in 1 .. k + 1}
      BY <2>2, <2>4, <2>5
    <3> QED BY <2>2, <3>1, <3>2
  <2>6. CASE x \notin Range(l)
    <3>1. sorted[k + 1] = Append(l, x)
      BY <2>2, <2>6 DEF Added
    <3>2. AfterDepends(d, free, Append(l, x))
      BY <2>2, <2>3, AppendAfter DEF D
    <3>3. Once(Append(l, x))
      BY <2>2, <2>6, AppendOnce
    <3>4. Range(Append(l, x)) = Range(l) \cup {x}
      BY <2>2, AppendRange
    <3> QED BY <2>2, <2>4, <3>1, <3>2, <3>3, <3>4
  <2> QED BY <2>5, <2>6
<1> HIDE DEF T
<1>6. \A k \in Nat : k \in T
  BY <1>4, <1>5, SetInduction
<1>7. Good(N, sorted[N])
  <2> HIDE DEF Good
  <2>1. N \in T
    BY <1>3, <1>6
  <2>2. N <= N
    BY <1>3
  <2> QED BY <2>1, <2>2 DEF T
<1>8. {seq[j] : j \in 1 .. N} = Range(seq)
  BY DEF Range, N
<1> QED BY <1>2, <1>7, <1>8

-----------------------------------------------------------------------------
(* 6. The order of a parallel run.                                          *)

\* In a finite set, what next gives step after step from all elements gets less
\* each time, if it keeps no set whole: none all of whose elements come from it.
LEMMA Fading ==
  ASSUME NEW D, IsFiniteSet(D), NEW next \in [D -> SUBSET D],
         \A V \in SUBSET D : (\A t \in V : \E u \in V : t \in next[u]) => V = {}
  PROVE  \E A \in [0 .. Cardinality(D) -> SUBSET D] :
           /\ A[0] = D
           /\ \A n \in 1 .. Cardinality(D) : A[n] = UNION {next[t] : t \in A[n - 1]}
           /\ A[Cardinality(D)] = {}
<1> DEFINE N == Cardinality(D)
           all(S) == UNION {next[t] : t \in S}
           move == [p \in (1 .. N) \X SUBSET D |-> all(p[2])]
<1>1. N \in Nat
  BY FS_CardinalityType
<1>2. \A S \in SUBSET D : all(S) \in SUBSET D /\ IsFiniteSet(S) /\ Cardinality(S) \in Nat
  BY FS_Subset, FS_CardinalityType
<1>3. \A S, V \in SUBSET D : S \subseteq V => all(S) \subseteq all(V)
  OBVIOUS
<1>4. \A V \in SUBSET D : V = all(V) => V = {}
  <2> SUFFICES ASSUME NEW V \in SUBSET D, V = all(V) PROVE V = {}
    OBVIOUS
  <2>1. \A t \in V : \E u \in V : t \in next[u]
    OBVIOUS
  <2> QED BY <2>1
<1> HIDE DEF N, all
<1>5. move \in [(1 .. N) \X SUBSET D -> SUBSET D] /\ \A n \in 1 .. N, S \in SUBSET D : move[<<n, S>>] = all(S)
  BY <1>2
<1> HIDE DEF move
<1>6. PICK A \in [0 .. N -> SUBSET D] : FollowsUpto(A, N, D, move)
  <2>1. D \in SUBSET D
    OBVIOUS
  <2> QED BY <1>1, <1>5, <2>1, BoundedRecursion
<1>7. A[0] = D /\ \A n \in 1 .. N : A[n] = all(A[n - 1])
  <2>1. \A n \in 1 .. N : n - 1 \in 0 .. N
    BY <1>1
  <2>2. A[0] = D /\ \A n \in 1 .. N : A[n] = move[<<n, A[n - 1]>>]
    BY <1>6 DEF FollowsUpto
  <2>3. \A n \in 1 .. N : A[n - 1] \in SUBSET D
    BY <2>1
  <2> QED BY <1>5, <2>2, <2>3, ZenonT(30)
<1> DEFINE T == {n \in Nat : n <= N => all(A[n]) \subseteq A[n] /\ Cardinality(A[n]) <= N - n}
<1>8. 0 \in T
  <2>1. all(D) \subseteq D /\ Cardinality(D) <= N - 0
    BY <1>1, <1>2 DEF N
  <2> QED BY <1>7, <2>1
<1>9. ASSUME NEW n \in Nat, n \in T PROVE n + 1 \in T
  <2> SUFFICES ASSUME n + 1 <= N
               PROVE  all(A[n + 1]) \subseteq A[n + 1] /\ Cardinality(A[n + 1]) <= N - (n + 1)
    OBVIOUS
  <2>1. n \in 0 .. N /\ n + 1 \in 1 .. N /\ (n + 1) - 1 = n
    BY <1>1
  <2>2. A[n + 1] = all(A[n]) /\ A[n] \in SUBSET D /\ A[n + 1] \in SUBSET D
    <3>1. A[n + 1] = all(A[(n + 1) - 1])
      BY <1>7, <2>1
    <3> QED BY <1>1, <2>1, <3>1
  <2>3. all(A[n]) \subseteq A[n] /\ Cardinality(A[n]) <= N - n
    BY <1>1, <1>9
  <2>4. all(A[n + 1]) \subseteq A[n + 1]
    BY <1>3, <2>2, <2>3
  <2>5. Cardinality(A[n + 1]) <= N - (n + 1)
    <3>1. CASE A[n + 1] = A[n]
      <4>1. A[n + 1] = {}
        BY <1>4, <2>2, <3>1
      <4>2. Cardinality(A[n + 1]) = 0
        BY <4>1, FS_EmptySet
      <4> QED BY <1>1, <2>1, <4>2
    <3>2. CASE A[n + 1] # A[n]
      <4>1. PICK t : t \in A[n] /\ t \notin A[n + 1]
        BY <2>2, <2>3, <3>2
      <4>2. IsFiniteSet(A[n] \ {t}) /\ Cardinality(A[n] \ {t}) = Cardinality(A[n]) - 1
        BY <1>2, <2>2, <4>1, FS_RemoveElement
      <4>3. A[n + 1] \subseteq A[n] \ {t}
        BY <2>2, <2>3, <4>1
      <4>4. Cardinality(A[n + 1]) <= Cardinality(A[n]) - 1
        BY <4>2, <4>3, FS_Subset
      <4>5. Cardinality(A[n]) \in Nat /\ Cardinality(A[n + 1]) \in Nat
        BY <1>2, <2>2
      <4> QED BY <1>1, <2>3, <4>4, <4>5
    <3> QED BY <3>1, <3>2
  <2> QED BY <2>4, <2>5
<1> HIDE DEF T
<1>10. \A n \in Nat : n \in T
  BY <1>8, <1>9, SetInduction
<1>11. Cardinality(A[N]) <= N - N /\ A[N] \in SUBSET D
  <2>1. N \in 0 .. N
    BY <1>1
  <2> QED BY <1>1, <1>10, <2>1 DEF T
<1>12. A[N] = {}
  <2>1. IsFiniteSet(A[N]) /\ Cardinality(A[N]) = 0
    BY <1>1, <1>2, <1>11
  <2> QED BY <2>1, FS_EmptySet
<1> QED BY <1>7, <1>12 DEF N, all

\* The levels: what is reached from the tests on top, down to the level below
\* as many as there are tests.
Reaches(d, top, reached) ==
  /\ reached \in [0 .. Cardinality(DOMAIN d) + 1 -> SUBSET DOMAIN d]
  /\ reached[0] = top
  /\ \A n \in 1 .. Cardinality(DOMAIN d) + 1 : reached[n] = UNION {d[t] : t \in reached[n - 1]}

IsStack(d, top, reached, levels) ==
  /\ Reaches(d, top, reached)
  /\ \A n \in 0 .. Cardinality(DOMAIN d) : levels[n] = reached[n] \ reached[n + 1]

LEMMA PriorityStackLevels ==
  ASSUME NEW d, Graph(d), NEW top \in SUBSET DOMAIN d
  PROVE  \E reached : IsStack(d, top, reached, PriorityStack(d, top))
<1> DEFINE D == DOMAIN d
           last == Cardinality(D)
           N == last + 1
           all(S) == UNION {d[t] : t \in S}
           move == [p \in (1 .. N) \X SUBSET D |-> all(p[2])]
           Is(g) == g = [n \in 0 .. N |-> IF n = 0 THEN top ELSE all(g[n - 1])]
<1>1. last \in Nat /\ N \in Nat
  BY FS_CardinalityType DEF Graph
<1>2. \A S \in SUBSET D : all(S) \in SUBSET D
  BY DEF Graph
<1>3. PriorityStack(d, top) = [n \in 0 .. last |-> (CHOOSE g : Is(g))[n] \ (CHOOSE g : Is(g))[n + 1]]
  BY DEF PriorityStack
<1> HIDE DEF N, all
<1>4. move \in [(1 .. N) \X SUBSET D -> SUBSET D] /\ \A n \in 1 .. N, S \in SUBSET D : move[<<n, S>>] = all(S)
  BY <1>2
<1> HIDE DEF move
<1>5. PICK f \in [0 .. N -> SUBSET D] : FollowsUpto(f, N, top, move)
  BY <1>1, <1>4, BoundedRecursion
<1>6. ASSUME NEW n \in 1 .. N PROVE f[n] = all(f[n - 1])
  <2>1. n - 1 \in 0 .. N
    BY <1>1
  <2> QED BY <1>4, <1>5, <2>1 DEF FollowsUpto
<1>7. Is(f)
  <2>1. f = [n \in 0 .. N |-> f[n]]
    OBVIOUS
  <2>2. \A n \in 0 .. N : f[n] = IF n = 0 THEN top ELSE all(f[n - 1])
    BY <1>1, <1>5, <1>6 DEF FollowsUpto
  <2> QED BY <2>1, <2>2
<1> DEFINE reached == CHOOSE g : Is(g)
<1>8. Is(reached)
  <2> HIDE DEF Is
  <2> QED BY <1>7
<1> HIDE DEF reached
<1>9. reached[0] = top /\ \A n \in 1 .. N : reached[n] = all(reached[n - 1])
  BY <1>1, <1>8
<1>10. \A n \in 0 .. N : reached[n] \in SUBSET D
  <2> DEFINE T == {n \in Nat : n <= N => reached[n] \in SUBSET D}
  <2>1. 0 \in T
    BY <1>9
  <2>2. ASSUME NEW n \in Nat, n \in T PROVE n + 1 \in T
    <3> SUFFICES ASSUME n + 1 <= N PROVE reached[n + 1] \in SUBSET D
      OBVIOUS
    <3>1. n + 1 \in 1 .. N /\ (n + 1) - 1 = n /\ reached[n] \in SUBSET D
      BY <1>1, <2>2
    <3> QED BY <1>2, <1>9, <3>1
  <2> HIDE DEF T
  <2>3. \A n \in Nat : n \in T
    BY <2>1, <2>2, SetInduction
  <2> QED BY <1>1, <2>3 DEF T
<1>11. reached \in [0 .. N -> SUBSET D]
  <2>1. reached = [n \in 0 .. N |-> reached[n]]
    BY <1>8 DEF Is
  <2> QED BY <1>10, <2>1
<1> HIDE DEF Is
<1>12. Reaches(d, top, reached)
  BY <1>9, <1>11 DEF Reaches, N, all
<1>13. \A n \in 0 .. last : PriorityStack(d, top)[n] = reached[n] \ reached[n + 1]
  BY <1>3 DEF reached
<1>14. IsStack(d, top, reached, PriorityStack(d, top))
  BY <1>12, <1>13 DEF IsStack
<1> QED BY <1>14

\* They end if there is no cycle.
LEMMA LevelsEnd ==
  ASSUME NEW d, Graph(d), ~Cyclic(d), NEW top, NEW reached, Reaches(d, top, reached)
  PROVE  reached[Cardinality(DOMAIN d) + 1] = {}
<1> DEFINE D == DOMAIN d
           N == Cardinality(D)
           next == [t \in D |-> d[t]]
<1>1. N \in Nat /\ IsFiniteSet(D) /\ next \in [D -> SUBSET D]
  BY FS_CardinalityType DEF Graph
<1>2. \A V \in SUBSET D : (\A t \in V : \E u \in V : t \in next[u]) => V = {}
  BY PredecessorCycle
<1> DEFINE Fades(A) == A[0] = D /\ (\A n \in 1 .. N : A[n] = UNION {next[t] : t \in A[n - 1]}) /\ A[N] = {}
<1>3. PICK A \in [0 .. N -> SUBSET D] : Fades(A)
  <2> HIDE DEF D, next
  <2> QED BY <1>1, <1>2, Fading
<1>4. reached \in [0 .. N + 1 -> SUBSET D] /\ \A n \in 1 .. N + 1 : reached[n] = UNION {d[t] : t \in reached[n - 1]}
  BY DEF Reaches
<1>5. \A S \in SUBSET D : UNION {next[t] : t \in S} = UNION {d[t] : t \in S}
  OBVIOUS
<1> HIDE DEF D, N, next
<1> DEFINE T == {n \in Nat : n <= N => reached[n] \subseteq A[n]}
<1>6. 0 \in T
  BY <1>1, <1>3, <1>4
<1>7. ASSUME NEW n \in Nat, n \in T PROVE n + 1 \in T
  <2> SUFFICES ASSUME n + 1 <= N PROVE reached[n + 1] \subseteq A[n + 1]
    OBVIOUS
  <2>1. n + 1 \in 1 .. N /\ n + 1 \in 1 .. N + 1 /\ (n + 1) - 1 = n /\ n \in 0 .. N
    BY <1>1
  <2>2. A[n + 1] = UNION {d[t] : t \in A[n]}
    <3>1. A[n + 1] = UNION {next[t] : t \in A[(n + 1) - 1]}
      BY <1>3, <2>1
    <3>2. A[n] \in SUBSET D
      BY <1>3, <2>1
    <3> QED BY <1>5, <2>1, <3>1, <3>2
  <2>3. reached[n + 1] = UNION {d[t] : t \in reached[n]}
    <3>1. reached[n + 1] = UNION {d[t] : t \in reached[(n + 1) - 1]}
      BY <1>4, <2>1
    <3> QED BY <2>1, <3>1
  <2>4. reached[n] \subseteq A[n]
    BY <1>1, <1>7
  <2> QED BY <2>2, <2>3, <2>4
<1> HIDE DEF T
<1>8. \A n \in Nat : n \in T
  BY <1>6, <1>7, SetInduction
<1>9. reached[N] = {}
  BY <1>1, <1>3, <1>8 DEF T
<1>10. N + 1 \in 1 .. N + 1 /\ (N + 1) - 1 = N
  BY <1>1
<1>11. reached[N + 1] = UNION {d[t] : t \in reached[(N + 1) - 1]}
  BY <1>4, <1>10
<1> QED BY <1>9, <1>10, <1>11 DEF N, D

LEMMA AppendNewType ==
  ASSUME NEW S, NEW list \in Seq(S), NEW seq \in Seq(S)
  PROVE  AppendNew(list, seq) \in Seq(S)
<1>1. PICK sorted \in [0 .. Len(seq) -> Seq(S)] : AppendNew(list, seq) = sorted[Len(seq)]
  BY AppendNewRecursion
<1>2. Len(seq) \in 0 .. Len(seq)
  OBVIOUS
<1> QED BY <1>1, <1>2

\* The list after each level, the deepest first.
Parallel(d, c, failed, levels, sorted) ==
  /\ sorted \in [0 .. Cardinality(DOMAIN d) + 1 -> Seq(DOMAIN d)]
  /\ sorted[0] = Ascending(failed \cap DOMAIN d)
  /\ \A n \in 1 .. Cardinality(DOMAIN d) + 1 :
       sorted[n] = AppendNew(sorted[n - 1], CostSorted(levels[Cardinality(DOMAIN d) + 1 - n], c))
  /\ CreateParallelTestCostList(d, c, failed) = sorted[Cardinality(DOMAIN d) + 1]

LevelsOf(d, levels) == \A n \in 0 .. Cardinality(DOMAIN d) : levels[n] \in SUBSET DOMAIN d

LEMMA CreateParallelRecursion ==
  ASSUME NEW d, Graph(d), NEW c, \A t \in DOMAIN d : c[t] \in Nat, NEW failed,
         LevelsOf(d, PriorityStack(d, DOMAIN d \ failed))
  PROVE  \E sorted : Parallel(d, c, failed, PriorityStack(d, DOMAIN d \ failed), sorted)
<1> DEFINE levels == PriorityStack(d, DOMAIN d \ failed)
           last == Cardinality(DOMAIN d)
           N == last + 1
           L == Seq(DOMAIN d)
           base == Ascending(failed \cap DOMAIN d)
           more(n, l) == AppendNew(l, CostSorted(levels[last + 1 - n], c))
           move == [p \in (1 .. N) \X L |-> more(p[1], p[2])]
           Is(g) == g = [n \in 0 .. N |-> IF n = 0 THEN base ELSE more(n, g[n - 1])]
<1>1. last \in Nat /\ N \in Nat
  BY FS_CardinalityType DEF Graph
<1>2. \A n \in 1 .. N, l \in L : more(n, l) \in L
  <2> SUFFICES ASSUME NEW n \in 1 .. N, NEW l \in L PROVE more(n, l) \in L
    OBVIOUS
  <2> DEFINE S == levels[last + 1 - n]
  <2>1. last + 1 - n \in 0 .. last
    BY <1>1
  <2>2. S \in SUBSET DOMAIN d
    BY <2>1 DEF LevelsOf
  <2>3. S \in SUBSET Nat /\ IsFiniteSet(S) /\ \A t \in S : c[t] \in Nat
    BY <2>2, FS_Subset DEF Graph
  <2> HIDE DEF S
  <2>4. Lists(CostSorted(S, c), S)
    BY <2>3, CostSortedLists
  <2>5. CostSorted(S, c) \in Seq(S)
    BY <2>4, ListsRange
  <2>6. CostSorted(S, c) \in L
    BY <2>2, <2>5
  <2> QED BY <2>6, AppendNewType DEF S
<1>3. CreateParallelTestCostList(d, c, failed) = (CHOOSE g : Is(g))[N]
  BY DEF CreateParallelTestCostList
<1>4. base \in L
  <2>1. failed \cap DOMAIN d \in SUBSET Int /\ IsFiniteSet(failed \cap DOMAIN d)
    BY FS_Subset DEF Graph
  <2>2. Lists(base, failed \cap DOMAIN d)
    BY <2>1, AscendingSequence
  <2>3. base \in Seq(failed \cap DOMAIN d)
    BY <2>2, ListsRange
  <2> QED BY <2>3
<1> HIDE DEF N, L, base, more, levels
<1>5. move \in [(1 .. N) \X L -> L] /\ \A n \in 1 .. N, l \in L : move[<<n, l>>] = more(n, l)
  BY <1>2
<1> HIDE DEF move
<1>6. PICK f \in [0 .. N -> L] : FollowsUpto(f, N, base, move)
  BY <1>1, <1>4, <1>5, BoundedRecursion
<1>7. ASSUME NEW n \in 1 .. N PROVE f[n] = more(n, f[n - 1])
  <2>1. n - 1 \in 0 .. N
    BY <1>1
  <2> QED BY <1>5, <1>6, <2>1 DEF FollowsUpto
<1>8. Is(f)
  <2>1. f = [n \in 0 .. N |-> f[n]]
    OBVIOUS
  <2>2. \A n \in 0 .. N : f[n] = IF n = 0 THEN base ELSE more(n, f[n - 1])
    BY <1>1, <1>6, <1>7 DEF FollowsUpto
  <2> QED BY <2>1, <2>2
<1> DEFINE sorted == CHOOSE g : Is(g)
<1>9. Is(sorted)
  <2> HIDE DEF Is
  <2> QED BY <1>8
<1> HIDE DEF sorted
<1>10. sorted[0] = base /\ \A n \in 1 .. N : sorted[n] = more(n, sorted[n - 1])
  BY <1>1, <1>9
<1>11. \A n \in 0 .. N : sorted[n] \in L
  <2> DEFINE T == {n \in Nat : n <= N => sorted[n] \in L}
  <2>1. 0 \in T
    BY <1>4, <1>10
  <2>2. ASSUME NEW n \in Nat, n \in T PROVE n + 1 \in T
    <3> SUFFICES ASSUME n + 1 <= N PROVE sorted[n + 1] \in L
      OBVIOUS
    <3>1. n + 1 \in 1 .. N /\ (n + 1) - 1 = n /\ sorted[n] \in L
      BY <1>1, <2>2
    <3> QED BY <1>2, <1>10, <3>1
  <2> HIDE DEF T
  <2>3. \A n \in Nat : n \in T
    BY <2>1, <2>2, SetInduction
  <2> QED BY <1>1, <2>3 DEF T
<1>12. sorted \in [0 .. N -> L]
  <2>1. sorted = [n \in 0 .. N |-> sorted[n]]
    BY <1>9 DEF Is
  <2> QED BY <1>11, <2>1
<1> HIDE DEF Is
<1>13. CreateParallelTestCostList(d, c, failed) = sorted[N]
  BY <1>3 DEF sorted
<1>14. Parallel(d, c, failed, levels, sorted)
  BY <1>10, <1>12, <1>13 DEF Parallel, N, L, base, more
<1> QED BY <1>14 DEF levels

\* A list of all tests once, with the tests that a test depends on before it.
OrderOf(d, free, list) ==
  AfterDepends(d, free, list) /\ Once(list) /\ Range(list) = DOMAIN d

LEMMA CreateParallelOrders ==
  ASSUME NEW d, Graph(d), ~Cyclic(d), NEW c, \A t \in DOMAIN d : c[t] \in Nat, NEW failed
  PROVE  OrderOf(d, failed, CreateParallelTestCostList(d, c, failed))
<1> DEFINE D == DOMAIN d
           last == Cardinality(D)
           N == last + 1
           top == D \ failed
           levels == PriorityStack(d, top)
<1>1. PICK reached : IsStack(d, top, reached, levels)
  <2>1. top \in SUBSET DOMAIN d
    OBVIOUS
  <2> HIDE DEF top
  <2> QED BY <2>1, PriorityStackLevels
<1>2. last \in Nat /\ N \in Nat
  BY FS_CardinalityType DEF Graph
<1>3. reached[N] = {}
  <2> HIDE DEF top
  <2> QED BY <1>1, LevelsEnd DEF IsStack
<1>4. /\ reached \in [0 .. N -> SUBSET D] /\ reached[0] = top
      /\ \A n \in 1 .. N : reached[n] = UNION {d[t] : t \in reached[n - 1]}
  BY <1>1 DEF IsStack, Reaches
<1>5. \A n \in 0 .. last : levels[n] \in SUBSET D
  <2>1. \A n \in 0 .. last : n \in 0 .. N
    BY <1>2
  <2> HIDE DEF levels, N
  <2> QED BY <1>1, <1>4, <2>1 DEF IsStack
<1>6. PICK sorted : Parallel(d, c, failed, levels, sorted)
  <2>1. LevelsOf(d, levels)
    BY <1>5 DEF LevelsOf
  <2> QED BY <2>1, CreateParallelRecursion
<1>7. /\ sorted \in [0 .. N -> Seq(D)]
       /\ sorted[0] = Ascending(failed \cap D)
       /\ \A n \in 1 .. N : sorted[n] = AppendNew(sorted[n - 1], CostSorted(levels[last + 1 - n], c))
       /\ CreateParallelTestCostList(d, c, failed) = sorted[N]
  <2> HIDE DEF levels
  <2> QED BY <1>6 DEF Parallel
<1> DEFINE Good(n) == /\ AfterDepends(d, failed, sorted[n]) /\ Once(sorted[n])
                      /\ reached[N - n] \subseteq Range(sorted[n])
                      /\ failed \cap D \subseteq Range(sorted[n])
           T == {n \in Nat : n <= N => Good(n)}
<1> HIDE DEF levels, top
<1>8. 0 \in T
  <2>1. failed \cap D \in SUBSET Int /\ IsFiniteSet(failed \cap D)
    BY FS_Subset DEF Graph
  <2>2. Lists(sorted[0], failed \cap D)
    BY <1>7, <2>1, AscendingSequence
  <2>3. sorted[0] \in Seq(failed \cap D) /\ Range(sorted[0]) = failed \cap D /\ Once(sorted[0])
    BY <2>2, ListsRange
  <2>4. AfterDepends(d, failed, sorted[0])
    <3>1. \A i \in 1 .. Len(sorted[0]) : sorted[0][i] \in failed
      BY <2>3
    <3>2. sorted[0] \in Seq(DOMAIN d)
      BY <2>3
    <3> QED BY <3>1, <3>2 DEF AfterDepends
  <2>5. N - 0 = N
    BY <1>2
  <2>6. Good(0)
    BY <1>3, <2>3, <2>4, <2>5
  <2> HIDE DEF Good
  <2> QED BY <2>6
<1>9. ASSUME NEW n \in Nat, n \in T PROVE n + 1 \in T
  <2> SUFFICES ASSUME n + 1 <= N PROVE Good(n + 1)
    OBVIOUS
  <2> DEFINE l == sorted[n]
             k == last - n
             S == levels[k]
             seq == CostSorted(S, c)
  <2>1. /\ n + 1 \in 1 .. N /\ (n + 1) - 1 = n /\ n \in 0 .. N /\ last + 1 - (n + 1) = k
        /\ k \in 0 .. last /\ k + 1 \in 1 .. N /\ (k + 1) - 1 = k /\ N - n = k + 1 /\ N - (n + 1) = k
    BY <1>2
  <2>2. Good(n) /\ l \in Seq(D)
    <3>1. Good(n)
      <4> HIDE DEF Good
      <4>1. n <= N
        BY <1>2
      <4> QED BY <1>9, <4>1
    <3> QED BY <1>7, <2>1, <3>1
  <2>3. sorted[n + 1] = AppendNew(l, seq)
    <3>1. sorted[n + 1] = AppendNew(sorted[(n + 1) - 1], CostSorted(levels[last + 1 - (n + 1)], c))
      BY <1>7, <2>1
    <3> QED BY <2>1, <3>1
  <2>4. S = reached[k] \ reached[k + 1] /\ S \in SUBSET D
    BY <1>1, <1>5, <2>1 DEF IsStack
  <2>5. reached[k + 1] = UNION {d[t] : t \in reached[k]}
    <3>1. reached[k + 1] = UNION {d[t] : t \in reached[(k + 1) - 1]}
      BY <1>4, <2>1
    <3> QED BY <2>1, <3>1
  <2>6. reached[k + 1] \subseteq Range(l) /\ failed \cap D \subseteq Range(l)
        /\ AfterDepends(d, failed, l) /\ Once(l)
    BY <2>1, <2>2
  <2> HIDE DEF l, k, N
  <2>7. S \in SUBSET Nat /\ IsFiniteSet(S) /\ \A t \in S : c[t] \in Nat
    BY <2>4, FS_Subset DEF Graph
  <2> HIDE DEF S
  <2>8. Lists(seq, S)
    BY <2>7, CostSortedLists
  <2> HIDE DEF seq
  <2>9. seq \in Seq(S) /\ Range(seq) = S
    BY <2>8, ListsRange
  <2>10. seq \in Seq(DOMAIN d)
    BY <2>4, <2>9
  <2>11. Ready(d, failed, l, seq)
    <3>1. ASSUME NEW i \in 1 .. Len(seq), NEW u \in d[seq[i]] PROVE u \in Range(l)
      <4>1. seq[i] \in S
        BY <2>9
      <4> QED BY <2>4, <2>5, <2>6, <4>1
    <3> QED BY <3>1 DEF Ready
  <2>12. /\ AfterDepends(d, failed, AppendNew(l, seq)) /\ Once(AppendNew(l, seq))
         /\ Range(AppendNew(l, seq)) = Range(l) \cup Range(seq)
    BY <2>6, <2>10, <2>11, AppendNewOrdered
  <2>13. reached[k] \subseteq Range(l) \cup Range(seq)
    BY <2>4, <2>6, <2>9
  <2>14. N - (n + 1) = k
    BY <2>1 DEF k
  <2> QED BY <2>3, <2>6, <2>12, <2>13, <2>14
<1> HIDE DEF T
<1>10. \A n \in Nat : n \in T
  BY <1>8, <1>9, SetInduction
<1>11. Good(N)
  <2> HIDE DEF Good
  <2>1. N \in T /\ N <= N
    BY <1>2, <1>10
  <2> QED BY <2>1 DEF T
<1>12. reached[0] \subseteq Range(sorted[N])
  <2>1. N - N = 0
    BY <1>2
  <2> QED BY <1>11, <2>1
<1>13. Range(sorted[N]) = D
  <2>1. sorted[N] \in Seq(D)
    BY <1>2, <1>7
  <2>2. Range(sorted[N]) \subseteq D
    BY <2>1 DEF Range
  <2> QED BY <1>4, <1>11, <1>12, <2>2 DEF top
<1>14. AfterDepends(d, failed, sorted[N]) /\ Once(sorted[N])
  BY ONLY <1>11
<1>15. CreateParallelTestCostList(d, c, failed) = sorted[N]
  BY <1>6 DEF Parallel
<1> HIDE DEF N
<1> QED BY ONLY <1>13, <1>14, <1>15 DEF OrderOf

-----------------------------------------------------------------------------
(* 7. The order of a serial run.                                            *)

Joins(S, seq, below, joined) ==
  /\ joined \in [0 .. Len(seq) -> Seq(S)]
  /\ joined[0] = <<>>
  /\ \A k \in 1 .. Len(seq) : joined[k] = joined[k - 1] \o Append(below[seq[k]], seq[k])
  /\ EachAfter(seq, below) = joined[Len(seq)]

LEMMA EachAfterRecursion ==
  ASSUME NEW S, NEW seq \in Seq(S), NEW below \in [S -> Seq(S)]
  PROVE  \E joined : Joins(S, seq, below, joined)
<1> DEFINE N == Len(seq)
           L == Seq(S)
           more(k, l) == l \o Append(below[seq[k]], seq[k])
           move == [p \in (1 .. N) \X L |-> more(p[1], p[2])]
           Is(g) == g = [k \in 0 .. N |-> IF k = 0 THEN <<>> ELSE more(k, g[k - 1])]
<1>1. N \in Nat /\ <<>> \in L
  OBVIOUS
<1>2. \A k \in 1 .. N, l \in L : more(k, l) \in L
  <2> SUFFICES ASSUME NEW k \in 1 .. N, NEW l \in L PROVE more(k, l) \in L
    OBVIOUS
  <2>1. seq[k] \in S /\ below[seq[k]] \in Seq(S)
    OBVIOUS
  <2>2. Append(below[seq[k]], seq[k]) \in Seq(S)
    BY <2>1, AppendProperties
  <2> QED BY <2>2, ConcatProperties
<1>3. EachAfter(seq, below) = (CHOOSE g : Is(g))[N]
  BY DEF EachAfter
<1> HIDE DEF N, L, more
<1>4. move \in [(1 .. N) \X L -> L] /\ \A k \in 1 .. N, l \in L : move[<<k, l>>] = more(k, l)
  BY <1>2
<1> HIDE DEF move
<1>5. PICK f \in [0 .. N -> L] : FollowsUpto(f, N, <<>>, move)
  BY <1>1, <1>4, BoundedRecursion
<1>6. ASSUME NEW k \in 1 .. N PROVE f[k] = more(k, f[k - 1])
  <2>1. k - 1 \in 0 .. N
    BY <1>1
  <2> QED BY <1>4, <1>5, <2>1 DEF FollowsUpto
<1>7. Is(f)
  <2>1. f = [k \in 0 .. N |-> f[k]]
    OBVIOUS
  <2>2. \A k \in 0 .. N : f[k] = IF k = 0 THEN <<>> ELSE more(k, f[k - 1])
    BY <1>1, <1>5, <1>6 DEF FollowsUpto
  <2> QED BY <2>1, <2>2
<1> DEFINE joined == CHOOSE g : Is(g)
<1>8. Is(joined)
  <2> HIDE DEF Is
  <2> QED BY <1>7
<1> HIDE DEF joined
<1>9. joined[0] = <<>> /\ \A k \in 1 .. N : joined[k] = more(k, joined[k - 1])
  BY <1>1, <1>8
<1>10. \A k \in 0 .. N : joined[k] \in L
  <2> DEFINE T == {k \in Nat : k <= N => joined[k] \in L}
  <2>1. 0 \in T
    BY <1>1, <1>9
  <2>2. ASSUME NEW k \in Nat, k \in T PROVE k + 1 \in T
    <3> SUFFICES ASSUME k + 1 <= N PROVE joined[k + 1] \in L
      OBVIOUS
    <3>1. k + 1 \in 1 .. N /\ (k + 1) - 1 = k /\ joined[k] \in L
      BY <1>1, <2>2
    <3> QED BY <1>2, <1>9, <3>1
  <2> HIDE DEF T
  <2>3. \A k \in Nat : k \in T
    BY <2>1, <2>2, SetInduction
  <2>4. \A k \in 0 .. N : k \in Nat /\ k <= N
    BY <1>1
  <2> QED BY ONLY <2>3, <2>4 DEF T
<1>11. joined \in [0 .. N -> L]
  <2>1. joined = [k \in 0 .. N |-> joined[k]]
    BY <1>8 DEF Is
  <2> QED BY <1>10, <2>1
<1> HIDE DEF Is
<1>12. Joins(S, seq, below, joined)
  BY <1>3, <1>9, <1>11 DEF Joins, N, L, more, joined
<1> QED BY <1>12

\* q holds all that test t depends on, each test after its own dependencies.
AllBelow(d, t, q) == AfterDepends(d, {}, q) /\ d[t] \subseteq Range(q)

\* q holds nothing that t does not depend on, directly or by another of q.
OnlyBelow(d, t, q) ==
  q \in Seq(DOMAIN d) /\ \A x \in Range(q) : x \in d[t] \/ \E y \in Range(q) : x \in d[y]

LEMMA EachAfterExact ==
  ASSUME NEW d, NEW seq \in Seq(DOMAIN d), NEW below \in [DOMAIN d -> Seq(DOMAIN d)]
  PROVE  /\ EachAfter(seq, below) \in Seq(DOMAIN d)
         /\ Range(EachAfter(seq, below)) = Range(seq) \cup UNION {Range(below[x]) : x \in Range(seq)}
         /\ (\A x \in Range(seq) : AllBelow(d, x, below[x])) => AfterDepends(d, {}, EachAfter(seq, below))
<1> DEFINE D == DOMAIN d
           N == Len(seq)
<1>1. PICK joined : Joins(D, seq, below, joined)
  BY EachAfterRecursion
<1>2. N \in Nat /\ \A k \in 1 .. N : seq[k] \in D
  OBVIOUS
<1>3. /\ joined \in [0 .. N -> Seq(D)] /\ joined[0] = <<>> /\ EachAfter(seq, below) = joined[N]
      /\ \A k \in 1 .. N : joined[k] = joined[k - 1] \o Append(below[seq[k]], seq[k])
  BY <1>1 DEF Joins
<1> DEFINE Upto(k) == {seq[j] : j \in 1 .. k}
           Good(k) == /\ Range(joined[k]) = Upto(k) \cup UNION {Range(below[x]) : x \in Upto(k)}
                      /\ (\A x \in Range(seq) : AllBelow(d, x, below[x])) => AfterDepends(d, {}, joined[k])
           T == {k \in Nat : k <= N => Good(k)}
<1>4. Upto(0) = {} /\ Upto(N) = Range(seq)
  BY DEF Range
<1>5. \A k \in Nat : Upto(k + 1) = Upto(k) \cup {seq[k + 1]}
  <2> SUFFICES ASSUME NEW k \in Nat PROVE Upto(k + 1) = Upto(k) \cup {seq[k + 1]}
    OBVIOUS
  <2>1. \A j \in 1 .. k + 1 : j \in 1 .. k \/ j = k + 1
    OBVIOUS
  <2>2. (\A j \in 1 .. k : j \in 1 .. k + 1) /\ k + 1 \in 1 .. k + 1
    OBVIOUS
  <2> QED BY <2>1, <2>2
<1>6. \A k \in 1 .. N : seq[k] \in Range(seq)
  BY DEF Range
<1> HIDE DEF N, D, Upto
<1>7. 0 \in T
  <2>1. Range(<<>>) = {}
    BY DEF Range
  <2>2. AfterDepends(d, {}, <<>>)
    BY DEF AfterDepends
  <2>3. Good(0)
    BY <1>3, <1>4, <2>1, <2>2
  <2> HIDE DEF Good
  <2> QED BY <2>3
<1>8. ASSUME NEW k \in Nat, k \in T PROVE k + 1 \in T
  <2> SUFFICES ASSUME k + 1 <= N PROVE Good(k + 1)
    OBVIOUS
  <2> DEFINE l == joined[k]
             x == seq[k + 1]
             q == below[x]
  <2>1. k + 1 \in 1 .. N /\ (k + 1) - 1 = k /\ k \in 0 .. N
    BY <1>2
  <2>2. Good(k)
    <3> HIDE DEF Good
    <3>1. k <= N
      BY <1>2
    <3> QED BY <1>8, <3>1
  <2>3. l \in Seq(D) /\ joined[k + 1] = l \o Append(q, x) /\ x \in D /\ q \in Seq(D) /\ x \in Range(seq)
    <3>1. joined[k + 1] = joined[(k + 1) - 1] \o Append(below[seq[k + 1]], seq[k + 1])
      BY <1>3, <2>1
    <3>2. x \in D /\ x \in Range(seq)
      BY <1>2, <1>6, <2>1
    <3> QED BY <1>3, <2>1, <3>1, <3>2 DEF D
  <2>4. Range(l) = Upto(k) \cup UNION {Range(below[y]) : y \in Upto(k)}
        /\ ((\A y \in Range(seq) : AllBelow(d, y, below[y])) => AfterDepends(d, {}, l))
    BY <2>2
  <2>5. Upto(k + 1) = Upto(k) \cup {x}
    BY <1>5
  <2>6. UNION {Range(below[y]) : y \in Upto(k + 1)} = (UNION {Range(below[y]) : y \in Upto(k)}) \cup Range(below[x])
    <3> HIDE DEF l, x
    <3> DEFINE some == Upto(k)
    <3>1. Upto(k + 1) = some \cup {x}
      BY <2>5
    <3> HIDE DEF some
    <3> DEFINE P == UNION {Range(below[y]) : y \in some \cup {x}}
               Q == UNION {Range(below[y]) : y \in some}
               R == Range(below[x])
    <3>2. \A z : z \in P <=> z \in Q \/ z \in R
      OBVIOUS
    <3>3. P = Q \cup R
      <4> HIDE DEF P, Q, R
      <4> QED BY <3>2
    <3> QED BY <3>1, <3>3 DEF some
  <2> DEFINE w == Append(q, x)
  <2> HIDE DEF l, x, q
  <2>7. w \in Seq(D) /\ Range(w) = Range(q) \cup {x}
    BY <2>3, AppendProperties, AppendRange
  <2>8. Range(l \o w) = Range(l) \cup Range(w)
    <3> HIDE DEF w
    <3> QED BY <2>3, <2>7, ConcatRange
  <2>9. ASSUME \A y \in Range(seq) : AllBelow(d, y, below[y]) PROVE AfterDepends(d, {}, joined[k + 1])
    <3>1. AllBelow(d, x, q)
      BY <2>3, <2>9 DEF q
    <3>2. AfterDepends(d, {}, w)
      BY <2>3, <3>1, AppendAfter DEF AllBelow, D
    <3>3. AfterDepends(d, {}, l)
      BY <2>4, <2>9
    <3> HIDE DEF w
    <3>4. AfterDepends(d, {}, l \o w)
      BY <3>2, <3>3, ConcatAfter
    <3> QED BY <2>3, <3>4 DEF w
  <2>10. Range(joined[k + 1]) = Upto(k + 1) \cup UNION {Range(below[y]) : y \in Upto(k + 1)}
    <3> DEFINE U == UNION {Range(below[y]) : y \in Upto(k)}
               V == UNION {Range(below[y]) : y \in Upto(k + 1)}
    <3>1. Range(l) = Upto(k) \cup U /\ V = U \cup Range(q)
      <4>1. Range(l) = Upto(k) \cup U
        BY ONLY <2>4
      <4>2. V = U \cup Range(q)
        BY ONLY <2>6 DEF q
      <4> QED BY ONLY <4>1, <4>2
    <3>2. Range(joined[k + 1]) = Range(l) \cup (Range(q) \cup {x})
      BY <2>3, <2>7, <2>8
    <3> HIDE DEF U, V
    <3>3. Range(joined[k + 1]) = Upto(k + 1) \cup V
      BY <2>5, <3>1, <3>2
    <3> QED BY <3>3 DEF V
  <2> QED BY <2>9, <2>10
<1> HIDE DEF T
<1>9. \A k \in Nat : k \in T
  BY <1>7, <1>8, SetInduction
<1>10. Good(N)
  <2> HIDE DEF Good
  <2>1. N \in T /\ N <= N
    BY <1>2, <1>9
  <2> QED BY <2>1 DEF T
<1>11. joined[N] \in Seq(D)
  BY <1>2, <1>3
<1> QED BY <1>3, <1>4, <1>10, <1>11 DEF D

Deepens(d, all) ==
  /\ all \in [0 .. Cardinality(DOMAIN d) -> [DOMAIN d -> Seq(DOMAIN d)]]
  /\ \A t \in DOMAIN d : all[0][t] = <<>>
  /\ \A n \in 1 .. Cardinality(DOMAIN d), t \in DOMAIN d :
       all[n][t] = EachAfter(Ascending(d[t]), all[n - 1])
  /\ \A t \in DOMAIN d : GetAllTestDependencies(d, t) = all[Cardinality(DOMAIN d)][t]

LEMMA GetAllRecursion ==
  ASSUME NEW d, Graph(d)
  PROVE  \E all : Deepens(d, all)
<1> DEFINE D == DOMAIN d
           N == Cardinality(D)
           L == [D -> Seq(D)]
           base == [t \in D |-> <<>>]
           more(below) == [t \in D |-> EachAfter(Ascending(d[t]), below)]
           move == [p \in (1 .. N) \X L |-> more(p[2])]
           Is(g) == g = [n \in 0 .. N |-> IF n = 0 THEN base ELSE more(g[n - 1])]
<1>1. N \in Nat /\ base \in L
  BY FS_CardinalityType DEF Graph
<1>2. \A below \in L : more(below) \in L
  <2> SUFFICES ASSUME NEW below \in L, NEW t \in D PROVE EachAfter(Ascending(d[t]), below) \in Seq(D)
    OBVIOUS
  <2>1. Ascending(d[t]) \in Seq(DOMAIN d)
    BY Pushed
  <2> QED BY <2>1, EachAfterExact
<1>3. \A t : GetAllTestDependencies(d, t) = (CHOOSE g : Is(g))[N][t]
  BY DEF GetAllTestDependencies
<1> HIDE DEF N, L, base, more
<1>4. move \in [(1 .. N) \X L -> L] /\ \A n \in 1 .. N, l \in L : move[<<n, l>>] = more(l)
  BY <1>2
<1> HIDE DEF move
<1>5. PICK f \in [0 .. N -> L] : FollowsUpto(f, N, base, move)
  BY <1>1, <1>4, BoundedRecursion
<1>6. ASSUME NEW n \in 1 .. N PROVE f[n] = more(f[n - 1])
  <2>1. n - 1 \in 0 .. N
    BY <1>1
  <2> QED BY <1>4, <1>5, <2>1 DEF FollowsUpto
<1>7. Is(f)
  <2>1. f = [n \in 0 .. N |-> f[n]]
    OBVIOUS
  <2>2. \A n \in 0 .. N : f[n] = IF n = 0 THEN base ELSE more(f[n - 1])
    BY <1>1, <1>5, <1>6 DEF FollowsUpto
  <2> QED BY <2>1, <2>2
<1> DEFINE all == CHOOSE g : Is(g)
<1>8. Is(all)
  <2> HIDE DEF Is
  <2> QED BY <1>7
<1> HIDE DEF all
<1>9. all[0] = base /\ \A n \in 1 .. N : all[n] = more(all[n - 1])
  BY <1>1, <1>8
<1>10. \A n \in 0 .. N : all[n] \in L
  <2> DEFINE T == {n \in Nat : n <= N => all[n] \in L}
  <2>1. 0 \in T
    BY <1>1, <1>9
  <2>2. ASSUME NEW n \in Nat, n \in T PROVE n + 1 \in T
    <3> SUFFICES ASSUME n + 1 <= N PROVE all[n + 1] \in L
      OBVIOUS
    <3>1. n + 1 \in 1 .. N /\ (n + 1) - 1 = n /\ all[n] \in L
      BY <1>1, <2>2
    <3> QED BY <1>2, <1>9, <3>1
  <2> HIDE DEF T
  <2>3. \A n \in Nat : n \in T
    BY <2>1, <2>2, SetInduction
  <2> QED BY <1>1, <2>3 DEF T
<1>11. all \in [0 .. N -> L]
  <2>1. all = [n \in 0 .. N |-> all[n]]
    BY <1>8 DEF Is
  <2> QED BY <1>10, <2>1
<1> HIDE DEF Is
<1>12. \A t \in D : all[0][t] = <<>>
  BY <1>9 DEF base
<1>13. \A n \in 1 .. N, t \in D : all[n][t] = EachAfter(Ascending(d[t]), all[n - 1])
  BY <1>9 DEF more
<1>14. \A t \in D : GetAllTestDependencies(d, t) = all[N][t]
  BY <1>3 DEF all
<1>15. Deepens(d, all)
  BY <1>11, <1>12, <1>13, <1>14 DEF Deepens, N, L
<1> QED BY <1>15

\* One level more: right for the tests all of whose dependencies were.
LEMMA Deeper ==
  ASSUME NEW d, Graph(d), NEW below \in [DOMAIN d -> Seq(DOMAIN d)], NEW t \in DOMAIN d
  PROVE  LET q == EachAfter(Ascending(d[t]), below)
         IN  /\ (\A x \in d[t] : AllBelow(d, x, below[x])) => AllBelow(d, t, q)
             /\ (\A x \in d[t] : OnlyBelow(d, x, below[x])) => OnlyBelow(d, t, q)
<1> DEFINE seq == Ascending(d[t])
           q == EachAfter(seq, below)
           U == UNION {Range(below[x]) : x \in d[t]}
<1>1. seq \in Seq(DOMAIN d) /\ Range(seq) = d[t]
  BY Pushed, ListsRange
<1> HIDE DEF seq
<1>2. /\ q \in Seq(DOMAIN d)
      /\ Range(q) = Range(seq) \cup UNION {Range(below[x]) : x \in Range(seq)}
      /\ (\A x \in Range(seq) : AllBelow(d, x, below[x])) => AfterDepends(d, {}, q)
  BY <1>1, EachAfterExact
<1> HIDE DEF q
<1>3. Range(q) = d[t] \cup U
  BY <1>1, <1>2
<1>4. ASSUME \A x \in d[t] : AllBelow(d, x, below[x]) PROVE AllBelow(d, t, q)
  BY <1>1, <1>2, <1>3, <1>4 DEF AllBelow
<1>5. ASSUME \A x \in d[t] : OnlyBelow(d, x, below[x]) PROVE OnlyBelow(d, t, q)
  <2> SUFFICES ASSUME NEW x \in Range(q), x \notin d[t] PROVE \E y \in Range(q) : x \in d[y]
    BY <1>2 DEF OnlyBelow
  <2>1. PICK u \in d[t] : x \in Range(below[u])
    BY <1>3
  <2>2. x \in d[u] \/ \E y \in Range(below[u]) : x \in d[y]
    BY <1>5, <2>1 DEF OnlyBelow
  <2>3. u \in Range(q) /\ Range(below[u]) \subseteq Range(q)
    BY <1>3
  <2> QED BY <2>2, <2>3
<1> QED BY <1>4, <1>5 DEF q, seq

\* All dependencies of a test, each after its own, and not the test itself.
LEMMA GetAllBelow ==
  ASSUME NEW d, Graph(d), ~Cyclic(d), NEW t \in DOMAIN d
  PROVE  AllBelow(d, t, GetAllTestDependencies(d, t)) /\ t \notin Range(GetAllTestDependencies(d, t))
<1> DEFINE D == DOMAIN d
           N == Cardinality(D)
           above == [x \in D |-> {y \in D : x \in d[y]}]
           Fades(B) == B[0] = D /\ (\A n \in 1 .. N : B[n] = UNION {above[x] : x \in B[n - 1]}) /\ B[N] = {}
<1>1. N \in Nat /\ IsFiniteSet(D) /\ above \in [D -> SUBSET D]
  BY FS_CardinalityType DEF Graph
<1>2. \A V \in SUBSET D : (\A x \in V : \E u \in V : x \in above[u]) => V = {}
  <2> SUFFICES ASSUME NEW V \in SUBSET D, \A x \in V : \E u \in V : x \in above[u], V # {} PROVE FALSE
    OBVIOUS
  <2>1. \A x \in V : d[x] \cap V # {}
    OBVIOUS
  <2>2. V \in (SUBSET DOMAIN d) \ {{}}
    OBVIOUS
  <2> QED BY <2>1, <2>2 DEF Cyclic
<1>3. PICK B \in [0 .. N -> SUBSET D] : Fades(B)
  <2> HIDE DEF D, above
  <2> QED BY <1>1, <1>2, Fading
<1>4. PICK all : Deepens(d, all)
  BY GetAllRecursion
<1>5. /\ all \in [0 .. N -> [D -> Seq(D)]] /\ \A x \in D : all[0][x] = <<>>
      /\ \A n \in 1 .. N, x \in D : all[n][x] = EachAfter(Ascending(d[x]), all[n - 1])
      /\ GetAllTestDependencies(d, t) = all[N][t]
  BY <1>4 DEF Deepens
<1> DEFINE Good(n) == /\ \A x \in D \ B[n] : AllBelow(d, x, all[n][x])
                      /\ \A x \in D : OnlyBelow(d, x, all[n][x])
           T == {n \in Nat : n <= N => Good(n)}
<1>6. \A x, y \in D : y \in above[x] <=> x \in d[y]
  OBVIOUS
<1> HIDE DEF above, N
<1>7. 0 \in T
  <2>1. \A x \in D : OnlyBelow(d, x, all[0][x])
    <3>1. <<>> \in Seq(DOMAIN d) /\ Range(<<>>) = {}
      BY DEF Range
    <3> QED BY <1>5, <3>1 DEF OnlyBelow
  <2>2. \A x \in D \ B[0] : AllBelow(d, x, all[0][x])
    BY <1>3
  <2> QED BY <2>1, <2>2
<1>8. ASSUME NEW n \in Nat, n \in T PROVE n + 1 \in T
  <2> SUFFICES ASSUME n + 1 <= N PROVE Good(n + 1)
    OBVIOUS
  <2>1. n + 1 \in 1 .. N /\ (n + 1) - 1 = n /\ n \in 0 .. N
    BY <1>1
  <2>2. Good(n)
    <3> HIDE DEF Good
    <3>1. n <= N
      BY <1>1
    <3> QED BY <1>8, <3>1
  <2>3. B[n + 1] = UNION {above[x] : x \in B[n]} /\ B[n] \in SUBSET D
    <3>1. B[n + 1] = UNION {above[x] : x \in B[(n + 1) - 1]}
      BY <1>3, <2>1
    <3> QED BY <1>3, <2>1, <3>1
  <2> DEFINE below == all[n]
  <2>4. below \in [D -> Seq(D)]
    BY <1>5, <2>1
  <2>5. \A x \in D : all[n + 1][x] = EachAfter(Ascending(d[x]), below)
    <3>1. \A x \in D : all[n + 1][x] = EachAfter(Ascending(d[x]), all[(n + 1) - 1])
      BY <1>5, <2>1
    <3> QED BY <2>1, <3>1
  <2>6. (\A x \in D \ B[n] : AllBelow(d, x, below[x])) /\ \A x \in D : OnlyBelow(d, x, below[x])
    BY <2>2
  <2> HIDE DEF below
  <2>7. ASSUME NEW x \in D \ B[n + 1] PROVE AllBelow(d, x, all[n + 1][x])
    <3>1. \A y \in d[x] : y \in D \ B[n]
      <4> SUFFICES ASSUME NEW y \in d[x], y \in B[n] PROVE FALSE
        BY DEF Graph
      <4>1. x \in above[y]
        BY <1>6, <2>3
      <4> QED BY <2>3, <4>1
    <3>2. \A y \in d[x] : AllBelow(d, y, below[y])
      BY <2>6, <3>1
    <3>3. AllBelow(d, x, EachAfter(Ascending(d[x]), below))
      BY <2>4, <3>2, Deeper
    <3> QED BY <2>5, <3>3
  <2>8. ASSUME NEW x \in D PROVE OnlyBelow(d, x, all[n + 1][x])
    <3>1. \A y \in d[x] : OnlyBelow(d, y, below[y])
      BY <2>6 DEF Graph
    <3>2. OnlyBelow(d, x, EachAfter(Ascending(d[x]), below))
      BY <2>4, <3>1, Deeper
    <3> QED BY <2>5, <3>2
  <2> QED BY <2>7, <2>8
<1> HIDE DEF T
<1>9. \A n \in Nat : n \in T
  BY <1>7, <1>8, SetInduction
<1>10. Good(N)
  <2> HIDE DEF Good
  <2>1. N \in T /\ N <= N
    BY <1>1, <1>9
  <2> QED BY <2>1 DEF T
<1> DEFINE q == GetAllTestDependencies(d, t)
<1>11. AllBelow(d, t, q) /\ OnlyBelow(d, t, q)
  BY <1>3, <1>5, <1>10
<1> HIDE DEF q
<1>12. t \notin Range(q)
  <2> SUFFICES ASSUME t \in Range(q) PROVE FALSE
    OBVIOUS
  <2>1. Range(q) \in SUBSET DOMAIN d
    BY <1>11 DEF OnlyBelow, Range
  <2>2. \A x \in Range(q) : \E u \in Range(q) : x \in d[u]
    BY <1>11 DEF OnlyBelow
  <2> DEFINE V == Range(q)
  <2>3. V \in SUBSET DOMAIN d /\ V # {} /\ \A x \in V : \E u \in V : x \in d[u]
    BY <2>1, <2>2
  <2> HIDE DEF V
  <2> QED BY <2>3, PredecessorCycle
<1> QED BY <1>11, <1>12 DEF q

\* The list after each test of the presorted list.
Serially(d, l, test) ==
  IF test \in Range(l) THEN l ELSE Append(AppendNew(l, GetAllTestDependencies(d, test)), test)

Serial(d, c, sorted) ==
  LET presorted == CostSorted(DOMAIN d, c)
  IN /\ sorted \in [0 .. Len(presorted) -> Seq(DOMAIN d)]
     /\ sorted[0] = <<>>
     /\ \A n \in 1 .. Len(presorted) : sorted[n] = Serially(d, sorted[n - 1], presorted[n])
     /\ CreateSerialTestCostList(d, c) = sorted[Len(presorted)]

LEMMA CreateSerialRecursion ==
  ASSUME NEW d, Graph(d), ~Cyclic(d), NEW c, \A t \in DOMAIN d : c[t] \in Nat
  PROVE  \E sorted : Serial(d, c, sorted)
<1> DEFINE presorted == CostSorted(DOMAIN d, c)
           N == Len(presorted)
           L == Seq(DOMAIN d)
           more(n, l) == Serially(d, l, presorted[n])
           move == [p \in (1 .. N) \X L |-> more(p[1], p[2])]
           Is(g) == g = [n \in 0 .. N |-> IF n = 0 THEN <<>> ELSE more(n, g[n - 1])]
<1>1. presorted \in L
  <2>1. Lists(presorted, DOMAIN d)
    BY CostSortedLists DEF Graph
  <2> HIDE DEF presorted
  <2> QED BY <2>1, ListsRange
<1>2. N \in Nat /\ <<>> \in L /\ \A n \in 1 .. N : presorted[n] \in DOMAIN d
  <2> HIDE DEF presorted
  <2> QED BY <1>1
<1>3. CreateSerialTestCostList(d, c) = (CHOOSE g : Is(g))[N]
  BY DEF CreateSerialTestCostList, Serially
<1>4. \A n \in 1 .. N, l \in L : more(n, l) \in L
  <2> SUFFICES ASSUME NEW n \in 1 .. N, NEW l \in L PROVE more(n, l) \in L
    OBVIOUS
  <2> DEFINE x == presorted[n]
             q == GetAllTestDependencies(d, x)
  <2>1. x \in DOMAIN d
    BY <1>2
  <2> HIDE DEF x
  <2>2. q \in L
    BY <2>1, GetAllBelow DEF AllBelow, AfterDepends
  <2> HIDE DEF q
  <2>3. AppendNew(l, q) \in L
    BY <2>2, AppendNewType
  <2>4. Append(AppendNew(l, q), x) \in L
    BY <2>1, <2>3, AppendProperties
  <2> QED BY <2>4 DEF Serially, q, x
<1> HIDE DEF N, L, more
<1>5. move \in [(1 .. N) \X L -> L] /\ \A n \in 1 .. N, l \in L : move[<<n, l>>] = more(n, l)
  BY <1>4
<1> HIDE DEF move
<1>6. PICK f \in [0 .. N -> L] : FollowsUpto(f, N, <<>>, move)
  BY <1>2, <1>5, BoundedRecursion
<1>7. ASSUME NEW n \in 1 .. N PROVE f[n] = more(n, f[n - 1])
  <2>1. n - 1 \in 0 .. N
    BY <1>2
  <2> QED BY <1>5, <1>6, <2>1 DEF FollowsUpto
<1>8. Is(f)
  <2>1. f = [n \in 0 .. N |-> f[n]]
    OBVIOUS
  <2>2. \A n \in 0 .. N : f[n] = IF n = 0 THEN <<>> ELSE more(n, f[n - 1])
    BY <1>2, <1>6, <1>7 DEF FollowsUpto
  <2> QED BY <2>1, <2>2
<1> DEFINE sorted == CHOOSE g : Is(g)
<1>9. Is(sorted)
  <2> HIDE DEF Is
  <2> QED BY <1>8
<1> HIDE DEF sorted
<1>10. sorted[0] = <<>> /\ \A n \in 1 .. N : sorted[n] = more(n, sorted[n - 1])
  BY <1>2, <1>9
<1>11. \A n \in 0 .. N : sorted[n] \in L
  <2> DEFINE T == {n \in Nat : n <= N => sorted[n] \in L}
  <2>1. 0 \in T
    BY <1>2, <1>10
  <2>2. ASSUME NEW n \in Nat, n \in T PROVE n + 1 \in T
    <3> SUFFICES ASSUME n + 1 <= N PROVE sorted[n + 1] \in L
      OBVIOUS
    <3>1. n + 1 \in 1 .. N /\ (n + 1) - 1 = n /\ sorted[n] \in L
      BY <1>2, <2>2
    <3> QED BY <1>4, <1>10, <3>1
  <2> HIDE DEF T
  <2>3. \A n \in Nat : n \in T
    BY <2>1, <2>2, SetInduction
  <2>4. \A n \in 0 .. N : n \in Nat /\ n <= N
    BY <1>2
  <2> QED BY ONLY <2>3, <2>4 DEF T
<1>12. sorted \in [0 .. N -> L]
  <2>1. sorted = [n \in 0 .. N |-> sorted[n]]
    BY <1>9 DEF Is
  <2> QED BY <1>11, <2>1
<1> HIDE DEF Is
<1>13. Serial(d, c, sorted)
  BY <1>3, <1>10, <1>12 DEF Serial, N, L, more, sorted
<1> QED BY <1>13

LEMMA CreateSerialOrders ==
  ASSUME NEW d, Graph(d), ~Cyclic(d), NEW c, \A t \in DOMAIN d : c[t] \in Nat
  PROVE  OrderOf(d, {}, CreateSerialTestCostList(d, c))
<1> DEFINE D == DOMAIN d
           presorted == CostSorted(D, c)
           N == Len(presorted)
<1>1. PICK sorted : Serial(d, c, sorted)
  BY CreateSerialRecursion
<1>2. presorted \in Seq(D) /\ Range(presorted) = D
  <2>1. Lists(presorted, D)
    BY CostSortedLists DEF Graph
  <2> HIDE DEF presorted
  <2> QED BY <2>1, ListsRange
<1>3. /\ sorted \in [0 .. N -> Seq(D)] /\ sorted[0] = <<>>
      /\ \A n \in 1 .. N : sorted[n] = Serially(d, sorted[n - 1], presorted[n])
      /\ CreateSerialTestCostList(d, c) = sorted[N]
  BY <1>1 DEF Serial
<1> HIDE DEF presorted
<1>4. N \in Nat /\ \A n \in 1 .. N : presorted[n] \in D
  BY <1>2
<1> DEFINE Good(n) == /\ AfterDepends(d, {}, sorted[n]) /\ Once(sorted[n])
                      /\ \A k \in 1 .. n : presorted[k] \in Range(sorted[n])
           T == {n \in Nat : n <= N => Good(n)}
<1> HIDE DEF N
<1>5. 0 \in T
  <2>1. AfterDepends(d, {}, <<>>) /\ Once(<<>>)
    BY DEF AfterDepends, Once
  <2>2. Good(0)
    BY <1>3, <2>1
  <2> HIDE DEF Good
  <2> QED BY <2>2
<1>6. ASSUME NEW n \in Nat, n \in T PROVE n + 1 \in T
  <2> SUFFICES ASSUME n + 1 <= N PROVE Good(n + 1)
    OBVIOUS
  <2> DEFINE l == sorted[n]
             x == presorted[n + 1]
             q == GetAllTestDependencies(d, x)
             m == AppendNew(l, q)
  <2>1. n + 1 \in 1 .. N /\ (n + 1) - 1 = n /\ n \in 0 .. N
    BY <1>4
  <2>2. Good(n)
    <3> HIDE DEF Good
    <3>1. n <= N
      BY <1>4
    <3> QED BY <1>6, <3>1
  <2>3. sorted[n + 1] = Serially(d, l, x) /\ l \in Seq(D) /\ x \in D
    <3>1. sorted[n + 1] = Serially(d, sorted[(n + 1) - 1], presorted[n + 1])
      BY <1>3, <2>1
    <3> QED BY <1>3, <1>4, <2>1, <3>1
  <2>4. AfterDepends(d, {}, l) /\ Once(l) /\ \A k \in 1 .. n : presorted[k] \in Range(l)
    BY <2>2
  <2>5. \A k \in 1 .. n + 1 : k \in 1 .. n \/ k = n + 1
    OBVIOUS
  <2> HIDE DEF l
  <2>6. ASSUME NEW r \in Seq(D), sorted[n + 1] = r, AfterDepends(d, {}, r), Once(r),
               Range(l) \cup {x} \subseteq Range(r)
        PROVE  Good(n + 1)
    <3>1. \A k \in 1 .. n + 1 : presorted[k] \in Range(r)
      BY <2>4, <2>5, <2>6
    <3> QED BY <2>6, <3>1
  <2> HIDE DEF x, Good
  <2>7. CASE x \in Range(l)
    <3>1. sorted[n + 1] = l
      BY <2>3, <2>7 DEF Serially
    <3> QED BY <2>3, <2>4, <2>6, <2>7, <3>1
  <2>8. CASE x \notin Range(l)
    <3>1. AllBelow(d, x, q) /\ x \notin Range(q)
      BY <2>3, GetAllBelow
    <3>2. sorted[n + 1] = Append(m, x)
      BY <2>3, <2>8 DEF Serially
    <3> HIDE DEF q
    <3>3. Ready(d, {}, l, q) /\ q \in Seq(DOMAIN d)
      BY <3>1 DEF Ready, AllBelow, AfterDepends
    <3>4. AfterDepends(d, {}, m) /\ Once(m) /\ Range(m) = Range(l) \cup Range(q)
      BY <2>4, <3>3, AppendNewOrdered
    <3> HIDE DEF m
    <3>5. d[x] \subseteq Range(m) /\ x \notin Range(m) /\ m \in Seq(D)
      BY <2>8, <3>1, <3>4 DEF AllBelow, AfterDepends
    <3>6. AfterDepends(d, {}, Append(m, x))
      BY <2>3, <3>4, <3>5, AppendAfter
    <3>7. Once(Append(m, x))
      BY <2>3, <3>4, <3>5, AppendOnce
    <3>8. Range(Append(m, x)) = Range(m) \cup {x} /\ Append(m, x) \in Seq(D)
      BY <2>3, <3>5, AppendRange, AppendProperties
    <3>9. Range(l) \cup {x} \subseteq Range(Append(m, x))
      BY <3>4, <3>8
    <3> QED BY <2>6, <3>2, <3>6, <3>7, <3>8, <3>9
  <2> QED BY <2>7, <2>8
<1> HIDE DEF T
<1>7. \A n \in Nat : n \in T
  BY <1>5, <1>6, SetInduction
<1>8. Good(N)
  <2> HIDE DEF Good
  <2>1. N \in T /\ N <= N
    BY <1>4, <1>7
  <2> QED BY <2>1 DEF T
<1>9. Range(sorted[N]) = D
  <2>1. sorted[N] \in Seq(D)
    BY <1>3, <1>4
  <2>2. Range(sorted[N]) \subseteq D
    BY <2>1 DEF Range
  <2>3. D \subseteq Range(sorted[N])
    <3> SUFFICES ASSUME NEW x \in D PROVE x \in Range(sorted[N])
      OBVIOUS
    <3>1. PICK k \in 1 .. N : presorted[k] = x
      BY <1>2, InRange DEF N
    <3> QED BY <1>8, <3>1
  <2> QED BY <2>2, <2>3
<1> QED BY <1>3, <1>8, <1>9 DEF OrderOf

-----------------------------------------------------------------------------
(* 8. What the preparation of a suite comes to.                             *)

TypeOK ==
  /\ suite \in Suite /\ step \in {"select", "sort", "done"}
  /\ cost \in [Test -> Nat] /\ hasCycles \in BOOLEAN
  /\ step # "select" => Graph(deps) /\ DOMAIN deps \subseteq Test

\* The list and its dependencies are those of the fixture closure, and the order
\* is that of these dependencies.
Selected ==
  step # "select" =>
    LET list == AddFixtureTests(suite, suite.selected)
    IN /\ deps = [t \in list |-> Depends(suite, list, t)]
       /\ requireSuccess = [t \in list |-> RequireSuccess(suite, t)]

Ordering ==
  step = "done" =>
    /\ hasCycles <=> ~CheckCycles(deps)
    /\ ~hasCycles => sortedTests = CreateTestCostList(deps, cost, suite.failed, suite.level)

IInv == TypeOK /\ Selected /\ Ordering

LEMMA SelectedList ==
  ASSUME NEW s \in Suite
  PROVE  AddFixtureTests(s, s.selected) \in SUBSET Test
  BY AddFixtureTestsExact DEF Suite

LEMMA InitIInv == Init => IInv
<1> SUFFICES ASSUME Init PROVE IInv
  OBVIOUS
<1>1. suite \in Suite
  BY SuitesAssumption DEF Init
<1> QED BY <1>1 DEF Init, IInv, TypeOK, Selected, Ordering, Suite

LEMMA UpdateForFixturesIInv == ASSUME IInv, UpdateForFixtures PROVE IInv'
<1> DEFINE list == AddFixtureTests(suite, suite.selected)
<1>1. suite \in Suite /\ suite' = suite /\ cost' = cost /\ hasCycles' = hasCycles /\ step' = "sort"
      /\ cost \in [Test -> Nat] /\ hasCycles \in BOOLEAN
  BY DEF UpdateForFixtures, IInv, TypeOK
<1>2. list \in SUBSET Test
  BY <1>1, SelectedList
<1>3. /\ deps' = [t \in list |-> Depends(suite, list, t)]
      /\ requireSuccess' = [t \in list |-> RequireSuccess(suite, t)]
  BY DEF UpdateForFixtures
<1>4. Selected'
  BY <1>1, <1>3 DEF Selected
<1> HIDE DEF list
<1>5. Graph(deps') /\ DOMAIN deps' = list
  <2>1. DOMAIN deps' = list /\ \A t \in list : deps'[t] \subseteq list
    BY <1>3 DEF Depends
  <2>2. IsFiniteSet(list) /\ list \subseteq Nat
    BY <1>2, SuitesAssumption, FS_Subset
  <2> QED BY <2>1, <2>2 DEF Graph
<1>6. TypeOK'
  BY <1>1, <1>2, <1>5 DEF TypeOK
<1>7. Ordering'
  BY <1>1 DEF Ordering
<1> QED BY <1>4, <1>6, <1>7 DEF IInv

LEMMA SetTestsIInv == ASSUME IInv, SetTests PROVE IInv'
<1>1. suite \in Suite /\ suite' = suite /\ step = "sort" /\ step' = "done"
      /\ deps' = deps /\ requireSuccess' = requireSuccess /\ cost \in [Test -> Nat]
      /\ Graph(deps) /\ DOMAIN deps \subseteq Test
  BY DEF SetTests, IInv, TypeOK
<1>2. cost' \in [Test -> Nat]
  <2>1. cost' = [t \in Test |-> IF suite.level > 1 /\ cost[t] = 0 THEN suite.savedCost[t] ELSE cost[t]]
    BY DEF SetTests, ReadCostData
  <2>2. suite.savedCost \in [Test -> Nat]
    BY <1>1 DEF Suite
  <2> QED BY <1>1, <2>1, <2>2
<1>3. hasCycles' = ~CheckCycles(deps)
  BY DEF SetTests
<1>4. ~hasCycles' => sortedTests' = CreateTestCostList(deps, cost', suite.failed, suite.level)
  BY DEF SetTests
<1>5. hasCycles' \in BOOLEAN /\ (hasCycles' <=> ~CheckCycles(deps))
  <2>1. CheckCycles(deps) \in BOOLEAN
    BY DEF CheckCycles
  <2> QED BY <1>3, <2>1
<1>6. Selected'
  BY <1>1 DEF IInv, Selected
<1>7. TypeOK'
  BY <1>1, <1>2, <1>5 DEF TypeOK
<1>8. Ordering'
  BY <1>1, <1>4, <1>5 DEF Ordering
<1> QED BY <1>6, <1>7, <1>8 DEF IInv

\* The list that UpdateForFixtures builds, the dependencies it brings, the
\* result of the cycle check and the order are those of the suite, in each state
\* of the preparation.
THEOREM Prepares == Spec => []IInv
<1>1. ASSUME IInv, [Next]_vars PROVE IInv'
  <2>1. CASE UpdateForFixtures
    BY <1>1, <2>1, UpdateForFixturesIInv
  <2>2. CASE SetTests
    BY <1>1, <2>2, SetTestsIInv
  <2>3. CASE Prepared \/ UNCHANGED vars
    BY <1>1, <2>3 DEF Prepared, vars, IInv, TypeOK, Selected, Ordering
  <2> QED BY <1>1, <2>1, <2>2, <2>3 DEF Next
<1> QED BY <1>1, InitIInv, PTL DEF Spec

\* CheckCycles reports a cycle exactly when some tests wait for each other in a
\* ring, in every dependency graph that a suite of any size can have.
THEOREM CyclesAreFound == Spec => []CyclesFound
<1>1. IInv => CyclesFound
  BY CheckCyclesExact DEF IInv, TypeOK, Ordering, CyclesFound
<1> QED BY <1>1, Prepares, PTL

\* UpdateForFixtures ends with the smallest list that holds the selected tests
\* and the setups and cleanups that its enabled tests need.
THEOREM FixturesAreComplete == Spec => []FixturesComplete
<1>1. IInv => FixturesComplete
  <2> SUFFICES ASSUME IInv, step # "select"
               PROVE  /\ suite.selected \subseteq DOMAIN deps /\ Complete(DOMAIN deps)
                      /\ \A S \in SUBSET Test : suite.selected \subseteq S /\ Complete(S) => DOMAIN deps \subseteq S
    BY DEF FixturesComplete
  <2> DEFINE list == AddFixtureTests(suite, suite.selected)
  <2>1. suite \in Suite /\ suite.selected \in SUBSET Test /\ DOMAIN deps = list
    BY DEF IInv, TypeOK, Selected, Suite
  <2>2. /\ suite.selected \subseteq list /\ FixtureTestsFor(suite, list) \subseteq list
        /\ \A P \in SUBSET Test : suite.selected \subseteq P /\ FixtureTestsFor(suite, P) \subseteq P => list \subseteq P
    BY <2>1, AddFixtureTestsExact
  <2> HIDE DEF list
  <2>3. \A S : Complete(S) <=> FixtureTestsFor(suite, S) \subseteq S
    <3>1. ASSUME NEW S, Complete(S) PROVE FixtureTestsFor(suite, S) \subseteq S
      BY <3>1 DEF Complete, FixtureTestsFor, Requires
    <3>2. ASSUME NEW S, FixtureTestsFor(suite, S) \subseteq S PROVE Complete(S)
      BY <3>2 DEF Complete, FixtureTestsFor, Requires
    <3> QED BY <3>1, <3>2
  <2> QED BY <2>1, <2>2, <2>3
<1> QED BY <1>1, Prepares, PTL

-----------------------------------------------------------------------------
(* 9. Where the tests stand.                                                *)

LEMMA OrderLength ==
  ASSUME NEW d, Graph(d), NEW free, NEW list, OrderOf(d, free, list)
  PROVE  Len(list) = Cardinality(DOMAIN d)
<1> DEFINE D == DOMAIN d
           n == Len(list)
<1>1. list \in Seq(D) /\ Range(list) = D /\ Once(list)
  BY DEF OrderOf, AfterDepends
<1>2. n \in Nat /\ list \in [1 .. n -> D]
  BY <1>1
<1>3. \A x \in D : \E i \in 1 .. n : list[i] = x
  BY <1>1, InRange
<1>4. \A i, j \in 1 .. n : list[i] = list[j] => i = j
  BY <1>1 DEF Once
<1> HIDE DEF n, D
<1>5. ExistsBijection(1 .. n, D)
  <2>1. list \in Bijection(1 .. n, D)
    BY <1>2, <1>3, <1>4, Fun_IsBij
  <2> QED BY <2>1 DEF ExistsBijection
<1>6. IsFiniteSet(1 .. n) /\ Cardinality(1 .. n) = n
  BY <1>2, FS_Interval
<1>7. Cardinality(1 .. n) = Cardinality(D)
  BY <1>5, <1>6, FS_Bijection
<1> QED BY <1>6, <1>7 DEF n, D

\* In an order of a graph each test that is not free stands after those it
\* depends on.
LEMMA OrderPositions ==
  ASSUME NEW free, OrderOf(deps, free, sortedTests), Graph(deps),
         NEW t \in DOMAIN deps, t \notin free, NEW u \in deps[t]
  PROVE  Position(u) < Position(t)
<1>1. sortedTests \in Seq(DOMAIN deps) /\ Range(sortedTests) = DOMAIN deps /\ Once(sortedTests)
  BY DEF OrderOf, AfterDepends
<1>2. \A i \in 1 .. Len(sortedTests) : Position(sortedTests[i]) = i
  <2> SUFFICES ASSUME NEW i \in 1 .. Len(sortedTests) PROVE Position(sortedTests[i]) = i
    OBVIOUS
  <2>1. DOMAIN sortedTests = 1 .. Len(sortedTests)
    BY <1>1
  <2>2. \A j \in DOMAIN sortedTests : sortedTests[j] = sortedTests[i] => j = i
    BY <1>1, <2>1 DEF Once
  <2> QED BY <2>1, <2>2 DEF Position
<1>3. PICK i \in 1 .. Len(sortedTests) : sortedTests[i] = t
  BY <1>1, InRange
<1>4. Before(sortedTests, i, u)
  BY <1>3 DEF OrderOf, AfterDepends
<1>5. PICK j \in 1 .. i - 1 : sortedTests[j] = u
  BY <1>4 DEF Before
<1>6. j \in 1 .. Len(sortedTests) /\ j < i
  BY <1>1
<1> QED BY <1>2, <1>3, <1>5, <1>6

\* What may stand before its dependencies: nothing in a serial run.
Free == IF suite.level > 1 THEN suite.failed ELSE {}

LEMMA OrderDone ==
  ASSUME IInv, Runnable
  PROVE  Graph(deps) /\ OrderOf(deps, Free, sortedTests)
<1>1. Graph(deps) /\ DOMAIN deps \subseteq Test /\ cost \in [Test -> Nat]
  BY DEF IInv, TypeOK, Runnable
<1>2. ~Cyclic(deps)
  BY <1>1, CheckCyclesExact DEF IInv, Ordering, Runnable
<1>3. \A t \in DOMAIN deps : cost[t] \in Nat
  BY <1>1
<1>4. sortedTests = CreateTestCostList(deps, cost, suite.failed, suite.level)
  BY DEF IInv, Ordering, Runnable
<1>5. CASE suite.level > 1
  <2>1. sortedTests = CreateParallelTestCostList(deps, cost, suite.failed)
    BY <1>4, <1>5 DEF CreateTestCostList
  <2>2. OrderOf(deps, suite.failed, CreateParallelTestCostList(deps, cost, suite.failed))
    BY <1>1, <1>2, <1>3, CreateParallelOrders
  <2> QED BY <1>1, <1>5, <2>1, <2>2 DEF Free
<1>6. CASE ~(suite.level > 1)
  <2>1. sortedTests = CreateSerialTestCostList(deps, cost)
    BY <1>4, <1>6 DEF CreateTestCostList
  <2>2. OrderOf(deps, {}, CreateSerialTestCostList(deps, cost))
    BY <1>1, <1>2, <1>3, CreateSerialOrders
  <2> QED BY <1>1, <1>6, <2>1, <2>2 DEF Free
<1> QED BY <1>5, <1>6

\* Both orders list every test once, and after all tests it depends on, except
\* those that failed last time, which a parallel run puts first.
THEOREM OrderRespectsDepends == Spec => []DependenciesBefore
<1>1. IInv => DependenciesBefore
  <2> SUFFICES ASSUME IInv, Runnable
               PROVE  /\ Len(sortedTests) = Cardinality(DOMAIN deps) /\ Range(sortedTests) = DOMAIN deps
                      /\ \A t \in DOMAIN deps : \A u \in deps[t] :
                           Position(u) < Position(t) \/ (suite.level > 1 /\ t \in suite.failed)
    BY DEF DependenciesBefore
  <2>1. Graph(deps) /\ OrderOf(deps, Free, sortedTests)
    BY OrderDone
  <2>2. Len(sortedTests) = Cardinality(DOMAIN deps) /\ Range(sortedTests) = DOMAIN deps
    BY <2>1, OrderLength DEF OrderOf
  <2>3. ASSUME NEW t \in DOMAIN deps, NEW u \in deps[t], ~(suite.level > 1 /\ t \in suite.failed)
        PROVE  Position(u) < Position(t)
    <3>1. t \notin Free
      BY <2>3 DEF Free
    <3> QED BY <2>1, <3>1, OrderPositions
  <2> QED BY <2>2, <2>3
<1> QED BY <1>1, Prepares, PTL

\* A test of the list with its fixtures: the dependencies that these bring.
LEMMA FixtureDepends ==
  ASSUME IInv, step # "select", NEW t \in DOMAIN deps \ suite.disabled, NEW u \in DOMAIN deps, NEW f
  PROVE  /\ f \in suite.required[t] /\ f \in suite.setup[u] => u \in deps[t] /\ u \in requireSuccess[t]
         /\ f \in suite.required[t] /\ f \in suite.cleanup[u] => t \in deps[u]
         /\ f \in suite.setup[t] /\ f \in suite.cleanup[u] => t \in deps[u]
<1> DEFINE list == AddFixtureTests(suite, suite.selected)
<1>1. suite \in Suite /\ list \in SUBSET Test
  BY SelectedList DEF IInv, TypeOK
<1>2. /\ deps = [x \in list |-> Depends(suite, list, x)]
      /\ requireSuccess = [x \in list |-> RequireSuccess(suite, x)]
  BY DEF IInv, Selected
<1> HIDE DEF list
<1>3. t \in list /\ u \in list /\ t \in Test /\ u \in Test
  BY <1>1, <1>2
<1>4. ASSUME f \in suite.required[t], f \in suite.setup[u] PROVE u \in RequireSuccess(suite, t)
  BY <1>3, <1>4 DEF RequireSuccess, Requires, SetupsOf
<1>5. ASSUME f \in suite.required[t] \/ f \in suite.setup[t], f \in suite.cleanup[u]
      PROVE  t \in CleanupDepends(suite, list, u)
  BY <1>3, <1>5 DEF CleanupDepends, Requires
<1>6. deps[t] = Depends(suite, list, t) /\ deps[u] = Depends(suite, list, u)
      /\ requireSuccess[t] = RequireSuccess(suite, t)
  BY <1>2, <1>3
<1> QED BY <1>3, <1>4, <1>5, <1>6 DEF Depends

\* Tests run between the setups and the cleanups of their fixtures, in both
\* orders, if no test of the suite failed last time.
THEOREM FixturesAreOrdered == Spec => []FixturesOrdered
<1>1. IInv => FixturesOrdered
  <2> SUFFICES ASSUME IInv, Runnable, suite.failed = {}, NEW t \in DOMAIN deps \ suite.disabled
               PROVE  /\ \A f \in suite.required[t], u \in DOMAIN deps :
                           /\ f \in suite.setup[u] => Position(u) < Position(t) /\ u \in requireSuccess[t]
                           /\ f \in suite.cleanup[u] => Position(t) < Position(u)
                      /\ \A f \in suite.setup[t], u \in DOMAIN deps :
                           f \in suite.cleanup[u] => Position(t) < Position(u)
    BY DEF FixturesOrdered
  <2>1. Graph(deps) /\ OrderOf(deps, Free, sortedTests) /\ Free = {} /\ step # "select"
    BY OrderDone DEF Free, Runnable
  <2>2. \A x \in DOMAIN deps : \A y \in deps[x] : Position(y) < Position(x)
    BY <2>1, OrderPositions
  <2> QED BY <2>1, <2>2, FixtureDepends
<1> QED BY <1>1, Prepares, PTL

\* What TestScheduler assumes of Test, Depends, RequireSuccess and Rank when they
\* are the list, its dependencies, the setups in it and the positions in
\* SortedTests; in a serial run or without earlier failures the order is also
\* the one that its CompletionTheorem asks for.
SchedulerInput ==
  Runnable =>
    LET list == DOMAIN deps
    IN /\ IsFiniteSet(list)
       /\ \A t \in list : deps[t] \subseteq list /\ requireSuccess[t] \cap list \subseteq deps[t]
       /\ \A t \in list : Position(t) \in Nat
       /\ \A t, u \in list : Position(t) = Position(u) => t = u
       /\ suite.level = 1 \/ suite.failed = {} =>
            \A t \in list : \A u \in deps[t] : Position(u) < Position(t)

\* SetTests hands the scheduler what TestScheduler assumes of it.
THEOREM PreparesScheduler == Spec => []SchedulerInput
<1>1. IInv => SchedulerInput
  <2> SUFFICES ASSUME IInv, Runnable
               PROVE  LET list == DOMAIN deps
                      IN /\ IsFiniteSet(list)
                         /\ \A t \in list : deps[t] \subseteq list /\ requireSuccess[t] \cap list \subseteq deps[t]
                         /\ \A t \in list : Position(t) \in Nat
                         /\ \A t, u \in list : Position(t) = Position(u) => t = u
                         /\ suite.level = 1 \/ suite.failed = {} =>
                              \A t \in list : \A u \in deps[t] : Position(u) < Position(t)
    BY DEF SchedulerInput
  <2>1. Graph(deps) /\ OrderOf(deps, Free, sortedTests) /\ step # "select"
    BY OrderDone DEF Runnable
  <2>2. ASSUME NEW t \in DOMAIN deps PROVE requireSuccess[t] \cap DOMAIN deps \subseteq deps[t]
    <3>1. /\ deps = [x \in DOMAIN deps |-> Depends(suite, DOMAIN deps, x)]
          /\ requireSuccess = [x \in DOMAIN deps |-> RequireSuccess(suite, x)]
      BY <2>1 DEF IInv, Selected
    <3>2. deps[t] = Depends(suite, DOMAIN deps, t) /\ requireSuccess[t] = RequireSuccess(suite, t)
      BY <2>2, <3>1
    <3> QED BY <3>2 DEF Depends
  <2>3. ASSUME NEW t \in DOMAIN deps PROVE Position(t) \in Nat /\ sortedTests[Position(t)] = t
    <3>1. sortedTests \in Seq(DOMAIN deps) /\ Range(sortedTests) = DOMAIN deps
      BY <2>1 DEF OrderOf, AfterDepends
    <3>2. \E i \in DOMAIN sortedTests : sortedTests[i] = t
      BY <2>3, <3>1, InRange
    <3>3. Position(t) \in DOMAIN sortedTests /\ sortedTests[Position(t)] = t
      BY <3>2 DEF Position
    <3> QED BY <3>1, <3>3
  <2>4. ASSUME suite.level = 1 \/ suite.failed = {}, NEW t \in DOMAIN deps, NEW u \in deps[t]
        PROVE  Position(u) < Position(t)
    <3>1. t \notin Free
      BY <2>4 DEF Free
    <3> QED BY <2>1, <3>1, OrderPositions
  <2>5. \A t, u \in DOMAIN deps : Position(t) = Position(u) => t = u
    BY <2>3
  <2> QED BY <2>1, <2>2, <2>3, <2>4, <2>5 DEF Graph
<1> QED BY <1>1, Prepares, PTL
===============================================================================
