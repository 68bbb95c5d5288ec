------------------------------ MODULE TestOrder ------------------------------
(***************************************************************************)
(* How a suite is prepared: the tests that fixtures add and the            *)
(* dependencies they bring (cmCTestTestHandler::UpdateForFixtures), then   *)
(* the cycle check and the order in which StartNextTests will look at the  *)
(* tests (cmCTestMultiProcessHandler::SetTests).  All of it is sequential; *)
(* TLC runs it on every suite of Suites and compares the outcome with      *)
(* reference definitions.  X_Something is a mutant of X.                   *)
(***************************************************************************)
EXTENDS Integers, Sequences, Functions, Sorting

CONSTANTS
  Test,       \* the tests of the project, numbered
  Fixture,
  Suites      \* sets of suites to try

Suite == [
  depends : [Test -> SUBSET Test],
  required : [Test -> SUBSET Fixture],   \* FIXTURES_REQUIRED
  setup : [Test -> SUBSET Fixture],
  cleanup : [Test -> SUBSET Fixture],
  disabled : SUBSET Test,
  selected : SUBSET Test,                \* by -R, -I, --rerun-failed...
  noSetup : SUBSET Fixture,              \* -FA, -FS
  noCleanup : SUBSET Fixture,            \* -FA, -FC
  cost : [Test -> Nat],
  savedCost : [Test -> Nat],             \* the cost data file
  failed : SUBSET Test,                  \* after the "---" of that file
  level : Nat \ {0}]                     \* -j

ASSUME SuitesAssumption ==
  /\ Test \subseteq Nat /\ IsFiniteSet(Test)
  /\ \A S \in Suites : S \subseteq Suite

VARIABLES
  suite,
  deps,             \* Tests: the tests of the list, each with its Depends
  requireSuccess,   \* RequireSuccessDepends
  cost,             \* Properties[t]->Cost
  hasCycles,        \* HasCycles
  sortedTests,      \* SortedTests
  step              \* "select", then "sort", then "done"

vars == <<suite, deps, requireSuccess, cost, hasCycles, sortedTests, step>>

-----------------------------------------------------------------------------
(* UpdateForFixtures. *)

SetupsOf(s, f) == {t \in Test : f \in s.setup[t]}
CleanupsOf(s, f) == {t \in Test : f \in s.cleanup[t]}

\* Disabled tests require nothing.
Requires(s, t) == IF t \in s.disabled THEN {} ELSE s.required[t]

FixtureTests(s, f) ==
  (IF f \in s.noSetup THEN {} ELSE SetupsOf(s, f))
    \cup (IF f \in s.noCleanup THEN {} ELSE CleanupsOf(s, f))

FixtureTestsFor(s, S) == UNION {FixtureTests(s, f) : f \in UNION {Requires(s, t) : t \in S}}

AddFixtureTests_Once(s, S) == S \cup FixtureTestsFor(s, S)

\* The list grows while it is walked: an added test may require fixtures.  Each
\* round stands for the tests that the round before has added, so as many rounds
\* as there are tests are enough.
AddFixtureTests(s, S) ==
  LET rounds == Cardinality(Test)
      list[n \in 0 .. rounds] ==
        IF n = 0 THEN S ELSE LET some == list[n - 1] IN some \cup FixtureTestsFor(s, some)
  IN list[rounds]

RequireSuccess(s, t) == UNION {SetupsOf(s, f) : f \in Requires(s, t)}

CleanupDepends_RequirersOnly(s, list, t) ==
  {u \in list : Requires(s, u) \cap s.cleanup[t] # {}}

\* A cleanup waits for the tests that require the fixture and for its setups.
CleanupDepends(s, list, t) ==
  {u \in list : \/ Requires(s, u) \cap s.cleanup[t] # {}
                \/ u \notin s.disabled /\ s.setup[u] \cap s.cleanup[t] # {}}

\* ProcessDirectory drops the names that are not in the list.
Depends(s, list, t) ==
  (s.depends[t] \cup RequireSuccess(s, t) \cup CleanupDepends(s, list, t)) \cap list

-----------------------------------------------------------------------------
\* CheckCycles: depth first search from each test back to itself; the top of
\* the stack is its last element.
Visit(d, root, search) ==
  LET last == Len(search.stack)
      test == search.stack[last]
      rest == SubSeq(search.stack, 1, last - 1)
  IN CASE search.found \/ last = 0 -> search
       [] ~search.found /\ last # 0 /\ test \in search.visited -> [search EXCEPT !.stack = rest]
       [] OTHER -> [stack |-> rest \o Ascending(d[test]),
                    visited |-> search.visited \cup {test},
                    found |-> root \in d[test]]

\* A test is popped as often as it is pushed: by each test that depends on it.
FindsRoot(d, root) ==
  LET rounds == 1 + Cardinality(DOMAIN d) * Cardinality(DOMAIN d)
      search[n \in 0 .. rounds] ==
        IF n = 0 THEN [stack |-> <<root>>, visited |-> {}, found |-> FALSE]
        ELSE Visit(d, root, search[n - 1])
  IN search[rounds].found

CheckCycles_MetTwice(d) ==
  \A root \in DOMAIN d :
    /\ ~FindsRoot(d, root)
    /\ \A t, u \in d[root] : t # u => d[t] \cap d[u] = {}

CheckCycles(d) == \A root \in DOMAIN d : ~FindsRoot(d, root)

-----------------------------------------------------------------------------
CostSorted(S, c) ==
  Sorted(S, LAMBDA t, u : c[t] > c[u] \/ (c[t] = c[u] /\ t < u))

AppendNew_Doubled(list, seq) == list \o seq

\* push_back of the elements of seq that are not in the list yet.
AppendNew(list, seq) ==
  LET sorted[k \in 0 .. Len(seq)] ==
        IF k = 0 THEN list
        ELSE LET some == sorted[k - 1]
             IN IF seq[k] \in Range(some) THEN some ELSE Append(some, seq[k])
  IN sorted[Len(seq)]

\* priorityStack: the tests that a level depends on move to the next one.  There
\* is a cycle if a level below as many as there are tests has any; the levels
\* after the last one with tests are empty.
PriorityStack(d, top) ==
  LET last == Cardinality(DOMAIN d)
      reached[n \in 0 .. last + 1] ==
        IF n = 0 THEN top ELSE UNION {d[t] : t \in reached[n - 1]}
  IN [n \in 0 .. last |-> reached[n] \ reached[n + 1]]

\* The tests that failed last time come first, then the levels, deepest first.
CreateParallelTestCostList(d, c, failed) ==
  LET levels == PriorityStack(d, DOMAIN d \ failed)
      last == Cardinality(DOMAIN d)
      sorted[n \in 0 .. last + 1] ==
        IF n = 0 THEN Ascending(failed \cap DOMAIN d)
        ELSE AppendNew(sorted[n - 1], CostSorted(levels[last + 1 - n], c))
  IN sorted[last + 1]

\* Each element of seq, after what below has for it.
EachAfter(seq, below) ==
  LET joined[k \in 0 .. Len(seq)] ==
        IF k = 0 THEN <<>> ELSE joined[k - 1] \o Append(below[seq[k]], seq[k])
  IN joined[Len(seq)]

\* Every test right after the tests it depends on.  The calls nest no deeper
\* than there are tests, as there is no cycle.
GetAllTestDependencies(d, test) ==
  LET depth == Cardinality(DOMAIN d)
      all[n \in 0 .. depth] ==
        IF n = 0 THEN [t \in DOMAIN d |-> <<>>]
        ELSE LET below == all[n - 1]
             IN [t \in DOMAIN d |-> EachAfter(Ascending(d[t]), below)]
  IN all[depth][test]

CreateSerialTestCostList(d, c) ==
  LET presorted == CostSorted(DOMAIN d, c)
      sorted[n \in 0 .. Len(presorted)] ==
        IF n = 0 THEN <<>>
        ELSE LET list == sorted[n - 1]
                 test == presorted[n]
             IN IF test \in Range(list) THEN list
                ELSE Append(AppendNew(list, GetAllTestDependencies(d, test)), test)
  IN sorted[Len(presorted)]

CreateTestCostList(d, c, failed, level) ==
  IF level > 1 THEN CreateParallelTestCostList(d, c, failed)
               ELSE CreateSerialTestCostList(d, c)

-----------------------------------------------------------------------------
Init ==
  /\ \E S \in Suites : suite \in S
  /\ deps = <<>> /\ requireSuccess = <<>> /\ cost = suite.cost
  /\ hasCycles = FALSE /\ sortedTests = <<>> /\ step = "select"

UpdateForFixtures ==
  /\ step = "select"
  /\ LET list == AddFixtureTests(suite, suite.selected)
     IN /\ deps' = [t \in list |-> Depends(suite, list, t)]
        /\ requireSuccess' = [t \in list |-> RequireSuccess(suite, t)]
  /\ step' = "sort"
  /\ UNCHANGED <<suite, cost, hasCycles, sortedTests>>

\* ReadCostData: a cost that the project did not set is taken from the file,
\* but only for a parallel run.
ReadCostData ==
  cost' = [t \in Test |-> IF suite.level > 1 /\ cost[t] = 0 THEN suite.savedCost[t] ELSE cost[t]]

SetTests ==
  /\ step = "sort"
  /\ ReadCostData
  /\ hasCycles' = ~CheckCycles(deps)
  /\ sortedTests' = IF hasCycles' THEN <<>>
                    ELSE CreateTestCostList(deps, cost', suite.failed, suite.level)
  /\ step' = "done"
  /\ UNCHANGED <<suite, deps, requireSuccess>>

Prepared == step = "done" /\ UNCHANGED vars

Next == UpdateForFixtures \/ SetTests \/ Prepared

Spec == Init /\ [][Next]_vars

-----------------------------------------------------------------------------
(* Properties. *)

\* Some tests wait for each other in a ring: each test of a set depends on one
\* of that set.
Cyclic(d) == \E S \in (SUBSET DOMAIN d) \ {{}} : \A t \in S : d[t] \cap S # {}

\* The depth first search finds a cycle exactly when there is one, also when
\* the cycle is only reachable from, and does not contain, some of the roots.
CyclesFound == step = "done" => (hasCycles <=> Cyclic(deps))

Runnable == step = "done" /\ ~hasCycles
Position(t) == CHOOSE i \in DOMAIN sortedTests : sortedTests[i] = t

\* Every test of the list is in SortedTests once, however many levels it sits
\* on and whether it failed last time, and after everything it depends on; only
\* a test that failed last time may, in a parallel run, stand before that.
DependenciesBefore ==
  Runnable =>
    /\ Len(sortedTests) = Cardinality(DOMAIN deps) /\ Range(sortedTests) = DOMAIN deps
    /\ \A t \in DOMAIN deps : \A u \in deps[t] :
         Position(u) < Position(t) \/ (suite.level > 1 /\ t \in suite.failed)

Complete(S) ==
  \A t \in S \ suite.disabled : \A f \in suite.required[t] : FixtureTests(suite, f) \subseteq S

\* The list is the smallest one that holds the selected tests and the setups and
\* cleanups of each fixture that an enabled test of the list requires, unless
\* -FS or -FC excludes them.
FixturesComplete ==
  step # "select" =>
    /\ suite.selected \subseteq DOMAIN deps
    /\ Complete(DOMAIN deps)
    /\ \A S \in SUBSET Test : suite.selected \subseteq S /\ Complete(S) => DOMAIN deps \subseteq S

\* A test with fixtures stands after the setups of each, needs them to pass if
\* they run, and stands before the cleanups; and a cleanup stands after the
\* setups even if no test requires the fixture.
FixturesOrdered ==
  Runnable /\ suite.failed = {} =>
    \A t \in DOMAIN deps \ suite.disabled :
      /\ \A f \in suite.required[t], u \in DOMAIN deps :
           /\ f \in suite.setup[u] => Position(u) < Position(t) /\ u \in requireSuccess[t]
           /\ f \in suite.cleanup[u] => Position(t) < Position(u)
      /\ \A f \in suite.setup[t], u \in DOMAIN deps :
           f \in suite.cleanup[u] => Position(t) < Position(u)
=============================================================================
