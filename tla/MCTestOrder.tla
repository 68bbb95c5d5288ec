----------------------------- MODULE MCTestOrder -----------------------------
EXTENDS TestOrder

NoFixtures == {[t \in Test |-> {}]}

\* A test depends on lower numbers and on the next higher one, or on itself
\* only: cycles of every length, chains that join on several levels.  All costs,
\* former failures and both kinds of run.
LongGraphs == [
  depends : {d \in [Test -> SUBSET Test] :
     \A t \in Test : \/ \A u \in d[t] : u < t \/ u = t + 1
                     \/ t = 4 /\ d[t] = {t}},
  required : NoFixtures, setup : NoFixtures, cleanup : NoFixtures,
  disabled : {{}}, selected : {Test}, noSetup : {{}}, noCleanup : {{}},
  cost : [Test -> {0, 1}], savedCost : {[t \in Test |-> IF t = 3 THEN 1 ELSE 0]},
  failed : SUBSET Test, level : {1, 2}]

\* Two fixtures, the tests of one of which may require the other one.
FixtureGraphs == [
  depends : {[t \in Test |-> {}], [t \in Test |-> IF t = 2 THEN {1, 3} ELSE {}]},
  required : {r \in [Test -> SUBSET Fixture] : r[1] = {} /\ r[4] \in {{}, {"foo"}}},
  setup : {r \in [Test -> SUBSET Fixture] : r[1] \in {{"foo"}, Fixture} /\ r[3] = {} /\ r[4] = {}},
  cleanup : {r \in [Test -> SUBSET Fixture] : r[1] = {} /\ r[3] = {} /\ r[2] \in {{}, {"foo"}}},
  disabled : {{}, {2}}, selected : {Test, {2}, {3}}, noSetup : {{}, {"bar"}}, noCleanup : {{}, {"foo"}},
  cost : {[t \in Test |-> 0]}, savedCost : {[t \in Test |-> 0]}, failed : {{}}, level : {1, 2}]

MCSuites == {LongGraphs, FixtureGraphs}
=============================================================================
