----------------------------- MODULE MCTestResume -----------------------------
(* Suites for TestResume; the conventions are those of MCTestScheduler.       *)
EXTENDS TestResume, TLC

InOrder == [t \in Test |-> t]
Independent == [t \in Test |-> {}]
OneEach == [t \in Test |-> 1]
NoResources == [t \in Test |-> <<>>]
NoUnits == [u \in {} |-> 0]
=============================================================================
