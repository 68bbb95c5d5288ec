------------------------------ MODULE TestSuite -------------------------------
(***************************************************************************)
(* What CTest promises about the tests of a suite, whatever the order in   *)
(* which the scheduler looks at them: the documented meaning of DEPENDS,   *)
(* FIXTURES_REQUIRED, RESOURCE_LOCK, RUN_SERIAL, PROCESSORS and DISABLED   *)
(* (Help/prop_test).  TestScheduler implements it.                         *)
(***************************************************************************)
EXTENDS Integers, FiniteSets

CONSTANTS
  Test,           \* the tests of the suite
  Depends,        \* [Test -> SUBSET Test]: tests to run before
  RequireSuccess, \* [Test -> SUBSET Test]: tests that must not have failed
  Locks,          \* [Test -> set of lock names]
  RunSerial,      \* tests that run alone
  Slots,          \* [Test -> Nat]: the slots a test takes
  ParallelLevel,  \* slots there are
  Disabled        \* tests that are never run

VARIABLE state    \* [Test -> "waiting", "running", or how the test ended]

Ended == {"passed", "failed", "disabled"}

RunningTests == {t \in Test : state[t] = "running"}

SlotsOf(S) == UNION {{t} \X (1 .. Slots[t]) : t \in S}

SlotsTaken(S) == Cardinality(SlotsOf(S))

\* Everything that must come before the test is over.
Ready(t) ==
  /\ state[t] = "waiting"
  /\ \A u \in Depends[t] : state[u] \in Ended

\* The test may run beside the tests that are running.
MayJoin(t) ==
  /\ \A u \in RunningTests : Locks[t] \cap Locks[u] = {}
  /\ SlotsTaken(RunningTests \cup {t}) <= ParallelLevel
  /\ t \in RunSerial => RunningTests = {}
  /\ RunningTests \cap RunSerial = {}

Init == state = [t \in Test |-> "waiting"]

Start(t) ==
  /\ Ready(t) /\ MayJoin(t)
  /\ t \notin Disabled
  /\ \A u \in RequireSuccess[t] : state[u] # "failed"
  /\ state' = [state EXCEPT ![t] = "running"]

Finish(t) ==
  /\ state[t] = "running"
  /\ \E end \in {"passed", "failed"} : state' = [state EXCEPT ![t] = end]

\* A test that cannot be started fails, a disabled one is only listed.
NotRun(t) ==
  /\ Ready(t)
  /\ state' = [state EXCEPT ![t] = IF t \in Disabled THEN "disabled" ELSE "failed"]

Next == \E t \in Test : Start(t) \/ Finish(t) \/ NotRun(t)

Spec == Init /\ [][Next]_state
=============================================================================
