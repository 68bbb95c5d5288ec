------------------------- MODULE TestSchedulerProofs --------------------------
(***************************************************************************)
(* Theorems about TestScheduler and TestResume, for every suite, every     *)
(* number of slots, processors and resources and every option.             *)
(*   1. Types, and the safety of slots, RUN_SERIAL, locks, dependencies,   *)
(*      fixture setups, repeats and the stop time.  The inductive          *)
(*      invariant is the conjunction of the parts below; each is shown to  *)
(*      be preserved with the help of those before it, also where RunTests *)
(*      finds a checkpoint.  It is also all that the refinement of         *)
(*      TestSuite needs.                                                   *)
(*   2. Resources and processors, and that no unsigned count goes below    *)
(*      zero.                                                              *)
(*   3. How the scheduler gets to its end.                                 *)
(*   4. Kills and resumption.                                              *)
(***************************************************************************)
EXTENDS TestResume, FiniteSetTheorems, TLAPS

-----------------------------------------------------------------------------
(* The operators the actions are built from.                               *)

\* A test takes at least one slot and at most all of them.
LEMMA UsedType ==
  ASSUME NEW t \in Test
  PROVE  /\ GetProcessorsUsed(t) \in 1 .. ParallelLevel
         /\ t \in WantAffinity /\ HaveAffinity > 0
              => GetProcessorsUsed(t) <= HaveAffinity
<1>1. HaveAffinity \in Nat
  BY CpuAssumption, FS_CardinalityType DEF HaveAffinity
<1> QED
  BY <1>1, ProcessorsAssumption DEF GetProcessorsUsed

\* A placement takes a natural number of slots from a unit.
LEMMA DemandType ==
  ASSUME NEW t \in Test, NEW a, NEW u
  PROVE  Demand(t, a, u) \in Nat
<1> DEFINE all == (DOMAIN Requires[t]) \X (1 .. MaxSlots)
           taken == {p \in all : a[p[1]] = u /\ p[2] <= Requires[t][p[1]].slots}
<1>1. IsFiniteSet(DOMAIN Requires[t]) /\ IsFiniteSet(1 .. MaxSlots)
  BY ResourceAssumption, FS_Interval
<1>2. IsFiniteSet(all)
  BY <1>1, FS_Product
<1>3. IsFiniteSet(taken)
  <2>1. taken \in SUBSET all
    OBVIOUS
  <2> HIDE DEF all, taken
  <2> QED BY <1>2, <2>1, FS_Subset
<1>4. Cardinality(taken) \in Nat
  <2> HIDE DEF taken
  <2> QED BY <1>3, FS_CardinalityType
<1> QED BY <1>4 DEF Demand

-----------------------------------------------------------------------------
(* Types.                                                                   *)

\* A step of the program, whatever the clock does.
LEMMA HandlerSteps == Spec => Init /\ [][HandlerStep]_handlerVars
<1>1. [Next]_vars => [HandlerStep]_handlerVars
  BY DEF Next, StopTimeComes, vars
<1> QED BY <1>1, PTL DEF Spec

\* The sets that the fields range over.  That the counts which are taken from
\* are never below zero follows from what they count (TypeCorrect, below).
Typed ==
  /\ pc \in {"run", "next", "scan", "launch", "wait", "done"}
  /\ launching \in SUBSET Test
  /\ tests \in SUBSET Test
  /\ waitingFor \in [Test -> SUBSET Test]
  /\ running \in SUBSET Test /\ finished \in SUBSET Test /\ live \in SUBSET Test
  /\ completed \in Nat
  /\ runningCount \in Int
  /\ serialTestRunning \in BOOLEAN
  /\ lockedResources \in SUBSET Lock
  /\ locked \in [Unit -> Int]
  /\ allocated \in [Test -> [Unit -> Nat]]
  /\ processorsAvailable \in SUBSET Cpu
  /\ affinity \in [Test -> SUBSET Cpu]
  /\ passed \in SUBSET Test /\ failed \in SUBSET Test
  /\ results \in [Test -> Nat]
  /\ runsLeft \in [Test -> Int]
  /\ attempts \in [Test -> Nat]
  /\ stopTimePassed \in BOOLEAN
  /\ retryTimer \in BOOLEAN
  /\ checkpoint \in SUBSET Test
  /\ copy \in SUBSET Test
  /\ numToStart \in Int
  /\ spareLoad \in Nat
  /\ allTestsFailedTestLoadCheck \in BOOLEAN

\* Taking and giving back resources keeps the counters numbers.
LEMMA AllocationType ==
  ASSUME Typed, NEW t \in Test, AllocateResources(t) \/ DeallocateResources(t)
  PROVE  /\ locked' \in [Unit -> Int]
         /\ allocated' \in [Test -> [Unit -> Nat]]
<1>1. CASE DeallocateResources(t)
  BY <1>1 DEF DeallocateResources, Typed
<1>2. CASE UNCHANGED <<locked, allocated>>
  BY <1>2 DEF Typed
<1>3. CASE \E a \in Placements(t) : Allocate(t, a)
  <2>1. PICK a : Allocate(t, a)
    BY <1>3
  <2>2. \A u \in Unit : Demand(t, a, u) \in Nat
    BY DemandType
  <2> QED BY <2>1, <2>2 DEF Allocate, Typed
<1> QED BY <1>1, <1>2, <1>3 DEF AllocateResources

LEMMA AffinityType ==
  ASSUME Typed, NEW t \in Test, TakeAffinity(t)
  PROVE  /\ processorsAvailable' \in SUBSET Cpu
         /\ affinity' \in [Test -> SUBSET Cpu]
BY DEF TakeAffinity, Lowest, Typed

LEMMA ReleaseType ==
  ASSUME Typed, NEW t \in Test, NEW status, ReleaseTest(t, status)
  PROVE  /\ completed' \in Nat
         /\ passed' \in SUBSET Test /\ failed' \in SUBSET Test
         /\ waitingFor' \in [Test -> SUBSET Test]
         /\ finished' \in SUBSET Test /\ running' \in SUBSET Test
         /\ checkpoint' \in SUBSET Test
         /\ locked' \in [Unit -> Int]
         /\ allocated' \in [Test -> [Unit -> Nat]]
         /\ lockedResources' \in SUBSET Lock
         /\ serialTestRunning' \in BOOLEAN
         /\ runningCount' \in Int
         /\ processorsAvailable' \in SUBSET Cpu
         /\ affinity' \in [Test -> SUBSET Cpu]
<1>1. locked' \in [Unit -> Int] /\ allocated' \in [Test -> [Unit -> Nat]]
  BY AllocationType DEF ReleaseTest
<1>2. runningCount' \in Int
  BY UsedType DEF ReleaseTest, Typed
<1>3. serialTestRunning' \in BOOLEAN
  BY DEF ReleaseTest
<1>4. completed' \in Nat
  BY DEF ReleaseTest, Typed
<1>5. passed' \in SUBSET Test /\ failed' \in SUBSET Test
  BY DEF ReleaseTest, Typed
<1>6. waitingFor' \in [Test -> SUBSET Test]
  BY DEF ReleaseTest, Typed
<1>7. /\ finished' \in SUBSET Test /\ running' \in SUBSET Test
      /\ checkpoint' \in SUBSET Test /\ lockedResources' \in SUBSET Lock
  BY DEF ReleaseTest, Typed
<1>8. processorsAvailable' \in SUBSET Cpu /\ affinity' \in [Test -> SUBSET Cpu]
  BY DEF ReleaseTest, Typed
<1> QED BY <1>1, <1>2, <1>3, <1>4, <1>5, <1>6, <1>7, <1>8

LEMMA EndTestType ==
  ASSUME Typed, NEW t \in Test, NEW status, EndTest(t, status)
  PROVE  runsLeft' \in [Test -> Int] /\ results' \in [Test -> Nat]
BY DEF EndTest, Typed

\* The part of a failed or successful StartTest that all outcomes share.
LEMMA TryingType ==
  ASSUME Typed, NEW t \in Test, Trying(t)
  PROVE  /\ copy' \in SUBSET Test
         /\ allTestsFailedTestLoadCheck' \in BOOLEAN
BY DEF Trying, Looking, NoteLoad, Typed

LEMMA TypeInit == Init => Typed
<1> SUFFICES ASSUME Init PROVE Typed
  OBVIOUS
<1>1. Runs \in Int
  BY OptionAssumption DEF Runs
<1>2. runsLeft \in [Test -> Int]
  BY <1>1 DEF Init
<1>3. waitingFor \in [Test -> SUBSET Test]
  BY DependsAssumption DEF Init
<1>4. /\ locked \in [Unit -> Int] /\ allocated \in [Test -> [Unit -> Nat]]
      /\ affinity \in [Test -> SUBSET Cpu] /\ results \in [Test -> Nat]
      /\ attempts \in [Test -> Nat]
  BY DEF Init
<1>5. /\ serialTestRunning \in BOOLEAN /\ stopTimePassed \in BOOLEAN
      /\ retryTimer \in BOOLEAN /\ allTestsFailedTestLoadCheck \in BOOLEAN
  BY DEF Init
<1> QED BY <1>2, <1>3, <1>4, <1>5 DEF Init, Typed

LEMMA TypeNext == Typed /\ [HandlerStep]_handlerVars => Typed'
<1> SUFFICES ASSUME Typed, [HandlerStep]_handlerVars PROVE Typed'
  OBVIOUS
<1> USE DEF testVars, holdVars, recordVars, scanVars
<1>1. CASE RunTests
  <2>1. Cardinality(Resumed) \in Nat
    BY TestAssumption, FS_Subset, FS_EmptySet, FS_CardinalityType DEF Resumed, Typed
  <2> QED BY <1>1, <2>1 DEF RunTests, CheckResume, Resumed, Typed
<1>2. CASE StartNextTests
  <2>1. CheckStopTimePassed \in BOOLEAN
    BY Zenon DEF CheckStopTimePassed
  <2>2. stopTimePassed' \in BOOLEAN /\ retryTimer' \in BOOLEAN
    BY <1>2, <2>1 DEF StartNextTests, Typed
  <2>3. CASE UNCHANGED scanVars
    BY <1>2, <2>2, <2>3 DEF StartNextTests, Typed
  <2>4. CASE ~ UNCHANGED scanVars
    <3>1. /\ pc' = "scan" /\ copy' = tests
          /\ allTestsFailedTestLoadCheck' = (TestLoad > 0)
      BY <1>2, <2>4 DEF StartNextTests
    <3>2. PICK load \in LoadAverage :
            LET spare == SpareLoad(load)
                free == ParallelLevel - runningCount
            IN /\ spareLoad' = spare
               /\ numToStart' = IF TestLoad > 0 /\ free > spare THEN spare ELSE free
      BY <1>2, <2>4 DEF StartNextTests
    <3>3. spareLoad' \in Nat /\ numToStart' \in Int
      BY <3>2, OptionAssumption, ProcessorsAssumption DEF SpareLoad, Typed
    <3>4. allTestsFailedTestLoadCheck' \in BOOLEAN
      BY <3>1
    <3> QED BY <1>2, <2>2, <3>1, <3>3, <3>4 DEF StartNextTests, Typed
  <2> QED BY <2>3, <2>4
<1>3. ASSUME NEW t \in Test, SkipSerial(t) PROVE Typed'
  BY <1>3 DEF SkipSerial, Typed
<1>4. ASSUME NEW t \in Test, SkipForRoom(t) PROVE Typed'
  BY <1>4 DEF SkipForRoom, NoteLoad, Typed
<1>5. ASSUME NEW t \in Test, TestLocked(t) PROVE Typed'
  BY <1>5, TryingType DEF TestLocked, Trying, Typed
<1>6. ASSUME NEW t \in Test, TestNotReady(t) PROVE Typed'
  BY <1>6, TryingType, AllocationType DEF TestNotReady, Trying, Typed
<1>7. ASSUME NEW t \in Test, AffinityUnavailable(t) PROVE Typed'
  BY <1>7, TryingType, AllocationType DEF AffinityUnavailable, Trying, Typed
<1>8. ASSUME NEW t \in Test, StartTestProcess(t) PROVE Typed'
  <2>1. /\ locked' \in [Unit -> Int] /\ allocated' \in [Test -> [Unit -> Nat]]
        /\ processorsAvailable' \in SUBSET Cpu /\ affinity' \in [Test -> SUBSET Cpu]
        /\ copy' \in SUBSET Test /\ allTestsFailedTestLoadCheck' \in BOOLEAN
    BY <1>8, TryingType, AllocationType, AffinityType DEF StartTestProcess
  <2>2. runningCount' \in Int
    BY <1>8, UsedType DEF StartTestProcess, Typed
  <2>3. lockedResources' \in SUBSET Lock /\ serialTestRunning' \in BOOLEAN
    BY <1>8, PropertiesAssumption DEF StartTestProcess, Typed
  <2> QED BY <1>8, <2>1, <2>2, <2>3 DEF StartTestProcess, EraseTest, Trying, Typed
<1>9. ASSUME NEW t \in Test, TestStarts(t) PROVE Typed'
  BY <1>9, UsedType DEF TestStarts, Typed
<1>10. ASSUME NEW t \in Test, NEW status, TestFailsToStart(t, status) PROVE Typed'
  <2>1. /\ EndTest(t, status) /\ ReleaseTest(t, status)
        /\ pc' = "scan" /\ launching' = {}
        /\ UNCHANGED <<stopTimePassed, retryTimer, tests, live, attempts, scanVars>>
    BY <1>10 DEF TestFailsToStart
  <2> QED BY <2>1, EndTestType, ReleaseType DEF Typed
<1>11. CASE EndOfLoop
  <2>1. retryTimer' \in BOOLEAN /\ allTestsFailedTestLoadCheck' \in BOOLEAN
    BY <1>11, Zenon DEF EndOfLoop, StartRetryTimer, Typed
  <2> QED BY <1>11, <2>1 DEF EndOfLoop, StartRetryTimer, Typed
<1>12. ASSUME NEW t \in Test, NEW status, NEW forStopTime \in BOOLEAN,
              TestFinishes(t, status, forStopTime)
       PROVE Typed'
  BY <1>12, EndTestType, ReleaseType DEF TestFinishes, ChildEnds, Typed
<1>13. ASSUME NEW t \in Test, NEW status, TestRunsAgain(t, status) PROVE Typed'
  BY <1>13, EndTestType DEF TestRunsAgain, ChildEnds, Typed
<1>14. ASSUME NEW t \in Test, NEW status, RerunFailsToStart(t, status) PROVE Typed'
  BY <1>14, EndTestType DEF RerunFailsToStart, ChildEnds, Typed
<1>15. CASE OnTestLoadRetryCB
  BY <1>15 DEF OnTestLoadRetryCB, Typed
<1>16. CASE LoopEnds
  BY <1>16 DEF LoopEnds, Typed
<1>17. CASE UNCHANGED handlerVars
  BY <1>17 DEF handlerVars, Typed
<1> QED
  BY <1>1, <1>2, <1>3, <1>4, <1>5, <1>6, <1>7, <1>8, <1>9, <1>10, <1>11, <1>12,
     <1>13, <1>14, <1>15, <1>16, <1>17
  DEF HandlerStep, ScanStep, ChildStep, Terminated

-----------------------------------------------------------------------------
(* The parts of the inductive invariant.                                    *)

\* Where a test can be: the list, the running map or the finished map, and
\* what the thread's place says of the fields.
Places ==
  /\ pc = "run" => running = {} /\ copy = {}
  /\ pc # "launch" => launching = {}
  /\ pc = "launch" => \E t \in Test : launching = {t}
  /\ pc \in {"scan", "launch"} => ~stopTimePassed
  /\ copy \subseteq tests
  /\ live \subseteq running /\ launching \subseteq running
  /\ live \cap launching = {}
  /\ tests \cap running = {} /\ tests \cap finished = {}
  /\ running \cap finished = {}
  /\ passed \subseteq finished /\ failed \subseteq finished
  /\ live \cap Disabled = {}

\* The slots still to be given out in the loop, and those a launch will take.
Capacity ==
  /\ SlotsExact
  /\ pc \notin {"scan", "launch"} => numToStart = 0
  /\ pc = "scan" => numToStart >= 0 /\ numToStart + runningCount <= ParallelLevel
  /\ pc = "launch" =>
       \A t \in launching :
         /\ GetProcessorsUsed(t) <= numToStart
         /\ numToStart + runningCount - GetProcessorsUsed(t) <= ParallelLevel

Serial ==
  /\ serialTestRunning <=> running \cap RunSerial # {}
  /\ SerialAlone

\* A test in the list still waits for whatever it depends on that is not over.
Waiting ==
  /\ \A t \in tests : Depends[t] \ finished \subseteq waitingFor[t]
  /\ DependenciesFirst

\* The runs made and the runs left of a test add up.
RunsCounted ==
  \A t \in Test :
    /\ attempts[t] <= Runs
    /\ t \in live => /\ runsLeft[t] >= 1 /\ attempts[t] >= 1
                     /\ attempts[t] + runsLeft[t] = Runs + 1
    /\ t \in tests \cup launching => attempts[t] = 0 /\ runsLeft[t] = Runs

-----------------------------------------------------------------------------
(* Counting slots.                                                          *)

LEMMA SlotsFinite ==
  ASSUME NEW S \in SUBSET Test
  PROVE  IsFiniteSet(SlotsOf(S)) /\ Cardinality(SlotsOf(S)) \in Nat
<1>1. IsFiniteSet(S)
  BY TestAssumption, FS_Subset
<1>2. IsFiniteSet(1 .. ParallelLevel)
  BY ProcessorsAssumption, FS_Interval
<1>3. IsFiniteSet(S \X (1 .. ParallelLevel))
  BY <1>1, <1>2, FS_Product
<1>4. SlotsOf(S) \in SUBSET (S \X (1 .. ParallelLevel))
  BY DEF SlotsOf
<1> QED BY <1>3, <1>4, FS_Subset, FS_CardinalityType

\* A test adds exactly the slots it is charged for.
LEMMA SlotsAdd ==
  ASSUME NEW S \in SUBSET Test, NEW t \in Test, t \notin S
  PROVE  Cardinality(SlotsOf(S \cup {t}))
           = Cardinality(SlotsOf(S)) + GetProcessorsUsed(t)
<1> DEFINE n == GetProcessorsUsed(t)
           new == {t} \X (1 .. n)
<1>1. n \in 1 .. ParallelLevel /\ n \in Nat
  BY UsedType, ProcessorsAssumption
<1>2. SlotsOf(S \cup {t}) = SlotsOf(S) \cup new
  BY <1>1, ProcessorsAssumption DEF SlotsOf
<1>3. SlotsOf(S) \cap new = {}
  BY DEF SlotsOf
<1>4. IsFiniteSet(new) /\ Cardinality(new) = n
  <2>1. IsFiniteSet({t}) /\ Cardinality({t}) = 1
    BY FS_Singleton
  <2>2. IsFiniteSet(1 .. n) /\ Cardinality(1 .. n) = n
    BY <1>1, FS_Interval
  <2>3. IsFiniteSet(new) /\ Cardinality(new) = 1 * n
    <3> HIDE DEF n
    <3> QED BY ONLY <2>1, <2>2, FS_Product, ZenonT(30)
  <2> QED BY <2>3, <1>1
<1>5. Cardinality(SlotsOf(S) \cup new)
        = Cardinality(SlotsOf(S)) + Cardinality(new) - Cardinality(SlotsOf(S) \cap new)
  <2> HIDE DEF new
  <2> QED BY <1>4, SlotsFinite, FS_Union
<1>6. Cardinality(SlotsOf(S) \cap new) = 0
  BY <1>3, FS_EmptySet
<1>7. Cardinality(SlotsOf(S)) \in Nat
  BY SlotsFinite
<1>8. Cardinality(SlotsOf(S \cup {t})) = Cardinality(SlotsOf(S) \cup new)
  BY <1>2
<1> HIDE DEF new, n
<1>9. Cardinality(SlotsOf(S) \cup new) = Cardinality(SlotsOf(S)) + n
  BY <1>1, <1>4, <1>5, <1>6, <1>7
<1> QED BY <1>8, <1>9 DEF n

LEMMA SlotsRemove ==
  ASSUME NEW S \in SUBSET Test, NEW t \in S
  PROVE  Cardinality(SlotsOf(S \ {t}))
           = Cardinality(SlotsOf(S)) - GetProcessorsUsed(t)
<1>1. S \ {t} \in SUBSET Test /\ t \in Test /\ t \notin S \ {t}
  OBVIOUS
<1>2. (S \ {t}) \cup {t} = S
  OBVIOUS
<1>3. Cardinality(SlotsOf(S)) = Cardinality(SlotsOf(S \ {t})) + GetProcessorsUsed(t)
  BY <1>1, <1>2, SlotsAdd
<1>4. /\ Cardinality(SlotsOf(S \ {t})) \in Nat
      /\ GetProcessorsUsed(t) \in 1 .. ParallelLevel
  BY <1>1, SlotsFinite, UsedType
<1> QED BY <1>3, <1>4, ProcessorsAssumption

\* Every running test takes a slot.
LEMMA SlotsNone ==
  ASSUME NEW S \in SUBSET Test, Cardinality(SlotsOf(S)) = 0
  PROVE  S = {}
<1> SUFFICES ASSUME NEW t \in S PROVE FALSE
  OBVIOUS
<1>1. <<t, 1>> \in SlotsOf(S)
  BY UsedType, ProcessorsAssumption DEF SlotsOf
<1> QED BY <1>1, SlotsFinite, FS_EmptySet

-----------------------------------------------------------------------------
(* Where the tests are.                                                     *)

LEMMA PlacesInit == Init => Places
BY DEF Init, Places

\* CheckResume only ever declares tests of the list to be over.
LEMMA RunTestsResumes ==
  ASSUME Typed, RunTests
  PROVE  /\ tests' = tests \ Resumed /\ finished' = finished \cup Resumed
         /\ Resumed \subseteq Test
BY DEF RunTests, CheckResume, Resumed, Typed

\* In a single invocation there is no checkpoint to resume from.
Unresumed == pc = "run" => checkpoint = {}

LEMMA RunTestsKeeps ==
  ASSUME Typed, Unresumed, RunTests
  PROVE  tests' = tests /\ finished' = finished
BY DEF RunTests, CheckResume, Resumed, Unresumed, Typed

LEMMA UnresumedHolds == Spec => []Unresumed
<1>1. Init => Unresumed
  BY DEF Init, Unresumed
<1>2. Unresumed /\ [HandlerStep]_handlerVars => Unresumed'
  <2> SUFFICES ASSUME Unresumed, [HandlerStep]_handlerVars PROVE Unresumed'
    OBVIOUS
  <2>1. CASE pc' # "run"
    BY <2>1 DEF Unresumed
  <2>2. ASSUME UNCHANGED <<pc, checkpoint>> PROVE Unresumed'
    BY <2>2 DEF Unresumed
  <2> QED
    BY <2>1, <2>2
    DEF HandlerStep, ScanStep, ChildStep, Terminated, handlerVars, recordVars, RunTests,
        StartNextTests, SkipSerial, SkipForRoom, TestLocked, TestNotReady,
        AffinityUnavailable, Trying, StartTestProcess, TestStarts,
        TestFailsToStart, EndOfLoop, TestFinishes, TestRunsAgain,
        RerunFailsToStart, OnTestLoadRetryCB, LoopEnds
<1> QED BY <1>1, <1>2, HandlerSteps, PTL

LEMMA ReleasePlaces ==
  ASSUME Typed, Places, NEW t \in running, NEW status, ReleaseTest(t, status),
         tests' = tests
  PROVE  /\ tests' \cap running' = {} /\ tests' \cap finished' = {}
         /\ running' \cap finished' = {}
         /\ passed' \subseteq finished' /\ failed' \subseteq finished'
         /\ running' = running \ {t}
BY DEF ReleaseTest, Places, Typed

LEMMA PlacesNext == Typed /\ Places /\ [HandlerStep]_handlerVars => Places'
<1> SUFFICES ASSUME Typed, Places, [HandlerStep]_handlerVars PROVE Places'
  OBVIOUS
<1> USE DEF testVars, holdVars, recordVars, scanVars
<1>1. CASE RunTests
  BY <1>1, RunTestsResumes DEF RunTests, Places, Typed
<1>2. CASE StartNextTests
  <2>1. IF NothingToStart(stopTimePassed')
          THEN pc' = "wait" /\ UNCHANGED scanVars
          ELSE pc' = "scan" /\ copy' = tests
    BY <1>2 DEF StartNextTests
  <2>2. CASE pc' = "wait" /\ UNCHANGED scanVars
    BY <1>2, <2>2 DEF StartNextTests, Places, Typed
  <2>3. CASE pc' = "scan" /\ copy' = tests /\ ~stopTimePassed'
    BY <1>2, <2>3 DEF StartNextTests, Places, Typed
  <2> QED BY <2>1, <2>2, <2>3 DEF NothingToStart
<1>3. ASSUME NEW t \in Test, SkipSerial(t) PROVE Places'
  BY <1>3 DEF SkipSerial, Looking, Places, Typed
<1>4. ASSUME NEW t \in Test, SkipForRoom(t) PROVE Places'
  BY <1>4 DEF SkipForRoom, Looking, Places, Typed
<1>5. ASSUME NEW t \in Test, TestLocked(t) PROVE Places'
  BY <1>5 DEF TestLocked, Trying, Looking, Places, Typed
<1>6. ASSUME NEW t \in Test, TestNotReady(t) PROVE Places'
  BY <1>6 DEF TestNotReady, Trying, Looking, Places, Typed
<1>7. ASSUME NEW t \in Test, AffinityUnavailable(t) PROVE Places'
  BY <1>7 DEF AffinityUnavailable, Trying, Looking, Places, Typed
<1>8. ASSUME NEW t \in Test, StartTestProcess(t) PROVE Places'
  BY <1>8 DEF StartTestProcess, EraseTest, Trying, Looking, Places, Typed
<1>9. ASSUME NEW t \in Test, TestStarts(t) PROVE Places'
  BY <1>9 DEF TestStarts, Unstartable, Places, Typed
<1>10. ASSUME NEW t \in Test, NEW status, TestFailsToStart(t, status) PROVE Places'
  <2>1. launching = {t} /\ t \in running /\ t \notin live
    BY <1>10 DEF TestFailsToStart, Places
  <2>2. ReleaseTest(t, status) /\ tests' = tests
    BY <1>10 DEF TestFailsToStart
  <2> QED BY <1>10, <2>1, <2>2, ReleasePlaces DEF TestFailsToStart, Places, Typed
<1>11. CASE EndOfLoop
  BY <1>11 DEF EndOfLoop, Places, Typed
<1>12. ASSUME NEW t \in Test, NEW status, NEW forStopTime \in BOOLEAN,
              TestFinishes(t, status, forStopTime)
       PROVE Places'
  <2>1. pc = "wait" /\ t \in live /\ t \in running /\ launching = {}
    BY <1>12 DEF TestFinishes, ChildEnds, Places
  <2>2. ReleaseTest(t, status) /\ tests' = tests
    BY <1>12 DEF TestFinishes
  <2> QED BY <1>12, <2>1, <2>2, ReleasePlaces DEF TestFinishes, Places, Typed
<1>13. ASSUME NEW t \in Test, NEW status, TestRunsAgain(t, status) PROVE Places'
  BY <1>13 DEF TestRunsAgain, ChildEnds, Places, Typed
<1>14. ASSUME NEW t \in Test, NEW status, RerunFailsToStart(t, status) PROVE Places'
  BY <1>14 DEF RerunFailsToStart, ChildEnds, Places, Typed
<1>15. CASE OnTestLoadRetryCB
  BY <1>15 DEF OnTestLoadRetryCB, Places, Typed
<1>16. CASE LoopEnds
  BY <1>16 DEF LoopEnds, Places, Typed
<1>17. CASE UNCHANGED handlerVars
  BY <1>17 DEF handlerVars, Places, Typed
<1> QED
  BY <1>1, <1>2, <1>3, <1>4, <1>5, <1>6, <1>7, <1>8, <1>9, <1>10, <1>11, <1>12,
     <1>13, <1>14, <1>15, <1>16, <1>17
  DEF HandlerStep, ScanStep, ChildStep, Terminated

-----------------------------------------------------------------------------
(* What a step does to the things that running tests hold.                  *)

\* A step leaves them alone, starts a test, or lets a running test go.
LEMMA HoldStep ==
  ASSUME Typed, Places, [HandlerStep]_handlerVars
  PROVE  \/ UNCHANGED <<running, runningCount, serialTestRunning, lockedResources>>
         \/ \E t \in Test : StartTestProcess(t)
         \/ \E t \in running, status \in Statuses : ReleaseTest(t, status) /\ tests' = tests
<1> USE DEF testVars, holdVars
<1>1. CASE RunTests \/ StartNextTests \/ OnTestLoadRetryCB \/ LoopEnds \/ EndOfLoop
  BY <1>1 DEF RunTests, StartNextTests, OnTestLoadRetryCB, LoopEnds, EndOfLoop
<1>2. ASSUME NEW t \in Test,
             \/ SkipSerial(t) \/ SkipForRoom(t) \/ TestLocked(t) \/ TestNotReady(t)
             \/ AffinityUnavailable(t) \/ TestStarts(t)
      PROVE  UNCHANGED <<running, runningCount, serialTestRunning, lockedResources>>
  BY <1>2 DEF SkipSerial, SkipForRoom, TestLocked, TestNotReady,
              AffinityUnavailable, TestStarts
<1>3. ASSUME NEW t \in Test, NEW status \in {"NOT_RUN", "BAD_COMMAND"},
             TestFailsToStart(t, status)
      PROVE  t \in running /\ status \in Statuses /\ ReleaseTest(t, status) /\ tests' = tests
  BY <1>3 DEF TestFailsToStart, Places, Statuses
<1>4. ASSUME NEW t \in Test, NEW status \in Statuses, NEW forStopTime \in BOOLEAN,
             TestFinishes(t, status, forStopTime)
      PROVE  t \in running /\ ReleaseTest(t, status) /\ tests' = tests
  BY <1>4 DEF TestFinishes, ChildEnds, Places
<1>5. ASSUME NEW t \in Test, NEW status \in Statuses,
             TestRunsAgain(t, status) \/ RerunFailsToStart(t, status)
      PROVE  UNCHANGED <<running, runningCount, serialTestRunning, lockedResources>>
  BY <1>5 DEF TestRunsAgain, RerunFailsToStart
<1>6. CASE UNCHANGED handlerVars
  BY <1>6 DEF handlerVars
<1> QED
  BY <1>1, <1>2, <1>3, <1>4, <1>5, <1>6 DEF HandlerStep, ScanStep, ChildStep, Terminated

-----------------------------------------------------------------------------
(* Slots.                                                                   *)

LEMMA CapacityInit == Init => Capacity
<1> SUFFICES ASSUME Init PROVE Capacity
  OBVIOUS
<1>1. SlotsOf({}) = {}
  BY DEF SlotsOf
<1>2. Cardinality(SlotsOf(running)) = 0
  BY <1>1, FS_EmptySet DEF Init
<1> QED BY <1>2, ProcessorsAssumption DEF Init, Capacity, SlotsExact

\* A test that starts, or is let go, changes both sides of the count alike.
LEMMA StartSlots ==
  ASSUME Typed, Places, SlotsExact, NEW t \in Test, StartTestProcess(t)
  PROVE  runningCount' = Cardinality(SlotsOf(running'))
<1>1. t \notin running /\ running \in SUBSET Test
  BY DEF StartTestProcess, Trying, Looking, Places, Typed
<1>2. Cardinality(SlotsOf(running \cup {t}))
        = Cardinality(SlotsOf(running)) + GetProcessorsUsed(t)
  BY <1>1, SlotsAdd
<1> QED BY <1>2 DEF StartTestProcess, SlotsExact

LEMMA ReleaseSlots ==
  ASSUME Typed, SlotsExact, NEW t \in running, NEW status, ReleaseTest(t, status)
  PROVE  /\ runningCount' = Cardinality(SlotsOf(running'))
         /\ runningCount' = runningCount - GetProcessorsUsed(t)
         /\ runningCount' <= ParallelLevel
<1>1. Cardinality(SlotsOf(running \ {t}))
        = Cardinality(SlotsOf(running)) - GetProcessorsUsed(t)
  BY SlotsRemove DEF Typed
<1>2. GetProcessorsUsed(t) \in 1 .. ParallelLevel
  BY UsedType DEF Typed
<1>3. runningCount' = Cardinality(SlotsOf(running'))
  BY <1>1 DEF ReleaseTest, SlotsExact
<1>4. runningCount' = runningCount - GetProcessorsUsed(t)
  BY DEF ReleaseTest
<1> QED BY <1>2, <1>3, <1>4, ProcessorsAssumption DEF SlotsExact, Typed

LEMMA CapacityNext == Typed /\ Places /\ Capacity /\ [HandlerStep]_handlerVars => Capacity'
<1> SUFFICES ASSUME Typed, Places, Capacity, [HandlerStep]_handlerVars PROVE Capacity'
  OBVIOUS
<1> USE DEF testVars, holdVars, scanVars
<1>0. SlotsExact
  BY DEF Capacity
<1>1. ASSUME UNCHANGED <<running, runningCount>>, pc' \notin {"scan", "launch"},
             numToStart' = 0
      PROVE  Capacity'
  BY <1>0, <1>1 DEF Capacity, SlotsExact, SlotsOf
<1>2. ASSUME UNCHANGED <<running, runningCount, pc, launching, numToStart>>
      PROVE  Capacity'
  BY <1>2 DEF Capacity, SlotsExact, SlotsOf
<1>3. CASE RunTests \/ OnTestLoadRetryCB \/ LoopEnds \/ EndOfLoop
  BY <1>1, <1>3 DEF RunTests, OnTestLoadRetryCB, LoopEnds, EndOfLoop, Capacity
<1>4. CASE StartNextTests
  <2>1. UNCHANGED <<running, runningCount>>
    BY <1>4 DEF StartNextTests
  <2>2. CASE pc' = "wait"
    <3>1. numToStart' = 0
      BY <1>4, <2>2 DEF StartNextTests, Capacity
    <3> QED BY <1>1, <2>1, <2>2, <3>1
  <2>3. CASE pc' = "scan"
    <3>1. runningCount < ParallelLevel
      BY <1>4, <2>3, ProcessorsAssumption DEF StartNextTests, NothingToStart, Typed
    <3>2. PICK load \in LoadAverage :
            LET spare == SpareLoad(load)
                free == ParallelLevel - runningCount
            IN numToStart' = IF TestLoad > 0 /\ free > spare THEN spare ELSE free
      BY <1>4, <2>3 DEF StartNextTests
    <3>3. SpareLoad(load) \in Nat
      BY OptionAssumption DEF SpareLoad
    <3>4. numToStart' >= 0 /\ numToStart' + runningCount <= ParallelLevel
      BY <3>1, <3>2, <3>3, ProcessorsAssumption DEF Typed
    <3> QED BY <1>0, <2>1, <2>3, <3>4 DEF Capacity, SlotsExact, SlotsOf
  <2> QED BY <1>4, <2>2, <2>3 DEF StartNextTests
<1>5. ASSUME NEW t \in Test,
             \/ SkipSerial(t) \/ SkipForRoom(t) \/ TestLocked(t) \/ TestNotReady(t)
             \/ AffinityUnavailable(t)
      PROVE  Capacity'
  BY <1>2, <1>5 DEF SkipSerial, SkipForRoom, TestLocked, TestNotReady,
                    AffinityUnavailable, Trying
<1>6. ASSUME NEW t \in Test, StartTestProcess(t) PROVE Capacity'
  <2> DEFINE n == GetProcessorsUsed(t)
  <2>1. n \in 1 .. ParallelLevel
    BY UsedType
  <2>2. /\ numToStart + runningCount <= ParallelLevel
        /\ n <= numToStart
        /\ numToStart' = numToStart
        /\ runningCount' = runningCount + n
        /\ launching' = {t} /\ pc' = "launch"
    BY <1>6 DEF StartTestProcess, Trying, Looking, RoomForTest, Capacity
  <2>3. runningCount' = Cardinality(SlotsOf(running'))
    BY <1>0, <1>6, StartSlots
  <2>4. /\ runningCount' <= ParallelLevel
        /\ n <= numToStart'
        /\ numToStart' + runningCount' - n <= ParallelLevel
    <3> HIDE DEF n
    <3> QED BY <2>1, <2>2, ProcessorsAssumption DEF Typed
  <2> QED BY <2>2, <2>3, <2>4 DEF Capacity, SlotsExact, GetProcessorsUsed, HaveAffinity
<1>7. ASSUME NEW t \in Test, TestStarts(t) PROVE Capacity'
  <2>1. GetProcessorsUsed(t) \in 1 .. ParallelLevel
    BY UsedType
  <2>2. /\ GetProcessorsUsed(t) <= numToStart
        /\ numToStart + runningCount - GetProcessorsUsed(t) <= ParallelLevel
    BY <1>7 DEF TestStarts, Capacity
  <2>3. /\ numToStart' = numToStart - GetProcessorsUsed(t)
        /\ pc' = "scan" /\ UNCHANGED <<running, runningCount>>
    BY <1>7 DEF TestStarts
  <2>4. numToStart' >= 0 /\ numToStart' + runningCount <= ParallelLevel
    BY <2>1, <2>2, <2>3, ProcessorsAssumption DEF Typed
  <2> QED BY <1>0, <2>3, <2>4 DEF Capacity, SlotsExact, SlotsOf
<1>8. ASSUME NEW t \in Test, NEW status, TestFailsToStart(t, status) PROVE Capacity'
  <2>1. GetProcessorsUsed(t) \in 1 .. ParallelLevel
    BY UsedType
  <2>2. /\ GetProcessorsUsed(t) <= numToStart
        /\ numToStart + runningCount - GetProcessorsUsed(t) <= ParallelLevel
    BY <1>8 DEF TestFailsToStart, Capacity
  <2>3. /\ t \in running /\ ReleaseTest(t, status)
        /\ pc' = "scan" /\ numToStart' = numToStart
    BY <1>8 DEF TestFailsToStart, Places
  <2>4. /\ runningCount' = Cardinality(SlotsOf(running'))
        /\ runningCount' = runningCount - GetProcessorsUsed(t)
        /\ runningCount' <= ParallelLevel
    BY <1>0, <2>3, ReleaseSlots
  <2>5. numToStart' >= 0 /\ numToStart' + runningCount' <= ParallelLevel
    BY <2>1, <2>2, <2>3, <2>4, ProcessorsAssumption DEF Typed
  <2> QED BY <2>3, <2>4, <2>5 DEF Capacity, SlotsExact
<1>9. ASSUME NEW t \in Test, NEW status, NEW forStopTime \in BOOLEAN,
             TestFinishes(t, status, forStopTime)
      PROVE  Capacity'
  <2>1. t \in running /\ ReleaseTest(t, status) /\ pc' = "next" /\ numToStart' = 0
    BY <1>9 DEF TestFinishes, ChildEnds, Places, Capacity
  <2> QED BY <1>0, <2>1, ReleaseSlots DEF Capacity, SlotsExact
<1>10. ASSUME NEW t \in Test, NEW status,
              TestRunsAgain(t, status) \/ RerunFailsToStart(t, status)
       PROVE  Capacity'
  BY <1>2, <1>10 DEF TestRunsAgain, RerunFailsToStart
<1>11. CASE UNCHANGED handlerVars
  BY <1>2, <1>11 DEF handlerVars
<1> QED
  BY <1>3, <1>4, <1>5, <1>6, <1>7, <1>8, <1>9, <1>10, <1>11
  DEF HandlerStep, ScanStep, ChildStep, Terminated

-----------------------------------------------------------------------------
(* RUN_SERIAL and RESOURCE_LOCK.                                            *)

LEMMA SerialInit == Init => Serial
BY DEF Init, Serial, SerialAlone

\* When a RUN_SERIAL test starts, no slot is taken, so nothing runs.
LEMMA SerialStart ==
  ASSUME Typed, Places, Capacity, Serial, NEW t \in Test, StartTestProcess(t)
  PROVE  Serial'
<1>1. /\ ~serialTestRunning
      /\ running' = running \cup {t}
      /\ serialTestRunning' = (serialTestRunning \/ t \in RunSerial)
      /\ ~SerialMustWait(t)
  BY DEF StartTestProcess, Trying, Looking
<1>2. running \cap RunSerial = {}
  BY <1>1 DEF Serial
<1>3. CASE t \notin RunSerial
  BY <1>1, <1>2, <1>3 DEF Serial, SerialAlone
<1>4. CASE t \in RunSerial
  <2>1. Cardinality(SlotsOf(running)) = 0
    BY <1>1, <1>4, SlotsFinite DEF SerialMustWait, Capacity, SlotsExact, Typed
  <2>2. running = {}
    BY <2>1, SlotsNone DEF Typed
  <2> QED BY <1>1, <1>4, <2>2 DEF Serial, SerialAlone
<1> QED BY <1>3, <1>4

LEMMA SerialNext ==
  Typed /\ Places /\ Capacity /\ Serial /\ [HandlerStep]_handlerVars => Serial'
<1> SUFFICES ASSUME Typed, Places, Capacity, Serial, [HandlerStep]_handlerVars PROVE Serial'
  OBVIOUS
<1>1. CASE UNCHANGED <<running, serialTestRunning>>
  BY <1>1 DEF Serial, SerialAlone
<1>2. ASSUME NEW t \in running, NEW status, ReleaseTest(t, status) PROVE Serial'
  <2>1. /\ running' = running \ {t}
        /\ serialTestRunning' = (serialTestRunning /\ t \notin RunSerial)
    BY <1>2 DEF ReleaseTest
  <2> QED BY <2>1 DEF Serial, SerialAlone
<1> QED BY <1>1, <1>2, SerialStart, HoldStep

LEMMA LocksInit == Init => LocksExact
BY DEF Init, LocksExact

LEMMA LocksNext == Typed /\ Places /\ LocksExact /\ [HandlerStep]_handlerVars => LocksExact'
<1> SUFFICES ASSUME Typed, Places, LocksExact, [HandlerStep]_handlerVars PROVE LocksExact'
  OBVIOUS
<1>1. CASE UNCHANGED <<running, lockedResources>>
  BY <1>1 DEF LocksExact
<1>2. ASSUME NEW t \in Test, StartTestProcess(t) PROVE LocksExact'
  <2>1. /\ running' = running \cup {t}
        /\ lockedResources' = lockedResources \cup Locks[t]
        /\ Locks[t] \cap lockedResources = {}
    BY <1>2 DEF StartTestProcess, LockConflict
  <2> QED BY <2>1 DEF LocksExact
<1>3. ASSUME NEW t \in running, NEW status, ReleaseTest(t, status) PROVE LocksExact'
  <2>1. /\ running' = running \ {t}
        /\ lockedResources' = lockedResources \ Locks[t]
    BY <1>3 DEF ReleaseTest
  <2>2. UNION {Locks[u] : u \in running \ {t}} = lockedResources \ Locks[t]
    BY DEF LocksExact
  <2> QED BY <2>1, <2>2 DEF LocksExact
<1> QED BY <1>1, <1>2, <1>3, HoldStep

-----------------------------------------------------------------------------
(* Dependencies.                                                            *)

\* What a step does to the history of the tests.
LEMMA HistoryStep ==
  ASSUME Typed, Places, [HandlerStep]_handlerVars
  PROVE  \/ UNCHANGED <<tests, running, finished, failed, waitingFor, attempts>>
         \/ RunTests
         \/ \E t \in Test : StartTestProcess(t)
         \/ \E t \in launching : TestStarts(t)
         \/ \E t \in running, status \in Statuses :
              /\ ReleaseTest(t, status)
              /\ UNCHANGED <<tests, attempts>>
         \/ \E t \in live, status \in Statuses : TestRunsAgain(t, status)
<1> USE DEF testVars, recordVars
<1>1. CASE RunTests
  BY <1>1
<1>2. CASE StartNextTests \/ OnTestLoadRetryCB \/ LoopEnds \/ EndOfLoop
  BY <1>2 DEF StartNextTests, OnTestLoadRetryCB, LoopEnds, EndOfLoop
<1>3. ASSUME NEW t \in Test,
             \/ SkipSerial(t) \/ SkipForRoom(t) \/ TestLocked(t) \/ TestNotReady(t)
             \/ AffinityUnavailable(t)
      PROVE  UNCHANGED <<tests, running, finished, failed, waitingFor, attempts>>
  BY <1>3 DEF SkipSerial, SkipForRoom, TestLocked, TestNotReady,
              AffinityUnavailable, Trying
<1>4. ASSUME NEW t \in Test, NEW status \in {"NOT_RUN", "BAD_COMMAND"},
             TestFailsToStart(t, status)
      PROVE  /\ t \in running /\ status \in Statuses /\ ReleaseTest(t, status)
             /\ UNCHANGED <<tests, attempts>>
  BY <1>4 DEF TestFailsToStart, Places, Statuses
<1>5. ASSUME NEW t \in Test, NEW status \in Statuses, NEW forStopTime \in BOOLEAN,
             TestFinishes(t, status, forStopTime)
      PROVE  t \in running /\ ReleaseTest(t, status) /\ UNCHANGED <<tests, attempts>>
  BY <1>5 DEF TestFinishes, ChildEnds, Places
<1>6. ASSUME NEW t \in Test, NEW status \in Statuses, RerunFailsToStart(t, status)
      PROVE  UNCHANGED <<tests, running, finished, failed, waitingFor, attempts>>
  BY <1>6 DEF RerunFailsToStart
<1>7. ASSUME NEW t \in Test, NEW status \in Statuses, TestRunsAgain(t, status)
      PROVE  t \in live
  BY <1>7 DEF TestRunsAgain, ChildEnds
<1>8. ASSUME NEW t \in Test, TestStarts(t) PROVE t \in launching
  BY <1>8 DEF TestStarts
<1>9. CASE UNCHANGED handlerVars
  BY <1>9 DEF handlerVars
<1> QED
  BY <1>1, <1>2, <1>3, <1>4, <1>5, <1>6, <1>7, <1>8, <1>9
  DEF HandlerStep, ScanStep, ChildStep, Terminated

LEMMA WaitingInit == Init => Waiting
BY DEF Init, Waiting, DependenciesFirst

LEMMA WaitingNext == Typed /\ Places /\ Waiting /\ [HandlerStep]_handlerVars => Waiting'
<1> SUFFICES ASSUME Typed, Places, Waiting, [HandlerStep]_handlerVars PROVE Waiting'
  OBVIOUS
<1> USE DEF testVars, recordVars
<1>1. CASE UNCHANGED <<tests, running, finished, waitingFor, attempts>>
  BY <1>1 DEF Waiting, DependenciesFirst
<1>2. ASSUME NEW t \in Test, StartTestProcess(t) PROVE Waiting'
  <2>1. /\ t \in tests /\ waitingFor[t] = {}
        /\ running' = running \cup {t} /\ tests' = tests \ {t}
        /\ UNCHANGED <<finished, waitingFor, attempts>>
    BY <1>2 DEF StartTestProcess, Trying, Looking, WaitsForOthers, EraseTest, Places
  <2>2. Depends[t] \subseteq finished
    BY <2>1 DEF Waiting
  <2> QED BY <2>1, <2>2 DEF Waiting, DependenciesFirst
<1>3. ASSUME NEW t \in launching, TestStarts(t) PROVE Waiting'
  <2>1. /\ t \in running
        /\ attempts' = [attempts EXCEPT ![t] = @ + 1]
        /\ UNCHANGED <<tests, running, finished, waitingFor>>
    BY <1>3 DEF TestStarts, Places
  <2> QED BY <2>1 DEF Waiting, DependenciesFirst, Typed
<1>4. ASSUME NEW t \in running, NEW status, ReleaseTest(t, status),
             UNCHANGED <<tests, attempts>>
      PROVE  Waiting'
  <2>1. /\ running' = running \ {t} /\ finished' = finished \cup {t}
        /\ \A u \in tests : waitingFor'[u] = waitingFor[u] \ {t}
    BY <1>4 DEF ReleaseTest, Typed
  <2> QED BY <1>4, <2>1 DEF Waiting, DependenciesFirst
<1>5. ASSUME NEW t \in live, NEW status, TestRunsAgain(t, status) PROVE Waiting'
  <2>1. /\ t \in running
        /\ attempts' = [attempts EXCEPT ![t] = @ + 1]
        /\ UNCHANGED <<tests, running, finished, waitingFor>>
    BY <1>5 DEF TestRunsAgain, Places
  <2> QED BY <2>1 DEF Waiting, DependenciesFirst, Typed
<1>6. CASE RunTests
  <2>1. UNCHANGED <<running, waitingFor, attempts>>
    BY <1>6 DEF RunTests
  <2> QED BY <1>6, <2>1, RunTestsResumes DEF Waiting, DependenciesFirst
<1> QED BY <1>1, <1>2, <1>3, <1>4, <1>5, <1>6, HistoryStep

-----------------------------------------------------------------------------
(* Repeats.                                                                 *)

LEMMA RunsType == Runs \in Nat /\ Runs >= 1
BY OptionAssumption DEF Runs

LEMMA RunsInit == Init => RunsCounted
BY RunsType DEF Init, RunsCounted

LEMMA RunsNext == Typed /\ Places /\ RunsCounted /\ [HandlerStep]_handlerVars => RunsCounted'
<1> SUFFICES ASSUME Typed, Places, RunsCounted, [HandlerStep]_handlerVars PROVE RunsCounted'
  OBVIOUS
<1> USE DEF testVars, recordVars
<1>1. ASSUME UNCHANGED <<attempts, runsLeft, live, launching>>, tests' \subseteq tests
      PROVE  RunsCounted'
  BY <1>1 DEF RunsCounted
<1>2. CASE RunTests
  BY <1>1, <1>2, RunTestsResumes DEF RunTests
<1>3. CASE StartNextTests \/ OnTestLoadRetryCB \/ LoopEnds \/ EndOfLoop
  BY <1>1, <1>3 DEF StartNextTests, OnTestLoadRetryCB, LoopEnds, EndOfLoop
<1>4. ASSUME NEW t \in Test,
             \/ SkipSerial(t) \/ SkipForRoom(t) \/ TestLocked(t) \/ TestNotReady(t)
             \/ AffinityUnavailable(t)
      PROVE  RunsCounted'
  BY <1>1, <1>4 DEF SkipSerial, SkipForRoom, TestLocked, TestNotReady,
                    AffinityUnavailable, Trying
<1>5. ASSUME NEW t \in Test, StartTestProcess(t) PROVE RunsCounted'
  <2>1. /\ t \in tests /\ launching' = {t} /\ tests' = tests \ {t}
        /\ UNCHANGED <<attempts, runsLeft, live>>
    BY <1>5 DEF StartTestProcess, Trying, Looking, EraseTest, Places
  <2> QED BY <2>1 DEF RunsCounted
<1>6. ASSUME NEW t \in Test, TestStarts(t) PROVE RunsCounted'
  <2>1. /\ t \in launching /\ t \notin tests
        /\ launching' = {} /\ live' = live \cup {t}
        /\ attempts' = [attempts EXCEPT ![t] = @ + 1]
        /\ UNCHANGED <<tests, runsLeft>>
    BY <1>6 DEF TestStarts, Places
  <2>2. attempts[t] = 0 /\ runsLeft[t] = Runs
    BY <2>1 DEF RunsCounted
  <2> QED BY <2>1, <2>2, RunsType DEF RunsCounted, Typed
\* The run of t is over and t is not run again.
<1>7. ASSUME NEW t \in Test, NEW status, EndTest(t, status),
             t \notin live', t \notin tests' \cup launching',
             live' \subseteq live, tests' = tests, launching' \subseteq launching,
             attempts' = attempts
      PROVE  RunsCounted'
  <2>1. runsLeft' = [runsLeft EXCEPT ![t] = @ - 1]
    BY <1>7 DEF EndTest
  <2> QED BY <1>7, <2>1 DEF RunsCounted, Typed
<1>8. ASSUME NEW t \in Test, NEW status, TestFailsToStart(t, status)
      PROVE  RunsCounted'
  <2>1. t \in launching /\ t \notin live /\ t \notin tests
    BY <1>8 DEF TestFailsToStart, Places
  <2> QED BY <1>7, <1>8, <2>1 DEF TestFailsToStart
<1>9. ASSUME NEW t \in Test, NEW status, NEW forStopTime \in BOOLEAN,
             TestFinishes(t, status, forStopTime)
      PROVE  RunsCounted'
  <2>1. t \in live /\ t \notin launching /\ t \notin tests
    BY <1>9 DEF TestFinishes, ChildEnds, Places
  <2> QED BY <1>7, <1>9, <2>1 DEF TestFinishes, ChildEnds
<1>10. ASSUME NEW t \in Test, NEW status, RerunFailsToStart(t, status)
       PROVE  RunsCounted'
  <2>1. t \in live /\ t \notin launching /\ t \notin tests
    BY <1>10 DEF RerunFailsToStart, ChildEnds, Places
  <2> QED BY <1>7, <1>10, <2>1 DEF RerunFailsToStart, ChildEnds
<1>11. ASSUME NEW t \in Test, NEW status, TestRunsAgain(t, status)
       PROVE  RunsCounted'
  <2>1. /\ t \in live /\ t \notin launching /\ t \notin tests
        /\ runsLeft[t] - 1 # 0
        /\ runsLeft' = [runsLeft EXCEPT ![t] = @ - 1]
        /\ attempts' = [attempts EXCEPT ![t] = @ + 1]
        /\ UNCHANGED <<tests, live, launching>>
    BY <1>11 DEF TestRunsAgain, ChildEnds, RunsAgain, NeedsToRepeat, EndTest, Places
  <2>2. /\ runsLeft[t] >= 1 /\ attempts[t] >= 1
        /\ attempts[t] + runsLeft[t] = Runs + 1
    BY <2>1 DEF RunsCounted
  <2>3. runsLeft'[t] = runsLeft[t] - 1 /\ attempts'[t] = attempts[t] + 1
    BY <2>1 DEF Typed
  <2>4. /\ runsLeft'[t] >= 1 /\ attempts'[t] >= 1 /\ attempts'[t] <= Runs
        /\ attempts'[t] + runsLeft'[t] = Runs + 1
    <3>1. runsLeft[t] \in Int /\ attempts[t] \in Nat
      BY DEF Typed
    <3> QED BY <2>1, <2>2, <2>3, <3>1, RunsType
  <2>5. \A u \in Test \ {t} : attempts'[u] = attempts[u] /\ runsLeft'[u] = runsLeft[u]
    BY <2>1 DEF Typed
  <2> QED BY <2>1, <2>4, <2>5 DEF RunsCounted
<1>12. CASE UNCHANGED handlerVars
  BY <1>1, <1>12 DEF handlerVars
<1> QED
  BY <1>2, <1>3, <1>4, <1>5, <1>6, <1>8, <1>9, <1>10, <1>11, <1>12
  DEF HandlerStep, ScanStep, ChildStep, Terminated

-----------------------------------------------------------------------------
(* Fixture setups.                                                          *)

LEMMA SetupsInit == Init => SetupsSucceeded
BY DEF Init, SetupsSucceeded

\* A setup cannot fail any more once the test that requires it has run: it is
\* among the dependencies, so it is over.
LEMMA SetupsNext ==
  /\ Typed /\ Places /\ Waiting /\ RunsCounted
  /\ SetupsSucceeded /\ [HandlerStep]_handlerVars
  => SetupsSucceeded'
<1> SUFFICES ASSUME Typed, Places, Waiting, RunsCounted, SetupsSucceeded, [HandlerStep]_handlerVars
             PROVE  SetupsSucceeded'
  OBVIOUS
<1> USE DEF testVars, recordVars
<1>1. CASE UNCHANGED <<failed, attempts>>
  BY <1>1 DEF SetupsSucceeded
<1>2. ASSUME NEW t \in Test, StartTestProcess(t) PROVE UNCHANGED <<failed, attempts>>
  BY <1>2 DEF StartTestProcess, Trying
<1>3. ASSUME NEW t \in launching, TestStarts(t) PROVE SetupsSucceeded'
  <2>1. /\ RequireSuccess[t] \cap failed = {}
        /\ failed' = failed /\ attempts' = [attempts EXCEPT ![t] = @ + 1]
    BY <1>3 DEF TestStarts, Unstartable
  <2> QED BY <2>1 DEF SetupsSucceeded, Typed
<1>4. ASSUME NEW t \in running, NEW status, ReleaseTest(t, status),
             UNCHANGED <<tests, attempts>>
      PROVE  SetupsSucceeded'
  <2>1. failed' \subseteq failed \cup {t} /\ t \notin finished
    BY <1>4 DEF ReleaseTest, Places
  <2>2. ASSUME NEW u \in Test, attempts[u] > 0 PROVE RequireSuccess[u] \subseteq finished
    BY <2>2, DependsAssumption DEF Waiting, DependenciesFirst
  <2> QED BY <1>4, <2>1, <2>2 DEF SetupsSucceeded
<1>5. ASSUME NEW t \in live, NEW status, TestRunsAgain(t, status) PROVE SetupsSucceeded'
  <2>1. /\ failed' = failed /\ attempts' = [attempts EXCEPT ![t] = @ + 1]
        /\ t \in Test /\ attempts[t] > 0
    BY <1>5 DEF TestRunsAgain, RunsCounted, Typed
  <2> QED BY <2>1 DEF SetupsSucceeded, Typed
<1>6. CASE RunTests
  BY <1>1, <1>6 DEF RunTests
<1> QED BY <1>1, <1>2, <1>3, <1>4, <1>5, <1>6, HistoryStep

-----------------------------------------------------------------------------
(* The theorems.                                                            *)

Invariant ==
  /\ Typed /\ Places /\ Capacity /\ Serial /\ LocksExact
  /\ Waiting /\ RunsCounted /\ SetupsSucceeded

\* The scheduler keeps all of its books at once, at every place of its thread.
THEOREM InvariantHolds == Spec => []Invariant
<1>1. Init => Invariant
  BY TypeInit, PlacesInit, CapacityInit, SerialInit, LocksInit, WaitingInit,
     RunsInit, SetupsInit DEF Invariant
<1>2. Invariant /\ [HandlerStep]_handlerVars => Invariant'
  BY TypeNext, PlacesNext, CapacityNext, SerialNext, LocksNext, WaitingNext,
     RunsNext, SetupsNext DEF Invariant
<1> QED BY <1>1, <1>2, HandlerSteps, PTL

\* RunningCount is the number of slots of the running tests and never more
\* than -j, whatever launches fail and tests repeat.
THEOREM SlotsTheorem == Spec => []SlotsExact
<1>1. Invariant => SlotsExact
  BY DEF Invariant, Capacity
<1> QED BY <1>1, InvariantHolds, PTL

\* A RUN_SERIAL test never runs beside another test.
THEOREM SerialTheorem == Spec => []SerialAlone
<1>1. Invariant => SerialAlone
  BY DEF Invariant, Serial
<1> QED BY <1>1, InvariantHolds, PTL

\* No RESOURCE_LOCK is shared, dropped early or left behind.
THEOREM LocksTheorem == Spec => []LocksExact
<1>1. Invariant => LocksExact
  BY DEF Invariant
<1> QED BY <1>1, InvariantHolds, PTL

\* A test that runs or has run came after everything it depends on.
THEOREM DependenciesTheorem == Spec => []DependenciesFirst
<1>1. Invariant => DependenciesFirst
  BY DEF Invariant, Waiting
<1> QED BY <1>1, InvariantHolds, PTL

\* No test has run whose fixture setup failed, or fails later.
THEOREM SetupsTheorem == Spec => []SetupsSucceeded
<1>1. Invariant => SetupsSucceeded
  BY DEF Invariant
<1> QED BY <1>1, InvariantHolds, PTL

\* A test runs at most as often as --repeat says.
THEOREM RunsTheorem == Spec => []RunsBounded
<1>1. Invariant => RunsBounded
  BY DEF Invariant, RunsCounted, RunsBounded
<1> QED BY <1>1, InvariantHolds, PTL

\* What the program is busy with, and what the clock has to do with it: once the
\* stop time has come, no test is added to those that were under way then.
Clock ==
  /\ stopTimeReached \in BOOLEAN /\ underWay \in SUBSET Test
  /\ stopTimeReached => HasStopTime /\ live \cup launching \cup copy \subseteq underWay

LEMMA ClockInit == Init => Clock
BY DEF Init, Clock

\* Only the beginning of a loop takes up tests, after it has looked at the clock.
LEMMA BusyStep ==
  ASSUME Typed, Places, [HandlerStep]_handlerVars, stopTimeReached
  PROVE  live' \cup launching' \cup copy' \subseteq live \cup launching \cup copy
<1> USE DEF testVars, scanVars
<1>1. CASE StartNextTests
  <2>1. pc' # "scan"
    BY <1>1 DEF StartNextTests, NothingToStart, CheckStopTimePassed
  <2> QED BY <1>1, <2>1 DEF StartNextTests
<1>2. CASE RunTests \/ OnTestLoadRetryCB \/ LoopEnds \/ EndOfLoop
  BY <1>2 DEF RunTests, OnTestLoadRetryCB, LoopEnds, EndOfLoop
<1>3. ASSUME NEW t \in Test,
             \/ SkipSerial(t) \/ SkipForRoom(t) \/ TestLocked(t) \/ TestNotReady(t)
             \/ AffinityUnavailable(t) \/ StartTestProcess(t) \/ TestStarts(t)
      PROVE  live' \cup launching' \cup copy' \subseteq live \cup launching \cup copy
  BY <1>3 DEF SkipSerial, SkipForRoom, TestLocked, TestNotReady, AffinityUnavailable,
              StartTestProcess, Trying, Looking, TestStarts
<1>4. ASSUME NEW t \in Test, NEW status, NEW forStopTime,
             \/ TestFailsToStart(t, status) \/ TestFinishes(t, status, forStopTime)
             \/ TestRunsAgain(t, status) \/ RerunFailsToStart(t, status)
      PROVE  live' \cup launching' \cup copy' \subseteq live \cup launching \cup copy
  BY <1>4 DEF TestFailsToStart, TestFinishes, TestRunsAgain, RerunFailsToStart
<1>5. CASE UNCHANGED handlerVars
  BY <1>5 DEF handlerVars
<1> QED
  BY <1>1, <1>2, <1>3, <1>4, <1>5 DEF HandlerStep, ScanStep, ChildStep, Terminated

LEMMA ClockNext == Typed /\ Places /\ Clock /\ [Next]_vars => Clock'
<1> SUFFICES ASSUME Typed, Places, Clock, [Next]_vars PROVE Clock'
  OBVIOUS
<1>1. CASE StopTimeComes
  <2>1. UNCHANGED <<live, launching, copy>>
    BY <1>1 DEF StopTimeComes, handlerVars, testVars, scanVars
  <2> QED BY <1>1, <2>1 DEF StopTimeComes, Clock, Typed
<1>2. CASE [HandlerStep]_handlerVars /\ UNCHANGED clockVars
  <2>1. UNCHANGED <<stopTimeReached, underWay>>
    BY <1>2 DEF clockVars
  <2> QED BY <1>2, <2>1, BusyStep DEF Clock
<1> QED BY <1>1, <1>2 DEF Next, vars

LEMMA ClockHolds == Spec => []Clock
<1>1. Invariant /\ Clock /\ [Next]_vars => Clock'
  BY ClockNext DEF Invariant
<1> QED BY <1>1, ClockInit, InvariantHolds, PTL DEF Spec

\* After the stop time no test is begun but those that a loop under way then had
\* still to look at, and none is repeated but those that were running; and after
\* the program has seen it, no process is started at all.
THEOREM StopTheorem == Spec => NothingStartsLate
<1> DEFINE Late ==
      /\ stopTimeReached => \A t \in Test \ underWay : attempts'[t] = attempts[t]
      /\ stopTimePassed => attempts' = attempts
<1>1. ASSUME Invariant, Clock, [HandlerStep]_handlerVars PROVE Late
  <2>1. Typed /\ Places
    BY <1>1 DEF Invariant
  <2>2. CASE attempts' = attempts
    BY <2>2
  <2>3. ASSUME NEW t \in launching, TestStarts(t) PROVE Late
    <3>1. ~stopTimePassed /\ attempts' = [attempts EXCEPT ![t] = @ + 1]
      BY <2>1, <2>3 DEF TestStarts, Places
    <3>2. stopTimeReached => t \in underWay
      BY <1>1 DEF Clock
    <3> QED BY <2>1, <3>1, <3>2 DEF Typed
  <2>4. ASSUME NEW t \in live, NEW status, TestRunsAgain(t, status) PROVE Late
    <3>1. ~stopTimePassed /\ attempts' = [attempts EXCEPT ![t] = @ + 1]
      BY <2>4 DEF TestRunsAgain, RunsAgain
    <3>2. stopTimeReached => t \in underWay
      BY <1>1 DEF Clock
    <3> QED BY <2>1, <3>1, <3>2 DEF Typed
  <2>5. ASSUME NEW t \in Test, StartTestProcess(t) PROVE attempts' = attempts
    BY <2>5 DEF StartTestProcess, Trying
  <2>6. ASSUME RunTests PROVE attempts' = attempts
    BY <2>6 DEF RunTests
  <2> HIDE DEF Late
  <2> QED BY <1>1, <2>1, <2>2, <2>3, <2>4, <2>5, <2>6, HistoryStep
<1>2. Invariant /\ Clock /\ [HandlerStep]_handlerVars => [Late]_vars
  BY <1>1
<1> QED BY <1>2, InvariantHolds, ClockHolds, HandlerSteps, PTL DEF NothingStartsLate

\* What is over stays over: never started again, its outcome never changed.
THEOREM OutcomesTheorem == Spec => OutcomesFinal
<1> USE DEF testVars, recordVars
<1>1. ASSUME Typed, Places, [HandlerStep]_handlerVars PROVE OutcomesKept
  <2>1. CASE UNCHANGED <<live, attempts, passed, failed>>
    BY <1>1, <2>1 DEF Places, OutcomesKept
  <2>2. ASSUME NEW t \in running, NEW status, ReleaseTest(t, status),
               live' \subseteq live, attempts' = attempts
        PROVE  OutcomesKept
    BY <1>1, <2>2 DEF ReleaseTest, Places, OutcomesKept
  <2>3. ASSUME NEW t \in running, attempts' = [attempts EXCEPT ![t] = @ + 1],
               live' \subseteq live \cup {t}, UNCHANGED <<passed, failed>>
        PROVE  OutcomesKept
    BY <1>1, <2>3 DEF Places, Typed, OutcomesKept
  <2>4. CASE RunTests \/ StartNextTests \/ OnTestLoadRetryCB \/ LoopEnds \/ EndOfLoop
    BY <2>1, <2>4 DEF RunTests, StartNextTests, OnTestLoadRetryCB, LoopEnds, EndOfLoop
  <2>5. ASSUME NEW t \in Test,
               \/ SkipSerial(t) \/ SkipForRoom(t) \/ TestLocked(t) \/ TestNotReady(t)
               \/ AffinityUnavailable(t) \/ StartTestProcess(t)
        PROVE  OutcomesKept
    BY <2>1, <2>5 DEF SkipSerial, SkipForRoom, TestLocked, TestNotReady,
                      AffinityUnavailable, StartTestProcess, Trying
  <2>6. ASSUME NEW t \in Test, TestStarts(t) PROVE OutcomesKept
    <3>1. t \in running
      BY <1>1, <2>6 DEF TestStarts, Places
    <3> QED BY <2>3, <2>6, <3>1 DEF TestStarts
  <2>7. ASSUME NEW t \in Test, NEW status, TestFailsToStart(t, status) PROVE OutcomesKept
    <3>1. t \in running
      BY <1>1, <2>7 DEF TestFailsToStart, Places
    <3> QED BY <2>2, <2>7, <3>1 DEF TestFailsToStart
  <2>8. ASSUME NEW t \in Test, NEW status, NEW forStopTime \in BOOLEAN,
               TestFinishes(t, status, forStopTime)
        PROVE  OutcomesKept
    <3>1. t \in running
      BY <1>1, <2>8 DEF TestFinishes, ChildEnds, Places
    <3> QED BY <2>2, <2>8, <3>1 DEF TestFinishes
  <2>9. ASSUME NEW t \in Test, NEW status, TestRunsAgain(t, status) PROVE OutcomesKept
    <3>1. t \in running
      BY <1>1, <2>9 DEF TestRunsAgain, ChildEnds, Places
    <3> QED BY <2>3, <2>9, <3>1 DEF TestRunsAgain
  <2>10. ASSUME NEW t \in Test, NEW status, RerunFailsToStart(t, status) PROVE OutcomesKept
    <3>1. live' \subseteq live /\ UNCHANGED <<attempts, passed, failed>>
      BY <2>10 DEF RerunFailsToStart
    <3> QED BY <1>1, <3>1 DEF Places, OutcomesKept
  <2>11. CASE UNCHANGED handlerVars
    BY <2>1, <2>11 DEF handlerVars
  <2> QED
    BY <1>1, <2>4, <2>5, <2>6, <2>7, <2>8, <2>9, <2>10, <2>11
    DEF HandlerStep, ScanStep, ChildStep, Terminated
<1>2. Invariant /\ [HandlerStep]_handlerVars => [OutcomesKept]_vars
  BY <1>1 DEF Invariant
<1> QED BY <1>2, InvariantHolds, HandlerSteps, PTL DEF OutcomesFinal
-----------------------------------------------------------------------------
(* TestScheduler implements TestSuite: under the mapping TestState each     *)
(* step of the scheduler is a Start, Finish or NotRun of the abstract       *)
(* specification, or changes nothing there.                                 *)

\* What the abstract state says of a test.
LEMMA StateOf ==
  ASSUME Typed, Places, NEW t \in Test
  PROVE  /\ TestState[t] \in Suite!Ended <=> t \in finished
         /\ TestState[t] = "running" <=> t \in running \ launching
         /\ TestState[t] = "waiting" <=> t \notin finished /\ t \notin running \ launching
         /\ TestState[t] = "failed" => t \in failed
BY DEF TestState, Suite!Ended, Places

LEMMA RunningTestsAre ==
  ASSUME Typed, Places
  PROVE  Suite!RunningTests = running \ launching
BY StateOf DEF Suite!RunningTests, Typed

LEMMA SlotsTakenAre ==
  ASSUME NEW S \in SUBSET Test
  PROVE  Suite!SlotsTaken(S) = Cardinality(SlotsOf(S))
<1> DEFINE Slots == [t \in Test |-> GetProcessorsUsed(t)]
<1>1. ASSUME NEW p \in Suite!SlotsOf(S) PROVE p \in SlotsOf(S)
  <2>1. PICK t \in S : p \in {t} \X (1 .. Slots[t])
    BY <1>1 DEF Suite!SlotsOf
  <2>2. Slots[t] \in 1 .. ParallelLevel /\ Slots[t] = GetProcessorsUsed(t)
    BY UsedType
  <2>3. p = <<t, p[2]>> /\ p[2] \in 1 .. ParallelLevel /\ p[2] <= GetProcessorsUsed(t)
    BY <2>1, <2>2, ProcessorsAssumption
  <2> QED BY <2>3 DEF SlotsOf
<1>2. ASSUME NEW p \in SlotsOf(S) PROVE p \in Suite!SlotsOf(S)
  <2>1. PICK t \in S : p = <<t, p[2]>> /\ p[2] \in 1 .. ParallelLevel
                       /\ p[2] <= GetProcessorsUsed(t)
    BY <1>2 DEF SlotsOf
  <2>2. Slots[t] = GetProcessorsUsed(t) /\ GetProcessorsUsed(t) \in 1 .. ParallelLevel
    BY UsedType
  <2>3. p \in {t} \X (1 .. Slots[t])
    BY <2>1, <2>2, ProcessorsAssumption
  <2> QED BY <2>3 DEF Suite!SlotsOf
<1>3. Suite!SlotsOf(S) = SlotsOf(S)
  BY <1>1, <1>2
<1>4. Suite!Cardinality(SlotsOf(S)) = Cardinality(SlotsOf(S))
  BY Zenon DEF Suite!Cardinality, Cardinality
<1> QED BY <1>3, <1>4 DEF Suite!SlotsTaken

-----------------------------------------------------------------------------
(* Steps that the abstract specification sees.                              *)

\* The test joins the running ones when its process is spawned, and then all
\* of what TestSuite asks for holds, since the scheduler marked it as running.
LEMMA StartRefines ==
  ASSUME Invariant, NEW t \in Test, TestStarts(t)
  PROVE  Suite!Start(t)
<1> USE DEF Invariant
<1>1. launching = {t} /\ t \in running /\ t \notin finished
  BY DEF TestStarts, Places
<1>2. Suite!RunningTests = running \ {t}
  BY <1>1, RunningTestsAre
<1>3. Suite!Ready(t)
  <2>1. TestState[t] = "waiting"
    BY <1>1, StateOf
  <2>2. \A u \in Depends[t] : TestState[u] \in Suite!Ended
    BY <1>1, StateOf, DependsAssumption DEF Waiting, DependenciesFirst
  <2> QED BY <2>1, <2>2 DEF Suite!Ready
<1>4. Suite!MayJoin(t)
  <2>1. \A u \in running \ {t} : Locks[t] \cap Locks[u] = {}
    BY <1>1 DEF LocksExact
  <2>2. Suite!SlotsTaken((running \ {t}) \cup {t}) <= ParallelLevel
    <3>1. (running \ {t}) \cup {t} = running /\ running \in SUBSET Test
      BY <1>1 DEF Typed
    <3>2. Suite!SlotsTaken(running) <= ParallelLevel
      BY <3>1, SlotsTakenAre DEF Capacity, SlotsExact
    <3> QED BY <3>1, <3>2
  <2>3. t \in RunSerial => running \ {t} = {}
    BY <1>1 DEF Serial, SerialAlone
  <2>4. (running \ {t}) \cap RunSerial = {}
    BY <1>1 DEF Serial, SerialAlone
  <2> QED BY <1>2, <2>1, <2>2, <2>3, <2>4 DEF Suite!MayJoin
<1>5. t \notin Disabled /\ \A u \in RequireSuccess[t] : TestState[u] # "failed"
  <2>1. t \notin Disabled /\ RequireSuccess[t] \cap failed = {}
    BY DEF TestStarts, Unstartable
  <2>2. RequireSuccess[t] \subseteq Test
    BY DependsAssumption
  <2> QED BY <2>1, <2>2, StateOf
<1>6. TestState' = [TestState EXCEPT ![t] = "running"]
  <2>1. /\ UNCHANGED <<passed, failed, finished, running>> /\ launching' = {}
    BY DEF TestStarts, recordVars
  <2> QED BY <1>1, <2>1 DEF TestState, Places
<1> QED BY <1>3, <1>4, <1>5, <1>6 DEF Suite!Start

LEMMA FinishRefines ==
  ASSUME Invariant, NEW t \in Test, NEW status, NEW forStopTime,
         TestFinishes(t, status, forStopTime)
  PROVE  Suite!Finish(t)
<1> USE DEF Invariant
<1>1. /\ pc = "wait" /\ t \in live /\ t \in running /\ launching = {} /\ launching' = {}
      /\ t \notin finished /\ t \notin Disabled
  BY DEF TestFinishes, ChildEnds, Places
<1>2. TestState[t] = "running"
  BY <1>1, StateOf
<1>3. ReleaseTest(t, status)
  BY DEF TestFinishes
<1>4. CASE status \in {"COMPLETED", "SKIPPED"}
  <2>1. TestState' = [TestState EXCEPT ![t] = "passed"]
    BY <1>1, <1>3, <1>4 DEF TestState, ReleaseTest, Places
  <2> QED BY <1>2, <2>1 DEF Suite!Finish
<1>5. CASE status \notin {"COMPLETED", "SKIPPED"}
  <2>1. TestState' = [TestState EXCEPT ![t] = "failed"]
    BY <1>1, <1>3, <1>5 DEF TestState, ReleaseTest, Places
  <2> QED BY <1>2, <2>1 DEF Suite!Finish
<1> QED BY <1>4, <1>5

LEMMA NotRunRefines ==
  ASSUME Invariant, NEW t \in Test, NEW status, TestFailsToStart(t, status)
  PROVE  Suite!NotRun(t)
<1> USE DEF Invariant
<1>1. /\ launching = {t} /\ launching' = {} /\ t \in running /\ t \notin finished
      /\ status \notin {"COMPLETED", "SKIPPED"}
      /\ ReleaseTest(t, status)
  BY DEF TestFailsToStart, Places
<1>2. Suite!Ready(t)
  <2>1. TestState[t] = "waiting"
    BY <1>1, StateOf
  <2>2. \A u \in Depends[t] : TestState[u] \in Suite!Ended
    BY <1>1, StateOf, DependsAssumption DEF Waiting, DependenciesFirst
  <2> QED BY <2>1, <2>2 DEF Suite!Ready
<1>3. TestState' = [TestState EXCEPT ![t] = IF t \in Disabled THEN "disabled" ELSE "failed"]
  BY <1>1 DEF TestState, ReleaseTest, Places
<1> QED BY <1>2, <1>3 DEF Suite!NotRun

-----------------------------------------------------------------------------
LEMMA InitRefines == Init => Suite!Init
BY DEF Init, Suite!Init, TestState

LEMMA NextRefines == Invariant /\ Unresumed /\ [HandlerStep]_handlerVars => [Suite!Next]_TestState
<1> SUFFICES ASSUME Invariant, Unresumed, [HandlerStep]_handlerVars PROVE [Suite!Next]_TestState
  OBVIOUS
<1> USE DEF testVars, recordVars
<1>0. Typed /\ Places
  BY DEF Invariant
<1>1. ASSUME UNCHANGED <<passed, failed, finished>>,
             running' \ launching' = running \ launching
      PROVE  TestState' = TestState
  BY <1>1 DEF TestState
<1>2. CASE RunTests
  BY <1>0, <1>1, <1>2, RunTestsKeeps DEF RunTests
<1>3. CASE StartNextTests \/ OnTestLoadRetryCB \/ LoopEnds \/ EndOfLoop
  BY <1>1, <1>3 DEF StartNextTests, OnTestLoadRetryCB, LoopEnds, EndOfLoop
<1>4. ASSUME NEW t \in Test,
             \/ SkipSerial(t) \/ SkipForRoom(t) \/ TestLocked(t) \/ TestNotReady(t)
             \/ AffinityUnavailable(t)
      PROVE  TestState' = TestState
  BY <1>1, <1>4 DEF SkipSerial, SkipForRoom, TestLocked, TestNotReady,
                    AffinityUnavailable, Trying
<1>5. ASSUME NEW t \in Test, StartTestProcess(t) PROVE TestState' = TestState
  <2>1. /\ launching = {} /\ launching' = {t} /\ running' = running \cup {t}
        /\ t \notin running /\ UNCHANGED <<passed, failed, finished>>
    BY <1>0, <1>5 DEF StartTestProcess, Trying, Looking, Places
  <2> QED BY <1>1, <2>1
<1>6. ASSUME NEW t \in Test, TestStarts(t) PROVE Suite!Next
  BY <1>6, StartRefines DEF Suite!Next
<1>7. ASSUME NEW t \in Test, NEW status, TestFailsToStart(t, status) PROVE Suite!Next
  BY <1>7, NotRunRefines DEF Suite!Next
<1>8. ASSUME NEW t \in Test, NEW status, NEW forStopTime,
             TestFinishes(t, status, forStopTime)
      PROVE  Suite!Next
  BY <1>8, FinishRefines DEF Suite!Next
<1>9. ASSUME NEW t \in Test, NEW status,
             TestRunsAgain(t, status) \/ RerunFailsToStart(t, status)
      PROVE  TestState' = TestState
  BY <1>1, <1>9 DEF TestRunsAgain, RerunFailsToStart
<1>10. CASE UNCHANGED handlerVars
  BY <1>1, <1>10 DEF handlerVars
<1> QED
  BY <1>2, <1>3, <1>4, <1>5, <1>6, <1>7, <1>8, <1>9, <1>10
  DEF HandlerStep, ScanStep, ChildStep, Terminated

\* The scheduler implements the documented meaning of DEPENDS, FIXTURES_REQUIRED,
\* RESOURCE_LOCK, RUN_SERIAL, PROCESSORS and DISABLED.
THEOREM Refinement == Spec => ImplementsSuite
<1> QED BY InitRefines, NextRefines, InvariantHolds, UnresumedHolds, HandlerSteps, PTL
        DEF ImplementsSuite, Suite!Spec
-----------------------------------------------------------------------------
(***************************************************************************)
(* 2. What the running tests of TestScheduler hold of the machine, for     *)
(* every resource spec and every set of processors: the counters of the    *)
(* allocator are exact, and no processor is shared or lost.                *)
(***************************************************************************)

-----------------------------------------------------------------------------
(* Hardware resources.                                                      *)

\* The inductive form of ResourcesExact; the set that is counted is finite.
ResourcesCounted ==
  \A u \in Unit :
    /\ IsFiniteSet(HeldIn(u))
    /\ locked[u] = Cardinality(HeldIn(u))
    /\ locked[u] <= Total[u]

\* The slots of unit u, when a test holds f[t] of them.
HeldBy(f) == UNION {{t} \X (1 .. f[t]) : t \in Test}

\* A test that takes d more slots adds d pairs.
LEMMA HeldAdd ==
  ASSUME NEW f \in [Test -> Nat], NEW g \in [Test -> Nat],
         NEW t \in Test, NEW d \in Nat,
         g[t] = f[t] + d, \A s \in Test \ {t} : g[s] = f[s],
         IsFiniteSet(HeldBy(f))
  PROVE  /\ IsFiniteSet(HeldBy(g))
         /\ Cardinality(HeldBy(g)) = Cardinality(HeldBy(f)) + d
<1> DEFINE more == (f[t] + 1) .. (f[t] + d)
           new == {t} \X more
<1>1. HeldBy(g) = HeldBy(f) \cup new
  <2>1. ASSUME NEW p \in HeldBy(g) PROVE p \in HeldBy(f) \cup new
    <3>1. PICK s \in Test : p \in {s} \X (1 .. g[s])
      BY <2>1 DEF HeldBy
    <3>2. CASE s # t
      BY <3>1, <3>2 DEF HeldBy
    <3>3. CASE s = t
      <4>1. p[2] \in 1 .. f[t] \/ p[2] \in (f[t] + 1) .. (f[t] + d)
        BY <3>1, <3>3
      <4>2. p = <<t, p[2]>>
        BY <3>1, <3>3
      <4> QED BY <4>1, <4>2 DEF HeldBy
    <3> QED BY <3>2, <3>3
  <2>2. ASSUME NEW p \in HeldBy(f) PROVE p \in HeldBy(g)
    <3>1. PICK s \in Test : p \in {s} \X (1 .. f[s])
      BY <2>2 DEF HeldBy
    <3>2. f[s] <= g[s]
      OBVIOUS
    <3>3. p \in {s} \X (1 .. g[s])
      BY <3>1, <3>2
    <3> QED BY <3>3 DEF HeldBy
  <2>3. ASSUME NEW p \in new PROVE p \in HeldBy(g)
    <3>1. p \in {t} \X (1 .. g[t])
      OBVIOUS
    <3> QED BY <3>1 DEF HeldBy
  <2> QED BY <2>1, <2>2, <2>3
<1>2. HeldBy(f) \cap new = {}
  BY DEF HeldBy
<1>3. IsFiniteSet(new) /\ Cardinality(new) = d
  <2>1. IsFiniteSet({t}) /\ Cardinality({t}) = 1
    BY FS_Singleton
  <2>2. IsFiniteSet(more) /\ Cardinality(more) = d
    <3> DEFINE first == f[t] + 1
               last == f[t] + d
    <3>1. first \in Int /\ last \in Int
      OBVIOUS
    <3>2. /\ IsFiniteSet(first .. last)
          /\ Cardinality(first .. last) = IF first > last THEN 0 ELSE last - first + 1
      <4> HIDE DEF first, last
      <4> QED BY <3>1, FS_Interval
    <3>3. (IF first > last THEN 0 ELSE last - first + 1) = d
      OBVIOUS
    <3> QED BY <3>2, <3>3
  <2>3. IsFiniteSet(new) /\ Cardinality(new) = 1 * d
    <3> HIDE DEF more
    <3> QED BY <2>1, <2>2, FS_Product
  <2> QED BY <2>3
<1>4. /\ IsFiniteSet(HeldBy(f) \cup new)
      /\ Cardinality(HeldBy(f) \cup new)
           = Cardinality(HeldBy(f)) + Cardinality(new) - Cardinality(HeldBy(f) \cap new)
  <2> HIDE DEF new
  <2> QED BY <1>3, FS_Union
<1>5. Cardinality(HeldBy(f) \cap new) = 0
  BY <1>2, FS_EmptySet
<1>6. Cardinality(HeldBy(f)) \in Nat
  BY FS_CardinalityType
<1>7. Cardinality(HeldBy(f) \cup new) = Cardinality(HeldBy(f)) + d
  <2> HIDE DEF new
  <2> QED BY <1>3, <1>4, <1>5, <1>6
<1> HIDE DEF new
<1>8. IsFiniteSet(HeldBy(g)) /\ Cardinality(HeldBy(g)) = Cardinality(HeldBy(f) \cup new)
  BY <1>1, <1>4
<1> QED BY <1>7, <1>8

\* A test that gives back all it holds takes away as many pairs.
LEMMA HeldRemove ==
  ASSUME NEW f \in [Test -> Nat], NEW g \in [Test -> Nat], NEW t \in Test,
         g[t] = 0, \A s \in Test \ {t} : g[s] = f[s],
         IsFiniteSet(HeldBy(f))
  PROVE  /\ IsFiniteSet(HeldBy(g))
         /\ Cardinality(HeldBy(g)) = Cardinality(HeldBy(f)) - f[t]
<1>1. HeldBy(g) \in SUBSET HeldBy(f)
  <2>1. ASSUME NEW p \in HeldBy(g) PROVE p \in HeldBy(f)
    <3>1. PICK s \in Test : p \in {s} \X (1 .. g[s])
      BY <2>1 DEF HeldBy
    <3>2. s # t
      BY <3>1
    <3> QED BY <3>1, <3>2 DEF HeldBy
  <2> QED BY <2>1
<1>2. IsFiniteSet(HeldBy(g))
  BY <1>1, FS_Subset
<1>3. f[t] \in Nat /\ f[t] = g[t] + f[t] /\ \A s \in Test \ {t} : f[s] = g[s]
  OBVIOUS
<1>4. Cardinality(HeldBy(f)) = Cardinality(HeldBy(g)) + f[t]
  BY <1>2, <1>3, HeldAdd
<1>5. Cardinality(HeldBy(g)) \in Nat
  BY <1>2, FS_CardinalityType
<1> QED BY <1>2, <1>3, <1>4, <1>5

LEMMA CountedInit == Init => ResourcesCounted
<1> SUFFICES ASSUME Init, NEW u \in Unit
             PROVE  /\ IsFiniteSet(HeldIn(u))
                    /\ locked[u] = Cardinality(HeldIn(u))
                    /\ locked[u] <= Total[u]
  BY DEF ResourcesCounted
<1>1. HeldIn(u) = {}
  BY DEF Init, HeldIn
<1> QED BY <1>1, FS_EmptySet, ResourceAssumption DEF Init

\* AllocateResources takes no more than is free in any unit.
LEMMA CountedAllocate ==
  ASSUME Typed, ResourcesCounted, NEW t \in Test, AllocateResources(t)
  PROVE  ResourcesCounted'
<1>1. CASE UNCHANGED <<locked, allocated>>
  BY <1>1 DEF ResourcesCounted, HeldIn
<1>2. ASSUME NEW a, Fits(t, a, locked), Allocate(t, a) PROVE ResourcesCounted'
  <2> SUFFICES ASSUME NEW u \in Unit
               PROVE  /\ IsFiniteSet(HeldIn(u)')
                      /\ locked'[u] = Cardinality(HeldIn(u)')
                      /\ locked'[u] <= Total[u]
    BY DEF ResourcesCounted
  <2> DEFINE d == Demand(t, a, u)
             f == [s \in Test |-> allocated[s][u]]
             g == [s \in Test |-> allocated'[s][u]]
  <2>1. d \in Nat
    BY DemandType
  <2>2. allocated' \in [Test -> [Unit -> Nat]]
    BY <1>2, DemandType DEF Allocate, Typed
  <2>3. f \in [Test -> Nat] /\ g \in [Test -> Nat]
    BY <2>2 DEF Typed
  <2>4. g[t] = f[t] + d /\ \A s \in Test \ {t} : g[s] = f[s]
    BY <1>2 DEF Allocate, Typed
  <2>5. HeldIn(u) = HeldBy(f) /\ HeldIn(u)' = HeldBy(g)
    BY DEF HeldIn, HeldBy
  <2>6. locked'[u] = locked[u] + d /\ d <= Total[u] - locked[u]
    BY <1>2 DEF Allocate, Fits
  <2>7. /\ IsFiniteSet(HeldBy(f)) /\ locked[u] = Cardinality(HeldBy(f))
        /\ locked[u] \in Int /\ Total[u] \in Nat
    BY <2>5, ResourceAssumption DEF ResourcesCounted, Typed
  <2> HIDE DEF d, f, g
  <2>8. IsFiniteSet(HeldBy(g)) /\ Cardinality(HeldBy(g)) = Cardinality(HeldBy(f)) + d
    BY <2>1, <2>3, <2>4, <2>7, HeldAdd
  <2> QED BY <2>1, <2>5, <2>6, <2>7, <2>8
<1> QED BY <1>1, <1>2 DEF AllocateResources

LEMMA CountedDeallocate ==
  ASSUME Typed, ResourcesCounted, NEW t \in Test, DeallocateResources(t)
  PROVE  ResourcesCounted'
<1> SUFFICES ASSUME NEW u \in Unit
             PROVE  /\ IsFiniteSet(HeldIn(u)')
                    /\ locked'[u] = Cardinality(HeldIn(u)')
                    /\ locked'[u] <= Total[u]
  BY DEF ResourcesCounted
<1> DEFINE f == [s \in Test |-> allocated[s][u]]
           g == [s \in Test |-> allocated'[s][u]]
<1>1. allocated' \in [Test -> [Unit -> Nat]]
  BY DEF DeallocateResources, Typed
<1>2. f \in [Test -> Nat] /\ g \in [Test -> Nat] /\ f[t] \in Nat
  BY <1>1 DEF Typed
<1>3. g[t] = 0 /\ \A s \in Test \ {t} : g[s] = f[s]
  BY DEF DeallocateResources, Typed
<1>4. HeldIn(u) = HeldBy(f) /\ HeldIn(u)' = HeldBy(g)
  BY DEF HeldIn, HeldBy
<1>5. locked'[u] = locked[u] - f[t]
  BY DEF DeallocateResources
<1>6. /\ IsFiniteSet(HeldBy(f)) /\ locked[u] = Cardinality(HeldBy(f))
      /\ locked[u] <= Total[u] /\ locked[u] \in Int /\ Total[u] \in Nat
  BY <1>4, ResourceAssumption DEF ResourcesCounted, Typed
<1> HIDE DEF f, g
<1>7. IsFiniteSet(HeldBy(g)) /\ Cardinality(HeldBy(g)) = Cardinality(HeldBy(f)) - f[t]
  BY <1>2, <1>3, <1>6, HeldRemove
<1> QED BY <1>2, <1>4, <1>5, <1>6, <1>7

LEMMA CountedNext ==
  Typed /\ ResourcesCounted /\ [HandlerStep]_handlerVars => ResourcesCounted'
<1> SUFFICES ASSUME Typed, ResourcesCounted, [HandlerStep]_handlerVars PROVE ResourcesCounted'
  OBVIOUS
<1> USE DEF holdVars
<1>1. ASSUME UNCHANGED <<locked, allocated>> PROVE ResourcesCounted'
  BY <1>1 DEF ResourcesCounted, HeldIn
<1>2. CASE RunTests \/ StartNextTests \/ OnTestLoadRetryCB \/ LoopEnds \/ EndOfLoop
  BY <1>1, <1>2 DEF RunTests, StartNextTests, OnTestLoadRetryCB, LoopEnds, EndOfLoop
<1>3. ASSUME NEW t \in Test,
             SkipSerial(t) \/ SkipForRoom(t) \/ TestLocked(t) \/ TestStarts(t)
      PROVE  ResourcesCounted'
  BY <1>1, <1>3 DEF SkipSerial, SkipForRoom, TestLocked, TestStarts
<1>4. ASSUME NEW t \in Test, AffinityUnavailable(t) \/ StartTestProcess(t)
      PROVE  ResourcesCounted'
  BY <1>4, CountedAllocate DEF AffinityUnavailable, StartTestProcess
<1>5. ASSUME NEW t \in Test, NEW status, NEW forStopTime,
             \/ TestNotReady(t) \/ TestFailsToStart(t, status)
             \/ TestFinishes(t, status, forStopTime)
      PROVE  ResourcesCounted'
  BY <1>5, CountedDeallocate DEF TestNotReady, TestFailsToStart, TestFinishes, ReleaseTest
<1>6. ASSUME NEW t \in Test, NEW status,
             TestRunsAgain(t, status) \/ RerunFailsToStart(t, status)
      PROVE  ResourcesCounted'
  BY <1>1, <1>6 DEF TestRunsAgain, RerunFailsToStart
<1>7. CASE UNCHANGED handlerVars
  BY <1>1, <1>7 DEF handlerVars
<1> QED
  BY <1>2, <1>3, <1>4, <1>5, <1>6, <1>7 DEF HandlerStep, ScanStep, ChildStep, Terminated

\* The counters of the allocator say exactly what the tests hold, and no unit
\* is overcommitted, even where a test keeps what it should have given back.
THEOREM ResourcesTheorem == Spec => []ResourcesExact
<1>1. Init => Typed /\ ResourcesCounted
  BY TypeInit, CountedInit
<1>2. Typed /\ ResourcesCounted /\ [HandlerStep]_handlerVars => (Typed /\ ResourcesCounted)'
  BY TypeNext, CountedNext
<1>3. ResourcesCounted => ResourcesExact
  BY DEF ResourcesCounted, ResourcesExact
<1> QED BY <1>1, <1>2, <1>3, HandlerSteps, PTL

-----------------------------------------------------------------------------
(* Counts that are unsigned in the code.                                    *)

LEMMA CountsUnsigned ==
  Invariant /\ Clock /\ ResourcesCounted => TypeOK
<1> SUFFICES ASSUME Invariant, Clock, ResourcesCounted PROVE TypeOK
  OBVIOUS
<1> USE DEF Invariant
<1>1. runningCount \in Nat
  BY SlotsFinite DEF Capacity, SlotsExact, Typed
<1>2. locked \in [Unit -> Nat]
  <2>1. ASSUME NEW u \in Unit PROVE locked[u] \in Nat
    BY FS_CardinalityType DEF ResourcesCounted
  <2> QED BY <2>1 DEF Typed
<1>3. numToStart \in Nat
  <2>1. CASE pc = "launch"
    <3>1. PICK t \in Test : launching = {t}
      BY <2>1 DEF Places
    <3>2. GetProcessorsUsed(t) \in 1 .. ParallelLevel /\ GetProcessorsUsed(t) <= numToStart
      BY <2>1, <3>1, UsedType DEF Capacity
    <3> QED BY <3>2, ProcessorsAssumption DEF Typed
  <2> QED BY <2>1 DEF Capacity, Typed
<1> QED BY <1>1, <1>2, <1>3 DEF TypeOK, Typed, Clock

\* Every field has a value of its type in every behaviour; above all the counts
\* that the code keeps in unsigned integers and takes from when a test is
\* launched or ends, RunningCount, numToStart and the locked slots, are never
\* taken below zero.
THEOREM TypeCorrect == Spec => []TypeOK
<1>1. Invariant /\ ResourcesCounted /\ [HandlerStep]_handlerVars => ResourcesCounted'
  BY CountedNext DEF Invariant
<1> QED BY <1>1, CountedInit, CountsUnsigned, InvariantHolds, ClockHolds, HandlerSteps, PTL

-----------------------------------------------------------------------------
(* Processors.                                                              *)

\* The inductive form of AffinityExact: only running tests have processors.
ProcessorsOwned ==
  /\ AffinityExact
  /\ \A t \in Test \ running : affinity[t] = {}

OwnedBy(f) == UNION {f[u] : u \in Test}

\* The processors of all tests, when t has S and had none.
LEMMA OwnedUnion ==
  ASSUME NEW f, NEW g, NEW t \in Test, NEW S,
         f[t] = {}, g[t] = S, \A u \in Test \ {t} : g[u] = f[u]
  PROVE  OwnedBy(g) = OwnedBy(f) \cup S
<1>1. ASSUME NEW p \in OwnedBy(g) PROVE p \in OwnedBy(f) \cup S
  <2>1. PICK u \in Test : p \in g[u]
    BY <1>1 DEF OwnedBy
  <2>2. CASE u = t
    BY <2>1, <2>2
  <2>3. CASE u # t
    BY <2>1, <2>3 DEF OwnedBy
  <2> QED BY <2>2, <2>3
<1>2. ASSUME NEW p \in OwnedBy(f) PROVE p \in OwnedBy(g)
  <2>1. PICK u \in Test : p \in f[u]
    BY <1>2 DEF OwnedBy
  <2>2. u # t
    BY <2>1
  <2> QED BY <2>1, <2>2 DEF OwnedBy
<1>3. ASSUME NEW p \in S PROVE p \in OwnedBy(g)
  BY <1>3 DEF OwnedBy
<1> QED BY <1>1, <1>2, <1>3

LEMMA OwnedAffinity == Owned = OwnedBy(affinity) /\ Owned' = OwnedBy(affinity')
BY DEF Owned, OwnedBy

LEMMA OwnedInit == Init => ProcessorsOwned
BY DEF Init, ProcessorsOwned, AffinityExact, Owned

LEMMA OwnedStart ==
  ASSUME Typed, Places, ProcessorsOwned, NEW t \in Test, StartTestProcess(t)
  PROVE  ProcessorsOwned'
<1>1. t \notin running /\ running' = running \cup {t} /\ affinity[t] = {}
  BY DEF StartTestProcess, Trying, Looking, Places, ProcessorsOwned
<1>2. CASE ~(HaveAffinity > 0 /\ t \in WantAffinity)
  <2>1. UNCHANGED <<processorsAvailable, affinity>>
    BY <1>2 DEF StartTestProcess, TakeAffinity
  <2> QED BY <1>1, <1>2, <2>1 DEF ProcessorsOwned, AffinityExact, Owned
<1>3. CASE HaveAffinity > 0 /\ t \in WantAffinity
  <2>1. PICK S \in Lowest(processorsAvailable, GetProcessorsUsed(t)) :
          /\ processorsAvailable' = processorsAvailable \ S
          /\ affinity' = [affinity EXCEPT ![t] = S]
    BY <1>3 DEF StartTestProcess, TakeAffinity
  <2>2. S \subseteq processorsAvailable /\ Cardinality(S) = GetProcessorsUsed(t)
    BY DEF Lowest
  <2>3. affinity'[t] = S /\ \A u \in Test \ {t} : affinity'[u] = affinity[u]
    BY <2>1 DEF Typed
  <2>4. \A u \in Test :
          /\ affinity'[u] \cap processorsAvailable' = {}
          /\ \A v \in Test \ {u} : affinity'[u] \cap affinity'[v] = {}
    BY <2>1, <2>2, <2>3 DEF ProcessorsOwned, AffinityExact
  <2>5. \A u \in running' \cap WantAffinity :
          HaveAffinity > 0 => Cardinality(affinity'[u]) = GetProcessorsUsed(u)
    BY <1>1, <2>2, <2>3 DEF ProcessorsOwned, AffinityExact, Typed
  <2>6. Owned' = Owned \cup S
    BY <1>1, <2>3, OwnedUnion, OwnedAffinity
  <2>7. processorsAvailable' \cup Owned' = Cpu
    BY <2>1, <2>2, <2>6 DEF ProcessorsOwned, AffinityExact
  <2>8. \A u \in Test \ running' : affinity'[u] = {}
    BY <1>1, <2>3 DEF ProcessorsOwned
  <2> QED BY <2>4, <2>5, <2>7, <2>8 DEF ProcessorsOwned, AffinityExact
<1> QED BY <1>2, <1>3

LEMMA OwnedRelease ==
  ASSUME Typed, ProcessorsOwned, NEW t \in running, NEW status, ReleaseTest(t, status)
  PROVE  ProcessorsOwned'
<1>1. /\ running' = running \ {t} /\ t \in Test
      /\ processorsAvailable' = processorsAvailable \cup affinity[t]
      /\ affinity'[t] = {} /\ \A u \in Test \ {t} : affinity'[u] = affinity[u]
  BY DEF ReleaseTest, Typed
<1>2. \A u \in Test :
        /\ affinity'[u] \cap processorsAvailable' = {}
        /\ \A v \in Test \ {u} : affinity'[u] \cap affinity'[v] = {}
  BY <1>1 DEF ProcessorsOwned, AffinityExact
<1>3. \A u \in running' \cap WantAffinity :
        HaveAffinity > 0 => Cardinality(affinity'[u]) = GetProcessorsUsed(u)
  BY <1>1 DEF ProcessorsOwned, AffinityExact, Typed
<1>4. Owned = Owned' \cup affinity[t]
  <2>1. OwnedBy(affinity) = OwnedBy(affinity') \cup affinity[t]
    BY <1>1, OwnedUnion
  <2> QED BY <2>1, OwnedAffinity
<1>5. processorsAvailable' \cup Owned' = Cpu
  BY <1>1, <1>4 DEF ProcessorsOwned, AffinityExact
<1>6. \A u \in Test \ running' : affinity'[u] = {}
  BY <1>1 DEF ProcessorsOwned
<1> QED BY <1>2, <1>3, <1>5, <1>6 DEF ProcessorsOwned, AffinityExact

LEMMA OwnedNext ==
  Typed /\ Places /\ ProcessorsOwned /\ [HandlerStep]_handlerVars => ProcessorsOwned'
<1> SUFFICES ASSUME Typed, Places, ProcessorsOwned, [HandlerStep]_handlerVars PROVE ProcessorsOwned'
  OBVIOUS
<1> USE DEF holdVars, testVars
<1>1. ASSUME UNCHANGED <<running, processorsAvailable, affinity>> PROVE ProcessorsOwned'
  BY <1>1 DEF ProcessorsOwned, AffinityExact, Owned
<1>2. CASE RunTests \/ StartNextTests \/ OnTestLoadRetryCB \/ LoopEnds \/ EndOfLoop
  BY <1>1, <1>2 DEF RunTests, StartNextTests, OnTestLoadRetryCB, LoopEnds, EndOfLoop
<1>3. ASSUME NEW t \in Test,
             \/ SkipSerial(t) \/ SkipForRoom(t) \/ TestLocked(t) \/ TestNotReady(t)
             \/ AffinityUnavailable(t) \/ TestStarts(t)
      PROVE  ProcessorsOwned'
  BY <1>1, <1>3 DEF SkipSerial, SkipForRoom, TestLocked, TestNotReady,
                    AffinityUnavailable, TestStarts
<1>4. ASSUME NEW t \in Test, NEW status, TestFailsToStart(t, status)
      PROVE  ProcessorsOwned'
  BY <1>4, OwnedRelease DEF TestFailsToStart, Places
<1>5. ASSUME NEW t \in Test, NEW status, NEW forStopTime,
             TestFinishes(t, status, forStopTime)
      PROVE  ProcessorsOwned'
  BY <1>5, OwnedRelease DEF TestFinishes, ChildEnds, Places
<1>6. ASSUME NEW t \in Test, NEW status,
             TestRunsAgain(t, status) \/ RerunFailsToStart(t, status)
      PROVE  ProcessorsOwned'
  BY <1>1, <1>6 DEF TestRunsAgain, RerunFailsToStart
<1>7. CASE UNCHANGED handlerVars
  BY <1>1, <1>7 DEF handlerVars
<1> QED
  BY <1>2, <1>3, <1>4, <1>5, <1>6, <1>7, OwnedStart
  DEF HandlerStep, ScanStep, ChildStep, Terminated

\* No processor is shared, lost or taken twice, and a running test that wants
\* affinity has as many as it is charged for.
THEOREM AffinityTheorem == Spec => []AffinityExact
<1>1. Init => ProcessorsOwned
  BY OwnedInit
<1>2. Invariant /\ ProcessorsOwned /\ [HandlerStep]_handlerVars => ProcessorsOwned'
  BY OwnedNext DEF Invariant
<1>3. ProcessorsOwned => AffinityExact
  BY DEF ProcessorsOwned
<1> QED BY <1>1, <1>2, <1>3, InvariantHolds, HandlerSteps, PTL
-----------------------------------------------------------------------------
(* Resources of tests that do not run.                                      *)

\* A test that does not run holds nothing, unless it has not run yet, wants
\* processors of its own, and asks for resources: StartTestProcess may then
\* have given up after StartTest had allocated them.
KeptOnlyByShort ==
  \A t \in Test \ running :
    \/ t \in tests \cap WantAffinity /\ HaveAffinity > 0 /\ DOMAIN Requires[t] # {}
    \/ \A u \in Unit : allocated[t][u] = 0

\* A test with no RESOURCE_GROUPS takes no slots.
LEMMA DemandNone ==
  ASSUME NEW t \in Test, NEW a, NEW u, DOMAIN Requires[t] = {}
  PROVE  Demand(t, a, u) = 0
<1>1. {p \in (DOMAIN Requires[t]) \X (1 .. MaxSlots) :
         a[p[1]] = u /\ p[2] <= Requires[t][p[1]].slots} = {}
  OBVIOUS
<1> QED BY <1>1, FS_EmptySet DEF Demand

\* AllocateResources gives nothing to other tests, and nothing to a test that
\* asks for nothing.
LEMMA AllocatesTo ==
  ASSUME Typed, NEW t \in Test, AllocateResources(t)
  PROVE  /\ \A s \in Test \ {t} : allocated'[s] = allocated[s]
         /\ DOMAIN Requires[t] = {} =>
              \A u \in Unit : allocated'[t][u] = allocated[t][u]
<1>1. CASE UNCHANGED <<locked, allocated>>
  BY <1>1
<1>2. ASSUME NEW a, Allocate(t, a)
      PROVE  /\ \A s \in Test \ {t} : allocated'[s] = allocated[s]
             /\ \A u \in Unit : allocated'[t][u] = allocated[t][u] + Demand(t, a, u)
  BY <1>2 DEF Allocate, Typed
<1>3. ASSUME NEW a, Allocate(t, a), DOMAIN Requires[t] = {}, NEW u \in Unit
      PROVE  allocated'[t][u] = allocated[t][u]
  <2>1. Demand(t, a, u) = 0
    BY <1>3, DemandNone
  <2>2. allocated[t][u] \in Nat
    BY DEF Typed
  <2> QED BY <1>2, <1>3, <2>1, <2>2
<1> QED BY <1>1, <1>2, <1>3 DEF AllocateResources

\* Before RunTests an invocation has neither run a test nor given it anything,
\* also one that is going to resume.
Fresh ==
  pc = "run" => finished = {} /\ \A t \in Test : \A u \in Unit : allocated[t][u] = 0

LEMMA FreshInit == Init => Fresh
BY DEF Init, Fresh

LEMMA FreshNext == Fresh /\ [HandlerStep]_handlerVars => Fresh'
<1> SUFFICES ASSUME Fresh, [HandlerStep]_handlerVars PROVE Fresh'
  OBVIOUS
<1>1. CASE pc' # "run"
  BY <1>1 DEF Fresh
<1>2. CASE UNCHANGED handlerVars
  BY <1>2 DEF handlerVars, testVars, holdVars, Fresh
<1> QED
  BY <1>1, <1>2
  DEF HandlerStep, ScanStep, ChildStep, Terminated, RunTests, StartNextTests, SkipSerial,
      SkipForRoom, TestLocked, TestNotReady, AffinityUnavailable, Trying, Looking,
      StartTestProcess, TestStarts, TestFailsToStart, EndOfLoop, TestFinishes,
      TestRunsAgain, RerunFailsToStart, ChildEnds, OnTestLoadRetryCB, LoopEnds

LEMMA KeptNext ==
  Typed /\ Places /\ Fresh /\ KeptOnlyByShort /\ [HandlerStep]_handlerVars => KeptOnlyByShort'
<1> SUFFICES ASSUME Typed, Places, Fresh, KeptOnlyByShort, [HandlerStep]_handlerVars
             PROVE  KeptOnlyByShort'
  OBVIOUS
<1> USE DEF holdVars, testVars
<1>1. ASSUME UNCHANGED <<tests, running, allocated>> PROVE KeptOnlyByShort'
  BY <1>1 DEF KeptOnlyByShort
<1>2. CASE RunTests
  <2>1. \A t \in Test : \A u \in Unit : allocated'[t][u] = 0
    BY <1>2 DEF RunTests, Fresh
  <2> QED BY <2>1 DEF KeptOnlyByShort
<1>3. CASE StartNextTests \/ OnTestLoadRetryCB \/ LoopEnds \/ EndOfLoop
  BY <1>1, <1>3 DEF StartNextTests, OnTestLoadRetryCB, LoopEnds, EndOfLoop
<1>4. ASSUME NEW t \in Test,
             SkipSerial(t) \/ SkipForRoom(t) \/ TestLocked(t) \/ TestStarts(t)
      PROVE  KeptOnlyByShort'
  BY <1>1, <1>4 DEF SkipSerial, SkipForRoom, TestLocked, TestStarts
<1>5. ASSUME NEW t \in Test, TestNotReady(t) PROVE KeptOnlyByShort'
  <2>1. /\ \A s \in Test \ {t} : allocated'[s] = allocated[s]
        /\ \A u \in Unit : allocated'[t][u] = 0
        /\ UNCHANGED <<tests, running>>
    BY <1>5 DEF TestNotReady, DeallocateResources, Typed
  <2> QED BY <2>1 DEF KeptOnlyByShort
\* The one place where something may be left behind.
<1>6. ASSUME NEW t \in Test, AffinityUnavailable(t) PROVE KeptOnlyByShort'
  <2>1. /\ t \in tests /\ t \in WantAffinity /\ HaveAffinity > 0
        /\ UNCHANGED <<tests, running>>
    BY <1>6 DEF AffinityUnavailable, AffinityShort, Trying, Looking, Places
  <2>2. AllocateResources(t)
    BY <1>6 DEF AffinityUnavailable
  <2> QED BY <2>1, <2>2, AllocatesTo DEF KeptOnlyByShort
<1>7. ASSUME NEW t \in Test, StartTestProcess(t) PROVE KeptOnlyByShort'
  <2>1. running' = running \cup {t} /\ tests' = tests \ {t} /\ AllocateResources(t)
    BY <1>7 DEF StartTestProcess, EraseTest
  <2> QED BY <2>1, AllocatesTo DEF KeptOnlyByShort
<1>8. ASSUME NEW t \in Test, NEW status, ReleaseTest(t, status), tests' = tests
      PROVE  KeptOnlyByShort'
  <2>1. /\ \A s \in Test \ {t} : allocated'[s] = allocated[s]
        /\ \A u \in Unit : allocated'[t][u] = 0
        /\ running' = running \ {t}
    BY <1>8 DEF ReleaseTest, DeallocateResources, Typed
  <2> QED BY <1>8, <2>1 DEF KeptOnlyByShort
<1>9. ASSUME NEW t \in Test, NEW status, NEW forStopTime,
             TestFailsToStart(t, status) \/ TestFinishes(t, status, forStopTime)
      PROVE  KeptOnlyByShort'
  BY <1>8, <1>9 DEF TestFailsToStart, TestFinishes
<1>10. ASSUME NEW t \in Test, NEW status,
              TestRunsAgain(t, status) \/ RerunFailsToStart(t, status)
       PROVE  KeptOnlyByShort'
  BY <1>1, <1>10 DEF TestRunsAgain, RerunFailsToStart
<1>11. CASE UNCHANGED handlerVars
  BY <1>1, <1>11 DEF handlerVars
<1> QED
  BY <1>2, <1>3, <1>4, <1>5, <1>6, <1>7, <1>9, <1>10, <1>11
  DEF HandlerStep, ScanStep, ChildStep, Terminated

\* Resources are left with a test in no other way than by StartTestProcess
\* giving up for lack of processors; a test that is over holds none.
THEOREM KeptTheorem == Spec => []KeptOnlyByShort
<1>1. Init => Fresh /\ KeptOnlyByShort
  BY FreshInit DEF Init, KeptOnlyByShort
<1>2. Invariant /\ Fresh /\ KeptOnlyByShort /\ [HandlerStep]_handlerVars
        => (Fresh /\ KeptOnlyByShort)'
  BY FreshNext, KeptNext DEF Invariant
<1> QED BY <1>1, <1>2, InvariantHolds, HandlerSteps, PTL

\* Where no test asks both for processors and for resources, or ctest has no
\* processors to give, whatever a test took is given back when it ends.
THEOREM HeldTheorem ==
  ASSUME HaveAffinity = 0 \/ \A t \in WantAffinity : DOMAIN Requires[t] = {}
  PROVE  Spec => []HeldOnlyByRunning
<1>1. KeptOnlyByShort => HeldOnlyByRunning
  BY DEF KeptOnlyByShort, HeldOnlyByRunning
<1> QED BY <1>1, KeptTheorem, PTL
-----------------------------------------------------------------------------
(***************************************************************************)
(* 3. How TestScheduler gets to its end, for every suite: each test that   *)
(* is over is recorded once, and when the program ends no test has been    *)
(* forgotten.  Both need conditions on the constants, since the code       *)
(* departs from them otherwise; they are named here.                       *)
(***************************************************************************)

-----------------------------------------------------------------------------
(* What is recorded of a test.                                              *)

\* Each test that ends is recorded at once: --repeat does not make it run more
\* than once, or neither the stop time nor a launch that fails may end the
\* repetition before its last run.
RecordedAlways ==
  \/ Runs = 1
  \/ ~HasStopTime /\ (RepeatMode # "UntilPass" \/ Unreliable = {})

\* Every test that is over is in exactly one of the lists of passed and failed
\* tests, or in none if it is disabled; one that is not over is in none; and none
\* has two entries in TestResults.
RecordedOnce ==
  \A t \in Test :
    /\ results[t] <= 1
    /\ t \in finished \ Disabled => t \in passed \cup failed
    /\ t \notin finished => results[t] = 0 /\ t \notin passed \cup failed
    /\ t \in Disabled => t \notin passed \cup failed
    /\ t \notin passed \cap failed

\* The inductive form of ResultsExact.
Recorded ==
  /\ RecordedOnce
  /\ RecordedAlways => \A t \in finished : results[t] = 1
  /\ ~HasStopTime => ~stopTimePassed

\* The last run of a test is recorded, and not more than once.
LEMMA RecordedRelease ==
  ASSUME Typed, Places, Recorded, NEW t \in running, NEW status,
         EndTest(t, status), ReleaseTest(t, status),
         RecordedAlways => ~NeedsToRepeat(t, status),
         t \in Disabled => status \notin {"COMPLETED", "SKIPPED"},
         ~HasStopTime => ~stopTimePassed'
  PROVE  Recorded'
<1>1. t \in Test /\ t \notin finished /\ t \notin passed /\ t \notin failed /\ results[t] = 0
  BY DEF Places, Typed, Recorded, RecordedOnce
<1>2. /\ results'[t] = IF NeedsToRepeat(t, status) THEN 0 ELSE 1
      /\ \A u \in Test \ {t} : results'[u] = results[u]
  BY <1>1 DEF EndTest, Typed
<1>3. /\ finished' = finished \cup {t}
      /\ passed' \subseteq passed \cup {t} /\ failed' \subseteq failed \cup {t}
      /\ passed \subseteq passed' /\ failed \subseteq failed'
      /\ t \notin passed' \cap failed'
      /\ t \notin Disabled => t \in passed' \cup failed'
      /\ t \in Disabled => t \notin passed' \cup failed'
  BY <1>1 DEF ReleaseTest
<1>4. RecordedOnce'
  BY <1>1, <1>2, <1>3 DEF Recorded, RecordedOnce
<1>5. RecordedAlways => \A u \in finished' : results'[u] = 1
  BY <1>1, <1>2, <1>3 DEF Recorded, Typed
<1> QED BY <1>4, <1>5 DEF Recorded, RecordedAlways, Runs

LEMMA RecordedNext ==
  /\ Typed /\ Places /\ RunsCounted /\ Unresumed /\ Clock
  /\ Recorded /\ [HandlerStep]_handlerVars
  => Recorded'
<1> SUFFICES ASSUME Typed, Places, RunsCounted, Unresumed, Clock, Recorded,
                    [HandlerStep]_handlerVars
             PROVE  Recorded'
  OBVIOUS
<1> USE DEF testVars, recordVars
<1>1. ASSUME UNCHANGED <<finished, passed, failed, results, stopTimePassed>>
      PROVE  Recorded'
  BY <1>1 DEF Recorded, RecordedOnce, RecordedAlways, Runs
<1>2. CASE RunTests
  BY <1>1, <1>2, RunTestsKeeps DEF RunTests
<1>3. CASE StartNextTests
  <2>1. UNCHANGED <<finished, passed, failed, results>>
    BY <1>3 DEF StartNextTests
  <2>2. ~HasStopTime => ~stopTimePassed'
    BY <1>3 DEF StartNextTests, CheckStopTimePassed, Clock, Recorded
  <2> QED BY <2>1, <2>2 DEF Recorded, RecordedOnce, RecordedAlways, Runs
<1>4. CASE OnTestLoadRetryCB \/ LoopEnds \/ EndOfLoop
  BY <1>1, <1>4 DEF OnTestLoadRetryCB, LoopEnds, EndOfLoop
<1>5. ASSUME NEW t \in Test,
             \/ SkipSerial(t) \/ SkipForRoom(t) \/ TestLocked(t) \/ TestNotReady(t)
             \/ AffinityUnavailable(t) \/ StartTestProcess(t) \/ TestStarts(t)
      PROVE  Recorded'
  BY <1>1, <1>5 DEF SkipSerial, SkipForRoom, TestLocked, TestNotReady,
                    AffinityUnavailable, StartTestProcess, Trying, TestStarts
<1>6. ASSUME NEW t \in Test, NEW status, TestFailsToStart(t, status) PROVE Recorded'
  <2>1. t \in running /\ EndTest(t, status) /\ ReleaseTest(t, status)
    BY <1>6 DEF TestFailsToStart, Places
  <2>2. stopTimePassed' = stopTimePassed /\ status \notin {"COMPLETED", "SKIPPED"}
    BY <1>6 DEF TestFailsToStart
  <2>3. t \in launching /\ runsLeft[t] = Runs /\ Runs \in Nat
    BY <1>6, RunsType DEF TestFailsToStart, RunsCounted
  <2>4. status = "NOT_RUN" \/ (status = "BAD_COMMAND" /\ t \in Unreliable)
    BY <1>6 DEF TestFailsToStart
  <2>5. RecordedAlways => ~NeedsToRepeat(t, status)
    BY <2>3, <2>4 DEF RecordedAlways, NeedsToRepeat, MayRepeat
  <2> QED BY <2>1, <2>2, <2>5, RecordedRelease DEF Recorded
<1>7. ASSUME NEW t \in Test, NEW status, NEW forStopTime \in BOOLEAN,
             TestFinishes(t, status, forStopTime)
      PROVE  Recorded'
  <2>1. /\ t \in live /\ t \in running /\ t \notin Disabled
        /\ EndTest(t, status) /\ ReleaseTest(t, status)
    BY <1>7 DEF TestFinishes, ChildEnds, Places
  <2>2. ~HasStopTime => ~stopTimePassed' /\ ~stopTimePassed /\ ~forStopTime
    BY <1>7 DEF TestFinishes, ChildEnds, Recorded
  <2>3. /\ runsLeft[t] >= 1 /\ attempts[t] >= 1 /\ attempts[t] + runsLeft[t] = Runs + 1
        /\ runsLeft[t] \in Int /\ attempts[t] \in Nat
    BY <2>1 DEF RunsCounted, Typed
  <2>4. Runs = 1 => runsLeft[t] - 1 = 0
    BY <2>3
  <2>5. RecordedAlways => ~NeedsToRepeat(t, status)
    BY <1>7, <2>2, <2>4 DEF RecordedAlways, NeedsToRepeat, TestFinishes, RunsAgain
  <2> QED BY <2>1, <2>2, <2>5, RecordedRelease
<1>8. ASSUME NEW t \in Test, NEW status,
             TestRunsAgain(t, status) \/ RerunFailsToStart(t, status)
      PROVE  Recorded'
  <2>1. /\ UNCHANGED <<finished, passed, failed>>
        /\ ChildEnds(t, status, FALSE) /\ RunsAgain(t, status, FALSE)
    BY <1>8 DEF TestRunsAgain, RerunFailsToStart
  <2>2. stopTimePassed' = stopTimePassed
    <3>1. stopTimePassed' = (stopTimePassed \/ FALSE) /\ stopTimePassed \in BOOLEAN
      BY <2>1 DEF ChildEnds, Typed
    <3> QED BY <3>1, Zenon
  <2>3. results' = results
    BY <2>1 DEF ChildEnds, RunsAgain, EndTest, Typed
  <2> QED BY <1>1, <2>1, <2>2, <2>3
<1>9. CASE UNCHANGED handlerVars
  BY <1>1, <1>9 DEF handlerVars
<1> QED
  BY <1>2, <1>3, <1>4, <1>5, <1>6, <1>7, <1>8, <1>9
  DEF HandlerStep, ScanStep, ChildStep, Terminated

LEMMA RecordedHolds == Spec => []Recorded
<1>1. Init => Recorded
  BY DEF Init, Recorded, RecordedOnce
<1>2. Invariant /\ Unresumed /\ Clock /\ Recorded /\ [HandlerStep]_handlerVars
        => Recorded'
  BY RecordedNext DEF Invariant
<1> QED BY <1>1, <1>2, InvariantHolds, UnresumedHolds, ClockHolds, HandlerSteps, PTL

\* However often a test is repeated, it is entered in TestResults at most once,
\* when it is over, and then as passed or as failed, never as both, unless it is
\* disabled.
THEOREM RecordedOnceTheorem == Spec => []RecordedOnce
<1>1. Recorded => RecordedOnce
  BY DEF Recorded
<1> QED BY <1>1, RecordedHolds, PTL

\* Every test that is over has exactly one entry, and is in exactly one of the
\* two lists or in none if it is disabled, unless the repetition of a test may be
\* ended before its last run.
THEOREM ResultsTheorem ==
  ASSUME RecordedAlways
  PROVE  Spec => []ResultsExact
<1>1. Invariant /\ Recorded => ResultsExact
  BY DEF Recorded, RecordedOnce, ResultsExact, Invariant, Typed
<1> QED BY <1>1, InvariantHolds, RecordedHolds, PTL

-----------------------------------------------------------------------------
(* No test is forgotten.                                                    *)

\* A test that is running has a child, unless it is just being launched.
RerunsStart == Unreliable = {} \/ Runs = 1

\* SortedTests has the dependencies of a test before it (DependenciesBefore of
\* TestOrder, for tests that did not fail last time).
Ordered == \A t \in Test : \A u \in Depends[t] : Rank[u] < Rank[t]

\* Nothing that StartTest takes is left behind (HeldTheorem).
NothingKept == HaveAffinity = 0 \/ \A t \in WantAffinity : DOMAIN Requires[t] = {}

\* The lists have every test, and a test in Tests waits for nothing but those
\* of its dependencies that are not over.
Everywhere ==
  /\ tests \cup running \cup finished = Test
  /\ completed = Cardinality(finished)
  /\ running = live \cup launching
  /\ \A t \in Test : waitingFor[t] \subseteq Depends[t]
  /\ \A t \in tests : waitingFor[t] \cap finished = {}

\* Each test of S waits for another one of S.
Blocked(S) == \A t \in S : waitingFor[t] \cap S # {}

\* RunTests has no reason to end early.
Unstopped == ~HasCycles /\ ~stopTimePassed /\ ~StopOnFailure

\* Tests take the same number of slots, or no attention is paid to the load:
\* the load allows all tests or none.
LoadForAll ==
  TestLoad = 0 \/ \A t, u \in Test : GetProcessorsUsed(t) = GetProcessorsUsed(u)

\* The load lets nothing start, and the loop is going to notice.
Overloaded ==
  /\ TestLoad > 0 /\ allTestsFailedTestLoadCheck
  /\ \A t \in Test : GetProcessorsUsed(t) > spareLoad

\* Load and slots suffice for any test.
RoomForAll ==
  \A t \in Test : /\ GetProcessorsUsed(t) <= numToStart
                  /\ TestLoad > 0 => GetProcessorsUsed(t) <= spareLoad

\* While no child runs, the load allows nothing, or the loop has room for
\* everything, and passes over a test only because it waits for one that was
\* passed over before; so when the program waits with neither a child nor a
\* timer, nothing that is left could have been started.
NothingForgotten ==
  /\ pc \in {"scan", "launch"} /\ live = {} =>
       Overloaded \/ (RoomForAll /\ Blocked(tests \ copy))
  /\ pc = "wait" /\ live = {} /\ ~retryTimer /\ Unstopped => Blocked(tests)
  /\ pc = "done" /\ Unstopped => Blocked(tests)
  /\ pc = "done" => live = {}

\* What does not come to its last run does so for the stop time only.
LEMMA RerunsAlwaysStart ==
  ASSUME Typed, RunsCounted, RerunsStart, NEW t \in Test, NEW status
  PROVE  ~RerunFailsToStart(t, status)
<1> SUFFICES ASSUME RerunFailsToStart(t, status) PROVE FALSE
  OBVIOUS
<1>1. t \in live /\ t \in Unreliable /\ runsLeft[t] - 1 # 0
  BY DEF RerunFailsToStart, ChildEnds, RunsAgain, NeedsToRepeat
<1>2. Runs = 1
  BY <1>1 DEF RerunsStart
<1>3. /\ runsLeft[t] >= 1 /\ attempts[t] >= 1 /\ attempts[t] + runsLeft[t] = 2
      /\ runsLeft[t] \in Int /\ attempts[t] \in Nat
  BY <1>1, <1>2 DEF RunsCounted, Typed
<1> QED BY <1>1, <1>3

LEMMA EverywhereInit == Init => Everywhere
BY FS_EmptySet DEF Init, Everywhere

LEMMA EverywhereRelease ==
  ASSUME Typed, Places, Everywhere, NEW t \in running, NEW status,
         ReleaseTest(t, status), tests' = tests,
         live' = live \ {t}, launching' = launching \ {t}
  PROVE  Everywhere'
<1>1. /\ finished' = finished \cup {t} /\ running' = running \ {t}
      /\ completed' = completed + 1 /\ t \notin finished
      /\ \A u \in Test : waitingFor'[u] \subseteq waitingFor[u]
      /\ \A u \in tests : waitingFor'[u] = waitingFor[u] \ {t}
  BY DEF ReleaseTest, Places, Typed
<1>2. completed' = Cardinality(finished')
  <2>1. IsFiniteSet(finished)
    BY TestAssumption, FS_Subset DEF Typed
  <2> QED BY <1>1, <2>1, FS_AddElement DEF Everywhere
<1>3. tests' \cup running' \cup finished' = Test
  BY <1>1 DEF Everywhere, Typed
<1>4. running' = live' \cup launching'
  BY <1>1 DEF Everywhere
<1>5. \A u \in Test : waitingFor'[u] \subseteq Depends[u]
  BY <1>1 DEF Everywhere
<1>6. \A u \in tests' : waitingFor'[u] \cap finished' = {}
  BY <1>1 DEF Everywhere, Typed
<1> QED BY <1>2, <1>3, <1>4, <1>5, <1>6 DEF Everywhere

\* No test that is to run depends on one that CheckResume drops: it does not
\* take what it drops out of the dependencies of the others, which would wait
\* for it for ever.
NoneStranded ==
  pc = "run" => \A t \in Test \ Resumed : Depends[t] \cap Resumed = {}

LEMMA EverywhereNext ==
  ASSUME RerunsStart
  PROVE  Typed /\ Places /\ RunsCounted /\ Fresh /\ NoneStranded /\ Everywhere
         /\ [HandlerStep]_handlerVars => Everywhere'
<1> SUFFICES ASSUME Typed, Places, RunsCounted, Fresh, NoneStranded, Everywhere,
                    [HandlerStep]_handlerVars
             PROVE  Everywhere'
  OBVIOUS
<1> USE DEF testVars, recordVars
<1>1. ASSUME UNCHANGED <<tests, running, finished, live, launching, waitingFor, completed>>
      PROVE  Everywhere'
  BY <1>1 DEF Everywhere
<1>2. CASE RunTests
  <2>1. /\ tests' = tests \ Resumed /\ finished' = Resumed
        /\ completed' = completed + Cardinality(Resumed)
        /\ UNCHANGED <<running, live, launching, waitingFor>>
    BY <1>2 DEF RunTests, CheckResume, Fresh
  <2>2. Resumed \subseteq Test /\ Resumed \subseteq tests \cup running
    BY <1>2 DEF RunTests, Resumed, Fresh, Everywhere, Typed
  <2>3. completed = 0
    BY <1>2, FS_EmptySet DEF RunTests, Fresh, Everywhere
  <2>4. completed' = Cardinality(finished')
    BY <2>1, <2>2, <2>3, TestAssumption, FS_Subset, FS_CardinalityType
  <2>5. \A t \in tests' : waitingFor'[t] \cap finished' = {}
    BY <1>2, <2>1 DEF RunTests, NoneStranded, Everywhere, Typed
  <2> QED BY <2>1, <2>2, <2>4, <2>5, <1>2 DEF RunTests, Fresh, Everywhere
<1>3. CASE StartNextTests \/ OnTestLoadRetryCB \/ LoopEnds \/ EndOfLoop
  BY <1>1, <1>3 DEF StartNextTests, OnTestLoadRetryCB, LoopEnds, EndOfLoop
<1>4. ASSUME NEW t \in Test,
             \/ SkipSerial(t) \/ SkipForRoom(t) \/ TestLocked(t) \/ TestNotReady(t)
             \/ AffinityUnavailable(t)
      PROVE  Everywhere'
  BY <1>1, <1>4 DEF SkipSerial, SkipForRoom, TestLocked, TestNotReady,
                    AffinityUnavailable, Trying
<1>5. ASSUME NEW t \in Test, StartTestProcess(t) PROVE Everywhere'
  <2>1. /\ t \in tests /\ launching = {} /\ launching' = {t}
        /\ running' = running \cup {t} /\ tests' = tests \ {t}
        /\ UNCHANGED <<finished, live, waitingFor, completed>>
    BY <1>5 DEF StartTestProcess, EraseTest, Trying, Looking, Places
  <2> QED BY <2>1 DEF Everywhere
<1>6. ASSUME NEW t \in Test, TestStarts(t) PROVE Everywhere'
  <2>1. /\ launching = {t} /\ launching' = {} /\ live' = live \cup {t}
        /\ UNCHANGED <<tests, running, finished, waitingFor, completed>>
    BY <1>6 DEF TestStarts, Places
  <2> QED BY <2>1 DEF Everywhere
<1>7. ASSUME NEW t \in Test, NEW status, TestFailsToStart(t, status)
      PROVE  Everywhere'
  <2>1. /\ t \in running /\ ReleaseTest(t, status) /\ tests' = tests
        /\ launching' = launching \ {t} /\ live' = live \ {t}
    BY <1>7 DEF TestFailsToStart, Places
  <2> QED BY <2>1, EverywhereRelease
<1>8. ASSUME NEW t \in Test, NEW status, NEW forStopTime,
             TestFinishes(t, status, forStopTime)
      PROVE  Everywhere'
  <2>1. /\ t \in running /\ ReleaseTest(t, status) /\ tests' = tests
        /\ launching' = launching \ {t} /\ live' = live \ {t}
    BY <1>8 DEF TestFinishes, ChildEnds, Places
  <2> QED BY <2>1, EverywhereRelease
<1>9. ASSUME NEW t \in Test, NEW status, TestRunsAgain(t, status) PROVE Everywhere'
  BY <1>1, <1>9 DEF TestRunsAgain
<1>10. CASE UNCHANGED handlerVars
  BY <1>1, <1>10 DEF handlerVars
<1> QED
  BY <1>2, <1>3, <1>4, <1>5, <1>6, <1>7, <1>8, <1>9, <1>10, RerunsAlwaysStart
  DEF HandlerStep, ScanStep, ChildStep, Terminated

\* With no child, nothing is held in the loop: a test that is looked at is not
\* refused for anything but a dependency.
LEMMA AllFree ==
  ASSUME Invariant, ResourcesCounted, ProcessorsOwned, KeptOnlyByShort, NothingKept,
         Everywhere, live = {}, launching = {}
  PROVE  /\ running = {} /\ runningCount = 0 /\ ~serialTestRunning
         /\ lockedResources = {}
         /\ locked = [u \in Unit |-> 0]
         /\ processorsAvailable = Cpu
<1> USE DEF Invariant
<1>1. running = {}
  BY DEF Everywhere
<1>2. runningCount = 0
  <2>1. SlotsOf(running) = {}
    BY <1>1 DEF SlotsOf
  <2> QED BY <2>1, FS_EmptySet DEF Capacity, SlotsExact
<1>3. ~serialTestRunning /\ lockedResources = {}
  BY <1>1 DEF Serial, LocksExact
<1>4. ASSUME NEW u \in Unit PROVE locked[u] = 0
  <2>1. \A t \in Test : allocated[t][u] = 0
    BY <1>1 DEF KeptOnlyByShort, NothingKept
  <2>2. HeldIn(u) = {}
    BY <2>1 DEF HeldIn
  <2> QED BY <2>2, FS_EmptySet DEF ResourcesCounted
<1>5. locked = [u \in Unit |-> 0]
  BY <1>4 DEF Typed
<1>6. Owned = {}
  BY <1>1 DEF ProcessorsOwned, Owned
<1>7. processorsAvailable = Cpu
  BY <1>6 DEF ProcessorsOwned, AffinityExact, Typed
<1> QED BY <1>1, <1>2, <1>3, <1>5, <1>7

\* The test that the loop looks at joins those that it passed over only if it
\* waits for one of them.
LEMMA PassedOver ==
  ASSUME Invariant, ResourcesCounted, ProcessorsOwned, KeptOnlyByShort, NothingKept,
         Ordered, Everywhere, RoomForAll, Blocked(tests \ copy),
         NEW t \in Test, pc = "scan", live = {},
         \/ SkipSerial(t) \/ SkipForRoom(t) \/ TestLocked(t) \/ TestNotReady(t)
         \/ AffinityUnavailable(t)
  PROVE  copy' = copy \ {t} /\ Blocked((tests \ copy) \cup {t})
<1> USE DEF Invariant
<1>1. /\ running = {} /\ runningCount = 0 /\ lockedResources = {}
      /\ locked = [u \in Unit |-> 0] /\ processorsAvailable = Cpu
  BY AllFree DEF Places
<1>2. GetProcessorsUsed(t) <= ParallelLevel /\ GetProcessorsUsed(t) \in Nat
  BY UsedType, ProcessorsAssumption
<1>4. ~SerialMustWait(t) /\ RoomForTest(t)
  BY <1>1 DEF SerialMustWait, RoomForTest, TestLoadOk, RoomForAll
<1>5. ~LockConflict(t)
  BY <1>1 DEF LockConflict
<1>6. CanAllocate(t)
  BY <1>1 DEF CanAllocate, ResourceAllocationError
<1>7. ~AffinityShort(t)
  <2>1. HaveAffinity \in Nat
    BY CpuAssumption, FS_CardinalityType DEF HaveAffinity
  <2> QED BY <1>1, <1>2, <2>1, UsedType DEF AffinityShort, HaveAffinity
<1>8. TestNotReady(t)
  BY <1>4, <1>5, <1>7 DEF SkipSerial, SkipForRoom, TestLocked, AffinityUnavailable
<1>9. waitingFor[t] # {} /\ Looking(t) /\ copy' = copy \ {t}
  BY <1>6, <1>8 DEF TestNotReady, Trying, WaitsForOthers
<1>10. PICK u : u \in waitingFor[t]
  BY <1>9
<1>11. u \in tests \ copy
  <2>1. t \in tests /\ u \in Depends[t] /\ u \notin finished
    BY <1>9, <1>10 DEF Looking, Places, Everywhere
  <2>2. u \in Test
    BY <2>1, DependsAssumption
  <2>3. u \in tests
    BY <1>1, <2>1, <2>2 DEF Everywhere
  <2>4. Rank[u] < Rank[t] /\ Rank[u] \in Nat /\ Rank[t] \in Nat
    BY <2>1, <2>2, OrderAssumption DEF Ordered
  <2>5. u \notin copy
    BY <1>9, <2>4 DEF Looking
  <2> QED BY <2>3, <2>5
<1> QED BY <1>9, <1>10, <1>11 DEF Blocked

\* Where the load allows nothing, every test is passed over for the load, and
\* the loop keeps in mind that all were.
LEMMA LoadRefuses ==
  ASSUME Typed, Overloaded, NEW t \in Test,
         SkipSerial(t) \/ SkipForRoom(t) \/ Trying(t)
  PROVE  /\ ~Trying(t)
         /\ runningCount = 0 => Overloaded'
<1>1. GetProcessorsUsed(t) \in Nat /\ ~TestLoadOk(t)
  BY UsedType DEF Overloaded, TestLoadOk, Typed
<1>2. ~Trying(t)
  BY <1>1 DEF Trying, RoomForTest
<1>3. ASSUME runningCount = 0 PROVE Overloaded'
  <2>1. SkipForRoom(t)
    BY <1>2, <1>3 DEF SkipSerial, SerialMustWait
  <2>2. allTestsFailedTestLoadCheck' /\ spareLoad' = spareLoad
    BY <1>1, <2>1 DEF SkipForRoom, NoteLoad, Overloaded
  <2> QED BY <2>2 DEF Overloaded, GetProcessorsUsed, HaveAffinity
<1> QED BY <1>2, <1>3

LEMMA ForgottenNext ==
  ASSUME LoadForAll, RerunsStart, Ordered, NothingKept
  PROVE  /\ Invariant /\ ResourcesCounted /\ ProcessorsOwned
         /\ KeptOnlyByShort /\ Everywhere
         /\ NothingForgotten /\ [HandlerStep]_handlerVars
         => NothingForgotten'
<1> SUFFICES ASSUME Invariant, ResourcesCounted, ProcessorsOwned,
                    KeptOnlyByShort, Everywhere, NothingForgotten, [HandlerStep]_handlerVars
             PROVE  NothingForgotten'
  OBVIOUS
<1> USE DEF Invariant, testVars, recordVars
<1>1. ASSUME pc' = "next" PROVE NothingForgotten'
  BY <1>1 DEF NothingForgotten, Blocked, Unstopped, HasCycles
<1>2. ASSUME UNCHANGED scanVars
      PROVE  /\ Overloaded => Overloaded'
             /\ RoomForAll => RoomForAll'
  BY <1>2 DEF scanVars, Overloaded, RoomForAll, GetProcessorsUsed, HaveAffinity
<1>3. CASE RunTests
  <2>1. live' = {}
    BY <1>3 DEF RunTests, Places
  <2> QED BY <1>3, <2>1 DEF RunTests, NothingForgotten, Unstopped, HasCycles
\* The loop begins with no test passed over; without it, a test runs or there
\* is a reason to stop.
<1>4. CASE StartNextTests
  <2>1. UNCHANGED <<tests, live, waitingFor, running, launching, runningCount, serialTestRunning,
                    failed>>
    BY <1>4 DEF StartNextTests, holdVars
  <2>2. launching = {} /\ runningCount \in Int
    BY <1>4 DEF StartNextTests, Places, Typed
  <2>3. IF NothingToStart(stopTimePassed')
          THEN pc' = "wait"
          ELSE /\ pc' = "scan" /\ copy' = tests
               /\ allTestsFailedTestLoadCheck' = (TestLoad > 0)
               /\ \E load \in LoadAverage :
                    LET spare == SpareLoad(load)
                        free == ParallelLevel - runningCount
                    IN /\ spareLoad' = spare
                       /\ numToStart' = IF TestLoad > 0 /\ free > spare
                                          THEN spare ELSE free
    BY <1>4 DEF StartNextTests
  <2>4. CASE pc' = "wait"
    <3>1. SUFFICES ASSUME live = {}, ~stopTimePassed', ~StopOnFailure
                   PROVE  Blocked(tests)
      BY <2>1, <2>4 DEF NothingForgotten, Blocked, Unstopped
    <3>2. runningCount = 0 /\ ~serialTestRunning
      BY <2>2, <3>1, AllFree
    <3>3. NothingToStart(stopTimePassed') /\ ~stopTimePassed'
      BY <2>3, <2>4, <3>1
    <3>4. tests = {} \/ runningCount >= ParallelLevel
      BY <3>1, <3>2, <3>3, Zenon DEF NothingToStart
    <3>5. tests = {}
      BY <3>2, <3>4, ProcessorsAssumption
    <3> QED BY <3>5 DEF Blocked
  <2>5. CASE pc' = "scan"
    <3>1. SUFFICES ASSUME live = {}
                   PROVE  Overloaded' \/ (RoomForAll' /\ Blocked(tests \ copy)')
      BY <2>1, <2>5 DEF NothingForgotten, Blocked
    <3>2. runningCount = 0
      BY <2>2, <3>1, AllFree
    <3>3. PICK load \in LoadAverage :
            LET spare == SpareLoad(load)
            IN /\ spareLoad' = spare
               /\ numToStart' = IF TestLoad > 0 /\ ParallelLevel > spare
                                  THEN spare ELSE ParallelLevel
      BY <2>3, <2>5, <3>2, ProcessorsAssumption
    <3>4. spareLoad' \in Nat
      BY <3>3, OptionAssumption DEF SpareLoad
    <3>5. \A t \in Test : GetProcessorsUsed(t) \in Nat
                          /\ GetProcessorsUsed(t) <= ParallelLevel
      BY UsedType, ProcessorsAssumption
    <3>6. Blocked(tests \ copy)'
      BY <2>1, <2>3, <2>5 DEF Blocked
    <3>7. CASE TestLoad = 0 \/ \A t \in Test : GetProcessorsUsed(t) <= spareLoad'
      <4>1. \A t \in Test : /\ GetProcessorsUsed(t) <= numToStart'
                            /\ TestLoad > 0 => GetProcessorsUsed(t) <= spareLoad'
        BY <3>3, <3>4, <3>5, <3>7, ProcessorsAssumption, OptionAssumption
      <4> QED BY <3>6, <4>1 DEF RoomForAll, GetProcessorsUsed, HaveAffinity
    <3>8. CASE TestLoad # 0 /\ ~ \A t \in Test : GetProcessorsUsed(t) <= spareLoad'
      <4>1. \A t \in Test : GetProcessorsUsed(t) > spareLoad'
        BY <3>4, <3>5, <3>8 DEF LoadForAll
      <4>2. TestLoad > 0
        BY <3>8, OptionAssumption
      <4>3. allTestsFailedTestLoadCheck' = (TestLoad > 0)
        BY <2>3, <2>5, Zenon
      <4>4. allTestsFailedTestLoadCheck'
        BY <4>2, <4>3
      <4> QED BY <4>1, <4>2, <4>4 DEF Overloaded, GetProcessorsUsed, HaveAffinity
    <3> QED BY <3>7, <3>8
  <2> QED BY <2>3, <2>4, <2>5
<1>5. ASSUME NEW t \in Test,
             \/ SkipSerial(t) \/ SkipForRoom(t) \/ TestLocked(t) \/ TestNotReady(t)
             \/ AffinityUnavailable(t)
      PROVE  NothingForgotten'
  <2>1. /\ pc = "scan" /\ pc' = "scan"
        /\ UNCHANGED <<live, tests, waitingFor, numToStart, spareLoad>>
    BY <1>5 DEF SkipSerial, SkipForRoom, TestLocked, TestNotReady,
                AffinityUnavailable, Trying, Looking
  <2>2. SUFFICES ASSUME live = {}
                 PROVE  Overloaded' \/ (RoomForAll' /\ Blocked(tests \ copy'))
    BY <2>1 DEF NothingForgotten, Blocked
  <2>3. CASE Overloaded
    <3>1. runningCount = 0
      BY <2>1, <2>2, AllFree DEF Places
    <3> QED
      BY <1>5, <2>3, <3>1, LoadRefuses DEF TestLocked, TestNotReady, AffinityUnavailable
  <2>4. CASE RoomForAll /\ Blocked(tests \ copy)
    <3>1. copy' = copy \ {t} /\ Blocked((tests \ copy) \cup {t})
      BY <1>5, <2>1, <2>2, <2>4, PassedOver
    <3>2. t \in tests
      BY <1>5 DEF SkipSerial, SkipForRoom, TestLocked, TestNotReady,
                  AffinityUnavailable, Trying, Looking, Places
    <3>3. tests \ copy' = (tests \ copy) \cup {t}
      BY <3>1, <3>2
    <3>4. RoomForAll'
      BY <2>1, <2>4 DEF RoomForAll, GetProcessorsUsed, HaveAffinity
    <3> QED BY <3>1, <3>3, <3>4
  <2> QED BY <2>1, <2>2, <2>3, <2>4 DEF NothingForgotten
<1>6. ASSUME NEW t \in Test, StartTestProcess(t) PROVE NothingForgotten'
  <2>1. /\ pc = "scan" /\ pc' = "launch"
        /\ tests' = tests \ {t} /\ copy' = copy \ {t}
        /\ UNCHANGED <<live, waitingFor, numToStart, spareLoad>>
        /\ t \in copy /\ Trying(t)
    BY <1>6 DEF StartTestProcess, EraseTest, Trying, Looking
  <2>2. tests' \ copy' = tests \ copy
    BY <2>1
  <2>3. ~Overloaded
    BY <2>1, LoadRefuses
  <2>4. RoomForAll => RoomForAll'
    BY <2>1 DEF RoomForAll, GetProcessorsUsed, HaveAffinity
  <2>5. Blocked(tests \ copy) => Blocked(tests \ copy)'
    BY <2>1, <2>2 DEF Blocked
  <2> QED BY <2>1, <2>3, <2>4, <2>5 DEF NothingForgotten
<1>7. ASSUME NEW t \in Test, TestStarts(t) PROVE NothingForgotten'
  <2>1. pc' = "scan" /\ live' # {}
    BY <1>7 DEF TestStarts
  <2> QED BY <2>1 DEF NothingForgotten, Blocked, Unstopped, HasCycles
\* A test that ends in the loop is in nobody's way there: whoever waits for it
\* comes behind it, or waits for one that was passed over.
<1>8. ASSUME NEW t \in Test, NEW status, TestFailsToStart(t, status)
      PROVE  NothingForgotten'
  <2>1. /\ pc = "launch" /\ pc' = "scan"
        /\ UNCHANGED <<live, tests, copy, scanVars>>
        /\ t \notin tests
    BY <1>8 DEF TestFailsToStart, scanVars, Places
  <2>2. \A u \in tests : waitingFor'[u] = waitingFor[u] \ {t}
    BY <1>8 DEF TestFailsToStart, ReleaseTest, Typed
  <2>3. Blocked(tests \ copy) => Blocked(tests \ copy)'
    BY <2>1, <2>2 DEF Blocked
  <2> QED BY <1>2, <2>1, <2>3 DEF NothingForgotten
<1>9. CASE EndOfLoop
  <2>1. /\ pc = "scan" /\ pc' = "wait" /\ launching = {}
        /\ UNCHANGED <<live, tests, waitingFor, stopTimePassed>>
        /\ copy = {} \/ serialTestRunning
        /\ retryTimer' = allTestsFailedTestLoadCheck
    BY <1>9 DEF EndOfLoop, StartRetryTimer, Places
  <2>2. SUFFICES ASSUME live = {}, ~Overloaded PROVE Blocked(tests)
    BY <2>1 DEF NothingForgotten, Blocked, Overloaded
  <2>3. copy = {}
    BY <2>1, <2>2, AllFree
  <2>4. tests \ copy = tests
    BY <2>3
  <2> QED BY <2>1, <2>2, <2>4 DEF NothingForgotten
<1>10. ASSUME NEW t \in Test, NEW status, NEW forStopTime,
              TestFinishes(t, status, forStopTime)
       PROVE  NothingForgotten'
  BY <1>1, <1>10 DEF TestFinishes
<1>11. ASSUME NEW t \in Test, NEW status, TestRunsAgain(t, status)
       PROVE  NothingForgotten'
  <2>1. pc' = "wait" /\ live' # {}
    BY <1>11 DEF TestRunsAgain, ChildEnds
  <2> QED BY <2>1 DEF NothingForgotten, Blocked, Unstopped, HasCycles
<1>12. CASE OnTestLoadRetryCB
  BY <1>1, <1>12 DEF OnTestLoadRetryCB
<1>13. CASE LoopEnds
  <2>1. /\ pc = "wait" /\ pc' = "done" /\ live = {} /\ ~retryTimer
        /\ UNCHANGED <<live, tests, waitingFor, stopTimePassed>>
    BY <1>13 DEF LoopEnds
  <2> QED BY <2>1 DEF NothingForgotten, Blocked, Unstopped, HasCycles
<1>14. CASE UNCHANGED handlerVars
  BY <1>2, <1>14 DEF handlerVars, scanVars, NothingForgotten, Blocked, Unstopped, HasCycles
<1> QED
  BY <1>3, <1>4, <1>5, <1>6, <1>7, <1>8, <1>9, <1>10, <1>11, <1>12, <1>13, <1>14,
     RerunsAlwaysStart
  DEF HandlerStep, ScanStep, ChildStep, Terminated

\* Tests that wait for each other in a circle are a cycle of dependencies.
LEMMA BlockedIsCycle ==
  ASSUME Typed, Everywhere, Blocked(tests), tests # {}
  PROVE  HasCycles
<1>1. tests \in (SUBSET Test) \ {{}}
  BY DEF Typed
<1>2. \A t \in tests : Depends[t] \cap tests # {}
  BY DEF Blocked, Everywhere, Typed
<1> QED BY <1>1, <1>2 DEF HasCycles

\* All that says, together, that no test is forgotten.
NothingLeft ==
  /\ Invariant /\ ResourcesCounted /\ ProcessorsOwned
  /\ Fresh /\ KeptOnlyByShort /\ Everywhere /\ NothingForgotten

LEMMA LeftInit == Init => NothingLeft
<1>1. Init => KeptOnlyByShort
  BY DEF Init, KeptOnlyByShort
<1>2. Init => NothingForgotten
  BY DEF Init, NothingForgotten, Blocked, Unstopped, HasCycles
<1> QED
  BY <1>1, <1>2, TypeInit, PlacesInit, CapacityInit, SerialInit, LocksInit, WaitingInit,
     RunsInit, SetupsInit, CountedInit, OwnedInit, FreshInit, EverywhereInit
  DEF NothingLeft, Invariant

LEMMA LeftNext ==
  ASSUME LoadForAll, RerunsStart, Ordered, NothingKept
  PROVE  NothingLeft /\ NoneStranded /\ [HandlerStep]_handlerVars => NothingLeft'
BY TypeNext, PlacesNext, CapacityNext, SerialNext, LocksNext, WaitingNext, RunsNext,
   SetupsNext, CountedNext, OwnedNext, FreshNext, KeptNext, EverywhereNext, ForgottenNext
DEF NothingLeft, Invariant

LEMMA LeftCompleted == NothingLeft => AllTestsCompleted
<1> SUFFICES ASSUME NothingLeft, pc = "done", ~HasCycles, ~stopTimePassed, ~StopOnFailure
             PROVE  completed = Cardinality(Test) /\ tests = {}
  BY DEF AllTestsCompleted
<1> USE DEF NothingLeft, Invariant
<1>1. live = {} /\ launching = {}
  BY DEF NothingForgotten, Places
<1>2. tests = {}
  BY <1>1, BlockedIsCycle DEF NothingForgotten, Unstopped
<1>3. finished = Test
  BY <1>1, <1>2 DEF Everywhere
<1> QED BY <1>2, <1>3 DEF Everywhere

\* Without --stop-on-failure or a stop time that passes, the
\* program does not end before every test of the suite has been run or found
\* impossible to run; whatever tests fail to launch in the middle of the loop,
\* run alone, compete for slots, locks, processors and resources, or are kept
\* waiting by --test-load.  The conditions are the ones under which the code
\* keeps this promise: see LoadForAll, RerunsStart, Ordered and NothingKept.
THEOREM CompletionTheorem ==
  ASSUME LoadForAll, RerunsStart, Ordered, NothingKept
  PROVE  Spec => []AllTestsCompleted
<1>1. Unresumed => NoneStranded
  BY DEF Unresumed, NoneStranded, Resumed
<1> QED BY <1>1, LeftInit, LeftNext, LeftCompleted, UnresumedHolds, HandlerSteps, PTL
-----------------------------------------------------------------------------
(***************************************************************************)
(* 4. TestResume, for every suite and any number of kills: what            *)
(* TestScheduler promises of slots, locks, dependencies, resources and     *)
(* processors holds in each invocation, also in one that resumes from the  *)
(* checkpoint, and the checkpoint lists the tests that are over.           *)
(***************************************************************************)

-----------------------------------------------------------------------------
(* A killed ctest starts again.                                             *)

\* The program starts with all of its books empty, whatever the file says.
LEMMA CrashStarts ==
  ASSUME Typed, Crash
  PROVE  Invariant' /\ Clock' /\ ResourcesCounted' /\ ProcessorsOwned'
<1>1. Typed'
  <2>1. runsLeft' \in [Test -> Int]
    BY RunsType DEF Crash
  <2>2. waitingFor' \in [Test -> SUBSET Test]
    BY DependsAssumption DEF Crash
  <2>3. /\ locked' \in [Unit -> Int] /\ allocated' \in [Test -> [Unit -> Nat]]
        /\ affinity' \in [Test -> SUBSET Cpu] /\ results' \in [Test -> Nat]
        /\ attempts' \in [Test -> Nat]
    BY DEF Crash
  <2>4. /\ serialTestRunning' \in BOOLEAN /\ stopTimePassed' \in BOOLEAN
        /\ retryTimer' \in BOOLEAN /\ allTestsFailedTestLoadCheck' \in BOOLEAN
    BY DEF Crash
  <2> QED BY <2>1, <2>2, <2>3, <2>4 DEF Crash, Typed
<1>2. Places'
  BY DEF Crash, Places
<1>3. Capacity'
  <2>1. SlotsOf({}) = {}
    BY DEF SlotsOf
  <2>2. running' = {} /\ runningCount' = 0 /\ pc' = "run"
    BY DEF Crash
  <2>3. SlotsOf(running') = {}
    BY <2>1, <2>2
  <2>4. Cardinality(SlotsOf(running')) = 0
    BY <2>3, FS_EmptySet
  <2>5. numToStart' = 0
    BY DEF Crash
  <2> QED BY <2>2, <2>4, <2>5, ProcessorsAssumption
          DEF Capacity, SlotsExact, SlotsOf, GetProcessorsUsed, HaveAffinity
<1>4. Serial' /\ LocksExact'
  BY DEF Crash, Serial, SerialAlone, LocksExact
<1>5. Waiting' /\ SetupsSucceeded'
  BY DEF Crash, Waiting, DependenciesFirst, SetupsSucceeded
<1>6. RunsCounted'
  BY RunsType DEF Crash, RunsCounted, Runs
<1>7. ResourcesCounted'
  <2> SUFFICES ASSUME NEW u \in Unit
               PROVE  /\ IsFiniteSet(HeldIn(u)')
                      /\ locked'[u] = Cardinality(HeldIn(u)')
                      /\ locked'[u] <= Total[u]
    BY DEF ResourcesCounted
  <2>1. HeldIn(u)' = {}
    BY DEF Crash, HeldIn
  <2> QED BY <2>1, FS_EmptySet, ResourceAssumption DEF Crash
<1>8. ProcessorsOwned'
  BY DEF Crash, ProcessorsOwned, AffinityExact, Owned
<1>9. Clock'
  BY DEF Crash, Clock
<1> QED BY <1>1, <1>2, <1>3, <1>4, <1>5, <1>6, <1>7, <1>8, <1>9 DEF Invariant

ResumeInvariant == Invariant /\ Clock /\ ResourcesCounted /\ ProcessorsOwned

\* A step is a kill, or one that the program or the clock makes.
LEMMA ResumeSteps ==
  ASSUME [ResumeNext]_resumeVars
  PROVE  Crash \/ ([Next]_vars /\ [HandlerStep]_handlerVars)
BY DEF ResumeNext, resumeVars, Next, StopTimeComes, vars

LEMMA ResumeInvariantHolds == ResumeSpec => []ResumeInvariant
<1>1. ResumeInit => ResumeInvariant
  BY TypeInit, PlacesInit, CapacityInit, SerialInit, LocksInit, WaitingInit,
     RunsInit, SetupsInit, ClockInit, CountedInit, OwnedInit
  DEF ResumeInit, ResumeInvariant, Invariant
<1>2. ResumeInvariant /\ [ResumeNext]_resumeVars => ResumeInvariant'
  <2> SUFFICES ASSUME ResumeInvariant, [ResumeNext]_resumeVars PROVE ResumeInvariant'
    OBVIOUS
  <2>1. CASE Crash
    BY <2>1, CrashStarts DEF ResumeInvariant, Invariant
  <2>2. CASE [Next]_vars /\ [HandlerStep]_handlerVars
    BY <2>2, TypeNext, PlacesNext, CapacityNext, SerialNext, LocksNext, WaitingNext,
       RunsNext, SetupsNext, ClockNext, CountedNext, OwnedNext
    DEF ResumeInvariant, Invariant
  <2> QED BY <2>1, <2>2, ResumeSteps
<1> QED BY <1>1, <1>2, PTL DEF ResumeSpec

\* Kills and restarts leave no field of the handler without a value of its type,
\* and no unsigned count is taken below zero by an invocation that resumes.
THEOREM ResumeType == ResumeSpec => []TypeOK
<1>1. ResumeInvariant => TypeOK
  BY CountsUnsigned DEF ResumeInvariant
<1> QED BY <1>1, ResumeInvariantHolds, PTL

\* An invocation that resumes keeps every promise of the scheduler, although
\* some of the tests were never started by it: tests declared to be over by the
\* checkpoint count as dependencies that are over and hold nothing.
THEOREM ResumeSafety ==
  ResumeSpec => [](/\ SlotsExact /\ SerialAlone /\ LocksExact
                   /\ DependenciesFirst /\ SetupsSucceeded /\ RunsBounded
                   /\ ResourcesExact /\ AffinityExact)
<1>1. ResumeInvariant => /\ SlotsExact /\ SerialAlone /\ LocksExact
                         /\ DependenciesFirst /\ SetupsSucceeded /\ RunsBounded
                         /\ ResourcesExact /\ AffinityExact
  BY DEF ResumeInvariant, Invariant, Capacity, Serial, Waiting, RunsCounted,
         RunsBounded, ResourcesCounted, ResourcesExact, ProcessorsOwned
<1> QED BY <1>1, ResumeInvariantHolds, PTL

-----------------------------------------------------------------------------
(* What a resumed suite completes.                                          *)

LEMMA CrashForgetsNothing ==
  ASSUME Typed, Crash
  PROVE  NothingLeft'
<1>1. Fresh' /\ KeptOnlyByShort'
  BY DEF Crash, Fresh, KeptOnlyByShort
<1>2. Everywhere'
  BY FS_EmptySet DEF Crash, Everywhere
<1>3. NothingForgotten'
  BY DEF Crash, NothingForgotten
<1> QED BY <1>1, <1>2, <1>3, CrashStarts DEF NothingLeft

\* A suite that was killed, and killed again while it was resumed, is completed
\* in the end like one that never was, except for the tests that depend on one
\* the checkpoint lists: where no invocation begins with such a test, as in
\* each that is given no -F, the program does not end before every test has
\* been run, found impossible to run, or dropped as finished before.
THEOREM ResumeCompletion ==
  ASSUME LoadForAll, RerunsStart, Ordered, NothingKept
  PROVE  ResumeSpec => ([]NoneStranded => []AllTestsCompleted)
<1>1. ResumeInit => NothingLeft
  BY LeftInit DEF ResumeInit
<1>2. NothingLeft /\ NoneStranded /\ [ResumeNext]_resumeVars => NothingLeft'
  BY LeftNext, CrashForgetsNothing, ResumeSteps DEF NothingLeft, Invariant
<1> QED BY <1>1, <1>2, LeftCompleted, PTL DEF ResumeSpec

\* Whatever a test took in an invocation is given back in it when the test
\* ends, however the earlier ones were cut off.
THEOREM ResumeHeld ==
  ASSUME NothingKept
  PROVE  ResumeSpec => []HeldOnlyByRunning
<1>1. ResumeInit => Fresh /\ KeptOnlyByShort
  BY FreshInit DEF ResumeInit, Init, KeptOnlyByShort
<1>2. Crash => (Fresh /\ KeptOnlyByShort)'
  BY DEF Crash, Fresh, KeptOnlyByShort
<1>3. ResumeInvariant /\ Fresh /\ KeptOnlyByShort /\ [ResumeNext]_resumeVars
        => (Fresh /\ KeptOnlyByShort)'
  BY <1>2, FreshNext, KeptNext, ResumeSteps DEF ResumeInvariant, Invariant
<1>4. KeptOnlyByShort => HeldOnlyByRunning
  BY DEF KeptOnlyByShort, HeldOnlyByRunning, NothingKept
<1> QED BY <1>1, <1>3, <1>4, ResumeInvariantHolds, PTL DEF ResumeSpec

-----------------------------------------------------------------------------
(* The checkpoint.                                                          *)

\* The file and the finished map change together between RunTests and its end;
\* before and after that no child runs.
Listed ==
  /\ pc \notin {"run", "done"} => completed = Cardinality(finished) /\ checkpoint = finished
  /\ pc = "run" => completed = 0 /\ finished = {}
  /\ pc \in {"run", "done"} => live = {}

LEMMA ListedRelease ==
  ASSUME Typed, Places, Listed, pc \notin {"run", "done"},
         NEW t \in running, NEW status, ReleaseTest(t, status)
  PROVE  completed' = Cardinality(finished') /\ checkpoint' = finished'
<1>1. /\ finished' = finished \cup {t} /\ checkpoint' = checkpoint \cup {t}
      /\ completed' = completed + 1 /\ t \notin finished
  BY DEF ReleaseTest, Places
<1>2. IsFiniteSet(finished)
  BY TestAssumption, FS_Subset DEF Typed
<1> QED BY <1>1, <1>2, FS_AddElement DEF Listed

LEMMA ListedNext == Typed /\ Places /\ Listed /\ [HandlerStep]_handlerVars => Listed'
<1> SUFFICES ASSUME Typed, Places, Listed, [HandlerStep]_handlerVars PROVE Listed'
  OBVIOUS
<1> USE DEF testVars, recordVars
<1>1. ASSUME UNCHANGED <<finished, completed, checkpoint>>,
             pc \notin {"run", "done"}, pc' \notin {"run", "done"}
      PROVE  Listed'
  BY <1>1 DEF Listed
<1>2. CASE RunTests
  <2>1. /\ finished' = Resumed /\ completed' = Cardinality(Resumed)
        /\ checkpoint' = Resumed /\ live' = {}
    <3>1. Cardinality(Resumed) \in Nat
      BY TestAssumption, FS_Subset, FS_EmptySet, FS_CardinalityType DEF Resumed, Typed
    <3> QED BY <1>2, <3>1 DEF RunTests, CheckResume, Listed
  <2> QED BY <1>2, <2>1 DEF RunTests, Listed
<1>3. CASE StartNextTests \/ OnTestLoadRetryCB \/ EndOfLoop
  BY <1>1, <1>3 DEF StartNextTests, OnTestLoadRetryCB, EndOfLoop
<1>4. ASSUME NEW t \in Test,
             \/ SkipSerial(t) \/ SkipForRoom(t) \/ TestLocked(t) \/ TestNotReady(t)
             \/ AffinityUnavailable(t) \/ StartTestProcess(t) \/ TestStarts(t)
      PROVE  Listed'
  BY <1>1, <1>4 DEF SkipSerial, SkipForRoom, TestLocked, TestNotReady,
                    AffinityUnavailable, StartTestProcess, Trying, Looking, TestStarts
<1>5. ASSUME NEW t \in Test, NEW status, TestFailsToStart(t, status) PROVE Listed'
  <2>1. t \in running /\ ReleaseTest(t, status) /\ pc = "launch" /\ pc' = "scan"
    BY <1>5 DEF TestFailsToStart, Places
  <2> QED BY <2>1, ListedRelease DEF Listed
<1>6. ASSUME NEW t \in Test, NEW status, NEW forStopTime,
             TestFinishes(t, status, forStopTime)
      PROVE  Listed'
  <2>1. t \in running /\ ReleaseTest(t, status) /\ pc = "wait" /\ pc' = "next"
    BY <1>6 DEF TestFinishes, ChildEnds, Places
  <2> QED BY <2>1, ListedRelease DEF Listed
<1>7. ASSUME NEW t \in Test, NEW status,
             TestRunsAgain(t, status) \/ RerunFailsToStart(t, status)
      PROVE  Listed'
  BY <1>1, <1>7 DEF TestRunsAgain, RerunFailsToStart, ChildEnds
<1>8. CASE LoopEnds
  BY <1>8 DEF LoopEnds, Listed
<1>9. CASE UNCHANGED handlerVars
  BY <1>9 DEF handlerVars, Listed
<1> QED
  BY <1>2, <1>3, <1>4, <1>5, <1>6, <1>7, <1>8, <1>9
  DEF HandlerStep, ScanStep, ChildStep, Terminated

LEMMA ListedHolds == ResumeSpec => []Listed
<1>1. ResumeInit => Listed
  BY DEF ResumeInit, Init, Listed
<1>2. ResumeInvariant /\ Listed /\ [ResumeNext]_resumeVars => Listed'
  <2> SUFFICES ASSUME Typed, Places, Listed, [ResumeNext]_resumeVars PROVE Listed'
    BY DEF ResumeInvariant, Invariant
  <2>1. CASE Crash
    BY <2>1 DEF Crash, Listed
  <2>2. CASE [HandlerStep]_handlerVars
    BY <2>2, ListedNext
  <2> QED BY <2>1, <2>2, ResumeSteps
<1> QED BY <1>1, <1>2, ResumeInvariantHolds, PTL DEF ResumeSpec

\* Whenever ctest may be killed, the file lists exactly the tests that are over,
\* and none that has a child; a run resumed from it counts each of them once.
THEOREM CheckpointTheorem == ResumeSpec => []CheckpointExact
<1>1. ResumeInvariant /\ Listed => CheckpointExact
  BY DEF ResumeInvariant, Invariant, Places, Listed, CheckpointExact
<1> QED BY <1>1, ResumeInvariantHolds, ListedHolds, PTL

\* A step starts no test that is over.
NoneStarted ==
  Failover /\ pc \notin {"run", "done"} =>
    \A t \in checkpoint : t \notin live' /\ t \notin launching'

\* No test of the checkpoint is launched again, in this invocation or, as long
\* as each is given -F, in one of those that resume it.
THEOREM NotRepeatedTheorem == ResumeSpec => FinishedNotRepeated
<1>1. ASSUME ResumeInvariant, Listed, [ResumeNext]_resumeVars PROVE NoneStarted
  <2> SUFFICES ASSUME pc \notin {"run", "done"}, NEW t \in finished
               PROVE  t \notin live' /\ t \notin launching'
    BY <1>1 DEF NoneStarted, Listed
  <2> USE DEF testVars
  <2>0. /\ Typed /\ Places
        /\ t \notin live /\ t \notin launching /\ t \notin running /\ t \notin tests
    BY <1>1 DEF ResumeInvariant, Invariant, Places
  <2>1. ASSUME live' \subseteq live \cup launching, launching' \subseteq launching
        PROVE  t \notin live' /\ t \notin launching'
    BY <2>0, <2>1
  <2>2. CASE Crash
    BY <2>2 DEF Crash
  <2>3. CASE StartNextTests \/ OnTestLoadRetryCB \/ EndOfLoop \/ LoopEnds
    BY <2>1, <2>3 DEF StartNextTests, OnTestLoadRetryCB, EndOfLoop, LoopEnds
  <2>4. ASSUME NEW s \in Test,
               \/ SkipSerial(s) \/ SkipForRoom(s) \/ TestLocked(s) \/ TestNotReady(s)
               \/ AffinityUnavailable(s) \/ TestStarts(s)
        PROVE  t \notin live' /\ t \notin launching'
    BY <2>1, <2>4 DEF SkipSerial, SkipForRoom, TestLocked, TestNotReady,
                      AffinityUnavailable, Trying, TestStarts
  <2>5. ASSUME NEW s \in Test, StartTestProcess(s)
        PROVE  t \notin live' /\ t \notin launching'
    <3>1. s \in tests /\ live' = live /\ launching' = {s}
      BY <2>0, <2>5 DEF StartTestProcess, Trying, Looking, Places
    <3> QED BY <2>0, <3>1
  <2>6. ASSUME NEW s \in Test, NEW status, NEW forStopTime,
               \/ TestFailsToStart(s, status) \/ TestFinishes(s, status, forStopTime)
               \/ TestRunsAgain(s, status) \/ RerunFailsToStart(s, status)
        PROVE  t \notin live' /\ t \notin launching'
    BY <2>1, <2>6 DEF TestFailsToStart, TestFinishes, TestRunsAgain, RerunFailsToStart
  <2>7. CASE RunTests
    BY <2>7 DEF RunTests
  <2>8. CASE UNCHANGED handlerVars
    BY <2>1, <2>8 DEF handlerVars
  <2> QED
    BY <1>1, <2>2, <2>3, <2>4, <2>5, <2>6, <2>7, <2>8, ResumeSteps
    DEF HandlerStep, ScanStep, ChildStep, Terminated
<1>2. ResumeInvariant /\ Listed /\ [ResumeNext]_resumeVars => [NoneStarted]_resumeVars
  BY <1>1
<1> QED BY <1>2, ResumeInvariantHolds, ListedHolds, PTL
        DEF ResumeSpec, FinishedNotRepeated, NoneStarted
=============================================================================
