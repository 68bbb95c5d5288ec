---------------------------- MODULE TestScheduler ----------------------------
(***************************************************************************)
(* The parallel test scheduler of CTest, cmCTestMultiProcessHandler: which *)
(* tests of a suite may run next, what a running test holds (processor     *)
(* slots, the RUN_SERIAL token, RESOURCE_LOCKs, units of hardware          *)
(* resources, processors of its own), and how it gives them back.          *)
(*                                                                         *)
(* The program has one thread.  It starts tests in StartNextTests, then    *)
(* waits in uv_run for a child to finish or for the load-retry timer, and  *)
(* each callback runs to completion before the next one.  pc is the place  *)
(* of that thread: "run" (entering RunTests), "next" (entering             *)
(* StartNextTests), "scan" (its loop over the sorted tests), "launch"      *)
(* (inside StartTestProcess), "wait" (uv_run) and "done".                  *)
(*                                                                         *)
(* SortedTests is represented by the set `tests` and the constant order    *)
(* Rank: the code only ever removes from SortedTests, and always together  *)
(* with the removal from Tests.                                            *)
(*                                                                         *)
(* An operator named X_Something is a mutant of X, with a mistake a        *)
(* programmer could make.  No action uses it; PROJECT.json names the       *)
(* property that fails when it takes the place of X.                       *)
(***************************************************************************)
EXTENDS Integers, FiniteSets, Sequences

CONSTANTS
  Test,             \* the tests of the suite
  Depends,          \* [Test -> SUBSET Test]: tests that must end before
  RequireSuccess,   \* [Test -> SUBSET Test]: fixture setups among Depends
  Rank,             \* [Test -> Nat]: position in the initial SortedTests
  Processors,       \* [Test -> Nat]: the PROCESSORS property
  RunSerial,        \* tests with RUN_SERIAL
  Lock,             \* names of RESOURCE_LOCKs
  Locks,            \* [Test -> SUBSET Lock]: RESOURCE_LOCK
  WantAffinity,     \* tests with PROCESSOR_AFFINITY
  Disabled,         \* tests with DISABLED
  Unreliable,       \* tests whose directory, files or program may be missing
  Unit,             \* units of hardware resources in the resource spec file
  UnitType,         \* [Unit -> types]
  Total,            \* [Unit -> Nat]: slots of a unit
  Requires,         \* [Test -> Seq([type, slots])]: RESOURCE_GROUPS
  MaxSlots,         \* the most slots any of these requirements asks for
  Cpu,              \* processors available to ctest, {} without affinity
  ParallelLevel,    \* -j
  TestLoad,         \* --test-load, 0 when not given
  LoadAverage,      \* values the system load may take
  RepeatMode,       \* --repeat
  RepeatCount,
  HasStopTime,      \* --stop-time given
  StopOnFailure,    \* --stop-on-failure
  Failover          \* -F

ASSUME TestAssumption == IsFiniteSet(Test)
ASSUME OrderAssumption ==
  /\ Rank \in [Test -> Nat]
  /\ \A t, u \in Test : Rank[t] = Rank[u] => t = u
ASSUME DependsAssumption ==
  /\ Depends \in [Test -> SUBSET Test]
  /\ RequireSuccess \in [Test -> SUBSET Test]
  /\ \A t \in Test : RequireSuccess[t] \subseteq Depends[t]
\* A PROCESSORS value below 1 is read as 1, and -j 0 as -j 1.
ASSUME ProcessorsAssumption ==
  /\ Processors \in [Test -> Nat \ {0}]
  /\ ParallelLevel \in Nat \ {0}
ASSUME PropertiesAssumption ==
  /\ RunSerial \subseteq Test
  /\ WantAffinity \subseteq Test
  /\ Disabled \subseteq Test
  /\ Unreliable \subseteq Test
  /\ Locks \in [Test -> SUBSET Lock]
ASSUME ResourceAssumption ==
  /\ IsFiniteSet(Unit)
  /\ Total \in [Unit -> Nat]
  /\ MaxSlots \in Nat
  /\ \A t \in Test :
       /\ IsFiniteSet(DOMAIN Requires[t])
       /\ \A i \in DOMAIN Requires[t] : Requires[t][i].slots \in 0 .. MaxSlots
ASSUME CpuAssumption == IsFiniteSet(Cpu) /\ Cpu \subseteq Nat
ASSUME OptionAssumption ==
  /\ TestLoad \in Nat
  /\ LoadAverage \subseteq Nat /\ LoadAverage # {}
  /\ RepeatMode \in {"Never", "UntilFail", "UntilPass", "AfterTimeout"}
  /\ RepeatCount \in Nat \ {0}
  /\ HasStopTime \in BOOLEAN
  /\ StopOnFailure \in BOOLEAN
  /\ Failover \in BOOLEAN

VARIABLES
  pc,                  \* where the scheduler's thread is
  launching,           \* the test StartTestProcess has begun, at "launch"
  tests,               \* domain of Tests: tests not yet started
  waitingFor,          \* Tests: what a test still waits for
  running,             \* TestRunningMap
  finished,            \* TestFinishMap
  live,                \* tests that have a child process
  completed,           \* Completed
  runningCount,        \* RunningCount
  serialTestRunning,   \* SerialTestRunning
  lockedResources,     \* LockedResources
  locked,              \* ResourceAllocator: slots locked in a unit
  allocated,           \* AllocatedResources: slots a test holds in a unit
  processorsAvailable, \* ProcessorsAvailable
  affinity,            \* Properties[t]->Affinity
  passed, failed,      \* Passed, Failed
  results,             \* number of TestResults entries of a test
  runsLeft,            \* NumberOfRunsLeft of a test's runner
  attempts,            \* number of processes started for a test (history)
  stopTimePassed,      \* StopTimePassed
  stopTimeReached,     \* has the clock come to the time of --stop-time?
  underWay,            \* tests that the program was busy with then (history)
  retryTimer,          \* is TestLoadRetryTimer active?
  checkpoint,          \* tests listed in CTestCheckpoint.txt
  copy,                \* loop of StartNextTests: tests still to be looked at
  numToStart, spareLoad, allTestsFailedTestLoadCheck  \* its local variables

scanVars == <<copy, numToStart, spareLoad, allTestsFailedTestLoadCheck>>
recordVars == <<passed, failed, results, runsLeft, completed, checkpoint>>
holdVars == <<runningCount, serialTestRunning, lockedResources, locked,
              allocated, processorsAvailable, affinity>>
testVars == <<tests, waitingFor, running, finished, live, attempts>>
handlerVars == <<pc, launching, stopTimePassed, retryTimer,
                 testVars, holdVars, recordVars, scanVars>>
clockVars == <<stopTimeReached, underWay>>
vars == <<handlerVars, clockVars>>

----------------------------------------------------------------------------
\* CheckCycles: a set of tests each of which depends on one of the set.
HasCycles ==
  \E S \in (SUBSET Test) \ {{}} : \A t \in S : Depends[t] \cap S # {}

HaveAffinity == Cardinality(Cpu)

\* The slots a test takes: never more than -j, and for a test that wants
\* processors of its own never more than there are.
GetProcessorsUsed(t) ==
  LET p == IF Processors[t] > ParallelLevel THEN ParallelLevel ELSE Processors[t]
  IN IF HaveAffinity > 0 /\ p > HaveAffinity /\ t \in WantAffinity
       THEN HaveAffinity ELSE p

\* One pair for each slot that the tests of S take.
SlotsOf(S) == {p \in S \X (1 .. ParallelLevel) : p[2] <= GetProcessorsUsed(p[1])}

\* The bin packing of a test's requirements, abstracted to what it promises:
\* every requirement is given a unit of its type.
Placements(t) ==
  {a \in [DOMAIN Requires[t] -> Unit] :
     \A i \in DOMAIN a : UnitType[a[i]] = Requires[t][i].type}

\* The slots that placement a of test t takes in unit u.
Demand(t, a, u) ==
  Cardinality({p \in (DOMAIN Requires[t]) \X (1 .. MaxSlots) :
                 a[p[1]] = u /\ p[2] <= Requires[t][p[1]].slots})

Fits_IgnoringUse(t, a, inUse) == \A u \in Unit : Demand(t, a, u) <= Total[u]

Fits(t, a, inUse) == \A u \in Unit : Demand(t, a, u) <= Total[u] - inUse[u]

\* CheckResourcesAvailable, made before any test runs: the test asks for what
\* the machine does not have.
ResourceAllocationError(t) ==
  ~ \E a \in Placements(t) : Fits(t, a, [u \in Unit |-> 0])

Statuses == {"COMPLETED", "FAILED", "TIMEOUT", "SKIPPED", "NOT_RUN", "BAD_COMMAND"}

MayRepeat(status) ==
  /\ status \notin {"NOT_RUN", "SKIPPED"}
  /\ \/ RepeatMode = "UntilFail" /\ status = "COMPLETED"
     \/ RepeatMode = "UntilPass" /\ status # "COMPLETED"
     \/ RepeatMode = "AfterTimeout" /\ status = "TIMEOUT"

\* runsLeft counts the run that just ended.
NeedsToRepeat(t, status) == runsLeft[t] - 1 # 0 /\ MayRepeat(status)

Runs == IF RepeatMode = "Never" THEN 1 ELSE RepeatCount

----------------------------------------------------------------------------
\* What a new cmCTestMultiProcessHandler holds once SetTests has been called.
Init ==
  /\ pc = "run"
  /\ launching = {}
  /\ tests = Test
  /\ waitingFor = Depends
  /\ running = {} /\ finished = {} /\ live = {}
  /\ completed = 0 /\ runningCount = 0
  /\ serialTestRunning = FALSE
  /\ lockedResources = {}
  /\ locked = [u \in Unit |-> 0]
  /\ allocated = [t \in Test |-> [u \in Unit |-> 0]]
  /\ processorsAvailable = Cpu
  /\ affinity = [t \in Test |-> {}]
  /\ passed = {} /\ failed = {}
  /\ results = [t \in Test |-> 0]
  /\ runsLeft = [t \in Test |-> Runs]
  /\ attempts = [t \in Test |-> 0]
  /\ stopTimePassed = FALSE
  /\ stopTimeReached = FALSE /\ underWay = {}
  /\ retryTimer = FALSE
  /\ copy = {} /\ numToStart = 0 /\ spareLoad = 0
  /\ allTestsFailedTestLoadCheck = FALSE
  /\ checkpoint = {}

\* CheckResume: under -F the tests of the checkpoint file are dropped as
\* finished, otherwise the file is deleted.
Resumed == IF Failover THEN checkpoint ELSE {}

CheckResume_FileDeleted ==
  /\ tests' = tests \ Resumed
  /\ finished' = finished \cup Resumed
  /\ completed' = completed + Cardinality(Resumed)
  /\ checkpoint' = {}

CheckResume_NotRemoved ==
  /\ tests' = tests
  /\ finished' = finished \cup Resumed
  /\ completed' = completed + Cardinality(Resumed)
  /\ checkpoint' = Resumed

CheckResume ==
  /\ tests' = tests \ Resumed
  /\ finished' = finished \cup Resumed
  /\ completed' = completed + Cardinality(Resumed)
  /\ checkpoint' = Resumed

\* RunTests up to the event loop.  With a cycle among the dependencies nothing
\* is run.
RunTests ==
  /\ pc = "run"
  /\ CheckResume
  /\ pc' = IF HasCycles THEN "done" ELSE "next"
  /\ UNCHANGED <<launching, stopTimePassed, retryTimer, waitingFor, running,
                 live, attempts, holdVars, passed, failed, results, runsLeft,
                 scanVars>>

----------------------------------------------------------------------------
\* StartNextTests, up to the loop.

CheckStopTimePassed == stopTimePassed \/ stopTimeReached

\* The early returns.
NothingToStart(stopped) ==
  \/ tests = {}
  \/ stopped
  \/ StopOnFailure /\ failed # {}
  \/ runningCount >= ParallelLevel
  \/ serialTestRunning

SpareLoad_Signed(load) == TestLoad - load

SpareLoad(load) == IF TestLoad > load THEN TestLoad - load ELSE 0

\* The clock is looked at only when there are tests left.
StartNextTests ==
  /\ pc = "next"
  /\ retryTimer' = FALSE
  /\ stopTimePassed' = IF tests = {} THEN stopTimePassed ELSE CheckStopTimePassed
  /\ IF NothingToStart(stopTimePassed')
       THEN pc' = "wait" /\ UNCHANGED scanVars
       ELSE /\ pc' = "scan"
            /\ copy' = tests
            /\ allTestsFailedTestLoadCheck' = (TestLoad > 0)
            /\ \E load \in LoadAverage :
                 LET spare == SpareLoad(load)
                     free == ParallelLevel - runningCount
                 IN /\ spareLoad' = spare
                    /\ numToStart' = IF TestLoad > 0 /\ free > spare THEN spare ELSE free
  /\ UNCHANGED <<launching, testVars, holdVars, recordVars>>

----------------------------------------------------------------------------
\* The loop over the copy of SortedTests.

\* t is the test the loop looks at.
Looking(t) ==
  /\ pc = "scan"
  /\ t \in copy
  /\ \A u \in copy : Rank[t] <= Rank[u]
  /\ ~serialTestRunning

\* A RUN_SERIAL test is passed over while anything runs.
SerialMustWait(t) == t \in RunSerial /\ runningCount > 0

TestLoadOk(t) == TestLoad > 0 => GetProcessorsUsed(t) <= spareLoad

RoomForTest_AnySlot(t) == TestLoadOk(t) /\ numToStart > 0

\* The loop calls StartTest only if the load and the free slots suffice.
RoomForTest(t) == TestLoadOk(t) /\ GetProcessorsUsed(t) <= numToStart

NoteLoad_Inverted(t) ==
  allTestsFailedTestLoadCheck' = (allTestsFailedTestLoadCheck /\ TestLoadOk(t))

NoteLoad(t) ==
  allTestsFailedTestLoadCheck' = (allTestsFailedTestLoadCheck /\ ~TestLoadOk(t))

SkipSerial(t) ==
  /\ Looking(t) /\ SerialMustWait(t)
  /\ copy' = copy \ {t}
  /\ UNCHANGED <<pc, launching, stopTimePassed, retryTimer, testVars, holdVars,
                 recordVars, numToStart, spareLoad, allTestsFailedTestLoadCheck>>

\* With no slot left the loop ends, else it goes on with the next test.
SkipForRoom(t) ==
  /\ Looking(t) /\ ~SerialMustWait(t) /\ ~RoomForTest(t)
  /\ NoteLoad(t)
  /\ copy' = IF numToStart = 0 THEN {} ELSE copy \ {t}
  /\ UNCHANGED <<pc, launching, stopTimePassed, retryTimer, testVars, holdVars,
                 recordVars, numToStart, spareLoad>>

\* StartTest(t) is called.
Trying(t) ==
  /\ Looking(t) /\ ~SerialMustWait(t) /\ RoomForTest(t)
  /\ NoteLoad(t)
  /\ copy' = copy \ {t}
  /\ UNCHANGED <<stopTimePassed, retryTimer, finished, live, attempts,
                 recordVars, numToStart, spareLoad>>

LockConflict_AllTaken(t) == Locks[t] # {} /\ Locks[t] \subseteq lockedResources

LockConflict(t) == Locks[t] \cap lockedResources # {}

WaitsForOthers_Initial(t) == Depends[t] # {}

\* StartTest's look at the tests that this one depends on.
WaitsForOthers(t) == waitingFor[t] # {}

\* AllocateResources has units for the test, or is not called because the
\* test can never have them.
CanAllocate(t) ==
  \/ ResourceAllocationError(t)
  \/ \E a \in Placements(t) : Fits(t, a, locked)

\* AllocateResources with the placement a that the bin packing found.
Allocate(t, a) ==
  /\ locked' = [u \in Unit |-> locked[u] + Demand(t, a, u)]
  /\ allocated' = [allocated EXCEPT ![t] = [u \in Unit |-> @[u] + Demand(t, a, u)]]

AllocateResources(t) ==
  IF ResourceAllocationError(t)
    THEN UNCHANGED <<locked, allocated>>
    ELSE \E a \in Placements(t) : Fits(t, a, locked) /\ Allocate(t, a)

DeallocateResources_ListKept(t) ==
  /\ locked' = [u \in Unit |-> locked[u] - allocated[t][u]]
  /\ UNCHANGED allocated

\* DeallocateResources: everything AllocatedResources lists for the test.
DeallocateResources(t) ==
  /\ locked' = [u \in Unit |-> locked[u] - allocated[t][u]]
  /\ allocated' = [allocated EXCEPT ![t] = [u \in Unit |-> 0]]

AffinityShort(t) ==
  /\ t \in WantAffinity
  /\ GetProcessorsUsed(t) > Cardinality(processorsAvailable)
  /\ HaveAffinity > 0

\* StartTest returns false: a lock is taken (nothing was allocated yet), the
\* units are not free, or the test still waits for others.
TestLocked(t) ==
  /\ Trying(t) /\ LockConflict(t)
  /\ UNCHANGED <<pc, launching, tests, waitingFor, running, holdVars>>

TestNotReady(t) ==
  /\ Trying(t) /\ ~LockConflict(t)
  /\ ~CanAllocate(t) \/ WaitsForOthers(t)
  /\ DeallocateResources(t)
  /\ UNCHANGED <<pc, launching, tests, waitingFor, running, runningCount,
                 serialTestRunning, lockedResources, processorsAvailable, affinity>>

\* StartTestProcess returns before it marks the test, and what
\* AllocateResources took stays with the test.
AffinityUnavailable(t) ==
  /\ Trying(t) /\ ~LockConflict(t)
  /\ CanAllocate(t) /\ ~WaitsForOthers(t) /\ AffinityShort(t)
  /\ AllocateResources(t)
  /\ UNCHANGED <<pc, launching, tests, waitingFor, running, runningCount,
                 serialTestRunning, lockedResources, processorsAvailable, affinity>>

\* The lowest processors are taken.
Lowest(A, n) ==
  {S \in SUBSET A : Cardinality(S) = n /\ \A p \in S, q \in A \ S : p < q}

TakeAffinity_NotRemoved(t) ==
  IF HaveAffinity > 0 /\ t \in WantAffinity
    THEN \E S \in Lowest(processorsAvailable, GetProcessorsUsed(t)) :
           /\ processorsAvailable' = processorsAvailable
           /\ affinity' = [affinity EXCEPT ![t] = S]
    ELSE UNCHANGED <<processorsAvailable, affinity>>

TakeAffinity(t) ==
  IF HaveAffinity > 0 /\ t \in WantAffinity
    THEN \E S \in Lowest(processorsAvailable, GetProcessorsUsed(t)) :
           /\ processorsAvailable' = processorsAvailable \ S
           /\ affinity' = [affinity EXCEPT ![t] = S]
    ELSE UNCHANGED <<processorsAvailable, affinity>>

\* EraseTest: the test leaves Tests and SortedTests.
EraseTest(t) == tests' = tests \ {t}

\* StartTestProcess marks the test as running, takes it off the lists and
\* locks what it needs, before it tries to launch it.
StartTestProcess(t) ==
  /\ Trying(t) /\ ~LockConflict(t)
  /\ CanAllocate(t) /\ ~WaitsForOthers(t) /\ ~AffinityShort(t)
  /\ AllocateResources(t)
  /\ TakeAffinity(t)
  /\ running' = running \cup {t}
  /\ EraseTest(t)
  /\ runningCount' = runningCount + GetProcessorsUsed(t)
  /\ lockedResources' = lockedResources \cup Locks[t]
  /\ serialTestRunning' = (serialTestRunning \/ t \in RunSerial)
  /\ launching' = {t}
  /\ pc' = "launch"
  /\ UNCHANGED waitingFor

----------------------------------------------------------------------------
\* FinishTestProcess and cmCTestRunTest::EndTest.

EndTest_EveryRun(t, status) ==
  /\ runsLeft' = [runsLeft EXCEPT ![t] = @ - 1]
  /\ results' = [results EXCEPT ![t] = @ + 1]

\* EndTest records the run unless the test is to be repeated.
EndTest(t, status) ==
  /\ runsLeft' = [runsLeft EXCEPT ![t] = @ - 1]
  /\ results' = [results EXCEPT ![t] = IF NeedsToRepeat(t, status) THEN @ ELSE @ + 1]

\* The part of FinishTestProcess after the decision not to run again.
ReleaseTest(t, status) ==
  /\ completed' = completed + 1
  /\ passed' = IF status \in {"COMPLETED", "SKIPPED"} THEN passed \cup {t} ELSE passed
  /\ failed' = IF status \notin {"COMPLETED", "SKIPPED"} /\ t \notin Disabled
                 THEN failed \cup {t} ELSE failed
  /\ waitingFor' = [u \in Test |-> IF u \in tests THEN waitingFor[u] \ {t}
                                   ELSE waitingFor[u]]
  /\ finished' = finished \cup {t}
  /\ running' = running \ {t}
  /\ checkpoint' = checkpoint \cup {t}
  /\ DeallocateResources(t)
  /\ lockedResources' = lockedResources \ Locks[t]
  /\ serialTestRunning' = (serialTestRunning /\ t \notin RunSerial)
  /\ runningCount' = runningCount - GetProcessorsUsed(t)
  /\ processorsAvailable' = processorsAvailable \cup affinity[t]
  /\ affinity' = [affinity EXCEPT ![t] = {}]

Unstartable_SetupsIgnored(t) == ResourceAllocationError(t) \/ t \in Disabled

Unstartable_DisabledIgnored(t) ==
  ResourceAllocationError(t) \/ RequireSuccess[t] \cap failed # {}

\* The test cannot even be tried: it asks for resources that do not exist, it
\* is disabled, or a fixture setup it requires has failed.
Unstartable(t) ==
  \/ ResourceAllocationError(t)
  \/ t \in Disabled
  \/ RequireSuccess[t] \cap failed # {}

\* The child process is spawned.
TestStarts(t) ==
  /\ pc = "launch" /\ t \in launching
  /\ ~Unstartable(t)
  /\ live' = live \cup {t}
  /\ attempts' = [attempts EXCEPT ![t] = @ + 1]
  /\ numToStart' = numToStart - GetProcessorsUsed(t)
  /\ launching' = {}
  /\ pc' = "scan"
  /\ UNCHANGED <<stopTimePassed, retryTimer, tests, waitingFor, running, finished,
                 holdVars, recordVars, copy, spareLoad, allTestsFailedTestLoadCheck>>

\* StartFailure, or a false return of StartTest: FinishTestProcess is called
\* with started = false, and the loop goes on.
TestFailsToStart(t, status) ==
  /\ pc = "launch" /\ t \in launching
  /\ \/ status = "NOT_RUN" /\ (Unstartable(t) \/ t \in Unreliable)
     \/ status = "BAD_COMMAND" /\ ~Unstartable(t) /\ t \in Unreliable
  /\ EndTest(t, status)
  /\ ReleaseTest(t, status)
  /\ launching' = {}
  /\ pc' = "scan"
  /\ UNCHANGED <<stopTimePassed, retryTimer, tests, live, attempts, scanVars>>

\* If no test passed the load check a timer will call StartNextTests again.
StartRetryTimer == retryTimer' = allTestsFailedTestLoadCheck

\* The loop is over: the copy is exhausted or a RUN_SERIAL test was started.
EndOfLoop ==
  /\ pc = "scan"
  /\ copy = {} \/ serialTestRunning
  /\ StartRetryTimer
  /\ pc' = "wait"
  /\ copy' = {} /\ numToStart' = 0 /\ spareLoad' = 0
  /\ allTestsFailedTestLoadCheck' = FALSE
  /\ UNCHANGED <<launching, stopTimePassed, testVars, holdVars, recordVars>>

----------------------------------------------------------------------------
\* The event loop.

\* A child has ended with this status; forStopTime when its time limit was the
\* time left to the stop time, which is counted modulo a day and may so be over
\* before the clock has come to it.
ChildEnds(t, status, forStopTime) ==
  /\ pc = "wait" /\ t \in live
  /\ status \in {"COMPLETED", "FAILED", "TIMEOUT", "SKIPPED"}
  /\ forStopTime => HasStopTime /\ status = "TIMEOUT"
  /\ stopTimePassed' = (stopTimePassed \/ forStopTime)
  /\ EndTest(t, status)

RunsAgain_Late(t, status, forStopTime) == ~forStopTime /\ NeedsToRepeat(t, status)

RunsAgain(t, status, forStopTime) ==
  ~stopTimePassed /\ ~forStopTime /\ NeedsToRepeat(t, status)

TestFinishes(t, status, forStopTime) ==
  /\ ChildEnds(t, status, forStopTime)
  /\ ~RunsAgain(t, status, forStopTime)
  /\ ReleaseTest(t, status)
  /\ live' = live \ {t}
  /\ pc' = "next"
  /\ UNCHANGED <<launching, retryTimer, tests, attempts, scanVars>>

\* StartAgain: a new process for the same test, which keeps all it holds.
TestRunsAgain(t, status) ==
  /\ ChildEnds(t, status, FALSE)
  /\ RunsAgain(t, status, FALSE)
  /\ attempts' = [attempts EXCEPT ![t] = @ + 1]
  /\ UNCHANGED <<pc, launching, retryTimer, tests, waitingFor, running, finished,
                 live, holdVars, passed, failed, completed, checkpoint, scanVars>>

\* StartAgain returns true although no process could be started.
RerunFailsToStart(t, status) ==
  /\ ChildEnds(t, status, FALSE)
  /\ RunsAgain(t, status, FALSE)
  /\ t \in Unreliable
  /\ live' = live \ {t}
  /\ UNCHANGED <<pc, launching, retryTimer, tests, waitingFor, running, finished,
                 attempts, holdVars, passed, failed, completed, checkpoint, scanVars>>

OnTestLoadRetryCB ==
  /\ pc = "wait" /\ retryTimer
  /\ pc' = "next"
  /\ retryTimer' = FALSE
  /\ UNCHANGED <<launching, stopTimePassed, testVars, holdVars, recordVars, scanVars>>

\* uv_run returns when there is neither a child nor an active timer; then the
\* checkpoint file is removed.
LoopEnds ==
  /\ pc = "wait" /\ live = {} /\ ~retryTimer
  /\ pc' = "done"
  /\ checkpoint' = {}
  /\ UNCHANGED <<launching, stopTimePassed, retryTimer, testVars, holdVars,
                 passed, failed, results, runsLeft, completed, scanVars>>

\* The program has returned from RunTests.
Terminated == pc = "done" /\ UNCHANGED handlerVars

\* The clock comes to the stop time, whatever the program is doing: there may be
\* children, and a loop that looked at the clock before it.
StopTimeComes ==
  /\ HasStopTime /\ ~stopTimeReached /\ pc # "done"
  /\ stopTimeReached' = TRUE
  /\ underWay' = live \cup launching \cup copy
  /\ UNCHANGED handlerVars

----------------------------------------------------------------------------
ScanStep ==
  \/ \E t \in Test :
       \/ SkipSerial(t) \/ SkipForRoom(t)
       \/ TestLocked(t) \/ TestNotReady(t) \/ AffinityUnavailable(t)
       \/ StartTestProcess(t)
       \/ TestStarts(t)
       \/ \E status \in {"NOT_RUN", "BAD_COMMAND"} : TestFailsToStart(t, status)
  \/ EndOfLoop

ChildStep(t) ==
  \E status \in Statuses :
    \/ \E forStopTime \in BOOLEAN : TestFinishes(t, status, forStopTime)
    \/ TestRunsAgain(t, status)
    \/ RerunFailsToStart(t, status)

HandlerStep ==
  \/ RunTests
  \/ StartNextTests
  \/ ScanStep
  \/ \E t \in Test : ChildStep(t)
  \/ OnTestLoadRetryCB
  \/ LoopEnds
  \/ Terminated

Next == (HandlerStep /\ UNCHANGED clockVars) \/ StopTimeComes

Spec == Init /\ [][Next]_vars

\* The thread runs on, every child ends (each has a timeout), a timer fires.
Fairness ==
  /\ WF_handlerVars(RunTests \/ StartNextTests \/ ScanStep \/ LoopEnds)
  /\ WF_handlerVars(OnTestLoadRetryCB)
  /\ \A t \in Test : WF_handlerVars(ChildStep(t))

FairSpec == Spec /\ Fairness

----------------------------------------------------------------------------
(* Properties. *)

\* The type invariant: every field holds a value of its C++ type, so no count
\* that is unsigned there (RunningCount, Locked, numToStart, spareLoad) is ever
\* decreased below zero, which would make it huge; only NumberOfRunsLeft is an
\* int.
TypeOK ==
  /\ pc \in {"run", "next", "scan", "launch", "wait", "done"}
  /\ launching \in SUBSET Test
  /\ tests \in SUBSET Test
  /\ waitingFor \in [Test -> SUBSET Test]
  /\ running \in SUBSET Test /\ finished \in SUBSET Test /\ live \in SUBSET Test
  /\ completed \in Nat
  /\ runningCount \in Nat
  /\ serialTestRunning \in BOOLEAN
  /\ lockedResources \in SUBSET Lock
  /\ locked \in [Unit -> Nat]
  /\ allocated \in [Test -> [Unit -> Nat]]
  /\ processorsAvailable \in SUBSET Cpu
  /\ affinity \in [Test -> SUBSET Cpu]
  /\ passed \in SUBSET Test /\ failed \in SUBSET Test
  /\ results \in [Test -> Nat]
  /\ runsLeft \in [Test -> Int]
  /\ attempts \in [Test -> Nat]
  /\ stopTimePassed \in BOOLEAN
  /\ stopTimeReached \in BOOLEAN
  /\ underWay \in SUBSET Test
  /\ retryTimer \in BOOLEAN
  /\ checkpoint \in SUBSET Test
  /\ copy \in SUBSET Test
  /\ numToStart \in Nat
  /\ spareLoad \in Nat
  /\ allTestsFailedTestLoadCheck \in BOOLEAN

\* RunningCount is exactly the number of slots the running tests take, and
\* never more than -j, through launches that fail half way, repeated runs and
\* caps that differ from test to test.
SlotsExact ==
  /\ runningCount = Cardinality(SlotsOf(running))
  /\ runningCount <= ParallelLevel

\* A RUN_SERIAL test never runs beside another test (Help/prop_test/RUN_SERIAL).
SerialAlone ==
  \A t \in running \cap RunSerial : running = {t}

\* Two running tests never hold the same RESOURCE_LOCK, and exactly the locks
\* of the running tests are taken: none is dropped early, none is left behind.
LocksExact ==
  /\ lockedResources = UNION {Locks[t] : t \in running}
  /\ \A t, u \in running : t # u => Locks[t] \cap Locks[u] = {}

\* A test that runs or has run came after every test it depends on.
DependenciesFirst ==
  \A t \in Test : t \in running \/ attempts[t] > 0 => Depends[t] \subseteq finished

\* No process was ever started for a test one of whose fixture setups failed,
\* whether the setup failed before or after the test was first looked at.
SetupsSucceeded ==
  \A t \in Test : attempts[t] > 0 => RequireSuccess[t] \cap failed = {}

\* The processors that tests have for themselves.
Owned == UNION {affinity[t] : t \in Test}

\* Processors are never shared: a running test that wants affinity has exactly
\* as many as it is charged for, and they are in nobody else's set.
AffinityExact ==
  /\ \A t \in Test :
       /\ affinity[t] \cap processorsAvailable = {}
       /\ \A u \in Test \ {t} : affinity[t] \cap affinity[u] = {}
       /\ t \in running \cap WantAffinity /\ HaveAffinity > 0
            => Cardinality(affinity[t]) = GetProcessorsUsed(t)
  /\ processorsAvailable \cup Owned = Cpu

\* The slots test t holds in unit u, one pair each.
HeldIn(u) == UNION {{t} \X (1 .. allocated[t][u]) : t \in Test}

\* The allocator's counters say exactly what the tests hold, and no unit is
\* ever overcommitted.
ResourcesExact ==
  \A u \in Unit :
    /\ locked[u] = Cardinality(HeldIn(u))
    /\ locked[u] <= Total[u]

\* Whenever the program waits, and at its end, no test that is not running holds
\* resources: each way to end a run, or to give up a start, gives them back
\* (RunTests' assertion that all resources are available again).
HeldOnlyByRunning ==
  pc \in {"wait", "done"} =>
    \A t \in Test \ running : \A u \in Unit : allocated[t][u] = 0

\* RunTests' assertions: unless it was stopped, every test was run.
AllTestsCompleted ==
  pc = "done" /\ ~HasCycles /\ ~stopTimePassed /\ ~StopOnFailure
    => completed = Cardinality(Test) /\ tests = {}

\* Every test that is over has one entry in TestResults, however often it was
\* run, and is in exactly one of the lists of passed and failed tests, or in none
\* if it is disabled; any other test is in none of the three.  (A test may also be
\* over because an earlier invocation, resumed with -F, has run it.)
ResultsExact ==
  \A t \in Test :
    /\ t \in finished /\ ~(Failover /\ attempts[t] = 0) =>
         results[t] = 1 /\ (t \notin Disabled => t \in passed \cup failed)
    /\ t \notin finished => results[t] = 0 /\ t \notin passed \cup failed
    /\ t \in Disabled => t \notin passed \cup failed
    /\ t \notin passed \cap failed

\* A test is never run more often than --repeat allows.
RunsBounded == \A t \in Test : attempts[t] <= Runs

\* After the stop time a process is started only for a test that was running
\* then, to repeat it, or that a loop under way then had still to look at: no
\* other test is begun.  Once the program has seen that the time has passed, none
\* is started at all, not even to repeat a test.
NothingStartsLate ==
  [][/\ stopTimeReached => \A t \in Test \ underWay : attempts'[t] = attempts[t]
     /\ stopTimePassed => attempts' = attempts]_vars

OutcomesKept ==
  \A t \in finished : /\ t \notin live' /\ attempts'[t] = attempts[t]
                       /\ (t \in passed <=> t \in passed')
                       /\ (t \in failed <=> t \in failed')

\* A test that is over is never started again and its outcome never changes.
OutcomesFinal == [][OutcomesKept]_vars

\* The scheduler comes to its end, and then every test has been run.
EventuallyAllFinished == <>(pc = "done" /\ finished = Test)

----------------------------------------------------------------------------
(* The scheduler implements the promises of TestSuite.                      *)

\* How far a test is, seen from outside; being repeated counts as running.
TestState ==
  [t \in Test |->
     IF t \in passed THEN "passed"
     ELSE IF t \in failed THEN "failed"
     ELSE IF t \in finished THEN "disabled"
     ELSE IF t \in running \ launching THEN "running"
     ELSE "waiting"]

Suite ==
  INSTANCE TestSuite WITH
    Slots <- [t \in Test |-> GetProcessorsUsed(t)],
    state <- TestState

\* Every step of the scheduler is a step of TestSuite or changes nothing there.
ImplementsSuite == Suite!Spec
=============================================================================
