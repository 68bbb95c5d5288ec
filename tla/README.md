# A verification project for CMake and CTest

This directory holds TLA+ models of the parts of the repository (CMake with an
AtmelStudio 7 generator) whose behaviour is hard to test: how `ctest` runs a
suite of tests in parallel, how the worker pool of `cmake -E cmake_autogen` runs
AUTOMOC's jobs, what is left on the disk when such a run fails, how several
CMake processes share file locks, and the graph algorithms that decide the order
of a build. The models are translated from `src/Source`, model-checked with TLC
on small instances, and in part proved with TLAPS for all instances.

## 1. The system

CMake is mostly a sequential translator: it interprets `CMakeLists.txt`, builds
a graph of targets and writes build files. Four places are different.

- `ctest` is an event driven scheduler: one thread, a libuv loop, any number of
  child processes, and tests with dependencies, fixtures, capacity limits, locks,
  hardware resources, repeats, time limits and a checkpoint file. A mistake there
  is a run that hangs, that ends early, or in which two tests disturb each other
  once a month.
- `cmWorkerPool` has real threads, a mutex, two condition variables and a libuv
  loop of its own. AUTOMOC puts a graph of jobs on it, and keeps a cache, a
  settings file and outputs that have to agree after any interrupted run.
- `file(LOCK)` is used by several processes at a time, on locks that the
  operating system drops under surprising conditions.
- The dependency analysis is sequential, but an error in it is a race in the
  builds of its users.

### Components

| Component | Source (`src/Source/`) | State it keeps | Operations | Interacts with |
|---|---|---|---|---|
| Scheduler | `CTest/cmCTestMultiProcessHandler` | lists of tests left, running, finished; slots, locks, resources and processors in use; load timer | `RunTests`, `StartNextTests`, `StartTest`, `StartTestProcess`, `FinishTestProcess`, `OnTestLoadRetryCB` | starts test runs; is called back by them, re-entrantly when a launch fails |
| Resume | the same | `CTestCheckpoint.txt` | `CheckResume`, `WriteCheckpoint`, `MarkFinished` | the scheduler of the next invocation |
| Test list | `CTest/cmCTestTestHandler` | tests and their properties, fixtures | `ComputeTestList`, `UpdateForFixtures` | builds what the scheduler is given |
| Test order | `CTest/cmCTestMultiProcessHandler` | `SortedTests`, costs, tests that failed last time | `CheckCycles`, `CreateTestCostList`, `ReadCostData` | gives the scheduler its order |
| Resource allocation | `CTest/cmCTestResourceAllocator`, `CTest/cmCTestBinPacker` | slots locked in each unit | the packing search, allocate, deallocate | called by the scheduler |
| Test run | `CTest/cmCTestRunTest` | output so far, runs left, whose time limit applies | `StartTest`, `CheckOutput`, `EndTest`, `StartAgain` | owns a process; ends in `FinishTestProcess` |
| Child process | `CTest/cmProcess` | handles, timer, state, the open line | `StartProcess`, `OnRead`, `OnExit`, `OnTimeout` | libuv calls it, it calls the test run |
| Worker pool | `cmWorkerPool` | job queue, counters, fence flag, threads | push, run, abort, processes of jobs | threads, the libuv loop, the jobs |
| AUTOMOC | `cmQtAutoMocUic` | parse cache, settings file, outputs; mappings of a run | parse, evaluate, probe, compile, merge | pushes jobs to the pool; finds what earlier runs left |
| File locks | `cmFileLock`, `cmFileLockPool`, `cmFileCommand` | a stack of scopes with locks | lock, release, push and pop scope | other cmake processes, through the system |
| Target dependencies | `cmComputeTargetDepends`, `cmComputeComponentGraph` | graphs of targets | collect, components, optimise, final edges | generators |
| Dashboard steps, driver | `CTest/`, `cmCTest.cxx` | options | configure, build, coverage, submit, ... | sequential |
| Process chains | `cmUVProcessChain` | pipes and children | prepare, start, wait | libuv |
| Link line | `cmComputeLinkDepends` | graph of link items | follow, order | generators |
| Generators | `cmGlobal*Generator`, `AtmelStudio7Generators/` | text being written | generate | target graph |
| Language | `cmMakefile`, `cmState*`, `cmFunctionBlocker`, `cmVariableWatch` | scopes, policies, cache | commands | everything |
| Others | CPack, File API, user interfaces, kwsys, bundled libraries | | | |

`PROJECT.json` lists them all with what is modelled of each and why the rest is
not.

### Which behaviours are hard

- One thread does not mean no interleaving. Children end in any order, and each
  end runs `FinishTestProcess`, then `StartNextTests`. A launch that fails runs
  `FinishTestProcess` *inside* the loop of `StartNextTests`.
- Partial failure. Between the first thing a test takes and its running child
  there are eight places where the start is given up, each with other things to
  undo.
- Callbacks of one child (output, end of output, exit, timer) come in any order,
  and a descendant may keep the pipe open after the child has gone.
- Liveness. Nothing polls. If the last callback leaves a test that could start,
  or a notification reaches the wrong thread of the pool, nobody ever looks again.
- Time. The limit of a test has four sources, one of which changes it in the
  middle of a run.
- Threads. Push, fence and abort meet in every order; an abort must reach threads
  that wait for four different things.
- Restart. A killed `ctest` leaves a checkpoint, and a killed AUTOMOC run leaves
  outputs, a cache and a settings file of different ages.
- Several processes. A lock file belongs to whoever the system says.
- Graphs. Cycles of static libraries are allowed and are broken up by hand.

`PROJECT.json`, "hazards", has these at their lines.

### What makes each component correct

- Scheduler: capacity, serial, lock, resource, processor and dependency promises
  hold at every moment; what is taken is given back; every test is run and
  recorded once; the program ends, with its final assertions true.
- Resume: nothing is lost or done twice.
- List and order: all that a fixture needs is in the list and waits as it should,
  the cycle check is right, dependencies come first.
- Allocation: the search finds a packing exactly if there is one, and it can be
  taken step by step.
- Test run and process: exactly one verdict for a run, from all of its output;
  the right limit applies; the test ends.
- Worker pool: jobs are started in order, a fence job runs alone, no wake-up is
  lost, an abort ends everything, the libuv side outlives those it serves.
- AUTOMOC: after a run that reports success every output is up to date, whatever
  happened before.
- File locks: a lock is kept for its scope, neither shorter nor longer.
- Target dependencies: the final graph has no cycle and keeps every order that
  was asked for.

## 2. Modules

| Module | Models | Used by |
|---|---|---|
| `TestSuite` | abstract: what the test properties promise, whatever the schedule | refined by `TestScheduler` |
| `TestScheduler` | `cmCTestMultiProcessHandler` from `RunTests` to the end, with the parts of `cmCTestRunTest` it calls | `TestResume`, `MCTestScheduler`, proofs |
| `TestResume` | several invocations with kills in between | `MCTestResume`, proofs |
| `TestOrder` | `UpdateForFixtures` and `SetTests`: fixtures, cycles and order | `MCTestOrder`, proofs |
| `ResourcePacker` | allocator and bin packer of one resource type | `MCResourcePacker`, proofs |
| `Sorting` | `std::stable_sort` and ordered sets, in a form that can be reasoned about | `TestOrder`, `ResourcePacker` |
| `TestProcess` | `cmProcess` and the verdict, limit and repeats of `cmCTestRunTest` for one test | `MCTestProcess`, proofs |
| `JobQueue` | abstract: a queue of jobs with fences, what `cmWorkerPool.h` promises | refined by `WorkerPool`, used by `AutoMoc` |
| `WorkerPool` | `cmWorkerPool`: threads, condition variables, processes, loop | `MCWorkerPool`, proofs |
| `AutoMoc` | the MOC half of `cmQtAutoMocUic` over several runs | `MCAutoMoc`, proofs |
| `FileLocks` | `file(LOCK)`, `cmFileLockPool` and `cmFileLock` of several processes | `MCFileLocks`, proofs |
| `TargetDepends` | `cmComputeTargetDepends` and `cmComputeComponentGraph` | `MCTargetDepends` |
| `TestSchedulerProofs` | in four parts: types, inductive invariant, safety theorems and `TestSuite`; resources and processors, and who keeps them; that results are recorded once and no test is forgotten; kills, resumption and the checkpoint | |
| `DataLemmas` | induction on numbers and finite sets, recursive functions, sorted sequences | the next two |
| `ResourcePackerProofs` | theorems about the packing search and the allocator's counters | |
| `TestOrderProofs` | theorems about fixtures, cycles and both orders | |
| `TestProcessProofs` | theorems about verdict and time limit | |
| `WorkerPoolProofs` | theorems about the pool's counters, handles and fences; `WorkerPool` implements `JobQueue` | |
| `AutoMocProofs` | theorems about the stages of a run and what it leaves on the disk | |
| `FileLocksProofs` | theorems about scopes and owners | |

How they fit: `TestOrder` yields the order and the dependencies that
`TestScheduler` takes as the constants `Rank`, `Depends` and `RequireSuccess`.
`ResourcePacker` shows that the search finds a placement whenever there is one and
that all parts of it can be taken, which is what `TestScheduler` assumes in
`CanAllocate` and `AllocateResources`. `TestProcess` shows that a run ends with one
status, possibly for the stop time, which is what `ChildStep` of `TestScheduler`
offers. `WorkerPool` is shown to implement `JobQueue`, and `AutoMoc` runs its jobs
by the actions `Start` and `Return` of `JobQueue`: what is checked of AUTOMOC
rests on the queue's promises and not on a particular schedule of threads.

The searches of `TestOrder` and `ResourcePacker` are recursive functions with a
number of rounds or levels as argument, and the proofs show that this number is
large enough. `TargetDepends` uses RECURSIVE operators, as Tarjan's algorithm calls
itself while it changes its state, and is model-checked only.

### TestScheduler and the code

`pc` is the place of the thread: `run` (entry of `RunTests`), `next` (entry of
`StartNextTests`), `scan` (its loop), `launch` (in `StartTestProcess`, after the
test has been marked as running), `wait` (in `uv_run`), `done`. A step is one
iteration of the loop, one launch, one callback. Nothing can interleave inside
such a step, because there is one thread; the steps of the loop are separate
actions for readability and so that properties see the states in between.

| Code | Action |
|---|---|
| `RunTests` up to the loop, with `CheckResume` | `RunTests` |
| early returns, load and slots of `StartNextTests` | `StartNextTests` |
| `continue` for RUN_SERIAL | `SkipSerial` |
| no room or too much load (`break` when nothing is left) | `SkipForRoom` |
| `StartTest` returns false | `TestLocked`, `TestNotReady` |
| `StartTestProcess` has too few processors | `AffinityUnavailable` |
| `StartTestProcess` up to the launch | `StartTestProcess` |
| the child is spawned | `TestStarts` |
| `StartFailure`, or `StartTest` of the run returns false, then `FinishTestProcess(started = false)` | `TestFailsToStart` |
| end of the loop, retry timer | `EndOfLoop` |
| child has ended, `FinishTestProcess` to its end | `TestFinishes` |
| `StartAgain` | `TestRunsAgain`, `RerunFailsToStart` |
| timer callback | `OnTestLoadRetryCB` |
| `uv_run` returns, `MarkFinished` | `LoopEnds` |

Abstractions:

- `SortedTests` is the set `tests` and the constant `Rank`, since the code only
  removes from it, together with `Tests`. `copy` is the rest of the loop.
- The time that a child runs, its output and its exit code are in `TestProcess`;
  here a child may end at any time with any status.
- `Unreliable` tests may fail to launch, at first or in a rerun (directory or
  file missing, program not found, spawn failure).
- The load average is any of `LoadAverage` at each look.
- The clock comes to the stop time at any moment (`StopTimeComes` sets
  `stopTimeReached`), or never. The code sees it only where it looks:
  `CheckStopTimePassed` on entry to `StartNextTests` sets `stopTimePassed`, and a
  rerun goes by that flag. A child whose limit is the time left to the stop time may
  end before the clock comes to it, as the code counts that time modulo a day.
- `attempts` (processes started for a test) and `underWay` (the tests that were
  running, being launched or still in the loop when the clock came to the stop
  time) are history variables.
- PROCESSORS below 1 is read as 1 and `-j 0` as `-j 1`, as the code does.
- The integers are mathematical. Those that are unsigned in the code
  (`RunningCount`, `numToStart`, the spare load, the locked and allocated slots) are
  natural numbers in `TypeOK`: each is only decreased where it is large enough, or
  it would become huge. `NumberOfRunsLeft` is an `int`.

### TestProcess and the code

One action for each callback. The child, its descendants and the clock are the
environment, and may do anything at any time: exit, be killed, hand over the
pipe, write, or do nothing for ever. Output is a sequence of pieces, each a text
that one regular expression would match or a line end, so a read may end in the
middle of a line. Time is counted down; a callback may come any time after it is
due. Left out: tags in the output that change details of the report, text
encoding, read errors, exception names, wording, and the limit of a whole
dashboard run (`GetRemainingTimeAllowed`). `SkipReturnCode` is a set with at
most one element.

### TestOrder and the code

A suite goes through two steps: `UpdateForFixtures`, with the lookup of names in
`ProcessDirectory`, and `SetTests`, which is the cycle check, the cost file and the
order. Fixtures to leave out (`-FA`, `-FS`, `-FC`) are sets of fixtures instead of
regular expressions; the tests selected by name, label or index are an input. The
order in which fixtures append tests does not matter, since both cost lists sort.

Loops of the code that end when nothing is left have a number of rounds here, after
which nothing is left: for the fixtures one round for each test, for the depth first
search of `CheckCycles` one pop for each pair of tests and one more, for the levels
of a parallel order and the depth of `GetAllTestDependencies` as many as there are
tests. `CheckCyclesExact`, `FixturesAreComplete`, `Fading` and `LevelsEnd` in
`TestOrderProofs` prove these numbers sufficient for every suite, so they are no
bound on what the code does.

### ResourcePacker and the code

A test has a fixed list of requirements (`Needs`) of one resource type: types do not
interact, each has its own units and its own call of the packer. `Place` is one level
of the recursive `AllocateCTestResources`, with the sorted units and the free slots
as its arguments: it tries units in their order, skips one with as many free slots as
the one before, and goes on below with the units as `IncrementalSort` leaves them.
It returns the set of the one solution found, or nothing. `Allocate` takes the
units one requirement at a time, as `AllocateResources` calls `AllocateResource`;
`refused` records the failure that its assertion would report. `MaxGrants` bounds
the tests that hold resources at a time, for TLC.

### WorkerPool and the code

A section under the mutex is one action, unless it may wait. `top` is the place of
a thread that holds the mutex and looks at the queue (the loop of `Work`); `idle`,
`fenced` and `barrier` are its three waits; `job` is `Process` of its job, whose
calls of `PushJob`, `Abort` and `RunProcess` are the sequence `todo`; `sent` and
`wait` are `RunProcess` before and in its own wait. A notified thread is in
`signalled` until it has the mutex again, and any wait may also return without a
notification, as the standard allows. `Process` is `cmWorkerPool::Process`;
`UVSlotBegin`, `UVProcessStart`, `UVSlotEnd`, `HandleEnds` (with `UVTryFinish`) are
the callbacks of the loop, one at a time, while threads run. `LoopServesWorkers`
is about the object `RunProcess` hands to the callbacks, which is on the job's
stack. A thread may start late, after others have ended: then `UVRequestEnd` can be
sent twice, which the loop bears.

### AutoMoc and the code

The disk is `mtime`, `content` and the generated files; the memory of a run is
lost by `Exit`. A run reads settings and cache (`StartRun`), pushes jobs, and each
job type is an action on the state that the code's job writes; `JobFails` is
`LogError`. `PoolReturns`, `ParseCacheWrite`, `SettingsFileWrite` are its end. Kill
may come at any point. A change of a file, of settings or of a tool comes between
two runs and is always newer than them; the resolution of file times and changes
during a run are left out. A header's content is whether it has a macro and which
plugin metadata files it names; a C++ file's is which moc outputs it includes.
UIC jobs, SKIP lists, multi-configuration directories and messages are left out.

### FileLocks and the code

Each process executes a script, which enters and leaves functions and directories
and calls file(LOCK) with any guard at any time. `CreateFile` is the part of
`HandleLockCommand` that opens and closes the file before the pool is asked;
`Acquire`, `TryAgain`, `TimedOut` and `Wait` are the loop of
`cmFileLock::LockWithTimeout` and the wait without a time limit. `owner` is the
operating system's view: one owner for each file, and all locks of a process on a
file are dropped when it closes any descriptor of that file. `WouldDeadlock` is
`EDEADLK`. `Careful` scripts lock a file only once and release it by the name it
was locked by; the constant `LockTwice` permits the others.

### TargetDepends and the code

One step computes everything for a project of `Projects`: link closures with
private parts of shared libraries, add_dependencies through INTERFACE libraries,
Tarjan's algorithm, OPTIMIZE_DEPENDENCIES, the check of components and the final
edges. Each function of the source is an operator of its name. The links of a
target are those of its one configuration; a target stands for its index.

### Mutants

A definition `X_Something` is `X` with a mistake in it. No action uses one; for
each property of a passing run `PROJECT.json` names one that, put in the place of
`X`, makes the property fail. They document what each property is able to notice.

## 3. Runs

Each run has the `.cfg` of its name. Constants that are functions are defined in
the MC module, which comments on the instance they make.

| Run | Shows | Bounds |
|---|---|---|
| `suite` | slots, locks, failed setups, types with no unsigned count below zero; after the stop time only what was under way then goes on, and nothing once it has been seen; `TestScheduler` implements `TestSuite`, which has the serial test, the dependencies and final outcomes | 6 tests, `-j 3`, 2 locks, a disabled test, a RUN_SERIAL test, 2 unreliable tests, `--repeat until-pass:2`, load 0, 2 or 4 against `--test-load 3`, a stop time that comes at any moment |
| `complete` | resources and processors are exactly what the running tests hold; every test ends, is recorded once and is in exactly one of the lists of passed and failed tests, a disabled one in none | 7 tests, one of them disabled, 3 units of 2 types, 3 processors, `--repeat until-fail:2`, launches succeed, fairness |
| `resume` | restart from the checkpoint, retry timer of `--test-load`, the assertions at the end of `RunTests` | 4 independent tests, 2 kills, load 0, 1 or 3 against `--test-load 2` |
| `order` | the list has the selected tests and what their fixtures need, and no more; fixture dependencies, cycle check, order | 4 tests; all graphs whose edges go down or one up; all uses of 2 fixtures by 3 tests and some of the fourth, with disabled tests, selections, `-FS`, `-FC` |
| `pack` | the search is complete and sound, steps never refused | 4 unequal units, 12 tests with one to five requirements (some ask for more than there is, one for no slots of a unit), 3 of them hold resources at a time, both strategies |
| `test_run` | verdict from the whole output; the alternate limit applies; the stop time binds; a test with a limit ends | three tests: 2 pieces of output, 2 runs, descendants, stop time 3, limit 2; 4 pieces with a line that changes the limit; no TIMEOUT, 3 runs after timeouts |
| `pool` | counters, handles, queue with fences, no lost wake-up, abort ends the pool | 3 threads, 4 first queues of the second half of an AUTOMOC and AUTOUIC run |
| `moc` | for Qt before 5.15: outputs up to date after every successful run, the compilation lists the right headers, stages kept apart, runs end | moc reports no dependencies; up to 3 runs, 2 changes between them, 2 threads, a listed header, a header found through an include, a C++ file, a metadata file |
| `file_lock` | locks last exactly as long as their scope, TIMEOUT returns | 2 processes, 2 files, 3 and 2 nested scopes, TIMEOUT 1 or none |
| `target_order` | components, final order, refused cycles, custom commands kept | 4 targets: rings and pairs of static libraries with any add_dependencies, 3 targets of any type linked in any way, all acyclic links with OPTIMIZE_DEPENDENCIES |

Why the bounds are enough. *Scheduler*: its decisions compare a test with the sum
of those running, with one lock set and with one serial flag, so conflicts
between two running tests and a third that waits show everything that can happen
between any. Two runs of a test are enough to see a rerun that keeps, and one
that loses, what it holds, and a count that is off by one. In `complete` a test
with two requirements competes for a unit with one that has requirements of two
types. Two kills cover a resume of a resumed run. *Processes*: two pieces of output
make a line that arrives in two reads and a last line without an end. *Order*: four
tests make a graph with a diamond, a chain that joins on two levels, and cycles of
every length up to four; two fixtures, of which the setup of one requires the
other, make the list grow twice. *Pool*: with three threads one can wait at the
fence, one at the queue or in a job, and a third abort or start late; the theorems
cover any number. *AUTOMOC*: a failed run needs one before it that wrote something
and one after it that is deceived: three runs, with a change before each of the
last two. *Locks*: process against process is pairwise, and the scopes of a process
nest; the theorems cover any number. *Targets*: two components of two targets and
edges between them, a ring of four, and a diamond.

### Where the code departs from its promises

Two runs end with a violation; each checks one statement that the repository
makes of itself. `PROJECT.json`, "findings", quotes the statements.

| Run | What happens |
|---|---|
| `moc_stale` | if moc writes dependency files and there is no merged one (Makefile generators), a failed run may leave an output that is newer than its header; the next run parses the header, which clears its dependencies, does not run moc, and caches the empty list. A change of a dependency, made before that run or later, is not noticed. With Ninja's merged file that run is deceived as well, but `JobDepFilesMerge` reads the dependencies again and the next run makes up for it. |
| `lock_twice` | file(LOCK) of a file that the process has locked opens and closes it, which drops the lock; the answer is that it is locked already. |

The models show more of the kind, for which no run is kept. Each can be seen by
changing a configuration as given:

| Departure | Configuration |
|---|---|
| Resources are allocated before the check for free processors, and kept when it fails (`cmCTestMultiProcessHandler.cxx:154`); the test can never get them again, and the assertions at `:141-142` fail. | `complete` with `WantAffinity = {2, 3}`, `Cpu = {0, 1}`: `HeldOnlyByRunning` |
| A test that the load allows but that waits for one it does not allow keeps the retry timer from being started (`:563`, `:581-619`), and `uv_run` returns. | `resume` without kills, three tests with PROCESSORS 3, 1, 1, the second to depend on the first, `ParallelLevel = TestLoad = 3`, `LoadAverage = {0, 1}`: `AllTestsCompleted` |
| After `-F`, a test waits for ever for one that was finished before: `RemoveTest` (`:1391`) drops it from `Tests` and not from the sets of those that depend on it (`Help/manual/ctest.1.rst:94-95`). | `resume` with the second test to depend on the first: `AllTestsCompleted` |
| A test listed before its dependency (it failed last time) is not looked at again when that one fails to launch inside the loop, and `RunTests` returns with a test left. | `resume` without kills and load, two tests, the second to depend on the first and ranked before it, `Disabled = {1}`: `AllTestsCompleted` |
| A rerun that cannot be started (`StartAgain` returns true all the same) leaves its test in the running map for ever. | `complete` with `Unreliable = {1}`: `AllTestsCompleted` |
| A test that was running when the stop time came is run again if nothing has looked at the clock since: after a run `FinishTestProcess` reads the flag only (`:641`), which `StartNextTests` sets. Likewise a loop that has begun goes on. | `suite`: `[][stopTimeReached => attempts' = attempts]_vars` |
| A run is not recorded because it is predicted to be repeated, and is not repeated: the stop time has passed, or it never started. | `suite` with `RepeatMode = "AfterTimeout"`: `ResultsExact` |
| With `--stop-on-failure`, reruns, and launches later in the loop in which one failed, still happen after the first failure, because `Failed` is only looked at on entry to `StartNextTests`. | `suite` with `StopOnFailure = TRUE`: `[][failed # {} => attempts' = attempts]_vars` |
| TIMEOUT_AFTER_MATCH works in the first of several runs only: `CheckOutput` clears the expressions in the properties that all runs share (`cmCTestRunTest.cxx:98`; `Help/prop_test/TIMEOUT_AFTER_MATCH.rst:23-25`). | `Limited` of `test_run` with `--repeat until-fail:2`: `AlternateApplied` |
| Expiry of the alternate limit is announced as the stop time, since `TimeoutIsForStopTime` stays set (`cmCTestRunTest.cxx:96`). | `Limited` with no TIMEOUT, `stopTime = 4`, `alternateTimeout = 1`: `stopTimePassed => untilStop = 0` |
| The parse cache keeps the entries of headers that no C++ file includes any more (`WriteToFile` writes the whole map, `cmQtAutoMocUic.cxx:692`), and an entry counts as fresh if the cache file is younger than the header (`:2716-2727`). A header outside the target's list that is edited while nothing includes it, or just before a run that is broken off, and that is included again only after a further run without it, has its old entry taken as fresh, and the dependencies it has gained are not seen. | `moc` with `MaxTime = 10` and, in `MCContents`, only `Empty` for `listed`, `{Macro({}), Macro({meta})}` for `found` and no include of `listed`: `UpToDate` (some minutes) |
| A line that matches TIMEOUT_AFTER_MATCH replaces the limit set for the stop time by one that reaches beyond it. | `Limited` with `stopTime = 2`, `alternateTimeout = 4`: `StopTimeBinds` |
| A test with TIMEOUT that starts in the instant of the stop time gets the limit 0, which means none. | `Judged` with `stopTime = 1` and one run: `pc = "running" ~> pc = "done"` |
| A diamond of add_dependencies within a cycle of static libraries is refused as if it were a cycle: `visited` is never popped (`cmComputeTargetDepends.cxx:677`). | `target_order` with `CyclesRejected` without `TwoStrongWays`: links 1 to 2 to 3 to 1 and 3 to 4 to 1, add_dependencies 3 to 1, 4 to 1 and 4 to 3 |
| On a graph with cycles one walk does not gather all side effects, and OPTIMIZE_DEPENDENCIES loses a custom command. | `target_order` with `SideEffectsKept` for all graphs: links 1 to 2 and 3 to 2, add_dependencies 1 to 4 and 2 to 1, `optimize = {3}`, `effects = {4}` |

By reading, and outside what the models can show: `cmFileLock::Lock` does not close
the descriptor after a timeout (`cmFileLock.cxx:70-72`); the file is truncated even
when another process has it locked; `cmake -P` with GUARD FILE meets an empty
stack of file scopes, which only an assertion notices; an INTERFACE library that
reaches itself by add_dependencies makes `AddTargetDepend` recurse without end
(`cmComputeTargetDepends.cxx:404`); `-FA` with `-FS` doubles the first expression
(`cmCTestTestHandler.cxx:991`); two strings that include the output of one header
leave one of the two outputs unmade.

The passing runs choose constants under which these do not occur: `complete` has no
launch failures, and processors do not run out there while a test with resources
waits for them; the tests of `resume` are independent and of equal size; in
`test_run` the test with TIMEOUT_AFTER_MATCH has one run and no stop time, and the
one with both TIMEOUT and a stop time starts well before it; the moc of `moc`
reports no dependencies, as before Qt 5.15; the projects of `target_order` have no
INTERFACE library that reaches itself; the scripts of `file_lock` are careful. The
safety properties of `suite` hold in spite of launch failures, failing reruns and
the stop time.

### Fairness

`TestScheduler`: the thread goes on (`WF` on its steps: a program that is not
stopped executes its next statement), an active timer fires, and every child
ends (`WF` on `ChildStep(t)` for each test). The last one is an assumption about
tests, justified by the time limit that each test has by default; `TestProcess`
shows less: with a limit, a test ends whatever it does (`EventuallyDone`). A test
has none if it starts in the instant of the stop time, see above, or if its
TIMEOUT is 0 by request.

`TestProcess`: libuv calls back what is due (`WF` on each callback), and time
passes (`WF` on `Tick`). The test and its descendants are under no fairness.

`WorkerPool`: a thread that neither waits nor needs the mutex goes on, the loop goes
on and external processes end (`WF`). A thread that needs the mutex gets it some
time even if others take it in between (`SF` on the sections under the mutex),
which mutexes of operating systems give in practice; a waiting thread is under
fairness only once it has been notified, so a lost wake-up shows.

`AutoMoc`: a run that is not killed goes on, its jobs and commands end (`WF` on
`Run`). Nothing makes anybody start a run.

`FileLocks`: a process goes on with its command (`WF` on `Command(p)`). Scripts are
under no fairness: one may keep a lock for ever, and a file(LOCK) without TIMEOUT
then waits for ever.

## 4. Proofs

The theorems are about `TestScheduler`, `TestResume`, `TestOrder`, `ResourcePacker`,
`TestProcess`, `WorkerPool`, `AutoMoc` and `FileLocks`, from `Spec` without
fairness, and hold for every value of the constants: any finite set of tests, any
dependency graph, `-j`, resource spec, set of processors and options; any number of
kills; any suite with fixtures, costs and earlier failures; any units, requirements
and either strategy; any tests, texts and limits of a single run; any finite set of
threads, any jobs, scripts of jobs and first queue; any project, contents of its
files, number of threads and sequence of runs, changes, failures and kills; any set
of processes, files, names and scopes. `tlapm` checks every leaf.

| Theorem | Module | Property | Condition |
|---|---|---|---|
| `TypeCorrect` | `TestSchedulerProofs` | `TypeOK` | |
| `InvariantHolds` | the same | the inductive invariant `Invariant` | |
| `SlotsTheorem` | the same | `SlotsExact` | |
| `SerialTheorem` | the same | `SerialAlone` | |
| `LocksTheorem` | the same | `LocksExact` | |
| `DependenciesTheorem` | the same | `DependenciesFirst` | |
| `SetupsTheorem` | the same | `SetupsSucceeded` | |
| `RunsTheorem` | the same | `RunsBounded` | |
| `StopTheorem` | the same | `NothingStartsLate` | |
| `OutcomesTheorem` | the same | `OutcomesFinal` | |
| `Refinement` | the same | `ImplementsSuite` | |
| `ResourcesTheorem` | the same | `ResourcesExact` | |
| `AffinityTheorem` | the same | `AffinityExact` | |
| `KeptTheorem` | the same | `KeptOnlyByShort` | |
| `HeldTheorem` | the same | `HeldOnlyByRunning` | no affinity, or tests with affinity ask for no resources |
| `RecordedOnceTheorem` | the same | `RecordedOnce` | |
| `ResultsTheorem` | the same | `ResultsExact` | one run, or no stop time and no until-pass retry that cannot be started (`RecordedAlways`) |
| `CompletionTheorem` | the same | `AllTestsCompleted` | no `--test-load`, or tests that take the same number of slots (`LoadForAll`); repetitions start (`RerunsStart`); dependencies come first (`Ordered`); no resources are kept (`NothingKept`) |
| `ResumeType` | the same | `TypeOK`, after any kills | |
| `ResumeSafety` | the same | the safety properties of the scheduler, after any kills | |
| `ResumeHeld` | the same | `HeldOnlyByRunning`, after any kills | as for `HeldTheorem` |
| `ResumeCompletion` | the same | `AllTestsCompleted`, after any kills | as for `CompletionTheorem`; no test depends on one that is dropped as finished (`NoneStranded`) |
| `CheckpointTheorem` | the same | `CheckpointExact` | |
| `NotRepeatedTheorem` | the same | `FinishedNotRepeated` | |
| `CheckCyclesExact` | `TestOrderProofs` | `CheckCycles` of any finite graph is the absence of `Cyclic` sets | |
| `Prepares` | the same | the inductive invariant `IInv` of `TestOrder` | |
| `CyclesAreFound` | the same | `CyclesFound` | |
| `FixturesAreComplete` | the same | `FixturesComplete` | |
| `OrderRespectsDepends` | the same | `DependenciesBefore` | |
| `FixturesAreOrdered` | the same | `FixturesOrdered` | |
| `PreparesScheduler` | the same | `SchedulerInput`: list, dependencies, setups and order are what `TestScheduler` assumes of its constants, with `Ordered` in a serial run or without earlier failures | |
| `PackingExact` | `ResourcePackerProofs` | the search finds only, and whenever there are some, units that fit | |
| `LockedCounts` | the same | `LockedExact` | |
| `AssertsHold` | the same | `NeverRefused` | |
| `PackerComplete` | the same | `FindsPacking` | |
| `RunType` | `TestProcessProofs` | `TypeOK` of a run | |
| `VerdictTheorem` | the same | `VerdictComplete` | |
| `AlternateTheorem` | the same | `AlternateApplied` | in the first run |
| `AlternateUnrepeated` | the same | `AlternateApplied` | tests with TIMEOUT_AFTER_MATCH have one run |
| `StopTimeTheorem` | the same | `StopTimeBinds` | until a line matches TIMEOUT_AFTER_MATCH |
| `LimitTheorem` | the same | `LimitArmed` | |
| `PoolType` | `WorkerPoolProofs` | `TypeOK` of the pool | |
| `CountersTheorem` | the same | `CountersExact` | |
| `LoopTheorem` | the same | `LoopServesWorkers` | |
| `FenceTheorem` | the same | `FenceAlone` | |
| `QueueTheorem` | the same | `ImplementsQueue` | |
| `MocType` | `AutoMocProofs` | the types of disk, run and queue | |
| `StagesTheorem` | the same | `StagesKeptApart` | |
| `CompilationTheorem` | the same | `CompilationExact` | |
| `UpToDateTheorem` | the same | `UpToDate` | moc reports no dependencies; only listed headers have some |
| `FileLocksType` | `FileLocksProofs` | `TypeOK` of the locks | |
| `OwnedTheorem` | the same | `OwnedIsLocked` | |
| `LockedTheorem` | the same | `LockedIsOwned` | careful scripts |
| `ExclusiveTheorem` | the same | `Exclusive` | careful scripts |

A condition is there because the property is false without it: each has its row among
the departures of section 3, or its run (`moc_stale`, `lock_twice`). `--test-load` is
one of those rows as well, and so is a test ranked before its dependency. For the
same reason `UpToDateTheorem` has two conditions.

Most of these properties are also checked by a run, which shows that the
situations they are about occur; the theorem shows that the bounds did not matter.
`SerialAlone`, `DependenciesFirst` and `OutcomesFinal` are in no run of their own:
`suite` checks that `TestScheduler` implements `TestSuite`, whose guards contain
them. `RunsBounded`, `KeptOnlyByShort`, `RecordedOnce`, `LimitArmed` and `LockedExact` are
theorems only. `FenceAlone` is part of `JobQueue`, which `pool` checks and `QueueTheorem`
proves to be implemented. `AutoMoc` takes its jobs from `JobQueue`, so this theorem is
what lets `AutoMocProofs` speak of the program with its threads.

### The argument for TestScheduler

None of the properties is inductive as it stands. `Invariant` is the conjunction
of parts, each shown to be preserved from `Typed`, `Places` and itself. The clock is
no part of it: `HandlerSteps` says that the program's steps are steps of
`HandlerStep` and that the clock's change none of the handler's fields.

- `Typed` has the sets that the fields range over, with integers for the counts that
  are taken from.

- `Places` says where a test can be: the list, the running map and the finished
  map are disjoint, a test with a process is running, a test being launched is
  running and has no process, and a loop is never entered once the stop time has been
  seen.
  Every other part uses it.
- `Capacity` strengthens `SlotsExact`. Inside the loop `numToStart` plus the slots
  in use is at most `-j`, which is what lets the next test be started without
  looking at `RunningCount` again. During a launch the slots of the test are
  already counted in `RunningCount` and not yet taken off `numToStart`, so the
  sum is larger by just those; a launch that fails gives them back inside the
  loop, and the sum only falls.
- `Serial` strengthens `SerialAlone` by "the flag is set if and only if a serial
  test is in the running map". One direction stops others from being started,
  the other is needed because the flag is cleared by whichever serial test ends.
- `LocksExact` is inductive given `Places`: a test takes its locks only when none
  is taken, and the running map changes together with the lock set.
- `Waiting` strengthens `DependenciesFirst`: the set a test in the list waits for
  contains all its dependencies that are not finished. Each finish erases one test
  from every set, also when the loop is in the middle of its copy of the list.
- `RunsCounted` strengthens `RunsBounded`: while a test has a process, the runs
  made and the runs left add up to the count plus one.
- `SetupsSucceeded` needs `Waiting`: a setup is a dependency, so it has finished
  before the test starts, and only a test that is running can come to fail.

Two theorems use more than the invariant. `StopTheorem` needs `Clock`: after the stop
time the tests that have a process, are being launched or are still in the loop are
among those that were `underWay` then. The reason is `BusyStep`: only `StartNextTests`
takes up tests, and it has looked at the clock before. `TypeCorrect` follows from what
the counts count (`CountsUnsigned`): `RunningCount` and the locked slots are
cardinalities by `SlotsExact` and `ResourcesExact`, and by `Capacity` a test is only
launched when `numToStart` covers it.

Most actions leave most parts alone. Two lemmas say so once: `HoldStep` lists what
a step may do to the running map and what goes with it (nothing, a test joins, a
test leaves), and `HistoryStep` does this for the start counts and outcomes.

The part on resources adds three invariants of the same shape. `ResourcesCounted`
says that the pairs counted by `ResourcesExact` form a finite set, without which
cardinalities say nothing; `ProcessorsOwned` adds that only running tests own
processors, so that the end of a test returns all of them. `KeptOnlyByShort` follows
resources through every way in which a start is given up: all return them but the
one for lack of processors, so what a test that does not run can hold is known, and
it is nothing under the condition of `HeldTheorem`.

The part on completion has two more. `Recorded` is the inductive form of
`ResultsExact`: `FinishTestProcess` puts a test that is over in one of the two
lists, and `EndTest` makes an entry when the run is not to be repeated; a test that
is to be repeated is either started again or, where the code departs from it,
released without an entry. So the lists are right in all cases (`RecordedOnce`) and
the entries under a condition (`RecordedAlways`). For `AllTestsCompleted`,
`Everywhere` says that each test is in one of the lists and waits for nothing but
unfinished dependencies, and `NothingForgotten` that, while no child runs, either
the load allows no test at all (`Overloaded`), which the loop keeps in mind and
starts the timer for, or there is room for every test (`RoomForAll`), and those that
were passed over each wait for one that was passed over before. When the program
waits with neither a child nor a timer, the tests left are thus a set in which each
waits for another one of the set: a cycle of dependencies, for which `RunTests`
would have returned early. `LoadForAll` makes it one of the two cases: with tests of
different sizes the load may allow one that has to wait and refuse another.
`Ordered` has dependencies looked at first; without `NothingKept` a test may be
passed over for resources that no running test holds.

The refinement theorem of `TestSchedulerProofs` maps the fields to one state for each test
(`TestState`). `TestStarts` is a `Start` of `TestSuite`: the test joined the running
map one step earlier, so all that `Start` asks for is in `Invariant`.
`TestFinishes` is a `Finish`. `TestFailsToStart` is a `NotRun`. All other steps
change nothing there: the bookkeeping of the loop, and repeated runs.

The invariant was an invariant of `suite` and of `complete` before it was proved.

### The argument for TestResume

The lemmas about steps of `TestScheduler` are used again as they stand; new is a
kill. `CrashStarts` says that it leads to a state like an initial one, whatever the
checkpoint file has, and that `RunTests` with `Failover` then moves the listed tests
to the finished map and out of `Tests`. A test declared to be over this way holds
nothing, was not started by this invocation and is in no list of results, so
`Invariant`, `ResourcesCounted` and `ProcessorsOwned` are kept. `Listed` says that the
file and the finished map change together between `RunTests` and the end of the
program; this is `CheckpointExact`, and with `NoneStarted` (no test of the finished
map is in the running map) no step starts a listed test.

`ResumeCompletion` has the same invariant as `CompletionTheorem`, which a kill
establishes anew. What a resumption adds is `CheckResume`: it takes the listed tests
out of `Tests`, but not out of the dependencies of the others, so `Everywhere` (a test
that is left waits only for unfinished ones) survives it where none of those left
depends on a listed one. `NoneStranded` says this of each state in which an
invocation begins; it is a hypothesis of the theorem on the behaviour, and true of
every behaviour without `-F`, and of every suite without dependencies. Section 3 has
what happens without it.

### The argument for TestOrder

`Spec` is a straight line of two steps; its invariant (`IInv`) says that list,
dependencies, costs and order are the results of the functions on the suite, and that
the graph has no edge that leaves the list. What has to be shown is about the
functions. No induction theorem of the library can be used with the provers at hand,
so `DataLemmas` has induction in the form of sets: a set of numbers that has 0 and
with each number its successor has all (`BoundedRecursion`, `SetInduction`).

- *Cycles.* `Cyclic` speaks of a set in which each test depends on one of the set.
  `PredecessorCycle` turns this round: a smallest set in which each test is one that
  another depends on has that form as well. In the search from a root, whatever has been
  visited has all its dependencies visited or on the stack, and everything visited or
  stacked is the root or reached from it by visited tests. When the stack is empty and
  the root was not met, the visited tests are closed under dependencies and none has
  the root as one; if it was met, each of the tests on the way back is one that another
  depends on. The stack does empty in time: each test is expanded once and
  pushes at most as many as there are tests, so pops plus the length of the stack are
  bounded by the rounds given.
- *Fixtures.* While a round adds something it adds at least one test, so as many rounds
  as there are tests reach a list to which a round adds nothing, which is `Complete`.
  Any other complete list with the selected tests contains each round.
- *Levels.* `Fading`: in a graph without a cycle, if each of a chain of sets is made
  of tests that the one before depends on, the sets after as many as there are tests
  are empty, because what they had in common would be a cycle. It bounds
  the levels of the parallel order and the depth of `GetAllTestDependencies`.
- *Orders.* `AfterDepends(list)`: the tests of a list come after their dependencies,
  which are in it. The parallel order appends levels deepest first; a test on level n
  has its dependencies on deeper ones, as whatever a deeper level also has has been
  removed from n. Tests that failed last time stand in front of all levels, and are the
  exception that `DependenciesBefore` makes. The serial order appends for each test
  what `GetAllTestDependencies` returns, in which dependencies come first; appending
  only what is new (`AppendNew`) keeps this, and each test occurs once.

`FixturesAreOrdered` then needs only that `Depends` contains what fixtures ask for,
and that every dependency in the list stands before its test.

`PreparesScheduler` connects the module with `TestScheduler`, whose constants `Test`,
`Depends` and `Rank` are the list, the dependencies and the positions in `SortedTests`
that `TestOrder` computes: they meet the named assumptions there, and, but for
tests that failed last time in a parallel run, also `Ordered`.

### The argument for ResourcePacker

`SearchSolves`, by induction on the requirements left: for units sorted in *any* way,
the search finds something if and only if some choice of units fits, and what it finds
fits. That the order does not matter is what makes the two strategies equally
complete; `IncrementalSortCovers` says that each only moves units. The interesting
step is the pruning (`PlaceSolves`). Suppose a solution gives requirement r the unit
b, and the search has skipped b because the unit a before it has as many free slots.
`TakenSwap`: with a and b in each other's place the solution fits as well, and it
gives r the unit a. Repeated down to the first of the units with that number, this
leads to one that was tried.

The invariant is `TypeOK`, `LockedExact` and that nothing was refused. `LockedExact`
counts slots as pairs of a test and a slot of its requirements, so a grant adds and a
return takes away a disjoint set (`HeldGrant`). `AllocateEachExact` goes through the
requirements of a grant: those already taken and the next one are part of what fits,
so none is refused, and `DeallocateEachExact` likewise on the way back.
This is what `TestScheduler` assumes of the packer.

### The argument for TestProcess

- `Runs` relates the runs left, the repeats and the expressions still to be looked
  for.
- `OutputKept` strengthens `VerdictComplete`: while a run lasts, each text the
  child has written is in the pipe, in the line buffer or among the lines checked,
  and once the pipe is closed nothing is in between. A run that was killed may lose
  output, but its status is `Expired`. Each callback of libuv moves texts from one of
  these places to the next, in whatever order they come.
- `Limits` has the limit: `FirstRunMatch` (until a line has matched, the first
  run still looks for it; afterwards the alternate limit is the one in force),
  `TimerBound` (a timer that no line has set ends by the stop time) and `LimitArmed`
  (a run with a limit has its timer until it goes off).

### The argument for WorkerPool

`Invariant` of `WorkerPoolProofs` is `TypeOK` with four parts:

- `Counters`: each counter is the number of threads in certain places. A lemma
  about cardinalities (`CountMove`) says what a counter must do when one thread
  moves, and each section under the mutex is shown to do just that. `TypeOK` bounds
  the counters by the number of threads, so it is proved *from* `Counters`: no
  unsigned counter goes below zero.
- `Places`: the mutex belongs to the thread at `top`; a thread has a job exactly
  in the places where it should, and a thread at the barrier has a fence job;
  `fenceProcessing` is set if and only if some thread has a fence job, and only one
  has. The flag is cleared in two places, by the thread that set it, which is what
  the uniqueness is for.
- `Processes(w)`: handles and start requests of `w` exist only while its job is in
  `RunProcess`, and a request only when there are no handles.
- `Ends`: when `UVRequestEnd` has been sent, the pool is aborting and each thread has
  left its main loop or is about to see `Aborting` on its way in. This needs
  `Counters`: the sender saw `WorkersRunning` reach zero.

`CountersTheorem` and `LoopTheorem` follow. `FenceTheorem` uses in addition that a
fence job is begun only when `JobsProcessing` is zero, so by `Counters` no thread has
another job, and that no job is begun while the flag is set.

`QueueTheorem` maps the queue of the code to `pending`, and `Running` to the jobs of
threads that process one. A thread that waits at the barrier has taken its fence job
from the queue without having begun it; it counts as the front of `pending`, and by
`Places` there is at most one. The flag it has set keeps everybody else from the
queue until it has begun, which is `Start` of a fence job, then alone by `Counters`.
An abort clears the queue in the code at once and in the mapping likewise.
A push, a return and an abort map to the action of that name, all else to a stutter.

### The argument for AutoMoc

There are three layers, each an invariant from the one before it; `JobQueue` and not
`WorkerPool` is below them.

`Order` says where the jobs of a run can be. The job types have stages; the queue is
in the order of stages behind what is running, and two jobs run at a time only if
they parse different files or process different headers (`InOrder`). For this the
fences have to be in place when further jobs are pushed, which is `Fenced`.
`StagesTheorem` follows; so does, with `Loaded`, that each file a job looks up in the
parse cache has an entry there. Both hold whether the run fails or not.

`Sound` says what a run knows. `Times`: nothing is younger than the last run or
change. `CacheSound`: an entry of the cache file that counts as fresh says what the
file is like. `Progress`, for a run that has not failed: once no job of a stage is in
the pool, what the stage is for has been done: the parse results are right, the
mapping is the one wanted, the list of headers for `mocs_compilation.cpp` is that of
the mapping, the file has been written. The last of these is `CompilationExact`. A
failed or killed run leaves files behind that the next one judges by their times
alone, so the parts about the disk are shown for every step and not only for
successful runs.

`OutputsSound` adds the dependencies and settings: `Bare` (nothing is recorded where
nothing can be known), `CacheComplete` (fresh entries have all dependencies),
`SettingsSound` (outputs that are not older than `moc_predefs.h` have been made with
the settings in the settings file, which is removed before a run with other settings
makes anything), and `Making`: what is known of the dependencies, and that each
mapped header has its moc job in the pool or a current output. A dependency that has
been deleted is forgotten by the run that looks for it; this is harmless because moc
has to run for that header, and fails.

Both conditions of `UpToDateTheorem` are needed. If moc reports dependencies, a
header is parsed before moc has reported them, and a run that is broken off in
between leaves an output that looks current (`moc_stale`). A header the target does
not list may drop out of a run and come back, see section 3.

### The argument for FileLocks

`OwnedIsLocked` is preserved from `TypeOK` alone: five lemmas say what a push, a pop,
the end of a script, a release and a new lock do to the set of locked names, and
`OwnedStep` what a step of one process may do to owners of others.

`LockedIsOwned` is not inductive, and not true for all scripts. With
`~LockTwice` it holds together with two facts on each process: `Separate(p)`, no
file is in its pool by two names or in two scopes (so a lock that ends with its
scope is not needed by another one), and `CarefulRequest(p)`, the file it is about
to open is not in its pool, or it is being released. Opening and closing the file
then drops no lock that is kept. `ExclusiveTheorem` follows since a file has one
owner.

### Assumptions

The named assumptions, which TLC evaluates on the constants of each run.
`TestScheduler`: the set of tests is finite, dependencies and setups are tests and
setups are dependencies (`UpdateForFixtures` adds both), `-j` and PROCESSORS are at
least 1 (the code makes them so), a test's resource demand (which may be 0) and each unit's slots are
natural numbers, processors form a finite set, options have the values the code
gives them. Nothing is assumed of the order of the tests beyond that it is one, nor
that the dependency graph has no cycle: `RunTests` returns early if it has.
`TestResume`: the number of kills is a number. `TestOrder`: tests are numbered and
finitely many, suites are suites. `ResourcePacker`: units are numbered and finitely
many, each test that asks for resources has at least one requirement (the packer is
called for no others), and each requirement is a number, which may be 0 as the lexer of
RESOURCE_GROUPS takes any digits. `TestProcess`: the cases are tests,
and one with a TIMEOUT above 0 has it explicitly, as the code sets both at once.
`WorkerPool`: threads form a finite set, fence jobs are jobs, and a job's script is
a sequence of operations. `AutoMoc`: the project has finitely many files, the listed
headers are headers, a content says whether there is a macro and which files are named,
and no content is mistaken for a missing cache entry. Nothing is assumed about which
header includes which metadata, nor how files change. `FileLocks`: each name is of a file, and time limits are
numbers or none.

### What is only model-checked

- `EventuallyAllFinished`, `EventuallyDone`, `JobsAreTaken`, `AbortReturns`,
  `RunsEnd`, `TimeoutReturns`: liveness under fairness.
- Outside their conditions the other conditional theorems are false; the runs check
  those properties under constants that meet the conditions or come near them.
- `TargetDepends` (`ComponentsExact`, `BuildOrderSafe`, `CyclesRejected`,
  `SideEffectsKept`): its definitions are RECURSIVE operators, for which `tlapm` has
  no SMT backend; what they compute is checked on all inputs within the bounds.

## 5. Not modelled

The rest of the repository, see the table and `PROJECT.json`. In the modelled
components: the cost file as output, the reading of test files, the printing of
tests and logs, the measurement and environment handling of `cmCTestRunTest`,
decoding of output, a checkpoint made with another selection of tests; the bytes
that processes of the worker pool write; UIC jobs; the Windows half of file locks;
object libraries and language side effects of target dependencies. The generators
and the interpreter, by far the most of the source, translate text without state
that outlives a call, and TLA+ has little to say of them.

## 6. Plan

Done: the modules of section 2 with the runs of section 3 and the proofs of
section 4. Left, in this order:

1. Proofs: `UpToDate` for headers that are not listed but always included;
   `TargetDepends`, with Tarjan's algorithm as a function of its steps.
2. UIC jobs in `AutoMoc`, whose mappings come from the same parse.
3. `CostFile`: `ReadCostData` and `UpdateCostData` over several invocations, with
   changing selections and checkpoints.
4. `ProcessChain` (`cmUVProcessChain.cxx`): pipelines of children.
5. `LinkDepends`: the link line against a reference definition.
6. Generator expressions' cycle checker, variable watches.
