----------------------------- MODULE TestProcess -----------------------------
(***************************************************************************)
(* One test while it runs: the child process and its output pipe, the      *)
(* libuv callbacks of cmProcess (OnRead, OnExit, OnTimeout), and what      *)
(* cmCTestRunTest makes of them: the time limit, the verdict, the reruns   *)
(* of --repeat, and the stop time.                                         *)
(*                                                                         *)
(* Three things end independently: the child exits, the pipe is closed by  *)
(* the last process that holds it (a descendant may outlive the child),    *)
(* and the timer goes off.  libuv reports them in any order, each callback *)
(* runs to completion, and any of them may be the one that finishes the    *)
(* test.  TestScheduler takes from here that each run ends with one status *)
(* and may end for the stop time.                                          *)
(*                                                                         *)
(* Output is a sequence of pieces: text that one of the test's regular     *)
(* expressions would match (or none, "plain"), and line ends.  A regular   *)
(* expression is true of ProcessOutput if its text is there.               *)
(*                                                                         *)
(* Time is counted down: `timer` to the timer's expiry, `untilStop` to the *)
(* stop time.  A callback may come later than it is due.                   *)
(*                                                                         *)
(* X_Something is a mutant of X (see TestScheduler).                       *)
(***************************************************************************)
EXTENDS Integers, Sequences, SequencesExt, FiniteSetsExt

CONSTANT Cases  \* the tests to try, each with the options of ctest

\* "timeout" matches TIMEOUT_AFTER_MATCH, "required" PASS_REGULAR_EXPRESSION,
\* "error" FAIL_REGULAR_EXPRESSION and "skip" SKIP_REGULAR_EXPRESSION.
AllTexts == {"plain", "timeout", "required", "error", "skip"}

LineEnd == "line end"
Signal == -2    \* in place of an exit code: the child was ended by a signal
Off == -1       \* the timer is not active

TestCase == [
  texts : SUBSET AllTexts,                 \* what the test may print
  maxPieces : Nat,                         \* bound on the output of one run
  exitCodes : SUBSET Nat,                  \* of the child
  hasDescendants : BOOLEAN,                \* may a descendant hold the pipe?
  regexes : SUBSET (AllTexts \ {"plain"}), \* the test's regular expressions
  skipReturnCode : SUBSET Nat,             \* SKIP_RETURN_CODE, {} when not set
  willFail : BOOLEAN,                      \* WILL_FAIL
  timeout : Nat,                           \* TIMEOUT, 0 when not set
  explicitTimeout : BOOLEAN,               \* is TIMEOUT set?
  alternateTimeout : Nat,                  \* seconds of TIMEOUT_AFTER_MATCH
  defaultTimeout : Nat \ {0},              \* --timeout or its default
  hasStopTime : BOOLEAN,                   \* --stop-time given
  stopTime : Nat,                          \* from the start of ctest to it
  repeatMode : {"Never", "UntilFail", "UntilPass", "AfterTimeout"},
  repeatCount : Nat \ {0}]                 \* --repeat

ASSUME CasesAssumption ==
  /\ Cases \subseteq TestCase
  /\ \A c \in Cases : c.timeout > 0 => c.explicitTimeout

VARIABLES
  test,                 \* the test of this behaviour
  pc,                   \* "next", "starting", "running" or "done"
  \* The child and the pipe.
  child,                \* "alive" or "ended"
  holder,               \* does a descendant hold the pipe?
  exit,                 \* how the child ended, once it has
  pipe,                 \* pieces written and not yet read
  written,              \* texts written in this run
  pieces,               \* number of pieces written in this run
  \* cmProcess.
  processState,         \* ProcessState: "Executing", "Exited", ...
  readHandleClosed,     \* ReadHandleClosed
  processHandleClosed,  \* ProcessHandleClosed
  output,               \* Output: texts of the line that is not complete yet
  processTimeout,       \* Timeout
  timer,                \* Timer: time to its expiry, or Off
  killed,               \* did OnTimeout kill the child? (history)
  \* cmCTestRunTest.
  processOutput,        \* ProcessOutput: texts of the complete lines
  timeoutIsForStopTime, \* TimeoutIsForStopTime
  timeoutRegexes,       \* TimeoutRegularExpressions is not empty
  runsLeft,             \* NumberOfRunsLeft
  last,                 \* the run that ended last: its status, the output it
                        \* was judged by, the output written, was it killed?
  \* The scheduler and the clock.
  stopTimePassed,       \* StopTimePassed
  untilStop             \* time left to the stop time

childVars == <<child, holder, exit, pipe, written, pieces>>
processVars == <<processState, readHandleClosed, processHandleClosed, output,
                 processTimeout, timer, killed>>
runVars == <<childVars, processVars, processOutput, timeoutIsForStopTime>>
vars == <<test, pc, runVars, timeoutRegexes, runsLeft, last, stopTimePassed, untilStop>>

-----------------------------------------------------------------------------
\* StartTest: the stop time comes before the test's own time limit.
StopComesFirst ==
  test.hasStopTime /\ (test.timeout = 0 \/ untilStop < test.timeout)

TestTimeOut_OwnLimit == test.timeout

TestTimeOut == IF StopComesFirst THEN untilStop ELSE test.timeout

\* ForkProcess: a limit of 0 means none if TIMEOUT was set to it, and
\* otherwise that ctest's own limit applies.
TimeLimit ==
  IF TestTimeOut > 0 \/ test.explicitTimeout THEN TestTimeOut ELSE test.defaultTimeout

\* StartTimer, for a timer that now has the value t.
StartTimer(limit, t) == IF limit # 0 \/ ~test.explicitTimeout THEN limit ELSE t

\* EndTest: what the state of the process and the output amount to.
Verdict(state, code, seen) ==
  LET missing == "required" \in test.regexes \ seen
      forceFail == missing \/ "error" \in test.regexes \cap seen
      forceSkip == "skip" \in test.regexes \cap seen
      success == ~forceFail /\ (code = 0 \/ "required" \in test.regexes)
  IN IF state = "Expired" THEN "TIMEOUT"
     ELSE IF state = "Exception" THEN "FAILED"
     ELSE IF forceSkip \/ code \in test.skipReturnCode THEN "SKIPPED"
     ELSE IF success # test.willFail THEN "COMPLETED" ELSE "FAILED"

NeedsToRepeat(status) ==
  /\ runsLeft - 1 # 0
  /\ status # "SKIPPED"
  /\ \/ test.repeatMode = "UntilFail" /\ status = "COMPLETED"
     \/ test.repeatMode = "UntilPass" /\ status # "COMPLETED"
     \/ test.repeatMode = "AfterTimeout" /\ status = "TIMEOUT"

-----------------------------------------------------------------------------
Init ==
  /\ test \in Cases
  /\ pc = "next"
  /\ child = "ended" /\ holder = FALSE /\ exit = 0
  /\ pipe = <<>> /\ written = {} /\ pieces = 0
  /\ processState = "Starting"
  /\ readHandleClosed = FALSE /\ processHandleClosed = FALSE
  /\ output = {} /\ processTimeout = 0 /\ timer = Off /\ killed = FALSE
  /\ processOutput = {} /\ timeoutIsForStopTime = FALSE
  /\ timeoutRegexes = ("timeout" \in test.regexes)
  /\ runsLeft = IF test.repeatMode = "Never" THEN 1 ELSE test.repeatCount
  /\ last = [status |-> "NOT_RUN", seen |-> {}, written |-> {}, killed |-> FALSE]
  /\ stopTimePassed = FALSE
  /\ untilStop = test.stopTime

\* The scheduler's check before it starts tests; the test itself is started a
\* little later, after the tests before it in the list.
CheckStopTimePassed ==
  /\ pc = "next"
  /\ stopTimePassed' = (test.hasStopTime /\ untilStop = 0)
  /\ pc' = IF stopTimePassed' THEN "done" ELSE "starting"
  /\ UNCHANGED <<test, runVars, timeoutRegexes, runsLeft, last, untilStop>>

\* StartTest and cmProcess::StartProcess, for a new cmProcess.
StartProcess ==
  /\ pc' = "running"
  /\ child' = "alive" /\ holder' = FALSE /\ exit' = 0
  /\ pipe' = <<>> /\ written' = {} /\ pieces' = 0
  /\ processState' = "Executing"
  /\ readHandleClosed' = FALSE /\ processHandleClosed' = FALSE
  /\ output' = {} /\ killed' = FALSE
  /\ processTimeout' = TimeLimit
  /\ timer' = StartTimer(TimeLimit, Off)
  /\ processOutput' = {}
  /\ timeoutIsForStopTime' = StopComesFirst

StartTest ==
  /\ pc = "starting"
  /\ StartProcess
  /\ UNCHANGED <<test, timeoutRegexes, runsLeft, last, stopTimePassed, untilStop>>

-----------------------------------------------------------------------------
\* A timeout that was set for the stop time means that it has come.
StopTimeReached(state) == timeoutIsForStopTime /\ state = "Expired"

\* Finish, FinalizeTest and FinishTestProcess: the run is judged, and the test
\* is run again or is over.
Finish(state, seen) ==
  LET status == Verdict(state, exit, seen)
      passed == stopTimePassed \/ StopTimeReached(state)
  IN /\ last' = [status |-> status, seen |-> seen, written |-> written, killed |-> killed]
     /\ runsLeft' = runsLeft - 1
     /\ stopTimePassed' = passed
     /\ IF NeedsToRepeat(status) /\ ~passed
          THEN StartProcess
          ELSE pc' = "done" /\ UNCHANGED runVars
     /\ UNCHANGED untilStop

TimeoutMatches_OpenLine(lines) == timeoutRegexes /\ "timeout" \in output

\* The first line that TIMEOUT_AFTER_MATCH matches restarts the timer, and no
\* later line does.
TimeoutMatches(lines) == timeoutRegexes /\ "timeout" \in lines

CheckOutput(lines) ==
  /\ processOutput' = processOutput \cup lines
  /\ IF TimeoutMatches(lines)
       THEN /\ processTimeout' = test.alternateTimeout
            /\ timer' = StartTimer(test.alternateTimeout, timer)
       ELSE UNCHANGED <<processTimeout, timer>>

\* OnRead: the first n pieces in the pipe arrive.
TextsIn(seq) == ToSet(seq) \ {LineEnd}

OnRead(n) ==
  /\ pc = "running" /\ ~readHandleClosed
  /\ n \in 1 .. Len(pipe)
  /\ LET end == Max({0} \cup {i \in 1 .. n : pipe[i] = LineEnd})
         lines == IF end = 0 THEN {} ELSE output \cup TextsIn(SubSeq(pipe, 1, end))
         rest == TextsIn(SubSeq(pipe, end + 1, n))
     IN /\ CheckOutput(lines)
        /\ timeoutRegexes' = (timeoutRegexes /\ ~TimeoutMatches(lines))
        /\ output' = IF end = 0 THEN output \cup rest ELSE rest
  /\ pipe' = SubSeq(pipe, n + 1, Len(pipe))
  /\ UNCHANGED <<test, pc, child, holder, exit, written, pieces, processState,
                 readHandleClosed, processHandleClosed, killed,
                 timeoutIsForStopTime, runsLeft, last, stopTimePassed, untilStop>>

\* OnRead at the end of the pipe.  An incomplete last line counts as a line.
OnReadEnd ==
  /\ pc = "running" /\ ~readHandleClosed
  /\ pipe = <<>> /\ child = "ended" /\ ~holder
  /\ timeoutRegexes' = (timeoutRegexes /\ ~TimeoutMatches(output))
  /\ UNCHANGED test
  /\ IF processHandleClosed
       THEN Finish(processState, processOutput \cup output)
       ELSE /\ CheckOutput(output)
            /\ output' = {}
            /\ readHandleClosed' = TRUE
            /\ UNCHANGED <<pc, childVars, processState, processHandleClosed, killed,
                           timeoutIsForStopTime, runsLeft, last, stopTimePassed, untilStop>>

ReadingOver_Assumed == TRUE

\* The test goes on while somebody holds the pipe.
ReadingOver == readHandleClosed

\* An exit does not undo a timeout.
ExitState ==
  IF processState = "Expired" THEN "Expired"
  ELSE IF exit = Signal THEN "Exception" ELSE "Exited"

OnExit ==
  /\ pc = "running" /\ child = "ended" /\ ~processHandleClosed
  /\ IF ReadingOver
       THEN Finish(ExitState, processOutput)
       ELSE /\ processState' = ExitState
            /\ processHandleClosed' = TRUE
            /\ UNCHANGED <<pc, childVars, readHandleClosed, output, processTimeout,
                           timer, killed, processOutput, timeoutIsForStopTime,
                           runsLeft, last, stopTimePassed, untilStop>>
  /\ UNCHANGED <<test, timeoutRegexes>>

\* OnTimeout while the child has not been reaped: it is killed, nothing more is
\* read, and OnExit will finish the test.
KillChild ==
  /\ processState' = "Expired"
  /\ readHandleClosed' = TRUE
  /\ timer' = Off
  /\ killed' = TRUE
  /\ child' = "ended"
  /\ exit' = IF child = "alive" THEN Signal ELSE exit
  /\ UNCHANGED <<pc, holder, pipe, written, pieces, processHandleClosed, output,
                 processTimeout, processOutput, timeoutIsForStopTime, runsLeft,
                 last, stopTimePassed, untilStop>>

OnlyPipeOpen_Never == FALSE

OnlyPipeOpen == processHandleClosed /\ ~readHandleClosed

OnTimeout ==
  /\ pc = "running" /\ timer = 0
  /\ \/ ~processHandleClosed /\ KillChild
     \/ OnlyPipeOpen /\ Finish("Expired", processOutput)
  /\ UNCHANGED <<test, timeoutRegexes>>

-----------------------------------------------------------------------------
(* The environment: the test and its descendants, and the clock.           *)

\* Whoever holds the pipe prints something.
WriteOutput(piece) ==
  /\ pc = "running" /\ (child = "alive" \/ holder)
  /\ pieces < test.maxPieces
  /\ pieces' = pieces + 1
  /\ pipe' = Append(pipe, piece)
  /\ written' = written \cup ({piece} \ {LineEnd})
  /\ UNCHANGED <<test, pc, child, holder, exit, processVars, processOutput,
                 timeoutIsForStopTime, timeoutRegexes, runsLeft, last,
                 stopTimePassed, untilStop>>

ChildExits(code) ==
  /\ pc = "running" /\ child = "alive"
  /\ child' = "ended" /\ exit' = code
  /\ UNCHANGED <<test, pc, holder, pipe, written, pieces, processVars, processOutput,
                 timeoutIsForStopTime, timeoutRegexes, runsLeft, last,
                 stopTimePassed, untilStop>>

\* A descendant is started, or the last one ends.
HolderChanges ==
  /\ pc = "running" /\ test.hasDescendants
  /\ child = "alive" \/ holder
  /\ holder' = ~holder
  /\ UNCHANGED <<test, pc, child, exit, pipe, written, pieces, processVars, processOutput,
                 timeoutIsForStopTime, timeoutRegexes, runsLeft, last,
                 stopTimePassed, untilStop>>

Less(time) == IF time > 0 THEN time - 1 ELSE time

Tick ==
  /\ pc \in {"starting", "running"}
  /\ timer > 0 \/ untilStop > 0
  /\ timer' = Less(timer)
  /\ untilStop' = Less(untilStop)
  /\ UNCHANGED <<test, pc, childVars, processState, readHandleClosed, processHandleClosed,
                 output, processTimeout, killed, processOutput, timeoutIsForStopTime,
                 timeoutRegexes, runsLeft, last, stopTimePassed>>

Terminated == pc = "done" /\ UNCHANGED vars

Reading == (\E n \in 1 .. Len(pipe) : OnRead(n)) \/ OnReadEnd

Next ==
  \/ CheckStopTimePassed \/ StartTest
  \/ Reading \/ OnExit \/ OnTimeout
  \/ \E piece \in test.texts \cup {LineEnd} : WriteOutput(piece)
  \/ \E code \in test.exitCodes \cup {Signal} : ChildExits(code)
  \/ HolderChanges
  \/ Tick
  \/ Terminated

Spec == Init /\ [][Next]_vars

\* The event loop calls back and time goes on; the test and its descendants may
\* do nothing for ever.
FairSpec ==
  /\ Spec
  /\ WF_vars(CheckStopTimePassed \/ StartTest)
  /\ WF_vars(Reading) /\ WF_vars(OnExit) /\ WF_vars(OnTimeout) /\ WF_vars(Tick)

-----------------------------------------------------------------------------
(* Properties. *)

\* Types; a run that has not ended has at most one of its two handles closed.
TypeOK ==
  /\ pc \in {"next", "starting", "running", "done"}
  /\ child \in {"alive", "ended"} /\ holder \in BOOLEAN
  /\ exit \in test.exitCodes \cup {0, Signal}
  /\ pipe \in Seq(test.texts \cup {LineEnd})
  /\ written \in SUBSET test.texts /\ pieces \in 0 .. test.maxPieces
  /\ processState \in {"Starting", "Executing", "Exited", "Exception", "Expired"}
  /\ readHandleClosed \in BOOLEAN /\ processHandleClosed \in BOOLEAN
  /\ ~(readHandleClosed /\ processHandleClosed)
  /\ output \in SUBSET test.texts /\ processOutput \in SUBSET test.texts
  /\ processTimeout \in Nat /\ timer \in Nat \cup {Off}
  /\ killed \in BOOLEAN /\ timeoutIsForStopTime \in BOOLEAN
  /\ timeoutRegexes \in BOOLEAN /\ stopTimePassed \in BOOLEAN
  /\ runsLeft \in 0 .. test.repeatCount
  /\ untilStop \in Nat

\* A run that is not reported as timed out was not killed, and was judged by all
\* the output that it and its descendants ever wrote, incomplete last line
\* included, whichever of OnExit, OnRead and OnTimeout came last.
VerdictComplete ==
  last.status # "TIMEOUT" => last.seen = last.written /\ ~last.killed

\* Once a line has matched TIMEOUT_AFTER_MATCH, the run has the alternate time
\* limit (Help/prop_test/TIMEOUT_AFTER_MATCH.rst).
AlternateApplied ==
  pc = "running" /\ "timeout" \in test.regexes \cap processOutput
    => processTimeout = test.alternateTimeout

\* While the stop time lies ahead, no test's timer reaches beyond it
\* (Help/manual/ctest.1.rst, --stop-time).
StopTimeBinds ==
  pc = "running" /\ test.hasStopTime /\ untilStop > 0 /\ timer # Off
    => timer <= untilStop

\* Whatever the test does, if it has a time limit it is over some time, unless
\* it gets another run that has none.
EventuallyDone ==
  (pc = "running" /\ processTimeout # 0) ~> (pc = "done" \/ processTimeout = 0)
=============================================================================
