-------------------------- MODULE TestProcessProofs ---------------------------
(***************************************************************************)
(* Theorems about TestProcess, for any tests and any options of ctest: the *)
(* verdict of a run rests on all its output, and the two documented        *)
(* promises about the time limit hold wherever the code keeps them.        *)
(***************************************************************************)
EXTENDS TestProcess, FiniteSetTheorems, SequenceTheorems, TLAPS

-----------------------------------------------------------------------------
(* Operators.                                                              *)

\* A bounded set of natural numbers has a greatest element (the sets of the
\* numbers above its elements are well-founded by inclusion).
LEMMA MaxMember ==
  ASSUME NEW n \in Nat, NEW S \in SUBSET (0 .. n), S # {}
  PROVE  Max(S) \in S
<1> DEFINE above(i) == (i + 1) .. n
           T == {above(i) : i \in S}
<1>1. T \subseteq FiniteSubsetsOf(Nat) /\ T # {}
  <2>1. \A i \in S : above(i) \in SUBSET Nat /\ IsFiniteSet(above(i))
    <3> TAKE i \in S
    <3>1. i + 1 \in Int /\ n \in Int
      OBVIOUS
    <3> QED BY <3>1, FS_Interval
  <2> QED BY <2>1 DEF FiniteSubsetsOf
<1>2. IsWellFoundedOn(StrictSubsetOrdering(Nat), FiniteSubsetsOf(Nat))
  BY FS_StrictSubsetOrderingWellFounded
<1>3. PICK U \in T : \A V \in T : ~(<<V, U>> \in StrictSubsetOrdering(Nat))
  <2> HIDE DEF T
  <2> QED BY <1>1, <1>2, WFMin
<1>4. PICK i \in S : U = above(i)
  OBVIOUS
<1>5. \A j \in S : i >= j
  <2> SUFFICES ASSUME NEW j \in S, j > i PROVE FALSE
    OBVIOUS
  <2>1. /\ above(j) \subseteq above(i) /\ above(j) # above(i)
        /\ above(j) \in SUBSET Nat /\ above(i) \in SUBSET Nat
    <3>1. j \in above(i) /\ j \notin above(j)
      OBVIOUS
    <3> QED BY <3>1
  <2> QED BY <1>3, <1>4, <2>1, ZenonT(30) DEF StrictSubsetOrdering
<1> QED BY <1>5 DEF Max

\* The texts of a part of the pipe.
LEMMA TextsOfPart ==
  ASSUME NEW S, NEW s \in Seq(S), NEW a \in Nat \ {0}, NEW b \in 0 .. Len(s)
  PROVE  TextsIn(SubSeq(s, a, b)) = {s[i] : i \in a .. b} \ {LineEnd}
<1>1. \A i \in a .. b : s[i] \in S
  OBVIOUS
<1>2. /\ SubSeq(s, a, b) \in Seq(S)
      /\ Len(SubSeq(s, a, b)) = IF a <= b THEN b - a + 1 ELSE 0
      /\ \A i \in 1 .. b - a + 1 : SubSeq(s, a, b)[i] = s[a + i - 1]
  BY <1>1, SubSeqProperties
<1> DEFINE part == SubSeq(s, a, b)
<1>3. DOMAIN part = 1 .. (b - a + 1)
  BY <1>2
<1>4. ASSUME NEW x \in ToSet(part) PROVE x \in {s[i] : i \in a .. b}
  <2>1. PICK k \in 1 .. (b - a + 1) : x = part[k]
    BY <1>3, <1>4 DEF ToSet
  <2>2. a + k - 1 \in a .. b /\ x = s[a + k - 1]
    BY <1>2, <2>1
  <2> QED BY <2>2
<1>5. ASSUME NEW i \in a .. b PROVE s[i] \in ToSet(part)
  <2> DEFINE k == i - a + 1
  <2>1. k \in 1 .. (b - a + 1) /\ a + k - 1 = i
    OBVIOUS
  <2>2. part[k] = s[i]
    BY <1>2, <2>1
  <2> QED BY <1>3, <2>1, <2>2 DEF ToSet
<1>6. ToSet(part) = {s[i] : i \in a .. b}
  BY <1>4, <1>5
<1> QED BY <1>6 DEF TextsIn

LEMMA TextsOfAll ==
  ASSUME NEW S, NEW s \in Seq(S)
  PROVE  TextsIn(s) = {s[i] : i \in 1 .. Len(s)} \ {LineEnd}
BY DEF TextsIn, ToSet

\* What OnRead makes of the first n pieces: complete lines and the rest.
LinesOf(n) ==
  LET end == Max({0} \cup {i \in 1 .. n : pipe[i] = LineEnd})
  IN IF end = 0 THEN {} ELSE output \cup TextsIn(SubSeq(pipe, 1, end))

\* Nothing that is in the pipe or in Output is lost by a read.
LEMMA ReadKeepsTexts ==
  ASSUME TypeOK, NEW n \in 1 .. Len(pipe), OnRead(n)
  PROVE  /\ CheckOutput(LinesOf(n))
         /\ timeoutRegexes' = (timeoutRegexes /\ ~TimeoutMatches(LinesOf(n)))
         /\ LinesOf(n) \cup output' \cup TextsIn(pipe') = output \cup TextsIn(pipe)
<1> DEFINE ends == {0} \cup {i \in 1 .. n : pipe[i] = LineEnd}
           end == Max(ends)
           Piece == test.texts \cup {LineEnd}
<1>1. pipe \in Seq(Piece) /\ Len(pipe) \in Nat
  BY DEF TypeOK
<1>2. end \in 0 .. n
  <2>1. n \in Nat /\ ends \in SUBSET (0 .. n) /\ ends # {}
    OBVIOUS
  <2> HIDE DEF ends
  <2> QED BY <2>1, MaxMember
<1>3. /\ CheckOutput(LinesOf(n))
      /\ timeoutRegexes' = (timeoutRegexes /\ ~TimeoutMatches(LinesOf(n)))
  BY DEF OnRead, LinesOf
<1>4. /\ output' = IF end = 0 THEN output \cup TextsIn(SubSeq(pipe, end + 1, n))
                   ELSE TextsIn(SubSeq(pipe, end + 1, n))
      /\ pipe' = SubSeq(pipe, n + 1, Len(pipe))
  BY DEF OnRead
<1>5. LinesOf(n) = IF end = 0 THEN {} ELSE output \cup TextsIn(SubSeq(pipe, 1, end))
  BY DEF LinesOf
<1> HIDE DEF end, Piece
<1> DEFINE T(a, b) == {pipe[i] : i \in a .. b} \ {LineEnd}
<1>6. /\ TextsIn(SubSeq(pipe, 1, end)) = T(1, end)
      /\ TextsIn(SubSeq(pipe, end + 1, n)) = T(end + 1, n)
      /\ TextsIn(pipe') = T(n + 1, Len(pipe))
  <2>1. /\ end \in 0 .. Len(pipe) /\ n \in 0 .. Len(pipe) /\ Len(pipe) \in 0 .. Len(pipe)
        /\ 1 \in Nat \ {0} /\ end + 1 \in Nat \ {0} /\ n + 1 \in Nat \ {0}
    BY <1>1, <1>2
  <2> QED BY <1>1, <1>4, <2>1, TextsOfPart
<1>7. TextsIn(pipe) = T(1, Len(pipe))
  BY <1>1, TextsOfAll
<1>8. 1 .. Len(pipe) = (1 .. end) \cup ((end + 1) .. n) \cup ((n + 1) .. Len(pipe))
  BY <1>1, <1>2
<1>9. T(1, Len(pipe)) = T(1, end) \cup T(end + 1, n) \cup T(n + 1, Len(pipe))
  BY <1>8
<1>10. end = 0 => T(1, end) = {}
  OBVIOUS
<1> QED BY <1>3, <1>4, <1>5, <1>6, <1>7, <1>9, <1>10

\* A piece that is written enters the pipe behind the others.
LEMMA WriteAddsText ==
  ASSUME NEW S, NEW s \in Seq(S), NEW x \in S
  PROVE  TextsIn(Append(s, x)) = TextsIn(s) \cup ({x} \ {LineEnd})
<1>1. /\ Append(s, x) \in Seq(S) /\ Len(Append(s, x)) = Len(s) + 1
      /\ \A i \in 1 .. Len(s) : Append(s, x)[i] = s[i]
      /\ Append(s, x)[Len(s) + 1] = x /\ Len(s) \in Nat
  OBVIOUS
<1>2. 1 .. Len(Append(s, x)) = (1 .. Len(s)) \cup {Len(s) + 1}
  BY <1>1
<1>3. {Append(s, x)[i] : i \in 1 .. Len(Append(s, x))} = {s[i] : i \in 1 .. Len(s)} \cup {x}
  BY <1>1, <1>2
<1>4. /\ TextsIn(s) = {s[i] : i \in 1 .. Len(s)} \ {LineEnd}
      /\ TextsIn(Append(s, x))
           = {Append(s, x)[i] : i \in 1 .. Len(Append(s, x))} \ {LineEnd}
  BY <1>1, TextsOfAll
<1> QED BY <1>3, <1>4

\* What the fields of the test are.
LEMMA CaseType ==
  ASSUME test \in Cases
  PROVE  /\ test.texts \subseteq AllTexts /\ LineEnd \notin test.texts
         /\ test.maxPieces \in Nat
         /\ test.timeout \in Nat /\ test.alternateTimeout \in Nat
         /\ test.defaultTimeout \in Nat \ {0}
         /\ test.explicitTimeout \in BOOLEAN /\ test.hasStopTime \in BOOLEAN
         /\ test.timeout > 0 => test.explicitTimeout
         /\ test.stopTime \in Nat /\ test.repeatCount \in Nat \ {0}
BY CasesAssumption DEF TestCase, AllTexts, LineEnd

\* The ways in which a run ends.
RunsAgain(status) == StartProcess /\ NeedsToRepeat(status) /\ ~stopTimePassed'
RunIsLast == pc' = "done" /\ UNCHANGED runVars

LEMMA FinishCases ==
  ASSUME NEW state, NEW seen, Finish(state, seen)
  PROVE  LET status == Verdict(state, exit, seen)
         IN /\ last' = [status |-> status, seen |-> seen, written |-> written,
                        killed |-> killed]
            /\ runsLeft' = runsLeft - 1
            /\ stopTimePassed' \in BOOLEAN \cup {stopTimePassed}
            /\ untilStop' = untilStop
            /\ RunsAgain(status) \/ RunIsLast
BY DEF Finish, RunsAgain, RunIsLast, StopTimeReached

-----------------------------------------------------------------------------
(* Types.                                                                  *)

\* The runs that --repeat allows the test.
AllowedRuns == IF test.repeatMode = "Never" THEN 1 ELSE test.repeatCount

\* The test and its runs; TIMEOUT_AFTER_MATCH is looked for from the start, and
\* until a line has matched it.
Runs ==
  /\ test \in Cases
  /\ runsLeft <= AllowedRuns
  /\ pc # "done" => runsLeft >= 1
  /\ pc \in {"next", "starting"} =>
       timer = Off /\ runsLeft = AllowedRuns /\ (timeoutRegexes <=> "timeout" \in test.regexes)
  /\ timeoutRegexes => "timeout" \in test.regexes

LEMMA TimeLimitType ==
  ASSUME test \in Cases, untilStop \in Nat
  PROVE  TimeLimit \in Nat /\ StopComesFirst \in BOOLEAN
BY CaseType DEF TimeLimit, TestTimeOut, StopComesFirst

\* A new process.
LEMMA StartProcessType ==
  ASSUME TypeOK, test \in Cases, StartProcess,
         UNCHANGED <<test, untilStop>>,
         runsLeft' \in 0 .. test.repeatCount,
         timeoutRegexes' \in BOOLEAN, stopTimePassed' \in BOOLEAN
  PROVE  TypeOK'
<1>1. TimeLimit \in Nat /\ StopComesFirst \in BOOLEAN
  BY TimeLimitType DEF TypeOK
<1>2. timer' \in Nat \cup {Off}
  BY <1>1 DEF StartProcess, StartTimer, Off
<1>3. pieces' \in 0 .. test.maxPieces
  BY CaseType DEF StartProcess
<1>4. pipe' \in Seq(test.texts \cup {LineEnd}) /\ timeoutIsForStopTime' \in BOOLEAN
  BY <1>1 DEF StartProcess
<1>5. /\ pc' = "running" /\ child' = "alive" /\ holder' = FALSE /\ exit' = 0
      /\ written' = {} /\ processState' = "Executing"
      /\ readHandleClosed' = FALSE /\ processHandleClosed' = FALSE
      /\ output' = {} /\ killed' = FALSE /\ processTimeout' \in Nat /\ processOutput' = {}
  BY <1>1 DEF StartProcess
<1>6. untilStop' \in Nat /\ test' = test
  BY DEF TypeOK
<1> QED BY <1>2, <1>3, <1>4, <1>5, <1>6 DEF TypeOK

LEMMA FinishType ==
  ASSUME TypeOK, Runs, pc = "running", NEW state, NEW seen, Finish(state, seen),
         UNCHANGED test, timeoutRegexes' \in BOOLEAN
  PROVE  TypeOK'
<1>1. runsLeft' \in 0 .. test.repeatCount
  BY FinishCases, CaseType DEF TypeOK, Runs
<1>2. stopTimePassed' \in BOOLEAN
  BY FinishCases DEF TypeOK
<1>3. CASE StartProcess
  BY <1>1, <1>2, <1>3, FinishCases, StartProcessType DEF Runs
<1>4. CASE RunIsLast
  <2>1. untilStop' = untilStop
    BY FinishCases
  <2> QED BY <1>1, <1>2, <1>4, <2>1
          DEF RunIsLast, runVars, childVars, processVars, TypeOK
<1> QED BY <1>3, <1>4, FinishCases DEF RunsAgain

LEMMA FinishRuns ==
  ASSUME TypeOK, Runs, pc = "running", NEW state, NEW seen, Finish(state, seen),
         UNCHANGED test, (timeoutRegexes' => timeoutRegexes)
  PROVE  Runs'
<1>1. runsLeft' = runsLeft - 1 /\ runsLeft \in Nat /\ AllowedRuns' = AllowedRuns
  BY FinishCases DEF TypeOK, AllowedRuns
<1>2. runsLeft' <= AllowedRuns'
  BY <1>1, CaseType DEF Runs, AllowedRuns
<1>3. CASE StartProcess /\ runsLeft - 1 # 0
  <2>1. pc' = "running"
    BY <1>3 DEF StartProcess
  <2> QED BY <1>1, <1>2, <1>3, <2>1 DEF Runs
<1>4. CASE RunIsLast
  BY <1>1, <1>2, <1>4 DEF RunIsLast, Runs
<1> QED BY <1>3, <1>4, FinishCases DEF RunsAgain, NeedsToRepeat

\* Lines that are checked.
LEMMA CheckOutputType ==
  ASSUME TypeOK, test \in Cases, NEW lines \in SUBSET test.texts, CheckOutput(lines)
  PROVE  /\ processOutput' \in SUBSET test.texts
         /\ processTimeout' \in Nat /\ timer' \in Nat \cup {Off}
<1>1. test.alternateTimeout \in Nat
  BY CaseType
<1>2. processTimeout \in Nat /\ timer \in Nat \cup {Off} /\ processOutput \in SUBSET test.texts
  BY DEF TypeOK
<1>3. StartTimer(test.alternateTimeout, timer) \in Nat \cup {Off}
  BY <1>1, <1>2 DEF StartTimer
<1> QED BY <1>1, <1>2, <1>3 DEF CheckOutput

LEMMA TypeRead ==
  ASSUME TypeOK, Runs, NEW n \in 1 .. Len(pipe), OnRead(n)
  PROVE  TypeOK'
<1>1. pipe \in Seq(test.texts \cup {LineEnd}) /\ LineEnd \notin test.texts
  BY CaseType DEF TypeOK, Runs
<1>2. TextsIn(pipe) \subseteq test.texts
  BY <1>1 DEF TextsIn, ToSet
<1>3. LinesOf(n) \in SUBSET test.texts /\ output' \in SUBSET test.texts
  BY <1>2, ReadKeepsTexts DEF TypeOK
<1>4. /\ processOutput' \in SUBSET test.texts
      /\ processTimeout' \in Nat /\ timer' \in Nat \cup {Off}
  BY <1>3, ReadKeepsTexts, CheckOutputType DEF Runs
<1>5. pipe' \in Seq(test.texts \cup {LineEnd})
  <2> DEFINE S == test.texts \cup {LineEnd}
  <2>1. /\ pipe' = SubSeq(pipe, n + 1, Len(pipe))
        /\ \A i \in n + 1 .. Len(pipe) : pipe[i] \in S
        /\ n + 1 \in Int /\ Len(pipe) \in Int
    BY <1>1 DEF OnRead
  <2> HIDE DEF S
  <2>2. pipe' \in Seq(S)
    BY <2>1, SubSeqProperties
  <2> QED BY <2>2 DEF S
<1>6. timeoutRegexes' \in BOOLEAN
  BY ReadKeepsTexts
<1>7. UNCHANGED <<test, pc, child, holder, exit, written, pieces, processState,
                 readHandleClosed, processHandleClosed, killed,
                 timeoutIsForStopTime, runsLeft, last, stopTimePassed, untilStop>>
  BY DEF OnRead
<1> QED BY <1>3, <1>4, <1>5, <1>6, <1>7 DEF TypeOK

LEMMA TypeStep ==
  ASSUME TypeOK, Runs, [Next]_vars
  PROVE  TypeOK'
<1>c. test \in Cases
  BY DEF Runs
<1>1. CASE CheckStopTimePassed
  BY <1>1, <1>c, CaseType DEF CheckStopTimePassed, TypeOK, runVars, childVars, processVars
<1>2. CASE StartTest
  BY <1>2, <1>c, StartProcessType DEF StartTest, TypeOK
<1>3. ASSUME NEW n \in 1 .. Len(pipe), OnRead(n) PROVE TypeOK'
  BY <1>3, TypeRead
<1>4. CASE OnReadEnd
  <2>1. timeoutRegexes' \in BOOLEAN /\ pc = "running" /\ test' = test
    BY <1>4 DEF OnReadEnd
  <2>2. CASE processHandleClosed
    BY <1>4, <2>1, <2>2, FinishType DEF OnReadEnd
  <2>3. CASE ~processHandleClosed
    <3>1. CheckOutput(output) /\ output \in SUBSET test.texts
      BY <1>4, <2>3 DEF OnReadEnd, TypeOK
    <3>2. /\ processOutput' \in SUBSET test.texts
          /\ processTimeout' \in Nat /\ timer' \in Nat \cup {Off}
      BY <1>c, <3>1, CheckOutputType
    <3> QED BY <1>4, <2>1, <2>3, <3>2 DEF OnReadEnd, TypeOK, childVars
  <2> QED BY <2>2, <2>3
<1>5. CASE OnExit
  <2>1. UNCHANGED <<test, timeoutRegexes>> /\ pc = "running"
    BY <1>5 DEF OnExit
  <2>2. CASE ReadingOver
    <3>1. timeoutRegexes' \in BOOLEAN
      BY <2>1 DEF TypeOK
    <3> QED BY <1>5, <2>1, <2>2, <3>1, FinishType DEF OnExit
  <2>3. CASE ~ReadingOver
    BY <1>5, <2>1, <2>3 DEF OnExit, ReadingOver, ExitState, TypeOK, childVars
  <2> QED BY <2>2, <2>3
<1>6. CASE OnTimeout
  <2>1. UNCHANGED <<test, timeoutRegexes>> /\ pc = "running"
    BY <1>6 DEF OnTimeout
  <2>2. CASE ~processHandleClosed /\ KillChild
    <3>1. timer' \in Nat \cup {Off} /\ exit' \in test.exitCodes \cup {0, Signal}
      BY <2>2 DEF KillChild, TypeOK
    <3> QED BY <2>1, <2>2, <3>1 DEF KillChild, TypeOK
  <2>3. CASE Finish("Expired", processOutput)
    <3>1. timeoutRegexes' \in BOOLEAN
      BY <2>1 DEF TypeOK
    <3> QED BY <2>1, <2>3, <3>1, FinishType
  <2> QED BY <1>6, <2>2, <2>3 DEF OnTimeout
<1>7. ASSUME NEW piece \in test.texts \cup {LineEnd}, WriteOutput(piece) PROVE TypeOK'
  <2>1. pipe' \in Seq(test.texts \cup {LineEnd}) /\ written' \in SUBSET test.texts
    BY <1>7 DEF WriteOutput, TypeOK
  <2>2. pieces' \in 0 .. test.maxPieces
    BY <1>7, <1>c, CaseType DEF WriteOutput, TypeOK
  <2> QED BY <1>7, <2>1, <2>2 DEF WriteOutput, TypeOK, processVars
<1>8. ASSUME NEW code \in test.exitCodes \cup {Signal}, ChildExits(code) PROVE TypeOK'
  BY <1>8 DEF ChildExits, TypeOK, processVars
<1>9. CASE HolderChanges
  BY <1>9 DEF HolderChanges, TypeOK, processVars
<1>10. CASE Tick
  <2>1. timer' \in Nat \cup {Off} /\ untilStop' \in Nat
    BY <1>10 DEF Tick, Less, TypeOK, Off
  <2> QED BY <1>10, <2>1 DEF Tick, TypeOK, childVars
<1>11. CASE UNCHANGED vars
  BY <1>11 DEF vars, runVars, childVars, processVars, TypeOK
<1> QED
  BY <1>1, <1>2, <1>3, <1>4, <1>5, <1>6, <1>7, <1>8, <1>9, <1>10, <1>11
  DEF Next, Reading, Terminated

\* TIMEOUT_AFTER_MATCH is looked for no longer once it was found.
LEMMA RunsStep ==
  ASSUME TypeOK, Runs, [Next]_vars
  PROVE  Runs'
<1> DEFINE Same == UNCHANGED <<test, pc, runsLeft>> /\ pc = "running"
<1>1. ASSUME Same, (timeoutRegexes' => timeoutRegexes) PROVE Runs'
  BY <1>1 DEF Runs, AllowedRuns
<1>2. CASE CheckStopTimePassed
  BY <1>2 DEF CheckStopTimePassed, Runs, AllowedRuns, runVars, processVars
<1>3. CASE StartTest
  BY <1>3 DEF StartTest, StartProcess, Runs, AllowedRuns
<1>4. ASSUME NEW n \in 1 .. Len(pipe), OnRead(n) PROVE Runs'
  <2>1. Same /\ (timeoutRegexes' => timeoutRegexes)
    BY <1>4 DEF OnRead, TypeOK
  <2> QED BY <1>1, <2>1
<1>5. CASE OnReadEnd
  <2>1. (timeoutRegexes' => timeoutRegexes) /\ pc = "running" /\ test' = test
    BY <1>5 DEF OnReadEnd, TypeOK
  <2>2. CASE processHandleClosed
    BY <1>5, <2>1, <2>2, FinishRuns DEF OnReadEnd
  <2>3. CASE ~processHandleClosed
    BY <1>1, <1>5, <2>1, <2>3 DEF OnReadEnd
  <2> QED BY <2>2, <2>3
<1>6. CASE OnExit
  <2>1. (timeoutRegexes' => timeoutRegexes) /\ pc = "running" /\ test' = test
    BY <1>6 DEF OnExit
  <2>2. CASE ReadingOver
    BY <1>6, <2>1, <2>2, FinishRuns DEF OnExit
  <2>3. CASE ~ReadingOver
    BY <1>1, <1>6, <2>1, <2>3 DEF OnExit
  <2> QED BY <2>2, <2>3
<1>7. CASE OnTimeout
  <2>1. (timeoutRegexes' => timeoutRegexes) /\ pc = "running" /\ test' = test
    BY <1>7 DEF OnTimeout
  <2>2. CASE KillChild
    BY <1>1, <2>1, <2>2 DEF KillChild
  <2>3. CASE Finish("Expired", processOutput)
    BY <2>1, <2>3, FinishRuns
  <2> QED BY <1>7, <2>2, <2>3 DEF OnTimeout
<1>8. CASE \/ \E piece \in test.texts \cup {LineEnd} : WriteOutput(piece)
           \/ \E code \in test.exitCodes \cup {Signal} : ChildExits(code)
           \/ HolderChanges
  BY <1>1, <1>8 DEF WriteOutput, ChildExits, HolderChanges
<1>9. CASE Tick
  BY <1>9 DEF Tick, Less, Runs, AllowedRuns, Off
<1>10. CASE UNCHANGED vars
  BY <1>10 DEF vars, runVars, processVars, Runs, AllowedRuns
<1> QED
  BY <1>2, <1>3, <1>4, <1>5, <1>6, <1>7, <1>8, <1>9, <1>10
  DEF Next, Reading, Terminated

LEMMA TypeInitially == Init => TypeOK /\ Runs
<1> SUFFICES ASSUME Init PROVE TypeOK /\ Runs
  OBVIOUS
<1>1. test \in Cases
  BY DEF Init
<1>2. runsLeft \in 1 .. test.repeatCount /\ runsLeft = AllowedRuns /\ test.repeatCount \in Nat
  BY <1>1, CaseType DEF Init, AllowedRuns
<1>3. pipe \in Seq(test.texts \cup {LineEnd})
  BY DEF Init
<1>4. untilStop \in Nat /\ pieces \in 0 .. test.maxPieces
  BY <1>1, CaseType DEF Init
<1>7. timeoutRegexes \in BOOLEAN /\ (timeoutRegexes <=> "timeout" \in test.regexes)
  <2>1. timeoutRegexes = ("timeout" \in test.regexes)
    BY DEF Init
  <2>2. CASE "timeout" \in test.regexes
    <3>1. timeoutRegexes = TRUE
      BY <2>1, <2>2, Zenon
    <3> QED BY <2>2, <3>1
  <2>3. CASE ~("timeout" \in test.regexes)
    <3>1. ("timeout" \in test.regexes) = FALSE
      BY <2>3
    <3>2. timeoutRegexes = FALSE
      BY <2>1, <3>1
    <3> QED BY <2>3, <3>2
  <2> QED BY <2>2, <2>3
<1>8. /\ pc = "next" /\ child = "ended" /\ holder = FALSE /\ exit = 0
      /\ written = {} /\ processState = "Starting"
      /\ readHandleClosed = FALSE /\ processHandleClosed = FALSE
      /\ output = {} /\ processTimeout = 0 /\ timer = Off /\ killed = FALSE
      /\ processOutput = {} /\ timeoutIsForStopTime = FALSE /\ stopTimePassed = FALSE
  BY DEF Init
<1>5. TypeOK
  <2>1. runsLeft \in 0 .. test.repeatCount
    BY <1>2
  <2>2. exit \in test.exitCodes \cup {0, Signal} /\ timer \in Nat \cup {Off}
    BY <1>8
  <2>3. written \in SUBSET test.texts /\ output \in SUBSET test.texts /\ processOutput \in SUBSET test.texts
    BY <1>8
  <2>4. timeoutRegexes \in BOOLEAN
    BY <1>7
  <2> QED BY <2>1, <2>2, <2>3, <2>4, <1>3, <1>4, <1>8 DEF TypeOK
<1>6. Runs
  BY <1>1, <1>2, <1>7, <1>8 DEF Runs
<1> QED BY <1>5, <1>6

LEMMA RunsAlways == Spec => [](TypeOK /\ Runs)
<1>1. TypeOK /\ Runs /\ [Next]_vars => (TypeOK /\ Runs)'
  BY TypeStep, RunsStep
<1> QED BY <1>1, TypeInitially, PTL DEF Spec

\* In every reachable state the variables have their types; in particular a run
\* that goes on has one of its two handles open, so that a callback will end it.
THEOREM RunType == Spec => []TypeOK
<1> QED BY RunsAlways, PTL

-----------------------------------------------------------------------------
(* The verdict.                                                            *)

\* Where the texts of the current run are: nothing is lost until the child is
\* killed, and a run that was killed can only be reported as timed out.
OutputKept ==
  pc = "running" =>
    IF killed
      THEN processState = "Expired" /\ readHandleClosed /\ ~processHandleClosed
      ELSE /\ written = processOutput \cup output \cup TextsIn(pipe)
           /\ readHandleClosed => pipe = <<>> /\ output = {} /\ child = "ended" /\ ~holder

LEMMA NoTexts == TextsIn(<<>>) = {}
BY DEF TextsIn, ToSet

\* A run that ends, and may be followed by another one.
LEMMA FinishVerdict ==
  ASSUME NEW state, NEW seen, Finish(state, seen),
         state = "Expired" \/ (seen = written /\ ~killed)
  PROVE  OutputKept' /\ VerdictComplete'
<1>1. state = "Expired" => Verdict(state, exit, seen) = "TIMEOUT"
  BY DEF Verdict
<1>2. /\ last'.status = Verdict(state, exit, seen) /\ last'.seen = seen
      /\ last'.written = written /\ last'.killed = killed
  BY FinishCases
<1>3. VerdictComplete'
  BY <1>1, <1>2 DEF VerdictComplete
<1>4. OutputKept'
  BY FinishCases, NoTexts DEF RunsAgain, RunIsLast, StartProcess, OutputKept
<1> QED BY <1>3, <1>4

LEMMA VerdictStep ==
  ASSUME TypeOK, Runs, OutputKept, VerdictComplete, [Next]_vars
  PROVE  OutputKept' /\ VerdictComplete'
<1>0. ASSUME last' = last, OutputKept' PROVE OutputKept' /\ VerdictComplete'
  BY <1>0 DEF VerdictComplete
<1>1. CASE CheckStopTimePassed
  BY <1>0, <1>1 DEF CheckStopTimePassed, OutputKept
<1>2. CASE StartTest
  BY <1>0, <1>2, NoTexts DEF StartTest, StartProcess, OutputKept
<1>3. ASSUME NEW n \in 1 .. Len(pipe), OnRead(n) PROVE OutputKept' /\ VerdictComplete'
  <2>1. /\ processOutput' = processOutput \cup LinesOf(n)
        /\ LinesOf(n) \cup output' \cup TextsIn(pipe') = output \cup TextsIn(pipe)
    BY <1>3, ReadKeepsTexts DEF CheckOutput
  <2>2. pc = "running" /\ ~readHandleClosed
        /\ UNCHANGED <<pc, killed, written, readHandleClosed, last>>
    BY <1>3 DEF OnRead
  <2>3. written = processOutput' \cup output' \cup TextsIn(pipe') /\ ~killed
    BY <2>1, <2>2 DEF OutputKept
  <2> QED BY <1>0, <2>2, <2>3 DEF OutputKept
<1>4. CASE OnReadEnd
  <2>1. /\ pc = "running" /\ ~readHandleClosed /\ pipe = <<>> /\ child = "ended" /\ ~holder
    BY <1>4 DEF OnReadEnd
  <2>2. ~killed /\ written = processOutput \cup output
    BY <2>1, NoTexts DEF OutputKept
  <2>3. CASE processHandleClosed
    BY <1>4, <2>2, <2>3, FinishVerdict DEF OnReadEnd
  <2>4. CASE ~processHandleClosed
    <3>1. /\ processOutput' = processOutput \cup output /\ output' = {}
          /\ UNCHANGED <<pc, childVars, killed, last>>
      BY <1>4, <2>4 DEF OnReadEnd, CheckOutput
    <3> QED BY <1>0, <2>1, <2>2, <3>1, NoTexts DEF OutputKept, childVars
  <2> QED BY <2>3, <2>4
<1>5. CASE OnExit
  <2>1. pc = "running"
    BY <1>5 DEF OnExit
  <2>2. CASE ReadingOver
    <3>1. ExitState = "Expired" \/ ~killed
      BY <2>1 DEF OutputKept, ExitState
    <3>2. ~killed => processOutput = written
      BY <2>1, <2>2, NoTexts DEF OutputKept, ReadingOver
    <3> QED BY <1>5, <2>2, <3>1, <3>2, FinishVerdict DEF OnExit
  <2>3. CASE ~ReadingOver
    <3>1. ~killed
      BY <2>1, <2>3 DEF OutputKept, ReadingOver
    <3>2. UNCHANGED <<pc, childVars, readHandleClosed, output, killed, processOutput, last>>
      BY <1>5, <2>3 DEF OnExit
    <3> QED BY <1>0, <3>1, <3>2 DEF OutputKept, childVars
  <2> QED BY <2>2, <2>3
<1>6. CASE OnTimeout
  <2>1. CASE ~processHandleClosed /\ KillChild
    BY <1>0, <2>1 DEF KillChild, OutputKept
  <2>2. CASE Finish("Expired", processOutput)
    BY <2>2, FinishVerdict
  <2> QED BY <1>6, <2>1, <2>2 DEF OnTimeout
<1>7. ASSUME NEW piece \in test.texts \cup {LineEnd}, WriteOutput(piece)
      PROVE  OutputKept' /\ VerdictComplete'
  <2>1. TextsIn(pipe') = TextsIn(pipe) \cup ({piece} \ {LineEnd})
    BY <1>7, WriteAddsText DEF WriteOutput, TypeOK
  <2>2. /\ pc = "running" /\ (child = "alive" \/ holder)
        /\ written' = written \cup ({piece} \ {LineEnd})
        /\ UNCHANGED <<pc, child, holder, processVars, processOutput, last>>
    BY <1>7 DEF WriteOutput
  <2>3. ~killed => ~readHandleClosed
    BY <2>2 DEF OutputKept
  <2> QED BY <1>0, <2>1, <2>2, <2>3 DEF OutputKept, processVars
<1>8. ASSUME NEW code \in test.exitCodes \cup {Signal}, ChildExits(code)
      PROVE  OutputKept' /\ VerdictComplete'
  BY <1>0, <1>8 DEF ChildExits, OutputKept, processVars
<1>9. CASE HolderChanges
  BY <1>0, <1>9 DEF HolderChanges, OutputKept, processVars
<1>10. CASE Tick
  BY <1>0, <1>10 DEF Tick, OutputKept, childVars
<1>11. CASE UNCHANGED vars
  BY <1>0, <1>11 DEF vars, runVars, childVars, processVars, OutputKept
<1> QED
  BY <1>1, <1>2, <1>3, <1>4, <1>5, <1>6, <1>7, <1>8, <1>9, <1>10, <1>11
  DEF Next, Reading, Terminated

\* Whatever the test prints, however it ends, whoever holds its pipe and in
\* whatever order libuv reports the exit, the end of the pipe and the timer: a run
\* that is not reported as timed out was judged by all its output and not killed.
THEOREM VerdictTheorem == Spec => []VerdictComplete
<1>1. Init => OutputKept /\ VerdictComplete
  BY DEF Init, OutputKept, VerdictComplete
<1>2. TypeOK /\ Runs /\ OutputKept /\ VerdictComplete /\ [Next]_vars
        => OutputKept' /\ VerdictComplete'
  BY VerdictStep
<1> QED BY <1>1, <1>2, RunsAlways, PTL DEF Spec

-----------------------------------------------------------------------------
(* The time limit.                                                         *)

FirstRun == runsLeft = AllowedRuns
Matched == "timeout" \in test.regexes \cap processOutput

\* In the first run the alternate limit is in force as soon as a line has matched.
FirstRunMatch ==
  pc \in {"starting", "running"} /\ FirstRun /\ "timeout" \in test.regexes =>
    \/ timeoutRegexes /\ (pc = "running" => ~Matched)
    \/ pc = "running" /\ processTimeout = test.alternateTimeout

\* A timer that no line has changed does not reach beyond the stop time.
TimerBound ==
  pc = "running" /\ ~Matched /\ test.hasStopTime /\ untilStop > 0 /\ timer # Off
    => timer <= untilStop

\* A run with a limit has its timer, until the timer has gone off.
LimitArmed == pc = "running" /\ processTimeout # 0 /\ ~killed => timer # Off

Limits == FirstRunMatch /\ TimerBound /\ LimitArmed

\* A new process: its limit is the nearer of its own and the stop time.
LEMMA StartLimits ==
  ASSUME TypeOK, test \in Cases, StartProcess, UNCHANGED <<test, untilStop>>
  PROVE  /\ TimerBound' /\ LimitArmed' /\ pc' = "running" /\ ~Matched'
<1>1. untilStop \in Nat /\ TimeLimit \in Nat
  BY TimeLimitType DEF TypeOK
<1>2. /\ pc' = "running" /\ processOutput' = {} /\ timer' = StartTimer(TimeLimit, Off)
      /\ processTimeout' = TimeLimit /\ killed' = FALSE
  BY DEF StartProcess
<1>3. test.hasStopTime /\ untilStop > 0 /\ StartTimer(TimeLimit, Off) # Off
        => StartTimer(TimeLimit, Off) <= untilStop
  BY <1>1, CaseType DEF StartTimer, TimeLimit, TestTimeOut, StopComesFirst, Off
<1>4. TimeLimit # 0 => StartTimer(TimeLimit, Off) # Off
  BY <1>1 DEF StartTimer, Off
<1> QED BY <1>2, <1>3, <1>4 DEF TimerBound, LimitArmed, Matched

\* After a run there is a later one, or none.
LEMMA FinishLimits ==
  ASSUME TypeOK, Runs, Limits, pc = "running", NEW state, NEW seen, Finish(state, seen),
         UNCHANGED test
  PROVE  Limits'
<1>1. runsLeft' = runsLeft - 1 /\ AllowedRuns' = AllowedRuns /\ untilStop' = untilStop
      /\ runsLeft \in Nat /\ runsLeft <= AllowedRuns /\ AllowedRuns \in Nat
  BY FinishCases, CaseType DEF AllowedRuns, TypeOK, Runs
<1>2. ~FirstRun'
  BY <1>1 DEF FirstRun
<1>3. CASE StartProcess
  BY <1>1, <1>2, <1>3, StartLimits DEF Limits, FirstRunMatch, Runs
<1>4. CASE RunIsLast
  BY <1>4 DEF RunIsLast, Limits, FirstRunMatch, TimerBound, LimitArmed
<1> QED BY <1>3, <1>4, FinishCases DEF RunsAgain

\* Lines that are checked in a run that goes on.
LEMMA CheckLimits ==
  ASSUME TypeOK, Runs, Limits, pc = "running", NEW lines, CheckOutput(lines),
         timeoutRegexes' = (timeoutRegexes /\ ~TimeoutMatches(lines)),
         UNCHANGED <<test, pc, killed, runsLeft, untilStop>>
  PROVE  Limits'
<1>t. test.alternateTimeout \in Nat
  BY CaseType DEF Runs
<1>1. CASE TimeoutMatches(lines)
  <2>1. /\ processOutput' = processOutput \cup lines
        /\ processTimeout' = test.alternateTimeout
        /\ timer' = StartTimer(test.alternateTimeout, timer)
    BY <1>1 DEF CheckOutput
  <2>2. Matched'
    BY <1>1, <2>1 DEF TimeoutMatches, Matched, Runs
  <2>3. LimitArmed'
    BY <1>t, <2>1 DEF LimitArmed, StartTimer, Off
  <2> QED BY <2>1, <2>2, <2>3 DEF Limits, FirstRunMatch, TimerBound
<1>2. CASE ~TimeoutMatches(lines)
  <2>1. /\ processOutput' = processOutput \cup lines
        /\ UNCHANGED <<processTimeout, timer>>
        /\ (timeoutRegexes' <=> timeoutRegexes)
        /\ (timeoutRegexes => "timeout" \notin lines)
    BY <1>2 DEF CheckOutput, TimeoutMatches
  <2>2. /\ Matched => Matched'
        /\ timeoutRegexes /\ Matched' => Matched
    BY <2>1 DEF Matched
  <2> QED BY <2>1, <2>2 DEF Limits, FirstRunMatch, FirstRun, AllowedRuns, TimerBound, LimitArmed
<1> QED BY <1>1, <1>2

LEMMA LimitsStep ==
  ASSUME TypeOK, Runs, Limits, [Next]_vars
  PROVE  Limits'
<1> USE DEF Limits, FirstRunMatch, FirstRun, AllowedRuns, Matched, TimerBound, LimitArmed
<1>1. CASE CheckStopTimePassed
  <2>1. pc = "next" /\ pc' \in {"starting", "done"} /\ timeoutRegexes' = timeoutRegexes
        /\ UNCHANGED <<test, runsLeft>>
    BY <1>1 DEF CheckStopTimePassed
  <2> QED BY <2>1 DEF Runs
<1>2. CASE StartTest
  <2>1. /\ StartProcess /\ pc = "starting"
        /\ UNCHANGED <<test, timeoutRegexes, runsLeft, untilStop>>
    BY <1>2 DEF StartTest
  <2>2. TimerBound' /\ LimitArmed' /\ pc' = "running" /\ ~Matched'
    BY <2>1, StartLimits DEF Runs
  <2>3. timeoutRegexes <=> "timeout" \in test.regexes
    BY <2>1 DEF Runs
  <2> QED BY <2>1, <2>2, <2>3
<1>3. ASSUME NEW n \in 1 .. Len(pipe), OnRead(n) PROVE Limits'
  <2>1. /\ CheckOutput(LinesOf(n))
        /\ timeoutRegexes' = (timeoutRegexes /\ ~TimeoutMatches(LinesOf(n)))
    BY <1>3, ReadKeepsTexts
  <2>2. pc = "running" /\ UNCHANGED <<test, pc, killed, runsLeft, untilStop>>
    BY <1>3 DEF OnRead
  <2> QED BY <2>1, <2>2, CheckLimits
<1>4. CASE OnReadEnd
  <2>1. timeoutRegexes' = (timeoutRegexes /\ ~TimeoutMatches(output))
        /\ pc = "running" /\ test' = test
    BY <1>4 DEF OnReadEnd
  <2>2. CASE processHandleClosed
    BY <1>4, <2>1, <2>2, FinishLimits DEF OnReadEnd
  <2>3. CASE ~processHandleClosed
    BY <1>4, <2>1, <2>3, CheckLimits DEF OnReadEnd
  <2> QED BY <2>2, <2>3
<1>5. CASE OnExit
  <2>1. UNCHANGED <<test, timeoutRegexes>> /\ pc = "running"
    BY <1>5 DEF OnExit
  <2>2. CASE ReadingOver
    BY <1>5, <2>1, <2>2, FinishLimits DEF OnExit
  <2>3. CASE ~ReadingOver
    BY <1>5, <2>1, <2>3 DEF OnExit
  <2> QED BY <2>2, <2>3
<1>6. CASE OnTimeout
  <2>1. UNCHANGED <<test, timeoutRegexes>> /\ pc = "running"
    BY <1>6 DEF OnTimeout
  <2>2. CASE KillChild
    BY <2>1, <2>2 DEF KillChild
  <2>3. CASE Finish("Expired", processOutput)
    BY <2>1, <2>3, FinishLimits
  <2> QED BY <1>6, <2>2, <2>3 DEF OnTimeout
<1>7. CASE \/ \E piece \in test.texts \cup {LineEnd} : WriteOutput(piece)
           \/ \E code \in test.exitCodes \cup {Signal} : ChildExits(code)
           \/ HolderChanges
  BY <1>7 DEF WriteOutput, ChildExits, HolderChanges, processVars
<1>8. CASE Tick
  <2>1. timer \in Nat \cup {Off} /\ untilStop \in Nat
    BY DEF TypeOK
  <2> QED BY <1>8, <2>1 DEF Tick, Less, Off
<1>9. CASE UNCHANGED vars
  BY <1>9 DEF vars, runVars, processVars
<1> QED
  BY <1>1, <1>2, <1>3, <1>4, <1>5, <1>6, <1>7, <1>8, <1>9
  DEF Next, Reading, Terminated

LEMMA LimitsAlways == Spec => [](TypeOK /\ Runs /\ Limits)
<1>1. Init => Limits
  BY DEF Init, Limits, FirstRunMatch, TimerBound, LimitArmed
<1>2. TypeOK /\ Runs /\ Limits /\ [Next]_vars => Limits'
  BY LimitsStep
<1> QED BY <1>1, <1>2, RunsAlways, PTL DEF Spec

\* A line that matches TIMEOUT_AFTER_MATCH puts the alternate limit in force, in
\* the first run of a test.  (The expressions are thrown away once one of them has
\* matched, and the test object is the same in the runs that follow.)
THEOREM AlternateTheorem == Spec => [](FirstRun => AlternateApplied)
<1>1. Limits => (FirstRun => AlternateApplied)
  BY DEF Limits, FirstRunMatch, Matched, AlternateApplied
<1> QED BY <1>1, LimitsAlways, PTL

\* So it is in every run if only tests without the expressions are repeated.
THEOREM AlternateUnrepeated ==
  ASSUME \A c \in Cases :
           "timeout" \in c.regexes => c.repeatMode = "Never" \/ c.repeatCount = 1
  PROVE  Spec => []AlternateApplied
<1>1. TypeOK /\ Runs /\ Limits => AlternateApplied
  <2> SUFFICES ASSUME TypeOK, Runs, Limits, pc = "running", "timeout" \in test.regexes \cap processOutput
               PROVE  FirstRun
    BY DEF Limits, FirstRunMatch, Matched, AlternateApplied
  <2>1. AllowedRuns = 1
    BY DEF Runs, AllowedRuns
  <2>2. runsLeft \in Int /\ runsLeft <= AllowedRuns /\ runsLeft >= 1
    BY DEF Runs, TypeOK
  <2> QED BY <2>1, <2>2 DEF FirstRun
<1> QED BY <1>1, LimitsAlways, PTL

\* No timer reaches beyond the stop time, except one that a line of the output
\* has restarted with the alternate limit.
THEOREM StopTimeTheorem == Spec => [](~Matched => StopTimeBinds)
<1>1. Limits => (~Matched => StopTimeBinds)
  BY DEF Limits, TimerBound, StopTimeBinds
<1> QED BY <1>1, LimitsAlways, PTL

\* A test with a limit has a timer that will go off, in every run and after every
\* change of the limit, until it has gone off and the child is killed.
THEOREM LimitTheorem == Spec => []LimitArmed
<1>1. Limits => LimitArmed
  BY DEF Limits
<1> QED BY <1>1, LimitsAlways, PTL
=============================================================================
