------------------------------ MODULE TestResume ------------------------------
(***************************************************************************)
(* TestScheduler over several invocations of ctest: a run may be killed at *)
(* any time, and the next one finds the checkpoint file it left.  With -F  *)
(* (the constant Failover) CheckResume takes the listed tests as finished. *)
(* Children of a killed ctest are not modelled.                            *)
(***************************************************************************)
EXTENDS TestScheduler

CONSTANT MaxCrashes   \* bound on the number of times ctest is killed

ASSUME CrashAssumption == MaxCrashes \in Nat

VARIABLE crashes

resumeVars == <<vars, crashes>>

ResumeInit == Init /\ crashes = 0

\* ctest is killed and started again: only the file survives.
Crash ==
  /\ pc # "done"
  /\ crashes < MaxCrashes
  /\ crashes' = crashes + 1
  /\ pc' = "run" /\ launching' = {}
  /\ tests' = Test /\ waitingFor' = Depends
  /\ running' = {} /\ finished' = {} /\ live' = {}
  /\ completed' = 0 /\ runningCount' = 0
  /\ serialTestRunning' = FALSE /\ lockedResources' = {}
  /\ locked' = [u \in Unit |-> 0]
  /\ allocated' = [t \in Test |-> [u \in Unit |-> 0]]
  /\ processorsAvailable' = Cpu /\ affinity' = [t \in Test |-> {}]
  /\ passed' = {} /\ failed' = {}
  /\ results' = [t \in Test |-> 0]
  /\ runsLeft' = [t \in Test |-> Runs]
  /\ attempts' = [t \in Test |-> 0]
  /\ stopTimePassed' = FALSE /\ retryTimer' = FALSE
  /\ stopTimeReached' = FALSE /\ underWay' = {}
  /\ copy' = {} /\ numToStart' = 0 /\ spareLoad' = 0
  /\ allTestsFailedTestLoadCheck' = FALSE
  /\ UNCHANGED checkpoint

ResumeNext == Crash \/ (Next /\ UNCHANGED crashes)

ResumeSpec == ResumeInit /\ [][ResumeNext]_resumeVars

-----------------------------------------------------------------------------
(* Properties. *)

\* A test that an earlier, interrupted run has finished is not run again.
FinishedNotRepeated ==
  [][Failover /\ pc \notin {"run", "done"} =>
       \A t \in checkpoint : t \notin live' /\ t \notin launching']_resumeVars

\* The file never lists a test that may still be running, and a run resumed
\* from it counts each of its tests once.
CheckpointExact ==
  /\ checkpoint \cap live = {}
  /\ pc \notin {"run", "done"} => completed = Cardinality(finished) /\ checkpoint = finished
=============================================================================
