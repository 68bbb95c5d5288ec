------------------------------ MODULE WorkerPool ------------------------------
(***************************************************************************)
(* cmWorkerPool: worker threads that take jobs from a queue under a mutex, *)
(* fence jobs, abort, and external processes that a job starts through the *)
(* libuv loop of the thread that called Process.                           *)
(*                                                                         *)
(* A thread that has the mutex and is about to look at the queue is at     *)
(* "top" with mutex = w; the other sections under the mutex do not block   *)
(* and are one action each.  A waiting thread that was notified is in      *)
(* signalled until it has the mutex again; wait() may also return without  *)
(* a notification.  X_Something is a mutant of X (see TestScheduler).      *)
(***************************************************************************)
EXTENDS Integers, Sequences, FiniteSets

CONSTANTS
  Worker,        \* the threads of a pool
  Job,           \* the job objects
  FenceJob,      \* those with IsFence()
  Script,        \* what Process() of a job does, a sequence of operations
  InitialQueue,  \* the queues that may have been filled before Process
  Free, NoJob    \* the mutex is not held; the worker has no job

\* An operation of a job: push another one, abort the pool, or run an external
\* process and abort the pool if it fails.
PushOp(j) == [op |-> "push", job |-> j]
AbortOp == [op |-> "abort"]
RunOp == [op |-> "run"]
Operation == {PushOp(j) : j \in Job} \cup {AbortOp, RunOp}

ASSUME ScriptAssumption ==
  /\ FenceJob \subseteq Job /\ NoJob \notin Job /\ Free \notin Worker
  /\ DOMAIN Script = Job
  /\ \A j \in Job : Script[j] \in Seq(Operation)
  /\ InitialQueue \subseteq Seq(Job)
  /\ IsFiniteSet(Worker) /\ Worker # {}

VARIABLES
  mutex,            \* Mutex: Free or the thread at "top"
  queue,            \* Queue
  aborting,         \* Aborting
  fenceProcessing,  \* FenceProcessing
  workersRunning, workersIdle, jobsProcessing,  \* the counters
  pc,               \* where each thread is
  job,              \* jobHandle of each thread
  todo,             \* the operations its job has left
  signalled,        \* threads whose wait() has been notified
  rop,              \* Proc_.ROP of each worker: "none", "set" or "started"
  request,          \* is Proc_.Request pending on the loop?
  open,             \* the libuv handles of its process that are open
  failed,           \* result.error()
  loop,             \* the thread that called Process
  endRequest        \* UVRequestEnd: "closed", "open" or "sent"

pool == <<mutex, queue, aborting, fenceProcessing,
          workersRunning, workersIdle, jobsProcessing>>
process == <<rop, request, open, failed>>
vars == <<pool, pc, job, todo, signalled, process, loop, endRequest>>

Handle == {"process", "stdout", "stderr"}
PC == {"none", "start", "top", "idle", "fenced", "barrier", "job", "sent",
       "wait", "exited"}

\* The type invariant; the counters, size_t in the code, are within the number of
\* threads.
TypeOK ==
  /\ mutex \in Worker \cup {Free}
  /\ queue \in Seq(Job)
  /\ aborting \in BOOLEAN /\ fenceProcessing \in BOOLEAN
  /\ {workersRunning, workersIdle, jobsProcessing} \subseteq 0..Cardinality(Worker)
  /\ pc \in [Worker -> PC]
  /\ job \in [Worker -> Job \cup {NoJob}]
  /\ todo \in [Worker -> Seq(Operation)]
  /\ signalled \subseteq Worker
  /\ rop \in [Worker -> {"none", "set", "started"}]
  /\ request \in [Worker -> BOOLEAN] /\ failed \in [Worker -> BOOLEAN]
  /\ open \in [Worker -> SUBSET Handle]
  /\ loop \in {"before", "begin", "run", "join", "after"}
  /\ endRequest \in {"closed", "open", "sent"}

Init ==
  /\ mutex = Free
  /\ queue \in InitialQueue
  /\ aborting = FALSE /\ fenceProcessing = FALSE
  /\ workersRunning = 0 /\ workersIdle = 0 /\ jobsProcessing = 0
  /\ pc = [w \in Worker |-> "none"]
  /\ job = [w \in Worker |-> NoJob]
  /\ todo = [w \in Worker |-> <<>>]
  /\ signalled = {}
  /\ rop = [w \in Worker |-> "none"]
  /\ request = [w \in Worker |-> FALSE]
  /\ open = [w \in Worker |-> {}]
  /\ failed = [w \in Worker |-> FALSE]
  /\ loop = "before" /\ endRequest = "closed"

-----------------------------------------------------------------------------
(* Condition variables. *)

Waiting(places) == {w \in Worker : pc[w] \in places} \ signalled
OnCondition == Waiting({"idle", "fenced"})
OnConditionFence == Waiting({"barrier"})

\* notify_one wakes any one of the threads that wait, if there is one.
NotifyOne(waiting) ==
  IF waiting = {} THEN UNCHANGED signalled
  ELSE \E w \in waiting : signalled' = signalled \cup {w}

Goto(w, place) == pc' = [pc EXCEPT ![w] = place]

-----------------------------------------------------------------------------
(* cmWorkerPoolInternal::Work, the main function of each thread. *)

Start(w) ==
  /\ pc[w] = "start" /\ mutex = Free
  /\ mutex' = w
  /\ workersRunning' = workersRunning + 1
  /\ Goto(w, "top")
  /\ UNCHANGED <<queue, aborting, fenceProcessing, workersIdle, jobsProcessing,
                 job, todo, signalled, process, loop, endRequest>>

\* Leaving the main loop; the last thread out asks the loop to finish.
Leave(w) ==
  /\ workersRunning' = workersRunning - 1
  /\ endRequest' = IF workersRunning = 1 THEN "sent" ELSE endRequest
  /\ Goto(w, "exited")
  /\ mutex' = Free
  /\ job' = [job EXCEPT ![w] = NoJob]

BeginJob(w, j) ==
  /\ jobsProcessing' = jobsProcessing + 1
  /\ todo' = [todo EXCEPT ![w] = Script[j]]
  /\ Goto(w, "job")
  /\ mutex' = Free

TopAborting(w) ==
  /\ aborting
  /\ Leave(w)
  /\ UNCHANGED <<queue, aborting, fenceProcessing, workersIdle, jobsProcessing,
                 todo, signalled, process, loop>>

TopEmpty(w) ==
  /\ ~aborting /\ queue = <<>>
  /\ workersIdle' = workersIdle + 1
  /\ Goto(w, "idle")
  /\ mutex' = Free
  /\ UNCHANGED <<queue, aborting, fenceProcessing, workersRunning, jobsProcessing,
                 job, todo, signalled, process, loop, endRequest>>

TopFenced(w) ==
  /\ ~aborting /\ queue # <<>> /\ fenceProcessing
  /\ Goto(w, "fenced")
  /\ mutex' = Free
  /\ UNCHANGED <<queue, aborting, fenceProcessing, workersRunning, workersIdle,
                 jobsProcessing, job, todo, signalled, process, loop, endRequest>>

TopPop_NoBarrier(w) ==
  /\ ~aborting /\ queue # <<>> /\ ~fenceProcessing
  /\ queue' = Tail(queue)
  /\ job' = [job EXCEPT ![w] = Head(queue)]
  /\ fenceProcessing' = (Head(queue) \in FenceJob)
  /\ BeginJob(w, Head(queue))
  /\ UNCHANGED <<aborting, workersRunning, workersIdle, signalled, process, loop, endRequest>>

\* A fence job is taken at once and waits for the jobs that are being processed.
TopPop(w) ==
  /\ ~aborting /\ queue # <<>> /\ ~fenceProcessing
  /\ queue' = Tail(queue)
  /\ job' = [job EXCEPT ![w] = Head(queue)]
  /\ fenceProcessing' = (Head(queue) \in FenceJob)
  /\ IF Head(queue) \in FenceJob /\ jobsProcessing # 0
       THEN /\ Goto(w, "barrier")
            /\ mutex' = Free
            /\ UNCHANGED <<jobsProcessing, todo>>
       ELSE BeginJob(w, Head(queue))
  /\ UNCHANGED <<aborting, workersRunning, workersIdle, signalled, process, loop, endRequest>>

Top(w) ==
  /\ mutex = w
  /\ TopAborting(w) \/ TopEmpty(w) \/ TopFenced(w) \/ TopPop(w)

\* Condition.wait returns to a thread that waited for jobs or for a fence.
WakeCondition(w) ==
  /\ pc[w] \in {"idle", "fenced"} /\ mutex = Free
  /\ workersIdle' = workersIdle - (IF pc[w] = "idle" THEN 1 ELSE 0)
  /\ signalled' = signalled \ {w}
  /\ mutex' = w
  /\ Goto(w, "top")
  /\ UNCHANGED <<queue, aborting, fenceProcessing, workersRunning, jobsProcessing,
                 job, todo, process, loop, endRequest>>

\* ConditionFence.wait returns: wait again, leave because of an abort, or begin.
BarrierHolds(w) ==
  /\ jobsProcessing # 0 /\ ~aborting
  /\ signalled' = signalled \ {w}
  /\ UNCHANGED <<pool, pc, job, todo, endRequest>>

BarrierAborted_KeepFence(w) ==
  /\ aborting
  /\ signalled' = (signalled \cup OnCondition) \ {w}
  /\ Leave(w)
  /\ UNCHANGED <<queue, aborting, fenceProcessing, workersIdle, jobsProcessing, todo>>

BarrierAborted(w) ==
  /\ aborting
  /\ fenceProcessing' = FALSE
  /\ signalled' = (signalled \cup OnCondition) \ {w}
  /\ Leave(w)
  /\ UNCHANGED <<queue, aborting, workersIdle, jobsProcessing, todo>>

BarrierOver(w) ==
  /\ jobsProcessing = 0 /\ ~aborting
  /\ signalled' = signalled \ {w}
  /\ BeginJob(w, job[w])
  /\ UNCHANGED <<queue, aborting, fenceProcessing, workersRunning, workersIdle, job, endRequest>>

WakeFence(w) ==
  /\ pc[w] = "barrier" /\ mutex = Free
  /\ BarrierHolds(w) \/ BarrierAborted(w) \/ BarrierOver(w)
  /\ UNCHANGED <<process, loop>>

JobDone_NoFenceNotify(w) ==
  /\ pc[w] = "job" /\ todo[w] = <<>> /\ mutex = Free
  /\ mutex' = w
  /\ jobsProcessing' = jobsProcessing - 1
  /\ LET raisedFence == job[w] \in FenceJob
     IN /\ fenceProcessing' = (fenceProcessing /\ ~raisedFence)
        /\ signalled' = signalled \cup (IF raisedFence THEN OnCondition ELSE {})
  /\ job' = [job EXCEPT ![w] = NoJob]
  /\ Goto(w, "top")
  /\ UNCHANGED <<queue, aborting, workersRunning, workersIdle, todo, process, loop, endRequest>>

\* Process() of the job has returned: release who waits behind the fence job,
\* or the fence job that waits for the last job.
JobDone(w) ==
  /\ pc[w] = "job" /\ todo[w] = <<>> /\ mutex = Free
  /\ mutex' = w
  /\ jobsProcessing' = jobsProcessing - 1
  /\ LET raisedFence == job[w] \in FenceJob
     IN /\ fenceProcessing' = (fenceProcessing /\ ~raisedFence)
        /\ signalled' = signalled
             \cup (IF raisedFence THEN OnCondition ELSE {})
             \cup (IF fenceProcessing' /\ jobsProcessing' = 0 THEN OnConditionFence ELSE {})
  /\ job' = [job EXCEPT ![w] = NoJob]
  /\ Goto(w, "top")
  /\ UNCHANGED <<queue, aborting, workersRunning, workersIdle, todo, process, loop, endRequest>>

-----------------------------------------------------------------------------
(* What a job does while its thread does not hold the mutex. *)

NextOp(w) == pc[w] = "job" /\ todo[w] # <<>>
OpDone(w) == todo' = [todo EXCEPT ![w] = Tail(@)]

PushJob(w) ==
  /\ NextOp(w) /\ Head(todo[w]).op = "push" /\ mutex = Free
  /\ OpDone(w)
  /\ IF aborting THEN UNCHANGED <<queue, signalled>>
     ELSE /\ queue' = Append(queue, Head(todo[w]).job)
          /\ IF workersIdle # 0 THEN NotifyOne(OnCondition) ELSE UNCHANGED signalled
  /\ UNCHANGED <<mutex, aborting, fenceProcessing, workersRunning, workersIdle,
                 jobsProcessing, pc, job, process, loop, endRequest>>

Abort_NotifyOne(w) ==
  /\ NextOp(w) /\ Head(todo[w]).op = "abort" /\ mutex = Free
  /\ OpDone(w)
  /\ aborting' = TRUE
  /\ IF aborting THEN UNCHANGED <<queue, signalled>>
     ELSE queue' = <<>> /\ NotifyOne(OnCondition)
  /\ UNCHANGED <<mutex, fenceProcessing, workersRunning, workersIdle, jobsProcessing,
                 pc, job, process, loop, endRequest>>

\* The first Abort empties the queue and wakes the threads on the main
\* condition; a second one does nothing.
Abort(w) ==
  /\ NextOp(w) /\ Head(todo[w]).op = "abort" /\ mutex = Free
  /\ OpDone(w)
  /\ aborting' = TRUE
  /\ IF aborting THEN UNCHANGED <<queue, signalled>>
     ELSE queue' = <<>> /\ signalled' = signalled \cup OnCondition
  /\ UNCHANGED <<mutex, fenceProcessing, workersRunning, workersIdle, jobsProcessing,
                 pc, job, process, loop, endRequest>>

\* RunProcess creates the process object and asks the loop to start it ...
RunProcess(w) ==
  /\ NextOp(w) /\ Head(todo[w]).op = "run"
  /\ rop' = [rop EXCEPT ![w] = "set"]
  /\ request' = [request EXCEPT ![w] = TRUE]
  /\ failed' = [failed EXCEPT ![w] = FALSE]
  /\ Goto(w, "sent")
  /\ UNCHANGED <<pool, job, todo, signalled, open, loop, endRequest>>

\* ... and waits until the object is gone.
AwaitProcess(w) ==
  /\ pc[w] = "sent" /\ rop[w] # "none"
  /\ Goto(w, "wait")
  /\ UNCHANGED <<pool, job, todo, signalled, process, loop, endRequest>>

WakeProcess(w) ==
  /\ pc[w] = "wait"
  /\ signalled' = signalled \ {w}
  /\ Goto(w, "sent")
  /\ UNCHANGED <<pool, job, todo, process, loop, endRequest>>

\* The jobs of AUTOMOC and AUTOUIC abort the pool when their process failed.
ProcessReturned(w) ==
  /\ pc[w] = "sent" /\ rop[w] = "none"
  /\ todo' = [todo EXCEPT ![w] = IF failed[w] THEN <<AbortOp>> ELSE Tail(@)]
  /\ Goto(w, "job")
  /\ UNCHANGED <<pool, job, signalled, process, loop, endRequest>>

-----------------------------------------------------------------------------
(* The libuv loop, run by the thread that called cmWorkerPool::Process. *)

Process ==
  /\ loop = "before"
  /\ aborting' = FALSE
  /\ endRequest' = "open"
  /\ loop' = "begin"
  /\ UNCHANGED <<mutex, queue, fenceProcessing, workersRunning, workersIdle,
                 jobsProcessing, pc, job, todo, signalled, process>>

UVSlotBegin ==
  /\ loop = "begin"
  /\ pc' = [w \in Worker |-> "start"]
  /\ loop' = "run"
  /\ UNCHANGED <<pool, job, todo, signalled, process, endRequest>>

\* UVProcessFinished destroys the process object and wakes its worker.
UVProcessFinished(w) ==
  /\ rop' = [rop EXCEPT ![w] = "none"]
  /\ NotifyOne(Waiting({"wait"}) \cap {w})

UVProcessStart(w) ==
  /\ loop = "run" /\ request[w]
  /\ request' = [request EXCEPT ![w] = FALSE]
  /\ \/ /\ rop' = [rop EXCEPT ![w] = "started"]
        /\ open' = [open EXCEPT ![w] = Handle]
        /\ UNCHANGED <<failed, signalled>>
     \/ /\ failed' = [failed EXCEPT ![w] = TRUE]
        /\ UVProcessFinished(w)
        /\ UNCHANGED open
  /\ UNCHANGED <<pool, pc, job, todo, loop, endRequest>>

UVTryFinish_ProcessOnly(w) ==
  IF "process" \notin open'[w] THEN UVProcessFinished(w) ELSE UNCHANGED <<rop, signalled>>

\* The process is finished when it has exited and both pipes have ended.
UVTryFinish(w) ==
  IF open'[w] = {} THEN UVProcessFinished(w) ELSE UNCHANGED <<rop, signalled>>

\* UVExit, UVPipeOutEnd and UVPipeErrEnd, in any order; each may report an error.
HandleEnds(w, h) ==
  /\ loop = "run" /\ h \in open[w]
  /\ open' = [open EXCEPT ![w] = @ \ {h}]
  /\ \E error \in BOOLEAN : failed' = [failed EXCEPT ![w] = @ \/ error]
  /\ UVTryFinish(w)
  /\ UNCHANGED <<pool, pc, job, todo, request, loop, endRequest>>

\* UVSlotEnd joins the threads; the loop handles nothing else meanwhile ...
UVSlotEnd ==
  /\ loop = "run" /\ endRequest = "sent"
  /\ loop' = "join"
  /\ UNCHANGED <<pool, pc, job, todo, signalled, process, endRequest>>

\* ... and uv_run returns when the last handle is closed.
Joined ==
  /\ loop = "join"
  /\ \A w \in Worker : pc[w] = "exited"
  /\ pc' = [w \in Worker |-> "none"]
  /\ endRequest' = "closed"
  /\ aborting' = FALSE
  /\ loop' = "after"
  /\ UNCHANGED <<mutex, queue, fenceProcessing, workersRunning, workersIdle,
                 jobsProcessing, job, todo, signalled, process>>

Returned == loop = "after" /\ UNCHANGED vars

-----------------------------------------------------------------------------
Lock(w) == Start(w) \/ WakeCondition(w) \/ WakeFence(w) \/ JobDone(w) \/ PushJob(w) \/ Abort(w)
Run(w) == Top(w) \/ RunProcess(w) \/ AwaitProcess(w) \/ WakeProcess(w) \/ ProcessReturned(w)
UVLoop ==
  \/ Process \/ UVSlotBegin \/ UVSlotEnd \/ Joined
  \/ \E w \in Worker : UVProcessStart(w) \/ \E h \in Handle : HandleEnds(w, h)

Next == (\E w \in Worker : Lock(w) \/ Run(w)) \/ UVLoop \/ Returned

Spec == Init /\ [][Next]_vars

\* A thread that is not waiting, or has been notified, goes on; the mutex is
\* granted sooner or later; the external processes end.
Notified(w) == pc[w] \in {"idle", "fenced", "barrier", "wait"} => w \in signalled
Fairness ==
  /\ \A w \in Worker : SF_vars(Notified(w) /\ Lock(w)) /\ WF_vars(Notified(w) /\ Run(w))
  /\ WF_vars(UVLoop)

FairSpec == Spec /\ Fairness

-----------------------------------------------------------------------------
(* Properties. *)

CountOf(places) == Cardinality({w \in Worker : pc[w] \in places})
InJob == {"job", "sent", "wait"}

\* The counters and the fence flag, on which the decisions to notify and to
\* wait rest, say what the threads really do: after any wake-up, abort or late
\* start no thread is counted twice or forgotten.
CountersExact ==
  /\ workersIdle = CountOf({"idle"})
  /\ jobsProcessing = CountOf(InJob)
  /\ workersRunning = CountOf(PC \ {"none", "start", "exited"})
  /\ fenceProcessing <=> \E w \in Worker : job[w] \in FenceJob

\* A fence job runs alone.
FenceAlone ==
  \A v, w \in Worker :
    v # w /\ pc[v] \in InJob /\ job[v] \in FenceJob => pc[w] \notin InJob

\* The result object lives on the stack of the job: the loop has a handle that
\* writes to it, or a request to start, only while that job waits in RunProcess;
\* and a thread lives only while the handle it ends the loop with is open and,
\* if it waits for its process, while the loop is being run.
LoopServesWorkers ==
  \A w \in Worker :
    /\ open[w] # {} \/ request[w] => pc[w] \in {"sent", "wait"} /\ rop[w] # "none"
    /\ pc[w] \in {"sent", "wait"} => loop = "run"
    /\ pc[w] \notin {"none", "exited"} => endRequest # "closed"

\* The pool behaves like a queue with fences: a fence job that a thread has
\* taken but not begun is still the first one waiting.
Barrier == {w \in Worker : pc[w] = "barrier"}
Pending ==
  IF aborting THEN <<>>
  ELSE (IF Barrier = {} THEN <<>> ELSE <<job[CHOOSE w \in Barrier : TRUE]>>) \o queue
Running == {job[w] : w \in {v \in Worker : pc[v] \in InJob}}

Queue == INSTANCE JobQueue WITH
  IsFence <- LAMBDA j : j \in FenceJob, ThreadCount <- Cardinality(Worker),
  pending <- Pending, running <- Running, accepting <- ~aborting

ImplementsQueue == Queue!Init /\ [][Queue!Next]_Queue!vars

\* No wake-up is lost: a job in the queue is sooner or later taken or thrown
\* away by an abort, and a fence job does not wait for ever.
JobsAreTaken == \A j \in Job : (\E i \in DOMAIN Pending : Pending[i] = j)
                                 ~> ~(\E i \in DOMAIN Pending : Pending[i] = j)

\* After an abort, by whatever job and whatever the others wait for, all
\* threads end, the join does not block and Process returns.
AbortReturns == aborting ~> loop = "after"
=============================================================================
