--------------------------- MODULE WorkerPoolProofs ----------------------------
(***************************************************************************)
(* Theorems about WorkerPool, for any number of threads, any jobs and any  *)
(* queue: the counters are exact, a fence job runs alone, the libuv loop   *)
(* and the jobs' result objects outlive their users, and the pool          *)
(* implements JobQueue.                                                    *)
(***************************************************************************)
EXTENDS WorkerPool, FiniteSetTheorems, TLAPS

-----------------------------------------------------------------------------
(* Counting threads.                                                       *)

LEMMA CardinalityType ==
  ASSUME NEW S \in SUBSET Worker
  PROVE  Cardinality(S) \in 0 .. Cardinality(Worker)
<1>1. IsFiniteSet(Worker) /\ S \subseteq Worker
  BY ScriptAssumption
<1>2. IsFiniteSet(S) /\ Cardinality(S) <= Cardinality(Worker)
  BY <1>1, FS_Subset
<1>3. Cardinality(S) \in Nat /\ Cardinality(Worker) \in Nat
  BY <1>1, <1>2, FS_CardinalityType
<1> QED BY <1>2, <1>3

LEMMA CountType ==
  ASSUME NEW places
  PROVE  CountOf(places) \in 0 .. Cardinality(Worker)
BY CardinalityType DEF CountOf

\* A count is 0 exactly when no thread is there, and 1 if only one is.
LEMMA CountZero ==
  ASSUME NEW places
  PROVE  CountOf(places) = 0 <=> \A w \in Worker : pc[w] \notin places
<1> DEFINE S == {w \in Worker : pc[w] \in places}
<1>1. IsFiniteSet(S)
  BY ScriptAssumption, FS_Subset
<1>2. Cardinality(S) = 0 <=> S = {}
  BY <1>1, FS_EmptySet
<1> QED BY <1>2 DEF CountOf

LEMMA CountOne ==
  ASSUME NEW places, CountOf(places) = 1, NEW v \in Worker, pc[v] \in places,
         NEW w \in Worker, pc[w] \in places
  PROVE  v = w
<1> DEFINE S == {x \in Worker : pc[x] \in places}
<1>1. IsFiniteSet(S) /\ Cardinality(S) = 1
  BY ScriptAssumption, FS_Subset DEF CountOf
<1>2. \E x : S = {x}
  BY <1>1, FS_Singleton
<1> QED BY <1>2

\* One thread moves.
LEMMA CountMove ==
  ASSUME NEW places, TypeOK, NEW w \in Worker, NEW place, Goto(w, place)
  PROVE  CountOf(places)' = CountOf(places) + (IF place \in places THEN 1 ELSE 0)
                                            - (IF pc[w] \in places THEN 1 ELSE 0)
<1> DEFINE S == {x \in Worker : pc[x] \in places}
           T == {x \in Worker : pc'[x] \in places}
           R == S \ {w}
<1>1. IsFiniteSet(S) /\ IsFiniteSet(R)
  BY ScriptAssumption, FS_Subset
<1>2. T = IF place \in places THEN R \cup {w} ELSE R
  BY DEF Goto, TypeOK
<1>3. S = IF pc[w] \in places THEN R \cup {w} ELSE R
  OBVIOUS
<1>4. w \notin R
  OBVIOUS
<1>5. CountOf(places) = Cardinality(S) /\ CountOf(places)' = Cardinality(T)
  BY DEF CountOf
<1> HIDE DEF S, T, R
<1>6. Cardinality(R) \in Nat /\ Cardinality(R \cup {w}) = Cardinality(R) + 1
  BY <1>1, <1>4, FS_AddElement, FS_CardinalityType
<1> QED BY <1>2, <1>3, <1>5, <1>6

-----------------------------------------------------------------------------
(* Where threads are, and with which job.                                  *)

Counted == PC \ {"none", "start", "exited"}

Counters ==
  /\ workersIdle = CountOf({"idle"})
  /\ jobsProcessing = CountOf(InJob)
  /\ workersRunning = CountOf(Counted)

\* Who has the mutex and who has a job; fence jobs; where threads are while the
\* loop is not run.
Places ==
  /\ \A w \in Worker : mutex = w <=> pc[w] = "top"
  /\ \A w \in Worker : job[w] \in Job <=> pc[w] \in InJob \cup {"barrier"}
  /\ \A w \in Worker : pc[w] = "barrier" => job[w] \in FenceJob
  /\ fenceProcessing <=> \E w \in Worker : job[w] \in FenceJob
  /\ \A v, w \in Worker : job[v] \in FenceJob /\ job[w] \in FenceJob => v = w
  /\ loop \in {"before", "begin", "after"} => \A w \in Worker : pc[w] = "none"
  /\ loop \in {"run", "join"} => \A w \in Worker : pc[w] # "none"

\* A step of thread w moves w only and leaves the jobs of the others.
LEMMA CountersStay ==
  ASSUME Counters, UNCHANGED <<pc, workersIdle, jobsProcessing, workersRunning>>
  PROVE  Counters'
BY DEF Counters, CountOf

LEMMA CountersMove ==
  ASSUME TypeOK, Counters, NEW w \in Worker, NEW place \in PC, Goto(w, place),
         workersIdle' = workersIdle + (IF place = "idle" THEN 1 ELSE 0)
                                    - (IF pc[w] = "idle" THEN 1 ELSE 0),
         jobsProcessing' = jobsProcessing + (IF place \in InJob THEN 1 ELSE 0)
                                          - (IF pc[w] \in InJob THEN 1 ELSE 0),
         workersRunning' = workersRunning + (IF place \in Counted THEN 1 ELSE 0)
                                          - (IF pc[w] \in Counted THEN 1 ELSE 0)
  PROVE  Counters'
<1>1. CountOf({"idle"})' = CountOf({"idle"}) + (IF place = "idle" THEN 1 ELSE 0)
                             - (IF pc[w] = "idle" THEN 1 ELSE 0)
  BY CountMove
<1>2. CountOf(InJob)' = CountOf(InJob) + (IF place \in InJob THEN 1 ELSE 0)
                             - (IF pc[w] \in InJob THEN 1 ELSE 0)
  BY CountMove
<1>3. CountOf(Counted)' = CountOf(Counted) + (IF place \in Counted THEN 1 ELSE 0)
                             - (IF pc[w] \in Counted THEN 1 ELSE 0)
  BY CountMove
<1> QED BY <1>1, <1>2, <1>3 DEF Counters

\* The counters follow the threads.
LEMMA CountersThread ==
  ASSUME TypeOK, Counters, Places, NEW w \in Worker, Lock(w) \/ Run(w)
  PROVE  Counters'
<1> USE DEF PC, InJob, Counted
<1>t. workersIdle \in Int /\ jobsProcessing \in Int /\ workersRunning \in Int
  BY CountType DEF Counters
<1>1. CASE Start(w)
  <2>1. Goto(w, "top")
    BY <1>1 DEF Start
  <2> QED BY <1>1, <1>t, <2>1, CountersMove DEF Start
<1>2. CASE Top(w)
  <2>0. pc[w] = "top"
    BY <1>2 DEF Top, Places
  <2>1. CASE TopAborting(w)
    <3>1. Goto(w, "exited")
      BY <2>1 DEF TopAborting, Leave
    <3> QED BY <2>0, <2>1, <1>t, <3>1, CountersMove DEF TopAborting, Leave
  <2>2. CASE TopEmpty(w)
    <3>1. Goto(w, "idle")
      BY <2>2 DEF TopEmpty
    <3> QED BY <2>0, <2>2, <1>t, <3>1, CountersMove DEF TopEmpty
  <2>3. CASE TopFenced(w)
    <3>1. Goto(w, "fenced")
      BY <2>3 DEF TopFenced
    <3> QED BY <2>0, <2>3, <1>t, <3>1, CountersMove DEF TopFenced
  <2>4. CASE TopPop(w)
    <3>1. CASE Goto(w, "barrier") /\ UNCHANGED jobsProcessing
      BY <2>0, <2>4, <1>t, <3>1, CountersMove DEF TopPop
    <3>2. CASE Goto(w, "job") /\ jobsProcessing' = jobsProcessing + 1
      BY <2>0, <2>4, <1>t, <3>2, CountersMove DEF TopPop
    <3> QED BY <2>4, <3>1, <3>2 DEF TopPop, BeginJob
  <2> QED BY <1>2, <2>1, <2>2, <2>3, <2>4 DEF Top
<1>3. CASE WakeCondition(w)
  <2>1. Goto(w, "top")
    BY <1>3 DEF WakeCondition
  <2> QED BY <1>3, <1>t, <2>1, CountersMove DEF WakeCondition
<1>4. CASE WakeFence(w)
  <2>1. CASE BarrierHolds(w)
    BY <2>1, CountersStay DEF BarrierHolds, pool
  <2>2. CASE BarrierAborted(w)
    <3>1. Goto(w, "exited")
      BY <2>2 DEF BarrierAborted, Leave
    <3> QED BY <1>4, <2>2, <1>t, <3>1, CountersMove DEF WakeFence, BarrierAborted, Leave
  <2>3. CASE BarrierOver(w)
    <3>1. Goto(w, "job")
      BY <2>3 DEF BarrierOver, BeginJob
    <3> QED BY <1>4, <2>3, <1>t, <3>1, CountersMove DEF WakeFence, BarrierOver, BeginJob
  <2> QED BY <1>4, <2>1, <2>2, <2>3 DEF WakeFence
<1>5. CASE JobDone(w)
  <2>1. Goto(w, "top")
    BY <1>5 DEF JobDone
  <2> QED BY <1>5, <1>t, <2>1, CountersMove DEF JobDone
<1>6. CASE PushJob(w) \/ Abort(w)
  BY <1>6, CountersStay DEF PushJob, Abort
<1>7. CASE RunProcess(w)
  <2>1. Goto(w, "sent") /\ pc[w] = "job"
    BY <1>7 DEF RunProcess, NextOp
  <2> QED BY <1>7, <1>t, <2>1, CountersMove DEF RunProcess, pool
<1>8. CASE AwaitProcess(w)
  <2>1. Goto(w, "wait") /\ pc[w] = "sent"
    BY <1>8 DEF AwaitProcess
  <2> QED BY <1>8, <1>t, <2>1, CountersMove DEF AwaitProcess, pool
<1>9. CASE WakeProcess(w)
  <2>1. Goto(w, "sent") /\ pc[w] = "wait"
    BY <1>9 DEF WakeProcess
  <2> QED BY <1>9, <1>t, <2>1, CountersMove DEF WakeProcess, pool
<1>10. CASE ProcessReturned(w)
  <2>1. Goto(w, "job") /\ pc[w] = "sent"
    BY <1>10 DEF ProcessReturned
  <2> QED BY <1>10, <1>t, <2>1, CountersMove DEF ProcessReturned, pool
<1> QED
  BY <1>1, <1>2, <1>3, <1>4, <1>5, <1>6, <1>7, <1>8, <1>9, <1>10 DEF Lock, Run

\* Threads are started when none is there, and joined when all have ended.
LEMMA CountersLoop ==
  ASSUME TypeOK, Counters, Places, UVLoop
  PROVE  Counters'
<1>1. CASE Process \/ UVSlotEnd \/ \E w \in Worker : UVProcessStart(w) \/ \E h \in Handle : HandleEnds(w, h)
  BY <1>1, CountersStay DEF Process, UVSlotEnd, UVProcessStart, HandleEnds, pool
<1>2. CASE UVSlotBegin \/ Joined
  <2>1. ASSUME NEW places, {"none", "start", "exited"} \cap places = {}
        PROVE  CountOf(places)' = CountOf(places)
    <3>1. \A w \in Worker : pc[w] \in {"none", "exited"} /\ pc'[w] \in {"start", "none"}
      BY <1>2 DEF UVSlotBegin, Joined, Places
    <3>2. {w \in Worker : pc'[w] \in places} = {w \in Worker : pc[w] \in places}
      BY <2>1, <3>1
    <3> QED BY <3>2 DEF CountOf
  <2>2. UNCHANGED <<CountOf({"idle"}), CountOf(InJob), CountOf(Counted)>>
    BY <2>1 DEF InJob, Counted
  <2> QED BY <1>2, <2>2 DEF UVSlotBegin, Joined, Counters, pool
<1> QED BY <1>1, <1>2 DEF UVLoop

\* A thread's step moves at most that thread, in the way that its job, the mutex
\* and the fence flag say.
Moves(w, place) ==
  /\ Goto(w, place)
  /\ \A v \in Worker \ {w} : job'[v] = job[v]
  /\ mutex \in {w, Free} /\ mutex' = IF place = "top" THEN w ELSE Free
  /\ loop' = loop /\ pc[w] # "none" /\ place # "none"

\* It keeps the job that it has, or has none before and after.
LEMMA PlacesSame ==
  ASSUME TypeOK, Places, NEW w \in Worker, NEW place \in PC, Moves(w, place),
         UNCHANGED <<job, fenceProcessing>>,
         place = "barrier" => pc[w] = "barrier",
         place \in InJob \cup {"barrier"} <=> pc[w] \in InJob \cup {"barrier"}
  PROVE  Places'
BY ScriptAssumption DEF Places, Moves, Goto, TypeOK

\* It takes a job when no fence job is there.
LEMMA PlacesTake ==
  ASSUME TypeOK, Places, NEW w \in Worker, NEW place \in {"job", "barrier"}, Moves(w, place),
         NEW j \in Job, job' = [job EXCEPT ![w] = j],
         ~fenceProcessing, fenceProcessing' = (j \in FenceJob),
         place = "barrier" => j \in FenceJob
  PROVE  Places'
<1>1. \A v \in Worker : v # w => job[v] \notin FenceJob
  BY DEF Places
<1> QED BY <1>1, ScriptAssumption, ZenonT(30) DEF Places, Moves, Goto, TypeOK, InJob

\* It gives up the job that it has, if any; only its own fence job clears the flag.
LEMMA PlacesDrop ==
  ASSUME TypeOK, Places, NEW w \in Worker, NEW place \in {"top", "exited"}, Moves(w, place),
         job' = [job EXCEPT ![w] = NoJob],
         fenceProcessing' = (fenceProcessing /\ job[w] \notin FenceJob)
  PROVE  Places'
<1>1. NoJob \notin Job /\ NoJob \notin FenceJob
  BY ScriptAssumption
<1>2. fenceProcessing' <=> \E v \in Worker : job'[v] \in FenceJob
  <2>1. \A v \in Worker : job'[v] \in FenceJob <=> v # w /\ job[v] \in FenceJob
    BY <1>1 DEF TypeOK
  <2>2. CASE job[w] \in FenceJob
    BY <2>1, <2>2 DEF Places
  <2>3. CASE job[w] \notin FenceJob
    BY <2>1, <2>3 DEF Places
  <2> QED BY <2>2, <2>3
<1> QED BY <1>1, <1>2, ScriptAssumption DEF Places, Moves, Goto, TypeOK, InJob

LEMMA PlacesThread ==
  ASSUME TypeOK, Places, NEW w \in Worker, Lock(w) \/ Run(w)
  PROVE  Places'
<1> USE DEF PC, InJob
<1>1. CASE Start(w)
  <2>1. Moves(w, "top")
    BY <1>1 DEF Start, Moves
  <2> QED BY <1>1, <2>1, PlacesSame DEF Start
<1>2. CASE Top(w)
  <2>0. pc[w] = "top" /\ mutex = w /\ job[w] \notin Job
    BY <1>2 DEF Top, Places
  <2>1. CASE TopAborting(w)
    <3>1. Moves(w, "exited")
      BY <2>0, <2>1 DEF TopAborting, Leave, Moves, TypeOK
    <3>2. job[w] \notin FenceJob
      BY <2>0, ScriptAssumption
    <3> QED BY <2>1, <3>1, <3>2, PlacesDrop DEF TopAborting, Leave, TypeOK
  <2>2. CASE TopEmpty(w)
    <3>1. Moves(w, "idle")
      BY <2>0, <2>2 DEF TopEmpty, Moves
    <3> QED BY <2>0, <2>2, <3>1, PlacesSame DEF TopEmpty
  <2>3. CASE TopFenced(w)
    <3>1. Moves(w, "fenced")
      BY <2>0, <2>3 DEF TopFenced, Moves
    <3> QED BY <2>0, <2>3, <3>1, PlacesSame DEF TopFenced
  <2>4. CASE TopPop(w)
    <3>1. Head(queue) \in Job
      BY <2>4 DEF TopPop, TypeOK
    <3>2. PICK place \in {"job", "barrier"} :
            Goto(w, place) /\ (place = "barrier" => Head(queue) \in FenceJob)
      BY <2>4 DEF TopPop, BeginJob
    <3>3. Moves(w, place)
      BY <2>0, <2>4, <3>2 DEF TopPop, BeginJob, Moves, TypeOK
    <3> QED BY <2>4, <3>1, <3>2, <3>3, PlacesTake DEF TopPop
  <2> QED BY <1>2, <2>1, <2>2, <2>3, <2>4 DEF Top
<1>3. CASE WakeCondition(w)
  <2>1. Moves(w, "top")
    BY <1>3 DEF WakeCondition, Moves
  <2> QED BY <1>3, <2>1, PlacesSame DEF WakeCondition
<1>4. CASE WakeFence(w)
  <2>1. CASE BarrierHolds(w)
    BY <1>4, <2>1 DEF WakeFence, BarrierHolds, Places, pool
  <2>2. CASE BarrierAborted(w)
    <3>1. Moves(w, "exited")
      BY <1>4, <2>2 DEF WakeFence, BarrierAborted, Leave, Moves, TypeOK
    <3>2. job[w] \in FenceJob
      BY <1>4 DEF WakeFence, Places
    <3> QED BY <2>2, <3>1, <3>2, PlacesDrop DEF BarrierAborted, Leave
  <2>3. CASE BarrierOver(w)
    <3>1. Moves(w, "job")
      BY <1>4, <2>3 DEF WakeFence, BarrierOver, BeginJob, Moves
    <3> QED BY <1>4, <2>3, <3>1, PlacesSame DEF WakeFence, BarrierOver
  <2> QED BY <1>4, <2>1, <2>2, <2>3 DEF WakeFence
<1>5. CASE JobDone(w)
  <2>1. Moves(w, "top")
    BY <1>5 DEF JobDone, Moves, TypeOK
  <2>2. /\ job' = [job EXCEPT ![w] = NoJob]
        /\ fenceProcessing' = (fenceProcessing /\ job[w] \notin FenceJob)
    BY <1>5 DEF JobDone
  <2> QED BY <2>1, <2>2, PlacesDrop
<1>6. CASE PushJob(w) \/ Abort(w)
  BY <1>6 DEF PushJob, Abort, Places
<1>7. CASE RunProcess(w)
  <2>1. Goto(w, "sent") /\ pc[w] = "job"
    BY <1>7 DEF RunProcess, NextOp
  <2> QED BY <1>7, <2>1, ScriptAssumption DEF RunProcess, pool, Goto, Places, TypeOK
<1>8. CASE AwaitProcess(w) \/ WakeProcess(w) \/ ProcessReturned(w)
  <2>1. PICK place \in InJob : Goto(w, place)
    BY <1>8 DEF AwaitProcess, WakeProcess, ProcessReturned
  <2>2. pc[w] \in InJob /\ UNCHANGED <<pool, job, loop>>
    BY <1>8 DEF AwaitProcess, WakeProcess, ProcessReturned
  <2> QED BY <2>1, <2>2 DEF pool, Goto, Places, TypeOK
<1> QED
  BY <1>1, <1>2, <1>3, <1>4, <1>5, <1>6, <1>7, <1>8 DEF Lock, Run

LEMMA PlacesLoop ==
  ASSUME TypeOK, Places, UVLoop
  PROVE  Places'
<1>1. CASE Process \/ UVSlotEnd \/ \E w \in Worker : UVProcessStart(w) \/ \E h \in Handle : HandleEnds(w, h)
  BY <1>1 DEF Process, UVSlotEnd, UVProcessStart, HandleEnds, pool, Places
<1>2. CASE UVSlotBegin
  BY <1>2, ScriptAssumption DEF UVSlotBegin, pool, Places, TypeOK, InJob
<1>3. CASE Joined
  BY <1>3, ScriptAssumption DEF Joined, Places, TypeOK, InJob
<1> QED BY <1>1, <1>2, <1>3 DEF UVLoop

-----------------------------------------------------------------------------
(* External processes.                                                     *)

\* A worker that is in RunProcess has its operation at hand; its process object,
\* and what the loop still has to do for it, exist only while it is there.
Processes(w) ==
  /\ pc[w] \in {"sent", "wait"} => todo[w] # <<>>
  /\ rop[w] # "none" => pc[w] \in {"sent", "wait"}
  /\ open[w] # {} \/ request[w] => rop[w] # "none"
  /\ request[w] => open[w] = {}

LEMMA ProcessesThread ==
  ASSUME TypeOK, Places, NEW v \in Worker, Processes(v), NEW w \in Worker, Lock(w) \/ Run(w)
  PROVE  Processes(v)'
<1> USE DEF Processes, Goto, TypeOK
<1>1. CASE Start(w) \/ WakeCondition(w) \/ JobDone(w)
  BY <1>1 DEF Start, WakeCondition, JobDone, process
<1>2. CASE Top(w)
  <2>0. pc[w] = "top"
    BY <1>2 DEF Top, Places
  <2>1. CASE TopAborting(w) \/ TopEmpty(w) \/ TopFenced(w)
    BY <2>0, <2>1 DEF TopAborting, TopEmpty, TopFenced, Leave, process
  <2>2. CASE TopPop(w)
    BY <2>0, <2>2 DEF TopPop, BeginJob, process
  <2> QED BY <1>2, <2>1, <2>2 DEF Top
<1>3. CASE WakeFence(w)
  BY <1>3 DEF WakeFence, BarrierHolds, BarrierAborted, BarrierOver, Leave, BeginJob, process
<1>4. CASE PushJob(w) \/ Abort(w)
  BY <1>4 DEF PushJob, Abort, NextOp, OpDone, process
<1>5. CASE RunProcess(w)
  BY <1>5 DEF RunProcess, NextOp
<1>6. CASE AwaitProcess(w) \/ WakeProcess(w) \/ ProcessReturned(w)
  BY <1>6 DEF AwaitProcess, WakeProcess, ProcessReturned, process
<1> QED BY <1>1, <1>2, <1>3, <1>4, <1>5, <1>6 DEF Lock, Run

LEMMA ProcessesLoop ==
  ASSUME TypeOK, Places, NEW v \in Worker, Processes(v), UVLoop
  PROVE  Processes(v)'
<1> USE DEF Processes, TypeOK
<1>1. CASE Process \/ UVSlotEnd
  BY <1>1 DEF Process, UVSlotEnd, process
<1>2. CASE UVSlotBegin \/ Joined
  <2>1. pc[v] \in {"none", "exited"} /\ UNCHANGED process
    BY <1>2 DEF UVSlotBegin, Joined, Places
  <2> QED BY <1>2, <2>1 DEF UVSlotBegin, Joined, process
<1>3. ASSUME NEW w \in Worker, UVProcessStart(w) PROVE Processes(v)'
  BY <1>3 DEF UVProcessStart, UVProcessFinished, Handle
<1>4. ASSUME NEW w \in Worker, NEW h \in Handle, HandleEnds(w, h) PROVE Processes(v)'
  BY <1>4 DEF HandleEnds, UVTryFinish, UVProcessFinished
<1> QED BY <1>1, <1>2, <1>3, <1>4 DEF UVLoop

-----------------------------------------------------------------------------
(* The end of the loop.                                                    *)

\* When the loop has been asked to end, the pool is aborting and every thread has
\* left its main loop, or has not entered it, or is on its way out.
Ends ==
  /\ endRequest = "closed" <=> loop \in {"before", "after"}
  /\ loop = "begin" => endRequest = "open"
  /\ loop = "join" => endRequest = "sent"
  /\ endRequest = "sent" =>
       aborting /\ \A w \in Worker : pc[w] \in {"start", "top", "exited"}

LEMMA EndsLeave ==
  ASSUME TypeOK, Counters, Places, Ends, NEW w \in Worker, pc[w] \in {"top", "barrier"},
         aborting, Leave(w), UNCHANGED <<aborting, loop>>
  PROVE  Ends'
<1>1. loop \in {"run", "join"}
  BY DEF Places, TypeOK
<1>2. CASE workersRunning = 1
  <2>1. \A v \in Worker : v # w => pc[v] \notin Counted
    BY <1>2, CountOne DEF Counters, Counted, PC
  <2>2. \A v \in Worker : v # w => pc[v] \in {"start", "exited"}
    BY <1>1, <2>1 DEF Counted, Places, TypeOK
  <2> QED BY <1>1, <1>2, <2>2 DEF Leave, Goto, Ends, TypeOK
<1>3. CASE workersRunning # 1
  BY <1>1, <1>3 DEF Leave, Goto, Ends, TypeOK
<1> QED BY <1>2, <1>3

LEMMA EndsThread ==
  ASSUME TypeOK, Counters, Places, Ends, NEW w \in Worker, Lock(w) \/ Run(w)
  PROVE  Ends'
<1> USE DEF Goto, TypeOK, Ends
<1>1. CASE Start(w) \/ WakeCondition(w) \/ JobDone(w)
  BY <1>1 DEF Start, WakeCondition, JobDone
<1>2. CASE Top(w)
  <2>0. pc[w] = "top"
    BY <1>2 DEF Top, Places
  <2>1. CASE TopAborting(w)
    BY <2>0, <2>1, EndsLeave DEF TopAborting
  <2>2. CASE TopEmpty(w) \/ TopFenced(w) \/ TopPop(w)
    BY <2>2 DEF TopEmpty, TopFenced, TopPop
  <2> QED BY <1>2, <2>1, <2>2 DEF Top
<1>3. CASE WakeFence(w)
  <2>1. CASE BarrierAborted(w)
    BY <1>3, <2>1, EndsLeave DEF WakeFence, BarrierAborted
  <2>2. CASE BarrierHolds(w) \/ BarrierOver(w)
    BY <1>3, <2>2 DEF WakeFence, BarrierHolds, BarrierOver, pool
  <2> QED BY <1>3, <2>1, <2>2 DEF WakeFence
<1>4. CASE PushJob(w) \/ Abort(w)
  BY <1>4 DEF PushJob, Abort
<1>5. CASE RunProcess(w) \/ AwaitProcess(w) \/ WakeProcess(w) \/ ProcessReturned(w)
  BY <1>5 DEF RunProcess, NextOp, AwaitProcess, WakeProcess, ProcessReturned, pool
<1> QED BY <1>1, <1>2, <1>3, <1>4, <1>5 DEF Lock, Run

LEMMA EndsLoop ==
  ASSUME TypeOK, Places, Ends, UVLoop
  PROVE  Ends'
<1> USE DEF Ends
<1>1. CASE Process \/ UVSlotBegin \/ UVSlotEnd \/ Joined
  BY <1>1 DEF Process, UVSlotBegin, UVSlotEnd, Joined, pool
<1>2. ASSUME NEW w \in Worker, UVProcessStart(w) \/ \E h \in Handle : HandleEnds(w, h)
      PROVE  Ends'
  BY <1>2 DEF UVProcessStart, HandleEnds, pool
<1> QED BY <1>1, <1>2 DEF UVLoop

-----------------------------------------------------------------------------
(* Types.                                                                  *)

LEMMA TypeCounters ==
  ASSUME Counters'
  PROVE  ({workersRunning, workersIdle, jobsProcessing} \subseteq 0..Cardinality(Worker))'
<1>1. \A S \in SUBSET Worker : Cardinality(S) \in 0..Cardinality(Worker)
  BY CardinalityType
<1> QED BY <1>1 DEF Counters, CountOf

LEMMA SignalledType ==
  ASSUME TypeOK, NEW waiting \in SUBSET Worker, NotifyOne(waiting)
  PROVE  signalled' \subseteq Worker
BY DEF NotifyOne, TypeOK

LEMMA WaitingType ==
  ASSUME NEW places
  PROVE  Waiting(places) \subseteq Worker
BY DEF Waiting

\* What is left of a job's operations.
LEMMA TodoType ==
  ASSUME TypeOK, NEW w \in Worker, todo[w] # <<>>
  PROVE  /\ Tail(todo[w]) \in Seq(Operation)
         /\ Head(todo[w]) \in Operation
         /\ Head(todo[w]).op = "push" => Head(todo[w]).job \in Job
<1>1. todo[w] \in Seq(Operation)
  BY DEF TypeOK
<1>2. Head(todo[w]) \in Operation /\ Tail(todo[w]) \in Seq(Operation)
  BY <1>1
<1>3. \A o \in Operation : o.op = "push" => o.job \in Job
  BY DEF Operation, PushOp, AbortOp, RunOp
<1> QED BY <1>2, <1>3

LEMMA TypeThread ==
  ASSUME TypeOK, Places, Counters', NEW w \in Worker, Processes(w), Lock(w) \/ Run(w)
  PROVE  TypeOK'
<1>c. ({workersRunning, workersIdle, jobsProcessing} \subseteq 0..Cardinality(Worker))'
  BY TypeCounters
<1>w. OnCondition \subseteq Worker /\ OnConditionFence \subseteq Worker
  BY WaitingType DEF OnCondition, OnConditionFence
<1> USE DEF PC, Goto
<1>1. CASE Start(w) \/ WakeCondition(w)
  BY <1>1, <1>c DEF Start, WakeCondition, TypeOK, process
<1>2. CASE TopAborting(w) \/ TopEmpty(w) \/ TopFenced(w)
  BY <1>2, <1>c DEF TopAborting, TopEmpty, TopFenced, Leave, TypeOK, process
<1>3. CASE TopPop(w)
  <2>1. Head(queue) \in Job /\ Tail(queue) \in Seq(Job)
    BY <1>3 DEF TopPop, TypeOK
  <2>2. todo' \in [Worker -> Seq(Operation)]
    BY <1>3, <2>1, ScriptAssumption DEF TopPop, BeginJob, TypeOK
  <2>3. pc' \in [Worker -> PC] /\ mutex' = Free
    BY <1>3 DEF TopPop, BeginJob, TypeOK
  <2>4. job' \in [Worker -> Job \cup {NoJob}] /\ queue' \in Seq(Job)
    BY <1>3, <2>1 DEF TopPop, TypeOK
  <2>5. fenceProcessing' \in BOOLEAN
    BY <1>3 DEF TopPop
  <2>6. UNCHANGED <<aborting, signalled, process, loop, endRequest>>
    BY <1>3 DEF TopPop
  <2> HIDE DEF PC
  <2> QED BY <1>c, <2>2, <2>3, <2>4, <2>5, <2>6 DEF TypeOK, process
<1>4. CASE WakeFence(w)
  <2>1. CASE BarrierHolds(w)
    BY <1>4, <2>1, <1>c DEF WakeFence, BarrierHolds, TypeOK, process, pool
  <2>2. CASE BarrierAborted(w)
    BY <1>4, <2>2, <1>c, <1>w DEF WakeFence, BarrierAborted, Leave, TypeOK, process
  <2>3. CASE BarrierOver(w)
    <3>1. Script[job[w]] \in Seq(Operation)
      BY <1>4, ScriptAssumption DEF WakeFence, Places
    <3>2. todo' \in [Worker -> Seq(Operation)]
      BY <2>3, <3>1 DEF BarrierOver, BeginJob, TypeOK
    <3> QED BY <1>4, <2>3, <1>c, <3>2 DEF WakeFence, BarrierOver, BeginJob, TypeOK, process
  <2> QED BY <1>4, <2>1, <2>2, <2>3 DEF WakeFence
<1>5. CASE JobDone(w)
  <2>1. signalled' \subseteq Worker
    BY <1>5, <1>w DEF JobDone, TypeOK
  <2>2. fenceProcessing' \in BOOLEAN
    BY <1>5 DEF JobDone
  <2> QED BY <1>5, <1>c, <2>1, <2>2 DEF JobDone, TypeOK, process
<1>6. CASE PushJob(w)
  <2>1. todo' \in [Worker -> Seq(Operation)] /\ Head(todo[w]).job \in Job
    BY <1>6, TodoType DEF PushJob, NextOp, OpDone, TypeOK
  <2>2. signalled' \subseteq Worker
    BY <1>6, <1>w, SignalledType DEF PushJob, TypeOK
  <2>3. queue' \in Seq(Job)
    <3>1. queue \in Seq(Job) /\ queue' \in {queue, Append(queue, Head(todo[w]).job)}
      BY <1>6 DEF PushJob, TypeOK
    <3> QED BY <2>1, <3>1
  <2> QED BY <1>6, <1>c, <2>1, <2>2, <2>3 DEF PushJob, TypeOK, process
<1>7. CASE Abort(w)
  <2>1. todo' \in [Worker -> Seq(Operation)]
    BY <1>7, TodoType DEF Abort, NextOp, OpDone, TypeOK
  <2>2. signalled' \subseteq Worker
    BY <1>7, <1>w DEF Abort, TypeOK
  <2>3. queue' \in Seq(Job)
    <3>1. queue \in Seq(Job) /\ queue' \in {queue, <<>>} /\ <<>> \in Seq(Job)
      BY <1>7 DEF Abort, TypeOK
    <3> QED BY <3>1
  <2>4. UNCHANGED <<mutex, fenceProcessing, pc, job, process, loop, endRequest>> /\ aborting' = TRUE
    BY <1>7 DEF Abort
  <2> HIDE DEF PC
  <2> QED BY <1>c, <2>1, <2>2, <2>3, <2>4 DEF TypeOK, process
<1>8. CASE RunProcess(w) \/ AwaitProcess(w) \/ WakeProcess(w)
  BY <1>8, <1>c DEF RunProcess, AwaitProcess, WakeProcess, TypeOK, process, pool
<1>9. CASE ProcessReturned(w)
  <2>1. <<AbortOp>> \in Seq(Operation)
    BY DEF Operation
  <2>2. todo[w] # <<>>
    BY <1>9 DEF ProcessReturned, Processes
  <2>3. todo' \in [Worker -> Seq(Operation)]
    BY <1>9, <2>1, <2>2, TodoType DEF ProcessReturned, TypeOK
  <2> QED BY <1>9, <1>c, <2>3 DEF ProcessReturned, TypeOK, process, pool
<1> QED
  BY <1>1, <1>2, <1>3, <1>4, <1>5, <1>6, <1>7, <1>8, <1>9 DEF Lock, Run, Top

LEMMA TypeLoop ==
  ASSUME TypeOK, Counters', UVLoop
  PROVE  TypeOK'
<1>c. ({workersRunning, workersIdle, jobsProcessing} \subseteq 0..Cardinality(Worker))'
  BY TypeCounters
<1> USE DEF PC, Handle
<1>1. CASE Process \/ UVSlotBegin \/ UVSlotEnd \/ Joined
  BY <1>1, <1>c DEF Process, UVSlotBegin, UVSlotEnd, Joined, TypeOK, process, pool
<1>2. ASSUME NEW w \in Worker, UVProcessFinished(w)
      PROVE  signalled' \subseteq Worker /\ rop' \in [Worker -> {"none", "set", "started"}]
  <2>1. Waiting({"wait"}) \cap {w} \in SUBSET Worker
    BY WaitingType
  <2> QED BY <1>2, <2>1, SignalledType DEF UVProcessFinished, TypeOK
<1>3. ASSUME NEW w \in Worker, UVProcessStart(w) PROVE TypeOK'
  <2>1. \/ UVProcessFinished(w)
        \/ rop' = [rop EXCEPT ![w] = "started"] /\ UNCHANGED signalled
    BY <1>3 DEF UVProcessStart
  <2>2. signalled' \subseteq Worker /\ rop' \in [Worker -> {"none", "set", "started"}]
    BY <1>2, <2>1 DEF TypeOK
  <2>3. open' \in [Worker -> SUBSET Handle] /\ failed' \in [Worker -> BOOLEAN]
    <3>1. /\ open' \in {open, [open EXCEPT ![w] = Handle]}
          /\ failed' \in {failed, [failed EXCEPT ![w] = TRUE]}
      BY <1>3 DEF UVProcessStart
    <3> HIDE DEF Handle
    <3> QED BY <3>1, ZenonT(30) DEF TypeOK
  <2> HIDE DEF PC, Handle
  <2> QED BY <1>3, <1>c, <2>2, <2>3 DEF UVProcessStart, TypeOK, pool
<1>4. ASSUME NEW w \in Worker, NEW h \in Handle, HandleEnds(w, h) PROVE TypeOK'
  BY <1>2, <1>4, <1>c DEF HandleEnds, UVTryFinish, TypeOK, pool
<1> QED BY <1>1, <1>3, <1>4 DEF UVLoop
-----------------------------------------------------------------------------
(* The theorems.                                                           *)

\* The inductive invariant.
Invariant ==
  TypeOK /\ Counters /\ Places /\ Ends /\ \A w \in Worker : Processes(w)

LEMMA Initially == Init => Invariant
<1> SUFFICES ASSUME Init PROVE Invariant
  OBVIOUS
<1> USE DEF Init
<1>1. \A places : "none" \notin places => CountOf(places) = 0
  BY CountZero
<1>2. Counters
  BY <1>1 DEF Counters, InJob, Counted
<1>3. Cardinality(Worker) \in Nat
  BY ScriptAssumption, FS_CardinalityType
<1>4. TypeOK
  <2>1. queue \in Seq(Job) /\ <<>> \in Seq(Operation)
    BY ScriptAssumption
  <2>2. todo \in [Worker -> Seq(Operation)]
    BY <2>1
  <2>3. {workersRunning, workersIdle, jobsProcessing} \subseteq 0..Cardinality(Worker)
    BY <1>3
  <2> QED BY <2>1, <2>2, <2>3 DEF TypeOK, PC
<1>5. Places
  BY ScriptAssumption DEF Places, InJob
<1> QED BY <1>2, <1>4, <1>5 DEF Invariant, Ends, Processes

LEMMA Inductive == Invariant /\ [Next]_vars => Invariant'
<1> SUFFICES ASSUME Invariant, [Next]_vars PROVE Invariant'
  OBVIOUS
<1> USE DEF Invariant
<1>1. ASSUME NEW w \in Worker, Lock(w) \/ Run(w) PROVE Invariant'
  <2>1. Counters'
    BY <1>1, CountersThread
  <2>2. TypeOK'
    BY <1>1, <2>1, TypeThread
  <2>3. Places' /\ Ends'
    BY <1>1, PlacesThread, EndsThread
  <2>4. \A v \in Worker : Processes(v)'
    BY <1>1, ProcessesThread
  <2> QED BY <2>1, <2>2, <2>3, <2>4
<1>2. CASE UVLoop
  <2>1. Counters'
    BY <1>2, CountersLoop
  <2>2. TypeOK'
    BY <1>2, <2>1, TypeLoop
  <2>3. Places' /\ Ends'
    BY <1>2, PlacesLoop, EndsLoop
  <2>4. \A v \in Worker : Processes(v)'
    BY <1>2, ProcessesLoop
  <2> QED BY <2>1, <2>2, <2>3, <2>4
<1>3. CASE UNCHANGED vars
  BY <1>3 DEF vars, pool, process, TypeOK, Counters, CountOf, Places, Ends, Processes
<1> QED BY <1>1, <1>2, <1>3 DEF Next, Returned

LEMMA Always == Spec => []Invariant
BY Initially, Inductive, PTL DEF Spec

\* In every reachable state the variables have their types; in particular the
\* counters stay within the number of threads, no unsigned counter underflows.
THEOREM PoolType == Spec => []TypeOK
<1>1. Invariant => TypeOK
  BY DEF Invariant
<1> QED BY Always, <1>1, PTL

\* The counters and the fence flag say what the threads really do.
THEOREM CountersTheorem == Spec => []CountersExact
<1>1. Invariant => CountersExact
  BY DEF Invariant, Counters, Counted, Places, CountersExact
<1> QED BY Always, <1>1, PTL

\* The loop's handles and requests belong to a waiting job, and the loop lives as
\* long as a thread needs it.
THEOREM LoopTheorem == Spec => []LoopServesWorkers
<1>1. Invariant => LoopServesWorkers
  BY DEF Invariant, TypeOK, Places, Ends, Processes, LoopServesWorkers
<1> QED BY Always, <1>1, PTL

\* A fence job begins when no job is in progress, and none begins before it is done.
LEMMA FenceBegins ==
  ASSUME Invariant, FenceAlone, NEW w \in Worker, NEW j \in Job, BeginJob(w, j),
         job' = [job EXCEPT ![w] = j],
         j \in FenceJob => jobsProcessing = 0,
         \A v \in Worker \ {w} : job[v] \notin FenceJob
  PROVE  FenceAlone'
<1>1. j \in FenceJob => \A v \in Worker : pc[v] \notin InJob
  BY CountZero DEF Invariant, Counters
<1> QED BY <1>1 DEF Invariant, TypeOK, FenceAlone, BeginJob, Goto

LEMMA FenceStep == Invariant /\ FenceAlone /\ [Next]_vars => FenceAlone'
<1> SUFFICES ASSUME Invariant, FenceAlone, [Next]_vars PROVE FenceAlone'
  OBVIOUS
<1>t. pc \in [Worker -> PC] /\ job \in [Worker -> Job \cup {NoJob}] /\ queue \in Seq(Job)
  BY DEF Invariant, TypeOK
<1>p. Places
  BY DEF Invariant
<1>1. ASSUME NEW w \in Worker, NEW place, Goto(w, place),
             \A v \in Worker \ {w} : job'[v] = job[v],
             place \in InJob => pc[w] \in InJob /\ job' = job
      PROVE  FenceAlone'
  BY <1>1, <1>t DEF FenceAlone, Goto
<1>2. ASSUME NEW w \in Worker, Lock(w) \/ Run(w) PROVE FenceAlone'
  <2>1. CASE Start(w)
    <3>1. Goto(w, "top")
      BY <2>1 DEF Start
    <3> QED BY <1>1, <2>1, <3>1 DEF Start, InJob
  <2>2. CASE Top(w)
    <3>1. CASE TopAborting(w)
      <4>1. Goto(w, "exited") /\ \A v \in Worker \ {w} : job'[v] = job[v]
        BY <3>1, <1>t DEF TopAborting, Leave
      <4> QED BY <1>1, <4>1 DEF InJob
    <3>2. CASE TopEmpty(w) \/ TopFenced(w)
      <4>1. PICK place \in {"idle", "fenced"} : Goto(w, place)
        BY <3>2 DEF TopEmpty, TopFenced
      <4> QED BY <1>1, <3>2, <4>1 DEF TopEmpty, TopFenced, InJob
    <3>3. CASE TopPop(w)
      <4>1. Head(queue) \in Job /\ job' = [job EXCEPT ![w] = Head(queue)]
        BY <3>3, <1>t DEF TopPop
      <4>2. CASE Goto(w, "barrier")
        BY <1>1, <1>t, <4>1, <4>2 DEF InJob
      <4>3. CASE BeginJob(w, Head(queue)) /\ (Head(queue) \in FenceJob => jobsProcessing = 0)
        <5>1. \A v \in Worker : job[v] \notin FenceJob
          BY <3>3, <1>p DEF TopPop, Places
        <5> QED BY <4>1, <4>3, <5>1, FenceBegins
      <4> QED BY <3>3, <4>2, <4>3 DEF TopPop
    <3> QED BY <2>2, <3>1, <3>2, <3>3 DEF Top
  <2>3. CASE WakeCondition(w)
    <3>1. Goto(w, "top")
      BY <2>3 DEF WakeCondition
    <3> QED BY <1>1, <2>3, <3>1 DEF WakeCondition, InJob
  <2>4. CASE WakeFence(w)
    <3>1. CASE BarrierHolds(w)
      BY <3>1 DEF BarrierHolds, FenceAlone
    <3>2. CASE BarrierAborted(w)
      <4>1. Goto(w, "exited") /\ \A v \in Worker \ {w} : job'[v] = job[v]
        BY <3>2, <1>t DEF BarrierAborted, Leave
      <4> QED BY <1>1, <4>1 DEF InJob
    <3>3. CASE BarrierOver(w)
      <4>1. job[w] \in Job /\ job[w] \in FenceJob
        BY <2>4, <1>p, ScriptAssumption DEF WakeFence, Places
      <4>2. \A v \in Worker \ {w} : job[v] \notin FenceJob
        BY <4>1, <1>p DEF Places
      <4>3. job' = [job EXCEPT ![w] = job[w]]
        BY <3>3, <1>t DEF BarrierOver
      <4> QED BY <3>3, <4>1, <4>2, <4>3, FenceBegins DEF BarrierOver
    <3> QED BY <2>4, <3>1, <3>2, <3>3 DEF WakeFence
  <2>5. CASE JobDone(w)
    <3>1. Goto(w, "top") /\ \A v \in Worker \ {w} : job'[v] = job[v]
      BY <2>5, <1>t DEF JobDone
    <3> QED BY <1>1, <3>1 DEF InJob
  <2>6. CASE PushJob(w) \/ Abort(w)
    BY <2>6 DEF PushJob, Abort, FenceAlone
  <2>7. CASE RunProcess(w) \/ AwaitProcess(w) \/ WakeProcess(w) \/ ProcessReturned(w)
    <3>1. PICK place \in InJob : Goto(w, place)
      BY <2>7 DEF RunProcess, AwaitProcess, WakeProcess, ProcessReturned, InJob
    <3>2. pc[w] \in InJob /\ job' = job
      BY <2>7 DEF RunProcess, NextOp, AwaitProcess, WakeProcess, ProcessReturned, InJob
    <3> QED BY <1>1, <3>1, <3>2
  <2> QED
    BY <1>2, <2>1, <2>2, <2>3, <2>4, <2>5, <2>6, <2>7 DEF Lock, Run
<1>3. CASE Process \/ UVSlotEnd \/ \E w \in Worker : UVProcessStart(w) \/ \E h \in Handle : HandleEnds(w, h)
  BY <1>3 DEF Process, UVSlotEnd, UVProcessStart, HandleEnds, FenceAlone
<1>4. CASE UVSlotBegin \/ Joined
  BY <1>4 DEF UVSlotBegin, Joined, FenceAlone, InJob
<1>5. CASE UNCHANGED vars
  BY <1>5 DEF vars, FenceAlone
<1> QED BY <1>2, <1>3, <1>4, <1>5 DEF Next, UVLoop, Returned

\* Whatever the threads, the jobs and their order: while a fence job is processed
\* no other job is, through external processes, aborts and spurious wake-ups.
THEOREM FenceTheorem == Spec => []FenceAlone
<1>1. Init => FenceAlone
  BY DEF Init, FenceAlone, InJob
<1> QED BY Always, <1>1, FenceStep, PTL DEF Spec

-----------------------------------------------------------------------------
(* The pool implements JobQueue.                                           *)

\* An abort has emptied the queue, nothing enters it any more, and it lasts until
\* the loop's thread has joined the workers.
AbortClears == aborting => queue = <<>> /\ loop \in {"run", "join"}

LEMMA AbortClearsStep == Invariant /\ AbortClears /\ [Next]_vars => AbortClears'
<1> SUFFICES ASSUME Invariant, AbortClears, [Next]_vars PROVE AbortClears'
  OBVIOUS
<1> USE DEF AbortClears
<1>1. ASSUME NEW w \in Worker, Abort(w) PROVE AbortClears'
  <2>1. pc[w] # "none" /\ loop \in {"before", "begin", "run", "join", "after"}
    BY <1>1 DEF Abort, NextOp, Invariant, TypeOK
  <2>2. loop \in {"run", "join"}
    BY <2>1 DEF Invariant, Places
  <2> QED BY <1>1, <2>2 DEF Abort
<1>2. ASSUME NEW w \in Worker, Start(w) \/ WakeCondition(w) \/ JobDone(w) \/ PushJob(w)
      PROVE  AbortClears'
  BY <1>2 DEF Start, WakeCondition, JobDone, PushJob
<1>3. ASSUME NEW w \in Worker, WakeFence(w) PROVE AbortClears'
  BY <1>3 DEF WakeFence, BarrierHolds, BarrierAborted, BarrierOver, pool
<1>4. ASSUME NEW w \in Worker, Top(w) PROVE AbortClears'
  BY <1>4 DEF Top, TopAborting, TopEmpty, TopFenced, TopPop
<1>5. ASSUME NEW w \in Worker,
             RunProcess(w) \/ AwaitProcess(w) \/ WakeProcess(w) \/ ProcessReturned(w)
      PROVE  AbortClears'
  BY <1>5 DEF RunProcess, AwaitProcess, WakeProcess, ProcessReturned, pool
<1>6. CASE UVLoop
  BY <1>6 DEF UVLoop, Process, UVSlotBegin, UVSlotEnd, Joined, UVProcessStart, HandleEnds, pool
<1>7. CASE UNCHANGED vars
  BY <1>7 DEF vars, pool
<1> QED BY <1>1, <1>2, <1>3, <1>4, <1>5, <1>6, <1>7 DEF Next, Returned, Lock, Run

\* A thread at the barrier is the only one, and its job heads what is pending.
LEMMA PendingBarrier ==
  ASSUME Places, NEW w \in Worker, pc[w] = "barrier"
  PROVE  Barrier = {w} /\ Pending = IF aborting THEN <<>> ELSE <<job[w]>> \o queue
<1>1. Barrier = {w}
  BY DEF Barrier, Places
<1>2. (CHOOSE v \in Barrier : TRUE) = w
  BY <1>1
<1> QED BY <1>1, <1>2 DEF Pending

LEMMA PendingNoBarrier ==
  ASSUME TypeOK, Barrier = {}
  PROVE  Pending = IF aborting THEN <<>> ELSE queue
BY DEF Pending, TypeOK

LEMMA PendingSame ==
  ASSUME UNCHANGED <<aborting, queue, Barrier>>, \A v \in Barrier : job'[v] = job[v]
  PROVE  Pending' = Pending
<1>1. Barrier # {} => (CHOOSE v \in Barrier : TRUE) \in Barrier
  OBVIOUS
<1>2. (CHOOSE v \in Barrier : TRUE)' = (CHOOSE v \in Barrier : TRUE)
  OBVIOUS
<1> QED BY <1>1, <1>2 DEF Pending

\* How a step of one thread changes the running jobs.
LEMMA RunningSame ==
  ASSUME TypeOK, NEW w \in Worker, NEW place, Goto(w, place),
         \A v \in Worker \ {w} : job'[v] = job[v],
         pc[w] \in InJob <=> place \in InJob,
         pc[w] \in InJob => job'[w] = job[w]
  PROVE  Running' = Running
BY DEF Running, Goto, TypeOK

LEMMA RunningGrows ==
  ASSUME TypeOK, NEW w \in Worker, BeginJob(w, job'[w]), pc[w] \notin InJob,
         \A v \in Worker \ {w} : job'[v] = job[v]
  PROVE  Running' = Running \cup {job'[w]}
<1>1. \A v \in Worker : pc'[v] \in InJob <=> v = w \/ pc[v] \in InJob
  BY DEF BeginJob, Goto, TypeOK, InJob
<1>2. \A v \in Worker : pc[v] \in InJob => job'[v] = job[v]
  OBVIOUS
<1>3. {v \in Worker : pc'[v] \in InJob} = {v \in Worker : pc[v] \in InJob} \cup {w}
  BY <1>1
<1> QED BY <1>2, <1>3 DEF Running

LEMMA RunningShrinks ==
  ASSUME TypeOK, NEW w \in Worker, JobDone(w)
  PROVE  Running' \in {Running, Running \ {job[w]}}
<1>1. pc[w] \in InJob /\ Goto(w, "top") /\ \A v \in Worker \ {w} : job'[v] = job[v]
  BY DEF JobDone, InJob, TypeOK
<1>2. Running' = {job[v] : v \in {u \in Worker \ {w} : pc[u] \in InJob}}
  BY <1>1 DEF Running, Goto, InJob, TypeOK
<1>3. Running = Running' \cup {job[w]}
  BY <1>1, <1>2 DEF Running
<1>4. CASE job[w] \in Running'
  BY <1>3, <1>4
<1>5. CASE job[w] \notin Running'
  BY <1>3, <1>5
<1> QED BY <1>4, <1>5

\* A thread that has no job in progress leaves room for one.
LEMMA RunningBounded ==
  ASSUME NEW w \in Worker, pc[w] \notin InJob
  PROVE  Queue!Cardinality(Running) < Cardinality(Worker)
<1> DEFINE V == {v \in Worker : pc[v] \in InJob}
           f == [v \in V |-> job[v]]
<1>1. IsFiniteSet(Worker) /\ Cardinality(Worker) \in Nat
  BY ScriptAssumption, FS_CardinalityType
<1>2. IsFiniteSet(Worker \ {w}) /\ Cardinality(Worker \ {w}) = Cardinality(Worker) - 1
  BY <1>1, FS_RemoveElement
<1>3. IsFiniteSet(V) /\ Cardinality(V) <= Cardinality(Worker \ {w})
  <2>1. V \in SUBSET (Worker \ {w})
    OBVIOUS
  <2> HIDE DEF V
  <2> QED BY <1>2, <2>1, FS_Subset
<1>4. f \in Surjection(V, Running)
  BY DEF Surjection, Running
<1>5. IsFiniteSet(Running) /\ Cardinality(Running) <= Cardinality(V)
  <2> HIDE DEF V, f
  <2> QED BY <1>3, <1>4, FS_Surjection
<1>6. Cardinality(Running) \in Nat /\ Cardinality(V) \in Nat
  BY <1>3, <1>5, FS_CardinalityType
<1>7. Queue!Cardinality(Running) = Cardinality(Running)
  BY Zenon DEF Queue!Cardinality, Cardinality
<1> HIDE DEF V
<1> QED BY <1>1, <1>2, <1>3, <1>5, <1>6, <1>7

LEMMA RunningEmpty ==
  ASSUME Invariant, jobsProcessing = 0
  PROVE  Running = {}
BY CountZero DEF Invariant, Counters, Running

\* A job begins: it was the first one waiting, and it may start.
LEMMA BeginRefines ==
  ASSUME Invariant, FenceAlone, NEW w \in Worker, NEW j \in Job, BeginJob(w, j),
         job' = [job EXCEPT ![w] = j], pc[w] \notin InJob,
         j \in FenceJob => jobsProcessing = 0,
         \A v \in Worker \ {w} : job[v] \notin FenceJob,
         Pending # <<>>, Head(Pending) = j, Pending' = Tail(Pending),
         UNCHANGED aborting
  PROVE  Queue!Next
<1>1. Running' = Running \cup {j}
  BY RunningGrows DEF Invariant, TypeOK
<1>2. Queue!Cardinality(Running) < Cardinality(Worker)
  BY RunningBounded
<1>3. ~\E k \in Running : k \in FenceJob
  BY DEF Running
<1>4. j \in FenceJob => Running = {}
  BY RunningEmpty
<1>5. Queue!MayStart(Head(Pending))
  BY <1>2, <1>3, <1>4 DEF Queue!MayStart
<1>6. Queue!Start
  BY <1>1, <1>5 DEF Queue!Start
<1> QED BY <1>6 DEF Queue!Next

\* A thread looks at the queue.
LEMMA TopRefines ==
  ASSUME Invariant, AbortClears, FenceAlone, NEW w \in Worker, Top(w)
  PROVE  Queue!Next \/ UNCHANGED Queue!vars
<1>t. TypeOK /\ Places
  BY DEF Invariant
<1>0. pc[w] = "top"
  BY <1>t DEF Top, Places
<1>1. CASE TopAborting(w)
  <2>1. Goto(w, "exited") /\ \A v \in Worker \ {w} : job'[v] = job[v]
    BY <1>1, <1>t DEF TopAborting, Leave, TypeOK
  <2>2. Running' = Running
    BY <1>0, <1>t, <2>1, RunningSame DEF InJob
  <2>3. Pending = <<>> /\ Pending' = <<>> /\ UNCHANGED aborting
    BY <1>1 DEF TopAborting, Pending
  <2> QED BY <2>2, <2>3 DEF Queue!vars
<1>2. CASE TopEmpty(w) \/ TopFenced(w)
  <2>1. PICK place \in {"idle", "fenced"} : Goto(w, place)
    BY <1>2 DEF TopEmpty, TopFenced
  <2>2. UNCHANGED <<job, queue, aborting>>
    BY <1>2 DEF TopEmpty, TopFenced
  <2>3. Running' = Running
    BY <1>0, <1>t, <2>1, <2>2, RunningSame DEF InJob
  <2>4. Barrier' = Barrier
    BY <1>0, <1>t, <2>1 DEF Barrier, Goto, TypeOK
  <2>5. Pending' = Pending
    BY <2>2, <2>4, PendingSame
  <2> QED BY <2>2, <2>3, <2>5 DEF Queue!vars
<1>3. CASE TopPop(w)
  <2>1. /\ ~aborting /\ queue # <<>> /\ ~fenceProcessing /\ queue' = Tail(queue)
        /\ job' = [job EXCEPT ![w] = Head(queue)] /\ UNCHANGED aborting
        /\ queue \in Seq(Job) /\ Head(queue) \in Job
    BY <1>3, <1>t DEF TopPop, TypeOK
  <2>2. \A v \in Worker : job[v] \notin FenceJob
    BY <1>t, <2>1 DEF Places
  <2>3. Barrier = {}
    BY <1>t, <2>2 DEF Places, Barrier
  <2>4. Pending = queue
    BY <1>t, <2>1, <2>3, PendingNoBarrier
  <2>5. CASE Goto(w, "barrier") /\ Head(queue) \in FenceJob
    <3>1. Barrier' = {w} /\ job'[w] = Head(queue)
      BY <1>t, <2>1, <2>3, <2>5 DEF Barrier, Goto, TypeOK
    <3>2. Pending' = <<Head(queue)>> \o Tail(queue)
      <4>1. (CHOOSE v \in Barrier' : TRUE) = w
        BY <3>1
      <4> QED BY <2>1, <3>1, <4>1 DEF Pending
    <3>3. Pending' = Pending
      BY <2>1, <2>4, <3>2
    <3>4. Running' = Running
      BY <1>0, <1>t, <2>1, <2>5, RunningSame DEF InJob
    <3> QED BY <2>1, <3>3, <3>4 DEF Queue!vars
  <2>6. CASE BeginJob(w, Head(queue)) /\ (Head(queue) \in FenceJob => jobsProcessing = 0)
    <3>1. Barrier' = {}
      BY <1>t, <2>3, <2>6 DEF Barrier, BeginJob, Goto, TypeOK
    <3>2. Pending' = Tail(queue)
      BY <2>1, <3>1 DEF Pending
    <3> QED BY <1>0, <2>1, <2>2, <2>4, <2>6, <3>2, BeginRefines DEF InJob
  <2> QED BY <1>3, <2>5, <2>6 DEF TopPop
<1> QED BY <1>1, <1>2, <1>3 DEF Top

\* A fence job that waits at the barrier is woken.
LEMMA WakeFenceRefines ==
  ASSUME Invariant, AbortClears, FenceAlone, NEW w \in Worker, WakeFence(w)
  PROVE  Queue!Next \/ UNCHANGED Queue!vars
<1>t. TypeOK /\ Places /\ pc[w] = "barrier"
  BY DEF Invariant, WakeFence
<1>1. CASE BarrierHolds(w)
  <2>1. UNCHANGED <<pc, job, queue, aborting>>
    BY <1>1 DEF BarrierHolds, pool
  <2> QED BY <2>1 DEF Queue!vars, Pending, Barrier, Running
<1>2. CASE BarrierAborted(w)
  <2>1. Goto(w, "exited") /\ \A v \in Worker \ {w} : job'[v] = job[v]
    BY <1>2, <1>t DEF BarrierAborted, Leave, TypeOK
  <2>2. Running' = Running
    BY <1>t, <2>1, RunningSame DEF InJob
  <2>3. Pending = <<>> /\ Pending' = <<>> /\ UNCHANGED aborting
    BY <1>2 DEF BarrierAborted, Pending
  <2> QED BY <2>2, <2>3 DEF Queue!vars
<1>3. CASE BarrierOver(w)
  <2>1. /\ ~aborting /\ UNCHANGED <<queue, aborting>> /\ BeginJob(w, job[w])
        /\ jobsProcessing = 0 /\ job' = job /\ queue \in Seq(Job)
    BY <1>3, <1>t DEF BarrierOver, TypeOK
  <2>2. job[w] \in Job /\ job[w] \in FenceJob /\ job' = [job EXCEPT ![w] = job[w]]
    BY <1>t, <2>1, ScriptAssumption DEF Places, TypeOK
  <2>3. \A v \in Worker \ {w} : job[v] \notin FenceJob
    BY <1>t, <2>2 DEF Places
  <2>4. Barrier = {w} /\ Pending = <<job[w]>> \o queue
    BY <1>t, <2>1, PendingBarrier
  <2>5. Pending # <<>> /\ Head(Pending) = job[w] /\ Tail(Pending) = queue
    BY <2>1, <2>2, <2>4
  <2>6. Barrier' = {}
    BY <1>t, <2>1, <2>4 DEF Barrier, BeginJob, Goto, TypeOK
  <2>7. Pending' = queue
    BY <2>1, <2>6 DEF Pending
  <2> QED BY <1>t, <2>1, <2>2, <2>3, <2>5, <2>7, BeginRefines DEF InJob
<1> QED BY <1>1, <1>2, <1>3 DEF WakeFence

LEMMA JobDoneRefines ==
  ASSUME Invariant, NEW w \in Worker, JobDone(w)
  PROVE  Queue!Next \/ UNCHANGED Queue!vars
<1>t. TypeOK /\ Places
  BY DEF Invariant
<1>1. /\ pc[w] = "job" /\ Goto(w, "top") /\ UNCHANGED <<queue, aborting>>
      /\ job' = [job EXCEPT ![w] = NoJob]
  BY DEF JobDone
<1>2. Barrier' = Barrier /\ \A v \in Barrier : job'[v] = job[v]
  BY <1>t, <1>1 DEF Barrier, Goto, TypeOK
<1>3. Pending' = Pending
  BY <1>1, <1>2, PendingSame
<1>4. job[w] \in Running /\ job[w] \in Job
  BY <1>t, <1>1 DEF Running, InJob, Places
<1>5. Running' \in {Running, Running \ {job[w]}}
  BY <1>t, RunningShrinks
<1>6. CASE Running' = Running
  BY <1>1, <1>3, <1>6 DEF Queue!vars
<1>7. CASE Running' = Running \ {job[w]}
  <2>1. Queue!Finish(job[w])
    BY <1>1, <1>3, <1>4, <1>7 DEF Queue!Finish
  <2> QED BY <1>4, <2>1 DEF Queue!Next
<1> QED BY <1>5, <1>6, <1>7

\* A push is accepted unless the pool aborts; the first abort throws away what waits.
LEMMA PushRefines ==
  ASSUME Invariant, NEW w \in Worker, PushJob(w)
  PROVE  Queue!Next \/ UNCHANGED Queue!vars
<1>t. TypeOK /\ todo[w] # <<>> /\ Head(todo[w]).op = "push"
  BY DEF Invariant, PushJob, NextOp
<1>1. UNCHANGED <<pc, job, aborting>>
  BY DEF PushJob
<1>2. Running' = Running /\ Barrier' = Barrier
  BY <1>1 DEF Running, Barrier
<1>3. CASE aborting
  <2>1. queue' = queue
    BY <1>3 DEF PushJob
  <2> QED BY <1>1, <1>2, <1>3, <2>1 DEF Queue!vars, Pending
<1>4. CASE ~aborting
  <2> DEFINE j == Head(todo[w]).job
             before == IF Barrier = {} THEN <<>> ELSE <<job[CHOOSE v \in Barrier : TRUE]>>
  <2>1. queue' = Append(queue, j) /\ queue \in Seq(Job) /\ j \in Job
    BY <1>t, <1>4, TodoType DEF PushJob, TypeOK
  <2>2. before \in Seq(Job \cup {NoJob})
    <3>1. Barrier # {} => (CHOOSE v \in Barrier : TRUE) \in Barrier
      OBVIOUS
    <3>2. \A v \in Barrier : job[v] \in Job \cup {NoJob}
      BY <1>t DEF Barrier, TypeOK
    <3>3. CASE Barrier = {}
      BY <3>3
    <3>4. CASE Barrier # {}
      <4> DEFINE b == job[CHOOSE v \in Barrier : TRUE]
      <4>1. b \in Job \cup {NoJob} /\ before = <<b>>
        BY <3>1, <3>2, <3>4
      <4> HIDE DEF b, before
      <4> QED BY <4>1
    <3> QED BY <3>3, <3>4
  <2>3. Pending = before \o queue /\ Pending' = before \o queue'
    BY <1>1, <1>2, <1>4 DEF Pending
  <2>4. Pending' = Append(Pending, j)
    <3> HIDE DEF j, before
    <3>1. queue \in Seq(Job \cup {NoJob}) /\ j \in Job \cup {NoJob}
      BY <2>1
    <3> QED BY <2>1, <2>2, <2>3, <3>1
  <2>5. Queue!Push(j)
    BY <1>1, <1>2, <1>4, <2>4 DEF Queue!Push
  <2> QED BY <2>1, <2>5 DEF Queue!Next
<1> QED BY <1>3, <1>4

LEMMA AbortRefines ==
  ASSUME Invariant, NEW w \in Worker, Abort(w)
  PROVE  Queue!Next \/ UNCHANGED Queue!vars
<1>1. UNCHANGED <<pc, job>> /\ aborting' = TRUE
  BY DEF Abort
<1>2. Running' = Running /\ Pending' = <<>>
  BY <1>1 DEF Running, Pending
<1>3. Queue!Abort
  BY <1>1, <1>2 DEF Queue!Abort
<1> QED BY <1>3 DEF Queue!Next

\* What a thread does without the mutex or before it looks at the queue.
LEMMA OtherThreadRefines ==
  ASSUME Invariant, NEW w \in Worker,
         \/ Start(w) \/ WakeCondition(w)
         \/ RunProcess(w) \/ AwaitProcess(w) \/ WakeProcess(w) \/ ProcessReturned(w)
  PROVE  UNCHANGED Queue!vars
<1>t. TypeOK
  BY DEF Invariant
<1>1. UNCHANGED <<job, queue, aborting>>
  BY DEF Start, WakeCondition, RunProcess, AwaitProcess, WakeProcess, ProcessReturned, pool
<1>2. PICK place \in {"top", "job", "sent", "wait"} :
        Goto(w, place) /\ (pc[w] \in InJob <=> place \in InJob) /\ pc[w] # "barrier"
  BY DEF Start, WakeCondition, RunProcess, NextOp, AwaitProcess, WakeProcess,
         ProcessReturned, InJob
<1>3. Running' = Running
  BY <1>t, <1>1, <1>2, RunningSame
<1>4. Barrier' = Barrier
  BY <1>t, <1>2 DEF Barrier, Goto, TypeOK
<1>5. Pending' = Pending
  BY <1>1, <1>4, PendingSame
<1> QED BY <1>1, <1>3, <1>5 DEF Queue!vars

\* The loop's thread: nothing of it is seen but that Process returns.
LEMMA LoopRefines ==
  ASSUME Invariant, AbortClears, UVLoop
  PROVE  Queue!Next \/ UNCHANGED Queue!vars
<1>t. TypeOK /\ Places /\ Ends
  BY DEF Invariant
<1>1. CASE Process
  <2>1. ~aborting /\ ~aborting' /\ UNCHANGED <<pc, job, queue>> /\ aborting \in BOOLEAN
    BY <1>1, <1>t DEF Process, AbortClears, TypeOK
  <2>2. aborting' = aborting
    BY <1>1, <2>1 DEF Process
  <2> QED BY <2>1, <2>2 DEF Queue!vars, Pending, Barrier, Running
<1>2. CASE UVSlotEnd \/ \E w \in Worker : UVProcessStart(w) \/ \E h \in Handle : HandleEnds(w, h)
  <2>1. UNCHANGED <<pc, job, queue, aborting>>
    BY <1>2 DEF UVSlotEnd, UVProcessStart, HandleEnds, pool
  <2> QED BY <2>1 DEF Queue!vars, Pending, Barrier, Running
<1>3. CASE UVSlotBegin \/ Joined
  <2>1. \A w \in Worker : pc[w] \in {"none", "exited"} /\ pc'[w] \in {"start", "none"}
    BY <1>3, <1>t DEF UVSlotBegin, Joined, Places
  <2>2. Barrier = {} /\ Barrier' = {} /\ Running = {} /\ Running' = {}
    BY <2>1 DEF Barrier, Running, InJob
  <2>3. CASE UVSlotBegin
    <3>1. UNCHANGED <<queue, aborting>>
      BY <2>3 DEF UVSlotBegin, pool
    <3> QED BY <2>2, <3>1 DEF Queue!vars, Pending
  <2>4. CASE Joined
    <3>1. aborting /\ ~aborting' /\ aborting' = FALSE /\ queue = <<>> /\ queue' = queue
      BY <2>4, <1>t DEF Joined, Ends, AbortClears
    <3>2. Pending = <<>> /\ Pending' = <<>>
      BY <2>2, <3>1 DEF Pending
    <3>3. Queue!Return
      BY <2>2, <3>1, <3>2 DEF Queue!Return
    <3> QED BY <3>3 DEF Queue!Next
  <2> QED BY <1>3, <2>3, <2>4
<1> QED BY <1>1, <1>2, <1>3 DEF UVLoop

LEMMA InitRefinesQueue == Init => Queue!Init
<1> SUFFICES ASSUME Init PROVE Queue!Init
  OBVIOUS
<1>1. Barrier = {} /\ Running = {}
  BY DEF Init, Barrier, Running, InJob
<1>2. queue \in Seq(Job) /\ Pending = queue /\ ~aborting = TRUE
  BY <1>1, ScriptAssumption DEF Init, Pending
<1> QED BY <1>1, <1>2 DEF Queue!Init

LEMMA StepRefinesQueue ==
  Invariant /\ AbortClears /\ FenceAlone /\ [Next]_vars => [Queue!Next]_Queue!vars
<1> SUFFICES ASSUME Invariant, AbortClears, FenceAlone, [Next]_vars
             PROVE  Queue!Next \/ UNCHANGED Queue!vars
  OBVIOUS
<1>1. ASSUME NEW w \in Worker, Lock(w) \/ Run(w)
      PROVE  Queue!Next \/ UNCHANGED Queue!vars
  BY <1>1, TopRefines, WakeFenceRefines, JobDoneRefines, PushRefines, AbortRefines,
     OtherThreadRefines DEF Lock, Run
<1>2. CASE UNCHANGED vars
  BY <1>2 DEF vars, pool, Queue!vars, Pending, Barrier, Running
<1> QED BY <1>1, <1>2, LoopRefines DEF Next, Returned

\* Threads, mutex and condition variables bring about what cmWorkerPool promises.
THEOREM QueueTheorem == Spec => ImplementsQueue
<1>1. Init => AbortClears
  BY DEF Init, AbortClears
<1>2. Spec => []AbortClears
  BY <1>1, AbortClearsStep, Always, PTL DEF Spec
<1> QED BY <1>2, Always, FenceTheorem, InitRefinesQueue, StepRefinesQueue, PTL
        DEF Spec, ImplementsQueue
=============================================================================
