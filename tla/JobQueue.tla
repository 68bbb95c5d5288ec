------------------------------- MODULE JobQueue -------------------------------
(***************************************************************************)
(* What cmWorkerPool promises to the jobs that are pushed to it: they are  *)
(* started in the order of the queue, a fence job runs alone, after every  *)
(* job before it and before every job behind it, and after an Abort no     *)
(* waiting job is started any more (the comments of cmWorkerPool.h).       *)
(* How threads, a mutex and condition variables bring this about is the    *)
(* subject of WorkerPool; AutoMoc relies on no more than this module.      *)
(***************************************************************************)
EXTENDS Integers, Sequences, FiniteSets

CONSTANTS
  Job,          \* what can be pushed
  IsFence(_),   \* JobT::IsFence
  ThreadCount   \* how many jobs may run at a time

VARIABLES
  pending,    \* the jobs that wait, in the order they were pushed
  running,    \* the jobs whose Process() runs
  accepting   \* FALSE from Abort until the pool's Process returns

vars == <<pending, running, accepting>>

TypeOK ==
  /\ pending \in Seq(Job)
  /\ running \subseteq Job
  /\ accepting \in BOOLEAN

Init == pending \in Seq(Job) /\ running = {} /\ accepting = TRUE

-----------------------------------------------------------------------------
\* A push after an abort is refused, which changes nothing.
Push(j) ==
  /\ accepting
  /\ pending' = Append(pending, j)
  /\ UNCHANGED <<running, accepting>>

MayStart(j) ==
  /\ Cardinality(running) < ThreadCount
  /\ ~\E k \in running : IsFence(k)
  /\ IsFence(j) => running = {}

Start ==
  /\ pending # <<>>
  /\ MayStart(Head(pending))
  /\ pending' = Tail(pending)
  /\ running' = running \cup {Head(pending)}
  /\ UNCHANGED accepting

Finish(j) ==
  /\ j \in running
  /\ running' = running \ {j}
  /\ UNCHANGED <<pending, accepting>>

Abort ==
  /\ accepting' = FALSE
  /\ pending' = <<>>
  /\ UNCHANGED running

\* Process returns to its caller, who may use the pool again.
Return ==
  /\ ~accepting
  /\ running = {}
  /\ accepting' = TRUE
  /\ UNCHANGED <<pending, running>>

Next ==
  \/ \E j \in Job : Push(j) \/ Finish(j)
  \/ Start \/ Abort \/ Return

Spec == Init /\ [][Next]_vars
=============================================================================
