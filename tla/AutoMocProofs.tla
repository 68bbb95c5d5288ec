---------------------------- MODULE AutoMocProofs ----------------------------
(***************************************************************************)
(* Theorems about AutoMoc, for every project, every sequence of changes,   *)
(* failures and kills, and every number of threads and runs.  The first    *)
(* invariant says where the jobs of a run can be in the pool, which keeps  *)
(* the stages apart; the second what the jobs before a stage have left in  *)
(* memory; the third what is true of the files on the disk, whatever runs  *)
(* were broken off.                                                        *)
(***************************************************************************)
EXTENDS AutoMoc, FiniteSetTheorems, TLAPS

-----------------------------------------------------------------------------
(* Sequences of jobs.                                                       *)

LEMMA SeqOfSet ==
  ASSUME NEW S, IsFiniteSet(S)
  PROVE  SetToSeq(S) \in Seq(S) /\ ToSet(SetToSeq(S)) = S
<1> DEFINE n == Cardinality(S)
<1>1. n \in Nat
  BY FS_CardinalityType
<1>2. PICK m \in Nat : ExistsBijection(1..m, S)
  BY FS_NatBijection
<1>3. m = n
  BY <1>2, FS_CountingElements
<1>4. PICK f : f \in Bijection(1..n, S)
  BY <1>2, <1>3 DEF ExistsBijection
<1>5. f \in [1..n -> S] /\ IsInjective(f)
  BY <1>4 DEF Bijection, Injection
<1>6. SetToSeq(S) \in [1..n -> S] /\ IsInjective(SetToSeq(S))
  BY <1>5 DEF SetToSeq
<1> HIDE DEF n
<1>7. SetToSeq(S) \in Injection(1..n, S)
  BY <1>6 DEF Injection
<1>8. IsFiniteSet(1..n) /\ Cardinality(1..n) = n
  BY <1>1, FS_Interval
<1>9. SetToSeq(S) \in Surjection(1..n, S)
  BY <1>7, <1>8, FS_Injection DEF n
<1> QED BY <1>1, <1>6, <1>9 DEF Surjection, ToSet

\* The jobs there are: only the parse and moc jobs are about a file.
JobSet ==
  {j \in [type : FenceType \cup {"parse", "eval", "probe", "moc"}, file : Scanned \cup {"none"}] :
     /\ j.type = "parse" => j.file \in Scanned
     /\ j.type = "moc" => j.file \in Header
     /\ j.type \notin {"parse", "moc"} => j.file = "none"}

\* Their order in a run.  Headers that are found late are parsed between
\* evalFinish and probe.
Stage(j) ==
  CASE j.type = "predefs" -> 0
    [] j.type = "parse" -> 1
    [] j.type = "fence" -> 2
    [] j.type = "eval" -> 3
    [] j.type = "evalFinish" -> 4
    [] j.type = "probe" -> 5
    [] j.type = "probeFinish" -> 6
    [] j.type = "moc" -> 7
    [] j.type = "compilation" -> 8
    [] j.type = "depMerge" -> 9
    [] OTHER -> 10

Before(i, j) == Stage(i) < Stage(j) \/ (i.type = j.type /\ i.type \in {"parse", "moc"})

Ordered(s) == \A m, n \in DOMAIN s : m < n => Before(s[m], s[n])

LEMMA OrderedConcat ==
  ASSUME NEW s \in Seq(JobSet), NEW t \in Seq(JobSet), Ordered(s), Ordered(t),
         \A i \in ToSet(s), j \in ToSet(t) : Before(i, j)
  PROVE  s \o t \in Seq(JobSet) /\ Ordered(s \o t) /\ ToSet(s \o t) = ToSet(s) \cup ToSet(t)
<1>1. /\ s \o t \in Seq(JobSet) /\ Len(s \o t) = Len(s) + Len(t)
      /\ DOMAIN s = 1..Len(s) /\ DOMAIN t = 1..Len(t) /\ DOMAIN (s \o t) = 1..(Len(s) + Len(t))
      /\ Len(s) \in Nat /\ Len(t) \in Nat
  OBVIOUS
<1>2. \A m \in 1..(Len(s) + Len(t)) : (s \o t)[m] = IF m <= Len(s) THEN s[m] ELSE t[m - Len(s)]
  OBVIOUS
<1>3. \A m \in 1..Len(s) : s[m] \in ToSet(s)
  BY DEF ToSet
<1>4. \A m \in 1..Len(t) : t[m] \in ToSet(t)
  BY DEF ToSet
<1>5. Ordered(s \o t)
  <2> SUFFICES ASSUME NEW m \in 1..(Len(s) + Len(t)), NEW n \in 1..(Len(s) + Len(t)), m < n
               PROVE  Before((s \o t)[m], (s \o t)[n])
    BY <1>1 DEF Ordered
  <2>1. CASE n <= Len(s)
    BY <1>1, <1>2, <2>1 DEF Ordered
  <2>2. CASE m <= Len(s) /\ n > Len(s)
    BY <1>1, <1>2, <1>3, <1>4, <2>2
  <2>3. CASE m > Len(s)
    <3>1. m - Len(s) \in DOMAIN t /\ n - Len(s) \in DOMAIN t /\ m - Len(s) < n - Len(s)
      BY <1>1, <2>3
    <3> QED BY <1>1, <1>2, <2>3, <3>1 DEF Ordered
  <2> QED BY <1>1, <2>1, <2>2, <2>3
<1>6. ToSet(s \o t) \subseteq ToSet(s) \cup ToSet(t)
  <2> SUFFICES ASSUME NEW m \in 1..(Len(s) + Len(t)) PROVE (s \o t)[m] \in ToSet(s) \cup ToSet(t)
    BY <1>1 DEF ToSet
  <2>1. m > Len(s) => m - Len(s) \in 1..Len(t)
    BY <1>1
  <2> QED BY <1>1, <1>2, <1>3, <1>4, <2>1
<1>7. ASSUME NEW m \in 1..Len(s) PROVE s[m] \in ToSet(s \o t)
  <2>1. m \in 1..(Len(s) + Len(t)) /\ (s \o t)[m] = s[m]
    BY <1>1, <1>2
  <2> QED BY <1>1, <2>1 DEF ToSet
<1>8. ASSUME NEW m \in 1..Len(t) PROVE t[m] \in ToSet(s \o t)
  <2>1. m + Len(s) \in 1..(Len(s) + Len(t)) /\ (s \o t)[m + Len(s)] = t[m]
    BY <1>1, <1>2
  <2> QED BY <1>1, <2>1 DEF ToSet
<1> QED BY <1>1, <1>5, <1>6, <1>7, <1>8 DEF ToSet

LEMMA OrderedJobs ==
  ASSUME NEW type \in {"parse", "moc"}, NEW S \in SUBSET Scanned, type = "moc" => S \subseteq Header
  PROVE  /\ JobsFor(type, S) \in Seq(JobSet) /\ Ordered(JobsFor(type, S))
         /\ ToSet(JobsFor(type, S)) = {NewJob(type, f) : f \in S}
<1> DEFINE jobs == {NewJob(type, f) : f \in S}
<1>1. IsFiniteSet(jobs)
  <2> DEFINE job == [f \in S |-> NewJob(type, f)]
  <2>1. IsFiniteSet(S)
    BY ProjectAssumption, FS_Subset
  <2>2. job \in Surjection(S, jobs)
    BY DEF Surjection
  <2> QED BY <2>1, <2>2, FS_Surjection
<1>2. SetToSeq(jobs) \in Seq(jobs) /\ ToSet(SetToSeq(jobs)) = jobs
  BY <1>1, SeqOfSet
<1>3. \A j \in jobs : j \in JobSet /\ j.type = type
  BY DEF NewJob, JobSet, FenceType
<1>4. JobsFor(type, S) = SetToSeq(jobs)
  BY DEF JobsFor
<1> HIDE DEF jobs
<1>5. \A i, j \in jobs : Before(i, j)
  BY <1>3 DEF Before
<1>6. JobsFor(type, S) \in Seq(JobSet)
  BY <1>2, <1>3, <1>4
<1>7. Ordered(JobsFor(type, S))
  <2> SUFFICES ASSUME NEW m \in DOMAIN JobsFor(type, S) PROVE JobsFor(type, S)[m] \in jobs
    BY <1>5 DEF Ordered
  <2> QED BY <1>2, <1>4
<1> QED BY <1>2, <1>4, <1>6, <1>7 DEF jobs

\* A list of one job.
LEMMA OrderedOne ==
  ASSUME NEW j \in JobSet
  PROVE  <<j>> \in Seq(JobSet) /\ Ordered(<<j>>) /\ ToSet(<<j>>) = {j}
BY DEF Ordered, ToSet

LEMMA DoJobs ==
  ASSUME NEW type \in FenceType \cup {"eval", "probe"}
  PROVE  Do(type) \in JobSet /\ Do(type).type = type
BY DEF Do, NewJob, JobSet, FenceType

LEMMA StageOf ==
  ASSUME NEW j \in JobSet
  PROVE  \/ j.type = "predefs" /\ Stage(j) = 0
         \/ j.type = "parse" /\ Stage(j) = 1 /\ j = NewJob("parse", j.file) /\ j.file \in Scanned
         \/ j.type = "fence" /\ Stage(j) = 2 /\ j = Do("fence")
         \/ j.type = "eval" /\ Stage(j) = 3 /\ j = Do("eval")
         \/ j.type = "evalFinish" /\ Stage(j) = 4 /\ j = Do("evalFinish")
         \/ j.type = "probe" /\ Stage(j) = 5 /\ j = Do("probe")
         \/ j.type = "probeFinish" /\ Stage(j) = 6 /\ j = Do("probeFinish")
         \/ j.type = "moc" /\ Stage(j) = 7 /\ j = NewJob("moc", j.file) /\ j.file \in Header
         \/ j.type = "compilation" /\ Stage(j) = 8
         \/ j.type = "depMerge" /\ Stage(j) = 9
         \/ j.type = "finish" /\ Stage(j) = 10 /\ j = Do("finish")
<1>1. /\ j = [type |-> j.type, file |-> j.file]
      /\ j.type \in FenceType \cup {"parse", "eval", "probe", "moc"}
      /\ j.type = "parse" => j.file \in Scanned
      /\ j.type = "moc" => j.file \in Header
      /\ j.type \notin {"parse", "moc"} => j.file = "none"
  BY DEF JobSet
<1> QED BY <1>1 DEF FenceType, Do, NewJob, Stage

-----------------------------------------------------------------------------
(* Types.                                                                   *)

\* A parse cache entry, and an output of moc.
Entry == [macro : BOOLEAN, deps : SUBSET Dep, incl : SUBSET Header]
Made == [time : Nat, settings : Setting \cup {"none"}, deps : SUBSET Dep]

DiskType ==
  /\ clock \in Nat \ {0}
  /\ mtime \in [Scanned \cup Dep -> Nat]
  /\ content \in [Scanned -> Entry] /\ \A f \in Scanned : content[f] \in Contents[f]
  /\ settings \in Setting /\ settingsFile \in Setting \cup {"none"}
  /\ mocTime \in Nat \ {0} /\ cmakeTime \in Nat \ {0} /\ compilerTime \in Nat \ {0}
  /\ predefsTime \in Nat
  /\ output \in [Header -> [Output -> Made]] /\ compilation \subseteq Header
  /\ cacheFile \in [time : Nat, entries : [Scanned -> Entry \cup {NoEntry}]]

RunType ==
  /\ pc \in {"idle", "jobs", "failed", "cache", "settings"}
  /\ settingsChanged \in BOOLEAN /\ cacheChanged \in BOOLEAN /\ jobError \in BOOLEAN
  /\ parseCache \in [Scanned -> Entry \cup {NoEntry}]
  /\ discovered \subseteq Header /\ compFiles \subseteq Header
  /\ mapping \in [Header -> {"none", "comp", "incl"}]

-----------------------------------------------------------------------------
(* Where the jobs of a run can be.                                          *)

QueueType == pending \in Seq(JobSet) /\ running \subseteq JobSet /\ accepting \in BOOLEAN

InFlight == running \cup ToSet(pending)

\* The queue is in order, behind what is running; only jobs that parse
\* different files, or process different headers, run side by side.
InOrder ==
  /\ Ordered(pending)
  /\ \A i \in running, j \in ToSet(pending) : Before(i, j)
  /\ \A i, j \in running : i # j => i.type = j.type /\ i.type \in {"parse", "moc"}

\* Until the run fails, the fence that a job has to wait for, or that others have
\* to wait for it at, is in the pool as long as there is a job before it; and one
\* of the jobs that push more, or abort the pool, is there.
Fenced ==
  /\ \A j \in InFlight :
       /\ Stage(j) < 2 => Do("fence") \in InFlight
       /\ Stage(j) < 4 => Do("evalFinish") \in InFlight \/ Do("probe") \in InFlight
       /\ Do("evalFinish") \in InFlight => Stage(j) <= 4
       /\ Do("probe") \in InFlight => Stage(j) \in {1, 2, 5, 6}
       /\ Do("probeFinish") \in InFlight => Stage(j) <= 7
  /\ Do("probe") \in InFlight => Do("probeFinish") \in InFlight
  /\ InFlight \cap {Do("evalFinish"), Do("probeFinish"), Do("finish")} # {}

Order ==
  /\ InOrder
  /\ accepting /\ pc = "jobs" => Fenced
  /\ ~accepting => pending = <<>> /\ pc = "jobs" /\ \A j \in running : j.type \in {"parse", "moc"}
  /\ ~accepting /\ ~jobError => running = {}
  /\ pc # "jobs" => pending = <<>> /\ running = {} /\ accepting
  /\ pc # "idle" => lastResult = "none"

LEMMA HeadTail ==
  ASSUME NEW s \in Seq(JobSet), s # <<>>, Ordered(s)
  PROVE  /\ Head(s) \in JobSet /\ Tail(s) \in Seq(JobSet) /\ Ordered(Tail(s))
         /\ ToSet(s) = {Head(s)} \cup ToSet(Tail(s))
         /\ \A j \in ToSet(Tail(s)) : Before(Head(s), j)
<1>1. /\ Len(s) \in Nat /\ Len(s) >= 1 /\ DOMAIN s = 1..Len(s)
      /\ Head(s) = s[1] /\ Tail(s) \in Seq(JobSet) /\ DOMAIN Tail(s) = 1..(Len(s) - 1)
  OBVIOUS
<1>2. \A n \in 1..(Len(s) - 1) : Tail(s)[n] = s[n + 1] /\ n + 1 \in 2..Len(s)
  BY <1>1
<1>3. Ordered(Tail(s))
  BY <1>1, <1>2 DEF Ordered
<1>4. \A n \in 2..Len(s) : n - 1 \in DOMAIN Tail(s) /\ Tail(s)[n - 1] = s[n]
  BY <1>1, <1>2
<1>5. ToSet(s) = {Head(s)} \cup ToSet(Tail(s))
  <2>1. ToSet(s) = {s[n] : n \in 1..Len(s)} /\ ToSet(Tail(s)) = {Tail(s)[n] : n \in DOMAIN Tail(s)}
    BY <1>1 DEF ToSet
  <2>2. ASSUME NEW n \in 1..Len(s), n # 1 PROVE s[n] \in ToSet(Tail(s))
    <3>1. n \in 2..Len(s)
      BY <1>1, <2>2
    <3> QED BY <1>4, <2>1, <3>1
  <2>3. ToSet(Tail(s)) \subseteq ToSet(s)
    BY <1>1, <1>2, <2>1
  <2>4. s[1] \in ToSet(s)
    BY <1>1, <2>1
  <2> QED BY <1>1, <2>1, <2>2, <2>3, <2>4
<1>6. ASSUME NEW n \in DOMAIN Tail(s) PROVE Before(Head(s), Tail(s)[n])
  BY <1>1, <1>2 DEF Ordered
<1>7. \A j \in ToSet(Tail(s)) : Before(Head(s), j)
  BY <1>6 DEF ToSet
<1> QED BY <1>1, <1>3, <1>5, <1>7

\* The pool starts the next job: nothing enters or leaves it.
LEMMA StartQueue ==
  ASSUME QueueType, Order, JobStarts
  PROVE  QueueType' /\ InFlight' = InFlight /\ InOrder' /\ accepting
<1> DEFINE first == Head(pending)
<1>1. /\ pc = "jobs" /\ pending # <<>>
      /\ ~\E k \in running : k.type \in FenceType
      /\ first.type \in FenceType => running = {}
      /\ pending' = Tail(pending) /\ running' = running \cup {first} /\ accepting' = accepting
  BY DEF JobStarts, Pool!Start, Pool!MayStart
<1>2. accepting /\ Fenced /\ InOrder
  BY <1>1 DEF Order
<1>3. /\ first \in JobSet /\ pending' \in Seq(JobSet) /\ Ordered(pending')
      /\ ToSet(pending) = {first} \cup ToSet(pending')
      /\ \A j \in ToSet(pending') : Before(first, j)
  BY <1>1, <1>2, HeadTail DEF QueueType, InOrder
<1>4. ASSUME NEW i \in running, i # first
      PROVE  i.type = first.type /\ i.type \in {"parse", "moc"}
  <2>1. Before(i, first) /\ i \in JobSet /\ i \in InFlight
    BY <1>2, <1>3 DEF InOrder, QueueType, InFlight
  <2>2. i.type \notin FenceType /\ first.type \notin FenceType
    BY <1>1
  <2>3. \A t \in FenceType : Do(t) \in InFlight => Stage(first) < Stage(Do(t))
    <3> SUFFICES ASSUME NEW t \in FenceType, Do(t) \in InFlight PROVE Stage(first) < Stage(Do(t))
      OBVIOUS
    <3>1. Do(t).type = t /\ Do(t) \in ToSet(pending)
      BY <1>1, DoJobs DEF InFlight
    <3> QED BY <1>3, <2>2, <3>1 DEF Before, FenceType
  <2>4. /\ Stage(Do("fence")) = 2 /\ Stage(Do("evalFinish")) = 4
        /\ Stage(Do("probeFinish")) = 6
    BY DEF Stage, Do, NewJob
  <2>5. /\ Stage(i) < 2 => Stage(first) < 2
        /\ Stage(i) = 3 => Stage(first) < 4
        /\ i = Do("probe") => Stage(first) < 6
    BY <1>2, <2>1, <2>3, <2>4 DEF Fenced, FenceType
  <2> QED BY <1>3, <2>1, <2>2, <2>5, StageOf DEF Before, FenceType
<1>5. InOrder'
  BY <1>1, <1>2, <1>3, <1>4 DEF InOrder
<1> QED BY <1>1, <1>2, <1>3, <1>5 DEF QueueType, InFlight

\* A job ends, and pushes others behind all that is in the pool.
LEMMA EndsQueue ==
  ASSUME QueueType, Order, pc = "jobs", NEW j \in running,
         NEW pushed \in Seq(JobSet), Ordered(pushed), Ends(j, pushed),
         accepting => \A i \in (running \ {j}) \cup ToSet(pending), k \in ToSet(pushed) : Before(i, k)
  PROVE  /\ QueueType' /\ InOrder'
         /\ accepting' = accepting /\ jobError' = jobError /\ running' \subseteq running
         /\ ~accepting => pending' = <<>>
         /\ accepting => /\ InFlight \ {j} \subseteq InFlight'
                         /\ InFlight' \subseteq InFlight \cup ToSet(pushed)
                         /\ ToSet(pushed) \subseteq InFlight'
         /\ accepting /\ j.type \notin {"parse", "moc"} /\ j \notin ToSet(pushed) => j \notin InFlight'
<1>1. /\ running' = running \ {j} /\ accepting' = accepting /\ jobError' = jobError
      /\ pending' = IF accepting THEN pending \o pushed ELSE pending
  BY DEF Ends
<1>2. InOrder /\ j \in JobSet
  BY DEF Order, QueueType
<1>3. ToSet(<<>>) = {} /\ Ordered(<<>>)
  BY DEF ToSet, Ordered
<1>4. CASE ~accepting
  <2>1. pending = <<>> /\ pending' = <<>>
    BY <1>1, <1>4 DEF Order
  <2> QED BY <1>1, <1>2, <1>3, <1>4, <2>1 DEF QueueType, InOrder
<1>5. CASE accepting
  <2>1. pending' = pending \o pushed
    BY <1>1, <1>5
  <2>2. /\ pending' \in Seq(JobSet) /\ Ordered(pending')
        /\ ToSet(pending') = ToSet(pending) \cup ToSet(pushed)
    BY <1>2, <1>5, <2>1, OrderedConcat DEF QueueType, InOrder
  <2>3. j \in ToSet(pending) => j.type \in {"parse", "moc"}
    <3> SUFFICES ASSUME j \in ToSet(pending) PROVE j.type \in {"parse", "moc"}
      OBVIOUS
    <3>1. Before(j, j)
      BY <1>2 DEF InOrder
    <3> QED BY <1>2, <3>1, StageOf DEF Before
  <2>4. InOrder'
    BY <1>1, <1>2, <1>5, <2>2 DEF InOrder
  <2> QED BY <1>1, <1>5, <2>2, <2>3, <2>4 DEF QueueType, InFlight
<1> QED BY <1>4, <1>5

\* A job that is no fence for another and pushes nothing.
LEMMA FencedKeeps ==
  ASSUME QueueType, Fenced, NEW j \in running,
         InFlight \ {j} \subseteq InFlight', InFlight' \subseteq InFlight,
         j.type \notin {"fence", "evalFinish", "probe", "probeFinish", "finish"}
  PROVE  Fenced'
<1>1. \A t \in {"fence", "evalFinish", "probe", "probeFinish", "finish"} :
        Do(t) \in InFlight' <=> Do(t) \in InFlight
  BY DEF Do, NewJob
<1> QED BY <1>1 DEF Fenced

LEMMA ParsePushed ==
  ASSUME NEW S \in SUBSET Scanned
  PROVE  /\ JobsFor("parse", S) \o <<Do("fence"), Do("probe"), Do("probeFinish")>> \in Seq(JobSet)
         /\ Ordered(JobsFor("parse", S) \o <<Do("fence"), Do("probe"), Do("probeFinish")>>)
         /\ ToSet(JobsFor("parse", S) \o <<Do("fence"), Do("probe"), Do("probeFinish")>>) =
              {NewJob("parse", f) : f \in S} \cup {Do("fence"), Do("probe"), Do("probeFinish")}
<1> DEFINE tail == <<Do("fence"), Do("probe"), Do("probeFinish")>>
<1>1. tail \in Seq(JobSet) /\ ToSet(tail) = {Do("fence"), Do("probe"), Do("probeFinish")}
  BY DoJobs DEF ToSet, FenceType
<1>2. Ordered(tail)
  BY DEF Ordered, Before, Stage, Do, NewJob
<1>3. \A f \in S, k \in ToSet(tail) : Before(NewJob("parse", f), k)
  BY <1>1 DEF Before, Stage, Do, NewJob
<1> HIDE DEF tail
<1>4. /\ JobsFor("parse", S) \in Seq(JobSet) /\ Ordered(JobsFor("parse", S))
      /\ ToSet(JobsFor("parse", S)) = {NewJob("parse", f) : f \in S}
  BY OrderedJobs
<1>5. /\ JobsFor("parse", S) \o tail \in Seq(JobSet) /\ Ordered(JobsFor("parse", S) \o tail)
      /\ ToSet(JobsFor("parse", S) \o tail) = ToSet(JobsFor("parse", S)) \cup ToSet(tail)
  BY <1>1, <1>2, <1>3, <1>4, OrderedConcat
<1> QED BY <1>1, <1>4, <1>5 DEF tail

LEMMA RunPushed ==
  ASSUME NEW S \in SUBSET Scanned,
         NEW all, all = <<Do("predefs")>> \o JobsFor("parse", S)
                          \o <<Do("fence"), Do("eval"), Do("evalFinish")>>
  PROVE  /\ all \in Seq(JobSet) /\ Ordered(all)
         /\ ToSet(all) = {NewJob("parse", f) : f \in S}
                           \cup {Do("predefs"), Do("fence"), Do("eval"), Do("evalFinish")}
<1> DEFINE tail == <<Do("fence"), Do("eval"), Do("evalFinish")>>
           front == <<Do("predefs")>> \o JobsFor("parse", S)
<1>1. tail \in Seq(JobSet) /\ ToSet(tail) = {Do("fence"), Do("eval"), Do("evalFinish")}
  BY DoJobs DEF ToSet, FenceType
<1>2. Ordered(tail)
  BY DEF Ordered, Before, Stage, Do, NewJob
<1>3. \A f \in S, k \in ToSet(tail) : Before(NewJob("parse", f), k)
  BY <1>1 DEF Before, Stage, Do, NewJob
<1>4. \A k \in ToSet(tail) : Before(Do("predefs"), k)
  BY <1>1 DEF Before, Stage, Do, NewJob
<1>5. \A f \in S : Before(Do("predefs"), NewJob("parse", f))
  BY DEF Before, Stage, Do, NewJob
<1>6. /\ JobsFor("parse", S) \in Seq(JobSet) /\ Ordered(JobsFor("parse", S))
      /\ ToSet(JobsFor("parse", S)) = {NewJob("parse", f) : f \in S}
  BY OrderedJobs
<1>7. /\ <<Do("predefs")>> \in Seq(JobSet) /\ Ordered(<<Do("predefs")>>)
      /\ ToSet(<<Do("predefs")>>) = {Do("predefs")}
  BY DoJobs, OrderedOne DEF FenceType
<1>8. all = front \o tail
  OBVIOUS
<1>9. /\ front \in Seq(JobSet) /\ Ordered(front)
      /\ ToSet(front) = {Do("predefs")} \cup {NewJob("parse", f) : f \in S}
  <2>1. \A i \in ToSet(<<Do("predefs")>>), k \in ToSet(JobsFor("parse", S)) : Before(i, k)
    BY <1>5, <1>6, <1>7
  <2> QED BY <1>6, <1>7, <2>1, OrderedConcat
<1> HIDE DEF front, tail
<1>10. \A i \in ToSet(front), k \in ToSet(tail) : Before(i, k)
  BY <1>3, <1>4, <1>9
<1>11. /\ front \o tail \in Seq(JobSet) /\ Ordered(front \o tail)
       /\ ToSet(front \o tail) = ToSet(front) \cup ToSet(tail)
  BY <1>1, <1>2, <1>9, <1>10, OrderedConcat
<1> QED BY <1>1, <1>8, <1>9, <1>11

LEMMA FinishPushed ==
  ASSUME NEW all, all = <<Do("compilation")>> \o (IF DepFile THEN <<Do("depMerge")>> ELSE <<>>)
                          \o <<Do("finish")>>
  PROVE  /\ all \in Seq(JobSet) /\ Ordered(all)
         /\ ToSet(all) = {Do("compilation"), Do("finish")} \cup (IF DepFile THEN {Do("depMerge")} ELSE {})
<1>1. all = IF DepFile THEN <<Do("compilation"), Do("depMerge"), Do("finish")>>
            ELSE <<Do("compilation"), Do("finish")>>
  OBVIOUS
<1>2. Do("compilation") \in JobSet /\ Do("depMerge") \in JobSet /\ Do("finish") \in JobSet
  BY DoJobs DEF FenceType
<1>3. Ordered(all)
  BY <1>1, SMTT(30) DEF Ordered, Before, Stage, Do, NewJob
<1>4. ToSet(all) = {Do("compilation"), Do("finish")} \cup (IF DepFile THEN {Do("depMerge")} ELSE {})
  <2>1. CASE DepFile
    <3>1. DOMAIN all = 1..3
      BY <1>1, <2>1
    <3> QED BY <1>1, <2>1, <3>1 DEF ToSet
  <2>2. CASE ~DepFile
    <3>1. DOMAIN all = 1..2
      BY <1>1, <2>2
    <3> QED BY <1>1, <2>2, <3>1 DEF ToSet
  <2> QED BY <2>1, <2>2
<1> QED BY <1>1, <1>2, <1>3, <1>4

\* A job that is not one of several of its kind runs alone, before all others.
LEMMA Behind ==
  ASSUME QueueType, InOrder, NEW j \in running, j.type \notin {"parse", "moc"}
  PROVE  /\ running = {j} /\ j \notin ToSet(pending)
         /\ \A i \in InFlight : i = j \/ Stage(j) < Stage(i)
<1>1. running = {j}
  BY DEF InOrder
<1>2. \A i \in ToSet(pending) : Before(j, i)
  BY DEF InOrder
<1>3. \A i \in ToSet(pending) : Stage(j) < Stage(i)
  BY <1>2 DEF Before
<1>4. Stage(j) \in Nat
  BY StageOf DEF QueueType
<1> QED BY <1>1, <1>3, <1>4 DEF InFlight

LEMMA PushNothing ==
  ASSUME QueueType, Order, pc = "jobs", NEW j \in running, Ends(j, <<>>)
  PROVE  /\ QueueType' /\ InOrder'
         /\ accepting' = accepting /\ jobError' = jobError /\ running' \subseteq running
         /\ ~accepting => pending' = <<>>
         /\ accepting => InFlight \ {j} \subseteq InFlight' /\ InFlight' \subseteq InFlight
         /\ accepting /\ j.type \notin {"parse", "moc"} => j \notin InFlight'
<1>1. ToSet(<<>>) = {} /\ Ordered(<<>>) /\ <<>> \in Seq(JobSet)
  BY DEF ToSet, Ordered
<1> QED BY <1>1, EndsQueue

LEMMA FenceQueue ==
  ASSUME QueueType, Order, pc = "jobs", accepting, NEW j \in running,
         j.type = "fence", Ends(j, <<>>)
  PROVE  Fenced'
<1>1. j \in InFlight /\ j \in JobSet /\ InOrder /\ Fenced
  BY DEF Order, QueueType, InFlight
<1>2. InFlight' = InFlight \ {j}
  BY PushNothing, <1>1
<1>3. \A i \in InFlight' : Stage(i) > 2 /\ i \in JobSet
  <2>1. InFlight \subseteq JobSet
    BY DEF QueueType, InFlight, ToSet
  <2>2. Stage(j) = 2
    BY <1>1, StageOf
  <2> QED BY <1>1, <1>2, <2>1, <2>2, Behind, StageOf
<1>4. j = Do("fence")
  BY <1>1, StageOf
<1>5. \A t \in {"evalFinish", "probe", "probeFinish", "finish"} :
        Do(t) \in InFlight' <=> Do(t) \in InFlight
  BY <1>2, <1>4 DEF Do, NewJob
<1>6. \A i \in InFlight' : i \in InFlight /\ ~(Stage(i) < 2)
  BY <1>2, <1>3, StageOf
<1> QED BY <1>1, <1>5, <1>6 DEF Fenced

LEMMA EvalFinishQueue ==
  ASSUME QueueType, RunType, Order, pc = "jobs", accepting, NEW j \in running,
         JobEvalCacheFinish(j)
  PROVE  /\ QueueType' /\ InOrder' /\ Fenced' /\ accepting' /\ jobError' = jobError
         /\ InFlight = {j}
         /\ InFlight' = {NewJob("parse", f) : f \in ToParse(discovered, parseCache)}
                          \cup {Do("fence"), Do("probe"), Do("probeFinish")}
<1> DEFINE S == ToParse(discovered, parseCache)
           pushed == JobsFor("parse", S) \o <<Do("fence"), Do("probe"), Do("probeFinish")>>
<1>1. S \in SUBSET Scanned
  BY DEF ToParse, RunType, Scanned
<1>2. /\ pushed \in Seq(JobSet) /\ Ordered(pushed)
      /\ ToSet(pushed) = {NewJob("parse", f) : f \in S} \cup {Do("fence"), Do("probe"), Do("probeFinish")}
  BY <1>1, ParsePushed
<1>3. j.type = "evalFinish" /\ Ends(j, pushed)
  BY DEF JobEvalCacheFinish
<1>4. j \in JobSet /\ InOrder /\ Fenced /\ j \in InFlight /\ j = Do("evalFinish") /\ Stage(j) = 4
  BY <1>3, StageOf DEF Order, QueueType, InFlight
<1>5. InFlight \subseteq JobSet
  BY DEF QueueType, InFlight, ToSet
<1>6. \A i \in InFlight : Stage(i) \in Nat /\ Stage(i) <= 4
  BY <1>4, <1>5, StageOf DEF Fenced
<1>7. InFlight = {j}
  BY <1>3, <1>4, <1>6, Behind
<1>8. running = {j} /\ ToSet(pending) = {}
  BY <1>3, <1>4, <1>7, Behind DEF InFlight
<1> HIDE DEF pushed, S
<1>9. j \notin ToSet(pushed)
  BY <1>2, <1>4 DEF Do, NewJob
<1>10. /\ QueueType' /\ InOrder' /\ accepting' /\ jobError' = jobError
       /\ InFlight' = ToSet(pushed)
  BY <1>2, <1>3, <1>7, <1>8, <1>9, EndsQueue
<1>11. Fenced'
  <2>1. /\ \A f \in S : Stage(NewJob("parse", f)) = 1
        /\ Stage(Do("fence")) = 2 /\ Stage(Do("probe")) = 5 /\ Stage(Do("probeFinish")) = 6
    BY DEF Stage, Do, NewJob
  <2>2. Do("evalFinish") \notin InFlight'
    BY <1>4, <1>9, <1>10
  <2>3. \A i \in InFlight' : Stage(i) \in {1, 2, 5, 6}
    BY <1>2, <1>10, <2>1
  <2>4. {Do("fence"), Do("probe"), Do("probeFinish")} \subseteq InFlight'
    BY <1>2, <1>10
  <2> QED BY <2>2, <2>3, <2>4 DEF Fenced
<1> QED BY <1>2, <1>7, <1>10, <1>11 DEF S

LEMMA ProbeQueue ==
  ASSUME QueueType, RunType, Order, pc = "jobs", accepting, NEW j \in running,
         JobProbeDepsMoc(j)
  PROVE  /\ QueueType' /\ InOrder' /\ Fenced' /\ accepting' /\ jobError' = jobError
         /\ InFlight \ {j} \subseteq InFlight'
         /\ InFlight' = {NewJob("moc", h) : h \in {g \in Mapped : Probe(g)}} \cup (InFlight \ {j})
         /\ \A i \in InFlight \ {j} : Stage(i) = 6
<1> DEFINE S == {h \in Mapped : Probe(h)}
           pushed == JobsFor("moc", S)
<1>1. S \in SUBSET Scanned /\ S \subseteq Header
  BY DEF Mapped, Scanned
<1>2. /\ pushed \in Seq(JobSet) /\ Ordered(pushed)
      /\ ToSet(pushed) = {NewJob("moc", h) : h \in S}
  BY <1>1, OrderedJobs
<1>3. j.type = "probe" /\ Ends(j, pushed)
  BY DEF JobProbeDepsMoc
<1>4. j \in JobSet /\ InOrder /\ Fenced /\ j \in InFlight /\ j = Do("probe") /\ Stage(j) = 5
  BY <1>3, StageOf DEF Order, QueueType, InFlight
<1>5. InFlight \subseteq JobSet
  BY DEF QueueType, InFlight, ToSet
<1>6. \A i \in InFlight \ {j} : Stage(i) = 6
  BY <1>3, <1>4, <1>5, Behind, StageOf DEF Fenced
<1>7. running = {j} /\ ToSet(pending) = InFlight \ {j}
  BY <1>3, <1>4, Behind DEF InFlight
<1> HIDE DEF S, pushed
<1>8. \A k \in ToSet(pushed) : Stage(k) = 7 /\ k # j
  BY <1>2, <1>4 DEF Stage, NewJob, Do
<1>9. \A i \in (running \ {j}) \cup ToSet(pending), k \in ToSet(pushed) : Before(i, k)
  BY <1>6, <1>7, <1>8 DEF Before
<1>10. /\ QueueType' /\ InOrder' /\ accepting' /\ jobError' = jobError
       /\ InFlight \ {j} \subseteq InFlight' /\ j \notin InFlight'
       /\ InFlight' \subseteq InFlight \cup ToSet(pushed) /\ ToSet(pushed) \subseteq InFlight'
  BY <1>2, <1>3, <1>8, <1>9, EndsQueue
<1>11. Fenced'
  <2>1. Stage(Do("evalFinish")) = 4 /\ Stage(Do("probe")) = 5
    BY DEF Stage, Do, NewJob
  <2>2. \A i \in InFlight' : Stage(i) \in {6, 7}
    BY <1>6, <1>8, <1>10
  <2>3. Do("evalFinish") \notin InFlight' /\ Do("probe") \notin InFlight'
    BY <2>1, <2>2
  <2>4. Do("probeFinish") \in InFlight'
    <3>1. Do("probeFinish") \in InFlight /\ Do("probeFinish") # j
      BY <1>4 DEF Fenced, Do, NewJob
    <3> QED BY <1>10, <3>1
  <2> QED BY <2>2, <2>3, <2>4 DEF Fenced
<1> QED BY <1>2, <1>6, <1>10, <1>11 DEF S

LEMMA ProbeFinishQueue ==
  ASSUME QueueType, RunType, Order, pc = "jobs", accepting, NEW j \in running,
         JobProbeDepsFinish(j)
  PROVE  /\ QueueType' /\ InOrder' /\ Fenced' /\ accepting' /\ jobError' = jobError
         /\ InFlight \ {j} \subseteq InFlight' /\ Do("compilation") \in InFlight'
         /\ j \notin InFlight' /\ \A i \in InFlight' : Stage(i) > 6
         /\ InFlight' \subseteq InFlight \cup {Do("compilation"), Do("depMerge"), Do("finish")}
<1> DEFINE pushed == <<Do("compilation")>> \o (IF DepFile THEN <<Do("depMerge")>> ELSE <<>>)
                       \o <<Do("finish")>>
<1>1. /\ pushed \in Seq(JobSet) /\ Ordered(pushed)
      /\ ToSet(pushed) = {Do("compilation"), Do("finish")} \cup (IF DepFile THEN {Do("depMerge")} ELSE {})
  BY FinishPushed
<1>2. j.type = "probeFinish" /\ Ends(j, pushed)
  BY DEF JobProbeDepsFinish
<1>3. j \in JobSet /\ InOrder /\ Fenced /\ j \in InFlight /\ j = Do("probeFinish") /\ Stage(j) = 6
  BY <1>2, StageOf DEF Order, QueueType, InFlight
<1>4. InFlight \subseteq JobSet
  BY DEF QueueType, InFlight, ToSet
<1>5. \A i \in InFlight \ {j} : Stage(i) = 7
  BY <1>2, <1>3, <1>4, Behind, StageOf DEF Fenced
<1>6. running = {j} /\ ToSet(pending) = InFlight \ {j}
  BY <1>2, <1>3, Behind DEF InFlight
<1> HIDE DEF pushed
<1>7. \A k \in ToSet(pushed) : Stage(k) \in {8, 9, 10} /\ k # j
  BY <1>1, <1>3 DEF Stage, NewJob, Do
<1>8. \A i \in (running \ {j}) \cup ToSet(pending), k \in ToSet(pushed) : Before(i, k)
  BY <1>5, <1>6, <1>7 DEF Before
<1>9. /\ QueueType' /\ InOrder' /\ accepting' /\ jobError' = jobError
      /\ InFlight \ {j} \subseteq InFlight' /\ j \notin InFlight'
      /\ InFlight' \subseteq InFlight \cup ToSet(pushed) /\ ToSet(pushed) \subseteq InFlight'
  BY <1>1, <1>2, <1>7, <1>8, EndsQueue
<1>10. \A i \in InFlight' : Stage(i) \in {7, 8, 9, 10}
  BY <1>5, <1>7, <1>9
<1>11. Fenced'
  <2>1. /\ Stage(Do("evalFinish")) = 4 /\ Stage(Do("probe")) = 5 /\ Stage(Do("probeFinish")) = 6
    BY DEF Stage, Do, NewJob
  <2>2. /\ Do("evalFinish") \notin InFlight' /\ Do("probe") \notin InFlight'
        /\ Do("probeFinish") \notin InFlight'
    BY <1>10, <2>1
  <2>3. Do("finish") \in InFlight'
    BY <1>1, <1>9
  <2> QED BY <1>10, <2>2, <2>3 DEF Fenced
<1> QED BY <1>1, <1>9, <1>10, <1>11

LEMMA FinishQueue ==
  ASSUME QueueType, Order, pc = "jobs", NEW j \in running, JobFinish(j)
  PROVE  QueueType' /\ InOrder' /\ ~accepting' /\ pending' = <<>> /\ running' = {}
<1>1. ToSet(<<>>) = {} /\ Ordered(<<>>)
  BY DEF ToSet, Ordered
<1>2. /\ j.type = "finish" /\ running' = running \ {j} /\ pending' = <<>> /\ accepting' = FALSE
  BY DEF JobFinish
<1>3. running' = {}
  BY <1>2, Behind DEF Order
<1>4. Ordered(pending') /\ ToSet(pending') = {} /\ pending' \in Seq(JobSet)
  BY <1>1, <1>2
<1>5. InOrder'
  BY <1>2, <1>3, <1>4 DEF InOrder
<1> QED BY <1>2, <1>3, <1>4, <1>5 DEF QueueType

LEMMA FailsQueue ==
  ASSUME QueueType, Order, pc = "jobs", NEW j \in running, Fails(j)
  PROVE  /\ QueueType' /\ InOrder' /\ ~accepting' /\ pending' = <<>> /\ jobError'
         /\ running' \subseteq running /\ \A i \in running' : i.type \in {"parse", "moc"}
<1>1. ToSet(<<>>) = {} /\ Ordered(<<>>)
  BY DEF ToSet, Ordered
<1>2. running' = running \ {j} /\ pending' = <<>> /\ accepting' = FALSE /\ jobError' = TRUE
  BY DEF Fails
<1>3. \A i, k \in running : i # k => i.type = k.type /\ i.type \in {"parse", "moc"}
  BY DEF Order, InOrder
<1>4. Ordered(pending') /\ ToSet(pending') = {} /\ pending' \in Seq(JobSet)
  BY <1>1, <1>2
<1>5. InOrder'
  BY <1>2, <1>3, <1>4 DEF InOrder
<1> QED BY <1>2, <1>3, <1>4, <1>5 DEF QueueType

LEMMA JobEndsOrder ==
  ASSUME QueueType, RunType, Order, JobEnds
  PROVE  QueueType' /\ Order'
<1>1. /\ pc = "jobs" /\ pc' = "jobs" /\ lastResult' = "none" /\ UNCHANGED <<clock, lastResult>>
  BY DEF JobEnds, Order
<1>2. PICK j \in running : Process(j)
  BY DEF JobEnds
<1>3. j \in JobSet /\ InOrder /\ (accepting => Fenced) /\ (~accepting => j.type \in {"parse", "moc"})
  BY <1>1 DEF QueueType, Order
<1>4. ASSUME Ends(j, <<>>), j.type \notin {"evalFinish", "probe", "probeFinish", "finish"}
      PROVE  QueueType' /\ Order'
  <2>1. /\ QueueType' /\ InOrder'
        /\ accepting' = accepting /\ jobError' = jobError /\ running' \subseteq running
        /\ ~accepting => pending' = <<>>
        /\ accepting => InFlight \ {j} \subseteq InFlight' /\ InFlight' \subseteq InFlight
    BY <1>1, <1>4, PushNothing
  <2>2. accepting => Fenced'
    BY <1>1, <1>3, <1>4, <2>1, FenceQueue, FencedKeeps
  <2> QED BY <1>1, <1>3, <2>1, <2>2 DEF Order
<1>5. CASE JobMocPredefs(j) \/ JobParse(j) \/ JobFence(j) \/ JobEvalCacheMoc(j)
           \/ JobCompileMoc(j) \/ JobMocsCompilation(j) \/ JobDepFilesMerge(j)
  BY <1>4, <1>5 DEF JobMocPredefs, JobParse, JobFence, JobEvalCacheMoc, JobCompileMoc,
                    JobMocsCompilation, JobDepFilesMerge
<1>6. CASE JobEvalCacheFinish(j)
  <2>1. accepting
    BY <1>3, <1>6 DEF JobEvalCacheFinish
  <2> QED BY <1>1, <1>6, <2>1, EvalFinishQueue DEF Order
<1>7. CASE JobProbeDepsMoc(j)
  <2>1. accepting
    BY <1>3, <1>7 DEF JobProbeDepsMoc
  <2> QED BY <1>1, <1>7, <2>1, ProbeQueue DEF Order
<1>8. CASE JobProbeDepsFinish(j)
  <2>1. accepting
    BY <1>3, <1>8 DEF JobProbeDepsFinish
  <2> QED BY <1>1, <1>8, <2>1, ProbeFinishQueue DEF Order
<1>9. CASE JobFinish(j)
  BY <1>1, <1>9, FinishQueue DEF Order
<1>10. CASE JobFails(j)
  <2>1. Fails(j)
    BY <1>10 DEF JobFails
  <2> QED BY <1>1, <2>1, FailsQueue DEF Order
<1> QED BY <1>2, <1>5, <1>6, <1>7, <1>8, <1>9, <1>10 DEF Process

\* What a run begins with: the cache file if it can be used.
KnownEntries == IF CacheIsValid THEN cacheFile.entries ELSE [f \in Scanned |-> NoEntry]

LEMMA StartRunQueue ==
  ASSUME QueueType, Order, StartRun, pc' # "failed"
  PROVE  /\ QueueType' /\ InOrder' /\ accepting'
         /\ InFlight' = {NewJob("parse", f) : f \in ToParse(Listed \cup Source, KnownEntries)}
                          \cup {Do("predefs"), Do("fence"), Do("eval"), Do("evalFinish")}
         /\ parseCache' = GetOrInsert(KnownEntries, Listed \cup Source)
         /\ cacheChanged' = (~CacheIsValid \/ ToParse(Listed \cup Source, KnownEntries) # {})
<1> DEFINE S == ToParse(Listed \cup Source, KnownEntries)
<1>1. /\ pending' = <<Do("predefs")>> \o JobsFor("parse", S)
                      \o <<Do("fence"), Do("eval"), Do("evalFinish")>>
      /\ parseCache' = GetOrInsert(KnownEntries, Listed \cup Source)
      /\ cacheChanged' = (~CacheIsValid \/ S # {})
  BY DEF StartRun, KnownEntries
<1>2. S \in SUBSET Scanned
  BY ProjectAssumption DEF ToParse, Scanned
<1>3. pc = "idle" /\ UNCHANGED <<running, accepting>>
  BY DEF StartRun
<1>4. running' = {} /\ accepting'
  BY <1>3 DEF Order
<1> HIDE DEF S
<1>5. /\ pending' \in Seq(JobSet) /\ Ordered(pending')
      /\ ToSet(pending') = {NewJob("parse", f) : f \in S}
                       \cup {Do("predefs"), Do("fence"), Do("eval"), Do("evalFinish")}
  BY <1>1, <1>2, RunPushed
<1>6. InOrder' /\ InFlight' = ToSet(pending')
  BY <1>4, <1>5 DEF InOrder, InFlight
<1> QED BY <1>1, <1>4, <1>5, <1>6 DEF QueueType, S

LEMMA OrderStep ==
  ASSUME QueueType, RunType, Order, [Next]_vars
  PROVE  QueueType' /\ Order'
<1>0. ToSet(<<>>) = {} /\ Ordered(<<>>) /\ <<>> \in Seq(JobSet)
  BY DEF ToSet, Ordered
<1>1. ASSUME UNCHANGED queue, pc' \in {"idle", "failed", "cache", "settings"}, pc # "jobs",
             pc' # "idle" => lastResult' = "none"
      PROVE  QueueType' /\ Order'
  BY <1>1 DEF Order, queue, QueueType, InOrder, Ordered, Before, ToSet
<1>2. CASE StartRun
  <2>1. CASE pc' = "failed"
    <3>1. UNCHANGED queue /\ lastResult' = "none" /\ pc = "idle"
      BY <1>2, <2>1 DEF StartRun
    <3> QED BY <1>1, <2>1, <3>1
  <2>2. CASE pc' # "failed"
    <3>1. PICK S : /\ S = ToParse(Listed \cup Source, KnownEntries)
                   /\ QueueType' /\ InOrder' /\ accepting'
                   /\ InFlight' = {NewJob("parse", f) : f \in S}
                           \cup {Do("predefs"), Do("fence"), Do("eval"), Do("evalFinish")}
      BY <1>2, <2>2, StartRunQueue
    <3>2. pc = "idle" /\ pc' = "jobs" /\ lastResult' = "none"
      BY <1>2, <2>2 DEF StartRun
    <3>6. /\ \A f \in S : Stage(NewJob("parse", f)) = 1
          /\ Stage(Do("predefs")) = 0 /\ Stage(Do("fence")) = 2
          /\ Stage(Do("eval")) = 3 /\ Stage(Do("evalFinish")) = 4
          /\ Stage(Do("probe")) = 5 /\ Stage(Do("probeFinish")) = 6
      BY DEF Stage, Do, NewJob
    <3>7. Fenced'
      <4>1. \A i \in InFlight' : Stage(i) \in 0..4
        BY <3>1, <3>6
      <4>2. Do("probe") \notin InFlight' /\ Do("probeFinish") \notin InFlight'
        BY <3>6, <4>1
      <4>3. {Do("fence"), Do("evalFinish")} \subseteq InFlight'
        BY <3>1
      <4> QED BY <4>1, <4>2, <4>3 DEF Fenced
    <3> QED BY <3>1, <3>2, <3>7 DEF Order
  <2> QED BY <2>1, <2>2
<1>3. CASE RunFailed
  BY <1>1, <1>3 DEF RunFailed, Exit
<1>4. CASE JobStarts
  <2>1. QueueType' /\ InFlight' = InFlight /\ InOrder' /\ accepting
    BY <1>4, StartQueue
  <2>2. pc = "jobs" /\ UNCHANGED <<pc, accepting, lastResult>>
    BY <1>4 DEF JobStarts, Pool!Start
  <2>3. Fenced'
    BY <2>1, <2>2 DEF Order, Fenced
  <2> QED BY <2>1, <2>2, <2>3 DEF Order
<1>5. CASE JobEnds
  BY <1>5, JobEndsOrder
<1>6. CASE PoolReturns
  <2>1. /\ pc = "jobs" /\ ~accepting /\ running = {} /\ accepting' = TRUE
        /\ UNCHANGED <<pending, running, lastResult>> /\ pc' \in {"failed", "cache"}
    BY <1>6 DEF PoolReturns, Pool!Return
  <2>2. pending' = <<>> /\ running' = {} /\ lastResult' = "none"
    BY <2>1 DEF Order
  <2> QED BY <1>0, <2>1, <2>2 DEF Order, InOrder, QueueType
<1>7. CASE ParseCacheWrite
  BY <1>1, <1>7 DEF ParseCacheWrite, Order
<1>8. CASE SettingsFileWrite
  BY <1>1, <1>8 DEF SettingsFileWrite, Exit
<1>9. CASE Kill
  BY <1>0, <1>9 DEF Kill, Exit, Order, InOrder, QueueType
<1>10. CASE Change
  BY <1>1, <1>10 DEF Change
<1>11. CASE UNCHANGED vars
  BY <1>11 DEF vars, Order, queue, QueueType, InOrder, Ordered, Before, ToSet, Fenced, InFlight
<1> QED BY <1>2, <1>3, <1>4, <1>5, <1>6, <1>7, <1>8, <1>9, <1>10, <1>11 DEF Next, Run, TheEnd

-----------------------------------------------------------------------------
(* What has been read and found.                                            *)

\* The run has not failed so far.
Going == pc \in {"cache", "settings"} \/ (pc = "jobs" /\ (accepting \/ ~jobError))

Past(types) == \A t \in types : Do(t) \notin InFlight

\* Whatever file a job asks the cache for has an entry there.
Loaded ==
  /\ pc \in {"jobs", "cache", "settings"} =>
       \A f \in Listed \cup Source : parseCache[f] \in Entry
  /\ Going /\ Past({"eval"}) => Mapped \subseteq Listed \cup discovered
  /\ Going /\ Past({"evalFinish"}) => \A h \in discovered : parseCache[h] \in Entry
  /\ \A j \in InFlight : j.type = "moc" => parseCache[j.file] \in Entry

\* The jobs that neither fail nor finish the run.
Works(j) ==
  \/ JobMocPredefs(j) \/ JobParse(j) \/ JobFence(j) \/ JobEvalCacheMoc(j)
  \/ JobEvalCacheFinish(j) \/ JobProbeDepsMoc(j) \/ JobProbeDepsFinish(j)
  \/ JobCompileMoc(j) \/ JobMocsCompilation(j) \/ JobDepFilesMerge(j)

LEMMA WorksFlight ==
  ASSUME QueueType, RunType, Order, pc = "jobs", NEW j \in running, Works(j)
  PROVE  /\ accepting' = accepting /\ jobError' = jobError
         /\ j \in JobSet /\ InOrder
         /\ accepting => InFlight \ {j} \subseteq InFlight'
         /\ ~accepting => j.type \in {"parse", "moc"} /\ InFlight' \subseteq InFlight
         /\ j.type \notin {"evalFinish", "probe", "probeFinish"} => InFlight' \subseteq InFlight
         /\ j.type \notin {"parse", "moc"} => j \notin InFlight'
<1>1. j \in JobSet /\ InOrder /\ (~accepting => j.type \in {"parse", "moc"})
  BY DEF QueueType, Order
<1>2. ASSUME Ends(j, <<>>), j.type \notin {"evalFinish", "probe", "probeFinish"}
      PROVE  /\ accepting' = accepting /\ jobError' = jobError
             /\ accepting => InFlight \ {j} \subseteq InFlight'
             /\ InFlight' \subseteq InFlight
             /\ j.type \notin {"parse", "moc"} => j \notin InFlight'
  <2>1. /\ accepting' = accepting /\ jobError' = jobError /\ running' \subseteq running
        /\ ~accepting => pending' = <<>>
        /\ accepting => InFlight \ {j} \subseteq InFlight' /\ InFlight' \subseteq InFlight
        /\ accepting /\ j.type \notin {"parse", "moc"} => j \notin InFlight'
    BY <1>2, PushNothing
  <2>2. ~accepting => InFlight' \subseteq InFlight
    BY <2>1 DEF InFlight, ToSet
  <2> QED BY <1>1, <2>1, <2>2
<1>3. CASE JobMocPredefs(j) \/ JobParse(j) \/ JobFence(j) \/ JobEvalCacheMoc(j)
           \/ JobCompileMoc(j) \/ JobMocsCompilation(j) \/ JobDepFilesMerge(j)
  BY <1>1, <1>2, <1>3 DEF JobMocPredefs, JobParse, JobFence, JobEvalCacheMoc, JobCompileMoc,
                    JobMocsCompilation, JobDepFilesMerge
<1>4. CASE JobEvalCacheFinish(j)
  <2>1. accepting /\ j.type = "evalFinish"
    BY <1>1, <1>4 DEF JobEvalCacheFinish
  <2>2. j \notin {NewJob("parse", f) : f \in ToParse(discovered, parseCache)}
                    \cup {Do("fence"), Do("probe"), Do("probeFinish")}
    BY <2>1 DEF NewJob, Do
  <2> QED BY <1>1, <1>4, <2>1, <2>2, EvalFinishQueue
<1>5. CASE JobProbeDepsMoc(j)
  <2>1. accepting /\ j.type = "probe"
    BY <1>1, <1>5 DEF JobProbeDepsMoc
  <2>2. j \notin {NewJob("moc", h) : h \in {g \in Mapped : Probe(g)}}
    BY <2>1 DEF NewJob
  <2> QED BY <1>1, <1>5, <2>1, <2>2, ProbeQueue
<1>6. CASE JobProbeDepsFinish(j)
  <2>1. accepting /\ j.type = "probeFinish"
    BY <1>1, <1>6 DEF JobProbeDepsFinish
  <2> QED BY <1>1, <1>6, <2>1, ProbeFinishQueue
<1> QED BY <1>1, <1>3, <1>4, <1>5, <1>6 DEF Works

\* Then all jobs of the kind that pass, and none has been pushed.
LEMMA WorksPast ==
  ASSUME QueueType, RunType, Order, pc = "jobs", NEW j \in running, Works(j), UNCHANGED pc
  PROVE  /\ Going' => accepting /\ Going
         /\ Going => accepting
         /\ \A t \in FenceType \cup {"eval", "probe"} :
              accepting /\ t # j.type /\ Do(t) \notin InFlight' => Do(t) \notin InFlight
<1>1. accepting' = accepting /\ jobError' = jobError /\ (accepting => InFlight \ {j} \subseteq InFlight')
  BY WorksFlight
<1>2. \A t \in FenceType \cup {"eval", "probe"} : t # j.type => Do(t) # j
  BY DEF Do, NewJob
<1>3. accepting \/ jobError
  BY DEF Order
<1>4. pc' = "jobs"
  OBVIOUS
<1> QED BY <1>1, <1>2, <1>3, <1>4 DEF Going

\* What is in the pool with a job that is not one of several of its kind.
LEMMA Later ==
  ASSUME QueueType, InOrder, NEW j \in running, j.type \notin {"parse", "moc"}
  PROVE  /\ \A f : NewJob("parse", f) \in InFlight => Stage(j) < 1
         /\ Do("predefs") \in InFlight => Stage(j) <= 0
         /\ Do("fence") \in InFlight => Stage(j) <= 2
         /\ Do("eval") \in InFlight => Stage(j) <= 3
         /\ Do("evalFinish") \in InFlight => Stage(j) <= 4
         /\ Do("probe") \in InFlight => Stage(j) <= 5
         /\ Do("probeFinish") \in InFlight => Stage(j) <= 6
         /\ \A h : NewJob("moc", h) \in InFlight => Stage(j) < 7
         /\ Do("compilation") \in InFlight => Stage(j) <= 8
<1>1. \A i \in InFlight : i = j \/ Stage(j) < Stage(i)
  BY Behind
<1>2. \A f : NewJob("parse", f).type = "parse" /\ Stage(NewJob("parse", f)) = 1
  BY DEF NewJob, Stage
<1>3. \A h : NewJob("moc", h).type = "moc" /\ Stage(NewJob("moc", h)) = 7
  BY DEF NewJob, Stage
<1>4. /\ Stage(Do("predefs")) = 0 /\ Stage(Do("fence")) = 2 /\ Stage(Do("eval")) = 3
      /\ Stage(Do("evalFinish")) = 4 /\ Stage(Do("probe")) = 5 /\ Stage(Do("probeFinish")) = 6
      /\ Stage(Do("compilation")) = 8
  BY DEF NewJob, Stage, Do
<1>5. Stage(j) \in Nat
  BY StageOf DEF QueueType
<1> QED BY <1>1, <1>2, <1>3, <1>4, <1>5

\* The headers that are mapped have entries once they have been looked for.
LEMMA MappedLoaded ==
  ASSUME QueueType, RunType, Order, Loaded, pc = "jobs", accepting,
         NEW j \in running, j.type \in {"probe", "probeFinish", "compilation", "depMerge"}
  PROVE  Past({"eval", "evalFinish"}) /\ \A h \in Mapped : parseCache[h] \in Entry
<1>1. Stage(j) \in {5, 6, 8, 9}
  BY DEF Stage
<1>2. Past({"eval"}) /\ Past({"evalFinish"})
  BY <1>1, Later DEF Past, Order
<1> QED BY <1>2 DEF Loaded, Going, Past

LEMMA IncludedHeaders ==
  ASSUME RunType, Loaded, pc = "jobs"
  PROVE  Included \subseteq Header
<1>1. \A f \in Source : parseCache[f].incl \subseteq Header
  BY DEF Loaded, Entry
<1> QED BY <1>1 DEF Included

\* Jobs change entries, and never lose one.
LEMMA WorksCache ==
  ASSUME DiskType, RunType, QueueType, Order, Loaded, pc = "jobs", NEW j \in running, Works(j)
  PROVE  /\ parseCache' \in [Scanned -> Entry \cup {NoEntry}]
         /\ \A f \in Scanned : parseCache[f] \in Entry => parseCache'[f] \in Entry
         /\ j.type = "evalFinish" => \A h \in discovered : parseCache'[h] \in Entry
<1>1. j \in JobSet /\ (~accepting => j.type \in {"parse", "moc"})
  BY DEF QueueType, Order
<1>2. Header \subseteq Scanned
  BY DEF Scanned
<1>3. CASE JobMocPredefs(j) \/ JobFence(j) \/ JobEvalCacheMoc(j) \/ JobProbeDepsFinish(j)
           \/ JobMocsCompilation(j)
  <2>1. parseCache' = parseCache /\ j.type # "evalFinish"
    BY <1>3 DEF JobMocPredefs, JobFence, JobEvalCacheMoc, JobProbeDepsFinish,
                JobMocsCompilation, memory
  <2> QED BY <2>1 DEF RunType
<1>4. CASE JobParse(j)
  <2>1. /\ parseCache' = [parseCache EXCEPT ![j.file] =
             [content[j.file] EXCEPT !.deps = IF CanOutputDependencies THEN {} ELSE @]]
        /\ j.file \in Scanned /\ j.type # "evalFinish"
    BY <1>1, <1>4 DEF JobParse, JobSet
  <2>2. content[j.file] \in Entry
    BY <2>1 DEF DiskType
  <2>3. [content[j.file] EXCEPT !.deps = IF CanOutputDependencies THEN {} ELSE @] \in Entry
    BY <2>2 DEF Entry
  <2> QED BY <2>1, <2>3 DEF RunType
<1>5. CASE JobEvalCacheFinish(j)
  <2>1. parseCache' = [f \in Scanned |-> IF f \in discovered /\ parseCache[f] = NoEntry
                                         THEN Empty ELSE parseCache[f]]
    BY <1>5 DEF JobEvalCacheFinish, GetOrInsert
  <2>2. Empty \in Entry
    BY DEF Empty, Entry
  <2>3. discovered \subseteq Scanned
    BY <1>2 DEF RunType
  <2> QED BY <2>1, <2>2, <2>3 DEF RunType
<1>6. CASE JobProbeDepsMoc(j)
  <2>1. /\ parseCache' = [f \in Scanned |->
             IF f \in Mapped THEN [parseCache[f] EXCEPT !.deps = @ \ Vanished(f)] ELSE parseCache[f]]
        /\ j.type = "probe"
    BY <1>6 DEF JobProbeDepsMoc
  <2>2. \A f \in Mapped : parseCache[f] \in Entry
    BY <1>1, <2>1, MappedLoaded
  <2>3. \A f \in Mapped : [parseCache[f] EXCEPT !.deps = @ \ Vanished(f)] \in Entry
    BY <2>2 DEF Entry
  <2> QED BY <2>1, <2>3 DEF RunType
<1>7. CASE JobCompileMoc(j)
  <2> DEFINE read == IF CanOutputDependencies THEN content[j.file].deps ELSE {}
  <2>1. /\ parseCache' = IF CanOutputDependencies
                         THEN [parseCache EXCEPT ![j.file].deps = read] ELSE parseCache
        /\ j.type = "moc" /\ j.file \in Scanned
    BY <1>1, <1>2, <1>7 DEF JobCompileMoc, JobSet
  <2>2. parseCache[j.file] \in Entry
    BY <2>1 DEF Loaded, InFlight
  <2>3. read \in SUBSET Dep
    BY <2>1 DEF DiskType, Entry
  <2>4. [parseCache[j.file] EXCEPT !.deps = read] \in Entry
    BY <2>2, <2>3 DEF Entry
  <2> HIDE DEF read
  <2> QED BY <2>1, <2>4 DEF RunType
<1>8. CASE JobDepFilesMerge(j)
  <2>1. /\ parseCache' = [f \in Scanned |->
             IF f \in Mapped /\ parseCache[f].deps = {}
             THEN [parseCache[f] EXCEPT !.deps = OutputOf(f).deps] ELSE parseCache[f]]
        /\ j.type = "depMerge"
    BY <1>8 DEF JobDepFilesMerge
  <2>2. \A f \in Mapped : parseCache[f] \in Entry
    BY <1>1, <2>1, MappedLoaded
  <2>3. \A f \in Mapped : OutputOf(f).deps \in SUBSET Dep
    BY DEF Mapped, OutputOf, RunType, DiskType, Output, Made
  <2>4. \A f \in Mapped : [parseCache[f] EXCEPT !.deps = OutputOf(f).deps] \in Entry
    BY <2>2, <2>3 DEF Entry
  <2> QED BY <2>1, <2>4 DEF RunType
<1> QED BY <1>3, <1>4, <1>5, <1>6, <1>7, <1>8 DEF Works

\* What jobs leave alone.
LEMMA WorksSame ==
  ASSUME NEW j \in running, Works(j)
  PROVE  /\ j.type # "eval" => UNCHANGED <<mapping, discovered>>
         /\ j.type # "probe" => UNCHANGED compFiles
         /\ j.type # "compilation" => UNCHANGED compilation
         /\ j.type # "predefs" => UNCHANGED predefsTime
         /\ j.type # "moc" => UNCHANGED output
         /\ UNCHANGED settingsChanged
         /\ j.type \notin {"evalFinish", "probe"} => UNCHANGED cacheChanged
BY DEF Works, JobMocPredefs, JobParse, JobFence, JobEvalCacheMoc, JobEvalCacheFinish,
       JobProbeDepsMoc, JobProbeDepsFinish, JobCompileMoc, JobMocsCompilation,
       JobDepFilesMerge, generated, memory

\* What an eval job finds.
LEMMA EvalFinds ==
  ASSUME NEW j \in running, Works(j), j.type = "eval"
  PROVE  /\ \A h \in Included : mtime[h] # 0
         /\ discovered' = Included \ Listed
         /\ mapping' = [h \in Header |-> IF h \in Included THEN "incl"
                                          ELSE IF h \in Listed /\ parseCache[h].macro THEN "comp"
                                          ELSE "none"]
         /\ UNCHANGED parseCache
BY DEF Works, JobMocPredefs, JobParse, JobFence, JobEvalCacheMoc, JobEvalCacheFinish,
       JobProbeDepsMoc, JobProbeDepsFinish, JobCompileMoc, JobMocsCompilation,
       JobDepFilesMerge

JobFrame == UNCHANGED <<clock, project, cacheFile, settingsFile, pc, lastResult>>

LEMMA WorksRunType ==
  ASSUME DiskType, RunType, QueueType, Order, Loaded, pc = "jobs", NEW j \in running, Works(j),
         JobFrame
  PROVE  RunType'
<1>1. /\ parseCache' \in [Scanned -> Entry \cup {NoEntry}] /\ pc' = pc
      /\ jobError' = jobError /\ settingsChanged' = settingsChanged
  BY WorksCache, WorksSame, WorksFlight DEF JobFrame
<1>2. cacheChanged' \in BOOLEAN
  BY DEF RunType, Works, JobMocPredefs, JobParse, JobFence, JobEvalCacheMoc, JobEvalCacheFinish,
       JobProbeDepsMoc, JobProbeDepsFinish, JobCompileMoc, JobMocsCompilation, JobDepFilesMerge, memory
<1>3. discovered' \subseteq Header /\ mapping' \in [Header -> {"none", "comp", "incl"}]
  <2>1. CASE j.type = "eval"
    BY <2>1, EvalFinds, IncludedHeaders
  <2>2. CASE j.type # "eval"
    BY <2>2, WorksSame DEF RunType
  <2> QED BY <2>1, <2>2
<1>4. compFiles' \subseteq Header
  <2>1. CASE JobProbeDepsMoc(j)
    BY <2>1 DEF JobProbeDepsMoc, Mapped
  <2>2. CASE ~JobProbeDepsMoc(j)
    BY <2>2 DEF RunType, Works, JobMocPredefs, JobParse, JobFence, JobEvalCacheMoc, JobEvalCacheFinish,
       JobProbeDepsFinish, JobCompileMoc, JobMocsCompilation, JobDepFilesMerge, memory
  <2> QED BY <2>1, <2>2
<1> QED BY <1>1, <1>2, <1>3, <1>4 DEF RunType

LEMMA WorksDiskType ==
  ASSUME DiskType, RunType, QueueType, Order, Loaded, pc = "jobs", NEW j \in running, Works(j),
         JobFrame
  PROVE  DiskType'
<1>1. UNCHANGED <<clock, mtime, content, settings, settingsFile, mocTime, cmakeTime, compilerTime,
                  cacheFile>>
  BY DEF JobFrame, project
<1>2. predefsTime' \in Nat
  <2>1. CASE JobMocPredefs(j)
    BY <2>1 DEF JobMocPredefs, DiskType
  <2>2. CASE ~JobMocPredefs(j)
    BY <2>2 DEF DiskType, Works, JobParse, JobFence, JobEvalCacheMoc, JobEvalCacheFinish,
       JobProbeDepsMoc, JobProbeDepsFinish, JobCompileMoc, JobMocsCompilation, JobDepFilesMerge,
       generated
  <2> QED BY <2>1, <2>2
<1>3. output' \in [Header -> [Output -> Made]]
  <2>1. CASE JobCompileMoc(j)
    <3> DEFINE read == IF CanOutputDependencies THEN content[j.file].deps ELSE {}
               made == [time |-> clock, settings |-> settings, deps |-> read]
    <3>1. output' = [output EXCEPT ![j.file][mapping[j.file]] = made]
      BY <2>1 DEF JobCompileMoc
    <3>2. j.file \in Header /\ j.file \in Scanned
      BY <2>1 DEF JobCompileMoc, QueueType, JobSet, Scanned
    <3>3. read \in SUBSET Dep
      BY <3>2 DEF DiskType, Entry
    <3>4. made \in Made
      BY <3>3 DEF DiskType, Made
    <3> HIDE DEF made
    <3>5. [output[j.file] EXCEPT ![mapping[j.file]] = made] \in [Output -> Made]
      BY <3>2, <3>4 DEF DiskType
    <3> QED BY <3>1, <3>5 DEF DiskType
  <2>2. CASE ~JobCompileMoc(j)
    BY <2>2 DEF DiskType, Works, JobMocPredefs, JobParse, JobFence, JobEvalCacheMoc,
       JobEvalCacheFinish, JobProbeDepsMoc, JobProbeDepsFinish, JobMocsCompilation,
       JobDepFilesMerge, generated
  <2> QED BY <2>1, <2>2
<1>4. compilation' \subseteq Header
  <2>1. CASE JobMocsCompilation(j)
    BY <2>1 DEF JobMocsCompilation, RunType
  <2>2. CASE ~JobMocsCompilation(j)
    BY <2>2 DEF DiskType, Works, JobMocPredefs, JobParse, JobFence, JobEvalCacheMoc,
       JobEvalCacheFinish, JobProbeDepsMoc, JobProbeDepsFinish, JobCompileMoc, JobDepFilesMerge,
       generated
  <2> QED BY <2>1, <2>2
<1> QED BY <1>1, <1>2, <1>3, <1>4 DEF DiskType

\* A job that is there is followed by those that wait for it to pass.
LEMMA EvalFollowed ==
  ASSUME Order, accepting, pc = "jobs", Past({"evalFinish"})
  PROVE  Past({"eval"})
<1>1. Stage(Do("eval")) = 3
  BY DEF Stage, Do, NewJob
<1> QED BY <1>1 DEF Order, Fenced, Past

LEMMA WorksLoaded ==
  ASSUME DiskType, RunType, QueueType, Order, Loaded, pc = "jobs", NEW j \in running, Works(j),
         JobFrame
  PROVE  Loaded'
<1>0. pc' = pc /\ j \in InFlight
  BY DEF JobFrame, InFlight
<1>1. \A f \in Scanned : parseCache[f] \in Entry => parseCache'[f] \in Entry
  BY WorksCache
<1>2. Listed \cup Source \subseteq Scanned /\ Header \subseteq Scanned
  BY ProjectAssumption DEF Scanned
<1>3. \A f \in Listed \cup Source : parseCache'[f] \in Entry
  BY <1>1, <1>2 DEF Loaded
<1>4. Going' /\ Past({"eval"})' => (Mapped \subseteq Listed \cup discovered)'
  <2> SUFFICES ASSUME Going', Past({"eval"})' PROVE Mapped' \subseteq Listed \cup discovered'
    OBVIOUS
  <2>1. CASE j.type = "eval"
    BY <2>1, EvalFinds DEF Mapped
  <2>2. CASE j.type # "eval"
    <3>1. Going /\ Past({"eval"})
      BY <1>0, <2>2, WorksPast DEF Past
    <3> QED BY <2>2, <3>1, WorksSame DEF Loaded, Mapped
  <2> QED BY <2>1, <2>2
<1>5. Going' /\ Past({"evalFinish"})' => \A h \in discovered' : parseCache'[h] \in Entry
  <2> SUFFICES ASSUME Going', Past({"evalFinish"})' PROVE \A h \in discovered' : parseCache'[h] \in Entry
    OBVIOUS
  <2>1. CASE j.type = "evalFinish"
    BY <2>1, WorksCache, WorksSame
  <2>2. CASE j.type # "evalFinish"
    <3>1. Going /\ accepting /\ Past({"evalFinish"})
      BY <1>0, <2>2, WorksPast DEF Past, FenceType
    <3>2. Past({"eval"})
      BY <3>1, EvalFollowed
    <3>3. j.type # "eval"
      BY <1>0, <3>2, StageOf DEF Past, QueueType
    <3> QED BY <1>1, <1>2, <3>1, <3>3, WorksSame DEF Loaded, RunType
  <2> QED BY <2>1, <2>2
<1>6. ASSUME NEW i \in InFlight', i.type = "moc" PROVE parseCache'[i.file] \in Entry
  <2>1. CASE i \in InFlight
    <3>1. i.file \in Scanned
      BY <1>2, <1>6, <2>1 DEF QueueType, InFlight, ToSet, JobSet
    <3> QED BY <1>1, <1>6, <2>1, <3>1 DEF Loaded
  <2>2. CASE i \notin InFlight
    <3>1. j.type \in {"evalFinish", "probe", "probeFinish"} /\ accepting
      BY <1>6, <2>2, WorksFlight
    <3>2. JobEvalCacheFinish(j) \/ JobProbeDepsMoc(j) \/ JobProbeDepsFinish(j)
      BY <3>1 DEF Works, JobMocPredefs, JobParse, JobFence, JobEvalCacheMoc, JobCompileMoc,
                  JobMocsCompilation, JobDepFilesMerge
    <3>3. CASE JobEvalCacheFinish(j)
      BY <1>6, <3>1, <3>3, EvalFinishQueue DEF NewJob, Do
    <3>4. CASE JobProbeDepsMoc(j)
      <4>1. PICK h \in Mapped : i = NewJob("moc", h)
        BY <1>6, <2>2, <3>1, <3>4, ProbeQueue
      <4>2. parseCache[h] \in Entry /\ h \in Scanned /\ i.file = h
        BY <1>2, <3>1, <3>4, <4>1, MappedLoaded DEF JobProbeDepsMoc, Mapped, NewJob
      <4> QED BY <1>1, <4>2
    <3>5. CASE JobProbeDepsFinish(j)
      <4>1. i \in {Do("compilation"), Do("depMerge"), Do("finish")}
        BY <1>6, <2>2, <3>1, <3>5, ProbeFinishQueue
      <4> QED BY <1>6, <4>1 DEF Do, NewJob
    <3> QED BY <3>2, <3>3, <3>4, <3>5
  <2> QED BY <2>1, <2>2
<1> QED BY <1>0, <1>3, <1>4, <1>5, <1>6 DEF Loaded

\* A job works, finishes the run, or fails.
LEMMA JobEndsCases ==
  ASSUME JobEnds
  PROVE  /\ pc = "jobs" /\ JobFrame
         /\ \E j \in running :
              \/ Works(j)
              \/ JobFinish(j) /\ UNCHANGED <<generated, memory, jobError>>
              \/ Fails(j) /\ UNCHANGED <<generated, memory>>
BY DEF JobEnds, Process, Works, JobFrame, JobFinish, JobFails, Fails

Base == DiskType /\ RunType /\ QueueType /\ Order /\ Loaded

LEMMA JobEndsBase == Base /\ JobEnds => Base'
<1> SUFFICES ASSUME Base, JobEnds PROVE Base'
  OBVIOUS
<1>1. DiskType /\ RunType /\ QueueType /\ Order /\ Loaded /\ QueueType' /\ Order'
  BY JobEndsOrder DEF Base
<1>2. pc = "jobs" /\ JobFrame
  BY JobEndsCases
<1>3. ASSUME NEW j \in running, Works(j) PROVE Base'
  BY <1>1, <1>2, <1>3, WorksDiskType, WorksRunType, WorksLoaded DEF Base
<1>4. ASSUME UNCHANGED <<generated, memory>>
      PROVE  DiskType' /\ (jobError' \in BOOLEAN => RunType')
  BY <1>1, <1>2, <1>4 DEF JobFrame, project, generated, memory, DiskType, RunType
<1>5. ASSUME NEW j \in running, JobFinish(j), UNCHANGED <<generated, memory, jobError>> PROVE Base'
  <2>1. DiskType' /\ RunType'
    BY <1>1, <1>4, <1>5 DEF RunType
  <2>2. InFlight' = {}
    BY <1>1, <1>2, <1>5, FinishQueue DEF InFlight, ToSet
  <2>3. accepting /\ Past({"eval"}) /\ Past({"evalFinish"})
    <3>1. j.type = "finish" /\ Stage(j) = 10
      BY <1>5 DEF JobFinish, Stage
    <3> QED BY <1>1, <3>1, Later DEF Past, Order
  <2>4. Going
    BY <1>2, <2>3 DEF Going
  <2>5. Loaded'
    BY <1>1, <1>2, <1>5, <2>2, <2>3, <2>4 DEF Loaded, JobFrame, memory, Mapped
  <2> QED BY <1>1, <2>1, <2>5 DEF Base
<1>6. ASSUME NEW j \in running, Fails(j), UNCHANGED <<generated, memory>> PROVE Base'
  <2>1. /\ ~accepting' /\ jobError' = TRUE /\ pending' = <<>> /\ running' \subseteq running
    BY <1>1, <1>2, <1>6, FailsQueue DEF Fails
  <2>2. InFlight' \subseteq InFlight
    BY <2>1 DEF InFlight, ToSet
  <2>3. ~Going' /\ pc' = pc
    BY <1>2, <2>1 DEF Going, JobFrame
  <2>4. Loaded'
    BY <1>1, <1>6, <2>2, <2>3 DEF Loaded, memory
  <2> QED BY <1>1, <1>4, <1>6, <2>1, <2>4 DEF Base
<1> QED BY <1>3, <1>5, <1>6, JobEndsCases

LEMMA EntriesStart ==
  ASSUME DiskType
  PROVE  /\ KnownEntries \in [Scanned -> Entry \cup {NoEntry}]
         /\ GetOrInsert(KnownEntries, Listed \cup Source) \in [Scanned -> Entry \cup {NoEntry}]
         /\ \A f \in Listed \cup Source : GetOrInsert(KnownEntries, Listed \cup Source)[f] \in Entry
<1>1. KnownEntries \in [Scanned -> Entry \cup {NoEntry}]
  BY DEF KnownEntries, DiskType
<1>2. Empty \in Entry
  BY DEF Empty, Entry
<1>3. Listed \cup Source \subseteq Scanned
  BY ProjectAssumption DEF Scanned
<1> QED BY <1>1, <1>2, <1>3 DEF GetOrInsert

LEMMA StartRunBase == Base /\ StartRun => Base'
<1> SUFFICES ASSUME Base, StartRun PROVE Base'
  OBVIOUS
<1>1. DiskType /\ RunType /\ QueueType /\ Order /\ Loaded
  BY DEF Base
<1>2. QueueType' /\ Order'
  BY <1>1, OrderStep DEF Next
<1>3. UNCHANGED <<project, generated, cacheFile, jobError>> /\ clock' \in Nat \ {0} /\ pc = "idle"
  <2>1. clock' = 2 * (clock \div 2) + 2 /\ clock \in Nat
    BY <1>1 DEF StartRun, DiskType
  <2> QED BY <2>1 DEF StartRun
<1>4. settingsFile' \in Setting \cup {"none"}
  BY <1>1 DEF StartRun, SettingsFileRead, DiskType
<1>5. DiskType'
  BY <1>1, <1>3, <1>4 DEF DiskType, project, generated
<1>6. CASE pc' = "failed"
  <2>1. UNCHANGED <<memory, queue>>
    BY <1>6 DEF StartRun
  <2>2. RunType'
    BY <1>1, <1>3, <1>6, <2>1 DEF RunType, memory
  <2>3. InFlight' = {} /\ ~Going'
    BY <1>1, <1>3, <1>6, <2>1 DEF Order, InFlight, ToSet, queue, Going
  <2>4. Loaded'
    BY <1>6, <2>3 DEF Loaded
  <2> QED BY <1>2, <1>5, <2>2, <2>4 DEF Base
<1>7. CASE pc' # "failed"
  <2>1. /\ pc' = "jobs" /\ settingsChanged' \in BOOLEAN
        /\ UNCHANGED <<discovered, mapping, compFiles>>
    BY <1>7 DEF StartRun, SettingsFileRead
  <2>2. /\ parseCache' = GetOrInsert(KnownEntries, Listed \cup Source)
        /\ cacheChanged' \in BOOLEAN
        /\ InFlight' = {NewJob("parse", f) : f \in ToParse(Listed \cup Source, KnownEntries)}
                          \cup {Do("predefs"), Do("fence"), Do("eval"), Do("evalFinish")}
    BY <1>1, <1>7, StartRunQueue
  <2>3. RunType'
    BY <1>1, <1>3, <2>1, <2>2, EntriesStart DEF RunType
  <2>4. ~Past({"eval"})' /\ ~Past({"evalFinish"})' /\ \A i \in InFlight' : i.type # "moc"
    BY <2>2 DEF Past, Do, NewJob
  <2>5. Loaded'
    BY <1>1, <2>2, <2>4, EntriesStart DEF Loaded
  <2> QED BY <1>2, <1>5, <2>3, <2>5 DEF Base
<1> QED BY <1>6, <1>7

LEMMA ExitType ==
  ASSUME NEW result, Exit(result)
  PROVE  RunType' /\ pc' = "idle" /\ lastResult' = result
BY DEF Exit, RunType, Entry

LEMMA ChangeTypes ==
  ASSUME DiskType, Change
  PROVE  DiskType'
<1>1. clock' \in Nat \ {0} /\ UNCHANGED <<predefsTime, compilation, settingsFile>>
  BY DEF Change, DiskType
<1>2. ASSUME NEW f \in Scanned \cup Dep, NEW n \in Nat
      PROVE  [mtime EXCEPT ![f] = n] \in [Scanned \cup Dep -> Nat]
  BY DEF DiskType
<1>3. ASSUME NEW f \in Scanned, NEW c \in Contents[f]
      PROVE  /\ [content EXCEPT ![f] = c] \in [Scanned -> Entry]
             /\ \A g \in Scanned : [content EXCEPT ![f] = c][g] \in Contents[g]
  BY ProjectAssumption DEF DiskType, Entry
<1>4. CASE ProjectChanges
  <2>1. UNCHANGED <<output, cacheFile>>
    BY <1>4 DEF ProjectChanges
  <2>2. CASE UNCHANGED <<settings, mocTime, cmakeTime, compilerTime>>
             /\ \/ \E f \in Scanned : \E c \in Contents[f] : Edit(f, c)
                \/ \E f \in Dep : Touch(f)
                \/ \E f \in Header \cup Dep : Deleted(f)
    <3>1. /\ mtime' \in [Scanned \cup Dep -> Nat] /\ content' \in [Scanned -> Entry]
          /\ \A g \in Scanned : content'[g] \in Contents[g]
      <4>1. CASE \E f \in Scanned : \E c \in Contents[f] : Edit(f, c)
        BY <1>1, <1>2, <1>3, <4>1 DEF Edit
      <4>2. CASE \E f \in Dep : Touch(f)
        BY <1>1, <1>2, <4>2 DEF Touch, DiskType
      <4>3. CASE \E f \in Header \cup Dep : Deleted(f)
        BY <1>1, <1>2, <4>3 DEF Deleted, DiskType, Scanned
      <4> QED BY <2>2, <4>1, <4>2, <4>3
    <3> QED BY <1>1, <2>1, <2>2, <3>1 DEF DiskType
  <2>3. CASE UNCHANGED <<mtime, content>>
    BY <1>1, <1>4, <2>1, <2>3 DEF DiskType, ProjectChanges
  <2> QED BY <1>4, <2>2, <2>3 DEF ProjectChanges
<1>5. CASE GeneratedRemoved
  <2>1. UNCHANGED project
    BY <1>5 DEF GeneratedRemoved
  <2>2. NoOutput \in Made
    BY DEF NoOutput, Made
  <2>3. output' \in [Header -> [Output -> Made]]
    BY <1>5, <2>2 DEF GeneratedRemoved, DiskType
  <2>4. cacheFile' \in [time : Nat, entries : [Scanned -> Entry \cup {NoEntry}]]
    BY <1>5 DEF GeneratedRemoved, DiskType
  <2> QED BY <1>1, <2>1, <2>3, <2>4 DEF DiskType, project
<1> QED BY <1>4, <1>5 DEF Change

LEMMA BaseInit == Init => Base
<1> SUFFICES ASSUME Init PROVE Base
  OBVIOUS
<1>1. content \in [Scanned -> Entry]
  BY ProjectAssumption DEF Init, Entry
<1>2. NoOutput \in Made
  BY DEF NoOutput, Made
<1>3. DiskType
  BY <1>1, <1>2 DEF Init, DiskType, Setting
<1>4. RunType
  BY DEF Init, RunType
<1>5. ToSet(<<>>) = {} /\ Ordered(<<>>) /\ <<>> \in Seq(JobSet)
  BY DEF ToSet, Ordered
<1>6. InFlight = {} /\ InOrder
  BY <1>5 DEF Init, InFlight, InOrder
<1>7. QueueType /\ Order
  BY <1>5, <1>6 DEF Init, QueueType, Order
<1>8. Loaded
  BY <1>6 DEF Init, Loaded, Going
<1> QED BY <1>3, <1>4, <1>7, <1>8 DEF Base

LEMMA BaseStep == Base /\ [Next]_vars => Base'
<1> SUFFICES ASSUME Base, [Next]_vars PROVE Base'
  OBVIOUS
<1>0. DiskType /\ RunType /\ QueueType /\ Order /\ Loaded
  BY DEF Base
<1>1. QueueType' /\ Order'
  BY <1>0, OrderStep
<1>2. \A i : pc # "jobs" => i \notin InFlight
  BY <1>0 DEF Order, InFlight, ToSet
<1>3. pc' # "jobs" => InFlight' = {}
  BY <1>1 DEF Order, InFlight, ToSet
<1>4. CASE StartRun
  BY <1>4, StartRunBase
<1>5. CASE RunFailed
  <2>1. RunType' /\ pc' = "idle" /\ DiskType'
    BY <1>0, <1>5, ExitType DEF RunFailed, DiskType, project, generated
  <2> QED BY <1>1, <1>3, <2>1 DEF Base, Loaded, Going
<1>6. CASE JobStarts
  <2>1. InFlight' = InFlight /\ UNCHANGED <<accepting, jobError>>
    BY <1>0, <1>6, StartQueue DEF JobStarts, Pool!Start
  <2>2. DiskType' /\ RunType'
    BY <1>0, <1>6 DEF JobStarts, DiskType, RunType, project, generated, memory
  <2>3. Loaded'
    BY <1>0, <1>6, <2>1 DEF JobStarts, Loaded, Going, Past, Mapped, memory
  <2> QED BY <1>1, <2>2, <2>3 DEF Base
<1>7. CASE JobEnds
  BY <1>7, JobEndsBase
<1>8. CASE PoolReturns
  <2>1. /\ pc = "jobs" /\ ~accepting /\ pc' = IF jobError THEN "failed" ELSE "cache"
        /\ UNCHANGED <<clock, project, generated, cacheFile, settingsFile, memory, jobError>>
    BY <1>8 DEF PoolReturns, Pool!Return
  <2>2. DiskType' /\ RunType'
    BY <1>0, <2>1 DEF DiskType, RunType, project, generated, memory
  <2>3. Going' => Going /\ InFlight = {}
    <3>1. Going' => ~jobError
      BY <2>1 DEF Going
    <3>2. ~jobError => InFlight = {}
      BY <1>0, <2>1 DEF Order, InFlight, ToSet
    <3> QED BY <2>1, <3>1, <3>2 DEF Going
  <2>4. Loaded'
    BY <1>0, <1>3, <2>1, <2>3 DEF Loaded, Past, memory, Mapped
  <2> QED BY <1>1, <2>2, <2>4 DEF Base
<1>9. CASE ParseCacheWrite
  <2>1. /\ pc = "cache" /\ pc' \in {"settings", "failed"}
        /\ UNCHANGED <<clock, project, generated, settingsFile, memory, jobError>>
        /\ cacheFile' \in {cacheFile, [time |-> clock, entries |-> parseCache]}
    BY <1>9 DEF ParseCacheWrite
  <2>2. DiskType' /\ RunType'
    BY <1>0, <2>1 DEF DiskType, RunType, project, generated, memory
  <2>3. Loaded'
    BY <1>0, <1>2, <1>3, <2>1 DEF Loaded, Past, memory, Going, Mapped
  <2> QED BY <1>1, <2>2, <2>3 DEF Base
<1>10. CASE SettingsFileWrite
  <2>1. RunType' /\ pc' = "idle"
    BY <1>10, ExitType DEF SettingsFileWrite
  <2>2. DiskType'
    BY <1>0, <1>10 DEF SettingsFileWrite, DiskType, project, generated
  <2> QED BY <1>1, <1>3, <2>1, <2>2 DEF Base, Loaded, Going
<1>11. CASE Kill
  <2>1. RunType' /\ pc' = "idle" /\ DiskType'
    BY <1>0, <1>11, ExitType DEF Kill, DiskType, project, generated
  <2> QED BY <1>1, <1>3, <2>1 DEF Base, Loaded, Going
<1>12. CASE Change
  <2>1. DiskType' /\ pc' = "idle"
    BY <1>0, <1>12, ChangeTypes DEF Change
  <2>2. RunType'
    BY <1>0, <1>12 DEF Change, RunType, memory
  <2> QED BY <1>1, <1>3, <2>1, <2>2 DEF Base, Loaded, Going
<1>13. CASE UNCHANGED vars
  <2>1. UNCHANGED <<InFlight, Going, Mapped>>
    BY <1>13 DEF vars, queue, memory, InFlight, ToSet, Going, Mapped
  <2>2. DiskType' /\ RunType' /\ Loaded'
    BY <1>0, <1>13, <2>1 DEF vars, DiskType, RunType, Loaded, Past, project, generated, memory
  <2> QED BY <1>1, <2>2 DEF Base
<1> QED
  BY <1>4, <1>5, <1>6, <1>7, <1>8, <1>9, <1>10, <1>11, <1>12, <1>13 DEF Next, Run, TheEnd

LEMMA BaseHolds == Spec => []Base
BY BaseInit, BaseStep, PTL DEF Spec

\* In every reachable state the fields of a run, the files it leaves and the
\* pool's queue have their types; in particular every file a job looks up in the
\* cache has an entry there.
THEOREM MocType == Spec => [](DiskType /\ RunType /\ QueueType)
<1>1. Base => DiskType /\ RunType /\ QueueType
  BY DEF Base
<1> QED BY <1>1, BaseHolds, PTL

\* For any project, number of threads and order in which the threads take and
\* end jobs: no two jobs that run at a time use the same data, one of them
\* writing, and no moc is started before the output directories are there.
THEOREM StagesTheorem == Spec => []StagesKeptApart
<1>1. Base => StagesKeptApart
  <2> SUFFICES ASSUME Base PROVE StagesKeptApart
    OBVIOUS
  <2>1. InOrder /\ running \subseteq JobSet /\ ToSet(pending) \subseteq JobSet
    BY DEF Base, Order, QueueType, ToSet
  <2>2. ASSUME NEW i \in running, NEW j \in running, i # j
        PROVE  Writes(i) \cap (Reads(j) \cup Writes(j)) = {}
    <3>1. i.type = j.type /\ i.type \in {"parse", "moc"} /\ i \in JobSet /\ j \in JobSet
      BY <2>1, <2>2 DEF InOrder
    <3>2. i.file # j.file
      BY <2>2, <3>1, StageOf DEF NewJob
    <3>3. CASE i.type = "parse"
      <4>1. Writes(i) = {<<"entry", i.file>>} /\ Writes(j) = {<<"entry", j.file>>} /\ Reads(j) = {}
        BY <3>1, <3>3 DEF Writes, Reads
      <4> QED BY <3>2, <4>1
    <3>4. CASE i.type = "moc"
      <4>1. /\ Writes(i) \subseteq {<<"entry", i.file>>} /\ Writes(j) \subseteq {<<"entry", j.file>>}
            /\ Reads(j) = {"mapping"} \X {"all"}
        BY <3>1, <3>4 DEF Writes, Reads, Of
      <4>2. <<"entry", i.file>> \notin {"mapping"} \X {"all"}
        OBVIOUS
      <4> QED BY <3>2, <4>1, <4>2
    <3> QED BY <3>1, <3>3, <3>4
  <2>3. ASSUME NEW j \in running, j.type = "moc",
               NEW i \in running \cup ToSet(pending), i.type = "probeFinish"
        PROVE  FALSE
    <3>1. CASE i \in running
      BY <2>1, <2>3, <3>1 DEF InOrder
    <3>2. CASE i \in ToSet(pending)
      BY <2>1, <2>3, <3>2, StageOf DEF InOrder, Before
    <3> QED BY <3>1, <3>2
  <2> QED BY <2>2, <2>3 DEF StagesKeptApart
<1> QED BY <1>1, BaseHolds, PTL

-----------------------------------------------------------------------------
(* The files of the project, and what the cache says of them.               *)

\* No file is younger than the last run or change.
Times ==
  /\ \A f \in Scanned \cup Dep : mtime[f] <= clock
  /\ mocTime <= clock /\ compilerTime <= clock
  /\ predefsTime <= clock /\ cacheFile.time <= clock
  /\ \A h \in Header, k \in Output : output[h][k].time <= clock

Matches(entry, f) == entry.macro = content[f].macro /\ entry.incl = content[f].incl

\* The cache file has an entry for the file that is not older than the file.
Fresh(f) ==
  cacheFile.time # 0 /\ cacheFile.entries[f] # NoEntry /\ mtime[f] \in 1..cacheFile.time

\* Headers that the target does not list are left out: their entry may say what
\* they were like when a C++ file last included them.
CacheSound == \A f \in Listed \cup Source : Fresh(f) => Matches(cacheFile.entries[f], f)

LEMMA TimePasses ==
  ASSUME DiskType
  PROVE  clock \in Nat /\ ((StartRun \/ Change) => clock' \in Nat /\ clock < clock')
<1>1. clock \in Nat
  BY DEF DiskType
<1>2. 2 * (clock \div 2) + 2 \in Nat /\ clock < 2 * (clock \div 2) + 2
  BY <1>1
<1>3. StartRun => clock' = 2 * (clock \div 2) + 2
  BY DEF StartRun
<1>4. Change => clock' = clock + 1
  BY DEF Change
<1> QED BY <1>1, <1>2, <1>3, <1>4

LEMMA ChangeTimes ==
  ASSUME DiskType, Times, Change
  PROVE  Times'
<1>1. clock \in Nat /\ clock' \in Nat /\ clock < clock'
  BY TimePasses
<1>2. UNCHANGED predefsTime /\ predefsTime <= clock'
  BY <1>1 DEF Change, Times, DiskType
<1>3. CASE ProjectChanges
  <2>1. \A f \in Scanned \cup Dep : mtime'[f] <= clock'
    <3>1. \A f \in Scanned \cup Dep : mtime[f] \in Nat /\ mtime[f] <= clock'
      BY <1>1 DEF DiskType, Times
    <3>2. \/ UNCHANGED mtime
          \/ \E f \in Scanned \cup Dep, n \in {0, clock'} : mtime' = [mtime EXCEPT ![f] = n]
      BY <1>3 DEF ProjectChanges, Edit, Touch, Deleted, Scanned
    <3> QED BY <1>1, <3>1, <3>2 DEF DiskType
  <2>2. mocTime' \in {mocTime, clock'} /\ compilerTime' \in {compilerTime, clock'}
    BY <1>3 DEF ProjectChanges
  <2>3. UNCHANGED <<output, cacheFile>>
    BY <1>3 DEF ProjectChanges
  <2>4. \A h \in Header, k \in Output : output[h][k].time \in Nat
    BY DEF DiskType, Made
  <2>5. cacheFile.time \in Nat /\ mocTime \in Nat /\ compilerTime \in Nat
    BY DEF DiskType
  <2> QED BY <1>1, <1>2, <2>1, <2>2, <2>3, <2>4, <2>5 DEF Times
<1>4. CASE GeneratedRemoved
  <2>1. UNCHANGED <<mtime, mocTime, compilerTime>>
    BY <1>4 DEF GeneratedRemoved, project
  <2>2. \A h \in Header, k \in Output : output'[h][k] \in {NoOutput, output[h][k]}
    BY <1>4 DEF GeneratedRemoved, DiskType
  <2>3. cacheFile'.time \in {0, cacheFile.time}
    BY <1>4 DEF GeneratedRemoved, DiskType
  <2>4. \A h \in Header, k \in Output : output[h][k].time \in Nat
    BY DEF DiskType, Made
  <2>5. cacheFile.time \in Nat /\ mocTime \in Nat /\ compilerTime \in Nat
    BY DEF DiskType
  <2>6. \A f \in Scanned \cup Dep : mtime[f] \in Nat
    BY DEF DiskType
  <2> QED BY <1>1, <1>2, <2>1, <2>2, <2>3, <2>4, <2>5, <2>6 DEF Times, NoOutput
<1> QED BY <1>3, <1>4 DEF Change

LEMMA WorksTimes ==
  ASSUME DiskType, QueueType, Times, NEW j \in running, Works(j), JobFrame
  PROVE  Times'
<1>1. UNCHANGED <<clock, mtime, mocTime, compilerTime, cacheFile>> /\ clock <= clock
  BY DEF JobFrame, project, DiskType
<1>2. predefsTime' \in {predefsTime, clock}
  BY WorksSame DEF Works, JobMocPredefs, JobParse, JobFence, JobEvalCacheMoc, JobEvalCacheFinish,
       JobProbeDepsMoc, JobProbeDepsFinish, JobCompileMoc, JobMocsCompilation, JobDepFilesMerge
<1>3. \A h \in Header, k \in Output : output'[h][k].time \in {output[h][k].time, clock}
  <2>1. CASE JobCompileMoc(j)
    BY <2>1 DEF JobCompileMoc, DiskType
  <2>2. CASE ~JobCompileMoc(j)
    BY <2>2 DEF Works, JobMocPredefs, JobParse, JobFence, JobEvalCacheMoc, JobEvalCacheFinish,
       JobProbeDepsMoc, JobProbeDepsFinish, JobMocsCompilation, JobDepFilesMerge, generated
  <2> QED BY <2>1, <2>2
<1> QED BY <1>1, <1>2, <1>3 DEF Times

LEMMA TimesStep ==
  ASSUME Base, Times, [Next]_vars
  PROVE  Times'
<1>0. DiskType /\ QueueType /\ clock \in Nat
  BY DEF Base, DiskType
<1>1. CASE StartRun
  <2>1. clock < clock' /\ clock' \in Nat
    BY <1>0, <1>1, TimePasses
  <2>2. UNCHANGED <<mtime, mocTime, compilerTime, predefsTime, cacheFile, output>>
    BY <1>1 DEF StartRun, project, generated
  <2>3. \A h \in Header, k \in Output : output[h][k].time \in Nat
    BY <1>0 DEF DiskType, Made
  <2> QED BY <1>0, <2>1, <2>2, <2>3 DEF Times, DiskType
<1>2. CASE Change
  BY <1>0, <1>2, ChangeTimes
<1>3. CASE JobEnds
  <2>1. ASSUME UNCHANGED generated, JobFrame PROVE Times'
    BY <2>1 DEF Times, JobFrame, project, generated
  <2> QED BY <1>0, <1>3, <2>1, JobEndsCases, WorksTimes
<1>4. CASE ParseCacheWrite
  <2>1. UNCHANGED <<clock, mtime, mocTime, compilerTime, predefsTime, output>>
    BY <1>4 DEF ParseCacheWrite, project, generated
  <2>2. cacheFile'.time \in {cacheFile.time, clock}
    BY <1>4 DEF ParseCacheWrite
  <2> QED BY <1>0, <2>1, <2>2 DEF Times
<1>5. CASE RunFailed \/ JobStarts \/ PoolReturns \/ SettingsFileWrite \/ Kill \/ UNCHANGED vars
  <2>1. UNCHANGED <<clock, project, generated, cacheFile>>
    BY <1>5 DEF RunFailed, JobStarts, PoolReturns, SettingsFileWrite, Kill, vars
  <2> QED BY <2>1 DEF Times, project, generated
<1> QED BY <1>1, <1>2, <1>3, <1>4, <1>5 DEF Next, Run, TheEnd

-----------------------------------------------------------------------------
(* How far a run has come that has not failed.                              *)

Known ==
  /\ \A f \in Listed \cup Source : mtime[f] # 0
  /\ \A f \in Listed \cup Source : NewJob("parse", f) \in InFlight \/ Matches(parseCache[f], f)

Evaluated ==
  /\ mapping = [h \in Header |-> Wanted(h)]
  /\ discovered = {h \in Header \ Listed : Wanted(h) = "incl"}
  /\ \A h \in Header : Wanted(h) # "none" => mtime[h] # 0

Progress ==
  /\ Known
  /\ Past({"eval"}) => Evaluated
  /\ Past({"evalFinish", "probe"}) => compFiles = {h \in Header : mapping[h] = "comp"}
  /\ Past({"evalFinish", "probeFinish", "compilation"}) => compilation = compFiles

Sound == Times /\ CacheSound /\ (Going => Progress) /\ CompilationExact

\* An entry says what the file was like when it was last parsed, whatever becomes
\* of the dependencies it names.
LEMMA WorksKeeps ==
  ASSUME DiskType, RunType, QueueType, Order, Loaded, pc = "jobs", NEW j \in running, Works(j),
         NEW f \in Scanned, parseCache[f] \in Entry
  PROVE  IF j = NewJob("parse", f) THEN Matches(parseCache'[f], f)
         ELSE /\ parseCache'[f].macro = parseCache[f].macro
              /\ parseCache'[f].incl = parseCache[f].incl
<1>1. j \in JobSet /\ parseCache \in [Scanned -> Entry \cup {NoEntry}]
  BY DEF QueueType, RunType
<1>2. CASE JobMocPredefs(j) \/ JobFence(j) \/ JobEvalCacheMoc(j) \/ JobProbeDepsFinish(j)
           \/ JobMocsCompilation(j)
  <2>1. parseCache' = parseCache /\ j.type # "parse"
    BY <1>2 DEF JobMocPredefs, JobFence, JobEvalCacheMoc, JobProbeDepsFinish,
                JobMocsCompilation, memory
  <2> QED BY <2>1 DEF NewJob
<1>3. CASE JobParse(j)
  <2>1. /\ parseCache' = [parseCache EXCEPT ![j.file] =
             [content[j.file] EXCEPT !.deps = IF CanOutputDependencies THEN {} ELSE @]]
        /\ j.file \in Scanned /\ j = NewJob("parse", j.file) /\ content[j.file] \in Entry
    BY <1>1, <1>3, StageOf DEF JobParse, JobSet, DiskType
  <2>2. CASE f = j.file
    BY <1>1, <2>1, <2>2 DEF Matches, Entry
  <2>3. CASE f # j.file
    BY <1>1, <2>1, <2>3 DEF NewJob
  <2> QED BY <2>2, <2>3
<1>4. CASE JobEvalCacheFinish(j)
  <2>1. parseCache' = [g \in Scanned |-> IF g \in discovered /\ parseCache[g] = NoEntry
                                         THEN Empty ELSE parseCache[g]]
        /\ j.type # "parse"
    BY <1>4 DEF JobEvalCacheFinish, GetOrInsert
  <2>2. parseCache[f] # NoEntry
    BY ProjectAssumption DEF Entry
  <2> QED BY <2>1, <2>2 DEF NewJob
<1>5. CASE JobProbeDepsMoc(j)
  <2>1. /\ parseCache' = [g \in Scanned |->
             IF g \in Mapped THEN [parseCache[g] EXCEPT !.deps = @ \ Vanished(g)] ELSE parseCache[g]]
        /\ j.type # "parse"
    BY <1>5 DEF JobProbeDepsMoc
  <2> QED BY <2>1 DEF NewJob, Entry
<1>6. CASE JobCompileMoc(j)
  <2> DEFINE read == IF CanOutputDependencies THEN content[j.file].deps ELSE {}
  <2>1. /\ parseCache' = IF CanOutputDependencies
                         THEN [parseCache EXCEPT ![j.file].deps = read] ELSE parseCache
        /\ j.type # "parse"
    BY <1>6 DEF JobCompileMoc
  <2> HIDE DEF read
  <2> QED BY <1>1, <2>1 DEF NewJob, Entry
<1>7. CASE JobDepFilesMerge(j)
  <2>1. /\ parseCache' = [g \in Scanned |->
             IF g \in Mapped /\ parseCache[g].deps = {}
             THEN [parseCache[g] EXCEPT !.deps = OutputOf(g).deps] ELSE parseCache[g]]
        /\ j.type # "parse"
    BY <1>7 DEF JobDepFilesMerge
  <2> QED BY <2>1 DEF NewJob, Entry
<1> QED BY <1>2, <1>3, <1>4, <1>5, <1>6, <1>7 DEF Works

LEMMA WorksKnown ==
  ASSUME Base, Known, NEW j \in running, Works(j), pc = "jobs", JobFrame, accepting
  PROVE  Known'
<1>1. DiskType /\ RunType /\ QueueType /\ Order /\ Loaded /\ UNCHANGED <<mtime, content>>
  BY DEF Base, JobFrame, project
<1>2. InFlight \ {j} \subseteq InFlight'
  BY <1>1, WorksFlight
<1>3. ASSUME NEW f \in Listed \cup Source
      PROVE  NewJob("parse", f) \in InFlight' \/ (Matches(parseCache[f], f))'
  <2>1. f \in Scanned /\ parseCache[f] \in Entry
    BY <1>1, ProjectAssumption DEF Loaded, Scanned
  <2>2. CASE j = NewJob("parse", f)
    BY <1>1, <2>1, <2>2, WorksKeeps DEF Matches
  <2>3. CASE j # NewJob("parse", f)
    BY <1>1, <1>2, <2>1, <2>3, WorksKeeps DEF Matches, Known
  <2> QED BY <2>2, <2>3
<1> QED BY <1>1, <1>3 DEF Known

\* The C++ files and the listed headers have all been parsed when the eval job
\* looks at their entries.
LEMMA WorksEvaluated ==
  ASSUME Base, Progress, NEW j \in running, Works(j), pc = "jobs", JobFrame, Going', Past({"eval"})'
  PROVE  Evaluated'
<1>1. /\ DiskType /\ RunType /\ QueueType /\ Order /\ Loaded /\ InOrder
      /\ UNCHANGED <<mtime, content, pc>>
  BY DEF Base, Order, JobFrame, project
<1>2. \A h : Wanted(h)' = Wanted(h)
  BY <1>1 DEF Wanted
<1>3. CASE j.type = "eval"
  <2>1. \A f : NewJob("parse", f) \notin InFlight
    <3>1. Stage(j) = 3
      BY <1>3 DEF Stage
    <3> QED BY <1>1, <1>3, <3>1, Later
  <2>2. \A f \in Listed \cup Source : Matches(parseCache[f], f) /\ mtime[f] # 0
    BY <2>1 DEF Progress, Known
  <2>3. \A s \in Source : parseCache[s].incl = content[s].incl
    BY <2>2 DEF Matches
  <2>4. \A h \in Header : h \in Included <=> Wanted(h) = "incl"
    <3>1. \A h : h \in Included <=> \E s \in Source : h \in parseCache[s].incl
      BY DEF Included
    <3> QED BY <2>3, <3>1 DEF Wanted
  <2>5. \A h \in Listed : parseCache[h].macro = content[h].macro /\ h \in Header
    BY <2>2, ProjectAssumption DEF Matches
  <2>6. /\ \A h \in Included : mtime[h] # 0
        /\ discovered' = Included \ Listed
        /\ mapping' = [h \in Header |-> IF h \in Included THEN "incl"
                                         ELSE IF h \in Listed /\ parseCache[h].macro THEN "comp"
                                         ELSE "none"]
    BY <1>3, EvalFinds
  <2>7. \A h \in Header : mapping'[h] = Wanted(h)
    BY <2>4, <2>5, <2>6 DEF Wanted
  <2>8. mapping' = [h \in Header |-> Wanted(h)]
    BY <2>6, <2>7
  <2>9. discovered' = {h \in Header \ Listed : Wanted(h) = "incl"}
    BY <1>1, <2>4, <2>6, IncludedHeaders
  <2>10. \A h \in Header : Wanted(h) # "none" => mtime[h] # 0
    BY <2>2, <2>4, <2>6 DEF Wanted
  <2> QED BY <1>1, <1>2, <2>8, <2>9, <2>10 DEF Evaluated
<1>4. CASE j.type # "eval"
  <2>1. Going /\ Past({"eval"})
    BY <1>1, <1>4, WorksPast DEF Past
  <2>2. UNCHANGED <<mapping, discovered>>
    BY <1>4, WorksSame
  <2> QED BY <1>1, <1>2, <2>1, <2>2 DEF Progress, Evaluated
<1> QED BY <1>3, <1>4

\* Which jobs are in the pool when one of those that push jobs ends.
LEMMA WorksPushes ==
  ASSUME Base, NEW j \in running, Works(j), pc = "jobs", accepting
  PROVE  /\ j.type = "eval" => ~Past({"evalFinish", "probe"})'
         /\ j.type = "evalFinish" => ~Past({"probe"})' /\ ~Past({"probeFinish"})'
         /\ j.type = "probe" => ~Past({"probeFinish"})'
         /\ j.type = "probeFinish" => ~Past({"compilation"})'
<1>1. RunType /\ QueueType /\ Order /\ Fenced
  BY DEF Base, Order
<1>2. InFlight \ {j} \subseteq InFlight' /\ j \in JobSet /\ j \in InFlight
  BY <1>1, WorksFlight DEF InFlight
<1>3. CASE j.type = "eval"
  <2>1. Stage(j) = 3 /\ Do("evalFinish") # j /\ Do("probe") # j
    BY <1>3 DEF Stage, Do, NewJob
  <2>2. Do("evalFinish") \in InFlight \/ Do("probe") \in InFlight
    BY <1>1, <1>2, <2>1 DEF Fenced
  <2> QED BY <1>2, <1>3, <2>1, <2>2 DEF Past
<1>4. CASE j.type = "evalFinish"
  <2>1. JobEvalCacheFinish(j)
    BY <1>4 DEF Works, JobMocPredefs, JobParse, JobFence, JobEvalCacheMoc, JobProbeDepsMoc,
       JobProbeDepsFinish, JobCompileMoc, JobMocsCompilation, JobDepFilesMerge
  <2> QED BY <1>1, <1>4, <2>1, EvalFinishQueue DEF Past
<1>5. CASE j.type = "probe"
  <2>1. j = Do("probe") /\ Do("probeFinish") # j
    BY <1>2, <1>5, StageOf DEF Do, NewJob
  <2> QED BY <1>1, <1>2, <1>5, <2>1 DEF Past, Fenced
<1>6. CASE j.type = "probeFinish"
  <2>1. JobProbeDepsFinish(j)
    BY <1>6 DEF Works, JobMocPredefs, JobParse, JobFence, JobEvalCacheMoc, JobProbeDepsMoc,
       JobEvalCacheFinish, JobCompileMoc, JobMocsCompilation, JobDepFilesMerge
  <2> QED BY <1>1, <1>6, <2>1, ProbeFinishQueue DEF Past
<1> QED BY <1>3, <1>4, <1>5, <1>6

LEMMA WorksProgress ==
  ASSUME Base, Going => Progress, NEW j \in running, Works(j), pc = "jobs", JobFrame, Going'
  PROVE  Progress'
<1>1. RunType /\ QueueType /\ Order /\ pc' = pc
  BY DEF Base, JobFrame
<1>2. Going /\ accepting /\ Progress
  BY <1>1, WorksPast
<1>3. \A t \in FenceType \cup {"eval", "probe"} :
        t # j.type /\ Do(t) \notin InFlight' => Do(t) \notin InFlight
  BY <1>1, <1>2, WorksPast
<1>4. Known' /\ (Past({"eval"})' => Evaluated')
  BY <1>2, WorksKnown, WorksEvaluated DEF Progress
<1>5. ASSUME Past({"evalFinish", "probe"})'
      PROVE  compFiles' = {h \in Header : mapping'[h] = "comp"}
  <2>1. j.type # "evalFinish" /\ j.type # "eval"
    BY <1>2, <1>5, WorksPushes DEF Past
  <2>2. CASE j.type = "probe"
    <3>1. compFiles' = {h \in Mapped : mapping[h] = "comp"}
      BY <2>2 DEF Works, JobMocPredefs, JobParse, JobFence, JobEvalCacheMoc, JobEvalCacheFinish,
         JobProbeDepsMoc, JobProbeDepsFinish, JobCompileMoc, JobMocsCompilation, JobDepFilesMerge
    <3> QED BY <2>1, <3>1, WorksSame DEF Mapped
  <2>3. CASE j.type # "probe"
    <3>1. Past({"evalFinish", "probe"})
      BY <1>3, <1>5, <2>1, <2>3 DEF Past, FenceType
    <3> QED BY <1>2, <2>1, <2>3, <3>1, WorksSame DEF Progress
  <2> QED BY <2>2, <2>3
<1>6. ASSUME Past({"evalFinish", "probeFinish", "compilation"})'
      PROVE  compilation' = compFiles'
  <2>1. j.type \notin {"evalFinish", "probe", "probeFinish"}
    BY <1>2, <1>6, WorksPushes DEF Past
  <2>2. CASE j.type = "compilation"
    <3>1. compilation' = compFiles
      BY <2>2 DEF Works, JobMocPredefs, JobParse, JobFence, JobEvalCacheMoc, JobEvalCacheFinish,
         JobProbeDepsMoc, JobProbeDepsFinish, JobCompileMoc, JobMocsCompilation, JobDepFilesMerge
    <3> QED BY <2>1, <3>1, WorksSame
  <2>3. CASE j.type # "compilation"
    <3>1. Past({"evalFinish", "probeFinish", "compilation"})
      BY <1>3, <1>6, <2>1, <2>3 DEF Past, FenceType
    <3> QED BY <1>2, <2>1, <2>3, <3>1, WorksSame DEF Progress
  <2> QED BY <2>2, <2>3
<1> QED BY <1>4, <1>5, <1>6 DEF Progress

\* Outside the pool's loop nothing is in the pool.
LEMMA NothingInFlight ==
  ASSUME Base, pc # "jobs" \/ (~accepting /\ ~jobError)
  PROVE  InFlight = {} /\ \A types : Past(types)
<1>1. pending = <<>> /\ running = {}
  BY DEF Base, Order
<1>2. InFlight = {}
  BY <1>1 DEF InFlight, ToSet
<1> QED BY <1>2 DEF Past

\* Whatever stays as it is while no job ends.
LEMMA ProgressKeeps ==
  ASSUME Progress, UNCHANGED <<project, generated, parseCache, discovered, mapping, compFiles>>,
         InFlight' = InFlight
  PROVE  Progress'
<1>1. UNCHANGED <<mtime, content, compilation>>
  BY DEF project, generated
<1>2. \A h : Wanted(h)' = Wanted(h)
  BY <1>1 DEF Wanted
<1>3. \A types : Past(types)' <=> Past(types)
  BY DEF Past
<1>4. Known'
  BY <1>1 DEF Progress, Known, Matches
<1>5. Evaluated => Evaluated'
  BY <1>1, <1>2 DEF Evaluated
<1> QED BY <1>1, <1>3, <1>4, <1>5 DEF Progress

\* A run trusts an entry only if it is not older than its file.
LEMMA StartRunEntries ==
  ASSUME Base, StartRun, pc' # "failed"
  PROVE  /\ UNCHANGED <<mtime, content, cacheFile>>
         /\ \A f \in Listed \cup Source :
              /\ mtime[f] # 0
              /\ \/ NewJob("parse", f) \in InFlight'
                 \/ Fresh(f) /\ parseCache'[f] = cacheFile.entries[f]
         /\ \A t \in {"predefs", "eval", "evalFinish"} : Do(t) \in InFlight'
<1>1. /\ DiskType /\ RunType /\ QueueType /\ Order
      /\ UNCHANGED <<mtime, content, cacheFile>>
      /\ \A f \in Listed \cup Source : mtime[f] # 0
  BY DEF Base, StartRun, project
<1>2. /\ parseCache' = GetOrInsert(KnownEntries, Listed \cup Source)
      /\ InFlight' = {NewJob("parse", f) : f \in ToParse(Listed \cup Source, KnownEntries)}
                        \cup {Do("predefs"), Do("fence"), Do("eval"), Do("evalFinish")}
  BY <1>1, StartRunQueue
<1>3. ASSUME NEW f \in Listed \cup Source, f \notin ToParse(Listed \cup Source, KnownEntries)
      PROVE  Fresh(f) /\ parseCache'[f] = cacheFile.entries[f]
  <2>1. f \in Scanned /\ mtime[f] \in Nat /\ cacheFile.time \in Nat
    BY <1>1, ProjectAssumption DEF DiskType, Scanned
  <2>2. KnownEntries[f] # NoEntry /\ mtime[f] <= cacheFile.time
    BY <1>3, <2>1 DEF ToParse
  <2>3. KnownEntries = cacheFile.entries /\ cacheFile.time # 0
    BY <2>1, <2>2 DEF KnownEntries, CacheIsValid
  <2>4. parseCache'[f] = cacheFile.entries[f]
    BY <1>2, <2>1, <2>2, <2>3 DEF GetOrInsert
  <2>5. Fresh(f)
    BY <1>1, <2>1, <2>2, <2>3 DEF Fresh
  <2> QED BY <2>4, <2>5
<1> QED BY <1>1, <1>2, <1>3

LEMMA StartRunProgress ==
  ASSUME Base, CacheSound, StartRun, pc' # "failed"
  PROVE  Progress'
<1>1. Known'
  BY StartRunEntries DEF CacheSound, Known, Matches
<1>2. Do("eval") \in InFlight' /\ Do("evalFinish") \in InFlight'
  BY StartRunEntries
<1> QED BY <1>1, <1>2 DEF Progress, Past

\* A file that changes is younger than the cache.
LEMMA StillFresh ==
  ASSUME Base, Times, Change, NEW f \in Listed \cup Source, Fresh(f)'
  PROVE  /\ Fresh(f)
         /\ UNCHANGED <<cacheFile, mtime[f], content[f]>>
<1>1. DiskType /\ clock \in Nat /\ clock' \in Nat /\ clock < clock'
  BY TimePasses DEF Base
<1>2. f \in Scanned /\ cacheFile.time \in Nat /\ cacheFile.time <= clock
  BY <1>1, ProjectAssumption DEF DiskType, Scanned, Times
<1>3. CASE GeneratedRemoved
  <2>1. UNCHANGED <<mtime, content>>
    BY <1>3 DEF GeneratedRemoved, project
  <2>2. UNCHANGED cacheFile \/ cacheFile'.time = 0
    BY <1>1, <1>3 DEF GeneratedRemoved, DiskType
  <2> QED BY <2>1, <2>2 DEF Fresh
<1>4. CASE ProjectChanges
  <2>1. UNCHANGED cacheFile
    BY <1>4 DEF ProjectChanges
  <2>2. \/ UNCHANGED content /\ \E g \in Scanned \cup Dep, n \in {0, clock'} :
             mtime' = [mtime EXCEPT ![g] = n]
        \/ \E g \in Scanned, c \in UNION {Contents[h] : h \in Scanned} :
             mtime' = [mtime EXCEPT ![g] = clock'] /\ content' = [content EXCEPT ![g] = c]
        \/ UNCHANGED <<mtime, content>>
    BY <1>4 DEF ProjectChanges, Edit, Touch, Deleted, Scanned
  <2>3. mtime'[f] \notin {0, clock'}
    BY <1>1, <1>2, <2>1 DEF Fresh
  <2>4. mtime'[f] = mtime[f] /\ content'[f] = content[f]
    BY <1>1, <1>2, <2>2, <2>3 DEF DiskType
  <2> QED BY <2>1, <2>4 DEF Fresh
<1> QED BY <1>3, <1>4 DEF Change

LEMMA ChangeCacheSound ==
  ASSUME Base, Times, CacheSound, Change
  PROVE  CacheSound'
BY StillFresh DEF CacheSound, Matches

\* After the pool has emptied every entry of the C++ files and listed headers
\* has been compared with the file: the cache may be written.
LEMMA WriteCacheSound ==
  ASSUME Base, CacheSound, Progress, ParseCacheWrite
  PROVE  CacheSound'
<1>1. UNCHANGED <<mtime, content>> /\ pc = "cache"
  BY DEF ParseCacheWrite, project
<1>2. \A f \in Listed \cup Source : Matches(parseCache[f], f)
  BY <1>1, NothingInFlight DEF Progress, Known
<1>3. CASE UNCHANGED cacheFile
  BY <1>1, <1>3 DEF CacheSound, Fresh, Matches
<1>4. CASE cacheFile' = [time |-> clock, entries |-> parseCache]
  <2>1. cacheFile'.entries = parseCache
    BY <1>4
  <2> QED BY <1>1, <1>2, <2>1 DEF CacheSound, Matches
<1> QED BY <1>3, <1>4 DEF ParseCacheWrite

LEMMA SoundStep == Base /\ Sound /\ [Next]_vars => Sound'
<1> SUFFICES ASSUME Base, Sound, [Next]_vars PROVE Sound'
  OBVIOUS
<1>0. /\ DiskType /\ RunType /\ QueueType /\ Order
      /\ Times /\ CacheSound /\ (Going => Progress) /\ CompilationExact
      /\ Base'
  BY BaseStep DEF Base, Sound
<1>1. Times'
  BY <1>0, TimesStep
<1>2. ASSUME UNCHANGED <<project, cacheFile>> PROVE CacheSound'
  BY <1>0, <1>2 DEF CacheSound, Fresh, Matches, project
<1>3. pc' # "idle" => CompilationExact'
  BY <1>0 DEF Base, Order, CompilationExact
<1>4. CASE StartRun
  <2>1. Going' => Progress'
    BY <1>0, <1>4, StartRunProgress DEF Going
  <2>2. CacheSound' /\ lastResult' # "ok"
    BY <1>2, <1>4 DEF StartRun
  <2> QED BY <1>1, <2>1, <2>2 DEF Sound, CompilationExact
<1>5. CASE RunFailed \/ Kill
  <2>1. UNCHANGED <<project, cacheFile>> /\ lastResult' = "failed" /\ pc' = "idle"
    BY <1>5 DEF RunFailed, Kill, Exit
  <2> QED BY <1>1, <1>2, <2>1 DEF Sound, CompilationExact, Going
<1>6. CASE JobStarts
  <2>1. InFlight' = InFlight
    BY <1>0, <1>6, StartQueue
  <2>2. UNCHANGED <<project, generated, cacheFile, memory, pc, jobError, accepting>> /\ pc = "jobs"
    BY <1>6 DEF JobStarts, Pool!Start
  <2>3. Going' => Progress'
    BY <1>0, <2>1, <2>2, ProgressKeeps DEF Going, memory
  <2> QED BY <1>1, <1>2, <1>3, <2>2, <2>3 DEF Sound
<1>7. CASE JobEnds
  <2>1. pc = "jobs" /\ pc' = "jobs" /\ JobFrame
    BY <1>7, JobEndsCases DEF JobFrame
  <2>2. ASSUME NEW j \in running, Works(j) PROVE Going' => Progress'
    BY <1>0, <2>1, <2>2, WorksProgress
  <2>3. ASSUME NEW j \in running, JobFinish(j), UNCHANGED <<generated, memory, jobError>>
        PROVE  Going' => Progress'
    <3>0. pending' = <<>> /\ running' = {}
      BY <1>0, <2>1, <2>3, FinishQueue
    <3>1. j.type = "finish" /\ InFlight' = {}
      BY <2>3, <3>0 DEF JobFinish, InFlight, ToSet
    <3>2. /\ accepting /\ \A f : NewJob("parse", f) \notin InFlight
          /\ Past({"eval", "evalFinish", "probe", "probeFinish", "compilation"})
      <4>1. Stage(j) = 10
        BY <3>1 DEF Stage
      <4> QED BY <1>0, <3>1, <4>1, Later DEF Past, Order
    <3>3. Progress
      BY <1>0, <2>1, <3>2 DEF Going
    <3>4. UNCHANGED <<mtime, content, compilation, parseCache, discovered, mapping, compFiles>>
      BY <2>1, <2>3 DEF JobFrame, project, generated, memory
    <3>5. \A h : Wanted(h)' = Wanted(h)
      BY <3>4 DEF Wanted
    <3>6. Known'
      BY <3>2, <3>3, <3>4 DEF Progress, Known, Matches
    <3>7. Evaluated'
      BY <3>2, <3>3, <3>4, <3>5 DEF Progress, Evaluated, Past
    <3> QED BY <3>2, <3>3, <3>4, <3>6, <3>7 DEF Progress, Past
  <2>4. ASSUME NEW j \in running, Fails(j) PROVE ~Going'
    BY <2>1, <2>4 DEF Fails, Going
  <2>5. Going' => Progress'
    BY <1>7, <2>2, <2>3, <2>4, JobEndsCases
  <2> QED BY <1>1, <1>2, <1>3, <2>1, <2>5 DEF Sound, JobFrame
<1>8. CASE PoolReturns
  <2>1. /\ pc = "jobs" /\ ~accepting /\ pc' = IF jobError THEN "failed" ELSE "cache"
        /\ UNCHANGED <<project, generated, cacheFile, memory>>
    BY <1>8 DEF PoolReturns, Pool!Return
  <2>2. Going' => Progress'
    <3> SUFFICES ASSUME Going' PROVE Progress'
      OBVIOUS
    <3>1. ~jobError /\ Going
      BY <2>1 DEF Going
    <3>2. InFlight = {} /\ InFlight' = {}
      BY <1>0, <2>1, <3>1, NothingInFlight DEF Base, Order, InFlight, ToSet
    <3> QED BY <1>0, <2>1, <3>1, <3>2, ProgressKeeps DEF memory
  <2> QED BY <1>1, <1>2, <1>3, <2>1, <2>2 DEF Sound
<1>9. CASE ParseCacheWrite
  <2>1. /\ pc = "cache" /\ pc' # "idle" /\ UNCHANGED <<project, generated, memory>> /\ Going
        /\ pc' # "jobs"
    BY <1>9 DEF ParseCacheWrite, Going
  <2>2. CacheSound'
    BY <1>0, <1>9, <2>1, WriteCacheSound
  <2>3. InFlight = {} /\ InFlight' = {}
    BY <1>0, <2>1 DEF Base, Order, InFlight, ToSet
  <2>4. Progress'
    BY <1>0, <2>1, <2>3, ProgressKeeps DEF memory
  <2> QED BY <1>1, <1>3, <2>1, <2>2, <2>4 DEF Sound
<1>10. CASE SettingsFileWrite
  <2>1. /\ pc = "settings" /\ pc' = "idle" /\ UNCHANGED <<project, generated, cacheFile>> /\ Going
    BY <1>10 DEF SettingsFileWrite, Exit, Going
  <2>2. compilation = {h \in Header : Wanted(h) = "comp"}
    <3>1. \A types : Past(types)
      BY <2>1, NothingInFlight
    <3>2. compilation = {h \in Header : mapping[h] = "comp"} /\ Evaluated
      BY <1>0, <2>1, <3>1 DEF Progress
    <3> QED BY <3>2 DEF Evaluated
  <2>3. CompilationExact'
    BY <2>1, <2>2 DEF CompilationExact, Wanted, project, generated
  <2> QED BY <1>1, <1>2, <2>1, <2>3 DEF Sound, Going
<1>11. CASE Change
  <2>1. CacheSound'
    BY <1>0, <1>11, ChangeCacheSound
  <2>2. pc' = "idle" /\ lastResult' = "none"
    BY <1>11 DEF Change
  <2> QED BY <1>1, <2>1, <2>2 DEF Sound, CompilationExact, Going
<1>12. CASE UNCHANGED vars
  <2>1. UNCHANGED <<project, generated, cacheFile, memory, InFlight, lastResult, Going>>
    BY <1>12 DEF vars, queue, InFlight, ToSet, Going
  <2>2. Going' => Progress'
    BY <1>0, <2>1, ProgressKeeps DEF memory
  <2>3. CompilationExact'
    BY <1>0, <2>1 DEF CompilationExact, Wanted, project, generated
  <2> QED BY <1>1, <1>2, <2>1, <2>2, <2>3 DEF Sound
<1> QED
  BY <1>4, <1>5, <1>6, <1>7, <1>8, <1>9, <1>10, <1>11, <1>12 DEF Next, Run, TheEnd

LEMMA SoundInit == Init => Sound
<1> SUFFICES ASSUME Init PROVE Sound
  OBVIOUS
<1>1. Times
  BY DEF Init, Times, NoOutput
<1>2. CacheSound
  BY DEF Init, CacheSound, Fresh
<1>3. ~Going /\ CompilationExact
  BY DEF Init, Going, CompilationExact
<1> QED BY <1>1, <1>2, <1>3 DEF Sound

LEMMA SoundHolds == Spec => [](Base /\ Sound)
<1>1. Init => Base /\ Sound
  BY BaseInit, SoundInit
<1>2. Base /\ Sound /\ [Next]_vars => (Base /\ Sound)'
  BY BaseStep, SoundStep
<1> QED BY <1>1, <1>2, PTL DEF Spec

\* A run that reports success has listed in mocs_compilation.cpp exactly the headers
\* whose moc output no C++ file includes, after any changes, failures and
\* kills, although it reads again only the files that are younger than the cache.
THEOREM CompilationTheorem == Spec => []CompilationExact
<1>1. Base /\ Sound => CompilationExact
  BY DEF Sound
<1> QED BY <1>1, SoundHolds, PTL

-----------------------------------------------------------------------------
(* The outputs.  What a run knows of dependencies is safe only if moc does  *)
(* not report them itself, and if the headers that have some are listed: an *)
(* interrupted run, or one that does not include a header any more, leaves  *)
(* a cache that is too young for the entry it keeps.                        *)

DepsFromListed ==
  /\ ~CanOutputDependencies
  /\ \A h \in Header \ Listed : \A c \in Contents[h] : c.deps = {}

\* Of other headers nothing is known to depend on, nor from moc.
Bare ==
  /\ \A h \in Header \ Listed :
       /\ parseCache[h] = NoEntry \/ parseCache[h].deps = {}
       /\ cacheFile.entries[h] = NoEntry \/ cacheFile.entries[h].deps = {}
  /\ \A h \in Header, k \in Output : output[h][k].deps = {}

CacheComplete ==
  \A f \in Listed \cup Source : Fresh(f) => cacheFile.entries[f].deps = content[f].deps

\* As long as there is a settings file, the outputs that are not older than
\* moc_predefs.h have been made with its settings.
SettingsSound ==
  /\ settingsFile # "none" => \A h \in Header, k \in Output :
       output[h][k].time # 0 /\ output[h][k].time >= predefsTime => output[h][k].settings = settingsFile
  /\ pc \in {"jobs", "cache", "settings"} =>
       /\ settingsFile = IF settingsChanged THEN "none" ELSE settings
       /\ \A h \in Header, k \in Output :
            output[h][k].time = clock => output[h][k].settings = settings

MissingDep(f) == \E d \in content[f].deps : mtime[d] = 0

\* A dependency that is gone is forgotten, but then moc has to run, and fails.
DepsKnown ==
  \A f \in Listed \cup Source :
    \/ NewJob("parse", f) \in InFlight
    \/ parseCache[f].deps = content[f].deps
    \/ Past({"evalFinish", "probe"}) /\ f \in Mapped /\ MissingDep(f)

Current(h) ==
  /\ OutputOf(h).settings = settings
  /\ \A t \in {1, mtime[h], mocTime, compilerTime} \cup {mtime[d] : d \in content[h].deps} :
       t # 0 /\ OutputOf(h).time >= t

PredefsMade ==
  predefsTime # 0 /\ predefsTime >= compilerTime /\ (settingsChanged => predefsTime = clock)

Making ==
  /\ DepsKnown
  /\ Past({"predefs"}) => PredefsMade
  /\ Past({"evalFinish", "probe"}) =>
       \A h \in Mapped : NewJob("moc", h) \in InFlight \/ Current(h)

OutputsSound == Bare /\ CacheComplete /\ SettingsSound /\ (Going => Making) /\ UpToDate

\* What a job does to the dependencies that are known.
LEMMA WorksDeps ==
  ASSUME DepsFromListed, Base, Bare, pc = "jobs", NEW j \in running, Works(j), NEW f \in Scanned
  PROVE  /\ j = NewJob("parse", f) => parseCache'[f].deps = content[f].deps
         /\ j # NewJob("parse", f) /\ parseCache[f] \in Entry =>
              parseCache'[f].deps = parseCache[f].deps
                                      \ (IF j.type = "probe" /\ f \in Mapped THEN Vanished(f) ELSE {})
         /\ j # NewJob("parse", f) /\ parseCache[f] = NoEntry =>
              parseCache'[f] = NoEntry \/ parseCache'[f].deps = {}
<1>1. /\ DiskType /\ RunType /\ QueueType /\ Order /\ Loaded
      /\ j \in JobSet /\ parseCache \in [Scanned -> Entry \cup {NoEntry}]
      /\ (~accepting => j.type \in {"parse", "moc"})
      /\ NoEntry \notin Entry
  BY ProjectAssumption DEF Base, QueueType, RunType, Order, Entry
<1>2. CASE JobMocPredefs(j) \/ JobFence(j) \/ JobEvalCacheMoc(j) \/ JobProbeDepsFinish(j)
           \/ JobMocsCompilation(j) \/ JobCompileMoc(j)
  <2>1. parseCache' = parseCache /\ j.type # "parse" /\ j.type # "probe"
    BY <1>2 DEF JobMocPredefs, JobFence, JobEvalCacheMoc, JobProbeDepsFinish,
                JobMocsCompilation, JobCompileMoc, memory, DepsFromListed
  <2> QED BY <2>1 DEF NewJob
<1>3. CASE JobParse(j)
  <2>1. /\ parseCache' = [parseCache EXCEPT ![j.file] = [content[j.file] EXCEPT !.deps = @]]
        /\ j.type # "probe"
        /\ j.file \in Scanned /\ j = NewJob("parse", j.file) /\ content[j.file] \in Entry
    BY <1>1, <1>3, StageOf DEF JobParse, JobSet, DiskType, DepsFromListed
  <2>2. CASE f = j.file
    BY <1>1, <2>1, <2>2 DEF Entry
  <2>3. CASE f # j.file
    BY <1>1, <2>1, <2>3 DEF NewJob
  <2> QED BY <2>2, <2>3
<1>4. CASE JobEvalCacheFinish(j)
  <2>1. parseCache' = [g \in Scanned |-> IF g \in discovered /\ parseCache[g] = NoEntry
                                         THEN Empty ELSE parseCache[g]]
        /\ j.type # "parse" /\ j.type # "probe"
    BY <1>4 DEF JobEvalCacheFinish, GetOrInsert
  <2> QED BY <1>1, <2>1 DEF NewJob, Empty
<1>5. CASE JobProbeDepsMoc(j)
  <2>1. /\ parseCache' = [g \in Scanned |->
             IF g \in Mapped THEN [parseCache[g] EXCEPT !.deps = @ \ Vanished(g)] ELSE parseCache[g]]
        /\ j.type = "probe"
    BY <1>5 DEF JobProbeDepsMoc
  <2>2. \A g \in Mapped : parseCache[g] \in Entry
    BY <1>1, <2>1, MappedLoaded
  <2> QED BY <1>1, <2>1, <2>2 DEF NewJob, Entry
<1>6. CASE JobDepFilesMerge(j)
  <2>1. /\ parseCache' = [g \in Scanned |->
             IF g \in Mapped /\ parseCache[g].deps = {}
             THEN [parseCache[g] EXCEPT !.deps = OutputOf(g).deps] ELSE parseCache[g]]
        /\ j.type = "depMerge"
    BY <1>6 DEF JobDepFilesMerge
  <2>2. \A g \in Mapped : parseCache[g] \in Entry
    BY <1>1, <2>1, MappedLoaded
  <2>3. \A g \in Mapped : OutputOf(g).deps = {}
    BY <1>1 DEF Mapped, OutputOf, RunType, Output, Bare
  <2>4. f \in Mapped => parseCache'[f].deps = parseCache[f].deps
    BY <2>1, <2>2, <2>3 DEF Entry
  <2>5. f \notin Mapped => parseCache'[f] = parseCache[f]
    BY <2>1
  <2>6. j # NewJob("parse", f) /\ j.type # "probe"
    BY <2>1 DEF NewJob
  <2>7. parseCache[f] = NoEntry => f \notin Mapped
    BY <1>1, <2>2
  <2>8. parseCache'[f].deps = parseCache[f].deps
    BY <2>4, <2>5
  <2> QED BY <2>5, <2>6, <2>7, <2>8
<1> QED BY <1>2, <1>3, <1>4, <1>5, <1>6 DEF Works

LEMMA WorksBare ==
  ASSUME DepsFromListed, Base, Bare, pc = "jobs", NEW j \in running, Works(j), JobFrame
  PROVE  Bare'
<1>1. DiskType /\ RunType /\ Header \subseteq Scanned
  BY DEF Base, Scanned
<1>2. ASSUME NEW h \in Header \ Listed
      PROVE  parseCache'[h] = NoEntry \/ parseCache'[h].deps = {}
  <2>1. content[h].deps = {} /\ parseCache[h] \in Entry \cup {NoEntry}
    BY <1>1 DEF DiskType, RunType, DepsFromListed
  <2> QED BY <1>1, <2>1, WorksDeps DEF Bare
<1>3. \A h \in Header, k \in Output : output'[h][k].deps = {}
  <2>1. CASE JobCompileMoc(j)
    <3>1. output' = [output EXCEPT ![j.file][mapping[j.file]] =
                       [time |-> clock, settings |-> settings, deps |-> {}]]
      BY <2>1 DEF JobCompileMoc, DepsFromListed
    <3> QED BY <1>1, <3>1 DEF Bare, DiskType
  <2>2. CASE ~JobCompileMoc(j)
    BY <2>2 DEF Bare, Works, JobMocPredefs, JobParse, JobFence, JobEvalCacheMoc,
       JobEvalCacheFinish, JobProbeDepsMoc, JobProbeDepsFinish, JobMocsCompilation,
       JobDepFilesMerge, generated
  <2> QED BY <2>1, <2>2
<1> QED BY <1>2, <1>3 DEF Bare, JobFrame

LEMMA WorksSettings ==
  ASSUME Base, Times, SettingsSound, pc = "jobs", NEW j \in running, Works(j), JobFrame
  PROVE  SettingsSound'
<1>1. /\ DiskType /\ clock \in Nat /\ settings # "none"
      /\ UNCHANGED <<clock, settings, settingsFile, settingsChanged, pc>>
  BY WorksSame DEF Base, DiskType, JobFrame, project, Setting
<1>2. predefsTime \in Nat /\ predefsTime' \in Nat /\ predefsTime <= predefsTime'
  <2>1. predefsTime' \in {predefsTime, clock}
    BY DEF Works, JobMocPredefs, JobParse, JobFence, JobEvalCacheMoc, JobEvalCacheFinish,
       JobProbeDepsMoc, JobProbeDepsFinish, JobCompileMoc, JobMocsCompilation, JobDepFilesMerge,
       generated
  <2> QED BY <1>1, <2>1 DEF DiskType, Times
<1>3. ASSUME NEW h \in Header, NEW k \in Output
      PROVE  \/ UNCHANGED output[h][k]
             \/ output'[h][k].time = clock /\ output'[h][k].settings = settings
  <2>1. CASE JobCompileMoc(j)
    <3> DEFINE read == IF CanOutputDependencies THEN content[j.file].deps ELSE {}
    <3>1. output' = [output EXCEPT ![j.file][mapping[j.file]] =
                       [time |-> clock, settings |-> settings, deps |-> read]]
      BY <2>1 DEF JobCompileMoc
    <3> HIDE DEF read
    <3> QED BY <1>1, <3>1 DEF DiskType
  <2>2. CASE ~JobCompileMoc(j)
    BY <2>2 DEF Works, JobMocPredefs, JobParse, JobFence, JobEvalCacheMoc,
       JobEvalCacheFinish, JobProbeDepsMoc, JobProbeDepsFinish, JobMocsCompilation,
       JobDepFilesMerge, generated
  <2> QED BY <2>1, <2>2
<1>4. settingsFile = IF settingsChanged THEN "none" ELSE settings
  BY DEF SettingsSound
<1>5. \A h \in Header, k \in Output : output[h][k].time \in Nat
  BY <1>1 DEF DiskType, Made
<1>6. ASSUME settingsFile # "none", NEW h \in Header, NEW k \in Output,
             output'[h][k].time # 0, output'[h][k].time >= predefsTime'
      PROVE  output'[h][k].settings = settingsFile
  <2>1. CASE UNCHANGED output[h][k]
    BY <1>2, <1>5, <1>6, <2>1 DEF SettingsSound
  <2>2. CASE output'[h][k].settings = settings
    BY <1>4, <1>6, <2>2
  <2> QED BY <1>3, <2>1, <2>2
<1>7. ASSUME NEW h \in Header, NEW k \in Output, output'[h][k].time = clock
      PROVE  output'[h][k].settings = settings
  BY <1>3, <1>7 DEF SettingsSound
<1> QED BY <1>1, <1>4, <1>6, <1>7 DEF SettingsSound

\* A header that is mapped is wanted, and exists.
LEMMA MappedThere ==
  ASSUME Progress, Past({"eval"}), NEW h \in Mapped
  PROVE  h \in Header /\ mapping[h] = Wanted(h) /\ Wanted(h) # "none" /\ mtime[h] # 0
BY DEF Progress, Evaluated, Mapped

\* The probe job finds whatever makes an output out of date.
LEMMA ProbeFinds ==
  ASSUME DepsFromListed, Base, Bare, Progress, Making, SettingsSound, pc = "jobs", accepting,
         NEW j \in running, j.type = "probe", NEW h \in Mapped, ~Probe(h)
  PROVE  Current(h)
<1>1. /\ DiskType /\ RunType /\ QueueType /\ Order /\ InOrder /\ Loaded /\ Going
      /\ h \in Header /\ mapping[h] \in Output
  BY DEF Base, Order, Going, Mapped, RunType, Output
<1>2. /\ \A f : NewJob("parse", f) \notin InFlight
      /\ Past({"predefs"}) /\ Past({"eval"}) /\ ~Past({"evalFinish", "probe"})
  <2>1. Stage(j) = 5 /\ j = Do("probe") /\ j \in InFlight
    BY <1>1, StageOf DEF QueueType, InFlight
  <2> QED BY <1>1, <2>1, Later DEF Past
<1>3. parseCache[h].deps = content[h].deps
  <2>1. CASE h \in Listed
    BY <1>2, <2>1 DEF Making, DepsKnown
  <2>2. CASE h \notin Listed
    <3>1. h \in Scanned /\ parseCache[h] \in Entry /\ NoEntry \notin Entry
      BY <1>1, MappedLoaded, ProjectAssumption DEF Scanned, Entry
    <3>2. parseCache[h].deps = {}
      BY <1>1, <2>2, <3>1 DEF Bare
    <3> QED BY <1>1, <2>2, <3>1, <3>2 DEF DepsFromListed, DiskType
  <2> QED BY <2>1, <2>2
<1>4. PredefsMade
  BY <1>2 DEF Making
<1>5. /\ ~settingsChanged /\ OutputOf(h).time # 0
      /\ \A t \in {mtime[h], predefsTime, mocTime} : ~(OutputOf(h).time < t)
      /\ \A d \in content[h].deps : mtime[d] # 0 /\ ~(OutputOf(h).time < mtime[d])
  BY <1>3 DEF Probe, Outdated, Reasons
<1>6. /\ OutputOf(h).time \in Nat /\ predefsTime \in Nat /\ compilerTime \in Nat \ {0}
      /\ mocTime \in Nat \ {0} /\ mtime[h] \in Nat /\ settings # "none"
      /\ \A d \in content[h].deps : mtime[d] \in Nat
  <2>1. h \in Scanned /\ content[h].deps \subseteq Dep
    BY <1>1 DEF Scanned, DiskType, Entry
  <2> QED BY <1>1, <2>1 DEF OutputOf, DiskType, Made, Setting
<1>7. OutputOf(h).settings = settings
  BY <1>1, <1>5, <1>6 DEF SettingsSound, OutputOf
<1>8. mtime[h] # 0
  BY <1>2, MappedThere
<1>9. /\ OutputOf(h).time >= 1 /\ OutputOf(h).time >= mtime[h] /\ OutputOf(h).time >= mocTime
      /\ OutputOf(h).time >= compilerTime /\ compilerTime # 0 /\ mocTime # 0
      /\ \A d \in content[h].deps : mtime[d] # 0 /\ OutputOf(h).time >= mtime[d]
  BY <1>4, <1>5, <1>6 DEF PredefsMade
<1> QED BY <1>7, <1>8, <1>9 DEF Current

\* And moc, run now, makes it up to date.
LEMMA MocMakes ==
  ASSUME Base, Times, Progress, pc = "jobs", NEW j \in running, JobCompileMoc(j), JobFrame,
         Past({"eval"}), j.file \in Mapped
  PROVE  Current(j.file)'
<1> DEFINE h == j.file
           read == IF CanOutputDependencies THEN content[h].deps ELSE {}
<1>1. /\ DiskType /\ h \in Header /\ h \in Scanned /\ mapping[h] \in Output /\ mtime[h] # 0
      /\ UNCHANGED <<clock, mtime, content, settings, mocTime, compilerTime, mapping>>
  BY MappedThere DEF Base, Mapped, RunType, Output, Scanned, JobFrame, project, JobCompileMoc
<1>2. output' = [output EXCEPT ![h][mapping[h]] =
                   [time |-> clock, settings |-> settings, deps |-> read]]
      /\ \A d \in content[h].deps : mtime[d] # 0
  BY DEF JobCompileMoc
<1> HIDE DEF read
<1>3. OutputOf(h)' = [time |-> clock, settings |-> settings, deps |-> read]
  BY <1>1, <1>2 DEF OutputOf, DiskType
<1>4. /\ clock \in Nat \ {0} /\ mocTime \in Nat \ {0} /\ compilerTime \in Nat \ {0}
      /\ mtime[h] <= clock /\ mocTime <= clock /\ compilerTime <= clock
      /\ \A d \in content[h].deps : mtime[d] <= clock
  <2>1. content[h].deps \subseteq Dep
    BY <1>1 DEF DiskType, Entry
  <2> QED BY <1>1, <2>1 DEF DiskType, Times
<1> HIDE DEF h
<1>5. /\ OutputOf(h)'.settings = settings' /\ OutputOf(h)'.time = clock
  BY <1>1, <1>3
<1>6. ASSUME NEW t \in {1, mtime[h], mocTime, compilerTime} \cup {mtime[d] : d \in content[h].deps}
      PROVE  t # 0 /\ clock >= t
  <2>1. mtime[h] \in Nat /\ \A d \in content[h].deps : mtime[d] \in Nat
    BY <1>1 DEF DiskType, Entry
  <2> QED BY <1>1, <1>2, <1>4, <1>6, <2>1
<1>7. Current(h)'
  BY <1>1, <1>5, <1>6 DEF Current
<1> QED BY <1>7 DEF h

\* Once the outputs have been probed they are not probed again in this run.
LEMMA ProbedStays ==
  ASSUME Base, pc = "jobs", accepting, NEW j \in running, Works(j), Past({"evalFinish", "probe"})
  PROVE  Past({"evalFinish", "probe"})' /\ UNCHANGED Mapped
<1>1. RunType /\ QueueType /\ Order /\ Fenced /\ j \in InFlight /\ j \in JobSet
  BY DEF Base, Order, QueueType, InFlight
<1>2. j.type \notin {"eval", "evalFinish", "probe"}
  <2>1. j # Do("evalFinish") /\ j # Do("probe")
    BY <1>1 DEF Past
  <2>2. j.type = "eval" => Stage(j) = 3
    BY DEF Stage
  <2>3. j.type # "eval"
    BY <1>1, <2>2 DEF Past, Fenced
  <2> QED BY <1>1, <2>1, <2>3, StageOf
<1>3. CASE j.type = "probeFinish"
  <2>1. JobProbeDepsFinish(j)
    BY <1>3 DEF Works, JobMocPredefs, JobParse, JobFence, JobEvalCacheMoc, JobProbeDepsMoc,
       JobEvalCacheFinish, JobCompileMoc, JobMocsCompilation, JobDepFilesMerge
  <2>2. InFlight' \subseteq InFlight \cup {Do("compilation"), Do("depMerge"), Do("finish")}
    BY <1>1, <2>1, ProbeFinishQueue
  <2>3. \A t \in {"evalFinish", "probe"} : Do(t) \notin {Do("compilation"), Do("depMerge"), Do("finish")}
    BY DEF Do, NewJob
  <2> QED BY <1>2, <2>2, <2>3, WorksSame DEF Past, Mapped
<1>4. CASE j.type # "probeFinish"
  <2>1. InFlight' \subseteq InFlight
    BY <1>1, <1>2, <1>4, WorksFlight
  <2> QED BY <1>2, <2>1, WorksSame DEF Past, Mapped
<1> QED BY <1>3, <1>4

LEMMA IsProbe ==
  ASSUME NEW j, Works(j), j.type = "probe"
  PROVE  JobProbeDepsMoc(j)
BY DEF Works, JobMocPredefs, JobParse, JobFence, JobEvalCacheMoc, JobEvalCacheFinish,
   JobProbeDepsFinish, JobCompileMoc, JobMocsCompilation, JobDepFilesMerge

LEMMA ProbeEnds ==
  ASSUME Base, pc = "jobs", accepting, NEW j \in running, Works(j), j.type = "probe"
  PROVE  /\ Past({"evalFinish", "probe"})' /\ UNCHANGED Mapped
         /\ \A h \in Mapped : Probe(h) => NewJob("moc", h) \in InFlight'
<1>1. RunType /\ QueueType /\ Order
  BY DEF Base
<1>2. /\ InFlight' = {NewJob("moc", h) : h \in {g \in Mapped : Probe(g)}} \cup (InFlight \ {j})
      /\ \A i \in InFlight \ {j} : Stage(i) = 6
  BY <1>1, IsProbe, ProbeQueue
<1>3. \A t \in {"evalFinish", "probe"} : Stage(Do(t)) \in {4, 5} /\ \A h : Do(t) # NewJob("moc", h)
  BY DEF Stage, Do, NewJob
<1>4. UNCHANGED mapping
  BY WorksSame
<1> QED BY <1>2, <1>3, <1>4 DEF Past, Mapped

LEMMA WorksDepsKnown ==
  ASSUME DepsFromListed, Base, Bare, Making, pc = "jobs", accepting,
         NEW j \in running, Works(j), JobFrame
  PROVE  DepsKnown'
<1>1. /\ DiskType /\ RunType /\ QueueType /\ Order /\ Loaded /\ DepsKnown
      /\ UNCHANGED <<mtime, content>>
  BY DEF Base, JobFrame, project, Making
<1>2. InFlight \ {j} \subseteq InFlight'
  BY <1>1, WorksFlight
<1> SUFFICES ASSUME NEW f \in Listed \cup Source
             PROVE  \/ NewJob("parse", f) \in InFlight'
                    \/ parseCache'[f].deps = content'[f].deps
                    \/ Past({"evalFinish", "probe"})' /\ f \in Mapped' /\ MissingDep(f)'
  BY DEF DepsKnown
<1>3. f \in Scanned /\ parseCache[f] \in Entry
  BY <1>1, ProjectAssumption DEF Loaded, Scanned
<1>4. CASE j = NewJob("parse", f)
  BY <1>1, <1>3, <1>4, WorksDeps
<1>5. CASE j # NewJob("parse", f)
  <2>1. parseCache'[f].deps = parseCache[f].deps
                                \ (IF j.type = "probe" /\ f \in Mapped THEN Vanished(f) ELSE {})
    BY <1>3, <1>5, WorksDeps
  <2>2. CASE NewJob("parse", f) \in InFlight
    BY <1>2, <1>5, <2>2
  <2>3. CASE parseCache[f].deps = content[f].deps
    <3>1. CASE j.type = "probe" /\ f \in Mapped /\ Vanished(f) # {}
      <4>1. PICK d \in Vanished(f) : TRUE
        BY <3>1
      <4>2. mtime[d] = 0 /\ d \in Reasons(f)
        BY <4>1 DEF Vanished
      <4>3. MissingDep(f)'
        BY <1>1, <2>3, <4>2 DEF MissingDep, Reasons
      <4> QED BY <3>1, <4>3, ProbeEnds
    <3>2. CASE ~(j.type = "probe" /\ f \in Mapped /\ Vanished(f) # {})
      BY <1>1, <2>1, <2>3, <3>2
    <3> QED BY <3>1, <3>2
  <2>4. CASE Past({"evalFinish", "probe"}) /\ f \in Mapped /\ MissingDep(f)
    BY <1>1, <2>4, ProbedStays DEF MissingDep
  <2> QED BY <1>1, <2>2, <2>3, <2>4 DEF DepsKnown
<1> QED BY <1>4, <1>5

LEMMA CurrentKeeps ==
  ASSUME NEW h, Current(h), UNCHANGED <<project, mapping[h], output[h]>>
  PROVE  Current(h)'
BY DEF Current, OutputOf, project

LEMMA WorksPredefs ==
  ASSUME Base, Times, Making, pc = "jobs", accepting, Going, NEW j \in running, Works(j), JobFrame,
         Past({"predefs"})'
  PROVE  PredefsMade'
<1>1. /\ RunType /\ QueueType /\ Order /\ clock \in Nat \ {0} /\ compilerTime \in Nat
      /\ predefsTime \in Nat /\ compilerTime <= clock
      /\ UNCHANGED <<clock, compilerTime, settingsChanged, pc>>
  BY WorksSame DEF Base, DiskType, Times, JobFrame, project
<1>2. CASE j.type = "predefs"
  <2>1. predefsTime' = IF predefsTime = 0 \/ settingsChanged \/ predefsTime < compilerTime
                       THEN clock ELSE predefsTime
    BY <1>2 DEF Works, JobMocPredefs, JobParse, JobFence, JobEvalCacheMoc, JobEvalCacheFinish,
       JobProbeDepsMoc, JobProbeDepsFinish, JobCompileMoc, JobMocsCompilation, JobDepFilesMerge
  <2> QED BY <1>1, <2>1 DEF PredefsMade
<1>3. CASE j.type # "predefs"
  <2>1. Past({"predefs"}) /\ UNCHANGED predefsTime
    BY <1>1, <1>3, WorksPast, WorksSame DEF Past, FenceType
  <2> QED BY <1>1, <2>1 DEF Making, PredefsMade
<1> QED BY <1>2, <1>3

LEMMA WorksMaking ==
  ASSUME DepsFromListed, Base, Times, Going => Progress, Bare, SettingsSound, Going => Making,
         pc = "jobs", NEW j \in running, Works(j), JobFrame, Going'
  PROVE  Making'
<1>1. /\ DiskType /\ RunType /\ QueueType /\ Order /\ Loaded
      /\ UNCHANGED <<project, pc>>
  BY DEF Base, JobFrame
<1>2. Going /\ accepting /\ Progress /\ Making
  BY <1>1, WorksPast
<1>3. \A t \in FenceType \cup {"eval", "probe"} :
        t # j.type /\ Do(t) \notin InFlight' => Do(t) \notin InFlight
  BY <1>1, <1>2, WorksPast
<1>4. DepsKnown' /\ (Past({"predefs"})' => PredefsMade')
  BY <1>2, WorksDepsKnown, WorksPredefs
<1>5. ASSUME Past({"evalFinish", "probe"})', NEW h \in Mapped'
      PROVE  NewJob("moc", h) \in InFlight' \/ Current(h)'
  <2>1. j.type # "evalFinish" /\ j.type # "eval"
    BY <1>2, <1>5, WorksPushes DEF Past
  <2>2. CASE j.type = "probe"
    <3>1. h \in Mapped /\ (Probe(h) => NewJob("moc", h) \in InFlight')
      BY <1>2, <1>5, <2>2, ProbeEnds
    <3>2. ~Probe(h) => Current(h)
      BY <1>2, <2>2, <3>1, ProbeFinds
    <3> QED BY <1>1, <2>2, <3>1, <3>2, WorksSame, CurrentKeeps
  <2>3. CASE j.type # "probe"
    <3>1. Past({"evalFinish", "probe"}) /\ Past({"evalFinish"})
      BY <1>3, <1>5, <2>1, <2>3 DEF Past, FenceType
    <3>2. Past({"eval"}) /\ h \in Mapped /\ h \in Header /\ InFlight \ {j} \subseteq InFlight'
          /\ UNCHANGED mapping
      BY <1>1, <1>2, <1>5, <2>1, <3>1, EvalFollowed, WorksFlight, WorksSame DEF Mapped
    <3>3. CASE j = NewJob("moc", h)
      <4>1. JobCompileMoc(j) /\ j.file = h
        BY <3>3 DEF Works, JobMocPredefs, JobParse, JobFence, JobEvalCacheMoc, JobEvalCacheFinish,
           JobProbeDepsMoc, JobProbeDepsFinish, JobMocsCompilation, JobDepFilesMerge, NewJob
      <4> QED BY <1>2, <3>2, <4>1, MocMakes
    <3>4. CASE j # NewJob("moc", h)
      <4>1. output'[h] = output[h]
        <5>1. CASE j.type = "moc"
          <6>1. JobCompileMoc(j) /\ j.file # h
            BY <1>1, <3>4, <5>1, StageOf DEF Works, JobMocPredefs, JobParse, JobFence,
               JobEvalCacheMoc, JobEvalCacheFinish, JobProbeDepsMoc, JobProbeDepsFinish,
               JobMocsCompilation, JobDepFilesMerge, QueueType
          <6> QED BY <1>1, <3>2, <6>1 DEF JobCompileMoc, DiskType
        <5> QED BY <5>1, WorksSame
      <4> QED BY <1>1, <1>2, <3>1, <3>2, <3>4, <4>1, CurrentKeeps DEF Making
    <3> QED BY <3>3, <3>4
  <2> QED BY <2>2, <2>3
<1> QED BY <1>4, <1>5 DEF Making

\* While no job ends.  Jobs that are gone by then were done.
LEMMA MakingKeeps ==
  ASSUME Making, UNCHANGED <<clock, project, generated, settingsChanged, parseCache, mapping>>,
         InFlight' = InFlight
  PROVE  Making'
<1>1. UNCHANGED <<mtime, content, compilerTime, predefsTime, output, Mapped>>
  BY DEF project, generated, Mapped
<1>2. \A types : Past(types)' <=> Past(types)
  BY DEF Past
<1>3. DepsKnown'
  BY <1>1, <1>2 DEF Making, DepsKnown, MissingDep
<1>4. PredefsMade => PredefsMade'
  BY <1>1 DEF PredefsMade
<1>5. \A h : Current(h) => Current(h)'
  BY <1>1, CurrentKeeps
<1> QED BY <1>1, <1>2, <1>3, <1>4, <1>5 DEF Making

LEMMA FinishMaking ==
  ASSUME Base, Going => Making, pc = "jobs", NEW j \in running, JobFinish(j), JobFrame,
         UNCHANGED <<generated, memory>>
  PROVE  Making'
<1>1. /\ QueueType /\ Order /\ InOrder /\ j.type = "finish" /\ accepting
  BY DEF Base, Order, JobFinish
<1>2. pending' = <<>> /\ running' = {}
  BY <1>1, FinishQueue
<1>3. InFlight' = {}
  BY <1>2 DEF InFlight, ToSet
<1>4. /\ \A f : NewJob("parse", f) \notin InFlight
      /\ \A h : NewJob("moc", h) \notin InFlight
      /\ Past({"predefs", "evalFinish", "probe"})
  <2>1. Stage(j) = 10
    BY <1>1 DEF Stage
  <2> QED BY <1>1, <2>1, Later DEF Past
<1>5. Making
  BY <1>1 DEF Going
<1>6. UNCHANGED <<clock, project, mtime, content, compilerTime, predefsTime, output, settingsChanged,
                  parseCache, mapping, Mapped>>
  BY DEF JobFrame, project, generated, memory, Mapped
<1>7. DepsKnown'
  BY <1>3, <1>4, <1>5, <1>6 DEF Making, DepsKnown, MissingDep, Past
<1>8. PredefsMade'
  BY <1>4, <1>5, <1>6 DEF Making, PredefsMade, Past
<1>9. ASSUME NEW h \in Mapped' PROVE Current(h)'
  <2>1. Current(h)
    BY <1>4, <1>5, <1>6, <1>9 DEF Making, Past
  <2>2. UNCHANGED <<project, mapping[h], output[h]>>
    BY <1>6
  <2> QED BY <2>1, <2>2, CurrentKeeps
<1> QED BY <1>7, <1>8, <1>9 DEF Making

LEMMA ChangeCacheComplete ==
  ASSUME Base, Times, CacheComplete, Change
  PROVE  CacheComplete'
BY StillFresh DEF CacheComplete

\* The cache that is written knows every dependency: a header whose entry has
\* lost one would have needed moc, which fails without it.
LEMMA WriteCacheComplete ==
  ASSUME Base, CacheComplete, Making, ParseCacheWrite
  PROVE  CacheComplete'
<1>1. UNCHANGED <<mtime, content>> /\ pc = "cache"
  BY DEF ParseCacheWrite, project
<1>2. InFlight = {} /\ \A types : Past(types)
  BY <1>1, NothingInFlight
<1>3. \A h \in Mapped : ~MissingDep(h)
  <2>1. \A h \in Mapped : Current(h)
    BY <1>2 DEF Making
  <2> QED BY <2>1 DEF Current, MissingDep
<1>4. \A f \in Listed \cup Source : parseCache[f].deps = content[f].deps
  BY <1>2, <1>3 DEF Making, DepsKnown
<1>5. CASE UNCHANGED cacheFile
  BY <1>1, <1>5 DEF CacheComplete, Fresh
<1>6. CASE cacheFile' = [time |-> clock, entries |-> parseCache]
  BY <1>1, <1>4, <1>6 DEF CacheComplete
<1> QED BY <1>5, <1>6 DEF ParseCacheWrite

\* The settings file is only written over outputs made with these settings.
LEMMA WriteSettings ==
  ASSUME Base, Times, SettingsSound, Making, SettingsFileWrite
  PROVE  SettingsSound'
<1>1. /\ DiskType /\ pc = "settings" /\ pc' = "idle"
      /\ UNCHANGED <<predefsTime, output>>
      /\ settingsFile' \in {settingsFile, IF settingsChanged THEN settings ELSE settingsFile, "none"}
  BY DEF Base, SettingsFileWrite, Exit, generated
<1>2. PredefsMade
  BY <1>1, NothingInFlight DEF Making
<1>3. \A h \in Header, k \in Output : output[h][k].time \in Nat /\ output[h][k].time <= clock
  BY <1>1 DEF DiskType, Made, Times
<1>4. ASSUME settingsChanged, NEW h \in Header, NEW k \in Output, output[h][k].time >= predefsTime
      PROVE  output[h][k].settings = settings
  <2>1. predefsTime = clock /\ clock \in Nat
    BY <1>1, <1>2, <1>4 DEF PredefsMade, DiskType
  <2>2. output[h][k].time \in Nat /\ output[h][k].time <= clock
    BY <1>3
  <2>3. output[h][k].time = clock
    BY <1>4, <2>1, <2>2
  <2> QED BY <1>1, <2>3 DEF SettingsSound
<1> QED BY <1>1, <1>4 DEF SettingsSound

LEMMA StartRunSettings ==
  ASSUME Base, Times, SettingsSound, StartRun
  PROVE  SettingsSound'
<1>1. /\ DiskType /\ clock \in Nat /\ clock < clock' /\ clock' \in Nat
      /\ UNCHANGED <<settings, predefsTime, output>>
      /\ pc' \in {"failed", "jobs"}
  BY TimePasses DEF Base, StartRun, project, generated
<1>2. /\ settingsFile' \in {settingsFile, "none"}
      /\ pc' = "jobs" => settingsFile' = IF settingsChanged' THEN "none" ELSE settings
  BY DEF StartRun, SettingsFileRead
<1>3. \A h \in Header, k \in Output : output[h][k].time # clock'
  <2>1. \A h \in Header, k \in Output : output[h][k].time \in Nat /\ output[h][k].time <= clock
    BY <1>1 DEF DiskType, Made, Times
  <2> QED BY <1>1, <2>1
<1> QED BY <1>1, <1>2, <1>3 DEF SettingsSound

LEMMA ChangeSettings ==
  ASSUME Base, SettingsSound, Change
  PROVE  SettingsSound'
<1>1. /\ DiskType /\ pc' = "idle" /\ UNCHANGED <<predefsTime, settingsFile>>
  BY DEF Base, Change
<1>2. \A h \in Header, k \in Output : output'[h][k] \in {NoOutput, output[h][k]}
  <2>1. CASE ProjectChanges
    BY <2>1 DEF ProjectChanges
  <2>2. CASE GeneratedRemoved
    BY <1>1, <2>2 DEF GeneratedRemoved, DiskType
  <2> QED BY <2>1, <2>2 DEF Change
<1> QED BY <1>1, <1>2 DEF SettingsSound, NoOutput

LEMMA StartRunBare ==
  ASSUME Base, Bare, StartRun
  PROVE  Bare'
<1>1. DiskType /\ UNCHANGED <<output, cacheFile>>
  BY DEF Base, StartRun, generated
<1>2. CASE pc' = "failed"
  <2>1. UNCHANGED parseCache
    BY <1>2 DEF StartRun, memory
  <2> QED BY <1>1, <2>1 DEF Bare
<1>3. CASE pc' # "failed"
  <2>1. parseCache' = GetOrInsert(KnownEntries, Listed \cup Source)
    BY <1>3, StartRunQueue DEF Base
  <2>2. \A h \in Header \ Listed :
          parseCache'[h] \in {NoEntry, Empty, cacheFile.entries[h]}
    BY <2>1 DEF GetOrInsert, KnownEntries, Scanned
  <2> QED BY <1>1, <2>2 DEF Bare, Empty
<1> QED BY <1>2, <1>3

LEMMA OutputsStep == DepsFromListed /\ Base /\ Sound /\ OutputsSound /\ [Next]_vars => OutputsSound'
<1> SUFFICES ASSUME DepsFromListed, Base, Sound, OutputsSound, [Next]_vars PROVE OutputsSound'
  OBVIOUS
<1>0. /\ DiskType /\ RunType /\ QueueType /\ Order
      /\ Times /\ (Going => Progress)
      /\ Bare /\ CacheComplete /\ SettingsSound /\ (Going => Making) /\ UpToDate
      /\ Base'
  BY BaseStep DEF Base, Sound, OutputsSound
<1>1. ASSUME UNCHANGED <<project, cacheFile>> PROVE CacheComplete'
  BY <1>1 , <1>0 DEF CacheComplete, Fresh, project
<1>2. ASSUME UNCHANGED <<cacheFile, output>>,
             \A h \in Header \ Listed : parseCache'[h] \in {NoEntry, parseCache[h]}
      PROVE  Bare'
  BY <1>0, <1>2 DEF Bare
<1>3. pc' # "idle" => UpToDate'
  BY <1>0 DEF Base, Order, UpToDate
<1>4. ASSUME UNCHANGED <<clock, settings, settingsFile, output, predefsTime>>,
             pc' \in {"jobs", "cache", "settings"} =>
               pc \in {"jobs", "cache", "settings"} /\ UNCHANGED settingsChanged
      PROVE  SettingsSound'
  BY <1>0, <1>4 DEF SettingsSound
<1>5. CASE StartRun
  <2>1. Going' => Making'
    <3> SUFFICES ASSUME Going' PROVE Making'
      OBVIOUS
    <3>1. pc' # "failed"
      BY DEF Going
    <3>2. DepsKnown'
      BY <1>0, <1>5, <3>1, StartRunEntries DEF CacheComplete, DepsKnown
    <3>3. Do("predefs") \in InFlight' /\ Do("evalFinish") \in InFlight'
      BY <1>5, <3>1, StartRunEntries
    <3> QED BY <3>2, <3>3 DEF Making, Past
  <2>2. CacheComplete' /\ lastResult' # "ok"
    BY <1>1, <1>5 DEF StartRun
  <2> QED BY <1>0, <1>5, <2>1, <2>2, StartRunBare, StartRunSettings DEF OutputsSound, UpToDate
<1>6. CASE RunFailed \/ Kill
  <2>1. /\ UNCHANGED <<clock, project, generated, cacheFile, settingsFile>>
        /\ lastResult' = "failed" /\ pc' = "idle"
        /\ \A h \in Header : parseCache'[h] = NoEntry
    BY <1>6 DEF RunFailed, Kill, Exit, Scanned
  <2> QED BY <1>1, <1>2, <1>4, <2>1 DEF OutputsSound, UpToDate, Going, project, generated
<1>7. CASE JobStarts
  <2>1. InFlight' = InFlight
    BY <1>0, <1>7, StartQueue
  <2>2. /\ UNCHANGED <<clock, project, generated, cacheFile, settingsFile, memory, pc, jobError, accepting>>
        /\ pc = "jobs"
    BY <1>7 DEF JobStarts, Pool!Start
  <2>3. Going' => Making'
    BY <1>0, <2>1, <2>2, MakingKeeps DEF Going, memory
  <2> QED BY <1>1, <1>2, <1>3, <1>4, <2>2, <2>3 DEF OutputsSound, project, generated, memory
<1>8. CASE JobEnds
  <2>1. pc = "jobs" /\ pc' = "jobs" /\ JobFrame /\ UNCHANGED <<clock, project, cacheFile, settingsFile>>
    BY <1>8, JobEndsCases DEF JobFrame
  <2>2. ASSUME NEW j \in running, Works(j) PROVE OutputsSound'
    BY <1>0, <1>1, <1>3, <2>1, <2>2, WorksBare, WorksSettings, WorksMaking DEF OutputsSound
  <2>3. ASSUME UNCHANGED <<generated, memory>>, Going' => Making' PROVE OutputsSound'
    BY <1>1, <1>2, <1>3, <1>4, <2>1, <2>3 DEF OutputsSound, project, generated, memory
  <2>4. ASSUME NEW j \in running, JobFinish(j), UNCHANGED <<generated, memory, jobError>>
        PROVE  OutputsSound'
    BY <1>0, <2>1, <2>3, <2>4, FinishMaking
  <2>5. ASSUME NEW j \in running, Fails(j), UNCHANGED <<generated, memory>>
        PROVE  OutputsSound'
    BY <2>1, <2>3, <2>5 DEF Fails, Going
  <2> QED BY <1>8, <2>2, <2>4, <2>5, JobEndsCases
<1>9. CASE PoolReturns
  <2>1. /\ pc = "jobs" /\ ~accepting /\ pc' = IF jobError THEN "failed" ELSE "cache"
        /\ UNCHANGED <<clock, project, generated, cacheFile, settingsFile, memory>>
    BY <1>9 DEF PoolReturns, Pool!Return
  <2>2. Going' => Making'
    <3> SUFFICES ASSUME Going' PROVE Making'
      OBVIOUS
    <3>1. ~jobError /\ Going
      BY <2>1 DEF Going
    <3>2. InFlight = {} /\ InFlight' = {}
      BY <1>0, <2>1, <3>1, NothingInFlight DEF Base, Order, InFlight, ToSet
    <3> QED BY <1>0, <2>1, <3>1, <3>2, MakingKeeps DEF memory
  <2>3. pc' # "idle"
    BY <2>1
  <2> QED BY <1>1, <1>2, <1>3, <1>4, <2>1, <2>2, <2>3 DEF OutputsSound, project, generated, memory
<1>10. CASE ParseCacheWrite
  <2>1. /\ pc = "cache" /\ pc' \notin {"idle", "jobs"} /\ Going
        /\ UNCHANGED <<clock, project, generated, settingsFile, memory>>
        /\ cacheFile' \in {cacheFile, [time |-> clock, entries |-> parseCache]}
    BY <1>10 DEF ParseCacheWrite, Going
  <2>2. InFlight = {} /\ InFlight' = {}
    BY <1>0, <2>1 DEF Base, Order, InFlight, ToSet
  <2>3. Making'
    BY <1>0, <2>1, <2>2, MakingKeeps DEF memory
  <2>4. Bare'
    BY <1>0, <2>1 DEF Bare, generated, memory
  <2>5. CacheComplete' /\ SettingsSound'
    BY <1>0, <1>4, <1>10, <2>1, WriteCacheComplete DEF project, generated, memory
  <2> QED BY <1>3, <2>1, <2>3, <2>4, <2>5 DEF OutputsSound
<1>11. CASE SettingsFileWrite
  <2>1. /\ pc = "settings" /\ pc' = "idle" /\ UNCHANGED <<project, generated, cacheFile>> /\ Going
        /\ \A h \in Header : parseCache'[h] = NoEntry
    BY <1>11 DEF SettingsFileWrite, Exit, Going, Scanned
  <2>2. \A h \in Header : Wanted(h) # "none" => Current(h) /\ mapping[h] = Wanted(h)
    <3>1. InFlight = {} /\ \A types : Past(types)
      BY <2>1, NothingInFlight
    <3>2. mapping = [h \in Header |-> Wanted(h)] /\ \A h \in Mapped : Current(h)
      BY <1>0, <2>1, <3>1 DEF Progress, Evaluated, Making
    <3> QED BY <3>2 DEF Mapped
  <2>3. UpToDate'
    BY <2>1, <2>2 DEF UpToDate, Current, OutputOf, Wanted, project, generated
  <2> QED BY <1>0, <1>1, <1>2, <1>11, <2>1, <2>3, WriteSettings DEF OutputsSound, Going, generated
<1>12. CASE Change
  <2>1. pc' = "idle" /\ lastResult' = "none" /\ UNCHANGED parseCache
    BY <1>12 DEF Change, memory
  <2>2. Bare'
    <3>1. /\ \A h \in Header, k \in Output : output'[h][k] \in {NoOutput, output[h][k]}
          /\ cacheFile'.entries = cacheFile.entries
      BY <1>0, <1>12 DEF Change, ProjectChanges, GeneratedRemoved, DiskType
    <3> QED BY <1>0, <2>1, <3>1 DEF Bare, NoOutput
  <2> QED BY <1>0, <1>12, <2>1, <2>2, ChangeCacheComplete, ChangeSettings
          DEF OutputsSound, UpToDate, Going
<1>13. CASE UNCHANGED vars
  <2>1. UNCHANGED <<clock, project, generated, cacheFile, settingsFile, memory, InFlight, lastResult, Going, pc>>
    BY <1>13 DEF vars, queue, InFlight, ToSet, Going
  <2>2. Going' => Making'
    BY <1>0, <2>1, MakingKeeps DEF memory
  <2>3. UpToDate'
    BY <1>0, <2>1 DEF UpToDate, Wanted, project, generated
  <2> QED BY <1>1, <1>2, <1>4, <2>1, <2>2, <2>3 DEF OutputsSound, project, generated, memory
<1> QED
  BY <1>5, <1>6, <1>7, <1>8, <1>9, <1>10, <1>11, <1>12, <1>13 DEF Next, Run, TheEnd

LEMMA OutputsInit == Init => OutputsSound
<1> SUFFICES ASSUME Init PROVE OutputsSound
  OBVIOUS
<1>1. Bare
  BY DEF Init, Bare, NoOutput, Scanned
<1>2. CacheComplete /\ SettingsSound
  BY DEF Init, CacheComplete, Fresh, SettingsSound, NoOutput
<1>3. ~Going /\ UpToDate
  BY DEF Init, Going, UpToDate
<1> QED BY <1>1, <1>2, <1>3 DEF OutputsSound

\* Where dependencies are what the parser finds (moc does not report them), and in
\* the headers that the target lists: after a run that reports success every moc
\* output is younger than its header, its dependencies, moc and the compiler,
\* and made with the present settings, whatever runs before it failed, were
\* killed, or found deleted files.
THEOREM UpToDateTheorem ==
  ASSUME ~CanOutputDependencies,
         \A h \in Header \ Listed : \A c \in Contents[h] : c.deps = {}
  PROVE  Spec => []UpToDate
<1>1. DepsFromListed
  BY DEF DepsFromListed
<1>2. Init => OutputsSound
  BY OutputsInit
<1>3. Base /\ Sound /\ OutputsSound /\ [Next]_vars => OutputsSound'
  BY <1>1, OutputsStep
<1>4. OutputsSound => UpToDate
  BY DEF OutputsSound
<1> QED BY <1>2, <1>3, <1>4, SoundHolds, PTL DEF Spec
=============================================================================
