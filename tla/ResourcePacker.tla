--------------------------- MODULE ResourcePacker ----------------------------
(***************************************************************************)
(* The hardware resources of one type: cmCTestResourceAllocator counts the *)
(* slots locked in each unit, and cmCTestBinPacker looks for units for all *)
(* requirements of a test at once.  Tests take what the packer found and   *)
(* give it back in any order.                                              *)
(*                                                                         *)
(* TestScheduler abstracts the packer to "some placement that fits, if     *)
(* there is one"; the properties here are what justifies that.             *)
(* X_Something is a mutant of X (see TestScheduler).                       *)
(***************************************************************************)
EXTENDS Integers, Sequences, FiniteSets, Sorting

CONSTANTS
  Unit,        \* the units, numbered in the order of their ids
  Total,       \* [Unit -> Nat]: slots of each unit
  Test,        \* the tests that need resources
  Needs,       \* the slots that each test asks for, one number per requirement
  Strategies,  \* strategies to try, a subset of {"RoundRobin", "Block"}
  MaxGrants    \* bound on the tests that hold resources at once

ASSUME UnitAssumption == Unit \subseteq Nat /\ IsFiniteSet(Unit) /\ Total \in [Unit -> Nat]
ASSUME NeedsAssumption ==
  /\ DOMAIN Needs = Test
  /\ \A t \in Test : Needs[t] \in Seq(Nat) /\ Needs[t] # <<>>
ASSUME StrategyAssumption ==
  Strategies \subseteq {"RoundRobin", "Block"} /\ MaxGrants \in Nat

VARIABLES
  strategy,    \* the AllocationStrategy that the packer is instantiated with
  locked,      \* Resources: slots locked in each unit
  held,        \* AllocatedResources: the unit of each requirement, by test
  refused      \* did the last AllocateResource or DeallocateResource fail?

vars == <<strategy, locked, held, refused>>

\* The map f with the value y for x.
Put(f, x, y) == [z \in DOMAIN f \cup {x} |-> IF z = x THEN y ELSE f[z]]

Free == [u \in Unit |-> Total[u] - locked[u]]

-----------------------------------------------------------------------------
\* The requirements in the order of the search, largest first (stable_sort).
NeedsSorted(needs) ==
  Sorted(DOMAIN needs, LAMBDA i, j : needs[i] > needs[j] \/ (needs[i] = needs[j] /\ i < j))

\* InitialSort of both strategies: most free slots first, then by id.
InitialSort(free) ==
  Sorted(Unit, LAMBDA u, v : free[u] > free[v] \/ (free[u] = free[v] /\ u < v))

\* RoundRobin: the unit at i moves behind those that have more free slots now.
RoundRobinSort(free, sorted, i) ==
  LET last == CHOOSE k \in i .. Len(sorted) :
                /\ \A j \in i + 1 .. k : free[sorted[j]] > free[sorted[i]]
                /\ k < Len(sorted) => free[sorted[k + 1]] <= free[sorted[i]]
  IN [j \in DOMAIN sorted |-> CASE j \in i .. last - 1 -> sorted[j + 1]
                                [] j = last -> sorted[i]
                                [] OTHER -> sorted[j]]

\* Block: it moves to the front.
BlockSort(sorted, i) ==
  [j \in DOMAIN sorted |-> CASE j = 1 -> sorted[i]
                             [] j \in 2 .. i -> sorted[j - 1]
                             [] OTHER -> sorted[j]]

IncrementalSort(free, sorted, i) ==
  IF strategy = "Block" THEN BlockSort(sorted, i) ELSE RoundRobinSort(free, sorted, i)

UnitTried_OneTooMany(free, sorted, need, i) ==
  /\ i = 1 \/ free[sorted[i]] # free[sorted[i - 1]]
  /\ free[sorted[i]] > need

UnitTried_Unchecked(free, sorted, need, i) ==
  i = 1 \/ free[sorted[i]] # free[sorted[i - 1]]

\* The search tries the i-th unit for a requirement: it has enough free slots,
\* and the unit before it has not the same number of them.
UnitTried(free, sorted, need, i) ==
  /\ i = 1 \/ free[sorted[i]] # free[sorted[i - 1]]
  /\ free[sorted[i]] >= need

\* One level of the search: the first unit to try for requirement r for which
\* more, the levels below, can place the rest.  Both give the set of the solution
\* found, {} if there is none, for the free slots and the units as sorted now.
Place(r, need, more) ==
  [free \in [Unit -> Int] |-> [sorted \in Seq(Unit) |->
     LET Rest(i) == LET less == [free EXCEPT ![sorted[i]] = @ - need]
                    IN more[less][IncrementalSort(less, sorted, i)]
         good == {i \in DOMAIN sorted : UnitTried(free, sorted, need, i) /\ Rest(i) # {}}
         first == {i \in good : \A j \in good : i <= j}
     IN UNION {{Put(rest, r, sorted[i]) : rest \in Rest(i)} : i \in first}]]

\* The search for the last k requirements, depth first.
AllocateCTestResources(needs) ==
  LET order == NeedsSorted(needs)
      search[k \in 0 .. Len(needs)] ==
        IF k = 0 THEN [free \in [Unit -> Int] |-> [sorted \in Seq(Unit) |-> {<<>>}]]
        ELSE LET r == order[Len(needs) - k + 1] IN Place(r, needs[r], search[k - 1])
  IN search

Packing(free, needs) == AllocateCTestResources(needs)[Len(needs)][free][InitialSort(free)]

-----------------------------------------------------------------------------
\* AllocateResource for the first k requirements, one after the other; one that
\* does not fit is refused and changes nothing.
AllocateEach(lock, needs, units) ==
  LET after[k \in 0 .. Len(needs)] ==
        IF k = 0 THEN [lock |-> lock, refused |-> FALSE]
        ELSE LET before == after[k - 1]
             IN IF before.lock[units[k]] + needs[k] <= Total[units[k]]
                THEN [before EXCEPT !.lock[units[k]] = @ + needs[k]]
                ELSE [before EXCEPT !.refused = TRUE]
  IN after

\* DeallocateResource likewise.
DeallocateEach(lock, needs, units) ==
  LET after[k \in 0 .. Len(needs)] ==
        IF k = 0 THEN [lock |-> lock, refused |-> FALSE]
        ELSE LET before == after[k - 1]
             IN IF before.lock[units[k]] >= needs[k]
                THEN [before EXCEPT !.lock[units[k]] = @ - needs[k]]
                ELSE [before EXCEPT !.refused = TRUE]
  IN after

Init ==
  /\ strategy \in Strategies
  /\ locked = [u \in Unit |-> 0]
  /\ held = <<>>
  /\ refused = FALSE

\* AllocateResources of a test, which is about to start.
Allocate(t) ==
  /\ t \notin DOMAIN held
  /\ Cardinality(DOMAIN held) < MaxGrants
  /\ \E units \in Packing(Free, Needs[t]) :
       LET after == AllocateEach(locked, Needs[t], units)[Len(Needs[t])]
       IN /\ locked' = after.lock
          /\ refused' = after.refused
          /\ held' = Put(held, t, units)
  /\ UNCHANGED strategy

\* DeallocateResources of a test, which has ended.
Deallocate(t) ==
  LET after == DeallocateEach(locked, Needs[t], held[t])[Len(Needs[t])]
  IN /\ t \in DOMAIN held
     /\ locked' = after.lock
     /\ refused' = after.refused
     /\ held' = [s \in DOMAIN held \ {t} |-> held[s]]
     /\ UNCHANGED strategy

Next == \E t \in Test : Allocate(t) \/ Deallocate(t)

Spec == Init /\ [][Next]_vars

-----------------------------------------------------------------------------
(* Properties. *)

TypeOK ==
  /\ strategy \in Strategies
  /\ locked \in [Unit -> Nat]
  /\ DOMAIN held \subseteq Test
  /\ \A t \in DOMAIN held : held[t] \in [DOMAIN Needs[t] -> Unit]
  /\ refused \in BOOLEAN

\* The slots that a choice of units takes from unit u, each by its requirement
\* and its number there.
Taken(needs, units, u) ==
  UNION {{i} \X (1 .. needs[i]) : i \in {j \in DOMAIN units : units[j] = u}}

\* The slots of unit u that the tests hold.
Held(u) == UNION {{t} \X Taken(Needs[t], held[t], u) : t \in DOMAIN held}

\* It takes no more than the free slots of any unit.
Fits(free, needs, units) ==
  \A u \in Unit : Cardinality(Taken(needs, units, u)) <= free[u]

\* Some choice of units fits, whatever search would find it.
Possible(free, needs) == \E units \in [DOMAIN needs -> Unit] : Fits(free, needs, units)

\* The counters of the allocator say what the tests hold, and no unit is given
\* to more of them than it has slots for: what NeverRefused rests on.
LockedExact == \A u \in Unit : locked[u] = Cardinality(Held(u)) /\ locked[u] <= Total[u]

\* Pruning and backtracking lose no solution: the packer finds units exactly
\* when there are some, whatever is locked already.
FindsPacking ==
  \A t \in Test : Packing(Free, Needs[t]) # {} <=> Possible(Free, Needs[t])

\* The asserts in AllocateResources and DeallocateResources: no single step is
\* refused after the packer has agreed, in whatever order grants come and go.
NeverRefused == ~refused
=============================================================================
