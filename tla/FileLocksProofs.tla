---------------------------- MODULE FileLocksProofs ----------------------------
(***************************************************************************)
(* Theorems about FileLocks, for every set of processes, files and names   *)
(* and every nesting of scopes.                                            *)
(***************************************************************************)
EXTENDS FileLocks, TLAPS

-----------------------------------------------------------------------------
(* Types. *)

\* Nothing is locked to begin with.
LEMMA TypeInit == Init => TypeOK
<1> SUFFICES ASSUME Init PROVE TypeOK
  OBVIOUS
<1>1. ProcessScope \in Seq(ScopeRecord)
  BY DEF ProcessScope, Scope, ScopeRecord
<1> QED BY <1>1 DEF Init, TypeOK

\* What the system drops leaves the owners well typed.
LEMMA DroppedType ==
  ASSUME TypeOK, NEW p \in Process, NEW files
  PROVE  Dropped(p, files) \in [File -> Process \cup {Nobody}]
BY DEF Dropped, TypeOK

\* The pool keeps a new lock in a scope that exists.
LEMMA ListedType ==
  ASSUME TypeOK, NEW p \in Process, NEW i \in DOMAIN scopes[p], NEW name \in Name
  PROVE  [scopes EXCEPT ![p][i] = With(scopes[p][i], name)] \in [Process -> Seq(ScopeRecord)]
<1>1. scopes[p] \in Seq(ScopeRecord) /\ scopes[p][i] \in ScopeRecord
  BY DEF TypeOK
<1>2. With(scopes[p][i], name) \in ScopeRecord
  BY <1>1 DEF ScopeRecord, With
<1> QED BY <1>1, <1>2 DEF TypeOK

LEMMA TypeNext == TypeOK /\ [Next]_vars => TypeOK'
<1> SUFFICES ASSUME TypeOK, [Next]_vars PROVE TypeOK'
  OBVIOUS
<1> USE FileLocksAssumption
<1>s. ProcessScope \in Seq(ScopeRecord)
  BY DEF ProcessScope, Scope, ScopeRecord
<1>1. ASSUME NEW p \in Process, Script(p) PROVE TypeOK'
  <2>1. CASE StartScript(p)
    BY <2>1 DEF StartScript, TypeOK
  <2>2. CASE \E kind \in {"function", "file"} : PushScope(p, kind)
    <3>1. PICK kind \in {"function", "file"} : PushScope(p, kind)
      BY <2>2
    <3>2. Scope(kind) \in ScopeRecord
      BY DEF Scope, ScopeRecord
    <3> QED BY <3>1, <3>2 DEF PushScope, TypeOK
  <2>3. CASE PopScope(p)
    <3>1. Front(scopes[p]) \in Seq(ScopeRecord)
      BY <2>3 DEF PopScope, TypeOK, Front
    <3> QED BY <2>3, <3>1, DroppedType DEF PopScope, TypeOK
  <2>4. CASE EndScript(p)
    BY <2>4, <1>s, DroppedType DEF EndScript, TypeOK
  <2>5. CASE Kill(p)
    BY <2>5, <1>s, DroppedType DEF Kill, TypeOK
  <2>6. CASE \E name \in Name, guard \in Guards, seconds \in Timeouts :
               LockCommand(p, name, guard, seconds)
    BY <2>6 DEF LockCommand, TypeOK, LockRequest
  <2> QED BY <1>1, <2>1, <2>2, <2>3, <2>4, <2>5, <2>6 DEF Script, Guards
<1>2. ASSUME NEW p \in Process, Command(p) PROVE TypeOK'
  <2>1. CASE CreateFile(p)
    BY <2>1, DroppedType DEF CreateFile, TypeOK
  <2>2. CASE CreateFails(p)
    BY <2>2 DEF CreateFails, TypeOK
  <2>3. CASE Release(p)
    <3> DEFINE s == [i \in DOMAIN scopes[p] |-> Without(scopes[p][i], request[p].name)]
    <3>1. s \in Seq(ScopeRecord)
      <4>1. scopes[p] \in Seq(ScopeRecord)
        BY DEF TypeOK
      <4>2. \A r \in ScopeRecord : Without(r, request[p].name) \in ScopeRecord
        BY DEF ScopeRecord, Without
      <4> QED BY <4>1, <4>2
    <3>2. scopes' = [scopes EXCEPT ![p] = s]
      BY <2>3 DEF Release
    <3> HIDE DEF s
    <3>3. scopes' \in [Process -> Seq(ScopeRecord)]
      BY <3>1, <3>2 DEF TypeOK
    <3>4. owner' \in [File -> Process \cup {Nobody}]
      BY <2>3, DroppedType DEF Release, TypeOK
    <3> QED BY <2>3, <3>3, <3>4 DEF Release, Succeeds, TypeOK
  <2>4. CASE PoolRefuses(p) \/ OpenFails(p) \/ TimedOut(p)
    BY <2>4 DEF PoolRefuses, OpenFails, TimedOut, Fails, TypeOK
  <2>5. CASE OpenFile(p)
    BY <2>5 DEF OpenFile, TypeOK
  <2>6. CASE Acquire(p)
    <3>1. PICK i \in DOMAIN scopes[p] :
            scopes' = [scopes EXCEPT ![p][i] = With(scopes[p][i], request[p].name)]
      BY <2>6 DEF Acquire
    <3>2. request[p].name \in Name
      BY <2>6 DEF Acquire, TypeOK, LockRequest
    <3>3. scopes' \in [Process -> Seq(ScopeRecord)]
      BY <3>1, <3>2, ListedType
    <3> QED BY <2>6, <3>3 DEF Acquire, Succeeds, TypeOK
  <2>7. CASE TryAgain(p)
    <3>1. request[p] \in LockRequest /\ request[p].seconds - 1 \in Nat
      BY <2>7 DEF TryAgain, TypeOK, LockRequest, Forever
    <3>2. [request[p] EXCEPT !.seconds = request[p].seconds - 1] \in LockRequest
      BY <3>1, Zenon DEF LockRequest
    <3>3. request' = [request EXCEPT ![p] = [request[p] EXCEPT !.seconds = request[p].seconds - 1]]
      BY <2>7, Zenon DEF TryAgain
    <3> QED BY <2>7, <3>2, <3>3 DEF TryAgain, TypeOK
  <2>8. CASE Wait(p)
    BY <2>8 DEF Wait, Fails, TypeOK
  <2> QED BY <1>2, <2>1, <2>2, <2>3, <2>4, <2>5, <2>6, <2>7, <2>8 DEF Command
<1> QED BY <1>1, <1>2 DEF Next, vars, TypeOK

-----------------------------------------------------------------------------
(* What a step of p leaves alone.                                          *)

\* The pools and commands of the other processes.
OthersKept(p) ==
  \A q \in Process \ {p} :
    scopes'[q] = scopes[q] /\ request'[q] = request[q] /\ pc'[q] = pc[q]

\* The locks of the other processes.
OwnersKept(p) ==
  \A f \in File : /\ owner[f] \notin {p, Nobody} => owner'[f] = owner[f]
                  /\ owner'[f] \in {owner[f], p, Nobody}

LEMMA OthersStep ==
  ASSUME TypeOK, NEW p \in Process, Script(p) \/ Command(p)
  PROVE  OthersKept(p)
<1>1. CASE Script(p)
  BY <1>1 DEF Script, StartScript, PushScope, PopScope, EndScript, Kill, LockCommand,
              OthersKept, TypeOK
<1>2. CASE Command(p)
  <2>1. CASE CreateFile(p) \/ CreateFails(p) \/ OpenFile(p) \/ TryAgain(p)
    BY <2>1 DEF CreateFile, CreateFails, OpenFile, TryAgain, OthersKept, TypeOK
  <2>2. CASE PoolRefuses(p) \/ OpenFails(p) \/ TimedOut(p) \/ Wait(p)
    BY <2>2 DEF PoolRefuses, OpenFails, TimedOut, Wait, Fails, OthersKept, TypeOK
  <2>3. CASE Release(p) \/ Acquire(p)
    BY <2>3 DEF Release, Acquire, Succeeds, OthersKept, TypeOK
  <2> QED BY <1>2, <2>1, <2>2, <2>3 DEF Command
<1> QED BY <1>1, <1>2

LEMMA OwnersStep ==
  ASSUME TypeOK, NEW p \in Process, Script(p) \/ Command(p)
  PROVE  OwnersKept(p)
<1>1. CASE Script(p)
  BY <1>1 DEF Script, StartScript, PushScope, PopScope, EndScript, Kill, LockCommand,
              OwnersKept, Dropped, TypeOK
<1>2. CASE Command(p)
  <2>1. CASE CreateFile(p) \/ CreateFails(p) \/ OpenFile(p) \/ TryAgain(p)
    BY <2>1 DEF CreateFile, CreateFails, OpenFile, TryAgain, OwnersKept, Dropped, TypeOK
  <2>2. CASE PoolRefuses(p) \/ OpenFails(p) \/ TimedOut(p) \/ Wait(p)
    BY <2>2 DEF PoolRefuses, OpenFails, TimedOut, Wait, Fails, OwnersKept
  <2>3. CASE Release(p)
    BY <2>3 DEF Release, OwnersKept, Dropped, TypeOK
  <2>4. CASE Acquire(p)
    BY <2>4 DEF Acquire, Taken, OwnersKept, TypeOK
  <2> QED BY <1>2, <2>1, <2>2, <2>3, <2>4 DEF Command
<1> QED BY <1>1, <1>2

-----------------------------------------------------------------------------
(* How the locks in the pool of p change.                                  *)

LEMMA PushLocks ==
  ASSUME TypeOK, NEW p \in Process, NEW kind \in {"function", "file"}, PushScope(p, kind)
  PROVE  /\ Len(scopes'[p]) = Len(scopes[p]) + 1 /\ DOMAIN scopes[p] = 1 .. Len(scopes[p])
         /\ \A i \in DOMAIN scopes[p] : scopes'[p][i] = scopes[p][i]
         /\ scopes'[p][Len(scopes'[p])].locks = {}
         /\ Locked(p)' = Locked(p)
<1> DEFINE n == Len(scopes[p])
<1>1. scopes[p] \in Seq(ScopeRecord) /\ scopes'[p] = Append(scopes[p], Scope(kind))
  BY DEF PushScope, TypeOK
<1>2. /\ Len(scopes'[p]) = n + 1 /\ DOMAIN scopes[p] = 1 .. n /\ n \in Nat
      /\ DOMAIN scopes'[p] = 1 .. n + 1
      /\ \A i \in 1 .. n : scopes'[p][i] = scopes[p][i]
      /\ scopes'[p][n + 1] = Scope(kind)
  <2>1. Scope(kind) \in ScopeRecord
    BY DEF Scope, ScopeRecord
  <2> QED BY <1>1, <2>1
<1>3. scopes'[p][n + 1].locks = {}
  BY <1>2 DEF Scope
<1>4. Locked(p)' = Locked(p)
  BY <1>2, <1>3 DEF Locked
<1> QED BY <1>2, <1>3, <1>4

LEMMA PopLocks ==
  ASSUME TypeOK, NEW p \in Process, PopScope(p)
  PROVE  /\ DOMAIN scopes'[p] = 1 .. Len(scopes[p]) - 1
         /\ \A i \in DOMAIN scopes'[p] :
              i \in DOMAIN scopes[p] /\ i # Len(scopes[p]) /\ scopes'[p][i] = scopes[p][i]
         /\ Len(scopes[p]) \in DOMAIN scopes[p]
         /\ Locked(p) = Locked(p)' \cup Last(scopes[p]).locks
<1>1. scopes[p] \in Seq(ScopeRecord) /\ Len(scopes[p]) > 1
  BY DEF PopScope, TypeOK
<1>2. scopes'[p] = SubSeq(scopes[p], 1, Len(scopes[p]) - 1)
  BY DEF PopScope, TypeOK, Front
<1>3. /\ DOMAIN scopes'[p] = 1 .. Len(scopes[p]) - 1
      /\ \A i \in DOMAIN scopes'[p] : scopes'[p][i] = scopes[p][i]
      /\ DOMAIN scopes[p] = 1 .. Len(scopes[p]) /\ Len(scopes[p]) \in Nat
  BY <1>1, <1>2
<1>4. Locked(p) = Locked(p)' \cup Last(scopes[p]).locks
  BY <1>1, <1>3 DEF Locked, Last
<1> QED BY <1>1, <1>3, <1>4

\* Destroying the only scope, or all of them, leaves the process scope without a
\* lock.
LEMMA EndLocks ==
  ASSUME TypeOK, NEW p \in Process, EndScript(p) \/ Kill(p)
  PROVE  Locked(p)' = {} /\ \A i \in DOMAIN scopes'[p] : scopes'[p][i].locks = {}
<1>1. scopes'[p] = ProcessScope
  BY DEF EndScript, Kill, TypeOK
<1>2. \A i \in DOMAIN scopes'[p] : scopes'[p][i].locks = {}
  BY <1>1 DEF ProcessScope, Scope
<1> QED BY <1>2 DEF Locked

LEMMA ReleaseLocks ==
  ASSUME TypeOK, NEW p \in Process, Release(p)
  PROVE  /\ DOMAIN scopes'[p] = DOMAIN scopes[p]
         /\ \A i \in DOMAIN scopes[p] :
              scopes'[p][i].locks = scopes[p][i].locks \ {request[p].name}
         /\ Locked(p)' = Locked(p) \ {request[p].name}
<1>1. scopes'[p] = [i \in DOMAIN scopes[p] |-> Without(scopes[p][i], request[p].name)]
  BY DEF Release, TypeOK
<1>2. \A i \in DOMAIN scopes[p] :
        scopes'[p][i].locks = scopes[p][i].locks \ {request[p].name}
  BY <1>1 DEF Without
<1>3. DOMAIN scopes'[p] = DOMAIN scopes[p]
  BY <1>1
<1> QED BY <1>2, <1>3 DEF Locked

LEMMA AcquireLocks ==
  ASSUME TypeOK, NEW p \in Process, Acquire(p)
  PROVE  \E i \in DOMAIN scopes[p] :
           /\ request[p].guard # "release"
           /\ DOMAIN scopes'[p] = DOMAIN scopes[p]
           /\ \A k \in DOMAIN scopes[p] : scopes'[p][k].locks =
                scopes[p][k].locks \cup (IF k = i THEN {request[p].name} ELSE {})
           /\ Locked(p)' = Locked(p) \cup {request[p].name}
<1>1. PICK i \in DOMAIN scopes[p] :
        /\ IsInnermost(p, request[p].guard, i)
        /\ scopes' = [scopes EXCEPT ![p][i] = With(scopes[p][i], request[p].name)]
  BY DEF Acquire
<1>2. scopes[p] \in Seq(ScopeRecord) /\ scopes[p][i] \in ScopeRecord
  BY DEF TypeOK
<1>3. request[p].guard # "release"
  BY <1>1, <1>2 DEF IsInnermost, ScopeRecord
<1>4. scopes'[p] = [scopes[p] EXCEPT ![i] = With(scopes[p][i], request[p].name)]
  BY <1>1 DEF TypeOK
<1>5. /\ DOMAIN scopes'[p] = DOMAIN scopes[p]
      /\ \A k \in DOMAIN scopes[p] : scopes'[p][k].locks =
           scopes[p][k].locks \cup (IF k = i THEN {request[p].name} ELSE {})
  BY <1>2, <1>4 DEF With
<1>6. Locked(p)' = Locked(p) \cup {request[p].name}
  BY <1>5 DEF Locked
<1> QED BY <1>3, <1>5, <1>6

-----------------------------------------------------------------------------
(* No lock outlives its scope.                                             *)

\* What p owns after a step of p is in its pool.
LEMMA OwnedStep ==
  ASSUME TypeOK, OwnedIsLocked, NEW p \in Process, Script(p) \/ Command(p),
         NEW f \in File, owner'[f] = p
  PROVE  f \in FilesOf(Locked(p)')
<1> USE FileLocksAssumption
<1>o. owner[f] = p => \E n \in Locked(p) : FileOf[n] = f
  BY DEF OwnedIsLocked, FilesOf
<1>1. CASE /\ owner'[f] = owner[f] /\ scopes' = scopes
  BY <1>1, <1>o DEF FilesOf, Locked
<1>2. CASE \E kind \in {"function", "file"} : PushScope(p, kind)
  <2>1. Locked(p)' = Locked(p) /\ owner' = owner
    BY <1>2, PushLocks DEF PushScope
  <2> QED BY <2>1, <1>o DEF FilesOf
<1>3. CASE PopScope(p)
  <2>1. owner[f] = p /\ f \notin FilesOf(Last(scopes[p]).locks)
    BY <1>3 DEF PopScope, Dropped, TypeOK
  <2>2. Locked(p) = Locked(p)' \cup Last(scopes[p]).locks
    BY <1>3, PopLocks
  <2> QED BY <2>1, <2>2, <1>o DEF FilesOf
<1>4. CASE EndScript(p)
  <2>1. owner[f] = p /\ f \notin FilesOf(Last(scopes[p]).locks)
    BY <1>4 DEF EndScript, Dropped, TypeOK
  <2>2. Locked(p) = Last(scopes[p]).locks
    BY <1>4 DEF EndScript, Locked, Last, TypeOK
  <2> QED BY <2>1, <2>2, <1>o DEF FilesOf
<1>5. CASE Kill(p)
  BY <1>5 DEF Kill, Dropped, TypeOK
<1>6. CASE CreateFile(p)
  <2>1. owner[f] = p /\ scopes' = scopes
    BY <1>6 DEF CreateFile, Dropped, TypeOK
  <2> QED BY <2>1, <1>1
<1>7. CASE Release(p)
  <2>1. Locked(p)' = Locked(p) \ {request[p].name}
    BY <1>7, ReleaseLocks
  <2>2. owner[f] = p /\ (request[p].name \in Locked(p) => f # FileOf[request[p].name])
    BY <1>7 DEF Release, Dropped, TypeOK
  <2> QED BY <2>1, <2>2, <1>o DEF FilesOf
<1>8. CASE Acquire(p)
  <2>1. Locked(p)' = Locked(p) \cup {request[p].name}
    BY <1>8, AcquireLocks
  <2>2. owner[f] = p \/ f = FileOf[request[p].name]
    BY <1>8 DEF Acquire, Wanted, TypeOK
  <2> QED BY <2>1, <2>2, <1>o DEF FilesOf
<1> QED
  <2>1. CASE Script(p)
    BY <2>1, <1>1, <1>2, <1>3, <1>4, <1>5 DEF Script, StartScript, LockCommand
  <2>2. CASE Command(p)
    BY <2>2, <1>1, <1>6, <1>7, <1>8
    DEF Command, CreateFails, PoolRefuses, OpenFile, OpenFails, TryAgain, TimedOut, Wait, Fails
  <2> QED BY <2>1, <2>2

LEMMA OwnedNext == TypeOK /\ OwnedIsLocked /\ [Next]_vars => OwnedIsLocked'
<1> SUFFICES ASSUME TypeOK, OwnedIsLocked, [Next]_vars PROVE OwnedIsLocked'
  OBVIOUS
<1>1. CASE UNCHANGED vars
  BY <1>1 DEF vars, OwnedIsLocked, FilesOf, Locked
<1>2. ASSUME NEW p \in Process, Script(p) \/ Command(p) PROVE OwnedIsLocked'
  <2> SUFFICES ASSUME NEW f \in File, owner'[f] # Nobody
               PROVE  f \in FilesOf(Locked(owner[f]))'
    BY DEF OwnedIsLocked
  <2>1. CASE owner'[f] = p
    BY <1>2, <2>1, OwnedStep DEF FilesOf
  <2>2. CASE owner'[f] # p
    <3>1. owner'[f] = owner[f] /\ owner[f] \in Process \ {p}
      BY <1>2, <2>2, OwnersStep DEF OwnersKept, TypeOK
    <3>2. scopes'[owner[f]] = scopes[owner[f]]
      BY <1>2, <3>1, OthersStep DEF OthersKept
    <3>3. f \in FilesOf(Locked(owner[f]))
      BY <3>1 DEF OwnedIsLocked
    <3> QED BY <3>1, <3>2, <3>3 DEF FilesOf, Locked
  <2> QED BY <2>1, <2>2
<1> QED BY <1>1, <1>2 DEF Next

-----------------------------------------------------------------------------
(* No lock is lost before its scope ends.                                  *)

\* A pool has at most one lock of a file.
Separate(p) ==
  \A i, j \in DOMAIN scopes[p] :
    \A m \in scopes[p][i].locks, n \in scopes[p][j].locks :
      FileOf[m] = FileOf[n] => i = j /\ m = n

\* The command that p executes is a careful one.
CarefulRequest(p) ==
  pc[p] \in {"create", "pool", "try", "wait"} => Careful(p, request[p].name, request[p].guard)

Invariant == LockedIsOwned /\ \A p \in Process : Separate(p) /\ CarefulRequest(p)

LEMMA SeparateStep ==
  ASSUME TypeOK, NEW p \in Process, Separate(p), CarefulRequest(p), Script(p) \/ Command(p)
  PROVE  Separate(p)'
<1>1. CASE scopes' = scopes
  BY <1>1 DEF Separate
<1>2. CASE \E kind \in {"function", "file"} : PushScope(p, kind)
  <2>1. PICK kind \in {"function", "file"} : PushScope(p, kind)
    BY <1>2
  <2>2. /\ \A i \in DOMAIN scopes[p] : scopes'[p][i] = scopes[p][i]
        /\ scopes'[p][Len(scopes'[p])].locks = {}
        /\ \A i \in DOMAIN scopes'[p] : i \in DOMAIN scopes[p] \/ i = Len(scopes'[p])
    <3>1. scopes'[p] \in Seq(ScopeRecord)
      BY TypeNext DEF Next, TypeOK
    <3> QED BY <2>1, <3>1, PushLocks
  <2> QED BY <2>2 DEF Separate
<1>3. CASE PopScope(p)
  BY <1>3, PopLocks DEF Separate
<1>4. CASE EndScript(p) \/ Kill(p)
  BY <1>4, EndLocks DEF Separate
<1>5. CASE Release(p)
  BY <1>5, ReleaseLocks DEF Separate
<1>6. CASE Acquire(p)
  <2>1. PICK i \in DOMAIN scopes[p] :
          /\ request[p].guard # "release"
          /\ DOMAIN scopes'[p] = DOMAIN scopes[p]
          /\ \A k \in DOMAIN scopes[p] : scopes'[p][k].locks =
               scopes[p][k].locks \cup (IF k = i THEN {request[p].name} ELSE {})
    BY <1>6, AcquireLocks
  <2>2. \A n \in Locked(p) : FileOf[n] # FileOf[request[p].name]
    BY <1>6, <2>1 DEF Acquire, CarefulRequest, Careful
  <2>3. \A k \in DOMAIN scopes[p] : scopes[p][k].locks \subseteq Locked(p)
    BY DEF Locked
  <2> QED BY <2>1, <2>2, <2>3 DEF Separate
<1> QED
  <2>1. CASE Script(p)
    BY <2>1, <1>1, <1>2, <1>3, <1>4 DEF Script, StartScript, LockCommand
  <2>2. CASE Command(p)
    BY <2>2, <1>1, <1>5, <1>6
    DEF Command, CreateFile, CreateFails, PoolRefuses, OpenFile, OpenFails, TryAgain,
        TimedOut, Wait, Fails
  <2> QED BY <2>1, <2>2

LEMMA CarefulStep ==
  ASSUME ~LockTwice, TypeOK, NEW p \in Process, CarefulRequest(p), Script(p) \/ Command(p)
  PROVE  CarefulRequest(p)'
<1>1. CASE pc'[p] \in {"ended", "script", "fatal"}
  BY <1>1 DEF CarefulRequest
<1>2. CASE \E name \in Name, guard \in Guards, seconds \in Timeouts :
             LockCommand(p, name, guard, seconds)
  <2>1. PICK name \in Name, guard \in Guards, seconds \in Timeouts :
               LockCommand(p, name, guard, seconds)
    BY <1>2
  <2>2. request'[p].name = name /\ request'[p].guard = guard /\ Careful(p, name, guard)'
    BY <2>1 DEF LockCommand, Careful, Locked, TypeOK
  <2> QED BY <2>2 DEF CarefulRequest, Careful, Locked
<1>3. CASE /\ pc[p] \in {"create", "pool", "try", "wait"} /\ scopes' = scopes
           /\ request'[p].name = request[p].name /\ request'[p].guard = request[p].guard
  BY <1>3 DEF CarefulRequest, Careful, Locked
<1> QED
  <2>1. CASE Script(p)
    <3>1. CASE \E kind \in {"function", "file"} : PushScope(p, kind)
      BY <3>1, <1>1 DEF PushScope
    <3>2. CASE StartScript(p) \/ PopScope(p) \/ EndScript(p) \/ Kill(p)
      BY <3>2, <1>1 DEF StartScript, PopScope, EndScript, Kill, TypeOK
    <3> QED BY <2>1, <3>1, <3>2, <1>2 DEF Script, Guards
  <2>2. CASE CreateFile(p) \/ OpenFile(p)
    BY <2>2, <1>3 DEF CreateFile, OpenFile
  <2>3. CASE TryAgain(p)
    <3>1. request'[p] = [request[p] EXCEPT !.seconds = request[p].seconds - 1]
      BY <2>3 DEF TryAgain, TypeOK
    <3>2. request[p] \in LockRequest
      BY <2>3 DEF TryAgain, TypeOK
    <3>3. request'[p].name = request[p].name /\ request'[p].guard = request[p].guard
      BY <3>1, <3>2 DEF LockRequest
    <3> QED BY <2>3, <3>3, <1>3 DEF TryAgain
  <2>4. CASE Wait(p)
    BY <2>4, <1>1, <1>3 DEF Wait, Fails, TypeOK
  <2>5. CASE CreateFails(p) \/ PoolRefuses(p) \/ OpenFails(p) \/ TimedOut(p)
    BY <2>5, <1>1 DEF CreateFails, PoolRefuses, OpenFails, TimedOut, Fails, TypeOK
  <2>6. CASE Release(p) \/ Acquire(p)
    BY <2>6, <1>1 DEF Release, Acquire, Succeeds, TypeOK
  <2> QED BY <2>1, <2>2, <2>3, <2>4, <2>5, <2>6 DEF Command

LEMMA LockedNames ==
  ASSUME TypeOK, NEW p \in Process
  PROVE  Locked(p) \subseteq Name
<1>1. \A i \in DOMAIN scopes[p] : scopes[p][i] \in ScopeRecord
  BY DEF TypeOK
<1>2. \A i \in DOMAIN scopes[p] : scopes[p][i].locks \subseteq Name
  BY <1>1 DEF ScopeRecord
<1> QED BY <1>2 DEF Locked

\* What p keeps locked after a step of p is p's.
LEMMA KeptStep ==
  ASSUME TypeOK, LockedIsOwned, NEW p \in Process, Separate(p), CarefulRequest(p),
         Script(p) \/ Command(p), NEW n \in Kept(p)'
  PROVE  owner'[FileOf[n]] = p
<1> USE FileLocksAssumption
<1>l. n \in Locked(p)'
  BY DEF Kept
<1>o. n \in Kept(p) => n \in Name /\ FileOf[n] \in File /\ owner[FileOf[n]] = p
  BY LockedNames DEF LockedIsOwned, Kept
<1>1. CASE owner' = owner /\ n \in Kept(p)
  BY <1>1, <1>o
<1>2. CASE Script(p)
  <2>1. CASE \E kind \in {"function", "file"} : PushScope(p, kind)
    BY <2>1, <1>l, <1>1, PushLocks DEF PushScope, Kept
  <2>2. CASE PopScope(p)
    <3>1. n \in Kept(p)
      BY <2>2, <1>l, PopLocks DEF PopScope, Kept
    <3>2. FileOf[n] \notin FilesOf(Last(scopes[p]).locks)
      <4>1. PICK i \in DOMAIN scopes'[p] : n \in scopes'[p][i].locks
        BY <1>l DEF Locked
      <4>2. /\ i \in DOMAIN scopes[p] /\ Len(scopes[p]) \in DOMAIN scopes[p]
            /\ i # Len(scopes[p]) /\ n \in scopes[p][i].locks
        BY <2>2, <4>1, PopLocks
      <4> QED BY <4>2 DEF Separate, FilesOf, Last
    <3> QED BY <2>2, <3>1, <3>2, <1>o DEF PopScope, Dropped
  <2>3. CASE EndScript(p) \/ Kill(p)
    BY <2>3, <1>l, EndLocks
  <2>4. CASE StartScript(p)
    BY <2>4, <1>l, <1>1 DEF StartScript, Kept, Locked
  <2>5. CASE \E name \in Name, guard \in Guards, seconds \in Timeouts :
               LockCommand(p, name, guard, seconds)
    BY <2>5, <1>l, <1>1 DEF LockCommand, Kept, Locked
  <2> QED BY <1>2, <2>1, <2>2, <2>3, <2>4, <2>5 DEF Script, Guards
<1>3. CASE CreateFile(p)
  <2>1. n \in Locked(p) /\ n \in Kept(p)
    BY <1>3, <1>l DEF CreateFile, Locked, Kept
  <2>2. FileOf[n] # FileOf[request[p].name]
    <3>1. SUFFICES ASSUME FileOf[n] = FileOf[request[p].name] PROVE FALSE
      OBVIOUS
    <3>2. request[p].guard = "release" /\ n = request[p].name
      BY <1>3, <2>1, <3>1 DEF CreateFile, CarefulRequest, Careful
    <3>3. pc'[p] = "pool" /\ request' = request
      BY <1>3 DEF CreateFile, TypeOK
    <3> QED BY <3>2, <3>3 DEF Kept
  <2> QED BY <1>3, <2>1, <2>2, <1>o DEF CreateFile, Dropped
<1>4. CASE Release(p)
  <2>1. n \in Locked(p) /\ n # request[p].name
    BY <1>4, <1>l, ReleaseLocks
  <2>2. n \in Kept(p) /\ FileOf[n] # FileOf[request[p].name]
    BY <1>4, <2>1 DEF Release, CarefulRequest, Careful, Kept
  <2> QED BY <1>4, <2>2, <1>o DEF Release, Dropped
<1>5. CASE Acquire(p)
  <2>1. n \in Locked(p) \/ n = request[p].name
    BY <1>5, <1>l, AcquireLocks
  <2>2. CASE n \in Locked(p)
    BY <1>5, <2>2, <1>o DEF Acquire, Wanted, Kept, TypeOK
  <2>3. CASE n = request[p].name
    <3>1. FileOf[n] \in File
      BY <1>5, <2>3 DEF Acquire, TypeOK, LockRequest
    <3> QED BY <1>5, <2>3, <3>1 DEF Acquire, Wanted, TypeOK
  <2> QED BY <2>1, <2>2, <2>3
<1>6. CASE CreateFails(p) \/ PoolRefuses(p) \/ OpenFile(p) \/ OpenFails(p)
             \/ TryAgain(p) \/ TimedOut(p) \/ Wait(p)
  <2>1. owner' = owner /\ scopes' = scopes
    BY <1>6 DEF CreateFails, PoolRefuses, OpenFile, OpenFails, TryAgain, TimedOut, Wait, Fails
  <2>2. ~(pc[p] = "pool" /\ request[p].guard = "release")
    BY <1>6 DEF CreateFails, PoolRefuses, OpenFile, OpenFails, TryAgain, TimedOut, Wait
  <2> QED BY <2>1, <2>2, <1>l, <1>1 DEF Kept, Locked
<1> QED BY <1>2, <1>3, <1>4, <1>5, <1>6 DEF Command

LEMMA InvariantNext ==
  ASSUME ~LockTwice, TypeOK, Invariant, [Next]_vars
  PROVE  Invariant'
<1>1. CASE UNCHANGED vars
  BY <1>1 DEF vars, Invariant, LockedIsOwned, Kept, Locked, Separate, CarefulRequest, Careful
<1>2. ASSUME NEW p \in Process, Script(p) \/ Command(p) PROVE Invariant'
  <2>1. ASSUME NEW q \in Process PROVE Separate(q)' /\ CarefulRequest(q)'
    <3>1. CASE q = p
      BY <1>2, <3>1, SeparateStep, CarefulStep DEF Invariant
    <3>2. CASE q # p
      BY <1>2, <3>2, OthersStep
      DEF OthersKept, Invariant, Separate, CarefulRequest, Careful, Locked
    <3> QED BY <3>1, <3>2
  <2>2. ASSUME NEW q \in Process, NEW n \in Kept(q)' PROVE owner'[FileOf[n]] = q
    <3>1. CASE q = p
      BY <1>2, <2>2, <3>1, KeptStep DEF Invariant
    <3>2. CASE q # p
      <4>1. n \in Kept(q) /\ FileOf[n] \in File
        BY <1>2, <2>2, <3>2, OthersStep, LockedNames, FileLocksAssumption
        DEF OthersKept, Kept, Locked
      <4>2. owner[FileOf[n]] = q
        BY <4>1 DEF Invariant, LockedIsOwned
      <4> QED BY <1>2, <3>2, <4>1, <4>2, OwnersStep, FileLocksAssumption DEF OwnersKept
    <3> QED BY <3>1, <3>2
  <2> QED BY <2>1, <2>2 DEF Invariant, LockedIsOwned
<1> QED BY <1>1, <1>2 DEF Next

LEMMA InvariantInit == Init => Invariant /\ OwnedIsLocked
<1> SUFFICES ASSUME Init PROVE Invariant /\ OwnedIsLocked
  OBVIOUS
<1>1. \A p \in Process : \A i \in DOMAIN scopes[p] : scopes[p][i].locks = {}
  BY DEF Init, ProcessScope, Scope
<1>2. \A p \in Process : Separate(p) /\ CarefulRequest(p) /\ Kept(p) = {}
  BY <1>1 DEF Init, Separate, CarefulRequest, Kept, Locked
<1> QED BY <1>2 DEF Init, Invariant, LockedIsOwned, OwnedIsLocked

-----------------------------------------------------------------------------
(* The theorems.                                                           *)

\* The pools, the owners and the commands keep their types; a process is inside
\* HandleLockCommand only with a request.
THEOREM FileLocksType == Spec => []TypeOK
BY TypeInit, TypeNext, PTL DEF Spec

\* What a process owns is listed in its pool, whatever scripts do and however
\* scopes and processes end, fatal errors and files locked twice included.
THEOREM OwnedTheorem == Spec => []OwnedIsLocked
<1>1. Init => OwnedIsLocked
  BY InvariantInit
<1>2. TypeOK /\ OwnedIsLocked /\ [Next]_vars => OwnedIsLocked'
  BY OwnedNext
<1> QED BY <1>1, <1>2, FileLocksType, PTL DEF Spec

\* If no script locks a file that it has locked already, every lock in a pool is
\* held until its scope ends, whatever happens in between.
THEOREM LockedTheorem ==
  ASSUME ~LockTwice
  PROVE  Spec => []LockedIsOwned
<1>1. Init => Invariant
  BY InvariantInit
<1>2. TypeOK /\ Invariant /\ [Next]_vars => Invariant'
  BY InvariantNext
<1>3. Invariant => LockedIsOwned
  BY DEF Invariant
<1> QED BY <1>1, <1>2, <1>3, FileLocksType, PTL DEF Spec

\* Then a file is never in the pools of two processes: the lock excludes.
THEOREM ExclusiveTheorem ==
  ASSUME ~LockTwice
  PROVE  Spec => []Exclusive
<1>1. LockedIsOwned => Exclusive
  BY DEF LockedIsOwned, Exclusive, FilesOf
<1> QED BY <1>1, LockedTheorem, PTL
=============================================================================
