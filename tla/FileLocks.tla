------------------------------- MODULE FileLocks ------------------------------
(***************************************************************************)
(* file(LOCK) of several CMake processes: HandleLockCommand, the scopes of *)
(* cmFileLockPool and the advisory locks of cmFileLock.  Names of a file   *)
(* can differ (links).  The operating system keeps one owner per file and  *)
(* forgets it as soon as the owner closes any descriptor of the file.      *)
(***************************************************************************)
EXTENDS Integers, Sequences, SequencesExt

CONSTANTS
  Process, File,
  Name,        \* collapsed full paths, as file(LOCK) sees them
  FileOf,      \* the file behind each name
  Nobody,      \* no process owns the file
  NoRequest,   \* no file(LOCK) is being executed
  Timeouts,    \* the TIMEOUT values that the scripts use
  MaxScopes,   \* bound on the nesting of functions and directories of each process
  LockTwice    \* may a script lock a file that it has locked already?

Forever == -1  \* the command has no TIMEOUT

ASSUME FileLocksAssumption ==
  /\ FileOf \in [Name -> File] /\ Nobody \notin Process
  /\ Timeouts \subseteq Nat \cup {Forever} /\ MaxScopes \in [Process -> Nat]
  /\ LockTwice \in BOOLEAN

VARIABLES
  owner,    \* the operating system's: the process that has each file locked
  scopes,   \* of each process: its pool, the process scope first
  request,  \* the file(LOCK) that it executes
  pc

vars == <<owner, scopes, request, pc>>

Scope(kind) == [kind |-> kind, locks |-> {}]
ProcessScope == <<Scope("process")>>
With(scope, name) == [kind |-> scope.kind, locks |-> scope.locks \cup {name}]
Without(scope, name) == [kind |-> scope.kind, locks |-> scope.locks \ {name}]

\* IsAlreadyLocked looks for the name in every scope.
Locked(p) == UNION {scopes[p][i].locks : i \in DOMAIN scopes[p]}

\* The innermost scope of a kind (functionScopes.back(), fileScopes.back()).
IsInnermost(p, kind, i) ==
  /\ i \in DOMAIN scopes[p] /\ scopes[p][i].kind = kind
  /\ \A k \in DOMAIN scopes[p] : k > i => scopes[p][k].kind # kind

HasScope(p, kind) == \E i \in DOMAIN scopes[p] : scopes[p][i].kind = kind

\* What the operating system does when p unlocks files or closes them.
Dropped(p, files) == [f \in File |-> IF f \in files /\ owner[f] = p THEN Nobody ELSE owner[f]]

FilesOf(names) == {FileOf[n] : n \in names}

-----------------------------------------------------------------------------
(* Scripts: functions and directories that are entered and left. *)

PushScope(p, kind) ==
  /\ pc[p] = "script" /\ Len(scopes[p]) < MaxScopes[p]
  /\ scopes' = [scopes EXCEPT ![p] = Append(@, Scope(kind))]
  /\ UNCHANGED <<owner, request, pc>>

PopScope_Forget(p) ==
  /\ pc[p] \in {"script", "fatal"} /\ Len(scopes[p]) > 1
  /\ scopes' = [scopes EXCEPT ![p] = Front(@)]
  /\ UNCHANGED <<owner, request, pc>>

\* The locks of the scope are destroyed with it, also after a fatal error.
PopScope(p) ==
  /\ pc[p] \in {"script", "fatal"} /\ Len(scopes[p]) > 1
  /\ owner' = Dropped(p, FilesOf(Last(scopes[p]).locks))
  /\ scopes' = [scopes EXCEPT ![p] = Front(@)]
  /\ UNCHANGED <<request, pc>>

EndScript(p) ==
  /\ pc[p] \in {"script", "fatal"} /\ Len(scopes[p]) = 1
  /\ owner' = Dropped(p, FilesOf(Last(scopes[p]).locks))
  /\ scopes' = [scopes EXCEPT ![p] = ProcessScope]
  /\ pc' = [pc EXCEPT ![p] = "ended"]
  /\ UNCHANGED request

\* At any time; the system closes all files of the process.
Kill(p) ==
  /\ pc[p] # "ended"
  /\ owner' = Dropped(p, File)
  /\ scopes' = [scopes EXCEPT ![p] = ProcessScope]
  /\ request' = [request EXCEPT ![p] = NoRequest]
  /\ pc' = [pc EXCEPT ![p] = "ended"]

StartScript(p) ==
  /\ pc[p] = "ended"
  /\ pc' = [pc EXCEPT ![p] = "script"]
  /\ UNCHANGED <<owner, scopes, request>>

-----------------------------------------------------------------------------
(* HandleLockCommand. *)

\* A careful script locks a file once, and releases it by the same name.
Careful(p, name, guard) ==
  \A n \in Locked(p) : FileOf[n] = FileOf[name] => guard = "release" /\ n = name

LockCommand(p, name, guard, seconds) ==
  /\ pc[p] = "script"
  /\ LockTwice \/ Careful(p, name, guard)
  /\ guard = "file" => HasScope(p, "file")
  /\ guard = "release" => seconds = Forever
  /\ request' = [request EXCEPT ![p] = [name |-> name, guard |-> guard, seconds |-> seconds]]
  /\ pc' = [pc EXCEPT ![p] = "create"]
  /\ UNCHANGED <<owner, scopes>>

\* The file is opened for writing and closed again, before the pool is asked.
CreateFile(p) ==
  /\ pc[p] = "create"
  /\ owner' = Dropped(p, {FileOf[request[p].name]})
  /\ pc' = [pc EXCEPT ![p] = "pool"]
  /\ UNCHANGED <<scopes, request>>

CreateFails(p) ==
  /\ pc[p] = "create"
  /\ request' = [request EXCEPT ![p] = NoRequest]
  /\ pc' = [pc EXCEPT ![p] = "fatal"]
  /\ UNCHANGED <<owner, scopes>>

Succeeds(p) ==
  /\ request' = [request EXCEPT ![p] = NoRequest]
  /\ pc' = [pc EXCEPT ![p] = "script"]

\* Any error is fatal without a RESULT_VARIABLE.
Fails(p) ==
  /\ request' = [request EXCEPT ![p] = NoRequest]
  /\ \E next \in {"script", "fatal"} : pc' = [pc EXCEPT ![p] = next]
  /\ UNCHANGED <<owner, scopes>>

Release(p) ==
  /\ pc[p] = "pool" /\ request[p].guard = "release"
  /\ LET name == request[p].name
     IN /\ owner' = IF name \in Locked(p) THEN Dropped(p, {FileOf[name]}) ELSE owner
        /\ scopes' = [scopes EXCEPT ![p] =
             [i \in DOMAIN scopes[p] |-> Without(scopes[p][i], name)]]
  /\ Succeeds(p)

Refused(p) == request[p].name \in Locked(p) \/ ~HasScope(p, request[p].guard)

PoolRefuses(p) ==
  /\ pc[p] = "pool" /\ request[p].guard # "release" /\ Refused(p)
  /\ Fails(p)

OpenFile(p) ==
  /\ pc[p] = "pool" /\ request[p].guard # "release" /\ ~Refused(p)
  /\ pc' = [pc EXCEPT ![p] = "try"]
  /\ UNCHANGED <<owner, scopes, request>>

OpenFails(p) ==
  /\ pc[p] = "pool" /\ request[p].guard # "release" /\ ~Refused(p)
  /\ Fails(p)

Wanted(p) == FileOf[request[p].name]
Taken(p) == owner[Wanted(p)] \notin {p, Nobody}

\* LockWithTimeout and LockWithoutTimeout get the lock, which the pool keeps.
Acquire(p) ==
  /\ pc[p] \in {"try", "wait"} /\ ~Taken(p)
  /\ owner' = [owner EXCEPT ![Wanted(p)] = p]
  /\ \E i \in DOMAIN scopes[p] :
       /\ IsInnermost(p, request[p].guard, i)
       /\ scopes' = [scopes EXCEPT ![p][i] = With(scopes[p][i], request[p].name)]
  /\ Succeeds(p)

TryAgain_SameTime(p) ==
  /\ pc[p] = "try" /\ Taken(p) /\ request[p].seconds > 0
  /\ UNCHANGED vars

\* LockWithTimeout: another attempt after a second.
TryAgain(p) ==
  /\ pc[p] = "try" /\ Taken(p) /\ request[p].seconds > 0
  /\ request' = [request EXCEPT ![p].seconds = @ - 1]
  /\ UNCHANGED <<owner, scopes, pc>>

TimedOut_Listed(p) ==
  /\ pc[p] = "try" /\ Taken(p) /\ request[p].seconds = 0
  /\ scopes' = [scopes EXCEPT ![p][1] = With(@, request[p].name)]
  /\ Succeeds(p)
  /\ UNCHANGED owner

TimedOut(p) ==
  /\ pc[p] = "try" /\ Taken(p) /\ request[p].seconds = 0
  /\ Fails(p)

\* The system refuses to wait when the owner waits, maybe through others, for p.
WouldDeadlock(p) ==
  \A S \in SUBSET Process :
    (/\ owner[Wanted(p)] \in S
     /\ \A q \in S : pc[q] = "wait" /\ Taken(q) => owner[Wanted(q)] \in S)
    => p \in S

Wait(p) ==
  /\ pc[p] = "try" /\ Taken(p) /\ request[p].seconds = Forever
  /\ IF WouldDeadlock(p) THEN Fails(p)
     ELSE pc' = [pc EXCEPT ![p] = "wait"] /\ UNCHANGED <<owner, scopes, request>>

-----------------------------------------------------------------------------
Init ==
  /\ owner = [f \in File |-> Nobody]
  /\ scopes = [p \in Process |-> ProcessScope]
  /\ request = [p \in Process |-> NoRequest]
  /\ pc = [p \in Process |-> "ended"]

Script(p) ==
  \/ StartScript(p) \/ \E kind \in {"function", "file"} : PushScope(p, kind)
  \/ PopScope(p) \/ EndScript(p) \/ Kill(p)
  \/ \E name \in Name, guard \in {"function", "file", "process", "release"},
        seconds \in Timeouts : LockCommand(p, name, guard, seconds)

Command(p) ==
  \/ CreateFile(p) \/ CreateFails(p) \/ Release(p) \/ PoolRefuses(p)
  \/ OpenFile(p) \/ OpenFails(p) \/ Acquire(p) \/ TryAgain(p) \/ TimedOut(p) \/ Wait(p)

Next == \E p \in Process : Script(p) \/ Command(p)

Spec == Init /\ [][Next]_vars

\* A running process goes on with its command.  Nothing is assumed of scripts:
\* one may keep its locks forever.
FairSpec == Spec /\ \A p \in Process : WF_vars(Command(p))

-----------------------------------------------------------------------------
(* Properties. *)

Guards == {"function", "file", "process", "release"}
ScopeRecord == [kind : {"function", "file", "process"}, locks : SUBSET Name]
LockRequest == [name : Name, guard : Guards, seconds : Timeouts \cup Nat]

\* The type invariant: the pools, the system's owners and the commands; a process
\* is inside HandleLockCommand only with a request.
TypeOK ==
  /\ owner \in [File -> Process \cup {Nobody}]
  /\ scopes \in [Process -> Seq(ScopeRecord)]
  /\ request \in [Process -> LockRequest \cup {NoRequest}]
  /\ pc \in [Process -> {"ended", "script", "create", "pool", "try", "wait", "fatal"}]
  /\ \A p \in Process : pc[p] \in {"create", "pool", "try", "wait"} => request[p] \in LockRequest

\* The locks in the pool of p, but for one that p is about to release.
Kept(p) ==
  {n \in Locked(p) :
    ~(pc[p] = "pool" /\ request[p].guard = "release" /\ request[p].name = n)}

\* A process owns every file that its pool keeps locked: whatever other locks it
\* takes, releases or fails to get, and whichever scopes end, no lock is lost
\* before its own scope ends.  (For careful scripts.)
LockedIsOwned == \A p \in Process : \A n \in Kept(p) : owner[FileOf[n]] = p

\* A lock is kept for the scope of its GUARD, and with it the file is not locked
\* by another process.  (cmFileLockPool; it holds for careful scripts only.)
Exclusive ==
  \A p, q \in Process : p # q => FilesOf(Kept(p)) \cap FilesOf(Kept(q)) = {}

\* No lock outlives the scope it was taken for, whichever way the scope ends:
\* what a process owns is listed in its pool.
OwnedIsLocked == \A f \in File : owner[f] # Nobody => f \in FilesOf(Locked(owner[f]))

\* A file(LOCK) with a TIMEOUT returns, whatever the other scripts do.
TimeoutReturns ==
  \A p \in Process :
    (pc[p] = "try" /\ request[p].seconds # Forever) ~> pc[p] # "try"
=============================================================================
