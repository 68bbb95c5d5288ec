------------------------------- MODULE AutoMoc --------------------------------
(***************************************************************************)
(* The AUTOMOC half of cmQtAutoMocUic, over several runs of the _autogen   *)
(* target: what a run reads from the parse cache and the settings file of  *)
(* earlier ones, the jobs it hands to the worker pool (JobQueue) and what  *)
(* they leave on the disk.  Between two runs one thing may change; a run   *)
(* may fail at any job and be killed at any time.                          *)
(*                                                                         *)
(* Times only need to be ordered: a run and all it writes have an even     *)
(* time, a change an odd one, 0 is the time of a missing file.  The files  *)
(* of a project do not change while a run is under way.                    *)
(***************************************************************************)
EXTENDS Integers, Sequences, FiniteSets, SequencesExt

CONSTANTS
  Header, Source,  \* the headers on the disk, the C++ files of the target
  Listed,          \* the headers that the target lists
  Dep,             \* files a header can name as additional dependencies
  Contents,        \* the possible contents of each header and C++ file
  NoEntry,         \* the parse cache does not know the file
  ThreadCount,     \* worker threads
  MaxTime,         \* bound: the last run starts at this time
  CanOutputDependencies,  \* can moc write dependency files?
  DepFile          \* is there a merged dependency file (Ninja)?

Scanned == Header \cup Source
Output == {"comp", "incl"}  \* for mocs_compilation.cpp, for an #include
Setting == {"A", "B"}
NoOutput == [time |-> 0, settings |-> "none", deps |-> {}]
Empty == [macro |-> FALSE, deps |-> {}, incl |-> {}]

ASSUME ProjectAssumption ==
  /\ IsFiniteSet(Scanned)
  /\ Listed \subseteq Header
  /\ NoEntry \notin [macro : BOOLEAN, deps : SUBSET Dep, incl : SUBSET Header]
  /\ \A f \in Scanned : Contents[f] \subseteq
       [macro : BOOLEAN, deps : SUBSET Dep, incl : SUBSET Header]

VARIABLES
  \* the disk (output: when and with what moc wrote it, and its .d file)
  clock, mtime, content, settings, mocTime, cmakeTime, compilerTime,
  predefsTime, output, compilation, cacheFile, settingsFile,
  \* a run
  pc, settingsChanged, parseCache, cacheChanged, discovered, mapping,
  compFiles, jobError, lastResult,
  \* its worker pool
  pending, running, accepting

project == <<mtime, content, settings, mocTime, cmakeTime, compilerTime>>
generated == <<predefsTime, output, compilation>>
memory == <<settingsChanged, parseCache, cacheChanged, discovered, mapping, compFiles>>
queue == <<pending, running, accepting>>
vars == <<clock, project, generated, cacheFile, settingsFile, pc, memory, jobError,
          lastResult, queue>>

-----------------------------------------------------------------------------
(* Jobs. *)

NewJob(type, file) == [type |-> type, file |-> file]
Do(type) == NewJob(type, "none")
FenceType == {"predefs", "fence", "evalFinish", "probeFinish", "compilation",
              "depMerge", "finish"}

Pool == INSTANCE JobQueue WITH
  Job <- [type : FenceType \cup {"parse", "eval", "probe", "moc"}, file : Scanned \cup {"none"}],
  IsFence <- LAMBDA j : j.type \in FenceType

\* A job ends after it has pushed others, which the pool refuses after an abort.
Ends(j, pushed) ==
  /\ running' = running \ {j}
  /\ pending' = IF accepting THEN pending \o pushed ELSE pending
  /\ UNCHANGED <<accepting, jobError>>

\* LogError and LogCommandError: the run has failed and the pool is aborted.
Fails(j) ==
  /\ jobError' = TRUE
  /\ running' = running \ {j}
  /\ pending' = <<>> /\ accepting' = FALSE
  /\ UNCHANGED <<generated, memory>>

JobsFor(type, files) == SetToSeq({NewJob(type, f) : f \in files})

\* The process ends, and with it all that is only in its memory.
Exit(result) ==
  /\ pc' = "idle" /\ lastResult' = result
  /\ settingsChanged' = FALSE /\ cacheChanged' = FALSE /\ jobError' = FALSE
  /\ parseCache' = [f \in Scanned |-> NoEntry]
  /\ discovered' = {} /\ compFiles' = {} /\ mapping' = [h \in Header |-> "none"]

-----------------------------------------------------------------------------
(* A run: InitFromInfo, SettingsFileRead, ParseCacheRead, InitJobs. *)

\* CreateParseJobs: files that the cache does not know or that are newer.
ToParse(files, cache) ==
  {f \in files : cache[f] = NoEntry \/ mtime[f] > cacheFile.time}

GetOrInsert(cache, files) ==
  [f \in Scanned |-> IF f \in files /\ cache[f] = NoEntry THEN Empty ELSE cache[f]]

CacheIsValid == cacheFile.time # 0 /\ ~settingsChanged' /\ cacheFile.time >= cmakeTime

SettingsFileRead_Keep ==
  /\ settingsChanged' = (settingsFile # settings)
  /\ UNCHANGED settingsFile

\* Outdated settings are removed at once, so that a run that does not get to
\* the end leaves none behind.
SettingsFileRead ==
  /\ settingsChanged' = (settingsFile # settings)
  /\ settingsFile' = IF settingsChanged' THEN "none" ELSE settingsFile

StartRun ==
  /\ pc = "idle" /\ clock < MaxTime
  /\ clock' = 2 * (clock \div 2) + 2
  /\ lastResult' = "none"
  /\ IF \E f \in Listed \cup Source : mtime[f] = 0
     THEN /\ pc' = "failed"
          /\ UNCHANGED <<settingsFile, memory, queue>>
     ELSE /\ pc' = "jobs"
          /\ SettingsFileRead
          /\ LET known == IF CacheIsValid THEN cacheFile.entries ELSE [f \in Scanned |-> NoEntry]
                 parse == ToParse(Listed \cup Source, known)
             IN /\ parseCache' = GetOrInsert(known, Listed \cup Source)
                /\ cacheChanged' = (~CacheIsValid \/ parse # {})
                /\ pending' = <<Do("predefs")>> \o JobsFor("parse", parse)
                                \o <<Do("fence"), Do("eval"), Do("evalFinish")>>
          /\ UNCHANGED <<discovered, mapping, compFiles, running, accepting>>
  /\ UNCHANGED <<project, generated, cacheFile, jobError>>

-----------------------------------------------------------------------------
(* The jobs' Process functions. *)

RunFailed ==
  /\ pc = "failed"
  /\ Exit("failed")
  /\ UNCHANGED <<clock, project, generated, cacheFile, settingsFile, queue>>

\* moc_predefs.h is written again, or touched, when it does not exist, the
\* settings changed or the compiler is newer.
JobMocPredefs(j) ==
  /\ j.type = "predefs"
  /\ predefsTime' = IF predefsTime = 0 \/ settingsChanged \/ predefsTime < compilerTime
                    THEN clock ELSE predefsTime
  /\ Ends(j, <<>>)
  /\ UNCHANGED <<output, compilation, memory>>

\* The file's own dependencies are searched only if moc cannot report them.
JobParse(j) ==
  /\ j.type = "parse"
  /\ parseCache' = [parseCache EXCEPT ![j.file] =
       [content[j.file] EXCEPT !.deps = IF CanOutputDependencies THEN {} ELSE @]]
  /\ Ends(j, <<>>)
  /\ UNCHANGED <<generated, settingsChanged, cacheChanged, discovered, mapping, compFiles>>

JobFence(j) == j.type = "fence" /\ Ends(j, <<>>) /\ UNCHANGED <<generated, memory>>

Included == UNION {parseCache[s].incl : s \in Source}

\* Headers with a macro are mapped; the header of an included moc_<name>.cpp is
\* mapped to that file, even if the target does not list it.
JobEvalCacheMoc(j) ==
  /\ j.type = "eval"
  /\ \A h \in Included : mtime[h] # 0
  /\ discovered' = Included \ Listed
  /\ mapping' = [h \in Header |-> IF h \in Included THEN "incl"
                                  ELSE IF h \in Listed /\ parseCache[h].macro THEN "comp"
                                  ELSE "none"]
  /\ Ends(j, <<>>)
  /\ UNCHANGED <<generated, settingsChanged, parseCache, cacheChanged, compFiles>>

JobEvalCacheFinish_NoFence(j) ==
  /\ j.type = "evalFinish"
  /\ LET parse == ToParse(discovered, parseCache)
     IN /\ parseCache' = GetOrInsert(parseCache, discovered)
        /\ cacheChanged' = (cacheChanged \/ parse # {})
        /\ Ends(j, JobsFor("parse", parse) \o <<Do("probe"), Do("probeFinish")>>)
  /\ UNCHANGED <<generated, settingsChanged, discovered, mapping, compFiles>>

JobEvalCacheFinish(j) ==
  /\ j.type = "evalFinish"
  /\ LET parse == ToParse(discovered, parseCache)
     IN /\ parseCache' = GetOrInsert(parseCache, discovered)
        /\ cacheChanged' = (cacheChanged \/ parse # {})
        /\ Ends(j, JobsFor("parse", parse) \o <<Do("fence"), Do("probe"), Do("probeFinish")>>)
  /\ UNCHANGED <<generated, settingsChanged, discovered, mapping, compFiles>>

Mapped == {h \in Header : mapping[h] # "none"}
OutputOf(h) == output[h][mapping[h]]

\* Probe, before it looks at the dependencies: the output does not exist, or it
\* is older than its source, than moc_predefs.h or than moc.
Outdated(h) ==
  \/ settingsChanged \/ OutputOf(h).time = 0
  \/ \E t \in {mtime[h], predefsTime, mocTime} : OutputOf(h).time < t

\* The dependencies that are newer or gone.
Reasons(h) ==
  {d \in parseCache[h].deps : mtime[d] = 0 \/ OutputOf(h).time < mtime[d]}

Probe(h) == Outdated(h) \/ Reasons(h) # {}

\* The first reason in the list ends the search; it is forgotten if it is gone.
Vanished(h) ==
  IF Outdated(h) \/ Reasons(h) = {} THEN {}
  ELSE {d \in {CHOOSE d \in Reasons(h) : TRUE} : mtime[d] = 0}

JobProbeDepsMoc_OnlyUpdated(j) ==
  /\ j.type = "probe"
  /\ compFiles' = {h \in Mapped : mapping[h] = "comp" /\ Probe(h)}
  /\ Ends(j, JobsFor("moc", {h \in Mapped : Probe(h)}))
  /\ UNCHANGED <<generated, settingsChanged, parseCache, cacheChanged, discovered, mapping>>

JobProbeDepsMoc(j) ==
  /\ j.type = "probe"
  /\ compFiles' = {h \in Mapped : mapping[h] = "comp"}
  /\ Ends(j, JobsFor("moc", {h \in Mapped : Probe(h)}))
  /\ parseCache' = [f \in Scanned |->
       IF f \in Mapped THEN [parseCache[f] EXCEPT !.deps = @ \ Vanished(f)] ELSE parseCache[f]]
  /\ cacheChanged' = (cacheChanged \/ \E h \in Mapped : Vanished(h) # {})
  /\ UNCHANGED <<generated, settingsChanged, discovered, mapping>>

JobProbeDepsFinish_NoWork(j) ==
  /\ j.type = "probeFinish"
  /\ Ends(j, IF pending = <<>> THEN <<Do("compilation")>>
             ELSE <<Do("compilation")>> \o (IF DepFile THEN <<Do("depMerge")>> ELSE <<>>)
                    \o <<Do("finish")>>)
  /\ UNCHANGED <<generated, memory>>

JobProbeDepsFinish(j) ==
  /\ j.type = "probeFinish"
  /\ Ends(j, <<Do("compilation")>> \o (IF DepFile THEN <<Do("depMerge")>> ELSE <<>>)
               \o <<Do("finish")>>)
  /\ UNCHANGED <<generated, memory>>

\* moc fails when a plugin metadata file named in the header is missing; it reports what it read.
JobCompileMoc(j) ==
  /\ j.type = "moc"
  /\ \A d \in content[j.file].deps : mtime[d] # 0
  /\ LET h == j.file
         read == IF CanOutputDependencies THEN content[h].deps ELSE {}
     IN /\ output' = [output EXCEPT ![h][mapping[h]] =
                        [time |-> clock, settings |-> settings, deps |-> read]]
        /\ parseCache' = IF CanOutputDependencies
                         THEN [parseCache EXCEPT ![h].deps = read] ELSE parseCache
  /\ Ends(j, <<>>)
  /\ UNCHANGED <<predefsTime, compilation, settingsChanged, cacheChanged, discovered,
                 mapping, compFiles>>

JobMocsCompilation(j) ==
  /\ j.type = "compilation"
  /\ compilation' = compFiles
  /\ Ends(j, <<>>)
  /\ UNCHANGED <<predefsTime, output, memory>>

\* Dependencies that the cache does not know are read from moc's files.
JobDepFilesMerge(j) ==
  /\ j.type = "depMerge"
  /\ parseCache' = [f \in Scanned |->
       IF f \in Mapped /\ parseCache[f].deps = {}
       THEN [parseCache[f] EXCEPT !.deps = OutputOf(f).deps] ELSE parseCache[f]]
  /\ Ends(j, <<>>)
  /\ UNCHANGED <<generated, settingsChanged, cacheChanged, discovered, mapping, compFiles>>

JobFinish(j) ==
  /\ j.type = "finish"
  /\ running' = running \ {j} /\ pending' = <<>> /\ accepting' = FALSE
  /\ UNCHANGED <<jobError, generated, memory>>

\* A command, a read, a write or a directory may fail, an included header may
\* be missing.
JobFails(j) ==
  /\ \/ j.type \in {"predefs", "parse", "probeFinish", "moc", "compilation", "depMerge"}
     \/ j.type = "eval" /\ \E h \in Included : mtime[h] = 0
  /\ Fails(j)

Process(j) ==
  \/ JobMocPredefs(j) \/ JobParse(j) \/ JobFence(j) \/ JobEvalCacheMoc(j)
  \/ JobEvalCacheFinish(j) \/ JobProbeDepsMoc(j) \/ JobProbeDepsFinish(j)
  \/ JobCompileMoc(j) \/ JobMocsCompilation(j) \/ JobDepFilesMerge(j) \/ JobFinish(j)
  \/ JobFails(j)

JobStarts ==
  /\ pc = "jobs" /\ Pool!Start
  /\ UNCHANGED <<clock, project, generated, cacheFile, settingsFile, pc, memory, jobError, lastResult>>

JobEnds ==
  /\ pc = "jobs"
  /\ \E j \in running : Process(j)
  /\ UNCHANGED <<clock, project, cacheFile, settingsFile, pc, lastResult>>

-----------------------------------------------------------------------------
(* The end of a run: ParseCacheWrite and SettingsFileWrite. *)

PoolReturns ==
  /\ pc = "jobs" /\ Pool!Return
  /\ pc' = IF jobError THEN "failed" ELSE "cache"
  /\ UNCHANGED <<clock, project, generated, cacheFile, settingsFile, memory, jobError, lastResult>>

ParseCacheWrite ==
  /\ pc = "cache"
  /\ \/ /\ cacheFile' = IF cacheChanged THEN [time |-> clock, entries |-> parseCache] ELSE cacheFile
        /\ pc' = "settings"
     \/ /\ cacheChanged
        /\ pc' = "failed"
        /\ UNCHANGED cacheFile
  /\ UNCHANGED <<clock, project, generated, settingsFile, memory, jobError, lastResult, queue>>

SettingsFileWrite ==
  /\ pc = "settings"
  /\ \/ /\ settingsFile' = IF settingsChanged THEN settings ELSE settingsFile
        /\ Exit("ok")
     \/ /\ settingsChanged
        /\ settingsFile' = "none"
        /\ Exit("failed")
  /\ UNCHANGED <<clock, project, generated, cacheFile, queue>>

\* The build is interrupted: what is on the disk stays.
Kill ==
  /\ pc # "idle"
  /\ Exit("failed")
  /\ pending' = <<>> /\ running' = {} /\ accepting' = TRUE
  /\ UNCHANGED <<clock, project, generated, cacheFile, settingsFile>>

-----------------------------------------------------------------------------
(* Between the runs. *)

Edit(f, c) == mtime' = [mtime EXCEPT ![f] = clock'] /\ content' = [content EXCEPT ![f] = c]

Touch(f) == mtime' = [mtime EXCEPT ![f] = clock'] /\ UNCHANGED content

Deleted(f) == mtime' = [mtime EXCEPT ![f] = 0] /\ UNCHANGED content

ProjectChanges ==
  /\ \/ /\ \/ \E f \in Scanned : \E c \in Contents[f] : Edit(f, c)
           \/ \E f \in Dep : Touch(f)
           \/ \E f \in Header \cup Dep : Deleted(f)
        /\ UNCHANGED <<settings, mocTime, cmakeTime, compilerTime>>
     \/ /\ \/ /\ settings' \in Setting \ {settings}
              /\ UNCHANGED <<mocTime, cmakeTime, compilerTime>>
           \/ /\ mocTime' = clock' /\ UNCHANGED <<settings, cmakeTime, compilerTime>>
           \/ /\ cmakeTime' = clock' /\ UNCHANGED <<settings, mocTime, compilerTime>>
           \/ /\ compilerTime' = clock' /\ UNCHANGED <<settings, mocTime, cmakeTime>>
        /\ UNCHANGED <<mtime, content>>
  /\ UNCHANGED <<output, cacheFile>>

GeneratedRemoved ==
  /\ \/ /\ \E h \in Header, k \in Output : output' = [output EXCEPT ![h][k] = NoOutput]
        /\ UNCHANGED cacheFile
     \/ /\ cacheFile' = [cacheFile EXCEPT !.time = 0]
        /\ UNCHANGED output
  /\ UNCHANGED project

Change ==
  /\ pc = "idle" /\ clock % 2 = 0 /\ clock < MaxTime
  /\ clock' = clock + 1
  /\ lastResult' = "none"
  /\ ProjectChanges \/ GeneratedRemoved
  /\ UNCHANGED <<predefsTime, compilation, settingsFile, pc, memory, jobError, queue>>

TheEnd == pc = "idle" /\ clock >= MaxTime /\ UNCHANGED vars

-----------------------------------------------------------------------------
Init ==
  /\ clock = 1 /\ mtime = [f \in Scanned \cup Dep |-> 1]
  /\ content \in [Scanned -> UNION {Contents[f] : f \in Scanned}]
  /\ \A f \in Scanned : content[f] \in Contents[f]
  /\ settings = "A" /\ mocTime = 1 /\ cmakeTime = 1 /\ compilerTime = 1
  /\ predefsTime = 0 /\ compilation = {}
  /\ output = [h \in Header |-> [k \in Output |-> NoOutput]]
  /\ cacheFile = [time |-> 0, entries |-> [f \in Scanned |-> NoEntry]]
  /\ settingsFile = "none"
  /\ pc = "idle" /\ lastResult = "none"
  /\ settingsChanged = FALSE /\ cacheChanged = FALSE /\ jobError = FALSE
  /\ parseCache = [f \in Scanned |-> NoEntry]
  /\ discovered = {} /\ compFiles = {} /\ mapping = [h \in Header |-> "none"]
  /\ pending = <<>> /\ running = {} /\ accepting = TRUE

Run == RunFailed \/ JobStarts \/ JobEnds \/ PoolReturns \/ ParseCacheWrite \/ SettingsFileWrite

Next == StartRun \/ Run \/ Kill \/ Change \/ TheEnd

Spec == Init /\ [][Next]_vars

\* A run that is not killed goes on: its jobs and the commands they run end.
FairSpec == Spec /\ WF_vars(Run)
-----------------------------------------------------------------------------
(* Properties. *)

\* What the files say now: the output that moc has to make from a header.
Wanted(h) ==
  IF \E s \in Source : h \in content[s].incl THEN "incl"
  ELSE IF h \in Listed /\ content[h].macro THEN "comp" ELSE "none"

\* After a run that reports success every moc output has been made with the
\* present settings, moc and compiler, after the last change of its header and
\* of each dependency: whatever runs failed or were killed before, at whatever
\* point, and whatever of the cache, settings file and outputs they left.
UpToDate ==
  lastResult = "ok" => \A h \in Header : Wanted(h) # "none" =>
    LET made == output[h][Wanted(h)]
    IN /\ made.settings = settings
       /\ \A t \in {1, mtime[h], mocTime, compilerTime} \cup {mtime[d] : d \in content[h].deps} :
            t # 0 /\ made.time >= t

\* mocs_compilation.cpp then lists exactly the headers whose output no C++ file
\* includes itself, also those that needed no new output in this run.
CompilationExact == lastResult = "ok" => compilation = {h \in Header : Wanted(h) = "comp"}

\* The data that jobs share without a lock: the cache's entries, and the rest.
Entries == {"entry"} \X Scanned

Of(names) == names \X {"all"}

Reads(j) ==
  CASE j.type = "eval" -> Entries
    [] j.type = "evalFinish" -> Of({"discovered"})
    [] j.type = "probe" -> Entries \cup Of({"map", "mapping", "predefs"})
    [] j.type = "moc" -> Of({"mapping"})
    [] j.type = "compilation" -> Of({"compFiles"})
    [] j.type = "depMerge" -> Entries \cup Of({"mapping"})
    [] OTHER -> {}

Writes(j) ==
  CASE j.type = "predefs" -> Of({"predefs"})
    [] j.type = "parse" -> {<<"entry", j.file>>}
    [] j.type = "eval" -> Of({"discovered", "mapping"})
    [] j.type = "evalFinish" -> Of({"map"})
    [] j.type = "probe" -> Of({"compFiles"}) \cup {<<"entry", h>> : h \in Mapped}
    [] j.type = "moc" -> IF CanOutputDependencies THEN {<<"entry", j.file>>} ELSE {}
    [] j.type = "depMerge" -> Of({"map"}) \cup Entries
    [] OTHER -> {}

\* The fences keep apart the jobs that use the same data, and no moc process is
\* started before the output directories have been created.
StagesKeptApart ==
  /\ \A i, j \in running : i # j => Writes(i) \cap (Reads(j) \cup Writes(j)) = {}
  /\ \A j \in running : j.type = "moc" =>
       ~\E i \in running \cup ToSet(pending) : i.type = "probeFinish"

\* Every run ends: each way through the jobs reaches one that aborts the pool.
RunsEnd == pc # "idle" ~> pc = "idle"
=============================================================================
