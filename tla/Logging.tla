------------------------------- MODULE Logging -------------------------------
(***************************************************************************)
(* livio::ark::log (log.cpp, log.hpp): the registry of loggers that init() *)
(* and set_level() change while threads log through it without its mutex,  *)
(* and what log.cpp uses of spdlog: a logger's level and flush level, and  *)
(* the rotating file behind it.                                            *)
(*                                                                         *)
(* A step reads or writes one atomic variable, or is one critical section  *)
(* of the registry's mutex or of a sink's; only sections that change what  *)
(* is read without the mutex are split.  A line that was written stays in  *)
(* stdio's buffer until someone flushes the file or closes it.  The file   *)
(* system does not fail.                                                   *)
(***************************************************************************)
EXTENDS Integers, Sequences, SequencesExt

CONSTANTS Threads, Modules,
          Levels,       \* Level, in order of severity
          Options,      \* the LogOptions that init() is called with
          DefaultOptions,
          MaxSize, MaxFiles, \* of the rotating file
          OldFiles,     \* bound: files that an earlier run may have left
          Sizes,        \* bound: of a line, and of such a file
          MaxLoggers,   \* bound: loggers made
          MaxLines      \* bound: calls of log()

NoThread == "none"
Default == "default"  \* the logger that is no module's
ASSUME ThreadsAssumption == NoThread \notin Threads

LogOptions == [level : Levels, flush_level : Levels, file : BOOLEAN, truncate : BOOLEAN]
ASSUME OptionsAssumption == Options \subseteq LogOptions /\ DefaultOptions \in LogOptions
ASSUME ModulesAssumption == Default \notin Modules
ASSUME LevelsAssumption == Levels \subseteq Nat
ASSUME SizesAssumption == MaxSize \in Nat \ {0} /\ MaxFiles \in Nat /\ OldFiles \in 0..(MaxFiles + 1)
ASSUME LinesAssumption == Sizes \subseteq Nat \ {0}

NoLogger == 0
NoFile == 0
NoCall == [target |-> Default, level |-> 0, line |-> 0]

VARIABLES
  mutex,                \* who is inside a section that is split
  options, default_logger, modules, default_level, default_cache,
  loggers,              \* the loggers made so far
  fs,                   \* the names of the rotating files, and what the files hold
  pc, hand,             \* of each thread: where it is, the logger it has
  call,                 \* ... what it logs: [target, level, line]
  lines,                \* calls of log() so far
  in_force,             \* default levels: the one asked for last, and inside init() and
                        \* set_level() also the one before
  seen,                 \* levels in force at some moment of a thread's call of log()
  written,              \* the lines written to files, in order
  owed,                 \* lines a thread's flush() must flush
  flushed               \* lines that should have been flushed

registryVars == <<mutex, options, default_logger, modules, default_level, default_cache>>
threadVars == <<pc, hand, call, lines>>
historyVars == <<written, owed, flushed>>
vars == <<registryVars, loggers, fs, threadVars, in_force, seen, historyVars>>

Init ==
  /\ mutex = NoThread
  /\ options = DefaultOptions
  /\ default_logger = NoLogger
  /\ modules = [m \in Modules |-> NoLogger]
  /\ default_level = DefaultOptions.level
  /\ default_cache = NoLogger
  /\ loggers = <<>>
  /\ \E old \in 0..OldFiles : \E size \in [1..old -> Sizes] :
       /\ fs = [name |-> [i \in 0..MaxFiles |-> IF i < old THEN old - i ELSE NoFile],
                content |-> [i \in 1..old |-> [lines |-> <<-i>>, size |-> size[i]]]]
       /\ written = [i \in 1..old |-> -i]
  /\ pc = [t \in Threads |-> "idle"]
  /\ hand = [t \in Threads |-> NoLogger]
  /\ call = [t \in Threads |-> NoCall]
  /\ lines = 0
  /\ in_force = {DefaultOptions.level}
  /\ seen = [t \in Threads |-> {}]
  /\ owed = [t \in Threads |-> {}]
  /\ flushed = {}

Goto(t, step) == pc' = [pc EXCEPT ![t] = step]
-----------------------------------------------------------------------------
(* rotating_file_sink                                                      *)

EmptyFile == [lines |-> <<>>, size |-> 0]

Created(files) == [name |-> [files.name EXCEPT ![0] = Len(files.content) + 1],
                   content |-> Append(files.content, EmptyFile)]

Opened(files) == IF files.name[0] = NoFile THEN Created(files) ELSE files

(* rotate_(): each file takes the name of the next older one. *)
Shifted(name) ==
  [i \in 0..MaxFiles |->
     IF i > 0 /\ name[i - 1] # NoFile THEN name[i - 1]
     ELSE IF i = MaxFiles THEN name[i] ELSE NoFile]

(* reopen(true) creates the file anew, or empties it when there is no other. *)
Rotated(files) ==
  IF MaxFiles = 0 THEN [files EXCEPT !.content[files.name[0]] = EmptyFile]
                  ELSE Created([files EXCEPT !.name = Shifted(@)])

SizeOfBase(files) == files.content[files.name[0]].size

(* What the constructor makes of the files *)
OpenedBy(o) ==
  IF ~o.file THEN fs
  ELSE IF o.truncate /\ SizeOfBase(Opened(fs)) > 0 THEN Rotated(Opened(fs))
  ELSE Opened(fs)

(* make_logger() *)
NewLogger(o) ==
  [level |-> o.level, flush_level |-> o.flush_level, truncate |-> o.truncate,
   fd |-> IF o.file THEN OpenedBy(o).name[0] ELSE NoFile,
   current_size |-> IF o.file THEN SizeOfBase(OpenedBy(o)) ELSE 0,
   buffered |-> {}]

MakeLogger(o) ==
  /\ Len(loggers) < MaxLoggers
  /\ loggers' = Append(loggers, NewLogger(o))
  /\ fs' = OpenedBy(o)

Made == Len(loggers) + 1

(* Mutant: a file may grow by the line that does not fit. *)
FullLate(l, size) == loggers[l].current_size > MaxSize /\ fs.content[loggers[l].fd].size > 0

(* Only a file that holds something is rotated: a line longer than the limit *)
(* is written whole.                                                         *)
Full(l, size) ==
  loggers[l].current_size + size > MaxSize /\ fs.content[loggers[l].fd].size > 0

Grown(file, line, size) == [lines |-> Append(file.lines, line), size |-> file.size + size]

(* sink_it_() of logger l: the line has been formatted to some size. *)
SinkIt(l, line, size) ==
  LET full == Full(l, size)
      files == IF full THEN Rotated(fs) ELSE fs
      fd == IF full THEN files.name[0] ELSE loggers[l].fd
  IN  IF loggers[l].fd = NoFile THEN UNCHANGED <<loggers, fs, written>>
      ELSE /\ fs' = [files EXCEPT !.content[fd] = Grown(@, line, size)]
           /\ loggers' = [loggers EXCEPT
                ![l].fd = fd,
                ![l].current_size = IF full THEN size ELSE @ + size,
                ![l].buffered = IF full THEN {line} ELSE @ \cup {line}]
           /\ written' = Append(written, line)

(* flush() of the loggers in a set *)
FlushThem(ls) ==
  loggers' = [l \in DOMAIN loggers |->
                IF l \in ls THEN [loggers[l] EXCEPT !.buffered = {}] ELSE loggers[l]]
-----------------------------------------------------------------------------
(* init(), set_level(), get_level(), flush()                               *)

InitLogging(t, o) ==
  /\ pc[t] = "idle" /\ mutex = NoThread
  /\ mutex' = t
  /\ options' = o
  /\ MakeLogger(o)
  /\ default_logger' = Made
  /\ Goto(t, "init_level")
  /\ UNCHANGED <<modules, default_level, default_cache, hand, call, lines, historyVars>>

InitLevel(t) ==
  /\ pc[t] = "init_level"
  /\ default_level' = options.level
  /\ Goto(t, "init_cache")
  /\ UNCHANGED <<mutex, options, default_logger, modules, default_cache, loggers, fs,
                 hand, call, lines, historyVars>>

(* Mutant: the logger that log() uses stays the one it was. *)
InitCacheKept(t) ==
  /\ pc[t] = "init_cache"
  /\ default_cache' = IF default_cache = NoLogger THEN default_logger ELSE default_cache
  /\ mutex' = NoThread
  /\ Goto(t, "idle")
  /\ UNCHANGED <<options, default_logger, modules, default_level, loggers, fs,
                 hand, call, lines, historyVars>>

InitCache(t) ==
  /\ pc[t] = "init_cache"
  /\ default_cache' = default_logger
  /\ mutex' = NoThread
  /\ Goto(t, "idle")
  /\ UNCHANGED <<options, default_logger, modules, default_level, loggers, fs,
                 hand, call, lines, historyVars>>

SetLevel(t, level) ==
  /\ pc[t] = "idle" /\ mutex = NoThread
  /\ mutex' = t
  /\ options' = [options EXCEPT !.level = level]
  /\ default_level' = level
  /\ Goto(t, "set_logger")
  /\ UNCHANGED <<default_logger, modules, default_cache, loggers, fs, hand, call, lines, historyVars>>

(* Mutant: a logger that is there keeps its level. *)
SetLoggerKept(t) ==
  /\ pc[t] = "set_logger"
  /\ IF default_logger = NoLogger
     THEN MakeLogger(options) /\ default_logger' = Made
     ELSE UNCHANGED <<loggers, default_logger, fs>>
  /\ mutex' = NoThread
  /\ Goto(t, "idle")
  /\ UNCHANGED <<options, modules, default_level, default_cache, hand, call, lines, historyVars>>

(* ensure_default(reg)->set_level(level) *)
SetLogger(t) ==
  /\ pc[t] = "set_logger"
  /\ IF default_logger = NoLogger
     THEN MakeLogger(options) /\ default_logger' = Made
     ELSE /\ loggers' = [loggers EXCEPT ![default_logger].level = options.level]
          /\ UNCHANGED <<default_logger, fs>>
  /\ mutex' = NoThread
  /\ Goto(t, "idle")
  /\ UNCHANGED <<options, modules, default_level, default_cache, hand, call, lines, historyVars>>

(* ensure_module() makes the logger of a module with the options of the day. *)
EnsureModule(m) ==
  IF modules[m] = NoLogger
  THEN MakeLogger(options) /\ modules' = [modules EXCEPT ![m] = Made]
  ELSE UNCHANGED <<loggers, fs, modules>>

(* get_level(mod) *)
GetModuleLevel(t, m) ==
  /\ pc[t] = "idle" /\ mutex = NoThread
  /\ modules[m] = NoLogger
  /\ EnsureModule(m)
  /\ UNCHANGED <<mutex, options, default_logger, default_level, default_cache, threadVars, historyVars>>

(* set_level(mod, level) *)
SetModuleLevel(t, m, level) ==
  /\ pc[t] = "idle" /\ mutex = NoThread
  /\ IF modules[m] = NoLogger
     THEN /\ MakeLogger([options EXCEPT !.level = level])
          /\ modules' = [modules EXCEPT ![m] = Made]
     ELSE /\ loggers' = [loggers EXCEPT ![modules[m]].level = level]
          /\ UNCHANGED <<modules, fs>>
  /\ UNCHANGED <<mutex, options, default_logger, default_level, default_cache, threadVars, historyVars>>

Buffered(ls) == UNION {loggers[l].buffered : l \in ls}
ModuleLoggers == {modules[m] : m \in Modules} \ {NoLogger}

(* A call of log() that writes a line is over once the line is flushed or   *)
(* need not be.                                                             *)
Unreturned == {call[t].line : t \in {u \in Threads : pc[u] \in {"sink", "flush"}}}

(* flush(): first the default logger ... *)
FlushDefault(t) ==
  /\ pc[t] = "idle" /\ mutex = NoThread
  /\ mutex' = t
  /\ FlushThem({default_logger})
  /\ owed' = [owed EXCEPT ![t] = ToSet(written) \ Unreturned]
  /\ Goto(t, "flush_modules")
  /\ UNCHANGED <<options, default_logger, modules, default_level, default_cache, fs,
                 hand, call, lines, written, flushed>>

(* ... then those of the modules. *)
FlushModules(t) ==
  /\ pc[t] = "flush_modules"
  /\ FlushThem(ModuleLoggers)
  /\ flushed' = flushed \cup owed[t]
  /\ owed' = [owed EXCEPT ![t] = {}]
  /\ mutex' = NoThread
  /\ Goto(t, "idle")
  /\ UNCHANGED <<options, default_logger, modules, default_level, default_cache, fs,
                 hand, call, lines, written>>
-----------------------------------------------------------------------------
(* log() and log_module()                                                  *)

Log(t, target, level) ==
  /\ pc[t] = "idle"
  /\ lines < MaxLines
  /\ lines' = lines + 1
  /\ call' = [call EXCEPT ![t] = [target |-> target, level |-> level, line |-> lines']]
  /\ Goto(t, "should_log")
  /\ UNCHANGED <<registryVars, loggers, fs, hand, historyVars>>

(* should_log(level): the cached level *)
ShouldLog(t) ==
  /\ pc[t] = "should_log" /\ call[t].target = Default
  /\ Goto(t, IF call[t].level >= default_level THEN "log" ELSE "filtered")
  /\ UNCHANGED <<registryVars, loggers, fs, hand, call, lines, historyVars>>

(* detail::log(): the cached logger *)
LoadCache(t) ==
  /\ pc[t] = "log" /\ call[t].target = Default
  /\ hand' = [hand EXCEPT ![t] = default_cache]
  /\ Goto(t, IF default_cache = NoLogger THEN "no_cache" ELSE "level")
  /\ UNCHANGED <<registryVars, loggers, fs, call, lines, historyVars>>

(* ... or, under the mutex, the default logger, which is cached now *)
FillCache(t) ==
  /\ pc[t] = "no_cache" /\ mutex = NoThread
  /\ IF default_logger = NoLogger
     THEN MakeLogger(options) /\ default_logger' = Made
     ELSE UNCHANGED <<loggers, default_logger, fs>>
  /\ default_cache' = default_logger'
  /\ hand' = [hand EXCEPT ![t] = default_logger']
  /\ Goto(t, "level")
  /\ UNCHANGED <<mutex, options, modules, default_level, call, lines, historyVars>>

(* should_log(mod, level) under the mutex *)
ShouldLogModule(t) ==
  /\ pc[t] = "should_log" /\ mutex = NoThread
  /\ \E m \in Modules :
       /\ m = call[t].target
       /\ EnsureModule(m)
       /\ Goto(t, IF call[t].level >= loggers'[modules'[m]].level THEN "log" ELSE "filtered")
  /\ UNCHANGED <<mutex, options, default_logger, default_level, default_cache,
                 hand, call, lines, historyVars>>

(* detail::log(mod, ...): the module is there since should_log() *)
FindModule(t) ==
  /\ pc[t] = "log" /\ mutex = NoThread
  /\ call[t].target \in Modules
  /\ hand' = [hand EXCEPT ![t] = modules[call[t].target]]
  /\ Goto(t, "level")
  /\ UNCHANGED <<registryVars, loggers, fs, call, lines, historyVars>>

(* logger->log() asks the logger's own level again ... *)
CheckLevel(t) ==
  /\ pc[t] = "level"
  /\ IF call[t].level >= loggers[hand[t]].level
     THEN Goto(t, "sink") /\ UNCHANGED hand
     ELSE Goto(t, "filtered") /\ hand' = [hand EXCEPT ![t] = NoLogger]
  /\ UNCHANGED <<registryVars, loggers, fs, call, lines, historyVars>>

(* ... gives the line to its sinks ... *)
Sink(t) ==
  /\ pc[t] = "sink"
  /\ \E size \in Sizes : SinkIt(hand[t], call[t].line, size)
  /\ Goto(t, "flush")
  /\ UNCHANGED <<registryVars, hand, call, lines, owed, flushed>>

(* Mutant: the flush level itself does not flush. *)
FlushAbove(t) ==
  /\ pc[t] = "flush"
  /\ IF call[t].level > loggers[hand[t]].flush_level
     THEN FlushThem({hand[t]}) ELSE UNCHANGED loggers
  /\ flushed' = IF call[t].level >= loggers[hand[t]].flush_level
                THEN flushed \cup {call[t].line} ELSE flushed
  /\ hand' = [hand EXCEPT ![t] = NoLogger]
  /\ Goto(t, "logged")
  /\ UNCHANGED <<registryVars, fs, call, lines, written, owed>>

(* ... and flushes them from its flush level on; the logger is let go. *)
Flush(t) ==
  /\ pc[t] = "flush"
  /\ IF call[t].level >= loggers[hand[t]].flush_level
     THEN FlushThem({hand[t]}) /\ flushed' = flushed \cup {call[t].line}
     ELSE UNCHANGED <<loggers, flushed>>
  /\ hand' = [hand EXCEPT ![t] = NoLogger]
  /\ Goto(t, "logged")
  /\ UNCHANGED <<registryVars, fs, call, lines, written, owed>>

Return(t) ==
  /\ pc[t] \in {"logged", "filtered"}
  /\ Goto(t, "idle")
  /\ call' = [call EXCEPT ![t] = NoCall]
  /\ UNCHANGED <<registryVars, loggers, fs, hand, lines, historyVars>>
-----------------------------------------------------------------------------
InForce(target) ==
  IF target = Default THEN in_force
  ELSE {IF modules[target] = NoLogger THEN options.level ELSE loggers[modules[target]].level}

SeenBy(t) == InForce(call[t].target)

Observe ==
  /\ in_force' = {options'.level} \cup (IF mutex' = NoThread THEN {} ELSE in_force)
  /\ seen' = [t \in Threads |->
       IF pc'[t] \in {"should_log", "log", "no_cache", "level", "sink", "flush", "logged", "filtered"}
       THEN seen[t] \cup SeenBy(t)' ELSE {}]

Configure(t) ==
  \/ \E o \in Options : InitLogging(t, o)
  \/ InitLevel(t) \/ InitCache(t)
  \/ \E level \in Levels : SetLevel(t, level) \/ \E m \in Modules : SetModuleLevel(t, m, level)
  \/ SetLogger(t)
  \/ \E m \in Modules : GetModuleLevel(t, m)
  \/ FlushDefault(t) \/ FlushModules(t)

DoLog(t) ==
  \/ \E target \in Modules \cup {Default}, level \in Levels : Log(t, target, level)
  \/ ShouldLog(t) \/ LoadCache(t) \/ FillCache(t)
  \/ ShouldLogModule(t) \/ FindModule(t)
  \/ CheckLevel(t) \/ Sink(t) \/ Flush(t) \/ Return(t)

Next == (\E t \in Threads : Configure(t) \/ DoLog(t)) /\ Observe

Spec == Init /\ [][Next]_vars
-----------------------------------------------------------------------------
(* The registry and the threads refer to loggers that exist, and a thread has *)
(* a logger in hand just while detail::log() uses it.                         *)
TypeOK ==
  /\ mutex \in Threads \cup {NoThread}
  /\ mutex = NoThread <=> \A t \in Threads :
       pc[t] \notin {"init_level", "init_cache", "set_logger", "flush_modules"}
  /\ options \in LogOptions /\ default_level \in Levels
  /\ {default_logger, default_cache} \cup ModuleLoggers \subseteq {NoLogger} \cup DOMAIN loggers
  /\ \A l \in DOMAIN loggers : loggers[l].level \in Levels /\ loggers[l].fd \in 0..Len(fs.content)
  /\ \A t \in Threads : hand[t] # NoLogger <=> pc[t] \in {"level", "sink", "flush"}

(* Outside init() and set_level() the cached level, the level of the        *)
(* default logger and the one of the options, which modules start with, are *)
(* the same, and the cached logger is the default logger or none (init,     *)
(* set_level, detail::log); and at all times the registry and the threads   *)
(* refer to loggers that exist.                                             *)
LevelsAgree ==
  /\ TypeOK
  /\ mutex = NoThread =>
       /\ default_level = options.level
       /\ default_logger # NoLogger => loggers[default_logger].level = options.level
       /\ default_cache \in {NoLogger, default_logger}

(* "Hot path cache" (line 78): although log() reads the cached level, the   *)
(* cached logger and the logger's level one after the other, while init()   *)
(* and set_level() change them one after the other, a line is logged if its *)
(* level was enough all through the call, and not if it was too low all     *)
(* through the call.                                                        *)
LevelDecides ==
  \A t \in Threads :
    /\ pc[t] = "filtered" => \E level \in seen[t] : call[t].level < level
    /\ pc[t] = "logged" => \E level \in seen[t] : call[t].level >= level

(* Lines from the flush level on, and all lines logged before a flush()     *)
(* that has returned, have left the buffers of the loggers that can be      *)
(* reached through the registry ("flush all logs", log.hpp line 48).  A     *)
(* logger that init() has replaced is not one of them: it goes, and closes  *)
(* its file, with the last call that holds it.                              *)
FlushReaches ==
  flushed \cap Buffered(ModuleLoggers \cup ({default_logger, default_cache} \ {NoLogger})) = {}

(* The file that has name i *)
FileOf(files, i) == IF files.name[i] = NoFile THEN EmptyFile ELSE files.content[files.name[i]]

(* The lines that the files hold, from the oldest to the youngest *)
Kept(files) ==
  LET youngest[n \in 0..(MaxFiles + 1)] ==
        IF n = 0 THEN <<>> ELSE FileOf(files, n - 1).lines \o youngest[n - 1]
  IN  youngest[MaxFiles + 1]

FileLoggers == {l \in DOMAIN loggers : loggers[l].fd # NoFile}

(* A line that the files must keep as long as there is a name for them:     *)
(* under "truncate" those of earlier runs are none.                         *)
Asked(line) == line > 0 \/ \A l \in FileLoggers : ~loggers[l].truncate

(* "Size limit of a file", "number of files kept" (LogOptions): as long as  *)
(* one logger alone writes to a file, the files hold the youngest lines, in *)
(* order and without a gap, nothing is given up before the oldest name is   *)
(* in use, and a file passes the limit only by one line that alone is       *)
(* longer, or as an earlier run has left it.                                *)
LoneFile ==
  Cardinality(FileLoggers) <= 1 =>
    LET kept == Reverse(Kept(fs))
        log == Reverse(written)
    IN  /\ Len(kept) <= Len(log)
        /\ \A i \in DOMAIN log : Asked(log[i]) =>
             IF i <= Len(kept) THEN kept[i] = log[i] ELSE fs.name[MaxFiles] # NoFile
        /\ \A i \in 0..MaxFiles :
             FileOf(fs, i).size > MaxSize => Len(FileOf(fs, i).lines) = 1
=============================================================================
