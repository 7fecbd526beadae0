----------------------------- MODULE LoggingProofs -----------------------------
(***************************************************************************)
(* Proofs about Logging for every set of threads, modules and options: the *)
(* registry, its cache and the loggers agree; the level in force decides   *)
(* whether a line is logged; flush() reaches what was logged; and the      *)
(* rotating files of a lone logger hold the youngest lines.                *)
(***************************************************************************)
EXTENDS Logging, SequenceTheorems, FiniteSetTheorems, WellFoundedInduction, TLAPS

Sections == {"init_level", "init_cache", "set_logger", "flush_modules"}
Using == {"level", "sink", "flush"}       \* has a logger in hand
Unwritten == {"should_log", "log", "no_cache", "level", "sink"}
InLog == Unwritten \cup {"flush", "logged", "filtered"}
Steps == Sections \cup InLog \cup {"idle"}

LoggerRecord == [level : Levels, flush_level : Levels, truncate : BOOLEAN, fd : Nat,
                 current_size : Nat, buffered : SUBSET Nat]
File == {x \in [lines : Seq(Int), size : Nat] : x.size = 0 => x.lines = <<>>}
Files == [name : [0..MaxFiles -> Nat], content : Seq(File)]
FilesOK(files) == files \in Files /\ \A i \in 0..MaxFiles : files.name[i] <= Len(files.content)
Known == {NoLogger} \cup DOMAIN loggers

LoggersOK ==
  /\ loggers \in Seq(LoggerRecord) /\ FilesOK(fs)
  /\ \A l \in DOMAIN loggers : loggers[l].fd <= Len(fs.content)

LogTypes ==
  /\ mutex \in Threads \cup {NoThread}
  /\ options \in LogOptions /\ default_level \in Levels
  /\ LoggersOK
  /\ default_logger \in Known /\ default_cache \in Known /\ modules \in [Modules -> Known]
  /\ pc \in [Threads -> Steps] /\ hand \in [Threads -> Known]
  /\ call \in [Threads -> [target : Modules \cup {Default}, level : Nat, line : Nat]]
  /\ lines \in Nat
  /\ written \in Seq(Int)
  /\ owed \in [Threads -> SUBSET Int] /\ flushed \subseteq Int

(* Who is inside a section has the mutex. *)
Locked == \A t \in Threads : pc[t] \in Sections <=> mutex = t

Within(step) == \E t \in Threads : pc[t] = step

(* The registry disagrees only inside init() and set_level(), and the logger *)
(* of a module is no other's.                                                *)
Agreement ==
  /\ ~Within("init_level") => default_level = options.level
  /\ default_logger # NoLogger /\ ~Within("set_logger") =>
       loggers[default_logger].level = options.level
  /\ ~Within("init_level") /\ ~Within("init_cache") =>
       default_cache \in {NoLogger, default_logger}
  /\ \A m \in Modules : modules[m] # NoLogger =>
       modules[m] # default_logger /\ modules[m] # default_cache

(* What log() reads without the mutex is in force. *)
Enforced ==
  /\ options.level \in in_force /\ default_level \in in_force
  /\ default_cache # NoLogger => loggers[default_cache].level \in in_force

Judged(t) ==
  /\ hand[t] # NoLogger <=> pc[t] \in Using
  /\ pc[t] \in InLog => SeenBy(t) \subseteq seen[t]
  /\ pc[t] = "no_cache" => call[t].target = Default
  /\ pc[t] = "log" /\ call[t].target \in Modules => modules[call[t].target] # NoLogger
  /\ pc[t] \in Using =>
       /\ loggers[hand[t]].level \in seen[t]
       /\ call[t].target \in Modules => hand[t] = modules[call[t].target]
       /\ call[t].target = Default => \A m \in Modules : hand[t] # modules[m]
  /\ pc[t] \in InLog \ {"should_log", "filtered"} =>
       \E level \in seen[t] : call[t].level >= level
  /\ pc[t] = "filtered" => \E level \in seen[t] : call[t].level < level

(* A call of log() has a line of its own, which is in no file before the    *)
(* sink has it, and then only in the buffer of its logger.                  *)
Lines ==
  /\ \A t \in Threads : pc[t] \in InLog => call[t].line \in 1..lines
  /\ \A t, u \in Threads :
       pc[t] \in InLog /\ pc[u] \in InLog /\ call[t].line = call[u].line => t = u
  /\ \A t \in Threads : pc[t] \in Unwritten => call[t].line \notin ToSet(written) \cup flushed
  /\ \A t \in Threads : pc[t] = "flush" =>
       \A l \in DOMAIN loggers : call[t].line \in loggers[l].buffered => l = hand[t]
  /\ \A n \in ToSet(written) \cup flushed : n <= lines
  /\ \A l \in DOMAIN loggers : loggers[l].buffered \subseteq ToSet(written)
  /\ \A t \in Threads : owed[t] \subseteq ToSet(written)

(* What flush() owes is in the loggers of modules, if it is in a buffer.    *)
Reached ==
  /\ FlushReaches
  /\ \A t \in Threads :
       /\ owed[t] # {} => pc[t] = "flush_modules"
       /\ \A l \in {default_logger, default_cache} \ {NoLogger} :
            owed[t] \cap loggers[l].buffered = {}

LogInv ==
  /\ LogTypes /\ Locked /\ Agreement /\ Enforced
  /\ \A t \in Threads : Judged(t)
  /\ Lines /\ Reached

-----------------------------------------------------------------------------
(* The rotating files                                                      *)

(* A file of size zero holds no line. *)
LEMMA FileTypes ==
  /\ EmptyFile \in File /\ EmptyFile.lines = <<>> /\ EmptyFile.size = 0
  /\ \A x \in File : x.lines \in Seq(Int) /\ x.size \in Nat /\ (x.size = 0 => x.lines = <<>>)
BY DEF EmptyFile, File

(* A line makes a file larger, and is its last. *)
LEMMA GrownOK ==
  ASSUME NEW x \in File, NEW e \in Int, NEW s \in Nat \ {0}
  PROVE  /\ Grown(x, e, s) \in File
         /\ Grown(x, e, s).lines = Append(x.lines, e) /\ Grown(x, e, s).size = x.size + s
<1>1. x.lines \in Seq(Int) /\ x.size \in Nat
  BY FileTypes
<1>2. Append(x.lines, e) \in Seq(Int) /\ x.size + s \in Nat /\ x.size + s # 0
  BY <1>1
<1>3. QED
  BY <1>2 DEF Grown, File

(* A file is overwritten where there is one. *)
LEMMA OverwrittenOK ==
  ASSUME NEW s \in Seq(File), NEW i, NEW e, i \in DOMAIN s => e \in File
  PROVE  [s EXCEPT ![i] = e] \in Seq(File) /\ Len([s EXCEPT ![i] = e]) = Len(s)
<1> DEFINE S == File
<1>1. s \in Seq(S) /\ (i \in DOMAIN s => e \in S)
  OBVIOUS
<1> HIDE DEF S
<1>2. DOMAIN s = 1..Len(s)
  BY <1>1
<1>3. [s EXCEPT ![i] = e] \in Seq(S) /\ Len([s EXCEPT ![i] = e]) = Len(s)
  <2>1. CASE i \in DOMAIN s
    BY <1>1, <1>2, <2>1, ExceptSeq
  <2>2. CASE i \notin DOMAIN s
    <3>1. [s EXCEPT ![i] = e] = s
      BY <1>1, <1>2, <2>2
    <3>2. QED
      BY <1>1, <3>1
  <2>3. QED
    BY <2>1, <2>2
<1>4. QED
  BY <1>3 DEF S

(* A logger has the fields of its record. *)
LEMMA RecordOK ==
  ASSUME LoggersOK, NEW l \in DOMAIN loggers
  PROVE  /\ loggers[l] \in LoggerRecord
         /\ loggers[l].fd \in Nat /\ loggers[l].fd <= Len(fs.content)
         /\ loggers[l].level \in Levels /\ loggers[l].buffered \in SUBSET Nat
<1>1. loggers[l] \in LoggerRecord
  BY DEF LoggersOK
<1>2. QED
  BY <1>1 DEF LoggersOK, LoggerRecord

(* A new file is the youngest. *)
LEMMA CreatedOK ==
  ASSUME NEW f, FilesOK(f)
  PROVE  /\ FilesOK(Created(f)) /\ Len(f.content) <= Len(Created(f).content)
         /\ Created(f).name[0] # NoFile
<1> DEFINE n == Len(f.content)
<1>1. f.name \in [0..MaxFiles -> Nat] /\ f.content \in Seq(File) /\ n \in Nat
  BY DEF FilesOK, Files
<1>2. Append(f.content, EmptyFile) \in Seq(File) /\ Len(Append(f.content, EmptyFile)) = n + 1
  BY <1>1, FileTypes
<1>3. /\ [f.name EXCEPT ![0] = n + 1] \in [0..MaxFiles -> Nat]
      /\ \A i \in 0..MaxFiles : [f.name EXCEPT ![0] = n + 1][i] <= n + 1
  <2>1. \A i \in 0..MaxFiles : f.name[i] \in Nat /\ f.name[i] <= n
    BY <1>1 DEF FilesOK
  <2>2. \A i \in 0..MaxFiles : [f.name EXCEPT ![0] = n + 1][i] = IF i = 0 THEN n + 1 ELSE f.name[i]
    BY <1>1
  <2>3. [f.name EXCEPT ![0] = n + 1] \in [0..MaxFiles -> Nat]
    <3>1. n + 1 \in Nat
      BY <1>1
    <3>2. f.name \in [0..MaxFiles -> Nat]
      BY <1>1
    <3> HIDE DEF n
    <3>3. QED
      BY <3>1, <3>2
  <2>4. \A i \in 0..MaxFiles : (IF i = 0 THEN n + 1 ELSE f.name[i]) <= n + 1
    BY <1>1, <2>1
  <2>5. QED
    BY <2>2, <2>3, <2>4, Zenon
<1>4. [f.name EXCEPT ![0] = n + 1][0] # NoFile
  BY <1>1, SizesAssumption DEF NoFile
<1>5. QED
  BY <1>1, <1>2, <1>3, <1>4 DEF FilesOK, Files, Created

(* Opening a file creates it if there is none. *)
LEMMA OpenedOK ==
  ASSUME NEW f, FilesOK(f)
  PROVE  /\ FilesOK(Opened(f)) /\ Len(f.content) <= Len(Opened(f).content)
         /\ Opened(f).name[0] # NoFile
<1>1. Len(f.content) \in Nat
  BY DEF FilesOK, Files
<1>2. QED
  BY <1>1, CreatedOK DEF Opened

(* Rotation gives the files other names and creates one, or empties the only *)
(* one there is.                                                             *)
LEMMA RotatedOK ==
  ASSUME NEW f, FilesOK(f)
  PROVE  /\ FilesOK(Rotated(f)) /\ Len(f.content) <= Len(Rotated(f).content)
         /\ f.name[0] # NoFile => Rotated(f).name[0] # NoFile
<1>1. f \in Files /\ f.name \in [0..MaxFiles -> Nat] /\ f.content \in Seq(File)
      /\ Len(f.content) \in Nat
  BY DEF FilesOK, Files
<1>2. CASE MaxFiles = 0
  <2> DEFINE e == [f.content EXCEPT ![f.name[0]] = EmptyFile]
  <2>1. e \in Seq(File) /\ Len(e) = Len(f.content)
    <3> DEFINE c == f.content
               k == f.name[0]
    <3>1. c \in Seq(File) /\ EmptyFile \in File
      BY <1>1, FileTypes
    <3> HIDE DEF c, k
    <3>2. [c EXCEPT ![k] = EmptyFile] \in Seq(File) /\ Len([c EXCEPT ![k] = EmptyFile]) = Len(c)
      BY <3>1, OverwrittenOK, Zenon
    <3>3. QED
      BY <3>2 DEF c, k
  <2>2. Rotated(f) = [f EXCEPT !.content = e]
    BY <1>2 DEF Rotated
  <2>3. [f EXCEPT !.content = e].name = f.name /\ [f EXCEPT !.content = e].content = e
        /\ [f EXCEPT !.content = e] \in Files
    BY <1>1, <2>1 DEF Files
  <2>4. QED
    BY <1>1, <2>1, <2>2, <2>3 DEF FilesOK
<1>3. CASE MaxFiles # 0
  <2> DEFINE g == [f EXCEPT !.name = Shifted(f.name)]
  <2>1. /\ Shifted(f.name) \in [0..MaxFiles -> Nat]
        /\ \A i \in 0..MaxFiles : Shifted(f.name)[i] <= Len(f.content)
    <3>1. \A i \in 0..MaxFiles : i > 0 => i - 1 \in 0..MaxFiles
      BY SizesAssumption
    <3>2. \A i \in 0..MaxFiles : f.name[i] \in Nat /\ f.name[i] <= Len(f.content)
      BY <1>1 DEF FilesOK
    <3>3. QED
      BY <1>1, <3>1, <3>2 DEF Shifted, NoFile
  <2>2. g \in Files /\ g.content = f.content /\ g.name = Shifted(f.name)
    BY <1>1, <2>1 DEF Files
  <2>3. FilesOK(g)
    BY <2>1, <2>2 DEF FilesOK
  <2>4. Rotated(f) = Created(g)
    BY <1>3 DEF Rotated
  <2>5. QED
    BY <2>2, <2>3, <2>4, CreatedOK
<1>4. QED
  BY <1>2, <1>3

(* A logger is made at the end of the others, which stay as they are. *)
LEMMA MakeLoggerOK ==
  ASSUME LoggersOK, NEW o \in LogOptions, MakeLogger(o)
  PROVE  /\ LoggersOK'
         /\ Made \in Nat \ {0} /\ Made \notin DOMAIN loggers
         /\ DOMAIN loggers' = DOMAIN loggers \cup {Made}
         /\ \A l \in DOMAIN loggers : loggers'[l] = loggers[l]
         /\ loggers'[Made].level = o.level /\ loggers'[Made].buffered = {}
<1> DEFINE new == NewLogger(o)
<1>1. FilesOK(OpenedBy(o)) /\ Len(fs.content) <= Len(OpenedBy(o).content)
      /\ Len(OpenedBy(o).content) \in Nat
  <2>1. FilesOK(fs) /\ FilesOK(Opened(fs)) /\ FilesOK(Rotated(Opened(fs)))
    BY OpenedOK, RotatedOK DEF LoggersOK
  <2>2. Len(fs.content) \in Nat /\ Len(Opened(fs).content) \in Nat
        /\ Len(Rotated(Opened(fs)).content) \in Nat
    BY <2>1 DEF FilesOK, Files
  <2>3. Len(fs.content) <= Len(Opened(fs).content)
        /\ Len(Opened(fs).content) <= Len(Rotated(Opened(fs)).content)
    BY <2>1, OpenedOK, RotatedOK
  <2>4. QED
    BY <2>1, <2>2, <2>3 DEF OpenedBy
<1>2. new.fd \in Nat /\ new.fd <= Len(OpenedBy(o).content)
  <2>1. OpenedBy(o).name[0] \in Nat /\ OpenedBy(o).name[0] <= Len(OpenedBy(o).content)
    BY <1>1, SizesAssumption DEF FilesOK, Files
  <2>2. QED
    BY <1>1, <2>1 DEF NewLogger, NoFile
<1>3. new.current_size \in Nat
  <2>1. CASE o.file
    <3>1. OpenedBy(o).name[0] # NoFile
      BY <2>1, OpenedOK, RotatedOK DEF OpenedBy, LoggersOK
    <3>2. OpenedBy(o).name[0] \in DOMAIN OpenedBy(o).content
      BY <1>1, <3>1, SizesAssumption DEF FilesOK, Files, NoFile
    <3>3. OpenedBy(o).content[OpenedBy(o).name[0]] \in File
      BY <1>1, <3>2 DEF FilesOK, Files
    <3>4. QED
      BY <2>1, <3>3, FileTypes DEF NewLogger, SizeOfBase
  <2>2. CASE ~o.file
    BY <2>2 DEF NewLogger
  <2>3. QED
    BY <2>1, <2>2
<1>4. new \in LoggerRecord /\ new.level = o.level /\ new.buffered = {}
  BY <1>2, <1>3 DEF NewLogger, LoggerRecord, LogOptions
<1>5. loggers \in Seq(LoggerRecord) /\ loggers' = Append(loggers, new) /\ fs' = OpenedBy(o)
  BY DEF LoggersOK, MakeLogger
<1>6. /\ loggers' \in Seq(LoggerRecord) /\ DOMAIN loggers' = 1..(Len(loggers) + 1)
      /\ loggers'[Made] = new /\ \A l \in DOMAIN loggers : loggers'[l] = loggers[l]
      /\ DOMAIN loggers = 1..Len(loggers) /\ Len(loggers) \in Nat
  BY <1>4, <1>5 DEF Made
<1>7. LoggersOK'
  <2>1. ASSUME NEW l \in DOMAIN loggers' PROVE loggers'[l].fd <= Len(fs'.content)
    <3>1. CASE l \in DOMAIN loggers
      <4>1. loggers[l].fd \in Nat /\ loggers[l].fd <= Len(fs.content)
        BY <3>1, RecordOK
      <4>2. Len(fs.content) \in Nat
        BY DEF LoggersOK, FilesOK, Files
      <4>3. QED
        BY <1>1, <1>5, <1>6, <3>1, <4>1, <4>2
    <3>2. CASE l = Made
      BY <1>2, <1>5, <1>6, <3>2
    <3>3. QED
      BY <1>6, <2>1, <3>1, <3>2 DEF Made
  <2>2. QED
    BY <1>1, <1>5, <1>6, <2>1 DEF LoggersOK
<1>8. QED
  BY <1>4, <1>6, <1>7 DEF Made

(* A line goes to the file and buffer of its logger. *)
LEMMA SinkOK ==
  ASSUME LoggersOK, written \in Seq(Int), NEW l \in DOMAIN loggers, NEW n \in Nat,
         NEW s \in Nat \ {0}, SinkIt(l, n, s)
  PROVE  /\ LoggersOK' /\ DOMAIN loggers' = DOMAIN loggers
         /\ written' \in Seq(Int) /\ ToSet(written) \subseteq ToSet(written')
         /\ ToSet(written') \subseteq ToSet(written) \cup {n}
         /\ \A k \in DOMAIN loggers : k # l => loggers'[k] = loggers[k]
         /\ loggers'[l].level = loggers[l].level
         /\ loggers'[l].buffered \subseteq loggers[l].buffered \cup {n}
         /\ n \in ToSet(written') \/ loggers' = loggers
<1>1. CASE loggers[l].fd = NoFile
  <2>1. UNCHANGED <<loggers, fs, written>>
    BY <1>1 DEF SinkIt
  <2>2. QED
    BY <2>1 DEF LoggersOK, ToSet, FilesOK
<1>2. CASE loggers[l].fd # NoFile
  <2> DEFINE full == Full(l, s)
             files == IF full THEN Rotated(fs) ELSE fs
             fd == IF full THEN files.name[0] ELSE loggers[l].fd
             old == loggers[l]
             size == IF full THEN s ELSE old.current_size + s
             buffer == IF full THEN {n} ELSE old.buffered \cup {n}
             new == [[[old EXCEPT !.fd = fd] EXCEPT !.current_size = size] EXCEPT !.buffered = buffer]
             grown == [files.content EXCEPT ![fd] = Grown(files.content[fd], n, s)]
  <2>1. /\ fs' = [files EXCEPT !.content = grown]
        /\ loggers' = [loggers EXCEPT ![l] = new]
        /\ written' = Append(written, n)
    BY <1>2 DEF SinkIt
  <2>2. old \in LoggerRecord /\ old.fd <= Len(fs.content) /\ old.fd \in Nat
    BY RecordOK
  <2>3. FilesOK(files) /\ Len(fs.content) <= Len(files.content) /\ files.content \in Seq(File)
        /\ Len(fs.content) \in Nat /\ Len(files.content) \in Nat
    <3>1. FilesOK(fs)
      BY DEF LoggersOK
    <3>2. FilesOK(files) /\ (files = fs \/ Len(fs.content) <= Len(files.content))
      BY <3>1, RotatedOK
    <3>3. /\ fs.content \in Seq(File) /\ files.content \in Seq(File)
          /\ Len(fs.content) \in Nat /\ Len(files.content) \in Nat
      BY <3>1, <3>2 DEF FilesOK, Files
    <3>4. QED
      BY <3>2, <3>3
  <2>4. fd \in Nat /\ fd <= Len(files.content)
    BY <2>2, <2>3, SizesAssumption DEF FilesOK, Files
  <2>5. new \in LoggerRecord /\ new.fd = fd /\ new.level = old.level /\ new.buffered = buffer
    <3>1. size \in Nat /\ buffer \in SUBSET Nat
      BY <2>2 DEF LoggerRecord
    <3> HIDE DEF fd, size, buffer
    <3>2. QED
      BY <2>2, <2>4, <3>1 DEF LoggerRecord
  <2>6. grown \in Seq(File) /\ Len(grown) = Len(files.content)
    <3>1. fd \in DOMAIN files.content => files.content[fd] \in File
      BY <2>3
    <3>2. fd \in DOMAIN files.content => Grown(files.content[fd], n, s) \in File
      BY <3>1, GrownOK
    <3> DEFINE c == files.content
               x == Grown(c[fd], n, s)
    <3>3. c \in Seq(File) /\ (fd \in DOMAIN c => x \in File)
      BY <2>3, <3>2
    <3> HIDE DEF c, fd, x
    <3>4. [c EXCEPT ![fd] = x] \in Seq(File) /\ Len([c EXCEPT ![fd] = x]) = Len(c)
      BY <3>3, OverwrittenOK, Zenon
    <3>5. QED
      BY <3>4 DEF c, x
  <2>7. FilesOK(fs') /\ Len(fs'.content) = Len(files.content)
    BY <2>1, <2>3, <2>6 DEF FilesOK, Files
  <2>8. /\ loggers' \in Seq(LoggerRecord) /\ DOMAIN loggers' = DOMAIN loggers
        /\ loggers'[l] = new /\ \A k \in DOMAIN loggers : k # l => loggers'[k] = loggers[k]
    BY <2>1, <2>5 DEF LoggersOK
  <2>9. LoggersOK'
    <3>1. \A k \in DOMAIN loggers : loggers[k].fd \in Nat /\ loggers[k].fd <= Len(fs.content)
      BY RecordOK
    <3>2. \A k \in DOMAIN loggers : loggers'[k].fd <= Len(fs'.content)
      <4> HIDE DEF files, fd, new
      <4>1. ASSUME NEW k \in DOMAIN loggers, k # l PROVE loggers'[k].fd <= Len(fs'.content)
        BY <2>3, <2>7, <2>8, <3>1, <4>1
      <4>2. loggers'[l].fd <= Len(fs'.content)
        BY <2>4, <2>5, <2>7, <2>8
      <4>3. QED
        BY <4>1, <4>2
    <3>3. QED
      BY <2>7, <2>8, <3>2, Zenon DEF LoggersOK
  <2>10. written' \in Seq(Int) /\ ToSet(written') = ToSet(written) \cup {n}
    <3>1. /\ written' \in Seq(Int) /\ DOMAIN written' = 1..(Len(written) + 1)
          /\ DOMAIN written = 1..Len(written) /\ Len(written) \in Nat
          /\ written'[Len(written) + 1] = n
          /\ \A k \in DOMAIN written : written'[k] = written[k]
      BY <2>1
    <3>2. QED
      BY <3>1 DEF ToSet
  <2>11. QED
    BY <2>5, <2>8, <2>9, <2>10
<1>3. QED
  BY <1>1, <1>2

-----------------------------------------------------------------------------
(* What steps leave as it is                                               *)

(* Loggers and those of modules are only added. *)
Grows ==
  /\ DOMAIN loggers \subseteq DOMAIN loggers'
  /\ \A m \in Modules : \/ modules'[m] = modules[m]
                        \/ modules[m] = NoLogger /\ modules'[m] \notin Known

Outside(t) ==
  \A u \in Threads \ {t} : pc'[u] = pc[u] /\ hand'[u] = hand[u] /\ call'[u] = call[u]

(* The level of a logger in use changes only to one that is in force. *)
LevelKept(u) ==
  pc[u] \in Using =>
    loggers'[hand[u]].level = loggers[hand[u]].level \/ loggers'[hand[u]].level \in SeenBy(u)'

(* What a thread in log() sees is collected. *)
LEMMA Observed ==
  ASSUME Observe
  PROVE  /\ options'.level \in in_force'
         /\ mutex' # NoThread => in_force \subseteq in_force'
         /\ mutex' = NoThread => in_force' = {options'.level}
         /\ \A u \in Threads : pc'[u] \in InLog => seen'[u] = seen[u] \cup SeenBy(u)'
BY DEF Observe, InLog, Unwritten, SeenBy, InForce

(* A call of log() that does nothing is judged as before. *)
LEMMA JudgedKeep ==
  ASSUME LogTypes, Observe, Grows, NEW u \in Threads, Judged(u), LevelKept(u),
         pc'[u] = pc[u], hand'[u] = hand[u], call'[u] = call[u]
  PROVE  Judged(u)'
<1>1. pc[u] \in InLog => seen[u] \subseteq seen'[u] /\ SeenBy(u)' \subseteq seen'[u]
  BY Observed
<1>2. Using \subseteq InLog /\ hand[u] \in Known
  BY DEF Using, InLog, Unwritten, LogTypes
<1>3. \A m \in Modules : modules[m] # NoLogger => modules'[m] = modules[m]
  BY DEF Grows
<1>4. hand[u] # NoLogger => \A m \in Modules : hand[u] # modules[m] => hand[u] # modules'[m]
  BY <1>2 DEF Grows
<1>5. pc[u] \in Using => hand[u] # NoLogger
  BY DEF Judged
<1>6. pc[u] \in Using => loggers'[hand[u]].level \in seen'[u]
  BY <1>1, <1>2 DEF LevelKept, Judged
<1>7. /\ pc'[u] = "no_cache" => call'[u].target = Default
      /\ pc'[u] = "log" /\ call'[u].target \in Modules => modules'[call'[u].target] # NoLogger
  BY <1>3 DEF Judged
<1>8. pc'[u] \in Using =>
        /\ call'[u].target \in Modules => hand'[u] = modules'[call'[u].target]
        /\ call'[u].target = Default => \A m \in Modules : hand'[u] # modules'[m]
  BY <1>3, <1>4, <1>5 DEF Judged
<1>9. /\ pc'[u] \in InLog \ {"should_log", "filtered"} =>
           \E level \in seen'[u] : call'[u].level >= level
      /\ pc'[u] = "filtered" => \E level \in seen'[u] : call'[u].level < level
  <2>1. pc[u] = "filtered" => pc[u] \in InLog
    BY DEF InLog
  <2>2. QED
    BY <1>1, <2>1 DEF Judged
<1>10. QED
  BY <1>1, <1>2, <1>6, <1>7, <1>8, <1>9 DEF Judged

(* A step into, within or out of a section: no other thread is in one. *)
LEMMA InSection ==
  ASSUME Locked, ThreadsAssumption, NEW t \in Threads, mutex \in {NoThread, t},
         pc \in [Threads -> Steps], NEW step \in Steps, Goto(t, step),
         mutex' = IF step \in Sections THEN t ELSE NoThread
  PROVE  /\ Locked'
         /\ \A s \in Sections : (Within(s) <=> pc[t] = s) /\ (Within(s)' <=> step = s)
<1>1. pc'[t] = step /\ \A u \in Threads \ {t} : pc'[u] = pc[u] /\ pc[u] \notin Sections
  BY DEF Goto, Locked
<1>2. QED
  BY <1>1 DEF Locked, Within

(* A step outside every section leaves the mutex where it is. *)
LEMMA OutOfSection ==
  ASSUME Locked, NEW t \in Threads, pc \in [Threads -> Steps], NEW step \in Steps, Goto(t, step),
         pc[t] \notin Sections, step \notin Sections, UNCHANGED mutex
  PROVE  Locked' /\ \A s \in Sections : Within(s)' <=> Within(s)
<1>1. pc'[t] = step /\ \A u \in Threads \ {t} : pc'[u] = pc[u]
  BY DEF Goto
<1>2. QED
  BY <1>1 DEF Locked, Within

(* Buffers of loggers only lose lines. *)
BuffersKept ==
  /\ DOMAIN loggers \subseteq DOMAIN loggers'
  /\ \A l \in DOMAIN loggers' :
       IF l \in DOMAIN loggers THEN loggers'[l].buffered \subseteq loggers[l].buffered
       ELSE loggers'[l].buffered = {}

(* Lines that are flushed had been written, or are no other thread's.      *)
LEMMA LinesFlushed ==
  ASSUME LogTypes, Lines, UNCHANGED <<lines, written>>, BuffersKept,
         \A n \in flushed' : \/ n \in flushed \cup ToSet(written)
                           \/ \E u \in Threads : pc[u] = "flush" /\ n = call[u].line,
         \A u \in Threads : owed'[u] \subseteq ToSet(written),
         \A u \in Threads :
           /\ pc'[u] \in InLog => pc[u] \in InLog /\ call'[u].line = call[u].line
           /\ pc'[u] \in Unwritten => pc[u] \in Unwritten
           /\ pc'[u] = "flush" => pc[u] = "flush" /\ hand'[u] = hand[u]
  PROVE  Lines'
<1>1. \A u, v \in Threads :
        pc'[u] \in InLog /\ pc'[v] \in InLog /\ call'[u].line = call'[v].line => u = v
  BY DEF Lines
<1>2. \A u \in Threads : pc'[u] \in InLog => call'[u].line \in 1..lines'
  BY DEF Lines
<1>3. Unwritten \subseteq InLog /\ "flush" \in InLog /\ "flush" \notin Unwritten
  BY DEF InLog, Unwritten
<1>4. ToSet(written') = ToSet(written)
  BY DEF ToSet
<1>5. ASSUME NEW u \in Threads, pc'[u] \in Unwritten
      PROVE  call'[u].line \notin ToSet(written') \cup flushed'
  <2>1. pc[u] \in Unwritten /\ pc[u] \in InLog /\ call'[u].line = call[u].line
    BY <1>3, <1>5
  <2>2. call[u].line \notin ToSet(written) \cup flushed
    BY <2>1 DEF Lines
  <2>3. \A v \in Threads : pc[v] = "flush" => call[u].line # call[v].line
    BY <1>3, <2>1 DEF Lines
  <2>4. QED
    BY <1>4, <2>1, <2>2, <2>3
<1>6. \A l \in DOMAIN loggers' : loggers'[l].buffered \subseteq ToSet(written')
  BY <1>4 DEF Lines, BuffersKept
<1>7. \A u \in Threads : pc'[u] = "flush" =>
        \A l \in DOMAIN loggers' : call'[u].line \in loggers'[l].buffered => l = hand'[u]
  <2> SUFFICES ASSUME NEW u \in Threads, pc'[u] = "flush", NEW l \in DOMAIN loggers',
                      call'[u].line \in loggers'[l].buffered
               PROVE  l = hand'[u]
    OBVIOUS
  <2>1. l \in DOMAIN loggers /\ call[u].line \in loggers[l].buffered /\ pc[u] = "flush"
    BY <1>3 DEF BuffersKept
  <2>2. QED
    BY <2>1 DEF Lines
<1>8. \A n \in ToSet(written') \cup flushed' : n <= lines'
  <2>1. \A u \in Threads : pc[u] = "flush" => call[u].line <= lines
    BY <1>3 DEF Lines, LogTypes
  <2>2. \A n \in ToSet(written) \cup flushed : n <= lines
    BY DEF Lines
  <2>3. QED
    BY <1>4, <2>1, <2>2
<1>9. QED
  BY <1>1, <1>2, <1>4, <1>5, <1>6, <1>7, <1>8 DEF Lines

(* A step that begins no call, writes nothing and flushes nothing *)
LEMMA LinesKeep ==
  ASSUME LogTypes, Lines, UNCHANGED <<lines, written, flushed, owed>>, BuffersKept,
         \A u \in Threads :
           /\ pc'[u] \in InLog => pc[u] \in InLog /\ call'[u].line = call[u].line
           /\ pc'[u] \in Unwritten => pc[u] \in Unwritten
           /\ pc'[u] = "flush" => pc[u] = "flush" /\ hand'[u] = hand[u]
  PROVE  Lines'
<1>1. \A u \in Threads : owed'[u] \subseteq ToSet(written)
  BY DEF Lines
<1>2. QED
  BY <1>1, LinesFlushed

(* What has been flushed stays out of the buffers that are reached.        *)
LEMMA FlushedKeep ==
  ASSUME LogTypes, Reached, UNCHANGED flushed, BuffersKept, LogTypes',
         \A l \in {default_logger', default_cache'} :
           l \in {NoLogger, default_logger, default_cache} \/ l \notin DOMAIN loggers,
         \A m \in Modules : modules'[m] = modules[m] \/ modules'[m] \notin DOMAIN loggers
  PROVE  FlushReaches'
<1> DEFINE R == ModuleLoggers \cup ({default_logger, default_cache} \ {NoLogger})
<1>1. \A l \in R' : l \in DOMAIN loggers' /\ (l \in R \/ l \notin DOMAIN loggers)
  BY DEF LogTypes, Known, ModuleLoggers
<1>2. \A l \in R' : flushed \cap loggers'[l].buffered = {}
  <2> SUFFICES ASSUME NEW l \in R' PROVE flushed \cap loggers'[l].buffered = {}
    OBVIOUS
  <2>1. CASE l \in R /\ l \in DOMAIN loggers
    <3>1. flushed \cap loggers[l].buffered = {}
      BY <2>1 DEF Reached, FlushReaches, Buffered
    <3>2. QED
      BY <1>1, <2>1, <3>1 DEF BuffersKept
  <2>2. CASE l \notin DOMAIN loggers
    BY <1>1, <2>2 DEF BuffersKept
  <2>3. QED
    BY <1>1, <2>1, <2>2
<1>3. QED
  BY <1>2 DEF FlushReaches, Buffered

(* ... leaves what is owed out of the buffers of the default loggers. *)
LEMMA ReachedKeep ==
  ASSUME LogTypes, Reached, UNCHANGED <<flushed, owed>>, BuffersKept, LogTypes',
         \A l \in {default_logger', default_cache'} :
           l \in {NoLogger, default_logger, default_cache} \/ l \notin DOMAIN loggers,
         \A m \in Modules : modules'[m] = modules[m] \/ modules'[m] \notin DOMAIN loggers,
         \A u \in Threads : pc[u] = "flush_modules" => pc'[u] = "flush_modules"
  PROVE  Reached'
<1>1. ASSUME NEW t \in Threads, NEW l \in {default_logger', default_cache'} \ {NoLogger}
      PROVE  owed[t] \cap loggers'[l].buffered = {}
  <2>1. l \in DOMAIN loggers'
    BY DEF LogTypes, Known
  <2>2. CASE l \in DOMAIN loggers
    <3>1. owed[t] \cap loggers[l].buffered = {}
      BY <2>2 DEF Reached
    <3>2. QED
      BY <2>1, <2>2, <3>1 DEF BuffersKept
  <2>3. CASE l \notin DOMAIN loggers
    BY <2>1, <2>3 DEF BuffersKept
  <2>4. QED
    BY <2>2, <2>3
<1>2. QED
  BY <1>1, FlushedKeep DEF Reached

-----------------------------------------------------------------------------
(* init(), set_level(), get_level()                                        *)

(* A step of t changes nothing for the calls of the others. *)
LEMMA JudgedAll ==
  ASSUME LogInv, Observe, Grows, NEW t \in Threads, Outside(t), Judged(t)',
         \A u \in Threads : LevelKept(u)
  PROVE  \A u \in Threads : Judged(u)'
BY JudgedKeep DEF LogInv, Outside

(* A step that leaves loggers and modules alone *)
LEMMA Static ==
  ASSUME UNCHANGED <<loggers, modules>>
  PROVE  Grows /\ BuffersKept /\ \A u \in Threads : LevelKept(u)
<1>1. Grows
  BY DEF Grows
<1>2. BuffersKept
  BY Zenon DEF BuffersKept
<1>3. \A u \in Threads : LevelKept(u)
  BY Zenon DEF LevelKept
<1>4. QED
  BY <1>1, <1>2, <1>3

(* What calls of log() see of a step outside log() *)
LEMMA ConfigureKeeps ==
  ASSUME LogInv, LogTypes', Observe, NEW t \in Threads,
         NEW step \in Sections \cup {"idle"}, Goto(t, step), pc[t] \in Sections \cup {"idle"},
         pc[t] # "flush_modules", UNCHANGED <<hand, call, lines, written, flushed, owed>>,
         Grows, BuffersKept, \A u \in Threads : LevelKept(u),
         \A l \in {default_logger', default_cache'} :
           l \in {NoLogger, default_logger, default_cache} \/ l \notin DOMAIN loggers
  PROVE  (\A u \in Threads : Judged(u)') /\ Lines' /\ Reached'
<1>1. pc'[t] = step /\ \A u \in Threads \ {t} : pc'[u] = pc[u]
  BY DEF Goto, LogInv, LogTypes
<1>2. /\ Outside(t)
      /\ step \notin InLog /\ pc[t] \notin InLog
      /\ Using \subseteq InLog /\ Unwritten \subseteq InLog /\ "flush" \in InLog /\ "filtered" \in InLog
  BY <1>1 DEF Outside, InLog, Sections, Using, Unwritten
<1>3. Judged(t)'
  <2>1. hand[t] = NoLogger
    BY <1>2 DEF LogInv, Judged
  <2>2. pc'[t] = step /\ hand'[t] = NoLogger
    BY <1>1, <2>1
  <2>3. pc'[t] \notin InLog /\ pc'[t] \notin Using /\ pc'[t] # "no_cache" /\ pc'[t] # "log"
    BY <1>2, <2>2 DEF InLog, Unwritten
  <2>4. QED
    BY <1>2, <2>2, <2>3 DEF Judged
<1>4. \A u \in Threads : Judged(u)'
  BY <1>2, <1>3, JudgedAll
<1>5. Lines'
  BY <1>1, <1>2, LinesKeep DEF LogInv
<1>6. \A m \in Modules : modules'[m] = modules[m] \/ modules'[m] \notin DOMAIN loggers
  BY DEF Grows, Known
<1>7. Reached'
  BY <1>1, <1>6, ReachedKeep DEF LogInv
<1>8. QED
  BY <1>4, <1>5, <1>7

(* ... and a step that leaves pc alone *)
LEMMA ModuleKeeps ==
  ASSUME LogInv, LogTypes', Observe,
         UNCHANGED <<pc, hand, call, lines, written, flushed, owed, default_logger, default_cache>>,
         Grows, BuffersKept, \A u \in Threads : LevelKept(u)
  PROVE  (\A u \in Threads : Judged(u)') /\ Lines' /\ Reached'
<1>1. \A u \in Threads : Judged(u)'
  BY JudgedKeep DEF LogInv
<1>2. Lines'
  BY LinesKeep DEF LogInv
<1>3. \A m \in Modules : modules'[m] = modules[m] \/ modules'[m] \notin DOMAIN loggers
  BY DEF Grows, Known
<1>4. Reached'
  BY <1>3, ReachedKeep DEF LogInv
<1>5. QED
  BY <1>1, <1>2, <1>4

(* A logger is made: nobody uses it yet, and its level is that of the options. *)
LEMMA MakeKeeps ==
  ASSUME LogInv, NEW o \in LogOptions, MakeLogger(o)
  PROVE  /\ LoggersOK' /\ Made \notin Known /\ Made \in Known'
         /\ Known \subseteq Known' /\ BuffersKept /\ \A u \in Threads : LevelKept(u)
         /\ \A l \in Known : l # NoLogger => loggers'[l] = loggers[l]
         /\ loggers'[Made].level = o.level
<1>1. /\ LoggersOK'
      /\ Made \in Nat \ {0} /\ Made \notin DOMAIN loggers
      /\ DOMAIN loggers' = DOMAIN loggers \cup {Made}
      /\ \A l \in DOMAIN loggers : loggers'[l] = loggers[l]
      /\ loggers'[Made].level = o.level /\ loggers'[Made].buffered = {}
  BY MakeLoggerOK DEF LogInv, LogTypes
<1>2. NoLogger \notin DOMAIN loggers
  BY DEF LogInv, LogTypes, LoggersOK, NoLogger
<1>3. Made \notin Known /\ Made \in Known' /\ Known \subseteq Known'
  BY <1>1 DEF Known, NoLogger
<1>4. BuffersKept
  BY <1>1 DEF BuffersKept
<1>5. \A u \in Threads : LevelKept(u)
  <2>1. \A u \in Threads : pc[u] \in Using => hand[u] \in DOMAIN loggers
    BY DEF LogInv, Judged, LogTypes, Known
  <2>2. QED
    BY <1>1, <2>1 DEF LevelKept
<1>6. QED
  BY <1>1, <1>3, <1>4, <1>5 DEF Known

(* init() makes the default logger anew ... *)
LEMMA InitLoggingStep ==
  ASSUME LogInv, NEW t \in Threads, NEW o \in Options, InitLogging(t, o), Observe
  PROVE  LogInv'
<1>1. /\ pc[t] = "idle" /\ mutex = NoThread /\ mutex' = t /\ options' = o /\ o \in LogOptions
      /\ MakeLogger(o) /\ default_logger' = Made /\ Goto(t, "init_level")
      /\ UNCHANGED <<modules, default_level, default_cache, hand, call, lines, written, owed, flushed>>
  BY OptionsAssumption DEF InitLogging, historyVars
<1>2. /\ LoggersOK' /\ Made \notin Known /\ Made \in Known'
      /\ Known \subseteq Known' /\ BuffersKept /\ \A u \in Threads : LevelKept(u)
      /\ \A l \in Known : l # NoLogger => loggers'[l] = loggers[l]
      /\ loggers'[Made].level = o.level
  BY <1>1, MakeKeeps
<1>3. LogTypes'
  BY <1>1, <1>2 DEF LogInv, LogTypes, Goto, Steps, Sections
<1>4. Locked' /\ Within("init_level")'
  BY <1>1, InSection, ThreadsAssumption DEF LogInv, LogTypes, Steps, Sections
<1>5. Agreement'
  <2>1. \A m \in Modules : modules[m] \in Known
    BY DEF LogInv, LogTypes
  <2>2. QED
    BY <1>1, <1>2, <1>4, <2>1 DEF LogInv, Agreement
<1>6. Enforced'
  <2>1. options'.level \in in_force' /\ in_force \subseteq in_force'
    BY <1>1, Observed, ThreadsAssumption
  <2>2. QED
    BY <1>1, <1>2, <2>1 DEF LogInv, LogTypes, Enforced
<1>7. Grows
  <2>1. DOMAIN loggers \subseteq DOMAIN loggers'
    BY <1>2 DEF BuffersKept
  <2>2. QED
    BY <1>1, <2>1 DEF Grows
<1>8. Made \notin DOMAIN loggers
  BY <1>2 DEF Known
<1>9. (\A u \in Threads : Judged(u)') /\ Lines' /\ Reached'
  BY <1>1, <1>2, <1>3, <1>7, <1>8, ConfigureKeeps DEF Sections
<1>10. QED
  BY <1>3, <1>4, <1>5, <1>6, <1>9 DEF LogInv

(* ... then caches the level ... *)
LEMMA InitLevelStep ==
  ASSUME LogInv, NEW t \in Threads, InitLevel(t), Observe
  PROVE  LogInv'
<1>1. /\ pc[t] = "init_level" /\ default_level' = options.level /\ Goto(t, "init_cache")
      /\ UNCHANGED <<mutex, options, default_logger, modules, default_cache, loggers, fs,
                      hand, call, lines, written, owed, flushed>>
  BY DEF InitLevel, historyVars
<1>2. mutex = t
  BY <1>1 DEF LogInv, Locked, Sections
<1>3. LogTypes'
  BY <1>1 DEF LogInv, LogTypes, LoggersOK, FilesOK, Known, Goto, Steps, Sections, LogOptions
<1>4. /\ Locked'
      /\ ~Within("set_logger") /\ ~Within("init_cache")
      /\ Within("init_cache")' /\ ~Within("init_level")'
  BY <1>1, <1>2, InSection, ThreadsAssumption DEF LogInv, LogTypes, Steps, Sections
<1>5. Agreement'
  BY <1>1, <1>4 DEF LogInv, Agreement
<1>6. Enforced'
  <2>1. options'.level \in in_force' /\ in_force \subseteq in_force'
    BY <1>1, <1>2, Observed, ThreadsAssumption
  <2>2. QED
    BY <1>1, <2>1 DEF LogInv, Enforced
<1>7. (\A u \in Threads : Judged(u)') /\ Lines' /\ Reached'
  BY <1>1, <1>3, Static, ConfigureKeeps DEF Sections
<1>8. QED
  BY <1>3, <1>4, <1>5, <1>6, <1>7 DEF LogInv

(* ... and the logger. *)
LEMMA InitCacheStep ==
  ASSUME LogInv, NEW t \in Threads, InitCache(t), Observe
  PROVE  LogInv'
<1>1. /\ pc[t] = "init_cache" /\ default_cache' = default_logger /\ mutex' = NoThread
      /\ Goto(t, "idle")
      /\ UNCHANGED <<options, default_logger, modules, default_level, loggers, fs,
                      hand, call, lines, written, owed, flushed>>
  BY DEF InitCache, historyVars
<1>2. mutex = t
  BY <1>1 DEF LogInv, Locked, Sections
<1>3. LogTypes'
  BY <1>1 DEF LogInv, LogTypes, LoggersOK, FilesOK, Known, Goto, Steps, Sections
<1>4. Locked' /\ ~Within("set_logger") /\ ~Within("init_level")
  BY <1>1, <1>2, InSection, ThreadsAssumption DEF LogInv, LogTypes, Steps, Sections
<1>5. default_level = options.level /\ (default_logger # NoLogger => loggers[default_logger].level = options.level)
  BY <1>4 DEF LogInv, Agreement
<1>6. Agreement'
  BY <1>1, <1>5 DEF LogInv, Agreement
<1>7. Enforced'
  BY <1>1, <1>5, Observed DEF Enforced
<1>8. (\A u \in Threads : Judged(u)') /\ Lines' /\ Reached'
  BY <1>1, <1>3, Static, ConfigureKeeps DEF Sections
<1>9. QED
  BY <1>3, <1>4, <1>6, <1>7, <1>8 DEF LogInv

(* set_level(level) caches the level ... *)
LEMMA SetLevelStep ==
  ASSUME LogInv, NEW t \in Threads, NEW level \in Levels, SetLevel(t, level), Observe
  PROVE  LogInv'
<1>1. /\ pc[t] = "idle" /\ mutex = NoThread /\ mutex' = t
      /\ options' = [options EXCEPT !.level = level] /\ default_level' = level
      /\ Goto(t, "set_logger")
      /\ UNCHANGED <<default_logger, modules, default_cache, loggers, fs,
                      hand, call, lines, written, owed, flushed>>
  BY DEF SetLevel, historyVars
<1>2. options' \in LogOptions /\ options'.level = level
  BY <1>1 DEF LogInv, LogTypes, LogOptions
<1>3. LogTypes'
  BY <1>1, <1>2 DEF LogInv, LogTypes, LoggersOK, FilesOK, Known, Goto, Steps, Sections
<1>4. /\ Locked' /\ Within("set_logger")'
      /\ ~Within("init_level") /\ ~Within("init_cache")
  BY <1>1, InSection, ThreadsAssumption DEF LogInv, LogTypes, Steps, Sections
<1>5. Agreement'
  BY <1>1, <1>2, <1>4 DEF LogInv, Agreement
<1>6. Enforced'
  <2>1. options'.level \in in_force' /\ in_force \subseteq in_force'
    BY <1>1, Observed, ThreadsAssumption
  <2>2. QED
    BY <1>1, <1>2, <2>1 DEF LogInv, Enforced
<1>7. (\A u \in Threads : Judged(u)') /\ Lines' /\ Reached'
  BY <1>1, <1>3, Static, ConfigureKeeps DEF Sections
<1>8. QED
  BY <1>3, <1>4, <1>5, <1>6, <1>7 DEF LogInv

(* A logger gets another level. *)
LEMMA LevelSet ==
  ASSUME LoggersOK, NEW l \in DOMAIN loggers, NEW level \in Levels,
         loggers' = [loggers EXCEPT ![l].level = level], fs' = fs
  PROVE  /\ LoggersOK' /\ DOMAIN loggers' = DOMAIN loggers
         /\ \A k \in DOMAIN loggers : k # l => loggers'[k] = loggers[k]
         /\ loggers'[l].level = level /\ BuffersKept
<1> DEFINE new == [loggers[l] EXCEPT !.level = level]
<1>1. loggers[l] \in LoggerRecord
  BY RecordOK
<1>2. /\ new \in LoggerRecord /\ new.level = level
      /\ new.fd = loggers[l].fd /\ new.buffered = loggers[l].buffered
  BY <1>1 DEF LoggerRecord
<1>3. loggers' = [loggers EXCEPT ![l] = new]
  OBVIOUS
<1> HIDE DEF new
<1>4. /\ loggers' \in Seq(LoggerRecord) /\ DOMAIN loggers' = DOMAIN loggers /\ loggers'[l] = new
      /\ \A k \in DOMAIN loggers : k # l => loggers'[k] = loggers[k]
  BY <1>2, <1>3 DEF LoggersOK
<1>5. \A k \in DOMAIN loggers :
        loggers'[k].fd = loggers[k].fd /\ loggers'[k].buffered = loggers[k].buffered
  BY <1>2, <1>4
<1>6. BuffersKept
  BY <1>4, <1>5 DEF BuffersKept
<1>7. LoggersOK'
  BY <1>4, <1>5 DEF LoggersOK, FilesOK
<1>8. QED
  BY <1>2, <1>4, <1>6, <1>7

(* set_level() gives the default logger the new level, or makes one. *)
LEMMA SetLoggerStep ==
  ASSUME LogInv, NEW t \in Threads, SetLogger(t), Observe
  PROVE  LogInv'
<1>1. /\ pc[t] = "set_logger" /\ mutex' = NoThread /\ Goto(t, "idle")
      /\ UNCHANGED <<options, modules, default_level, default_cache,
                     hand, call, lines, written, owed, flushed>>
  BY DEF SetLogger, historyVars
<1>2. mutex = t /\ options \in LogOptions /\ options.level \in Levels
  BY <1>1 DEF LogInv, LogTypes, Locked, Sections, LogOptions
<1>3. Locked' /\ ~Within("init_cache") /\ ~Within("init_level")
  BY <1>1, <1>2, InSection, ThreadsAssumption DEF LogInv, LogTypes, Steps, Sections
<1>4. default_level = options.level /\ default_cache \in {NoLogger, default_logger}
  BY <1>3 DEF LogInv, Agreement
<1>5. in_force' = {options.level}
  BY <1>1, Observed
<1>6. \A m \in Modules : modules[m] \in Known /\ (modules[m] # NoLogger => modules[m] # default_logger)
  BY DEF LogInv, LogTypes, Agreement
<1>7. /\ LoggersOK' /\ default_logger' \in Known' \ {NoLogger} /\ Known \subseteq Known'
      /\ BuffersKept /\ \A u \in Threads : LevelKept(u)
      /\ loggers'[default_logger'].level = options.level
      /\ default_cache \in {NoLogger, default_logger'}
      /\ default_logger' = default_logger \/ default_logger' \notin Known
  <2>1. CASE default_logger = NoLogger
    <3>1. MakeLogger(options) /\ default_logger' = Made
      BY <2>1 DEF SetLogger
    <3>2. Made # NoLogger
      BY <1>2, <3>1, MakeKeeps DEF Known
    <3>3. QED
      BY <1>2, <1>4, <2>1, <3>1, <3>2, MakeKeeps
  <2>2. CASE default_logger # NoLogger
    <3>1. /\ loggers' = [loggers EXCEPT ![default_logger].level = options.level]
          /\ UNCHANGED <<default_logger, fs>>
      BY <2>2 DEF SetLogger
    <3>2. default_logger \in DOMAIN loggers /\ LoggersOK
      BY <2>2 DEF LogInv, LogTypes, Known
    <3>3. /\ LoggersOK' /\ DOMAIN loggers' = DOMAIN loggers
          /\ \A k \in DOMAIN loggers : k # default_logger => loggers'[k] = loggers[k]
          /\ loggers'[default_logger].level = options.level /\ BuffersKept
      BY <1>2, <3>1, <3>2, LevelSet
    <3>4. ASSUME NEW u \in Threads, pc[u] \in Using
          PROVE  \/ loggers'[hand[u]].level = loggers[hand[u]].level
                 \/ loggers'[hand[u]].level \in SeenBy(u)'
      <4>1. hand[u] \in DOMAIN loggers /\ Judged(u) /\ call[u].target \in Modules \cup {Default}
        BY <3>4 DEF LogInv, Judged, LogTypes, Known
      <4>2. CASE hand[u] # default_logger
        BY <3>3, <4>1, <4>2
      <4>3. CASE hand[u] = default_logger
        <5>1. call[u].target = Default
          BY <1>6, <2>2, <3>4, <4>1, <4>3 DEF Judged
        <5>2. SeenBy(u)' = in_force'
          BY <1>1, <5>1 DEF SeenBy, InForce
        <5>3. QED
          BY <1>5, <3>3, <4>3, <5>2
      <4>4. QED
        BY <4>2, <4>3
    <3>5. \A u \in Threads : LevelKept(u)
      BY <3>4 DEF LevelKept
    <3>6. QED
      BY <1>4, <2>2, <3>1, <3>2, <3>3, <3>5 DEF Known
  <2>3. QED
    BY <2>1, <2>2
<1>8. LogTypes'
  BY <1>1, <1>7 DEF LogInv, LogTypes, Goto, Steps, Sections
<1>9. Agreement'
  BY <1>1, <1>4, <1>6, <1>7 DEF LogInv, Agreement
<1>10. Enforced'
  BY <1>1, <1>4, <1>5, <1>7 DEF Enforced
<1>11. Grows
  <2>1. DOMAIN loggers \subseteq DOMAIN loggers'
    BY <1>7 DEF BuffersKept
  <2>2. QED
    BY <1>1, <2>1 DEF Grows
<1>12. default_logger' \in {NoLogger, default_logger, default_cache} \/ default_logger' \notin DOMAIN loggers
  BY <1>7 DEF Known
<1>13. (\A u \in Threads : Judged(u)') /\ Lines' /\ Reached'
  BY <1>1, <1>7, <1>8, <1>11, <1>12, ConfigureKeeps DEF Sections
<1>14. QED
  BY <1>3, <1>8, <1>9, <1>10, <1>13 DEF LogInv

(* A module has a logger of its own from then on. *)
LEMMA EnsureKeeps ==
  ASSUME LogInv, NEW m \in Modules, NEW o \in LogOptions,
         \/ modules[m] = NoLogger /\ MakeLogger(o) /\ modules' = [modules EXCEPT ![m] = Made]
         \/ modules[m] # NoLogger /\ UNCHANGED <<loggers, fs, modules>>
  PROVE  /\ LoggersOK' /\ Known \subseteq Known' /\ BuffersKept /\ Grows
         /\ \A u \in Threads : LevelKept(u)
         /\ \A l \in Known : l # NoLogger => loggers'[l] = loggers[l]
         /\ modules' \in [Modules -> Known'] /\ modules'[m] # NoLogger
<1>0. modules \in [Modules -> Known]
  BY DEF LogInv, LogTypes
<1>1. CASE modules[m] = NoLogger /\ MakeLogger(o) /\ modules' = [modules EXCEPT ![m] = Made]
  <2>1. /\ LoggersOK' /\ Made \notin Known /\ Made \in Known'
        /\ Known \subseteq Known' /\ BuffersKept /\ \A u \in Threads : LevelKept(u)
        /\ \A l \in Known : l # NoLogger => loggers'[l] = loggers[l]
    BY <1>1, MakeKeeps
  <2>2. /\ modules' \in [Modules -> Known'] /\ modules'[m] = Made
        /\ \A k \in Modules : k # m => modules'[k] = modules[k]
    BY <1>0, <1>1, <2>1
  <2>3. Made # NoLogger
    BY <2>1 DEF Known
  <2>4. Grows
    <3>1. DOMAIN loggers \subseteq DOMAIN loggers'
      BY <2>1 DEF BuffersKept
    <3>2. QED
      BY <1>1, <2>1, <2>2, <3>1 DEF Grows
  <2>5. QED
    BY <2>1, <2>2, <2>3, <2>4
<1>2. CASE modules[m] # NoLogger /\ UNCHANGED <<loggers, fs, modules>>
  <2>1. LoggersOK' /\ Known' = Known
    BY <1>2 DEF LogInv, LogTypes, LoggersOK, FilesOK, Known
  <2>2. QED
    BY <1>0, <1>2, <2>1, Static
<1>3. QED
  BY <1>1, <1>2

(* What the registry knows of the default logger is not affected. *)
LEMMA ModuleAgreement ==
  ASSUME LogInv, Grows, \A s \in Sections : Within(s)' <=> Within(s),
         UNCHANGED <<options, default_logger, default_level, default_cache>>,
         \A l \in {default_logger, default_cache} \ {NoLogger} : loggers'[l].level = loggers[l].level,
         Observe, UNCHANGED mutex, mutex = NoThread
  PROVE  Agreement' /\ Enforced'
<1>1. \A m \in Modules : modules'[m] # NoLogger => modules'[m] # default_logger /\ modules'[m] # default_cache
  BY DEF Grows, LogInv, LogTypes, Agreement
<1>2. \A s \in Sections : ~Within(s)
  BY ThreadsAssumption DEF LogInv, Locked, Within
<1>3. Agreement'
  BY <1>1, <1>2 DEF LogInv, Agreement, Sections
<1>4. /\ default_level = options.level /\ default_cache \in {NoLogger, default_logger}
      /\ default_logger # NoLogger => loggers[default_logger].level = options.level
  BY <1>2 DEF LogInv, Agreement, Sections
<1>5. options'.level \in in_force'
  BY Observed
<1>6. Enforced'
  BY <1>4, <1>5 DEF Enforced
<1>7. QED
  BY <1>3, <1>6

(* get_level(mod) *)
LEMMA GetModuleLevelStep ==
  ASSUME LogInv, NEW t \in Threads, NEW m \in Modules, GetModuleLevel(t, m), Observe
  PROVE  LogInv'
<1>1. /\ mutex = NoThread /\ EnsureModule(m)
      /\ UNCHANGED <<mutex, options, default_logger, default_level, default_cache,
                     pc, hand, call, lines, written, owed, flushed>>
  BY DEF GetModuleLevel, threadVars, historyVars
<1>2. options \in LogOptions
  BY DEF LogInv, LogTypes
<1>3. /\ LoggersOK' /\ Known \subseteq Known' /\ BuffersKept /\ Grows
      /\ \A u \in Threads : LevelKept(u)
      /\ \A l \in Known : l # NoLogger => loggers'[l] = loggers[l]
      /\ modules' \in [Modules -> Known']
  BY <1>1, <1>2, EnsureKeeps DEF EnsureModule
<1>4. LogTypes'
  BY <1>1, <1>3 DEF LogInv, LogTypes
<1>5. Locked' /\ \A s \in Sections : Within(s)' <=> Within(s)
  BY <1>1 DEF LogInv, Locked, Within
<1>6. Agreement' /\ Enforced'
  <2>1. \A l \in {default_logger, default_cache} \ {NoLogger} : loggers'[l].level = loggers[l].level
    BY <1>3 DEF LogInv, LogTypes
  <2>2. QED
    BY <1>1, <1>3, <1>5, <2>1, ModuleAgreement
<1>7. (\A u \in Threads : Judged(u)') /\ Lines' /\ Reached'
  BY <1>1, <1>3, <1>4, ModuleKeeps
<1>8. QED
  BY <1>4, <1>5, <1>6, <1>7 DEF LogInv

(* set_level(mod, level) *)
LEMMA SetModuleLevelStep ==
  ASSUME LogInv, NEW t \in Threads, NEW m \in Modules, NEW level \in Levels,
         SetModuleLevel(t, m, level), Observe
  PROVE  LogInv'
<1>1. /\ mutex = NoThread
      /\ UNCHANGED <<mutex, options, default_logger, default_level, default_cache,
                     pc, hand, call, lines, written, owed, flushed>>
  BY DEF SetModuleLevel, threadVars, historyVars
<1>2. /\ LoggersOK' /\ Known \subseteq Known' /\ BuffersKept /\ Grows
      /\ \A u \in Threads : LevelKept(u)
      /\ \A l \in {default_logger, default_cache} \ {NoLogger} : loggers'[l].level = loggers[l].level
      /\ modules' \in [Modules -> Known']
  <2>1. CASE modules[m] = NoLogger
    <3> DEFINE o == [options EXCEPT !.level = level]
    <3>1. o \in LogOptions
      BY DEF LogInv, LogTypes, LogOptions
    <3>2. MakeLogger(o) /\ modules' = [modules EXCEPT ![m] = Made]
      BY <2>1 DEF SetModuleLevel
    <3> HIDE DEF o
    <3>3. /\ LoggersOK' /\ Known \subseteq Known' /\ BuffersKept /\ Grows
          /\ \A u \in Threads : LevelKept(u)
          /\ \A l \in Known : l # NoLogger => loggers'[l] = loggers[l]
          /\ modules' \in [Modules -> Known']
      BY <2>1, <3>1, <3>2, EnsureKeeps
    <3>4. QED
      BY <3>3 DEF LogInv, LogTypes
  <2>2. CASE modules[m] # NoLogger
    <3>1. loggers' = [loggers EXCEPT ![modules[m]].level = level] /\ UNCHANGED <<modules, fs>>
      BY <2>2 DEF SetModuleLevel
    <3>2. modules[m] \in DOMAIN loggers /\ LoggersOK
      BY <2>2 DEF LogInv, LogTypes, Known
    <3>3. /\ LoggersOK' /\ DOMAIN loggers' = DOMAIN loggers
          /\ \A k \in DOMAIN loggers : k # modules[m] => loggers'[k] = loggers[k]
          /\ BuffersKept
      BY <3>1, <3>2, LevelSet
    <3>4. ASSUME NEW u \in Threads, pc[u] \in Using
          PROVE  \/ loggers'[hand[u]].level = loggers[hand[u]].level
                 \/ loggers'[hand[u]].level \in SeenBy(u)'
      <4>1. hand[u] \in DOMAIN loggers /\ Judged(u) /\ call[u].target \in Modules \cup {Default}
        BY <3>4 DEF LogInv, Judged, LogTypes, Known
      <4>2. CASE hand[u] # modules[m]
        BY <3>3, <4>1, <4>2
      <4>3. CASE hand[u] = modules[m]
        <5>1. call[u].target \in Modules /\ hand[u] = modules[call[u].target] /\ call[u].target # Default
          BY <3>4, <4>1, <4>3, ModulesAssumption DEF Judged
        <5>2. modules'[call'[u].target] = hand[u] /\ call'[u].target # Default
          BY <1>1, <3>1, <5>1
        <5>3. hand[u] # NoLogger
          BY <2>2, <4>3
        <5>4. SeenBy(u)' = {loggers'[hand[u]].level}
          BY <5>2, <5>3 DEF SeenBy, InForce
        <5>5. QED
          BY <5>4
      <4>4. QED
        BY <4>2, <4>3
    <3>5. \A u \in Threads : LevelKept(u)
      BY <3>4 DEF LevelKept
    <3>6. \A l \in {default_logger, default_cache} \ {NoLogger} : l \in DOMAIN loggers /\ l # modules[m]
      BY <2>2 DEF LogInv, LogTypes, Known, Agreement
    <3>7. Grows
      BY <3>1, <3>3 DEF Grows
    <3>8. Known' = Known /\ modules' \in [Modules -> Known']
      BY <3>1, <3>3 DEF Known, LogInv, LogTypes
    <3>9. QED
      BY <3>3, <3>5, <3>6, <3>7, <3>8
  <2>3. QED
    BY <2>1, <2>2
<1>3. LogTypes'
  BY <1>1, <1>2 DEF LogInv, LogTypes
<1>4. Locked' /\ \A s \in Sections : Within(s)' <=> Within(s)
  BY <1>1 DEF LogInv, Locked, Within
<1>5. Agreement' /\ Enforced'
  BY <1>1, <1>2, <1>4, ModuleAgreement
<1>6. (\A u \in Threads : Judged(u)') /\ Lines' /\ Reached'
  BY <1>1, <1>2, <1>3, ModuleKeeps
<1>7. QED
  BY <1>3, <1>4, <1>5, <1>6 DEF LogInv

-----------------------------------------------------------------------------
(* flush()                                                                 *)

(* The buffers of the loggers in a set are emptied. *)
LEMMA FlushThemOK ==
  ASSUME LogInv, NEW ls, FlushThem(ls), fs' = fs
  PROVE  /\ LoggersOK' /\ DOMAIN loggers' = DOMAIN loggers /\ BuffersKept
         /\ \A l \in DOMAIN loggers :
              /\ loggers'[l].level = loggers[l].level
              /\ loggers'[l].buffered = IF l \in ls THEN {} ELSE loggers[l].buffered
         /\ \A u \in Threads : LevelKept(u)
<1> DEFINE Emptied(l) == [loggers[l] EXCEPT !.buffered = {}]
<1>1. LoggersOK
  BY DEF LogInv, LogTypes
<1>2. \A l \in DOMAIN loggers : loggers[l] \in LoggerRecord
  BY <1>1, RecordOK
<1>3. \A l \in DOMAIN loggers :
        /\ Emptied(l) \in LoggerRecord /\ Emptied(l).level = loggers[l].level
        /\ Emptied(l).fd = loggers[l].fd /\ Emptied(l).buffered = {}
  BY <1>2 DEF LoggerRecord
<1>4. loggers' = [l \in DOMAIN loggers |-> IF l \in ls THEN Emptied(l) ELSE loggers[l]]
  BY DEF FlushThem
<1> HIDE DEF Emptied
<1>5. DOMAIN loggers = 1..Len(loggers) /\ Len(loggers) \in Nat
  BY <1>1 DEF LoggersOK
<1>6. DOMAIN loggers' = DOMAIN loggers
  BY <1>4
<1>7. \A l \in DOMAIN loggers : loggers'[l] = IF l \in ls THEN Emptied(l) ELSE loggers[l]
  BY <1>4
<1>8. \A l \in DOMAIN loggers : loggers'[l] \in LoggerRecord
  BY <1>2, <1>3, <1>7
<1>9. loggers' \in Seq(LoggerRecord)
  BY <1>4, <1>5, <1>6, <1>8, IsASeq
<1>10. \A l \in DOMAIN loggers :
         /\ loggers'[l].level = loggers[l].level /\ loggers'[l].fd = loggers[l].fd
         /\ loggers'[l].buffered = IF l \in ls THEN {} ELSE loggers[l].buffered
  BY <1>3, <1>7
<1>11. BuffersKept
  BY <1>6, <1>10 DEF BuffersKept
<1>12. LoggersOK'
  BY <1>1, <1>6, <1>9, <1>10 DEF LoggersOK, FilesOK
<1>13. \A u \in Threads : pc[u] \in Using => hand[u] \in DOMAIN loggers
  BY DEF LogInv, LogTypes, Known, Judged
<1>14. \A u \in Threads : LevelKept(u)
  BY <1>10, <1>13 DEF LevelKept
<1>15. QED
  BY <1>6, <1>10, <1>11, <1>12, <1>14

(* The levels of the registry's loggers are not affected. *)
LEMMA FlushAgrees ==
  ASSUME LogInv, Observe, NEW ls, FlushThem(ls), fs' = fs,
         UNCHANGED <<options, default_logger, modules, default_level, default_cache>>,
         ~Within("init_level"), ~Within("init_cache"), ~Within("set_logger")
  PROVE  Agreement' /\ Enforced'
<1>1. \A l \in {default_logger, default_cache} \ {NoLogger} : loggers'[l].level = loggers[l].level
  BY FlushThemOK DEF LogInv, LogTypes, Known
<1>2. /\ default_level = options.level /\ default_cache \in {NoLogger, default_logger}
      /\ default_logger # NoLogger => loggers[default_logger].level = options.level
      /\ options'.level \in in_force'
  BY Observed DEF LogInv, Agreement
<1>3. Agreement'
  BY <1>1, <1>2 DEF LogInv, Agreement
<1>4. Enforced'
  BY <1>1, <1>2 DEF Enforced
<1>5. QED
  BY <1>3, <1>4

(* First the default logger; what has been logged is owed from here on.    *)
LEMMA FlushDefaultStep ==
  ASSUME LogInv, NEW t \in Threads, FlushDefault(t), Observe
  PROVE  LogInv'
<1>1. /\ pc[t] = "idle" /\ mutex = NoThread /\ mutex' = t /\ Goto(t, "flush_modules")
      /\ FlushThem({default_logger})
      /\ owed' = [owed EXCEPT ![t] = ToSet(written) \ Unreturned]
      /\ UNCHANGED <<options, default_logger, modules, default_level, default_cache, fs,
                     hand, call, lines, written, flushed>>
  BY DEF FlushDefault
<1>2. /\ LoggersOK' /\ DOMAIN loggers' = DOMAIN loggers /\ BuffersKept
      /\ \A l \in DOMAIN loggers : loggers'[l].buffered =
           IF l \in {default_logger} THEN {} ELSE loggers[l].buffered
      /\ \A u \in Threads : LevelKept(u)
  BY <1>1, FlushThemOK
<1>3. owed' \in [Threads -> SUBSET Int] /\ \A u \in Threads : owed'[u] \subseteq ToSet(written)
  <2>1. ToSet(written) \subseteq Int
    BY DEF LogInv, LogTypes, ToSet
  <2>2. QED
    BY <1>1, <2>1 DEF LogInv, LogTypes, Lines
<1>4. LogTypes'
  BY <1>1, <1>2, <1>3 DEF LogInv, LogTypes, Known, Goto, Steps, Sections
<1>5. /\ Locked' /\ ~Within("init_level") /\ ~Within("init_cache") /\ ~Within("set_logger")
      /\ \A u \in Threads : pc[u] \notin Sections
  BY <1>1, InSection, ThreadsAssumption DEF LogInv, LogTypes, Steps, Sections, Locked
<1>6. Agreement' /\ Enforced'
  BY <1>1, <1>5, FlushAgrees
<1>7. pc'[t] = "flush_modules" /\ \A u \in Threads \ {t} : pc'[u] = pc[u]
  BY <1>1 DEF Goto, LogInv, LogTypes
<1>8. \A u \in Threads : Judged(u)'
  <2>1. hand'[t] = NoLogger
    BY <1>1 DEF LogInv, Judged, Using
  <2>2. Judged(t)'
    BY <1>7, <2>1 DEF Judged, Using, InLog, Unwritten
  <2>3. Grows
    BY <1>1, <1>2 DEF Grows
  <2>4. Outside(t)
    BY <1>1, <1>7 DEF Outside
  <2>5. QED
    BY <1>2, <2>2, <2>3, <2>4, JudgedAll
<1>9. Lines'
  <2>1. /\ \A u \in Threads : pc'[u] \in InLog \cup Unwritten \cup {"flush"} => pc'[u] = pc[u]
        /\ UNCHANGED <<call, hand, flushed>>
    BY <1>1, <1>7 DEF InLog, Unwritten
  <2>2. QED
    BY <1>1, <1>2, <1>3, <2>1, LinesFlushed DEF LogInv
<1>10. Reached'
  <2>1. FlushReaches'
    BY <1>1, <1>2, <1>4, FlushedKeep DEF LogInv
  <2>2. \A l \in {default_logger', default_cache'} \ {NoLogger} : loggers'[l].buffered = {}
    <3>1. default_cache \in {NoLogger, default_logger}
      BY <1>5 DEF LogInv, Agreement
    <3>2. QED
      BY <1>1, <1>2, <3>1 DEF LogInv, LogTypes, Known
  <2>3. \A u \in Threads : owed'[u] # {} => pc'[u] = "flush_modules"
    <3>1. \A u \in Threads \ {t} : owed'[u] = owed[u]
      BY <1>1
    <3>2. QED
      BY <1>7, <3>1 DEF LogInv, Reached
  <2>4. QED
    BY <2>1, <2>2, <2>3 DEF Reached
<1>11. QED
  BY <1>4, <1>5, <1>6, <1>8, <1>9, <1>10 DEF LogInv

(* Then those of the modules. *)
LEMMA FlushModulesStep ==
  ASSUME LogInv, NEW t \in Threads, FlushModules(t), Observe
  PROVE  LogInv'
<1>1. /\ pc[t] = "flush_modules" /\ mutex' = NoThread /\ Goto(t, "idle")
      /\ FlushThem(ModuleLoggers)
      /\ flushed' = flushed \cup owed[t] /\ owed' = [owed EXCEPT ![t] = {}]
      /\ UNCHANGED <<options, default_logger, modules, default_level, default_cache, fs,
                     hand, call, lines, written>>
  BY DEF FlushModules
<1>2. /\ LoggersOK' /\ DOMAIN loggers' = DOMAIN loggers /\ BuffersKept
      /\ \A l \in DOMAIN loggers : loggers'[l].buffered =
           IF l \in ModuleLoggers THEN {} ELSE loggers[l].buffered
      /\ \A u \in Threads : LevelKept(u)
  BY <1>1, FlushThemOK
<1>3. mutex = t
  BY <1>1 DEF LogInv, Locked, Sections
<1>4. LogTypes'
  BY <1>1, <1>2 DEF LogInv, LogTypes, Known, Goto, Steps, Sections
<1>5. /\ Locked' /\ ~Within("init_level") /\ ~Within("init_cache") /\ ~Within("set_logger")
  BY <1>1, <1>3, InSection, ThreadsAssumption DEF LogInv, LogTypes, Steps, Sections
<1>6. Agreement' /\ Enforced'
  BY <1>1, <1>5, FlushAgrees
<1>7. pc'[t] = "idle" /\ \A u \in Threads \ {t} : pc'[u] = pc[u] /\ pc[u] # "flush_modules"
  BY <1>1, <1>3 DEF Goto, LogInv, LogTypes, Locked, Sections
<1>8. \A u \in Threads : Judged(u)'
  <2>1. hand'[t] = NoLogger
    BY <1>1 DEF LogInv, Judged, Using
  <2>2. Judged(t)'
    BY <1>7, <2>1 DEF Judged, Using, InLog, Unwritten
  <2>3. Grows
    BY <1>1, <1>2 DEF Grows
  <2>4. Outside(t)
    BY <1>1, <1>7 DEF Outside
  <2>5. QED
    BY <1>2, <2>2, <2>3, <2>4, JudgedAll
<1>9. owed[t] \subseteq ToSet(written)
  BY DEF LogInv, Lines
<1>10. Lines'
  <2>1. /\ \A u \in Threads : pc'[u] \in InLog \cup Unwritten \cup {"flush"} => pc'[u] = pc[u]
        /\ UNCHANGED <<call, hand>>
    BY <1>1, <1>7 DEF InLog, Unwritten
  <2>2. \A u \in Threads : owed'[u] \subseteq ToSet(written)
    BY <1>1 DEF LogInv, Lines, LogTypes
  <2>3. \A n \in flushed' : n \in flushed \cup ToSet(written)
    BY <1>1, <1>9
  <2>4. QED
    BY <1>1, <1>2, <2>1, <2>2, <2>3, LinesFlushed DEF LogInv
<1>11. Reached'
  <2> DEFINE D == {default_logger, default_cache} \ {NoLogger}
  <2>1. ModuleLoggers \cup D \subseteq DOMAIN loggers
    BY DEF LogInv, LogTypes, Known, ModuleLoggers
  <2>2. \A l \in ModuleLoggers : loggers'[l].buffered = {}
    BY <1>2, <2>1
  <2>3. \A l \in D : loggers'[l].buffered \subseteq loggers[l].buffered
    BY <1>2, <2>1
  <2>4. \A l \in D : (flushed \cup owed[t]) \cap loggers[l].buffered = {}
    BY DEF LogInv, Reached, FlushReaches, Buffered
  <2>5. ModuleLoggers' = ModuleLoggers /\ D' = D
    BY <1>1 DEF ModuleLoggers
  <2>6. FlushReaches'
    BY <1>1, <2>2, <2>3, <2>4, <2>5 DEF FlushReaches, Buffered
  <2>7. \A u \in Threads : owed'[u] = {}
    BY <1>1, <1>7 DEF LogInv, Reached, LogTypes
  <2>8. QED
    BY <2>6, <2>7 DEF Reached
<1>12. QED
  BY <1>4, <1>5, <1>6, <1>8, <1>10, <1>11 DEF LogInv

-----------------------------------------------------------------------------
(* log()                                                                   *)

(* What a step of log() leaves of the registry while it holds no mutex *)
LEMMA LogAgrees ==
  ASSUME LogInv, Observe, NEW t \in Threads, NEW step \in InLog \cup {"idle"}, Goto(t, step),
         pc[t] \in InLog \cup {"idle"},
         UNCHANGED <<mutex, options, default_logger, modules, default_level, default_cache>>,
         DOMAIN loggers' = DOMAIN loggers,
         \A l \in DOMAIN loggers : loggers'[l].level = loggers[l].level
  PROVE  /\ Locked' /\ Agreement' /\ Enforced'
         /\ Grows /\ \A u \in Threads : LevelKept(u)
         /\ pc'[t] = step /\ \A u \in Threads \ {t} : pc'[u] = pc[u]
<1>1. /\ (InLog \cup {"idle"}) \cap Sections = {} /\ step \in Steps
      /\ {"init_level", "init_cache", "set_logger"} \subseteq Sections
  BY DEF InLog, Unwritten, Sections, Steps
<1>2. Locked' /\ \A s \in Sections : Within(s)' <=> Within(s)
  BY <1>1, OutOfSection DEF LogInv, LogTypes
<1>3. \A l \in {default_logger, default_cache} \ {NoLogger} : loggers'[l].level = loggers[l].level
  BY DEF LogInv, LogTypes, Known
<1>4. Agreement'
  BY <1>1, <1>2, <1>3 DEF LogInv, Agreement
<1>5. Grows
  BY DEF Grows
<1>6. Enforced'
  <2>1. CASE mutex = NoThread
    BY <1>2, <1>3, <1>5, <2>1, ModuleAgreement
  <2>2. CASE mutex # NoThread
    <3>1. in_force \subseteq in_force' /\ options'.level \in in_force'
      BY <2>2, Observed
    <3>2. QED
      BY <1>3, <3>1 DEF LogInv, Enforced
  <2>3. QED
    BY <2>1, <2>2
<1>7. \A u \in Threads : pc[u] \in Using => hand[u] \in DOMAIN loggers
  BY DEF LogInv, LogTypes, Known, Judged
<1>8. \A u \in Threads : LevelKept(u)
  BY <1>7 DEF LevelKept
<1>9. pc'[t] = step /\ \A u \in Threads \ {t} : pc'[u] = pc[u]
  BY DEF Goto, LogInv, LogTypes
<1>10. QED
  BY <1>2, <1>4, <1>5, <1>6, <1>8, <1>9

(* A step that changes no logger and writes and flushes nothing *)
LEMMA LogQuiet ==
  ASSUME LogInv, LogTypes', Observe, NEW t \in Threads, NEW step \in InLog \cup {"idle"},
         Goto(t, step), pc[t] \in InLog, step # "should_log",
         UNCHANGED <<mutex, options, default_logger, modules, default_level, default_cache,
                     loggers, lines, written, owed, flushed>>,
         \A u \in Threads \ {t} : hand'[u] = hand[u] /\ call'[u] = call[u],
         step \in InLog => call'[t] = call[t],
         step \in Unwritten => pc[t] \in Unwritten, step # "flush",
         Judged(t)'
  PROVE  LogInv'
<1>1. /\ Locked' /\ Agreement' /\ Enforced'
      /\ Grows /\ \A u \in Threads : LevelKept(u)
      /\ pc'[t] = step /\ \A u \in Threads \ {t} : pc'[u] = pc[u]
  BY LogAgrees
<1>2. \A u \in Threads : Judged(u)'
  <2>1. Outside(t)
    BY <1>1 DEF Outside
  <2>2. QED
    BY <1>1, <2>1, JudgedAll
<1>3. BuffersKept
  BY Static
<1>4. \A u \in Threads :
        /\ pc'[u] \in InLog => pc[u] \in InLog /\ call'[u].line = call[u].line
        /\ pc'[u] \in Unwritten => pc[u] \in Unwritten
        /\ pc'[u] = "flush" => pc[u] = "flush" /\ hand'[u] = hand[u]
  <2>1. ASSUME NEW u \in Threads \ {t}
        PROVE  pc'[u] = pc[u] /\ hand'[u] = hand[u] /\ call'[u] = call[u]
    BY <1>1
  <2>2. QED
    BY <1>1, <2>1
<1>5. Lines'
  BY <1>3, <1>4, LinesKeep DEF LogInv
<1>6. Reached'
  <2>1. \A u \in Threads : pc[u] = "flush_modules" => pc'[u] = "flush_modules"
    BY <1>1 DEF InLog, Unwritten
  <2>2. QED
    BY <1>3, <2>1, ReachedKeep DEF LogInv
<1>7. QED
  BY <1>1, <1>2, <1>5, <1>6 DEF LogInv

(* A call begins with a line of its own. *)
LEMMA LogStep ==
  ASSUME LogInv, NEW t \in Threads, NEW target \in Modules \cup {Default}, NEW level \in Levels,
         Log(t, target, level), Observe
  PROVE  LogInv'
<1> DEFINE new == [target |-> target, level |-> level, line |-> lines + 1]
<1>1. /\ pc[t] = "idle" /\ lines' = lines + 1 /\ call' = [call EXCEPT ![t] = new]
      /\ Goto(t, "should_log")
      /\ UNCHANGED <<mutex, options, default_logger, modules, default_level, default_cache,
                     loggers, fs, hand, written, owed, flushed>>
  BY DEF Log, registryVars, historyVars
<1>2. lines \in Nat /\ new \in [target : Modules \cup {Default}, level : Nat, line : Nat]
  BY LevelsAssumption DEF LogInv, LogTypes
<1>3. call'[t] = new /\ \A u \in Threads \ {t} : call'[u] = call[u]
  BY <1>1 DEF LogInv, LogTypes
<1>4. LogTypes'
  <2>1. call' \in [Threads -> [target : Modules \cup {Default}, level : Nat, line : Nat]]
    BY <1>1, <1>2 DEF LogInv, LogTypes
  <2>2. lines' \in Nat
    BY <1>1, <1>2
  <2> HIDE DEF new
  <2>3. QED
    BY <1>1, <2>1, <2>2 DEF LogInv, LogTypes, LoggersOK, FilesOK, Known, Goto, Steps, InLog, Unwritten
<1>5. /\ Locked' /\ Agreement' /\ Enforced'
      /\ Grows /\ \A u \in Threads : LevelKept(u)
      /\ pc'[t] = "should_log" /\ \A u \in Threads \ {t} : pc'[u] = pc[u]
  BY <1>1, LogAgrees DEF InLog, Unwritten
<1>6. \A u \in Threads : Judged(u)'
  <2>1. hand'[t] = NoLogger
    BY <1>1 DEF LogInv, Judged, Using
  <2>2. SeenBy(t)' \subseteq seen'[t]
    BY <1>5, Observed DEF InLog, Unwritten
  <2>3. Judged(t)'
    BY <1>5, <2>1, <2>2 DEF Judged, Using, InLog, Unwritten
  <2>4. Outside(t)
    BY <1>1, <1>3, <1>5 DEF Outside
  <2>5. QED
    BY <1>5, <2>3, <2>4, JudgedAll
<1>7. Lines'
  <2>1. /\ \A n \in ToSet(written) \cup flushed : n <= lines
        /\ \A u \in Threads : pc[u] \in InLog => call[u].line \in 1..lines
    BY DEF LogInv, Lines
  <2>2. ToSet(written') = ToSet(written) /\ flushed' = flushed /\ loggers' = loggers /\ owed' = owed
        /\ hand' = hand
    BY <1>1 DEF ToSet
  <2>3. written \in Seq(Int) /\ \A n \in ToSet(written) : n \in Int
    BY DEF LogInv, LogTypes, ToSet
  <2>4. call'[t].line = lines + 1
    BY <1>3
  <2>5. Unwritten \subseteq InLog /\ "flush" \in InLog
    BY DEF InLog
  <2>6. \A u \in Threads : pc'[u] \in InLog => call'[u].line \in 1..lines'
    BY <1>1, <1>2, <1>3, <1>5, <2>1, <2>4
  <2>7. \A u \in Threads \ {t} : pc'[u] \in InLog => call'[u].line # lines + 1
    BY <1>2, <1>3, <1>5, <2>1
  <2>8. \A u, v \in Threads :
          pc'[u] \in InLog /\ pc'[v] \in InLog /\ call'[u].line = call'[v].line => u = v
    <3>1. \A u, v \in Threads \ {t} :
            pc'[u] \in InLog /\ pc'[v] \in InLog /\ call'[u].line = call'[v].line => u = v
      BY <1>3, <1>5 DEF LogInv, Lines
    <3>2. QED
      BY <2>4, <2>7, <3>1
  <2>9. lines + 1 \notin ToSet(written) \cup flushed
    <3>1. lines + 1 \in ToSet(written) \cup flushed => lines + 1 <= lines
      BY <2>1
    <3>2. QED
      BY <1>2, <3>1
  <2>10. \A u \in Threads : pc'[u] \in Unwritten => call'[u].line \notin ToSet(written) \cup flushed
    <3>1. \A u \in Threads \ {t} : pc[u] \in Unwritten => call[u].line \notin ToSet(written) \cup flushed
      BY DEF LogInv, Lines
    <3>2. QED
      BY <1>3, <1>5, <2>4, <2>9, <3>1
  <2>11. \A u \in Threads : pc'[u] = "flush" =>
           \A l \in DOMAIN loggers : call'[u].line \in loggers[l].buffered => l = hand[u]
    BY <1>3, <1>5 DEF LogInv, Lines
  <2>12. \A n \in ToSet(written) \cup flushed : n <= lines'
    <3>1. \A n \in ToSet(written) \cup flushed : n \in Int => n <= lines + 1
      BY <1>2, <2>1
    <3>2. flushed \subseteq Int
      BY DEF LogInv, LogTypes
    <3>3. QED
      BY <1>1, <2>3, <3>1, <3>2
  <2>13. QED
    BY <2>2, <2>6, <2>8, <2>10, <2>11, <2>12 DEF LogInv, Lines
<1>8. Reached'
  <2>1. \A u \in Threads : pc[u] = "flush_modules" => pc'[u] = "flush_modules"
    BY <1>1, <1>5
  <2>2. QED
    BY <1>1, <1>4, <2>1, Static, ReachedKeep DEF LogInv
<1>9. QED
  BY <1>4, <1>5, <1>6, <1>7, <1>8 DEF LogInv

(* should_log(level) reads the cached level, which is in force. *)
LEMMA ShouldLogStep ==
  ASSUME LogInv, NEW t \in Threads, ShouldLog(t), Observe
  PROVE  LogInv'
<1> DEFINE step == IF call[t].level >= default_level THEN "log" ELSE "filtered"
<1>1. /\ pc[t] = "should_log" /\ call[t].target = Default /\ Goto(t, step)
      /\ UNCHANGED <<mutex, options, default_logger, modules, default_level, default_cache,
                     loggers, fs, hand, call, lines, written, owed, flushed>>
  BY DEF ShouldLog, registryVars, historyVars
<1>2. step \in {"log", "filtered"} /\ {"log", "filtered"} \subseteq InLog /\ pc[t] \in InLog
      /\ pc[t] \in Unwritten
  BY <1>1 DEF InLog, Unwritten
<1>3. LogTypes'
  BY <1>1, <1>2 DEF LogInv, LogTypes, LoggersOK, FilesOK, Known, Goto, Steps
<1>4. Enforced' /\ pc'[t] = step
  BY <1>1, <1>2, LogAgrees
<1>5. Judged(t)'
  <2>1. default_level \in in_force' /\ SeenBy(t)' \subseteq seen'[t] /\ SeenBy(t)' = in_force'
    BY <1>1, <1>2, <1>4, Observed DEF Enforced, SeenBy, InForce
  <2>2. call'[t] = call[t] /\ call[t].level \in Nat /\ default_level \in Nat
    BY <1>1, LevelsAssumption DEF LogInv, LogTypes
  <2>3. /\ step = "log" => \E level \in seen'[t] : call'[t].level >= level
        /\ step = "filtered" => \E level \in seen'[t] : call'[t].level < level
    BY <2>1, <2>2
  <2>4. hand'[t] = NoLogger
    BY <1>1 DEF LogInv, Judged, Using
  <2>5. Default \notin Modules
    BY ModulesAssumption
  <2> HIDE DEF step
  <2>6. QED
    BY <1>1, <1>2, <1>4, <2>1, <2>3, <2>4, <2>5 DEF Judged, Using
<1>6. QED
  BY <1>1, <1>2, <1>3, <1>5, LogQuiet

(* The cached logger has a level that is in force. *)
LEMMA LoadCacheStep ==
  ASSUME LogInv, NEW t \in Threads, LoadCache(t), Observe
  PROVE  LogInv'
<1> DEFINE step == IF default_cache = NoLogger THEN "no_cache" ELSE "level"
<1>1. /\ pc[t] = "log" /\ call[t].target = Default /\ Goto(t, step)
      /\ hand' = [hand EXCEPT ![t] = default_cache]
      /\ UNCHANGED <<mutex, options, default_logger, modules, default_level, default_cache,
                     loggers, fs, call, lines, written, owed, flushed>>
  BY DEF LoadCache, registryVars, historyVars
<1>2. /\ step \in {"no_cache", "level"} /\ {"no_cache", "level"} \subseteq InLog /\ pc[t] \in InLog
      /\ pc[t] \in Unwritten
  BY <1>1 DEF InLog, Unwritten
<1>3. hand'[t] = default_cache /\ \A u \in Threads \ {t} : hand'[u] = hand[u]
  BY <1>1 DEF LogInv, LogTypes
<1>4. LogTypes'
  BY <1>1, <1>2 DEF LogInv, LogTypes, LoggersOK, FilesOK, Known, Goto, Steps
<1>5. Enforced' /\ Agreement' /\ pc'[t] = step
  BY <1>1, <1>2, LogAgrees
<1>6. Judged(t)'
  <2>1. SeenBy(t)' \subseteq seen'[t] /\ SeenBy(t)' = in_force' /\ seen[t] \subseteq seen'[t]
    BY <1>1, <1>2, <1>5, Observed DEF SeenBy, InForce
  <2>2. \E level \in seen'[t] : call'[t].level >= level
    BY <1>1, <1>2, <2>1 DEF LogInv, Judged
  <2>3. Default \notin Modules
    BY ModulesAssumption
  <2>4. /\ default_cache # NoLogger => loggers'[hand'[t]].level \in seen'[t]
        /\ default_cache # NoLogger => \A m \in Modules : hand'[t] # modules'[m]
    BY <1>1, <1>3, <1>5, <2>1 DEF Enforced, Agreement
  <2>5. step \in Using <=> default_cache # NoLogger
    BY DEF Using
  <2> HIDE DEF step
  <2>6. QED
    BY <1>1, <1>2, <1>3, <1>5, <2>1, <2>2, <2>3, <2>4, <2>5 DEF Judged
<1>7. QED
  BY <1>1, <1>2, <1>3, <1>4, <1>6, LogQuiet

(* detail::log(mod, ...) finds the module's logger. *)
LEMMA FindModuleStep ==
  ASSUME LogInv, NEW t \in Threads, FindModule(t), Observe
  PROVE  LogInv'
<1> DEFINE m == call[t].target
<1>1. /\ pc[t] = "log" /\ m \in Modules /\ Goto(t, "level")
      /\ hand' = [hand EXCEPT ![t] = modules[m]]
      /\ UNCHANGED <<mutex, options, default_logger, modules, default_level, default_cache,
                     loggers, fs, call, lines, written, owed, flushed>>
  BY DEF FindModule, registryVars, historyVars
<1>2. {"log", "level"} \subseteq InLog /\ {"log", "level"} \subseteq Unwritten
  BY DEF InLog, Unwritten
<1>3. hand'[t] = modules[m] /\ modules[m] # NoLogger /\ \A u \in Threads \ {t} : hand'[u] = hand[u]
  BY <1>1 DEF LogInv, LogTypes, Judged
<1>4. LogTypes'
  BY <1>1, <1>2 DEF LogInv, LogTypes, LoggersOK, FilesOK, Known, Goto, Steps
<1>5. pc'[t] = "level"
  BY <1>1 DEF Goto, LogInv, LogTypes
<1>6. Judged(t)'
  <2>1. m # Default
    BY <1>1, ModulesAssumption
  <2>2. SeenBy(t)' = {loggers'[hand'[t]].level} /\ SeenBy(t)' \subseteq seen'[t] /\ seen[t] \subseteq seen'[t]
    BY <1>1, <1>2, <1>3, <1>5, <2>1, Observed DEF SeenBy, InForce
  <2>3. \E level \in seen'[t] : call'[t].level >= level
    BY <1>1, <1>2, <2>2 DEF LogInv, Judged
  <2>4. QED
    BY <1>1, <1>2, <1>3, <1>5, <2>1, <2>2, <2>3 DEF Judged, Using
<1>7. QED
  BY <1>1, <1>2, <1>3, <1>4, <1>6, LogQuiet

(* The logger's own level decides again. *)
LEMMA CheckLevelStep ==
  ASSUME LogInv, NEW t \in Threads, CheckLevel(t), Observe
  PROVE  LogInv'
<1> DEFINE enough == call[t].level >= loggers[hand[t]].level
           step == IF enough THEN "sink" ELSE "filtered"
<1>1. /\ pc[t] = "level" /\ Goto(t, step)
      /\ hand' = IF enough THEN hand ELSE [hand EXCEPT ![t] = NoLogger]
      /\ UNCHANGED <<mutex, options, default_logger, modules, default_level, default_cache,
                     loggers, fs, call, lines, written, owed, flushed>>
  BY DEF CheckLevel, registryVars, historyVars
<1>2. /\ step \in {"sink", "filtered"} /\ {"sink", "filtered", "level"} \subseteq InLog
      /\ {"sink", "level"} \subseteq Unwritten /\ "filtered" \notin Using
      /\ {"sink", "level"} \subseteq Using
  BY DEF InLog, Unwritten, Using
<1>3. /\ hand'[t] = IF enough THEN hand[t] ELSE NoLogger
      /\ \A u \in Threads \ {t} : hand'[u] = hand[u]
  BY <1>1 DEF LogInv, LogTypes
<1>4. LogTypes'
  BY <1>1, <1>2 DEF LogInv, LogTypes, LoggersOK, FilesOK, Known, Goto, Steps
<1>5. pc'[t] = step
  BY <1>1 DEF Goto, LogInv, LogTypes
<1>6. Judged(t)'
  <2>1. SeenBy(t)' \subseteq seen'[t] /\ seen[t] \subseteq seen'[t]
    BY <1>2, <1>5, Observed
  <2>2. hand[t] # NoLogger /\ loggers[hand[t]].level \in seen'[t] /\ Judged(t) /\ hand[t] \in DOMAIN loggers
    BY <1>1, <1>2, <2>1 DEF LogInv, LogTypes, Known, Judged
  <2>3. call[t].level \in Nat /\ loggers[hand[t]].level \in Nat
    BY <2>2, RecordOK, LevelsAssumption DEF LogInv, LogTypes
  <2>4. /\ enough => \E level \in seen'[t] : call'[t].level >= level
        /\ ~enough => \E level \in seen'[t] : call'[t].level < level
    BY <1>1, <2>2, <2>3
  <2>5. CASE enough
    <3>1. pc'[t] = "sink" /\ hand'[t] = hand[t]
      BY <1>3, <1>5, <2>5
    <3>2. QED
      BY <1>1, <1>2, <2>1, <2>2, <2>4, <2>5, <3>1 DEF Judged
  <2>6. CASE ~enough
    <3>1. pc'[t] = "filtered" /\ hand'[t] = NoLogger
      BY <1>3, <1>5, <2>6
    <3>2. QED
      BY <1>2, <2>1, <2>4, <2>6, <3>1 DEF Judged
  <2>7. QED
    BY <2>5, <2>6
<1>7. QED
  BY <1>1, <1>2, <1>3, <1>4, <1>6, LogQuiet

(* The call returns. *)
LEMMA ReturnStep ==
  ASSUME LogInv, NEW t \in Threads, Return(t), Observe
  PROVE  LogInv'
<1>1. /\ pc[t] \in {"logged", "filtered"} /\ Goto(t, "idle") /\ call' = [call EXCEPT ![t] = NoCall]
      /\ UNCHANGED <<mutex, options, default_logger, modules, default_level, default_cache,
                     loggers, fs, hand, lines, written, owed, flushed>>
  BY DEF Return, registryVars, historyVars
<1>2. {"logged", "filtered"} \subseteq InLog /\ "idle" \notin InLog /\ Unwritten \subseteq InLog
      /\ Using \subseteq InLog
  BY DEF InLog, Unwritten, Using
<1>3. LogTypes'
  BY <1>1, <1>2 DEF LogInv, LogTypes, LoggersOK, FilesOK, Known, Goto, Steps, NoCall
<1>4. pc'[t] = "idle" /\ \A u \in Threads \ {t} : call'[u] = call[u]
  BY <1>1 DEF Goto, LogInv, LogTypes
<1>5. Judged(t)'
  <2>1. hand'[t] = NoLogger
    BY <1>1 DEF LogInv, Judged, Using
  <2>2. QED
    BY <1>4, <2>1 DEF Judged, InLog, Unwritten, Using
<1>6. QED
  BY <1>1, <1>2, <1>3, <1>4, <1>5, LogQuiet

(* Without a cached logger it takes the default one, or makes it. *)
LEMMA FillCacheStep ==
  ASSUME LogInv, NEW t \in Threads, FillCache(t), Observe
  PROVE  LogInv'
<1>1. /\ pc[t] = "no_cache" /\ mutex = NoThread /\ Goto(t, "level")
      /\ default_cache' = default_logger' /\ hand' = [hand EXCEPT ![t] = default_logger']
      /\ UNCHANGED <<mutex, options, modules, default_level, call, lines, written, owed, flushed>>
  BY DEF FillCache, historyVars
<1>2. /\ {"no_cache", "level"} \subseteq InLog /\ {"no_cache", "level"} \subseteq Unwritten
      /\ {"no_cache", "level"} \subseteq Steps /\ {"no_cache", "level"} \cap Sections = {}
  BY DEF InLog, Unwritten, Steps, Sections
<1>3. Locked' /\ \A s \in Sections : ~Within(s)
  BY <1>1, <1>2, OutOfSection, ThreadsAssumption DEF LogInv, LogTypes, Locked, Within
<1>4. \A s \in Sections : ~Within(s)'
  BY <1>1, <1>2, <1>3, OutOfSection DEF LogInv, LogTypes
<1>5. /\ default_level = options.level
      /\ default_logger # NoLogger => loggers[default_logger].level = options.level
      /\ options \in LogOptions
  BY <1>3 DEF LogInv, Agreement, Sections, LogTypes
<1>6. /\ LoggersOK' /\ Known \subseteq Known' /\ BuffersKept /\ \A u \in Threads : LevelKept(u)
      /\ default_logger' \in Known' \ {NoLogger}
      /\ default_logger' = default_logger \/ default_logger' \notin Known
      /\ loggers'[default_logger'].level = options.level
  <2>1. CASE default_logger = NoLogger
    <3>1. MakeLogger(options) /\ default_logger' = Made
      BY <2>1 DEF FillCache
    <3>2. Made # NoLogger
      BY <1>5, <3>1, MakeKeeps DEF Known
    <3>3. QED
      BY <1>5, <3>1, <3>2, MakeKeeps
  <2>2. CASE default_logger # NoLogger
    <3>1. UNCHANGED <<loggers, default_logger, fs>>
      BY <2>2 DEF FillCache
    <3>2. LoggersOK' /\ Known' = Known /\ default_logger \in Known
      BY <3>1 DEF LogInv, LogTypes, LoggersOK, FilesOK, Known
    <3>3. QED
      BY <1>1, <1>5, <2>2, <3>1, <3>2, Static
  <2>3. QED
    BY <2>1, <2>2
<1>7. pc'[t] = "level" /\ \A u \in Threads \ {t} : pc'[u] = pc[u]
  BY <1>1 DEF Goto, LogInv, LogTypes
<1>8. hand'[t] = default_logger' /\ \A u \in Threads \ {t} : hand'[u] = hand[u]
  BY <1>1 DEF LogInv, LogTypes
<1>9. LogTypes'
  BY <1>1, <1>2, <1>6 DEF LogInv, LogTypes, Goto
<1>10. in_force' = {options.level} /\ options' = options
  BY <1>1, Observed
<1>11. Enforced'
  BY <1>1, <1>5, <1>6, <1>10 DEF Enforced
<1>12. \A m \in Modules : modules[m] \in Known /\ (modules[m] # NoLogger => modules[m] # default_logger')
  BY <1>6 DEF LogInv, LogTypes, Agreement
<1>13. Agreement'
  BY <1>1, <1>5, <1>6, <1>12 DEF Agreement
<1>14. Grows
  <2>1. DOMAIN loggers \subseteq DOMAIN loggers'
    BY <1>6 DEF BuffersKept
  <2>2. QED
    BY <1>1, <2>1 DEF Grows
<1>15. Judged(t)'
  <2>1. call[t].target = Default /\ Default \notin Modules
    BY <1>1, ModulesAssumption DEF LogInv, Judged
  <2>2. SeenBy(t)' = {options.level} /\ SeenBy(t)' \subseteq seen'[t] /\ seen[t] \subseteq seen'[t]
    BY <1>1, <1>2, <1>7, <1>10, <2>1, Observed DEF SeenBy, InForce
  <2>3. \E level \in seen'[t] : call'[t].level >= level
    BY <1>1, <1>2, <2>2 DEF LogInv, Judged
  <2>4. \A m \in Modules : hand'[t] # modules'[m]
    BY <1>1, <1>6, <1>8, <1>12
  <2>5. loggers'[hand'[t]].level \in seen'[t] /\ hand'[t] # NoLogger
    BY <1>6, <1>8, <2>2
  <2>6. QED
    BY <1>1, <1>2, <1>7, <2>1, <2>2, <2>3, <2>4, <2>5 DEF Judged, Using
<1>16. \A u \in Threads : Judged(u)'
  <2>1. Outside(t)
    BY <1>1, <1>7, <1>8 DEF Outside
  <2>2. QED
    BY <1>6, <1>14, <1>15, <2>1, JudgedAll
<1>17. Lines'
  <2>1. \A u \in Threads :
          /\ pc'[u] \in InLog => pc[u] \in InLog /\ call'[u].line = call[u].line
          /\ pc'[u] \in Unwritten => pc[u] \in Unwritten
          /\ pc'[u] = "flush" => pc[u] = "flush" /\ hand'[u] = hand[u]
    BY <1>1, <1>2, <1>7, <1>8
  <2>2. QED
    BY <1>1, <1>6, <2>1, LinesKeep DEF LogInv
<1>18. Reached'
  <2>1. \A u \in Threads : pc[u] = "flush_modules" => pc'[u] = "flush_modules"
    BY <1>1, <1>7
  <2>2. \A l \in {default_logger', default_cache'} :
          l \in {NoLogger, default_logger, default_cache} \/ l \notin DOMAIN loggers
    BY <1>1, <1>6 DEF Known
  <2>3. QED
    BY <1>1, <1>6, <1>9, <2>1, <2>2, ReachedKeep DEF LogInv
<1>19. QED
  BY <1>3, <1>9, <1>11, <1>13, <1>16, <1>17, <1>18 DEF LogInv

(* should_log(mod, level) makes the module's logger if there is none. *)
LEMMA ShouldLogModuleStep ==
  ASSUME LogInv, NEW t \in Threads, ShouldLogModule(t), Observe
  PROVE  LogInv'
<1> DEFINE m == call[t].target
           enough == call[t].level >= loggers'[modules'[m]].level
           step == IF enough THEN "log" ELSE "filtered"
<1>1. /\ pc[t] = "should_log" /\ mutex = NoThread /\ m \in Modules /\ EnsureModule(m)
      /\ Goto(t, step)
      /\ UNCHANGED <<mutex, options, default_logger, default_level, default_cache,
                     hand, call, lines, written, owed, flushed>>
  BY DEF ShouldLogModule, historyVars
<1>2. /\ step \in {"log", "filtered"} /\ {"should_log", "log", "filtered"} \subseteq InLog
      /\ {"should_log", "log"} \subseteq Unwritten /\ "filtered" \notin Unwritten
      /\ {"should_log", "log", "filtered"} \subseteq Steps
      /\ {"should_log", "log", "filtered"} \cap Sections = {}
      /\ {"should_log", "log", "filtered"} \cap Using = {}
  BY DEF InLog, Unwritten, Steps, Sections, Using
<1>3. /\ LoggersOK' /\ Known \subseteq Known' /\ BuffersKept /\ Grows
      /\ \A u \in Threads : LevelKept(u)
      /\ \A l \in Known : l # NoLogger => loggers'[l] = loggers[l]
      /\ modules' \in [Modules -> Known'] /\ modules'[m] # NoLogger
  BY <1>1, EnsureKeeps DEF EnsureModule, LogInv, LogTypes
<1>4. pc'[t] = step /\ \A u \in Threads \ {t} : pc'[u] = pc[u]
  BY <1>1 DEF Goto, LogInv, LogTypes
<1> HIDE DEF step
<1>5. LogTypes'
  <2>1. pc' \in [Threads -> Steps] /\ hand' \in [Threads -> Known']
    BY <1>1, <1>2, <1>3 DEF LogInv, LogTypes, Goto
  <2>2. QED
    BY <1>1, <1>3, <2>1 DEF LogInv, LogTypes
<1>6. Locked' /\ \A s \in Sections : Within(s)' <=> Within(s)
  <2>1. step \in Steps /\ step \notin Sections /\ pc[t] \notin Sections
    BY <1>1, <1>2
  <2>2. QED
    BY <1>1, <2>1, OutOfSection DEF LogInv, LogTypes
<1>7. Agreement' /\ Enforced'
  <2>1. \A l \in {default_logger, default_cache} \ {NoLogger} : loggers'[l].level = loggers[l].level
    BY <1>3 DEF LogInv, LogTypes
  <2>2. QED
    BY <1>1, <1>3, <1>6, <2>1, ModuleAgreement
<1>8. Judged(t)'
  <2>1. m # Default
    BY <1>1, ModulesAssumption
  <2>2. SeenBy(t)' = {loggers'[modules'[m]].level} /\ SeenBy(t)' \subseteq seen'[t]
    BY <1>1, <1>2, <1>3, <1>4, <2>1, Observed DEF SeenBy, InForce
  <2>3. modules'[m] \in DOMAIN loggers'
    BY <1>1, <1>3 DEF Known
  <2>4. call'[t].level \in Nat /\ call'[t] = call[t] /\ loggers'[modules'[m]].level \in Nat
    <3>1. loggers'[modules'[m]].level \in Levels
      <4>1. loggers'[modules'[m]] \in LoggerRecord
        BY <1>3, <2>3 DEF LoggersOK
      <4>2. QED
        BY <4>1 DEF LoggerRecord
    <3>2. QED
      BY <1>1, <3>1, LevelsAssumption DEF LogInv, LogTypes
  <2>5. /\ step = "log" => \E level \in seen'[t] : call'[t].level >= level
        /\ step = "filtered" => \E level \in seen'[t] : call'[t].level < level
    BY <2>2, <2>4 DEF step
  <2>6. hand'[t] = NoLogger
    BY <1>1, <1>2 DEF LogInv, Judged
  <2>7. QED
    BY <1>1, <1>2, <1>3, <1>4, <2>1, <2>2, <2>5, <2>6 DEF Judged
<1>9. \A u \in Threads : Judged(u)'
  <2>1. Outside(t)
    BY <1>1, <1>4 DEF Outside
  <2>2. QED
    BY <1>3, <1>8, <2>1, JudgedAll
<1>10. \A u \in Threads :
         /\ pc'[u] \in InLog => pc[u] \in InLog /\ call'[u].line = call[u].line
         /\ pc'[u] \in Unwritten => pc[u] \in Unwritten
         /\ pc'[u] = "flush" => pc[u] = "flush" /\ hand'[u] = hand[u]
         /\ pc[u] = "flush_modules" => pc'[u] = "flush_modules"
  BY <1>1, <1>2, <1>4
<1>11. Lines'
  BY <1>1, <1>3, <1>10, LinesKeep DEF LogInv
<1>12. Reached'
  <2>1. \A k \in Modules : modules'[k] = modules[k] \/ modules'[k] \notin DOMAIN loggers
    BY <1>3 DEF Grows, Known
  <2>2. QED
    BY <1>1, <1>3, <1>5, <1>10, <2>1, ReachedKeep DEF LogInv
<1>13. QED
  BY <1>5, <1>6, <1>7, <1>9, <1>11, <1>12 DEF LogInv

(* The line goes to the logger's sinks. *)
LEMMA SinkStep ==
  ASSUME LogInv, NEW t \in Threads, Sink(t), Observe
  PROVE  LogInv'
<1> DEFINE h == hand[t]
           n == call[t].line
<1>1. /\ pc[t] = "sink" /\ Goto(t, "flush")
      /\ \E s \in Nat \ {0} : SinkIt(h, n, s)
      /\ UNCHANGED <<mutex, options, default_logger, modules, default_level, default_cache,
                     hand, call, lines, owed, flushed>>
  BY LinesAssumption DEF Sink, registryVars
<1>2. /\ {"sink", "flush"} \subseteq InLog /\ {"sink", "flush"} \subseteq Using
      /\ {"sink", "flush"} \subseteq Steps /\ "sink" \in Unwritten /\ "flush" \notin Unwritten
      /\ Unwritten \subseteq InLog
  BY DEF InLog, Unwritten, Steps, Using
<1>3. h \in DOMAIN loggers /\ Judged(t) /\ n \in Nat
  BY <1>1, <1>2 DEF LogInv, LogTypes, Known, Judged
<1>4. /\ LoggersOK' /\ DOMAIN loggers' = DOMAIN loggers
      /\ written' \in Seq(Int) /\ ToSet(written) \subseteq ToSet(written')
      /\ ToSet(written') \subseteq ToSet(written) \cup {n}
      /\ \A k \in DOMAIN loggers : k # h => loggers'[k] = loggers[k]
      /\ loggers'[h].level = loggers[h].level
      /\ loggers'[h].buffered \subseteq loggers[h].buffered \cup {n}
      /\ n \in ToSet(written') \/ loggers' = loggers
  BY <1>1, <1>3, SinkOK DEF LogInv, LogTypes
<1>5. \A k \in DOMAIN loggers :
        /\ loggers'[k].level = loggers[k].level
        /\ loggers'[k].buffered \subseteq loggers[k].buffered \cup {n}
  BY <1>4
<1>6. LogTypes'
  BY <1>1, <1>2, <1>4 DEF LogInv, LogTypes, Known, Goto
<1>7. /\ Locked' /\ Agreement' /\ Enforced'
      /\ Grows /\ \A u \in Threads : LevelKept(u)
      /\ pc'[t] = "flush" /\ \A u \in Threads \ {t} : pc'[u] = pc[u]
  <2> HIDE DEF h, n
  <2>1. pc[t] \in InLog /\ "flush" \in InLog
    BY <1>1, <1>2
  <2>2. QED
    BY <1>1, <1>4, <1>5, <2>1, LogAgrees
<1>8. \A u \in Threads : Judged(u)'
  <2>1. seen[t] \subseteq seen'[t] /\ SeenBy(t)' \subseteq seen'[t]
    BY <1>2, <1>7, Observed
  <2>2. loggers'[h].level \in seen'[t]
    BY <1>1, <1>2, <1>3, <1>4, <2>1 DEF Judged
  <2>3. Judged(t)'
    BY <1>1, <1>2, <1>3, <1>7, <2>1, <2>2 DEF Judged
  <2>4. Outside(t)
    BY <1>1, <1>7 DEF Outside
  <2>5. QED
    BY <1>7, <2>3, <2>4, JudgedAll
<1>9. /\ n \notin ToSet(written) \cup flushed /\ n \in 1..lines
      /\ \A u \in Threads : u # t /\ pc[u] \in InLog => call[u].line # n
      /\ \A l \in DOMAIN loggers : n \notin loggers[l].buffered
      /\ \A u \in Threads : n \notin owed[u]
  <2>1. n \notin ToSet(written) \cup flushed /\ n \in 1..lines
    BY <1>1, <1>2 DEF LogInv, Lines
  <2>2. \A u \in Threads : u # t /\ pc[u] \in InLog => call[u].line # n
    BY <1>1, <1>2 DEF LogInv, Lines
  <2>3. QED
    BY <2>1, <2>2 DEF LogInv, Lines
<1>10. Lines'
  <2> HIDE DEF h, n
  <2>1. \A u \in Threads : pc'[u] \in InLog => pc[u] \in InLog
    BY <1>1, <1>2, <1>7
  <2>2. /\ \A u \in Threads : pc'[u] \in InLog => call'[u].line \in 1..lines'
        /\ \A u, v \in Threads :
             pc'[u] \in InLog /\ pc'[v] \in InLog /\ call'[u].line = call'[v].line => u = v
    BY <1>1, <2>1 DEF LogInv, Lines
  <2>3. ASSUME NEW u \in Threads, pc'[u] \in Unwritten
        PROVE  call'[u].line \notin ToSet(written') \cup flushed'
    <3>1. u # t /\ pc[u] \in Unwritten /\ pc[u] \in InLog
      BY <1>2, <1>7, <2>3
    <3>2. call[u].line \notin ToSet(written) \cup flushed /\ call[u].line # n
      BY <1>9, <3>1 DEF LogInv, Lines
    <3>3. QED
      BY <1>1, <1>4, <3>2
  <2>4. ASSUME NEW u \in Threads, pc'[u] = "flush", NEW l \in DOMAIN loggers',
               call'[u].line \in loggers'[l].buffered
        PROVE  l = hand'[u]
    <3>1. CASE u = t
      <4>1. call'[u].line = n /\ hand'[u] = h
        BY <1>1, <3>1 DEF h, n
      <4>2. QED
        BY <1>4, <1>9, <2>4, <4>1
    <3>2. CASE u # t
      <4>1. pc[u] = "flush" /\ call[u].line # n
        BY <1>2, <1>7, <1>9, <2>4, <3>2
      <4>2. call[u].line \in loggers[l].buffered /\ l \in DOMAIN loggers
        BY <1>1, <1>4, <1>5, <2>4, <4>1
      <4>3. QED
        BY <1>1, <4>1, <4>2 DEF LogInv, Lines
    <3>3. QED
      BY <3>1, <3>2
  <2>5. \A k \in ToSet(written') \cup flushed' : k <= lines'
    <3>1. n <= lines
      BY <1>9 DEF LogInv, LogTypes
    <3>2. QED
      BY <1>1, <1>4, <3>1 DEF LogInv, Lines
  <2>6. \A l \in DOMAIN loggers' : loggers'[l].buffered \subseteq ToSet(written')
    <3>1. \A l \in DOMAIN loggers : loggers[l].buffered \subseteq ToSet(written)
      BY DEF LogInv, Lines
    <3>2. CASE loggers' = loggers
      BY <1>4, <3>1, <3>2
    <3>3. CASE n \in ToSet(written')
      BY <1>4, <1>5, <3>1, <3>3
    <3>4. QED
      BY <1>4, <3>2, <3>3
  <2>7. \A u \in Threads : owed'[u] \subseteq ToSet(written')
    BY <1>1, <1>4 DEF LogInv, Lines
  <2>8. QED
    BY <2>2, <2>3, <2>4, <2>5, <2>6, <2>7 DEF Lines
<1>11. Reached'
  <2> DEFINE R == ModuleLoggers \cup ({default_logger, default_cache} \ {NoLogger})
  <2>1. R' = R /\ R \subseteq DOMAIN loggers
    BY <1>1 DEF ModuleLoggers, LogInv, LogTypes, Known
  <2>2. \A l \in R : flushed \cap loggers[l].buffered = {}
    BY DEF LogInv, Reached, FlushReaches, Buffered
  <2>3. \A l \in R : flushed \cap loggers'[l].buffered = {}
    BY <1>5, <1>9, <2>1, <2>2
  <2>4. FlushReaches'
    BY <1>1, <2>1, <2>3 DEF FlushReaches, Buffered
  <2>5. \A u \in Threads : \A l \in {default_logger', default_cache'} \ {NoLogger} :
          owed'[u] \cap loggers'[l].buffered = {}
    <3>1. \A l \in {default_logger, default_cache} \ {NoLogger} : l \in DOMAIN loggers
      BY <2>1
    <3>2. QED
      BY <1>1, <1>5, <1>9, <3>1 DEF LogInv, Reached
  <2>6. \A u \in Threads : owed'[u] # {} => pc'[u] = "flush_modules"
    BY <1>1, <1>7 DEF LogInv, Reached
  <2>7. QED
    BY <2>4, <2>5, <2>6 DEF Reached
<1>12. QED
  BY <1>6, <1>7, <1>8, <1>10, <1>11 DEF LogInv

(* From its flush level on the line is flushed at once. *)
LEMMA FlushStep ==
  ASSUME LogInv, NEW t \in Threads, Flush(t), Observe
  PROVE  LogInv'
<1> DEFINE h == hand[t]
           n == call[t].line
           now == call[t].level >= loggers[h].flush_level
           ls == IF now THEN {h} ELSE {}
<1>1. /\ pc[t] = "flush" /\ Goto(t, "logged") /\ hand' = [hand EXCEPT ![t] = NoLogger]
      /\ IF now THEN FlushThem({h}) /\ flushed' = flushed \cup {n}
                ELSE UNCHANGED <<loggers, flushed>>
      /\ UNCHANGED <<mutex, options, default_logger, modules, default_level, default_cache,
                     fs, call, lines, written, owed>>
  BY DEF Flush, registryVars
<1>2. /\ {"flush", "logged"} \subseteq InLog /\ "logged" \notin Using /\ "flush" \in Using
      /\ {"flush", "logged"} \subseteq Steps /\ {"flush", "logged"} \cap Unwritten = {}
      /\ Unwritten \subseteq InLog
  BY DEF InLog, Unwritten, Steps, Using
<1>3. h \in DOMAIN loggers /\ Judged(t) /\ n \in Nat
  BY <1>1, <1>2 DEF LogInv, LogTypes, Known, Judged
<1>4. /\ LoggersOK' /\ DOMAIN loggers' = DOMAIN loggers /\ BuffersKept
      /\ \A l \in DOMAIN loggers :
           /\ loggers'[l].level = loggers[l].level
           /\ loggers'[l].buffered = IF l \in ls THEN {} ELSE loggers[l].buffered
      /\ flushed' = IF now THEN flushed \cup {n} ELSE flushed
  <2>1. CASE now
    BY <1>1, <2>1, FlushThemOK
  <2>2. CASE ~now
    <3>1. UNCHANGED <<loggers, fs, modules, flushed>>
      BY <1>1, <2>2
    <3>2. LoggersOK'
      BY <3>1 DEF LogInv, LogTypes, LoggersOK, FilesOK
    <3>3. QED
      BY <2>2, <3>1, <3>2, Static
  <2>3. QED
    BY <2>1, <2>2
<1>5. LogTypes'
  <2>1. flushed' \subseteq Int
    BY <1>3, <1>4 DEF LogInv, LogTypes
  <2>2. QED
    BY <1>1, <1>2, <1>4, <2>1 DEF LogInv, LogTypes, Known, Goto
<1>6. /\ Locked' /\ Agreement' /\ Enforced'
      /\ Grows /\ \A u \in Threads : LevelKept(u)
      /\ pc'[t] = "logged" /\ \A u \in Threads \ {t} : pc'[u] = pc[u]
  <2>1. pc[t] \in InLog /\ "logged" \in InLog
    BY <1>1, <1>2
  <2>2. QED
    BY <1>1, <1>4, <2>1, LogAgrees
<1>7. hand'[t] = NoLogger /\ \A u \in Threads \ {t} : hand'[u] = hand[u]
  BY <1>1 DEF LogInv, LogTypes
<1>8. \A u \in Threads : Judged(u)'
  <2>1. seen[t] \subseteq seen'[t] /\ SeenBy(t)' \subseteq seen'[t]
    BY <1>2, <1>6, Observed
  <2>2. \E level \in seen'[t] : call'[t].level >= level
    BY <1>1, <1>2, <1>3, <2>1 DEF Judged
  <2>3. Judged(t)'
    BY <1>1, <1>2, <1>6, <1>7, <2>1, <2>2 DEF Judged
  <2>4. Outside(t)
    BY <1>1, <1>6, <1>7 DEF Outside
  <2>5. QED
    BY <1>6, <2>3, <2>4, JudgedAll
<1>9. Lines'
  <2>1. \A k \in flushed' : \/ k \in flushed \cup ToSet(written)
                            \/ \E u \in Threads : pc[u] = "flush" /\ k = call[u].line
    BY <1>1, <1>4
  <2>2. \A u \in Threads : owed'[u] \subseteq ToSet(written)
    BY <1>1 DEF LogInv, Lines
  <2>3. \A u \in Threads :
          /\ pc'[u] \in InLog => pc[u] \in InLog /\ call'[u].line = call[u].line
          /\ pc'[u] \in Unwritten => pc[u] \in Unwritten
          /\ pc'[u] = "flush" => pc[u] = "flush" /\ hand'[u] = hand[u]
    BY <1>1, <1>2, <1>6, <1>7
  <2>4. QED
    BY <1>1, <1>4, <2>1, <2>2, <2>3, LinesFlushed DEF LogInv
<1>10. Reached'
  <2> DEFINE R == ModuleLoggers \cup ({default_logger, default_cache} \ {NoLogger})
  <2>1. R' = R /\ R \subseteq DOMAIN loggers
    BY <1>1 DEF ModuleLoggers, LogInv, LogTypes, Known
  <2>2. \A l \in R : flushed \cap loggers[l].buffered = {}
    BY DEF LogInv, Reached, FlushReaches, Buffered
  <2>3. \A l \in DOMAIN loggers : n \in loggers[l].buffered => l = h
    BY <1>1 DEF LogInv, Lines
  <2>4. \A l \in R : flushed' \cap loggers'[l].buffered = {}
    BY <1>4, <2>1, <2>2, <2>3
  <2>5. FlushReaches'
    BY <2>1, <2>4 DEF FlushReaches, Buffered
  <2>6. \A u \in Threads : \A l \in {default_logger', default_cache'} \ {NoLogger} :
          owed'[u] \cap loggers'[l].buffered = {}
    <3>1. \A l \in {default_logger, default_cache} \ {NoLogger} :
            l \in DOMAIN loggers /\ loggers'[l].buffered \subseteq loggers[l].buffered
      BY <1>4, <2>1
    <3>2. QED
      BY <1>1, <3>1 DEF LogInv, Reached
  <2>7. \A u \in Threads : owed'[u] # {} => pc'[u] = "flush_modules"
    BY <1>1, <1>6 DEF LogInv, Reached
  <2>8. QED
    BY <2>5, <2>6, <2>7 DEF Reached
<1>11. QED
  BY <1>5, <1>6, <1>8, <1>9, <1>10 DEF LogInv

-----------------------------------------------------------------------------
(* The theorems                                                            *)

(* init() and set_level() make the first logger; there is only the file of *)
(* an earlier run.                                                         *)
LEMMA LogInit == Init => LogInv
<1> SUFFICES ASSUME Init PROVE LogInv
  OBVIOUS
<1>1. PICK old \in 0..OldFiles : \E size \in [1..old -> Sizes] :
        /\ fs = [name |-> [i \in 0..MaxFiles |-> IF i < old THEN old - i ELSE NoFile],
                 content |-> [i \in 1..old |-> [lines |-> <<-i>>, size |-> size[i]]]]
        /\ written = [i \in 1..old |-> -i]
  BY DEF Init
<1>2. /\ old \in Nat /\ MaxFiles \in Nat /\ DefaultOptions \in LogOptions
      /\ DefaultOptions.level \in Levels
  BY SizesAssumption, OptionsAssumption DEF LogOptions
<1>3. FilesOK(fs)
  <2>1. PICK size \in [1..old -> Sizes] :
          fs = [name |-> [i \in 0..MaxFiles |-> IF i < old THEN old - i ELSE NoFile],
                content |-> [i \in 1..old |-> [lines |-> <<-i>>, size |-> size[i]]]]
    BY <1>1
  <2> DEFINE c == [i \in 1..old |-> [lines |-> <<-i>>, size |-> size[i]]]
             name == [i \in 0..MaxFiles |-> IF i < old THEN old - i ELSE NoFile]
  <2>2. \A i \in 1..old : [lines |-> <<-i>>, size |-> size[i]] \in File
    <3>1. \A i \in 1..old : <<-i>> \in Seq(Int)
      BY <1>2
    <3>2. \A i \in 1..old : size[i] \in Nat /\ size[i] # 0
      BY LinesAssumption
    <3>3. QED
      BY <3>1, <3>2 DEF File
  <2>3. c \in Seq(File) /\ Len(c) = old
    BY <1>2, <2>2
  <2>4. name \in [0..MaxFiles -> Nat] /\ \A i \in 0..MaxFiles : name[i] <= old
    BY <1>2 DEF NoFile
  <2>5. fs.name = name /\ fs.content = c /\ fs = [name |-> name, content |-> c]
    BY <2>1
  <2> HIDE DEF c, name
  <2>6. QED
    BY <2>3, <2>4, <2>5 DEF FilesOK, Files
<1>4. written \in Seq(Int) /\ \A n \in ToSet(written) : n <= 0
  <2>1. \A i \in 1..old : -i \in Int /\ -i <= 0
    BY <1>2
  <2>2. written \in Seq(Int) /\ DOMAIN written = 1..old
    BY <1>1, <1>2, <2>1
  <2>3. QED
    BY <1>1, <2>1, <2>2 DEF ToSet
<1>5. loggers \in Seq(LoggerRecord) /\ DOMAIN loggers = {}
  BY DEF Init
<1>6. LogTypes
  BY <1>2, <1>3, <1>4, <1>5 DEF Init, LogTypes, LoggersOK, Known, NoCall, Steps
<1>7. Locked
  BY ThreadsAssumption DEF Init, Locked, Sections
<1>8. Agreement /\ Enforced
  BY DEF Init, Agreement, Enforced, NoLogger
<1>9. \A t \in Threads : Judged(t)
  BY DEF Init, Judged, Using, InLog, Unwritten
<1>10. Lines
  BY <1>4, <1>5 DEF Init, Lines, InLog, Unwritten
<1>11. Reached
  BY DEF Init, Reached, FlushReaches, Buffered, ModuleLoggers
<1>12. QED
  BY <1>6, <1>7, <1>8, <1>9, <1>10, <1>11 DEF LogInv

(* Every step preserves it. *)
LEMMA LogNext == LogInv /\ [Next]_vars => LogInv'
<1> SUFFICES ASSUME LogInv, [Next]_vars PROVE LogInv'
  OBVIOUS
<1>1. CASE UNCHANGED vars
  <2>1. UNCHANGED <<mutex, options, default_logger, modules, default_level, default_cache, loggers,
                    fs, pc, hand, call, lines, in_force, seen, written, owed, flushed>>
    BY <1>1 DEF vars, registryVars, threadVars, historyVars
  <2>2. LogTypes' /\ Locked' /\ Agreement' /\ Enforced'
    BY <2>1 DEF LogInv, LogTypes, LoggersOK, FilesOK, Known, Locked, Agreement, Within, Enforced
  <2>3. \A t \in Threads : Judged(t)'
    BY <2>1 DEF LogInv, Judged, SeenBy, InForce
  <2>4. Lines' /\ Reached'
    BY <2>1 DEF LogInv, Lines, ToSet, Reached, FlushReaches, Buffered, ModuleLoggers
  <2>5. QED
    BY <2>2, <2>3, <2>4 DEF LogInv
<1>2. ASSUME NEW t \in Threads, Configure(t), Observe PROVE LogInv'
  BY <1>2, InitLoggingStep, InitLevelStep, InitCacheStep, SetLevelStep, SetModuleLevelStep,
     SetLoggerStep, GetModuleLevelStep, FlushDefaultStep, FlushModulesStep DEF Configure
<1>3. ASSUME NEW t \in Threads, DoLog(t), Observe PROVE LogInv'
  BY <1>3, LogStep, ShouldLogStep, LoadCacheStep, FillCacheStep, ShouldLogModuleStep,
     FindModuleStep, CheckLevelStep, SinkStep, FlushStep, ReturnStep DEF DoLog
<1>4. QED
  BY <1>1, <1>2, <1>3 DEF Next

(* The inductive invariant of init(), set_level(), log() and flush().       *)
THEOREM LogInvariant == Spec => []LogInv
  BY LogInit, LogNext, PTL DEF Spec

(* Outside init() and set_level() the cached level, the level of the        *)
(* default logger and the one of the options agree, and the cached logger   *)
(* is the default logger or none, for any threads, modules and options.     *)
THEOREM LevelsAgreeHolds == Spec => []LevelsAgree
<1>1. LogInv => LevelsAgree
  <2> SUFFICES ASSUME LogInv PROVE LevelsAgree
    OBVIOUS
  <2>1. mutex = NoThread <=> \A t \in Threads : pc[t] \notin Sections
    BY ThreadsAssumption DEF LogInv, LogTypes, Locked
  <2>2. \A l \in DOMAIN loggers : loggers[l].level \in Levels /\ loggers[l].fd \in 0..Len(fs.content)
    <3>1. LoggersOK /\ Len(fs.content) \in Nat
      BY DEF LogInv, LogTypes, LoggersOK, FilesOK, Files
    <3>2. QED
      BY <3>1, RecordOK
  <2>3. TypeOK
    BY <2>1, <2>2 DEF TypeOK, LogInv, LogTypes, Known, ModuleLoggers, Sections, Judged, Using
  <2>4. mutex = NoThread => \A s \in Sections : ~Within(s)
    BY <2>1 DEF Within
  <2>5. QED
    BY <2>3, <2>4 DEF LevelsAgree, LogInv, Agreement, Sections
<1>2. QED
  BY <1>1, LogInvariant, PTL

(* A line is logged if its level was enough all through the call of log(),  *)
(* and filtered if it was too low all through the call, although log()      *)
(* reads the cached level, the cached logger and its level one after the    *)
(* other without the mutex.                                                 *)
THEOREM LevelDecidesHolds == Spec => []LevelDecides
<1>1. LogInv => LevelDecides
  <2>1. "logged" \in InLog \ {"should_log", "filtered"}
    BY DEF InLog, Unwritten
  <2>2. QED
    BY <2>1 DEF LogInv, Judged, LevelDecides
<1>2. QED
  BY <1>1, LogInvariant, PTL

(* What flush() or the flush level has flushed is in no buffer of a logger  *)
(* that the registry reaches.                                               *)
THEOREM FlushReachesHolds == Spec => []FlushReaches
<1>1. LogInv => FlushReaches
  BY DEF LogInv, Reached
<1>2. QED
  BY <1>1, LogInvariant, PTL

-----------------------------------------------------------------------------
(* What the files hold                                                     *)

Alone == \A k, l \in FileLoggers : k = l

(* The lines of the file that has a name, and whether it is within the limit *)
FilesOf(files, i) == FileOf(files, i).lines
Fits(x) == x.size > MaxSize => Len(x.lines) = 1

(* The names in use are the youngest, and each is of a file of its own.     *)
Chained(files) ==
  /\ \A i \in 1..MaxFiles : files.name[i] # NoFile => files.name[i - 1] # NoFile
  /\ \A i, j \in 0..MaxFiles : files.name[i] = files.name[j] /\ files.name[i] # NoFile => i = j

(* The files hold the youngest lines of log, and give up others only when   *)
(* the oldest name is in use; none passes the limit but by a line alone.    *)
Keeps(files, log) ==
  /\ \E lost \in Seq(Int) : log = lost \o Kept(files)
  /\ \A i \in 0..MaxFiles : Fits(FileOf(files, i))
  /\ Kept(files) # log => files.name[MaxFiles] # NoFile

(* Where there is a logger with a file, the youngest name is in use; and a  *)
(* logger that alone has one writes to that file, whose size it knows.      *)
FilesInv ==
  /\ Chained(fs)
  /\ FileLoggers # {} => fs.name[0] # NoFile
  /\ Alone =>
       /\ Keeps(fs, written)
       /\ \A l \in FileLoggers : /\ loggers[l].fd = fs.name[0]
                                 /\ loggers[l].current_size = FileOf(fs, 0).size

(* Every set of natural numbers that is not empty has a least element: the *)
(* files are gone through by the number of younger ones.                   *)
LEMMA Least ==
  ASSUME NEW T, T \subseteq Nat, T # {}
  PROVE  \E m \in T : \A n \in T : m <= n
<1> DEFINE R == OpToRel(<, Nat)
<1>1. IsWellFoundedOn(R, Nat)
  BY NatLessThanWellFounded
<1>2. PICK m \in T : \A n \in T : ~ (<<n, m>> \in R)
  BY <1>1, WFMin
<1>3. ASSUME NEW n \in T PROVE m <= n
  <2>1. n \in Nat /\ m \in Nat
    OBVIOUS
  <2>2. n < m => <<n, m>> \in R
    BY <2>1 DEF OpToRel
  <2>3. ~(n < m)
    BY <1>2, <2>2
  <2>4. QED
    BY <2>1, <2>3
<1>4. QED
  BY <1>3

(* One step of the recursion of Kept: the n youngest files, f of fewer      *)
Gathered(files, f, n) == IF n = 0 THEN <<>> ELSE FilesOf(files, n - 1) \o f[n - 1]

Youngest(files) == CHOOSE f : f = [n \in 0..(MaxFiles + 1) |-> Gathered(files, f, n)]

(* The recursion of Kept defines a function. *)
LEMMA YoungestDefined ==
  ASSUME NEW files
  PROVE  Youngest(files) = [n \in 0..(MaxFiles + 1) |-> Gathered(files, Youngest(files), n)]
<1> DEFINE top == MaxFiles + 1
           Runs(m) == \E f : f = [n \in 0..m |-> Gathered(files, f, n)]
           Bad == {m \in 0..top : ~Runs(m)}
<1>1. top \in Nat
  BY SizesAssumption
<1>2. ASSUME Bad # {} PROVE FALSE
  <2>1. PICK b \in Bad : \A n \in Bad : b <= n
    <3>1. Bad \subseteq Nat
      BY <1>1
    <3> HIDE DEF Bad
    <3>2. QED
      BY <1>2, <3>1, Least
  <2>2. b \in 0..top /\ b \in Nat /\ ~Runs(b)
    BY <1>1
  <2>3. CASE b = 0
    <3> DEFINE f == [n \in 0..0 |-> <<>>]
    <3>1. f = [n \in 0..0 |-> Gathered(files, f, n)]
      BY DEF Gathered
    <3>2. QED
      BY <2>2, <2>3, <3>1
  <2>4. CASE b # 0
    <3>1. b - 1 \in 0..top /\ b - 1 \in Nat /\ ~(b <= b - 1)
      BY <1>1, <2>2, <2>4
    <3>2. b - 1 \notin Bad
      BY <2>1, <3>1
    <3>3. PICK f : f = [n \in 0..(b - 1) |-> Gathered(files, f, n)]
      BY <3>1, <3>2
    <3> DEFINE g == [n \in 0..b |-> Gathered(files, f, n)]
    <3>4. \A n \in 0..(b - 1) : g[n] = f[n]
      <4>1. \A n \in 0..(b - 1) : f[n] = Gathered(files, f, n)
        BY <3>3
      <4>2. 0..(b - 1) \subseteq 0..b
        BY <2>2
      <4>3. QED
        BY <4>1, <4>2
    <3>5. ASSUME NEW n \in 0..b PROVE Gathered(files, f, n) = Gathered(files, g, n)
      <4>1. CASE n = 0
        BY <4>1 DEF Gathered
      <4>2. CASE n # 0
        <5>1. n - 1 \in 0..(b - 1)
          BY <2>2, <4>2
        <5>2. g[n - 1] = f[n - 1]
          BY <3>4, <5>1
        <5> HIDE DEF g
        <5>3. QED
          BY <5>2 DEF Gathered
      <4>3. QED
        BY <4>1, <4>2
    <3>6. g = [n \in 0..b |-> Gathered(files, g, n)]
      <4> DEFINE h == [n \in 0..b |-> Gathered(files, g, n)]
      <4>1. g = h
        BY <3>5
      <4>2. QED
        BY <4>1
    <3>7. QED
      BY <2>2, <3>6
  <2>5. QED
    BY <2>3, <2>4
<1>3. Runs(top)
  BY <1>1, <1>2
<1>4. QED
  BY <1>3 DEF Youngest

(* A name has a sequence of lines, empty where there is no file. *)
LEMMA FilesOfType ==
  ASSUME NEW f, FilesOK(f), NEW i \in 0..MaxFiles
  PROVE  /\ FileOf(f, i) \in File /\ FilesOf(f, i) \in Seq(Int) /\ Len(FilesOf(f, i)) \in Nat
         /\ f.name[i] \in Nat
         /\ f.name[i] # NoFile => f.name[i] \in DOMAIN f.content
<1>1. /\ f.name[i] \in Nat /\ f.name[i] <= Len(f.content) /\ f.content \in Seq(File)
      /\ DOMAIN f.content = 1..Len(f.content) /\ Len(f.content) \in Nat
  <2>1. f.name \in [0..MaxFiles -> Nat] /\ f.content \in Seq(File)
    BY DEF FilesOK, Files
  <2>2. DOMAIN f.content = 1..Len(f.content) /\ Len(f.content) \in Nat
    BY <2>1
  <2>3. QED
    BY <2>1, <2>2 DEF FilesOK
<1>2. f.name[i] # NoFile => f.name[i] \in DOMAIN f.content
  BY <1>1 DEF NoFile
<1>3. FileOf(f, i) \in File
  <2>1. CASE f.name[i] = NoFile
    BY <2>1, FileTypes DEF FileOf
  <2>2. CASE f.name[i] # NoFile
    <3> DEFINE S == File
    <3>1. f.content \in Seq(S) /\ f.name[i] \in DOMAIN f.content
      BY <1>1, <1>2, <2>2
    <3> HIDE DEF S
    <3>2. f.content[f.name[i]] \in S
      BY <3>1
    <3>3. QED
      BY <2>2, <3>2 DEF FileOf, S
  <2>3. QED
    BY <2>1, <2>2
<1>4. QED
  BY <1>1, <1>2, <1>3, FileTypes DEF FilesOf

(* The n youngest files, and one more *)
LEMMA YoungestIs ==
  ASSUME NEW f, FilesOK(f)
  PROVE  /\ Kept(f) = Youngest(f)[MaxFiles + 1]
         /\ Youngest(f)[0] = <<>>
         /\ \A n \in 1..(MaxFiles + 1) :
              Youngest(f)[n] = FilesOf(f, n - 1) \o Youngest(f)[n - 1]
         /\ \A n \in 0..(MaxFiles + 1) : Youngest(f)[n] \in Seq(Int)
<1> DEFINE top == MaxFiles + 1
           y == Youngest(f)
<1>1. top \in Nat /\ MaxFiles \in Nat
  BY SizesAssumption
<1>2. Kept(f) = y[top]
  BY DEF Kept, Youngest, Gathered, FilesOf
<1>3. \A n \in 0..top : y[n] = Gathered(f, y, n)
  <2>1. y = [n \in 0..top |-> Gathered(f, y, n)]
    BY YoungestDefined
  <2> HIDE DEF y
  <2>2. QED
    BY <2>1
<1> HIDE DEF y
<1>4. y[0] = <<>> /\ \A n \in 1..top : y[n] = FilesOf(f, n - 1) \o y[n - 1]
  <2>1. 0 \in 0..top /\ \A n \in 1..top : n \in 0..top /\ n # 0
    BY <1>1
  <2>2. QED
    BY <1>3, <2>1 DEF Gathered
<1> DEFINE Bad == {n \in 0..top : y[n] \notin Seq(Int)}
<1>5. ASSUME Bad # {} PROVE FALSE
  <2>1. PICK b \in Bad : \A n \in Bad : b <= n
    <3>1. Bad \subseteq Nat
      BY <1>1
    <3> HIDE DEF Bad
    <3>2. QED
      BY <1>5, <3>1, Least
  <2>2. b \in 0..top /\ y[b] \notin Seq(Int)
    OBVIOUS
  <2>3. b # 0
    <3>1. <<>> \in Seq(Int)
      OBVIOUS
    <3>2. QED
      BY <1>4, <2>2, <3>1
  <2>4. b \in 1..top /\ b - 1 \in 0..top /\ b - 1 \in 0..MaxFiles /\ ~(b <= b - 1)
    BY <1>1, <2>2, <2>3
  <2>5. y[b - 1] \in Seq(Int)
    BY <2>1, <2>4
  <2>6. FilesOf(f, b - 1) \in Seq(Int)
    BY <2>4, FilesOfType
  <2>7. FilesOf(f, b - 1) \o y[b - 1] \in Seq(Int)
    BY <2>5, <2>6, ConcatProperties
  <2>8. QED
    BY <1>4, <2>2, <2>4, <2>7
<1>6. QED
  BY <1>1, <1>2, <1>4, <1>5 DEF y

(* What is read back from the files does not depend on where they are. *)
LEMMA KeptSame ==
  ASSUME NEW f, NEW g, FilesOK(f), FilesOK(g),
         \A i \in 0..MaxFiles : FilesOf(g, i) = FilesOf(f, i)
  PROVE  Kept(g) = Kept(f)
<1> DEFINE top == MaxFiles + 1
           y == Youngest(f)
           z == Youngest(g)
           Bad == {n \in 0..top : z[n] # y[n]}
<1>1. top \in Nat /\ MaxFiles \in Nat
  BY SizesAssumption
<1>2. /\ Kept(f) = y[top] /\ y[0] = <<>>
      /\ \A n \in 1..top : y[n] = FilesOf(f, n - 1) \o y[n - 1]
      /\ Kept(g) = z[top] /\ z[0] = <<>>
      /\ \A n \in 1..top : z[n] = FilesOf(g, n - 1) \o z[n - 1]
  BY YoungestIs
<1> HIDE DEF y, z
<1>3. ASSUME Bad # {} PROVE FALSE
  <2>1. PICK b \in Bad : \A n \in Bad : b <= n
    <3>1. Bad \subseteq Nat
      BY <1>1
    <3> HIDE DEF Bad
    <3>2. QED
      BY <1>3, <3>1, Least
  <2>2. b \in 0..top /\ z[b] # y[b]
    OBVIOUS
  <2>3. b \in 1..top /\ b - 1 \in 0..top /\ b - 1 \in 0..MaxFiles /\ ~(b <= b - 1)
    BY <1>1, <1>2, <2>2
  <2>4. z[b - 1] = y[b - 1] /\ FilesOf(g, b - 1) = FilesOf(f, b - 1)
    BY <2>1, <2>3
  <2>5. z[b] = FilesOf(g, b - 1) \o z[b - 1] /\ y[b] = FilesOf(f, b - 1) \o y[b - 1]
    BY <1>2, <2>3
  <2>6. QED
    BY <2>2, <2>4, <2>5
<1>4. top \in 0..top
  BY <1>1
<1>5. QED
  BY <1>2, <1>3, <1>4

(* A line at the end of the later of two texts is at the end of both. *)
LEMMA LineAtEnd ==
  ASSUME NEW s \in Seq(Int), NEW t \in Seq(Int), NEW e \in Int
  PROVE  s \o Append(t, e) = Append(s \o t, e)
<1> DEFINE u == s \o Append(t, e)
           v == Append(s \o t, e)
<1>1. /\ s \o t \in Seq(Int) /\ Append(t, e) \in Seq(Int)
      /\ Len(s \o t) = Len(s) + Len(t) /\ Len(Append(t, e)) = Len(t) + 1
      /\ Len(s) \in Nat /\ Len(t) \in Nat
      /\ \A i \in 1..(Len(s) + Len(t)) : (s \o t)[i] = IF i <= Len(s) THEN s[i] ELSE t[i - Len(s)]
  BY ConcatProperties
<1>2. /\ u \in Seq(Int) /\ v \in Seq(Int)
      /\ Len(u) = Len(s) + Len(t) + 1 /\ Len(v) = Len(s) + Len(t) + 1
  BY <1>1, ConcatProperties
<1>3. ASSUME NEW i \in 1..(Len(s) + Len(t) + 1) PROVE u[i] = v[i]
  <2>1. u[i] = IF i <= Len(s) THEN s[i] ELSE Append(t, e)[i - Len(s)]
    BY <1>1, ConcatProperties
  <2>2. v[i] = IF i = Len(s) + Len(t) + 1 THEN e ELSE (s \o t)[i]
    BY <1>1
  <2>3. i > Len(s) /\ i # Len(s) + Len(t) + 1 =>
          i - Len(s) \in 1..Len(t) /\ Append(t, e)[i - Len(s)] = t[i - Len(s)]
    BY <1>1
  <2>4. Append(t, e)[Len(t) + 1] = e
    OBVIOUS
  <2>5. QED
    BY <1>1, <2>1, <2>2, <2>3, <2>4
<1> HIDE DEF u, v
<1>4. u = v
  BY <1>2, <1>3, SeqEqual
<1>5. QED
  BY <1>4 DEF u, v

(* A line written to the youngest file is the last that is read back. *)
LEMMA KeptGrown ==
  ASSUME NEW f, NEW g, FilesOK(f), FilesOK(g), NEW e \in Int,
         FilesOf(g, 0) = Append(FilesOf(f, 0), e),
         \A i \in 1..MaxFiles : FilesOf(g, i) = FilesOf(f, i)
  PROVE  Kept(g) = Append(Kept(f), e)
<1> DEFINE top == MaxFiles + 1
           y == Youngest(f)
           z == Youngest(g)
           Bad == {n \in 1..top : z[n] # Append(y[n], e)}
<1>1. top \in Nat /\ MaxFiles \in Nat /\ 1 \in 1..top /\ top \in 1..top
  BY SizesAssumption
<1>2. /\ Kept(f) = y[top] /\ y[0] = <<>>
      /\ \A n \in 1..top : y[n] = FilesOf(f, n - 1) \o y[n - 1]
      /\ \A n \in 0..top : y[n] \in Seq(Int)
      /\ Kept(g) = z[top] /\ z[0] = <<>>
      /\ \A n \in 1..top : z[n] = FilesOf(g, n - 1) \o z[n - 1]
  BY YoungestIs
<1> HIDE DEF y, z
<1>3. ASSUME Bad # {} PROVE FALSE
  <2>1. PICK b \in Bad : \A n \in Bad : b <= n
    <3>1. Bad \subseteq Nat
      BY <1>1
    <3> HIDE DEF Bad
    <3>2. QED
      BY <1>3, <3>1, Least
  <2>2. b \in 1..top /\ z[b] # Append(y[b], e)
    OBVIOUS
  <2>3. z[b] = FilesOf(g, b - 1) \o z[b - 1] /\ y[b] = FilesOf(f, b - 1) \o y[b - 1]
    BY <1>2, <2>2
  <2>4. CASE b = 1
    <3>1. 0 \in 0..MaxFiles
      BY <1>1
    <3>2. FilesOf(f, 0) \in Seq(Int) /\ Append(FilesOf(f, 0), e) \in Seq(Int)
      BY <3>1, FilesOfType
    <3>3. z[b] = Append(FilesOf(f, 0), e) /\ y[b] = FilesOf(f, 0)
      BY <1>2, <2>3, <2>4, <3>2, ConcatEmptySeq
    <3>4. QED
      BY <2>2, <3>3
  <2>5. CASE b # 1
    <3>1. b - 1 \in 1..top /\ b - 1 \in 0..top /\ b - 1 \in 0..MaxFiles /\ b - 1 \in 1..MaxFiles
          /\ ~(b <= b - 1)
      BY <1>1, <2>2, <2>5
    <3>2. z[b - 1] = Append(y[b - 1], e) /\ FilesOf(g, b - 1) = FilesOf(f, b - 1)
      BY <2>1, <3>1
    <3>3. y[b - 1] \in Seq(Int) /\ FilesOf(f, b - 1) \in Seq(Int)
      BY <1>2, <3>1, FilesOfType
    <3>4. QED
      BY <2>2, <2>3, <3>2, <3>3, LineAtEnd
  <2>6. QED
    BY <2>4, <2>5
<1>4. QED
  BY <1>1, <1>2, <1>3

(* When each file has taken the next older name, only the oldest is lost. *)
LEMMA KeptShifted ==
  ASSUME NEW f, NEW g, FilesOK(f), FilesOK(g), FilesOf(g, 0) = <<>>,
         \A i \in 1..MaxFiles : FilesOf(g, i) = FilesOf(f, i - 1)
  PROVE  Kept(f) = FilesOf(f, MaxFiles) \o Kept(g)
<1> DEFINE top == MaxFiles + 1
           y == Youngest(f)
           z == Youngest(g)
           Bad == {n \in 0..MaxFiles : z[n + 1] # y[n]}
<1>1. /\ MaxFiles \in Nat /\ 1 \in 1..top /\ top \in 1..top
      /\ MaxFiles \in 0..MaxFiles /\ top - 1 = MaxFiles
  BY SizesAssumption
<1>2. /\ Kept(f) = y[top] /\ y[0] = <<>>
      /\ \A n \in 1..top : y[n] = FilesOf(f, n - 1) \o y[n - 1]
      /\ Kept(g) = z[top] /\ z[0] = <<>>
      /\ \A n \in 1..top : z[n] = FilesOf(g, n - 1) \o z[n - 1]
  BY YoungestIs
<1> HIDE DEF y, z
<1>3. ASSUME Bad # {} PROVE FALSE
  <2>1. PICK b \in Bad : \A n \in Bad : b <= n
    <3>1. Bad \subseteq Nat
      BY <1>1
    <3> HIDE DEF Bad
    <3>2. QED
      BY <1>3, <3>1, Least
  <2>2. b \in 0..MaxFiles /\ z[b + 1] # y[b]
    OBVIOUS
  <2>3. CASE b = 0
    <3>1. z[1] = FilesOf(g, 0) \o z[0]
      <4> DEFINE n == 1
                 k == n - 1
      <4>1. n \in 1..top /\ k = 0
        BY <1>1
      <4> HIDE DEF n
      <4>2. z[n] = FilesOf(g, k) \o z[k]
        BY <1>2, <4>1
      <4> HIDE DEF k
      <4>3. z[n] = FilesOf(g, 0) \o z[0]
        BY <4>1, <4>2
      <4>4. QED
        BY <4>3 DEF n
    <3>2. z[1] = <<>>
      BY <1>2, <3>1
    <3>3. QED
      BY <1>2, <2>2, <2>3, <3>2
  <2>4. CASE b # 0
    <3>1. /\ b \in 1..MaxFiles /\ b \in 1..top /\ b + 1 \in 1..top /\ (b + 1) - 1 = b
          /\ b - 1 \in 0..MaxFiles /\ ~(b <= b - 1) /\ (b - 1) + 1 = b
      BY <1>1, <2>2, <2>4
    <3>2. z[b] = y[b - 1]
      BY <2>1, <3>1
    <3>3. FilesOf(g, b) = FilesOf(f, b - 1)
      BY <3>1
    <3>4. z[b + 1] = FilesOf(g, b) \o z[b]
      <4>1. z[b + 1] = FilesOf(g, (b + 1) - 1) \o z[(b + 1) - 1]
        BY <1>2, <3>1
      <4>2. QED
        BY <3>1, <4>1
    <3>5. y[b] = FilesOf(f, b - 1) \o y[b - 1]
      BY <1>2, <3>1
    <3>6. QED
      BY <2>2, <3>2, <3>3, <3>4, <3>5
  <2>5. QED
    BY <2>3, <2>4
<1>4. z[top] = y[MaxFiles]
  BY <1>1, <1>3
<1>5. y[top] = FilesOf(f, MaxFiles) \o y[MaxFiles]
  <2>1. y[top] = FilesOf(f, top - 1) \o y[top - 1]
    BY <1>1, <1>2
  <2>2. QED
    BY <1>1, <2>1
<1>6. QED
  BY <1>2, <1>4, <1>5

(* A new file is the youngest, and the others stay what they were. *)
LEMMA CreatedIs ==
  ASSUME NEW f, FilesOK(f)
  PROVE  /\ Created(f).name[0] = Len(f.content) + 1
         /\ FileOf(Created(f), 0) = EmptyFile
         /\ \A i \in 1..MaxFiles : /\ Created(f).name[i] = f.name[i]
                                   /\ FileOf(Created(f), i) = FileOf(f, i)
<1> DEFINE n == Len(f.content)
           g == Created(f)
           S == File
<1>1. /\ f.name \in [0..MaxFiles -> Nat] /\ f.content \in Seq(S) /\ n \in Nat
      /\ 0 \in 0..MaxFiles /\ EmptyFile \in S
  BY SizesAssumption, FileTypes DEF FilesOK, Files
<1>2. g.name = [f.name EXCEPT ![0] = n + 1] /\ g.content = Append(f.content, EmptyFile)
  BY DEF Created
<1> HIDE DEF S, g
<1>3. g.content[n + 1] = EmptyFile /\ \A k \in 1..n : g.content[k] = f.content[k]
  BY <1>1, <1>2
<1>4. g.name[0] = n + 1 /\ g.name[0] # NoFile
  <2>1. n + 1 # NoFile
    BY <1>1 DEF NoFile
  <2>2. [f.name EXCEPT ![0] = n + 1][0] = n + 1
    BY <1>1
  <2>3. QED
    BY <1>2, <2>1, <2>2
<1>5. \A i \in 1..MaxFiles : g.name[i] = f.name[i] /\ i \in 0..MaxFiles
  BY <1>1, <1>2
<1>6. FileOf(g, 0) = EmptyFile
  BY <1>3, <1>4 DEF FileOf
<1>7. ASSUME NEW i \in 1..MaxFiles PROVE FileOf(g, i) = FileOf(f, i)
  <2>1. f.name[i] # NoFile => f.name[i] \in 1..n
    BY <1>1, <1>5, FilesOfType
  <2>2. QED
    BY <1>3, <1>5, <2>1 DEF FileOf
<1>8. QED
  BY <1>4, <1>5, <1>6, <1>7 DEF g

(* Opening a file changes nothing of what the files hold. *)
LEMMA OpenedIs ==
  ASSUME NEW f, FilesOK(f), Chained(f)
  PROVE  /\ Chained(Opened(f))
         /\ \A i \in 0..MaxFiles : FileOf(Opened(f), i) = FileOf(f, i)
         /\ f.name[MaxFiles] # NoFile => Opened(f).name[MaxFiles] # NoFile
<1>1. CASE f.name[0] # NoFile
  BY <1>1 DEF Opened
<1>2. CASE f.name[0] = NoFile
  <2> DEFINE n == Len(f.content)
             g == Created(f)
  <2>1. Opened(f) = g
    BY <1>2 DEF Opened
  <2>2. /\ g.name[0] = n + 1 /\ FileOf(g, 0) = EmptyFile
        /\ \A i \in 1..MaxFiles : g.name[i] = f.name[i] /\ FileOf(g, i) = FileOf(f, i)
    BY CreatedIs
  <2> HIDE DEF g
  <2>3. n \in Nat /\ MaxFiles \in Nat /\ \A i \in 0..MaxFiles : f.name[i] \in Nat /\ f.name[i] <= n
    BY SizesAssumption DEF FilesOK, Files
  <2>4. g.name[0] # NoFile /\ \A i \in 1..MaxFiles : g.name[i] # g.name[0]
    BY <2>2, <2>3 DEF NoFile
  <2>5. \A i \in 0..MaxFiles : i = 0 \/ i \in 1..MaxFiles
    BY <2>3
  <2>6. \A i \in 1..MaxFiles : g.name[i] # NoFile => g.name[i - 1] # NoFile
    <3>1. ASSUME NEW i \in 1..MaxFiles, g.name[i] # NoFile PROVE g.name[i - 1] # NoFile
      <4>1. f.name[i] # NoFile /\ f.name[i - 1] # NoFile
        BY <2>2, <3>1 DEF Chained
      <4>2. i - 1 \in 1..MaxFiles \/ i - 1 = 0
        BY <2>3
      <4>3. QED
        BY <2>2, <2>4, <4>1, <4>2
    <3>2. QED
      BY <3>1
  <2>7. \A i, j \in 0..MaxFiles : g.name[i] = g.name[j] /\ g.name[i] # NoFile => i = j
    <3>1. \A i, j \in 1..MaxFiles : f.name[i] = f.name[j] /\ f.name[i] # NoFile => i = j
      BY <2>3 DEF Chained
    <3>2. QED
      BY <2>2, <2>4, <2>5, <3>1
  <2>8. Chained(g)
    BY <2>6, <2>7 DEF Chained
  <2>9. FileOf(f, 0) = EmptyFile
    BY <1>2 DEF FileOf
  <2>10. f.name[MaxFiles] # NoFile => g.name[MaxFiles] # NoFile
    <3>1. MaxFiles = 0 \/ MaxFiles \in 1..MaxFiles
      BY <2>3
    <3>2. QED
      BY <2>2, <2>4, <3>1
  <2>11. QED
    BY <2>1, <2>2, <2>5, <2>8, <2>9, <2>10
<1>3. QED
  BY <1>1, <1>2

(* Rotation gives each file the next older name: the youngest is empty, and *)
(* only what the oldest held is lost.                                       *)
LEMMA RotatedIs ==
  ASSUME NEW f, FilesOK(f), Chained(f), f.name[0] # NoFile
  PROVE  /\ Chained(Rotated(f)) /\ FileOf(Rotated(f), 0) = EmptyFile
         /\ \A i \in 1..MaxFiles : /\ FileOf(Rotated(f), i) = FileOf(f, i - 1)
                                   /\ Rotated(f).name[i] = f.name[i - 1]
<1> DEFINE n == Len(f.content)
<1>1. /\ n \in Nat /\ MaxFiles \in Nat /\ f \in Files
      /\ f.name \in [0..MaxFiles -> Nat] /\ f.content \in Seq(File)
      /\ \A i \in 0..MaxFiles : f.name[i] \in Nat /\ f.name[i] <= n
  BY SizesAssumption DEF FilesOK, Files
<1>2. CASE MaxFiles = 0
  <2> DEFINE e == [f.content EXCEPT ![f.name[0]] = EmptyFile]
             g == Rotated(f)
  <2>1. g = [f EXCEPT !.content = e]
    BY <1>2 DEF Rotated
  <2>2. g.name = f.name /\ g.content = e
    BY <1>1, <2>1 DEF Files
  <2>3. f.name[0] \in DOMAIN f.content
    <3>1. 0 \in 0..MaxFiles
      BY <1>1
    <3>2. QED
      BY <3>1, FilesOfType
  <2>4. e[f.name[0]] = EmptyFile
    BY <1>1, <2>3
  <2> HIDE DEF e, g
  <2>5. FileOf(g, 0) = EmptyFile
    BY <2>2, <2>4 DEF FileOf
  <2>6. Chained(g) /\ 1..MaxFiles = {}
    BY <1>2, <2>2 DEF Chained
  <2>7. QED
    BY <2>5, <2>6 DEF g
<1>3. CASE MaxFiles # 0
  <2> DEFINE h == [f EXCEPT !.name = Shifted(f.name)]
             g == Created(h)
  <2>1. h.content = f.content /\ h.name = Shifted(f.name)
    BY <1>1 DEF Files
  <2>2. Rotated(f) = g
    BY <1>3 DEF Rotated
  <2>3. ASSUME NEW i \in 1..MaxFiles
        PROVE  h.name[i] = f.name[i - 1] /\ i - 1 \in 0..MaxFiles /\ i \in 0..MaxFiles
    <3>1. i \in 0..MaxFiles /\ i > 0 /\ i - 1 \in 0..MaxFiles
      BY <1>1
    <3>2. f.name[i - 1] = NoFile => f.name[i] = NoFile
      BY DEF Chained
    <3>3. QED
      BY <2>1, <3>1, <3>2 DEF Shifted
  <2>4. FilesOK(h)
    <3>1. \A i \in 0..MaxFiles : i = 0 \/ i \in 1..MaxFiles
      BY <1>1
    <3>2. h.name \in [0..MaxFiles -> Nat] /\ \A i \in 0..MaxFiles : h.name[i] <= n
      <4>1. h.name[0] = NoFile
        BY <1>1, <1>3, <2>1 DEF Shifted
      <4>2. \A i \in 0..MaxFiles : h.name[i] \in Nat /\ h.name[i] <= n
        BY <1>1, <2>3, <3>1, <4>1 DEF NoFile
      <4>3. h.name = [i \in 0..MaxFiles |-> h.name[i]]
        BY <2>1 DEF Shifted
      <4> HIDE DEF h
      <4>4. QED
        BY <4>2, <4>3
    <3>3. h \in Files
      BY <1>1, <2>1, <3>2 DEF Files
    <3>4. QED
      BY <2>1, <3>2, <3>3 DEF FilesOK
  <2>5. /\ g.name[0] = n + 1 /\ FileOf(g, 0) = EmptyFile
        /\ \A i \in 1..MaxFiles : g.name[i] = h.name[i] /\ FileOf(g, i) = FileOf(h, i)
    <3> HIDE DEF h
    <3>1. QED
      BY <2>1, <2>4, CreatedIs
  <2> HIDE DEF g, h
  <2>6. \A i \in 1..MaxFiles : g.name[i] = f.name[i - 1] /\ FileOf(g, i) = FileOf(f, i - 1)
    BY <2>1, <2>3, <2>5 DEF FileOf
  <2>7. g.name[0] # NoFile /\ \A i \in 1..MaxFiles : g.name[i] # g.name[0]
    BY <1>1, <2>3, <2>5, <2>6 DEF NoFile
  <2>8. \A i \in 1..MaxFiles : g.name[i] # NoFile => g.name[i - 1] # NoFile
    <3>1. ASSUME NEW i \in 1..MaxFiles, g.name[i] # NoFile PROVE g.name[i - 1] # NoFile
      <4>1. CASE i = 1
        BY <2>7, <4>1
      <4>2. CASE i # 1
        <5>1. i - 1 \in 1..MaxFiles
          BY <1>1, <4>2
        <5>2. f.name[i - 1] # NoFile
          BY <2>6, <3>1
        <5>3. f.name[(i - 1) - 1] # NoFile
          BY <5>1, <5>2 DEF Chained
        <5>4. QED
          BY <2>6, <5>1, <5>3
      <4>3. QED
        BY <4>1, <4>2
    <3>2. QED
      BY <3>1
  <2>9. \A i, j \in 0..MaxFiles : g.name[i] = g.name[j] /\ g.name[i] # NoFile => i = j
    <3>1. ASSUME NEW i \in 1..MaxFiles, NEW j \in 1..MaxFiles,
                 g.name[i] = g.name[j], g.name[i] # NoFile
          PROVE  i = j
      <4>1. i - 1 \in 0..MaxFiles /\ j - 1 \in 0..MaxFiles
        BY <1>1
      <4>2. f.name[i - 1] = f.name[j - 1] /\ f.name[i - 1] # NoFile
        BY <2>6, <3>1
      <4>3. i - 1 = j - 1
        BY <4>1, <4>2 DEF Chained
      <4>4. QED
        BY <1>1, <4>3
    <3>2. \A i \in 0..MaxFiles : i = 0 \/ i \in 1..MaxFiles
      BY <1>1
    <3>3. QED
      BY <2>7, <3>1, <3>2
  <2>10. QED
    BY <2>2, <2>5, <2>6, <2>8, <2>9 DEF Chained
<1>4. QED
  BY <1>2, <1>3

(* A line is added to the youngest file alone. *)
LEMMA GrownIs ==
  ASSUME NEW f, FilesOK(f), Chained(f), f.name[0] # NoFile, NEW e \in Int,
         NEW s \in Nat \ {0},
         NEW g, g = [f EXCEPT !.content[f.name[0]] = Grown(@, e, s)]
  PROVE  /\ Chained(g) /\ g.name = f.name
         /\ FileOf(g, 0) = Grown(FileOf(f, 0), e, s)
         /\ \A i \in 1..MaxFiles : FileOf(g, i) = FileOf(f, i)
<1> DEFINE k == f.name[0]
           c == [f.content EXCEPT ![k] = Grown(f.content[k], e, s)]
<1>1. MaxFiles \in Nat /\ f \in Files /\ f.content \in Seq(File)
  BY SizesAssumption DEF FilesOK, Files
<1>2. k \in DOMAIN f.content
  BY <1>1, FilesOfType
<1>3. g.name = f.name /\ g.content = c
  BY <1>1 DEF Files
<1>4. c[k] = Grown(f.content[k], e, s) /\ \A i \in DOMAIN f.content : i # k => c[i] = f.content[i]
  BY <1>1, <1>2
<1> HIDE DEF c
<1>5. FileOf(g, 0) = Grown(FileOf(f, 0), e, s)
  BY <1>3, <1>4 DEF FileOf
<1>6. ASSUME NEW i \in 1..MaxFiles PROVE FileOf(g, i) = FileOf(f, i)
  <2>1. i \in 0..MaxFiles /\ 0 \in 0..MaxFiles /\ i # 0
    BY <1>1
  <2>2. f.name[i] # NoFile => f.name[i] \in DOMAIN f.content /\ f.name[i] # k
    BY <2>1, FilesOfType DEF Chained
  <2>3. QED
    BY <1>3, <1>4, <2>2 DEF FileOf
<1>7. QED
  BY <1>3, <1>5, <1>6 DEF Chained

(* To open a file gives nothing up. *)
LEMMA KeepsOpened ==
  ASSUME NEW f, FilesOK(f), Chained(f), NEW log, Keeps(f, log)
  PROVE  Keeps(Opened(f), log)
<1> DEFINE g == Opened(f)
<1>1. FilesOK(g) /\ \A i \in 0..MaxFiles : FileOf(g, i) = FileOf(f, i)
  BY OpenedOK, OpenedIs
<1>2. f.name[MaxFiles] # NoFile => g.name[MaxFiles] # NoFile
  BY OpenedIs
<1> HIDE DEF g
<1>3. Kept(g) = Kept(f)
  BY <1>1, KeptSame DEF FilesOf
<1>4. Keeps(g, log)
  BY <1>1, <1>2, <1>3 DEF Keeps
<1>5. QED
  BY <1>4 DEF g

(* Rotation gives up the lines of the oldest name, if it is in use. *)
LEMMA KeepsRotated ==
  ASSUME NEW f, FilesOK(f), Chained(f), f.name[0] # NoFile, NEW log, Keeps(f, log)
  PROVE  Keeps(Rotated(f), log)
<1> DEFINE g == Rotated(f)
           given == FilesOf(f, MaxFiles)
<1>1. MaxFiles \in Nat /\ 0 \in 0..MaxFiles /\ MaxFiles \in 0..MaxFiles /\ MaxSize \in Nat
      /\ MaxFiles + 1 \in 0..(MaxFiles + 1)
  BY SizesAssumption
<1>2. /\ FilesOK(g) /\ g.name[0] # NoFile
      /\ FileOf(g, 0) = EmptyFile
      /\ \A i \in 1..MaxFiles : FileOf(g, i) = FileOf(f, i - 1) /\ g.name[i] = f.name[i - 1]
  BY RotatedOK, RotatedIs
<1> HIDE DEF g
<1>3. Kept(f) = given \o Kept(g)
  <2>1. FilesOf(g, 0) = <<>> /\ \A i \in 1..MaxFiles : FilesOf(g, i) = FilesOf(f, i - 1)
    BY <1>2, FileTypes DEF FilesOf
  <2>2. QED
    BY <1>2, <2>1, KeptShifted
<1>4. given \in Seq(Int) /\ Kept(g) \in Seq(Int)
  BY <1>1, <1>2, FilesOfType, YoungestIs
<1>5. PICK lost \in Seq(Int) : log = lost \o Kept(f)
  BY DEF Keeps
<1> HIDE DEF given
<1>6. log = (lost \o given) \o Kept(g) /\ lost \o given \in Seq(Int)
  <2> DEFINE k == Kept(g)
  <2>1. k \in Seq(Int) /\ log = lost \o (given \o k)
    BY <1>3, <1>4, <1>5
  <2> HIDE DEF k
  <2>2. (lost \o given) \o k = lost \o (given \o k)
    BY <1>4, <2>1, ConcatAssociative
  <2>3. lost \o given \in Seq(Int)
    BY <1>4, ConcatProperties
  <2>4. QED
    BY <2>1, <2>2, <2>3 DEF k
<1>7. \A i \in 0..MaxFiles : Fits(FileOf(g, i))
  <2>1. ASSUME NEW i \in 0..MaxFiles, i # 0 PROVE Fits(FileOf(g, i))
    <3>1. i \in 1..MaxFiles /\ i - 1 \in 0..MaxFiles
      BY <1>1, <2>1
    <3>2. QED
      BY <1>2, <3>1 DEF Keeps
  <2>2. Fits(FileOf(g, 0))
    BY <1>1, <1>2, FileTypes DEF Fits
  <2>3. QED
    BY <2>1, <2>2
<1>8. ASSUME Kept(g) # log PROVE g.name[MaxFiles] # NoFile
  <2>1. CASE MaxFiles = 0
    BY <1>2, <2>1
  <2>2. CASE MaxFiles # 0
    <3>1. MaxFiles \in 1..MaxFiles /\ g.name[MaxFiles] = f.name[MaxFiles - 1]
      BY <1>1, <1>2, <2>2
    <3>2. CASE f.name[MaxFiles] # NoFile
      BY <3>1, <3>2 DEF Chained
    <3>3. CASE f.name[MaxFiles] = NoFile
      <4>1. Kept(f) = log
        BY <3>3 DEF Keeps
      <4>2. given = <<>>
        BY <3>3, FileTypes DEF FilesOf, FileOf, given
      <4>3. Kept(f) = Kept(g)
        BY <1>3, <1>4, <4>2, ConcatEmptySeq
      <4>4. QED
        BY <1>8, <4>1, <4>3
    <3>4. QED
      BY <3>2, <3>3
  <2>3. QED
    BY <2>1, <2>2
<1>9. Keeps(g, log)
  BY <1>6, <1>7, <1>8 DEF Keeps
<1>10. QED
  BY <1>9 DEF g

(* A line for which there is room in the youngest file, or which is alone in *)
(* it, is kept.                                                              *)
LEMMA KeepsGrown ==
  ASSUME NEW f, FilesOK(f), Chained(f), f.name[0] # NoFile, NEW log, Keeps(f, log), NEW e \in Int,
         NEW s \in Nat \ {0},
         NEW g, g = [f EXCEPT !.content[f.name[0]] = Grown(@, e, s)], FilesOK(g),
         FilesOf(f, 0) = <<>> \/ FileOf(f, 0).size + s <= MaxSize
  PROVE  Keeps(g, Append(log, e))
<1>1. MaxFiles \in Nat /\ 0 \in 0..MaxFiles /\ MaxFiles + 1 \in 0..(MaxFiles + 1)
      /\ MaxSize \in Nat
  BY SizesAssumption
<1>2. /\ g.name = f.name /\ FileOf(g, 0) = Grown(FileOf(f, 0), e, s)
      /\ \A i \in 1..MaxFiles : FileOf(g, i) = FileOf(f, i)
  BY GrownIs
<1>3. /\ FileOf(f, 0) \in File /\ FilesOf(f, 0) \in Seq(Int) /\ FileOf(f, 0).size \in Nat
      /\ FileOf(g, 0).lines = Append(FilesOf(f, 0), e)
      /\ FileOf(g, 0).size = FileOf(f, 0).size + s
  <2> DEFINE x == FileOf(f, 0)
  <2>1. x \in File
    BY <1>1, FilesOfType
  <2> HIDE DEF x
  <2>2. Grown(x, e, s).lines = Append(x.lines, e) /\ Grown(x, e, s).size = x.size + s
    BY <2>1, GrownOK
  <2>3. x.lines \in Seq(Int) /\ x.size \in Nat
    BY <2>1, FileTypes
  <2>4. QED
    BY <1>2, <2>1, <2>2, <2>3 DEF FilesOf, x
<1>4. Kept(g) = Append(Kept(f), e) /\ Kept(f) \in Seq(Int)
  <2>1. /\ FilesOf(g, 0) = Append(FilesOf(f, 0), e)
        /\ \A i \in 1..MaxFiles : FilesOf(g, i) = FilesOf(f, i)
    BY <1>2, <1>3 DEF FilesOf
  <2>2. QED
    BY <1>1, <2>1, KeptGrown, YoungestIs
<1>5. PICK lost \in Seq(Int) : log = lost \o Kept(f)
  BY DEF Keeps
<1>6. Append(log, e) = lost \o Kept(g)
  BY <1>4, <1>5, LineAtEnd
<1>7. \A i \in 0..MaxFiles : Fits(FileOf(g, i))
  <2>1. ASSUME FilesOf(f, 0) = <<>> PROVE Fits(FileOf(g, 0))
    <3>1. Len(Append(<<>>, e)) = 1
      OBVIOUS
    <3>2. Len(FileOf(g, 0).lines) = 1
      BY <1>3, <2>1, <3>1
    <3>3. QED
      BY <3>2 DEF Fits
  <2>2. ASSUME FileOf(f, 0).size + s <= MaxSize PROVE Fits(FileOf(g, 0))
    <3>1. ~(FileOf(g, 0).size > MaxSize)
      BY <1>1, <1>3, <2>2
    <3>2. QED
      BY <3>1 DEF Fits
  <2>3. \A i \in 0..MaxFiles : i = 0 \/ i \in 1..MaxFiles
    BY <1>1
  <2>4. \A i \in 1..MaxFiles : i \in 0..MaxFiles
    BY <1>1
  <2>5. QED
    BY <1>2, <2>1, <2>2, <2>3, <2>4 DEF Keeps
<1>8. Kept(g) # Append(log, e) => g.name[MaxFiles] # NoFile
  BY <1>2, <1>4 DEF Keeps
<1>9. QED
  BY <1>6, <1>7, <1>8 DEF Keeps

-----------------------------------------------------------------------------
(* What steps do to the files                                              *)

(* The files stay as they are, and with them what the loggers know of them. *)
FilesKept ==
  /\ fs' = fs /\ written' = written
  /\ DOMAIN loggers' = DOMAIN loggers
  /\ \A l \in DOMAIN loggers : /\ loggers'[l].fd = loggers[l].fd
                               /\ loggers'[l].current_size = loggers[l].current_size

(* A logger is made, and nothing written. *)
LoggerMade == written' = written /\ \E o \in LogOptions : MakeLogger(o)

LineSunk == \E l \in DOMAIN loggers, n \in Nat, s \in Nat \ {0} : SinkIt(l, n, s)

(* A new level changes nothing of a logger's file. *)
LEMMA LevelOnly ==
  ASSUME LoggersOK, NEW x, NEW level, loggers' = [loggers EXCEPT ![x].level = level],
         fs' = fs, written' = written
  PROVE  FilesKept
<1>1. DOMAIN loggers' = DOMAIN loggers
  BY DEF LoggersOK
<1>2. ASSUME NEW l \in DOMAIN loggers
      PROVE  loggers'[l].fd = loggers[l].fd /\ loggers'[l].current_size = loggers[l].current_size
  <2>1. loggers[l] \in LoggerRecord
    BY RecordOK
  <2>2. loggers'[l] = IF l = x THEN [loggers[l] EXCEPT !.level = level] ELSE loggers[l]
    BY DEF LoggersOK
  <2>3. QED
    BY <2>1, <2>2 DEF LoggerRecord
<1>3. QED
  BY <1>1, <1>2 DEF FilesKept

(* Nor does flush(): a line is in its file when it is written, ... *)
LEMMA FlushOnly ==
  ASSUME LoggersOK, NEW ls, FlushThem(ls), fs' = fs, written' = written
  PROVE  FilesKept
<1>1. DOMAIN loggers' = DOMAIN loggers
  BY DEF FlushThem
<1>2. ASSUME NEW l \in DOMAIN loggers
      PROVE  loggers'[l].fd = loggers[l].fd /\ loggers'[l].current_size = loggers[l].current_size
  <2>1. loggers[l] \in LoggerRecord
    BY RecordOK
  <2>2. loggers'[l] = IF l \in ls THEN [loggers[l] EXCEPT !.buffered = {}] ELSE loggers[l]
    BY DEF FlushThem
  <2>3. QED
    BY <2>1, <2>2 DEF LoggerRecord
<1>3. QED
  BY <1>1, <1>2 DEF FilesKept

(* ... and one that leaves the loggers as they are. *)
LEMMA NothingDone ==
  ASSUME UNCHANGED <<loggers, fs, written>>
  PROVE  FilesKept
  BY DEF FilesKept

(* Every step makes a logger, gives a line to one, or leaves the files as they *)
(* are.                                                                        *)
LEMMA FilesStep ==
  ASSUME LogInv, [Next]_vars
  PROVE  FilesKept \/ LoggerMade \/ LineSunk
<1>1. LoggersOK /\ options \in LogOptions
  BY DEF LogInv, LogTypes
<1>2. CASE UNCHANGED vars
  BY <1>2, NothingDone DEF vars, historyVars
<1>3. ASSUME NEW t \in Threads, Configure(t) PROVE FilesKept \/ LoggerMade
  <2>1. ASSUME NEW o \in Options, InitLogging(t, o) PROVE LoggerMade
    BY <2>1, OptionsAssumption DEF InitLogging, LoggerMade, historyVars
  <2>2. CASE InitLevel(t) \/ InitCache(t)
    BY <2>2, NothingDone DEF InitLevel, InitCache, historyVars
  <2>3. ASSUME NEW level \in Levels, SetLevel(t, level) PROVE FilesKept
    BY <2>3, NothingDone DEF SetLevel, historyVars
  <2>4. ASSUME NEW level \in Levels, NEW m \in Modules, SetModuleLevel(t, m, level)
        PROVE  FilesKept \/ LoggerMade
    <3>1. written' = written
      BY <2>4 DEF SetModuleLevel, historyVars
    <3>2. CASE modules[m] = NoLogger
      <4>1. MakeLogger([options EXCEPT !.level = level])
        BY <2>4, <3>2 DEF SetModuleLevel
      <4>2. [options EXCEPT !.level = level] \in LogOptions
        BY <1>1 DEF LogOptions
      <4>3. QED
        BY <3>1, <4>1, <4>2 DEF LoggerMade
    <3>3. CASE modules[m] # NoLogger
      <4>1. loggers' = [loggers EXCEPT ![modules[m]].level = level] /\ fs' = fs
        BY <2>4, <3>3 DEF SetModuleLevel
      <4>2. QED
        BY <1>1, <3>1, <4>1, LevelOnly
    <3>4. QED
      BY <3>2, <3>3
  <2>5. CASE SetLogger(t)
    <3>1. written' = written
      BY <2>5 DEF SetLogger, historyVars
    <3>2. CASE default_logger = NoLogger
      BY <1>1, <2>5, <3>1, <3>2 DEF SetLogger, LoggerMade
    <3>3. CASE default_logger # NoLogger
      <4>1. loggers' = [loggers EXCEPT ![default_logger].level = options.level] /\ fs' = fs
        BY <2>5, <3>3 DEF SetLogger
      <4>2. QED
        BY <1>1, <3>1, <4>1, LevelOnly
    <3>4. QED
      BY <3>2, <3>3
  <2>6. ASSUME NEW m \in Modules, GetModuleLevel(t, m) PROVE LoggerMade
    BY <1>1, <2>6 DEF GetModuleLevel, EnsureModule, LoggerMade, historyVars
  <2>7. CASE FlushDefault(t)
    BY <1>1, <2>7, FlushOnly DEF FlushDefault
  <2>8. CASE FlushModules(t)
    BY <1>1, <2>8, FlushOnly DEF FlushModules
  <2>9. QED
    BY <1>3, <2>1, <2>2, <2>3, <2>4, <2>5, <2>6, <2>7, <2>8 DEF Configure
<1>4. ASSUME NEW t \in Threads, DoLog(t) PROVE FilesKept \/ LoggerMade \/ LineSunk
  <2>1. ASSUME NEW target \in Modules \cup {Default}, NEW level \in Levels, Log(t, target, level)
        PROVE  FilesKept
    BY <2>1, NothingDone DEF Log, historyVars
  <2>2. CASE ShouldLog(t) \/ LoadCache(t) \/ FindModule(t) \/ CheckLevel(t) \/ Return(t)
    BY <2>2, NothingDone DEF ShouldLog, LoadCache, FindModule, CheckLevel, Return, historyVars
  <2>3. CASE FillCache(t)
    <3>1. written' = written
      BY <2>3 DEF FillCache, historyVars
    <3>2. CASE default_logger = NoLogger
      BY <1>1, <2>3, <3>1, <3>2 DEF FillCache, LoggerMade
    <3>3. CASE default_logger # NoLogger
      BY <2>3, <3>1, <3>3, NothingDone DEF FillCache
    <3>4. QED
      BY <3>2, <3>3
  <2>4. CASE ShouldLogModule(t)
    <3>1. written' = written /\ \E m \in Modules : EnsureModule(m)
      BY <2>4 DEF ShouldLogModule, historyVars
    <3>2. PICK m \in Modules : EnsureModule(m)
      BY <3>1
    <3>3. CASE modules[m] = NoLogger
      BY <1>1, <3>1, <3>2, <3>3 DEF EnsureModule, LoggerMade
    <3>4. CASE modules[m] # NoLogger
      BY <3>1, <3>2, <3>4, NothingDone DEF EnsureModule
    <3>5. QED
      BY <3>3, <3>4
  <2>5. CASE Sink(t)
    <3>1. hand[t] \in DOMAIN loggers /\ call[t].line \in Nat
      BY <2>5 DEF LogInv, LogTypes, Judged, Using, Sink, Known
    <3>2. QED
      BY <2>5, <3>1, LinesAssumption DEF Sink, LineSunk
  <2>6. CASE Flush(t)
    <3>1. fs' = fs /\ written' = written
      BY <2>6 DEF Flush
    <3>2. FlushThem({hand[t]}) \/ loggers' = loggers
      BY <2>6 DEF Flush
    <3>3. QED
      BY <1>1, <3>1, <3>2, FlushOnly, NothingDone
  <2>7. QED
    BY <1>4, <2>1, <2>2, <2>3, <2>4, <2>5, <2>6 DEF DoLog
<1>5. QED
  BY <1>2, <1>3, <1>4 DEF Next

(* Steps that leave the files as they are *)
LEMMA FilesKeptStep ==
  ASSUME FilesInv, FilesKept
  PROVE  FilesInv'
<1>1. FileLoggers' = FileLoggers
  BY DEF FilesKept, FileLoggers
<1>2. fs' = fs /\ written' = written /\ (Alone' => Alone)
  BY <1>1 DEF FilesKept, Alone
<1>3. \A l \in FileLoggers : /\ loggers'[l].fd = loggers[l].fd
                             /\ loggers'[l].current_size = loggers[l].current_size
  BY DEF FilesKept, FileLoggers
<1>4. Chained(fs') /\ (FileLoggers' # {} => fs'.name[0] # NoFile)
  BY <1>1, <1>2 DEF FilesInv
<1>5. ASSUME Alone'
      PROVE  /\ Keeps(fs', written')
             /\ \A l \in FileLoggers' : /\ loggers'[l].fd = fs'.name[0]
                                        /\ loggers'[l].current_size = FileOf(fs', 0).size
  BY <1>1, <1>2, <1>3, <1>5 DEF FilesInv
<1>6. QED
  BY <1>4, <1>5 DEF FilesInv

(* A new logger opens the youngest file, or rotates to an empty one.        *)
LEMMA LoggerMadeStep ==
  ASSUME LogInv, FilesInv, LoggerMade
  PROVE  FilesInv'
<1>1. PICK o \in LogOptions : MakeLogger(o)
  BY DEF LoggerMade
<1> DEFINE f == OpenedBy(o)
           h == Opened(fs)
<1>2. FilesOK(fs) /\ Chained(fs) /\ LoggersOK
  BY DEF LogInv, LogTypes, LoggersOK, FilesInv
<1>3. FilesOK(h) /\ Chained(h) /\ h.name[0] # NoFile
  BY <1>2, OpenedOK, OpenedIs
<1>4. /\ DOMAIN loggers' = DOMAIN loggers \cup {Made} /\ Made \notin DOMAIN loggers
      /\ \A l \in DOMAIN loggers : loggers'[l] = loggers[l]
  BY <1>1, <1>2, MakeLoggerOK
<1>5. fs' = f /\ written' = written /\ loggers'[Made] = NewLogger(o)
  <2>1. loggers \in Seq(LoggerRecord) /\ loggers' = Append(loggers, NewLogger(o)) /\ fs' = f
    BY <1>1, <1>2 DEF MakeLogger, LoggersOK
  <2>2. loggers'[Made] = NewLogger(o)
    BY <2>1 DEF Made
  <2>3. QED
    BY <2>1, <2>2 DEF LoggerMade
<1>6. o.file => f = h \/ f = Rotated(h)
  BY DEF OpenedBy
<1>7. ~o.file => f = fs
  BY DEF OpenedBy
<1>8. Chained(f)
  <2> HIDE DEF h, f
  <2>1. QED
    BY <1>2, <1>3, <1>6, <1>7, RotatedIs
<1>9. o.file => f.name[0] # NoFile
  <2> HIDE DEF h, f
  <2>1. QED
    BY <1>3, <1>6, RotatedOK
<1>10. Keeps(fs, written) => Keeps(f, written)
  <2>1. Keeps(fs, written) => Keeps(h, written)
    BY <1>2, KeepsOpened
  <2> HIDE DEF h, f
  <2>2. QED
    BY <1>3, <1>6, <1>7, <2>1, KeepsRotated
<1>11. /\ o.file => NewLogger(o).fd = f.name[0]
                    /\ NewLogger(o).current_size = FileOf(f, 0).size
       /\ ~o.file => NewLogger(o).fd = NoFile
  BY <1>9 DEF NewLogger, SizeOfBase, FileOf
<1> HIDE DEF h, f
<1>12. FileLoggers' = FileLoggers \cup (IF o.file THEN {Made} ELSE {})
  BY <1>4, <1>5, <1>9, <1>11 DEF FileLoggers
<1>13. FileLoggers' # {} => fs'.name[0] # NoFile
  BY <1>5, <1>7, <1>9, <1>12 DEF FilesInv
<1>14. ASSUME Alone'
       PROVE  /\ Keeps(fs', written')
              /\ \A l \in FileLoggers' : /\ loggers'[l].fd = fs'.name[0]
                                         /\ loggers'[l].current_size = FileOf(fs', 0).size
  <2>1. Alone
    BY <1>12, <1>14 DEF Alone
  <2>2. Keeps(fs', written')
    BY <1>5, <1>10, <2>1 DEF FilesInv
  <2>3. ASSUME NEW l \in FileLoggers'
        PROVE  loggers'[l].fd = fs'.name[0] /\ loggers'[l].current_size = FileOf(fs', 0).size
    <3>1. CASE o.file
      <4>1. l = Made
        BY <1>12, <1>14, <3>1 DEF Alone
      <4>2. QED
        BY <1>5, <1>11, <3>1, <4>1
    <3>2. CASE ~o.file
      <4>1. l \in FileLoggers /\ l \in DOMAIN loggers
        BY <1>12, <3>2 DEF FileLoggers
      <4>2. loggers[l].fd = fs.name[0] /\ loggers[l].current_size = FileOf(fs, 0).size
        BY <2>1, <4>1 DEF FilesInv
      <4>3. QED
        BY <1>4, <1>5, <1>7, <3>2, <4>1, <4>2
    <3>3. QED
      BY <3>1, <3>2
  <2>4. QED
    BY <2>2, <2>3
<1>15. QED
  BY <1>5, <1>8, <1>13, <1>14 DEF FilesInv

(* A logger that alone has a file writes to the youngest, and rotates when  *)
(* the line does not fit.                                                   *)
LEMMA LineSunkStep ==
  ASSUME LogInv, FilesInv, LineSunk
  PROVE  FilesInv'
<1>1. PICK l \in DOMAIN loggers, n \in Nat, s \in Nat \ {0} : SinkIt(l, n, s)
  BY DEF LineSunk
<1>2. LoggersOK /\ FilesOK(fs) /\ Chained(fs) /\ written \in Seq(Int)
  BY DEF LogInv, LogTypes, LoggersOK, FilesInv
<1>3. CASE loggers[l].fd = NoFile
  <2>1. UNCHANGED <<loggers, fs, written>>
    BY <1>1, <1>3 DEF SinkIt
  <2>2. QED
    BY <2>1, NothingDone, FilesKeptStep
<1>4. CASE loggers[l].fd # NoFile
  <2> DEFINE full == Full(l, s)
             f == IF full THEN Rotated(fs) ELSE fs
             fd == IF full THEN f.name[0] ELSE loggers[l].fd
  <2>1. /\ fs' = [f EXCEPT !.content[fd] = Grown(@, n, s)]
        /\ written' = Append(written, n)
    BY <1>1, <1>4 DEF SinkIt
  <2>2. /\ loggers'[l].fd = fd
        /\ loggers'[l].current_size = IF full THEN s ELSE loggers[l].current_size + s
    <3>1. loggers[l] \in LoggerRecord /\ loggers \in Seq(LoggerRecord)
      BY <1>2, RecordOK DEF LoggersOK
    <3>2. loggers' = [loggers EXCEPT
                ![l].fd = fd,
                ![l].current_size = IF full THEN s ELSE @ + s,
                ![l].buffered = IF full THEN {n} ELSE @ \cup {n}]
      BY <1>1, <1>4 DEF SinkIt
    <3> HIDE DEF fd, full
    <3>3. QED
      BY <3>1, <3>2 DEF LoggerRecord
  <2>3. /\ FilesOK(fs') /\ DOMAIN loggers' = DOMAIN loggers
        /\ \A k \in DOMAIN loggers : k # l => loggers'[k] = loggers[k]
    BY <1>1, <1>2, SinkOK DEF LoggersOK
  <2>4. l \in FileLoggers /\ fs.name[0] # NoFile
    BY <1>4 DEF FileLoggers, FilesInv
  <2>5. FilesOK(f) /\ Chained(f) /\ f.name[0] # NoFile
    BY <1>2, <2>4, RotatedOK, RotatedIs
  <2>6. full => f = Rotated(fs) /\ FileOf(f, 0) = EmptyFile
    BY <1>2, <2>4, RotatedIs
  <2>7. ~full => f = fs
    OBVIOUS
  <2>8. fd # NoFile /\ (full => fd = f.name[0]) /\ (~full => fd = loggers[l].fd)
    BY <1>4, <2>5
  <2>9. full <=> loggers[l].current_size + s > MaxSize /\ fs.content[loggers[l].fd].size > 0
    BY DEF Full
  <2> HIDE DEF full, f, fd
  <2>10. fs'.name = f.name
    <3>1. f \in Files
      BY <2>5 DEF FilesOK
    <3>2. QED
      BY <2>1, <3>1 DEF Files
  <2>11. Chained(fs') /\ fs'.name[0] # NoFile
    BY <2>5, <2>10 DEF Chained
  <2>12. FileLoggers' = FileLoggers
    BY <2>2, <2>3, <2>4, <2>8 DEF FileLoggers
  <2>13. ASSUME Alone'
         PROVE  /\ Keeps(fs', written')
                /\ \A k \in FileLoggers' : /\ loggers'[k].fd = fs'.name[0]
                                           /\ loggers'[k].current_size = FileOf(fs', 0).size
    <3>1. Alone /\ \A k \in FileLoggers' : k = l
      BY <2>4, <2>12, <2>13 DEF Alone
    <3>2. /\ Keeps(fs, written) /\ loggers[l].fd = fs.name[0]
          /\ loggers[l].current_size = FileOf(fs, 0).size
      BY <2>4, <3>1 DEF FilesInv
    <3>3. Keeps(f, written)
      BY <1>2, <2>4, <2>6, <2>7, <3>2, KeepsRotated
    <3>4. fd = f.name[0]
      BY <2>7, <2>8, <3>2
    <3>5. fs' = [f EXCEPT !.content[f.name[0]] = Grown(@, n, s)]
      BY <2>1, <3>4
    <3>6. FileOf(f, 0) \in File /\ FileOf(f, 0).size \in Nat /\ MaxSize \in Nat
      BY <2>5, FilesOfType, FileTypes, SizesAssumption
    <3>7. FilesOf(f, 0) = <<>> \/ FileOf(f, 0).size + s <= MaxSize
      <4>1. ASSUME FilesOf(f, 0) # <<>> PROVE FileOf(f, 0).size + s <= MaxSize
        <5>1. FileOf(f, 0).size # 0
          BY <3>6, <4>1, FileTypes DEF FilesOf
        <5>2. ~full /\ f = fs
          BY <2>6, <2>7, <4>1, FileTypes DEF FilesOf
        <5>3. fs.content[loggers[l].fd].size = FileOf(f, 0).size
          BY <2>4, <3>2, <5>2 DEF FileOf
        <5>4. ~(FileOf(f, 0).size + s > MaxSize)
          BY <2>9, <3>2, <3>6, <5>1, <5>2, <5>3
        <5>5. QED
          BY <3>6, <5>4
      <4>2. QED
        BY <4>1
    <3>8. Keeps(fs', written')
      BY <2>1, <2>3, <2>5, <3>3, <3>5, <3>7, KeepsGrown
    <3>9. FileOf(fs', 0).size = FileOf(f, 0).size + s
      <4> DEFINE x == FileOf(f, 0)
      <4>1. FileOf(fs', 0) = Grown(x, n, s)
        BY <2>5, <3>5, GrownIs
      <4>2. x \in File
        BY <3>6
      <4> HIDE DEF x
      <4>3. Grown(x, n, s).size = x.size + s
        BY <4>2, GrownOK
      <4>4. QED
        BY <4>1, <4>3 DEF x
    <3>10. loggers'[l].current_size = FileOf(fs', 0).size
      <4>1. CASE full
        BY <2>2, <2>6, <3>9, <4>1, FileTypes
      <4>2. CASE ~full
        BY <2>2, <2>7, <3>2, <3>9, <4>2
      <4>3. QED
        BY <4>1, <4>2
    <3>11. loggers'[l].fd = fs'.name[0]
      BY <2>2, <2>10, <3>4
    <3>12. QED
      BY <3>1, <3>8, <3>10, <3>11
  <2>14. QED
    BY <2>11, <2>13 DEF FilesInv
<1>5. QED
  BY <1>3, <1>4

(* What an earlier run left is in the files: a line in each. *)
LEMMA FilesInit == Init => FilesInv
<1> SUFFICES ASSUME Init PROVE FilesInv
  OBVIOUS
<1>1. PICK old \in 0..OldFiles : \E size \in [1..old -> Sizes] :
        /\ fs = [name |-> [i \in 0..MaxFiles |-> IF i < old THEN old - i ELSE NoFile],
                 content |-> [i \in 1..old |-> [lines |-> <<-i>>, size |-> size[i]]]]
        /\ written = [i \in 1..old |-> -i]
  BY DEF Init
<1> DEFINE top == MaxFiles + 1
           z == Youngest(fs)
           Part(m) == [k \in 1..m |-> -((old - m) + k)]
           Right(n) == z[n] = Part(IF n <= old THEN n ELSE old)
           Bad == {n \in 0..top : ~Right(n)}
<1>2. /\ MaxFiles \in Nat /\ MaxSize \in Nat \ {0} /\ old \in Nat /\ old <= top /\ top \in Nat
      /\ top \in 0..top
  BY SizesAssumption
<1>3. FilesOK(fs) /\ written \in Seq(Int)
  BY LogInit DEF LogInv, LogTypes, LoggersOK
<1>4. \A i \in 0..MaxFiles : fs.name[i] = IF i < old THEN old - i ELSE NoFile
  BY <1>1
<1>5. \A i \in 0..MaxFiles : FilesOf(fs, i) = IF i < old THEN <<-(old - i)>> ELSE <<>>
  <2>1. ASSUME NEW i \in 0..MaxFiles, i < old PROVE FilesOf(fs, i) = <<-(old - i)>>
    <3>1. old - i \in 1..old /\ old - i # NoFile
      BY <1>2, <2>1 DEF NoFile
    <3>2. fs.name[i] = old - i /\ fs.content[old - i].lines = <<-(old - i)>>
      BY <1>1, <2>1, <3>1
    <3>3. QED
      BY <3>1, <3>2 DEF FilesOf, FileOf
  <2>2. \A i \in 0..MaxFiles : ~(i < old) => FilesOf(fs, i) = <<>>
    BY <1>4, FileTypes DEF FilesOf, FileOf
  <2>3. QED
    BY <2>1, <2>2
<1>6. Chained(fs)
  <2>1. ASSUME NEW i \in 1..MaxFiles, fs.name[i] # NoFile PROVE fs.name[i - 1] # NoFile
    <3>1. i \in 0..MaxFiles /\ i - 1 \in 0..MaxFiles
      BY <1>2
    <3>2. i < old
      BY <1>4, <2>1, <3>1
    <3>3. i - 1 < old /\ old - (i - 1) # 0
      BY <1>2, <3>2
    <3>4. QED
      BY <1>4, <3>1, <3>3 DEF NoFile
  <2>2. ASSUME NEW i \in 0..MaxFiles, NEW j \in 0..MaxFiles,
               fs.name[i] = fs.name[j], fs.name[i] # NoFile
        PROVE  i = j
    <3>1. i < old /\ j < old
      BY <1>4, <2>2
    <3>2. old - i = old - j
      BY <1>4, <2>2, <3>1
    <3>3. QED
      BY <1>2, <3>2
  <2>3. QED
    BY <2>1, <2>2 DEF Chained
<1>7. /\ Kept(fs) = z[top] /\ z[0] = <<>>
      /\ \A n \in 1..top : z[n] = FilesOf(fs, n - 1) \o z[n - 1]
  BY <1>3, YoungestIs
<1> HIDE DEF z
<1>8. ASSUME Bad # {} PROVE FALSE
  <2>1. PICK b \in Bad : \A n \in Bad : b <= n
    <3>1. Bad \subseteq Nat
      BY <1>2
    <3> HIDE DEF Bad
    <3>2. QED
      BY <1>8, <3>1, Least
  <2>2. b \in 0..top /\ ~Right(b)
    OBVIOUS
  <2>3. CASE b = 0
    <3>1. Part(0) = <<>>
      BY <1>2
    <3>2. Right(0)
      BY <1>2, <1>7, <3>1
    <3>3. QED
      BY <2>2, <2>3, <3>2
  <2>4. CASE b # 0
    <3>1. /\ b \in 1..top /\ b - 1 \in 0..top /\ b - 1 \in 0..MaxFiles /\ ~(b <= b - 1)
          /\ b \in Nat /\ b - 1 \in Nat
      BY <1>2, <2>2, <2>4
    <3>2. Right(b - 1)
      <4>1. b - 1 \notin Bad
        BY <2>1, <3>1
      <4> HIDE DEF Right
      <4>2. QED
        BY <3>1, <4>1
    <3>3. z[b] = FilesOf(fs, b - 1) \o z[b - 1]
      BY <1>7, <3>1
    <3>4. CASE b <= old
      <4> DEFINE p == Part(b - 1)
                 q == Part(b)
                 x == -(old - (b - 1))
      <4>1. z[b - 1] = p /\ FilesOf(fs, b - 1) = <<x>>
        BY <1>2, <1>5, <3>1, <3>2, <3>4
      <4>2. p \in Seq(Int) /\ Len(p) = b - 1 /\ q \in Seq(Int) /\ Len(q) = b /\ x \in Int
        <5>1. \A k \in 1..(b - 1) : -((old - (b - 1)) + k) \in Int
          BY <1>2, <3>1
        <5>2. \A k \in 1..b : -((old - b) + k) \in Int
          BY <1>2, <3>1
        <5>3. QED
          BY <1>2, <3>1, <5>1, <5>2
      <4>3. \A k \in 1..b : q[k] = -((old - b) + k)
        OBVIOUS
      <4>4. \A k \in 1..(b - 1) : p[k] = -((old - (b - 1)) + k)
        OBVIOUS
      <4> HIDE DEF p, q
      <4>5. /\ <<x>> \o p \in Seq(Int) /\ Len(<<x>> \o p) = b
            /\ \A k \in 1..b : (<<x>> \o p)[k] = IF k <= 1 THEN <<x>>[k] ELSE p[k - 1]
        <5>1. <<x>> \in Seq(Int) /\ Len(<<x>>) = 1 /\ 1 + (b - 1) = b
          BY <3>1, <4>2
        <5> DEFINE s == <<x>>
        <5>2. s \in Seq(Int) /\ Len(s) = 1
          BY <5>1
        <5> HIDE DEF s
        <5>3. /\ s \o p \in Seq(Int) /\ Len(s \o p) = Len(s) + Len(p)
              /\ \A k \in 1..(Len(s) + Len(p)) :
                   (s \o p)[k] = IF k <= Len(s) THEN s[k] ELSE p[k - Len(s)]
          BY <4>2, <5>2, ConcatProperties
        <5>4. Len(s) + Len(p) = b
          BY <4>2, <5>1, <5>2
        <5>5. QED
          BY <5>2, <5>3, <5>4 DEF s
      <4>6. ASSUME NEW k \in 1..b PROVE (<<x>> \o p)[k] = q[k]
        <5>1. CASE k = 1
          BY <1>2, <3>1, <4>3, <4>5, <5>1
        <5>2. CASE k # 1
          <6>1. k - 1 \in 1..(b - 1) /\ (old - (b - 1)) + (k - 1) = (old - b) + k /\ ~(k <= 1)
            BY <1>2, <3>1, <5>2
          <6>2. QED
            BY <4>3, <4>4, <4>5, <6>1
        <5>3. QED
          BY <5>1, <5>2
      <4>7. <<x>> \o p = q
        <5> DEFINE s == <<x>> \o p
        <5>1. s \in Seq(Int) /\ Len(s) = Len(q) /\ \A k \in 1..Len(s) : s[k] = q[k]
          BY <4>2, <4>5, <4>6
        <5> HIDE DEF s
        <5>2. s = q
          BY <4>2, <5>1, SeqEqual
        <5>3. QED
          BY <5>2 DEF s
      <4>8. QED
        BY <2>2, <3>3, <3>4, <4>1, <4>7 DEF q
    <3>5. CASE ~(b <= old)
      <4>1. FilesOf(fs, b - 1) = <<>>
        BY <1>2, <1>5, <3>1, <3>5
      <4>2. z[b - 1] = Part(old)
        BY <1>2, <3>1, <3>2, <3>5
      <4>3. Part(old) \in Seq(Int)
        BY <1>2
      <4>4. z[b] = Part(old)
        <5> HIDE DEF Part
        <5>1. QED
          BY <3>3, <4>1, <4>2, <4>3, ConcatEmptySeq
      <4>5. QED
        BY <2>2, <3>5, <4>4
    <3>6. QED
      BY <3>4, <3>5
  <2>5. QED
    BY <2>3, <2>4
<1>9. Kept(fs) = written
  <2>1. Right(top)
    BY <1>2, <1>8
  <2>2. z[top] = Part(old)
    <3>1. CASE top = old
      BY <2>1, <3>1
    <3>2. CASE top # old
      BY <1>2, <2>1, <3>2
    <3>3. QED
      BY <3>1, <3>2
  <2>3. Part(old) = written
    <3>1. \A k \in 1..old : -((old - old) + k) = -k
      BY <1>2
    <3>2. QED
      BY <1>1, <3>1
  <2>4. QED
    BY <1>7, <2>2, <2>3
<1>10. Keeps(fs, written)
  <2>1. written = <<>> \o Kept(fs) /\ <<>> \in Seq(Int)
    BY <1>3, <1>9, ConcatEmptySeq
  <2>2. ASSUME NEW i \in 0..MaxFiles PROVE Fits(FileOf(fs, i))
    <3>1. CASE i < old
      <4>1. FileOf(fs, i).lines = <<-(old - i)>>
        BY <1>5, <3>1 DEF FilesOf
      <4>2. Len(<<-(old - i)>>) = 1
        OBVIOUS
      <4>3. QED
        BY <4>1, <4>2 DEF Fits
    <3>2. CASE ~(i < old)
      <4>1. FileOf(fs, i) = EmptyFile
        BY <1>4, <3>2 DEF FileOf
      <4>2. QED
        BY <1>2, <4>1, FileTypes DEF Fits
    <3>3. QED
      BY <3>1, <3>2
  <2>3. QED
    BY <1>9, <2>1, <2>2 DEF Keeps
<1>11. FileLoggers = {}
  BY DEF Init, FileLoggers
<1>12. QED
  BY <1>6, <1>10, <1>11 DEF FilesInv

(* At most one logger with a file is one that alone has a file. *)
LEMMA OneIsAlone ==
  ASSUME LoggersOK, Cardinality(FileLoggers) <= 1
  PROVE  Alone
<1> DEFINE n == Len(loggers)
           F == FileLoggers
<1>1. n \in Nat /\ DOMAIN loggers = 1..n /\ F \subseteq 1..n
  BY DEF LoggersOK, FileLoggers
<1> HIDE DEF n, F
<1>2. IsFiniteSet(1..n)
  BY ONLY <1>1, FS_Interval
<1>3. IsFiniteSet(F) /\ Cardinality(F) \in Nat
  BY <1>1, <1>2, FS_Subset, FS_CardinalityType
<1>4. ASSUME NEW k \in F, NEW l \in F, k # l PROVE FALSE
  <2>1. IsFiniteSet({k}) /\ Cardinality({k}) = 1
    BY FS_Singleton
  <2>2. Cardinality({k} \cup {l}) = 2
    BY <1>4, <2>1, FS_AddElement
  <2>3. {k} \cup {l} \in SUBSET F
    OBVIOUS
  <2>4. Cardinality({k} \cup {l}) <= Cardinality(F)
    BY <1>3, <2>3, FS_Subset
  <2>5. Cardinality(F) <= 1
    BY DEF F
  <2>6. QED
    BY <1>3, <2>2, <2>4, <2>5
<1>5. QED
  BY <1>4 DEF Alone, F

(* What a text ends with, read backwards, is what the text read backwards   *)
(* begins with.                                                             *)
LEMMA BackwardsEnd ==
  ASSUME NEW s \in Seq(Int), NEW u \in Seq(Int)
  PROVE  /\ Len(Reverse(s)) = Len(s) /\ Len(Reverse(u \o s)) = Len(u) + Len(s)
         /\ DOMAIN Reverse(u \o s) = 1..(Len(u) + Len(s))
         /\ \A i \in 1..Len(s) : Reverse(s)[i] = Reverse(u \o s)[i]
<1> DEFINE t == u \o s
           m == Len(s)
           n == Len(t)
<1>1. /\ t \in Seq(Int) /\ n = Len(u) + m /\ m \in Nat /\ Len(u) \in Nat
      /\ \A i \in 1..n : t[i] = IF i <= Len(u) THEN u[i] ELSE s[i - Len(u)]
  BY ConcatProperties
<1> HIDE DEF t, m, n
<1>2. Reverse(s) = [i \in 1..m |-> s[(m - i) + 1]] /\ Reverse(t) = [i \in 1..n |-> t[(n - i) + 1]]
  BY DEF Reverse, m, n
<1>3. ASSUME NEW i \in 1..m PROVE s[(m - i) + 1] = t[(n - i) + 1]
  <2>1. /\ (n - i) + 1 \in 1..n /\ ~((n - i) + 1 <= Len(u))
        /\ ((n - i) + 1) - Len(u) = (m - i) + 1
    BY <1>1
  <2>2. QED
    BY <1>1, <2>1
<1>4. n \in Nat /\ \A i \in 1..m : i \in 1..n
  BY <1>1
<1>5. Len(Reverse(s)) = m /\ Len(Reverse(t)) = n /\ DOMAIN Reverse(t) = 1..n
  BY <1>1, <1>2, <1>4
<1>6. \A i \in 1..m : Reverse(s)[i] = Reverse(t)[i]
  BY <1>2, <1>3, <1>4
<1>7. QED
  BY <1>1, <1>5, <1>6 DEF t, m, n

(* The inductive invariant of the rotating files.                           *)
THEOREM FilesInvariant == Spec => []FilesInv
<1>1. LogInv /\ LogInv' /\ FilesInv /\ [Next]_vars => FilesInv'
  BY FilesStep, FilesKeptStep, LoggerMadeStep, LineSunkStep
<1>2. QED
  BY <1>1, FilesInit, LogInvariant, PTL DEF Spec

(* "Size limit of a file", "number of files kept" (LogOptions), for lines   *)
(* and files of any sizes, any options and threads: as long as one logger   *)
(* alone has a file, the files hold the youngest lines in order and without *)
(* a gap, nothing is given up before the oldest name is in use, and a file  *)
(* passes the limit only by one line that alone is longer, or as an earlier *)
(* run has left it.                                                         *)
THEOREM LoneFileHolds == Spec => []LoneFile
<1>1. LogInv /\ FilesInv => LoneFile
  <2> DEFINE kept == Reverse(Kept(fs))
             log == Reverse(written)
  <2> SUFFICES ASSUME LogInv, FilesInv, Cardinality(FileLoggers) <= 1
               PROVE  /\ Len(kept) <= Len(log)
                      /\ \A i \in DOMAIN log :
                           IF i <= Len(kept) THEN kept[i] = log[i] ELSE fs.name[MaxFiles] # NoFile
                      /\ \A i \in 0..MaxFiles : Fits(FileOf(fs, i))
    BY DEF LoneFile, Fits
  <2>1. LoggersOK /\ FilesOK(fs)
    BY DEF LogInv, LogTypes, LoggersOK
  <2>2. Keeps(fs, written)
    BY <2>1, OneIsAlone DEF FilesInv
  <2>3. PICK lost \in Seq(Int) : written = lost \o Kept(fs)
    BY <2>2 DEF Keeps
  <2> DEFINE k == Kept(fs)
  <2>4. k \in Seq(Int) /\ Len(k) \in Nat /\ Len(lost) \in Nat
    <3>1. MaxFiles + 1 \in 0..(MaxFiles + 1)
      BY SizesAssumption
    <3>2. k \in Seq(Int)
      BY <2>1, <3>1, YoungestIs
    <3> HIDE DEF k
    <3>3. QED
      BY <3>2
  <2>5. /\ Len(kept) = Len(k) /\ Len(log) = Len(lost) + Len(k)
        /\ DOMAIN log = 1..(Len(lost) + Len(k))
        /\ \A i \in 1..Len(k) : kept[i] = log[i]
    <3> HIDE DEF k
    <3>1. /\ Len(Reverse(k)) = Len(k) /\ Len(Reverse(lost \o k)) = Len(lost) + Len(k)
          /\ DOMAIN Reverse(lost \o k) = 1..(Len(lost) + Len(k))
          /\ \A i \in 1..Len(k) : Reverse(k)[i] = Reverse(lost \o k)[i]
      BY <2>4, BackwardsEnd
    <3>2. kept = Reverse(k) /\ log = Reverse(lost \o k)
      BY <2>3 DEF k
    <3>3. QED
      BY <3>1, <3>2, Zenon
  <2>6. ASSUME Len(lost) # 0 PROVE fs.name[MaxFiles] # NoFile
    <3>1. Len(lost \o k) = Len(lost) + Len(k)
      <4> HIDE DEF k
      <4>1. QED
        BY <2>4, ConcatProperties
    <3>2. lost \o k # k
      <4> HIDE DEF k
      <4>1. QED
        BY <2>4, <2>6, <3>1
    <3>3. QED
      BY <2>2, <2>3, <3>2 DEF Keeps
  <2> HIDE DEF kept, log, k
  <2>7. ASSUME NEW i \in DOMAIN log
        PROVE  IF i <= Len(kept) THEN kept[i] = log[i] ELSE fs.name[MaxFiles] # NoFile
    <3>1. CASE i <= Len(kept)
      <4>1. i \in 1..Len(k)
        BY <2>4, <2>5, <3>1
      <4>2. QED
        BY <2>5, <3>1, <4>1
    <3>2. CASE ~(i <= Len(kept))
      <4>1. Len(lost) # 0
        BY <2>4, <2>5, <3>2
      <4>2. QED
        BY <2>6, <3>2, <4>1
    <3>3. QED
      BY <3>1, <3>2
  <2>8. Len(kept) <= Len(log)
    BY <2>4, <2>5
  <2>9. QED
    BY <2>2, <2>7, <2>8 DEF Keeps
<1>2. QED
  BY <1>1, LogInvariant, FilesInvariant, PTL
=============================================================================
