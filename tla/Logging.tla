------------------------------ MODULE Logging ------------------------------
(***************************************************************************)
(* src/thirdparty/rtclog: a line on its way from RTCLOG() to the log file. *)
(* Writers ask the VRegistry, build their message in the logger's stream   *)
(* under the logger's lock, and dispatch it under the lock of the storage: *)
(* the file is rolled when it is too large, the line written, the stream   *)
(* flushed and the file perhaps rolled again.  Rolling renames the file to *)
(* a backup and prunes the oldest backups.  The process may crash and      *)
(* start again with what is on disk.  A line is the number it has in the   *)
(* order of dispatch, and takes one unit of the file.                      *)
(***************************************************************************)
EXTENDS VRegistry, Functions

CONSTANTS Writers,
          LogLevels,      \* the levels writers use
          Scenarios,      \* how writers log ("fmt", "macro", "log", or "excess":
                          \* log() with more values than its format has %v), their
                          \* LogFlushThreshold (0 as rtclog configures it),
                          \* whether the working directory is that of the logs,
                          \* and how many calls, changes of the categories and
                          \* failing system calls or crashes there are
          MaxLogFileSize, \* max_log_file_size, in lines; 0: the file is not rolled
          MaxLogFiles,    \* max_log_files; 0: no backup is removed
          MaxMs           \* where the clock stops

Category == "RTCLOG"
ASSUME CategoryAssumption == Category \in Names
ASSUME LimitsAssumption == MaxLogFileSize \in Nat /\ MaxLogFiles \in Nat /\ MaxMs \in Nat
ASSUME WritersAssumption == NoOne \notin Writers
ASSUME FaultsAssumption == \A sc \in Scenarios : sc.faults \in Nat

VARIABLES
    pc,        \* each writer's place
    call,      \* its call: the path and the level
    lLock,     \* holder of the logger's mutex, a recursive one
    kept,      \* whether a call of its holder that was given up keeps it locked
    gLock,     \* holder of the storage's mutex
    text,      \* the logger's string stream: who wrote into it
    running,   \* rtclog_configure() has returned
    scenario,  \* one of Scenarios
    unflushed, \* m_unflushedCount
    stream,    \* the shared file stream
    resume,    \* where a roll returns to
    reopenFailed, \* open() failed in this dispatch
    file,      \* lines in the log file
    pend,      \* lines in the stream's buffer
    mtime,     \* second of the last write to the file
    backups,   \* rtclog-backup-*.log
    written,   \* lines dispatched to the file so far
    pruned,    \* backups removed
    ms,        \* the system's clock
    calls,     \* calls so far, of all writers
    faults     \* failures, crashes and overwritten backups so far

writerVars == <<pc, call, lLock, kept, gLock, text, calls>>
disk == <<file, mtime, backups>>
history == <<written, pruned>>
logVars == <<writerVars, running, unflushed, stream, resume, reopenFailed, disk, pend, history,
             scenario, ms, faults>>
allVars == <<vars, logVars>>

Second(t) == t \div 2

\* The clock is read: time has passed since the last reading.  The system's
\* clock could also be set back, which is left out.
Clock(now) == ms' = now
Size == Len(file) + Len(pend)

\* A limit of 0 is none.
TooLarge(size) == MaxLogFileSize # 0 /\ size >= MaxLogFileSize

\* rtclog_configure() after rtclog_init(): the categories of level 0 are set.
Configured ==
    /\ m_categories' = DefaultCategories(0) /\ m_string' = DefaultCategories(0)
    /\ m_lowest_priority' = 3 /\ m_cached' = <<>>

LogInit ==
    /\ Init
    /\ pc = [w \in Writers |-> "idle"]
    /\ call = [w \in Writers |-> [path |-> "fmt", level |-> "Info"]]
    /\ lLock = NoOne /\ kept = FALSE /\ gLock = NoOne /\ text = <<>>
    /\ running = FALSE
    /\ scenario \in Scenarios
    /\ unflushed = [l \in LogLevels |-> 0]
    /\ stream = "null" /\ resume = "write" /\ reopenFailed = FALSE
    /\ file = <<>> /\ pend = <<>> /\ mtime = 0
    /\ backups = {} /\ pruned = {}
    /\ written = 0
    /\ ms = 0 /\ calls = 0 /\ faults = 0

\* A failing system call or a crash.
Fault == faults < scenario.faults /\ faults' = faults + 1
NoFault == UNCHANGED faults

-----------------------------------------------------------------------------
(* Configuration, by the thread that starts the process.                   *)

\* The stream is opened to append.  A file that has reached the limit already
\* is truncated: build() validates it with the default callback, which keeps
\* nothing.
Configure ==
    /\ ~running
    /\ running' = TRUE /\ stream' = "open"
    /\ file' = IF TooLarge(Len(file)) THEN <<>> ELSE file
    /\ Configured
    /\ UNCHANGED <<writerVars, unflushed, resume, reopenFailed, mtime, backups, pend, history, scenario,
                   ms, faults, vLock, setting, sets>>

\* The file cannot be opened: insertFile() sets TO_FILE to false.
ConfigureFails ==
    /\ ~running /\ Fault
    /\ running' = TRUE /\ stream' = "null"
    /\ Configured
    /\ UNCHANGED <<writerVars, unflushed, resume, reopenFailed, disk, pend, history, scenario,
                   ms, vLock, setting, sets>>

\* The process ends anywhere and starts again; what the stream had not
\* flushed is gone.
Crash ==
    /\ running /\ Fault
    /\ running' = FALSE
    /\ m_categories' = <<>> /\ m_cached' = <<>> /\ m_string' = <<>>
    /\ m_lowest_priority' = INT_MAX
    /\ vLock' = NoOne
    /\ setting' = [s \in Setters |-> [at |-> "idle", list |-> <<>>]]
    /\ pc' = [w \in Writers |-> "idle"]
    /\ lLock' = NoOne /\ kept' = FALSE /\ gLock' = NoOne /\ text' = <<>>
    /\ unflushed' = [l \in LogLevels |-> 0]
    /\ stream' = "null" /\ pend' = <<>> /\ reopenFailed' = FALSE /\ resume' = "write"
    /\ UNCHANGED <<call, calls, disk, history, scenario, ms, sets>>

-----------------------------------------------------------------------------
(* A call, from its first test to the dispatch.                            *)

Goto(w, place) == pc' = [pc EXCEPT ![w] = place]

registryRest == <<m_categories, m_lowest_priority, m_string, vLock, setting, sets>>
files == <<stream, resume, reopenFailed, disk, pend, history, unflushed>>
stable == <<running, scenario>>

\* RTCLOG() begins with rtclog_is_enabled(), the CLOG() macros and
\* Logger::log() with the logger's lock.
Call(w) ==
    /\ running /\ pc[w] = "idle" /\ calls < scenario.calls
    /\ calls' = calls + 1
    /\ \E path \in scenario.paths, level \in LogLevels :
          /\ call' = [call EXCEPT ![w] = [path |-> path, level |-> level]]
          /\ Goto(w, IF path = "fmt" THEN "isEnabled" ELSE "acquire")
    /\ UNCHANGED <<vars, lLock, kept, gLock, text, files, stable, ms, faults>>

\* The macro's test, and the one rtclog_fmt() repeats.
Enabled(w) ==
    /\ pc[w] \in {"isEnabled", "double"}
    /\ \E answer \in BOOLEAN :
          /\ allowed(call[w].level, Category, answer)
          /\ Goto(w, CASE ~answer -> "idle"
                       [] pc[w] = "isEnabled" -> "double"
                       [] OTHER -> "acquire")
    /\ UNCHANGED <<registryRest, call, lLock, kept, gLock, text, calls, files, stable, ms, faults>>

\* vsnprintf() reports an error: rtclog_fmt() returns.
FormatFails(w) ==
    /\ pc[w] = "acquire" /\ call[w].path = "fmt" /\ Fault
    /\ Goto(w, "idle")
    /\ UNCHANGED <<vars, call, lLock, kept, gLock, text, calls, files, stable, ms>>

\* Writer::construct() and initializeLogger(): the logger's lock, held until
\* the message is dispatched.  Logger::log() takes it itself.
Acquire(w) ==
    /\ pc[w] = "acquire" /\ lLock \in {NoOne, w}
    /\ lLock' = w
    /\ Goto(w, IF call[w].path = "macro" THEN "hierarchical" ELSE "build")
    /\ UNCHANGED <<vars, call, kept, gLock, text, calls, files, stable, ms, faults>>

\* The lock is released once, as often as the call has taken it.
ReleaseLogger == lLock' = IF kept THEN lLock ELSE NoOne

\* operator<< into the logger's stream.  log_() does it before the test that
\* its Writer makes.
Build(w) ==
    /\ pc[w] = "build" /\ call[w].path # "excess"
    /\ text' = Append(text, w)
    /\ Goto(w, IF call[w].path = "log" THEN "hierarchical" ELSE "dispatch")
    /\ UNCHANGED <<vars, call, lLock, kept, gLock, calls, files, stable, ms, faults>>

\* log_() has values left at the end of the format: it reports that and returns,
\* with its text in the stream and the lock taken.
GiveUp(w) ==
    /\ pc[w] = "build" /\ call[w].path = "excess"
    /\ text' = Append(text, w)
    /\ kept' = TRUE
    /\ Goto(w, "idle")
    /\ UNCHANGED <<vars, call, lLock, gLock, calls, files, stable, ms, faults>>

\* The test made under the logger's lock.
Proceed(w) ==
    /\ pc[w] = "hierarchical"
    /\ \E answer \in BOOLEAN :
          /\ allowed(call[w].level, Category, answer)
          /\ Goto(w, CASE ~answer -> "discard"
                       [] call[w].path = "macro" -> "build"
                       [] OTHER -> "dispatch")
    /\ UNCHANGED <<registryRest, call, lLock, kept, gLock, text, calls, files, stable, ms, faults>>

\* Mutant: the text of a message that is not dispatched stays.
DiscardBug(w) ==
    /\ pc[w] = "discard"
    /\ ReleaseLogger
    /\ Goto(w, "idle")
    /\ UNCHANGED <<vars, call, kept, gLock, text, calls, files, stable, ms, faults>>

\* Mutant: the lock is left to the caller of Logger::log().
DiscardLeak(w) ==
    /\ pc[w] = "discard"
    /\ text' = <<>>
    /\ Goto(w, "idle")
    /\ UNCHANGED <<vars, call, lLock, kept, gLock, calls, files, stable, ms, faults>>

\* processDispatch() of a Writer that may not proceed.
Discard(w) ==
    /\ pc[w] = "discard"
    /\ text' = <<>> /\ ReleaseLogger
    /\ Goto(w, "idle")
    /\ UNCHANGED <<vars, call, kept, gLock, calls, files, stable, ms, faults>>

-----------------------------------------------------------------------------
(* LogDispatcher::dispatch() and what it calls, under both locks.          *)

\* unsafeValidateFileRolling(): a stream that has failed reports the offset
\* -1, which is as large as can be.
MustRoll ==
    \/ stream = "failed" /\ MaxLogFileSize # 0
    \/ stream = "open" /\ TooLarge(Size)

inDispatch == <<vars, call, lLock, kept, calls, stable>>
still == <<inDispatch, ms>>

EnterDispatch(w) ==
    /\ pc[w] = "dispatch" /\ gLock = NoOne
    /\ gLock' = w
    /\ Goto(w, IF MustRoll THEN "roll" ELSE "write")
    /\ UNCHANGED <<still, text, files, faults>>

\* fs->write(), and the flush that follows when enough lines have gathered.
Write(w) ==
    /\ pc[w] = "write" /\ stream = "open"
    /\ written' = written + 1
    /\ LET l == call[w].level
           flushes == unflushed[l] + 1 >= scenario.threshold
       IN  /\ unflushed' = [unflushed EXCEPT ![l] = IF flushes THEN 0 ELSE @ + 1]
           /\ pend' = Append(pend, written')
           /\ Goto(w, IF flushes THEN "flush" ELSE "release")
    /\ UNCHANGED <<still, gLock, text, stream, resume, reopenFailed, disk, pruned, faults>>

\* The write fails, or the stream had failed: an error is printed.
WriteFails(w) ==
    /\ pc[w] = "write" /\ stream # "null"
    /\ IF stream = "open" THEN Fault ELSE NoFault
    /\ stream' = "failed"
    /\ Goto(w, "release")
    /\ UNCHANGED <<still, gLock, text, resume, reopenFailed, disk, pend, history, unflushed>>

\* Nothing is written to a file that could not be opened at the start.
SkipWrite(w) ==
    /\ pc[w] = "write" /\ stream = "null"
    /\ Goto(w, "release")
    /\ UNCHANGED <<still, gLock, text, files, faults>>

\* Logger::flush(level, fs).
Flush(w) ==
    /\ pc[w] = "flush"
    /\ file' = file \o pend /\ pend' = <<>>
    /\ \E now \in ms..MaxMs : Clock(now) /\ mtime' = Second(now)
    /\ Goto(w, IF MustRoll THEN "roll" ELSE "release")
    /\ resume' = "release"
    /\ UNCHANGED <<inDispatch, gLock, text, stream, reopenFailed, backups, history, unflushed, faults>>

\* The flush fails, as the disk is full: the lines stay in the buffer, and the
\* file is looked at with a stream that has failed.
FlushFails(w) ==
    /\ pc[w] = "flush" /\ Fault
    /\ stream' = "failed"
    /\ Goto(w, IF MaxLogFileSize # 0 THEN "roll" ELSE "release")
    /\ resume' = "release"
    /\ UNCHANGED <<still, gLock, text, reopenFailed, disk, pend, history, unflushed>>

\* Mutant: what is left in the buffer is dropped.
CloseBug(w) ==
    /\ pc[w] = "roll"
    /\ stream' = "closed"
    /\ pend' = <<>>
    /\ Goto(w, "backup")
    /\ UNCHANGED <<still, gLock, text, resume, reopenFailed, disk, history, unflushed, faults>>

\* Rolling.  fs->close() flushes what is left.
Close(w) ==
    /\ pc[w] = "roll"
    /\ stream' = "closed"
    /\ file' = file \o pend /\ pend' = <<>>
    /\ IF pend = <<>> THEN UNCHANGED <<mtime, ms>>
       ELSE \E now \in ms..MaxMs : Clock(now) /\ mtime' = Second(now)
    /\ Goto(w, "backup")
    /\ UNCHANGED <<inDispatch, gLock, text, resume, reopenFailed, backups, history, unflushed, faults>>

\* It cannot flush, and the lines are lost.
CloseFails(w) ==
    /\ pc[w] = "roll" /\ pend # <<>>
    /\ stream = "open" => Fault
    /\ faults' = faults + 1
    /\ stream' = "closed" /\ pend' = <<>>
    /\ Goto(w, "backup")
    /\ UNCHANGED <<still, gLock, text, resume, reopenFailed, disk, history, unflushed>>

\* The callback of rtclog_configure(): the file becomes the backup of this
\* millisecond, in place of another one of the same name.
Backup(w) ==
    /\ pc[w] = "backup"
    /\ \E now \in ms..MaxMs :
          LET same == {b \in backups : b.name = now}
          IN  /\ Clock(now)
              /\ backups' = (backups \ same) \cup {[name |-> now, mtime |-> mtime, lines |-> file]}
              /\ faults' = IF same = {} THEN faults ELSE faults + 1
    /\ file' = <<>>
    /\ Goto(w, "prune")
    /\ UNCHANGED <<inDispatch, gLock, text, stream, resume, reopenFailed, mtime, pend, history, unflushed>>

\* realpath() or rename() fails: the callback returns, and the file will be
\* truncated.
BackupFails(w) ==
    /\ pc[w] = "backup" /\ Fault
    /\ Goto(w, "reopen")
    /\ UNCHANGED <<still, gLock, text, files>>

\* What the backups are sorted by: the file's time if stat() finds them, which
\* it does only in the working directory, and their name otherwise.
Age(b) == IF scenario.inLogDir THEN b.mtime ELSE b.name

\* Mutant: one backup too many is kept.
ExcessBug(n) == IF MaxLogFiles # 0 /\ n >= MaxLogFiles THEN n - MaxLogFiles ELSE 0
Excess(n) == IF MaxLogFiles # 0 /\ n >= MaxLogFiles THEN n - MaxLogFiles + 1 ELSE 0
Oldest(old, rest) == \A b \in old, c \in rest : Age(b) <= Age(c)

Prune(w) ==
    /\ pc[w] = "prune"
    /\ \E old \in SUBSET backups :
          /\ Cardinality(old) = Excess(Cardinality(backups))
          /\ Oldest(old, backups \ old)
          /\ backups' = backups \ old /\ pruned' = pruned \cup old
    /\ Goto(w, "reopen")
    /\ UNCHANGED <<still, gLock, text, stream, resume, reopenFailed, file, mtime, pend,
                   written, unflushed, faults>>

\* The directory cannot be read.
PruneFails(w) ==
    /\ pc[w] = "prune" /\ Fault
    /\ Goto(w, "reopen")
    /\ UNCHANGED <<still, gLock, text, files>>

\* fs->open(.., trunc)
Reopen(w) ==
    /\ pc[w] = "reopen"
    /\ stream' = "open" /\ file' = <<>>
    /\ Goto(w, resume)
    /\ UNCHANGED <<still, gLock, text, resume, reopenFailed, mtime, backups, pend, history,
                   unflushed, faults>>

ReopenFails(w) ==
    /\ pc[w] = "reopen" /\ Fault
    /\ stream' = "failed" /\ reopenFailed' = TRUE
    /\ Goto(w, resume)
    /\ UNCHANGED <<still, gLock, text, resume, disk, pend, history, unflushed>>

\* The end of triggerDispatch().
Release(w) ==
    /\ pc[w] = "release"
    /\ gLock' = NoOne /\ ReleaseLogger /\ text' = <<>>
    /\ resume' = "write" /\ reopenFailed' = FALSE
    /\ Goto(w, "idle")
    /\ UNCHANGED <<vars, call, kept, calls, stable, ms, faults, stream, disk, pend, history, unflushed>>

-----------------------------------------------------------------------------
Dispatching(w) ==
    \/ EnterDispatch(w) \/ Write(w) \/ WriteFails(w) \/ SkipWrite(w) \/ Flush(w)
    \/ FlushFails(w) \/ Close(w) \/ CloseFails(w) \/ Backup(w) \/ BackupFails(w)
    \/ Prune(w) \/ PruneFails(w)
    \/ Reopen(w) \/ ReopenFails(w) \/ Release(w)

WriterStep(w) ==
    \/ Enabled(w) \/ FormatFails(w) \/ Acquire(w) \/ Build(w) \/ GiveUp(w)
    \/ Proceed(w) \/ Discard(w) \/ Dispatching(w)

Setting(s) ==
    /\ running
    /\ (sets < scenario.sets /\ Request(s)) \/ SetterStep(s)
    /\ UNCHANGED logVars

LogNext ==
    \/ Configure \/ ConfigureFails \/ Crash
    \/ \E w \in Writers : Call(w) \/ WriterStep(w)
    \/ \E s \in Setters : Setting(s)

LogSpec == LogInit /\ [][LogNext]_allVars

\* Threads keep running.  Nothing more is needed for a lock, since the others
\* make finitely many calls.
FairLogSpec ==
    /\ LogSpec
    /\ WF_allVars(Configure)
    /\ \A w \in Writers : WF_allVars(WriterStep(w))
    /\ \A s \in Setters : WF_allVars(running /\ SetterStep(s) /\ UNCHANGED logVars)

-----------------------------------------------------------------------------
InFile == Range(file) \cup Range(pend)
Lines(bs) == UNION {Range(b.lines) : b \in bs}
Faultless == faults = 0

Increasing(s) == \A i, j \in DOMAIN s : i < j => s[i] < s[j]

\* The files read in the order of their names, the log file last, give the
\* lines in the order they were dispatched, none of them twice, whatever
\* failed in between.  unsafeValidateFileRolling() and the callback.
LogInOrder ==
    /\ Increasing(file \o pend)
    /\ \A b \in backups : Increasing(b.lines) /\ \A i \in Range(b.lines), j \in InFile : i < j
    /\ \A b, c \in backups : b.name < c.name =>
           \A i \in Range(b.lines), j \in Range(c.lines) : i < j

\* With no failing call, no crash and no two rolls in one millisecond, a line
\* handed to the stream is in the log file, in a backup, or in a backup that
\* was pruned.  dispatch(), flush() and the callback.
NothingLost == Faultless => 1..written = InFile \cup Lines(backups) \cup Lines(pruned)

\* A stream that failed is opened again by the next dispatch, if files are rolled
\* at all: a line is lost to it only if that fails too.
\* unsafeValidateFileRolling(), getSizeOfFile().
FailedStreamReopened ==
    MaxLogFileSize # 0 =>
        \A w \in Writers : pc[w] = "write" /\ stream = "failed" => reopenFailed

\* The log is complete and in order, as far as the system lets it be: dispatch()
\* and unsafeValidateFileRolling() through rolls, failures and crashes.
LogComplete == LogInOrder /\ NothingLost /\ FailedStreamReopened

\* The log file never grows past the limit: it is looked at before every line.
\* LogDispatcher::dispatch(), unsafeValidateFileRolling().
SizeBounded == MaxLogFileSize # 0 => Size <= MaxLogFileSize

\* No backup that is kept is older than one that was removed.
OldestPruned == \A old \in pruned, b \in backups : Age(old) <= Age(b)

\* Between dispatches the log file and the backups are at most max_log_files,
\* and backups were removed oldest first.  The callback of rtclog_configure().
BackupsBounded ==
    /\ MaxLogFiles # 0 /\ Faultless /\ gLock = NoOne => Cardinality(backups) <= MaxLogFiles - 1
    /\ OldestPruned

\* What is on disk stays bounded.
DiskBounded == SizeBounded /\ BackupsBounded

\* A message never has another writer's text, and unless its writer has given up
\* a call it is the text of this call alone: a message that was not dispatched
\* leaves none in the logger's stream.
\* Writer::initializeLogger(), processDispatch(), triggerDispatch(), log_().
OwnTextOnly ==
    \A w \in Writers : pc[w] = "write" =>
        Range(text) = {w} /\ (~kept => text = <<w>>)

\* A call of another thread was given up and keeps the logger locked.
LockedOut(w) == kept /\ lLock # w

\* A call that was begun returns, unless the process crashes: the locks of the
\* logger, the storage and the registry are taken in one order and released on
\* every path but one.  Only a log() with too many values, in another thread,
\* makes a call wait for ever.  rtclog_fmt(), Writer, VRegistry::allowed(), log_().
CallReturns == \A w \in Writers : pc[w] # "idle" ~> pc[w] = "idle" \/ LockedOut(w)

-----------------------------------------------------------------------------
(* The inductive invariant behind the safety properties.                   *)

Storing == {"write", "flush", "release", "roll", "backup", "prune", "reopen"}
InLogger == Storing \cup {"hierarchical", "build", "discard", "dispatch"}
Places == InLogger \cup {"idle", "isEnabled", "double", "acquire"}

\* The writer that holds the logger's lock is alone with the logger's stream, and
\* the one that holds the storage's lock is alone with the file.
Unbuilt(w) == pc[w] = "build" \/ (pc[w] = "hierarchical" /\ call[w].path = "macro")

LocksOK ==
    /\ pc \in [Writers -> Places] /\ call = [w \in Writers |-> call[w]]
    /\ text \in Seq(Writers) /\ kept \in BOOLEAN
    /\ \A w \in Writers :
           /\ pc[w] \in InLogger => lLock = w
           /\ pc[w] \in Storing => gLock = w
           /\ lLock = w => Range(text) \subseteq {w} /\ (pc[w] \in InLogger \/ kept)
           /\ pc[w] \in InLogger \ {"discard"} =>
                 /\ Unbuilt(w) \/ w \in Range(text)
                 /\ ~kept => text = IF Unbuilt(w) THEN <<>> ELSE <<w>>
    /\ lLock = NoOne => text = <<>> /\ ~kept
    /\ ~running => \A w \in Writers : pc[w] = "idle"

BackupFile == [name : Nat, mtime : Nat, lines : Seq(Nat)]

DiskTypes ==
    /\ file \in Seq(Nat) /\ pend \in Seq(Nat) /\ written \in Nat
    /\ ms \in Nat /\ mtime \in Nat /\ mtime <= Second(ms)
    /\ faults \in Nat /\ resume \in {"write", "release"}
    /\ backups \subseteq BackupFile /\ IsFiniteSet(backups) /\ pruned \subseteq BackupFile

\* What each place of the dispatch relies on.
RollingOK(w) ==
    /\ pc[w] = "write" /\ MaxLogFileSize # 0 =>
           (stream = "open" => Size < MaxLogFileSize) /\ (stream = "failed" => reopenFailed)
    /\ pc[w] \in {"backup", "prune", "reopen"} => pend = <<>>
    /\ pc[w] = "prune" => file = <<>>
    /\ pc[w] = "reopen" /\ Faultless => file = <<>>

\* Nothing on disk is newer than the clock or than the last line.
DiskOK ==
    /\ \A b \in backups \cup pruned : b.name <= ms /\ b.mtime <= mtime
    /\ InFile \cup Lines(backups) \subseteq 1..written
    /\ ~running => pend = <<>> /\ (Faultless => file = <<>>)
    /\ MaxLogFiles # 0 /\ Faultless /\ (\A w \in Writers : pc[w] # "prune") =>
           Cardinality(backups) <= MaxLogFiles - 1

DiskInv == DiskTypes /\ DiskOK /\ SizeBounded /\ OldestPruned /\ LogInOrder /\ NothingLost

LogInv == LocksOK /\ DiskInv /\ \A w \in Writers : RollingOK(w)
=============================================================================
