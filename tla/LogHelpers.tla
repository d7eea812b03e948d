----------------------------- MODULE LogHelpers -----------------------------
(***************************************************************************)
(* More algorithms of the vendored logging library, on the inputs of       *)
(* LogText: names of levels and configuration types, verbose levels of     *)
(* modules, directories of log files, hit counters and elapsed times.      *)
(***************************************************************************)
EXTENDS LogText

-----------------------------------------------------------------------------
(* Level, ConfigurationType and their helpers.  The enumerators are powers *)
(* of two; a spelling is a word and its case.                              *)

Unknown == 1010

\* convertToString(): the name of an enumerator, in upper case.
LevelNames ==
    [v \in {1, 2, 4, 8, 16, 32, 64, 128} |->
        CASE v = 1 -> "global" [] v = 2 -> "trace" [] v = 4 -> "debug" [] v = 8 -> "fatal"
          [] v = 16 -> "error" [] v = 32 -> "warning" [] v = 64 -> "verbose" [] v = 128 -> "info"]

TypeNames ==
    [v \in {1, 2, 4, 8, 16, 32, 64, 128, 256} |->
        CASE v = 1 -> "enabled" [] v = 2 -> "to_file" [] v = 4 -> "to_standard_output"
          [] v = 8 -> "format" [] v = 16 -> "filename" [] v = 32 -> "subsecond_precision"
          [] v = 64 -> "performance_tracking" [] v = 128 -> "max_log_file_size"
          [] v = 256 -> "log_flush_threshold"]

convertToString(names, v) ==
    [word |-> IF v \in DOMAIN names THEN names[v] ELSE "unknown", case |-> "upper"]

\* stringToLevelMap
StringToLevel ==
    {<<"global", 1>>, <<"debug", 4>>, <<"info", 128>>, <<"warning", 32>>, <<"error", 16>>,
     <<"fatal", 8>>, <<"verbose", 64>>, <<"trace", 2>>}

\* configStringToTypeMap, where one type has two names.
StringToType ==
    {<<"enabled", 1>>, <<"to_file", 2>>, <<"to_standard_output", 4>>, <<"format", 8>>,
     <<"filename", 16>>, <<"subsecond_precision", 32>>, <<"milliseconds_width", 32>>,
     <<"performance_tracking", 64>>, <<"max_log_file_size", 128>>, <<"log_flush_threshold", 256>>}

\* convertFromString(): cStringCaseEq() takes every case.
convertFromString(table, s) ==
    IF \E e \in table : e[1] = s.word THEN (CHOOSE e \in table : e[1] = s.word)[2] ELSE Unknown

\* LevelHelper::convertFromStringPrefix() of a text that begins with s: no name
\* begins another, so the order of the tests does not show.
convertFromStringPrefix(s) ==
    CASE s.case \notin {"upper", "lower"} -> Unknown
      [] s.case \in {"upper", "lower"} ->
           CASE s.word = "global" -> 1 [] s.word = "debug" -> 4 [] s.word = "info" -> 128
             [] s.word = "warning" -> 32 [] s.word = "error" -> 16 [] s.word = "fatal" -> 8
             [] s.word = "verbose" -> 64 [] s.word = "trace" -> 2 [] OTHER -> Unknown

\* forEachLevel(): the values that fn() sees, from kMinValid to kMaxValid.
forEachLevel == {v \in {2^k : k \in 1..9} : v <= 128}

-----------------------------------------------------------------------------
(* VRegistry: verbose levels, for the whole program and by module.         *)

setLevel(level) == IF level > 9 THEN 9 ELSE level

\* m_modules after setModules(): insert() keeps the first level of a name.
Modules(list) ==
    LET found == setModules(list)
    IN  {found[i] : i \in {j \in DOMAIN found : \A k \in 1..(j - 1) : found[k][1] # found[j][1]}}

\* VRegistry::allowed() of a level and a file.  The loop takes the first match
\* of an unordered map: any of them.  A name as long as baseFilename[] ends
\* outside it, and what it is compared as is undefined.
ModuleAnswers(list, level, vlevel, file, flag) ==
    LET name == buildBaseFilename(file)
        hits == {m \in Modules(list) : wildCardMatch(name, m[1])}
    IN  IF Modules(list) = {} THEN {vlevel <= setLevel(level)}
        ELSE IF Len(name) = NameLimit THEN BOOLEAN
        ELSE IF hits = {} THEN {flag} ELSE {vlevel <= m[2] : m \in hits}

-----------------------------------------------------------------------------
(* File::createPath().  A path is its characters; what the file system     *)
(* has is a set of [abs, names, dir].                                      *)

\* strtok(): the runs of characters between separators.
Components(path) ==
    LET cuts == <<0>> \o SetToSortSeq({i \in DOMAIN path : path[i] = "/"}, <) \o <<Len(path) + 1>>
        parts == [i \in 1..(Len(cuts) - 1) |-> SubSeq(path, cuts[i] + 1, cuts[i + 1] - 1)]
    IN  SelectSeq(parts, LAMBDA p : p # <<>>)

IsAbsolute(path) == path # <<>> /\ path[1] = "/"

\* A directory that is there; the roots always are.
IsDir(fs, abs, names) == names = <<>> \/ [abs |-> abs, names |-> names, dir |-> TRUE] \in fs
IsFile(fs, abs, names) == [abs |-> abs, names |-> names, dir |-> FALSE] \in fs

\* stat(): a path that ends with a separator names a directory.
pathExists(fs, path) ==
    LET names == Components(path)
    IN  path # <<>> /\ (\/ IsDir(fs, IsAbsolute(path), names)
                        \/ Last(path) # "/" /\ IsFile(fs, IsAbsolute(path), names))

\* mkdir(): the file system after it, and whether it succeeded.
Mkdir(fs, abs, names) ==
    IF IsDir(fs, abs, names) \/ IsFile(fs, abs, names) \/ ~IsDir(fs, abs, Front(names))
    THEN [fs |-> fs, ok |-> FALSE]
    ELSE [fs |-> fs \cup {[abs |-> abs, names |-> names, dir |-> TRUE]}, ok |-> TRUE]

\* Mutant: gives up at the first mkdir() that fails.
createPathBug(fs, path) ==
    LET names == Components(path)
        after[i \in 0..Len(names)] ==
            IF i = 0 THEN [fs |-> fs, ok |-> TRUE]
            ELSE IF after[i - 1].ok THEN Mkdir(after[i - 1].fs, IsAbsolute(path), SubSeq(names, 1, i))
                 ELSE after[i - 1]
    IN  IF path = <<>> \/ pathExists(fs, path) THEN [fs |-> fs, ok |-> path # <<>>]
        ELSE after[Len(names)]

\* Only the last mkdir() decides the answer.
createPath(fs, path) ==
    LET names == Components(path)
        after[i \in 0..Len(names)] ==
            IF i = 0 THEN [fs |-> fs, ok |-> FALSE]
            ELSE Mkdir(after[i - 1].fs, IsAbsolute(path), SubSeq(names, 1, i))
    IN  IF path = <<>> \/ pathExists(fs, path) THEN [fs |-> fs, ok |-> path # <<>>]
        ELSE after[Len(names)]

-----------------------------------------------------------------------------
(* RegisteredHitCounters: which of the calls at one place are written.     *)

\* A call compares the count, then moves it unless it is written.
validateAfterN(calls, n) ==
    LET hits[i \in 0..calls] == IF i = 0 THEN 0 ELSE IF hits[i - 1] >= n THEN hits[i - 1] ELSE hits[i - 1] + 1
    IN  {i \in 1..calls : hits[i - 1] >= n}

validateNTimes(calls, n) ==
    LET hits[i \in 0..calls] == IF i = 0 THEN 0 ELSE hits[i - 1] + 1
    IN  {i \in 1..calls : hits[i] <= n}

-----------------------------------------------------------------------------
(* DateTime: elapsed times.                                                *)

\* kTimeFormats: how many of a unit make the next; the last has no next.
TimeFormats == <<1000, 1000, 60, 60, 24, 7>>

Divided(time, i) == time \div TimeFormats[i]

\* formatTime(): the number and the unit shown.
RECURSIVE formatTime(_, _)
formatTime(time, i) ==
    IF \/ i = Len(TimeFormats)
       \/ time <= TimeFormats[i]
       \/ TimeFormats[i] = 1000 /\ time < 1900
    THEN [number |-> time, unit |-> i]
    ELSE formatTime(Divided(time, i), i + 1)

\* Times are in microseconds.
getTimeDifference(end, start, microseconds) ==
    IF microseconds THEN end - start ELSE (end \div 1000) - (start \div 1000)

-----------------------------------------------------------------------------
(* Properties.                                                             *)

\* What convertToString() writes is read back as the same level or type by
\* convertFromString() and, for levels, by convertFromStringPrefix(), which also
\* take the lower case; and the iterations over levels, which fill and flush
\* every logger, leave out no level but Global.
NamesReadBack ==
    kind = "name" /\ text # <<>> =>
      LET s == text[1]
      IN  /\ forEachLevel \cup {1} = DOMAIN LevelNames
          /\ \A v \in DOMAIN LevelNames :
                 LET name == convertToString(LevelNames, v)
                 IN  s.word = name.word =>
                       /\ convertFromString(StringToLevel, s) = v
                       /\ s.case # "mixed" => convertFromStringPrefix(s) = v
          /\ \A v \in DOMAIN TypeNames :
                 s.word = convertToString(TypeNames, v).word => convertFromString(StringToType, s) = v

\* Under each source suffix, a file that one module of the list matches is written
\* exactly up to the first level the list gives that module; one that several
\* match, up to the level of one of them, the code not saying which; and one that
\* none matches is left to the flag.
ModuleLevelApplies ==
    LET list == FoldLeft(LAMBDA l, f : IF l = <<>> THEN f ELSE l \o <<",">> \o f, <<>>, text)
        matching(f) == {f, "*"} \cap {t[1] : t \in ToSet(text)}
        level(m) == ModuleDigits[Last(text[SelectInSeq(text, LAMBDA t : t[1] = m)])]
        answers(vlevel, f) == IF text = <<>> THEN {vlevel <= 9} ELSE {vlevel <= level(m) : m \in matching(f)}
    IN  kind = "vmodule" =>
          \A vlevel \in {0, 1, 2, 9, 10}, flag \in BOOLEAN, f \in {"m", "n", "other"},
             i \in DOMAIN FileSuffixes :
            ModuleAnswers(list, 10, vlevel, <<"d", "/", f, FileSuffixes[i]>>, flag) =
              IF answers(vlevel, f) = {} THEN {flag} ELSE answers(vlevel, f)

\* Some file systems: directories a, b, a/b, and a file b.
FileSystems ==
    LET d(abs, names) == [abs |-> abs, names |-> names, dir |-> TRUE]
    IN  UNION {{{}, {d(abs, <<<<"a">>>>)},
                {d(abs, <<<<"a">>>>), d(abs, <<<<"a">>, <<"b">>>>)},
                {d(abs, <<<<"a">>>>), [abs |-> abs, names |-> <<<<"b">>>>, dir |-> FALSE]}} :
               abs \in BOOLEAN}

\* A file stands where the path needs a directory.
Obstructed(fs, path) ==
    \E i \in DOMAIN Components(path) : IsFile(fs, IsAbsolute(path), SubSeq(Components(path), 1, i))

\* createPath() makes the path however much of it was there before, unless a file
\* is in the way, makes nothing but the directories on the way, and answers
\* whether the path is there afterwards.
PathCreated ==
    kind = "path" => \A fs \in FileSystems :
      LET r == createPath(fs, text)
      IN  /\ text # <<>> /\ ~Obstructed(fs, text) => r.ok
          /\ r.ok <=> pathExists(r.fs, text)
          /\ fs \subseteq r.fs
          /\ \A e \in r.fs \ fs : e.abs = IsAbsolute(text) /\ IsPrefix(e.names, Components(text))

\* Of the calls at one place, LOG_N_TIMES writes the first n and LOG_AFTER_N the
\* others: none is written by both or by neither.
TimesThenAfter ==
    kind = "hits" => \A n \in 0..(Len(text) + 1) :
      /\ validateNTimes(Len(text), n) = {i \in 1..Len(text) : i <= n}
      /\ validateAfterN(Len(text), n) = 1..Len(text) \ validateNTimes(Len(text), n)

\* An elapsed time is shown rounded down in its unit, by less than one of it,
\* through all the truncating divisions; a difference in milliseconds is off by
\* less than one from that in microseconds.
TimeRoundedDown ==
    LET time == FoldLeft(+, 0, text)
        factor(i, j) == FoldLeft(LAMBDA x, y : x * y, 1, SubSeq(TimeFormats, i, j - 1))
    IN  kind = "time" =>
          /\ \A i \in DOMAIN TimeFormats :
               LET shown == formatTime(time, i)
               IN  shown.number = time \div factor(i, shown.unit)
          /\ text # <<>> =>
               LET ms == getTimeDifference(time, text[1], FALSE)
                   us == getTimeDifference(time, text[1], TRUE)
               IN  1000 * ms - us \in -999..999
\* Names of levels, levels of modules, directories, hit counters and elapsed
\* times come out as their reference definitions say.
HelpersExact ==
    /\ NamesReadBack /\ ModuleLevelApplies /\ PathCreated
    /\ EveryNthAcrossReset /\ TimesThenAfter /\ TimeRoundedDown
=============================================================================
