----------------------------- MODULE LogConfig -----------------------------
(***************************************************************************)
(* The configurations of the vendored logging library.  A Configurations   *)
(* object is the sequence of its entries, in order of registration; a      *)
(* logger has one of its own, and the typed view that writing a line reads. *)
(* `conf' is an object that the application fills, by calls or by lines of *)
(* a text, and hands to the loggers.                                       *)
(***************************************************************************)
EXTENDS Integers, SequencesExt

CONSTANTS
    LevelOrder,   \* the levels below Global, in the order of forEachLevel()
    Types,        \* the types of configuration, in the order of setToDefault()
    Values,       \* the values that the application sets
    LoggerIds,    \* ids of loggers; "default" is always registered
    Files,        \* global configuration files, as sequences of lines
    MaxOps        \* bound on the application's calls

VARIABLES
    defaults,     \* RegisteredLoggers::m_defaultConfigurations
    loggers,      \* the registered loggers: m_configurations and the typed view
    conf,         \* a Configurations object of the application
    currLevel,    \* the level that the parser of `conf' is at
    ops           \* calls so far

confVars == <<defaults, loggers, conf, currLevel, ops>>

LevelsAndGlobal == ToSet(LevelOrder) \cup {"Global"}

-----------------------------------------------------------------------------
(* Class Configurations.                                                   *)

Entry(l, t, v) == [level |-> l, type |-> t, value |-> v]

\* The place of an entry in a registry, 0 if it has none.
Place(r, l, t) == SelectInSeq(r, LAMBDA e : e.level = l /\ e.type = t)

hasConfiguration(r, l, t) == Place(r, l, t) > 0

Value(r, l, t) == r[Place(r, l, t)].value

\* setValue() of the entry, or registerNew() of a new one.
SetOne(r, l, t, v) ==
    IF hasConfiguration(r, l, t) THEN [r EXCEPT ![Place(r, l, t)].value = v]
                                 ELSE Append(r, Entry(l, t, v))

\* SetOne() for every level: the entries there are keep their places.
unsafeSetGlobally(r, t, v) ==
    LET missing == SelectSeq(LevelOrder, LAMBDA l : ~hasConfiguration(r, l, t))
    IN  [i \in DOMAIN r |-> IF r[i].type = t /\ r[i].level # "Global"
                            THEN [r[i] EXCEPT !.value = v] ELSE r[i]]
        \o [i \in DOMAIN missing |-> Entry(missing[i], t, v)]

unsafeSet(r, l, t, v) ==
    IF l = "Global" THEN unsafeSetGlobally(SetOne(r, l, t, v), t, v) ELSE SetOne(r, l, t, v)

\* set() sets the levels below Global a second time, which changes nothing.
set(r, l, t, v) == unsafeSet(r, l, t, v)

setGlobally(r, t, v, includeGlobal) ==
    unsafeSetGlobally(IF includeGlobal THEN set(r, "Global", t, v) ELSE r, t, v)

\* The default of a type, and the levels that have a format of their own.
DefaultValue == "d"
OwnFormat == "own"
OwnFormats == {"Debug"} \cap ToSet(LevelOrder)

\* after[i] is what the first i rounds of a loop made of the registry.
setToDefault(r) ==
    LET after[i \in 0..Len(Types)] ==
          IF i = 0 THEN r ELSE setGlobally(after[i - 1], Types[i], DefaultValue, TRUE)
        all == after[Len(Types)]
    IN  IF "Format" \in ToSet(Types) /\ OwnFormats # {}
        THEN set(all, "Debug", "Format", OwnFormat) ELSE all

unsafeSetIfNotExist(r, l, t, v) ==
    IF hasConfiguration(r, l, t) THEN r ELSE unsafeSet(r, l, t, v)

setRemainingToDefault(r) ==
    LET after[i \in 0..Len(Types)] ==
          IF i = 0 THEN r ELSE unsafeSetIfNotExist(after[i - 1], "Global", Types[i], DefaultValue)
        all == after[Len(Types)]
    IN  IF "Format" \in ToSet(Types) /\ OwnFormats # {}
        THEN unsafeSetIfNotExist(all, "Debug", "Format", OwnFormat) ELSE all

setFromBase(r, base) ==
    LET after[i \in 0..Len(base)] ==
          IF i = 0 THEN r ELSE set(after[i - 1], base[i].level, base[i].type, base[i].value)
    IN  after[Len(base)]

\* Parser::parseLine() of a line [line |-> "level"] or [line |-> "conf"]; a
\* level or a type that is not recognised is "Unknown".
parseLine(st, ln) ==
    IF ln.line = "level" THEN [st EXCEPT !.level = ln.level]
    ELSE IF st.level = "Unknown" \/ ln.type = "Unknown" THEN st
    ELSE [st EXCEPT !.r = set(@, st.level, ln.type, ln.value)]

\* parseFromText() of some lines into an empty object.
parseFromText(lines) ==
    LET after[i \in 0..Len(lines)] ==
          IF i = 0 THEN [r |-> <<>>, level |-> "Unknown"] ELSE parseLine(after[i - 1], lines[i])
    IN  after[Len(lines)].r

-----------------------------------------------------------------------------
(* Class TypedConfigurations: for each type a map from levels to values.   *)

\* These two types are stored for Global whatever level they are set for.
GlobalTypes == {"SubsecondPrecision", "PerformanceTracking"}

\* The first value goes to Global; one that Global has already is not stored.
setValue(m, l, v) ==
    IF DOMAIN m = {} THEN [k \in {"Global"} |-> v]
    ELSE IF m["Global"] = v THEN m
    ELSE [k \in DOMAIN m \cup {l} |-> IF k = l THEN v ELSE m[k]]

build(r) ==
    [t \in ToSet(Types) |->
       LET after[i \in 0..Len(r)] ==
             IF i = 0 THEN <<>>
             ELSE IF r[i].type # t THEN after[i - 1]
             ELSE setValue(after[i - 1], IF t \in GlobalTypes THEN "Global" ELSE r[i].level, r[i].value)
       IN  after[Len(r)]]

\* unsafeGetConfigByVal(): the level's own value, or that of Global.
getConfig(typed, l, t) ==
    IF l \in DOMAIN typed[t] THEN typed[t][l] ELSE typed[t]["Global"]

-----------------------------------------------------------------------------
(* Loggers.                                                                *)

Logger(r) == [confs |-> r, typed |-> build(r)]

\* Mutant: the typed view is not built again.
configureBug(lg, r) == [lg EXCEPT !.confs = setFromBase(@, r)]

\* Logger::configure(): what it is given is laid over what it has.
configure(lg, r) == Logger(IF lg.confs # r THEN setFromBase(lg.confs, r) ELSE lg.confs)

\* RegisteredLoggers::get(): a new logger starts with the default configurations.
get(ls, id) ==
    [i \in DOMAIN ls \cup {id} |-> IF i \in DOMAIN ls THEN ls[i] ELSE Logger(setFromBase(<<>>, defaults))]

ConfInit ==
    /\ defaults = setToDefault(<<>>)
    /\ loggers = [i \in {"default"} |-> Logger(setFromBase(<<>>, defaults))]
    /\ conf = <<>>
    /\ currLevel = "Unknown"
    /\ ops = 0

\* One more call of the application.
Operation == ops < MaxOps /\ ops' = ops + 1

\* Calls on the application's own object.
SetConf ==
    /\ Operation
    /\ \E l \in LevelsAndGlobal, t \in ToSet(Types), v \in Values : conf' = set(conf, l, t, v)
    /\ UNCHANGED <<defaults, loggers, currLevel>>

SetConfGlobally ==
    /\ Operation
    /\ \E t \in ToSet(Types), v \in Values, all \in BOOLEAN : conf' = setGlobally(conf, t, v, all)
    /\ UNCHANGED <<defaults, loggers, currLevel>>

DefaultConf ==
    /\ Operation
    /\ conf' = setToDefault(conf)
    /\ UNCHANGED <<defaults, loggers, currLevel>>

RemainingConf ==
    /\ Operation
    /\ conf' = setRemainingToDefault(conf)
    /\ UNCHANGED <<defaults, loggers, currLevel>>

ParseConf ==
    /\ Operation
    /\ \E ln \in [line : {"level"}, level : LevelsAndGlobal \cup {"Unknown"}]
                 \cup [line : {"conf"}, type : ToSet(Types) \cup {"Unknown"}, value : Values] :
         LET st == parseLine([r |-> conf, level |-> currLevel], ln)
         IN  conf' = st.r /\ currLevel' = st.level
    /\ UNCHANGED <<defaults, loggers>>

\* getLogger() and unregisterLogger().
GetLogger ==
    /\ Operation
    /\ \E id \in LoggerIds : loggers' = get(loggers, id)
    /\ UNCHANGED <<defaults, conf, currLevel>>

UnregisterLogger ==
    /\ Operation
    /\ \E id \in LoggerIds \ {"default"} :
         loggers' = [i \in DOMAIN loggers \ {id} |-> loggers[i]]
    /\ UNCHANGED <<defaults, conf, currLevel>>

ReconfigureLogger ==
    /\ Operation
    /\ \E id \in LoggerIds :
         LET ls == get(loggers, id) IN loggers' = [ls EXCEPT ![id] = configure(@, conf)]
    /\ UNCHANGED <<defaults, conf, currLevel>>

reconfigureAllLoggers(ls, r) == [i \in DOMAIN ls |-> configure(ls[i], r)]

\* The overload with a level, a type and a value; `reconfigureLogger(id, type,
\* value)' is the same for one logger and Global.
ReconfigureAll ==
    /\ Operation
    /\ \E ids \in {DOMAIN loggers} \cup {{id} : id \in DOMAIN loggers},
          l \in LevelsAndGlobal, t \in ToSet(Types), v \in Values :
         /\ ids # DOMAIN loggers => l = "Global"
         /\ loggers' = [i \in DOMAIN loggers |->
                          IF i \in ids THEN Logger(set(loggers[i].confs, l, t, v)) ELSE loggers[i]]
    /\ UNCHANGED <<defaults, conf, currLevel>>

SetDefaultConfigurations ==
    /\ Operation
    /\ defaults' = setFromBase(defaults, conf)
    /\ \E existing \in BOOLEAN :
         loggers' = IF existing THEN reconfigureAllLoggers(loggers, conf) ELSE loggers
    /\ UNCHANGED <<conf, currLevel>>

\* configureFromGlobal(): a line [line |-> "logger"] closes one section of the
\* file and opens the next.  An id of one character opens none: the lines that
\* follow it go to the logger before.
SectionLine(st, ln) ==
    IF ln.line = "logger"
    THEN LET ls == IF st.lines # <<>> /\ st.id # ""
                   THEN [st.ls EXCEPT ![st.id] = configure(@, parseFromText(st.lines))] ELSE st.ls
         IN  [ls |-> IF ln.short THEN ls ELSE get(ls, ln.id),
              id |-> IF ln.short THEN st.id ELSE ln.id, lines |-> <<>>]
    ELSE [st EXCEPT !.lines = Append(@, ln)]

ConfigureFromGlobal ==
    /\ Operation
    /\ \E file \in Files :
         LET lines == Append(file, [line |-> "logger", id |-> "", short |-> TRUE])
             after[i \in 0..Len(lines)] ==
               IF i = 0 THEN [ls |-> loggers, id |-> "", lines |-> <<>>]
                        ELSE SectionLine(after[i - 1], lines[i])
         IN  loggers' = after[Len(lines)].ls
    /\ UNCHANGED <<defaults, conf, currLevel>>

ConfNext ==
    \/ SetConf \/ SetConfGlobally \/ DefaultConf \/ RemainingConf \/ ParseConf
    \/ GetLogger \/ UnregisterLogger \/ ReconfigureLogger \/ ReconfigureAll
    \/ SetDefaultConfigurations \/ ConfigureFromGlobal

-----------------------------------------------------------------------------
(* Properties.                                                             *)

\* No entry for a level comes before the one for Global.
GlobalFirst(r, t) ==
    hasConfiguration(r, "Global", t) =>
      \A l \in ToSet(LevelOrder) : hasConfiguration(r, l, t) => Place(r, "Global", t) < Place(r, l, t)

\* The typed view of every registered logger gives each level the value that
\* its configurations hold, although the view stores some of them only once:
\* loggers start from the defaults, where Global comes first.
TypedAgrees ==
    \A id \in DOMAIN loggers : \A l \in LevelsAndGlobal, t \in ToSet(Types) \ GlobalTypes :
      getConfig(loggers[id].typed, l, t) = Value(loggers[id].confs, l, t)

\* Configuring any registered logger with the application's object gives it
\* every value the object holds, unless a level comes before Global in it: then
\* setting Global on the copy overrides the level.
BaseCopied ==
    \A id \in DOMAIN loggers, l \in LevelsAndGlobal, t \in ToSet(Types) :
      hasConfiguration(conf, l, t) /\ GlobalFirst(conf, t) =>
        Value(configure(loggers[id], conf).confs, l, t) = Value(conf, l, t)

\* setRemainingToDefault() changes no value that is set already, if Global is
\* set for its type.  Without that, setting Global to its default overrides the
\* levels that are set.
RemainingKept ==
    \A l \in LevelsAndGlobal, t \in ToSet(Types) :
      hasConfiguration(conf, l, t) /\ hasConfiguration(conf, "Global", t) =>
        Value(setRemainingToDefault(conf), l, t) = Value(conf, l, t)
\* What a logger is configured with is what it uses, through copies of
\* configurations, defaults and files (Configurations, TypedConfigurations).
ConfigurationsAgree == TypedAgrees /\ BaseCopied /\ RemainingKept
=============================================================================
