----------------------------- MODULE VRegistry -----------------------------
(***************************************************************************)
(* src/thirdparty/rtclog: which categories may log at which level.         *)
(* VRegistry of easylogging++ keeps the list of categories, a cache of its *)
(* answers and the lowest priority any category lets through, which is     *)
(* read without the lock.  rtclog.cpp rewrites the list on behalf of the   *)
(* application.  A category list is a sequence of entries here; LogText    *)
(* has the text it is parsed from.                                         *)
(***************************************************************************)
EXTENDS Integers, Sequences, FiniteSets

CONSTANTS Setters,     \* threads that change the categories
          Names,       \* names of categories
          Requests,    \* what the application asks of rtclog
          MaxEntries,  \* entries a list may grow to
          MaxSets,     \* changes, of all setters together
          NoOne        \* a lock that is free

Levels == {"Fatal", "Error", "Warning", "Info", "Debug", "Verbose", "Trace", "Global"}
Star == "*"
INT_MAX == 2147483647

ASSUME NamesAssumption == {"rtclog", "global"} \subseteq Names

VARIABLES
    m_categories,      \* entries in the order they were set
    m_cached,          \* m_cached_allowed_categories: the answers so far
    m_lowest_priority,
    m_string,          \* m_categoriesString, entry by entry
    vLock,             \* holder of the VRegistry's mutex
    setting,           \* each setter's place in rtclog_set_categories()
    sets               \* changes begun so far

registry == <<m_categories, m_cached, m_lowest_priority, m_string>>
vars == <<registry, vLock, setting, sets>>

priority(level) ==
    CASE level = "Fatal" -> 0
      [] level = "Error" -> 1
      [] level = "Warning" -> 2
      [] level = "Info" -> 3
      [] level = "Debug" -> 4
      [] level = "Verbose" -> 5
      [] level = "Trace" -> 6
      [] OTHER -> 7

\* Str::wildCardMatch() on names without wildcards and on "*".
Matches(category, pattern) == pattern \in {category, Star}

Entry(name, level) == [name |-> name, level |-> level]

\* get_default_categories()
DefaultCategories(level) ==
    CASE level \in {0, 1} -> <<Entry(Star, "Info"), Entry("rtclog", "Info"),
                               Entry("global", "Info")>>
      [] level = 2 -> <<Entry(Star, "Debug")>>
      [] level \in {3, 4} -> <<Entry(Star, "Trace")>>
      [] OTHER -> <<>>

Init ==
    /\ m_categories = <<>>
    /\ m_cached = <<>>
    /\ m_lowest_priority = INT_MAX
    /\ m_string = <<>>
    /\ vLock = NoOne
    /\ setting = [s \in Setters |-> [at |-> "idle", list |-> <<>>]]
    /\ sets = 0

-----------------------------------------------------------------------------
(* allowed(level, category).                                               *)

\* The test before the lock is taken.
PassesLowest(level) == priority(level) <= m_lowest_priority

\* What the list says of a category: the last entry that matches counts.
LastMatch(category) ==
    LET matching == {i \in DOMAIN m_categories : Matches(category, m_categories[i].name)}
    IN  IF matching = {} THEN -1
        ELSE priority(m_categories[CHOOSE i \in matching : \A j \in matching : j <= i].level)

\* The answer given under the lock, and what is remembered of it.
Answer(level, category) ==
    priority(level) <= IF category \in DOMAIN m_cached THEN m_cached[category]
                       ELSE LastMatch(category)

Remember(category) ==
    m_cached' = IF category \in DOMAIN m_cached \/ m_categories = <<>> THEN m_cached
                ELSE [c \in DOMAIN m_cached \cup {category} |->
                          IF c = category THEN LastMatch(c) ELSE m_cached[c]]

\* rtclog_is_enabled(), and allowed() wherever it is called.
allowed(level, category, answer) ==
    \/ /\ ~PassesLowest(level) /\ answer = FALSE
       /\ UNCHANGED m_cached
    \/ /\ PassesLowest(level) /\ vLock = NoOne
       /\ answer = Answer(level, category)
       /\ Remember(category)

-----------------------------------------------------------------------------
(* setCategories(), and rtclog_set_categories() and its callers.           *)

At(s, place, list) == setting' = [setting EXCEPT ![s] = [at |-> place, list |-> list]]

Begin(s) ==
    /\ setting[s].at = "idle" /\ sets < MaxSets
    /\ sets' = sets + 1

\* rtclog_set_log() with a number: 0 to 4 replace the list by a default, any
\* other number only prints.  rtclog_set_level() asks for 1, 2 or 4.
rtclog_set_log_level(s, level) ==
    /\ Begin(s)
    /\ IF level \in 0..4 THEN At(s, "clear", DefaultCategories(level)) ELSE UNCHANGED setting
    /\ UNCHANGED <<registry, vLock>>

\* rtclog_set_log() with a number followed by a list.
SetLevelAndList(s, level, list) ==
    /\ Begin(s)
    /\ At(s, "clear", DefaultCategories(level) \o list)
    /\ UNCHANGED <<registry, vLock>>

SetList(s, list) ==
    /\ Begin(s)
    /\ At(s, "clear", list)
    /\ UNCHANGED <<registry, vLock>>

\* A list after '+' is appended to what getCategories() returns, and each
\* entry of one after '-' is erased from it where it is first found.
Erase(list, e) ==
    LET found == {i \in DOMAIN list : list[i] = e}
        first == CHOOSE i \in found : \A j \in found : i <= j
    IN  IF found = {} THEN list
        ELSE SubSeq(list, 1, first - 1) \o SubSeq(list, first + 1, Len(list))

EraseAll(list, entries) ==
    LET left[n \in 0..Len(entries)] ==
            IF n = 0 THEN list ELSE Erase(left[n - 1], entries[n])
    IN  left[Len(entries)]

Plus(s, list) ==
    /\ Begin(s) /\ vLock = NoOne
    /\ Len(m_string) + Len(list) <= MaxEntries
    /\ At(s, "clear", m_string \o list)
    /\ UNCHANGED <<registry, vLock>>

Minus(s, list) ==
    /\ Begin(s) /\ vLock = NoOne
    /\ At(s, "clear", EraseAll(m_string, list))
    /\ UNCHANGED <<registry, vLock>>

\* setCategories(.., true) up to its loop.
Clear(s) ==
    /\ setting[s].at = "clear" /\ vLock = NoOne
    /\ vLock' = s
    /\ m_lowest_priority' = 0
    /\ m_categories' = <<>> /\ m_cached' = <<>>
    /\ m_string' = setting[s].list
    /\ At(s, "insert", setting[s].list)
    /\ UNCHANGED sets

\* Loggers::setCategories(.., false): nothing is cleared first.
Keep(s, list) ==
    /\ Begin(s) /\ vLock = NoOne
    /\ Len(m_string) + Len(list) <= MaxEntries
    /\ vLock' = s
    /\ m_string' = m_string \o list
    /\ At(s, "insert", list)
    /\ UNCHANGED <<m_categories, m_cached, m_lowest_priority>>

\* Mutant: the lowest priority is that of the entry inserted last.
InsertBug(s) ==
    /\ setting[s].at = "insert" /\ setting[s].list # <<>>
    /\ LET e == Head(setting[s].list)
       IN  /\ m_categories' = Append(m_categories, e)
           /\ m_lowest_priority' = priority(e.level)
    /\ m_cached' = <<>>
    /\ At(s, "insert", Tail(setting[s].list))
    /\ UNCHANGED <<m_string, vLock, sets>>

\* One insert() of the loop; readers without the lock see each of them.
Insert(s) ==
    /\ setting[s].at = "insert" /\ setting[s].list # <<>>
    /\ LET e == Head(setting[s].list)
       IN  /\ m_categories' = Append(m_categories, e)
           /\ m_lowest_priority' = IF priority(e.level) > m_lowest_priority
                                   THEN priority(e.level) ELSE m_lowest_priority
    /\ m_cached' = <<>>
    /\ At(s, "insert", Tail(setting[s].list))
    /\ UNCHANGED <<m_string, vLock, sets>>

Unlock(s) ==
    /\ setting[s].at = "insert" /\ setting[s].list = <<>>
    /\ vLock' = NoOne
    /\ At(s, "idle", <<>>)
    /\ UNCHANGED <<registry, sets>>

\* The text is not cleared: getCategories() still returns it.
clearCategories(s) ==
    /\ Begin(s) /\ vLock = NoOne
    /\ m_categories' = <<>> /\ m_cached' = <<>>
    /\ m_lowest_priority' = INT_MAX
    /\ UNCHANGED <<m_string, vLock, setting>>

Request(s) ==
    \/ \E r \in Requests :
          \/ r.op = "level" /\ rtclog_set_log_level(s, r.level)
          \/ r.op = "levelAndList" /\ SetLevelAndList(s, r.level, r.list)
          \/ r.op = "list" /\ SetList(s, r.list)
          \/ r.op = "plus" /\ Plus(s, r.list)
          \/ r.op = "minus" /\ Minus(s, r.list)
          \/ r.op = "keep" /\ Keep(s, r.list)
          \/ r.op = "forget" /\ clearCategories(s)

SetterStep(s) == Clear(s) \/ Insert(s) \/ Unlock(s)

\* A caller of allowed() for which nothing but the answer matters.
Ask(level, category) ==
    /\ \E answer \in BOOLEAN : allowed(level, category, answer)
    /\ UNCHANGED <<m_categories, m_lowest_priority, m_string, vLock, setting, sets>>

Next ==
    \/ \E s \in Setters : Request(s) \/ SetterStep(s)
    \/ \E level \in Levels, category \in Names : Ask(level, category)

Spec == Init /\ [][Next]_vars

-----------------------------------------------------------------------------
\* What allowed(level, category) answers while nobody changes the list is what
\* the list says: the last entry that matches the category lets the level
\* through.  Neither the cache, filled by earlier answers and emptied by
\* setCategories() and clearCategories(), nor the priority tested before the
\* lock changes an answer.  VRegistry::allowed() and setCategories().
AllowedIsLastMatch ==
    vLock = NoOne =>
        \A level \in Levels, category \in Names :
            (PassesLowest(level) /\ Answer(level, category))
                <=> priority(level) <= LastMatch(category)

\* What holds even while setCategories() is at work: the cache never disagrees
\* with the list, and no entry is above the lowest priority let through.
RegistryInv ==
    /\ m_categories \in Seq({m_categories[i] : i \in DOMAIN m_categories})
    /\ m_lowest_priority \in Int
    /\ \A i \in DOMAIN m_categories : priority(m_categories[i].level) <= m_lowest_priority
    /\ \A c \in DOMAIN m_cached : m_cached[c] = LastMatch(c)
=============================================================================
