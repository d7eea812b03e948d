--------------------------- MODULE LoggingProofs ---------------------------
(* allowed() answers what the list of categories says, for every list, any  *)
(* number of setters and every order of their steps and the callers'; and a *)
(* line on its way to the file keeps to itself and is not lost.             *)
EXTENDS Logging, FiniteSetTheorems, WellFoundedInduction, TLAPS

\* A leaf is tried with Zenon, then SMT, unless it names its prover.
USE ZenonT(30), SMTT(30)

\* A priority is a small number, whatever the level.
LEMMA PriorityRange == \A level : priority(level) \in 0..7
  BY SMTT(30) DEF priority

\* Among some positions of a sequence there is a last one.
LEMMA LastPosition ==
    ASSUME NEW n \in Nat, NEW T \in SUBSET (1..n), T # {}
    PROVE  \E i \in T : \A j \in T : j <= i
<1> DEFINE R == {rr \in Nat \X Nat : rr[1] < rr[2]}
           Back == {n - i : i \in T}
<1>1. IsWellFoundedOn(R, Nat)
  <2>1. R = OpToRel(<, Nat)
    BY DEF OpToRel
  <2> QED
    BY <2>1, NatLessThanWellFounded
<1>2. Back \subseteq Nat /\ Back # {}
  <2>1. \A i \in T : n - i \in Nat
    BY SMTT(30)
  <2>2. PICK i \in T : TRUE
    OBVIOUS
  <2>3. n - i \in Back
    OBVIOUS
  <2> QED
    BY <2>1, <2>3
<1>3. PICK x \in Back : \A y \in Back : ~(<<y, x>> \in R)
  <2> HIDE DEF R, Back
  <2> QED
    BY <1>1, <1>2, WFMin
<1>4. PICK i \in T : x = n - i
  OBVIOUS
<1>5. ASSUME NEW j \in T PROVE j <= i
  <2>1. n - j \in Back /\ n - j \in Nat /\ x \in Nat
    BY <1>2
  <2>2. ~(n - j < x)
    BY <1>3, <2>1
  <2> QED
    BY <2>1, <2>2, <1>4, SMTT(30)
<1> QED
  BY <1>5

\* What the list says of a category is below every matching level or the level
\* of one of its entries.
LEMMA LastMatchIsEntry ==
    ASSUME RegistryInv, NEW category
    PROVE  \/ LastMatch(category) = -1
           \/ \E i \in DOMAIN m_categories : LastMatch(category) = priority(m_categories[i].level)
<1> DEFINE matching == {i \in DOMAIN m_categories : Matches(category, m_categories[i].name)}
           last == CHOOSE i \in matching : \A j \in matching : j <= i
<1>1. CASE matching = {}
  BY <1>1 DEF LastMatch
<1>2. CASE matching # {}
  <2>1. Len(m_categories) \in Nat /\ matching \in SUBSET (1..Len(m_categories))
    BY SMTT(30) DEF RegistryInv
  <2>2. \E i \in matching : \A j \in matching : j <= i
    <3> HIDE DEF matching
    <3> QED
      BY <1>2, <2>1, LastPosition
  <2>3. last \in matching
    <3> HIDE DEF matching
    <3> QED
      BY <2>2
  <2>4. LastMatch(category) = priority(m_categories[last].level)
    BY <1>2 DEF LastMatch
  <2> QED
    BY <2>3, <2>4
<1> QED
  BY <1>1, <1>2

\* Neither the cache nor the test before the lock changes an answer.
LEMMA InvGivesAnswer == RegistryInv => AllowedIsLastMatch
<1> SUFFICES ASSUME RegistryInv, NEW level \in Levels, NEW category \in Names
             PROVE  (PassesLowest(level) /\ Answer(level, category))
                        <=> priority(level) <= LastMatch(category)
  BY DEF AllowedIsLastMatch
<1> DEFINE p == priority(level)
           m == LastMatch(category)
<1>1. p \in 0..7 /\ m_lowest_priority \in Int
  BY PriorityRange DEF RegistryInv
<1>2. Answer(level, category) <=> p <= m
  BY DEF Answer, RegistryInv
<1>3. m = -1 \/ (m \in 0..7 /\ m <= m_lowest_priority)
  BY LastMatchIsEntry, PriorityRange DEF RegistryInv
<1>4. p <= m => p <= m_lowest_priority
  <2> HIDE DEF p, m
  <2> QED
    BY <1>1, <1>3, SMTT(30)
<1> QED
  BY <1>2, <1>4 DEF PassesLowest

\* A sequence is a sequence of its own elements.
LEMMA SeqOfElements ==
    ASSUME NEW X, NEW s \in Seq(X)
    PROVE  s \in Seq({s[i] : i \in DOMAIN s})
  BY SMTT(30)

\* Only the list decides what it says of a category.
LEMMA ListKept ==
    ASSUME RegistryInv, UNCHANGED <<m_categories, m_lowest_priority>>,
           \A c \in DOMAIN m_cached' : m_cached'[c] = LastMatch(c)
    PROVE  RegistryInv'
<1>1. \A c : LastMatch(c)' = LastMatch(c)
  BY SMTT(30) DEF LastMatch, Matches
<1> QED
  BY <1>1 DEF RegistryInv

\* A list that was just cleared.
LEMMA Cleared ==
    ASSUME m_categories' = <<>>, m_cached' = <<>>, m_lowest_priority' \in Int
    PROVE  RegistryInv'
  BY SMTT(30) DEF RegistryInv

\* insert() raises the lowest priority with the list and drops the cache.
LEMMA InsertKeepsInv ==
    ASSUME RegistryInv, NEW s \in Setters, Insert(s)
    PROVE  RegistryInv'
<1> DEFINE e == Head(setting[s].list)
           A == {m_categories[i] : i \in DOMAIN m_categories} \cup {e}
           p == priority(e.level)
<1>1. /\ m_categories' = Append(m_categories, e)
      /\ m_lowest_priority' = IF p > m_lowest_priority THEN p ELSE m_lowest_priority
      /\ m_cached' = <<>>
  BY DEF Insert
<1>2. m_categories \in Seq(A) /\ e \in A
  BY SMTT(30) DEF RegistryInv
<1> HIDE DEF A, e
<1>3. /\ m_categories' \in Seq(A)
      /\ \A i \in DOMAIN m_categories' :
            (i \in DOMAIN m_categories /\ m_categories'[i] = m_categories[i]) \/ m_categories'[i] = e
  BY <1>1, <1>2, SMTT(30)
<1>4. m_categories' \in Seq({m_categories'[i] : i \in DOMAIN m_categories'})
  BY <1>3, SeqOfElements
<1>5. p \in Int /\ m_lowest_priority \in Int
  BY PriorityRange, SMTT(30) DEF RegistryInv
<1>6. m_lowest_priority' \in Int /\ m_lowest_priority <= m_lowest_priority' /\ p <= m_lowest_priority'
  <2> HIDE DEF p
  <2> QED
    BY <1>1, <1>5, SMTT(30)
<1>7. ASSUME NEW i \in DOMAIN m_categories'
      PROVE  priority(m_categories'[i].level) <= m_lowest_priority'
  <2>1. CASE i \in DOMAIN m_categories /\ m_categories'[i] = m_categories[i]
    <3> DEFINE q == priority(m_categories[i].level)
    <3>1. q \in Int
      BY PriorityRange, SMTT(30)
    <3>2. q <= m_lowest_priority
      BY <2>1 DEF RegistryInv
    <3>3. q <= m_lowest_priority'
      <4> HIDE DEF q
      <4> QED
        BY <3>1, <3>2, <1>5, <1>6, SMTT(30)
    <3> QED
      BY <2>1, <3>3
  <2>2. CASE m_categories'[i] = e
    <3>1. priority(m_categories'[i].level) = p
      BY <2>2
    <3> QED
      BY <3>1, <1>6
  <2> QED
    BY <1>3, <2>1, <2>2
<1>8. DOMAIN m_cached' = {}
  BY <1>1, SMTT(30)
<1> QED
  BY <1>4, <1>6, <1>7, <1>8 DEF RegistryInv

\* An answer is remembered as the list gives it.
LEMMA AnswerKeepsInv ==
    ASSUME RegistryInv, NEW level, NEW category, NEW answer, allowed(level, category, answer),
           UNCHANGED <<m_categories, m_lowest_priority>>
    PROVE  RegistryInv'
<1>1. UNCHANGED m_cached \/ Remember(category)
  BY DEF allowed
<1>2. \A c \in DOMAIN m_cached' : m_cached'[c] = LastMatch(c)
  BY <1>1, SMTT(30) DEF Remember, RegistryInv
<1> QED
  BY <1>2, ListKept

\* RegistryInv is preserved by every step.
LEMMA RegistryStep == RegistryInv /\ [Next]_vars => RegistryInv'
<1> SUFFICES ASSUME RegistryInv, [Next]_vars
             PROVE  RegistryInv'
  OBVIOUS
<1>1. ASSUME UNCHANGED <<m_categories, m_cached, m_lowest_priority>>
      PROVE  RegistryInv'
  <2>1. \A c \in DOMAIN m_cached' : m_cached'[c] = LastMatch(c)
    BY <1>1 DEF RegistryInv
  <2> QED
    BY <1>1, <2>1, ListKept
<1>2. ASSUME NEW s \in Setters, Request(s)
      PROVE  RegistryInv'
  <2>1. CASE clearCategories(s)
    BY <2>1, Cleared, SMTT(30) DEF clearCategories, INT_MAX
  <2>2. CASE ~clearCategories(s)
    <3>1. UNCHANGED <<m_categories, m_cached, m_lowest_priority>>
      BY <1>2, <2>2 DEF Request, rtclog_set_log_level, SetLevelAndList, SetList, Plus, Minus,
                        Keep, registry
    <3> QED
      BY <3>1, <1>1
  <2> QED
    BY <2>1, <2>2
<1>3. ASSUME NEW s \in Setters, SetterStep(s)
      PROVE  RegistryInv'
  <2>1. CASE Clear(s)
    BY <2>1, Cleared DEF Clear
  <2>2. CASE Insert(s)
    BY <2>2, InsertKeepsInv
  <2>3. CASE Unlock(s)
    BY <2>3, <1>1 DEF Unlock, registry
  <2> QED
    BY <1>3, <2>1, <2>2, <2>3 DEF SetterStep
<1>4. ASSUME NEW level \in Levels, NEW category \in Names, Ask(level, category)
      PROVE  RegistryInv'
  BY <1>4, AnswerKeepsInv DEF Ask
<1>5. CASE UNCHANGED vars
  BY <1>5, <1>1 DEF vars, registry
<1> QED
  BY <1>2, <1>3, <1>4, <1>5 DEF Next

\* The cache of VRegistry never disagrees with its list, and the lowest priority
\* never hides an entry, in every interleaving of setters and callers.
THEOREM RegistryInvHolds == Spec => []RegistryInv
<1>1. Init => RegistryInv
  BY SMTT(30) DEF Init, RegistryInv, INT_MAX
<1> QED
  BY <1>1, RegistryStep, PTL DEF Spec

\* allowed(level, category) answers what the last matching entry of the list
\* says, whatever was cached and whichever list was set before.
THEOREM AllowedIsLastMatchHolds == Spec => []AllowedIsLastMatch
  BY RegistryInvHolds, InvGivesAnswer, PTL

-----------------------------------------------------------------------------
(* The registry while lines are logged and the process restarts.           *)

\* What rtclog_configure() sets.
LEMMA ConfiguredInv == Configured => RegistryInv'
<1> SUFFICES ASSUME Configured PROVE RegistryInv'
  OBVIOUS
<1> DEFINE list == <<Entry(Star, "Info"), Entry("rtclog", "Info"), Entry("global", "Info")>>
<1>1. m_categories' = list /\ m_cached' = <<>> /\ m_lowest_priority' = 3
  BY DEF Configured, DefaultCategories
<1>2. list \in Seq({list[i] : i \in DOMAIN list})
  OBVIOUS
<1>3. \A i \in DOMAIN list : list[i].level = "Info"
  BY DEF Entry
<1>4. priority("Info") = 3
  BY DEF priority
<1> HIDE DEF list
<1>5. DOMAIN m_cached' = {}
  BY <1>1
<1> QED
  BY <1>1, <1>2, <1>3, <1>4, <1>5 DEF RegistryInv

LEMMA LogRegistryStep == RegistryInv /\ [LogNext]_allVars => RegistryInv'
<1> SUFFICES ASSUME RegistryInv, [LogNext]_allVars PROVE RegistryInv'
  OBVIOUS
<1>1. ASSUME UNCHANGED vars PROVE RegistryInv'
  BY <1>1, RegistryStep
<1>2. CASE Configure \/ ConfigureFails
  BY <1>2, ConfiguredInv DEF Configure, ConfigureFails
<1>3. CASE Crash
  BY <1>3, Cleared, SMTT(30) DEF Crash, INT_MAX
<1>4. ASSUME NEW w \in Writers, Enabled(w) \/ Proceed(w) PROVE RegistryInv'
  BY <1>4, AnswerKeepsInv DEF Enabled, Proceed, registryRest
<1>5. ASSUME NEW w \in Writers, Call(w) \/ WriterStep(w), ~(Enabled(w) \/ Proceed(w))
      PROVE  RegistryInv'
  <2>1. UNCHANGED vars
    BY <1>5 DEF Call, WriterStep, FormatFails, Acquire, Build, GiveUp, Discard, Dispatching,
                EnterDispatch, Write, WriteFails, SkipWrite, Flush, FlushFails, Close, CloseFails, Backup, BackupFails,
                Prune, PruneFails, Reopen, ReopenFails, Release, still, inDispatch
  <2> QED BY <1>1, <2>1
<1>6. ASSUME NEW s \in Setters, Setting(s) PROVE RegistryInv'
  BY <1>6, RegistryStep DEF Setting, Next
<1>7. CASE UNCHANGED allVars
  BY <1>1, <1>7 DEF allVars
<1> QED BY <1>2, <1>3, <1>4, <1>5, <1>6, <1>7 DEF LogNext

\* allowed() answers what the list says while writers log, setters change the list
\* and the process crashes and is configured again.
THEOREM LoggingAllowedIsLastMatch == LogSpec => []AllowedIsLastMatch
<1>1. LogInit => RegistryInv
  BY SMTT(30) DEF LogInit, Init, RegistryInv, INT_MAX
<1> QED BY <1>1, LogRegistryStep, InvGivesAnswer, PTL DEF LogSpec

-----------------------------------------------------------------------------
(* The locks.                                                              *)

LEMMA NoLines == Range(<<>>) = {}
  BY DEF Range

\* What a stream holds after text was added.
LEMMA TextOfAppend ==
    ASSUME NEW s \in Seq(Writers), NEW w \in Writers
    PROVE  /\ Append(s, w) \in Seq(Writers) /\ Range(Append(s, w)) = Range(s) \cup {w}
           /\ s = <<>> => Append(s, w) = <<w>>
<1>1. /\ Append(s, w) \in Seq(Writers) /\ Len(Append(s, w)) = Len(s) + 1 /\ Len(s) \in Nat
      /\ DOMAIN s = 1..Len(s) /\ DOMAIN Append(s, w) = 1..(Len(s) + 1)
      /\ Append(s, w)[Len(s) + 1] = w
      /\ \A i \in 1..Len(s) : Append(s, w)[i] = s[i]
  OBVIOUS
<1>2. ASSUME NEW x \in Range(Append(s, w)) PROVE x \in Range(s) \cup {w}
  <2>1. PICK i \in 1..(Len(s) + 1) : x = Append(s, w)[i]
    BY <1>1 DEF Range
  <2>2. i \in 1..Len(s) \/ i = Len(s) + 1
    BY <1>1, <2>1
  <2> QED BY <1>1, <2>1, <2>2 DEF Range
<1>3. 1..Len(s) \subseteq 1..(Len(s) + 1) /\ Len(s) + 1 \in 1..(Len(s) + 1)
  BY <1>1
<1>4. Range(s) \cup {w} \subseteq Range(Append(s, w))
  BY <1>1, <1>3 DEF Range
<1>5. s = <<>> => Append(s, w) = <<w>>
  OBVIOUS
<1> QED BY <1>1, <1>2, <1>4, <1>5

\* A step moves one writer.
LEMMA Moved ==
    ASSUME LocksOK, NEW w \in Writers, NEW place \in Places, Goto(w, place)
    PROVE  /\ pc' \in [Writers -> Places] /\ pc'[w] = place
           /\ \A v \in Writers : v # w => pc'[v] = pc[v]
  BY DEF LocksOK, Goto

LEMMA NoText == <<>> \in Seq(Writers)
  OBVIOUS

LEMMA LocksStep ==
    ASSUME LocksOK, DiskTypes, [LogNext]_allVars
    PROVE  LocksOK'
<1> USE WritersAssumption DEF writerVars
<1>1. CASE Configure \/ ConfigureFails
  BY <1>1 DEF Configure, ConfigureFails, LocksOK, Unbuilt
<1>2. CASE Crash
  <2>1. /\ pc' = [w \in Writers |-> "idle"] /\ call' = call /\ text' = <<>> /\ lLock' = NoOne
        /\ kept' = FALSE
    BY <1>2 DEF Crash
  <2>2. "idle" \in Places \ InLogger /\ "idle" \notin Storing
    BY DEF Places, InLogger, Storing
  <2> QED BY <2>1, <2>2, NoText DEF LocksOK, Unbuilt
<1>3. ASSUME NEW w \in Writers, Call(w) PROVE LocksOK'
  <2>1. PICK path \in scenario.paths, level \in LogLevels :
            /\ call' = [call EXCEPT ![w] = [path |-> path, level |-> level]]
            /\ Goto(w, IF path = "fmt" THEN "isEnabled" ELSE "acquire")
    BY <1>3 DEF Call
  <2>2. PICK place \in {"isEnabled", "acquire"} : Goto(w, place)
    BY <2>1
  <2>3. place \in Places \ InLogger /\ place \notin Storing
    BY DEF Places, InLogger, Storing
  <2>4. /\ pc' \in [Writers -> Places] /\ pc'[w] = place
        /\ \A v \in Writers : v # w => pc'[v] = pc[v]
    BY <2>2, <2>3, Moved
  <2>5. call' = [v \in Writers |-> call'[v]] /\ \A v \in Writers : v # w => call'[v] = call[v]
    BY <2>1 DEF LocksOK
  <2>6. UNCHANGED <<lLock, kept, gLock, text, running>> /\ running /\ pc[w] \notin InLogger
    BY <1>3 DEF Call, stable, InLogger, Storing
  <2> QED BY <2>3, <2>4, <2>5, <2>6 DEF LocksOK, Unbuilt
<1> DEFINE Others(w, place) ==
        /\ pc[w] # "idle" /\ place \in Places /\ Goto(w, place)
        /\ UNCHANGED <<call, running>>
<1>4. ASSUME NEW w \in Writers, NEW place, Others(w, place),
             UNCHANGED <<lLock, kept, gLock, text>>,
             place \in InLogger <=> pc[w] \in InLogger, place \in Storing => pc[w] \in Storing,
             place \in InLogger \ {"discard"} =>
                 LET unbuilt == place = "build" \/ (place = "hierarchical" /\ call[w].path = "macro")
                 IN  /\ unbuilt \/ w \in Range(text)
                     /\ ~kept => text = IF unbuilt THEN <<>> ELSE <<w>>
      PROVE  LocksOK'
  <2>1. /\ pc' \in [Writers -> Places] /\ pc'[w] = place
        /\ \A v \in Writers : v # w => pc'[v] = pc[v]
    BY <1>4, Moved
  <2> QED BY <1>4, <2>1 DEF LocksOK, Unbuilt
<1>5. ASSUME NEW w \in Writers, Enabled(w) PROVE LocksOK'
  <2>1. PICK place \in {"idle", "double", "acquire"} : Goto(w, place)
    BY <1>5 DEF Enabled
  <2>2. /\ Others(w, place) /\ UNCHANGED <<lLock, kept, gLock, text>>
        /\ place \notin InLogger /\ pc[w] \notin InLogger
    BY <1>5, <2>1 DEF Enabled, stable, Places, InLogger, Storing
  <2> QED BY <1>4, <2>2 DEF InLogger
<1>6. ASSUME NEW w \in Writers, FormatFails(w) PROVE LocksOK'
  <2>1. /\ Others(w, "idle") /\ UNCHANGED <<lLock, kept, gLock, text>>
        /\ "idle" \notin InLogger /\ pc[w] \notin InLogger
    BY <1>6 DEF FormatFails, stable, Places, InLogger, Storing
  <2> QED BY <1>4, <2>1 DEF InLogger
<1>7. ASSUME NEW w \in Writers, Acquire(w) PROVE LocksOK'
  <2>1. PICK place \in {"hierarchical", "build"} :
            place = (IF call[w].path = "macro" THEN "hierarchical" ELSE "build") /\ Goto(w, place)
    BY <1>7 DEF Acquire
  <2>2. place \in Places /\ place \notin Storing
    BY DEF Places, InLogger, Storing
  <2>3. /\ pc' \in [Writers -> Places] /\ pc'[w] = place
        /\ \A v \in Writers : v # w => pc'[v] = pc[v]
    BY <2>1, <2>2, Moved
  <2>4. /\ lLock \in {NoOne, w} /\ lLock' = w /\ UNCHANGED <<call, running, kept, gLock, text>>
        /\ pc[w] = "acquire" /\ pc[w] \notin InLogger
    BY <1>7 DEF Acquire, stable, InLogger, Storing
  <2>5. \A v \in Writers : pc[v] \notin InLogger /\ pc[v] \notin Storing
    <3>1. \A v \in Writers : pc[v] \notin InLogger
      BY <2>4 DEF LocksOK
    <3> QED BY <3>1 DEF InLogger
  <2>6. running /\ Range(text) \subseteq {w} /\ (~kept => text = <<>>)
    BY <2>4, NoLines DEF LocksOK
  <2>7. place \in InLogger
    BY DEF InLogger
  <2> QED BY <2>1, <2>2, <2>3, <2>4, <2>5, <2>6, <2>7 DEF LocksOK, Unbuilt
<1>8. ASSUME NEW w \in Writers, Build(w) PROVE LocksOK'
  <2>1. PICK place \in {"hierarchical", "dispatch"} :
            /\ place = (IF call[w].path = "log" THEN "hierarchical" ELSE "dispatch")
            /\ Goto(w, place)
    BY <1>8 DEF Build
  <2>2. place \in Places /\ place \notin Storing /\ pc[w] \in InLogger \ {"discard"} /\ pc[w] = "build"
    BY <1>8 DEF Places, InLogger, Storing, Build
  <2>3. /\ pc' \in [Writers -> Places] /\ pc'[w] = place
        /\ \A v \in Writers : v # w => pc'[v] = pc[v]
    BY <2>1, <2>2, Moved
  <2>4. /\ text \in Seq(Writers) /\ lLock = w /\ running /\ Range(text) \subseteq {w}
        /\ ~kept => text = <<>>
    BY <2>2 DEF LocksOK, Unbuilt
  <2>5. text' = Append(text, w) /\ UNCHANGED <<call, running, gLock, lLock, kept>>
    BY <1>8 DEF Build, stable
  <2>6. text' \in Seq(Writers) /\ Range(text') = {w} /\ (~kept => text' = <<w>>)
    BY <2>4, <2>5, TextOfAppend
  <2>7. \A v \in Writers : v # w => pc[v] \notin InLogger
    BY <2>4 DEF LocksOK
  <2>8. place \in InLogger /\ (call[w].path = "macro" => place = "dispatch")
    BY <2>1 DEF InLogger
  <2> QED BY <2>1, <2>2, <2>3, <2>4, <2>5, <2>6, <2>7, <2>8 DEF LocksOK, Unbuilt
<1>8a. ASSUME NEW w \in Writers, GiveUp(w) PROVE LocksOK'
  <2>1. /\ Goto(w, "idle") /\ "idle" \in Places \ InLogger /\ "idle" \notin Storing
        /\ pc[w] \in InLogger
    BY <1>8a DEF GiveUp, Places, InLogger, Storing
  <2>2. /\ pc' \in [Writers -> Places] /\ pc'[w] = "idle"
        /\ \A v \in Writers : v # w => pc'[v] = pc[v]
    BY <2>1, Moved
  <2>3. text \in Seq(Writers) /\ lLock = w /\ running /\ Range(text) \subseteq {w}
    BY <2>1, <2>2 DEF LocksOK, InLogger, Storing
  <2>4. text' = Append(text, w) /\ kept' = TRUE /\ UNCHANGED <<call, running, gLock, lLock>>
    BY <1>8a DEF GiveUp, stable
  <2>5. text' \in Seq(Writers) /\ Range(text') = {w}
    BY <2>3, <2>4, TextOfAppend
  <2>6. \A v \in Writers : v # w => pc[v] \notin InLogger
    BY <2>3 DEF LocksOK
  <2> QED BY <2>1, <2>2, <2>3, <2>4, <2>5, <2>6 DEF LocksOK
<1>9. ASSUME NEW w \in Writers, Proceed(w) PROVE LocksOK'
  <2>1. PICK place \in {"discard", "build", "dispatch"} :
            /\ Goto(w, place)
            /\ place = "build" => call[w].path = "macro"
            /\ place = "dispatch" => call[w].path # "macro"
    BY <1>9 DEF Proceed
  <2>2. pc[w] = "hierarchical" /\ pc[w] \in InLogger /\ pc[w] \in InLogger \ {"discard"}
    BY <1>9 DEF Proceed, InLogger
  <2>3. /\ Others(w, place) /\ UNCHANGED <<lLock, kept, gLock, text>>
        /\ place \notin Storing /\ place \in InLogger
    BY <1>9, <2>1, <2>2 DEF Proceed, stable, Places, InLogger, Storing
  <2>4. /\ call[w].path = "macro" \/ w \in Range(text)
        /\ ~kept => text = IF call[w].path = "macro" THEN <<>> ELSE <<w>>
    BY <2>2 DEF LocksOK, Unbuilt
  <2> QED BY <1>4, <2>1, <2>2, <2>3, <2>4
<1>10. ASSUME NEW w \in Writers, Discard(w) \/ Release(w) PROVE LocksOK'
  <2>1. /\ Goto(w, "idle") /\ "idle" \in Places \ InLogger /\ "idle" \notin Storing
        /\ ReleaseLogger /\ text' = <<>> /\ UNCHANGED <<call, running, kept>>
        /\ pc[w] \in InLogger
    BY <1>10 DEF Discard, Release, stable, Places, InLogger, Storing
  <2>2. gLock' = gLock \/ (pc[w] \in Storing /\ gLock = w)
    BY <1>10 DEF Discard, Release, LocksOK, Storing
  <2>3. /\ pc' \in [Writers -> Places] /\ pc'[w] = "idle"
        /\ \A v \in Writers : v # w => pc'[v] = pc[v]
    BY <2>1, Moved
  <2>4. lLock = w /\ kept \in BOOLEAN /\ \A v \in Writers : v # w => pc[v] \notin InLogger
    BY <2>1 DEF LocksOK
  <2>5. \A v \in Writers : pc'[v] \notin InLogger /\ pc'[v] \notin Storing
    BY <2>1, <2>3, <2>4 DEF InLogger
  <2>6. (lLock' = NoOne /\ ~kept) \/ (lLock' = w /\ kept)
    BY <2>1, <2>4 DEF ReleaseLogger
  <2>7. text' \in Seq(Writers) /\ Range(text') = {}
    BY <2>1, NoText, NoLines
  <2> QED BY <2>1, <2>3, <2>4, <2>5, <2>6, <2>7 DEF LocksOK
<1>11. ASSUME NEW w \in Writers, EnterDispatch(w) PROVE LocksOK'
  <2>1. PICK place \in {"roll", "write"} : Goto(w, place)
    BY <1>11 DEF EnterDispatch
  <2>2. /\ pc[w] = "dispatch" /\ pc[w] \in InLogger \ {"discard"} /\ place \in Places
        /\ place \in InLogger \ {"discard", "build", "hierarchical"}
    BY <1>11 DEF Places, InLogger, Storing, EnterDispatch
  <2>3. /\ pc' \in [Writers -> Places] /\ pc'[w] = place
        /\ \A v \in Writers : v # w => pc'[v] = pc[v]
    BY <2>1, <2>2, Moved
  <2>4. gLock = NoOne /\ gLock' = w /\ UNCHANGED <<call, running, lLock, kept, text>>
    BY <1>11 DEF EnterDispatch, still, inDispatch, stable
  <2>5. lLock = w /\ w \in Range(text) /\ (~kept => text = <<w>>) /\ running
    BY <2>2 DEF LocksOK, Unbuilt
  <2>6. \A v \in Writers : pc[v] \notin Storing
    BY <2>4 DEF LocksOK
  <2> QED BY <2>2, <2>3, <2>4, <2>5, <2>6 DEF LocksOK, Unbuilt
<1>12. ASSUME NEW w \in Writers, Dispatching(w), ~EnterDispatch(w), ~Release(w)
       PROVE  LocksOK'
  <2>1. PICK place \in Storing : Goto(w, place)
    BY <1>12 DEF Dispatching, Write, WriteFails, SkipWrite, Flush, FlushFails, Close, CloseFails, Backup, BackupFails,
                 Prune, PruneFails, Reopen, ReopenFails, Storing, DiskTypes
  <2>2. pc[w] \in Storing /\ UNCHANGED <<call, running, lLock, kept, gLock, text>>
    BY <1>12 DEF Dispatching, Write, WriteFails, SkipWrite, Flush, FlushFails, Close, CloseFails, Backup, BackupFails,
                 Prune, PruneFails, Reopen, ReopenFails, Storing, still, inDispatch, stable
  <2>3. /\ place \in Places /\ place \in InLogger /\ pc[w] \in InLogger \ {"discard"}
        /\ place \notin {"build", "hierarchical"} /\ pc[w] \notin {"build", "hierarchical", "idle"}
    BY <2>2 DEF Places, InLogger, Storing
  <2>4. w \in Range(text) /\ (~kept => text = <<w>>)
    BY <2>3 DEF LocksOK, Unbuilt
  <2> QED BY <1>4, <2>1, <2>2, <2>3, <2>4
<1>13. CASE UNCHANGED logVars
  BY <1>13 DEF logVars, LocksOK, Unbuilt
<1> QED BY <1>1, <1>2, <1>3, <1>5, <1>6, <1>7, <1>8, <1>8a, <1>9, <1>10, <1>11, <1>12, <1>13
        DEF LogNext, WriterStep, Dispatching, Setting, allVars

-----------------------------------------------------------------------------
(* The files.                                                              *)

\* What a sequence of lines holds after lines were added.
LEMMA LinesOfConcat ==
    ASSUME NEW s \in Seq(Nat), NEW t \in Seq(Nat)
    PROVE  s \o t \in Seq(Nat) /\ Range(s \o t) = Range(s) \cup Range(t)
<1>1. /\ s \o t \in Seq(Nat) /\ Len(s \o t) = Len(s) + Len(t)
      /\ \A i \in 1..Len(s) + Len(t) :
             (s \o t)[i] = IF i <= Len(s) THEN s[i] ELSE t[i - Len(s)]
  OBVIOUS
<1>2. ASSUME NEW x \in Range(s \o t) PROVE x \in Range(s) \cup Range(t)
  <2>1. PICK i \in 1..Len(s) + Len(t) : x = (s \o t)[i]
    BY <1>1 DEF Range
  <2>2. CASE i <= Len(s)
    <3>1. i \in DOMAIN s /\ x = s[i]
      BY <1>1, <2>1, <2>2
    <3> QED BY <3>1 DEF Range
  <2>3. CASE ~(i <= Len(s))
    <3>1. i - Len(s) \in DOMAIN t /\ x = t[i - Len(s)]
      BY <1>1, <2>1, <2>3
    <3> QED BY <3>1 DEF Range
  <2> QED BY <2>2, <2>3
<1>3. ASSUME NEW x \in Range(s) PROVE x \in Range(s \o t)
  <2>1. PICK i \in 1..Len(s) : x = s[i]
    BY DEF Range
  <2>2. i \in DOMAIN (s \o t) /\ (s \o t)[i] = x
    BY <1>1, <2>1
  <2> QED BY <2>2 DEF Range
<1>4. ASSUME NEW x \in Range(t) PROVE x \in Range(s \o t)
  <2>1. PICK i \in 1..Len(t) : x = t[i]
    BY DEF Range
  <2>2. i + Len(s) \in DOMAIN (s \o t) /\ (s \o t)[i + Len(s)] = x
    BY <1>1, <2>1
  <2> QED BY <2>2 DEF Range
<1> QED BY <1>1, <1>2, <1>3, <1>4

\* No lines are in order.
LEMMA NothingIncreasing == Increasing(<<>>)
  BY DEF Increasing

\* Both parts of an increasing sequence increase, and a larger number goes last.
LEMMA IncreasingParts ==
    ASSUME NEW s \in Seq(Nat), NEW t \in Seq(Nat), Increasing(s \o t)
    PROVE  Increasing(s) /\ Increasing(t)
<1>1. /\ Len(s \o t) = Len(s) + Len(t) /\ DOMAIN (s \o t) = 1..Len(s) + Len(t)
      /\ \A i \in 1..Len(s) : (s \o t)[i] = s[i]
      /\ \A i \in 1..Len(t) : (s \o t)[i + Len(s)] = t[i]
  OBVIOUS
<1>2. DOMAIN s = 1..Len(s) /\ DOMAIN t = 1..Len(t) /\ Len(s) \in Nat /\ Len(t) \in Nat
  OBVIOUS
<1>3. Increasing(s)
  <2> SUFFICES ASSUME NEW i \in 1..Len(s), NEW j \in 1..Len(s), i < j PROVE s[i] < s[j]
    BY <1>2 DEF Increasing
  <2>1. i \in DOMAIN (s \o t) /\ j \in DOMAIN (s \o t)
    BY <1>1, <1>2
  <2> QED BY <1>1, <2>1 DEF Increasing
<1>4. Increasing(t)
  <2> SUFFICES ASSUME NEW i \in 1..Len(t), NEW j \in 1..Len(t), i < j PROVE t[i] < t[j]
    BY <1>2 DEF Increasing
  <2>1. /\ i + Len(s) \in DOMAIN (s \o t) /\ j + Len(s) \in DOMAIN (s \o t)
        /\ i + Len(s) < j + Len(s)
    BY <1>1, <1>2
  <2> QED BY <1>1, <2>1 DEF Increasing
<1> QED BY <1>3, <1>4

LEMMA IncreasingAppend ==
    ASSUME NEW s \in Seq(Nat), NEW n \in Nat, Increasing(s), \A x \in Range(s) : x < n
    PROVE  Increasing(Append(s, n))
<1>1. /\ DOMAIN Append(s, n) = 1..(Len(s) + 1) /\ Append(s, n)[Len(s) + 1] = n
      /\ DOMAIN s = 1..Len(s) /\ Len(s) \in Nat
      /\ \A i \in 1..Len(s) : Append(s, n)[i] = s[i] /\ s[i] \in Range(s)
  BY DEF Range
<1> SUFFICES ASSUME NEW i \in 1..(Len(s) + 1), NEW j \in 1..(Len(s) + 1), i < j
             PROVE  Append(s, n)[i] < Append(s, n)[j]
  BY <1>1 DEF Increasing
<1>2. i \in 1..Len(s) /\ (j \in 1..Len(s) \/ j = Len(s) + 1)
  <2>1. PICK k \in Nat : k = Len(s)
    BY <1>1
  <2>2. i \in 1..(k + 1) /\ j \in 1..(k + 1)
    BY <2>1
  <2>3. i \in 1..k /\ (j \in 1..k \/ j = k + 1)
    BY <2>2
  <2> QED BY <2>1, <2>3
<1> QED BY <1>1, <1>2 DEF Increasing

\* No new line, at most some of the last file lost, and that only by a failure.
LEMMA NothingNew ==
    ASSUME DiskInv, UNCHANGED <<written, ms, mtime, backups, pruned, scenario>>,
           file' = file \/ file' = <<>>, pend' = pend \/ pend' = <<>>,
           faults' \in Nat, resume' \in {"write", "release"},
           Faultless' => Faultless /\ file' = file /\ pend' = pend,
           ~running' => pend' = <<>> /\ (Faultless' => file' = <<>>),
           \A w \in Writers : pc[w] = "prune" /\ Faultless' => pc'[w] = "prune"
    PROVE  DiskInv'
<1>1. file \in Seq(Nat) /\ pend \in Seq(Nat)
  BY DEF DiskInv, DiskTypes
<1>2. /\ file' \in Seq(Nat) /\ pend' \in Seq(Nat) /\ Len(file') \in Nat /\ Len(pend') \in Nat
      /\ Len(file') <= Len(file) /\ Len(pend') <= Len(pend) /\ Len(file) \in Nat /\ Len(pend) \in Nat
  <2>1. <<>> \in Seq(Nat) /\ Len(<<>>) = 0
    OBVIOUS
  <2>2. Len(file) \in Nat /\ Len(pend) \in Nat
    BY <1>1
  <2>3. file' \in Seq(Nat) /\ Len(file') \in Nat /\ Len(file') <= Len(file)
    <3>1. CASE file' = file
      BY <1>1, <2>2, <3>1
    <3>2. CASE file' = <<>>
      <4>1. Len(file') = 0
        BY <2>1, <3>2
      <4> QED BY <2>1, <2>2, <3>2, <4>1
    <3> QED BY <3>1, <3>2
  <2>4. pend' \in Seq(Nat) /\ Len(pend') \in Nat /\ Len(pend') <= Len(pend)
    <3>1. CASE pend' = pend
      BY <1>1, <2>2, <3>1
    <3>2. CASE pend' = <<>>
      <4>1. Len(pend') = 0
        BY <2>1, <3>2
      <4> QED BY <2>1, <2>2, <3>2, <4>1
    <3> QED BY <3>1, <3>2
  <2> QED BY <2>2, <2>3, <2>4
<1>3. DiskTypes'
  BY <1>2 DEF DiskInv, DiskTypes, Second, BackupFile
<1>4. InFile' \subseteq InFile /\ (Faultless' => InFile' = InFile)
  BY NoLines DEF InFile
<1>5. Increasing(file' \o pend')
  <2>1. Increasing(file \o pend) /\ Increasing(file) /\ Increasing(pend) /\ Increasing(<<>>)
    <3>1. Increasing(file \o pend)
      BY DEF DiskInv, LogInOrder
    <3>2. Increasing(<<>>)
      BY DEF Increasing
    <3> QED BY <1>1, <3>1, <3>2, IncreasingParts
  <2>2. file \o <<>> = file /\ <<>> \o pend = pend /\ <<>> \o <<>> = <<>>
    BY <1>1
  <2> QED BY <2>1, <2>2
<1>6. LogInOrder'
  BY <1>4, <1>5 DEF DiskInv, LogInOrder
<1>7. NothingLost'
  BY <1>4 DEF DiskInv, NothingLost, Lines
<1>8. SizeBounded'
  <2>1. Len(file') + Len(pend') <= Len(file) + Len(pend)
    BY <1>2
  <2> QED BY <1>2, <2>1, LimitsAssumption DEF DiskInv, SizeBounded, Size
<1>9. OldestPruned'
  BY DEF DiskInv, OldestPruned, Age
<1>10. DiskOK'
  BY <1>4 DEF DiskInv, DiskOK, Lines
<1> QED BY <1>3, <1>6, <1>7, <1>8, <1>9, <1>10 DEF DiskInv

\* A step of the storage's holder that keeps the backups and the lines.
Lasting ==
    /\ UNCHANGED <<backups, pruned, scenario, faults>> /\ running'
    /\ resume' \in {"write", "release"}
    /\ \A w \in Writers : pc[w] = "prune" => pc'[w] = "prune"

\* A line is written to the stream.
LEMMA WriteKeepsDisk ==
    ASSUME DiskInv, Lasting, UNCHANGED <<file, ms, mtime>>,
           written' = written + 1, pend' = Append(pend, written + 1),
           MaxLogFileSize # 0 => Size < MaxLogFileSize
    PROVE  DiskInv'
<1> DEFINE n == written + 1
<1>1. /\ file \in Seq(Nat) /\ pend \in Seq(Nat) /\ written \in Nat /\ n \in Nat
      /\ InFile \cup Lines(backups) \subseteq 1..written
  BY DEF DiskInv, DiskTypes, DiskOK
<1>2. /\ pend' \in Seq(Nat) /\ Len(pend') = Len(pend) + 1 /\ Len(file) \in Nat /\ Len(pend) \in Nat
      /\ Range(pend') = Range(pend) \cup {n}
  <2>1. Append(pend, n) = pend \o <<n>> /\ <<n>> \in Seq(Nat) /\ Range(<<n>>) = {n}
    BY <1>1 DEF Range
  <2>2. pend' \in Seq(Nat) /\ Len(pend') = Len(pend) + 1 /\ Len(file) \in Nat /\ Len(pend) \in Nat
    BY <1>1
  <2>3. Range(pend \o <<n>>) = Range(pend) \cup Range(<<n>>)
    BY <1>1, <2>1, LinesOfConcat
  <2>4. Range(pend') = Range(pend) \cup {n}
    BY <2>1, <2>3
  <2> QED BY <2>2, <2>4
<1>3. InFile' = InFile \cup {n} /\ Lines(backups)' = Lines(backups) /\ Lines(pruned)' = Lines(pruned)
  BY <1>2 DEF InFile, Lines, Lasting
<1>4. 1..written' = 1..written \cup {n} /\ \A x \in 1..written : x < n
  BY <1>1
<1>5. Increasing(file' \o pend')
  <2>1. file' \o pend' = Append(file \o pend, n) /\ file \o pend \in Seq(Nat)
    BY <1>1
  <2>2. Range(file \o pend) \subseteq 1..written
    BY <1>1, LinesOfConcat DEF InFile
  <2>3. Increasing(file \o pend)
    BY DEF DiskInv, LogInOrder
  <2>4. Increasing(Append(file \o pend, n))
    BY <1>1, <1>4, <2>1, <2>2, <2>3, IncreasingAppend
  <2> QED BY <2>1, <2>4
<1>6. LogInOrder'
  <2>1. \A b \in backups : \A i \in Range(b.lines) : i < n
    BY <1>1, <1>4 DEF Lines
  <2> QED BY <1>3, <1>5, <2>1 DEF DiskInv, LogInOrder, Lasting
<1>7. NothingLost'
  BY <1>3, <1>4 DEF DiskInv, NothingLost, Faultless, Lasting
<1>8. SizeBounded'
  BY <1>2, LimitsAssumption DEF SizeBounded, Size
<1>9. OldestPruned'
  BY DEF DiskInv, OldestPruned, Age, Lasting
<1>10. DiskOK'
  <2>1. InFile' \cup Lines(backups)' \subseteq 1..written'
    BY <1>1, <1>3, <1>4
  <2> QED BY <2>1 DEF DiskInv, DiskOK, Lasting, Faultless
<1>11. DiskTypes'
  BY <1>1, <1>2 DEF DiskInv, DiskTypes, Lasting, Second, BackupFile
<1> QED BY <1>6, <1>7, <1>8, <1>9, <1>10, <1>11 DEF DiskInv

\* Later seconds are no smaller.
LEMMA LaterSecond ==
    ASSUME NEW s \in Nat, NEW t \in Nat, s <= t
    PROVE  Second(t) \in Nat /\ Second(s) <= Second(t)
  BY DEF Second

\* The stream's buffer goes to the file, now or not at all.
LEMMA FlushKeepsDisk ==
    ASSUME DiskInv, Lasting, UNCHANGED written, file' = file \o pend, pend' = <<>>,
           \/ UNCHANGED <<ms, mtime>>
           \/ \E now \in ms..MaxMs : Clock(now) /\ mtime' = Second(now)
    PROVE  DiskInv'
<1>1. /\ file \in Seq(Nat) /\ pend \in Seq(Nat) /\ ms \in Nat /\ mtime \in Nat
      /\ mtime <= Second(ms)
  BY DEF DiskInv, DiskTypes
<1>2. /\ file' \in Seq(Nat) /\ pend' \in Seq(Nat) /\ file' \o pend' = file \o pend
      /\ Len(file') + Len(pend') = Len(file) + Len(pend)
      /\ InFile' = InFile
  <2>1. file' \in Seq(Nat) /\ Range(file') = Range(file) \cup Range(pend)
    BY <1>1, LinesOfConcat
  <2>2. pend' \in Seq(Nat) /\ file' \o <<>> = file' /\ Len(pend') = 0
    BY <2>1
  <2>3. Len(file') = Len(file) + Len(pend) /\ Len(file) \in Nat /\ Len(pend) \in Nat
    BY <1>1
  <2>4. Len(file') + Len(pend') = Len(file) + Len(pend)
    BY <2>2, <2>3
  <2> QED BY <2>1, <2>2, <2>4, NoLines DEF InFile
<1>3. ms' \in Nat /\ mtime' \in Nat /\ ms <= ms' /\ mtime <= mtime' /\ mtime' <= Second(ms')
  <2>1. CASE UNCHANGED <<ms, mtime>>
    BY <1>1, <2>1 DEF Second
  <2>2. CASE \E now \in ms..MaxMs : Clock(now) /\ mtime' = Second(now)
    <3>1. PICK now \in ms..MaxMs : ms' = now /\ mtime' = Second(now)
      BY <2>2 DEF Clock
    <3>2. now \in Nat /\ ms <= now
      BY <1>1, <3>1, LimitsAssumption
    <3>3. Second(now) \in Nat /\ Second(ms) <= Second(now) /\ Second(ms) \in Nat
      BY <1>1, <3>2, LaterSecond
    <3> QED BY <1>1, <3>1, <3>2, <3>3
  <2> QED BY <2>1, <2>2
<1>4. DiskTypes'
  BY <1>2, <1>3 DEF DiskInv, DiskTypes, Lasting
<1>5. \A b \in backups \cup pruned : b.name <= ms' /\ b.mtime <= mtime'
  <2> SUFFICES ASSUME NEW b \in backups \cup pruned PROVE b.name <= ms' /\ b.mtime <= mtime'
    OBVIOUS
  <2>1. b.name \in Nat /\ b.mtime \in Nat /\ b.name <= ms /\ b.mtime <= mtime
    BY DEF DiskInv, DiskTypes, DiskOK, BackupFile
  <2> QED BY <1>1, <1>3, <2>1
<1>6. DiskOK'
  BY <1>2, <1>5 DEF DiskInv, DiskOK, Lasting, Faultless, Lines
<1>7. LogInOrder' /\ NothingLost'
  BY <1>2 DEF DiskInv, LogInOrder, NothingLost, Lasting, Faultless, Lines
<1>8. SizeBounded' /\ OldestPruned'
  BY <1>2 DEF DiskInv, SizeBounded, Size, OldestPruned, Age, Lasting
<1> QED BY <1>4, <1>6, <1>7, <1>8 DEF DiskInv

\* The callback renames the file to a backup of the millisecond it sees.
LEMMA BackupKeepsDisk ==
    ASSUME DiskInv, pend = <<>>, NEW now \in ms..MaxMs, Clock(now), file' = <<>>, running',
           backups' = (backups \ {b \in backups : b.name = now})
                          \cup {[name |-> now, mtime |-> mtime, lines |-> file]},
           faults' = IF {b \in backups : b.name = now} = {} THEN faults ELSE faults + 1,
           UNCHANGED <<pend, written, mtime, pruned, scenario, resume>>,
           \E w \in Writers : pc'[w] = "prune"
    PROVE  DiskInv'
<1> DEFINE same == {b \in backups : b.name = now}
<1>1. /\ file \in Seq(Nat) /\ ms \in Nat /\ mtime \in Nat /\ mtime <= Second(ms) /\ faults \in Nat
      /\ backups \subseteq BackupFile /\ IsFiniteSet(backups) /\ pruned \subseteq BackupFile
      /\ \A b \in backups \cup pruned : b.name \in Nat /\ b.mtime \in Nat
                                        /\ b.name <= ms /\ b.mtime <= mtime
  BY DEF DiskInv, DiskTypes, DiskOK, BackupFile
<1>2. now \in Nat /\ ms <= now /\ ms' = now /\ Second(ms) <= Second(now)
      /\ Second(ms) \in Nat /\ Second(now) \in Nat
  <2>1. now \in Nat /\ ms <= now /\ ms' = now
    BY <1>1, LimitsAssumption DEF Clock
  <2> QED BY <1>1, <2>1, LaterSecond
<1>3. PICK new \in BackupFile : /\ new = [name |-> now, mtime |-> mtime, lines |-> file]
                                /\ new.name = now /\ new.mtime = mtime /\ new.lines = file
  <2> DEFINE x == [name |-> now, mtime |-> mtime, lines |-> file]
  <2>1. x \in BackupFile /\ x.name = now /\ x.mtime = mtime /\ x.lines = file
    BY <1>1, <1>2 DEF BackupFile
  <2> HIDE DEF x
  <2>2. \E new \in BackupFile : /\ new = x
                                /\ new.name = now /\ new.mtime = mtime /\ new.lines = file
    BY <2>1
  <2> QED BY <2>2 DEF x
<1>4. backups' = (backups \ same) \cup {new}
  BY <1>3
<1>5. IsFiniteSet(backups')
  <2>1. IsFiniteSet(backups \ same)
    BY <1>1, FS_Difference
  <2> QED BY <1>4, <2>1, FS_AddElement
<1>6. faults' \in Nat /\ (Faultless' => Faultless /\ same = {})
  <2>1. CASE same = {}
    BY <1>1, <2>1 DEF Faultless
  <2>2. CASE same # {}
    BY <1>1, <2>2 DEF Faultless
  <2> QED BY <2>1, <2>2
<1> HIDE DEF same
<1>7. DiskTypes'
  <2>1. <<>> \in Seq(Nat) /\ mtime <= Second(now)
    BY <1>1, <1>2
  <2>2. backups' \subseteq BackupFile
    BY <1>1, <1>3, <1>4
  <2> QED BY <1>1, <1>2, <1>5, <1>6, <2>1, <2>2 DEF DiskInv, DiskTypes
<1>8. InFile = Range(file) /\ InFile' = {}
  BY NoLines DEF InFile
<1>9. /\ Lines(backups') \subseteq Lines(backups) \cup Range(file)
      /\ same = {} => Lines(backups') = Lines(backups) \cup Range(file)
  BY <1>3, <1>4 DEF Lines
<1>10. DiskOK'
  <2>1. \A b \in backups' \cup pruned : b.name <= now /\ b.mtime <= mtime
    BY <1>1, <1>2, <1>3, <1>4
  <2>2. InFile' \cup Lines(backups') \subseteq 1..written
    BY <1>8, <1>9 DEF DiskInv, DiskOK
  <2>3. InFile' \cup Lines(backups)' \subseteq 1..written'
    BY <2>2 DEF Lines
  <2> QED BY <1>2, <2>1, <2>3 DEF DiskOK
<1>11. LogInOrder'
  <2>1. Increasing(<<>> \o <<>>) /\ Increasing(file)
    <3>1. file \o <<>> = file /\ <<>> \o <<>> = <<>>
      BY <1>1
    <3>2. Increasing(<<>>)
      BY NothingIncreasing
    <3>3. Increasing(file \o pend)
      BY DEF DiskInv, LogInOrder
    <3> QED BY <3>1, <3>2, <3>3
  <2>2. \A b \in backups : Increasing(b.lines) /\ \A i \in Range(b.lines), j \in Range(file) : i < j
    BY <1>8 DEF DiskInv, LogInOrder
  <2>3. \A b \in backups' : Increasing(b.lines)
    BY <1>3, <1>4, <2>1, <2>2
  <2>4. ASSUME NEW b \in backups', NEW c \in backups', b.name < c.name
        PROVE  \A i \in Range(b.lines), j \in Range(c.lines) : i < j
    <3>1. b # new
      BY <1>1, <1>2, <1>3, <1>4, <2>4
    <3>2. CASE c = new
      BY <1>3, <1>4, <2>2, <3>1, <3>2
    <3>3. CASE c # new
      BY <1>4, <2>4, <3>1, <3>3 DEF DiskInv, LogInOrder
    <3> QED BY <3>2, <3>3
  <2> QED BY <1>8, <2>1, <2>3, <2>4 DEF LogInOrder
<1>12. NothingLost'
  <2>1. Lines(backups)' = Lines(backups') /\ Lines(pruned)' = Lines(pruned)
    BY DEF Lines
  <2> QED BY <1>6, <1>8, <1>9, <2>1 DEF DiskInv, NothingLost
<1>13. SizeBounded'
  <2>1. Len(<<>>) = 0
    OBVIOUS
  <2> QED BY <2>1, LimitsAssumption DEF SizeBounded, Size
<1>14. OldestPruned'
  <2> SUFFICES ASSUME NEW old \in pruned, NEW b \in backups'
               PROVE  Age(old)' <= Age(b)'
    BY DEF OldestPruned
  <2>1. CASE b = new
    BY <1>1, <1>2, <1>3, <2>1 DEF Age
  <2>2. CASE b # new
    BY <1>4, <2>2 DEF DiskInv, OldestPruned, Age
  <2> QED BY <2>1, <2>2
<1> QED BY <1>7, <1>10, <1>11, <1>12, <1>13, <1>14 DEF DiskInv

\* The oldest backups are removed, so that one less than max_log_files is left.
LEMMA PruneKeepsDisk ==
    ASSUME DiskInv, NEW old \in SUBSET backups,
           Cardinality(old) = Excess(Cardinality(backups)), Oldest(old, backups \ old),
           backups' = backups \ old, pruned' = pruned \cup old, running',
           UNCHANGED <<file, pend, written, ms, mtime, faults, resume, scenario>>
    PROVE  DiskInv'
<1>1. /\ backups \subseteq BackupFile /\ IsFiniteSet(backups) /\ pruned \subseteq BackupFile
  BY DEF DiskInv, DiskTypes
<1>2. /\ IsFiniteSet(backups') /\ Cardinality(backups) \in Nat /\ Cardinality(old) \in Nat
      /\ Cardinality(backups') = Cardinality(backups) - Cardinality(old)
  <2>1. IsFiniteSet(old) /\ backups \cap old = old
    BY <1>1, FS_Subset
  <2>2. /\ IsFiniteSet(backups \ old)
        /\ Cardinality(backups \ old) = Cardinality(backups) - Cardinality(backups \cap old)
    BY <1>1, FS_Difference
  <2>3. Cardinality(backups) \in Nat /\ Cardinality(old) \in Nat
    BY <1>1, <2>1, FS_CardinalityType
  <2> QED BY <2>1, <2>2, <2>3
<1>3. MaxLogFiles # 0 => Cardinality(backups') <= MaxLogFiles - 1
  BY <1>2, LimitsAssumption DEF Excess
<1>4. DiskTypes'
  BY <1>1, <1>2 DEF DiskInv, DiskTypes, Second, BackupFile
<1>5. /\ InFile' = InFile /\ Lines(backups)' \cup Lines(pruned)' = Lines(backups) \cup Lines(pruned)
      /\ Lines(backups)' \subseteq Lines(backups)
  BY DEF InFile, Lines
<1>6. DiskOK'
  BY <1>3, <1>5 DEF DiskInv, DiskOK
<1>7. LogInOrder'
  BY <1>5 DEF DiskInv, LogInOrder
<1>8. NothingLost'
  BY <1>5 DEF DiskInv, NothingLost, Faultless
<1>9. SizeBounded'
  BY DEF DiskInv, SizeBounded, Size
<1>10. OldestPruned'
  BY DEF DiskInv, OldestPruned, Oldest, Age
<1> QED BY <1>4, <1>6, <1>7, <1>8, <1>9, <1>10 DEF DiskInv

-----------------------------------------------------------------------------
(* Every step.                                                             *)

LEMMA Goes ==
    ASSUME LocksOK, NEW w \in Writers, NEW place, Goto(w, place)
    PROVE  pc'[w] = place /\ \A v \in Writers : v # w => pc'[v] = pc[v]
  BY DEF LocksOK, Goto

LEMMA Failed == ASSUME DiskInv, Fault PROVE faults' \in Nat /\ ~Faultless'
<1>1. faults \in Nat /\ faults' = faults + 1
  BY DEF DiskInv, DiskTypes, Fault
<1> QED BY <1>1 DEF Faultless

\* A writer that is not in the dispatch relies on nothing.
LEMMA Elsewhere == ASSUME NEW v, pc'[v] \notin Storing PROVE RollingOK(v)'
  BY DEF RollingOK, Storing

fileState == <<file, pend, written, ms, mtime, backups, pruned, scenario, running, resume>>

\* Steps before the dispatch.
LEMMA BeforeDispatch ==
    ASSUME LogInv, NEW w \in Writers, NEW place, Goto(w, place), place \notin Storing,
           pc[w] \notin Storing, UNCHANGED <<fileState, stream, reopenFailed>>,
           UNCHANGED faults \/ Fault
    PROVE  DiskInv' /\ \A v \in Writers : RollingOK(v)'
<1>1. LocksOK /\ DiskInv /\ pc[w] # "prune"
  BY DEF LogInv, Storing
<1>2. pc'[w] = place /\ \A v \in Writers : v # w => pc'[v] = pc[v]
  BY <1>1, Goes
<1>3. faults' \in Nat /\ (Faultless' => Faultless) /\ resume \in {"write", "release"}
  BY <1>1, Failed DEF DiskInv, DiskTypes, Faultless
<1>4. ~running => pend = <<>> /\ (Faultless => file = <<>>)
  BY <1>1 DEF DiskInv, DiskOK
<1>5. DiskInv'
  BY <1>1, <1>2, <1>3, <1>4, NothingNew DEF fileState
<1>6. ASSUME NEW v \in Writers PROVE RollingOK(v)'
  <2>1. CASE v = w
    BY <1>2, <2>1, Elsewhere
  <2>2. CASE v # w
    <3>1. pc'[v] = pc[v] /\ RollingOK(v)
      BY <1>2, <2>2 DEF LogInv
    <3> QED BY <1>3, <3>1 DEF RollingOK, Size, fileState
  <2> QED BY <2>1, <2>2
<1> QED BY <1>5, <1>6

\* One writer at a time is in the dispatch.
LEMMA Alone ==
    ASSUME LocksOK, NEW w \in Writers, pc[w] \in Storing \/ gLock = NoOne, NEW place,
           Goto(w, place), RollingOK(w)'
    PROVE  \A v \in Writers : RollingOK(v)'
<1>1. pc'[w] = place /\ \A v \in Writers : v # w => pc'[v] = pc[v]
  BY Goes
<1>2. ASSUME NEW v \in Writers, v # w PROVE pc[v] \notin Storing
  BY <1>2, WritersAssumption DEF LocksOK
<1> QED BY <1>1, <1>2, Elsewhere

\* Steps of the dispatch that write nothing, and those that fail.
LEMMA FruitlessStep ==
    ASSUME LogInv, NEW w \in Writers, SkipWrite(w) \/ WriteFails(w) \/ FlushFails(w)
                                      \/ CloseFails(w) \/ BackupFails(w) \/ PruneFails(w)
                                      \/ ReopenFails(w) \/ Release(w)
    PROVE  DiskInv' /\ \A v \in Writers : RollingOK(v)'
<1>1. LocksOK /\ DiskInv /\ RollingOK(w) /\ resume \in {"write", "release"} /\ faults \in Nat
  BY DEF LogInv, DiskInv, DiskTypes
<1>2. PICK place : Goto(w, place)
  BY DEF SkipWrite, WriteFails, FlushFails, CloseFails, BackupFails, PruneFails, ReopenFails, Release
<1>3. pc'[w] = place /\ \A v \in Writers : v # w => pc'[v] = pc[v]
  BY <1>1, <1>2, Goes
<1>4. /\ pc[w] \in Storing
      /\ UNCHANGED <<file, written, ms, mtime, backups, pruned, scenario, running>>
      /\ resume' \in {"write", "release"}
      /\ pend' = pend \/ (CloseFails(w) /\ pend' = <<>>)
  BY <1>1 DEF SkipWrite, WriteFails, FlushFails, CloseFails, BackupFails, PruneFails, ReopenFails,
              Release, Storing, still, inDispatch, stable, files, disk, history
<1>5. UNCHANGED faults \/ Fault \/ faults' = faults + 1
  BY DEF SkipWrite, WriteFails, FlushFails, CloseFails, BackupFails, PruneFails, ReopenFails,
         Release, NoFault
<1>6. faults' \in Nat /\ (Faultless' => Faultless) /\ (CloseFails(w) => ~Faultless')
  <2>1. faults' = faults + 1 => faults' \in Nat /\ ~Faultless'
    BY <1>1, SMTT(30) DEF Faultless
  <2> QED BY <1>1, <1>5, <2>1, Failed DEF Faultless, CloseFails
<1>7. pc[w] = "prune" => ~Faultless'
  BY <1>1, Failed DEF SkipWrite, WriteFails, FlushFails, CloseFails, BackupFails, PruneFails,
                      ReopenFails, Release
<1>8. running
  BY <1>1, <1>4 DEF LocksOK, Storing
<1>9. DiskInv'
  <2>1. \A v \in Writers : pc[v] = "prune" /\ Faultless' => pc'[v] = "prune"
    BY <1>3, <1>7
  <2> QED BY <1>1, <1>4, <1>6, <1>8, <2>1, NothingNew
<1>10. RollingOK(w)'
  <2>1. CASE SkipWrite(w) \/ WriteFails(w) \/ FlushFails(w) \/ Release(w)
    <3>1. place \in {"release", "idle", "roll"}
      <4>1. Goto(w, "release") \/ Goto(w, "idle") \/ Goto(w, "roll")
        BY <2>1 DEF SkipWrite, WriteFails, FlushFails, Release
      <4> QED BY <1>1, <1>3, <4>1, Goes
    <3> QED BY <1>3, <3>1 DEF RollingOK
  <2>1a. CASE CloseFails(w)
    <3>1. Goto(w, "backup") /\ pend' = <<>>
      BY <2>1a DEF CloseFails
    <3>2. pc'[w] = "backup"
      BY <1>1, <3>1, Goes
    <3> QED BY <3>1, <3>2 DEF RollingOK
  <2>2. CASE BackupFails(w) \/ PruneFails(w)
    <3>1. Goto(w, "reopen") /\ pend = <<>> /\ ~Faultless'
      BY <1>1, <2>2, Failed DEF BackupFails, PruneFails, RollingOK
    <3>2. pc'[w] = "reopen"
      BY <1>1, <3>1, Goes
    <3> QED BY <1>4, <3>1, <3>2 DEF RollingOK
  <2>3. CASE ReopenFails(w)
    <3>1. Goto(w, resume) /\ stream' = "failed" /\ reopenFailed' = TRUE
      BY <2>3 DEF ReopenFails
    <3>2. pc'[w] \in {"write", "release"}
      BY <1>1, <3>1, Goes
    <3> QED BY <3>1, <3>2 DEF RollingOK
  <2> QED BY <2>1, <2>1a, <2>2, <2>3
<1> QED BY <1>1, <1>2, <1>4, <1>9, <1>10, Alone

\* Entering the dispatch: the file has room for a line, or is rolled first.
LEMMA EnterStep ==
    ASSUME LogInv, NEW w \in Writers, EnterDispatch(w)
    PROVE  DiskInv' /\ \A v \in Writers : RollingOK(v)'
<1>1. LocksOK /\ DiskInv /\ gLock = NoOne
  BY DEF LogInv, EnterDispatch
<1>2. PICK place \in {"roll", "write"} : Goto(w, place) /\ (place = "write" => ~MustRoll)
  BY DEF EnterDispatch
<1>3. pc'[w] = place /\ (\A v \in Writers : v # w => pc'[v] = pc[v]) /\ pc[w] # "prune"
  BY <1>1, <1>2, Goes DEF EnterDispatch
<1>4. UNCHANGED <<fileState, stream, reopenFailed, faults>>
  BY DEF EnterDispatch, still, inDispatch, stable, files, disk, history, fileState
<1>5. /\ faults \in Nat /\ resume \in {"write", "release"} /\ Size \in Nat
      /\ (~running => pend = <<>> /\ (Faultless => file = <<>>))
  <2>1. file \in Seq(Nat) /\ pend \in Seq(Nat)
    BY <1>1 DEF DiskInv, DiskTypes
  <2>2. Size \in Nat
    BY <2>1 DEF Size
  <2> QED BY <1>1, <2>2 DEF DiskInv, DiskTypes, DiskOK
<1>6. DiskInv'
  BY <1>1, <1>3, <1>4, <1>5, NothingNew DEF fileState, Faultless
<1>7. RollingOK(w)'
  <2>1. Size' = Size
    BY <1>4 DEF Size, fileState
  <2>2. CASE place = "write"
    <3>1. MaxLogFileSize # 0 => stream # "failed" /\ (stream = "open" => Size < MaxLogFileSize)
      BY <1>2, <1>5, <2>2, LimitsAssumption DEF MustRoll, TooLarge
    <3> QED BY <1>3, <1>4, <2>1, <2>2, <3>1 DEF RollingOK
  <2>3. CASE place = "roll"
    BY <1>3, <2>3 DEF RollingOK
  <2> QED BY <2>2, <2>3
<1> QED BY <1>1, <1>2, <1>6, <1>7, Alone

LEMMA WriteStep ==
    ASSUME LogInv, NEW w \in Writers, Write(w) \/ Flush(w) \/ Close(w)
    PROVE  DiskInv' /\ \A v \in Writers : RollingOK(v)'
<1>1. /\ LocksOK /\ DiskInv /\ RollingOK(w) /\ resume \in {"write", "release"}
      /\ pc[w] \in Storing /\ pc[w] # "prune"
  BY DEF LogInv, DiskInv, DiskTypes, Write, Flush, Close, Storing
<1>2. running
  BY <1>1 DEF LocksOK, Storing
<1>3. PICK place \in {"flush", "release", "roll", "backup"} :
          Goto(w, place) /\ (place = "backup" => pend' = <<>>)
  BY DEF Write, Flush, Close
<1>4. pc'[w] = place /\ \A v \in Writers : v # w => pc'[v] = pc[v]
  BY <1>1, <1>3, Goes
<1>5. Lasting
  <2>1. /\ UNCHANGED <<backups, pruned, scenario, faults, running>>
        /\ resume' \in {resume, "release"}
    BY DEF Write, Flush, Close, still, inDispatch, stable, disk, history
  <2> QED BY <1>1, <1>2, <1>4, <2>1 DEF Lasting
<1>6. DiskInv'
  <2>1. CASE Write(w)
    <3>1. /\ written' = written + 1 /\ pend' = Append(pend, written + 1)
          /\ UNCHANGED <<file, ms, mtime>>
      BY <2>1 DEF Write, still, disk
    <3>2. MaxLogFileSize # 0 => Size < MaxLogFileSize
      BY <1>1, <2>1 DEF Write, RollingOK
    <3> QED BY <1>1, <1>5, <3>1, <3>2, WriteKeepsDisk
  <2>2. CASE Flush(w) \/ Close(w)
    <3>1. /\ file' = file \o pend /\ pend' = <<>> /\ UNCHANGED written
          /\ \/ UNCHANGED <<ms, mtime>>
             \/ \E now \in ms..MaxMs : Clock(now) /\ mtime' = Second(now)
      BY <2>2 DEF Flush, Close, history
    <3> QED BY <1>1, <1>5, <3>1, FlushKeepsDisk
  <2> QED BY <2>1, <2>2
<1>7. RollingOK(w)'
  BY <1>3, <1>4 DEF RollingOK
<1> QED BY <1>1, <1>3, <1>6, <1>7, Alone

LEMMA RollStep ==
    ASSUME LogInv, NEW w \in Writers, Backup(w) \/ Prune(w) \/ Reopen(w)
    PROVE  DiskInv' /\ \A v \in Writers : RollingOK(v)'
<1>1. /\ LocksOK /\ DiskInv /\ RollingOK(w) /\ resume \in {"write", "release"} /\ faults \in Nat
      /\ pc[w] \in {"backup", "prune", "reopen"} /\ pc[w] \in Storing
  BY DEF LogInv, DiskInv, DiskTypes, Backup, Prune, Reopen, Storing
<1>2. running /\ running' = running /\ pend = <<>> /\ pend' = pend
  BY <1>1 DEF LocksOK, Storing, RollingOK, Backup, Prune, Reopen, still, inDispatch, stable
<1>3. CASE Backup(w)
  <2>1. Goto(w, "prune") /\ file' = <<>>
    BY <1>3 DEF Backup
  <2>2. pc'[w] = "prune"
    BY <1>1, <2>1, Goes
  <2>3. PICK now \in ms..MaxMs :
            /\ Clock(now)
            /\ backups' = (backups \ {b \in backups : b.name = now})
                              \cup {[name |-> now, mtime |-> mtime, lines |-> file]}
            /\ faults' = IF {b \in backups : b.name = now} = {} THEN faults ELSE faults + 1
    BY <1>3 DEF Backup
  <2>4. UNCHANGED <<pend, written, mtime, pruned, scenario, resume>>
    BY <1>3 DEF Backup, inDispatch, stable, history
  <2>5. DiskInv'
    BY <1>1, <1>2, <2>1, <2>2, <2>3, <2>4, BackupKeepsDisk
  <2>6. RollingOK(w)'
    BY <1>2, <2>1, <2>2 DEF RollingOK
  <2> QED BY <1>1, <2>1, <2>5, <2>6, Alone
<1>4. CASE Prune(w)
  <2>1. Goto(w, "reopen") /\ file = <<>>
    BY <1>1, <1>4 DEF Prune, RollingOK
  <2>2. pc'[w] = "reopen"
    BY <1>1, <2>1, Goes
  <2>3. PICK old \in SUBSET backups :
            /\ Cardinality(old) = Excess(Cardinality(backups)) /\ Oldest(old, backups \ old)
            /\ backups' = backups \ old /\ pruned' = pruned \cup old
    BY <1>4 DEF Prune
  <2>4. UNCHANGED <<file, pend, written, ms, mtime, faults, resume, scenario>>
    BY <1>4 DEF Prune, still, inDispatch, stable
  <2>5. DiskInv'
    BY <1>1, <1>2, <2>3, <2>4, PruneKeepsDisk
  <2>6. RollingOK(w)'
    BY <1>2, <2>1, <2>2, <2>4 DEF RollingOK
  <2> QED BY <1>1, <2>1, <2>5, <2>6, Alone
<1>5. CASE Reopen(w)
  <2>1. /\ Goto(w, resume) /\ file' = <<>> /\ stream' = "open" /\ pc[w] = "reopen"
        /\ UNCHANGED <<written, ms, mtime, backups, pruned, scenario, faults, resume>>
    BY <1>5 DEF Reopen, still, inDispatch, stable, history
  <2>2. pc'[w] = resume /\ \A v \in Writers : v # w => pc'[v] = pc[v]
    BY <1>1, <2>1, Goes
  <2>3. Faultless => file = <<>>
    BY <1>1, <2>1 DEF RollingOK
  <2>4. Faultless' => Faultless
    BY <2>1 DEF Faultless
  <2>5. DiskInv'
    <3>1. \A v \in Writers : pc[v] = "prune" /\ Faultless' => pc'[v] = "prune"
      BY <2>1, <2>2
    <3> QED BY <1>1, <1>2, <2>1, <2>3, <2>4, <3>1, NothingNew
  <2>6. RollingOK(w)'
    <3>1. Size' = 0
      <4>1. Len(<<>>) = 0
        OBVIOUS
      <4> QED BY <1>2, <2>1, <4>1 DEF Size
    <3>2. MaxLogFileSize # 0 => Size' < MaxLogFileSize
      BY <3>1, LimitsAssumption
    <3>3. pc'[w] \in {"write", "release"}
      BY <1>1, <2>2
    <3> QED BY <2>1, <3>2, <3>3 DEF RollingOK
  <2> QED BY <1>1, <2>1, <2>5, <2>6, Alone
<1> QED BY <1>3, <1>4, <1>5

\* Configuration, and the crash that may come before it.
LEMMA RestartStep ==
    ASSUME LogInv, LocksOK', Configure \/ ConfigureFails \/ Crash
    PROVE  DiskInv' /\ \A v \in Writers : RollingOK(v)'
<1>1. LocksOK /\ DiskInv /\ resume \in {"write", "release"} /\ faults \in Nat
  BY DEF LogInv, DiskInv, DiskTypes
<1>2. \A v \in Writers : pc'[v] = "idle"
  BY <1>1 DEF Configure, ConfigureFails, Crash, LocksOK, writerVars
<1>3. \A v \in Writers : RollingOK(v)'
  BY <1>2, Elsewhere DEF Storing
<1>4. UNCHANGED <<written, ms, mtime, backups, pruned, scenario>> /\ resume' \in {"write", "release"}
  BY <1>1 DEF Configure, ConfigureFails, Crash, history, disk
<1>5. CASE Configure
  <2>1. /\ file' = file \/ file' = <<>>
        /\ UNCHANGED <<pend, faults>> /\ running' /\ (Faultless => file = <<>>)
        /\ \A v \in Writers : pc[v] # "prune"
    BY <1>1, <1>5 DEF Configure, DiskInv, DiskOK, LocksOK
  <2> QED BY <1>1, <1>3, <1>4, <2>1, NothingNew DEF Faultless
<1>6. CASE ConfigureFails \/ Crash
  <2>1. faults' \in Nat /\ ~Faultless'
    BY <1>1, <1>6, Failed DEF ConfigureFails, Crash
  <2>2. file' = file /\ (pend' = pend \/ pend' = <<>>) /\ (~running' => pend' = <<>>)
    BY <1>6 DEF ConfigureFails, Crash, disk
  <2> QED BY <1>1, <1>3, <1>4, <2>1, <2>2, NothingNew
<1> QED BY <1>5, <1>6

LEMMA LogStep == LogInv /\ [LogNext]_allVars => LogInv'
<1> SUFFICES ASSUME LogInv, [LogNext]_allVars PROVE LogInv'
  OBVIOUS
<1>1. LocksOK'
  BY LocksStep DEF LogInv, DiskInv
<1> SUFFICES DiskInv' /\ \A v \in Writers : RollingOK(v)'
  BY <1>1 DEF LogInv
<1>2. CASE Configure \/ ConfigureFails \/ Crash
  BY <1>1, <1>2, RestartStep
<1>3. ASSUME NEW w \in Writers, Call(w) \/ WriterStep(w), ~Dispatching(w)
      PROVE  DiskInv' /\ \A v \in Writers : RollingOK(v)'
  <2>1. PICK place : Goto(w, place) /\ place \notin Storing
    BY <1>3 DEF Call, WriterStep, Enabled, FormatFails, Acquire, Build, GiveUp, Proceed, Discard, Storing
  <2>2. pc[w] \notin Storing
    BY <1>3 DEF Call, WriterStep, Enabled, FormatFails, Acquire, Build, GiveUp, Proceed, Discard, Storing
  <2>3. UNCHANGED <<fileState, stream, reopenFailed>> /\ (UNCHANGED faults \/ Fault)
    BY <1>3 DEF Call, WriterStep, Enabled, FormatFails, Acquire, Build, GiveUp, Proceed, Discard, files,
                stable, disk, history, fileState
  <2> QED BY <2>1, <2>2, <2>3, BeforeDispatch
<1>4. ASSUME NEW w \in Writers, Dispatching(w)
      PROVE  DiskInv' /\ \A v \in Writers : RollingOK(v)'
  BY <1>4, EnterStep, WriteStep, RollStep, FruitlessStep DEF Dispatching
<1>5. CASE UNCHANGED logVars
  <2>1. UNCHANGED <<fileState, stream, reopenFailed, faults, pc>>
    BY <1>5 DEF logVars, writerVars, disk, history, fileState
  <2>2. /\ LocksOK /\ DiskInv /\ faults \in Nat /\ resume \in {"write", "release"}
        /\ (~running => pend = <<>> /\ (Faultless => file = <<>>))
    BY DEF LogInv, DiskInv, DiskTypes, DiskOK
  <2>3. DiskInv'
    BY <2>1, <2>2, NothingNew DEF fileState, Faultless
  <2>4. \A v \in Writers : RollingOK(v)'
    BY <2>1 DEF LogInv, RollingOK, Size, Faultless, fileState
  <2> QED BY <2>3, <2>4
<1> QED BY <1>2, <1>3, <1>4, <1>5 DEF LogNext, Setting, allVars

LEMMA LogStart == LogInit => LogInv
<1> SUFFICES ASSUME LogInit PROVE LogInv
  OBVIOUS
<1>0. /\ file = <<>> /\ pend = <<>> /\ backups = {} /\ pruned = {} /\ written = 0 /\ ms = 0
      /\ mtime = 0 /\ faults = 0 /\ resume = "write"
  BY DEF LogInit
<1>1. LocksOK
  BY WritersAssumption, NoText DEF LogInit, LocksOK, Places, InLogger, Storing
<1>2. <<>> \in Seq(Nat) /\ Len(<<>>) = 0 /\ <<>> \o <<>> = <<>> /\ Second(0) = 0
  BY DEF Second
<1>3. IsFiniteSet({}) /\ Cardinality({}) = 0
  BY FS_EmptySet
<1>4. InFile = {} /\ Lines(backups) = {} /\ Lines(pruned) = {} /\ 1..written = {}
  BY <1>0, NoLines DEF InFile, Lines
<1>5. DiskTypes
  BY <1>0, <1>2, <1>3 DEF DiskTypes
<1>6. DiskOK
  BY <1>0, <1>3, <1>4, LimitsAssumption DEF DiskOK
<1>7. SizeBounded /\ OldestPruned
  BY <1>0, <1>2, LimitsAssumption DEF SizeBounded, Size, OldestPruned
<1>8. LogInOrder
  BY <1>0, <1>2, NothingIncreasing DEF LogInOrder
<1>9. NothingLost
  BY <1>4 DEF NothingLost
<1>10. \A w \in Writers : RollingOK(w)
  BY DEF LogInit, RollingOK
<1> QED BY <1>1, <1>5, <1>6, <1>7, <1>8, <1>9, <1>10 DEF LogInv, DiskInv

\* Locks, files and the places in dispatch() agree in every state.
THEOREM LogInvHolds == LogSpec => []LogInv
  BY LogStart, LogStep, PTL DEF LogSpec

\* Writer and Logger: for any number of writers, and whichever messages are
\* discarded, a message that is dispatched has its writer's text alone, and that
\* of this call alone unless its writer gave a call up before.
THEOREM OwnTextOnlyHolds == LogSpec => []OwnTextOnly
<1>1. ASSUME LogInv, NEW w \in Writers, pc[w] = "write"
      PROVE  Range(text) = {w} /\ (~kept => text = <<w>>)
  <2>1. pc[w] \in InLogger \ {"discard"} /\ ~Unbuilt(w)
    BY <1>1 DEF InLogger, Storing, Unbuilt
  <2> QED BY <1>1, <2>1 DEF LogInv, LocksOK
<1>2. LogInv => OwnTextOnly
  BY <1>1 DEF OwnTextOnly
<1> QED BY <1>2, LogInvHolds, PTL

\* dispatch() and unsafeValidateFileRolling(): for any limits, writers, failures
\* and crashes the lines on disk are in order and not repeated, and without a
\* failure none is missing.
THEOREM LogCompleteHolds == LogSpec => []LogComplete
<1>1. LogInv => FailedStreamReopened
  BY DEF LogInv, RollingOK, FailedStreamReopened
<1>2. LogInv => LogComplete
  BY <1>1 DEF LogInv, DiskInv, LogComplete
<1> QED BY <1>2, LogInvHolds, PTL

\* unsafeValidateFileRolling() and the callback of rtclog_configure(): the log file
\* and its backups stay within the limits, and the oldest backups go first.
THEOREM DiskBoundedHolds == LogSpec => []DiskBounded
<1>1. ASSUME LogInv PROVE DiskBounded
  <2>1. gLock = NoOne => \A w \in Writers : pc[w] # "prune"
    BY <1>1, WritersAssumption DEF LogInv, LocksOK, Storing
  <2> QED BY <1>1, <2>1 DEF LogInv, DiskInv, DiskOK, DiskBounded, BackupsBounded
<1> QED BY <1>1, LogInvHolds, PTL
=============================================================================
