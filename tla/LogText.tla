------------------------------ MODULE LogText ------------------------------
(***************************************************************************)
(* The text algorithms of the vendored logging library: wildcards, the     *)
(* lists of categories and modules, configuration lines, formats, dates,   *)
(* UTF-8, file names, command line arguments and the positional arguments  *)
(* of Logger::log().  The state is one input, `text', for one algorithm,   *)
(* `kind'; each step appends a token, so that the reachable states are all *)
(* the inputs over Tokens[kind] of at most MaxTokens[kind] tokens.  Each   *)
(* invariant compares what the code computes with a reference definition.  *)
(* Positions count from 1; 0 stands for std::string::npos.                 *)
(***************************************************************************)
EXTENDS Integers, FiniteSets, SequencesExt

CONSTANTS
    Tokens,       \* for each kind of input, its tokens
    MaxTokens,    \* for each kind of input, the longest one explored
    NameLimit,    \* kSourceFilenameMaxLength, 100 in the code
    DateBuffer    \* kBuffSize, 30 in the code

VARIABLES kind, text

textVars == <<kind, text>>

TextInit == kind \in DOMAIN Tokens /\ text = <<>>

TextNext ==
    /\ Len(text) < MaxTokens[kind]
    /\ \E t \in Tokens[kind] : text' = Append(text, t)
    /\ UNCHANGED kind

-----------------------------------------------------------------------------
(* Class Str.                                                              *)

\* std::string::find(w, from - 1).
Find(s, w, from) ==
    LET at == {i \in from..(Len(s) - Len(w) + 1) : SubSeq(s, i, i + Len(w) - 1) = w}
    IN  IF at = {} THEN 0 ELSE Min(at)

\* std::string::find_last_of() of one character.
FindLast(s, c) == LET at == {i \in DOMAIN s : s[i] = c} IN IF at = {} THEN 0 ELSE Max(at)

trim(s) ==
    LET black == {i \in DOMAIN s : s[i] # " "}
    IN  IF black = {} THEN <<>> ELSE SubSeq(s, Min(black), Max(black))

RECURSIVE wildCardMatch(_, _)
wildCardMatch(str, pattern) ==
    \/ str = <<>> /\ pattern = <<>>
    \/ /\ pattern # <<>> /\ pattern[1] = "*"
       /\ \/ wildCardMatch(str, Tail(pattern))
          \/ str # <<>> /\ wildCardMatch(Tail(str), pattern)
    \/ /\ pattern # <<>> /\ pattern[1] # "*" /\ str # <<>>
       /\ pattern[1] \in {"?", str[1]}
       /\ wildCardMatch(Tail(str), Tail(pattern))

RECURSIVE replaceAll(_, _, _, _)
replaceAll(s, w, by, from) ==
    LET at == Find(s, w, from)
    IN  IF at = 0 THEN s ELSE replaceAll(ReplaceSubSeqAt(at, by, w, s), w, by, at + 1)

\* The specifier at `at' follows a '%'.
Escaped(s, at) == at > 1 /\ s[at - 1] = "%"

RECURSIVE ReplaceFirstFrom(_, _, _, _)
ReplaceFirstFrom(s, w, by, from) ==
    LET at == Find(s, w, from)
    IN  CASE at = 0         -> s
          [] Escaped(s, at) -> ReplaceFirstFrom(RemoveAt(s, at - 1), w, by, at + 2)
          [] OTHER          -> ReplaceSubSeqAt(at, by, w, s)

replaceFirstWithEscape(s, w, by) == ReplaceFirstFrom(s, w, by, 1)

-----------------------------------------------------------------------------
(* VRegistry: the lists of categories and modules.  A level's name is one  *)
(* token.                                                                  *)

LogLevelNames == {"INFO", "DEBUG"}

\* The scan of setCategories(): `reading' is isCat or isLevel.
CategoryScan == [reading |-> "cat", ss |-> <<>>, level |-> "Unknown", found |-> <<>>]

\* Mutant: the name is not cleared for the next field.
InsertCategoryBug(st) ==
    IF st.ss # <<>> /\ st.level # "Unknown"
    THEN [st EXCEPT !.found = Append(@, <<st.ss, st.level>>), !.level = "Unknown"]
    ELSE st

InsertCategory(st) ==
    IF st.ss # <<>> /\ st.level # "Unknown"
    THEN [st EXCEPT !.found = Append(@, <<st.ss, st.level>>), !.level = "Unknown",
                    !.ss = <<>>]
    ELSE st

ScanCategory(st, c) ==
    CASE c = ":" -> [st EXCEPT !.reading = "level"]
      [] c = "," -> [InsertCategory(st) EXCEPT !.reading = "cat"]
      [] c \notin {":", ","} /\ st.reading = "cat" -> [st EXCEPT !.ss = Append(@, c)]
      [] OTHER   -> [st EXCEPT !.level = IF c \in LogLevelNames THEN c ELSE "Unknown"]

setCategories(list) == InsertCategory(FoldLeft(ScanCategory, CategoryScan, list)).found

\* rtclog_set_categories(): what '+' and '-' make of the list in force.
PlusCategory(list, c) == IF list = <<>> THEN c ELSE list \o <<",">> \o c

MinusCategory(list, c) ==
    LET at == Find(list, c, 1) IN IF at = 0 THEN list ELSE ReplaceSubSeqAt(at, <<>>, c, list)

FileSuffixes == <<".h", ".c", ".cpp", ".cc", ".cxx", ".-inl.h", ".hxx", ".hpp", ".hh">>

\* Str::endsWith() of a suffix that is one token, and the name without it.
Without(name, sfx) == IF name # <<>> /\ Last(name) = sfx THEN Front(name) ELSE name

addSuffix(name, i) ==
    LET base == IF i = 1 THEN name ELSE Without(name, FileSuffixes[i - 1])
    IN  Append(Without(base, FileSuffixes[i]), FileSuffixes[i])

\* What the nine calls of addSuffix() leave in the stream, each in turn.
Suffixed(name) ==
    LET after[i \in 1..Len(FileSuffixes)] == addSuffix(IF i = 1 THEN name ELSE after[i - 1], i)
    IN  after

ModuleScan == [reading |-> "mod", ss |-> <<>>, level |-> -1, found |-> <<>>]

\* m_modules.insert() keeps the first level of a name: `found' is in order.
InsertModule(st) ==
    IF st.ss # <<>> /\ st.level # -1
    THEN [st EXCEPT !.found = @ \o [i \in DOMAIN FileSuffixes |-> <<Suffixed(st.ss)[i], st.level>>],
                    !.level = -1, !.ss = <<>>]
    ELSE st

ModuleDigits == [c \in {"1", "9"} |-> IF c = "1" THEN 1 ELSE 9]

ScanModule(st, c) ==
    CASE c = "=" -> [st EXCEPT !.reading = "level"]
      [] c = "," -> [InsertModule(st) EXCEPT !.reading = "mod"]
      [] c \notin {"=", ","} /\ st.reading = "mod" -> [st EXCEPT !.ss = Append(@, c)]
      [] OTHER   -> [st EXCEPT !.level = IF c \in DOMAIN ModuleDigits THEN ModuleDigits[c] ELSE @]

setModules(list) == InsertModule(FoldLeft(ScanModule, ModuleScan, list)).found

-----------------------------------------------------------------------------
(* Configurations::Parser: the value of the line "A=<text>", with "A" the  *)
(* name of a configuration.                                                *)

RECURSIVE ClosingQuote(_, _)
ClosingQuote(s, from) ==
    LET at == Find(s, <<"\"">>, from)
    IN  IF at > 0 /\ s[at - 1] = "\\" THEN ClosingQuote(s, at + 2) ELSE at

Comment == <<"#", "#">>

\* With quotes that never close quotesEnd is npos, and npos + 1 is 0.
ignoreComments(line) ==
    LET quotesStart == Find(line, <<"\"">>, 1)
        quotesEnd == IF quotesStart = 0 THEN 0 ELSE ClosingQuote(line, quotesStart + 1)
        foundAt == Find(line, Comment, 1)
        cutAt == IF foundAt < quotesEnd THEN Find(line, Comment, quotesEnd + 1) ELSE foundAt
    IN  IF foundAt = 0 \/ cutAt = 0 THEN line ELSE SubSeq(line, 1, cutAt - 1)

\* The loop that erases the backslash of an escaped quote.
RECURSIVE Unescape(_, _)
Unescape(s, from) ==
    LET at == Find(s, <<"\"">>, from)
    IN  IF at > 0 /\ s[at - 1] = "\\" THEN Unescape(RemoveAt(s, at - 1), at + 2)
        ELSE [value |-> s, quotesEnd |-> at]

\* substr(quotesStart + 1, quotesEnd - 1): the second argument is a length.
Unquote(value) ==
    LET quotesStart == Find(value, <<"\"">>, 1)
        u == Unescape(value, quotesStart + 1)
        last == quotesStart + u.quotesEnd - 2
    IN  IF quotesStart = 0 THEN value
        ELSE IF u.quotesEnd = 0 \/ u.quotesEnd = quotesStart + 1 THEN u.value
        ELSE SubSeq(u.value, quotesStart + 1, IF last > Len(u.value) THEN Len(u.value) ELSE last)

LineValue(line) == LET l == trim(ignoreComments(trim(line))) IN Unquote(trim(SubSeq(l, 3, Len(l))))

-----------------------------------------------------------------------------
(* LogFormat, DefaultLogBuilder and resolveFilename().  A specifier is a   *)
(* '%' and a name of several characters: one token of `text', four         *)
(* positions of the format.                                                *)

Names == {"msg", "level", "datetime"}

Specifier(n) == <<"%", n, n, n>>

Spell(s) == FlattenSeq([i \in DOMAIN s |-> IF s[i] \in Names THEN Specifier(s[i]) ELSE <<s[i]>>])

RECURSIVE conditionalAddFlag(_, _, _, _)
conditionalAddFlag(f, w, from, flag) ==
    LET at == Find(f, w, from)
    IN  CASE at = 0                    -> [format |-> f, flag |-> flag]
          [] Escaped(f, at) /\ flag    -> conditionalAddFlag(RemoveAt(f, at - 1), w, at + 2, flag)
          [] Escaped(f, at) /\ ~flag   -> conditionalAddFlag(f, w, at + 1, flag)
          [] OTHER                     -> conditionalAddFlag(f, w, at + 1, TRUE)

\* The first %datetime that is not escaped.
RECURSIVE DateIndex(_, _)
DateIndex(f, from) ==
    LET at == Find(f, Specifier("datetime"), from)
    IN  IF at > 0 /\ Escaped(f, at) THEN DateIndex(f, at + 1) ELSE at

\* Mutant: the closing brace stays in the format.
updateDateFormatBug(f, at) ==
    LET open == at + 4
        close == LET c == Find(f, <<"}">>, open) IN IF c = 0 THEN Len(f) + 1 ELSE c
    IN  IF open <= Len(f) /\ f[open] = "{"
        THEN [format |-> SubSeq(f, 1, open - 1) \o SubSeq(f, close, Len(f)),
              date |-> SubSeq(f, open + 1, close - 1)]
        ELSE [format |-> f, date |-> <<"default">>]

\* What follows a %datetime at `at': the user's date format, and the format
\* with that and its braces erased.
updateDateFormat(f, at) ==
    LET open == at + 4
        close == LET c == Find(f, <<"}">>, open) IN IF c = 0 THEN Len(f) + 1 ELSE c
    IN  IF open <= Len(f) /\ f[open] = "{"
        THEN [format |-> SubSeq(f, 1, open - 1) \o SubSeq(f, close + 1, Len(f)),
              date |-> SubSeq(f, open + 1, close - 1)]
        ELSE [format |-> f, date |-> <<"default">>]

\* parseFromFormat() and updateFormatSpec(): the level is known by then, and
\* looked for in every format.
parseFromFormat(user) ==
    LET level == conditionalAddFlag(user, Specifier("level"), 1, FALSE)
        msg == conditionalAddFlag(level.format, Specifier("msg"), 1, FALSE)
        at == DateIndex(msg.format, 1)
        dated == IF at = 0 THEN [format |-> msg.format, date |-> <<>>]
                           ELSE updateDateFormat(msg.format, at)
    IN  [format |-> replaceFirstWithEscape(dated.format, Specifier("level"), <<"L">>),
         date   |-> dated.date,
         flags  |-> {n \in Names : CASE n = "msg"      -> msg.flag
                                     [] n = "level"    -> level.flag
                                     [] n = "datetime" -> at > 0}]

\* DefaultLogBuilder::build(): the date, then the message.
buildLine(lf) ==
    LET dated == IF "datetime" \in lf.flags
                 THEN replaceFirstWithEscape(lf.format, Specifier("datetime"), <<"D">>)
                 ELSE lf.format
    IN  IF "msg" \in lf.flags THEN replaceFirstWithEscape(dated, Specifier("msg"), <<"M">>)
                              ELSE dated

\* The date goes to every %datetime of the name, escaped ones included.
resolveFilename(name) ==
    LET at == DateIndex(name, 1)
    IN  IF at = 0 THEN name
        ELSE replaceAll(updateDateFormat(name, at).format, Specifier("datetime"), <<"D">>, 1)

-----------------------------------------------------------------------------
(* DateTime: numbers and dates in a buffer of `room' characters.           *)

Least(a, b) == IF a < b THEN a ELSE b

addToBuff(buf, s, room) == buf \o SubSeq(s, 1, Least(Len(s), room - Len(buf)))

\* The digits convertAndAddToBuff() writes backwards into its local buffer.
RECURSIVE LocalDigits(_, _, _)
LocalDigits(n, len, p) ==
    IF n > 0 /\ Len(p) < 8 /\ len > 0 THEN LocalDigits(n \div 10, len - 1, <<n % 10>> \o p)
    ELSE [n |-> n, len |-> len, p |-> p]

RECURSIVE ZeroPadded(_, _)
ZeroPadded(len, p) == IF Len(p) < 8 /\ len > 0 THEN ZeroPadded(len - 1, <<0>> \o p) ELSE p

Convert(n, len) ==
    IF n > 0 THEN LET d == LocalDigits(n, len, <<>>) IN ZeroPadded(d.len, d.p)
             ELSE ZeroPadded(len - 1, <<0>>)

\* SubsecondPrecision::init().
SubsecondWidth(width) == IF width \in 1..6 THEN width ELSE 3
SubsecondOffset(width) ==
    CASE width = 4 -> 100 [] width = 5 -> 10 [] width = 6 -> 1 [] OTHER -> 1000

Digits(p) == [i \in DOMAIN p |-> ToString(p[i])]

\* The fields of the time that is formatted: 2026-07-05, a Sunday, 23:09:04.
DateField(c) ==
    CASE c = "d" -> Digits(Convert(5, 2))
      [] c = "Y" -> Digits(Convert(2026, 4))
      [] c = "y" -> Digits(Convert(2026, 2))
      [] c = "h" -> Digits(Convert(23 % 12, 2))
      [] c = "a" -> <<"S", "u", "n">>

DateFields == {"d", "Y", "y", "h", "a"}

\* An unknown field is dropped; '%' before '%' or the end is written itself.
RECURSIVE parseFormat(_, _, _)
parseFormat(buf, f, room) ==
    CASE f = <<>> -> buf
      [] f # <<>> /\ f[1] = "%" /\ Len(f) > 1 /\ f[2] # "%" ->
           parseFormat(IF f[2] \in DateFields THEN addToBuff(buf, DateField(f[2]), room) ELSE buf,
                       SubSeq(f, 3, Len(f)), room)
      [] f # <<>> /\ (f[1] # "%" \/ Len(f) = 1 \/ f[2] = "%") /\ Len(buf) = room -> buf
      [] f # <<>> /\ f[1] = "%" /\ Len(f) > 1 /\ f[2] = "%" /\ Len(buf) < room ->
           parseFormat(Append(buf, "%"), SubSeq(f, 3, Len(f)), room)
      [] OTHER -> parseFormat(Append(buf, f[1]), Tail(f), room)

\* timevalToString(): std::string(buff_) of a full buffer reads on to the next
\* NUL, wherever that is; a NUL or another character may follow.
timevalToString(f) ==
    LET buf == parseFormat(<<>>, f, DateBuffer)
    IN  IF Len(buf) < DateBuffer THEN {buf} ELSE {buf, Append(buf, "beyond")}

-----------------------------------------------------------------------------
(* sanitize(): each byte a number.  <<>> with ok = FALSE is the exception. *)

Invalid == [ok |-> FALSE, s |-> <<>>]

SanitizeChar(c) ==
    IF c \in {9, 10, 13} THEN c
    ELSE IF c < 32 \/ c = 127 \/ c \in 128..159 THEN 63 ELSE c

\* The bytes that follow a lead byte, and the bits it carries itself.
Following(b) == CASE b < 128 -> 0 [] b \in 192..223 -> 1 [] b \in 224..239 -> 2
                  [] b \in 240..247 -> 3 [] OTHER -> -1
LeadBits(b) == CASE b < 128 -> b [] b \in 192..223 -> b % 32 [] b \in 224..239 -> b % 16
                 [] OTHER -> b % 8

Continue(b) == 128 + (b % 64)

Encode(c) ==
    CASE c <= 127   -> <<c>>
      [] c \in 128..2047 -> <<192 + c \div 64, Continue(c)>>
      [] c \in 2048..65535 -> <<224 + c \div 4096, Continue(c \div 64), Continue(c)>>
      [] OTHER -> <<240 + c \div 262144, Continue(c \div 4096), Continue(c \div 64), Continue(c)>>

RECURSIVE utf8canonical(_, _)
utf8canonical(sc, s) ==
    IF s = <<>> THEN [ok |-> TRUE, s |-> sc]
    ELSE LET more == Following(s[1])
             cp == FoldLeft(LAMBDA acc, b : acc * 64 + (b % 64), LeadBits(s[1]), SubSeq(s, 2, 1 + more))
         IN  IF more = -1 \/ Len(s) <= more THEN Invalid
             ELSE IF SanitizeChar(cp) > 1114111 THEN Invalid
             ELSE utf8canonical(sc \o Encode(SanitizeChar(cp)), SubSeq(s, 2 + more, Len(s)))

sanitize(s) == utf8canonical(<<>>, s)

-----------------------------------------------------------------------------
(* Class File: the name of a source file, cut to NameLimit characters.     *)

Shorten(name) ==
    IF Len(name) < NameLimit THEN name
    ELSE LET cut == SubSeq(name, Len(name) - NameLimit + 1, Len(name))
         IN  IF cut[1] # "." /\ cut[2] # "." THEN <<".", ".">> \o SubSeq(cut, 4, Len(cut)) ELSE cut

\* A slash that comes first is not skipped: its index is 0.
BaseName(path) ==
    LET at == FindLast(path, "/") IN IF at = 1 THEN path ELSE SubSeq(path, at + 1, Len(path))

buildBaseFilename(path) == Shorten(BaseName(path))

extractPathFromFilename(path) ==
    LET at == FindLast(path, "/") IN IF at = 0 THEN path ELSE SubSeq(path, 1, at)

-----------------------------------------------------------------------------
(* CommandLineArgs and VRegistry::setFromArgs().  An argument is <<name>>  *)
(* or <<name, value>>.                                                     *)

setArgs(args) ==
    [params |-> {a[1] : a \in {b \in ToSet(args) : Len(b) = 1}},
     values |-> FoldLeft(LAMBDA m, a : IF Len(a) = 2 THEN [k \in DOMAIN m \cup {a[1]} |->
                                         IF k \in DOMAIN m THEN m[k] ELSE a[2]] ELSE m, <<>>, args)]

\* The verbose level, or with vModulesEnabled() the modules, that the arguments
\* ask for.
setFromArgs(args, vModulesEnabled) ==
    LET p == setArgs(args)
        levels == SelectSeq(<<"--v", "--V">>, LAMBDA n : n \in DOMAIN p.values)
        modules == SelectSeq(<<"-vmodule", "-VMODULE">>, LAMBDA n : n \in DOMAIN p.values)
    IN  IF p.params \cap {"-v", "--verbose", "-V", "--VERBOSE"} # {} THEN <<"level", "9">>
        ELSE IF levels # <<>> THEN <<"level", p.values[levels[1]]>>
        ELSE IF modules # <<>> /\ vModulesEnabled THEN <<"modules", p.values[modules[1]]>>
        ELSE <<"none", "">>

-----------------------------------------------------------------------------
(* Logger::log(format, values...): "%v" takes the next of `n' values.      *)

\* `out' is what the logger's stream holds; without a specifier for a value
\* the call reports too many arguments and builds no Writer.
RECURSIVE log_(_, _, _, _)
log_(out, s, i, n) ==
    CASE i > n -> [out |-> out \o s, written |-> TRUE]
      [] i <= n /\ s = <<>> -> [out |-> out, written |-> FALSE]
      [] i <= n /\ Len(s) > 1 /\ s[1] = "%" /\ s[2] = "%" ->
           log_(Append(out, "%"), SubSeq(s, 3, Len(s)), i, n)
      [] i <= n /\ Len(s) > 1 /\ s[1] = "%" /\ s[2] = "v" ->
           log_(Append(out, "V"), SubSeq(s, 3, Len(s)), i + 1, n)
      [] OTHER -> log_(Append(out, s[1]), Tail(s), i, n)

\* RegisteredHitCounters: whether each of `calls' calls of one statement logs.
MaxLogPerCounter == 6

validateHitCounts(hits, n) ==
    (IF hits >= MaxLogPerCounter THEN MaxLogPerCounter % n ELSE hits) + 1

HitCounts(calls, n) ==
    LET hits[i \in 0..calls] == IF i = 0 THEN 0 ELSE validateHitCounts(hits[i - 1], n) IN hits

validateEveryN(calls, n) == {i \in 1..calls : (HitCounts(calls, n)[i] % n) = 0}

-----------------------------------------------------------------------------
(* Properties.                                                             *)

\* The fields of a list separated by commas.
Fields(list) ==
    LET cuts == {0, Len(list) + 1} \cup {i \in DOMAIN list : list[i] = ","}
    IN  {SubSeq(list, a + 1, b - 1) : <<a, b>> \in
            {p \in cuts \X cuts : p[1] < p[2] /\ ~\E c \in cuts : p[1] < c /\ c < p[2]}}

\* wildCardMatch() agrees with the automaton of the pattern: the set of
\* prefixes of the name that each prefix of the pattern can have consumed.
WildcardIsLanguage ==
    kind = "match" /\ Cardinality({i \in DOMAIN text : text[i] = "|"}) = 1 =>
      LET bar == FindLast(text, "|")
          str == SubSeq(text, 1, bar - 1)
          pattern == SubSeq(text, bar + 1, Len(text))
          step(at, c) == {i \in 0..Len(str) :
                            \E j \in at : \/ c = "*" /\ j <= i
                                          \/ i = j + 1 /\ c \in {"?", str[i]} \ {"*"}}
      IN  wildCardMatch(str, pattern) <=> Len(str) \in FoldLeft(step, {0}, pattern)

WellFormedField(f) ==
    \/ f = <<>>
    \/ /\ Len(f) > 2 /\ f[Len(f) - 1] = ":" /\ Last(f) \in LogLevelNames
       /\ \A i \in 1..(Len(f) - 2) : f[i] # ":"

WellFormedList(list) == \A f \in Fields(list) : WellFormedField(f)

\* Each field "name:LEVEL" of a list of categories becomes one entry, whatever
\* its neighbours are: no name or level leaks from one field into the next.
CategoryFieldsIndependent ==
    kind = "categories" /\ WellFormedList(text) =>
      ToSet(setCategories(text)) =
        {<<SubSeq(f, 1, Len(f) - 2), Last(f)>> : f \in Fields(text) \ {<<>>}}

\* Taking a category away that was just added ('+c' then '-c') leaves the
\* entries the list had, if it did not hold the category's text before.
PlusThenMinus ==
    kind = "categories" /\ WellFormedList(text) =>
      \A c \in {<<"a", ":", "INFO">>, <<"*", ":", "DEBUG">>} :
        Find(text, c, 1) = 0 =>
          setCategories(MinusCategory(PlusCategory(text, c), c)) = setCategories(text)

\* A field "name=digit" of a list of modules names nine files, each the name
\* with one suffix: the suffixes do not pile up, nor do neighbouring fields.
ModulesTakeEverySuffix ==
    LET well == \A f \in Fields(text) :
                  \/ f = <<>>
                  \/ /\ Len(f) > 2 /\ f[Len(f) - 1] = "=" /\ Last(f) \in DOMAIN ModuleDigits
                     /\ \A i \in 1..(Len(f) - 2) : f[i] # "="
        stem(f) == Without(SubSeq(f, 1, Len(f) - 2), ".h")
    IN  kind = "modules" /\ well =>
          {e[1] : e \in ToSet(setModules(text))} =
            {Append(stem(f), FileSuffixes[i]) : f \in Fields(text) \ {<<>>}, i \in DOMAIN FileSuffixes}

\* A quoted value of a configuration line is what stands between the quotes,
\* even if that holds the comment sign; an unquoted one ends at the comment.
LineValueExact ==
    kind = "line" /\ ~Contains(text, "\\") =>
      LET v == trim(text)
          close == Find(v, <<"\"">>, 2)
          rest == trim(SubSeq(v, close + 1, Len(v)))
          comment == Find(v, Comment, 1)
      IN  /\ v # <<>> /\ v[1] = "\"" /\ close > 2 /\ (rest = <<>> \/ IsPrefix(Comment, rest))
             => LineValue(<<"A", "=">> \o text) = SubSeq(v, 2, close - 1)
          /\ ~Contains(v, "\"") /\ comment = 0 => LineValue(<<"A", "=">> \o text) = v
          /\ ~Contains(v, "\"") /\ comment > 0
             => LineValue(<<"A", "=">> \o text) = trim(SubSeq(v, 1, comment - 1))

\* In the tokens of a format: those preceded by '%', and the first that is not.
EscapedToken(i) == text[i] \in Names /\ i > 1 /\ text[i - 1] = "%"
Plain(n) == {i \in DOMAIN text : text[i] = n /\ ~EscapedToken(i)}
FirstPlain(n, i) == i \in Plain(n) /\ \A j \in Plain(n) : i <= j

\* The braces after the first plain %datetime: the tokens they span.
Braces ==
    LET open == {i \in DOMAIN text : text[i] = "{" /\ i > 1 /\ FirstPlain("datetime", i - 1)}
        close(i) == {j \in i..Len(text) : text[j] = "}"}
    IN  IF open = {} THEN {}
        ELSE LET i == Min(open) IN i..(IF close(i) = {} THEN Len(text) ELSE Min(close(i)))

\* Inputs for which the code's reads stay within the format, and whose date
\* format holds no other specifier.
FormatDefined ==
    /\ Plain("datetime") = {} => ~Contains(text, "datetime")
    /\ \A i \in Braces : text[i] \in {"{", "}", "x"}

\* What one token of a format becomes in the line that is logged.
Rendered(i) ==
    LET escapes(n) == i < Len(text) /\ text[i] = "%" /\ text[i + 1] = n
        drops(n) == escapes(n) /\ (n # "level" => Plain(n) # {})
    IN  CASE i \in Braces -> <<>>
          [] i \notin Braces /\ FirstPlain("msg", i)      -> <<"M">>
          [] i \notin Braces /\ FirstPlain("level", i)    -> <<"L">>
          [] i \notin Braces /\ FirstPlain("datetime", i) -> <<"D">>
          [] i \notin Braces /\ (drops("msg") \/ drops("level")) -> <<>>
          [] i \notin Braces /\ drops("datetime") /\ (\A j \in Plain("datetime") : i < j) -> <<>>
          [] OTHER -> Spell(<<text[i]>>)

\* In the logged line the first plain specifier of each kind, and only that,
\* has become its value, and escapes are gone: those of a level always, those of
\* another specifier if it has a plain one as well (for a date, further on).
\* The date format is what stands between the braces.
FormatRendered ==
    kind = "format" /\ FormatDefined =>
      LET lf == parseFromFormat(Spell(text))
      IN  /\ buildLine(lf) = FlattenSeq([i \in DOMAIN text |-> Rendered(i)])
          /\ Braces # {} => lf.date = SelectSeq(SubSeq(text, Min(Braces) + 1, Max(Braces)),
                                                LAMBDA c : c # "}")

\* No %datetime is left in the name of a log file that has a plain one.
FilenameResolved ==
    kind = "format" /\ FormatDefined /\ Plain("datetime") # {} =>
      Find(resolveFilename(Spell(text)), Specifier("datetime"), 1) = 0

\* A date that is shorter than the buffer is written as its format says, and of
\* a longer one no character before the buffer's end is lost or moved; the rest is
\* undefined.
DateWritten ==
    kind = "date" =>
      LET whole == parseFormat(<<>>, text, 8 * MaxTokens["date"])
      IN  \A s \in timevalToString(text) :
            IF Len(whole) < DateBuffer THEN s = whole ELSE IsPrefix(SubSeq(whole, 1, DateBuffer), s)

\* A number in a date shows its last `len' digits with leading zeros, and the
\* subsecond part shows the first `width' of the six digits of microseconds, or
\* with a width of 1 or 2 the last ones of the milliseconds.
NumbersPadded ==
    kind = "number" =>
      LET n == FoldLeft(LAMBDA acc, d : acc * 10 + d, 0, text)
          digits(k, w) == [i \in 1..w |-> (k \div 10^(w - i)) % 10]
      IN  /\ \A len \in 1..8 : Convert(n, len) = digits(n, len)
          /\ \A w \in 1..6 : n < 10^6 =>
               Convert(n \div SubsecondOffset(w), SubsecondWidth(w)) =
                 IF w > 2 THEN SubSeq(digits(n, 6), 1, w) ELSE SubSeq(digits(n, 6), 4 - w, 3)

\* sanitize() leaves no control character, in one byte or encoded in two, and
\* what it returns it would return again.
SanitizedIsStable ==
    kind = "bytes" /\ sanitize(text).ok =>
      LET s == sanitize(text).s
      IN  /\ \A i \in DOMAIN s : s[i] \in (32..126) \cup {9, 10, 13} \cup (128..247)
          /\ \A i \in 1..(Len(s) - 1) : ~(s[i] = 194 /\ s[i + 1] \in 128..159)
          /\ sanitize(s) = [ok |-> TRUE, s |-> s]

\* The file name of a line is the end of the path and has fewer characters than
\* the limit, or as many if the part that is left begins with a dot.
NameFits ==
    kind = "file" =>
      LET s == buildBaseFilename(text)
      IN  /\ Len(s) < NameLimit \/ (Len(s) = NameLimit /\ "." \in {s[1], s[2]})
          /\ Len(s) < NameLimit => IsSuffix(s, text) \/ IsSuffix(SubSeq(s, 3, Len(s)), text)
          /\ extractPathFromFilename(text) \o s = text \/ Len(text) >= NameLimit
             \/ FindLast(text, "/") \in {0, 1}

\* The first value of a repeated argument counts, and a level before a list of
\* modules, wherever they stand on the command line.
FirstArgumentWins ==
    LET at(n) == {i \in DOMAIN text : text[i][1] = n}
        given == {text[i][1] : i \in DOMAIN text}
        first(n) == text[Min(at(n))][2]
    IN  kind = "args" =>
          \A enabled \in BOOLEAN :
            LET r == setFromArgs(text, enabled)
            IN  /\ "-v" \in given => r = <<"level", "9">>
                /\ \A n \in given \cap {"--v", "--V"} :
                      given \cap {"-v", "--v"} \subseteq {n} => r = <<"level", first(n)>>
                /\ \A n \in given \cap {"-vmodule", "-VMODULE"} :
                      given \ {"-VMODULE"} \subseteq {n} =>
                        r = IF enabled THEN <<"modules", first(n)>> ELSE <<"none", "">>

\* A call of log() with n values is written exactly if its format has n specifiers
\* or more (a 'v' after an odd '%'), and its line then has every value; it is
\* given up otherwise, which is what module Logging calls "excess".
WrittenIfSpecified ==
    kind = "log" =>
      LET percents(i) == CHOOSE k \in 0..(i - 1) :
                           /\ \A j \in (i - k)..(i - 1) : text[j] = "%"
                           /\ k < i - 1 => text[i - k - 1] # "%"
          specifiers == {i \in DOMAIN text : text[i] = "v" /\ (percents(i) % 2) = 1}
      IN  \A n \in 0..3 :
            LET r == log_(<<>>, text, 1, n)
            IN  /\ r.written <=> Cardinality(specifiers) >= n
                /\ r.written => Cardinality({i \in DOMAIN r.out : r.out[i] = "V"}) = n

\* A statement that logs every n-th time does so across the counter's reset,
\* for every n up to the counter's limit.
EveryNthAcrossReset ==
    kind = "hits" =>
      \A n \in 1..MaxLogPerCounter :
        validateEveryN(Len(text), n) = {i \in 1..Len(text) : (i % n) = 0}
\* Everything the library reads, namely patterns, lists of categories and modules,
\* configuration lines and arguments, means what its reference definition says.
InputsParsed ==
    /\ WildcardIsLanguage /\ CategoryFieldsIndependent /\ PlusThenMinus
    /\ ModulesTakeEverySuffix /\ LineValueExact /\ FirstArgumentWins

\* Everything it writes, namely formats, file names, dates, numbers, bytes and
\* positional arguments, is what its reference definition says.
LinesRendered ==
    /\ FormatRendered /\ FilenameResolved /\ DateWritten /\ NumbersPadded
    /\ SanitizedIsStable /\ NameFits /\ WrittenIfSpecified
=============================================================================
