--------------------------- MODULE MC_Sequential ---------------------------
(* The single-threaded components for TLC, side by side: `part' says which *)
(* one a behaviour is about, and the variables of the others stay put.     *)
EXTENDS Buffer, CircularBuffer, InetAddress, LogConfig, LogHelpers, Poller

VARIABLE part

seqVars == <<part, b, mirrorVars, pollVars, addrVars, confVars, textVars>>

SeqInit ==
    /\ part \in {"buffer", "mirror", "poller", "address", "config", "text"}
    /\ Init /\ MirrorInit /\ PollInit /\ AddrInit
    /\ IF part = "config" THEN ConfInit
       ELSE defaults = <<>> /\ loggers = <<>> /\ conf = <<>> /\ currLevel = "Unknown" /\ ops = 0
    /\ IF part = "text" THEN TextInit ELSE kind = "none" /\ text = <<>>

\* A step of part p leaves the others alone.
OthersStay(p) ==
    /\ UNCHANGED part
    /\ p # "buffer" => UNCHANGED b
    /\ p # "mirror" => UNCHANGED mirrorVars
    /\ p # "poller" => UNCHANGED pollVars
    /\ p # "address" => UNCHANGED addrVars
    /\ p # "config" => UNCHANGED confVars
    /\ p # "text" => UNCHANGED textVars

SeqNext ==
    \/ part = "buffer" /\ Next /\ OthersStay("buffer")
    \/ part = "mirror" /\ MirrorNext /\ OthersStay("mirror")
    \/ part = "poller" /\ PollNext /\ OthersStay("poller")
    \/ part = "address" /\ AddrNext /\ OthersStay("address")
    \/ part = "config" /\ ConfNext /\ OthersStay("config")
    \/ part = "text" /\ TextNext /\ OthersStay("text")

SeqSpec == SeqInit /\ [][SeqNext]_seqVars

TwoLevels == <<"Debug", "Info">>
SomeTypes == <<"Enabled", "Format", "PerformanceTracking">>

\* A file with a section whose id has one character.
SomeFiles ==
    {<<[line |-> "logger", id |-> "net", short |-> FALSE],
       [line |-> "level", level |-> "Global"],
       [line |-> "conf", type |-> "Enabled", value |-> "x"],
       [line |-> "logger", id |-> "a", short |-> TRUE],
       [line |-> "level", level |-> "Debug"],
       [line |-> "conf", type |-> "Format", value |-> "y"]>>}

SomeTokens ==
    [match      |-> {"a", "b", "?", "*", "|"},
     categories |-> {"a", ":", ",", "INFO"},
     modules    |-> {"m", ".h", "=", ",", "1"},
     line       |-> {"\"", "#", "v", "\\", " "},
     format     |-> {"%", "msg", "level", "datetime", "{", "}", "x"},
     date       |-> {"%", "d", "Y", "a", "q", "-"},
     number     |-> {0, 1, 9},
     bytes      |-> {10, 27, 65, 128, 159, 194, 195, 224, 240, 244},
     file       |-> {"/", "a", "."},
     args       |-> {<<"-v">>, <<"--v", "1">>, <<"--v", "2">>, <<"--V", "3">>,
                     <<"-vmodule", "m">>, <<"-VMODULE", "n">>},
     log        |-> {"%", "v", "x"},
     hits       |-> {"call"},
     name       |-> [word : Range(LevelNames) \cup Range(TypeNames) \cup {"milliseconds_width", "x"},
                     case : {"upper", "lower", "mixed"}],
     vmodule    |-> {<<"m", "=", "1">>, <<"m", "=", "9">>, <<"n", ".h", "=", "1">>,
                     <<"n", "=", "9">>, <<"*", "=", "1">>},
     path       |-> {"/", "a", "b"},
     time       |-> {1, 999, 1900, 3599999, 86399999}]

\* Two fields of a list of categories have seven tokens.
SomeLengths ==
    [match |-> 5, categories |-> 7, modules |-> 6, line |-> 5, format |-> 5, date |-> 5,
     number |-> 7, bytes |-> 4, file |-> 7, args |-> 4, log |-> 7, hits |-> 15,
     name |-> 1, vmodule |-> 3, path |-> 6, time |-> 4]
=============================================================================
