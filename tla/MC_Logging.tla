----------------------------- MODULE MC_Logging -----------------------------
(* Instances of Logging for TLC. *)
EXTENDS Logging

Quiet == <<Entry(Category, "Error")>>

\* A change of each kind.
SomeRequests ==
    {[op |-> "level", level |-> l] : l \in {2, 5}}
    \cup {[op |-> "levelAndList", level |-> 0, list |-> Quiet]}
    \cup {[op |-> o, list |-> Quiet] : o \in {"list", "plus", "minus", "keep"}}
    \cup {[op |-> "forget"]}

\* Changes of the categories during calls; and failures and crashes.
SomeScenarios ==
    {[paths |-> {"fmt", "macro", "log", "excess"}, threshold |-> 0, inLogDir |-> FALSE,
      calls |-> 2, sets |-> 2, faults |-> 0],
     [paths |-> {"fmt"}, threshold |-> 0, inLogDir |-> TRUE, calls |-> 4, sets |-> 0, faults |-> 1],
     [paths |-> {"log"}, threshold |-> 3, inLogDir |-> FALSE, calls |-> 4, sets |-> 0, faults |-> 1]}
=============================================================================
