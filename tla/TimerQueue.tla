----------------------------- MODULE TimerQueue -----------------------------
(***************************************************************************)
(* src/TimerQueue.cpp, Timer.cpp: timers kept in two ordered sets, driven  *)
(* by one timerfd.  The loop thread adds and cancels timers directly (from *)
(* any callback, timer callbacks included); other threads hand it functors *)
(* that do.  A Timer is identified by its address, which the allocator may *)
(* reuse, and by a sequence number, which never repeats.                   *)
(*                                                                         *)
(* Time is counted in ticks of the clock; delays and intervals are whole   *)
(* microseconds of TicksPerMicro ticks (1000 in the code).                 *)
(***************************************************************************)
EXTENDS Integers, Sequences, FiniteSets

CONSTANTS Addr,           \* addresses the allocator hands out
          Callers,        \* threads other than the loop's
          Whens,          \* first expirations asked for
          Intervals,      \* intervals asked for, in microseconds; 0: one shot
          TicksPerMicro,  \* clock ticks per microsecond
          MinDelay,       \* shortest delay given to the timerfd: 100 us
          Paths,          \* queueInLoop()'s two queues: "ring", "fallback"
          MaxTimers,      \* bound: timers ever created
          MaxTime,        \* bound: the clock stops here
          None            \* no timer, no expiration

ASSUME TimeAssumption ==
    /\ Addr \subseteq Nat
    /\ TicksPerMicro \in Nat \ {0} /\ MinDelay \in Nat \ {0}
    /\ Whens \subseteq Nat \ {0} /\ Intervals \subseteq Nat
    /\ MaxTimers \in Nat /\ MaxTime \in Nat
ASSUME PathsAssumption == Paths \subseteq {"ring", "fallback"}

VARIABLES
    now,         \* steady_clock
    heap,        \* the Timer at each address, or None
    created,     \* s_numCreated_
    timers,      \* timers_: pairs <<expiration, address>>
    active,      \* activeTimers_: pairs <<address, sequence>>
    calling,     \* callingExpiredTimers_
    canceling,   \* cancelingTimers_
    expired,     \* handleRead()'s vector of expired entries
    toRun,       \* those of them whose callback has not been called yet
    readAt,      \* handleRead()'s local now
    fdAt,        \* when the armed timerfd expires, or None
    fdReadable,  \* the timerfd has expired and was not read
    fdActive,    \* the timerfd's channel is in activeChannels_
    pending,     \* functors queued for the loop thread
    callerPc,    \* each caller's place in addTimer()
    callerTimer, \* the Timer each caller has allocated
    ids,         \* TimerIds returned so far
    cancelled,   \* history: TimerIds cancelInLoop() has been called with
    stopped,     \* history: those of them it knew as a timer, due or being run
    origin,      \* history: first expiration of every timer
    handled      \* history: readAt of the last run of every timer

fdVars == <<fdAt, fdReadable>>
setVars == <<timers, active>>
batchVars == <<calling, canceling, expired, toRun, readAt>>
callerVars == <<callerPc, callerTimer>>
historyVars == <<origin, handled>>
cancelVars == <<cancelled, stopped>>
vars == <<now, heap, created, setVars, batchVars, fdVars, fdActive, pending,
          callerVars, ids, cancelVars, historyVars>>

Seqs == 1..MaxTimers
Timer == [seq : Seqs, exp : Nat, interval : Intervals]
TimerIds == Addr \X Nat

ASSUME NoneAssumption ==
    None \notin Int /\ None \notin Addr /\ None \notin Timer /\ None \notin TimerIds

Init ==
    /\ now = 0
    /\ heap = [a \in Addr |-> None]
    /\ created = 0
    /\ timers = {} /\ active = {}
    /\ calling = FALSE /\ canceling = {}
    /\ expired = {} /\ toRun = {} /\ readAt = 0
    /\ fdAt = None /\ fdReadable = FALSE /\ fdActive = FALSE
    /\ pending = <<>>
    /\ callerPc = [c \in Callers |-> "idle"]
    /\ callerTimer = [c \in Callers |-> None]
    /\ ids = {} /\ cancelled = {} /\ stopped = {}
    /\ origin = [s \in Seqs |-> None]
    /\ handled = [s \in Seqs |-> None]

-----------------------------------------------------------------------------
(* Helpers of the code.                                                    *)

MaxOf(x, y) == IF x >= y THEN x ELSE y

\* timers_.begin(): earliest expiration, then lowest address.
Begin(set) ==
    CHOOSE e \in set : \A d \in set : e[1] < d[1] \/ (e[1] = d[1] /\ e[2] <= d[2])

\* Mutant: no minimum delay; a delay of zero disarms the timerfd.
resetTimerfdBug(when) ==
    /\ fdAt' = IF when - now < TicksPerMicro THEN None
               ELSE now + TicksPerMicro * ((when - now) \div TicksPerMicro)
    /\ fdReadable' = FALSE

\* howMuchTimeFromNow() and timerfd_settime(): the delay is truncated to
\* microseconds, and setting the timerfd forgets an expiration not yet read.
resetTimerfd(when) ==
    /\ fdAt' = now + TicksPerMicro * MaxOf(MinDelay, (when - now) \div TicksPerMicro)
    /\ fdReadable' = FALSE

disarmTimerfd ==
    /\ fdAt' = None
    /\ fdReadable' = FALSE

\* Mutant: only the whole intervals missed are skipped.
RestartedBug(timer, t) ==
    LET period == TicksPerMicro * timer.interval
        next == timer.exp + period
        overdue == (t - next) \div TicksPerMicro
    IN  [timer EXCEPT !.exp =
            IF next > t THEN next ELSE next + period * (overdue \div timer.interval)]

\* Timer::restart() of a repeating timer: the next expiration after t.
Restarted(timer, t) ==
    LET period == TicksPerMicro * timer.interval
        next == timer.exp + period
        overdue == (t - next) \div TicksPerMicro
    IN  [timer EXCEPT !.exp =
            IF next > t THEN next
            ELSE next + period * (overdue \div timer.interval + 1)]

\* new Timer(...) at any free address.
NewTimer(a, when) ==
    /\ heap[a] = None
    /\ created < MaxTimers
    /\ created' = created + 1
    /\ origin' = [origin EXCEPT ![created + 1] = when]

TimerOf(when, interval) == [seq |-> created + 1, exp |-> when, interval |-> interval]

insert(a, timer) ==
    /\ timers' = timers \cup {<<timer.exp, a>>}
    /\ active' = active \cup {<<a, timer.seq>>}

\* The timerfd is set if the new timer is the earliest.
addTimerInLoop(a, timer) ==
    /\ insert(a, timer)
    /\ IF timers = {} \/ timer.exp < Begin(timers)[1]
       THEN resetTimerfd(timer.exp)
       ELSE UNCHANGED fdVars

\* The timers handleRead() has taken out of both sets.
Running == {<<e[2], heap[e[2]].seq>> : e \in expired}

\* Mutant: any timer at the address.
FindActiveBug(id) == {t \in active : t[1] = id[1]}

\* activeTimers_.find()
FindActive(id) == active \cap {id}

cancelInLoop(id) ==
    /\ cancelled' = cancelled \cup {id}
    /\ stopped' = IF id \in active \cup Running THEN stopped \cup {id} ELSE stopped
    /\ IF FindActive(id) # {}
       THEN LET entry == <<heap[id[1]].exp, id[1]>>
                rest == timers \ {entry}
            IN  /\ timers' = rest
                /\ active' = active \ FindActive(id)
                /\ heap' = [heap EXCEPT ![id[1]] = None]
                /\ IF Begin(timers) # entry THEN UNCHANGED fdVars
                   ELSE IF rest # {} THEN resetTimerfd(Begin(rest)[1])
                   ELSE disarmTimerfd
                /\ UNCHANGED canceling
       ELSE /\ canceling' = IF calling THEN canceling \cup {id} ELSE canceling
            /\ UNCHANGED <<setVars, heap, fdVars>>

-----------------------------------------------------------------------------
(* The clock and the kernel's timerfd.                                     *)

Tick ==
    /\ now < MaxTime
    /\ now' = now + 1
    /\ UNCHANGED <<heap, created, setVars, batchVars, fdVars, fdActive, pending,
                   callerVars, ids, cancelVars, historyVars>>

\* The armed timerfd expires.  (At the end of the bounded clock whatever is
\* armed expires, so that the clock's bound strands no timer.)
FdExpires ==
    /\ fdAt # None
    /\ now >= fdAt \/ now = MaxTime
    /\ fdAt' = None
    /\ fdReadable' = TRUE
    /\ UNCHANGED <<now, heap, created, setVars, batchVars, fdActive, pending,
                   callerVars, ids, cancelVars, historyVars>>

-----------------------------------------------------------------------------
(* Other threads: addTimer() and cancel().                                 *)

\* new Timer
CallerNew(c, a, when, interval) ==
    /\ callerPc[c] = "idle"
    /\ NewTimer(a, when)
    /\ heap' = [heap EXCEPT ![a] = TimerOf(when, interval)]
    /\ callerPc' = [callerPc EXCEPT ![c] = "queue"]
    /\ callerTimer' = [callerTimer EXCEPT ![c] = <<a, created + 1>>]
    /\ UNCHANGED <<now, setVars, batchVars, fdVars, fdActive, pending, ids,
                   cancelVars, handled>>

\* runInLoop(addTimerInLoop), down whichever path queueInLoop() takes.
CallerQueue(c, path) ==
    /\ callerPc[c] = "queue"
    /\ callerPc' = [callerPc EXCEPT ![c] = "read"]
    /\ pending' = Append(pending, [op |-> "add", id |-> callerTimer[c], path |-> path])
    /\ UNCHANGED <<now, heap, created, setVars, batchVars, fdVars, fdActive,
                   callerTimer, ids, cancelVars, historyVars>>

\* return TimerId(timer, timer->sequence()): the sequence number is read from
\* the Timer.  If the Timer is gone by now, whatever is in its memory is read.
CallerRead(c) ==
    LET a == callerTimer[c][1] IN
    /\ callerPc[c] = "read"
    /\ \E s \in IF heap[a] = None THEN 0..MaxTimers ELSE {heap[a].seq} :
           ids' = ids \cup {<<a, s>>}
    /\ callerPc' = [callerPc EXCEPT ![c] = "idle"]
    /\ callerTimer' = [callerTimer EXCEPT ![c] = None]
    /\ UNCHANGED <<now, heap, created, setVars, batchVars, fdVars, fdActive,
                   pending, cancelVars, historyVars>>

CallerCancel(c, id, path) ==
    /\ callerPc[c] = "idle"
    /\ id \notin cancelled
    /\ \A i \in DOMAIN pending : pending[i].op = "cancel" => pending[i].id # id
    /\ pending' = Append(pending, [op |-> "cancel", id |-> id, path |-> path])
    /\ UNCHANGED <<now, heap, created, setVars, batchVars, fdVars, fdActive,
                   callerVars, ids, cancelVars, historyVars>>

-----------------------------------------------------------------------------
(* The loop thread.                                                        *)

\* User callbacks run outside handleRead() or from inside an expired timer.
InUserCode == ~calling \/ toRun # expired

\* addTimer() on the loop thread.
LoopAdd(a, when, interval) ==
    /\ InUserCode
    /\ NewTimer(a, when)
    /\ heap' = [heap EXCEPT ![a] = TimerOf(when, interval)]
    /\ addTimerInLoop(a, TimerOf(when, interval))
    /\ ids' = ids \cup {<<a, created + 1>>}
    /\ UNCHANGED <<now, batchVars, fdActive, pending, callerVars, cancelVars, handled>>

\* cancel() on the loop thread.
LoopCancel(id) ==
    /\ InUserCode
    /\ id \notin cancelled
    /\ cancelInLoop(id)
    /\ UNCHANGED <<now, created, calling, expired, toRun, readAt, fdActive, pending,
                   callerVars, ids, historyVars>>

\* doPendingFunctors(), once the active channels are done: each of the two
\* queues is first in, first out.  The fallback queue may overtake the ring,
\* whose head another thread may not have committed yet.
NextOnPath(i) == \A j \in 1..(i - 1) : pending[j].path # pending[i].path

Dequeue(i) == pending' = SubSeq(pending, 1, i - 1) \o SubSeq(pending, i + 1, Len(pending))

RunAdd(i) ==
    /\ ~calling /\ ~fdActive /\ NextOnPath(i) /\ pending[i].op = "add"
    /\ Dequeue(i)
    /\ addTimerInLoop(pending[i].id[1], heap[pending[i].id[1]])
    /\ UNCHANGED <<now, heap, created, batchVars, fdActive, callerVars, ids,
                   cancelVars, historyVars>>

RunCancel(i) ==
    /\ ~calling /\ ~fdActive /\ NextOnPath(i) /\ pending[i].op = "cancel"
    /\ Dequeue(i)
    /\ cancelInLoop(pending[i].id)
    /\ UNCHANGED <<now, created, calling, expired, toRun, readAt, fdActive,
                   callerVars, ids, historyVars>>

\* epoll_wait() reports the timerfd.
PollTimer ==
    /\ ~calling /\ fdReadable /\ ~fdActive
    /\ fdActive' = TRUE
    /\ UNCHANGED <<now, heap, created, setVars, batchVars, fdVars, pending,
                   callerVars, ids, cancelVars, historyVars>>

\* Mutant: expired timers stay in activeTimers_.
HandleReadBug ==
    LET due == {e \in timers : e[1] <= now} IN
    /\ ~calling /\ fdActive
    /\ fdActive' = FALSE
    /\ fdReadable' = FALSE
    /\ timers' = timers \ due
    /\ calling' = TRUE
    /\ canceling' = {}
    /\ expired' = due /\ toRun' = due /\ readAt' = now
    /\ UNCHANGED <<now, heap, created, active, fdAt, pending, callerVars, ids,
                   cancelVars, historyVars>>

\* handleRead() up to the first callback.  A callback that ran since
\* epoll_wait() may have reset the timerfd: then the read finds nothing.  An
\* expiration between taking now and the read is lost, as it is when it comes
\* during the callbacks: reset() sets the timerfd again in both cases.
HandleRead ==
    LET due == {e \in timers : e[1] <= now} IN
    /\ ~calling /\ fdActive
    /\ fdActive' = FALSE
    /\ fdReadable' = FALSE
    /\ timers' = timers \ due
    /\ active' = active \ {<<e[2], heap[e[2]].seq>> : e \in due}
    /\ calling' = TRUE
    /\ canceling' = {}
    /\ expired' = due /\ toRun' = due /\ readAt' = now
    /\ UNCHANGED <<now, heap, created, fdAt, pending, callerVars, ids, cancelVars,
                   historyVars>>

\* entry.second->run() of the next expired timer; the callback then lasts until
\* the next RunTimer or Reset.
RunTimer ==
    /\ calling /\ toRun # {}
    /\ LET e == Begin(toRun) IN
           /\ toRun' = toRun \ {e}
           /\ handled' = [handled EXCEPT ![heap[e[2]].seq] = readAt]
    /\ UNCHANGED <<now, heap, created, setVars, calling, canceling, expired, readAt,
                   fdVars, fdActive, pending, callerVars, ids, cancelVars, origin>>

\* Mutant: cancelingTimers_ is not consulted.
KeptBug == {e \in expired : heap[e[2]].interval > 0}

\* reset(): repeating timers that were not cancelled start again, the others
\* are deleted, and the timerfd is set for the earliest timer.
Kept == {e \in expired : /\ heap[e[2]].interval > 0
                         /\ <<e[2], heap[e[2]].seq>> \notin canceling}

Reset ==
    LET again == {e[2] : e \in Kept}
        gone == {e[2] : e \in expired} \ again
        next(a) == Restarted(heap[a], readAt)
    IN
    /\ calling /\ toRun = {}
    /\ calling' = FALSE
    /\ heap' = [a \in Addr |-> IF a \in again THEN next(a)
                               ELSE IF a \in gone THEN None ELSE heap[a]]
    /\ timers' = timers \cup {<<next(a).exp, a>> : a \in again}
    /\ active' = active \cup {<<a, heap[a].seq>> : a \in again}
    /\ IF timers' # {} THEN resetTimerfd(Begin(timers')[1]) ELSE UNCHANGED fdVars
    /\ expired' = {} /\ readAt' = 0
    /\ UNCHANGED <<now, created, canceling, toRun, fdActive, pending, callerVars, ids,
                   cancelVars, historyVars>>

-----------------------------------------------------------------------------
CallerStep(c) ==
    \/ CallerRead(c)
    \/ \E path \in Paths : CallerQueue(c, path)

LoopStep ==
    \/ PollTimer \/ HandleRead \/ RunTimer \/ Reset
    \/ \E i \in DOMAIN pending : RunAdd(i) \/ RunCancel(i)

User ==
    \/ \E a \in Addr, when \in Whens, interval \in Intervals :
           LoopAdd(a, when, interval) \/ \E c \in Callers : CallerNew(c, a, when, interval)
    \/ \E id \in ids :
           LoopCancel(id) \/ \E c \in Callers, path \in Paths : CallerCancel(c, id, path)

Next == Tick \/ FdExpires \/ LoopStep \/ User \/ \E c \in Callers : CallerStep(c)

\* The clock runs, the kernel delivers, the loop thread keeps looping and a
\* thread inside addTimer() gets out of it.  No one has to call anything.
Fairness ==
    /\ WF_vars(Tick) /\ WF_vars(FdExpires)
    /\ WF_vars(PollTimer) /\ WF_vars(HandleRead) /\ WF_vars(RunTimer) /\ WF_vars(Reset)
    /\ \A c \in Callers : WF_vars(CallerStep(c))

Spec == Init /\ [][Next]_vars
FairSpec == Spec /\ Fairness

-----------------------------------------------------------------------------
(* Properties.                                                             *)

TypeOK ==
    /\ now \in Nat
    /\ heap \in [Addr -> Timer \cup {None}]
    /\ created \in 0..MaxTimers
    /\ timers \subseteq Nat \X Addr
    /\ active \subseteq TimerIds
    /\ calling \in BOOLEAN
    /\ canceling \subseteq TimerIds
    /\ expired \subseteq Nat \X Addr
    /\ toRun \subseteq expired
    /\ readAt \in Nat
    /\ fdAt \in Nat \cup {None}
    /\ fdReadable \in BOOLEAN /\ fdActive \in BOOLEAN
    /\ pending \in Seq([op : {"add", "cancel"}, id : TimerIds, path : Paths])
    /\ callerPc \in [Callers -> {"idle", "queue", "read"}]
    /\ callerTimer \in [Callers -> TimerIds \cup {None}]
    /\ ids \subseteq TimerIds
    /\ cancelled \subseteq TimerIds /\ stopped \subseteq cancelled
    /\ origin \in [Seqs -> Nat \cup {None}]
    /\ handled \in [Seqs -> Nat \cup {None}]

Listed ==
    /\ \A e \in timers \cup expired : heap[e[2]] # None /\ heap[e[2]].exp = e[1]
    /\ active = {<<e[2], heap[e[2]].seq>> : e \in timers}
    /\ \A e \in timers, d \in expired : e[2] # d[2]

\* The assertions of insert(), getExpired() and cancelInLoop(): timers_ and
\* activeTimers_ list the same timers, each under its current expiration and
\* sequence number; and no timer either set or the expired vector still refers
\* to has been deleted.  All of it is well typed.
SetsAgree == TypeOK /\ Listed

\* Outside handleRead() the timerfd looks after the earliest timer: it has
\* expired, or it is set to expire by then or within the minimum delay.
\* Adding, cancelling the earliest timer, and expiring a microsecond early
\* must all leave it so.
TimerfdCovers ==
    ~calling /\ timers # {} =>
        \/ fdReadable
        \/ /\ fdAt # None
           /\ fdAt <= MaxOf(Begin(timers)[1], now + TicksPerMicro * MinDelay)

\* A repeating timer that has run is next due at the first multiple of its
\* interval after the time handleRead() saw: never at or before it, never a
\* period late, and never off its original phase, however overdue it was.
PeriodKept ==
    \A e \in timers :
        LET timer == heap[e[2]]
            period == TicksPerMicro * timer.interval
            last == handled[timer.seq]
        IN  last # None =>
                /\ timer.interval > 0
                /\ last < timer.exp /\ timer.exp <= last + period
                /\ (timer.exp - origin[timer.seq]) % period = 0

\* The timerfd and the repeating timers are set to the right times, after any
\* sequence of addTimer(), cancel() and handleRead().
ScheduleKept == TimerfdCovers /\ PeriodKept

\* A timer cancelInLoop() knew of, waiting or among the expired timers being
\* called, is never due again: reset() does not restart it.
CancelSticks == active \cap stopped = {}

\* What a caller of cancel() may expect: a timer cancelInLoop() has been called
\* for is not due.
CancelledNotDue == active \cap cancelled = {}

\* A stale TimerId is harmless: a timer leaves activeTimers_ only by expiring
\* or by a cancel() of its own sequence number, whoever uses its address now.
LeavesOnlyByOwnId ==
    [][\A id \in active \ active' :
           id \in cancelled' \/ (calling' /\ heap[id[1]].exp <= now)]_vars

\* addTimer() from another thread: the Timer whose sequence number it reads is
\* still the one it allocated.
SequenceReadLive ==
    \A c \in Callers : callerPc[c] = "read" =>
        LET id == callerTimer[c] IN heap[id[1]] # None /\ heap[id[1]].seq = id[2]

\* A timer that is due within the clock's bound expires or is cancelled.
DueTimerExpires ==
    \A a \in Addr, s \in Seqs :
        (<<a, s>> \in active /\ heap[a].exp <= MaxTime) ~>
            ~(<<a, s>> \in active /\ heap[a].exp <= MaxTime)

-----------------------------------------------------------------------------
(* The inductive invariant behind the safety properties.                   *)

\* A Timer on its way to the loop thread: allocated, in neither set, and nobody
\* has cancelled it yet.
OnItsWay(id) ==
    /\ heap[id[1]] # None /\ heap[id[1]].seq = id[2]
    /\ id \notin stopped
    /\ \A e \in timers \cup expired : e[2] # id[1]

Queueing == {c \in Callers : callerPc[c] = "queue"}
Adds == {i \in DOMAIN pending : pending[i].op = "add"}

\* Each address on its way is owned by one caller or one functor.
OwnersOK ==
    /\ \A c \in Callers : callerPc[c] # "idle" => callerTimer[c] # None
    /\ \A c \in Queueing : OnItsWay(callerTimer[c])
    /\ \A i \in Adds : OnItsWay(pending[i].id)
    /\ \A c, d \in Queueing : callerTimer[c][1] = callerTimer[d][1] => c = d
    /\ \A i, j \in Adds : pending[i].id[1] = pending[j].id[1] => i = j
    /\ \A c \in Queueing, i \in Adds : callerTimer[c][1] # pending[i].id[1]

\* Sequence numbers in use were given out; a timer that was cancelled among the
\* expired ones is in cancelingTimers_ until reset() has looked.
StoppedOK ==
    /\ \A a \in Addr : heap[a] # None => heap[a].seq <= created
    /\ \A id \in stopped : id[2] <= created
    /\ CancelSticks
    /\ Running \cap stopped \subseteq canceling

IndInv == SetsAgree /\ OwnersOK /\ StoppedOK /\ (~calling => expired = {})

\* What the schedule of the Timer at an address rests on: a sequence number of
\* its own, an expiration in phase, and, once it has run, a next expiration
\* within a period of that run, unless it is about to be restarted or deleted.
InPhase(timer) ==
    /\ origin[timer.seq] # None
    /\ timer.interval > 0 =>
           (timer.exp - origin[timer.seq]) % (TicksPerMicro * timer.interval) = 0

WithinPeriod(timer, last) ==
    /\ timer.interval > 0
    /\ last < timer.exp /\ timer.exp <= last + TicksPerMicro * timer.interval

Scheduled(a) ==
    /\ InPhase(heap[a])
    /\ \A b \in Addr : heap[b] # None /\ heap[b].seq = heap[a].seq => b = a
    /\ handled[heap[a].seq] # None =>
           \/ \E e \in expired : e[2] = a
           \/ WithinPeriod(heap[a], handled[heap[a].seq])

\* The timers being called were due when handleRead() looked, and those already
\* called are recorded as handled then.
BatchOK ==
    /\ \A s \in Seqs : handled[s] # None => s <= created
    /\ \A e \in expired :
           /\ e[1] <= readAt
           /\ e \notin toRun => handled[heap[e[2]].seq] = readAt

AllScheduled == \A a \in Addr : heap[a] # None => Scheduled(a)

ScheduleInv == TimerfdCovers /\ BatchOK /\ AllScheduled
=============================================================================
