----------------------------- MODULE EventLoop -----------------------------
(***************************************************************************)
(* src/EventLoop.cpp: the loop thread, the threads that hand it functors,  *)
(* the eventfd that wakes it, and quit().  The lock-free ring is the one   *)
(* FunctorRing.tla specifies; pendingFunctors_ is the mutex-protected      *)
(* vector used when the ring is missing or refuses a node.                 *)
(*                                                                         *)
(* Channel callbacks, timer callbacks and functor bodies are user code on  *)
(* the loop thread: while one runs it may queue functors and may quit.     *)
(***************************************************************************)
EXTENDS Naturals, Sequences, FiniteSets

CONSTANTS Callers,     \* threads other than the loop's that use the loop
          Functors,    \* functors that are ever queued
          Recurring,   \* those whose body queues a copy of itself
          Capacity,    \* nodes in the ring: 1024 in the code
          None         \* no functor

ASSUME RecurringAssumption == Recurring \subseteq Functors
ASSUME CapacityAssumption == Capacity \in Nat \ {0}
ASSUME NoneAssumption == None \notin Functors

VARIABLES
    ringValid,     \* pendingQueue_->isValid(): the buffer could be mapped
    ring,          \* pendingQueue_
    fallback,      \* pendingFunctors_
    batch,         \* doPendingFunctors()'s local copy of pendingFunctors_
    wakeReadable,  \* the eventfd's counter is not zero
    wakeActive,    \* the wakeup channel is in activeChannels_, not yet handled
    quit,          \* quit_
    calling,       \* callingPendingFunctors_
    loopPc,        \* the loop thread's place in loop()
    owes,          \* the running functor has yet to queue its copy
    callerPc,      \* each caller's place in queueInLoop() or quit()
    callerFn,      \* the functor each caller is queueing
    issued,        \* functors handed to queueInLoop() so far
    done,          \* functors that have run to their end
    primed         \* history: the owner queued a functor before loop() and
                   \* no doPendingFunctors() has begun since

queueVars == <<ring, fallback>>
callerVars == <<callerPc, callerFn>>
vars == <<ringValid, queueVars, batch, wakeReadable, wakeActive, quit, calling,
          loopPc, owes, callerVars, issued, done, primed>>

Ring == INSTANCE FunctorRing WITH Items <- Functors

Init ==
    /\ ringValid \in BOOLEAN
    /\ Ring!Init
    /\ fallback = <<>>
    /\ batch = <<>>
    /\ wakeReadable = FALSE
    /\ wakeActive = FALSE
    /\ quit = FALSE
    /\ calling = FALSE
    /\ loopPc = "start"
    /\ owes = FALSE
    /\ callerPc = [c \in Callers |-> "idle"]
    /\ callerFn = [c \in Callers |-> None]
    /\ issued = {}
    /\ done = {}
    /\ primed = FALSE

-----------------------------------------------------------------------------
(* Other threads: queueInLoop(), runInLoop() (which queues when called off  *)
(* the loop thread) and quit().                                            *)

CallerGoto(c, from, to) ==
    /\ callerPc[c] = from
    /\ callerPc' = [callerPc EXCEPT ![c] = to]

Call(c, f) ==
    /\ f \notin issued
    /\ CallerGoto(c, "idle", "reserve")
    /\ callerFn' = [callerFn EXCEPT ![c] = f]
    /\ issued' = issued \cup {f}
    /\ UNCHANGED <<ringValid, queueVars, batch, wakeReadable, wakeActive, quit,
                   calling, loopPc, owes, done, primed>>

ReserveNode(c) ==
    /\ ringValid
    /\ CallerGoto(c, "reserve", "commit")
    /\ Ring!Reserve(callerFn[c])
    /\ UNCHANGED <<ringValid, fallback, batch, wakeReadable, wakeActive, quit,
                   calling, loopPc, owes, callerFn, issued, done, primed>>

CommitNode(c) ==
    /\ CallerGoto(c, "commit", "wake")
    /\ Ring!Commit(callerFn[c])
    /\ callerFn' = [callerFn EXCEPT ![c] = None]
    /\ UNCHANGED <<ringValid, fallback, batch, wakeReadable, wakeActive, quit,
                   calling, loopPc, owes, issued, done, primed>>

\* Mutant: only the ring's path wakes the loop thread up.
PushFallbackBug(c) ==
    /\ CallerGoto(c, "reserve", "idle")
    /\ fallback' = Append(fallback, callerFn[c])
    /\ callerFn' = [callerFn EXCEPT ![c] = None]
    /\ UNCHANGED <<ringValid, ring, batch, wakeReadable, wakeActive, quit,
                   calling, loopPc, owes, issued, done, primed>>

\* No ring, or reserve() returned nullptr: it is full, or looked full to a
\* thread that read a head which has moved since (MpscQueue.tla).
PushFallback(c) ==
    /\ CallerGoto(c, "reserve", "wake")
    /\ fallback' = Append(fallback, callerFn[c])
    /\ callerFn' = [callerFn EXCEPT ![c] = None]
    /\ UNCHANGED <<ringValid, ring, batch, wakeReadable, wakeActive, quit,
                   calling, loopPc, owes, issued, done, primed>>

\* Mutant: quit() from another thread does not wake the loop thread up.
QuitStoreBug(c) ==
    /\ callerPc[c] = "idle"
    /\ quit' = TRUE
    /\ UNCHANGED <<ringValid, queueVars, batch, wakeReadable, wakeActive,
                   calling, loopPc, owes, callerVars, issued, done, primed>>

QuitStore(c) ==
    /\ CallerGoto(c, "idle", "wake")
    /\ quit' = TRUE
    /\ UNCHANGED <<ringValid, queueVars, batch, wakeReadable, wakeActive,
                   calling, loopPc, owes, callerFn, issued, done, primed>>

Wakeup(c) ==
    /\ CallerGoto(c, "wake", "idle")
    /\ wakeReadable' = TRUE
    /\ UNCHANGED <<ringValid, queueVars, batch, wakeActive, quit,
                   calling, loopPc, owes, callerFn, issued, done, primed>>

CallerFinish(c) ==
    ReserveNode(c) \/ CommitNode(c) \/ PushFallback(c) \/ Wakeup(c)

-----------------------------------------------------------------------------
(* User code on the loop thread.                                           *)

InUserCode == loopPc \in {"start", "events", "runNode", "runBatch"}

\* Mutant: the loop thread never wakes itself up.
EnqueueBug(f) ==
    /\ IF ringValid /\ Len(ring) < Capacity
       THEN /\ ring' = Append(ring, [item |-> f, ready |-> TRUE])
            /\ UNCHANGED fallback
       ELSE /\ fallback' = Append(fallback, f)
            /\ UNCHANGED ring
    /\ UNCHANGED wakeReadable
    /\ primed' = (primed \/ loopPc = "start")

\* queueInLoop() on the loop thread.  The thread is its own consumer, so
\* nobody sees the steps in between, and the head it reads is current: the
\* ring refuses exactly when it is full.  The wakeup is skipped outside
\* doPendingFunctors().
Enqueue(f) ==
    /\ IF ringValid /\ Len(ring) < Capacity
       THEN /\ ring' = Append(ring, [item |-> f, ready |-> TRUE])
            /\ UNCHANGED fallback
       ELSE /\ fallback' = Append(fallback, f)
            /\ UNCHANGED ring
    /\ wakeReadable' = (wakeReadable \/ calling)
    /\ primed' = (primed \/ loopPc = "start")

LoopQueue(f) ==
    /\ InUserCode
    /\ f \notin issued
    /\ issued' = issued \cup {f}
    /\ Enqueue(f)
    /\ UNCHANGED <<ringValid, batch, wakeActive, quit, calling, loopPc, owes,
                   callerVars, done>>

\* quit() on the loop thread: no wakeup is needed.
LoopQuit ==
    /\ InUserCode
    /\ ~quit
    /\ quit' = TRUE
    /\ UNCHANGED <<ringValid, queueVars, batch, wakeReadable, wakeActive,
                   calling, loopPc, owes, callerVars, issued, done, primed>>

-----------------------------------------------------------------------------
(* loop().                                                                 *)

LoopGoto(from, to) == loopPc = from /\ loopPc' = to

LoopStart ==
    /\ LoopGoto("start", "check")
    /\ UNCHANGED <<ringValid, queueVars, batch, wakeReadable, wakeActive, quit,
                   calling, owes, callerVars, issued, done, primed>>

\* while (!quit_)
CheckQuit ==
    /\ LoopGoto("check", IF quit THEN "exited" ELSE "poll")
    /\ UNCHANGED <<ringValid, queueVars, batch, wakeReadable, wakeActive, quit,
                   calling, owes, callerVars, issued, done, primed>>

\* epoll_wait() returns; the wakeup channel is active iff the eventfd is readable.
PollReturn ==
    /\ LoopGoto("poll", "events")
    /\ wakeActive' = wakeReadable
    /\ UNCHANGED <<ringValid, queueVars, batch, wakeReadable, quit, calling,
                   owes, callerVars, issued, done, primed>>

\* ... because of the eventfd, which epoll reports without delay, or
PollWoken == wakeReadable /\ PollReturn

\* ... because of another descriptor, a signal or the timeout (kPollTimeMs).
PollOther == ~wakeReadable /\ PollReturn

\* handleRead(): one read empties the counter.
HandleRead ==
    /\ loopPc = "events"
    /\ wakeActive
    /\ wakeActive' = FALSE
    /\ wakeReadable' = FALSE
    /\ UNCHANGED <<ringValid, queueVars, batch, quit, calling, loopPc, owes,
                   callerVars, issued, done, primed>>

\* Every active channel has been handled; doPendingFunctors() begins.
EndEvents ==
    /\ ~wakeActive
    /\ LoopGoto("events", "drain")
    /\ calling' = TRUE
    /\ primed' = FALSE
    /\ UNCHANGED <<ringValid, queueVars, batch, wakeReadable, wakeActive, quit,
                   owes, callerVars, issued, done>>

\* peek() returns a node and its functor is entered.
PeekNode ==
    /\ ringValid /\ Ring!HeadReady
    /\ LoopGoto("drain", "runNode")
    /\ owes' = (Head(ring).item \in Recurring)
    /\ UNCHANGED <<ringValid, queueVars, batch, wakeReadable, wakeActive, quit,
                   calling, callerVars, issued, done, primed>>

\* The functor returns, is deleted, and its node is consumed.
ConsumeNode ==
    /\ ~owes
    /\ LoopGoto("runNode", "drain")
    /\ done' = done \cup {Head(ring).item}
    /\ Ring!Consume
    /\ UNCHANGED <<ringValid, fallback, batch, wakeReadable, wakeActive, quit,
                   calling, owes, callerVars, issued, primed>>

\* peek() returns nullptr, or there is no ring.
DrainEnds ==
    /\ ~(ringValid /\ Ring!HeadReady)
    /\ LoopGoto("drain", "swap")
    /\ UNCHANGED <<ringValid, queueVars, batch, wakeReadable, wakeActive, quit,
                   calling, owes, callerVars, issued, done, primed>>

\* Mutant: the vector is copied, not swapped.
SwapFallbackBug ==
    /\ LoopGoto("swap", "batch")
    /\ batch' = fallback
    /\ UNCHANGED <<ringValid, queueVars, wakeReadable, wakeActive, quit, calling,
                   owes, callerVars, issued, done, primed>>

SwapFallback ==
    /\ LoopGoto("swap", "batch")
    /\ batch' = fallback
    /\ fallback' = <<>>
    /\ UNCHANGED <<ringValid, ring, wakeReadable, wakeActive, quit, calling,
                   owes, callerVars, issued, done, primed>>

EnterBatched ==
    /\ batch # <<>>
    /\ LoopGoto("batch", "runBatch")
    /\ owes' = (Head(batch) \in Recurring)
    /\ UNCHANGED <<ringValid, queueVars, batch, wakeReadable, wakeActive, quit,
                   calling, callerVars, issued, done, primed>>

LeaveBatched ==
    /\ ~owes
    /\ LoopGoto("runBatch", "batch")
    /\ done' = done \cup {Head(batch)}
    /\ batch' = Tail(batch)
    /\ UNCHANGED <<ringValid, queueVars, wakeReadable, wakeActive, quit,
                   calling, owes, callerVars, issued, primed>>

\* doPendingFunctors() returns to the test of quit_.
PendingDone ==
    /\ batch = <<>>
    /\ LoopGoto("batch", "check")
    /\ calling' = FALSE
    /\ UNCHANGED <<ringValid, queueVars, batch, wakeReadable, wakeActive, quit,
                   owes, callerVars, issued, done, primed>>

\* A recurring functor queues its copy from inside its body.
QueueCopy ==
    /\ owes
    /\ owes' = FALSE
    /\ Enqueue(IF loopPc = "runNode" THEN Head(ring).item ELSE Head(batch))
    /\ UNCHANGED <<ringValid, batch, wakeActive, quit, calling, loopPc,
                   callerVars, issued, done>>

-----------------------------------------------------------------------------
Progress ==
    \/ LoopStart \/ CheckQuit \/ PollWoken \/ HandleRead \/ EndEvents
    \/ PeekNode \/ ConsumeNode \/ DrainEnds
    \/ SwapFallback \/ EnterBatched \/ LeaveBatched \/ PendingDone \/ QueueCopy

Loop == Progress \/ PollOther \/ LoopQuit \/ \E f \in Functors : LoopQueue(f)

Caller(c) == CallerFinish(c) \/ QuitStore(c) \/ \E f \in Functors : Call(c, f)

Next == Loop \/ \E c \in Callers : Caller(c)

\* The loop thread keeps running, user callbacks return, and a thread inside
\* queueInLoop() or quit() gets out of it.  Nothing makes epoll_wait() return
\* except the eventfd: the wakeups alone must do.
Fairness ==
    /\ WF_vars(Progress)
    /\ \A c \in Callers : WF_vars(CallerFinish(c))

Spec == Init /\ [][Next]_vars
FairSpec == Spec /\ Fairness

-----------------------------------------------------------------------------
(* Properties.                                                             *)

TypeOK ==
    /\ ringValid \in BOOLEAN
    /\ ring \in Seq(Ring!Node)
    /\ fallback \in Seq(Functors)
    /\ batch \in Seq(Functors)
    /\ wakeReadable \in BOOLEAN
    /\ wakeActive \in BOOLEAN
    /\ quit \in BOOLEAN
    /\ calling \in BOOLEAN
    /\ loopPc \in {"start", "check", "poll", "events", "drain", "runNode",
                   "swap", "batch", "runBatch", "exited"}
    /\ owes \in BOOLEAN
    /\ callerPc \in [Callers -> {"idle", "reserve", "commit", "wake"}]
    /\ callerFn \in [Callers -> Functors \cup {None}]
    /\ issued \subseteq Functors
    /\ done \subseteq Functors
    /\ primed \in BOOLEAN

\* Some thread is about to write the eventfd.
WakeupComing == \E c \in Callers : callerPc[c] = "wake"

\* Something the next doPendingFunctors() would run.
Runnable == Ring!HeadReady \/ fallback # <<>>

\* No lost wakeup: the loop thread never sleeps in epoll_wait() on runnable
\* functors unless the wakeup is still to come.  The one exception is a functor
\* that the owning thread queued before loop(), for which queueInLoop() skips
\* the wakeup.  Nor does it sleep through quit(), whatever quit_ raced with.
NoLostWakeup ==
    loopPc = "poll" /\ ~wakeReadable /\ (quit \/ (Runnable /\ ~primed)) => WakeupComing

\* The places f is kept in between queueInLoop() and the end of its run.
Copies(f) ==
    Cardinality({c \in Callers : callerPc[c] = "reserve" /\ callerFn[c] = f})
    + Cardinality({i \in DOMAIN ring : ring[i].item = f})
    + Cardinality({i \in DOMAIN fallback : fallback[i] = f})
    + Cardinality({i \in DOMAIN batch : batch[i] = f})

\* A functor given to queueInLoop() once is held exactly once until it has run
\* and nowhere afterwards: neither the two queues, nor the swap of the vector,
\* nor a functor queueing others lose it or run it twice.
HeldOnce ==
    \A f \in Functors \ Recurring :
        Copies(f) = IF f \in issued \ done THEN 1 ELSE 0

\* A recurring functor has been queued: doPendingFunctors() may never finish,
\* because its drain loop runs until the ring is empty.
Recurs == issued \cap Recurring # {}

\* Every functor handed over while the loop runs is run in the end or the loop
\* is told to quit, on the strength of the wakeups alone.  A functor that queues
\* itself again may keep the others waiting for ever.  If the poll also times
\* out, functors the owning thread queued before loop(), for which queueInLoop()
\* skips the wakeup, are run as well.
QueuedRuns ==
    /\ \A f \in Functors : f \in issued /\ ~primed ~> f \in done \/ quit \/ Recurs
    /\ WF_vars(PollOther) =>
           \A f \in Functors : f \in issued ~> f \in done \/ quit \/ Recurs

\* "blocks until quit()": once any thread has called quit(), loop() returns,
\* if no functor queues itself again.
QuitEndsLoop == quit ~> loopPc = "exited" \/ Recurs

-----------------------------------------------------------------------------
(* The inductive strengthening of NoLostWakeup.                            *)

\* Nothing will wake the loop thread by itself.
Quiet == ~wakeReadable /\ ~primed /\ ~WakeupComing

\* Once the ring has been found empty, and once the vector has been swapped
\* out, any functor added since comes with a wakeup.
WakeupOK ==
    /\ Quiet /\ loopPc \in {"start", "swap", "batch", "runBatch", "check", "poll"} =>
           ~Ring!HeadReady
    /\ Quiet /\ loopPc \in {"start", "batch", "runBatch", "check", "poll"} =>
           fallback = <<>>
    /\ loopPc = "poll" /\ quit /\ ~wakeReadable => WakeupComing

\* What each place in the code holds on to.
PlacesOK ==
    /\ \A c \in Callers : callerPc[c] \in {"reserve", "commit"} => callerFn[c] \in Functors
    /\ loopPc \in {"drain", "runNode", "swap", "batch", "runBatch"} => calling
    /\ loopPc = "runNode" => Ring!HeadReady
    /\ loopPc = "runBatch" => batch # <<>>
    /\ ~ringValid => ring = <<>>
    /\ owes => loopPc \in {"runNode", "runBatch"}

IndInv == TypeOK /\ PlacesOK /\ WakeupOK

\* The strengthening of HeldOnce: only what was queued has run, the swapped-out
\* vector is empty outside its own loop, so that the swap drops nothing, and only a
\* recurring functor owes a copy.
HeldInv ==
    /\ HeldOnce
    /\ done \ Recurring \subseteq issued
    /\ loopPc \notin {"batch", "runBatch"} => batch = <<>>
    /\ owes => (IF loopPc = "runNode" THEN Head(ring).item ELSE Head(batch)) \in Recurring
=============================================================================
