# hvnetpp in TLA+

Specifications of hvnetpp, a reactor library, and of the logging library it
carries, with TLC models and TLAPS proofs. Paths below are relative to the
repository's root; `easylogging++` and `rtclog` are under `src/thirdparty/rtclog`.

## The system

One thread owns an `EventLoop` and runs every callback; any other thread may hand
it work. Every thread may log.

| Part | State | Operations | Interacts with |
|---|---|---|---|
| `MpscQueue` | head and tail counters, nodes of 64 bytes | `reserve`, `commit` (any thread); `peek`, `consume` (loop thread) | `EventLoop`, `CircularBuffer` |
| `CircularBuffer` | two mappings of one memory file | constructor, destructor | `EventLoop` |
| `EventLoop` | `quit_`, `callingPendingFunctors_`, the ring, the mutex-protected vector, the eventfd | `loop`, `quit`, `runInLoop`, `queueInLoop`, `wakeup` | everything |
| `TimerQueue`, `Timer`, `TimerId` | two ordered sets, the timerfd, the running batch and its cancellations | `addTimer`, `cancel` (any thread); `handleRead` | `EventLoop` |
| `Channel`, `Poller` | interest, registration, `revents_`, `activeChannels_` | update, remove, poll, dispatch | every descriptor's owner |
| `TcpConnection` | `state_`, output buffer, channel, socket | `send`, `shutdown` (any thread); the handlers; establish, destroy | `TcpServer`, `EventLoop` |
| `TcpServer`, `Acceptor` | start state, map of connections, idle descriptor | `start` (any thread), accept, remove, destructor | `TcpConnection`, `EventLoop` |
| `UdpSocket` | lazily opened socket, receive state | `bind`, `bindAndStart`, `startReceive`, `stopReceive`, `sendTo`, destructor | `EventLoop`, `Channel` |
| `Buffer` | reader and writer index | append, retrieve, prepend, `readFd` | `TcpConnection` |
| `InetAddress`, `Resolver`, `SocketsOps` | an address | construct, format, look up; system calls | TCP, UDP |
| `rtclog` | log file, backups | configure, set levels and categories, log, roll, prune | `easylogging++` |
| `easylogging++` | the registry of verbose levels, loggers and their configurations, the file stream, hit counters | `allowed`, `setCategories`, write, dispatch, configure, parse | `rtclog` |

What makes it hard: producers of the ring race on stale counters; a wakeup must
not fall between the last look at the queues and `epoll_wait()`; functors travel
on one of two queues with no order between them; timers are cancelled from inside
their own batch and identified by addresses that are reused; channels, servers
and sockets are destroyed while their events and functors are still on the way;
calls test the state on one thread and act on it later on another; log lines,
changes of the categories, rolling and failing files interleave. `PROJECT.json`
lists these hazards line by line with the properties that cover them.

## Modules

| Module | Models | How |
|---|---|---|
| `FunctorRing` | what the ring promises | bounded queue; reserve fixes the place, commit makes it visible |
| `MpscQueue` | `MpscQueue.h` | one action per atomic access; `reserved`/`consumed` are tail and head before wrapping, and every comparison is on the wrapped values |
| `CircularBuffer` | `CircularBuffer.cpp` | one action per system call of the constructor, each of which may fail; the address space is a function from pages to what is mapped there |
| `EventLoop` | `EventLoop.cpp` | built on `FunctorRing`; `loopPc` is the loop thread's place in `loop()`, `callerPc` each other thread's place in `queueInLoop()` or `quit()` |
| `TimerQueue` | `TimerQueue.cpp`, `Timer.cpp`, `TimerId.h` | a heap of addresses, the two sets, the timerfd and a clock in ticks; a caller's `addTimer()` is three steps: allocate, queue, read the sequence number |
| `Poller` | `Channel.cpp`, `Poller.cpp` | several channels on reused descriptors, epoll's table, the growing event list and the order in which ready channels are reported |
| `TcpConnection` | `TcpConnection.cpp`, its channel, the server's map | the handlers of one round in dispatch order, functors, callers and the peer; messages are sequences of units so writes can be partial |
| `TcpServer` | `TcpServer.cpp`, `Channel::tie` | the loop's rounds, `activeChannels_`, and what refers to each object kept by `shared_ptr`; every test of the token, and every statement of a destructor off the loop thread, is a step; a connection is seen from the server |
| `UdpSocket` | `UdpSocket.cpp`, the abort of `Poller::update` | every call of a thread, split where it has tested shared state, has stored it and queues a functor; functors carry a ticket and travel through the ring or the vector |
| `Buffer` | `Buffer.h`, `Buffer.cpp` | the storage with its indexes; each operation is compared with the one on a sequence of bytes |
| `InetAddress` | `InetAddress.cpp`, `Resolver.cpp`, the address functions of `SocketsOps.cpp` | an address with the size and family it was given; the answers of `getaddrinfo()` are external |
| `VRegistry` | `el::base::VRegistry`, the level and category calls of `rtclog.cpp` | the list of categories, the priority tested before the lock, and the cache; a change of the list is one step per entry |
| `Logging` | `rtclog_fmt`, `Writer`, `LogDispatcher`, file rolling | extends `VRegistry`: a line on its way through the locks of the logger and the storage into the file, rolling, pruning, failures, crash and restart |
| `LogConfig` | `Configurations`, `TypedConfigurations`, `RegisteredLoggers` | setting, copying, defaults and files of configurations |
| `LogText`, `LogHelpers` | the text, path, time, argument and counter functions | operators over short sequences of tokens, each with a reference definition |
| `*Proofs` | | theorems; `SequentialProofs` has those of `CircularBuffer`, `Poller` and `Buffer`, `LoggingProofs` those of `VRegistry` and `Logging` |
| `MC_*` | | instances for TLC; `MC_Sequential` puts the single-threaded parts side by side |

User callbacks are modelled by what they may do on the loop thread: in each place
where user code runs, the actions of a user are enabled.

Abstractions a reader should know of:

* Memory is sequentially consistent. The code's relaxed loads and its fences are
  not examined.
* `Peek` is one step although it loads two variables: the tail only moves away
  from the head, so the order of the two loads cannot be seen.
* `FunctorRing` may refuse a reservation at any time, because `reserve()` may
  have read a head that has moved. On the loop thread the head is current and the
  ring refuses exactly when full.
* `TimerQueue` and `TcpConnection` see `queueInLoop()` as two queues, each first
  in, first out, and a functor may stay for the next round (an uncommitted head
  of the ring hides those behind it). `EventLoop` justifies this. `UdpSocket` has
  the two queues as well, and drains the ring before it swaps the vector.
  `TcpServer` runs the queued functors in any order, which covers both.
* `TcpServer` gives the loop thread's use of a server that is being destroyed the
  effect the memory's contents give it, or ends the process (`UsedTooLate`); so it
  does with a freed `Channel` (`EnterFreed`), and so does `UdpSocket`. An assertion
  that fails ends the process or is compiled out.
* A descriptor that `UdpSocket` enables after its cleanup is closed, and `Poller`
  aborts, or its number belongs to another object by then. What that object does
  with it is not followed.
* `HandleRead` of `TimerQueue` samples the clock and reads the timerfd in one
  step. An expiration between the two is lost, as it is during the callbacks;
  `reset()` sets the timerfd again in both cases.
* In `TcpConnection` the write-complete and high-water callbacks are always set,
  and the kernel reports a hang-up together with readability, as Linux does for
  TCP. Without the latter the `EPOLLHUP` branch of `Channel.cpp:51` would be
  reached, whose callback does not test the state.
* Undefined behaviour: reading a deleted `Timer` yields any sequence number.
* In `Logging` a line takes one unit of the file, a second has two clock values,
  and a write or a flush that fails is a failure of the stream: what was buffered
  waits for the close, which writes or loses it whole. Partial writes are below the
  model. The clock only moves forward, although `system_clock` may be set back, and
  the names of backups then no longer order them. The limits on the file's size and
  on the number of files may be 0, which switches rolling or pruning off.
* A `log()` with more values than specifiers (`GiveUp`) returns with the logger's
  recursive lock held and its text in the stream. `kept` says that the holder of the
  lock has done so: nobody else gets the lock from then on, and the holder's later
  calls do not give it up. `OwnTextOnly` and `CallReturns` name the case; hvnetpp's
  own calls go through `rtclog_fmt()`, which does not take this path.
* Strings are sequences of tokens: a token is a word or a character the function
  at hand tells apart.

## Runs

| Run | Shows |
|---|---|
| `mpsc` | 3 interchangeable producers, 2 nodes, counters modulo 4, so the buffer and the counters both wrap: a node being filled is nobody else's and hidden (`ExclusiveSlot`), order is kept (`RunInOrder`), and the code implements `FunctorRing` (`ImplementsRing`) |
| `loop` | 2 callers, 3 functors of which one requeues itself, a ring that overflows or is missing: no wakeup or `quit()` is lost (`NoLostWakeup`), a functor is in one place (`HeldOnce`), queued functors run (`QueuedRuns`), and `loop()` returns (`QuitEndsLoop`) unless a functor requeues itself for ever, which keeps `doPendingFunctors()` from ending |
| `timers` | 2 timers on 2 addresses and another thread: the sets agree (`SetsAgree`), the timerfd covers the earliest timer and periods are kept (`ScheduleKept`), a cancelled timer does not come back (`CancelSticks`), an identifier cancels no other timer (`LeavesOnlyByOwnId`), and due timers expire (`DueTimerExpires`) |
| `timers_cancel_early`, `timers_id_race` | violated, see Findings |
| `tcp` | the loop thread and another send one message of 2 units each into room for 1: interest, state and what the user was told agree (`StateAgrees`), the stream is what was sent (`StreamIntact`), `shutdown()` follows the data (`ShutdownFlushesSends`), and flushing with the half-close and destruction come about (`OutputFlushed`, `ClosedIsDestroyed`) |
| `tcp_overflow` | violated, see Findings |
| `server` | 2 peers, `start()` on the loop thread and another, 4 descriptors shared with the process: `start()` settles (`StartSettles`), no freed channel is dispatched (`ActiveChannelsLive`), the code's assertions on the map and on the states hold (`AssertionsHold`), every descriptor is closed (`EverythingReleased`) and no peer waits for ever (`PeersTaken`); the exceptions are below |
| `udp` | 4 calls by one thread, the loop's or another, functors on both queues: `isReceiving()` settles to the truth and epoll watches no closed descriptor (`ReceivingAgrees`), none is leaked (`SocketsOwned`, `DestroyedCloses`), and a channel outlives the round that reports it (`ChannelOutlivesRound`); the exceptions are below |
| `udp_shared` | violated, see Findings |
| `logging` | 2 writers, a thread that changes the categories, and a second scenario with a failure or crash: answers follow the list (`AllowedIsLastMatch`), lines stay in order and are not lost, also past a failed stream (`LogComplete`), file and backups are bounded (`DiskBounded`), messages of two threads do not mix (`OwnTextOnly`), and calls return unless another thread has kept the logger's lock (`CallReturns`) |
| `sequential` | the single-threaded parts, below |

`sequential` checks, of each part:

* `Buffer`: `OperationsKeepStream`, with the order of the indexes and the assertion
  after `makeSpace()`.
* `CircularBuffer`: `MirrorOrNothing`, with nothing leaked by a constructor that fails.
* `Poller`: `RegistrationAgrees` (epoll, the map and the channels' indexes),
  `ReadyNotStarved` (a full event list delays nobody for ever).
* `InetAddress`: `AddressAsAsked`.
* `LogConfig`: `ConfigurationsAgree` (the typed values follow the untyped ones, a
  copy takes its base's entries and defaults keep what was set; the comments of
  `BaseCopied` and `RemainingKept` list the exceptions).
* `LogText`: `InputsParsed` (wildcards against the language they denote, category and
  module lists, lines of a configuration file, arguments with their aliases) and
  `LinesRendered` (formats, file names, dates, numbers, UTF-8, source names cut to
  their buffer, which of `log()`'s calls are written). A date that fills its buffer of
  30 bytes is not terminated, and may then be followed by anything
  (`timevalToString`).
* `LogHelpers`: `HelpersExact` (names of levels and of configuration types, modules'
  levels, directories, times, hit counters). When several entries of `-vmodule` match a file, the
  one that an unordered map yields first answers: any of them, in the model.

Each conjunct of these three is a definition of its own with the reference it is
compared with.

What `server`, `udp` and `logging` except, since the code has it happen:

* A callback that destroys the server in the middle of a round frees the channels of
  connections that are still in `activeChannels_` (`cut`).
* `~TcpServer()` on another thread may take the map after `newConnection()` was
  reached and before it stores the connection. That connection is in a map nobody
  hands to the loop thread: it is freed while it is established and registered
  (`orphans`). `removeConnectionInLoop()` likewise may find the map emptied after its
  test of the token.
* The spare descriptor of the acceptor may be lost to another thread while none is
  free; peers then wait until a descriptor is (`PeersTaken`).
* The number that makes a connection's name unique may be cut off. The run has
  numbers that fit; with `NameRoom = 1` TLC finds `AssertionsHold` violated.
* A UDP functor in the ring may overtake an earlier one in the vector, or the reverse
  (`overtaken`). The registration is then what the functor that ran last made it, and
  an `enableReading()` behind its cleanup aborts or watches another object's number.
* A call given up by `log()` (`kept`), as above.
* Once a call on the log file has failed, lines may be lost: a file whose renaming
  failed is truncated all the same, and a restart with a full file truncates it.

An exception is taken from the state or from a history variable that is set in that
case only, so the properties hold of everything else even after it.

Bounds. The constants named `Max...` bound what users do and how far the clock
runs. They are large enough for each queue to overflow and wrap, for an address or
a descriptor to be used twice, for a repeating timer to be overdue by more than a
period, for a message to wait behind another, for descriptors to run out, for the
log to be rolled twice and pruned, for a functor to be overtaken by one of its own
channel, and for each text function to meet every pair
and most triples of its tokens. `NoFullRevolution` excludes a producer that is
suspended while the others push 2^26 functors: the code cannot tell that from no
change. At the end of the bounded clock an armed timerfd expires, so the bound
strands no timer. Deadlock is checked in the `tcp` runs; in the others the bounded
users, or `quit()`, may bring the system to a stop.

Fairness. The loop thread keeps running and callbacks return (weak fairness of its
steps). A thread inside a call of the library leaves it. In `EventLoop` only
the eventfd ends `epoll_wait()`; the second half of `QueuedRuns` has its timeout as a
premise. In `TcpConnection`
the peer's host keeps taking data, and a functor that can be taken in round after
round is taken. In `TcpServer` accepting, closing the idle descriptor and running a
functor are strongly fair: each is a call on a level-triggered event or a drained
queue, which is offered again in every round. In `Logging` a mutex needs no more
than weak fairness, since the other threads make finitely many calls.

## Findings

* `timers_cancel_early`: a `cancel()` that reaches the loop thread before the
  queued `addTimerInLoop()` of its timer is forgotten.
* `timers_id_race`: `addTimer()` reads `timer->sequence()` after the loop thread
  may have run and deleted the timer.
* `tcp_overflow`: `send()` followed by `shutdown()` on one thread is reordered
  when only the first overflows into the vector; the data is dropped.
* `udp_shared`: `ensureSocket()` tests and sets the descriptor without a lock. Two
  threads that both open the socket leak one, although the header allows calls
  from any thread. For the same reason the run `udp` has one user of the socket. Two
  threads that share `startReceive()` and `stopReceive()` may besides leave `state_`
  and the interest in disagreement, since each stores the one before it queues the
  other.

## Proofs

Proved by TLAPS for every value of the constants that satisfies the named
assumptions of the modules. Each theorem `XHolds` states `Spec => []X` for a
property `X` that a run checks, or for the inductive invariant behind it. TLC
checked each inductive invariant on a run's instance before it was proved.

* `MpscQueueProofs`: `ExclusiveSlotHolds`, `RunInOrderHolds`, `ImplementsRingHolds`.
  Assumed: at least one node, fewer nodes than the counter's modulus, and the
  modulus a multiple of the number of nodes. The properties say nothing of a
  producer that holds a stale head, so they are not inductive. `IndInv` adds
  `WindowOK` (at most `Slots` nodes between head and tail), `LoadedOK` (a loaded
  head is at most the real one, less than a revolution behind), `OwnedOK` (each
  writer has its own hidden node), `NodesOK` (committed nodes hold what the order
  says, free slots are clear) and `RanOK`. The core: a compare-exchange that
  succeeds on a stale head has a tail within `Slots` of it, hence within `Slots` of
  the real head. In the refinement the abstract ring is the window of nodes from
  the first that is not cleared to the tail; the compare-exchange maps to its
  `Reserve`, the store of the id to `Commit`, the memset of `consume()` to
  `Consume`, and every other step to a stutter.
* `EventLoopProofs`: `NoLostWakeupHolds`, `HeldOnceHolds`. `WakeupOK` says what
  holds when nothing will wake the loop thread: once the ring was found empty it has
  no runnable head, and once the vector was swapped out it is empty. `PlacesOK`
  ties the places in the code to what they hold. `HeldOnce` counts a functor's
  copies over the ring, the vector, the batch and the callers; `HeldInv` adds that
  the batch is empty whenever the loop thread is elsewhere, and that only functors
  that were issued are done. Each step moves one copy, which is shown by
  cardinalities of the sets of positions.
* `TimerQueueProofs`: `SetsAgreeHolds`, `CancelSticksHolds`,
  `LeavesOnlyByOwnIdHolds` (an action property), `ScheduleKeptHolds`. `IndInv` adds
  `OwnersOK` (a Timer that is in neither set belongs to one caller or one queued
  functor, so its address cannot be given out again) and `StoppedOK` (sequence
  numbers in use were given out, so a new one was never cancelled, and what was
  cancelled among the expired timers is in `cancelingTimers_` until `reset()` has
  looked). For the schedule, `ScheduleInv` adds `BatchOK` (a timer being called was
  due when `handleRead()` looked) and `AllScheduled` (each Timer has a sequence
  number of its own, is in phase with its first expiration, and once it has run is
  due within a period). What `Timer::restart()` computes with integer division,
  however late it is called, is proved from facts about `\div` and `%`; so is that
  rounding the delay up to microseconds does not set the timerfd late.
* `TcpConnectionProofs`: `StateAgreesHolds`, `StreamIntactHolds`,
  `ShutdownFlushesSendsHolds`. `IndInv` adds that nothing is shut down before
  `shutdown()`, that only a close queues `connectDestroyed()`, and that a hang-up
  comes with input. The third theorem assumes that `queueInLoop()` takes one of its
  two paths throughout; the run `tcp_overflow` shows that the code does not have the
  property otherwise. Its invariant `SendsAhead` follows a caller's messages through
  its call, the queue, the functor being run and the connection: all that was sent
  before a `shutdown()` is ahead of it.
* `TcpServerProofs`: `StartSettlesHolds`, `ActiveChannelsLiveHolds`,
  `AssertionsHoldHolds`. `AcceptInv` follows the acceptor: `state_` is right or a
  `start()` that will set it is on its way (`Settles`), and a listening acceptor whose
  channel is active is alive or has a functor that keeps the channel. `ConnInv` follows
  the connections: each that was created is disconnected, in the map, in the
  destructor's copy of it, in a queued `connectDestroyed()`, or one of the `orphans`
  (`Owned`), and the map is keyed by the connections' own names. It knows of each place
  between a test of the token and the use behind it what a destructor may have done
  meanwhile. `FdInv` counts descriptors: only `accept()`,
  `listen()`, the idle descriptor and the rest of the process take one, one at a time
  and when one is free. The last two theorems assume `NumbersFit`: the server's name
  leaves room for the connection's number in the 64 bytes of `newConnection()`. Cut
  numbers can repeat, and a repeated name drops a connection from the map.
* `UdpSocketProofs`: `ReceivingAgreesHolds`, `SocketsOwnedHolds`,
  `ChannelOutlivesRoundHolds`, assuming that one thread uses the socket; the run
  `udp_shared` shows why. `IndInv` says that the fields of the object agree also half
  way through a call (`FieldsAgree`), that a cleanup is the last functor to act on its
  descriptor if none overtakes another (`CleanupLast`), and that the last functor to
  act on a channel makes the registration what the state says (`RegistrationDue`). Both
  speak of tickets, not of places in a queue, since the queues give no order.
* `SequentialProofs`: `MirrorOrNothingHolds`, `RegistrationAgreesHolds`,
  `OperationsKeepStreamHolds`. `MirrorIndInv` says, for each place in the
  constructor, which half of the reservation is mapped and whether the file is open.
  `PollIndInv` says that `index_` is what epoll and the map were told of a channel and
  that no two channels share a descriptor. `Good` is the order of a buffer's indexes;
  it is all an operation needs, and the readable bytes are compared as sequences.
* `LoggingProofs`: `AllowedIsLastMatchHolds` (of `VRegistry` alone),
  `LoggingAllowedIsLastMatch`, `OwnTextOnlyHolds`, `LogCompleteHolds`,
  `DiskBoundedHolds`. `RegistryInv` adds what holds while a list is being replaced: no
  entry is above the priority that is tested without the lock, and the cache never
  disagrees with the list. `LogInv` is `LocksOK` (which writer is inside the logger,
  and that the stream is empty when none is, or holds the text of the one that keeps
  the lock), `RollingOK` (what each place of the
  dispatch relies on: for instance that nothing is buffered once the file is being
  rolled) and `DiskInv` (nothing on disk is newer than the clock or the last line, so
  a backup's name orders its lines). Both limits may be 0, which is unlimited. That a
  set of positions has a last one, and the size of finite sets, are cited from the
  library.

Left to TLC:

* Liveness, which needs fairness: `QueuedRuns`, `QuitEndsLoop`, `DueTimerExpires`,
  `OutputFlushed`, `ClosedIsDestroyed`, `EverythingReleased`, `PeersTaken`,
  `DestroyedCloses`, `CallReturns`.
* `AddressAsAsked`, `ConfigurationsAgree`, `InputsParsed`, `LinesRendered`,
  `HelpersExact`: recursive definitions over texts, of which nothing can be proved
  without induction over them.
* `ReadyNotStarved`: the event list doubles, and the provers have no exponentiation.

## Not modelled

* Destruction of `EventLoop` and `TimerQueue`: the program destroys them after the
  threads that use them, and the code takes no step to make anything else safe.
* The contents of datagrams and of the input buffer, `setTcpNoDelay()` and the other
  socket options: no state of the library depends on them.
* In `easylogging++`: performance tracking, crash handling, stack traces, syslog and
  asynchronous dispatch, which hvnetpp does not compile in or switch on; output to
  the console and the output operators for containers, which are formatting; custom
  format specifiers. Much of `easylogging++.h` is macros and forwarding templates.
* Memory orders weaker than sequential consistency: TLA+ actions are atomic, and the
  outcomes of the hardware would have to be written out by hand.
