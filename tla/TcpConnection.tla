--------------------------- MODULE TcpConnection ---------------------------
(***************************************************************************)
(* src/TcpConnection.cpp with its Channel (src/Channel.cpp), the Poller's  *)
(* record of it (src/Poller.cpp) and what TcpServer does with it: one      *)
(* accepted connection from connectEstablished() to connectDestroyed().    *)
(* The loop thread dispatches the connection's events and runs functors;   *)
(* user code calls send() and shutdown() on the loop thread from any       *)
(* callback, and on other threads at any time.                             *)
(*                                                                         *)
(* A message is a sequence of units, so that the kernel may take part of   *)
(* it.  Input is only there or not; what is in it plays no role.           *)
(***************************************************************************)
EXTENDS Integers, Sequences

CONSTANTS Callers,    \* threads other than the loop's
          LoopThread, \* the loop thread, as a sender of messages
          Size,       \* units in a message
          Room,       \* units the kernel's send buffer holds
          HighWater,  \* highWaterMark_, in units
          Paths,      \* queueInLoop()'s two queues: "ring", "fallback"
          MaxSends,   \* bound: send() calls of each thread
          None        \* no call, no shutdown

ASSUME SizesAssumption ==
    /\ Size \in Nat \ {0} /\ Room \in Nat \ {0} /\ HighWater \in Nat \ {0}
    /\ MaxSends \in Nat
ASSUME LoopThreadAssumption == LoopThread \notin Callers
ASSUME PathsAssumption == Paths \subseteq {"ring", "fallback"}

Senders == Callers \cup {LoopThread}
Functors == [do : {"send", "shutdown", "destroy", "notify"}, by : Senders, i : 0..MaxSends]
ASSUME NoneAssumption == None \notin Senders /\ None \notin Nat /\ None \notin Functors
Message(t, i) == [k \in 1..Size |-> <<t, i, k>>]

VARIABLES
    state,       \* state_
    events,      \* the channel's events_
    added,       \* its addedToLoop_
    index,       \* its index_: -1 new, 1 in epoll, 2 deleted from epoll
    fdOpen,      \* socketFd_ >= 0
    out,         \* outputBuffer_
    wrClosed,    \* the socket is shut down for writing
    inMap,       \* the connection is in the server's connections_
    serverAlive, \* the TcpServer and its callbackToken_
    room,        \* units the kernel's send buffer can take
    inbox,       \* received data is waiting
    fin,         \* the peer has closed its side
    reset,       \* the peer has reset the connection
    loopPc,      \* the loop thread's place
    revents,     \* the channel's revents_
    pending,     \* functors queued for the loop thread
    functor,     \* the one doPendingFunctors() has taken, or None
    call,        \* the call each caller is about to queue
    sends,       \* send() calls made by each thread
    wire,        \* history: units written to the socket
    accepted,    \* history: units sendInLoop() has taken
    told,        \* history: connectionCallback_ calls
    owed,        \* history: messages a caller had sent when it queued its shutdown()
    closer       \* history: the thread whose shutdown() took effect, or None

channelVars == <<events, added, index>>
serverVars == <<inMap, serverAlive>>
peerVars == <<inbox, fin, reset>>
dataVars == <<out, room, wire, accepted>>
callVars == <<call, sends, owed>>
vars == <<state, channelVars, fdOpen, wrClosed, serverVars, peerVars, dataVars,
          loopPc, revents, functor, pending, callVars, told, closer>>

\* newConnection() has made the connection and is about to establish it.
Init ==
    /\ state = "Connecting"
    /\ events = {} /\ added = FALSE /\ index = -1
    /\ fdOpen = TRUE /\ wrClosed = FALSE
    /\ inMap = TRUE /\ serverAlive = TRUE
    /\ inbox = FALSE /\ fin = FALSE /\ reset = FALSE
    /\ out = <<>> /\ room = Room /\ wire = <<>> /\ accepted = <<>>
    /\ loopPc = "dispatch" /\ revents = {} /\ pending = <<>> /\ functor = None
    /\ call = [c \in Callers |-> None]
    /\ sends = [t \in Senders |-> 0]
    /\ owed = [c \in Callers |-> None]
    /\ told = <<>> /\ closer = None

-----------------------------------------------------------------------------
(* Channel and Poller.                                                     *)

\* Poller::updateChannel(): in epoll exactly while there is interest.
updateChannel(interest) ==
    index' = IF interest # {} THEN 1 ELSE IF index = 1 THEN 2 ELSE index

\* enableReading() and its like, then Channel::update().
Update(interest) ==
    /\ events' = interest
    /\ IF ~added /\ interest = {}
       THEN UNCHANGED <<added, index>>
       ELSE added' = TRUE /\ updateChannel(interest)

\* Poller::removeChannel(): forgotten, whether still in epoll or not.
removeChannel == index' = -1

\* Channel::remove().
Remove ==
    /\ added' = FALSE
    /\ IF added THEN removeChannel ELSE UNCHANGED index

\* queueInLoop() takes whichever queue has room.
Functor(do, by, i) == [do |-> do, by |-> by, i |-> i]
Queue(do) == \E path \in Paths :
    pending' = Append(pending, [fn |-> Functor(do, LoopThread, 0), path |-> path])

-----------------------------------------------------------------------------
(* The connection's own functions.                                         *)

Open == {"Connected", "Disconnecting"}

\* removeConnection(): the connection leaves the server's map.
removeConnection == inMap' = FALSE /\ Queue("destroy")

\* The down callback, then closeCallback_, which queues connectDestroyed().
handleClose ==
    /\ state' = "Disconnected"
    /\ Update({})
    /\ told' = Append(told, "down")
    /\ IF serverAlive THEN removeConnection ELSE UNCHANGED <<inMap, pending>>
    /\ UNCHANGED <<fdOpen, wrClosed, serverAlive, dataVars, closer>>

\* What write() of len units may take; none stands for EAGAIN.
Taken(len) == IF room = 0 THEN {0} ELSE 1..(IF len < room THEN len ELSE room)

\* Neither closed nor shut down by the step.
StaysOpen == UNCHANGED <<state, fdOpen, wrClosed, serverVars, told, closer>>

\* The tail of sendInLoop(): what write() left goes to the output buffer.
Buffer(rest) ==
    LET oldLen == Len(out) IN
    /\ out' = out \o rest
    /\ IF oldLen < HighWater /\ oldLen + Len(rest) >= HighWater
       THEN Queue("notify") ELSE UNCHANGED pending
    /\ Update(events \cup {"write"})

\* Nothing is waiting: write directly.
SendDirectly(message) ==
    \E n \in Taken(Len(message)) :
        /\ wire' = wire \o SubSeq(message, 1, n)
        /\ room' = room - n
        /\ accepted' = accepted \o message
        /\ IF n = Len(message)
           THEN Queue("notify") /\ UNCHANGED <<out, channelVars>>
           ELSE Buffer(SubSeq(message, n + 1, Len(message)))
        /\ StaysOpen

SendBuffered(message) ==
    /\ accepted' = accepted \o message
    /\ Buffer(message)
    /\ StaysOpen
    /\ UNCHANGED <<wire, room>>

\* Mutant: written directly though output is waiting.
sendInLoopBug(message) ==
    \/ reset /\ handleClose
    \/ ~reset /\ SendDirectly(message)

sendInLoop(message) ==
    LET idle == "write" \notin events /\ out = <<>> IN
    \/ idle /\ reset /\ handleClose
    \/ idle /\ ~reset /\ SendDirectly(message)
    \/ ~idle /\ SendBuffered(message)

\* Mutant: output that waits is not waited for.
shutdownInLoopBug == wrClosed' = (wrClosed \/ fdOpen)

shutdownInLoop == wrClosed' = (wrClosed \/ (fdOpen /\ "write" \notin events'))

\* shutdown() on the loop thread, the connection being connected.
StartShutdown(t) ==
    /\ state' = "Disconnecting"
    /\ closer' = t
    /\ UNCHANGED <<channelVars, fdOpen, serverVars, dataVars, pending, told>>
    /\ shutdownInLoop

\* Mutant: the socket is not closed.
connectDestroyedBug ==
    /\ state' = "Disconnected"
    /\ IF state # "Disconnected"
       THEN events' = {} /\ told' = Append(told, "down")
       ELSE UNCHANGED <<events, told>>
    /\ Remove
    /\ UNCHANGED <<fdOpen, wrClosed, dataVars, closer>>

connectDestroyed ==
    /\ state' = "Disconnected"
    /\ IF state # "Disconnected"
       THEN events' = {} /\ told' = Append(told, "down")
       ELSE UNCHANGED <<events, told>>
    /\ Remove
    /\ fdOpen' = FALSE
    /\ UNCHANGED <<wrClosed, dataVars, closer>>

NoEffect == UNCHANGED <<state, channelVars, fdOpen, wrClosed, serverVars, dataVars,
                        pending, told, closer>>

-----------------------------------------------------------------------------
(* The loop thread: events of this connection, in handleEventWithGuard()'s *)
(* order.                                                                  *)

\* User code runs in other channels' callbacks, in the message callback and
\* in functors.
InUserCode == loopPc \in {"dispatch", "message", "functors"} /\ state # "Connecting"

ConnectEstablished ==
    /\ loopPc = "dispatch" /\ state = "Connecting"
    /\ state' = "Connected"
    /\ Update({"read"})
    /\ told' = Append(told, "up")
    /\ UNCHANGED <<fdOpen, wrClosed, serverVars, peerVars, dataVars, loopPc,
                   revents, functor, pending, callVars, closer>>

\* What the kernel reports for a TCP socket: a reset one is readable too.
Ready ==
    (IF inbox \/ fin \/ reset THEN {"in"} ELSE {})
    \cup (IF room > 0 \/ reset THEN {"out"} ELSE {})
    \cup (IF reset THEN {"err"} ELSE {})
    \cup (IF reset \/ (fin /\ wrClosed) THEN {"hup"} ELSE {})

Interest ==
    {"err", "hup"} \cup (IF "read" \in events THEN {"in"} ELSE {})
                   \cup (IF "write" \in events THEN {"out"} ELSE {})

\* Poller::poll().
Poll ==
    /\ loopPc = "poll"
    /\ loopPc' = "dispatch"
    /\ revents' = IF index = 1 THEN Ready \cap Interest ELSE {}
    /\ UNCHANGED <<functor, peerVars, callVars>> /\ NoEffect

\* handleError(): the socket's error closes a connection that is still open.
ErrorCloses == reset /\ state \in Open

\* closeCallback_ and errorCallback_.  Other channels may have come first.
HandleCloseAndError ==
    /\ loopPc = "dispatch" /\ state # "Connecting"
    /\ loopPc' = "read"
    /\ IF \/ "hup" \in revents /\ "in" \notin revents
          \/ "err" \in revents /\ ErrorCloses
       THEN handleClose ELSE NoEffect
    /\ UNCHANGED <<revents, functor, peerVars, callVars>>

\* Mutant: a connection closed since poll() is read.
HandleReadBug ==
    LET active == "in" \in revents IN
    /\ loopPc = "read"
    /\ loopPc' = IF active /\ inbox THEN "message" ELSE "write"
    /\ inbox' = IF active THEN FALSE ELSE inbox
    /\ IF active /\ ~inbox /\ (fin \/ reset) THEN handleClose ELSE NoEffect
    /\ UNCHANGED <<revents, functor, fin, reset, callVars>>

HandleRead ==
    LET active == "in" \in revents /\ state # "Disconnected" IN
    /\ loopPc = "read"
    /\ loopPc' = IF active /\ inbox THEN "message" ELSE "write"
    /\ inbox' = IF active THEN FALSE ELSE inbox
    /\ IF active /\ ~inbox /\ (fin \/ reset) THEN handleClose ELSE NoEffect
    /\ UNCHANGED <<revents, functor, fin, reset, callVars>>

\* messageCallback_ returns.
MessageDone ==
    /\ loopPc = "message"
    /\ loopPc' = "write"
    /\ UNCHANGED <<revents, functor, peerVars, callVars>> /\ NoEffect

\* Mutant: a shutdown() that waited for the output is forgotten.
FlushBug ==
    \E n \in Taken(Len(out)) :
        /\ wire' = wire \o SubSeq(out, 1, n)
        /\ out' = SubSeq(out, n + 1, Len(out))
        /\ room' = room - n
        /\ IF n = Len(out)
           THEN Update(events \ {"write"}) /\ Queue("notify")
           ELSE UNCHANGED <<channelVars, pending>>
        /\ UNCHANGED <<state, fdOpen, wrClosed, serverVars, accepted, told, closer>>

\* write() of the output buffer and, when all of it is gone, the end of
\* write interest and of a shutdown() that waited for it.
Flush ==
    \E n \in Taken(Len(out)) :
        /\ wire' = wire \o SubSeq(out, 1, n)
        /\ out' = SubSeq(out, n + 1, Len(out))
        /\ room' = room - n
        /\ IF n = Len(out)
           THEN /\ Update(events \ {"write"})
                /\ Queue("notify")
                /\ IF state = "Disconnecting" THEN shutdownInLoop ELSE UNCHANGED wrClosed
           ELSE UNCHANGED <<channelVars, pending, wrClosed>>
        /\ UNCHANGED <<state, fdOpen, serverVars, accepted, told, closer>>

HandleWrite ==
    LET active == "out" \in revents /\ state # "Disconnected" /\ "write" \in events IN
    /\ loopPc = "write"
    /\ loopPc' = "functors"
    /\ revents' = {}
    /\ \/ ~active /\ NoEffect
       \/ active /\ reset /\ handleClose
       \/ active /\ ~reset /\ Flush
    /\ UNCHANGED <<functor, peerVars, callVars>>

-----------------------------------------------------------------------------
(* The loop thread: user code and functors.                                *)

LoopSend ==
    /\ InUserCode
    /\ sends[LoopThread] < MaxSends
    /\ state = "Connected"
    /\ sends' = [sends EXCEPT ![LoopThread] = @ + 1]
    /\ sendInLoop(Message(LoopThread, sends[LoopThread] + 1))
    /\ UNCHANGED <<loopPc, revents, functor, peerVars, call, owed>>

LoopShutdown ==
    /\ InUserCode
    /\ state = "Connected"
    /\ StartShutdown(LoopThread)
    /\ UNCHANGED <<loopPc, revents, functor, peerVars, callVars>>

\* ~TcpServer() on the loop thread.
ServerDestroyed ==
    /\ InUserCode
    /\ serverAlive
    /\ serverAlive' = FALSE
    /\ inMap' = FALSE
    /\ IF inMap THEN connectDestroyed
       ELSE UNCHANGED <<state, told, channelVars, fdOpen, wrClosed, dataVars, closer>>
    /\ UNCHANGED <<pending, loopPc, revents, functor, peerVars, callVars>>

\* doPendingFunctors(): each of the two queues is first in, first out.
NextOnPath(i) == \A j \in 1..(i - 1) : pending[j].path # pending[i].path

Without(i) == SubSeq(pending, 1, i - 1) \o SubSeq(pending, i + 1, Len(pending))

TakeFunctor(i) ==
    /\ loopPc = "functors" /\ NextOnPath(i)
    /\ loopPc' = "running"
    /\ functor' = pending[i].fn
    /\ pending' = Without(i)
    /\ UNCHANGED <<state, channelVars, fdOpen, wrClosed, serverVars, peerVars,
                   dataVars, revents, callVars, told, closer>>

\* A functor of send() or shutdown() looks at the state again.  The write
\* complete and high water mark callbacks are user code.
RunFunctor ==
    /\ loopPc = "running"
    /\ loopPc' = "functors"
    /\ functor' = None
    /\ \/ /\ functor.do = "send" /\ state = "Connected"
          /\ sendInLoop(Message(functor.by, functor.i))
       \/ functor.do = "shutdown" /\ state = "Connected" /\ StartShutdown(functor.by)
       \/ functor.do \in {"send", "shutdown"} /\ state # "Connected" /\ NoEffect
       \/ functor.do = "destroy" /\ connectDestroyed /\ UNCHANGED <<serverVars, pending>>
       \/ functor.do = "notify" /\ NoEffect
    /\ UNCHANGED <<revents, peerVars, callVars>>

\* doPendingFunctors() is done; a functor may be left for the next round.
FunctorsDone ==
    /\ loopPc = "functors"
    /\ loopPc' = "poll"
    /\ UNCHANGED <<revents, functor, peerVars, callVars>> /\ NoEffect

-----------------------------------------------------------------------------
(* Other threads.                                                          *)

Calls(c, fn) ==
    /\ call[c] = None
    /\ state = "Connected"
    /\ call' = [call EXCEPT ![c] = fn]
    /\ UNCHANGED <<loopPc, revents, functor, peerVars, owed>> /\ NoEffect

\* send() and shutdown() test the state, then queue.
CallerSend(c) ==
    /\ sends[c] < MaxSends
    /\ sends' = [sends EXCEPT ![c] = @ + 1]
    /\ Calls(c, Functor("send", c, sends[c] + 1))

CallerShutdown(c) ==
    /\ owed[c] = None
    /\ UNCHANGED sends
    /\ Calls(c, Functor("shutdown", c, 0))

CallerQueue(c, path) ==
    /\ call[c] # None
    /\ call' = [call EXCEPT ![c] = None]
    /\ pending' = Append(pending, [fn |-> call[c], path |-> path])
    /\ owed' = IF call[c].do = "shutdown" THEN [owed EXCEPT ![c] = sends[c]] ELSE owed
    /\ UNCHANGED <<state, channelVars, fdOpen, wrClosed, serverVars, peerVars,
                   dataVars, loopPc, revents, functor, sends, told, closer>>

-----------------------------------------------------------------------------
(* The peer and the kernel.                                                *)

Peer(act) ==
    /\ fdOpen /\ ~reset /\ act
    /\ UNCHANGED <<state, channelVars, fdOpen, wrClosed, serverVars, out, wire,
                   accepted, loopPc, revents, functor, pending, callVars, told, closer>>

PeerSends  == Peer(~fin /\ inbox' = TRUE /\ UNCHANGED <<fin, reset, room>>)
PeerCloses == Peer(~fin /\ fin' = TRUE /\ UNCHANGED <<inbox, reset, room>>)
PeerResets == Peer(reset' = TRUE /\ UNCHANGED <<inbox, fin, room>>)
PeerReads  == Peer(room < Room /\ room' = Room /\ UNCHANGED peerVars)

-----------------------------------------------------------------------------
Dispatch == HandleCloseAndError \/ HandleRead \/ MessageDone \/ HandleWrite

Next ==
    \/ ConnectEstablished \/ Poll \/ Dispatch
    \/ LoopSend \/ LoopShutdown \/ ServerDestroyed
    \/ (\E i \in DOMAIN pending : TakeFunctor(i)) \/ RunFunctor \/ FunctorsDone
    \/ \E c \in Callers : \/ CallerSend(c) \/ CallerShutdown(c)
                          \/ \E path \in Paths : CallerQueue(c, path)
    \/ PeerSends \/ PeerCloses \/ PeerResets \/ PeerReads

\* The loop thread keeps looping, runs what is queued in every round, and the
\* peer's host goes on taking what was written.
Fairness ==
    /\ WF_vars(ConnectEstablished) /\ WF_vars(Poll) /\ WF_vars(Dispatch)
    /\ WF_vars(RunFunctor) /\ WF_vars(FunctorsDone)
    /\ SF_vars(\E i \in DOMAIN pending : TakeFunctor(i))
    /\ WF_vars(PeerReads)

Spec == Init /\ [][Next]_vars
FairSpec == Spec /\ Fairness

-----------------------------------------------------------------------------
(* Properties.                                                             *)

TypeOK ==
    /\ state \in {"Connecting", "Connected", "Disconnecting", "Disconnected"}
    /\ events \subseteq {"read", "write"}
    /\ added \in BOOLEAN /\ index \in {-1, 1, 2}
    /\ {fdOpen, wrClosed, inMap, serverAlive, inbox, fin, reset} \subseteq BOOLEAN
    /\ room \in 0..Room
    /\ loopPc \in {"poll", "dispatch", "read", "message", "write", "functors", "running"}
    /\ revents \subseteq {"in", "out", "err", "hup"}
    /\ pending \in Seq([fn : Functors, path : Paths])
    /\ functor \in Functors \cup {None}
    /\ call \in [Callers -> Functors \cup {None}]
    /\ sends \in [Senders -> 0..MaxSends]
    /\ owed \in [Callers -> 0..MaxSends \cup {None}]
    /\ closer \in Senders \cup {None}
    /\ {out, wire, accepted} \subseteq Seq(Senders \X Nat \X (1..Size))

\* The channel does what the connection needs, and the assertions of
\* removeChannel() and removeConnectionInLoop() hold: an open connection is in
\* the map of a living server and has read interest, and write interest exactly
\* while output waits; a closed one has no interest left, never gets any again,
\* and its descriptor is closed only once the poller has forgotten it.
ChannelAgrees ==
    /\ TypeOK
    /\ state \in Open =>
           /\ inMap /\ serverAlive /\ fdOpen
           /\ "read" \in events
           /\ "write" \in events <=> out # <<>>
    /\ state = "Disconnected" => events = {}
    /\ added <=> index # -1
    /\ index = 1 <=> events # {}
    /\ ~fdOpen => ~added

\* No unit is lost, duplicated or overtaken on its way to the socket, whether
\* it was written directly or waited in the output buffer; and the write side is
\* shut down only when all output has been written (shutdownInLoop, handleWrite).
StreamIntact == wire \o out = accepted /\ (wrClosed => out = <<>>)

\* The user hears of the connection coming up once and going down once, in
\* that order, however many of close, error, failed writes and the server's
\* end come together (the assertion in handleClose()).
ToldOnce ==
    told = CASE state = "Connecting" -> <<>>
             [] state \in Open -> <<"up">>
             [] state = "Disconnected" -> <<"up", "down">>

\* The connection's state, its channel, the server's map and what the user was
\* told agree.
StateAgrees == ChannelAgrees /\ ToldOnce

\* Once a caller's shutdown() has shut down the write side, all that this caller
\* had sent before it has been written.
ShutdownFlushesSends ==
    closer \in Callers /\ wrClosed =>
        \A i \in 1..owed[closer] : \E k \in DOMAIN wire : wire[k] = <<closer, i, Size>>

\* The inductive invariant behind StateAgrees and StreamIntact.  Nothing is shut
\* down before shutdown(); connectDestroyed() is queued by a close only; and a
\* hang-up comes with input, so that it is read before the connection closes.
IndInv ==
    /\ StateAgrees /\ StreamIntact
    /\ state = "Connecting" =>
           inMap /\ serverAlive /\ fdOpen /\ events = {} /\ out = <<>> /\ loopPc = "dispatch"
    /\ state \in {"Connecting", "Connected"} => ~wrClosed
    /\ loopPc = "running" <=> functor # None
    /\ "hup" \in revents => "in" \in revents
    /\ \A k \in DOMAIN pending : pending[k].fn.do = "destroy" => state = "Disconnected"
    /\ functor # None /\ functor.do = "destroy" => state = "Disconnected"
    /\ \A c \in Callers : call[c] # None => call[c].by = c /\ call[c].do \in {"send", "shutdown"}

\* The last unit of a caller's i-th message is with the connection.
Reached(c, i) == \E k \in DOMAIN accepted : accepted[k] = <<c, i, Size>>

\* What ShutdownFlushesSends rests on, when all functors go over one queue: while
\* the connection is not closing no message is dropped, and a caller's shutdown()
\* stands behind every message the caller sent before it.
SendsAhead ==
    /\ \A c \in Callers :
           /\ call[c] # None /\ call[c].do = "shutdown" => owed[c] = None
           /\ owed[c] = None =>
                 /\ closer # c
                 /\ functor # None => ~(functor.do = "shutdown" /\ functor.by = c)
                 /\ \A k \in DOMAIN pending : ~(pending[k].fn.do = "shutdown" /\ pending[k].fn.by = c)
           /\ closer = c => \A i \in 1..owed[c] : Reached(c, i)
    /\ state \in {"Connecting", "Connected"} => \A c \in Callers :
           /\ \A i \in 1..sends[c] :
                 \/ Reached(c, i)
                 \/ Functor("send", c, i) \in {functor, call[c]}
                 \/ \E k \in DOMAIN pending : pending[k].fn = Functor("send", c, i)
           /\ functor # None /\ functor.do = "shutdown" /\ functor.by = c =>
                 \A i \in 1..owed[c] : Reached(c, i)
           /\ \A k \in DOMAIN pending :
                 pending[k].fn.do = "shutdown" /\ pending[k].fn.by = c =>
                     \A i \in 1..owed[c] :
                         \/ Reached(c, i)
                         \/ functor = Functor("send", c, i)
                         \/ \E j \in 1..(k - 1) : pending[j].fn = Functor("send", c, i)

\* Output that waits is written and a shutdown() completes with the write side
\* shut down, or the connection closes (handleWrite).
OutputFlushed ==
    /\ out # <<>> ~> (out = <<>> \/ state = "Disconnected")
    /\ state = "Disconnecting" ~> (wrClosed \/ state = "Disconnected")

\* The descriptor of a closed connection is closed: connectDestroyed() comes.
ClosedIsDestroyed == state = "Disconnected" ~> ~fdOpen
=============================================================================
