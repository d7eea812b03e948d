----------------------------- MODULE UdpSocket -----------------------------
(***************************************************************************)
(* src/UdpSocket.cpp: a socket opened lazily, bound, started, stopped and  *)
(* destroyed, by the loop thread from its callbacks or by other threads.   *)
(* A call is split where it has tested shared state, has stored it and     *)
(* queues a functor.  A functor goes to the ring or, when that is full, to *)
(* the vector, and either may overtake the other.  Every socket has its    *)
(* own Channel, and both go by the same number here.                       *)
(***************************************************************************)
EXTENDS Integers

CONSTANTS Loop,      \* the loop thread
          Callers,   \* other threads
          Sharing,   \* the sets of threads that may share the socket
          Families,  \* address families
          MaxSocks,  \* descriptors that are ever opened
          MaxCalls,  \* calls, of all threads together
          Other,     \* the channels of other objects, among those of a round
          None

Threads == Callers \cup {Loop}
Socks == 1..MaxSocks

ASSUME SharingAssumption == Sharing \subseteq SUBSET Threads
ASSUME SocksAssumption == MaxSocks \in Nat /\ None \notin Socks

VARIABLES
    users,    \* the threads that use this socket
    sockfd,   \* UdpSocket::sockfd_
    family,   \* family_
    state,    \* state_
    channel,  \* channel_
    alive,    \* callbackToken_ can be locked
    sock,     \* each descriptor, with its channel's registration
    opened,   \* descriptors opened so far
    pc,       \* each thread's place in its call
    call,     \* the call: which one, the family, whether it created the socket,
              \* the channel it has copied
    calls,    \* calls so far
    pending,  \* functors queued for the loop thread, each with its ticket
    ticket,   \* of the last functor that was queued
    swapped,  \* the last ticket in the vector that doPendingFunctors() has taken
    overtaken, \* the channels on which two functors acted in the wrong order
    active,   \* activeChannels_ not handled yet
    loopPc    \* the loop thread's place in loop(), "aborted" when Poller has ended it

fields == <<sockfd, family, state, channel, alive>>
socks == <<sock, opened>>
callVars == <<pc, call, calls>>
queue == <<pending, ticket, overtaken>>
loopVars == <<swapped, active, loopPc>>
vars == <<users, fields, socks, callVars, queue, loopVars>>

Ops == {"open", "bind", "bindAndStart", "sendTo"}
Paths == {"ring", "vector"}
NoCall == [op |-> "none", family |-> None, created |-> FALSE, chan |-> None]

\* The places of startReceive() and stopReceive() behind the copy of channel_.
Holding == {"storeReceiving", "enable", "storeBound", "disable"}

\* What a Channel is referred to by; activeChannels_ has only its address.
Live(s) ==
    \/ channel = s
    \/ \E f \in pending : f.sock = s
    \/ \E t \in Threads : pc[t] \in Holding /\ call[t].chan = s

\* queueInLoop(): the ring may be full of other functors.
Queue(op, s) ==
    /\ ticket' = ticket + 1
    /\ \E path \in Paths :
          pending' = pending \cup {[op |-> op, sock |-> s, path |-> path, at |-> ticket']}

Init ==
    /\ users \in Sharing
    /\ sockfd = None /\ family = None /\ state = "Closed" /\ channel = None
    /\ alive = TRUE
    /\ sock = [s \in Socks |-> [fd |-> FALSE, bound |-> FALSE, reg |-> FALSE]]
    /\ opened = 0
    /\ pc = [t \in Threads |-> "idle"]
    /\ call = [t \in Threads |-> NoCall]
    /\ calls = 0
    /\ pending = {} /\ ticket = 0 /\ overtaken = {}
    /\ swapped = 0 /\ active = {} /\ loopPc = "functors"

\* Where a thread's code runs: the loop thread's in callbacks and functors.
Runs(t) == t # Loop \/ loopPc \in {"callback", "functors", "batch"}

\* A step of a call to a place in it, with what the call knows there, and its end.
Goto(t, place, known) ==
    pc' = [pc EXCEPT ![t] = place] /\ call' = [call EXCEPT ![t] = known]
Return(t) == Goto(t, "idle", NoCall)

-----------------------------------------------------------------------------
(* What happens to a channel on the loop thread.                           *)

\* Channel::enableReading() and disableReading(); with no interest left the
\* Poller deletes the channel from epoll.  A closed descriptor cannot be added:
\* Poller::update() aborts, unless the number is in use again by another object.
Apply(op, s) ==
    \/ sock' = [sock EXCEPT ![s].reg = (op = "enable")] /\ UNCHANGED loopPc
    \/ op = "enable" /\ ~sock[s].fd /\ loopPc' = "aborted" /\ UNCHANGED sock

CloseSock(s) == sock' = [sock EXCEPT ![s] = [fd |-> FALSE, bound |-> FALSE, reg |-> FALSE]]

\* Mutant: the channel is not kept until the round is over.
cleanupUdpSocketBug(s) ==
    CloseSock(s) /\ UNCHANGED <<pending, ticket>>

\* cleanupUdpSocket() on the loop thread; the functor it queues keeps the channel.
cleanupUdpSocket(s) ==
    CloseSock(s) /\ Queue("hold", s)

\* On another thread it is queued, with the descriptor still open.
Cleanup(t, s) ==
    IF s = None THEN UNCHANGED <<sock, pending, ticket>>
    ELSE IF t = Loop THEN cleanupUdpSocket(s)
    ELSE Queue("cleanup", s) /\ UNCHANGED sock

-----------------------------------------------------------------------------
(* open(), bind(), bindAndStart() and sendTo().                             *)

Call(t, op, f) ==
    /\ t \in users /\ pc[t] = "idle" /\ Runs(t) /\ alive
    /\ calls < MaxCalls
    /\ calls' = calls + 1
    /\ Goto(t, "ensure", [op |-> op, family |-> f, created |-> (sockfd = None), chan |-> None])
    /\ UNCHANGED <<users, fields, socks, queue, loopVars>>

\* ensureSocket(): there is a socket, of the right family or not, or none yet.
EnsureSocket(t) ==
    /\ pc[t] = "ensure"
    /\ IF sockfd = None THEN Goto(t, "create", call[t])
       ELSE IF family = call[t].family THEN Goto(t, "ensured", call[t])
       ELSE Return(t)
    /\ UNCHANGED <<users, fields, socks, calls, queue, loopVars>>

CreateFails(t) ==
    /\ pc[t] = "create"
    /\ sockfd' = None
    /\ Return(t)
    /\ UNCHANGED <<users, family, state, channel, alive, socks, calls, queue, loopVars>>

Create(t) ==
    /\ pc[t] = "create"
    /\ opened < MaxSocks
    /\ opened' = opened + 1
    /\ sock' = [sock EXCEPT ![opened'].fd = TRUE]
    /\ sockfd' = opened' /\ family' = call[t].family
    /\ state' = "Opened" /\ channel' = opened'
    /\ Goto(t, "ensured", call[t])
    /\ UNCHANGED <<users, alive, calls, queue, loopVars>>

\* open() and sendTo() are done with the socket's state.
Ensured(t) ==
    /\ pc[t] = "ensured" /\ call[t].op \in {"open", "sendTo"}
    /\ Return(t)
    /\ UNCHANGED <<users, fields, socks, calls, queue, loopVars>>

BindSucceeds(t) ==
    /\ pc[t] = "ensured" /\ call[t].op \in {"bind", "bindAndStart"}
    /\ sockfd # None /\ ~sock[sockfd].bound
    /\ sock' = [sock EXCEPT ![sockfd].bound = TRUE]
    /\ state' = IF state = "Receiving" THEN state ELSE "Bound"
    /\ IF call[t].op = "bind" THEN Return(t) ELSE Goto(t, "start", NoCall)
    /\ UNCHANGED <<users, sockfd, family, channel, alive, opened, calls, queue, loopVars>>

\* Mutant: the socket that bind() has created is forgotten.
BindFailsBug(t) ==
    /\ pc[t] = "ensured" /\ call[t].op \in {"bind", "bindAndStart"}
    /\ IF call[t].created
       THEN sockfd' = None /\ family' = None /\ state' = "Closed" /\ channel' = None
       ELSE UNCHANGED <<sockfd, family, state, channel>>
    /\ Return(t)
    /\ UNCHANGED <<users, alive, sock, opened, calls, queue, loopVars>>

\* bind() takes back the socket it has created, and leaves another as it was.
BindFails(t) ==
    /\ pc[t] = "ensured" /\ call[t].op \in {"bind", "bindAndStart"}
    /\ IF call[t].created
       THEN /\ sockfd' = None /\ family' = None /\ state' = "Closed" /\ channel' = None
            /\ Cleanup(t, sockfd)
       ELSE UNCHANGED <<sockfd, family, state, channel, sock, pending, ticket>>
    /\ Return(t)
    /\ UNCHANGED <<users, alive, opened, calls, overtaken, loopVars>>

-----------------------------------------------------------------------------
(* startReceive() and stopReceive().                                       *)

CallReceive(t, place) ==
    /\ t \in users /\ pc[t] = "idle" /\ Runs(t) /\ alive
    /\ calls < MaxCalls
    /\ calls' = calls + 1
    /\ Goto(t, place, NoCall)
    /\ UNCHANGED <<users, fields, socks, queue, loopVars>>

Copied == [NoCall EXCEPT !.chan = channel]

\* startReceive() copies channel_ and tests the state: without a bound socket, or
\* if it receives already, nothing is done.
StartReceive(t) ==
    /\ pc[t] = "start"
    /\ IF channel # None /\ state = "Bound" THEN Goto(t, "storeReceiving", Copied) ELSE Return(t)
    /\ UNCHANGED <<users, fields, socks, calls, queue, loopVars>>

\* Mutant: the state is left as it was.
StopReceiveBug(t) ==
    /\ pc[t] = "stop"
    /\ IF channel = None THEN Return(t) ELSE Goto(t, "disable", Copied)
    /\ UNCHANGED <<users, fields, socks, calls, queue, loopVars>>

StopReceive(t) ==
    /\ pc[t] = "stop"
    /\ IF channel = None THEN Return(t)
       ELSE Goto(t, IF state = "Receiving" THEN "storeBound" ELSE "disable", Copied)
    /\ UNCHANGED <<users, fields, socks, calls, queue, loopVars>>

\* The state is stored before the functor is queued.
StoreState(t) ==
    /\ \/ pc[t] = "storeReceiving" /\ state' = "Receiving" /\ Goto(t, "enable", call[t])
       \/ pc[t] = "storeBound" /\ state' = "Bound" /\ Goto(t, "disable", call[t])
    /\ UNCHANGED <<users, sockfd, family, channel, alive, socks, calls, queue, loopVars>>

\* runInLoop() of a functor that holds the channel.
RunInLoop(t) ==
    /\ pc[t] \in {"enable", "disable"}
    /\ IF t = Loop THEN Apply(pc[t], call[t].chan) /\ UNCHANGED <<pending, ticket>>
       ELSE Queue(pc[t], call[t].chan) /\ UNCHANGED <<sock, loopPc>>
    /\ Return(t)
    /\ UNCHANGED <<users, fields, opened, calls, overtaken, swapped, active>>

-----------------------------------------------------------------------------
(* ~UdpSocket().  No other thread is inside a call.                         *)

\* Mutant: sockfd_ is reset before it is passed on.
DestroyBug(t) ==
    /\ t \in users /\ Runs(t) /\ alive
    /\ \A u \in Threads : pc[u] = "idle"
    /\ alive' = FALSE
    /\ state' = "Closed" /\ channel' = None /\ sockfd' = None
    /\ Cleanup(t, sockfd')
    /\ UNCHANGED <<users, family, opened, callVars, overtaken, loopVars>>

Destroy(t) ==
    /\ t \in users /\ Runs(t) /\ alive
    /\ \A u \in Threads : pc[u] = "idle"
    /\ alive' = FALSE
    /\ state' = "Closed" /\ channel' = None /\ sockfd' = None
    /\ Cleanup(t, sockfd)
    /\ UNCHANGED <<users, family, opened, callVars, overtaken, loopVars>>

-----------------------------------------------------------------------------
(* The rounds of the loop thread.                                          *)

LoopIdle == pc[Loop] = "idle"

Poll ==
    /\ loopPc = "poll"
    /\ active' \in SUBSET ({s \in Socks : sock[s].reg} \cup {Other})
    /\ loopPc' = "dispatch"
    /\ UNCHANGED <<users, fields, socks, callVars, queue, swapped>>

\* The channel's read callback: handleRead() and the user's callback in it, if
\* the socket object is still there.  Of a Channel that is gone nothing is known.
HandleRead(s) ==
    /\ loopPc = "dispatch" /\ s \in active
    /\ active' = active \ {s}
    /\ loopPc' \in IF ~Live(s) THEN {"dispatch", "aborted"}
                  ELSE IF alive THEN {"callback"} ELSE {"dispatch"}
    /\ UNCHANGED <<users, fields, socks, callVars, queue, swapped>>

\* Another channel's callback may use the socket as well.
OtherCallback ==
    /\ loopPc = "dispatch" /\ Other \in active
    /\ active' = active \ {Other}
    /\ loopPc' = "callback"
    /\ UNCHANGED <<users, fields, socks, callVars, queue, swapped>>

CallbackDone ==
    /\ loopPc = "callback" /\ LoopIdle
    /\ loopPc' = "dispatch"
    /\ UNCHANGED <<users, fields, socks, callVars, queue, swapped, active>>

EndDispatch ==
    /\ loopPc = "dispatch" /\ active = {}
    /\ loopPc' = "functors"
    /\ UNCHANGED <<users, fields, socks, callVars, queue, swapped, active>>

\* The functor that doPendingFunctors() runs next: the ring's first, and when it
\* has swapped the vector the first of that.
IsNext(f) ==
    /\ f \in pending
    /\ \/ loopPc = "functors" /\ f.path = "ring"
       \/ loopPc = "batch" /\ f.path = "vector" /\ f.at <= swapped
    /\ \A g \in pending : g.path = f.path => f.at <= g.at

\* What acts on the channel among the queued functors.
Acts(f) == f.op # "hold"
Acting(s) == {f \in pending : f.sock = s /\ Acts(f)}

RunFunctor(f) ==
    /\ LoopIdle /\ IsNext(f)
    /\ \/ f.op \in {"enable", "disable"} /\ Apply(f.op, f.sock)
          /\ pending' = pending \ {f} /\ UNCHANGED ticket
       \/ f.op = "hold" /\ pending' = pending \ {f} /\ UNCHANGED <<sock, loopPc, ticket>>
       \/ /\ f.op = "cleanup" /\ CloseSock(f.sock) /\ UNCHANGED loopPc
          /\ ticket' = ticket + 1
          /\ \E path \in Paths :
                pending' = (pending \ {f}) \cup
                           {[op |-> "hold", sock |-> f.sock, path |-> path, at |-> ticket']}
    /\ overtaken' = IF Acts(f) /\ (\E g \in Acting(f.sock) : g.at < f.at)
                    THEN overtaken \cup {f.sock} ELSE overtaken
    /\ UNCHANGED <<users, fields, opened, callVars, swapped, active>>

\* The ring is found empty; the vector is swapped later, under the lock.
RingEmpty ==
    /\ loopPc = "functors" /\ LoopIdle /\ \A f \in pending : f.path # "ring"
    /\ loopPc' = "swap"
    /\ UNCHANGED <<users, fields, socks, callVars, queue, swapped, active>>

Swap ==
    /\ loopPc = "swap"
    /\ swapped' = ticket
    /\ loopPc' = "batch"
    /\ UNCHANGED <<users, fields, socks, callVars, queue, active>>

EndFunctors ==
    /\ loopPc = "batch" /\ LoopIdle
    /\ \A f \in pending : f.path = "vector" => f.at > swapped
    /\ swapped' = 0
    /\ loopPc' = "poll"
    /\ UNCHANGED <<users, fields, socks, callVars, queue, active>>

-----------------------------------------------------------------------------
\* The steps that lead out of a call.
Proceed(t) ==
    /\ loopPc # "aborted"
    /\ \/ EnsureSocket(t) \/ CreateFails(t) \/ Create(t) \/ Ensured(t)
       \/ BindSucceeds(t) \/ BindFails(t)
       \/ StartReceive(t) \/ StopReceive(t) \/ StoreState(t) \/ RunInLoop(t)

LoopStep ==
    \/ Poll \/ OtherCallback \/ CallbackDone \/ EndDispatch
    \/ \E s \in Socks : HandleRead(s)
    \/ RingEmpty \/ Swap \/ EndFunctors
    \/ \E f \in pending : RunFunctor(f)

User(t) ==
    /\ loopPc # "aborted"
    /\ \/ \E op \in Ops, f \in Families : Call(t, op, f)
       \/ CallReceive(t, "start") \/ CallReceive(t, "stop")
       \/ Destroy(t)

Next ==
    \/ LoopStep
    \/ \E t \in Threads : User(t) \/ Proceed(t)

Spec == Init /\ [][Next]_vars

\* The loop thread keeps running, and calls return.
FairSpec == Spec /\ WF_vars(LoopStep) /\ \A t \in Threads : WF_vars(Proceed(t))

-----------------------------------------------------------------------------
(* Properties.                                                             *)

Settled == pending = {} /\ \A t \in Threads : pc[t] = "idle"

\* isReceiving() tells the truth of a socket that one thread uses, the loop's or
\* another; threads that share it can leave state_ and the interest in
\* disagreement.  When no call is under way and no functor is queued, exactly
\* the channel of a socket in kReceiving is registered, and it is bound
\* (startReceive, stopReceive).  epoll never watches a closed descriptor: nothing
\* enables a channel after its cleanup (Poller::update would abort).
\* Excepted are the channels of which a functor in the ring has overtaken an
\* earlier one in the vector, or the reverse (queueInLoop, doPendingFunctors).
ReceivingAgrees ==
    /\ Settled => \A s \in Socks \ overtaken : sock[s].reg <=> (s = channel /\ state = "Receiving")
    /\ state = "Receiving" => sock[sockfd].bound
    /\ \A s \in Socks \ overtaken : sock[s].reg => sock[s].fd

\* Every descriptor that is open is the socket's, or a queued cleanup will close
\* it: calls that open the socket lazily lose none (ensureSocket, bind).
SocketsOwned ==
    \A s \in Socks : sock[s].fd => sockfd = s \/ \E f \in pending : f.op = "cleanup" /\ f.sock = s

\* A Channel whose address is still in activeChannels_ is not freed, although
\* nothing ties it to its owner (cleanupUdpSocket), whatever order the functors
\* run in.  The one exception is a channel that its cleanup has overtaken: it is
\* registered again, for a number that another object has in use by then.
ChannelOutlivesRound ==
    \A s \in active \ {Other} : Live(s) \/ (sock[s].reg /\ ~sock[s].fd)

(* The inductive invariant behind the three, when one thread uses the socket. *)

Places == {"idle", "ensure", "create", "ensured", "start", "stop"} \cup Holding

TypeOK ==
    /\ sockfd \in Socks \cup {None}
    /\ state \in {"Closed", "Opened", "Bound", "Receiving"}
    /\ sock \in [Socks -> [fd : BOOLEAN, bound : BOOLEAN, reg : BOOLEAN]]
    /\ opened \in 0..MaxSocks
    /\ pc \in [Threads -> Places]
    /\ DOMAIN call = Threads
    /\ ticket \in Nat
    /\ \A f \in pending : /\ f.op \in {"enable", "disable", "hold", "cleanup"}
                          /\ f.sock \in 1..opened
                          /\ f.at \in 1..ticket
    /\ overtaken \subseteq Socks
    /\ active \subseteq Socks \cup {Other}
    /\ loopPc \in {"poll", "dispatch", "callback", "functors", "swap", "batch", "aborted"}

\* Only the user is inside a call, and the loop thread queues nothing but holds.
SoleUser ==
    \E u \in Threads :
        /\ users = {u}
        /\ \A t \in Threads : t # u => pc[t] = "idle"
        /\ u = Loop => \A f \in pending : f.op = "hold"

\* The fields of the object tell one story, also half way through a call.
FieldsAgree ==
    /\ channel = sockfd
    /\ sockfd = None <=> state = "Closed"
    /\ sockfd # None => sockfd <= opened /\ sock[sockfd].fd
    /\ state \in {"Bound", "Receiving"} => sock[sockfd].bound
    /\ \A t \in Threads :
          /\ pc[t] = "create" => sockfd = None
          /\ pc[t] = "ensured" => sockfd # None
          /\ pc[t] \in Holding => call[t].chan = sockfd /\ sockfd # None
          /\ pc[t] = "storeReceiving" => state = "Bound"
          /\ pc[t] \in {"enable", "storeBound"} => state = "Receiving"
          /\ pc[t] = "disable" => state # "Receiving"

\* The functor that acts last on its channel if none overtakes another.
Last(f) == f \in pending /\ Acts(f) /\ \A g \in Acting(f.sock) : g.at <= f.at

\* A cleanup is the last functor to act on its descriptor, which is open until
\* then and no longer the object's.
CleanupLast ==
    \A f \in pending :
        /\ f.op = "cleanup" => f.sock # sockfd /\ Last(f)
        /\ Acts(f) /\ f.sock \notin overtaken => sock[f.sock].fd

\* The registration is what the state says, or will be when the last functor
\* that acts on the channel has run, or is about to be queued.
RegistrationDue ==
    \A s \in Socks \ overtaken :
        (\A t \in Threads : pc[t] \in {"enable", "disable"} => call[t].chan # s) =>
            /\ Acting(s) = {} => (sock[s].reg <=> (s = sockfd /\ state = "Receiving"))
            /\ \A f \in Acting(s) : Last(f) =>
                   (f.op = "enable" <=> (s = sockfd /\ state = "Receiving"))

OpenWatched == \A s \in Socks \ overtaken : sock[s].reg => sock[s].fd
NeverOpened == \A s \in Socks : s > opened => ~sock[s].fd /\ ~sock[s].reg
OwnTickets == \A f, g \in pending : f.at = g.at => f = g
RoundOver == loopPc \notin {"dispatch", "callback", "aborted"} => active = {}

IndInv ==
    /\ TypeOK /\ SoleUser /\ FieldsAgree /\ CleanupLast /\ RegistrationDue
    /\ SocketsOwned /\ ChannelOutlivesRound
    /\ OpenWatched /\ NeverOpened /\ OwnTickets /\ RoundOver

\* After the destructor every descriptor is closed in the end, unless enabling a
\* closed one has ended the program.
DestroyedCloses == ~alive ~> (\A s \in Socks : ~sock[s].fd) \/ loopPc = "aborted"
=============================================================================
