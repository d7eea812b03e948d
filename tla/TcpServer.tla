----------------------------- MODULE TcpServer -----------------------------
(***************************************************************************)
(* src/TcpServer.cpp: the Acceptor, the map of connections, start() from   *)
(* any thread and the destructor on and off the loop thread, together with *)
(* the rounds of the loop thread that run their handlers and functors.     *)
(*                                                                         *)
(* An object kept by shared_ptr lives as long as something refers to it:   *)
(* Live and AcceptorHeld list the references.  A connection is seen from   *)
(* the server; what happens inside it is in TcpConnection.tla.             *)
(***************************************************************************)
EXTENDS Integers, Sequences, FiniteSets

CONSTANTS MaxConns,   \* peers that ever connect
          Starters,   \* threads other than the loop's that call start()
          MaxStarts,  \* calls of start(), of all threads together
          MaxFds,     \* the process's limit on descriptors, as far as it is free
          Base,       \* the base connection numbers are written in: 10
          NameRoom,   \* digits of the number that fit into buf[64]
          AcceptCh,   \* the accept channel, among the channels of a round
          None

Conns == 1..MaxConns

ASSUME BoundsAssumption == {MaxConns, MaxStarts, NameRoom} \subseteq Nat
ASSUME FdsAssumption == MaxFds \in Nat \ {0}   \* the spare descriptor of the acceptor
ASSUME BaseAssumption == Base \in Nat \ {0, 1}
ASSUME ChannelsAssumption == AcceptCh \notin Conns /\ None \notin Conns \cup {AcceptCh}

VARIABLES
    state,       \* TcpServer::state_
    server,      \* "alive", "gone", or what a destructor off the loop thread does
                 \* next: "store", "move", "drop", "hand"
    acceptor,    \* the Acceptor; "held" is TcpServer::acceptor_
    conn,        \* each connection's state, registration and socket
    connections, \* the map from names to connections
    nextConnId,
    doomed,      \* connections a destructor off the loop thread still holds
    pending,     \* functors queued for the loop thread
    active,      \* activeChannels_ not handled yet
    current,     \* the channel being handled: its tie() guard is a reference
    loopPc,      \* the loop thread's place in loop() and in Acceptor::handleRead()
    startPc,     \* each starter's place in start()
    starts,      \* calls of start() so far
    arrived,     \* peers that have come so far
    backlog,     \* peers waiting to be accepted
    others,      \* descriptors in use elsewhere in the process
    cut,         \* history: connections that a destructor on the loop thread
                 \* destroyed while this round's channels were being handled
    orphans      \* history: connections newConnection() made after a destructor
                 \* off the loop thread had taken the map

acceptVars == <<state, server, acceptor>>
connVars == <<conn, connections, nextConnId, doomed>>
histVars == <<cut, orphans>>
loopVars == <<active, current, loopPc>>
startVars == <<startPc, starts>>
kernelVars == <<arrived, backlog, others>>
vars == <<acceptVars, connVars, pending, loopVars, startVars, kernelVars, histVars>>

-----------------------------------------------------------------------------
(* References, descriptors and names.                                      *)

Functor(op, c) == [op |-> op, conn |-> c]
Queued(op, p) == \E i \in DOMAIN p : p[i].op = op
Without(p, i) == SubSeq(p, 1, i - 1) \o SubSeq(p, i + 1, Len(p))

\* callbackToken_ can still be locked.
Token == server = "alive"

\* A connection is referred to by the map, by the destructor's local copy of
\* it, by functors and by the guard of the handler that is running.
Held(c) ==
    \/ \E n \in DOMAIN connections : connections[n] = c
    \/ c \in doomed
    \/ current = c
    \/ \E i \in DOMAIN pending : pending[i].conn = c
Created(c) == c < nextConnId
Live(c) == Created(c) /\ Held(c)

\* The acceptor is referred to by the server, by queued starts and by the guard
\* of its running handler.
AcceptorHeld(a, cur, p) == a.held \/ cur = AcceptCh \/ Queued("start", p)

\* acceptChannel_ is also kept by the cleanup and by the functor it queues.
AcceptChannelLive ==
    acceptor.alive \/ Queued("cleanup", pending) \/ Queued("hold", pending)

\* ~TcpConnection() closes what connectDestroyed() has not.
SocketOpen(c) == Live(c) /\ conn[c].fd
Used ==
    others + (Cardinality({c \in Conns : SocketOpen(c)}) + (IF loopPc = "new" THEN 1 ELSE 0))
    + (IF acceptor.sock THEN 1 ELSE 0) + (IF acceptor.idle THEN 1 ELSE 0)
FdFree == Used < MaxFds

\* snprintf() cuts the number that makes a name unique when the server's name
\* leaves too little room in buf.
NameOf(id) ==
    IF id < Base ^ NameRoom THEN id
    ELSE LET lost == CHOOSE k \in 1..id : /\ id \div Base ^ k < Base ^ NameRoom
                                          /\ id \div Base ^ (k - 1) >= Base ^ NameRoom
         IN  id \div Base ^ lost

Init ==
    /\ state = "Idle"
    /\ server = "alive"
    /\ acceptor \in [held : {TRUE}, alive : {TRUE}, listening : {FALSE},
                     sock : {FALSE}, reg : {FALSE}, idle : BOOLEAN]
    /\ conn = [c \in Conns |-> [st |-> "Connecting", reg |-> FALSE, fd |-> FALSE]]
    /\ connections = <<>>
    /\ nextConnId = 1
    /\ doomed = {}
    /\ pending = <<>>
    /\ active = {} /\ current = None /\ loopPc = "functors"
    /\ startPc = [t \in Starters |-> "idle"] /\ starts = 0
    /\ arrived = 0 /\ backlog = 0 /\ others = 0
    /\ cut = {} /\ orphans = {}

-----------------------------------------------------------------------------
(* Acceptor: listen(), the destructor, cleanupAcceptor().                   *)

\* The socket is created, bound and listening, or a step of it fails and what
\* had been opened is closed again.
listen(a) ==
    IF a.listening THEN {a}
    ELSE {a} \cup (IF FdFree
                   THEN {[a EXCEPT !.listening = TRUE, !.sock = TRUE, !.reg = TRUE]}
                   ELSE {})

cleanupAcceptor(a) == [a EXCEPT !.alive = FALSE, !.sock = FALSE, !.reg = FALSE, !.idle = FALSE]

\* Mutant: the channel is not kept until the round is over.
ReleaseBug(a, cur, p) ==
    IF a.alive /\ ~AcceptorHeld(a, cur, p)
    THEN acceptor' = cleanupAcceptor(a) /\ pending' = p
    ELSE acceptor' = a /\ pending' = p

\* The loop thread lets go of a reference to the acceptor; if it was the last,
\* ~Acceptor() cleans up at once and queues a functor that keeps the channel.
Release(a, cur, p) ==
    IF a.alive /\ ~AcceptorHeld(a, cur, p)
    THEN /\ acceptor' = cleanupAcceptor(a)
         /\ pending' = IF a.listening THEN Append(p, Functor("hold", None)) ELSE p
    ELSE acceptor' = a /\ pending' = p

-----------------------------------------------------------------------------
(* start().                                                                *)

\* "closing" is inside the connection callback that handleClose() calls.
InUserCode == loopPc \in {"dispatch", "conn", "closing", "accept", "functors"}

\* On the loop thread the whole call is one step: a store of kStarting by
\* another thread comes before it or after it.
LoopStart ==
    /\ InUserCode /\ Token
    /\ starts < MaxStarts
    /\ starts' = starts + 1
    /\ IF state # "Idle" THEN UNCHANGED <<state, acceptor>>
       ELSE \E a \in listen(acceptor) :
                /\ acceptor' = a
                /\ state' = IF a.listening THEN "Listening" ELSE "Idle"
    /\ UNCHANGED <<server, connVars, pending, loopVars, startPc, kernelVars, histVars>>

StartLoad(t) ==
    /\ startPc[t] = "idle" /\ Token
    /\ starts < MaxStarts
    /\ starts' = starts + 1
    /\ startPc' = [startPc EXCEPT ![t] = IF state = "Idle" THEN "store" ELSE "idle"]
    /\ UNCHANGED <<acceptVars, connVars, pending, loopVars, kernelVars, histVars>>

StartStore(t) ==
    /\ startPc[t] = "store"
    /\ state' = "Starting"
    /\ startPc' = [startPc EXCEPT ![t] = "queue"]
    /\ UNCHANGED <<server, acceptor, connVars, pending, loopVars, starts, kernelVars, histVars>>

StartQueue(t) ==
    /\ startPc[t] = "queue"
    /\ pending' = Append(pending, Functor("start", None))
    /\ startPc' = [startPc EXCEPT ![t] = "idle"]
    /\ UNCHANGED <<acceptVars, connVars, loopVars, starts, kernelVars, histVars>>

Start(t) == StartStore(t) \/ StartQueue(t)

-----------------------------------------------------------------------------
(* Connections.                                                            *)

\* A destructor off the loop thread has taken what the map held.
MapTaken == server \in {"drop", "hand", "gone"}

\* newConnection() with the connectEstablished() it runs.  A name in use is
\* taken over and its former connection loses the map's reference.
newConnection(c) ==
    /\ conn' = [conn EXCEPT ![c] = [st |-> "Connected", reg |-> TRUE, fd |-> TRUE]]
    /\ connections' = [n \in DOMAIN connections \cup {NameOf(c)} |->
                           IF n = NameOf(c) THEN c ELSE connections[n]]
    /\ nextConnId' = c + 1
    /\ orphans' = IF MapTaken THEN orphans \cup {c} ELSE orphans

connectDestroyed(cs) ==
    [c \in Conns |-> IF c \in cs THEN [st |-> "Disconnected", reg |-> FALSE, fd |-> FALSE]
                     ELSE conn[c]]

Erase(name) == [n \in DOMAIN connections \ {name} |-> connections[n]]

\* The peer closes, or the connection fails: handleClose() up to the connection
\* callback.
HandleClose(c) ==
    /\ loopPc = "conn" /\ current = c
    /\ conn[c].st = "Connected"
    /\ conn' = [conn EXCEPT ![c].st = "Disconnected", ![c].reg = FALSE]
    /\ loopPc' = "closing"
    /\ UNCHANGED <<acceptVars, connections, nextConnId, doomed, pending, active, current,
                   startVars, kernelVars, histVars>>

\* The close callback tests the token.  A destructor may be replacing the
\* callback at that moment.
CloseCallback ==
    /\ loopPc = "closing"
    /\ \/ loopPc' = IF Token THEN "remove" ELSE "conn"
       \/ server = "hand" /\ current \in doomed /\ loopPc' = "aborted"
    /\ UNCHANGED <<acceptVars, connVars, pending, active, current, startVars, kernelVars, histVars>>

\* removeConnection() takes the token from the server and tests it again.
RemoveConnection ==
    /\ loopPc = "remove"
    /\ loopPc' = IF Token THEN "erase" ELSE "conn"
    /\ UNCHANGED <<acceptVars, connVars, pending, active, current, startVars, kernelVars, histVars>>

RemoveConnectionInLoop ==
    /\ loopPc = "erase"
    /\ connections' = Erase(NameOf(current))
    /\ pending' = Append(pending, Functor("destroy", current))
    /\ loopPc' = "conn"
    /\ UNCHANGED <<acceptVars, conn, nextConnId, doomed, active, current,
                   startVars, kernelVars, histVars>>

-----------------------------------------------------------------------------
(* The rounds of the loop thread.                                          *)

\* Level-triggered: the accept channel is active whenever peers wait, a
\* connection's whenever its peer has done something.
Poll ==
    /\ loopPc = "poll"
    /\ \E cs \in SUBSET {c \in Conns : Live(c) /\ conn[c].reg} :
           active' = cs \cup (IF acceptor.reg /\ backlog > 0 THEN {AcceptCh} ELSE {})
    /\ loopPc' = "dispatch"
    /\ cut' = {}
    /\ UNCHANGED <<acceptVars, connVars, pending, current, startVars, kernelVars, orphans>>

\* Channel::handleEvent() of a connection; tie() makes the guard.
EnterConn(c) ==
    /\ loopPc = "dispatch" /\ c \in active /\ Live(c)
    /\ active' = active \ {c}
    /\ current' = c
    /\ loopPc' = "conn"
    /\ UNCHANGED <<acceptVars, connVars, pending, startVars, kernelVars, histVars>>

LeaveConn ==
    /\ loopPc = "conn"
    /\ current' = None
    /\ loopPc' = "dispatch"
    /\ UNCHANGED <<acceptVars, connVars, pending, active, startVars, kernelVars, histVars>>

\* The Channel was freed with its connection: the call is undefined, and does
\* nothing or ends the process.
EnterFreed(c) ==
    /\ loopPc = "dispatch" /\ c \in active \cap Conns /\ ~Live(c)
    /\ active' = active \ {c}
    /\ loopPc' \in {"dispatch", "aborted"}
    /\ UNCHANGED <<acceptVars, connVars, pending, current, startVars, kernelVars, histVars>>

\* The tie of the accept channel cannot be locked once the acceptor is gone.
EnterAccept ==
    /\ loopPc = "dispatch" /\ AcceptCh \in active
    /\ active' = active \ {AcceptCh}
    /\ IF acceptor.alive THEN current' = AcceptCh /\ loopPc' = "accept"
       ELSE UNCHANGED <<current, loopPc>>
    /\ UNCHANGED <<acceptVars, connVars, pending, startVars, kernelVars, histVars>>

\* accept() returns a descriptor and the token is tested; without the server
\* the descriptor is closed again.
AcceptOne ==
    /\ loopPc = "accept" /\ backlog > 0 /\ FdFree
    /\ backlog' = backlog - 1
    /\ loopPc' = IF Token THEN "new" ELSE "accept"
    /\ UNCHANGED <<acceptVars, connVars, pending, active, current, startVars,
                   arrived, others, histVars>>

NewConnection ==
    /\ loopPc = "new"
    /\ newConnection(nextConnId)
    /\ loopPc' = "accept"
    /\ UNCHANGED <<acceptVars, doomed, pending, active, current, startVars, kernelVars, cut>>

LeaveAccept ==
    /\ current' = None
    /\ loopPc' = "dispatch"
    /\ Release(acceptor, None, pending)
    /\ UNCHANGED <<state, server, connVars, active, startVars, arrived, others, histVars>>

\* EAGAIN
AcceptAgain ==
    /\ loopPc = "accept" /\ backlog = 0
    /\ LeaveAccept /\ UNCHANGED backlog

\* ECONNABORTED takes the peer off the queue; EINTR, EPROTO and EPERM do not.
AcceptFails ==
    /\ loopPc = "accept" /\ backlog > 0
    /\ backlog' \in {backlog - 1, backlog}
    /\ LeaveAccept

\* The errors SocketsOps' accept() gives up on.
AcceptAborts ==
    /\ loopPc = "accept" /\ backlog > 0
    /\ loopPc' = "aborted"
    /\ UNCHANGED <<acceptVars, connVars, pending, active, current, startVars, kernelVars, histVars>>

\* Mutant: handleRead() gives up when there is no descriptor.
CloseIdleBug ==
    /\ loopPc = "accept" /\ ~FdFree
    /\ LeaveAccept /\ UNCHANGED backlog

\* EMFILE: give up the idle descriptor,
CloseIdle ==
    /\ loopPc = "accept" /\ ~FdFree
    /\ acceptor' = [acceptor EXCEPT !.idle = FALSE]
    /\ loopPc' = "emfileAccept"
    /\ UNCHANGED <<state, server, connVars, pending, active, current, startVars, kernelVars, histVars>>

\* take a peer and drop it, if no other thread was quicker,
AcceptAndDrop ==
    /\ loopPc = "emfileAccept"
    /\ backlog' = IF FdFree /\ backlog > 0 THEN backlog - 1 ELSE backlog
    /\ loopPc' = "emfileOpen"
    /\ UNCHANGED <<acceptVars, connVars, pending, active, current, startVars, arrived, others, histVars>>

\* and open the idle descriptor again, or fail to.
OpenIdle ==
    /\ loopPc = "emfileOpen"
    /\ current' = None /\ loopPc' = "dispatch"
    /\ Release([acceptor EXCEPT !.idle = FdFree], None, pending)
    /\ UNCHANGED <<state, server, connVars, active, startVars, kernelVars, histVars>>

EndDispatch ==
    /\ loopPc = "dispatch" /\ active = {}
    /\ loopPc' = "functors"
    /\ UNCHANGED <<acceptVars, connVars, pending, active, current, startVars, kernelVars, histVars>>

-----------------------------------------------------------------------------
(* Functors, in any order: queueInLoop() has two queues.                    *)

Take(i, op) ==
    /\ loopPc = "functors"
    /\ i \in DOMAIN pending /\ pending[i].op = op

\* The functor of start() tests the token.
RunStart(i) ==
    /\ Take(i, "start")
    /\ IF Token THEN loopPc' = "starting" /\ UNCHANGED <<acceptor, pending>>
       ELSE Release(acceptor, None, Without(pending, i)) /\ UNCHANGED loopPc
    /\ UNCHANGED <<state, server, connVars, active, current, startVars, kernelVars, histVars>>

\* Mutant: a failed listen() leaves the state as it was.
ListenAndStoreBug ==
    /\ loopPc = "starting"
    /\ \E i \in DOMAIN pending, a \in listen(acceptor) :
           /\ pending[i].op = "start"
           /\ Release(a, None, Without(pending, i))
           /\ state' = IF a.listening THEN "Listening" ELSE state
    /\ loopPc' = "functors"
    /\ UNCHANGED <<server, connVars, active, current, startVars, kernelVars, histVars>>

\* It then listens and stores the outcome.  Until it returns it keeps the
\* acceptor, as if it were still queued.
ListenAndStore ==
    /\ loopPc = "starting"
    /\ \E i \in DOMAIN pending, a \in listen(acceptor) :
           /\ pending[i].op = "start"
           /\ Release(a, None, Without(pending, i))
           /\ state' = IF a.listening THEN "Listening" ELSE "Idle"
    /\ loopPc' = "functors"
    /\ UNCHANGED <<server, connVars, active, current, startVars, kernelVars, histVars>>

RunDestroy(i) ==
    /\ Take(i, "destroy")
    /\ conn' = connectDestroyed({pending[i].conn})
    /\ pending' = Without(pending, i)
    /\ UNCHANGED <<acceptVars, connections, nextConnId, doomed, loopVars, startVars, kernelVars, histVars>>

\* Mutant: the sockets are left to nobody.
RunCleanupBug(i) ==
    /\ Take(i, "cleanup")
    /\ acceptor' = [acceptor EXCEPT !.reg = FALSE]
    /\ pending' = Without(pending, i)
    /\ UNCHANGED <<state, server, connVars, loopVars, startVars, kernelVars, histVars>>

\* The cleanup a destructor off the loop thread has queued.
RunCleanup(i) ==
    /\ Take(i, "cleanup")
    /\ acceptor' = cleanupAcceptor(acceptor)
    /\ pending' = IF acceptor.listening
                  THEN Append(Without(pending, i), Functor("hold", None))
                  ELSE Without(pending, i)
    /\ UNCHANGED <<state, server, connVars, loopVars, startVars, kernelVars, histVars>>

RunHold(i) ==
    /\ Take(i, "hold")
    /\ pending' = Without(pending, i)
    /\ UNCHANGED <<acceptVars, connVars, loopVars, startVars, kernelVars, histVars>>

RunFunctor ==
    \E i \in DOMAIN pending : RunStart(i) \/ RunDestroy(i) \/ RunCleanup(i) \/ RunHold(i)

EndFunctors ==
    /\ loopPc = "functors"
    /\ loopPc' = "poll"
    /\ UNCHANGED <<acceptVars, connVars, pending, active, current, startVars, kernelVars, histVars>>

-----------------------------------------------------------------------------
(* ~TcpServer().  No other thread is inside start(), but the loop thread may *)
(* be anywhere.                                                            *)

MayDestroy == Token /\ \A t \in Starters : startPc[t] = "idle"

InMap == {connections[n] : n \in DOMAIN connections}

\* On the loop thread every connection is destroyed at once.
LoopDestroy ==
    /\ InUserCode /\ MayDestroy
    /\ server' = "gone"
    /\ state' = "Idle"
    /\ conn' = connectDestroyed(InMap)
    /\ connections' = <<>>
    /\ Release([acceptor EXCEPT !.held = FALSE], current, pending)
    /\ cut' = IF loopPc = "functors" THEN cut ELSE cut \cup InMap
    /\ UNCHANGED <<nextConnId, doomed, loopVars, startVars, kernelVars, orphans>>

\* On another thread the token goes first,
OtherDestroyBegin ==
    /\ MayDestroy
    /\ server' = "store"
    /\ UNCHANGED <<state, acceptor, connVars, pending, loopVars, startVars, kernelVars, histVars>>

\* then the state,
OtherDestroyStore ==
    /\ server = "store"
    /\ server' = "move"
    /\ state' = "Idle"
    /\ UNCHANGED <<acceptor, connVars, pending, loopVars, startVars, kernelVars, histVars>>

\* the map is taken over,
OtherDestroyMove ==
    /\ server = "move"
    /\ server' = "drop"
    /\ doomed' = InMap
    /\ connections' = <<>>
    /\ UNCHANGED <<state, acceptor, conn, nextConnId, pending, loopVars, startVars, kernelVars, histVars>>

\* the acceptor is let go,
OtherDestroyDrop ==
    /\ server = "drop"
    /\ server' = "hand"
    /\ LET a == [acceptor EXCEPT !.held = FALSE]
       IN  IF AcceptorHeld(a, current, pending)
           THEN acceptor' = a /\ UNCHANGED pending
           ELSE /\ acceptor' = [a EXCEPT !.alive = FALSE]
                /\ pending' = Append(pending, Functor("cleanup", None))
    /\ UNCHANGED <<state, connVars, loopVars, startVars, kernelVars, histVars>>

\* Mutant: the connection is only let go.
OtherDestroyConnBug(c) ==
    /\ server = "hand" /\ c \in doomed
    /\ doomed' = doomed \ {c}
    /\ UNCHANGED <<acceptVars, conn, connections, nextConnId, pending, loopVars, startVars, kernelVars, histVars>>

\* and then one connection after the other is handed to the loop thread.
OtherDestroyConn(c) ==
    /\ server = "hand" /\ c \in doomed
    /\ doomed' = doomed \ {c}
    /\ pending' = Append(pending, Functor("destroy", c))
    /\ UNCHANGED <<acceptVars, conn, connections, nextConnId, loopVars, startVars, kernelVars, histVars>>

\* At last the members go, and with the map what was put into it since: the
\* assert of ~TcpConnection() ends the process or is compiled out.
OtherDestroyEnd ==
    /\ server = "hand" /\ doomed = {}
    /\ server' = "gone"
    /\ connections' = <<>>
    /\ \/ UNCHANGED loopPc
       \/ InMap # {} /\ loopPc' = "aborted"
    /\ UNCHANGED <<state, acceptor, conn, nextConnId, doomed, pending, active, current,
                   startVars, kernelVars, histVars>>

Destroyer ==
    \/ OtherDestroyStore \/ OtherDestroyMove \/ OtherDestroyDrop \/ OtherDestroyEnd
    \/ \E c \in Conns : OtherDestroyConn(c)

\* The token says nothing of the time after its test.  The loop thread may use
\* the map while the destructor takes it, and any member when it is freed: that
\* has the effect the memory's contents give it, or ends the process.
UsedTooLate ==
    /\ \/ loopPc \in {"new", "erase"} /\ ~Token
       \/ loopPc \in {"remove", "starting"} /\ server = "gone"
    /\ loopPc' = "aborted"
    /\ UNCHANGED <<acceptVars, connVars, pending, active, current, startVars, kernelVars, histVars>>

-----------------------------------------------------------------------------
(* The outside world.                                                      *)

\* Peers come while the kernel listens, and no more than MaxConns in all.
PeerArrives ==
    /\ acceptor.sock
    /\ arrived < MaxConns
    /\ arrived' = arrived + 1
    /\ backlog' = backlog + 1
    /\ UNCHANGED <<acceptVars, connVars, pending, loopVars, startVars, others, histVars>>

OthersOpen ==
    /\ FdFree
    /\ others' = others + 1
    /\ UNCHANGED <<acceptVars, connVars, pending, loopVars, startVars, arrived, backlog, histVars>>

OthersClose ==
    /\ others > 0
    /\ others' = others - 1
    /\ UNCHANGED <<acceptVars, connVars, pending, loopVars, startVars, arrived, backlog, histVars>>

-----------------------------------------------------------------------------
Handlers ==
    \/ Poll \/ EnterAccept \/ AcceptAgain \/ EndDispatch
    \/ NewConnection \/ AcceptAndDrop \/ OpenIdle \/ LeaveConn
    \/ CloseCallback \/ RemoveConnection \/ RemoveConnectionInLoop \/ ListenAndStore
    \/ \E c \in Conns : EnterConn(c) \/ EnterFreed(c)

User == LoopStart \/ LoopDestroy \/ OtherDestroyBegin \/ \E t \in Starters : StartLoad(t)

Next ==
    /\ loopPc # "aborted"
    /\ \/ Handlers \/ AcceptOne \/ CloseIdle \/ AcceptFails \/ AcceptAborts
       \/ RunFunctor \/ EndFunctors \/ Destroyer \/ UsedTooLate \/ User
       \/ \E t \in Starters : Start(t)
       \/ \E c \in Conns : HandleClose(c)
       \/ PeerArrives \/ OthersOpen \/ OthersClose

Spec == Init /\ [][Next]_vars

\* The loop thread keeps running; accept() is not interrupted for ever and a
\* functor is not left over for ever (doPendingFunctors() empties both queues
\* in every round); a thread inside start() or the destructor gets out of it.
Fairness ==
    /\ WF_vars(Handlers) /\ WF_vars(EndFunctors)
    /\ SF_vars(AcceptOne) /\ SF_vars(CloseIdle) /\ SF_vars(RunFunctor)
    /\ WF_vars(Destroyer)
    /\ \A t \in Starters : WF_vars(Start(t))

FairSpec == Spec /\ Fairness

-----------------------------------------------------------------------------
(* Properties.                                                             *)

TypeOK ==
    /\ state \in {"Idle", "Starting", "Listening"}
    /\ server \in {"alive", "store", "move", "drop", "hand", "gone"}
    /\ acceptor \in [held : BOOLEAN, alive : BOOLEAN, listening : BOOLEAN,
                     sock : BOOLEAN, reg : BOOLEAN, idle : BOOLEAN]
    /\ conn \in [Conns -> [st : {"Connecting", "Connected", "Disconnected"},
                           reg : BOOLEAN, fd : BOOLEAN]]
    /\ InMap \subseteq Conns /\ doomed \subseteq Conns
    /\ nextConnId \in 1..(MaxConns + 1)
    /\ pending \in Seq([op : {"start", "destroy", "cleanup", "hold"}, conn : Conns \cup {None}])
    /\ active \subseteq Conns \cup {AcceptCh}
    /\ Used <= MaxFds

\* Whatever start() calls of several threads do to each other, once none of
\* them is under way state_ says whether the acceptor listens, and kListening is
\* never reported before (TcpServer::start).
StartSettles ==
    Token =>
        /\ state = "Listening" => acceptor.listening /\ acceptor.reg
        /\ (~Queued("start", pending) /\ \A t \in Starters : startPc[t] = "idle")
               => state = (IF acceptor.listening THEN "Listening" ELSE "Idle")

\* No channel that is still to be handled in this round has been freed: not the
\* accept channel in any case (cleanupAcceptor keeps it), and a connection's
\* unless a callback of the same round destroyed the server, or another thread
\* had taken the map before newConnection() put the connection into it
\* (EventLoop::loop's activeChannels_).
ActiveChannelsLive ==
    /\ AcceptCh \in active => AcceptChannelLive
    /\ \A c \in active \cap Conns : Live(c) \/ c \in cut \cup orphans

\* The connection whose end the server has not heard of yet.
Closing == IF loopPc \in {"closing", "remove", "erase"} THEN {current} ELSE {}

\* The map of a living server holds exactly the established connections.
MapIsEstablished ==
    Token => InMap = {c \in Conns : Created(c) /\ conn[c].st = "Connected"} \cup Closing

\* removeConnectionInLoop() finds the connection it erases, under its own name:
\* its assert(n == 1).  A destructor that begins after the last test of the token
\* may empty the map first.
EraseFindsOne ==
    loopPc = "erase" /\ Token =>
        NameOf(current) \in DOMAIN connections /\ connections[NameOf(current)] = current

\* A connection that nothing refers to any more was disconnected first: the
\* assert of ~TcpConnection().  Its channel is no longer registered.  The ones
\* put into a map that had been taken are the exception.
DestroyedDisconnected ==
    \A c \in Conns \ orphans :
        Created(c) /\ ~Live(c) => conn[c].st = "Disconnected" /\ ~conn[c].reg

\* The assertions on the map and in ~TcpConnection() hold as long as the numbers
\* fit into the names, and descriptors are never counted past the process's limit.
AssertionsHold == TypeOK /\ MapIsEstablished /\ EraseFindsOne /\ DestroyedDisconnected

\* After the destructor, wherever it ran and whatever was under way, every
\* descriptor the server had is closed, the ones of connections put into a map
\* that had been taken excepted (~TcpServer, ~Acceptor, connectDestroyed).
EverythingReleased ==
    server # "alive" ~>
        \/ loopPc = "aborted"
        \/ ~acceptor.sock /\ ~acceptor.idle /\ \A c \in Conns \ orphans : ~SocketOpen(c)

\* A peer does not wait for ever: it is accepted or dropped, unless the spare
\* descriptor was lost to another thread while none is free (Acceptor::handleRead).
PeersTaken ==
    \A n \in Conns :
        backlog = n ~> \/ backlog # n
                       \/ server # "alive" \/ loopPc = "aborted"
                       \/ ~acceptor.idle /\ ~FdFree
=============================================================================
