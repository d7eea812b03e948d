-------------------------- MODULE TcpServerProofs --------------------------
(* A server that any number of threads start, destroyed on the loop thread  *)
(* or off it: state_ settles on what the acceptor does, no channel is freed *)
(* while a round still has to handle it, and the map of connections holds   *)
(* the established ones, whatever the number of peers and descriptors.      *)
EXTENDS TcpServer, FiniteSetTheorems, TLAPS

\* A leaf is tried with Zenon, then SMT, unless it names its prover.
USE ZenonT(30), SMTT(30)

FunctorType ==
    [op : {"destroy"}, conn : Conns] \cup [op : {"start", "cleanup", "hold"}, conn : {None}]
AcceptorType == [held : BOOLEAN, alive : BOOLEAN, listening : BOOLEAN,
                 sock : BOOLEAN, reg : BOOLEAN, idle : BOOLEAN]

\* The functors of a queue: the loop thread may run any of them next.
Elems(p) == {p[i] : i \in DOMAIN p}

\* The connections that functors hold and will destroy.
ToDestroy(p) == {c \in Conns : Functor("destroy", c) \in Elems(p)}

\* The places of ~TcpServer() off the loop thread.
Phases == {"alive", "store", "move", "drop", "hand", "gone"}

\* state_ says what the acceptor does, or a start() is under way that will say so.
Settles ==
    \/ state = (IF acceptor.listening THEN "Listening" ELSE "Idle")
    \/ Queued("start", pending)
    \/ \E t \in Starters : startPc[t] = "queue"

\* A connection's handler runs with the connection's guard.
HandlerInv == loopPc \in {"conn", "closing", "remove", "erase"} => current \in Conns

\* The acceptor, the calls of start() and the accept channel of a round.
AcceptInv ==
    /\ state \in {"Idle", "Starting", "Listening"}
    /\ server \in Phases
    /\ acceptor \in AcceptorType
    /\ pending \in Seq(FunctorType)
    /\ active \subseteq Conns \cup {AcceptCh}
    /\ startPc \in [Starters -> {"idle", "store", "queue"}]
    /\ loopPc \in {"poll", "functors", "starting"} => active = {}
    /\ Token => /\ acceptor.held /\ acceptor.alive
                /\ ~Queued("cleanup", pending)
                /\ state = "Listening" => acceptor.listening
                /\ acceptor.listening => acceptor.reg
                /\ Settles
    /\ \A t \in Starters : startPc[t] # "idle" => Token
    /\ Queued("start", pending) => acceptor.alive
    /\ Queued("cleanup", pending) => ~acceptor.alive
    /\ acceptor.reg => acceptor.listening /\ (acceptor.alive \/ Queued("cleanup", pending))
    /\ AcceptCh \in active => acceptor.listening /\ AcceptChannelLive

\* The server's name leaves room for the number in the buffer of newConnection().
NumbersFit == \A c \in Conns : c < Base ^ NameRoom

\* Then no two connections have one name.
NamesDiffer == \A c, d \in Conns : NameOf(c) = NameOf(d) => c = d

\* What still has to be disconnected is in the map, in the destructor's copy of
\* it, or in a functor, unless it came after the copy was made.
Owned(c) ==
    \/ conn[c].st = "Disconnected" /\ ~conn[c].reg
    \/ c \in InMap \/ c \in doomed \/ c \in ToDestroy(pending)
    \/ c \in orphans

\* The places of the loop thread outside handlers, and after a connection's end.
AtRest == {"poll", "dispatch", "functors", "starting"}
Closes == {"closing", "remove", "erase"}

\* The connections, the references to them and the peers that wait.
ConnInv ==
    /\ conn \in [Conns -> [st : {"Connecting", "Connected", "Disconnected"},
                           reg : BOOLEAN, fd : BOOLEAN]]
    /\ nextConnId \in 1..(MaxConns + 1)
    /\ arrived \in 0..MaxConns /\ backlog \in Nat /\ nextConnId + backlog <= arrived + 1
    /\ loopPc = "new" => nextConnId + backlog <= arrived
    /\ \A n \in DOMAIN connections :
           connections[n] \in Conns /\ Created(connections[n]) /\ n = NameOf(connections[n])
    /\ doomed \subseteq Conns /\ \A c \in doomed : Created(c)
    /\ ~MapTaken => doomed = {}
    /\ MapTaken => InMap \subseteq orphans
    /\ current \in Conns => Created(current) /\ current \notin active
    /\ loopPc \in AtRest => current = None
    /\ loopPc \in Closes => current \in Conns /\ conn[current].st = "Disconnected"
    /\ \A c \in ToDestroy(pending) :
           Created(c) /\ (Token => conn[c].st = "Disconnected")
    /\ \A c \in Conns : Created(c) => Owned(c)
    /\ MapIsEstablished
    /\ \A c \in active \cap Conns : Live(c) \/ c \in cut \cup orphans

-----------------------------------------------------------------------------
(* Queues of functors.                                                     *)

\* A functor at the end.
LEMMA AppendElems ==
    ASSUME NEW S, NEW p \in Seq(S), NEW f \in S
    PROVE  Append(p, f) \in Seq(S) /\ Elems(Append(p, f)) = Elems(p) \cup {f}
<1>1. /\ Append(p, f) \in Seq(S) /\ DOMAIN p = 1..Len(p) /\ Len(p) \in Nat
      /\ DOMAIN Append(p, f) = 1..(Len(p) + 1)
      /\ \A i \in 1..Len(p) : Append(p, f)[i] = p[i]
      /\ Append(p, f)[Len(p) + 1] = f
  BY SMTT(30)
<1>2. DOMAIN Append(p, f) = DOMAIN p \cup {Len(p) + 1}
  BY <1>1, SMTT(30)
<1> QED
  BY <1>1, <1>2, SMTT(30) DEF Elems

\* One functor less, wherever it was.
LEMMA WithoutElems ==
    ASSUME NEW S, NEW p \in Seq(S), NEW i \in DOMAIN p
    PROVE  /\ Without(p, i) \in Seq(S)
           /\ Elems(Without(p, i)) \subseteq Elems(p)
           /\ Elems(p) \subseteq Elems(Without(p, i)) \cup {p[i]}
<1> DEFINE a == SubSeq(p, 1, i - 1)
           b == SubSeq(p, i + 1, Len(p))
           w == a \o b
<1>1. Len(p) \in Nat /\ DOMAIN p = 1..Len(p) /\ i \in 1..Len(p)
  BY SMTT(30)
<1>2. /\ a \in Seq(S) /\ Len(a) = i - 1
      /\ \A j \in 1..(i - 1) : a[j] = p[j]
  BY <1>1, SMTT(30)
<1>3. b \in Seq(S) /\ Len(b) = Len(p) - i
  BY <1>1, SMTT(30)
<1>4. \A j \in 1..(Len(p) - i) : b[j] = p[i + j]
  BY <1>1, SMTT(30)
<1> HIDE DEF a, b
<1>5. w \in Seq(S) /\ Len(w) = Len(p) - 1 /\ DOMAIN w = 1..(Len(p) - 1)
  <2>1. w \in Seq(S)
    BY <1>2, <1>3, SMTT(30)
  <2>2. Len(w) = Len(a) + Len(b)
    BY <1>2, <1>3, SMTT(30)
  <2> HIDE DEF w
  <2>3. Len(w) = Len(p) - 1
    BY <2>2, <1>1, <1>2, <1>3, SMTT(30)
  <2> QED BY <2>1, <2>3, SMTT(30)
<1>6. \A j \in 1..(i - 1) : w[j] = p[j]
  BY <1>1, <1>2, <1>3, SMTT(30)
<1>7. \A j \in i..(Len(p) - 1) : w[j] = p[j + 1]
  <2> SUFFICES ASSUME NEW j \in i..(Len(p) - 1) PROVE w[j] = p[j + 1]
    OBVIOUS
  <2>1. w[j] = b[j - (i - 1)]
    BY <1>1, <1>2, <1>3, SMTT(30)
  <2>2. j - (i - 1) \in 1..(Len(p) - i) /\ i + (j - (i - 1)) = j + 1
    BY <1>1, SMTT(30)
  <2> QED BY <2>1, <2>2, <1>4
<1> HIDE DEF w
<1>8. \A j \in DOMAIN w : \E k \in DOMAIN p : w[j] = p[k]
  <2> SUFFICES ASSUME NEW j \in DOMAIN w PROVE \E k \in DOMAIN p : w[j] = p[k]
    OBVIOUS
  <2>1. CASE j \in 1..(i - 1)
    BY <2>1, <1>1, <1>6, SMTT(30)
  <2>2. CASE j \in i..(Len(p) - 1)
    BY <2>2, <1>1, <1>7, SMTT(30)
  <2> QED BY <2>1, <2>2, <1>1, <1>5, SMTT(30)
<1>9. \A k \in DOMAIN p : k # i => \E j \in DOMAIN w : w[j] = p[k]
  <2> SUFFICES ASSUME NEW k \in DOMAIN p, k # i PROVE \E j \in DOMAIN w : w[j] = p[k]
    OBVIOUS
  <2>1. CASE k < i
    BY <2>1, <1>1, <1>5, <1>6, SMTT(30)
  <2>2. CASE k > i
    <3>1. k - 1 \in i..(Len(p) - 1) /\ (k - 1) + 1 = k /\ k - 1 \in DOMAIN w
      BY <2>2, <1>1, <1>5, SMTT(30)
    <3> QED BY <3>1, <1>7
  <2> QED BY <2>1, <2>2, <1>1, SMTT(30)
<1>10. Without(p, i) = w
  BY DEF Without, w, a, b
<1> QED
  BY <1>5, <1>8, <1>9, <1>10, SMTT(30) DEF Elems

\* What is queued is in the queue.
LEMMA QueuedElems ==
    ASSUME NEW op, NEW p
    PROVE  Queued(op, p) <=> \E f \in Elems(p) : f.op = op
  BY DEF Queued, Elems

\* A functor is what Functor() makes it.
LEMMA FunctorFacts ==
    /\ \A c \in Conns : /\ Functor("destroy", c) \in FunctorType
                        /\ Functor("destroy", c).op = "destroy"
                        /\ Functor("destroy", c).conn = c
    /\ \A op \in {"start", "cleanup", "hold"} :
           Functor(op, None) \in FunctorType /\ Functor(op, None).op = op
    /\ \A f \in FunctorType : f.conn \in Conns => f = Functor("destroy", f.conn)
    /\ \A f \in FunctorType : f.op = "destroy" => f.conn \in Conns
<1>1. None \notin Conns
  BY ChannelsAssumption
<1>2. /\ \A c \in Conns : /\ Functor("destroy", c) \in FunctorType
                          /\ Functor("destroy", c).op = "destroy"
                          /\ Functor("destroy", c).conn = c
      /\ \A op \in {"start", "cleanup", "hold"} :
             Functor(op, None) \in FunctorType /\ Functor(op, None).op = op
  BY DEF Functor, FunctorType
<1>3. /\ \A f \in FunctorType : f.conn \in Conns => f = Functor("destroy", f.conn)
      /\ \A f \in FunctorType : f.op = "destroy" => f.conn \in Conns
  BY <1>1, SMTT(30) DEF Functor, FunctorType
<1> QED BY <1>2, <1>3

\* Letting go of the acceptor: nothing happens while it is held, and what it
\* leaves behind keeps its channel.
LEMMA ReleaseFacts ==
    ASSUME NEW a \in AcceptorType, NEW cur, NEW p \in Seq(FunctorType), Release(a, cur, p)
    PROVE  /\ acceptor' \in AcceptorType /\ pending' \in Seq(FunctorType)
           /\ a.held => acceptor' = a /\ pending' = p
           /\ acceptor'.listening = a.listening
           /\ acceptor'.reg => a.reg /\ acceptor'.alive = a.alive
           /\ acceptor'.alive => a.alive
           /\ acceptor'.sock => a.sock
           /\ acceptor'.idle => a.idle
           /\ Elems(p) \subseteq Elems(pending')
           /\ Elems(pending') \subseteq Elems(p) \cup {Functor("hold", None)}
           /\ a.alive /\ a.listening /\ ~acceptor'.alive => Queued("hold", pending')
           /\ a.alive /\ ~acceptor'.alive => ~Queued("start", pending')
<1> DEFINE h == Functor("hold", None)
<1>1. h \in FunctorType /\ h.op = "hold"
  BY FunctorFacts
<1>2. Append(p, h) \in Seq(FunctorType) /\ Elems(Append(p, h)) = Elems(p) \cup {h}
  BY <1>1, AppendElems, SMTT(30)
<1>3. /\ Queued("hold", Append(p, h))
      /\ Queued("start", Append(p, h)) => Queued("start", p)
  BY <1>1, <1>2, QueuedElems
<1>4. a.held => acceptor' = a /\ pending' = p
  BY DEF Release, AcceptorHeld
<1>5. acceptor' = a \/ (acceptor' = cleanupAcceptor(a) /\ a.alive)
  BY DEF Release
<1>6. /\ acceptor' \in AcceptorType
      /\ acceptor'.listening = a.listening
      /\ acceptor'.reg => a.reg /\ acceptor'.alive = a.alive
      /\ acceptor'.alive => a.alive
      /\ acceptor'.sock => a.sock
      /\ acceptor'.idle => a.idle
  BY <1>5 DEF cleanupAcceptor, AcceptorType
<1>7. pending' = p \/ pending' = Append(p, h)
  BY DEF Release
<1>8. a.alive /\ a.listening /\ ~acceptor'.alive => pending' = Append(p, h)
  BY DEF Release
<1>9. a.alive /\ ~acceptor'.alive => ~Queued("start", p)
  BY DEF Release, AcceptorHeld
<1> HIDE DEF h
<1> QED
  BY <1>2, <1>3, <1>4, <1>6, <1>7, <1>8, <1>9 DEF h

-----------------------------------------------------------------------------
(* start() and the acceptor.                                               *)

\* A step that leaves the acceptor and state_ alone, and no start() or cleanup
\* unaccounted for.
LEMMA AcceptKept ==
    ASSUME AcceptInv, state' \in {"Idle", "Starting", "Listening"},
           Token' => Token /\ state' = state,
           server' \in Phases,
           acceptor' \in AcceptorType, acceptor'.held = acceptor.held,
           acceptor'.alive = acceptor.alive, acceptor'.reg = acceptor.reg,
           acceptor'.listening = acceptor.listening,
           pending' \in Seq(FunctorType),
           Queued("start", pending) => Queued("start", pending'),
           Queued("start", pending') => Queued("start", pending) \/ Token,
           Queued("cleanup", pending') <=> Queued("cleanup", pending),
           active' \subseteq active,
           AcceptCh \in active' /\ Queued("hold", pending) => Queued("hold", pending'),
           loopPc' \in {"poll", "functors", "starting"} => active' = {},
           startPc' \in [Starters -> {"idle", "store", "queue"}],
           \A t \in Starters : startPc'[t] # "idle" => Token',
           \A t \in Starters : startPc[t] = "queue" =>
               startPc'[t] = "queue" \/ Queued("start", pending')
    PROVE  AcceptInv'
<1>1. Settles /\ state' = state => Settles'
  <2> SUFFICES ASSUME Settles, state' = state PROVE Settles'
    OBVIOUS
  <2>1. CASE state = (IF acceptor.listening THEN "Listening" ELSE "Idle")
    BY <2>1 DEF Settles
  <2>2. CASE Queued("start", pending)
    BY <2>2 DEF Settles
  <2>3. CASE \E t \in Starters : startPc[t] = "queue"
    BY <2>3 DEF Settles
  <2> QED BY <2>1, <2>2, <2>3 DEF Settles
<1>2. Token' => /\ acceptor'.held /\ acceptor'.alive /\ ~Queued("cleanup", pending')
                /\ state' = "Listening" => acceptor'.listening
                /\ acceptor'.listening => acceptor'.reg
                /\ Settles'
  BY <1>1 DEF AcceptInv
<1>3. acceptor'.reg => acceptor'.listening /\ (acceptor'.alive \/ Queued("cleanup", pending'))
  BY DEF AcceptInv
<1>4. AcceptCh \in active' => acceptor'.listening /\ AcceptChannelLive'
  BY DEF AcceptInv, AcceptChannelLive
<1>5. /\ active' \subseteq Conns \cup {AcceptCh}
      /\ Queued("start", pending') => acceptor'.alive
      /\ Queued("cleanup", pending') => ~acceptor'.alive
  BY DEF AcceptInv
<1> QED
  BY <1>2, <1>3, <1>4, <1>5 DEF AcceptInv

\* A step of the loop thread that lets go of the acceptor.
LEMMA AcceptReleased ==
    ASSUME AcceptInv, NEW a \in AcceptorType, NEW cur, Release(a, cur, pending),
           a.alive = acceptor.alive, a.reg = acceptor.reg, a.listening = acceptor.listening,
           Token' => Token /\ a.held /\ state' = state,
           server' \in Phases,
           state' \in {"Idle", "Starting", "Listening"},
           active' = active, startPc' = startPc,
           \A t \in Starters : startPc[t] # "idle" => Token',
           loopPc' \in {"poll", "functors", "starting"} => active' = {}
    PROVE  AcceptInv'
<1>1. pending \in Seq(FunctorType)
  BY DEF AcceptInv
<1>2. /\ acceptor' \in AcceptorType /\ pending' \in Seq(FunctorType)
      /\ a.held => acceptor' = a /\ pending' = pending
      /\ acceptor'.listening = a.listening
      /\ acceptor'.reg => a.reg /\ acceptor'.alive = a.alive
      /\ acceptor'.alive => a.alive
      /\ Elems(pending) \subseteq Elems(pending')
      /\ Elems(pending') \subseteq Elems(pending) \cup {Functor("hold", None)}
      /\ a.alive /\ a.listening /\ ~acceptor'.alive => Queued("hold", pending')
      /\ a.alive /\ ~acceptor'.alive => ~Queued("start", pending')
  BY <1>1, ReleaseFacts
<1>3. /\ \A op : Queued(op, pending) => Queued(op, pending')
      /\ \A op \in {"start", "cleanup"} : Queued(op, pending') => Queued(op, pending)
  BY <1>2, QueuedElems, FunctorFacts
<1>4. Token' => /\ acceptor'.held /\ acceptor'.alive /\ ~Queued("cleanup", pending')
                /\ state' = "Listening" => acceptor'.listening
                /\ acceptor'.listening => acceptor'.reg
                /\ Settles'
  <2> SUFFICES ASSUME Token'
               PROVE  /\ acceptor'.held /\ acceptor'.alive /\ ~Queued("cleanup", pending')
                      /\ state' = "Listening" => acceptor'.listening
                      /\ acceptor'.listening => acceptor'.reg
                      /\ Settles'
    OBVIOUS
  <2>1. acceptor' = a /\ pending' = pending /\ state' = state /\ startPc' = startPc
    BY <1>2
  <2>2. Settles => Settles'
    BY <2>1 DEF Settles
  <2> QED BY <2>1, <2>2 DEF AcceptInv
<1>5. acceptor'.reg => acceptor'.listening /\ (acceptor'.alive \/ Queued("cleanup", pending'))
  BY <1>2, <1>3 DEF AcceptInv
<1>6. AcceptCh \in active' => acceptor'.listening /\ AcceptChannelLive'
  <2> SUFFICES ASSUME AcceptCh \in active PROVE acceptor'.listening /\ AcceptChannelLive'
    OBVIOUS
  <2>1. acceptor.listening /\ AcceptChannelLive
    BY DEF AcceptInv
  <2>2. CASE acceptor.alive
    BY <1>2, <2>1, <2>2 DEF AcceptChannelLive
  <2>3. CASE ~acceptor.alive
    BY <1>2, <1>3, <2>1, <2>3 DEF AcceptChannelLive
  <2> QED BY <2>2, <2>3
<1>7. /\ Queued("start", pending') => acceptor'.alive
      /\ Queued("cleanup", pending') => ~acceptor'.alive
  BY <1>2, <1>3 DEF AcceptInv
<1> QED
  BY <1>2, <1>4, <1>5, <1>6, <1>7 DEF AcceptInv

\* listen() makes the acceptor listen or leaves it as it was.
LEMMA ListenFacts ==
    ASSUME NEW b \in AcceptorType, NEW a \in listen(b)
    PROVE  /\ a \in AcceptorType /\ a.held = b.held /\ a.alive = b.alive /\ a.idle = b.idle
           /\ a = b \/ (~b.listening /\ a.listening /\ a.reg /\ FdFree)
           /\ b.sock => a.sock
  BY DEF listen, AcceptorType

\* start() on the loop thread, and the functor of a start() elsewhere.
LEMMA StartKeeps ==
    ASSUME AcceptInv, LoopStart \/ \E t \in Starters : StartLoad(t) \/ Start(t)
    PROVE  AcceptInv'
<1>1. CASE LoopStart
  <2>1. /\ Token /\ Token' /\ acceptor \in AcceptorType
        /\ UNCHANGED <<server, pending, startPc, active, loopPc>>
    BY <1>1 DEF LoopStart, loopVars, AcceptInv, Token
  <2>2. CASE state # "Idle"
    <3>1. UNCHANGED <<state, acceptor>>
      BY <1>1, <2>2 DEF LoopStart
    <3> QED
      BY <2>1, <3>1, AcceptKept DEF AcceptInv
  <2>3. CASE state = "Idle"
    <3>1. PICK a \in listen(acceptor) :
              acceptor' = a /\ state' = IF a.listening THEN "Listening" ELSE "Idle"
      BY <1>1, <2>3 DEF LoopStart
    <3>2. /\ a \in AcceptorType /\ a.held = acceptor.held /\ a.alive = acceptor.alive
          /\ a = acceptor \/ (~acceptor.listening /\ a.listening /\ a.reg)
      BY <2>1, ListenFacts
    <3>3. Settles'
      BY <3>1 DEF Settles
    <3>4. AcceptCh \in active' => acceptor'.listening /\ AcceptChannelLive'
      BY <2>1, <3>1, <3>2 DEF AcceptInv, AcceptChannelLive
    <3> QED
      BY <2>1, <3>1, <3>2, <3>3, <3>4 DEF AcceptInv
  <2> QED BY <2>2, <2>3
<1>2. ASSUME NEW t \in Starters, StartLoad(t) PROVE AcceptInv'
  <2>1. /\ UNCHANGED <<state, server, acceptor, pending, active, loopPc>>
        /\ startPc[t] = "idle"
        /\ startPc' = [startPc EXCEPT ![t] = IF state = "Idle" THEN "store" ELSE "idle"]
    BY <1>2 DEF StartLoad, acceptVars, loopVars
  <2>2. /\ startPc' \in [Starters -> {"idle", "store", "queue"}]
        /\ \A u \in Starters : startPc[u] = "queue" => startPc'[u] = "queue"
    BY <2>1 DEF AcceptInv
  <2>3. Token' /\ Token
    BY <1>2, <2>1 DEF StartLoad, Token
  <2> QED
    BY <2>1, <2>2, <2>3, AcceptKept DEF AcceptInv
<1>3. ASSUME NEW t \in Starters, StartStore(t) PROVE AcceptInv'
  <2>1. /\ UNCHANGED <<server, acceptor, pending, active, loopPc>>
        /\ state' = "Starting"
        /\ startPc' = [startPc EXCEPT ![t] = "queue"]
    BY <1>3 DEF StartStore, loopVars
  <2>2. /\ startPc' \in [Starters -> {"idle", "store", "queue"}]
        /\ startPc'[t] = "queue"
    BY <2>1 DEF AcceptInv
  <2>3. Settles'
    BY <2>2 DEF Settles
  <2>4. Token /\ Token' /\ (AcceptChannelLive' <=> AcceptChannelLive)
    BY <1>3, <2>1 DEF StartStore, AcceptInv, Token, AcceptChannelLive
  <2> QED
    BY <2>1, <2>2, <2>3, <2>4 DEF AcceptInv
<1>4. ASSUME NEW t \in Starters, StartQueue(t) PROVE AcceptInv'
  <2> DEFINE f == Functor("start", None)
  <2>1. /\ UNCHANGED <<state, server, acceptor, active, loopPc>>
        /\ pending' = Append(pending, f)
        /\ startPc' = [startPc EXCEPT ![t] = "idle"]
    BY <1>4 DEF StartQueue, acceptVars, loopVars
  <2>2. f \in FunctorType /\ f.op = "start"
    BY FunctorFacts
  <2>3. pending' \in Seq(FunctorType) /\ Elems(pending') = Elems(pending) \cup {f}
    BY <2>1, <2>2, AppendElems, SMTT(30) DEF AcceptInv
  <2> HIDE DEF f
  <2>4. /\ Queued("start", pending')
        /\ Queued("cleanup", pending') <=> Queued("cleanup", pending)
        /\ Queued("hold", pending) => Queued("hold", pending')
    BY <2>2, <2>3, QueuedElems
  <2>5. startPc' \in [Starters -> {"idle", "store", "queue"}] /\ Token /\ Token'
    BY <1>4, <2>1 DEF StartQueue, AcceptInv, Token
  <2> QED
    BY <2>1, <2>3, <2>4, <2>5, AcceptKept DEF AcceptInv
<1> QED
  BY <1>1, <1>2, <1>3, <1>4 DEF Start

\* The functor of start() listens, or fails to, and is gone.
LEMMA ListenKeeps ==
    ASSUME AcceptInv, ListenAndStore
    PROVE  AcceptInv'
<1>1. PICK i \in DOMAIN pending, a \in listen(acceptor) :
          /\ pending[i].op = "start"
          /\ Release(a, None, Without(pending, i))
          /\ state' = IF a.listening THEN "Listening" ELSE "Idle"
  BY DEF ListenAndStore
<1> DEFINE w == Without(pending, i)
<1>2. /\ w \in Seq(FunctorType) /\ Elems(w) \subseteq Elems(pending)
      /\ Elems(pending) \subseteq Elems(w) \cup {pending[i]}
  BY WithoutElems DEF AcceptInv
<1>3. /\ active = {} /\ active' = active /\ startPc' = startPc /\ server' = server
      /\ (Token' <=> Token)
  BY DEF ListenAndStore, startVars, AcceptInv, Token
<1>4. \A op : /\ Queued(op, w) => Queued(op, pending)
              /\ pending[i].op # op /\ Queued(op, pending) => Queued(op, w)
  BY <1>2, QueuedElems
<1>5. /\ a \in AcceptorType /\ a.held = acceptor.held /\ a.alive = acceptor.alive
      /\ a = acceptor \/ (~acceptor.listening /\ a.listening /\ a.reg)
  BY <1>1, ListenFacts DEF AcceptInv
<1>6. acceptor.alive /\ ~Queued("cleanup", pending)
  <2>1. Queued("start", pending)
    BY <1>1 DEF Queued
  <2> QED BY <2>1 DEF AcceptInv
<1>7. /\ acceptor' \in AcceptorType /\ pending' \in Seq(FunctorType)
      /\ a.held => acceptor' = a /\ pending' = w
      /\ acceptor'.listening = a.listening
      /\ acceptor'.reg => a.reg /\ acceptor'.alive = a.alive
      /\ Elems(pending') \subseteq Elems(w) \cup {Functor("hold", None)}
      /\ a.alive /\ ~acceptor'.alive => ~Queued("start", pending')
  BY <1>1, <1>2, <1>5, ReleaseFacts
<1> HIDE DEF w
<1>8. ~Queued("cleanup", pending')
  BY <1>4, <1>6, <1>7, QueuedElems, FunctorFacts, SMTT(30)
<1>9. Token => /\ acceptor'.held /\ acceptor'.alive
               /\ state' = "Listening" => acceptor'.listening
               /\ acceptor'.listening => acceptor'.reg
  BY <1>1, <1>5, <1>7 DEF AcceptInv
<1>10. Settles'
  BY <1>1, <1>7 DEF Settles
<1>11. acceptor'.reg => acceptor'.listening /\ acceptor'.alive
  BY <1>5, <1>6, <1>7 DEF AcceptInv
<1>12. Queued("start", pending') => acceptor'.alive
  BY <1>5, <1>6, <1>7
<1>13. state' \in {"Idle", "Starting", "Listening"}
  BY <1>1
<1> QED
  BY <1>3, <1>7, <1>8, <1>9, <1>10, <1>11, <1>12, <1>13 DEF AcceptInv

\* The other functors of the loop thread, and the test of the token.
LEMMA FunctorsKeep ==
    ASSUME AcceptInv, RunFunctor
    PROVE  AcceptInv'
<1>1. PICK i \in DOMAIN pending : RunStart(i) \/ RunDestroy(i) \/ RunCleanup(i) \/ RunHold(i)
  BY DEF RunFunctor
<1> DEFINE w == Without(pending, i)
<1>2. /\ w \in Seq(FunctorType) /\ Elems(w) \subseteq Elems(pending)
      /\ Elems(pending) \subseteq Elems(w) \cup {pending[i]}
  BY WithoutElems DEF AcceptInv
<1>3. /\ active = {} /\ active' = active /\ startPc' = startPc /\ server' = server
  BY <1>1 DEF RunStart, RunDestroy, RunCleanup, RunHold, Take, loopVars, startVars,
              acceptVars, AcceptInv
<1>4. \A op : /\ Queued(op, w) => Queued(op, pending)
              /\ pending[i].op # op /\ Queued(op, pending) => Queued(op, w)
  BY <1>2, QueuedElems
<1>5. Token' <=> Token
  BY <1>3 DEF Token
<1>6. CASE RunStart(i)
  <2>1. pending[i].op = "start" /\ state' = state
    BY <1>6 DEF RunStart, Take
  <2>2. CASE Token
    <3>1. UNCHANGED <<acceptor, pending>>
      BY <1>6, <2>2 DEF RunStart
    <3> QED BY <1>3, <1>5, <2>1, <3>1, AcceptKept DEF AcceptInv
  <2>3. CASE ~Token
    <3>1. Release(acceptor, None, w) /\ acceptor \in AcceptorType
      BY <1>6, <2>3 DEF RunStart, AcceptInv
    <3>2. /\ acceptor' \in AcceptorType /\ pending' \in Seq(FunctorType)
          /\ acceptor'.listening = acceptor.listening
          /\ acceptor'.reg => acceptor.reg /\ acceptor'.alive = acceptor.alive
          /\ acceptor'.alive => acceptor.alive
          /\ Elems(w) \subseteq Elems(pending')
          /\ Elems(pending') \subseteq Elems(w) \cup {Functor("hold", None)}
          /\ acceptor.alive /\ ~acceptor'.alive => ~Queued("start", pending')
      BY <1>2, <3>1, ReleaseFacts
    <3> HIDE DEF w
    <3>3. \A op \in {"start", "cleanup"} : Queued(op, pending') => Queued(op, pending)
      BY <1>4, <3>2, QueuedElems, FunctorFacts, SMTT(30)
    <3>4. Queued("cleanup", pending) => Queued("cleanup", pending')
      BY <1>4, <2>1, <3>2, QueuedElems
    <3>5. acceptor'.reg =>
              acceptor'.listening /\ (acceptor'.alive \/ Queued("cleanup", pending'))
      BY <3>2, <3>4 DEF AcceptInv
    <3>6. /\ Queued("start", pending') => acceptor'.alive
          /\ Queued("cleanup", pending') => ~acceptor'.alive
      BY <3>2, <3>3 DEF AcceptInv
    <3> QED
      BY <1>3, <1>5, <2>1, <2>3, <3>2, <3>5, <3>6 DEF AcceptInv
  <2> QED BY <2>2, <2>3
<1>7. CASE RunDestroy(i) \/ RunHold(i)
  <2>1. /\ pending[i].op \notin {"start", "cleanup"} /\ pending' = w
        /\ UNCHANGED <<state, acceptor>>
    BY <1>7 DEF RunDestroy, RunHold, Take, acceptVars
  <2> HIDE DEF w
  <2>2. /\ Queued("start", pending) <=> Queued("start", pending')
        /\ Queued("cleanup", pending') <=> Queued("cleanup", pending)
    BY <1>4, <2>1
  <2> QED
    BY <1>2, <1>3, <1>5, <2>1, <2>2, AcceptKept DEF AcceptInv
<1>8. CASE RunCleanup(i)
  <2>1. ~Token /\ ~acceptor.alive
    BY <1>8 DEF RunCleanup, Take, AcceptInv, Queued
  <2>2. /\ acceptor' = cleanupAcceptor(acceptor) /\ state' = state
        /\ pending' = w \/ pending' = Append(w, Functor("hold", None))
    BY <1>8 DEF RunCleanup
  <2>3. acceptor' \in AcceptorType /\ ~acceptor'.reg /\ ~acceptor'.alive
    BY <2>2 DEF cleanupAcceptor, AcceptInv, AcceptorType
  <2>4. /\ pending' \in Seq(FunctorType)
        /\ Elems(pending') \subseteq Elems(w) \cup {Functor("hold", None)}
    <3> DEFINE h == Functor("hold", None)
    <3>1. h \in FunctorType
      BY FunctorFacts
    <3> HIDE DEF h, w
    <3>2. Append(w, h) \in Seq(FunctorType) /\ Elems(Append(w, h)) = Elems(w) \cup {h}
      BY <1>2, <3>1, AppendElems, SMTT(30)
    <3> QED BY <1>2, <2>2, <3>2 DEF h
  <2> HIDE DEF w
  <2>5. ~Queued("start", pending')
    <3>1. ~Queued("start", w)
      BY <1>4, <2>1 DEF AcceptInv
    <3> QED BY <2>4, <3>1, QueuedElems, FunctorFacts
  <2> QED
    BY <1>3, <1>5, <2>1, <2>2, <2>3, <2>4, <2>5 DEF AcceptInv
<1> QED
  BY <1>1, <1>6, <1>7, <1>8

\* The handlers that leave the acceptor and the queue alone.
Passing ==
    \/ EnterAccept \/ EndDispatch \/ AcceptAndDrop \/ LeaveConn \/ AcceptOne
    \/ AcceptAborts \/ EndFunctors \/ PeerArrives \/ OthersOpen \/ OthersClose
    \/ NewConnection \/ CloseCallback \/ RemoveConnection \/ UsedTooLate
    \/ \E c \in Conns : EnterConn(c) \/ EnterFreed(c) \/ HandleClose(c)

LEMMA PassingKeeps ==
    ASSUME AcceptInv, Passing
    PROVE  AcceptInv'
<1>1. UNCHANGED <<state, server, acceptor, pending, startPc>>
  BY DEF Passing, EnterAccept, EndDispatch, AcceptAndDrop, LeaveConn, AcceptOne,
         AcceptAborts, EndFunctors, PeerArrives, OthersOpen, OthersClose, EnterConn,
         EnterFreed, HandleClose, CloseCallback, RemoveConnection, NewConnection,
         UsedTooLate, acceptVars, startVars
<1>2. active' \subseteq active /\ (loopPc' \in {"poll", "functors", "starting"} => active' = {})
  BY DEF Passing, EnterAccept, EndDispatch, AcceptAndDrop, LeaveConn, AcceptOne,
         AcceptAborts, EndFunctors, PeerArrives, OthersOpen, OthersClose, EnterConn,
         EnterFreed, HandleClose, CloseCallback, RemoveConnection, NewConnection,
         UsedTooLate, loopVars, AcceptInv
<1>3. Token' <=> Token
  BY <1>1 DEF Token
<1> QED
  BY <1>1, <1>2, <1>3, AcceptKept DEF AcceptInv

\* The handlers that change the acceptor or queue something, and poll().
LEMMA HandlersKeep ==
    ASSUME AcceptInv, HandlerInv,
           \/ Poll \/ CloseIdle \/ AcceptAgain \/ AcceptFails \/ OpenIdle
           \/ RemoveConnectionInLoop
    PROVE  AcceptInv'
<1>1. CASE Poll
  <2>1. /\ UNCHANGED <<state, server, acceptor, pending, startPc>> /\ loopPc' = "dispatch"
        /\ active' \subseteq Conns \cup {AcceptCh}
        /\ AcceptCh \in active' => acceptor.reg
    BY <1>1, ChannelsAssumption DEF Poll, acceptVars, startVars
  <2>2. /\ Token' <=> Token
        /\ Settles' <=> Settles
        /\ AcceptChannelLive' <=> AcceptChannelLive
    BY <2>1 DEF Token, Settles, AcceptChannelLive
  <2>3. AcceptCh \in active' => acceptor'.listening /\ AcceptChannelLive'
    BY <2>1, <2>2 DEF AcceptInv, AcceptChannelLive
  <2> QED
    BY <2>1, <2>2, <2>3 DEF AcceptInv
<1>2. CASE CloseIdle
  <2>1. /\ UNCHANGED <<state, server, pending, active, startPc>> /\ loopPc' = "emfileAccept"
        /\ acceptor' = [acceptor EXCEPT !.idle = FALSE]
    BY <1>2 DEF CloseIdle, startVars
  <2>2. /\ acceptor' \in AcceptorType /\ acceptor'.held = acceptor.held
        /\ acceptor'.alive = acceptor.alive /\ acceptor'.reg = acceptor.reg
        /\ acceptor'.listening = acceptor.listening
    BY <2>1 DEF AcceptInv, AcceptorType
  <2>3. Token' <=> Token
    BY <2>1 DEF Token
  <2> QED
    BY <2>1, <2>2, <2>3, AcceptKept DEF AcceptInv
<1>3. CASE AcceptAgain \/ AcceptFails
  <2>1. /\ Release(acceptor, None, pending) /\ loopPc' = "dispatch"
        /\ UNCHANGED <<state, server, active, startPc>>
    BY <1>3 DEF AcceptAgain, AcceptFails, LeaveAccept, startVars
  <2>2. (Token' <=> Token) /\ (Token' => acceptor.held)
    BY <2>1 DEF Token, AcceptInv
  <2> QED
    BY <2>1, <2>2, AcceptReleased DEF AcceptInv
<1>4. CASE OpenIdle
  <2> DEFINE a == [acceptor EXCEPT !.idle = FdFree]
  <2>1. /\ Release(a, None, pending) /\ loopPc' = "dispatch"
        /\ UNCHANGED <<state, server, active, startPc>>
    BY <1>4 DEF OpenIdle, startVars
  <2>2. /\ a \in AcceptorType /\ a.held = acceptor.held /\ a.alive = acceptor.alive
        /\ a.reg = acceptor.reg /\ a.listening = acceptor.listening
    <3>1. FdFree \in BOOLEAN
      BY SMTT(30) DEF FdFree
    <3> QED BY <3>1 DEF AcceptInv, AcceptorType
  <2> HIDE DEF a
  <2>3. (Token' <=> Token) /\ (Token' => a.held)
    BY <2>1, <2>2 DEF Token, AcceptInv
  <2> QED
    BY <2>1, <2>2, <2>3, AcceptReleased DEF AcceptInv
<1>5. CASE RemoveConnectionInLoop
  <2> DEFINE f == Functor("destroy", current)
  <2>1. /\ UNCHANGED <<state, server, acceptor, active, startPc>> /\ loopPc' = "conn"
        /\ pending' = Append(pending, f) /\ current \in Conns
    BY <1>5 DEF RemoveConnectionInLoop, acceptVars, startVars, HandlerInv
  <2>2. f \in FunctorType /\ f.op = "destroy"
    BY <2>1, FunctorFacts
  <2>3. pending' \in Seq(FunctorType) /\ Elems(pending') = Elems(pending) \cup {f}
    BY <2>1, <2>2, AppendElems, SMTT(30) DEF AcceptInv
  <2> HIDE DEF f
  <2>4. /\ Queued("start", pending') <=> Queued("start", pending)
        /\ Queued("cleanup", pending') <=> Queued("cleanup", pending)
        /\ Queued("hold", pending') <=> Queued("hold", pending)
    BY <2>2, <2>3, QueuedElems
  <2>5. Token' <=> Token
    BY <2>1 DEF Token
  <2> QED
    BY <2>1, <2>3, <2>4, <2>5, AcceptKept DEF AcceptInv
<1> QED
  BY <1>1, <1>2, <1>3, <1>4, <1>5

\* The destructor.
LEMMA DestructorKeeps ==
    ASSUME AcceptInv, LoopDestroy \/ OtherDestroyBegin \/ Destroyer
    PROVE  AcceptInv'
<1>1. CASE LoopDestroy
  <2> DEFINE a == [acceptor EXCEPT !.held = FALSE]
  <2>1. /\ Release(a, current, pending) /\ server' = "gone" /\ state' = "Idle"
        /\ UNCHANGED <<active, loopPc, startPc>>
    BY <1>1 DEF LoopDestroy, loopVars, startVars
  <2>2. /\ a \in AcceptorType /\ a.alive = acceptor.alive
        /\ a.reg = acceptor.reg /\ a.listening = acceptor.listening
    BY DEF AcceptInv, AcceptorType
  <2> HIDE DEF a
  <2>3. ~Token' /\ server' \in Phases /\ \A t \in Starters : startPc[t] = "idle"
    BY <1>1, <2>1 DEF LoopDestroy, MayDestroy, Token, Phases
  <2> QED
    BY <2>1, <2>2, <2>3, AcceptReleased DEF AcceptInv
<1>2. CASE OtherDestroyDrop
  <2> DEFINE a == [acceptor EXCEPT !.held = FALSE]
             f == Functor("cleanup", None)
  <2>1. /\ server' = "hand" /\ state' = state /\ ~Token /\ ~Token'
        /\ UNCHANGED <<active, loopPc, startPc>>
        /\ \/ acceptor' = a /\ pending' = pending
           \/ /\ acceptor' = [a EXCEPT !.alive = FALSE] /\ pending' = Append(pending, f)
              /\ ~Queued("start", pending)
    BY <1>2 DEF OtherDestroyDrop, loopVars, startVars, Token, AcceptorHeld
  <2>2. f \in FunctorType /\ f.op = "cleanup"
    BY FunctorFacts
  <2>3. /\ Append(pending, f) \in Seq(FunctorType)
        /\ Elems(Append(pending, f)) = Elems(pending) \cup {f}
    BY <2>2, AppendElems, SMTT(30) DEF AcceptInv
  <2>4. pending' \in Seq(FunctorType)
    BY <2>1, <2>3 DEF AcceptInv
  <2>5. /\ acceptor' \in AcceptorType /\ acceptor'.listening = acceptor.listening
        /\ acceptor'.reg = acceptor.reg
    BY <2>1 DEF AcceptInv, AcceptorType
  <2>6. \/ acceptor'.alive = acceptor.alive /\ pending' = pending
        \/ Queued("cleanup", pending') /\ ~acceptor'.alive /\ ~Queued("start", pending')
    <3>1. /\ Queued("cleanup", Append(pending, f))
          /\ Queued("start", Append(pending, f)) => Queued("start", pending)
      BY <2>2, <2>3, QueuedElems
    <3>2. a.alive = acceptor.alive /\ ~[a EXCEPT !.alive = FALSE].alive
      BY DEF AcceptInv, AcceptorType
    <3> QED BY <2>1, <3>1, <3>2
  <2> HIDE DEF a, f
  <2>7. AcceptCh \in active' => acceptor'.listening /\ AcceptChannelLive'
    BY <2>1, <2>5, <2>6 DEF AcceptInv, AcceptChannelLive
  <2>8. acceptor'.reg => acceptor'.listening /\ (acceptor'.alive \/ Queued("cleanup", pending'))
    BY <2>5, <2>6 DEF AcceptInv
  <2>9. /\ Queued("start", pending') => acceptor'.alive
        /\ Queued("cleanup", pending') => ~acceptor'.alive
    BY <2>6 DEF AcceptInv
  <2> QED
    BY <2>1, <2>4, <2>5, <2>7, <2>8, <2>9 DEF AcceptInv, Phases
<1>3. ASSUME NEW c \in Conns, OtherDestroyConn(c) PROVE AcceptInv'
  <2> DEFINE f == Functor("destroy", c)
  <2>1. /\ UNCHANGED <<state, server, acceptor, active, loopPc, startPc>>
        /\ pending' = Append(pending, f)
    BY <1>3 DEF OtherDestroyConn, acceptVars, loopVars, startVars
  <2>2. f \in FunctorType /\ f.op = "destroy"
    BY FunctorFacts
  <2>3. pending' \in Seq(FunctorType) /\ Elems(pending') = Elems(pending) \cup {f}
    BY <2>1, <2>2, AppendElems, SMTT(30) DEF AcceptInv
  <2> HIDE DEF f
  <2>4. /\ Queued("start", pending') <=> Queued("start", pending)
        /\ Queued("cleanup", pending') <=> Queued("cleanup", pending)
        /\ Queued("hold", pending') <=> Queued("hold", pending)
    BY <2>2, <2>3, QueuedElems
  <2>5. Token' <=> Token
    BY <2>1 DEF Token
  <2> QED
    BY <2>1, <2>3, <2>4, <2>5, AcceptKept DEF AcceptInv
<1>4. CASE OtherDestroyBegin \/ OtherDestroyStore \/ OtherDestroyMove \/ OtherDestroyEnd
  <2>1. /\ UNCHANGED <<acceptor, pending, active, startPc>>
        /\ server' \in Phases /\ ~Token' /\ state' \in {state, "Idle"}
        /\ loopPc' \in {loopPc, "aborted"}
    BY <1>4 DEF OtherDestroyBegin, OtherDestroyStore, OtherDestroyMove, OtherDestroyEnd,
                loopVars, startVars, Token, Phases
  <2>2. \A t \in Starters : startPc[t] = "idle"
    <3>1. CASE OtherDestroyBegin
      BY <3>1 DEF OtherDestroyBegin, MayDestroy
    <3>2. CASE ~OtherDestroyBegin
      <4>1. ~Token
        BY <1>4, <3>2 DEF OtherDestroyStore, OtherDestroyMove, OtherDestroyEnd, Token
      <4> QED BY <4>1 DEF AcceptInv
    <3> QED BY <3>1, <3>2
  <2> QED
    BY <2>1, <2>2, AcceptKept DEF AcceptInv
<1> QED
  BY <1>1, <1>2, <1>3, <1>4 DEF Destroyer

\* The guard of a handler.
LEMMA HandlerStep ==
    ASSUME HandlerInv, [Next]_vars
    PROVE  HandlerInv'
<1>1. CASE UNCHANGED <<loopPc, current>>
  BY <1>1 DEF HandlerInv
<1>2. CASE \E c \in Conns : EnterConn(c) \/ EnterFreed(c) \/ HandleClose(c)
  BY <1>2 DEF EnterConn, EnterFreed, HandleClose, HandlerInv
<1>3. CASE CloseCallback \/ RemoveConnection \/ RemoveConnectionInLoop \/ OtherDestroyEnd
  BY <1>3 DEF CloseCallback, RemoveConnection, RemoveConnectionInLoop, OtherDestroyEnd, HandlerInv
<1>4. ASSUME NEW i \in DOMAIN pending, RunStart(i) PROVE HandlerInv'
  BY <1>4 DEF RunStart, Take, HandlerInv
<1>5. CASE Handlers
  BY <1>1, <1>2, <1>3, <1>5
     DEF Handlers, Poll, EnterAccept, AcceptAgain, LeaveAccept, EndDispatch, NewConnection,
         AcceptAndDrop, OpenIdle, LeaveConn, ListenAndStore, HandlerInv
<1>6. CASE AcceptOne \/ CloseIdle \/ AcceptFails \/ AcceptAborts \/ EndFunctors \/ UsedTooLate
  BY <1>6 DEF AcceptOne, CloseIdle, AcceptFails, LeaveAccept, AcceptAborts, EndFunctors,
              UsedTooLate, HandlerInv
<1>7. CASE \/ RunFunctor \/ Destroyer \/ User \/ \E t \in Starters : Start(t)
           \/ PeerArrives \/ OthersOpen \/ OthersClose
  BY <1>1, <1>3, <1>4, <1>7
     DEF RunFunctor, RunDestroy, RunCleanup, RunHold, Destroyer, OtherDestroyStore,
         OtherDestroyMove, OtherDestroyDrop, OtherDestroyConn, User, LoopStart, LoopDestroy,
         OtherDestroyBegin, StartLoad, Start, StartStore, StartQueue, PeerArrives,
         OthersOpen, OthersClose, loopVars
<1>8. CASE Next
  BY <1>2, <1>5, <1>6, <1>7, <1>8 DEF Next
<1> QED BY <1>1, <1>8 DEF vars, loopVars

\* AcceptInv is inductive.
LEMMA AcceptStep ==
    ASSUME AcceptInv, HandlerInv, [Next]_vars
    PROVE  AcceptInv'
<1>1. CASE UNCHANGED vars
  <2>1. UNCHANGED <<state, server, acceptor, pending, active, loopPc, startPc>>
    BY <1>1 DEF vars, acceptVars, loopVars, startVars
  <2>2. Token' <=> Token
    BY <2>1 DEF Token
  <2> QED
    BY <2>1, <2>2, AcceptKept DEF AcceptInv
<1>2. CASE Next
  BY <1>2, StartKeeps, ListenKeeps, FunctorsKeep, PassingKeeps, HandlersKeep, DestructorKeeps
     DEF Next, Handlers, User, Passing
<1> QED BY <1>1, <1>2

LEMMA AcceptInitial == Init => AcceptInv
<1> SUFFICES ASSUME Init PROVE AcceptInv
  OBVIOUS
<1>1. pending = <<>> /\ pending \in Seq(FunctorType) /\ \A op : ~Queued(op, pending)
  BY SMTT(30) DEF Init, Queued
<1>2. /\ acceptor \in AcceptorType /\ acceptor.held /\ acceptor.alive
      /\ ~acceptor.reg /\ ~acceptor.listening
  BY DEF Init, AcceptorType
<1>3. Settles
  BY <1>2 DEF Init, Settles
<1> QED
  BY <1>1, <1>2, <1>3 DEF Init, AcceptInv, Phases

LEMMA HandlerInitial == Init => HandlerInv
  BY DEF Init, HandlerInv

\* Whatever the calls of start() of any number of threads do to each other,
\* state_ reports "listening" only once the acceptor does, and says what the
\* acceptor does when no call is under way (TcpServer::start).
THEOREM StartSettlesHolds == Spec => []StartSettles
<1>1. AcceptInv => StartSettles
  BY DEF AcceptInv, StartSettles, Settles
<1>2. AcceptInv /\ HandlerInv /\ [Next]_vars => AcceptInv' /\ HandlerInv'
  BY AcceptStep, HandlerStep
<1> QED
  BY <1>1, <1>2, AcceptInitial, HandlerInitial, PTL DEF Spec

-----------------------------------------------------------------------------
(* The connections.                                                        *)

\* No socket is opened by the step.
NoneOpened == \A c \in Conns : SocketOpen(c)' => SocketOpen(c)

\* What refers to a connection, before and after a step.
LEMMA QueueHolds ==
    ASSUME NEW p \in Seq(FunctorType), NEW c \in Conns
    PROVE  (\E i \in DOMAIN p : p[i].conn = c) <=> c \in ToDestroy(p)
<1>1. \A i \in DOMAIN p : p[i] \in FunctorType
  BY SMTT(30)
<1>2. ASSUME NEW i \in DOMAIN p, p[i].conn = c PROVE c \in ToDestroy(p)
  <2>1. p[i] = Functor("destroy", c)
    BY <1>1, <1>2, FunctorFacts
  <2> QED BY <2>1 DEF ToDestroy, Elems
<1>3. ASSUME c \in ToDestroy(p) PROVE \E i \in DOMAIN p : p[i].conn = c
  <2>1. PICK i \in DOMAIN p : p[i] = Functor("destroy", c)
    BY <1>3 DEF ToDestroy, Elems
  <2> QED BY <2>1, FunctorFacts
<1> QED BY <1>2, <1>3

LEMMA HeldFacts ==
    ASSUME pending \in Seq(FunctorType), pending' \in Seq(FunctorType), NEW c \in Conns
    PROVE  /\ Held(c) <=> c \in InMap \/ c \in doomed \/ current = c \/ c \in ToDestroy(pending)
           /\ Held(c)' <=>
                  c \in InMap' \/ c \in doomed' \/ current' = c \/ c \in ToDestroy(pending')
<1>1. Held(c) <=> c \in InMap \/ c \in doomed \/ current = c \/ c \in ToDestroy(pending)
  BY QueueHolds DEF Held, InMap
<1>2. Held(c)' <=> c \in InMap' \/ c \in doomed' \/ current' = c \/ c \in ToDestroy(pending')
  BY QueueHolds DEF Held, InMap
<1> QED BY <1>1, <1>2

\* A functor other than a destroy comes or goes.
LEMMA SameToDestroy ==
    ASSUME NEW p, NEW q, NEW f, f.op # "destroy",
           Elems(q) \subseteq Elems(p) \cup {f}, Elems(p) \subseteq Elems(q) \cup {f}
    PROVE  ToDestroy(q) = ToDestroy(p)
<1>1. \A c \in Conns : Functor("destroy", c) # f
  BY FunctorFacts
<1> QED
  BY <1>1 DEF ToDestroy

\* A connection is handed to the loop thread.
LEMMA MoreToDestroy ==
    ASSUME NEW p \in Seq(FunctorType), NEW c \in Conns
    PROVE  ToDestroy(Append(p, Functor("destroy", c))) = ToDestroy(p) \cup {c}
<1> DEFINE f == Functor("destroy", c)
<1>1. f \in FunctorType /\ f.conn = c
  BY FunctorFacts
<1>2. Elems(Append(p, f)) = Elems(p) \cup {f}
  BY <1>1, AppendElems, SMTT(30)
<1>3. \A d \in Conns : Functor("destroy", d) = f => d = c
  BY <1>1, FunctorFacts
<1> HIDE DEF f
<1>4. \A d \in Conns : Functor("destroy", d) \in Elems(p) \cup {f}
                           <=> Functor("destroy", d) \in Elems(p) \/ d = c
  BY <1>3 DEF f
<1>5. ToDestroy(Append(p, f)) = ToDestroy(p) \cup {c}
  BY <1>2, <1>4 DEF ToDestroy
<1> QED BY <1>5 DEF f

\* A channel still to be handled is held by something other than a guard.
LEMMA ActiveHeld ==
    ASSUME AcceptInv, ConnInv, NEW c \in active \cap Conns
    PROVE  c \in InMap \cup doomed \cup ToDestroy(pending) \cup cut \cup orphans
<1>1. Held(c) => c \in InMap \/ c \in doomed \/ current = c \/ c \in ToDestroy(pending)
  BY QueueHolds, SMTT(30) DEF Held, InMap, AcceptInv
<1> QED BY <1>1 DEF ConnInv, Live

\* A step that leaves the connections and who refers to them alone.
LEMMA ConnKept ==
    ASSUME AcceptInv, AcceptInv', ConnInv, Token' => Token, MapTaken' <=> MapTaken,
           UNCHANGED <<conn, connections, nextConnId, doomed>>, UNCHANGED <<cut, orphans>>,
           ToDestroy(pending') = ToDestroy(pending),
           arrived' \in 0..MaxConns, backlog' \in Nat, nextConnId + backlog' <= arrived' + 1,
           loopPc' = "new" => nextConnId + backlog' <= arrived',
           active' \subseteq active,
           current' \in Conns => (current' = current \/ Live(current')) /\ current' \notin active',
           loopPc' \in AtRest => current' = None,
           loopPc' \in Closes => loopPc \in Closes /\ current' = current,
           Token' => Closing' = Closing
    PROVE  ConnInv' /\ NoneOpened
<1>1. InMap' = InMap
  BY DEF InMap
<1>2. \A c \in Conns : Created(c)' <=> Created(c)
  BY DEF Created
<1>3. \A c \in Conns :
          /\ Held(c) <=> c \in InMap \/ c \in doomed \/ current = c \/ c \in ToDestroy(pending)
          /\ Held(c)' <=> c \in InMap \/ c \in doomed \/ current' = c \/ c \in ToDestroy(pending)
  <2>1. pending \in Seq(FunctorType) /\ pending' \in Seq(FunctorType)
    BY DEF AcceptInv
  <2> QED BY <1>1, <2>1, HeldFacts
<1>4. \A c \in active' \cap Conns : Live(c)' \/ c \in cut' \cup orphans'
  BY <1>2, <1>3 DEF ConnInv, Live
<1>5. NoneOpened
  BY <1>2, <1>3 DEF NoneOpened, SocketOpen, Live
<1>6. current' \in Conns => current' < nextConnId' /\ current' \notin active'
  BY <1>2 DEF ConnInv, Live, Created
<1>7. MapIsEstablished'
  BY <1>1, <1>2 DEF ConnInv, MapIsEstablished
<1>8. \A c \in Conns : Created(c)' => Owned(c)'
  BY <1>1, <1>2 DEF ConnInv, Owned
<1>9. /\ \A n \in DOMAIN connections' : /\ connections'[n] \in Conns
                                        /\ connections'[n] < nextConnId'
                                        /\ n = NameOf(connections'[n])
      /\ doomed' \subseteq Conns /\ \A c \in doomed' : Created(c)'
      /\ \A c \in ToDestroy(pending') : Created(c)' /\ (Token' => conn'[c].st = "Disconnected")
      /\ ~MapTaken' => doomed' = {}
      /\ MapTaken' => InMap' \subseteq orphans'
  BY <1>1 DEF ConnInv, Created
<1>10. /\ conn' \in [Conns -> [st : {"Connecting", "Connected", "Disconnected"},
                              reg : BOOLEAN, fd : BOOLEAN]]
       /\ nextConnId' \in 1..(MaxConns + 1) /\ nextConnId' + backlog' <= arrived' + 1
       /\ loopPc' = "new" => nextConnId' + backlog' <= arrived'
       /\ loopPc' \in Closes => current' \in Conns /\ conn'[current'].st = "Disconnected"
  BY DEF ConnInv
<1> QED
  BY <1>4, <1>5, <1>6, <1>7, <1>8, <1>9, <1>10 DEF ConnInv, Created

\* The steps that leave the queue alone too.
Quiet ==
    \/ EnterAccept \/ EndDispatch \/ LeaveConn \/ AcceptAborts \/ EndFunctors \/ CloseIdle
    \/ OthersOpen \/ OthersClose \/ LoopStart \/ CloseCallback \/ RemoveConnection
    \/ UsedTooLate \/ OtherDestroyBegin \/ OtherDestroyStore
    \/ \E t \in Starters : StartLoad(t) \/ StartStore(t)
    \/ \E c \in Conns : EnterConn(c) \/ EnterFreed(c)

LEMMA QuietConns ==
    ASSUME AcceptInv, AcceptInv', ConnInv, Quiet
    PROVE  ConnInv' /\ NoneOpened
<1>1. /\ UNCHANGED <<conn, connections, nextConnId, doomed, pending, arrived, backlog>>
      /\ UNCHANGED <<cut, orphans>>
  BY DEF Quiet, EnterAccept, EndDispatch, LeaveConn, AcceptAborts, EndFunctors, CloseIdle,
         OthersOpen, OthersClose, LoopStart, CloseCallback, RemoveConnection, UsedTooLate,
         OtherDestroyBegin, OtherDestroyStore, StartLoad, StartStore,
         EnterConn, EnterFreed, connVars, kernelVars, histVars
<1>2. (Token' => Token) /\ (MapTaken' <=> MapTaken)
  BY DEF Quiet, EnterAccept, EndDispatch, LeaveConn, AcceptAborts, EndFunctors, CloseIdle,
         OthersOpen, OthersClose, LoopStart, CloseCallback, RemoveConnection, UsedTooLate,
         OtherDestroyBegin, OtherDestroyStore, StartLoad, StartStore,
         EnterConn, EnterFreed, acceptVars, Token, MapTaken, MayDestroy
<1>3. active' \subseteq active
  BY DEF Quiet, EnterAccept, EndDispatch, LeaveConn, AcceptAborts, EndFunctors, CloseIdle,
         OthersOpen, OthersClose, LoopStart, CloseCallback, RemoveConnection, UsedTooLate,
         OtherDestroyBegin, OtherDestroyStore, StartLoad, StartStore,
         EnterConn, EnterFreed, loopVars
<1>4. current' \in Conns => (current' = current \/ Live(current')) /\ current' \notin active'
  <2>1. CASE \E c \in Conns : EnterConn(c)
    BY <2>1 DEF EnterConn
  <2>2. CASE ~\E c \in Conns : EnterConn(c)
    <3>1. current' \in {current, None, AcceptCh}
      BY <2>2 DEF Quiet, EnterAccept, EndDispatch, LeaveConn, AcceptAborts, EndFunctors,
             CloseIdle, OthersOpen, OthersClose, LoopStart, CloseCallback, RemoveConnection,
             UsedTooLate, OtherDestroyBegin, OtherDestroyStore, StartLoad,
             StartStore, EnterFreed, loopVars
    <3> QED BY <1>3, <3>1, ChannelsAssumption DEF ConnInv
  <2> QED BY <2>1, <2>2
<1>5. /\ loopPc' \in AtRest => current' = None
      /\ loopPc' \in Closes => loopPc \in Closes /\ current' = current
      /\ loopPc' = "new" => loopPc = "new"
      /\ Token' => Closing' = Closing
  <2>1. CASE UNCHANGED <<loopPc, current>>
    BY <2>1 DEF ConnInv, Closing
  <2>2. CASE EnterAccept \/ EndDispatch \/ LeaveConn \/ AcceptAborts \/ EndFunctors \/ CloseIdle
             \/ \E c \in Conns : EnterConn(c) \/ EnterFreed(c)
    BY <2>2 DEF EnterAccept, EndDispatch, LeaveConn, AcceptAborts, EndFunctors, CloseIdle,
           EnterConn, EnterFreed, ConnInv, Closing, AtRest, Closes
  <2>3. CASE CloseCallback \/ RemoveConnection \/ UsedTooLate
    <3>1. /\ current' = current
          /\ \/ loopPc \in Closes /\ loopPc' \in Closes
             \/ loopPc' \in {"conn", "aborted"} /\ ~Token'
      BY <2>3 DEF CloseCallback, RemoveConnection, UsedTooLate, Closes, acceptVars, Token
    <3> QED BY <3>1 DEF Closing, AtRest, Closes
  <2> QED
    BY <2>1, <2>2, <2>3 DEF Quiet, OthersOpen, OthersClose, LoopStart, OtherDestroyBegin,
       OtherDestroyStore, StartLoad, StartStore, loopVars
<1>6. /\ ToDestroy(pending') = ToDestroy(pending)
      /\ arrived' \in 0..MaxConns /\ backlog' \in Nat /\ nextConnId + backlog' <= arrived' + 1
      /\ loopPc' = "new" => nextConnId + backlog' <= arrived'
  BY <1>1, <1>5 DEF ConnInv
<1> QED
  BY <1>1, <1>2, <1>3, <1>4, <1>5, <1>6, ConnKept

\* Peers come, are accepted, and are dropped when there is no descriptor for them.
LEMMA PeersConns ==
    ASSUME AcceptInv, AcceptInv', ConnInv, PeerArrives \/ AcceptAndDrop \/ AcceptOne
    PROVE  ConnInv' /\ NoneOpened
<1>1. /\ UNCHANGED <<conn, connections, nextConnId, doomed, pending, current, active>>
      /\ UNCHANGED <<cut, orphans, server>>
      /\ \/ loopPc' = loopPc
         \/ loopPc \in {"accept", "emfileAccept"} /\ loopPc' \in {"new", "accept", "emfileOpen"}
  BY DEF PeerArrives, AcceptAndDrop, AcceptOne, connVars, acceptVars, loopVars, histVars
<1>2. /\ arrived \in 0..MaxConns /\ backlog \in Nat /\ nextConnId + backlog <= arrived + 1
      /\ nextConnId \in Nat /\ MaxConns \in Nat
      /\ loopPc = "new" => nextConnId + backlog <= arrived
  <2>1. MaxConns \in Nat
    BY BoundsAssumption
  <2>2. nextConnId \in 1..(MaxConns + 1)
    BY DEF ConnInv
  <2>3. nextConnId \in Nat
    BY <2>1, <2>2, SMTT(30)
  <2> QED BY <2>1, <2>3 DEF ConnInv
<1>3. \/ arrived < MaxConns /\ arrived' = arrived + 1 /\ backlog' = backlog + 1 /\ loopPc' = loopPc
      \/ arrived' = arrived /\ backlog > 0 /\ backlog' = backlog - 1
      \/ UNCHANGED <<arrived, backlog>> /\ loopPc' # "new"
  BY DEF PeerArrives, AcceptAndDrop, AcceptOne, loopVars
<1>4. /\ arrived' \in 0..MaxConns /\ backlog' \in Nat /\ nextConnId + backlog' <= arrived' + 1
      /\ loopPc' = "new" => nextConnId + backlog' <= arrived'
  <2>2. CASE arrived < MaxConns /\ arrived' = arrived + 1 /\ backlog' = backlog + 1 /\ loopPc' = loopPc
    <3>1. arrived' \in 0..MaxConns /\ backlog' \in Nat /\ nextConnId + backlog' <= arrived' + 1
      BY <1>2, <2>2, SMTT(30)
    <3>2. nextConnId + backlog <= arrived => nextConnId + backlog' <= arrived'
      BY <1>2, <2>2, SMTT(30)
    <3> QED BY <1>2, <2>2, <3>1, <3>2
  <2>3. CASE arrived' = arrived /\ backlog > 0 /\ backlog' = backlog - 1
    <3>1. /\ arrived' \in 0..MaxConns /\ backlog' \in Nat
          /\ nextConnId + backlog' <= arrived' + 1 /\ nextConnId + backlog' <= arrived'
      BY <1>2, <2>3, SMTT(30)
    <3> QED BY <3>1
  <2>4. CASE UNCHANGED <<arrived, backlog>> /\ loopPc' # "new"
    BY <1>2, <2>4
  <2> QED BY <1>3, <2>2, <2>3, <2>4
<1>5. /\ current' \in Conns => (current' = current \/ Live(current')) /\ current' \notin active'
      /\ loopPc' \in AtRest => current' = None
      /\ loopPc' \in Closes => loopPc \in Closes /\ current' = current
      /\ ToDestroy(pending') = ToDestroy(pending)
      /\ (Token' => Token) /\ (MapTaken' <=> MapTaken)
      /\ Closing' = Closing
  BY <1>1 DEF ConnInv, AtRest, Closes, Closing, Token, MapTaken
<1> QED
  BY <1>1, <1>4, <1>5, ConnKept

\* The steps that queue or run a functor other than a destroy.
LEMMA OtherFunctorsConns ==
    ASSUME AcceptInv, AcceptInv', ConnInv,
           \/ AcceptAgain \/ AcceptFails \/ OpenIdle \/ \E t \in Starters : StartQueue(t)
           \/ ListenAndStore \/ OtherDestroyDrop
           \/ \E i \in DOMAIN pending : RunStart(i) \/ RunCleanup(i) \/ RunHold(i)
    PROVE  ConnInv' /\ NoneOpened
<1>0. pending \in Seq(FunctorType)
  BY DEF AcceptInv
<1> DEFINE h == Functor("hold", None)
           f == Functor("start", None)
<1>1. h \in FunctorType /\ f \in FunctorType /\ h.op = "hold" /\ f.op = "start"
  BY FunctorFacts
<1>2. ASSUME NEW p \in Seq(FunctorType), NEW g \in FunctorType, g.op # "destroy"
      PROVE  /\ Append(p, g) \in Seq(FunctorType)
             /\ ToDestroy(Append(p, g)) = ToDestroy(p)
  <2>1. Append(p, g) \in Seq(FunctorType) /\ Elems(Append(p, g)) = Elems(p) \cup {g}
    BY AppendElems, SMTT(30)
  <2> QED BY <1>2, <2>1, SameToDestroy
<1>3. ASSUME NEW i \in DOMAIN pending, pending[i].op # "destroy"
      PROVE  /\ Without(pending, i) \in Seq(FunctorType)
             /\ ToDestroy(Without(pending, i)) = ToDestroy(pending)
  <2>1. /\ Without(pending, i) \in Seq(FunctorType)
        /\ Elems(Without(pending, i)) \subseteq Elems(pending)
        /\ Elems(pending) \subseteq Elems(Without(pending, i)) \cup {pending[i]}
    BY <1>0, WithoutElems
  <2> QED BY <1>3, <2>1, SameToDestroy
<1>4. ASSUME NEW a, NEW cur, NEW p \in Seq(FunctorType), Release(a, cur, p)
      PROVE  ToDestroy(pending') = ToDestroy(p)
  <2>1. pending' \in {p, Append(p, h)}
    BY <1>4 DEF Release
  <2> HIDE DEF h
  <2> QED BY <1>1, <1>2, <2>1
<1> HIDE DEF h, f
<1>5. /\ UNCHANGED <<conn, connections, nextConnId, doomed, active>> /\ UNCHANGED <<cut, orphans>>
      /\ (Token' => Token) /\ (MapTaken' <=> MapTaken)
      /\ \/ UNCHANGED <<current, loopPc>>
         \/ loopPc \in {"accept", "emfileOpen"} /\ current' = None /\ loopPc' = "dispatch"
         \/ /\ loopPc \in {"functors", "starting"} /\ loopPc' \in {"functors", "starting"}
            /\ current' = current
  BY DEF AcceptAgain, AcceptFails, LeaveAccept, OpenIdle, StartQueue, RunStart, RunCleanup,
         RunHold, ListenAndStore, OtherDestroyDrop, Take, connVars, acceptVars, loopVars,
         histVars, Token, MapTaken
<1>6. ToDestroy(pending') = ToDestroy(pending)
  <2>1. CASE AcceptAgain \/ AcceptFails \/ OpenIdle
    BY <1>0, <1>4, <2>1 DEF AcceptAgain, AcceptFails, LeaveAccept, OpenIdle
  <2>2. CASE \E t \in Starters : StartQueue(t)
    <3>1. pending' = Append(pending, f)
      BY <2>2 DEF StartQueue, f
    <3> QED BY <1>0, <1>1, <1>2, <3>1
  <2>3. ASSUME NEW i \in DOMAIN pending, pending[i].op = "start",
               NEW a, Release(a, None, Without(pending, i))
        PROVE  ToDestroy(pending') = ToDestroy(pending)
    BY <1>3, <1>4, <2>3, SMTT(30)
  <2>4. CASE ListenAndStore
    BY <2>3, <2>4 DEF ListenAndStore
  <2>5. ASSUME NEW i \in DOMAIN pending, RunStart(i) PROVE ToDestroy(pending') = ToDestroy(pending)
    BY <2>3, <2>5 DEF RunStart, Take
  <2>6. CASE OtherDestroyDrop
    <3> DEFINE g == Functor("cleanup", None)
    <3>1. g \in FunctorType /\ g.op = "cleanup"
      BY FunctorFacts
    <3>2. pending' \in {pending, Append(pending, g)}
      BY <2>6 DEF OtherDestroyDrop
    <3> HIDE DEF g
    <3> QED BY <1>0, <1>2, <3>1, <3>2
  <2>7. ASSUME NEW i \in DOMAIN pending, RunCleanup(i) \/ RunHold(i)
        PROVE  ToDestroy(pending') = ToDestroy(pending)
    <3>1. /\ pending[i].op # "destroy"
          /\ pending' \in {Without(pending, i), Append(Without(pending, i), h)}
      BY <2>7 DEF RunCleanup, RunHold, Take, h
    <3>2. /\ Without(pending, i) \in Seq(FunctorType)
          /\ ToDestroy(Without(pending, i)) = ToDestroy(pending)
      BY <1>3, <3>1
    <3> QED BY <1>1, <1>2, <3>1, <3>2
  <2> QED BY <2>1, <2>2, <2>4, <2>5, <2>6, <2>7
<1>7. /\ arrived' = arrived
      /\ backlog' = backlog \/ (backlog > 0 /\ backlog' = backlog - 1 /\ loopPc' = "dispatch")
  BY DEF AcceptAgain, AcceptFails, LeaveAccept, OpenIdle, StartQueue, RunStart, RunCleanup,
         RunHold, ListenAndStore, OtherDestroyDrop, kernelVars
<1>8. /\ arrived' \in 0..MaxConns /\ backlog' \in Nat /\ nextConnId + backlog' <= arrived' + 1
      /\ loopPc' = "new" => nextConnId + backlog' <= arrived'
  <2>1. /\ backlog \in Nat /\ nextConnId + backlog <= arrived + 1 /\ arrived \in 0..MaxConns
        /\ MaxConns \in Nat /\ nextConnId \in 1..(MaxConns + 1)
        /\ loopPc = "new" => nextConnId + backlog <= arrived
    BY BoundsAssumption DEF ConnInv
  <2>2. arrived' \in 0..MaxConns /\ backlog' \in Nat /\ nextConnId + backlog' <= arrived' + 1
    BY <1>7, <2>1, SMTT(30)
  <2> QED BY <1>5, <1>7, <2>1, <2>2
<1>9. /\ current' \in Conns => (current' = current \/ Live(current')) /\ current' \notin active'
      /\ loopPc' \in AtRest => current' = None
      /\ loopPc' \in Closes => loopPc \in Closes /\ current' = current
      /\ Closing' = Closing
  BY <1>5, ChannelsAssumption DEF ConnInv, AtRest, Closes, Closing
<1> QED
  BY <1>5, <1>6, <1>8, <1>9, ConnKept

\* A step that moves connections from one owner to the next.
LEMMA ConnMoved ==
    ASSUME AcceptInv, AcceptInv', ConnInv, Token' => Token,
           UNCHANGED <<nextConnId, arrived, backlog, current, active>>,
           loopPc' \in {loopPc, "closing", "conn", "aborted"},
           loopPc' \in Closes => current \in Conns /\ conn'[current].st = "Disconnected",
           conn' \in [Conns -> [st : {"Connecting", "Connected", "Disconnected"},
                                reg : BOOLEAN, fd : BOOLEAN]],
           \A c \in Conns : conn'[c].fd => conn[c].fd,
           \A n \in DOMAIN connections' : n \in DOMAIN connections /\ connections'[n] = connections[n],
           doomed' \subseteq doomed \cup InMap, ~MapTaken' => doomed' = {},
           MapTaken' => InMap' \subseteq orphans',
           ToDestroy(pending') \subseteq ToDestroy(pending) \cup InMap \cup doomed
                                         \cup ({current} \cap Conns),
           \A c \in ToDestroy(pending') : Token' => conn'[c].st = "Disconnected",
           \A c \in Conns : Created(c) => Owned(c)',
           MapIsEstablished',
           \A c \in active \cap Conns :
               c \in InMap' \cup doomed' \cup ToDestroy(pending') \cup cut' \cup orphans'
    PROVE  ConnInv' /\ NoneOpened
<1>1. InMap' \subseteq InMap
  BY SMTT(30) DEF InMap
<1>2. InMap \subseteq Conns /\ \A c \in InMap : Created(c)
  BY SMTT(30) DEF InMap, ConnInv
<1>3. \A c \in Conns : Created(c)' <=> Created(c)
  BY DEF Created
<1>4. /\ doomed \subseteq Conns /\ \A c \in doomed : Created(c)
      /\ \A c \in ToDestroy(pending) : c \in Conns /\ Created(c)
      /\ current \in Conns => Created(current) /\ current \notin active
  BY DEF ConnInv, ToDestroy
<1>5. /\ doomed' \subseteq Conns /\ \A c \in doomed' : Created(c)
      /\ \A c \in ToDestroy(pending') : Created(c)
  BY <1>2, <1>4
<1>6. \A c \in Conns :
          /\ Held(c) <=> c \in InMap \/ c \in doomed \/ current = c \/ c \in ToDestroy(pending)
          /\ Held(c)' <=> c \in InMap' \/ c \in doomed' \/ current = c \/ c \in ToDestroy(pending')
  <2>1. pending \in Seq(FunctorType) /\ pending' \in Seq(FunctorType)
    BY DEF AcceptInv
  <2> QED BY <2>1, HeldFacts
<1>7. NoneOpened
  <2> SUFFICES ASSUME NEW c \in Conns, SocketOpen(c)' PROVE SocketOpen(c)
    BY DEF NoneOpened
  <2>1. Created(c) /\ Held(c)' /\ conn'[c].fd
    BY <1>3 DEF SocketOpen, Live
  <2>2. Held(c)
    BY <1>1, <1>6, <2>1
  <2> QED BY <2>1, <2>2 DEF SocketOpen, Live
<1>8. \A c \in active' \cap Conns : Live(c)' \/ c \in cut' \cup orphans'
  <2> SUFFICES ASSUME NEW c \in active \cap Conns, c \notin cut' \cup orphans' PROVE Live(c)'
    OBVIOUS
  <2>1. c \in InMap' \cup doomed' \cup ToDestroy(pending')
    OBVIOUS
  <2>2. Created(c)
    BY <1>1, <1>2, <1>5, <2>1
  <2> QED BY <1>3, <1>6, <2>1, <2>2 DEF Live
<1>9. /\ \A n \in DOMAIN connections' : /\ connections'[n] \in Conns
                                        /\ Created(connections[n])
                                        /\ connections'[n] = connections[n]
                                        /\ n = NameOf(connections'[n])
  BY DEF ConnInv
<1>10. \A n \in DOMAIN connections' : connections'[n] < nextConnId'
  BY <1>9 DEF Created
<1>11. /\ nextConnId' \in 1..(MaxConns + 1)
       /\ arrived' \in 0..MaxConns /\ backlog' \in Nat /\ nextConnId' + backlog' <= arrived' + 1
       /\ loopPc' = "new" => nextConnId' + backlog' <= arrived'
       /\ loopPc' \in AtRest => current' = None
       /\ loopPc' \in Closes => current' \in Conns /\ conn'[current'].st = "Disconnected"
       /\ current' \in Conns => current' < nextConnId' /\ current' \notin active'
  BY DEF ConnInv, Created, AtRest
<1>12. \A c \in Conns : Created(c)' => Owned(c)'
  BY <1>3
<1>13. /\ \A c \in doomed' : Created(c)'
       /\ \A c \in ToDestroy(pending') : Created(c)'
  BY <1>5 DEF Created
<1> QED
  BY <1>5, <1>7, <1>8, <1>9, <1>10, <1>11, <1>12, <1>13 DEF ConnInv, Created

\* poll() returns channels of connections that are registered, and so live.
LEMMA PollConns ==
    ASSUME AcceptInv, AcceptInv', ConnInv, Poll
    PROVE  ConnInv' /\ NoneOpened
<1>1. /\ UNCHANGED <<conn, connections, nextConnId, doomed, pending, current, arrived, backlog, server>>
      /\ \A c \in active' \cap Conns : Live(c)
      /\ current = None /\ loopPc = "poll" /\ loopPc' = "dispatch" /\ orphans' = orphans
  BY ChannelsAssumption DEF Poll, connVars, kernelVars, acceptVars, AtRest, ConnInv
<1>2. \A c \in Conns : Live(c)' <=> Live(c)
  BY <1>1 DEF Live, Held, Created
<1>3. NoneOpened
  BY <1>1, <1>2 DEF NoneOpened, SocketOpen
<1>4. InMap' = InMap /\ ToDestroy(pending') = ToDestroy(pending) /\ (Token' <=> Token)
      /\ (MapTaken' <=> MapTaken) /\ Closing' = Closing
  BY <1>1 DEF InMap, Token, MapTaken, Closing
<1>5. current' \notin Conns
  BY <1>1, ChannelsAssumption
<1>6. MapIsEstablished' /\ \A c \in Conns : Created(c)' => Owned(c)'
  BY <1>1, <1>4 DEF ConnInv, MapIsEstablished, Owned, Created
<1> QED
  BY <1>1, <1>2, <1>3, <1>4, <1>5, <1>6 DEF ConnInv, Created, Closes

\* The connection of a peer: its name is new, so the map keeps the others.
LEMMA NewConnectionConns ==
    ASSUME AcceptInv, AcceptInv', ConnInv, NewConnection, NamesDiffer
    PROVE  /\ ConnInv' /\ nextConnId \in Conns
           /\ \A c \in Conns : SocketOpen(c)' => SocketOpen(c) \/ c = nextConnId
<1> DEFINE k == nextConnId
<1>1. /\ conn' = [conn EXCEPT ![k] = [st |-> "Connected", reg |-> TRUE, fd |-> TRUE]]
      /\ connections' = [n \in DOMAIN connections \cup {NameOf(k)} |->
                             IF n = NameOf(k) THEN k ELSE connections[n]]
      /\ nextConnId' = k + 1
      /\ orphans' = IF MapTaken THEN orphans \cup {k} ELSE orphans
      /\ UNCHANGED <<server, doomed, pending, active, current>>
      /\ UNCHANGED <<arrived, backlog, cut>>
      /\ loopPc = "new" /\ loopPc' = "accept"
  BY DEF NewConnection, newConnection, acceptVars, kernelVars
<1>2. /\ k \in Conns /\ nextConnId' \in 1..(MaxConns + 1)
      /\ backlog' \in Nat /\ nextConnId' + backlog' <= arrived' + 1
      /\ \A c \in Conns : c \in Nat
  <2>1. /\ k \in 1..(MaxConns + 1) /\ MaxConns \in Nat /\ arrived \in 0..MaxConns /\ backlog \in Nat
        /\ k + backlog <= arrived
    BY <1>1, BoundsAssumption DEF ConnInv
  <2> HIDE DEF k
  <2> QED BY <1>1, <2>1, SMTT(30) DEF Conns
<1>3. \A c \in Conns : Created(c)' <=> Created(c) \/ c = k
  <2>1. \A c \in Conns : c < k + 1 <=> c < k \/ c = k
    <3> HIDE DEF k
    <3> QED BY <1>2, SMTT(30)
  <2> QED BY <1>1, <2>1 DEF Created
<1>4. ~Created(k)
  <2>1. ~(k < k)
    <3> HIDE DEF k
    <3> QED BY <1>2, SMTT(30)
  <2> QED BY <2>1 DEF Created
<1>5. \A n \in DOMAIN connections : n # NameOf(k)
  <2> SUFFICES ASSUME NEW n \in DOMAIN connections, n = NameOf(k) PROVE FALSE
    OBVIOUS
  <2>1. connections[n] \in Conns /\ Created(connections[n]) /\ n = NameOf(connections[n])
    BY DEF ConnInv
  <2>2. connections[n] = k
    BY <1>2, <2>1 DEF NamesDiffer
  <2> QED BY <1>4, <2>1, <2>2
<1>6. /\ DOMAIN connections' = DOMAIN connections \cup {NameOf(k)}
      /\ connections'[NameOf(k)] = k
      /\ \A n \in DOMAIN connections : connections'[n] = connections[n]
  BY <1>1, <1>5
<1> HIDE DEF k
<1>7. InMap' = InMap \cup {k}
  BY <1>6 DEF InMap
<1>8. /\ conn' \in [Conns -> [st : {"Connecting", "Connected", "Disconnected"},
                              reg : BOOLEAN, fd : BOOLEAN]]
      /\ conn'[k].st = "Connected"
      /\ \A c \in Conns : c # k => conn'[c] = conn[c]
  BY <1>1, <1>2 DEF ConnInv
<1>9. \A c \in Conns :
          /\ Held(c) <=> c \in InMap \/ c \in doomed \/ current = c \/ c \in ToDestroy(pending)
          /\ Held(c)' <=> c \in InMap \cup {k} \/ c \in doomed \/ current = c \/ c \in ToDestroy(pending)
  <2>1. pending \in Seq(FunctorType) /\ pending' \in Seq(FunctorType)
    BY DEF AcceptInv
  <2> QED BY <1>1, <1>7, <2>1, HeldFacts
<1>10. \A c \in Conns : SocketOpen(c)' => SocketOpen(c) \/ c = k
  BY <1>3, <1>8, <1>9 DEF SocketOpen, Live
<1>11. \A c \in active' \cap Conns : Live(c)' \/ c \in cut' \cup orphans'
  BY <1>1, <1>3, <1>9 DEF ConnInv, Live
<1>12. \A n \in DOMAIN connections' :
           /\ connections'[n] \in Conns /\ connections'[n] < nextConnId'
           /\ n = NameOf(connections'[n])
  <2>1. \A c \in Conns : Created(c) \/ c = k => c < nextConnId'
    BY <1>3 DEF Created
  <2> QED BY <1>2, <1>6, <2>1 DEF ConnInv
<1>13. (Token' <=> Token) /\ (MapTaken' <=> MapTaken) /\ MapIsEstablished'
  <2> SUFFICES ASSUME Token PROVE MapIsEstablished'
    BY <1>1 DEF Token, MapTaken, MapIsEstablished
  <2>0. Closing = {} /\ Closing' = {}
    BY <1>1 DEF Closing
  <2>1. InMap = {c \in Conns : Created(c) /\ conn[c].st = "Connected"}
    BY <2>0 DEF ConnInv, MapIsEstablished
  <2>2. \A c \in Conns : c \in InMap \cup {k} <=> Created(c)' /\ conn'[c].st = "Connected"
    BY <1>3, <1>4, <1>8, <2>1
  <2>3. InMap' = {c \in Conns : Created(c)' /\ conn'[c].st = "Connected"}
    BY <1>2, <1>7, <2>1, <2>2
  <2> QED BY <2>0, <2>3 DEF MapIsEstablished
<1>14. \A c \in Conns : Created(c)' => Owned(c)'
  BY <1>1, <1>3, <1>7, <1>8 DEF ConnInv, Owned
<1>15. \A c \in ToDestroy(pending') : Created(c)' /\ (Token' => conn'[c].st = "Disconnected")
  <2>1. ToDestroy(pending') = ToDestroy(pending) /\ ToDestroy(pending) \subseteq Conns
    BY <1>1 DEF ToDestroy
  <2> QED BY <1>3, <1>4, <1>8, <1>13, <2>1 DEF ConnInv
<1>16. /\ doomed' \subseteq Conns /\ \A c \in doomed' : Created(c)'
       /\ ~MapTaken' => doomed' = {}
       /\ MapTaken' => InMap' \subseteq orphans'
       /\ current' \in Conns => Created(current)' /\ current' \notin active'
       /\ loopPc' \notin AtRest /\ loopPc' \notin Closes /\ loopPc' # "new"
       /\ arrived' \in 0..MaxConns
  BY <1>1, <1>3, <1>7, <1>13 DEF ConnInv, AtRest, Closes
<1> QED
  BY <1>2, <1>8, <1>10, <1>11, <1>12, <1>13, <1>14, <1>15, <1>16 DEF ConnInv, Created, k

\* handleClose(): nothing but the connection itself changes,
LEMMA CloseConns ==
    ASSUME AcceptInv, AcceptInv', ConnInv, NEW c \in Conns, HandleClose(c)
    PROVE  ConnInv' /\ NoneOpened
<1>1. /\ UNCHANGED <<server, connections, pending, nextConnId, doomed, active, current>>
      /\ UNCHANGED <<arrived, backlog, cut, orphans>>
      /\ loopPc = "conn" /\ loopPc' = "closing" /\ current = c /\ conn[c].st = "Connected"
      /\ conn' = [conn EXCEPT ![c].st = "Disconnected", ![c].reg = FALSE]
  BY DEF HandleClose, acceptVars, kernelVars, histVars
<1>2. /\ conn' \in [Conns -> [st : {"Connecting", "Connected", "Disconnected"},
                              reg : BOOLEAN, fd : BOOLEAN]]
      /\ conn'[c].st = "Disconnected" /\ ~conn'[c].reg /\ conn'[c].fd = conn[c].fd
      /\ \A d \in Conns : d # c => conn'[d] = conn[d]
  BY <1>1 DEF ConnInv
<1>3. /\ Created(c) /\ (Token' <=> Token) /\ (MapTaken' <=> MapTaken) /\ InMap' = InMap
      /\ ToDestroy(pending') = ToDestroy(pending)
      /\ \A d \in Conns : Created(d)' <=> Created(d)
  BY <1>1 DEF ConnInv, Token, MapTaken, InMap, Created
<1>4. MapIsEstablished'
  <2> SUFFICES ASSUME Token
               PROVE  InMap' = {d \in Conns : Created(d)' /\ conn'[d].st = "Connected"} \cup Closing'
    BY <1>3 DEF MapIsEstablished
  <2>1. Closing = {} /\ Closing' = {c}
    BY <1>1 DEF Closing
  <2>2. InMap = {d \in Conns : Created(d) /\ conn[d].st = "Connected"}
    BY <2>1 DEF ConnInv, MapIsEstablished
  <2> QED BY <1>1, <1>2, <1>3, <2>1, <2>2
<1>5. \A d \in Conns : Created(d) => Owned(d)'
  BY <1>1, <1>2, <1>3 DEF ConnInv, Owned
<1>6. \A d \in active \cap Conns :
          d \in InMap' \cup doomed' \cup ToDestroy(pending') \cup cut' \cup orphans'
  BY <1>1, <1>3, ActiveHeld
<1>7. /\ \A d \in Conns : conn'[d].fd => conn[d].fd
      /\ doomed' \subseteq doomed \cup InMap
      /\ ~MapTaken' => doomed' = {}
      /\ MapTaken' => InMap' \subseteq orphans'
      /\ ToDestroy(pending') \subseteq ToDestroy(pending) \cup InMap \cup doomed
                                       \cup ({current} \cap Conns)
      /\ \A n \in DOMAIN connections' : n \in DOMAIN connections /\ connections'[n] = connections[n]
  BY <1>1, <1>2, <1>3 DEF ConnInv
<1>8. \A d \in ToDestroy(pending') : Token' => conn'[d].st = "Disconnected"
  <2>1. ToDestroy(pending) \subseteq Conns
    BY DEF ToDestroy
  <2> QED BY <1>2, <1>3, <2>1 DEF ConnInv
<1> QED
  BY <1>1, <1>2, <1>3, <1>4, <1>5, <1>6, <1>7, <1>8, ConnMoved

\* and later the map loses it and a functor has it.
LEMMA RemoveConns ==
    ASSUME AcceptInv, AcceptInv', ConnInv, RemoveConnectionInLoop, NamesDiffer
    PROVE  ConnInv' /\ NoneOpened
<1> DEFINE c == current
<1>1. /\ UNCHANGED <<server, conn, nextConnId, doomed, active, current>>
      /\ UNCHANGED <<arrived, backlog, cut, orphans>>
      /\ loopPc = "erase" /\ loopPc' = "conn"
      /\ connections' = Erase(NameOf(c)) /\ pending' = Append(pending, Functor("destroy", c))
  BY DEF RemoveConnectionInLoop, acceptVars, kernelVars, histVars
<1>2. c \in Conns /\ conn[c].st = "Disconnected"
  BY <1>1 DEF ConnInv, Closes
<1>3. /\ (Token' <=> Token) /\ (MapTaken' <=> MapTaken)
      /\ \A d \in Conns : Created(d)' <=> Created(d)
  BY <1>1 DEF Token, MapTaken, Created
<1>4. ToDestroy(pending') = ToDestroy(pending) \cup {c}
  BY <1>1, <1>2, MoreToDestroy DEF AcceptInv
<1>5. /\ DOMAIN connections' = DOMAIN connections \ {NameOf(c)}
      /\ \A n \in DOMAIN connections' : n \in DOMAIN connections /\ connections'[n] = connections[n]
  BY <1>1 DEF Erase
<1>6. InMap' = InMap \ {c}
  <2>1. \A n \in DOMAIN connections : connections[n] = c <=> n = NameOf(c)
    BY <1>2 DEF ConnInv, NamesDiffer
  <2> HIDE DEF c
  <2> QED BY <1>5, <2>1, SMTT(30) DEF InMap
<1>7. MapIsEstablished'
  <2> SUFFICES ASSUME Token
               PROVE  InMap' = {d \in Conns : Created(d)' /\ conn'[d].st = "Connected"} \cup Closing'
    BY <1>3 DEF MapIsEstablished
  <2>1. Closing = {c} /\ Closing' = {}
    BY <1>1 DEF Closing
  <2>2. InMap = {d \in Conns : Created(d) /\ conn[d].st = "Connected"} \cup {c}
    BY <2>1 DEF ConnInv, MapIsEstablished
  <2> QED BY <1>1, <1>2, <1>3, <1>6, <2>1, <2>2
<1>8. \A d \in Conns : Created(d) => Owned(d)'
  BY <1>1, <1>4, <1>6 DEF ConnInv, Owned
<1>9. \A d \in active \cap Conns :
          d \in InMap' \cup doomed' \cup ToDestroy(pending') \cup cut' \cup orphans'
  BY <1>1, <1>4, <1>6, ActiveHeld
<1>10. /\ \A d \in Conns : conn'[d].fd => conn[d].fd
       /\ doomed' \subseteq doomed \cup InMap
       /\ ~MapTaken' => doomed' = {}
       /\ MapTaken' => InMap' \subseteq orphans'
       /\ ToDestroy(pending') \subseteq ToDestroy(pending) \cup InMap \cup doomed
                                        \cup ({current} \cap Conns)
       /\ \A d \in ToDestroy(pending') : Token' => conn'[d].st = "Disconnected"
       /\ loopPc' \notin Closes
       /\ conn' \in [Conns -> [st : {"Connecting", "Connected", "Disconnected"},
                               reg : BOOLEAN, fd : BOOLEAN]]
  BY <1>1, <1>2, <1>3, <1>4, <1>6 DEF ConnInv, Closes
<1> QED
  BY <1>1, <1>3, <1>5, <1>7, <1>8, <1>9, <1>10, ConnMoved

\* connectDestroyed() on the loop thread.
LEMMA DestroyedFacts ==
    ASSUME ConnInv, NEW cs, conn' = connectDestroyed(cs)
    PROVE  /\ conn' \in [Conns -> [st : {"Connecting", "Connected", "Disconnected"},
                                   reg : BOOLEAN, fd : BOOLEAN]]
           /\ \A c \in Conns : c \in cs => conn'[c].st = "Disconnected" /\ ~conn'[c].reg /\ ~conn'[c].fd
           /\ \A c \in Conns : c \notin cs => conn'[c] = conn[c]
  BY DEF connectDestroyed, ConnInv

LEMMA RunDestroyConns ==
    ASSUME AcceptInv, AcceptInv', ConnInv, NEW i \in DOMAIN pending, RunDestroy(i)
    PROVE  ConnInv' /\ NoneOpened
<1> DEFINE c == pending[i].conn
<1>0. pending \in Seq(FunctorType)
  BY DEF AcceptInv
<1>1. /\ UNCHANGED <<server, connections, nextConnId, doomed, active, current, loopPc>>
      /\ UNCHANGED <<arrived, backlog, cut, orphans>>
      /\ loopPc = "functors" /\ pending[i].op = "destroy"
      /\ conn' = connectDestroyed({c}) /\ pending' = Without(pending, i)
  BY DEF RunDestroy, Take, acceptVars, loopVars, kernelVars, histVars
<1>2. c \in Conns /\ pending[i] = Functor("destroy", c)
  <2>1. pending[i] \in FunctorType
    BY <1>0, SMTT(30)
  <2> QED BY <1>1, <2>1, FunctorFacts
<1>3. /\ Elems(pending') \subseteq Elems(pending)
      /\ Elems(pending) \subseteq Elems(pending') \cup {Functor("destroy", c)}
  <2>1. /\ Elems(Without(pending, i)) \subseteq Elems(pending)
        /\ Elems(pending) \subseteq Elems(Without(pending, i)) \cup {pending[i]}
    BY <1>0, WithoutElems
  <2> QED BY <1>1, <1>2, <2>1
<1>4. c \in ToDestroy(pending)
  BY <1>0, <1>2, QueueHolds
<1>5. conn' = connectDestroyed({c})
  BY <1>1
<1> HIDE DEF c
<1>6. /\ ToDestroy(pending') \subseteq ToDestroy(pending)
      /\ ToDestroy(pending) \subseteq ToDestroy(pending') \cup {c}
  <2>1. \A d \in Conns : Functor("destroy", d) = Functor("destroy", c) => d = c
    BY <1>2, FunctorFacts, SMTT(30)
  <2> QED BY <1>3, <2>1 DEF ToDestroy
<1>7. /\ conn' \in [Conns -> [st : {"Connecting", "Connected", "Disconnected"},
                              reg : BOOLEAN, fd : BOOLEAN]]
      /\ conn'[c].st = "Disconnected" /\ ~conn'[c].reg /\ ~conn'[c].fd
      /\ \A d \in Conns : d # c => conn'[d] = conn[d]
  <2>1. /\ conn' \in [Conns -> [st : {"Connecting", "Connected", "Disconnected"},
                                reg : BOOLEAN, fd : BOOLEAN]]
        /\ \A d \in Conns : d \in {c} => conn'[d].st = "Disconnected" /\ ~conn'[d].reg /\ ~conn'[d].fd
        /\ \A d \in Conns : d \notin {c} => conn'[d] = conn[d]
    BY <1>5, DestroyedFacts
  <2> QED BY <1>2, <2>1
<1>8. /\ InMap' = InMap /\ (Token' <=> Token) /\ (MapTaken' <=> MapTaken)
      /\ \A d \in Conns : Created(d)' <=> Created(d)
      /\ Closing = {} /\ Closing' = {} /\ loopPc' \notin Closes
  BY <1>1 DEF InMap, Token, MapTaken, Created, Closing, Closes
<1>9. MapIsEstablished'
  <2> SUFFICES ASSUME Token
               PROVE  InMap' = {d \in Conns : Created(d)' /\ conn'[d].st = "Connected"}
                               \cup Closing'
    BY <1>8 DEF MapIsEstablished
  <2>1. InMap = {d \in Conns : Created(d) /\ conn[d].st = "Connected"}
    BY <1>8 DEF ConnInv, MapIsEstablished
  <2>2. conn[c].st = "Disconnected"
    BY <1>4 DEF ConnInv
  <2> QED BY <1>7, <1>8, <2>1, <2>2
<1>10. \A d \in Conns : Created(d) => Owned(d)'
  BY <1>1, <1>6, <1>7, <1>8 DEF ConnInv, Owned
<1>11. \A d \in ToDestroy(pending') : Token' => conn'[d].st = "Disconnected"
  BY <1>6, <1>7, <1>8 DEF ConnInv, ToDestroy
<1>12. active = {}
  BY <1>1 DEF AcceptInv
<1>13. /\ \A d \in Conns : conn'[d].fd => conn[d].fd
       /\ \A n \in DOMAIN connections' : n \in DOMAIN connections /\ connections'[n] = connections[n]
       /\ doomed' \subseteq doomed \cup InMap 
       /\ ~MapTaken' => doomed' = {}
       /\ MapTaken' => InMap' \subseteq orphans'
       /\ ToDestroy(pending') \subseteq ToDestroy(pending) \cup InMap \cup doomed
                                        \cup ({current} \cap Conns)
  BY <1>1, <1>6, <1>7, <1>8 DEF ConnInv
<1> QED
  BY <1>1, <1>7, <1>8, <1>9, <1>10, <1>11, <1>12, <1>13, ConnMoved

\* The destructor on the loop thread.
LEMMA LoopDestroyConns ==
    ASSUME AcceptInv, AcceptInv', ConnInv, LoopDestroy
    PROVE  ConnInv' /\ NoneOpened
<1>1. /\ UNCHANGED <<nextConnId, doomed, active, current, loopPc, arrived, backlog, orphans>>
      /\ server' = "gone" /\ conn' = connectDestroyed(InMap) /\ connections' = <<>>
      /\ loopPc # "functors" => cut' = cut \cup InMap
      /\ InUserCode /\ Token
      /\ Release([acceptor EXCEPT !.held = FALSE], current, pending)
  BY DEF LoopDestroy, loopVars, kernelVars, MayDestroy
<1>2. ~Token' /\ MapTaken' /\ doomed = {}
  BY <1>1 DEF Token, MapTaken, ConnInv
<1>3. ToDestroy(pending') = ToDestroy(pending)
  <2> DEFINE h == Functor("hold", None)
  <2>0. h \in FunctorType /\ h.op = "hold"
    BY FunctorFacts
  <2>1. Elems(Append(pending, h)) = Elems(pending) \cup {h}
    BY <2>0, AppendElems, SMTT(30) DEF AcceptInv
  <2>2. ToDestroy(Append(pending, h)) = ToDestroy(pending)
    BY <2>0, <2>1, SameToDestroy
  <2>3. pending' \in {pending, Append(pending, h)}
    BY <1>1 DEF Release
  <2> HIDE DEF h
  <2> QED BY <2>2, <2>3
<1>4. /\ conn' \in [Conns -> [st : {"Connecting", "Connected", "Disconnected"},
                              reg : BOOLEAN, fd : BOOLEAN]]
      /\ \A c \in Conns : c \in InMap => conn'[c].st = "Disconnected" /\ ~conn'[c].reg /\ ~conn'[c].fd
      /\ \A c \in Conns : c \notin InMap => conn'[c] = conn[c]
  BY <1>1, DestroyedFacts
<1>5. DOMAIN connections' = {} /\ InMap' = {}
  <2>1. DOMAIN connections' = {}
    BY <1>1, SMTT(30)
  <2> QED BY <2>1 DEF InMap
<1>6. \A c \in Conns : Created(c) => Owned(c)'
  BY <1>1, <1>3, <1>4 DEF ConnInv, Owned
<1>7. MapIsEstablished'
  BY <1>2 DEF MapIsEstablished
<1>8. \A d \in active \cap Conns :
          d \in InMap' \cup doomed' \cup ToDestroy(pending') \cup cut' \cup orphans'
  <2>1. CASE loopPc = "functors"
    BY <2>1 DEF AcceptInv
  <2>2. CASE loopPc # "functors"
    BY <1>1, <1>2, <1>3, <2>2, ActiveHeld
  <2> QED BY <2>1, <2>2
<1>10. loopPc' \in Closes => current \in Conns /\ conn'[current].st = "Disconnected"
  BY <1>1, <1>4 DEF ConnInv
<1>9. /\ \A d \in Conns : conn'[d].fd => conn[d].fd
      /\ \A n \in DOMAIN connections' : n \in DOMAIN connections /\ connections'[n] = connections[n]
      /\ doomed' \subseteq doomed \cup InMap /\ InMap' \subseteq orphans'
      /\ ToDestroy(pending') \subseteq ToDestroy(pending) \cup InMap \cup doomed
                                       \cup ({current} \cap Conns)
  BY <1>1, <1>3, <1>4, <1>5
<1> QED
  BY <1>1, <1>2, <1>4, <1>6, <1>7, <1>8, <1>9, <1>10, ConnMoved

\* The destructor on another thread takes the map over, and frees at the end what
\* was put into it since,
LEMMA OtherDestroyConns ==
    ASSUME AcceptInv, AcceptInv', ConnInv, OtherDestroyMove \/ OtherDestroyEnd
    PROVE  ConnInv' /\ NoneOpened
<1>1. /\ UNCHANGED <<conn, nextConnId, pending, active, current>>
      /\ UNCHANGED <<arrived, backlog, cut, orphans>>
      /\ connections' = <<>> /\ loopPc' \in {loopPc, "aborted"}
      /\ server' \in {"drop", "gone"}
      /\ \/ ~MapTaken /\ doomed' = InMap
         \/ MapTaken /\ doomed = {} /\ doomed' = doomed
  BY DEF OtherDestroyMove, OtherDestroyEnd, MapTaken, loopVars, kernelVars, histVars
<1>2. ~Token' /\ MapTaken' /\ ToDestroy(pending') = ToDestroy(pending) /\ doomed = {}
  BY <1>1 DEF Token, MapTaken, ConnInv
<1>3. InMap \subseteq doomed' \cup orphans
  BY <1>1 DEF ConnInv
<1>4. DOMAIN connections' = {} /\ InMap' = {}
  <2>1. DOMAIN connections' = {}
    BY <1>1, SMTT(30)
  <2> QED BY <2>1 DEF InMap
<1>5. \A c \in Conns : Created(c) => Owned(c)'
  BY <1>1, <1>2, <1>3 DEF ConnInv, Owned
<1>6. MapIsEstablished'
  BY <1>2 DEF MapIsEstablished
<1>7. \A d \in active \cap Conns :
          d \in InMap' \cup doomed' \cup ToDestroy(pending') \cup cut' \cup orphans'
  BY <1>1, <1>2, <1>3, ActiveHeld
<1>8. /\ conn' \in [Conns -> [st : {"Connecting", "Connected", "Disconnected"},
                              reg : BOOLEAN, fd : BOOLEAN]]
      /\ \A d \in Conns : conn'[d].fd => conn[d].fd
      /\ \A n \in DOMAIN connections' : n \in DOMAIN connections /\ connections'[n] = connections[n]
      /\ doomed' \subseteq doomed \cup InMap /\ InMap' \subseteq orphans'
      /\ ToDestroy(pending') \subseteq ToDestroy(pending) \cup InMap \cup doomed
                                       \cup ({current} \cap Conns)
      /\ loopPc' \in Closes => current \in Conns /\ conn'[current].st = "Disconnected"
  BY <1>1, <1>2, <1>4 DEF ConnInv, Closes
<1> QED
  BY <1>1, <1>2, <1>5, <1>6, <1>7, <1>8, ConnMoved

\* and hands its connections to the loop thread.
LEMMA HandedConns ==
    ASSUME AcceptInv, AcceptInv', ConnInv, NEW c \in Conns, OtherDestroyConn(c)
    PROVE  ConnInv' /\ NoneOpened
<1>1. /\ UNCHANGED <<conn, connections, nextConnId, active, current, loopPc>>
      /\ UNCHANGED <<arrived, backlog, cut, orphans>>
      /\ UNCHANGED server /\ server = "hand" /\ c \in doomed /\ doomed' = doomed \ {c}
      /\ pending' = Append(pending, Functor("destroy", c))
  BY DEF OtherDestroyConn, acceptVars, loopVars, kernelVars, histVars
<1>2. ~Token' /\ MapTaken' /\ MapTaken
  BY <1>1 DEF Token, MapTaken
<1>3. ToDestroy(pending') = ToDestroy(pending) \cup {c}
  BY <1>1, MoreToDestroy DEF AcceptInv
<1>4. InMap' = InMap
  BY <1>1 DEF InMap
<1>5. \A d \in Conns : Created(d) => Owned(d)'
  BY <1>1, <1>3, <1>4 DEF ConnInv, Owned
<1>6. MapIsEstablished'
  BY <1>2 DEF MapIsEstablished
<1>7. \A d \in active \cap Conns :
          d \in InMap' \cup doomed' \cup ToDestroy(pending') \cup cut' \cup orphans'
  BY <1>1, <1>3, <1>4, ActiveHeld
<1>8. /\ conn' \in [Conns -> [st : {"Connecting", "Connected", "Disconnected"},
                              reg : BOOLEAN, fd : BOOLEAN]]
      /\ \A d \in Conns : conn'[d].fd => conn[d].fd
      /\ \A n \in DOMAIN connections' : n \in DOMAIN connections /\ connections'[n] = connections[n]
      /\ doomed' \subseteq doomed \cup InMap /\ InMap' \subseteq orphans'
      /\ loopPc' \in Closes => current \in Conns /\ conn'[current].st = "Disconnected"
      /\ ToDestroy(pending') \subseteq ToDestroy(pending) \cup InMap \cup doomed
                                       \cup ({current} \cap Conns)
  BY <1>1, <1>2, <1>3, <1>4 DEF ConnInv
<1> QED
  BY <1>1, <1>2, <1>5, <1>6, <1>7, <1>8, ConnMoved

\* Only newConnection() opens a connection's socket, and one at a time.
LEMMA ConnStep ==
    ASSUME NamesDiffer, AcceptInv, AcceptInv', ConnInv, [Next]_vars
    PROVE  /\ ConnInv'
           /\ \/ NoneOpened
              \/ /\ NewConnection
                 /\ \A c \in Conns : SocketOpen(c)' => SocketOpen(c) \/ c = nextConnId
<1>1. CASE UNCHANGED vars
  <2>1. /\ UNCHANGED <<server, conn, connections, nextConnId, doomed, pending, active, current>>
        /\ UNCHANGED <<loopPc, arrived, backlog, cut, orphans>>
    BY <1>1 DEF vars, acceptVars, connVars, loopVars, kernelVars, histVars
  <2>2. /\ current' \in Conns => (current' = current \/ Live(current')) /\ current' \notin active'
        /\ loopPc' \in AtRest => current' = None
        /\ ToDestroy(pending') = ToDestroy(pending)
        /\ (Token' => Token) /\ (MapTaken' <=> MapTaken) /\ Closing' = Closing
        /\ arrived' \in 0..MaxConns /\ backlog' \in Nat /\ nextConnId + backlog' <= arrived' + 1
        /\ loopPc' = "new" => nextConnId + backlog' <= arrived'
    BY <2>1 DEF ConnInv, Token, MapTaken, Closing
  <2> QED
    BY <2>1, <2>2, ConnKept
<1>2. CASE Quiet \/ PeerArrives \/ AcceptAndDrop \/ AcceptOne
  BY <1>2, QuietConns, PeersConns
<1>3. CASE \/ AcceptAgain \/ AcceptFails \/ OpenIdle \/ \E t \in Starters : StartQueue(t)
           \/ ListenAndStore \/ OtherDestroyDrop
           \/ \E i \in DOMAIN pending : RunStart(i) \/ RunCleanup(i) \/ RunHold(i)
  BY <1>3, OtherFunctorsConns
<1>4. CASE NewConnection
  BY <1>4, NewConnectionConns
<1>5. CASE \/ Poll \/ RemoveConnectionInLoop \/ \E c \in Conns : HandleClose(c)
           \/ \E i \in DOMAIN pending : RunDestroy(i)
  BY <1>5, PollConns, CloseConns, RemoveConns, RunDestroyConns
<1>6. CASE \/ LoopDestroy \/ OtherDestroyMove \/ OtherDestroyEnd
           \/ \E c \in Conns : OtherDestroyConn(c)
  BY <1>6, LoopDestroyConns, OtherDestroyConns, HandedConns
<1>7. CASE Next
  BY <1>2, <1>3, <1>4, <1>5, <1>6, <1>7
     DEF Next, Handlers, User, Destroyer, RunFunctor, Quiet, Start
<1> QED BY <1>1, <1>7

LEMMA ConnInitial == Init => ConnInv
<1> SUFFICES ASSUME Init PROVE ConnInv
  OBVIOUS
<1>1. pending = <<>> /\ Elems(pending) = {} /\ ToDestroy(pending) = {}
  BY SMTT(30) DEF Init, Elems, ToDestroy
<1>2. DOMAIN connections = {} /\ InMap = {}
  BY SMTT(30) DEF Init, InMap
<1>3. \A c \in Conns : ~Created(c)
  <2>1. nextConnId = 1 /\ MaxConns \in Nat
    BY BoundsAssumption DEF Init
  <2> QED BY <2>1, SMTT(30) DEF Created, Conns
<1>4. /\ nextConnId \in 1..(MaxConns + 1) /\ arrived \in 0..MaxConns /\ backlog \in Nat
      /\ nextConnId + backlog <= arrived + 1
  <2>1. nextConnId = 1 /\ arrived = 0 /\ backlog = 0 /\ MaxConns \in Nat
    BY BoundsAssumption DEF Init
  <2> QED BY <2>1, SMTT(30)
<1>5. conn \in [Conns -> [st : {"Connecting", "Connected", "Disconnected"},
                          reg : BOOLEAN, fd : BOOLEAN]]
  BY DEF Init
<1>6. MapIsEstablished /\ loopPc \notin Closes /\ loopPc # "new"
  BY <1>2, <1>3 DEF MapIsEstablished, Closing, Closes, Init
<1>7. doomed = {} /\ active = {} /\ current = None /\ current \notin Conns
  BY ChannelsAssumption DEF Init
<1> QED
  BY <1>1, <1>2, <1>3, <1>4, <1>5, <1>6, <1>7 DEF ConnInv

-----------------------------------------------------------------------------
(* Descriptors.                                                            *)

FdInv == others \in Nat /\ Used <= MaxFds

OpenConns == {c \in Conns : SocketOpen(c)}
One(b) == IF b THEN 1 ELSE 0

\* The descriptors of connections, the one accept() has just returned included.
ConnFds == Cardinality(OpenConns) + One(loopPc = "new")

\* The sockets of the connections are finitely many.
LEMMA OpenFinite ==
    /\ IsFiniteSet(OpenConns) /\ Cardinality(OpenConns) \in Nat
    /\ IsFiniteSet(OpenConns') /\ Cardinality(OpenConns') \in Nat
<1>1. IsFiniteSet(Conns)
  <2>1. 1 \in Int /\ MaxConns \in Int
    BY BoundsAssumption, SMTT(30)
  <2> QED BY <2>1, FS_Interval DEF Conns
<1>2. OpenConns \in SUBSET Conns /\ OpenConns' \in SUBSET Conns
  BY DEF OpenConns
<1>3. IsFiniteSet(OpenConns) /\ IsFiniteSet(OpenConns')
  BY <1>1, <1>2, FS_Subset
<1> QED BY <1>3, FS_CardinalityType

LEMMA OpenFewer ==
    ASSUME NoneOpened
    PROVE  Cardinality(OpenConns') <= Cardinality(OpenConns)
<1>1. OpenConns' \in SUBSET OpenConns
  BY DEF NoneOpened, OpenConns
<1> QED BY <1>1, OpenFinite, FS_Subset

LEMMA OpenOneMore ==
    ASSUME NEW k, \A c \in Conns : SocketOpen(c)' => SocketOpen(c) \/ c = k
    PROVE  Cardinality(OpenConns') <= Cardinality(OpenConns) + 1
<1>1. OpenConns' \in SUBSET (OpenConns \cup {k})
  BY DEF OpenConns
<1>2. /\ IsFiniteSet(OpenConns \cup {k})
      /\ Cardinality(OpenConns \cup {k}) \in {Cardinality(OpenConns), Cardinality(OpenConns) + 1}
  BY OpenFinite, FS_AddElement
<1>3. Cardinality(OpenConns') <= Cardinality(OpenConns \cup {k})
  BY <1>1, <1>2, FS_Subset
<1>4. Cardinality(OpenConns) \in Nat /\ Cardinality(OpenConns') \in Nat
  BY OpenFinite
<1> QED
  BY <1>2, <1>3, <1>4, SMTT(30)

LEMMA ConnFdsNat == ConnFds \in Nat /\ ConnFds' \in Nat
<1>1. \A b : One(b) \in Nat
  BY DEF One
<1>2. \A m, n \in Nat : m + n \in Nat
  BY SMTT(30)
<1> QED BY <1>1, <1>2, OpenFinite DEF ConnFds

LEMMA UsedIs ==
    /\ Used = others + ConnFds + One(acceptor.sock) + One(acceptor.idle)
    /\ Used' = others' + ConnFds' + One(acceptor'.sock) + One(acceptor'.idle)
  BY DEF Used, ConnFds, OpenConns, One

\* Only accept() takes a descriptor for a connection.
LEMMA NewByAccept ==
    ASSUME [Next]_vars
    PROVE  loopPc' = "new" => loopPc = "new" \/ AcceptOne
<1>1. CASE loopPc' = loopPc
  BY <1>1
<1>2. CASE Handlers \/ UsedTooLate \/ \E c \in Conns : HandleClose(c)
  BY <1>2 DEF Handlers, Poll, EnterAccept, AcceptAgain, LeaveAccept, EndDispatch, NewConnection,
         AcceptAndDrop, OpenIdle, LeaveConn, CloseCallback, RemoveConnection, UsedTooLate,
         RemoveConnectionInLoop, ListenAndStore, EnterConn, EnterFreed, HandleClose
<1>3. CASE CloseIdle \/ AcceptFails \/ AcceptAborts \/ EndFunctors \/ RunFunctor \/ Destroyer
  BY <1>3 DEF CloseIdle, AcceptFails, LeaveAccept, AcceptAborts, EndFunctors, RunFunctor,
         RunStart, RunDestroy, RunCleanup, RunHold, Destroyer, OtherDestroyStore,
         OtherDestroyMove, OtherDestroyDrop, OtherDestroyConn, OtherDestroyEnd, loopVars
<1>4. CASE User \/ PeerArrives \/ OthersOpen \/ OthersClose \/ \E t \in Starters : Start(t)
  BY <1>4 DEF User, LoopStart, LoopDestroy, OtherDestroyBegin, StartLoad, Start, StartStore,
         StartQueue, PeerArrives, OthersOpen, OthersClose, loopVars
<1>5. CASE Next
  BY <1>2, <1>3, <1>4, <1>5 DEF Next
<1> QED BY <1>1, <1>5 DEF vars, loopVars

LEMMA ConnFdsStep ==
    ASSUME NamesDiffer, AcceptInv, AcceptInv', ConnInv, [Next]_vars
    PROVE  ConnFds' <= ConnFds \/ (AcceptOne /\ ConnFds' <= ConnFds + 1)
<1> DEFINE D == Cardinality(OpenConns)
           E == Cardinality(OpenConns')
           N == One(loopPc = "new")
           M == One(loopPc' = "new")
<1>1. ConnFds = D + N /\ ConnFds' = E + M /\ D \in Nat /\ E \in Nat
  BY OpenFinite DEF ConnFds
<1>2. N \in 0..1 /\ M \in 0..1
  <2>1. 0 \in 0..1 /\ 1 \in 0..1
    BY SMTT(30)
  <2> QED BY <2>1 DEF One
<1>3. CASE NoneOpened
  <2>1. E <= D
    BY <1>3, OpenFewer
  <2>2. M = N \/ M = 0 \/ AcceptOne
    BY NewByAccept DEF One
  <2> HIDE DEF D, E, N, M
  <2> QED BY <1>1, <1>2, <2>1, <2>2, SMTT(30)
<1>4. CASE NewConnection /\ \A c \in Conns : SocketOpen(c)' => SocketOpen(c) \/ c = nextConnId
  <2>1. N = 1 /\ M = 0
    BY <1>4 DEF NewConnection, One
  <2>2. E <= D + 1
    BY <1>4, OpenOneMore
  <2> HIDE DEF D, E, N, M
  <2> QED BY <1>1, <2>1, <2>2, SMTT(30)
<1> QED BY <1>3, <1>4, ConnStep

\* Of the four counts none grows, or one grows by one while a descriptor is free.
LEMMA UsedStep ==
    ASSUME FdInv, others' \in Nat,
           NEW o \in 0..1, others' <= others + o,
           NEW d \in 0..1, ConnFds' <= ConnFds + d,
           NEW s \in 0..1, One(acceptor'.sock) <= One(acceptor.sock) + s,
           NEW i \in 0..1, One(acceptor'.idle) <= One(acceptor.idle) + i,
           o + d + s + i = 0 \/ (o + d + s + i = 1 /\ FdFree)
    PROVE  FdInv'
<1>1. PICK D, E : D = ConnFds /\ E = ConnFds'
  OBVIOUS
<1>2. PICK S, T : S = One(acceptor.sock) /\ T = One(acceptor'.sock)
  OBVIOUS
<1>3. PICK I, J : I = One(acceptor.idle) /\ J = One(acceptor'.idle)
  OBVIOUS
<1>4. D \in Nat /\ E \in Nat /\ E <= D + d
  BY <1>1, ConnFdsNat
<1>5. S \in 0..1 /\ T \in 0..1 /\ T <= S + s /\ I \in 0..1 /\ J \in 0..1 /\ J <= I + i
  <2>1. \A b : One(b) \in 0..1
    <3>1. 0 \in 0..1 /\ 1 \in 0..1
      BY SMTT(30)
    <3> QED BY <3>1 DEF One
  <2> QED BY <1>2, <1>3, <2>1
<1>6. Used = others + D + S + I
  BY <1>1, <1>2, <1>3, UsedIs
<1>7. Used' = others' + E + T + J
  BY <1>1, <1>2, <1>3, UsedIs
<1>8. others \in Nat /\ others + D + S + I <= MaxFds /\ MaxFds \in Nat
  BY <1>6, FdsAssumption DEF FdInv
<1>9. o + d + s + i = 0 \/ (o + d + s + i = 1 /\ others + D + S + I < MaxFds)
  BY <1>6 DEF FdFree
<1>10. PICK m, n : m = others /\ n = others'
  OBVIOUS
<1>11. m \in Nat /\ n \in Nat /\ n <= m + o /\ m + D + S + I <= MaxFds
  BY <1>8, <1>10
<1>12. o + d + s + i = 0 \/ (o + d + s + i = 1 /\ m + D + S + I < MaxFds)
  BY <1>9, <1>10
<1>13. /\ o \in 0..1 /\ d \in 0..1 /\ s \in 0..1 /\ i \in 0..1 /\ MaxFds \in Nat
       /\ D \in Nat /\ E \in Nat /\ S \in 0..1 /\ T \in 0..1 /\ I \in 0..1 /\ J \in 0..1
  BY <1>4, <1>5, <1>8
<1>14. n + E + T + J <= MaxFds
  <2>1. n + E + T + J <= m + D + S + I + (o + d + s + i)
    BY <1>4, <1>5, <1>11, <1>13, SMTT(30)
  <2>2. m + D + S + I + (o + d + s + i) <= MaxFds
    BY <1>11, <1>12, <1>13, SMTT(30)
  <2> QED BY <1>11, <1>13, <2>1, <2>2, SMTT(30)
<1> QED
  BY <1>7, <1>10, <1>14 DEF FdInv

\* A step that opens nothing.
LEMMA FdsKept ==
    ASSUME FdInv, ConnFds' <= ConnFds, others' = others,
           acceptor'.sock => acceptor.sock, acceptor'.idle => acceptor.idle
    PROVE  FdInv'
<1>1. others' \in Nat /\ others' <= others + 0
  <2>1. others \in Nat /\ others' = others
    BY DEF FdInv
  <2> QED BY <2>1, SMTT(30)
<1>2. ConnFds' <= ConnFds + 0
  <2>1. ConnFds \in Nat /\ ConnFds' <= ConnFds
    BY ConnFdsNat
  <2> QED BY <2>1, SMTT(30)
<1>3. One(acceptor'.sock) <= One(acceptor.sock) + 0 /\ One(acceptor'.idle) <= One(acceptor.idle) + 0
  <2>1. \A a, b : (a => b) => One(a) <= One(b) + 0
    BY SMTT(30) DEF One
  <2> QED BY <2>1
<1>4. 0 \in 0..1 /\ 0 + 0 + 0 + 0 = 0
  BY SMTT(30)
<1> QED BY <1>1, <1>2, <1>3, <1>4, UsedStep

\* A step that takes one free descriptor: another part of the process, accept(),
\* socket() in listen(), or the spare descriptor.
LEMMA FdTaken ==
    ASSUME FdInv, FdFree,
           \/ others' = others + 1 /\ ConnFds' <= ConnFds
              /\ (acceptor'.sock => acceptor.sock) /\ (acceptor'.idle => acceptor.idle)
           \/ others' = others /\ acceptor' = acceptor
              /\ ConnFds' <= ConnFds + 1
           \/ others' = others /\ ConnFds' <= ConnFds /\ (acceptor'.idle => acceptor.idle)
           \/ others' = others /\ ConnFds' <= ConnFds /\ (acceptor'.sock => acceptor.sock)
    PROVE  FdInv'
<1>1. /\ others \in Nat /\ others + 1 \in Nat
      /\ others <= others + 0 /\ others + 1 <= others + 1
  <2>1. others \in Nat
    BY DEF FdInv
  <2> QED BY <2>1, SMTT(30)
<1>2. ConnFds' <= ConnFds => ConnFds' <= ConnFds + 0
  BY ConnFdsNat, SMTT(30)
<1>3. \A a, b : (a => b) => One(a) <= One(b) + 0
  BY SMTT(30) DEF One
<1>4. \A a, b : One(a) <= One(b) + 1
  BY SMTT(30) DEF One
<1>5. 0 \in 0..1 /\ 1 \in 0..1
  BY SMTT(30)
<1>6. 1 + 0 + 0 + 0 = 1 /\ 0 + 1 + 0 + 0 = 1 /\ 0 + 0 + 1 + 0 = 1 /\ 0 + 0 + 0 + 1 = 1
  BY SMTT(30)
<1>7. CASE others' = others + 1 /\ ConnFds' <= ConnFds
           /\ (acceptor'.sock => acceptor.sock) /\ (acceptor'.idle => acceptor.idle)
  BY <1>1, <1>2, <1>3, <1>5, <1>6, <1>7, UsedStep
<1>8. CASE others' = others /\ acceptor' = acceptor
           /\ ConnFds' <= ConnFds + 1
  <2>2. (acceptor'.sock => acceptor.sock) /\ (acceptor'.idle => acceptor.idle)
    BY <1>8
  <2> QED BY <1>1, <1>3, <1>5, <1>6, <1>8, <2>2, UsedStep
<1>9. CASE others' = others /\ ConnFds' <= ConnFds /\ (acceptor'.idle => acceptor.idle)
  BY <1>1, <1>2, <1>3, <1>4, <1>5, <1>6, <1>9, UsedStep
<1>10. CASE others' = others /\ ConnFds' <= ConnFds /\ (acceptor'.sock => acceptor.sock)
  BY <1>1, <1>2, <1>3, <1>4, <1>5, <1>6, <1>10, UsedStep
<1> QED BY <1>7, <1>8, <1>9, <1>10

\* What each step does to the acceptor's two descriptors and to the rest of the
\* process.
LEMMA FdCases ==
    ASSUME AcceptInv, [Next]_vars
    PROVE  \/ others' = others /\ (acceptor'.sock => acceptor.sock)
                               /\ (acceptor'.idle => acceptor.idle)
           \/ others' = others /\ FdFree /\ (acceptor'.idle => acceptor.idle)
           \/ others' = others /\ FdFree /\ (acceptor'.sock => acceptor.sock)
           \/ OthersOpen
           \/ OthersClose
<1>0. acceptor \in AcceptorType /\ pending \in Seq(FunctorType)
  BY DEF AcceptInv
<1>1. CASE others' = others /\ acceptor' = acceptor
  BY <1>1
<1>2. CASE AcceptAgain \/ AcceptFails
  <2>1. others' = others /\ Release(acceptor, None, pending)
    BY <1>2 DEF AcceptAgain, AcceptFails, LeaveAccept
  <2> QED BY <1>0, <2>1, ReleaseFacts
<1>3. CASE OpenIdle
  <2>1. [acceptor EXCEPT !.idle = FdFree] \in AcceptorType
    <3>1. FdFree \in BOOLEAN
      BY SMTT(30) DEF FdFree
    <3> QED BY <1>0, <3>1 DEF AcceptorType
  <2>2. /\ others' = others
        /\ Release([acceptor EXCEPT !.idle = FdFree], None, pending)
    BY <1>3 DEF OpenIdle, kernelVars
  <2>3. /\ [acceptor EXCEPT !.idle = FdFree].idle = FdFree
        /\ [acceptor EXCEPT !.idle = FdFree].sock = acceptor.sock
    BY <1>0 DEF AcceptorType
  <2>4. (acceptor'.sock => acceptor.sock) /\ (acceptor'.idle => FdFree)
    BY <1>0, <2>1, <2>2, <2>3, ReleaseFacts
  <2> QED BY <2>2, <2>4
<1>4. CASE LoopStart
  <2>1. others' = others /\ acceptor' \in listen(acceptor) \cup {acceptor}
    BY <1>4 DEF LoopStart, kernelVars
  <2> QED BY <1>0, <2>1, ListenFacts
<1>5. ASSUME ListenAndStore \/ \E i \in DOMAIN pending : RunStart(i)
      PROVE  others' = others /\ (acceptor'.idle => acceptor.idle)
             /\ (FdFree \/ (acceptor'.sock => acceptor.sock))
  <2>1. others' = others
    BY <1>5 DEF ListenAndStore, RunStart, kernelVars
  <2>2. ASSUME NEW i \in DOMAIN pending, NEW a \in listen(acceptor) \cup {acceptor},
               Release(a, None, Without(pending, i))
        PROVE  (acceptor'.idle => acceptor.idle) /\ (FdFree \/ (acceptor'.sock => acceptor.sock))
    <3>1. Without(pending, i) \in Seq(FunctorType)
      BY <1>0, WithoutElems
    <3>2. a \in AcceptorType /\ a.idle = acceptor.idle /\ (a = acceptor \/ FdFree)
      BY <1>0, ListenFacts
    <3>3. (acceptor'.sock => a.sock) /\ (acceptor'.idle => a.idle)
      BY <2>2, <3>1, <3>2, ReleaseFacts
    <3> QED BY <3>2, <3>3
  <2>3. CASE acceptor' = acceptor
    BY <2>1, <2>3
  <2>4. CASE ListenAndStore
    BY <2>1, <2>2, <2>4 DEF ListenAndStore
  <2>5. CASE \E i \in DOMAIN pending : RunStart(i)
    BY <2>1, <2>2, <2>3, <2>5 DEF RunStart
  <2> QED BY <1>5, <2>4, <2>5
<1>6. ASSUME CloseIdle \/ \E i \in DOMAIN pending : RunCleanup(i)
      PROVE  others' = others /\ (acceptor'.sock => acceptor.sock)
                              /\ (acceptor'.idle => acceptor.idle)
  <2>1. /\ others' = others
        /\ \/ acceptor' = [acceptor EXCEPT !.idle = FALSE]
           \/ acceptor' = cleanupAcceptor(acceptor)
    BY <1>6 DEF CloseIdle, RunCleanup, kernelVars
  <2> QED BY <1>0, <2>1 DEF cleanupAcceptor, AcceptorType
<1>7. ASSUME LoopDestroy \/ OtherDestroyDrop
      PROVE  others' = others /\ (acceptor'.sock => acceptor.sock)
                              /\ (acceptor'.idle => acceptor.idle)
  <2> DEFINE a == [acceptor EXCEPT !.held = FALSE]
  <2>1. a \in AcceptorType /\ a.sock = acceptor.sock /\ a.idle = acceptor.idle
    BY <1>0 DEF AcceptorType
  <2>2. /\ others' = others
        /\ \/ Release(a, current, pending)
           \/ acceptor' = a
           \/ acceptor' = [a EXCEPT !.alive = FALSE]
    BY <1>7 DEF LoopDestroy, OtherDestroyDrop, kernelVars
  <2>3. CASE Release(a, current, pending)
    BY <1>0, <2>1, <2>2, <2>3, ReleaseFacts
  <2>4. CASE acceptor' = a \/ acceptor' = [a EXCEPT !.alive = FALSE]
    BY <1>0, <2>2, <2>4 DEF AcceptorType
  <2> QED BY <2>2, <2>3, <2>4
<1>8. CASE UNCHANGED vars
  BY <1>1, <1>8 DEF vars, acceptVars, kernelVars
<1>9. CASE \/ Passing /\ ~OthersOpen /\ ~OthersClose
           \/ Poll \/ RemoveConnectionInLoop
           \/ \E t \in Starters : StartLoad(t) \/ Start(t)
           \/ \E i \in DOMAIN pending : RunDestroy(i) \/ RunHold(i)
           \/ OtherDestroyBegin \/ OtherDestroyStore \/ OtherDestroyMove \/ OtherDestroyEnd
           \/ \E c \in Conns : OtherDestroyConn(c)
  <2>1. CASE Passing /\ ~OthersOpen /\ ~OthersClose
    BY <1>1, <2>1
       DEF Passing, EnterAccept, EndDispatch, AcceptAndDrop, LeaveConn, AcceptOne, AcceptAborts,
           EndFunctors, PeerArrives, NewConnection, CloseCallback, RemoveConnection, UsedTooLate,
           EnterConn, EnterFreed, HandleClose, acceptVars, kernelVars
  <2> QED
    BY <1>1, <1>9, <2>1
       DEF Poll, RemoveConnectionInLoop, StartLoad, Start, StartStore, StartQueue, RunDestroy,
           RunHold, OtherDestroyBegin, OtherDestroyStore, OtherDestroyMove, OtherDestroyEnd,
           OtherDestroyConn, acceptVars, kernelVars
<1>10. CASE Next
  BY <1>2, <1>3, <1>4, <1>5, <1>6, <1>7, <1>9, <1>10
     DEF Next, Handlers, User, RunFunctor, Destroyer, Passing
<1> QED BY <1>8, <1>10

LEMMA FdStep ==
    ASSUME NamesDiffer, AcceptInv, AcceptInv', ConnInv, FdInv, [Next]_vars
    PROVE  FdInv'
<1>1. CASE AcceptOne /\ ConnFds' <= ConnFds + 1
  <2>1. others' = others /\ acceptor' = acceptor /\ FdFree
    BY <1>1 DEF AcceptOne, acceptVars
  <2> QED BY <1>1, <2>1, FdTaken
<1>2. CASE ConnFds' <= ConnFds
  <2>1. CASE OthersOpen
    <3>1. others' = others + 1 /\ acceptor' = acceptor /\ FdFree
      BY <2>1 DEF OthersOpen, acceptVars
    <3> QED BY <1>2, <3>1, FdTaken
  <2>2. CASE OthersClose
    <3>1. acceptor' = acceptor /\ others > 0 /\ others' = others - 1 /\ others \in Nat
      BY <2>2 DEF OthersClose, acceptVars, FdInv
    <3>2. others' \in Nat /\ others' <= others + 0 /\ 0 \in 0..1 /\ 0 + 0 + 0 + 0 = 0
      BY <3>1, SMTT(30)
    <3>3. ConnFds' <= ConnFds + 0
      <4>1. ConnFds \in Nat /\ ConnFds' \in Nat
        BY ConnFdsNat
      <4> QED BY <1>2, <4>1, SMTT(30)
    <3>4. \A b : One(b) <= One(b) + 0
      BY SMTT(30) DEF One
    <3> QED BY <3>1, <3>2, <3>3, <3>4, UsedStep
  <2>3. CASE others' = others
    BY <1>2, <2>3, FdCases, FdsKept, FdTaken, <2>1, <2>2
  <2> QED BY <2>1, <2>2, <2>3, FdCases
<1> QED BY <1>1, <1>2, ConnFdsStep

LEMMA FdInitial == Init => FdInv
<1> SUFFICES ASSUME Init PROVE FdInv
  OBVIOUS
<1>1. OpenConns = {}
  <2>1. \A c \in Conns : conn[c].fd = FALSE
    BY DEF Init
  <2> QED BY <2>1 DEF OpenConns, SocketOpen
<1>2. Cardinality(OpenConns) = 0
  BY <1>1, FS_EmptySet
<1>3. /\ others = 0 /\ One(acceptor.sock) = 0 /\ One(acceptor.idle) \in {0, 1}
      /\ One(loopPc = "new") = 0
  BY DEF Init, One
<1>4. Used = 0 + (0 + 0) + 0 + One(acceptor.idle)
  BY <1>2, <1>3, UsedIs DEF ConnFds
<1>5. 0 \in Nat /\ 0 + (0 + 0) + 0 + One(acceptor.idle) <= MaxFds
  BY <1>3, FdsAssumption, SMTT(30)
<1> QED
  BY <1>3, <1>4, <1>5 DEF FdInv

-----------------------------------------------------------------------------
(* The theorems.                                                           *)

IInv == AcceptInv /\ HandlerInv /\ ConnInv /\ FdInv

LEMMA IInvAlways ==
    ASSUME NumbersFit
    PROVE  Spec => []IInv
<1>1. Init => IInv
  BY AcceptInitial, HandlerInitial, ConnInitial, FdInitial DEF IInv
<1>2. NamesDiffer
  BY DEF NumbersFit, NamesDiffer, NameOf
<1>3. IInv /\ [Next]_vars => IInv'
  BY <1>2, AcceptStep, HandlerStep, ConnStep, FdStep DEF IInv
<1> QED
  BY <1>1, <1>3, PTL DEF Spec

\* As long as the number of a connection fits into its name, no channel still to
\* be handled in a round has been freed, save those a callback of that round
\* destroyed with the server and those put into a map a destructor elsewhere had
\* taken: whatever the peers, the threads and the destructor's thread are
\* (EventLoop::loop, Acceptor::~Acceptor, TcpServer::removeConnectionInLoop).
THEOREM ActiveChannelsLiveHolds ==
    ASSUME NumbersFit
    PROVE  Spec => []ActiveChannelsLive
<1>1. IInv => ActiveChannelsLive
  BY DEF IInv, AcceptInv, ConnInv, ActiveChannelsLive
<1> QED
  BY <1>1, IInvAlways, PTL

LEMMA WiderSeq ==
    ASSUME NEW S, NEW T, S \subseteq T, NEW q \in Seq(S)
    PROVE  q \in Seq(T)
  BY SMTT(30)

\* As long as the number of a connection fits into its name, the map holds
\* exactly the established connections of a living server and the one being
\* closed, so that removeConnectionInLoop() finds what it erases; nothing is freed
\* before it was disconnected (~TcpConnection), but for what newConnection() put
\* into a map already taken; and the descriptors opened are never more than the
\* process may have (Acceptor::handleRead, Acceptor::listen).
THEOREM AssertionsHoldHolds ==
    ASSUME NumbersFit
    PROVE  Spec => []AssertionsHold
<1>1. IInv => TypeOK
  <2> SUFFICES ASSUME IInv PROVE TypeOK
    OBVIOUS
  <2>1. FunctorType \subseteq
            [op : {"start", "destroy", "cleanup", "hold"}, conn : Conns \cup {None}]
    BY DEF FunctorType
  <2>2. pending \in Seq([op : {"start", "destroy", "cleanup", "hold"}, conn : Conns \cup {None}])
    BY <2>1, WiderSeq DEF IInv, AcceptInv
  <2>3. InMap \subseteq Conns
    BY DEF IInv, ConnInv, InMap
  <2> QED
    BY <2>2, <2>3 DEF IInv, AcceptInv, ConnInv, FdInv, TypeOK, AcceptorType, Phases
<1>2. IInv => DestroyedDisconnected
  <2> SUFFICES ASSUME IInv, NEW c \in Conns \ orphans, Created(c), ~Live(c)
               PROVE  conn[c].st = "Disconnected" /\ ~conn[c].reg
    BY DEF DestroyedDisconnected
  <2>1. ~Held(c) /\ Owned(c)
    BY DEF Live, IInv, ConnInv
  <2>2. c \in InMap \/ c \in doomed \/ c \in ToDestroy(pending) => Held(c)
    BY QueueHolds DEF Held, InMap, IInv, AcceptInv
  <2> QED BY <2>1, <2>2 DEF Owned
<1>3. IInv => MapIsEstablished
  BY DEF IInv, ConnInv
<1>4. IInv => EraseFindsOne
  <2> SUFFICES ASSUME IInv, loopPc = "erase", Token
               PROVE  NameOf(current) \in DOMAIN connections /\ connections[NameOf(current)] = current
    BY DEF EraseFindsOne
  <2>1. current \in InMap
    BY <1>3 DEF MapIsEstablished, Closing
  <2> QED BY <2>1 DEF InMap, IInv, ConnInv
<1>5. IInv => AssertionsHold
  BY <1>1, <1>2, <1>3, <1>4 DEF AssertionsHold
<1> QED
  BY <1>5, IInvAlways, PTL
=============================================================================
