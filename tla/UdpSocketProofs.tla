-------------------------- MODULE UdpSocketProofs --------------------------
(* A UDP socket that one thread uses, the loop's or another: whatever it    *)
(* calls and however often, whichever path its functors take, the           *)
(* descriptors it opens are closed, epoll watches what the object says      *)
(* unless functors have overtaken each other, and no Channel is freed       *)
(* during a round.                                                          *)
EXTENDS UdpSocket, TLAPS

\* A leaf is tried with Zenon, then SMT, unless it names its prover.
USE ZenonT(30), SMTT(30)

SockRecord == [fd : BOOLEAN, bound : BOOLEAN, reg : BOOLEAN]
Blank == [fd |-> FALSE, bound |-> FALSE, reg |-> FALSE]

\* The bounds: None is no descriptor.
LEMMA Constants == MaxSocks \in Nat /\ None \notin Socks /\ Socks = 1..MaxSocks
  BY SocksAssumption DEF Socks

\* The queued functors and the descriptors they are about.
LEMMA Queued ==
    ASSUME TypeOK, NEW f \in pending
    PROVE  /\ f.op \in {"enable", "disable", "hold", "cleanup"}
           /\ f.sock \in Socks /\ f.sock <= opened /\ f.sock # None
           /\ f.at \in Nat /\ f.at <= ticket /\ ticket \in Nat
<1>1. /\ f.op \in {"enable", "disable", "hold", "cleanup"} /\ f.sock \in 1..opened
      /\ f.at \in 1..ticket /\ ticket \in Nat /\ opened \in 0..MaxSocks
  BY DEF TypeOK
<1>2. f.sock \in Socks /\ f.sock <= opened /\ f.at \in Nat /\ f.at <= ticket
  BY <1>1, Constants, SMTT(30)
<1> QED
  BY <1>1, <1>2, Constants

\* The object's descriptor is one that was opened.
LEMMA OwnSock ==
    ASSUME TypeOK, FieldsAgree, sockfd # None
    PROVE  sockfd \in Socks /\ sockfd \in 1..opened /\ sock[sockfd].fd /\ channel = sockfd
<1>1. sockfd \in Socks /\ sockfd <= opened /\ sock[sockfd].fd /\ channel = sockfd /\ opened \in 0..MaxSocks
  BY DEF TypeOK, FieldsAgree
<1>2. sockfd \in 1..opened
  BY <1>1, Constants, SMTT(30)
<1> QED
  BY <1>1, <1>2

\* A call under way holds no channel but the object's.
Kept(s) == channel = s \/ \E f \in pending : f.sock = s
Outlives == \A s \in active \ {Other} : Kept(s) \/ (sock[s].reg /\ ~sock[s].fd)

LEMMA KeptBefore ==
    ASSUME FieldsAgree
    PROVE  ChannelOutlivesRound <=> Outlives
  BY DEF FieldsAgree, ChannelOutlivesRound, Outlives, Live, Kept

LEMMA KeptAfter ==
    ASSUME FieldsAgree'
    PROVE  ChannelOutlivesRound' <=> Outlives'
  BY DEF FieldsAgree, ChannelOutlivesRound, Outlives, Live, Kept

\* What a functor finds queued that is queued after all others.
Adds(f, op, s) ==
    /\ pending' = pending \cup {f} /\ f \notin pending
    /\ f.op = op /\ f.sock = s /\ f.at = ticket + 1 /\ ticket' = ticket + 1
    /\ \A g \in pending : g.at < f.at

LEMMA QueueAdds ==
    ASSUME TypeOK, NEW op, NEW s, Queue(op, s)
    PROVE  \E f : Adds(f, op, s)
<1>1. PICK path \in Paths :
          pending' = pending \cup {[op |-> op, sock |-> s, path |-> path, at |-> ticket']}
  BY DEF Queue
<1> DEFINE f == [op |-> op, sock |-> s, path |-> path, at |-> ticket']
<1>2. f.op = op /\ f.sock = s /\ f.at = ticket' /\ ticket' = ticket + 1
  BY DEF Queue
<1>3. pending' = pending \cup {f}
  BY <1>1
<1> HIDE DEF f
<1>4. \A g \in pending : g.at < ticket + 1
  BY Queued, SMTT(30)
<1>5. f \notin pending
  <2>1. f.at = ticket + 1 /\ ticket \in Nat
    BY <1>2 DEF TypeOK
  <2>2. ~(f.at < ticket + 1)
    BY <2>1, SMTT(30)
  <2> QED
    BY <1>4, <2>2
<1> QED
  BY <1>2, <1>3, <1>4, <1>5 DEF Adds

\* What a new functor leaves as it was.
LEMMA AddsKeeps ==
    ASSUME IndInv, NEW op \in {"enable", "disable", "hold", "cleanup"}, NEW s \in 1..opened,
           NEW f, Adds(f, op, s), UNCHANGED opened
    PROVE  /\ ticket' \in Nat
           /\ \A g \in pending' : /\ g.op \in {"enable", "disable", "hold", "cleanup"}
                                  /\ g.sock \in 1..opened' /\ g.at \in 1..ticket'
           /\ OwnTickets'
<1>1. ticket \in Nat /\ ticket' = ticket + 1 /\ \A g \in pending : g.at \in 1..ticket
  BY DEF IndInv, TypeOK, Adds
<1>2. ticket' \in Nat /\ f.at \in 1..ticket' /\ \A g \in pending : g.at \in 1..ticket'
  BY <1>1, SMTT(30) DEF Adds
<1>3. \A g \in pending : g.at # f.at
  <2> SUFFICES ASSUME NEW g \in pending PROVE g.at # f.at
    OBVIOUS
  <2>1. g.at \in Nat /\ f.at = ticket + 1 /\ g.at <= ticket
    BY Queued DEF IndInv, Adds
  <2> QED
    BY <1>1, <2>1, SMTT(30)
<1>4. OwnTickets'
  BY <1>3 DEF IndInv, OwnTickets, Adds
<1> QED
  BY <1>2, <1>4 DEF IndInv, TypeOK, Adds

-----------------------------------------------------------------------------
(* The steps of a call.                                                     *)

\* Where a call may stand, with what it knows, for the object's fields.
Fits(p, known) ==
    /\ p = "create" => sockfd = None
    /\ p = "ensured" => sockfd # None
    /\ p \in Holding => known.chan = sockfd /\ sockfd # None
    /\ p = "storeReceiving" => state = "Bound"
    /\ p \in {"enable", "storeBound"} => state = "Receiving"
    /\ p = "disable" => state # "Receiving"

\* A step that changes nothing but the place of the call.
LEMMA PlacesKeep ==
    ASSUME IndInv,
           UNCHANGED <<users, fields, socks, queue, loopVars>>,
           NEW u \in Threads, users = {u}, pc[u] \notin {"enable", "disable"},
           NEW p \in Places, NEW known, Goto(u, p, known), Fits(p, known)
    PROVE  IndInv'
<1> USE DEF fields, socks, queue, loopVars
<1>1. /\ pc \in [Threads -> Places] /\ DOMAIN call = Threads
      /\ \A t \in Threads : t # u => pc[t] = "idle"
      /\ pc' = [pc EXCEPT ![u] = p] /\ call' = [call EXCEPT ![u] = known]
  BY DEF IndInv, TypeOK, SoleUser, Goto
<1>2. /\ pc' \in [Threads -> Places] /\ DOMAIN call' = Threads
      /\ pc'[u] = p /\ call'[u] = known
      /\ \A t \in Threads : t # u => pc'[t] = "idle"
  BY <1>1
<1>3. TypeOK'
  BY <1>2 DEF IndInv, TypeOK
<1>4. SoleUser'
  BY <1>2 DEF IndInv, SoleUser
<1>5. FieldsAgree'
  <2>1. ASSUME NEW t \in Threads
        PROVE  /\ pc'[t] = "create" => sockfd = None
               /\ pc'[t] = "ensured" => sockfd # None
               /\ pc'[t] \in Holding => call'[t].chan = sockfd /\ sockfd # None
               /\ pc'[t] = "storeReceiving" => state = "Bound"
               /\ pc'[t] \in {"enable", "storeBound"} => state = "Receiving"
               /\ pc'[t] = "disable" => state # "Receiving"
    <3>1. CASE t = u
      BY <1>2, <3>1 DEF Fits
    <3>2. CASE t # u
      BY <1>2, <3>2 DEF Holding
    <3> QED
      BY <3>1, <3>2
  <2> QED
    BY <2>1 DEF IndInv, FieldsAgree
<1>6. CleanupLast'
  BY DEF IndInv, CleanupLast, Last, Acting
<1>7. RegistrationDue'
  <2>1. \A t \in Threads : pc[t] \notin {"enable", "disable"}
    BY <1>1
  <2> QED
    BY <2>1 DEF IndInv, RegistrationDue, Last, Acting
<1>8. SocketsOwned' /\ OpenWatched' /\ NeverOpened' /\ OwnTickets' /\ RoundOver'
  BY DEF IndInv, SocketsOwned, OpenWatched, NeverOpened, OwnTickets, RoundOver
<1>9. ChannelOutlivesRound'
  <2>1. Outlives
    BY KeptBefore DEF IndInv
  <2> QED
    BY <1>5, <2>1, KeptAfter DEF Outlives, Kept
<1> QED
  BY <1>3, <1>4, <1>5, <1>6, <1>7, <1>8, <1>9 DEF IndInv

\* startReceive() and stopReceive() store the state; the functor that makes it
\* true is still to be queued.
LEMMA StoreKeeps ==
    ASSUME IndInv, NEW u \in Threads, users = {u}, StoreState(u)
    PROVE  IndInv'
<1> DEFINE p == IF pc[u] = "storeReceiving" THEN "enable" ELSE "disable"
<1>1. /\ pc \in [Threads -> Places] /\ DOMAIN call = Threads
      /\ \A t \in Threads : t # u => pc[t] = "idle"
      /\ pc[u] \in {"storeReceiving", "storeBound"}
      /\ pc' = [pc EXCEPT ![u] = p] /\ call' = [call EXCEPT ![u] = call[u]]
      /\ state' = IF p = "enable" THEN "Receiving" ELSE "Bound"
      /\ UNCHANGED <<users, sockfd, channel, sock, opened, pending, ticket, overtaken, swapped, active, loopPc>>
  BY DEF IndInv, TypeOK, SoleUser, StoreState, Goto, socks, queue, loopVars
<1>2. p \in {"enable", "disable"} /\ p \in Places /\ p \in Holding /\ pc[u] \in Holding
  BY <1>1 DEF Places, Holding
<1>3. call[u].chan = sockfd /\ sockfd # None /\ sock[sockfd].bound /\ state \in {"Bound", "Receiving"}
  BY <1>1, <1>2 DEF IndInv, FieldsAgree
<1> HIDE DEF p
<1>4. /\ pc' \in [Threads -> Places] /\ DOMAIN call' = Threads
      /\ pc'[u] = p /\ call'[u].chan = sockfd
      /\ \A t \in Threads : t # u => pc'[t] = "idle"
  BY <1>1, <1>2, <1>3
<1>5. TypeOK'
  BY <1>1, <1>4 DEF IndInv, TypeOK
<1>6. SoleUser'
  BY <1>1, <1>4 DEF IndInv, SoleUser
<1>7. FieldsAgree'
  <2>1. ASSUME NEW t \in Threads
        PROVE  /\ pc'[t] = "create" => sockfd = None
               /\ pc'[t] = "ensured" => sockfd # None
               /\ pc'[t] \in Holding => call'[t].chan = sockfd /\ sockfd # None
               /\ pc'[t] = "storeReceiving" => state' = "Bound"
               /\ pc'[t] \in {"enable", "storeBound"} => state' = "Receiving"
               /\ pc'[t] = "disable" => state' # "Receiving"
    <3>1. CASE t = u
      BY <1>1, <1>2, <1>3, <1>4, <3>1
    <3>2. CASE t # u
      BY <1>4, <3>2 DEF Holding
    <3> QED
      BY <3>1, <3>2
  <2> QED
    BY <1>1, <1>3, <2>1 DEF IndInv, FieldsAgree
<1>8. CleanupLast'
  BY <1>1 DEF IndInv, CleanupLast, Last, Acting
<1>9. RegistrationDue'
  <2> SUFFICES ASSUME NEW s \in Socks \ overtaken,
                      \A t \in Threads : pc'[t] \in {"enable", "disable"} => call'[t].chan # s
               PROVE  /\ Acting(s)' = {} => (sock'[s].reg <=> (s = sockfd' /\ state' = "Receiving"))
                      /\ \A f \in Acting(s)' : Last(f)' =>
                            (f.op = "enable" <=> (s = sockfd' /\ state' = "Receiving"))
    BY <1>1 DEF RegistrationDue
  <2>1. s # sockfd
    BY <1>2, <1>4
  <2>2. \A t \in Threads : pc[t] \notin {"enable", "disable"}
    BY <1>1
  <2> QED
    BY <1>1, <2>1, <2>2 DEF IndInv, RegistrationDue, Last, Acting
<1>10. SocketsOwned' /\ OpenWatched' /\ NeverOpened' /\ OwnTickets' /\ RoundOver'
  BY <1>1 DEF IndInv, SocketsOwned, OpenWatched, NeverOpened, OwnTickets, RoundOver
<1>11. ChannelOutlivesRound'
  <2>1. Outlives
    BY KeptBefore DEF IndInv
  <2> QED
    BY <1>1, <1>7, <2>1, KeptAfter DEF Outlives, Kept
<1> QED
  BY <1>5, <1>6, <1>7, <1>8, <1>9, <1>10, <1>11 DEF IndInv

\* ensureSocket() opens a descriptor that was never used.
LEMMA CreateKeeps ==
    ASSUME IndInv, NEW u \in Threads, users = {u}, Create(u)
    PROVE  IndInv'
<1> DEFINE n == opened + 1
<1>1. /\ opened < MaxSocks /\ opened' = n /\ pc[u] = "create" /\ sockfd = None
      /\ sock' = [sock EXCEPT ![n].fd = TRUE]
      /\ sockfd' = n /\ channel' = n /\ state' = "Opened"
      /\ pc' = [pc EXCEPT ![u] = "ensured"] /\ call' = [call EXCEPT ![u] = call[u]]
      /\ UNCHANGED <<users, pending, ticket, overtaken, swapped, active, loopPc>>
  BY DEF Create, Goto, IndInv, FieldsAgree, queue, loopVars
<1>2. /\ n \in Socks /\ opened \in Nat /\ n > opened /\ n # None /\ opened' \in 0..MaxSocks /\ n <= opened'
      /\ \A i \in 1..opened : i # n /\ i \in 1..n /\ i \in Socks
      /\ \A s \in Socks : s > n => s > opened /\ s # n
  BY <1>1, Constants, SMTT(30) DEF IndInv, TypeOK
<1>3. \A f \in pending : f.sock \in 1..opened
  BY DEF IndInv, TypeOK
<1>4. sock \in [Socks -> SockRecord] /\ ~sock[n].fd /\ ~sock[n].reg
  BY <1>2 DEF IndInv, TypeOK, NeverOpened, SockRecord
<1> HIDE DEF n
<1>5. /\ sock' \in [Socks -> SockRecord]
      /\ sock'[n].fd /\ sock'[n].reg = sock[n].reg
      /\ \A s \in Socks : s # n => sock'[s] = sock[s]
      /\ \A s \in Socks : sock'[s].reg = sock[s].reg
  BY <1>1, <1>2, <1>4 DEF SockRecord
<1>6. /\ pc' \in [Threads -> Places] /\ DOMAIN call' = Threads /\ pc'[u] = "ensured"
      /\ \A t \in Threads : t # u => pc'[t] = "idle" /\ pc[t] = "idle"
  BY <1>1 DEF IndInv, TypeOK, SoleUser, Places
<1>7. TypeOK'
  <2>1. \A f \in pending : f.sock \in 1..n
    BY <1>2, <1>3
  <2> QED
    BY <1>1, <1>2, <1>5, <1>6, <2>1 DEF IndInv, TypeOK, SockRecord
<1>8. SoleUser'
  BY <1>1, <1>6 DEF IndInv, SoleUser
<1>9. FieldsAgree'
  <2>1. \A t \in Threads : pc'[t] \in {"idle", "ensured"}
    BY <1>6
  <2> QED
    BY <1>1, <1>2, <1>5, <2>1 DEF FieldsAgree, Holding
<1>10. CleanupLast'
  <2>1. \A f \in pending : f.sock # n /\ f.sock # None /\ sock'[f.sock] = sock[f.sock]
    BY <1>2, <1>3, <1>5, Constants
  <2> QED
    BY <1>1, <2>1 DEF IndInv, CleanupLast, Last, Acting
<1>11. RegistrationDue'
  <2>1. \A t \in Threads : pc[t] \notin {"enable", "disable"}
    BY <1>1, <1>6
  <2>2. \A s \in Socks : s # None
    BY Constants
  <2>3. \A s \in Socks \ overtaken :
           /\ Acting(s) = {} => ~sock[s].reg
           /\ \A f \in Acting(s) : Last(f) => f.op # "enable"
    BY <1>1, <2>1, <2>2 DEF IndInv, RegistrationDue
  <2> SUFFICES ASSUME NEW s \in Socks \ overtaken
               PROVE  /\ Acting(s)' = {} => (sock'[s].reg <=> (s = sockfd' /\ state' = "Receiving"))
                      /\ \A f \in Acting(s)' : Last(f)' =>
                            (f.op = "enable" <=> (s = sockfd' /\ state' = "Receiving"))
    BY <1>1 DEF RegistrationDue
  <2> QED
    BY <1>1, <1>5, <2>3 DEF Last, Acting
<1>12. SocketsOwned'
  BY <1>1, <1>5, Constants DEF IndInv, SocketsOwned
<1>13. OpenWatched'
  BY <1>1, <1>5 DEF IndInv, OpenWatched
<1>14. NeverOpened'
  BY <1>1, <1>2, <1>5 DEF IndInv, NeverOpened
<1>15. OwnTickets' /\ RoundOver'
  BY <1>1 DEF IndInv, OwnTickets, RoundOver
<1>16. ChannelOutlivesRound'
  <2>1. Outlives /\ active \subseteq Socks \cup {Other} /\ channel = None
    BY <1>1, KeptBefore DEF IndInv, TypeOK, FieldsAgree
  <2>2. ASSUME NEW s \in active \ {Other}
        PROVE  Kept(s)' \/ (sock'[s].reg /\ ~sock'[s].fd)
    <3>1. s \in Socks
      BY <2>1
    <3>2. Kept(s) => Kept(s)'
      BY <1>1, <2>1, <3>1, Constants DEF Kept
    <3>3. sock[s].reg /\ ~sock[s].fd => sock'[s].reg /\ ~sock'[s].fd
      BY <1>4, <1>5, <3>1
    <3> QED
      BY <2>1, <3>2, <3>3 DEF Outlives
  <2> QED
    BY <1>1, <1>9, <2>2, KeptAfter DEF Outlives
<1> QED
  BY <1>7, <1>8, <1>9, <1>10, <1>11, <1>12, <1>13, <1>14, <1>15, <1>16 DEF IndInv

\* bind(2) succeeds on the object's descriptor.
LEMMA BindKeeps ==
    ASSUME IndInv, NEW u \in Threads, users = {u}, BindSucceeds(u)
    PROVE  IndInv'
<1> DEFINE p == IF call[u].op = "bind" THEN "idle" ELSE "start"
<1>1. /\ sockfd # None /\ pc[u] = "ensured"
      /\ sock' = [sock EXCEPT ![sockfd].bound = TRUE]
      /\ state' = IF state = "Receiving" THEN state ELSE "Bound"
      /\ pc' = [pc EXCEPT ![u] = p] /\ call' = [call EXCEPT ![u] = NoCall]
      /\ UNCHANGED <<users, sockfd, channel, opened, pending, ticket, overtaken, swapped, active, loopPc>>
  BY DEF BindSucceeds, Goto, Return, queue, loopVars
<1>2. p \in {"idle", "start"} /\ p \in Places
  BY DEF Places
<1> HIDE DEF p
<1>3. sockfd \in Socks /\ sock \in [Socks -> SockRecord]
  BY <1>1 DEF IndInv, TypeOK, SockRecord
<1>4. /\ sock' \in [Socks -> SockRecord] /\ sock'[sockfd].bound
      /\ \A s \in Socks : sock'[s].reg = sock[s].reg /\ sock'[s].fd = sock[s].fd
  BY <1>1, <1>3 DEF SockRecord
<1>5. /\ pc' \in [Threads -> Places] /\ DOMAIN call' = Threads /\ pc'[u] = p
      /\ \A t \in Threads : t # u => pc'[t] = "idle" /\ pc[t] = "idle"
  BY <1>1, <1>2 DEF IndInv, TypeOK, SoleUser
<1>6. TypeOK'
  BY <1>1, <1>4, <1>5 DEF IndInv, TypeOK, SockRecord
<1>7. SoleUser'
  BY <1>1, <1>5 DEF IndInv, SoleUser
<1>8. FieldsAgree'
  <2>1. \A t \in Threads : pc'[t] \in {"idle", "start"}
    BY <1>2, <1>5
  <2>2. sockfd <= opened /\ sock'[sockfd].fd /\ channel = sockfd /\ state' # "Closed"
    BY <1>1, <1>3, <1>4 DEF IndInv, FieldsAgree
  <2> QED
    BY <1>1, <1>4, <2>1, <2>2 DEF FieldsAgree, Holding
<1>9. CleanupLast'
  <2>1. \A f \in pending : f.sock \in Socks
    BY Queued DEF IndInv
  <2> QED
    BY <1>1, <1>4, <2>1 DEF IndInv, CleanupLast, Last, Acting
<1>10. RegistrationDue'
  <2>1. \A t \in Threads : pc[t] \notin {"enable", "disable"}
    BY <1>1, <1>5
  <2>2. state' = "Receiving" <=> state = "Receiving"
    BY <1>1
  <2> QED
    BY <1>1, <1>4, <2>1, <2>2, SMTT(30) DEF IndInv, RegistrationDue, Last, Acting
<1>11. SocketsOwned' /\ OpenWatched' /\ NeverOpened' /\ OwnTickets' /\ RoundOver'
  BY <1>1, <1>4, SMTT(30) DEF IndInv, SocketsOwned, OpenWatched, NeverOpened, OwnTickets, RoundOver
<1>12. ChannelOutlivesRound'
  <2>1. Outlives /\ active \subseteq Socks \cup {Other}
    BY KeptBefore DEF IndInv, TypeOK
  <2> QED
    BY <1>1, <1>4, <1>8, <2>1, KeptAfter DEF Outlives, Kept
<1> QED
  BY <1>6, <1>7, <1>8, <1>9, <1>10, <1>11, <1>12 DEF IndInv

\* The object gives up its descriptor: another thread than the loop's queues the
\* cleanup, the loop thread cleans up and queues a functor that holds the channel.
LEMMA CloseKeeps ==
    ASSUME IndInv, NEW u \in Threads, users = {u},
           sockfd' = None, channel' = None, state' = "Closed", Cleanup(u, sockfd),
           pc[u] \notin {"enable", "disable"},
           pc' \in [Threads -> {"idle"}], DOMAIN call' = Threads,
           UNCHANGED <<users, opened, overtaken, swapped, active, loopPc>>
    PROVE  IndInv'
<1>1. \A t \in Threads : pc'[t] = "idle" /\ pc[t] \notin {"enable", "disable"}
  BY DEF IndInv, SoleUser
<1>2. pc' \in [Threads -> Places]
  BY DEF Places
<1>3. FieldsAgree'
  BY <1>1 DEF FieldsAgree, Holding
<1>4. RoundOver'
  BY DEF IndInv, RoundOver
<1>5. Outlives /\ TypeOK /\ SocketsOwned /\ CleanupLast /\ OpenWatched /\ NeverOpened /\ FieldsAgree
  BY KeptBefore DEF IndInv
<1>6. \A s \in Socks \ overtaken :
          /\ Acting(s) = {} => (sock[s].reg <=> (s = sockfd /\ state = "Receiving"))
          /\ \A f \in Acting(s) : Last(f) => (f.op = "enable" <=> (s = sockfd /\ state = "Receiving"))
  BY <1>1 DEF IndInv, RegistrationDue
<1>7. CASE sockfd = None
  <2>1. UNCHANGED <<sock, pending, ticket, sockfd, channel, state>>
    BY <1>5, <1>7 DEF Cleanup, FieldsAgree
  <2>2. TypeOK' /\ SoleUser'
    BY <1>1, <1>2, <2>1 DEF IndInv, TypeOK, SoleUser
  <2>3. CleanupLast' /\ RegistrationDue'
    BY <1>5, <1>6, <2>1, SMTT(30) DEF CleanupLast, RegistrationDue, Last, Acting
  <2>4. SocketsOwned' /\ OpenWatched' /\ NeverOpened' /\ OwnTickets'
    BY <2>1 DEF IndInv, SocketsOwned, OpenWatched, NeverOpened, OwnTickets
  <2>5. ChannelOutlivesRound'
    BY <1>3, <1>5, <2>1, KeptAfter DEF Outlives, Kept
  <2> QED
    BY <1>3, <1>4, <2>2, <2>3, <2>4, <2>5 DEF IndInv
<1>8. CASE sockfd # None /\ u # Loop
  <2>1. Queue("cleanup", sockfd) /\ UNCHANGED sock
    BY <1>8 DEF Cleanup
  <2>2. sockfd \in Socks /\ sockfd \in 1..opened /\ sock[sockfd].fd /\ channel = sockfd
    BY <1>5, <1>8, OwnSock
  <2>3. PICK f : Adds(f, "cleanup", sockfd)
    BY <1>5, <2>1, QueueAdds
  <2>4. /\ pending' = pending \cup {f} /\ f.op = "cleanup" /\ f.sock = sockfd /\ Acts(f)
        /\ \A g \in pending : g.at < f.at /\ g # f
    BY <2>3 DEF Adds, Acts
  <2>5. \A g \in pending : g.at <= f.at /\ ~(f.at <= g.at)
    <3> SUFFICES ASSUME NEW g \in pending PROVE g.at <= f.at /\ ~(f.at <= g.at)
      OBVIOUS
    <3>1. g.at \in Nat /\ f.at = ticket + 1 /\ ticket \in Nat /\ g.at <= ticket
      BY <1>5, <2>3, Queued DEF Adds
    <3> QED
      BY <3>1, SMTT(30)
  <2>6. f.at <= f.at
    BY <1>5, <2>3, SMTT(30) DEF Adds, TypeOK
  <2>7. TypeOK' /\ OwnTickets'
    BY <1>2, <2>1, <2>2, <2>3, AddsKeeps, Constants DEF IndInv, TypeOK
  <2>8. SoleUser'
    BY <1>1, <1>8 DEF SoleUser
  <2>9. /\ \A s, g : g \in Acting(s)' <=> g \in Acting(s) \/ (g = f /\ s = sockfd)
        /\ \A s : s # sockfd => Acting(s)' = Acting(s)
    BY <2>4 DEF Acting
  <2>10. /\ Last(f)'
         /\ \A g \in pending : g.sock # sockfd => (Last(g)' <=> Last(g))
         /\ \A g \in pending : g.sock = sockfd => ~Last(g)'
    BY <2>4, <2>5, <2>6, <2>9 DEF Last, Acting
  <2>11. \A g \in pending : g.op = "cleanup" => g.sock # sockfd /\ Last(g) /\ g.sock # None
    BY <1>5, Queued DEF CleanupLast
  <2>12. CleanupLast'
    BY <1>5, <1>8, <2>1, <2>2, <2>4, <2>10, <2>11 DEF CleanupLast
  <2>13. RegistrationDue'
    <3> SUFFICES ASSUME NEW s \in Socks \ overtaken
                 PROVE  /\ Acting(s)' = {} => ~sock'[s].reg
                        /\ \A g \in Acting(s)' : Last(g)' => g.op # "enable"
      BY Constants DEF RegistrationDue
    <3>1. CASE s = sockfd
      BY <2>4, <2>9, <2>10, <3>1 DEF Acting
    <3>2. CASE s # sockfd
      BY <1>6, <2>1, <2>9, <2>10, <3>2, SMTT(30) DEF Acting
    <3> QED
      BY <3>1, <3>2
  <2>14. SocketsOwned'
    BY <1>5, <2>1, <2>4 DEF SocketsOwned
  <2>15. OpenWatched' /\ NeverOpened'
    BY <1>5, <2>1 DEF OpenWatched, NeverOpened
  <2>16. ChannelOutlivesRound'
    BY <1>3, <1>5, <2>1, <2>2, <2>4, KeptAfter DEF Outlives, Kept
  <2> QED
    BY <1>3, <1>4, <2>7, <2>8, <2>12, <2>13, <2>14, <2>15, <2>16 DEF IndInv
<1>9. CASE sockfd # None /\ u = Loop
  <2>1. Queue("hold", sockfd) /\ sock' = [sock EXCEPT ![sockfd] = Blank]
    BY <1>9 DEF Cleanup, cleanupUdpSocket, CloseSock, Blank
  <2>2. sockfd \in Socks /\ sockfd \in 1..opened /\ channel = sockfd
    BY <1>5, <1>9, OwnSock
  <2>3. PICK f : Adds(f, "hold", sockfd)
    BY <1>5, <2>1, QueueAdds
  <2>4. pending' = pending \cup {f} /\ f.op = "hold" /\ f.sock = sockfd
    BY <2>3 DEF Adds
  <2>5. sock \in [Socks -> SockRecord]
    BY <1>5 DEF TypeOK, SockRecord
  <2>6. /\ sock' \in [Socks -> SockRecord]
        /\ ~sock'[sockfd].fd /\ ~sock'[sockfd].reg
        /\ \A s \in Socks : s # sockfd => sock'[s] = sock[s]
    BY <2>1, <2>2, <2>5 DEF SockRecord, Blank
  <2>7. TypeOK' /\ OwnTickets'
    BY <1>2, <2>2, <2>3, <2>6, AddsKeeps, Constants DEF IndInv, TypeOK, SockRecord
  <2>8. \A g \in pending' : g.op = "hold"
    BY <1>9, <2>4 DEF IndInv, SoleUser
  <2>9. SoleUser'
    BY <1>1, <1>9, <2>8 DEF SoleUser
  <2>10. \A s : Acting(s)' = {} /\ Acting(s) = {}
    BY <2>4, <2>8 DEF Acting, Acts
  <2>11. CleanupLast'
    BY <2>8 DEF CleanupLast, Acts
  <2>12. RegistrationDue'
    <3> SUFFICES ASSUME NEW s \in Socks \ overtaken
                 PROVE  ~sock'[s].reg
      BY <2>10, Constants DEF RegistrationDue
    <3>1. s # sockfd => ~sock[s].reg
      BY <1>6, <2>10
    <3> QED
      BY <2>6, <3>1
  <2>13. SocketsOwned'
    BY <1>5, <2>4, <2>6 DEF SocketsOwned
  <2>14. OpenWatched' /\ NeverOpened'
    BY <1>5, <2>6 DEF OpenWatched, NeverOpened
  <2>15. ChannelOutlivesRound'
    <3>1. ASSUME NEW s \in active \ {Other}
          PROVE  Kept(s)' \/ (sock'[s].reg /\ ~sock'[s].fd)
      <4>1. s \in Socks
        BY <1>5 DEF TypeOK
      <4>2. Kept(s) => Kept(s)'
        BY <2>2, <2>4 DEF Kept
      <4>3. s = sockfd => Kept(s)'
        BY <2>4 DEF Kept
      <4> QED
        BY <1>5, <2>6, <4>1, <4>2, <4>3 DEF Outlives
    <3> QED
      BY <1>3, <3>1, KeptAfter DEF Outlives
  <2> QED
    BY <1>3, <1>4, <2>7, <2>9, <2>11, <2>12, <2>13, <2>14, <2>15 DEF IndInv
<1> QED
  BY <1>7, <1>8, <1>9

\* startReceive() and stopReceive() change the interest of the object's channel,
\* at once on the loop thread, by a functor on another.
LEMMA InterestKeeps ==
    ASSUME IndInv, NEW u \in Threads, users = {u}, RunInLoop(u)
    PROVE  IndInv'
<1> DEFINE op == pc[u]
<1>1. /\ op \in {"enable", "disable"} /\ pc[u] \in Holding
      /\ pc' = [pc EXCEPT ![u] = "idle"] /\ call' = [call EXCEPT ![u] = NoCall]
      /\ UNCHANGED <<users, sockfd, channel, state, opened, overtaken, swapped, active>>
  BY DEF RunInLoop, Return, Goto, Holding, fields
<1>2. /\ TypeOK /\ FieldsAgree /\ SocketsOwned /\ CleanupLast /\ OpenWatched /\ NeverOpened /\ Outlives
      /\ call[u].chan = sockfd /\ sockfd # None /\ (op = "enable" <=> state = "Receiving")
  BY <1>1, KeptBefore DEF IndInv, FieldsAgree
<1>3. sockfd \in Socks /\ sockfd \in 1..opened /\ sock[sockfd].fd /\ channel = sockfd
  BY <1>2, OwnSock
<1>4. /\ pc' \in [Threads -> Places] /\ DOMAIN call' = Threads
      /\ \A t \in Threads : pc'[t] = "idle"
      /\ \A t \in Threads : t # u => pc[t] = "idle"
  BY <1>1 DEF IndInv, TypeOK, SoleUser, Places
<1>5. \A s \in Socks \ overtaken : s # sockfd =>
          /\ Acting(s) = {} => ~sock[s].reg
          /\ \A g \in Acting(s) : Last(g) => g.op # "enable"
  <2>1. \A t \in Threads : pc[t] \in {"enable", "disable"} => call[t].chan = sockfd
    BY <1>2, <1>4
  <2> QED
    BY <2>1 DEF IndInv, RegistrationDue
<1>6. IF u = Loop THEN Apply(op, sockfd) /\ UNCHANGED <<pending, ticket>>
      ELSE Queue(op, sockfd) /\ UNCHANGED <<sock, loopPc>>
  BY <1>2 DEF RunInLoop
<1> HIDE DEF op
<1>7. CASE u # Loop
  <2>1. PICK f : Adds(f, op, sockfd)
    BY <1>2, <1>6, <1>7, QueueAdds
  <2>2. /\ pending' = pending \cup {f} /\ f.op = op /\ f.sock = sockfd /\ Acts(f)
        /\ UNCHANGED <<sock, loopPc>>
    BY <1>1, <1>6, <1>7, <2>1 DEF Adds, Acts
  <2>3. \A g \in pending : g.at <= f.at /\ ~(f.at <= g.at)
    <3> SUFFICES ASSUME NEW g \in pending PROVE g.at <= f.at /\ ~(f.at <= g.at)
      OBVIOUS
    <3>1. g.at \in Nat /\ f.at = ticket + 1 /\ ticket \in Nat /\ g.at <= ticket
      BY <1>2, <2>1, Queued DEF Adds
    <3> QED
      BY <3>1, SMTT(30)
  <2>4. TypeOK' /\ OwnTickets'
    <3>1. op \in {"enable", "disable", "hold", "cleanup"}
      BY <1>1
    <3> QED
      BY <1>1, <1>3, <1>4, <2>1, <2>2, <3>1, AddsKeeps DEF IndInv, TypeOK
  <2>5. SoleUser'
    BY <1>1, <1>4, <1>7 DEF SoleUser
  <2>6. FieldsAgree'
    BY <1>1, <1>2, <1>4, <2>2, SMTT(30) DEF FieldsAgree, Holding
  <2>7. \A s, g : g \in Acting(s)' <=> g \in Acting(s) \/ (g = f /\ s = sockfd)
    BY <2>2 DEF Acting
  <2>8. \A s : s # sockfd => Acting(s)' = Acting(s)
    BY <2>2 DEF Acting
  <2>9. /\ \A g \in pending : g.sock # sockfd => (Last(g)' <=> Last(g))
        /\ \A g \in pending : g.sock = sockfd => ~Last(g)'
    BY <2>2, <2>3, <2>7, <2>8 DEF Last
  <2>10. CleanupLast'
    <3>1. \A g \in pending : g.op = "cleanup" => g.sock # sockfd /\ Last(g)'
      BY <1>2, <2>9 DEF CleanupLast
    <3>2. f.op # "cleanup"
      BY <1>1, <2>2
    <3> QED
      BY <1>1, <1>2, <1>3, <2>2, <3>1, <3>2 DEF CleanupLast
  <2>11. RegistrationDue'
    <3> SUFFICES ASSUME NEW s \in Socks \ overtaken
                 PROVE  /\ Acting(s)' = {} => (sock'[s].reg <=> (s = sockfd /\ state = "Receiving"))
                        /\ \A g \in Acting(s)' : Last(g)' =>
                              (g.op = "enable" <=> (s = sockfd /\ state = "Receiving"))
      BY <1>1 DEF RegistrationDue
    <3>1. CASE s = sockfd
      <4>1. f \in Acting(s)' /\ \A g \in Acting(s)' : g = f \/ (g \in pending /\ g.sock = sockfd)
        BY <2>7, <3>1 DEF Acting
      <4>2. \A g \in Acting(s)' : Last(g)' => g = f
        BY <2>9, <4>1
      <4> QED
        BY <1>2, <2>2, <3>1, <4>1, <4>2
    <3>2. CASE s # sockfd
      <4>1. \A g \in Acting(s) : g \in pending /\ g.sock # sockfd
        BY <3>2 DEF Acting
      <4> QED
        BY <1>5, <2>2, <2>8, <2>9, <3>2, <4>1
    <3> QED
      BY <3>1, <3>2
  <2>12. SocketsOwned'
    BY <1>1, <1>2, <2>2 DEF SocketsOwned
  <2>13. OpenWatched' /\ NeverOpened' /\ RoundOver'
    BY <1>1, <1>2, <2>2 DEF IndInv, OpenWatched, NeverOpened, RoundOver
  <2>14. ChannelOutlivesRound'
    BY <1>1, <1>2, <2>2, <2>6, KeptAfter DEF Outlives, Kept
  <2> QED
    BY <2>4, <2>5, <2>6, <2>10, <2>11, <2>12, <2>13, <2>14 DEF IndInv
<1>8. CASE u = Loop
  <2>1. PICK on \in BOOLEAN : on <=> op = "enable"
    OBVIOUS
  <2>2. sock' = [sock EXCEPT ![sockfd].reg = on] /\ UNCHANGED <<pending, ticket, loopPc>>
    BY <1>3, <1>6, <1>8, <2>1 DEF Apply
  <2>3. sock \in [Socks -> SockRecord]
    BY <1>2 DEF TypeOK, SockRecord
  <2>4. /\ sock' \in [Socks -> SockRecord]
        /\ \A s \in Socks : sock'[s].fd = sock[s].fd /\ sock'[s].bound = sock[s].bound
        /\ \A s \in Socks : s # sockfd => sock'[s].reg = sock[s].reg
        /\ sock'[sockfd].reg = on
    BY <1>3, <2>2, <2>3 DEF SockRecord
  <2>5. \A g \in pending : g.op = "hold"
    BY <1>8 DEF IndInv, SoleUser
  <2>6. \A s : Acting(s)' = {} /\ Acting(s) = {}
    BY <2>2, <2>5 DEF Acting, Acts
  <2>7. TypeOK'
    BY <1>1, <1>2, <1>4, <2>2, <2>4 DEF TypeOK, SockRecord
  <2>8. SoleUser'
    BY <1>1, <1>4, <1>8, <2>2, <2>5 DEF SoleUser
  <2>9. FieldsAgree'
    BY <1>1, <1>2, <1>3, <1>4, <2>4, SMTT(30) DEF FieldsAgree, Holding
  <2>10. CleanupLast'
    BY <2>2, <2>5 DEF CleanupLast, Acts
  <2>11. RegistrationDue'
    <3> SUFFICES ASSUME NEW s \in Socks \ overtaken
                 PROVE  sock'[s].reg <=> (s = sockfd /\ state = "Receiving")
      BY <1>1, <2>6 DEF RegistrationDue
    <3>1. s # sockfd => ~sock'[s].reg
      BY <1>5, <2>4, <2>6
    <3>2. sock'[sockfd].reg <=> state = "Receiving"
      BY <1>2, <2>1, <2>4
    <3> QED
      BY <3>1, <3>2
  <2>12. SocketsOwned'
    BY <1>1, <1>2, <2>2, <2>4 DEF SocketsOwned
  <2>13. OpenWatched'
    BY <1>1, <1>2, <1>3, <2>4 DEF OpenWatched
  <2>14. NeverOpened'
    <3>1. ~(sockfd > opened)
      BY <1>2, <1>3, Constants, SMTT(30) DEF TypeOK
    <3> QED
      BY <1>1, <1>2, <2>4, <3>1 DEF NeverOpened
  <2>15. OwnTickets' /\ RoundOver'
    BY <1>1, <2>2 DEF IndInv, OwnTickets, RoundOver
  <2>16. ChannelOutlivesRound'
    <3>1. ASSUME NEW s \in active \ {Other}
          PROVE  Kept(s)' \/ (sock'[s].reg /\ ~sock'[s].fd)
      <4>1. s \in Socks
        BY <1>2 DEF TypeOK
      <4>2. s = sockfd => Kept(s)'
        BY <1>1, <1>3 DEF Kept
      <4>3. Kept(s) => Kept(s)'
        BY <1>1, <2>2 DEF Kept
      <4> QED
        BY <1>2, <2>4, <4>1, <4>2, <4>3 DEF Outlives
    <3> QED
      BY <1>1, <2>9, <3>1, KeptAfter DEF Outlives
  <2> QED
    BY <2>7, <2>8, <2>9, <2>10, <2>11, <2>12, <2>13, <2>14, <2>15, <2>16 DEF IndInv
<1> QED
  BY <1>7, <1>8

-----------------------------------------------------------------------------
(* The rounds of the loop thread.                                          *)

\* The steps of a round that run no functor.
LEMMA RoundKeeps ==
    ASSUME IndInv,
           \/ Poll \/ OtherCallback \/ CallbackDone \/ EndDispatch
           \/ RingEmpty \/ Swap \/ EndFunctors
           \/ \E s \in Socks : HandleRead(s)
    PROVE  IndInv'
<1>0. UNCHANGED <<users, sockfd, state, channel, sock, opened, pc, call, pending, ticket, overtaken>>
  BY DEF Poll, OtherCallback, CallbackDone, EndDispatch, RingEmpty, Swap, EndFunctors, HandleRead,
         fields, socks, callVars, queue
<1>1. SoleUser' /\ FieldsAgree' /\ SocketsOwned' /\ OpenWatched' /\ NeverOpened' /\ OwnTickets'
  BY <1>0 DEF IndInv, SoleUser, FieldsAgree, SocketsOwned, OpenWatched, NeverOpened, OwnTickets
<1>2. CleanupLast' /\ RegistrationDue'
  BY <1>0, SMTT(30) DEF IndInv, CleanupLast, RegistrationDue, Last, Acting
<1>3. /\ active' \subseteq Socks \cup {Other}
      /\ \A s \in active' \ {Other} : Kept(s) \/ (sock[s].reg /\ ~sock[s].fd)
  <2>1. CASE Poll
    <3>1. active' \subseteq {s \in Socks : sock[s].reg} \cup {Other}
      BY <2>1 DEF Poll
    <3>2. \A s \in Socks : sock[s].fd => Kept(s)
      BY DEF IndInv, FieldsAgree, SocketsOwned, Kept
    <3> QED
      BY <3>1, <3>2
  <2>2. CASE ~Poll
    <3>1. active' \subseteq active
      BY <2>2 DEF OtherCallback, CallbackDone, EndDispatch, RingEmpty, Swap, EndFunctors, HandleRead
    <3>2. Outlives
      BY KeptBefore DEF IndInv
    <3> QED
      BY <3>1, <3>2 DEF IndInv, TypeOK, Outlives
  <2> QED
    BY <2>1, <2>2
<1>4. ChannelOutlivesRound'
  BY <1>0, <1>1, <1>3, KeptAfter DEF Outlives, Kept
<1>5. loopPc' \in {"poll", "dispatch", "callback", "functors", "swap", "batch", "aborted"} /\ RoundOver'
  BY DEF IndInv, TypeOK, RoundOver, Poll, OtherCallback, CallbackDone, EndDispatch, RingEmpty, Swap,
         EndFunctors, HandleRead
<1>6. TypeOK'
  BY <1>0, <1>3, <1>5 DEF IndInv, TypeOK
<1> QED
  BY <1>1, <1>2, <1>4, <1>5, <1>6 DEF IndInv

\* What is left of the queue when f has run: f is gone, and at most a functor
\* that holds f's channel has come.
Leaves(f) ==
    /\ pending \ {f} \subseteq pending'
    /\ \A g \in pending' : (g \in pending /\ g # f) \/ (g.op = "hold" /\ g.sock = f.sock)

\* A functor acts on its channel, and the queue is what is left.
LEMMA RunEffect ==
    ASSUME IndInv, NEW f \in pending, RunFunctor(f)
    PROVE  /\ UNCHANGED <<users, sockfd, channel, state, opened, pc, call, active>>
           /\ active = {} /\ (loopPc' = loopPc \/ loopPc' = "aborted")
           /\ overtaken' = IF Acts(f) /\ (\E g \in Acting(f.sock) : g.at < f.at)
                           THEN overtaken \cup {f.sock} ELSE overtaken
           /\ Leaves(f) /\ OwnTickets' /\ ticket' \in Nat
           /\ \A g \in pending' : /\ g.op \in {"enable", "disable", "hold", "cleanup"}
                                  /\ g.sock \in 1..opened /\ g.at \in 1..ticket'
           /\ f.op \in {"enable", "disable", "hold"} => pending' = pending \ {f}
<1>1. /\ UNCHANGED <<users, sockfd, channel, state, opened, pc, call, active>>
      /\ overtaken' = IF Acts(f) /\ (\E g \in Acting(f.sock) : g.at < f.at)
                      THEN overtaken \cup {f.sock} ELSE overtaken
  BY DEF RunFunctor, fields, callVars
<1>2. active = {} /\ (loopPc' = loopPc \/ loopPc' = "aborted")
  BY DEF IndInv, RoundOver, RunFunctor, IsNext, Apply
<1>3. /\ ticket \in Nat
      /\ \A g \in pending : /\ g.op \in {"enable", "disable", "hold", "cleanup"}
                            /\ g.sock \in 1..opened /\ g.at \in 1..ticket
  BY DEF IndInv, TypeOK
<1>4. CASE f.op # "cleanup"
  <2>1. pending' = pending \ {f} /\ ticket' = ticket
    BY <1>4 DEF RunFunctor
  <2>2. Leaves(f) /\ OwnTickets'
    BY <2>1 DEF Leaves, IndInv, OwnTickets
  <2> QED
    BY <1>1, <1>2, <1>3, <2>1, <2>2
<1>5. CASE f.op = "cleanup"
  <2>1. PICK path \in Paths :
            pending' = (pending \ {f}) \cup
                       {[op |-> "hold", sock |-> f.sock, path |-> path, at |-> ticket']}
    BY <1>5 DEF RunFunctor
  <2> DEFINE h == [op |-> "hold", sock |-> f.sock, path |-> path, at |-> ticket']
  <2>2. h.op = "hold" /\ h.sock = f.sock /\ h.at = ticket' /\ ticket' = ticket + 1
    BY <1>5 DEF RunFunctor
  <2>3. pending' = (pending \ {f}) \cup {h}
    BY <2>1
  <2> HIDE DEF h
  <2>4. ticket' \in Nat /\ h.at \in 1..ticket' /\ \A g \in pending : g.at \in 1..ticket' /\ g.at # h.at
    BY <1>3, <2>2, SMTT(30)
  <2>5. OwnTickets'
    BY <2>3, <2>4 DEF IndInv, OwnTickets
  <2>6. Leaves(f)
    BY <2>2, <2>3 DEF Leaves
  <2>7. \A g \in pending' : /\ g.op \in {"enable", "disable", "hold", "cleanup"}
                            /\ g.sock \in 1..opened /\ g.at \in 1..ticket'
    BY <1>3, <2>2, <2>3, <2>4
  <2> QED
    BY <1>1, <1>2, <1>5, <2>4, <2>5, <2>6, <2>7
<1> QED
  BY <1>4, <1>5

\* The functors that still act, and which of them is the last: a channel that is
\* not overtaken has the same last one as before.
LEMMA RunOrder ==
    ASSUME IndInv, NEW f \in pending, RunFunctor(f)
    PROVE  /\ \A s, g : g \in Acting(s)' <=> g \in Acting(s) /\ g # f
           /\ \A g \in pending : g # f /\ Last(g) => Last(g)'
           /\ \A s \in Socks \ overtaken' : \A g \in Acting(s)' : Last(g)' => Last(g)
           /\ \A g \in Acting(f.sock) : g # f /\ Last(f) /\ Acts(f) => f.sock \in overtaken'
<1>0. /\ Leaves(f)
      /\ overtaken' = IF Acts(f) /\ (\E g \in Acting(f.sock) : g.at < f.at)
                      THEN overtaken \cup {f.sock} ELSE overtaken
  BY RunEffect
<1>1. \A s, g : g \in Acting(s)' <=> g \in Acting(s) /\ g # f
  BY <1>0 DEF Leaves, Acting, Acts
<1>2. \A g \in pending : g # f /\ Last(g) => Last(g)'
  BY <1>0, <1>1 DEF Last, Leaves
<1>3. \A g \in pending : g # f /\ ~(f.at <= g.at) => g.at < f.at
  <2> SUFFICES ASSUME NEW g \in pending, ~(f.at <= g.at)
               PROVE  g.at < f.at
    OBVIOUS
  <2>1. g.at \in Nat /\ f.at \in Nat
    BY Queued DEF IndInv
  <2> QED
    BY <2>1, SMTT(30)
<1>4. ASSUME NEW s \in Socks \ overtaken', NEW g \in Acting(s)', Last(g)'
      PROVE  Last(g)
  <2>1. g \in pending /\ g # f /\ g.sock = s /\ Acts(g)
    BY <1>1 DEF Acting
  <2>2. \A h \in Acting(s) : h # f => h.at <= g.at
    BY <1>1, <1>4, <2>1 DEF Last
  <2>3. f \in Acting(s) => f.at <= g.at
    <3> SUFFICES ASSUME f \in Acting(s), ~(f.at <= g.at)
                 PROVE  FALSE
      OBVIOUS
    <3>1. f.sock = s /\ Acts(f) /\ g \in Acting(f.sock) /\ g.at < f.at
      BY <1>3, <2>1 DEF Acting
    <3> QED
      BY <1>0, <3>1
  <2> QED
    BY <2>1, <2>2, <2>3 DEF Last
<1>5. ASSUME NEW g \in Acting(f.sock), g # f, Last(f), Acts(f)
      PROVE  f.sock \in overtaken'
  <2>1. g \in pending /\ g.at <= f.at /\ g.at # f.at
    BY <1>5 DEF Last, Acting, IndInv, OwnTickets
  <2>2. g.at \in Nat /\ f.at \in Nat
    BY <2>1, Queued DEF IndInv
  <2>3. g.at < f.at
    BY <2>1, <2>2, SMTT(30)
  <2> QED
    BY <1>0, <1>5, <2>3
<1> QED
  BY <1>1, <1>2, <1>4, <1>5

\* What the functor does to the descriptors.
LEMMA RunSock ==
    ASSUME IndInv, NEW f \in pending, RunFunctor(f)
    PROVE  /\ sock' \in [Socks -> SockRecord]
           /\ \A s \in Socks : s # f.sock => sock'[s] = sock[s]
           /\ f.op = "hold" => sock' = sock
           /\ f.op = "cleanup" => ~sock'[f.sock].fd /\ ~sock'[f.sock].reg
           /\ f.op \in {"enable", "disable"} =>
                 sock'[f.sock].fd = sock[f.sock].fd /\ sock'[f.sock].bound = sock[f.sock].bound
           /\ f.op \in {"enable", "disable"} /\ sock[f.sock].fd =>
                 (sock'[f.sock].reg <=> f.op = "enable")
<1>1. sock \in [Socks -> SockRecord] /\ f.sock \in Socks
  BY Queued DEF IndInv, TypeOK, SockRecord
<1>2. CASE f.op = "hold"
  BY <1>1, <1>2 DEF RunFunctor
<1>3. CASE f.op = "cleanup"
  <2>1. sock' = [sock EXCEPT ![f.sock] = Blank]
    BY <1>3 DEF RunFunctor, CloseSock, Blank
  <2> QED
    BY <1>1, <1>3, <2>1 DEF SockRecord, Blank
<1>4. CASE f.op \in {"enable", "disable"}
  <2>1. PICK on \in BOOLEAN : on <=> f.op = "enable"
    OBVIOUS
  <2>2. Apply(f.op, f.sock)
    BY <1>4 DEF RunFunctor
  <2>3. CASE sock' = [sock EXCEPT ![f.sock].reg = on]
    <3>1. /\ sock' \in [Socks -> SockRecord]
          /\ \A s \in Socks : s # f.sock => sock'[s] = sock[s]
          /\ sock'[f.sock].fd = sock[f.sock].fd /\ sock'[f.sock].bound = sock[f.sock].bound
          /\ sock'[f.sock].reg = on
      BY <1>1, <2>3 DEF SockRecord
    <3> QED
      BY <1>4, <2>1, <3>1
  <2>4. CASE ~sock[f.sock].fd /\ sock' = sock
    BY <1>1, <1>4, <2>4
  <2> QED
    BY <2>1, <2>2, <2>3, <2>4 DEF Apply
<1> QED
  BY <1>2, <1>3, <1>4, Queued DEF IndInv

\* A functor is taken from the queue and acts on its descriptor.
LEMMA RunKeeps ==
    ASSUME IndInv, NEW f \in pending, RunFunctor(f)
    PROVE  IndInv'
<1>0. TypeOK /\ SoleUser /\ FieldsAgree /\ CleanupLast /\ RegistrationDue /\ SocketsOwned
      /\ OpenWatched /\ NeverOpened
  BY DEF IndInv
<1>1. /\ UNCHANGED <<users, sockfd, channel, state, opened, pc, call, active>>
      /\ active = {} /\ (loopPc' = loopPc \/ loopPc' = "aborted")
      /\ Leaves(f) /\ OwnTickets' /\ ticket' \in Nat
      /\ \A g \in pending' : /\ g.op \in {"enable", "disable", "hold", "cleanup"}
                             /\ g.sock \in 1..opened /\ g.at \in 1..ticket'
      /\ f.op \in {"enable", "disable", "hold"} => pending' = pending \ {f}
  BY RunEffect
<1>2. /\ f.sock \in Socks /\ f.sock <= opened /\ opened \in Nat
      /\ f.op \in {"enable", "disable", "hold", "cleanup"}
      /\ overtaken \subseteq overtaken' /\ overtaken' \subseteq Socks
  <2>1. f.sock \in Socks /\ f.sock <= opened /\ f.op \in {"enable", "disable", "hold", "cleanup"}
    BY <1>0, Queued
  <2>2. opened \in Nat
    BY <1>0, Constants, SMTT(30) DEF TypeOK
  <2>3. overtaken \subseteq overtaken' /\ overtaken' \subseteq Socks
    BY <1>0, <2>1, RunEffect, SMTT(30) DEF TypeOK
  <2> QED
    BY <2>1, <2>2, <2>3
<1>3. TypeOK'
  BY <1>0, <1>1, <1>2, RunSock DEF TypeOK, SockRecord
<1>4. SoleUser'
  <2>1. PICK u \in Threads : /\ users = {u}
                             /\ \A t \in Threads : t # u => pc[t] = "idle"
                             /\ u = Loop => \A g \in pending : g.op = "hold"
    BY <1>0 DEF SoleUser
  <2>2. u = Loop => \A g \in pending' : g.op = "hold"
    BY <1>1, <2>1 DEF Leaves
  <2> QED
    BY <1>1, <2>1, <2>2 DEF SoleUser
<1>5. f.op = "cleanup" => f.sock # sockfd /\ Last(f) /\ Acts(f)
  BY <1>0 DEF CleanupLast, Acts
<1>6. FieldsAgree'
  <2>1. sockfd # None => sock'[sockfd].fd = sock[sockfd].fd /\ sock'[sockfd].bound = sock[sockfd].bound
    BY <1>0, <1>2, <1>5, RunSock DEF TypeOK
  <2> QED
    BY <1>0, <1>1, <2>1 DEF FieldsAgree
<1>7. CleanupLast'
  <2> SUFFICES ASSUME NEW g \in pending'
               PROVE  /\ g.op = "cleanup" => g.sock # sockfd' /\ Last(g)'
                      /\ Acts(g) /\ g.sock \notin overtaken' => sock'[g.sock].fd
    BY DEF CleanupLast
  <2>1. CASE g.op = "hold"
    BY <2>1 DEF Acts
  <2>2. CASE g.op # "hold"
    <3>1. g \in pending /\ g # f /\ Acts(g) /\ g.sock \in Socks
      BY <1>0, <1>1, <2>2, Queued DEF Leaves, Acts
    <3>2. g.op = "cleanup" => g.sock # sockfd' /\ Last(g)'
      BY <1>0, <1>1, <3>1, RunOrder DEF CleanupLast
    <3>3. ASSUME g.sock \notin overtaken'
          PROVE  sock'[g.sock].fd
      <4>1. sock[g.sock].fd
        BY <1>0, <1>2, <3>1, <3>3 DEF CleanupLast
      <4>2. f.op = "cleanup" => g.sock # f.sock
        <5>1. g \in Acting(g.sock)
          BY <3>1 DEF Acting
        <5> QED
          BY <1>5, <3>1, <3>3, <5>1, RunOrder
      <4> QED
        BY <1>2, <3>1, <4>1, <4>2, RunSock
    <3> QED
      BY <3>2, <3>3
  <2> QED
    BY <2>1, <2>2
<1>8. RegistrationDue'
  <2> SUFFICES ASSUME NEW s \in Socks \ overtaken',
                      \A t \in Threads : pc[t] \in {"enable", "disable"} => call[t].chan # s
               PROVE  /\ Acting(s)' = {} => (sock'[s].reg <=> (s = sockfd /\ state = "Receiving"))
                      /\ \A g \in Acting(s)' : Last(g)' =>
                            (g.op = "enable" <=> (s = sockfd /\ state = "Receiving"))
    BY <1>1 DEF RegistrationDue
  <2>1. /\ s \in Socks \ overtaken
        /\ Acting(s) = {} => (sock[s].reg <=> (s = sockfd /\ state = "Receiving"))
        /\ \A g \in Acting(s) : Last(g) => (g.op = "enable" <=> (s = sockfd /\ state = "Receiving"))
    BY <1>0, <1>2 DEF RegistrationDue
  <2>2. \A g \in Acting(s)' : Last(g)' => (g.op = "enable" <=> (s = sockfd /\ state = "Receiving"))
    <3>1. \A g \in Acting(s)' : g \in Acting(s)
      BY RunOrder
    <3> QED
      BY <2>1, <3>1, RunOrder
  <2>3. ASSUME Acting(s)' = {}
        PROVE  sock'[s].reg <=> (s = sockfd /\ state = "Receiving")
    <3>1. \A g \in Acting(s) : g = f
      BY <2>3, RunOrder
    <3>2. CASE f \in Acting(s)
      <4>1. f.sock = s /\ Acts(f) /\ f.op # "hold"
        BY <3>2 DEF Acting, Acts
      <4>2. Last(f)
        <5>1. f.at <= f.at
          <6>1. f.at \in Nat
            BY <1>0, Queued
          <6> QED
            BY <6>1, SMTT(30)
        <5> QED
          BY <3>1, <4>1, <5>1 DEF Last
      <4>3. f.op = "enable" <=> (s = sockfd /\ state = "Receiving")
        BY <2>1, <3>2, <4>2
      <4>4. sock[f.sock].fd
        BY <1>0, <2>1, <4>1 DEF CleanupLast
      <4>5. sock'[s].reg <=> f.op = "enable"
        BY <1>2, <4>1, <4>4, RunSock
      <4> QED
        BY <4>3, <4>5
    <3>3. CASE f \notin Acting(s)
      <4>1. Acting(s) = {}
        BY <3>1, <3>3
      <4>2. s # f.sock \/ f.op = "hold"
        BY <3>3 DEF Acting, Acts
      <4>3. sock'[s].reg = sock[s].reg
        BY <4>2, RunSock
      <4> QED
        BY <2>1, <4>1, <4>3
    <3> QED
      BY <3>2, <3>3
  <2> QED
    BY <2>2, <2>3
<1>9. SocketsOwned'
  <2> SUFFICES ASSUME NEW s \in Socks, sock'[s].fd
               PROVE  sockfd' = s \/ \E g \in pending' : g.op = "cleanup" /\ g.sock = s
    BY DEF SocketsOwned
  <2>1. sock[s].fd /\ ~(f.op = "cleanup" /\ f.sock = s)
    BY <1>2, RunSock
  <2>2. CASE sockfd = s
    BY <1>1, <2>2
  <2>3. CASE \E g \in pending : g.op = "cleanup" /\ g.sock = s
    <3>1. PICK g \in pending : g.op = "cleanup" /\ g.sock = s
      BY <2>3
    <3>2. g \in pending'
      BY <1>1, <2>1, <3>1 DEF Leaves
    <3> QED
      BY <3>1, <3>2
  <2> QED
    BY <1>0, <2>1, <2>2, <2>3 DEF SocketsOwned
<1>10. OpenWatched'
  <2> SUFFICES ASSUME NEW s \in Socks \ overtaken', sock'[s].reg
               PROVE  sock'[s].fd
    BY DEF OpenWatched
  <2>1. s \in Socks \ overtaken
    BY <1>2
  <2>2. CASE s # f.sock \/ f.op = "hold"
    BY <1>0, <2>1, <2>2, RunSock DEF OpenWatched
  <2>3. CASE s = f.sock /\ f.op # "hold"
    <3>1. sock[s].fd
      BY <1>0, <2>1, <2>3 DEF CleanupLast, Acts
    <3> QED
      BY <1>2, <2>3, <3>1, RunSock
  <2> QED
    BY <2>2, <2>3
<1>11. NeverOpened'
  <2>1. ~(f.sock > opened)
    BY <1>2, Constants, SMTT(30)
  <2> QED
    BY <1>0, <1>1, <2>1, RunSock DEF NeverOpened
<1>12. ChannelOutlivesRound' /\ RoundOver'
  BY <1>1 DEF ChannelOutlivesRound, RoundOver
<1> QED
  BY <1>1, <1>3, <1>4, <1>6, <1>7, <1>8, <1>9, <1>10, <1>11, <1>12 DEF IndInv

-----------------------------------------------------------------------------
(* The invariant.                                                          *)

\* The object before its first call.
LEMMA InitKeeps ==
    ASSUME Init, \A g \in Sharing : \E u \in Threads : g = {u}
    PROVE  IndInv
<1> USE DEF Init
<1>1. TypeOK
  <2>1. 0 \in 0..MaxSocks /\ 0 \in Nat
    BY Constants, SMTT(30)
  <2>2. sock \in [Socks -> [fd : BOOLEAN, bound : BOOLEAN, reg : BOOLEAN]]
    OBVIOUS
  <2>3. pc \in [Threads -> Places]
    BY DEF Places
  <2> QED
    BY <2>1, <2>2, <2>3 DEF TypeOK
<1>2. SoleUser
  BY DEF SoleUser
<1>3. FieldsAgree
  BY DEF FieldsAgree, Holding
<1>4. CleanupLast /\ RegistrationDue
  BY DEF CleanupLast, RegistrationDue, Acting
<1>5. SocketsOwned /\ ChannelOutlivesRound /\ OpenWatched /\ NeverOpened /\ OwnTickets /\ RoundOver
  BY DEF SocketsOwned, ChannelOutlivesRound, OpenWatched, NeverOpened, OwnTickets, RoundOver
<1> QED
  BY <1>1, <1>2, <1>3, <1>4, <1>5 DEF IndInv

\* Every step of the user and of the loop thread keeps the invariant.
LEMMA StepKeeps ==
    ASSUME IndInv, [Next]_vars
    PROVE  IndInv'
<1>1. CASE UNCHANGED vars
  <2>1. UNCHANGED <<users, sockfd, state, channel, sock, opened, pc, call, pending, ticket, overtaken,
                    active, loopPc>>
    BY <1>1 DEF vars, fields, socks, callVars, queue, loopVars
  <2>2. TypeOK' /\ SoleUser' /\ FieldsAgree'
    BY <2>1 DEF IndInv, TypeOK, SoleUser, FieldsAgree
  <2>3. CleanupLast' /\ RegistrationDue'
    BY <2>1, SMTT(30) DEF IndInv, CleanupLast, RegistrationDue, Last, Acting
  <2>4. SocketsOwned' /\ ChannelOutlivesRound' /\ OpenWatched' /\ NeverOpened' /\ OwnTickets' /\ RoundOver'
    BY <2>1 DEF IndInv, SocketsOwned, ChannelOutlivesRound, Live, OpenWatched, NeverOpened, OwnTickets,
               RoundOver
  <2> QED
    BY <2>2, <2>3, <2>4 DEF IndInv
<1>2. CASE LoopStep
  BY <1>2, RoundKeeps, RunKeeps DEF LoopStep
<1>3. ASSUME NEW t \in Threads, User(t) \/ Proceed(t)
      PROVE  IndInv'
  <2>1. PICK u \in Threads : users = {u} /\ \A v \in Threads : v # u => pc[v] = "idle"
    BY DEF IndInv, SoleUser
  <2>2. t = u /\ users = {t}
    BY <1>3, <2>1 DEF User, Proceed, Call, CallReceive, Destroy, EnsureSocket, CreateFails, Create, Ensured,
                     BindSucceeds, BindFails, StartReceive, StopReceive, StoreState, RunInLoop
  <2>3. FieldsAgree /\ TypeOK
    BY DEF IndInv
  <2>4. {"idle", "ensure", "create", "ensured", "start", "stop", "storeReceiving", "storeBound", "disable"}
        \subseteq Places
    BY DEF Places, Holding
  <2>5. ASSUME NEW p \in {"idle", "ensure", "start", "stop"}, NEW known
        PROVE  Fits(p, known)
    BY DEF Fits, Holding
  <2>6. ASSUME NEW op \in Ops, NEW fam \in Families, Call(t, op, fam)
        PROVE  IndInv'
    BY <2>2, <2>4, <2>5, <2>6, PlacesKeep DEF Call
  <2>7. ASSUME NEW place \in {"start", "stop"}, CallReceive(t, place)
        PROVE  IndInv'
    BY <2>2, <2>4, <2>5, <2>7, PlacesKeep DEF CallReceive
  <2>8. CASE Destroy(t)
    <3>1. pc' \in [Threads -> {"idle"}] /\ DOMAIN call' = Threads
      BY <2>3, <2>8 DEF Destroy, callVars, TypeOK
    <3> QED
      BY <2>2, <2>8, <3>1, CloseKeeps DEF Destroy, loopVars
  <2>9. CASE EnsureSocket(t)
    <3>1. Fits("create", call[t]) <=> sockfd = None
      BY DEF Fits, Holding
    <3>2. Fits("ensured", call[t]) <=> sockfd # None
      BY DEF Fits, Holding
    <3> QED
      BY <2>2, <2>4, <2>5, <2>9, <3>1, <3>2, PlacesKeep DEF EnsureSocket, Return
  <2>10. CASE CreateFails(t)
    BY <2>2, <2>3, <2>4, <2>5, <2>10, PlacesKeep DEF CreateFails, Return, FieldsAgree, fields
  <2>11. CASE Create(t)
    BY <2>2, <2>11, CreateKeeps
  <2>12. CASE Ensured(t)
    BY <2>2, <2>4, <2>5, <2>12, PlacesKeep DEF Ensured, Return
  <2>13. CASE BindSucceeds(t)
    BY <2>2, <2>13, BindKeeps
  <2>14. CASE BindFails(t)
    <3>1. CASE call[t].created
      <4>1. pc' \in [Threads -> {"idle"}] /\ DOMAIN call' = Threads
        BY <2>1, <2>2, <2>3, <2>14 DEF BindFails, Return, Goto, TypeOK
      <4> QED
        BY <2>2, <2>14, <3>1, <4>1, CloseKeeps DEF BindFails, loopVars
    <3>2. CASE ~call[t].created
      BY <2>2, <2>4, <2>5, <2>14, <3>2, PlacesKeep DEF BindFails, Return, fields, socks, queue
    <3> QED
      BY <3>1, <3>2
  <2>15. CASE StartReceive(t)
    <3>1. CASE channel # None /\ state = "Bound"
      <4>1. Fits("storeReceiving", Copied)
        BY <2>3, <3>1 DEF Fits, Copied, NoCall, FieldsAgree
      <4> QED
        BY <2>2, <2>4, <2>15, <3>1, <4>1, PlacesKeep DEF StartReceive
    <3>2. CASE ~(channel # None /\ state = "Bound")
      BY <2>2, <2>4, <2>5, <2>15, <3>2, PlacesKeep DEF StartReceive, Return
    <3> QED
      BY <3>1, <3>2
  <2>16. CASE StopReceive(t)
    <3>1. CASE channel = None
      BY <2>2, <2>4, <2>5, <2>16, <3>1, PlacesKeep DEF StopReceive, Return
    <3>2. CASE channel # None /\ state = "Receiving"
      <4>1. Fits("storeBound", Copied)
        BY <2>3, <3>2 DEF Fits, Copied, NoCall, FieldsAgree
      <4> QED
        BY <2>2, <2>4, <2>16, <3>2, <4>1, PlacesKeep DEF StopReceive
    <3>3. CASE channel # None /\ state # "Receiving"
      <4>1. Fits("disable", Copied)
        BY <2>3, <3>3 DEF Fits, Copied, NoCall, FieldsAgree
      <4> QED
        BY <2>2, <2>4, <2>16, <3>3, <4>1, PlacesKeep DEF StopReceive
    <3> QED
      BY <3>1, <3>2, <3>3
  <2>17. CASE StoreState(t)
    BY <2>2, <2>17, StoreKeeps
  <2>18. CASE RunInLoop(t)
    BY <2>2, <2>18, InterestKeeps
  <2> QED
    BY <1>3, <2>6, <2>7, <2>8, <2>9, <2>10, <2>11, <2>12, <2>13, <2>14, <2>15, <2>16, <2>17, <2>18
       DEF User, Proceed
<1> QED
  BY <1>1, <1>2, <1>3 DEF Next

-----------------------------------------------------------------------------
(* The theorems.  Their hypothesis is that one thread calls the object, the *)
(* loop's or any other.  UdpSocket.h promises safety for several threads;   *)
(* MC_UdpSocket_shared.cfg shows that SocketsOwned needs the hypothesis.    *)

\* With a single user, whichever thread it is and whichever path its functors
\* take, the fields, the queued functors and the descriptors stay in agreement,
\* and epoll with them but for overtaken channels (UdpSocket.cpp).
THEOREM IndInvHolds ==
    ASSUME \A g \in Sharing : \E u \in Threads : g = {u}
    PROVE  Spec => []IndInv
<1>1. Init => IndInv
  BY InitKeeps
<1>2. IndInv /\ [Next]_vars => IndInv'
  BY StepKeeps
<1> QED
  BY <1>1, <1>2, PTL DEF Spec

\* isReceiving() tells the truth once calls and functors are done, and epoll
\* watches no closed descriptor, of every channel whose functors ran in the order
\* of the calls (startReceive, stopReceive, cleanupUdpSocket).
THEOREM ReceivingAgreesHolds ==
    ASSUME \A g \in Sharing : \E u \in Threads : g = {u}
    PROVE  Spec => []ReceivingAgrees
<1>1. IndInv => ReceivingAgrees
  <2> SUFFICES ASSUME IndInv
               PROVE  ReceivingAgrees
    OBVIOUS
  <2>1. FieldsAgree /\ RegistrationDue /\ OpenWatched
    BY DEF IndInv
  <2>2. Settled => \A s \in Socks \ overtaken : sock[s].reg <=> (s = channel /\ state = "Receiving")
    BY <2>1 DEF Settled, FieldsAgree, RegistrationDue, Acting
  <2> QED
    BY <2>1, <2>2 DEF ReceivingAgrees, FieldsAgree, OpenWatched
<1> QED
  BY <1>1, IndInvHolds, PTL

\* No descriptor is lost: an open one is the object's or has its cleanup queued
\* (ensureSocket, bind, ~UdpSocket).
THEOREM SocketsOwnedHolds ==
    ASSUME \A g \in Sharing : \E u \in Threads : g = {u}
    PROVE  Spec => []SocketsOwned
<1>1. IndInv => SocketsOwned
  BY DEF IndInv
<1> QED
  BY <1>1, IndInvHolds, PTL

\* A Channel in activeChannels_ is alive until the round is over, also when its
\* callback or another's destroys the socket, and in whatever order functors run,
\* but for one that is registered again behind its cleanup (cleanupUdpSocket).
THEOREM ChannelOutlivesRoundHolds ==
    ASSUME \A g \in Sharing : \E u \in Threads : g = {u}
    PROVE  Spec => []ChannelOutlivesRound
<1>1. IndInv => ChannelOutlivesRound
  BY DEF IndInv
<1> QED
  BY <1>1, IndInvHolds, PTL
=============================================================================
