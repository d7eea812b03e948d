------------------------ MODULE TcpConnectionProofs ------------------------
(* A connection that any number of threads use, for every message size,     *)
(* send buffer and high water mark: its state, its channel, the server's    *)
(* map and the user's view agree, its output is a stream, and shutdown()    *)
(* flushes what its caller sent when functors keep their order.             *)
EXTENDS TcpConnection, SequenceTheorems, TLAPS

\* A leaf is tried with Zenon, then SMT, unless it names its prover.
USE ZenonT(30), SMTT(30)

Unit == Senders \X Nat \X (1..Size)
Entry == [fn : Functors, path : Paths]

(* The invariant in two parts: the connection with its channel and stream,  *)
(* and the loop thread with its functors.                                   *)

\* The variables of the connection, by type.
CoreTypes ==
    /\ state \in {"Connecting", "Connected", "Disconnecting", "Disconnected"}
    /\ events \subseteq {"read", "write"}
    /\ added \in BOOLEAN /\ index \in {-1, 1, 2}
    /\ fdOpen \in BOOLEAN /\ wrClosed \in BOOLEAN /\ inMap \in BOOLEAN /\ serverAlive \in BOOLEAN
    /\ room \in 0..Room
    /\ closer \in Senders \cup {None}
    /\ out \in Seq(Unit) /\ wire \in Seq(Unit) /\ accepted \in Seq(Unit)

\* Channel and Poller as the state has it.
ChannelOK ==
    /\ state # "Disconnected" =>
           inMap /\ serverAlive /\ fdOpen /\ ("write" \in events <=> out # <<>>)
    /\ state \in Open => "read" \in events
    /\ state \in {"Connecting", "Disconnected"} => events = {}
    /\ added <=> index # -1
    /\ index = 1 <=> events # {}
    /\ ~fdOpen => ~added

\* The stream, and when its end may be shut down.
StreamOK ==
    /\ wire \o out = accepted
    /\ wrClosed => out = <<>> /\ state \notin {"Connecting", "Connected"}
    /\ state = "Connecting" => out = <<>>

CoreInv == CoreTypes /\ ChannelOK /\ StreamOK /\ ToldOnce

\* The loop thread's place, and the functors.
LoopTypes ==
    /\ inbox \in BOOLEAN /\ fin \in BOOLEAN /\ reset \in BOOLEAN
    /\ loopPc \in {"poll", "dispatch", "read", "message", "write", "functors", "running"}
    /\ revents \subseteq {"in", "out", "err", "hup"}
    /\ pending \in Seq(Entry)
    /\ functor \in Functors \cup {None}
    /\ call \in [Callers -> Functors \cup {None}]
    /\ sends \in [Senders -> 0..MaxSends]
    /\ owed \in [Callers -> 0..MaxSends \cup {None}]

LoopOK ==
    /\ state = "Connecting" => loopPc = "dispatch"
    /\ loopPc = "running" <=> functor # None
    /\ "hup" \in revents => "in" \in revents

DestroyOK ==
    /\ \A k \in DOMAIN pending : pending[k].fn.do = "destroy" => state = "Disconnected"
    /\ functor # None /\ functor.do = "destroy" => state = "Disconnected"

CallsOK ==
    \A c \in Callers : call[c] # None => call[c].by = c /\ call[c].do \in {"send", "shutdown"}

LoopInv == LoopTypes /\ LoopOK /\ DestroyOK /\ CallsOK

\* The two parts are the invariant.
LEMMA Parts == IndInv <=> CoreInv /\ LoopInv
<1>1. TypeOK <=> CoreTypes /\ LoopTypes
  BY DEF TypeOK, CoreTypes, LoopTypes, Unit, Entry
<1>2. ASSUME TypeOK
      PROVE  IndInv <=> ChannelOK /\ StreamOK /\ ToldOnce /\ LoopOK /\ DestroyOK /\ CallsOK
  <2>1. state \in {"Connecting", "Connected", "Disconnecting", "Disconnected"}
    BY <1>2 DEF TypeOK
  <2> QED
    BY <1>2, <2>1 DEF IndInv, StateAgrees, ChannelAgrees, StreamIntact, ChannelOK, StreamOK, LoopOK, DestroyOK, CallsOK, Open
<1>3. IndInv => TypeOK
  BY DEF IndInv, StateAgrees, ChannelAgrees
<1> QED
  BY <1>1, <1>2, <1>3 DEF CoreInv, LoopInv

-----------------------------------------------------------------------------
(* The connection.                                                         *)

\* A message is a sequence of units that ends with the last one.
LEMMA MessageUnits ==
    ASSUME NEW t \in Senders, NEW i \in Nat
    PROVE  /\ Message(t, i) \in Seq(Unit)
           /\ Len(Message(t, i)) = Size /\ Size \in Nat \ {0}
           /\ Message(t, i)[Size] = <<t, i, Size>>
<1>1. Size \in Nat \ {0}
  BY SizesAssumption
<1>2. Message(t, i) \in [1..Size -> Unit]
  BY <1>1 DEF Message, Unit
<1>3. Message(t, i) \in Seq(Unit) /\ Len(Message(t, i)) = Size
  BY <1>1, <1>2, SMTT(30)
<1> QED
  BY <1>1, <1>3, SMTT(30) DEF Message

\* The units of two sequences put together.
LEMMA Glued ==
    ASSUME NEW S, NEW s \in Seq(S), NEW t \in Seq(S)
    PROVE  /\ s \o t \in Seq(S) /\ Len(s) \in Nat /\ Len(t) \in Nat
           /\ Len(s \o t) = Len(s) + Len(t)
           /\ \A i \in 1..(Len(s) + Len(t)) :
                 (s \o t)[i] = IF i <= Len(s) THEN s[i] ELSE t[i - Len(s)]
  BY ConcatProperties, SMTT(30)

\* Concatenation is associative.
LEMMA Associates ==
    ASSUME NEW S, NEW s \in Seq(S), NEW t \in Seq(S), NEW u \in Seq(S),
           NEW x, x = s \o t, NEW y, y = t \o u
    PROVE  x \o u = s \o y
<1>1. x \in Seq(S) /\ Len(x) = Len(s) + Len(t) /\ Len(s) \in Nat /\ Len(t) \in Nat /\ Len(u) \in Nat
      /\ \A i \in 1..(Len(s) + Len(t)) : x[i] = IF i <= Len(s) THEN s[i] ELSE t[i - Len(s)]
  BY Glued
<1>2. y \in Seq(S) /\ Len(y) = Len(t) + Len(u)
      /\ \A i \in 1..(Len(t) + Len(u)) : y[i] = IF i <= Len(t) THEN t[i] ELSE u[i - Len(t)]
  BY Glued
<1>3. PICK p : p = x \o u
  OBVIOUS
<1>4. PICK q : q = s \o y
  OBVIOUS
<1>5. p \in Seq(S) /\ Len(p) = Len(x) + Len(u)
      /\ \A i \in 1..(Len(x) + Len(u)) : p[i] = IF i <= Len(x) THEN x[i] ELSE u[i - Len(x)]
  BY <1>1, <1>3, Glued, SMTT(30)
<1>6. q \in Seq(S) /\ Len(q) = Len(s) + Len(y)
      /\ \A i \in 1..(Len(s) + Len(y)) : q[i] = IF i <= Len(s) THEN s[i] ELSE y[i - Len(s)]
  BY <1>2, <1>4, Glued
<1>7. Len(p) = Len(q)
  BY <1>1, <1>2, <1>5, <1>6, SMTT(30)
<1>8. ASSUME NEW i \in 1..Len(p)
      PROVE  p[i] = q[i]
  <2>1. CASE i <= Len(s)
    <3>1. p[i] = x[i] /\ x[i] = s[i]
      BY <1>1, <1>5, <2>1, SMTT(30)
    <3>2. q[i] = s[i]
      BY <1>1, <1>2, <1>6, <2>1, SMTT(30)
    <3> QED
      BY <3>1, <3>2
  <2>2. CASE i > Len(s) /\ i <= Len(s) + Len(t)
    <3>1. p[i] = x[i] /\ x[i] = t[i - Len(s)]
      BY <1>1, <1>5, <2>2, SMTT(30)
    <3>2. q[i] = y[i - Len(s)] /\ y[i - Len(s)] = t[i - Len(s)]
      BY <1>1, <1>2, <1>6, <2>2, SMTT(30)
    <3> QED
      BY <3>1, <3>2
  <2>3. CASE i > Len(s) + Len(t)
    <3>1. p[i] = u[i - Len(x)] /\ i - Len(x) = (i - Len(s)) - Len(t)
      BY <1>1, <1>5, <2>3, SMTT(30)
    <3>2. q[i] = y[i - Len(s)]
      BY <1>1, <1>2, <1>5, <1>6, <1>7, <2>3, SMTT(30)
    <3>3. y[i - Len(s)] = u[(i - Len(s)) - Len(t)]
      BY <1>1, <1>2, <1>5, <1>7, <2>3, SMTT(30)
    <3> QED
      BY <3>1, <3>2, <3>3
  <2> QED
    BY <1>1, <1>5, <2>1, <2>2, <2>3, SMTT(30)
<1>9. p = q
  BY <1>5, <1>6, <1>7, <1>8, SeqEqual
<1> QED
  BY <1>3, <1>4, <1>9

Joined(s, t, x) == x = s \o t

LEMMA Regrouped ==
    ASSUME NEW S, NEW s \in Seq(S), NEW t \in Seq(S), NEW u \in Seq(S),
           NEW x, Joined(s, t, x), NEW y, Joined(t, u, y), NEW z, Joined(x, u, z)
    PROVE  Joined(s, y, z)
<1>1. x = s \o t /\ y = t \o u /\ z = x \o u
  BY DEF Joined
<1>2. x \o u = s \o y
  BY <1>1, Associates, SMTT(30)
<1> QED
  BY <1>1, <1>2 DEF Joined

\* A sequence m split in two, a and b.
Halves(m, n, a, b) == a = SubSeq(m, 1, n) /\ b = SubSeq(m, n + 1, Len(m))

LEMMA Split ==
    ASSUME NEW S, NEW m \in Seq(S), NEW n \in 0..Len(m), NEW a, NEW b, Halves(m, n, a, b)
    PROVE  /\ a \in Seq(S) /\ b \in Seq(S) /\ a \o b = m
           /\ n = Len(m) => a = m /\ b = <<>>
           /\ n < Len(m) => b # <<>>
<1> USE DEF Halves
<1>1. Len(m) \in Nat
  BY SMTT(30)
<1>2. /\ a \in Seq(S)
      /\ b \in Seq(S)
      /\ Len(b) = IF n + 1 <= Len(m) THEN Len(m) - n ELSE 0
  BY <1>1, SMTT(30)
<1>3. a \o b = m
  <2>1. SubSeq(m, 1, n) \o SubSeq(m, n + 1, Len(m)) = SubSeq(m, 1, Len(m))
    <3>1. 1 \in 1..(Len(m) + 1) /\ n \in (1 - 1)..Len(m) /\ Len(m) \in n..Len(m)
      BY <1>1, SMTT(30)
    <3> QED
      BY <3>1, ConcatAdjacentSubSeq
  <2> QED
    BY <2>1, SubSeqFull
<1>4. n = Len(m) => a = m /\ b = <<>>
  BY <1>1, SubSeqFull, SubSeqEmpty, SMTT(30)
<1>5. n < Len(m) => b # <<>>
  <2>1. n < Len(m) => Len(b) # 0
    BY <1>1, <1>2, SMTT(30)
  <2> QED
    BY <2>1, EmptySeq
<1> QED
  BY <1>2, <1>3, <1>4, <1>5

\* The up callback comes first.
LEMMA UpFirst == Append(<<>>, "up") = <<"up">>
<1> DEFINE S == {"up"}
           a == Append(<<>>, "up")
           b == <<"up">>
<1>1. <<>> \in Seq(S) /\ Len(<<>>) = 0 /\ "up" \in S
  BY SMTT(30)
<1>2. a \in Seq(S) /\ Len(a) = 1 /\ a[1] = "up"
  BY <1>1, AppendProperties, SMTT(30)
<1>3. b \in Seq(S) /\ Len(b) = 1 /\ b[1] = "up"
  BY SMTT(30)
<1> HIDE DEF a, b, S
<1>4. \A i \in 1..Len(a) : a[i] = b[i]
  BY <1>2, <1>3, SMTT(30)
<1>5. a = b
  BY <1>2, <1>3, <1>4, SeqEqual
<1> QED
  BY <1>5 DEF a, b

\* The down callback after the up callback.
LEMMA UpDown == Append(<<"up">>, "down") = <<"up", "down">>
<1> DEFINE S == {"up", "down"}
           a == Append(<<"up">>, "down")
           b == <<"up", "down">>
<1>1. <<"up">> \in Seq(S) /\ Len(<<"up">>) = 1 /\ "down" \in S /\ <<"up">>[1] = "up"
  BY SMTT(30)
<1>2. a \in Seq(S) /\ Len(a) = 2 /\ a[1] = "up" /\ a[2] = "down"
  BY <1>1, AppendProperties, SMTT(30)
<1>3. b \in Seq(S) /\ Len(b) = 2 /\ b[1] = "up" /\ b[2] = "down"
  BY SMTT(30)
<1> HIDE DEF a, b, S
<1>4. \A i \in 1..Len(a) : a[i] = b[i]
  BY <1>2, <1>3, SMTT(30)
<1>5. a = b
  BY <1>2, <1>3, <1>4, SeqEqual
<1> QED
  BY <1>5 DEF a, b

\* What Channel::update() makes of the registration.
LEMMA Updated ==
    ASSUME CoreTypes, ChannelOK, NEW interest \in SUBSET {"read", "write"}, Update(interest)
    PROVE  /\ events' = interest
           /\ added' \in BOOLEAN /\ index' \in {-1, 1, 2}
           /\ added' <=> index' # -1
           /\ index' = 1 <=> interest # {}
           /\ added \/ interest # {} \/ ~added'
<1>1. added \in BOOLEAN /\ index \in {-1, 1, 2} /\ (added <=> index # -1) /\ (index = 1 <=> events # {})
      /\ events' = interest
  BY DEF CoreTypes, ChannelOK, Update
<1>2. CASE ~added /\ interest = {}
  <2>1. added' = added /\ index' = index
    BY <1>2 DEF Update
  <2> QED
    BY <1>1, <1>2, <2>1, SMTT(30)
<1>3. CASE added \/ interest # {}
  <2>1. added' = TRUE /\ index' = IF interest # {} THEN 1 ELSE IF index = 1 THEN 2 ELSE index
    BY <1>3 DEF Update, updateChannel
  <2> QED
    BY <1>1, <1>3, <2>1, SMTT(30)
<1> QED
  BY <1>2, <1>3

\* handleClose() of an open connection, which ends the interest in it.
LEMMA ClosesCore ==
    ASSUME CoreInv, handleClose, state \in Open
    PROVE  CoreInv' /\ state' = "Disconnected" /\ UNCHANGED <<closer, accepted>>
<1>1. /\ state' = "Disconnected" /\ Update({}) /\ told' = Append(told, "down")
      /\ UNCHANGED <<fdOpen, wrClosed, serverAlive, out, room, wire, accepted, closer>>
      /\ inMap' \in BOOLEAN
  BY DEF handleClose, dataVars, removeConnection, CoreInv, CoreTypes
<1>2. /\ events' = {} /\ added' \in BOOLEAN /\ index' \in {-1, 1, 2}
      /\ (added' <=> index' # -1) /\ index' # 1 /\ fdOpen
  BY <1>1, Updated DEF CoreInv, ChannelOK, Open
<1>3. CoreTypes'
  BY <1>1, <1>2 DEF CoreInv, CoreTypes
<1>4. ChannelOK'
  BY <1>1, <1>2 DEF ChannelOK, Open
<1>5. StreamOK'
  BY <1>1 DEF CoreInv, StreamOK
<1>6. ToldOnce'
  <2>1. told = <<"up">>
    BY DEF CoreInv, ToldOnce, Open
  <2>2. told' = <<"up", "down">>
    BY <1>1, <2>1, UpDown
  <2> QED
    BY <1>1, <2>2 DEF ToldOnce, Open
<1> QED
  BY <1>1, <1>3, <1>4, <1>5, <1>6 DEF CoreInv

\* Output is left to wait: write interest, and the high water mark's functor.
LEMMA BufferChannel ==
    ASSUME CoreTypes, ChannelOK, state = "Connected", NEW rest \in Seq(Unit), rest # <<>>, Buffer(rest)
    PROVE  /\ out' = out \o rest /\ out' \in Seq(Unit) /\ out' # <<>>
           /\ events' = events \cup {"write"} /\ events' \subseteq {"read", "write"}
           /\ added' \in BOOLEAN /\ index' \in {-1, 1, 2}
           /\ (added' <=> index' # -1) /\ index' = 1
           /\ UNCHANGED pending \/ Queue("notify")
<1>1. /\ out' = out \o rest /\ Update(events \cup {"write"})
      /\ UNCHANGED pending \/ Queue("notify")
  BY DEF Buffer
<1>2. out \in Seq(Unit)
  BY DEF CoreTypes
<1>3. out \o rest \in Seq(Unit) /\ out \o rest # <<>>
  BY <1>2, ConcatProperties, ConcatSimplifications
<1>4. events \cup {"write"} \in SUBSET {"read", "write"} /\ events \cup {"write"} # {}
  BY DEF CoreTypes
<1> QED
  BY <1>1, <1>3, <1>4, Updated

\* The units that a write() takes.
LEMMA TakenRange ==
    ASSUME CoreTypes, NEW len \in Nat \ {0}, NEW n \in Taken(len)
    PROVE  n \in 0..len /\ room - n \in 0..Room
<1>1. room \in 0..Room /\ Room \in Nat
  BY SizesAssumption DEF CoreTypes
<1> QED
  BY <1>1, SMTT(30) DEF Taken

\* What sendInLoop() does to a connected connection.
Sent(m) ==
    /\ CoreInv'
    /\ \/ state' = "Connected" /\ accepted' = accepted \o m /\ (UNCHANGED pending \/ Queue("notify"))
       \/ /\ state' = "Disconnected" /\ accepted' = accepted
          /\ UNCHANGED pending \/ Queue("destroy")
    /\ UNCHANGED closer

LEMMA SendsDirectly ==
    ASSUME CoreInv, state = "Connected", out = <<>>, "write" \notin events,
           NEW m \in Seq(Unit), Len(m) # 0, SendDirectly(m)
    PROVE  Sent(m)
<1>0. CoreTypes /\ ChannelOK /\ StreamOK /\ ToldOnce
  BY DEF CoreInv
<1>1. PICK n \in Taken(Len(m)) :
        /\ wire' = wire \o SubSeq(m, 1, n)
        /\ room' = room - n
        /\ accepted' = accepted \o m
        /\ IF n = Len(m)
           THEN Queue("notify") /\ UNCHANGED <<out, channelVars>>
           ELSE Buffer(SubSeq(m, n + 1, Len(m)))
        /\ StaysOpen
  BY DEF SendDirectly
<1>2. Len(m) \in Nat \ {0}
  BY SMTT(30)
<1>3. n \in 0..Len(m) /\ room' \in 0..Room
  BY <1>0, <1>1, <1>2, TakenRange
<1>a. PICK rest : rest = SubSeq(m, n + 1, Len(m))
  OBVIOUS
<1>b. PICK head : head = SubSeq(m, 1, n)
  OBVIOUS
<1>4. wire \in Seq(Unit) /\ accepted \in Seq(Unit) /\ out \in Seq(Unit) /\ wire = accepted
  <2>1. wire \in Seq(Unit) /\ accepted \in Seq(Unit) /\ out \in Seq(Unit) /\ wire \o out = accepted
    BY <1>0 DEF CoreTypes, StreamOK
  <2> QED
    BY <2>1, ConcatEmptySeq
<1>5. /\ head \in Seq(Unit) /\ rest \in Seq(Unit) /\ head \o rest = m
      /\ n = Len(m) => head = m /\ rest = <<>>
      /\ n < Len(m) => rest # <<>>
  <2>1. Halves(m, n, head, rest)
    BY <1>a, <1>b DEF Halves
  <2> QED
    BY <1>3, <2>1, Split, SMTT(30)
<1>6. wire' = wire \o head /\ wire' \in Seq(Unit) /\ accepted' \in Seq(Unit)
  BY <1>1, <1>4, <1>5, <1>b, ConcatProperties
<1>7. UNCHANGED <<state, fdOpen, wrClosed, inMap, serverAlive, told, closer>>
  BY <1>1 DEF StaysOpen, serverVars
<1>8. ToldOnce'
  BY <1>0, <1>7 DEF ToldOnce
<1>9. CASE n = Len(m)
  <2>1. UNCHANGED <<out, events, added, index>> /\ Queue("notify")
    BY <1>1, <1>9 DEF channelVars
  <2>2. CoreTypes'
    BY <1>0, <1>3, <1>6, <1>7, <2>1 DEF CoreTypes
  <2>3. ChannelOK'
    BY <1>0, <1>7, <2>1 DEF ChannelOK
  <2>4. wire' \o out' = accepted'
    <3>1. wire' = accepted' /\ out' = <<>>
      BY <1>1, <1>4, <1>5, <1>6, <1>9, <2>1
    <3> QED
      BY <1>6, <3>1, ConcatEmptySeq
  <2>5. StreamOK'
    BY <1>0, <1>7, <2>1, <2>4 DEF StreamOK
  <2> QED
    BY <1>1, <1>7, <1>8, <2>1, <2>2, <2>3, <2>5 DEF Sent, CoreInv
<1>10. CASE n # Len(m)
  <2>1. Buffer(rest) /\ rest # <<>>
    <3>1. Buffer(rest)
      BY <1>1, <1>10, <1>a
    <3>2. rest # <<>>
      BY <1>2, <1>3, <1>5, <1>10, SMTT(30)
    <3> QED
      BY <3>1, <3>2
  <2>2. /\ out' = out \o rest /\ out' \in Seq(Unit) /\ out' # <<>>
        /\ events' = events \cup {"write"} /\ events' \subseteq {"read", "write"}
        /\ added' \in BOOLEAN /\ index' \in {-1, 1, 2}
        /\ (added' <=> index' # -1) /\ index' = 1
        /\ UNCHANGED pending \/ Queue("notify")
    BY <1>0, <1>5, <2>1, BufferChannel
  <2>3. CoreTypes'
    BY <1>0, <1>3, <1>6, <1>7, <2>2 DEF CoreTypes
  <2>4. ChannelOK'
    BY <1>0, <1>7, <2>2 DEF ChannelOK, Open
  <2>5. wire' \o out' = accepted'
    <3>1. out' = rest
      BY <1>4, <1>5, <2>2, ConcatEmptySeq
    <3>2. (wire \o head) \o rest = wire \o m
      <4>1. wire \in Seq(Unit) /\ head \in Seq(Unit) /\ rest \in Seq(Unit) /\ m = head \o rest
        BY <1>4, <1>5
      <4>2. PICK x, z : x = wire \o head /\ z = x \o rest
        OBVIOUS
      <4>3. Joined(wire, head, x) /\ Joined(head, rest, m) /\ Joined(x, rest, z)
        BY <4>1, <4>2 DEF Joined
      <4>4. Joined(wire, m, z)
        BY <4>1, <4>3, Regrouped, SMTT(30)
      <4> QED
        BY <4>2, <4>4 DEF Joined
    <3> QED
      BY <1>1, <1>4, <1>6, <3>1, <3>2
  <2>6. StreamOK'
    BY <1>0, <1>7, <2>5 DEF StreamOK
  <2> QED
    BY <1>1, <1>7, <1>8, <2>2, <2>3, <2>4, <2>6 DEF Sent, CoreInv
<1> QED
  BY <1>9, <1>10

LEMMA SendsBuffered ==
    ASSUME CoreInv, state = "Connected", NEW m \in Seq(Unit), Len(m) # 0, SendBuffered(m)
    PROVE  Sent(m)
<1>0. CoreTypes /\ ChannelOK /\ StreamOK /\ ToldOnce
  BY DEF CoreInv
<1>1. /\ accepted' = accepted \o m /\ Buffer(m)
      /\ UNCHANGED <<wire, room, state, fdOpen, wrClosed, inMap, serverAlive, told, closer>>
  BY DEF SendBuffered, StaysOpen, serverVars
<1>2. m # <<>>
  BY EmptySeq
<1>3. /\ out' = out \o m /\ out' \in Seq(Unit) /\ out' # <<>>
      /\ events' = events \cup {"write"} /\ events' \subseteq {"read", "write"}
      /\ added' \in BOOLEAN /\ index' \in {-1, 1, 2}
      /\ (added' <=> index' # -1) /\ index' = 1
      /\ UNCHANGED pending \/ Queue("notify")
  BY <1>0, <1>1, <1>2, BufferChannel
<1>4. wire \in Seq(Unit) /\ accepted \in Seq(Unit) /\ out \in Seq(Unit) /\ wire \o out = accepted
  BY <1>0 DEF CoreTypes, StreamOK
<1>5. CoreTypes'
  <2>1. accepted' \in Seq(Unit)
    BY <1>1, <1>4, ConcatProperties
  <2> QED
    BY <1>0, <1>1, <1>3, <2>1 DEF CoreTypes
<1>6. ChannelOK'
  BY <1>0, <1>1, <1>3 DEF ChannelOK, Open
<1>7. wire' \o out' = accepted'
  <2>1. (wire \o out) \o m = wire \o out'
    <3>1. wire \in Seq(Unit) /\ out \in Seq(Unit) /\ out' = out \o m
      BY <1>3, <1>4
    <3>2. PICK x, z : x = wire \o out /\ z = x \o m
      OBVIOUS
    <3>3. Joined(wire, out, x) /\ Joined(out, m, out') /\ Joined(x, m, z)
      BY <3>1, <3>2 DEF Joined
    <3>4. Joined(wire, out', z)
      BY <3>1, <3>3, Regrouped, SMTT(30)
    <3> QED
      BY <3>2, <3>4 DEF Joined
  <2> QED
    BY <1>1, <1>4, <2>1
<1>8. StreamOK'
  BY <1>0, <1>1, <1>7 DEF StreamOK
<1>9. ToldOnce'
  BY <1>0, <1>1 DEF ToldOnce
<1> QED
  BY <1>1, <1>3, <1>5, <1>6, <1>8, <1>9 DEF Sent, CoreInv

LEMMA SendsInLoop ==
    ASSUME CoreInv, state = "Connected", NEW t \in Senders, NEW i \in Nat,
           sendInLoop(Message(t, i))
    PROVE  Sent(Message(t, i))
<1> DEFINE m == Message(t, i)
<1>1. m \in Seq(Unit) /\ Len(m) # 0
  BY MessageUnits
<1>2. "write" \in events <=> out # <<>>
  BY DEF CoreInv, ChannelOK
<1>3. CASE handleClose
  <2>1. CoreInv' /\ state' = "Disconnected" /\ UNCHANGED <<closer, accepted>>
    BY <1>3, ClosesCore DEF Open
  <2>2. UNCHANGED pending \/ Queue("destroy")
    BY <1>3 DEF handleClose, removeConnection
  <2> QED
    BY <2>1, <2>2 DEF Sent
<1> HIDE DEF m
<1>4. CASE "write" \notin events /\ out = <<>> /\ SendDirectly(m)
  BY <1>1, <1>4, SendsDirectly DEF m
<1>5. CASE SendBuffered(m)
  BY <1>1, <1>5, SendsBuffered DEF m
<1> QED
  BY <1>3, <1>4, <1>5 DEF sendInLoop, m

\* shutdown() of a connected connection shuts the socket down if nothing waits.
LEMMA ShutsCore ==
    ASSUME CoreInv, state = "Connected", NEW t \in Senders, StartShutdown(t)
    PROVE  CoreInv' /\ state' = "Disconnecting" /\ closer' = t /\ UNCHANGED <<accepted, pending>>
<1>0. CoreTypes /\ ChannelOK /\ StreamOK /\ ToldOnce
  BY DEF CoreInv
<1>1. /\ state' = "Disconnecting" /\ closer' = t
      /\ UNCHANGED <<events, added, index, fdOpen, inMap, serverAlive, out, room, wire, accepted, pending, told>>
      /\ wrClosed' = (wrClosed \/ (fdOpen /\ "write" \notin events))
  BY DEF StartShutdown, shutdownInLoop, channelVars, serverVars, dataVars
<1>2. wrClosed' \in BOOLEAN /\ (wrClosed' => out = <<>>)
  BY <1>0, <1>1 DEF CoreTypes, ChannelOK, StreamOK
<1>3. CoreTypes'
  BY <1>0, <1>1, <1>2 DEF CoreTypes
<1>4. ChannelOK'
  BY <1>0, <1>1 DEF ChannelOK, Open
<1>5. StreamOK'
  BY <1>0, <1>1, <1>2 DEF StreamOK
<1>6. ToldOnce'
  BY <1>0, <1>1 DEF ToldOnce, Open
<1> QED
  BY <1>1, <1>3, <1>4, <1>5, <1>6 DEF CoreInv

\* connectDestroyed(), by a functor or by ~TcpServer(): the channel leaves the
\* poller before the descriptor is closed.
LEMMA DestroysCore ==
    ASSUME CoreInv, state # "Connecting", connectDestroyed,
           inMap' \in BOOLEAN, serverAlive' \in BOOLEAN
    PROVE  CoreInv' /\ state' = "Disconnected" /\ UNCHANGED <<closer, accepted>>
<1>0. CoreTypes /\ ChannelOK /\ StreamOK /\ ToldOnce
  BY DEF CoreInv
<1>1. /\ state' = "Disconnected" /\ fdOpen' = FALSE /\ added' = FALSE
      /\ IF added THEN index' = -1 ELSE UNCHANGED index
      /\ UNCHANGED <<wrClosed, out, room, wire, accepted, closer>>
  BY DEF connectDestroyed, Remove, removeChannel, dataVars
<1>2. index' = -1 /\ events' = {}
  <2>1. index' = -1
    BY <1>0, <1>1 DEF ChannelOK, CoreTypes
  <2>2. events' = {}
    BY <1>0 DEF ChannelOK, connectDestroyed
  <2> QED
    BY <2>1, <2>2
<1>3. CoreTypes'
  BY <1>0, <1>1, <1>2 DEF CoreTypes
<1>4. ChannelOK'
  BY <1>1, <1>2, SMTT(30) DEF ChannelOK, Open
<1>5. StreamOK'
  BY <1>0, <1>1 DEF StreamOK
<1>6. ToldOnce'
  <2>1. CASE state = "Disconnected"
    BY <1>0, <1>1, <2>1 DEF connectDestroyed, ToldOnce
  <2>2. CASE state # "Disconnected"
    <3>1. told = <<"up">> /\ told' = Append(told, "down")
      BY <1>0, <2>2 DEF connectDestroyed, ToldOnce, CoreTypes, Open
    <3>2. told' = <<"up", "down">>
      BY <3>1, UpDown
    <3> QED
      BY <1>1, <3>2 DEF ToldOnce, Open
  <2> QED
    BY <2>1, <2>2
<1> QED
  BY <1>1, <1>3, <1>4, <1>5, <1>6 DEF CoreInv

\* handleWrite() of waiting output: what is written leaves the buffer, and with
\* the last unit a shutdown() that waited takes effect.
LEMMA FlushesCore ==
    ASSUME CoreInv, state \in Open, "write" \in events, Flush
    PROVE  CoreInv' /\ UNCHANGED <<state, closer, accepted>> /\ (UNCHANGED pending \/ Queue("notify"))
<1>0. CoreTypes /\ ChannelOK /\ StreamOK /\ ToldOnce
  BY DEF CoreInv
<1>1. PICK n \in Taken(Len(out)) :
        /\ wire' = wire \o SubSeq(out, 1, n)
        /\ out' = SubSeq(out, n + 1, Len(out))
        /\ room' = room - n
        /\ IF n = Len(out)
           THEN /\ Update(events \ {"write"})
                /\ Queue("notify")
                /\ IF state = "Disconnecting" THEN shutdownInLoop ELSE UNCHANGED wrClosed
           ELSE UNCHANGED <<channelVars, pending, wrClosed>>
        /\ UNCHANGED <<state, fdOpen, serverVars, accepted, told, closer>>
  BY DEF Flush
<1>2. /\ out \in Seq(Unit) /\ wire \in Seq(Unit) /\ accepted \in Seq(Unit)
      /\ accepted = wire \o out /\ out # <<>> /\ Len(out) \in Nat \ {0}
  BY <1>0, EmptySeq DEF CoreTypes, ChannelOK, StreamOK, Open
<1>3. n \in 0..Len(out) /\ room' \in 0..Room
  BY <1>0, <1>1, <1>2, TakenRange
<1>4. PICK head : head = SubSeq(out, 1, n)
  OBVIOUS
<1>5. /\ head \in Seq(Unit) /\ out' \in Seq(Unit) /\ out = head \o out'
      /\ n = Len(out) => out' = <<>>
      /\ n < Len(out) => out' # <<>>
  <2>1. Halves(out, n, head, out')
    BY <1>1, <1>4 DEF Halves
  <2> QED
    BY <1>2, <1>3, <2>1, Split, SMTT(30)
<1>6. wire' = wire \o head /\ wire' \in Seq(Unit)
  BY <1>1, <1>2, <1>4, <1>5, ConcatProperties
<1>7. wire' \o out' = accepted'
  <2>1. wire \in Seq(Unit) /\ head \in Seq(Unit) /\ out' \in Seq(Unit) /\ out = head \o out'
    BY <1>2, <1>5
  <2>2. (wire \o head) \o out' = wire \o out
    <3>1. PICK x, z : x = wire \o head /\ z = x \o out'
      OBVIOUS
    <3>2. Joined(wire, head, x) /\ Joined(head, out', out) /\ Joined(x, out', z)
      BY <2>1, <3>1 DEF Joined
    <3>3. Joined(wire, out, z)
      BY <2>1, <3>2, Regrouped, SMTT(30)
    <3> QED
      BY <3>1, <3>3 DEF Joined
  <2> QED
    BY <1>1, <1>2, <1>6, <2>2
<1>8. UNCHANGED <<state, fdOpen, inMap, serverAlive, accepted, told, closer>>
  BY <1>1 DEF serverVars
<1>9. ToldOnce'
  BY <1>0, <1>8 DEF ToldOnce
<1>10. CASE n = Len(out)
  <2>1. /\ Update(events \ {"write"}) /\ Queue("notify") /\ out' = <<>>
        /\ IF state = "Disconnecting" THEN shutdownInLoop ELSE UNCHANGED wrClosed
    BY <1>1, <1>5, <1>10
  <2>2. events \ {"write"} \in SUBSET {"read", "write"} /\ "read" \in events
    BY <1>0 DEF CoreTypes, ChannelOK
  <2>3. /\ events' = events \ {"write"} /\ "read" \in events'
        /\ added' \in BOOLEAN /\ index' \in {-1, 1, 2}
        /\ (added' <=> index' # -1) /\ index' = 1
    BY <1>0, <2>1, <2>2, Updated
  <2>4. wrClosed' \in BOOLEAN /\ (wrClosed' => state # "Connected")
    BY <1>0, <2>1 DEF CoreTypes, StreamOK, shutdownInLoop
  <2>5. CoreTypes'
    BY <1>0, <1>3, <1>5, <1>6, <1>8, <2>2, <2>3, <2>4 DEF CoreTypes
  <2>6. ChannelOK'
    BY <1>0, <1>8, <2>1, <2>3 DEF ChannelOK, Open
  <2>7. StreamOK'
    BY <1>7, <1>8, <2>1, <2>4 DEF StreamOK, Open
  <2> QED
    BY <1>8, <1>9, <2>1, <2>5, <2>6, <2>7 DEF CoreInv
<1>11. CASE n # Len(out)
  <2>1. UNCHANGED <<events, added, index, pending, wrClosed>> /\ out' # <<>>
    <3>1. n < Len(out)
      BY <1>3, <1>11, SMTT(30)
    <3> QED
      BY <1>1, <1>5, <1>11, <3>1 DEF channelVars
  <2>2. CoreTypes'
    BY <1>0, <1>3, <1>5, <1>6, <1>8, <2>1 DEF CoreTypes
  <2>3. ChannelOK'
    BY <1>0, <1>8, <2>1 DEF ChannelOK, Open
  <2>4. StreamOK'
    BY <1>0, <1>2, <1>7, <1>8, <2>1 DEF StreamOK, Open
  <2> QED
    BY <1>8, <1>9, <2>1, <2>2, <2>3, <2>4 DEF CoreInv
<1> QED
  BY <1>10, <1>11

\* connectEstablished() starts reading.
LEMMA EstablishesCore ==
    ASSUME CoreInv, ConnectEstablished
    PROVE  CoreInv' /\ state' = "Connected" /\ UNCHANGED <<closer, accepted>>
<1>0. CoreTypes /\ ChannelOK /\ StreamOK /\ ToldOnce
  BY DEF CoreInv
<1>1. /\ state = "Connecting" /\ state' = "Connected" /\ Update({"read"}) /\ told' = Append(told, "up")
      /\ UNCHANGED <<fdOpen, wrClosed, inMap, serverAlive, out, room, wire, accepted, closer>>
  BY DEF ConnectEstablished, serverVars, dataVars
<1>2. /\ events' = {"read"} /\ added' \in BOOLEAN /\ index' \in {-1, 1, 2}
      /\ (added' <=> index' # -1) /\ index' = 1
  BY <1>0, <1>1, Updated
<1>3. CoreTypes'
  BY <1>0, <1>1, <1>2 DEF CoreTypes
<1>4. ChannelOK'
  BY <1>0, <1>1, <1>2 DEF ChannelOK, StreamOK, Open
<1>5. StreamOK'
  BY <1>0, <1>1 DEF StreamOK
<1>6. told' = <<"up">>
  <2>1. told = <<>>
    BY <1>0, <1>1 DEF ToldOnce, Open
  <2> QED
    BY <1>1, <2>1, UpFirst
<1>7. ToldOnce'
  BY <1>1, <1>6 DEF ToldOnce, Open
<1> QED
  BY <1>1, <1>3, <1>4, <1>5, <1>7 DEF CoreInv

\* A step that leaves the connection alone, but for the room in the send buffer.
LEMMA QuietCore ==
    ASSUME CoreInv, room' \in 0..Room,
           UNCHANGED <<state, channelVars, fdOpen, wrClosed, serverVars, out, wire, accepted, told, closer>>
    PROVE  CoreInv'
<1> USE DEF channelVars, serverVars
<1>0. CoreTypes /\ ChannelOK /\ StreamOK /\ ToldOnce
  BY DEF CoreInv
<1>1. CoreTypes'
  BY <1>0 DEF CoreTypes
<1>2. ChannelOK' /\ StreamOK' /\ ToldOnce'
  BY <1>0 DEF ChannelOK, StreamOK, ToldOnce
<1> QED
  BY <1>1, <1>2 DEF CoreInv

-----------------------------------------------------------------------------
(* The loop thread and its functors.                                       *)

\* What a step may do to the queue besides taking from it.
Queues ==
    \/ UNCHANGED pending
    \/ Queue("notify")
    \/ Queue("destroy") /\ state' = "Disconnected"

\* The queue with one functor of the loop thread's more.
LEMMA QueueGrows ==
    ASSUME LoopTypes, NEW do \in {"notify", "destroy"}, Queue(do)
    PROVE  /\ pending' \in Seq(Entry)
           /\ Len(pending) \in Nat /\ DOMAIN pending = 1..Len(pending)
           /\ DOMAIN pending' = 1..(Len(pending) + 1)
           /\ \A k \in 1..Len(pending) : pending'[k] = pending[k]
           /\ pending'[Len(pending) + 1].fn = Functor(do, LoopThread, 0)
<1>1. PICK path \in Paths : pending' = Append(pending, [fn |-> Functor(do, LoopThread, 0), path |-> path])
  BY DEF Queue
<1> DEFINE e == [fn |-> Functor(do, LoopThread, 0), path |-> path]
<1>2. e \in Entry /\ e.fn = Functor(do, LoopThread, 0)
  BY SizesAssumption, SMTT(30) DEF Entry, Functors, Functor, Senders
<1> HIDE DEF e
<1>3. pending \in Seq(Entry) /\ pending' = Append(pending, e)
  BY <1>1 DEF LoopTypes, e
<1> QED
  BY <1>2, <1>3, AppendProperties, SMTT(30)

\* A functor connectDestroyed() is queued only by what closes the connection.
LEMMA QueuesKeep ==
    ASSUME LoopTypes, DestroyOK, Queues, state = "Disconnected" => state' = "Disconnected"
    PROVE  /\ pending' \in Seq(Entry)
           /\ \A k \in DOMAIN pending' : pending'[k].fn.do = "destroy" => state' = "Disconnected"
<1>1. CASE UNCHANGED pending
  BY <1>1 DEF LoopTypes, DestroyOK
<1>2. CASE Queue("notify")
  <2>1. Functor("notify", LoopThread, 0).do # "destroy"
    BY DEF Functor
  <2> QED
    BY <1>2, <2>1, QueueGrows, SMTT(30) DEF DestroyOK
<1>3. CASE Queue("destroy") /\ state' = "Disconnected"
  BY <1>3, QueueGrows
<1> QED
  BY <1>1, <1>2, <1>3 DEF Queues

\* A step of the loop thread that runs no functor, or of a caller before it
\* queues one.
LEMMA LoopKeeps ==
    ASSUME LoopInv, Queues, state = "Disconnected" => state' = "Disconnected",
           inbox' \in BOOLEAN, fin' \in BOOLEAN, reset' \in BOOLEAN,
           loopPc' \in {"poll", "dispatch", "read", "message", "write", "functors", "running"},
           revents' \subseteq {"in", "out", "err", "hup"}, LoopOK', CallsOK',
           functor' \in {functor, None},
           call' \in [Callers -> Functors \cup {None}],
           sends' \in [Senders -> 0..MaxSends], UNCHANGED owed
    PROVE  LoopInv'
<1>1. LoopTypes /\ DestroyOK
  BY DEF LoopInv
<1>2. /\ pending' \in Seq(Entry)
      /\ \A k \in DOMAIN pending' : pending'[k].fn.do = "destroy" => state' = "Disconnected"
  BY <1>1, QueuesKeep
<1>3. LoopTypes'
  BY <1>1, <1>2 DEF LoopTypes
<1>4. DestroyOK'
  BY <1>1, <1>2 DEF DestroyOK
<1> QED
  BY <1>3, <1>4 DEF LoopInv

\* The same for a step that leaves the queue's users alone.
LEMMA PlaceKeeps ==
    ASSUME LoopInv, Queues, state = "Disconnected" => state' = "Disconnected",
           inbox' \in BOOLEAN, fin' \in BOOLEAN, reset' \in BOOLEAN,
           loopPc' \in {"poll", "dispatch", "read", "message", "write", "functors"},
           state' = "Connecting" => loopPc' = "dispatch",
           revents' \in {revents, {}}, functor' = None, UNCHANGED callVars
    PROVE  LoopInv'
<1>1. /\ call' \in [Callers -> Functors \cup {None}]
      /\ sends' \in [Senders -> 0..MaxSends] /\ UNCHANGED owed
      /\ revents' \subseteq {"in", "out", "err", "hup"}
  BY DEF LoopInv, LoopTypes, callVars
<1>2. LoopOK' /\ CallsOK'
  BY DEF LoopInv, LoopOK, CallsOK, callVars
<1> QED
  BY <1>1, <1>2, LoopKeeps

\* An element taken out of the queue.
Cut(q, i, r) == r = SubSeq(q, 1, i - 1) \o SubSeq(q, i + 1, Len(q))

LEMMA Removed ==
    ASSUME NEW S, NEW q \in Seq(S), NEW i \in 1..Len(q), NEW r, Cut(q, i, r)
    PROVE  /\ r \in Seq(S) /\ DOMAIN r = 1..(Len(q) - 1) /\ Len(q) \in Nat
           /\ \A k \in 1..(Len(q) - 1) : r[k] = q[IF k < i THEN k ELSE k + 1]
<1>1. Len(q) \in Nat /\ i \in Nat /\ i >= 1 /\ i <= Len(q)
  BY SMTT(30)
<1>2. PICK a : a = SubSeq(q, 1, i - 1)
  OBVIOUS
<1>3. PICK b : b = SubSeq(q, i + 1, Len(q))
  OBVIOUS
<1>4. a \in Seq(S) /\ Len(a) = i - 1 /\ \A k \in 1..(i - 1) : a[k] = q[k]
  BY <1>1, <1>2, SMTT(30)
<1>5. b \in Seq(S) /\ Len(b) = Len(q) - i /\ \A k \in 1..(Len(q) - i) : b[k] = q[i + k]
  BY <1>1, <1>3, SMTT(30)
<1>6. r = a \o b
  BY <1>2, <1>3 DEF Cut
<1>7. /\ r \in Seq(S) /\ Len(r) = Len(q) - 1
      /\ \A k \in 1..(Len(q) - 1) : r[k] = IF k <= i - 1 THEN a[k] ELSE b[k - (i - 1)]
  BY <1>1, <1>4, <1>5, <1>6, Glued, SMTT(30)
<1>8. ASSUME NEW k \in 1..(Len(q) - 1)
      PROVE  r[k] = q[IF k < i THEN k ELSE k + 1]
  <2>1. CASE k < i
    BY <1>1, <1>4, <1>7, <2>1, SMTT(30)
  <2>2. CASE k >= i
    <3>1. r[k] = b[k - (i - 1)] /\ k - (i - 1) \in 1..(Len(q) - i)
      <4>1. ~(k <= i - 1) /\ k - (i - 1) \in 1..(Len(q) - i)
        BY <1>1, <2>2, SMTT(30)
      <4>2. r[k] = IF k <= i - 1 THEN a[k] ELSE b[k - (i - 1)]
        BY <1>7
      <4> QED
        BY <4>1, <4>2
    <3>2. i + (k - (i - 1)) = k + 1
      BY <1>1, SMTT(30)
    <3> QED
      BY <1>1, <1>5, <2>2, <3>1, <3>2, SMTT(30)
  <2> QED
    BY <1>1, <2>1, <2>2, SMTT(30)
<1> QED
  BY <1>1, <1>7, <1>8, SMTT(30)

\* A close of an open connection, as the loop sees it.
LEMMA Closes ==
    ASSUME CoreInv, handleClose, state \in Open
    PROVE  CoreInv' /\ state' = "Disconnected" /\ Queues /\ UNCHANGED <<closer, accepted>>
<1>1. UNCHANGED pending \/ Queue("destroy")
  BY DEF handleClose, removeConnection
<1> QED
  BY <1>1, ClosesCore DEF Queues

\* NoEffect leaves the connection and the queue alone.
LEMMA NothingDone ==
    ASSUME CoreInv, NoEffect
    PROVE  CoreInv' /\ Queues /\ UNCHANGED <<state, closer, accepted, pending>>
<1>1. UNCHANGED <<state, channelVars, fdOpen, wrClosed, serverVars, out, room, wire, accepted, told, closer, pending>>
  BY DEF NoEffect, dataVars
<1>2. room' \in 0..Room
  BY <1>1 DEF CoreInv, CoreTypes
<1> QED
  BY <1>1, <1>2, QuietCore DEF Queues

\* A channel in epoll belongs to an open connection, which is read: a hang-up is
\* reported together with input.
LEMMA PollKeeps ==
    ASSUME CoreInv, LoopInv, Poll
    PROVE  CoreInv' /\ LoopInv' /\ UNCHANGED <<state, closer, accepted, pending, functor, callVars>>
<1>1. /\ loopPc = "poll" /\ loopPc' = "dispatch" /\ NoEffect
      /\ revents' = IF index = 1 THEN Ready \cap Interest ELSE {}
      /\ UNCHANGED <<functor, inbox, fin, reset, call, sends, owed>>
  BY DEF Poll, peerVars, callVars
<1>2. CoreInv' /\ Queues /\ UNCHANGED <<state, closer, accepted, pending>>
  BY <1>1, NothingDone
<1>3. index = 1 => "read" \in events
  BY DEF CoreInv, CoreTypes, ChannelOK, Open
<1>4. revents' \subseteq {"in", "out", "err", "hup"} /\ ("hup" \in revents' => "in" \in revents')
  BY <1>1, <1>3 DEF Ready, Interest
<1>5. LoopOK' /\ CallsOK'
  BY <1>1, <1>2, <1>4 DEF LoopInv, LoopOK, CallsOK
<1>6. LoopTypes
  BY DEF LoopInv
<1>7. LoopInv'
  BY <1>1, <1>2, <1>4, <1>5, <1>6, LoopKeeps DEF LoopTypes
<1> QED
  BY <1>1, <1>2, <1>7 DEF callVars

\* handleEventWithGuard(), one callback after the other.
LEMMA DispatchKeeps ==
    ASSUME CoreInv, LoopInv, Dispatch
    PROVE  /\ CoreInv' /\ LoopInv' /\ Queues
           /\ UNCHANGED <<closer, accepted, callVars>> /\ functor = None /\ functor' = None
           /\ state' \in {state, "Disconnected"}
<1>0. /\ LoopTypes /\ LoopOK /\ inbox \in BOOLEAN /\ fin \in BOOLEAN /\ reset \in BOOLEAN
      /\ state \in {"Connecting", "Connected", "Disconnecting", "Disconnected"}
  BY DEF LoopInv, LoopTypes, CoreInv, CoreTypes
<1>1. /\ functor = None /\ functor' = None /\ UNCHANGED callVars
      /\ loopPc \in {"dispatch", "read", "message", "write"}
      /\ loopPc' \in {"read", "message", "write", "functors"}
      /\ revents' \in {revents, {}} /\ state # "Connecting"
  BY <1>0 DEF Dispatch, HandleCloseAndError, HandleRead, MessageDone, HandleWrite, LoopOK
<1>2. inbox' \in BOOLEAN /\ fin' \in BOOLEAN /\ reset' \in BOOLEAN
  BY <1>0 DEF Dispatch, HandleCloseAndError, HandleRead, MessageDone, HandleWrite, peerVars
<1>3. \/ NoEffect
      \/ handleClose /\ state \in Open
      \/ state \in Open /\ "write" \in events /\ Flush
  <2>1. CASE HandleCloseAndError
    <3>1. "hup" \in revents => "in" \in revents
      BY <1>0 DEF LoopOK
    <3> QED
      BY <2>1, <3>1 DEF HandleCloseAndError, ErrorCloses
  <2>2. CASE HandleRead
    BY <1>0, <1>1, <2>2 DEF HandleRead, Open
  <2>3. CASE MessageDone
    BY <2>3 DEF MessageDone
  <2>4. CASE HandleWrite
    BY <1>0, <1>1, <2>4 DEF HandleWrite, Open
  <2> QED
    BY <2>1, <2>2, <2>3, <2>4 DEF Dispatch
<1>4. CoreInv' /\ Queues /\ UNCHANGED <<closer, accepted>> /\ state' \in {state, "Disconnected"}
  <2>1. CASE NoEffect
    BY <2>1, NothingDone
  <2>2. CASE handleClose /\ state \in Open
    BY <2>2, Closes
  <2>3. CASE state \in Open /\ "write" \in events /\ Flush
    BY <2>3, FlushesCore DEF Queues
  <2> QED
    BY <1>3, <2>1, <2>2, <2>3
<1>5. LoopInv'
  BY <1>1, <1>2, <1>4, PlaceKeeps
<1> QED
  BY <1>1, <1>4, <1>5

\* The i-th functor leaves the queue to be run.
LEMMA TakeKeeps ==
    ASSUME CoreInv, LoopInv, NEW i \in DOMAIN pending, TakeFunctor(i)
    PROVE  /\ CoreInv' /\ LoopInv'
           /\ UNCHANGED <<state, closer, accepted, callVars>> /\ functor = None
           /\ functor' = pending[i].fn /\ functor' # None
           /\ Len(pending) \in Nat /\ DOMAIN pending = 1..Len(pending)
           /\ DOMAIN pending' = 1..(Len(pending) - 1)
           /\ \A k \in 1..(Len(pending) - 1) : pending'[k] = pending[IF k < i THEN k ELSE k + 1]
<1>0. LoopTypes /\ LoopOK /\ DestroyOK /\ CallsOK
  BY DEF LoopInv
<1>1. /\ loopPc = "functors" /\ loopPc' = "running" /\ functor' = pending[i].fn /\ pending' = Without(i)
      /\ UNCHANGED <<state, channelVars, fdOpen, wrClosed, serverVars, out, room, wire, accepted, told, closer>>
      /\ UNCHANGED <<inbox, fin, reset, revents, call, sends, owed>>
  BY DEF TakeFunctor, dataVars, peerVars, callVars
<1>2. pending \in Seq(Entry) /\ i \in 1..Len(pending) /\ DOMAIN pending = 1..Len(pending)
  BY <1>0, SMTT(30) DEF LoopTypes
<1>3. /\ pending' \in Seq(Entry) /\ DOMAIN pending' = 1..(Len(pending) - 1) /\ Len(pending) \in Nat
      /\ \A k \in 1..(Len(pending) - 1) : pending'[k] = pending[IF k < i THEN k ELSE k + 1]
  <2>1. Cut(pending, i, pending')
    BY <1>1 DEF Cut, Without
  <2> QED
    BY <1>2, <2>1, Removed, SMTT(30)
<1>4. pending[i].fn \in Functors
  <2>1. pending[i] \in Entry
    BY <1>2, ElementOfSeq
  <2> QED
    BY <2>1 DEF Entry
<1>5. CoreInv'
  <2>1. room' \in 0..Room
    BY <1>1 DEF CoreInv, CoreTypes
  <2> QED
    BY <1>1, <2>1, QuietCore
<1>6. LoopTypes'
  BY <1>0, <1>1, <1>3, <1>4 DEF LoopTypes
<1>7. functor' # None
  BY <1>1, <1>4, NoneAssumption
<1>8. LoopOK' /\ CallsOK'
  BY <1>0, <1>1, <1>7 DEF LoopOK, CallsOK
<1>9. DestroyOK'
  <2>1. \A k \in 1..(Len(pending) - 1) : (IF k < i THEN k ELSE k + 1) \in DOMAIN pending
    BY <1>2, <1>3, SMTT(30)
  <2> QED
    BY <1>0, <1>1, <1>3, <2>1 DEF DestroyOK
<1>10. functor = None
  BY <1>0, <1>1 DEF LoopOK
<1> QED
  BY <1>1, <1>2, <1>3, <1>5, <1>6, <1>7, <1>8, <1>9, <1>10 DEF LoopInv, callVars

\* A functor is run.
LEMMA RunKeeps ==
    ASSUME CoreInv, LoopInv, RunFunctor
    PROVE  /\ CoreInv' /\ LoopInv' /\ Queues /\ functor' = None /\ functor \in Functors
           /\ UNCHANGED callVars /\ state # "Connecting"
           /\ \/ /\ functor.do = "send" /\ state = "Connected"
                 /\ Sent(Message(functor.by, functor.i))
              \/ /\ functor.do = "shutdown" /\ state = "Connected"
                 /\ state' = "Disconnecting" /\ closer' = functor.by /\ UNCHANGED accepted
              \/ functor.do \in {"send", "shutdown"} /\ state # "Connected" /\ UNCHANGED <<state, closer, accepted>>
              \/ functor.do = "destroy" /\ state' = "Disconnected" /\ UNCHANGED <<closer, accepted>>
              \/ functor.do = "notify" /\ UNCHANGED <<state, closer, accepted>>
<1>0. LoopTypes /\ LoopOK /\ DestroyOK /\ CallsOK
  BY DEF LoopInv
<1>1. /\ loopPc = "running" /\ loopPc' = "functors" /\ functor' = None
      /\ UNCHANGED <<revents, inbox, fin, reset, callVars>>
  BY DEF RunFunctor, peerVars
<1>2. functor # None /\ functor \in Functors /\ state # "Connecting"
  BY <1>0, <1>1 DEF LoopTypes, LoopOK
<1>3. functor.by \in Senders /\ functor.i \in Nat
  BY <1>2, SizesAssumption, SMTT(30) DEF Functors
<1>4. /\ CoreInv' /\ Queues /\ (state = "Disconnected" => state' = "Disconnected") /\ state' # "Connecting"
      /\ \/ /\ functor.do = "send" /\ state = "Connected"
            /\ Sent(Message(functor.by, functor.i))
         \/ /\ functor.do = "shutdown" /\ state = "Connected"
            /\ state' = "Disconnecting" /\ closer' = functor.by /\ UNCHANGED accepted
         \/ functor.do \in {"send", "shutdown"} /\ state # "Connected" /\ UNCHANGED <<state, closer, accepted>>
         \/ functor.do = "destroy" /\ state' = "Disconnected" /\ UNCHANGED <<closer, accepted>>
         \/ functor.do = "notify" /\ UNCHANGED <<state, closer, accepted>>
  <2>1. CASE functor.do = "send" /\ state = "Connected" /\ sendInLoop(Message(functor.by, functor.i))
    <3>1. Sent(Message(functor.by, functor.i))
      BY <1>3, <2>1, SendsInLoop
    <3>2. CoreInv' /\ Queues /\ state' # "Connecting"
      BY <3>1 DEF Sent, Queues
    <3> QED
      BY <2>1, <3>1, <3>2
  <2>2. CASE functor.do = "shutdown" /\ state = "Connected" /\ StartShutdown(functor.by)
    BY <1>3, <2>2, ShutsCore DEF Queues
  <2>3. CASE functor.do \in {"send", "shutdown"} /\ state # "Connected" /\ NoEffect
    BY <1>2, <2>3, NothingDone
  <2>4. CASE functor.do = "destroy" /\ connectDestroyed /\ UNCHANGED <<serverVars, pending>>
    <3>1. inMap' \in BOOLEAN /\ serverAlive' \in BOOLEAN
      BY <2>4 DEF CoreInv, CoreTypes, serverVars
    <3> QED
      BY <1>2, <2>4, <3>1, DestroysCore DEF Queues
  <2>5. CASE functor.do = "notify" /\ NoEffect
    BY <1>2, <2>5, NothingDone
  <2> QED
    BY <2>1, <2>2, <2>3, <2>4, <2>5 DEF RunFunctor
<1>5. LoopInv'
  <2>1. inbox' \in BOOLEAN /\ fin' \in BOOLEAN /\ reset' \in BOOLEAN
    BY <1>0, <1>1 DEF LoopTypes
  <2> QED
    BY <1>1, <1>4, <2>1, PlaceKeeps
<1> QED
  BY <1>1, <1>2, <1>4, <1>5

\* The loop thread's own calls, ~TcpServer(), and the rest of its steps.
LoopCode == ConnectEstablished \/ LoopSend \/ LoopShutdown \/ ServerDestroyed \/ FunctorsDone

LEMMA LoopCodeKeeps ==
    ASSUME CoreInv, LoopInv, LoopCode
    PROVE  /\ CoreInv' /\ LoopInv' /\ Queues
           /\ UNCHANGED <<functor, call, owed>> /\ \A c \in Callers : sends'[c] = sends[c]
           /\ closer' \in {closer, LoopThread}
           /\ state' = "Connecting" => state = "Connecting"
           /\ state' = "Connected" => state \in {"Connecting", "Connected"}
           /\ \/ accepted' = accepted
              \/ \E i \in Nat : accepted' = accepted \o Message(LoopThread, i)
<1>0. LoopTypes /\ LoopOK /\ DestroyOK /\ CallsOK
  BY DEF LoopInv
<1>1. UNCHANGED <<functor, call, owed, inbox, fin, reset, revents>>
  BY DEF LoopCode, ConnectEstablished, LoopSend, LoopShutdown, ServerDestroyed, FunctorsDone, peerVars, callVars
<1>2. loopPc \in {"dispatch", "message", "functors"} /\ loopPc' \in {loopPc, "poll"} /\ functor = None
  BY <1>0 DEF LoopOK, LoopCode, ConnectEstablished, LoopSend, LoopShutdown, ServerDestroyed, FunctorsDone, InUserCode
<1>3. inbox' \in BOOLEAN /\ fin' \in BOOLEAN /\ reset' \in BOOLEAN /\ sends \in [Senders -> 0..MaxSends]
      /\ LoopThread \in Senders /\ LoopThread \notin Callers /\ Callers \subseteq Senders /\ MaxSends \in Nat
  BY <1>0, <1>1, LoopThreadAssumption, SizesAssumption DEF LoopTypes, Senders
<1>4. /\ CoreInv' /\ Queues /\ closer' \in {closer, LoopThread}
      /\ state = "Disconnected" => state' = "Disconnected"
      /\ state' # "Connecting"
      /\ state' = "Connected" => state \in {"Connecting", "Connected"}
      /\ \/ accepted' = accepted
         \/ \E i \in Nat : accepted' = accepted \o Message(LoopThread, i)
      /\ sends' \in [Senders -> 0..MaxSends] /\ \A c \in Callers : sends'[c] = sends[c]
  <2>1. CASE ConnectEstablished
    <3>1. state = "Connecting" /\ UNCHANGED <<pending, sends>>
      BY <2>1 DEF ConnectEstablished, callVars
    <3> QED
      BY <1>3, <2>1, <3>1, EstablishesCore DEF Queues
  <2>2. CASE LoopSend
    <3>1. /\ state = "Connected" /\ sends[LoopThread] < MaxSends
          /\ sends' = [sends EXCEPT ![LoopThread] = @ + 1]
          /\ sendInLoop(Message(LoopThread, sends[LoopThread] + 1))
      BY <2>2 DEF LoopSend
    <3>2. sends[LoopThread] + 1 \in Nat /\ sends[LoopThread] + 1 \in 0..MaxSends
      BY <1>3, <3>1, SMTT(30)
    <3>3. Sent(Message(LoopThread, sends[LoopThread] + 1))
      BY <1>3, <3>1, <3>2, SendsInLoop
    <3>4. sends' \in [Senders -> 0..MaxSends] /\ \A c \in Callers : sends'[c] = sends[c]
      BY <1>3, <3>1, <3>2
    <3> QED
      BY <3>1, <3>2, <3>3, <3>4 DEF Sent, Queues
  <2>3. CASE LoopShutdown
    <3>1. state = "Connected" /\ StartShutdown(LoopThread) /\ UNCHANGED sends
      BY <2>3 DEF LoopShutdown, callVars
    <3> QED
      BY <1>3, <3>1, ShutsCore DEF Queues
  <2>4. CASE ServerDestroyed
    <3>1. /\ state # "Connecting" /\ serverAlive' = FALSE /\ inMap' = FALSE /\ UNCHANGED <<sends, pending>>
          /\ IF inMap THEN connectDestroyed
             ELSE UNCHANGED <<state, told, channelVars, fdOpen, wrClosed, dataVars, closer>>
      BY <2>4 DEF ServerDestroyed, InUserCode, callVars
    <3>2. CASE inMap
      BY <1>3, <3>1, <3>2, DestroysCore DEF Queues
    <3>3. CASE ~inMap
      <4>0. CoreTypes /\ ChannelOK /\ StreamOK /\ ToldOnce
        BY DEF CoreInv
      <4>1. UNCHANGED <<state, told, events, added, index, fdOpen, wrClosed, out, room, wire, accepted, closer>>
        BY <3>1, <3>3 DEF channelVars, dataVars
      <4>2. state = "Disconnected"
        BY <3>3, <4>0 DEF ChannelOK
      <4>3. CoreTypes'
        BY <3>1, <4>0, <4>1 DEF CoreTypes
      <4>4. ChannelOK' /\ StreamOK' /\ ToldOnce'
        BY <4>0, <4>1, <4>2 DEF ChannelOK, StreamOK, ToldOnce
      <4> QED
        BY <1>3, <3>1, <4>1, <4>2, <4>3, <4>4 DEF Queues, CoreInv
    <3> QED
      BY <3>2, <3>3
  <2>5. CASE FunctorsDone
    <3>1. NoEffect /\ UNCHANGED sends /\ loopPc = "functors"
      BY <2>5 DEF FunctorsDone, callVars
    <3>2. CoreTypes /\ state # "Connecting"
      BY <1>0, <3>1 DEF CoreInv, LoopOK
    <3> QED
      BY <1>3, <3>1, <3>2, NothingDone
  <2> QED
    BY <2>1, <2>2, <2>3, <2>4, <2>5 DEF LoopCode
<1>5. LoopInv'
  <2>1. LoopOK' /\ CallsOK'
    BY <1>0, <1>1, <1>2, <1>4 DEF LoopOK, CallsOK
  <2> QED
    BY <1>0, <1>1, <1>2, <1>3, <1>4, <2>1, LoopKeeps DEF LoopTypes
<1> QED
  BY <1>1, <1>4, <1>5

\* A caller tests the state, and is about to queue a functor.
LEMMA CallKeeps ==
    ASSUME CoreInv, LoopInv, NEW c \in Callers, CallerSend(c) \/ CallerShutdown(c)
    PROVE  /\ CoreInv' /\ LoopInv'
           /\ UNCHANGED <<state, closer, accepted, pending, functor, owed>>
           /\ call[c] = None /\ \A d \in Callers : d # c => call'[d] = call[d] /\ sends'[d] = sends[d]
           /\ \/ /\ CallerSend(c) /\ sends[c] \in Nat /\ sends'[c] = sends[c] + 1
                 /\ call'[c] = Functor("send", c, sends[c] + 1)
              \/ CallerShutdown(c) /\ UNCHANGED sends /\ call'[c] = Functor("shutdown", c, 0) /\ owed[c] = None
<1>0. LoopTypes /\ LoopOK /\ DestroyOK /\ CallsOK
  BY DEF LoopInv
<1>1. PICK fn : Calls(c, fn) /\ \/ CallerSend(c) /\ fn = Functor("send", c, sends[c] + 1)
                                \/ CallerShutdown(c) /\ fn = Functor("shutdown", c, 0)
  BY DEF CallerSend, CallerShutdown
<1>2. /\ call[c] = None /\ call' = [call EXCEPT ![c] = fn] /\ NoEffect
      /\ UNCHANGED <<loopPc, revents, functor, inbox, fin, reset, owed>>
  BY <1>1 DEF Calls, peerVars
<1>3. CoreInv' /\ Queues /\ UNCHANGED <<state, closer, accepted, pending>>
  BY <1>2, NothingDone
<1>4. /\ call \in [Callers -> Functors \cup {None}] /\ sends \in [Senders -> 0..MaxSends]
      /\ c \in Senders /\ Callers \subseteq Senders /\ MaxSends \in Nat
  BY <1>0, SizesAssumption DEF LoopTypes, Senders
<1>5. /\ fn \in Functors /\ fn.by = c /\ fn.do \in {"send", "shutdown"}
      /\ sends' \in [Senders -> 0..MaxSends] /\ \A d \in Callers : d # c => sends'[d] = sends[d]
  <2>1. CASE CallerSend(c) /\ fn = Functor("send", c, sends[c] + 1)
    <3>1. sends[c] < MaxSends /\ sends' = [sends EXCEPT ![c] = @ + 1]
      BY <2>1 DEF CallerSend
    <3>2. sends[c] + 1 \in 0..MaxSends
      BY <1>4, <3>1, SMTT(30)
    <3>3. fn \in Functors /\ fn.by = c /\ fn.do \in {"send", "shutdown"}
      BY <1>4, <2>1, <3>2 DEF Functors, Functor
    <3> QED
      BY <1>4, <3>1, <3>2, <3>3
  <2>2. CASE CallerShutdown(c) /\ fn = Functor("shutdown", c, 0)
    BY <1>4, <2>2, SMTT(30) DEF Functors, Functor, CallerShutdown
  <2> QED
    BY <1>1, <2>1, <2>2
<1>6. call' \in [Callers -> Functors \cup {None}] /\ call'[c] = fn
      /\ \A d \in Callers : d # c => call'[d] = call[d]
  BY <1>2, <1>4, <1>5
<1>7. LoopOK' /\ CallsOK'
  BY <1>0, <1>2, <1>3, <1>5, <1>6, SMTT(30) DEF LoopOK, CallsOK
<1>8. LoopInv'
  BY <1>0, <1>2, <1>3, <1>5, <1>6, <1>7, LoopKeeps DEF LoopTypes
<1>9. CallerSend(c) => sends[c] \in Nat /\ sends'[c] = sends[c] + 1
  BY <1>4, SMTT(30) DEF CallerSend
<1>10. CallerShutdown(c) => UNCHANGED sends /\ owed[c] = None
  BY DEF CallerShutdown
<1> QED
  BY <1>1, <1>2, <1>3, <1>5, <1>6, <1>8, <1>9, <1>10

\* A caller's functor joins the queue.
LEMMA CallerQueueKeeps ==
    ASSUME CoreInv, LoopInv, NEW c \in Callers, NEW path \in Paths, CallerQueue(c, path)
    PROVE  /\ CoreInv' /\ LoopInv'
           /\ UNCHANGED <<state, closer, accepted, functor, sends>>
           /\ call[c] \in Functors /\ call[c] # None /\ call[c].by = c /\ call[c].do \in {"send", "shutdown"}
           /\ call'[c] = None /\ \A d \in Callers : d # c => call'[d] = call[d] /\ owed'[d] = owed[d]
           /\ owed'[c] = IF call[c].do = "shutdown" THEN sends[c] ELSE owed[c]
           /\ sends[c] \in Nat
           /\ Len(pending) \in Nat /\ DOMAIN pending = 1..Len(pending)
           /\ DOMAIN pending' = 1..(Len(pending) + 1)
           /\ \A k \in 1..Len(pending) : pending'[k] = pending[k]
           /\ pending'[Len(pending) + 1].fn = call[c]
<1>0. LoopTypes /\ LoopOK /\ DestroyOK /\ CallsOK
  BY DEF LoopInv
<1>1. /\ call[c] # None /\ call' = [call EXCEPT ![c] = None]
      /\ pending' = Append(pending, [fn |-> call[c], path |-> path])
      /\ owed' = IF call[c].do = "shutdown" THEN [owed EXCEPT ![c] = sends[c]] ELSE owed
      /\ UNCHANGED <<state, channelVars, fdOpen, wrClosed, serverVars, out, room, wire, accepted, told, closer>>
      /\ UNCHANGED <<inbox, fin, reset, loopPc, revents, functor, sends>>
  BY DEF CallerQueue, peerVars, dataVars
<1>2. CoreInv'
  <2>1. room' \in 0..Room
    BY <1>1 DEF CoreInv, CoreTypes
  <2> QED
    BY <1>1, <2>1, QuietCore
<1>3. /\ call \in [Callers -> Functors \cup {None}] /\ sends \in [Senders -> 0..MaxSends]
      /\ owed \in [Callers -> 0..MaxSends \cup {None}]
      /\ c \in Senders /\ MaxSends \in Nat
  BY <1>0, SizesAssumption DEF LoopTypes, Senders
<1>4. call[c] \in Functors /\ call[c].by = c /\ call[c].do \in {"send", "shutdown"} /\ sends[c] \in 0..MaxSends
  BY <1>0, <1>1, <1>3 DEF CallsOK
<1> DEFINE e == [fn |-> call[c], path |-> path]
<1>5. e \in Entry /\ e.fn = call[c]
  BY <1>4 DEF Entry
<1> HIDE DEF e
<1>6. /\ pending' \in Seq(Entry) /\ Len(pending) \in Nat /\ DOMAIN pending = 1..Len(pending)
      /\ DOMAIN pending' = 1..(Len(pending) + 1)
      /\ \A k \in 1..Len(pending) : pending'[k] = pending[k]
      /\ pending'[Len(pending) + 1] = e
  <2>1. pending \in Seq(Entry) /\ pending' = Append(pending, e)
    BY <1>0, <1>1 DEF LoopTypes, e
  <2> QED
    BY <1>5, <2>1, AppendProperties, SMTT(30)
<1>7. /\ call' \in [Callers -> Functors \cup {None}] /\ call'[c] = None
      /\ \A d \in Callers : d # c => call'[d] = call[d]
  BY <1>1, <1>3
<1>8. /\ owed' \in [Callers -> 0..MaxSends \cup {None}]
      /\ \A d \in Callers : d # c => owed'[d] = owed[d]
      /\ owed'[c] = IF call[c].do = "shutdown" THEN sends[c] ELSE owed[c]
  BY <1>1, <1>3, <1>4
<1>9. LoopTypes'
  BY <1>0, <1>1, <1>6, <1>7, <1>8 DEF LoopTypes
<1>10. LoopOK' /\ CallsOK'
  BY <1>0, <1>1, <1>7 DEF LoopOK, CallsOK
<1>11. DestroyOK'
  <2>1. ASSUME NEW k \in DOMAIN pending', pending'[k].fn.do = "destroy"
        PROVE  state = "Disconnected"
    <3>1. k \in 1..Len(pending) \/ k = Len(pending) + 1
      BY <1>6, SMTT(30)
    <3>2. k # Len(pending) + 1
      BY <1>4, <1>5, <1>6, <2>1
    <3>3. k \in DOMAIN pending /\ pending[k].fn.do = "destroy"
      BY <1>6, <2>1, <3>1, <3>2
    <3> QED
      BY <1>0, <3>3 DEF DestroyOK
  <2>2. functor' # None /\ functor'.do = "destroy" => state' = "Disconnected"
    BY <1>0, <1>1 DEF DestroyOK
  <2> QED
    BY <1>1, <2>1, <2>2 DEF DestroyOK
<1>12. LoopInv'
  BY <1>9, <1>10, <1>11 DEF LoopInv
<1>13. sends[c] \in Nat
  BY <1>3, <1>4, SMTT(30)
<1>14. pending'[Len(pending) + 1].fn = call[c]
  BY <1>5, <1>6
<1> QED
  BY <1>1, <1>2, <1>4, <1>6, <1>7, <1>8, <1>12, <1>13, <1>14

\* The peer and the kernel.
PeerStep == PeerSends \/ PeerCloses \/ PeerResets \/ PeerReads

LEMMA PeerKeeps ==
    ASSUME CoreInv, LoopInv, PeerStep
    PROVE  CoreInv' /\ LoopInv' /\ UNCHANGED <<state, closer, accepted, pending, functor, callVars>>
<1>0. LoopTypes /\ LoopOK /\ DestroyOK /\ CallsOK /\ CoreTypes
  BY DEF LoopInv, CoreInv
<1>1. /\ UNCHANGED <<state, channelVars, fdOpen, wrClosed, serverVars, out, wire, accepted, told, closer>>
      /\ UNCHANGED <<loopPc, revents, functor, pending, call, sends, owed>>
  BY DEF PeerStep, PeerSends, PeerCloses, PeerResets, PeerReads, Peer, callVars
<1>2. inbox' \in BOOLEAN /\ fin' \in BOOLEAN /\ reset' \in BOOLEAN /\ room' \in 0..Room
  <2>1. inbox' \in {inbox, TRUE} /\ fin' \in {fin, TRUE} /\ reset' \in {reset, TRUE}
    BY DEF PeerStep, PeerSends, PeerCloses, PeerResets, PeerReads, Peer, peerVars
  <2>2. room' \in {room, Room}
    BY DEF PeerStep, PeerSends, PeerCloses, PeerResets, PeerReads, Peer
  <2>3. room' \in 0..Room
    BY <1>0, <2>2, SizesAssumption, SMTT(30) DEF CoreTypes
  <2>4. inbox \in BOOLEAN /\ fin \in BOOLEAN /\ reset \in BOOLEAN
    BY <1>0 DEF LoopTypes
  <2> QED
    BY <2>1, <2>3, <2>4
<1>3. CoreInv'
  BY <1>1, <1>2, QuietCore
<1>4. LoopOK' /\ CallsOK' /\ Queues
  BY <1>0, <1>1 DEF LoopOK, CallsOK, Queues
<1>5. LoopInv'
  BY <1>0, <1>1, <1>2, <1>4, LoopKeeps DEF LoopTypes
<1> QED
  BY <1>1, <1>3, <1>5 DEF callVars

\* Every step is of one of these kinds.
LEMMA NextSplit ==
    Next <=> \/ LoopCode \/ Poll \/ Dispatch \/ RunFunctor \/ PeerStep
             \/ \E i \in DOMAIN pending : TakeFunctor(i)
             \/ \E c \in Callers : CallerSend(c) \/ CallerShutdown(c)
             \/ \E c \in Callers, path \in Paths : CallerQueue(c, path)
  BY DEF Next, LoopCode, PeerStep

\* A connection that newConnection() has just made.
LEMMA InitKeeps == Init => IndInv
<1> SUFFICES ASSUME Init PROVE CoreInv /\ LoopInv
  BY Parts
<1> USE DEF Init
<1>1. CoreTypes
  <2>1. room \in 0..Room /\ index \in {-1, 1, 2}
    BY SizesAssumption, SMTT(30)
  <2>2. <<>> \in Seq(Unit)
    BY EmptySeq
  <2>3. added \in BOOLEAN /\ fdOpen \in BOOLEAN /\ wrClosed \in BOOLEAN /\ inMap \in BOOLEAN /\ serverAlive \in BOOLEAN
    OBVIOUS
  <2> QED
    BY <2>1, <2>2, <2>3 DEF CoreTypes
<1>2. ChannelOK /\ ToldOnce
  BY SMTT(30) DEF ChannelOK, ToldOnce, Open
<1>3. StreamOK
  <2>1. <<>> \o <<>> = <<>>
    BY EmptySeq, ConcatEmptySeq
  <2> QED
    BY <2>1 DEF StreamOK
<1>4. LoopTypes
  <2>1. inbox \in BOOLEAN /\ fin \in BOOLEAN /\ reset \in BOOLEAN
    OBVIOUS
  <2>2. pending \in Seq(Entry)
    BY EmptySeq
  <2>3. call \in [Callers -> Functors \cup {None}] /\ owed \in [Callers -> 0..MaxSends \cup {None}]
    OBVIOUS
  <2>4. sends \in [Senders -> 0..MaxSends]
    BY SizesAssumption, SMTT(30)
  <2> QED
    BY <2>1, <2>2, <2>3, <2>4 DEF LoopTypes
<1>5. LoopOK /\ DestroyOK /\ CallsOK
  BY SMTT(30) DEF LoopOK, DestroyOK, CallsOK
<1> QED
  BY <1>1, <1>2, <1>3, <1>4, <1>5 DEF CoreInv, LoopInv

LEMMA StepKeeps == IndInv /\ [Next]_vars => IndInv'
<1> SUFFICES ASSUME CoreInv, LoopInv, [Next]_vars
             PROVE  CoreInv' /\ LoopInv'
  <2>1. IndInv' <=> CoreInv' /\ LoopInv'
    BY Parts, PTL
  <2> QED
    BY <2>1, Parts
<1>1. CASE UNCHANGED vars
  <2> USE <1>1 DEF vars, channelVars, serverVars, peerVars, dataVars, callVars
  <2>1. room' \in 0..Room
    BY DEF CoreInv, CoreTypes
  <2>2. CoreInv'
    BY <2>1, QuietCore
  <2>3. LoopTypes' /\ LoopOK' /\ DestroyOK' /\ CallsOK'
    BY DEF LoopInv, LoopTypes, LoopOK, DestroyOK, CallsOK
  <2> QED
    BY <2>2, <2>3 DEF LoopInv
<1>2. CASE Next
  BY <1>2, NextSplit, LoopCodeKeeps, PollKeeps, DispatchKeeps, RunKeeps, PeerKeeps, TakeKeeps, CallKeeps,
     CallerQueueKeeps
<1> QED
  BY <1>1, <1>2

-----------------------------------------------------------------------------
(* A caller's messages and its shutdown(), over one queue.                 *)

\* SendsAhead, one caller at a time.
Owes(c) ==
    /\ call[c] # None /\ call[c].do = "shutdown" => owed[c] = None
    /\ owed[c] = None =>
          /\ closer # c
          /\ functor # None => ~(functor.do = "shutdown" /\ functor.by = c)
          /\ \A k \in DOMAIN pending : ~(pending[k].fn.do = "shutdown" /\ pending[k].fn.by = c)
    /\ closer = c => \A i \in 1..owed[c] : Reached(c, i)
Kept(c) ==
    \A i \in 1..sends[c] :
       \/ Reached(c, i)
       \/ Functor("send", c, i) \in {functor, call[c]}
       \/ \E k \in DOMAIN pending : pending[k].fn = Functor("send", c, i)
Behind(c) ==
    /\ functor # None /\ functor.do = "shutdown" /\ functor.by = c =>
          \A i \in 1..owed[c] : Reached(c, i)
    /\ \A k \in DOMAIN pending :
          pending[k].fn.do = "shutdown" /\ pending[k].fn.by = c =>
              \A i \in 1..owed[c] :
                  \/ Reached(c, i)
                  \/ functor = Functor("send", c, i)
                  \/ \E j \in 1..(k - 1) : pending[j].fn = Functor("send", c, i)
Unclosed == state \in {"Connecting", "Connected"}
Ahead(c) == Owes(c) /\ (Unclosed => Kept(c) /\ Behind(c))

LEMMA AheadParts == SendsAhead <=> \A c \in Callers : Ahead(c)
  BY DEF SendsAhead, Ahead, Owes, Unclosed, Kept, Behind

\* What the connection has taken it keeps, and of a message it takes the end too.
LEMMA ReachedStays ==
    ASSUME accepted \in Seq(Unit), NEW m \in Seq(Unit), accepted' = accepted \o m
    PROVE  /\ \A c, i : Reached(c, i) => Reached(c, i)'
           /\ \A k \in 1..Len(m) : \E j \in DOMAIN accepted' : accepted'[j] = m[k]
<1>1. /\ Len(accepted) \in Nat /\ Len(m) \in Nat
      /\ DOMAIN accepted = 1..Len(accepted) /\ DOMAIN accepted' = 1..(Len(accepted) + Len(m))
      /\ \A k \in 1..Len(accepted) : accepted'[k] = accepted[k]
      /\ \A k \in 1..Len(m) : accepted'[Len(accepted) + k] = m[k]
  <2>1. /\ Len(accepted') = Len(accepted) + Len(m)
        /\ \A k \in 1..(Len(accepted) + Len(m)) :
              accepted'[k] = IF k <= Len(accepted) THEN accepted[k] ELSE m[k - Len(accepted)]
    BY ConcatProperties
  <2>2. accepted' \in Seq(Unit) /\ Len(accepted) \in Nat /\ Len(m) \in Nat
    BY ConcatProperties, LenProperties
  <2>3. DOMAIN accepted = 1..Len(accepted) /\ DOMAIN accepted' = 1..Len(accepted')
    BY <2>2, LenProperties
  <2> QED
    BY <2>1, <2>2, <2>3, SMTT(30)
<1>2. \A c, i : Reached(c, i) => Reached(c, i)'
  <2>1. DOMAIN accepted \subseteq DOMAIN accepted'
    BY <1>1, SMTT(30)
  <2> QED
    BY <1>1, <2>1 DEF Reached
<1>3. ASSUME NEW k \in 1..Len(m) PROVE \E j \in DOMAIN accepted' : accepted'[j] = m[k]
  <2>1. Len(accepted) + k \in DOMAIN accepted'
    BY <1>1, SMTT(30)
  <2> QED
    BY <1>1, <2>1
<1> QED
  BY <1>2, <1>3

\* A step that queues nothing of this caller's shutdown() adds to the queue only.
Gains(c) ==
    /\ DOMAIN pending \subseteq DOMAIN pending'
    /\ \A k \in DOMAIN pending : pending'[k] = pending[k]
    /\ \A k \in DOMAIN pending' \ DOMAIN pending :
          ~(pending'[k].fn.do = "shutdown" /\ pending'[k].fn.by = c)

LEMMA QueuesGain ==
    ASSUME LoopTypes, Queues, NEW c
    PROVE  Gains(c)
<1>1. CASE UNCHANGED pending
  BY <1>1 DEF Gains
<1>2. ASSUME NEW do \in {"notify", "destroy"}, Queue(do) PROVE Gains(c)
  <2>1. Functor(do, LoopThread, 0).do # "shutdown"
    BY DEF Functor
  <2> QED
    BY <1>2, <2>1, QueueGrows, SMTT(30) DEF Gains
<1> QED
  BY <1>1, <1>2 DEF Queues

\* The functor at hand may be done with, if it left its message with the
\* connection; a shutdown() that takes effect was the functor at hand.
LEMMA QuietAhead ==
    ASSUME LoopTypes, NEW c \in Callers, Ahead(c), Gains(c),
           call'[c] = call[c], owed'[c] = owed[c], sends'[c] = sends[c],
           functor' \in {functor, None},
           Unclosed' => Unclosed,
           \A i \in Nat : Reached(c, i) => Reached(c, i)',
           \A i \in Nat : Unclosed' /\ functor' # functor /\ functor = Functor("send", c, i) => Reached(c, i)',
           closer' = c => \/ closer = c
                          \/ functor # None /\ functor.do = "shutdown" /\ functor.by = c /\ Unclosed
    PROVE  Ahead(c)'
<1>1. /\ owed[c] \in 0..MaxSends \cup {None} /\ sends[c] \in 0..MaxSends /\ MaxSends \in Nat
      /\ Len(pending) \in Nat /\ DOMAIN pending = 1..Len(pending)
  BY SizesAssumption, SMTT(30) DEF LoopTypes, Senders
<1>2. Owes(c)'
  <2>1. owed[c] = None => closer' # c
    BY DEF Ahead, Owes
  <2>2. owed[c] = None /\ functor' # None => ~(functor'.do = "shutdown" /\ functor'.by = c)
    BY DEF Ahead, Owes
  <2>3. owed[c] = None => \A k \in DOMAIN pending' : ~(pending'[k].fn.do = "shutdown" /\ pending'[k].fn.by = c)
    BY DEF Ahead, Owes, Gains
  <2>4. ASSUME closer' = c, NEW i \in 1..owed[c] PROVE Reached(c, i)'
    <3>1. i \in Nat
      BY <1>1, <2>1, <2>4, SMTT(30)
    <3>2. Reached(c, i)
      BY <2>4 DEF Ahead, Owes, Behind
    <3> QED
      BY <3>1, <3>2
  <2>5. call[c] # None /\ call[c].do = "shutdown" => owed[c] = None
    BY DEF Ahead, Owes
  <2> QED
    BY <2>1, <2>2, <2>3, <2>4, <2>5 DEF Owes
<1>3. ASSUME Unclosed' PROVE Kept(c)'
  <2> SUFFICES ASSUME NEW i \in 1..sends[c]
               PROVE  \/ Reached(c, i)'
                      \/ Functor("send", c, i) \in {functor', call[c]}
                      \/ \E k \in DOMAIN pending' : pending'[k].fn = Functor("send", c, i)
    BY DEF Kept, Functor
  <2>1. i \in Nat
    BY <1>1, SMTT(30)
  <2>2. \/ Reached(c, i)
        \/ Functor("send", c, i) \in {functor, call[c]}
        \/ \E k \in DOMAIN pending : pending[k].fn = Functor("send", c, i)
    BY <1>3 DEF Ahead, Kept
  <2> QED
    BY <1>3, <2>1, <2>2 DEF Gains
<1>4. ASSUME Unclosed' PROVE Behind(c)'
  <2>0. Behind(c) /\ Owes(c)
    BY <1>4 DEF Ahead
  <2>1. ASSUME functor' # None, functor'.do = "shutdown", functor'.by = c, NEW i \in 1..owed[c]
        PROVE  Reached(c, i)'
    <3>1. functor # None /\ functor.do = "shutdown" /\ functor.by = c
      BY <2>1
    <3>2. owed[c] # None
      BY <2>0, <3>1 DEF Owes
    <3>3. Reached(c, i)
      BY <2>0, <2>1, <3>1 DEF Behind
    <3> QED
      BY <1>1, <3>2, <3>3, SMTT(30)
  <2>2. ASSUME NEW k \in DOMAIN pending', pending'[k].fn.do = "shutdown", pending'[k].fn.by = c,
               NEW i \in 1..owed[c]
        PROVE  \/ Reached(c, i)'
               \/ functor' = Functor("send", c, i)
               \/ \E j \in 1..(k - 1) : pending'[j].fn = Functor("send", c, i)
    <3>1. k \in DOMAIN pending /\ pending'[k] = pending[k]
      BY <2>2 DEF Gains
    <3>2. pending[k].fn.do = "shutdown" /\ pending[k].fn.by = c
      BY <2>2, <3>1
    <3>3. owed[c] # None
      BY <2>0, <3>1, <3>2 DEF Owes
    <3>4. i \in Nat
      BY <1>1, <3>3, SMTT(30)
    <3>5. \/ Reached(c, i)
          \/ functor = Functor("send", c, i)
          \/ \E j \in 1..(k - 1) : pending[j].fn = Functor("send", c, i)
      BY <2>0, <2>2, <3>1, <3>2 DEF Behind
    <3>6. CASE Reached(c, i)
      BY <3>4, <3>6
    <3>7. CASE functor = Functor("send", c, i)
      BY <1>4, <3>4, <3>7
    <3>8. CASE \E j \in 1..(k - 1) : pending[j].fn = Functor("send", c, i)
      <4>1. PICK j \in 1..(k - 1) : pending[j].fn = Functor("send", c, i)
        BY <3>8
      <4>2. j \in DOMAIN pending
        BY <1>1, <3>1, SMTT(30)
      <4>3. pending'[j].fn = Functor("send", c, i)
        BY <4>1, <4>2 DEF Gains
      <4> QED
        BY <4>3
    <3> QED
      BY <3>5, <3>6, <3>7, <3>8
  <2> QED
    BY <2>1, <2>2 DEF Behind, Functor
<1> QED
  BY <1>2, <1>3, <1>4 DEF Ahead

\* The code of the loop thread other than its functors, and the peer's steps.
LEMMA OthersAhead ==
    ASSUME CoreInv, LoopInv, NEW c \in Callers, Ahead(c), LoopCode \/ Poll \/ Dispatch \/ PeerStep
    PROVE  Ahead(c)'
<1>0. LoopTypes /\ accepted \in Seq(Unit) /\ LoopThread \in Senders /\ c # LoopThread
      /\ state \in {"Connecting", "Connected", "Disconnecting", "Disconnected"}
  BY LoopThreadAssumption DEF LoopInv, CoreInv, CoreTypes, Senders
<1>1. /\ Queues /\ UNCHANGED <<functor, call, owed>> /\ sends'[c] = sends[c]
      /\ closer' \in {closer, LoopThread}
      /\ Unclosed' => Unclosed
      /\ \/ accepted' = accepted
         \/ \E i \in Nat : accepted' = accepted \o Message(LoopThread, i)
  <2>1. CASE LoopCode
    BY <2>1, LoopCodeKeeps DEF Unclosed
  <2>2. CASE Poll
    BY <2>2, PollKeeps DEF Queues, callVars, Unclosed
  <2>3. CASE Dispatch
    BY <2>3, DispatchKeeps DEF callVars, Unclosed
  <2>4. CASE PeerStep
    BY <2>4, PeerKeeps DEF Queues, callVars, Unclosed
  <2> QED
    BY <2>1, <2>2, <2>3, <2>4
<1>2. \A i \in Nat : Reached(c, i) => Reached(c, i)'
  <2>1. CASE accepted' = accepted
    BY <2>1 DEF Reached
  <2>2. ASSUME NEW i \in Nat, accepted' = accepted \o Message(LoopThread, i)
        PROVE  \A k \in Nat : Reached(c, k) => Reached(c, k)'
    <3>1. Message(LoopThread, i) \in Seq(Unit)
      BY <1>0, MessageUnits
    <3> QED
      BY <1>0, <2>2, <3>1, ReachedStays
  <2> QED
    BY <1>1, <2>1, <2>2
<1>3. Gains(c)
  BY <1>0, <1>1, QueuesGain
<1> QED
  BY <1>0, <1>1, <1>2, <1>3, QuietAhead

\* A functor of send() leaves its message with the connection or closes it.
LEMMA RunAhead ==
    ASSUME CoreInv, LoopInv, NEW c \in Callers, Ahead(c), RunFunctor
    PROVE  Ahead(c)'
<1>0. /\ LoopTypes /\ accepted \in Seq(Unit) /\ c \in Senders /\ MaxSends \in Nat
      /\ None \notin Functors
  BY SizesAssumption, NoneAssumption DEF LoopInv, CoreInv, CoreTypes, Senders
<1>1. /\ Queues /\ functor' = None /\ functor \in Functors
      /\ UNCHANGED <<call, sends, owed>>
  BY RunKeeps DEF callVars
<1>2. functor.by \in Senders /\ functor.i \in Nat /\ functor # None
  BY <1>0, <1>1, SMTT(30) DEF Functors
<1>3. Gains(c)
  BY <1>0, <1>1, QueuesGain
<1>4. ASSUME functor.do = "send", state = "Connected", Sent(Message(functor.by, functor.i))
      PROVE  Ahead(c)'
  <2>1. UNCHANGED closer
    BY <1>4 DEF Sent
  <2>2. CASE state' = "Connected" /\ accepted' = accepted \o Message(functor.by, functor.i)
    <3>1. /\ Message(functor.by, functor.i) \in Seq(Unit)
          /\ Len(Message(functor.by, functor.i)) = Size /\ Size \in Nat \ {0}
          /\ Message(functor.by, functor.i)[Size] = <<functor.by, functor.i, Size>>
      BY <1>2, MessageUnits
    <3>2. Size \in 1..Len(Message(functor.by, functor.i))
      BY <3>1, SMTT(30)
    <3>3. \E j \in DOMAIN accepted' : accepted'[j] = <<functor.by, functor.i, Size>>
      <4>1. PICK m \in Seq(Unit) : m = Message(functor.by, functor.i)
        BY <3>1
      <4>2. accepted' = accepted \o m /\ Size \in 1..Len(m) /\ m[Size] = <<functor.by, functor.i, Size>>
        BY <2>2, <3>1, <3>2, <4>1
      <4>3. \A k \in 1..Len(m) : \E j \in DOMAIN accepted' : accepted'[j] = m[k]
        BY <1>0, <4>2, ReachedStays
      <4> QED
        BY <4>2, <4>3
    <3>4. \A i \in Nat : Reached(c, i) => Reached(c, i)'
      BY <1>0, <2>2, <3>1, ReachedStays
    <3>5. ASSUME NEW i \in Nat, functor = Functor("send", c, i) PROVE Reached(c, i)'
      <4>1. functor.by = c /\ functor.i = i
        BY <3>5 DEF Functor
      <4> QED
        BY <3>3, <4>1 DEF Reached
    <3>6. Unclosed
      BY <1>4 DEF Unclosed
    <3> QED
      BY <1>0, <1>1, <1>3, <2>1, <3>4, <3>5, <3>6, QuietAhead
  <2>3. CASE state' = "Disconnected" /\ accepted' = accepted
    <3>1. ~Unclosed'
      BY <2>3 DEF Unclosed
    <3>2. \A i \in Nat : Reached(c, i) => Reached(c, i)'
      BY <2>3 DEF Reached
    <3> QED
      BY <1>0, <1>1, <1>3, <2>1, <3>1, <3>2, QuietAhead
  <2> QED
    BY <1>4, <2>2, <2>3 DEF Sent
<1>5. ASSUME UNCHANGED accepted, Unclosed' => Unclosed,
             Unclosed' => functor.do # "send",
             \/ UNCHANGED closer
             \/ functor.do = "shutdown" /\ Unclosed /\ closer' = functor.by
      PROVE  Ahead(c)'
  <2>1. \A i \in Nat : Reached(c, i) => Reached(c, i)'
    BY <1>5 DEF Reached
  <2>2. \A i \in Nat : functor = Functor("send", c, i) => functor.do = "send"
    BY SMTT(30) DEF Functor
  <2>3. closer' = c => closer = c \/ (functor.do = "shutdown" /\ functor.by = c /\ Unclosed)
    BY <1>5
  <2> QED
    BY <1>0, <1>1, <1>2, <1>3, <1>5, <2>1, <2>2, <2>3, QuietAhead
<1>6. state \in {"Connecting", "Connected", "Disconnecting", "Disconnected"}
  BY DEF CoreInv, CoreTypes
<1>7. CASE functor.do = "shutdown" /\ state = "Connected" /\ state' = "Disconnecting"
           /\ closer' = functor.by /\ UNCHANGED accepted
  BY <1>5, <1>7 DEF Unclosed
<1>8. CASE functor.do \in {"send", "shutdown"} /\ state # "Connected" /\ UNCHANGED <<state, closer, accepted>>
  BY <1>5, <1>6, <1>8, RunKeeps DEF Unclosed
<1>9. CASE functor.do = "destroy" /\ state' = "Disconnected" /\ UNCHANGED <<closer, accepted>>
  BY <1>5, <1>9 DEF Unclosed
<1>10. CASE functor.do = "notify" /\ UNCHANGED <<state, closer, accepted>>
  BY <1>5, <1>10 DEF Unclosed
<1> QED
  BY <1>4, <1>7, <1>8, <1>9, <1>10, RunKeeps

\* Functors of callers differ from None, and so from a caller without a call.
LEMMA SendFunctor ==
    ASSUME NEW c \in Callers, NEW i \in 0..MaxSends
    PROVE  Functor("send", c, i) # None /\ Functor("send", c, i).do = "send" /\ Functor("send", c, i).by = c
  BY NoneAssumption, SMTT(30) DEF Functor, Functors, Senders

LEMMA Within ==
    ASSUME NEW n \in Nat, NEW m \in 0..n, NEW i \in 1..m
    PROVE  i \in 0..n
  BY SMTT(30)

\* A caller starts a call: its shutdown() comes once, its send() is one to keep.
LEMMA CallAhead ==
    ASSUME CoreInv, LoopInv, NEW c \in Callers, NEW d \in Callers, Ahead(d),
           CallerSend(c) \/ CallerShutdown(c)
    PROVE  Ahead(d)'
<1>0. LoopTypes /\ UNCHANGED <<state, closer, accepted, pending, functor, owed>>
  BY CallKeeps DEF LoopInv
<1>1. CASE d # c
  <2>1. call'[d] = call[d] /\ sends'[d] = sends[d] /\ owed'[d] = owed[d]
    BY <1>0, <1>1, CallKeeps
  <2>2. (\A i \in Nat : Reached(d, i) => Reached(d, i)') /\ (Unclosed' => Unclosed) /\ Gains(d)
    BY <1>0 DEF Reached, Unclosed, Gains
  <2> QED
    BY <1>0, <2>1, <2>2, QuietAhead
<1>2. CASE d = c
  <2>0. call[c] = None /\ Owes(c) /\ sends[c] \in 0..MaxSends /\ sends'[c] \in 0..MaxSends /\ MaxSends \in Nat
    <3>1. LoopTypes'
      BY CallKeeps DEF LoopInv
    <3> QED
      BY <1>0, <1>2, <3>1, CallKeeps, SizesAssumption DEF Ahead, LoopTypes, Senders
  <2>1. call'[c] # None /\ call'[c].do = "shutdown" => owed[c] = None
    <3>1. Functor("send", c, sends[c] + 1).do # "shutdown"
      BY DEF Functor
    <3> QED
      BY <3>1, CallKeeps
  <2>2. Owes(c)'
    BY <1>0, <2>0, <2>1 DEF Owes, Reached
  <2>3. ASSUME Unclosed' PROVE Behind(c)'
    BY <1>0, <1>2, <2>3 DEF Ahead, Behind, Reached, Unclosed, Functor
  <2>4. ASSUME Unclosed' PROVE Kept(c)'
    <3> SUFFICES ASSUME NEW i \in 1..sends'[c]
                 PROVE  \/ Reached(c, i)
                        \/ Functor("send", c, i) \in {functor, call'[c]}
                        \/ \E k \in DOMAIN pending : pending[k].fn = Functor("send", c, i)
      BY <1>0 DEF Kept, Reached, Functor
    <3>1. Kept(c)
      BY <1>0, <1>2, <2>4 DEF Ahead, Unclosed
    <3>2. CASE i \in 1..sends[c]
      BY <2>0, <3>1, <3>2, SendFunctor, SMTT(30) DEF Kept
    <3>3. CASE i \notin 1..sends[c]
      <4>1. sends'[c] # sends[c]
        BY <3>3
      <4>2. /\ sends[c] \in Nat /\ sends'[c] = sends[c] + 1
            /\ call'[c] = Functor("send", c, sends[c] + 1)
        BY <4>1, CallKeeps
      <4>3. i = sends[c] + 1
        BY <3>3, <4>2, SMTT(30)
      <4> QED
        BY <4>2, <4>3
    <3> QED
      BY <3>2, <3>3
  <2> QED
    BY <1>2, <2>2, <2>3, <2>4 DEF Ahead
<1> QED
  BY <1>1, <1>2

\* A caller's functor joins the queue, a shutdown() behind what was sent before.
LEMMA QueueAhead ==
    ASSUME CoreInv, LoopInv, NEW c \in Callers, NEW path \in Paths, CallerQueue(c, path),
           NEW d \in Callers, Ahead(d)
    PROVE  Ahead(d)'
<1>0. LoopTypes /\ UNCHANGED <<state, closer, accepted, functor, sends>>
  BY CallerQueueKeeps DEF LoopInv
<1>1. /\ Len(pending) \in Nat /\ DOMAIN pending = 1..Len(pending)
      /\ DOMAIN pending' = 1..(Len(pending) + 1)
      /\ \A k \in 1..Len(pending) : pending'[k] = pending[k]
      /\ pending'[Len(pending) + 1].fn = call[c] /\ call[c].by = c
  BY CallerQueueKeeps
<1>2. CASE d # c
  <2>0. \A b \in Callers : b # c => call'[b] = call[b] /\ owed'[b] = owed[b]
    BY CallerQueueKeeps
  <2>1. call'[d] = call[d] /\ sends'[d] = sends[d] /\ owed'[d] = owed[d]
    BY <1>0, <1>2, <2>0
  <2>2. Gains(d)
    <3>1. \A n \in Nat : 1..n \subseteq 1..(n + 1) /\ \A k \in 1..(n + 1) : k \in 1..n \/ k = n + 1
      BY SMTT(30)
    <3>2. /\ DOMAIN pending \subseteq DOMAIN pending'
          /\ \A k \in DOMAIN pending' : k \in DOMAIN pending \/ k = Len(pending) + 1
      BY <1>1, <3>1
    <3> QED
      BY <1>1, <1>2, <3>2 DEF Gains
  <2>3. (\A i \in Nat : Reached(d, i) => Reached(d, i)') /\ (Unclosed' => Unclosed)
    BY <1>0 DEF Reached, Unclosed
  <2> QED
    BY <1>0, <2>1, <2>2, <2>3, QuietAhead
<1>3. CASE d = c /\ call[c].do = "send"
  <2>0. /\ Owes(c) /\ owed'[c] = owed[c] /\ sends'[c] = sends[c] /\ call'[c] = None
        /\ MaxSends \in Nat /\ sends[c] \in 0..MaxSends /\ owed[c] \in 0..MaxSends \cup {None}
    BY <1>0, <1>3, CallerQueueKeeps, SizesAssumption DEF Ahead, LoopTypes, Senders
  <2>1. Gains(c)
    BY <1>1, <1>3, SMTT(30) DEF Gains
  <2>2. Owes(c)'
    BY <1>0, <2>0, <2>1 DEF Owes, Gains, Reached
  <2>3. ASSUME Unclosed' PROVE Kept(c)'
    <3> SUFFICES ASSUME NEW i \in 1..sends[c]
                 PROVE  \/ Reached(c, i)
                        \/ Functor("send", c, i) = functor
                        \/ \E k \in DOMAIN pending' : pending'[k].fn = Functor("send", c, i)
      BY <1>0, <2>0 DEF Kept, Reached, Functor
    <3>1. Kept(c)
      BY <1>0, <1>3, <2>3 DEF Ahead, Unclosed
    <3>2. CASE call[c] = Functor("send", c, i)
      <4>1. Len(pending) + 1 \in DOMAIN pending'
        BY <1>1, SMTT(30)
      <4> QED
        BY <1>1, <3>2, <4>1
    <3> QED
      BY <1>1, <3>1, <3>2, SMTT(30) DEF Kept
  <2>4. ASSUME Unclosed' PROVE Behind(c)'
    <3>1. Behind(c)
      BY <1>0, <1>3, <2>4 DEF Ahead, Unclosed
    <3>2. ASSUME NEW k \in DOMAIN pending', pending'[k].fn.do = "shutdown", pending'[k].fn.by = c,
                 NEW i \in 1..owed[c]
          PROVE  \/ Reached(c, i)
                 \/ functor = Functor("send", c, i)
                 \/ \E j \in 1..(k - 1) : pending'[j].fn = Functor("send", c, i)
      <4>1. k \in 1..Len(pending) /\ pending'[k] = pending[k]
        BY <1>1, <1>3, <3>2, SMTT(30)
      <4>2. \A j \in 1..(k - 1) : pending'[j] = pending[j]
        BY <1>1, <4>1, SMTT(30)
      <4>3. \/ Reached(c, i)
            \/ functor = Functor("send", c, i)
            \/ \E j \in 1..(k - 1) : pending[j].fn = Functor("send", c, i)
        BY <1>1, <3>1, <3>2, <4>1 DEF Behind
      <4> QED
        BY <4>2, <4>3
    <3> QED
      BY <1>0, <2>0, <3>1, <3>2 DEF Behind, Reached, Functor
  <2> QED
    BY <1>3, <2>2, <2>3, <2>4 DEF Ahead
<1>4. CASE d = c /\ call[c].do = "shutdown"
  <2>0. /\ Owes(c) /\ call[c] # None /\ owed'[c] = sends[c] /\ sends'[c] = sends[c] /\ call'[c] = None
        /\ MaxSends \in Nat /\ sends[c] \in 0..MaxSends /\ None \notin Nat
    BY <1>0, <1>4, CallerQueueKeeps, SizesAssumption, NoneAssumption DEF Ahead, LoopTypes, Senders
  <2>1. /\ owed'[c] # None /\ closer # c
        /\ functor # None => ~(functor.do = "shutdown" /\ functor.by = c)
        /\ \A k \in DOMAIN pending : ~(pending[k].fn.do = "shutdown" /\ pending[k].fn.by = c)
    BY <1>4, <2>0, SMTT(30) DEF Owes
  <2>2. Owes(c)'
    BY <1>0, <2>0, <2>1 DEF Owes
  <2>3. ASSUME Unclosed', NEW i \in 1..sends[c]
        PROVE  \/ Reached(c, i)
               \/ Functor("send", c, i) = functor
               \/ \E k \in 1..Len(pending) : pending'[k].fn = Functor("send", c, i)
    <3>1. Kept(c)
      BY <1>0, <1>4, <2>3 DEF Ahead, Unclosed
    <3>2. i \in 0..MaxSends
      BY <2>0, Within
    <3>3. call[c] # Functor("send", c, i)
      BY <1>4, <3>2, SendFunctor
    <3> QED
      BY <1>1, <3>1, <3>3 DEF Kept
  <2>4. ASSUME Unclosed' PROVE Kept(c)'
    <3>1. 1..Len(pending) \subseteq DOMAIN pending'
      BY <1>1, SMTT(30)
    <3> QED
      BY <1>0, <2>0, <2>3, <2>4, <3>1 DEF Kept, Reached, Functor
  <2>5. ASSUME Unclosed' PROVE Behind(c)'
    <3>1. ASSUME NEW k \in DOMAIN pending', pending'[k].fn.do = "shutdown", pending'[k].fn.by = c
          PROVE  k - 1 = Len(pending)
      <4>1. (k \in DOMAIN pending /\ pending'[k] = pending[k]) \/ k = Len(pending) + 1
        BY <1>1, SMTT(30)
      <4>2. k = Len(pending) + 1
        BY <2>1, <3>1, <4>1
      <4> QED
        BY <1>1, <4>2, SMTT(30)
    <3>2. ASSUME NEW k \in DOMAIN pending', pending'[k].fn.do = "shutdown", pending'[k].fn.by = c,
                 NEW i \in 1..sends[c]
          PROVE  \/ Reached(c, i)
                 \/ functor = Functor("send", c, i)
                 \/ \E j \in 1..(k - 1) : pending'[j].fn = Functor("send", c, i)
      BY <2>3, <2>5, <3>1, <3>2
    <3>3. /\ owed'[c] = sends[c] /\ UNCHANGED <<accepted, functor>>
          /\ functor # None => ~(functor.do = "shutdown" /\ functor.by = c)
      BY <1>0, <2>0, <2>1
    <3> QED
      BY <3>2, <3>3 DEF Behind, Reached, Functor
  <2> QED
    BY <1>4, <2>2, <2>4, <2>5 DEF Ahead
<1> QED
  BY <1>2, <1>3, <1>4, CallerQueueKeeps

\* Functors are taken in the order in which they came, when there is one queue.
LEMMA TakeAhead ==
    ASSUME CoreInv, LoopInv, \A p, q \in Paths : p = q,
           NEW n \in DOMAIN pending, TakeFunctor(n), NEW c \in Callers, Ahead(c)
    PROVE  Ahead(c)'
<1>0. /\ LoopTypes /\ UNCHANGED <<state, closer, accepted, call, sends, owed>> /\ functor = None
      /\ functor' = pending[n].fn /\ functor' # None
      /\ Len(pending) \in Nat /\ DOMAIN pending = 1..Len(pending)
      /\ DOMAIN pending' = 1..(Len(pending) - 1)
      /\ \A k \in 1..(Len(pending) - 1) : pending'[k] = pending[IF k < n THEN k ELSE k + 1]
  BY TakeKeeps DEF LoopInv, callVars
<1>1. n = 1
  <2>1. \A k \in DOMAIN pending : pending[k].path \in Paths
    <3>1. pending \in Seq(Entry)
      BY <1>0 DEF LoopTypes
    <3>2. \A k \in DOMAIN pending : pending[k] \in Entry
      BY <1>0, <3>1, ElementOfSeq
    <3> QED
      BY <3>2 DEF Entry
  <2>2. NextOnPath(n)
    BY DEF TakeFunctor
  <2> QED
    BY <1>0, <2>1, <2>2, SMTT(30) DEF NextOnPath
<1>2. /\ functor' = pending[1].fn /\ 1 \in DOMAIN pending
      /\ \A k \in DOMAIN pending' : k + 1 \in DOMAIN pending /\ pending'[k] = pending[k + 1]
      /\ \A k \in DOMAIN pending : k # 1 => k - 1 \in DOMAIN pending' /\ pending'[k - 1] = pending[k]
  <2>0. /\ Len(pending) \in Nat /\ DOMAIN pending = 1..Len(pending)
        /\ DOMAIN pending' = 1..(Len(pending) - 1)
    BY <1>0
  <2>1. ASSUME NEW k \in DOMAIN pending'
        PROVE  k + 1 \in DOMAIN pending /\ pending'[k] = pending[k + 1]
    <3>1. k \in 1..(Len(pending) - 1) /\ k + 1 \in DOMAIN pending /\ ~(k < 1)
      BY <2>0, SMTT(30)
    <3> QED
      BY <1>0, <1>1, <3>1
  <2>2. ASSUME NEW k \in DOMAIN pending, k # 1
        PROVE  k - 1 \in DOMAIN pending' /\ pending'[k - 1] = pending[k]
    <3>1. k - 1 \in DOMAIN pending' /\ (k - 1) + 1 = k
      BY <2>0, <2>2, SMTT(30)
    <3> QED
      BY <2>1, <3>1
  <2> QED
    BY <1>0, <1>1, <2>1, <2>2
<1>3. /\ MaxSends \in Nat /\ sends[c] \in 0..MaxSends /\ owed[c] \in 0..MaxSends \cup {None} /\ Owes(c)
  BY <1>0, SizesAssumption DEF LoopTypes, Senders, Ahead
<1>4. Owes(c)'
  <2>1. ASSUME owed[c] = None
        PROVE  /\ ~(functor'.do = "shutdown" /\ functor'.by = c)
               /\ \A k \in DOMAIN pending' :
                     ~(pending'[k].fn.do = "shutdown" /\ pending'[k].fn.by = c)
    <3>1. \A k \in DOMAIN pending : ~(pending[k].fn.do = "shutdown" /\ pending[k].fn.by = c)
      BY <1>3, <2>1 DEF Owes
    <3> QED
      BY <1>2, <3>1
  <2> QED
    BY <1>0, <1>3, <2>1 DEF Owes, Reached
<1>5. ASSUME Unclosed' PROVE Kept(c)'
  <2> SUFFICES ASSUME NEW i \in 1..sends[c]
               PROVE  \/ Reached(c, i)
                      \/ Functor("send", c, i) \in {functor', call[c]}
                      \/ \E k \in DOMAIN pending' : pending'[k].fn = Functor("send", c, i)
    BY <1>0 DEF Kept, Reached, Functor
  <2>1. Kept(c)
    BY <1>0, <1>5 DEF Ahead, Unclosed
  <2>2. functor # Functor("send", c, i)
    <3>1. i \in 0..MaxSends
      BY <1>3, SMTT(30)
    <3> QED
      BY <1>0, <3>1, SendFunctor
  <2>3. ASSUME NEW k \in DOMAIN pending, pending[k].fn = Functor("send", c, i)
        PROVE  \/ Functor("send", c, i) = functor'
               \/ \E j \in DOMAIN pending' : pending'[j].fn = Functor("send", c, i)
    BY <1>2, <2>3, SMTT(30)
  <2> QED
    BY <2>1, <2>2, <2>3 DEF Kept
<1>6. ASSUME Unclosed' PROVE Behind(c)'
  <2>0. Behind(c)
    BY <1>0, <1>6 DEF Ahead, Unclosed
  <2>1. ASSUME NEW k \in DOMAIN pending, pending[k].fn.do = "shutdown", pending[k].fn.by = c,
               NEW i \in 1..owed[c]
        PROVE  Reached(c, i) \/ \E j \in 1..(k - 1) : pending[j].fn = Functor("send", c, i)
    <3>1. owed[c] # None
      BY <1>3, <2>1 DEF Owes
    <3>2. i \in 0..MaxSends
      BY <1>3, <3>1, SMTT(30)
    <3>3. functor # Functor("send", c, i)
      BY <1>0, <3>2, SendFunctor
    <3> QED
      BY <2>0, <2>1, <3>3 DEF Behind
  <2>2. ASSUME functor'.do = "shutdown", functor'.by = c, NEW i \in 1..owed[c]
        PROVE  Reached(c, i)
    <3>1. Reached(c, i) \/ \E j \in 1..(1 - 1) : pending[j].fn = Functor("send", c, i)
      BY <1>2, <2>1, <2>2
    <3>2. 1..(1 - 1) = {}
      BY SMTT(30)
    <3> QED
      BY <3>1, <3>2
  <2>3. ASSUME NEW k \in DOMAIN pending', pending'[k].fn.do = "shutdown", pending'[k].fn.by = c,
               NEW i \in 1..owed[c]
        PROVE  \/ Reached(c, i)
               \/ functor' = Functor("send", c, i)
               \/ \E j \in 1..(k - 1) : pending'[j].fn = Functor("send", c, i)
    <3>0. k \in Nat /\ (k + 1) - 1 = k /\ 1..k \subseteq DOMAIN pending
      <4>1. Len(pending) \in Nat /\ k \in 1..(Len(pending) - 1) /\ DOMAIN pending = 1..Len(pending)
        BY <1>0
      <4> QED
        BY <4>1, SMTT(30)
    <3>1. k + 1 \in DOMAIN pending /\ pending[k + 1].fn.do = "shutdown" /\ pending[k + 1].fn.by = c
      BY <1>2, <2>3
    <3>2. CASE Reached(c, i)
      BY <3>2
    <3>3. CASE ~Reached(c, i)
      <4>1. PICK j \in 1..k : pending[j].fn = Functor("send", c, i)
        <5>1. \E j \in 1..((k + 1) - 1) : pending[j].fn = Functor("send", c, i)
          BY <2>1, <3>1, <3>3
        <5> QED
          BY <3>0, <5>1
      <4>2. CASE j = 1
        BY <1>2, <4>1, <4>2
      <4>3. CASE j # 1
        <5>1. j \in DOMAIN pending /\ j - 1 \in 1..(k - 1)
          BY <3>0, <4>3, SMTT(30)
        <5> QED
          BY <1>2, <4>1, <4>3, <5>1
      <4> QED
        BY <4>2, <4>3
    <3> QED
      BY <3>2, <3>3
  <2> QED
    BY <1>0, <2>2, <2>3 DEF Behind, Reached, Functor
<1> QED
  BY <1>4, <1>5, <1>6 DEF Ahead

-----------------------------------------------------------------------------
(* The theorems.                                                           *)

\* The inductive invariant, whatever the callers, the peer, the kernel and the
\* choice of queue do.
THEOREM IndInvHolds == Spec => []IndInv
  BY InitKeeps, StepKeeps, PTL DEF Spec

\* The connection's state, its channel and poller, the server's map and what the
\* user was told always agree: the assertions of handleClose(), removeChannel()
\* and removeConnectionInLoop() hold.
THEOREM StateAgreesHolds == Spec => []StateAgrees
<1>1. IndInv => StateAgrees
  BY DEF IndInv
<1> QED
  BY <1>1, IndInvHolds, PTL

\* What has been written, followed by what waits in the output buffer, is what
\* sendInLoop() has taken, for messages, kernel buffers and high water marks of
\* every size; the write side is shut down only with no output left.
THEOREM StreamIntactHolds == Spec => []StreamIntact
<1>1. IndInv => StreamIntact
  BY DEF IndInv
<1> QED
  BY <1>1, IndInvHolds, PTL

\* A caller's shutdown() shuts down the write side only after all that this caller
\* had sent before it, as long as every functor goes over one of queueInLoop()'s
\* two queues; with both in use it does not.
THEOREM ShutdownFlushesSendsHolds ==
    ASSUME \A p, q \in Paths : p = q
    PROVE  Spec => []ShutdownFlushesSends
<1>1. Init => SendsAhead
  <2>1. ASSUME Init, NEW c \in Callers PROVE Ahead(c)
    <3>1. /\ call[c] = None /\ owed[c] = None /\ sends[c] = 0 /\ functor = None /\ closer = None
          /\ DOMAIN pending = {} /\ c # None
      <4>1. c \in Senders /\ c # None
        BY NoneAssumption DEF Senders
      <4>2. pending = <<>> /\ DOMAIN <<>> = {}
        BY <2>1, SMTT(30) DEF Init
      <4> QED
        BY <2>1, <4>1, <4>2 DEF Init
    <3>2. 1..0 = {}
      BY SMTT(30)
    <3> QED
      BY <3>1, <3>2 DEF Ahead, Owes, Kept, Behind
  <2> QED
    BY <2>1, AheadParts
<1>2. IndInv /\ SendsAhead /\ [Next]_vars => SendsAhead'
  <2> SUFFICES ASSUME CoreInv, LoopInv, [Next]_vars, NEW c \in Callers, Ahead(c)
               PROVE  Ahead(c)'
    <3>1. SendsAhead' <=> \A c \in Callers : Ahead(c)'
      BY DEF SendsAhead, Ahead, Owes, Unclosed, Kept, Behind
    <3> QED
      BY <3>1, AheadParts, Parts
  <2>1. CASE UNCHANGED vars
    <3>1. UNCHANGED <<state, closer, accepted, pending, functor, call, sends, owed>>
      BY <2>1 DEF vars, callVars, dataVars
    <3>2. Owes(c) => Owes(c)'
      BY <3>1 DEF Owes, Reached
    <3>3. Kept(c) => Kept(c)'
      BY <3>1 DEF Kept, Reached, Functor
    <3>4. Behind(c) => Behind(c)'
      BY <3>1 DEF Behind, Reached, Functor
    <3>5. Unclosed' => Unclosed
      BY <3>1 DEF Unclosed
    <3> QED
      BY <3>2, <3>3, <3>4, <3>5 DEF Ahead
  <2>2. CASE Next
    BY <2>2, NextSplit, OthersAhead, RunAhead, CallAhead, QueueAhead, TakeAhead
  <2> QED
    BY <2>1, <2>2
<1>3. IndInv /\ SendsAhead => ShutdownFlushesSends
  <2> SUFFICES ASSUME IndInv, SendsAhead, closer \in Callers, wrClosed
               PROVE  \A i \in 1..owed[closer] : \E k \in DOMAIN wire : wire[k] = <<closer, i, Size>>
    BY DEF ShutdownFlushesSends
  <2>1. wire = accepted
    <3>1. CoreInv
      BY Parts
    <3>2. wire \in Seq(Unit) /\ wire \o out = accepted /\ out = <<>>
      BY <3>1 DEF CoreInv, CoreTypes, StreamOK
    <3> QED
      BY <3>2, ConcatEmptySeq
  <2> QED
    BY <2>1 DEF SendsAhead, Reached
<1> QED
  BY <1>1, <1>2, <1>3, IndInvHolds, PTL DEF Spec
=============================================================================
