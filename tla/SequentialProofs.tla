-------------------------- MODULE SequentialProofs --------------------------
(* Proofs about the components that one thread runs by itself.              *)
EXTENDS Buffer, CircularBuffer, Poller, SequenceTheorems, TLAPS

\* A leaf is tried with Zenon, then SMT, unless it names its prover.
USE ZenonT(30), SMTT(30)

-----------------------------------------------------------------------------
(* CircularBuffer: whatever the size of the buffer, its constructor makes  *)
(* the whole mirror or nothing, and leaks nothing.                         *)

\* The inductive invariant holds initially.
LEMMA MirrorInitial == MirrorInit => MirrorIndInv
<1> SUFFICES ASSUME MirrorInit
             PROVE  MirrorIndInv
  OBVIOUS
<1>1. memory \in [Pages -> Int] /\ memory = AllUnmapped
  BY SMTT(30) DEF MirrorInit, AllUnmapped, Unmapped
<1>2. data_ \in BOOLEAN /\ mirrorPc = "mkstemp"
  BY DEF MirrorInit
<1>3. file \in [open : BOOLEAN, named : BOOLEAN, length : Nat] /\ ~file.open
  BY DEF MirrorInit, Closed
<1> QED
  BY <1>1, <1>2, <1>3 DEF MirrorIndInv

\* Both halves, once mapped, show the file from its start.
LEMMA MappedHalf ==
    ASSUME NEW at \in {0, BufferSize}, memory \in [Pages -> Int]
    PROVE  /\ Mapped(at) \in [Pages -> Int]
           /\ \A p \in 0..(BufferSize - 1) : Mapped(at)[p + at] = p
           /\ at = BufferSize => \A p \in 0..(BufferSize - 1) : Mapped(at)[p] = memory[p]
<1>1. \A p \in Pages : p - at \in Int /\ memory[p] \in Int
  BY BufferAssumption, SMTT(30) DEF Pages
<1>2. Mapped(at) \in [Pages -> Int]
  BY <1>1 DEF Mapped
<1>3. ASSUME NEW p \in 0..(BufferSize - 1)
      PROVE  Mapped(at)[p + at] = p
  <2>1. p + at \in Pages /\ p + at \in at..(at + BufferSize - 1) /\ (p + at) - at = p
    BY BufferAssumption, SMTT(30) DEF Pages
  <2> QED
    BY <2>1 DEF Mapped
<1>4. ASSUME at = BufferSize, NEW p \in 0..(BufferSize - 1)
      PROVE  Mapped(at)[p] = memory[p]
  <2>1. p \in Pages /\ p \notin at..(at + BufferSize - 1)
    BY <1>4, BufferAssumption, SMTT(30) DEF Pages
  <2> QED
    BY <2>1 DEF Mapped
<1> QED
  BY <1>2, <1>3, <1>4

\* Every early return releases what was acquired before it.
LEMMA GivesUp ==
    ASSUME MirrorIndInv, GiveUp, CloseFile, memory' = AllUnmapped
    PROVE  MirrorIndInv'
<1>1. memory' \in [Pages -> Int] /\ data_' = FALSE /\ mirrorPc' = "done"
  BY SMTT(30) DEF GiveUp, AllUnmapped, Unmapped
<1>2. file' \in [open : BOOLEAN, named : BOOLEAN, length : Nat] /\ ~file'.open
  BY DEF MirrorIndInv, CloseFile
<1> QED
  BY <1>1, <1>2 DEF MirrorIndInv, AllUnmapped, Pages

\* The inductive invariant is preserved by every step.
LEMMA MirrorStep == MirrorIndInv /\ [MirrorNext]_mirrorVars => MirrorIndInv'
<1> SUFFICES ASSUME MirrorIndInv, [MirrorNext]_mirrorVars
             PROVE  MirrorIndInv'
  OBVIOUS
<1>1. CASE Mkstemp
  <2>1. CASE GiveUp /\ UNCHANGED <<file, memory>>
    BY <1>1, <2>1 DEF Mkstemp, GiveUp, MirrorIndInv, AllUnmapped, Pages
  <2>2. CASE file' = [open |-> TRUE, named |-> TRUE, length |-> 0] /\ mirrorPc' = "unlink"
    BY <1>1, <2>2 DEF Mkstemp, GiveUp, MirrorIndInv, AllUnmapped, Pages
  <2> QED
    BY <1>1, <2>1, <2>2 DEF Mkstemp
<1>2. CASE Unlink
  <2>1. CASE GiveUp /\ CloseFile /\ UNCHANGED memory
    BY <1>2, <2>1, GivesUp DEF Unlink, MirrorIndInv
  <2>2. CASE mirrorPc' = "ftruncate"
    BY <1>2, <2>2 DEF Unlink, MirrorIndInv, GiveUp
  <2> QED
    BY <1>2, <2>1, <2>2 DEF Unlink
<1>3. CASE Ftruncate
  <2>1. CASE GiveUp /\ CloseFile /\ UNCHANGED memory
    BY <1>3, <2>1, GivesUp DEF Ftruncate, MirrorIndInv
  <2>2. CASE mirrorPc' = "reserve"
    BY <1>3, <2>2, BufferAssumption DEF Ftruncate, MirrorIndInv, GiveUp
  <2> QED
    BY <1>3, <2>1, <2>2 DEF Ftruncate
<1>4. CASE ReserveRange
  <2>1. CASE GiveUp /\ CloseFile /\ UNCHANGED memory
    BY <1>4, <2>1, GivesUp DEF ReserveRange, MirrorIndInv
  <2>2. CASE mirrorPc' = "first"
    BY <1>4, <2>2, SMTT(30) DEF ReserveRange, MirrorIndInv, GiveUp, Reserved
  <2> QED
    BY <1>4, <2>1, <2>2 DEF ReserveRange
<1>5. CASE MapFirst
  <2>1. CASE MapFails
    BY <2>1, GivesUp DEF MapFails
  <2>2. CASE memory' = Mapped(0) /\ mirrorPc' = "second" /\ UNCHANGED <<data_, file>>
    <3>1. /\ memory' \in [Pages -> Int]
          /\ \A p \in 0..(BufferSize - 1) : memory'[p] = p
      BY <2>2, MappedHalf, SMTT(30) DEF MirrorIndInv
    <3> QED
      BY <1>5, <2>2, <3>1 DEF MapFirst, MirrorIndInv
  <2> QED
    BY <1>5, <2>1, <2>2 DEF MapFirst
<1>6. CASE MapSecond
  <2>1. CASE MapFails
    BY <2>1, GivesUp DEF MapFails
  <2>2. CASE memory' = Mapped(BufferSize) /\ CloseFile /\ mirrorPc' = "done" /\ UNCHANGED data_
    <3>1. /\ memory' \in [Pages -> Int]
          /\ \A p \in 0..(BufferSize - 1) : memory'[p + BufferSize] = p /\ memory'[p] = memory[p]
      BY <2>2, MappedHalf DEF MirrorIndInv
    <3>2. \A p \in 0..(BufferSize - 1) : memory'[p] = p
      BY <1>6, <3>1 DEF MapSecond, MirrorIndInv
    <3>3. data_
      BY <1>6 DEF MapSecond, MirrorIndInv
    <3> QED
      BY <1>6, <2>2, <3>1, <3>2, <3>3 DEF MapSecond, MirrorIndInv, CloseFile
  <2> QED
    BY <1>6, <2>1, <2>2 DEF MapSecond
<1>7. CASE DestroyBuffer
  BY <1>7, SMTT(30) DEF DestroyBuffer, MirrorIndInv, AllUnmapped, Unmapped
<1>8. CASE UNCHANGED mirrorVars
  BY <1>8 DEF mirrorVars, MirrorIndInv, AllUnmapped, Pages
<1> QED
  BY <1>1, <1>2, <1>3, <1>4, <1>5, <1>6, <1>7, <1>8 DEF MirrorNext

\* MirrorIndInv is an invariant of the constructor and the destructor.
THEOREM MirrorIndInvHolds == MirrorSpec => []MirrorIndInv
  BY MirrorInitial, MirrorStep, PTL DEF MirrorSpec

\* createBufferMirror() leaves the whole mirror or no buffer, for any size, and
\* no failing system call, nor the destructor, leaves a page or a descriptor.
THEOREM MirrorOrNothingHolds == MirrorSpec => []MirrorOrNothing
<1>1. MirrorIndInv => MirrorOrNothing
  BY DEF MirrorIndInv, MirrorOrNothing
<1> QED
  BY <1>1, MirrorIndInvHolds, PTL

-----------------------------------------------------------------------------
(* Poller: however many channels and descriptors there are, epoll, the      *)
(* poller's map and the channels agree on what is watched.                  *)

\* None is no Channel object.
LEMMA NoneIsNoObject == None \notin ChannelObject
<1>1. DOMAIN None = {"fd"}
  BY DEF None
<1>2. \A o \in ChannelObject : DOMAIN o = {"fd", "events", "index", "added"}
  BY DEF ChannelObject
<1> QED BY <1>1, <1>2, SMTT(30)

\* Nothing is registered at first.
LEMMA PollInitial == PollInit => PollIndInv
  BY SMTT(30) DEF PollInit, PollIndInv, Exists

\* A step that replaces one live Channel object, on the same descriptor, and
\* touches epoll and the map at that descriptor only, keeps the invariant if it
\* leaves that channel registered as its index says.
LEMMA OneChannel ==
    ASSUME PollIndInv, ~aborted',
           NEW c \in Channels, Exists(c), NEW o \in ChannelObject, o.fd = chan[c].fd,
           chan' = [chan EXCEPT ![c] = o],
           \A x : x # o.fd => /\ x \in DOMAIN epoll' <=> x \in DOMAIN epoll
                              /\ x \in DOMAIN epoll => epoll'[x] = epoll[x],
           \A x : x # o.fd => /\ x \in DOMAIN channels_' <=> x \in DOMAIN channels_
                              /\ x \in DOMAIN channels_ => channels_'[x] = channels_[x],
           Registered(c)'
    PROVE  PollIndInv'
<1>1. /\ chan \in [Channels -> ChannelObject \cup {None}]
      /\ \A d, e \in Channels : Exists(d) /\ Exists(e) /\ chan[d].fd = chan[e].fd => d = e
  BY DEF PollIndInv
<1>2. /\ chan' \in [Channels -> ChannelObject \cup {None}]
      /\ chan'[c] = o
      /\ \A d \in Channels : d # c => chan'[d] = chan[d]
  BY <1>1
<1>3. \A d \in Channels : /\ Exists(d)' <=> Exists(d)
                          /\ chan'[d].fd = chan[d].fd
  BY <1>1, <1>2, NoneIsNoObject DEF Exists
<1>4. \A d, e \in Channels :
          Exists(d)' /\ Exists(e)' /\ chan'[d].fd = chan'[e].fd => d = e
  BY <1>1, <1>3
<1>5. ASSUME NEW d \in Channels, Exists(d)' PROVE Registered(d)'
  <2>1. CASE d = c
    BY <2>1
  <2>2. CASE d # c
    <3>1. Exists(d) /\ chan'[d] = chan[d] /\ Registered(d)
      BY <1>2, <1>3, <1>5, <2>2 DEF PollIndInv
    <3>2. chan[d].fd # o.fd
      BY <1>1, <2>2, <3>1
    <3> QED BY <3>1, <3>2, SMTT(30) DEF Registered
  <2> QED BY <2>1, <2>2
<1>6. ASSUME NEW fd \in DOMAIN epoll' \cup DOMAIN channels_'
      PROVE  \E d \in Channels : Exists(d)' /\ chan'[d].fd = fd
  <2>1. CASE fd = o.fd
    BY <1>3, <2>1
  <2>2. CASE fd # o.fd
    <3>1. fd \in DOMAIN epoll \cup DOMAIN channels_
      BY <1>6, <2>2
    <3>2. PICK d \in Channels : Exists(d) /\ chan[d].fd = fd
      BY <3>1 DEF PollIndInv
    <3> QED BY <1>3, <3>2
  <2> QED BY <2>1, <2>2
<1> QED BY <1>2, <1>4, <1>5, <1>6 DEF PollIndInv, Exists

\* What update() does to epoll away from the descriptor, and at it.
LEMMA UpdateFacts ==
    ASSUME NEW op \in {"add", "mod", "del"}, NEW c, NEW fd, NEW events,
           update(op, c, fd, events), ~aborted,
           op = "add" => fd \notin DOMAIN epoll,
           op = "mod" => fd \in DOMAIN epoll
    PROVE  /\ ~aborted'
           /\ \A x : x # fd => /\ x \in DOMAIN epoll' <=> x \in DOMAIN epoll
                               /\ x \in DOMAIN epoll => epoll'[x] = epoll[x]
           /\ op = "del" => fd \notin DOMAIN epoll'
           /\ op # "del" => /\ fd \in DOMAIN epoll'
                            /\ epoll'[fd] = [ptr |-> c, events |-> events]
<1>1. CASE op = "del"
  <2>1. epoll' = [x \in DOMAIN epoll \ {fd} |-> epoll[x]] /\ ~aborted'
    BY <1>1 DEF update, Erased, Restrict
  <2> QED BY <1>1, <2>1
<1>2. CASE op # "del"
  <2>1. /\ epoll' = Put(epoll, fd, [ptr |-> c, events |-> events])
        /\ ~aborted'
    BY <1>2 DEF update
  <2> QED BY <1>2, <2>1 DEF Put
<1> QED BY <1>1, <1>2

\* Changes of interest: every branch of updateChannel().
LEMMA InterestKeeps ==
    ASSUME PollIndInv, NEW c \in Channels, NEW events \in SUBSET PollEvents,
           ChangeInterest(c, events)
    PROVE  PollIndInv'
<1> DEFINE fd == chan[c].fd
<1>1. /\ Exists(c) /\ chan[c] \in ChannelObject /\ Registered(c) /\ ~aborted
      /\ chan \in [Channels -> ChannelObject \cup {None}]
  BY DEF PollIndInv, ChangeInterest, Exists
<1>2. /\ fd \in Fds /\ chan[c].added \in BOOLEAN /\ chan[c].index \in {-1, 1, 2}
  BY <1>1 DEF ChannelObject
<1>3. CASE ~chan[c].added /\ events = {}
  <2> DEFINE o == [fd |-> fd, events |-> {}, index |-> chan[c].index, added |-> chan[c].added]
  <2>1. chan' = [chan EXCEPT ![c] = o] /\ o \in ChannelObject
    BY <1>1, <1>2, <1>3 DEF ChangeInterest, ChannelObject
  <2>2. epoll' = epoll /\ channels_' = channels_ /\ aborted' = aborted
    BY <1>3 DEF ChangeInterest
  <2>3. chan'[c] = o
    BY <1>1, <2>1
  <2>4. chan[c].index = -1
    BY <1>1, <1>2, <1>3 DEF Registered
  <2>5. Registered(c)'
    BY <1>1, <1>2, <1>3, <2>2, <2>3, <2>4, SMTT(30) DEF Registered
  <2> HIDE DEF o
  <2>6. o.fd = fd
    BY DEF o
  <2> QED BY <1>1, <2>1, <2>2, <2>5, <2>6, OneChannel
<1>4. CASE ~(~chan[c].added /\ events = {}) /\ chan[c].index \in {-1, 2}
  <2>1. CASE events = {}
    <3> DEFINE o == [fd |-> fd, events |-> {}, index |-> 2, added |-> TRUE]
    <3>0. chan[c].index = 2
      BY <1>1, <1>2, <1>4, <2>1 DEF Registered
    <3>1. chan' = [chan EXCEPT ![c] = o] /\ o \in ChannelObject
      BY <1>1, <1>2, <1>4, <2>1, <3>0 DEF ChangeInterest, updateChannel, ChannelObject
    <3>2. epoll' = epoll /\ channels_' = channels_ /\ aborted' = aborted
      BY <1>4, <2>1 DEF ChangeInterest, updateChannel
    <3>3. chan'[c] = o
      BY <1>1, <3>1
    <3>4. Registered(c)'
      BY <1>1, <1>2, <3>0, <3>2, <3>3, SMTT(30) DEF Registered
    <3> HIDE DEF o
    <3>5. o.fd = fd
      BY DEF o
    <3> QED BY <1>1, <3>1, <3>2, <3>4, <3>5, OneChannel
  <2>2. CASE events # {}
    <3> DEFINE o == [fd |-> fd, events |-> events, index |-> 1, added |-> TRUE]
    <3>1. chan' = [chan EXCEPT ![c] = o] /\ o \in ChannelObject
      BY <1>1, <1>2, <1>4, <2>2 DEF ChangeInterest, updateChannel, ChannelObject
    <3>2. update("add", c, fd, events) /\ channels_' = Put(channels_, fd, c)
      BY <1>4, <2>2 DEF ChangeInterest, updateChannel
    <3>3. fd \notin DOMAIN epoll
      BY <1>1, <1>4, SMTT(30) DEF Registered
    <3>4. /\ ~aborted' /\ fd \in DOMAIN epoll' /\ epoll'[fd] = [ptr |-> c, events |-> events]
          /\ \A x : x # fd => /\ x \in DOMAIN epoll' <=> x \in DOMAIN epoll
                              /\ x \in DOMAIN epoll => epoll'[x] = epoll[x]
      BY <1>1, <3>2, <3>3, UpdateFacts
    <3>5. /\ fd \in DOMAIN channels_' /\ channels_'[fd] = c
          /\ \A x : x # fd => /\ x \in DOMAIN channels_' <=> x \in DOMAIN channels_
                              /\ x \in DOMAIN channels_ => channels_'[x] = channels_[x]
      BY <3>2 DEF Put
    <3>6. chan'[c] = o
      BY <1>1, <3>1
    <3>7. Registered(c)'
      BY <2>2, <3>4, <3>5, <3>6, SMTT(30) DEF Registered
    <3> HIDE DEF o
    <3>8. o.fd = fd
      BY DEF o
    <3> QED BY <1>1, <3>1, <3>4, <3>5, <3>7, <3>8, OneChannel
  <2> QED BY <2>1, <2>2
<1>5. CASE ~(~chan[c].added /\ events = {}) /\ chan[c].index = 1
  <2> DEFINE i == IF events = {} THEN 2 ELSE 1
             o == [fd |-> fd, events |-> events, index |-> i, added |-> TRUE]
             op == IF events = {} THEN "del" ELSE "mod"
  <2>1. chan' = [chan EXCEPT ![c] = o] /\ o \in ChannelObject
    BY <1>1, <1>2, <1>5, SMTT(30) DEF ChangeInterest, updateChannel, ChannelObject
  <2>2. update(op, c, fd, events) /\ channels_' = channels_
    BY <1>5, SMTT(30) DEF ChangeInterest, updateChannel
  <2>3. fd \in DOMAIN epoll /\ fd \in DOMAIN channels_ /\ channels_[fd] = c
    BY <1>1, <1>5, SMTT(30) DEF Registered
  <2>4. /\ ~aborted'
        /\ \A x : x # fd => /\ x \in DOMAIN epoll' <=> x \in DOMAIN epoll
                            /\ x \in DOMAIN epoll => epoll'[x] = epoll[x]
        /\ events = {} => fd \notin DOMAIN epoll'
        /\ events # {} => fd \in DOMAIN epoll' /\ epoll'[fd] = [ptr |-> c, events |-> events]
    <3> HIDE DEF fd
    <3>1. op \in {"add", "mod", "del"} /\ op # "add" /\ (op = "del" <=> events = {})
      OBVIOUS
    <3> HIDE DEF op
    <3> QED BY <1>1, <2>2, <2>3, <3>1, UpdateFacts, SMTT(30)
  <2>5. chan'[c] = o
    BY <1>1, <2>1
  <2>6. Registered(c)'
    BY <2>2, <2>3, <2>4, <2>5, SMTT(30) DEF Registered
  <2> HIDE DEF o
  <2>7. o.fd = fd
    BY DEF o
  <2> QED BY <1>1, <2>1, <2>2, <2>4, <2>6, <2>7, OneChannel
<1> QED BY <1>2, <1>3, <1>4, <1>5

\* Channel::remove().
LEMMA RemoveKeeps ==
    ASSUME PollIndInv, NEW c \in Channels, RemoveChannel(c)
    PROVE  PollIndInv'
<1> DEFINE fd == chan[c].fd
<1>1. /\ Exists(c) /\ chan[c] \in ChannelObject /\ Registered(c) /\ ~aborted
      /\ chan \in [Channels -> ChannelObject \cup {None}] /\ chan[c].events = {}
  BY SMTT(30) DEF PollIndInv, RemoveChannel, Exists
<1>2. /\ fd \in Fds /\ chan[c].added \in BOOLEAN /\ chan[c].index \in {-1, 1, 2}
      /\ chan[c].index # 1
  BY <1>1 DEF ChannelObject, Registered
<1>3. CASE ~chan[c].added
  <2>1. UNCHANGED <<chan, channels_, epoll, aborted>>
    BY <1>3 DEF RemoveChannel
  <2> QED BY <2>1, SMTT(30) DEF PollIndInv, Registered, Exists
<1>4. CASE chan[c].added
  <2> DEFINE o == [fd |-> fd, events |-> {}, index |-> -1, added |-> FALSE]
  <2>1. chan' = [chan EXCEPT ![c] = o] /\ o \in ChannelObject
    BY <1>1, <1>2, <1>4, SMTT(30) DEF RemoveChannel, ChannelObject
  <2>2. epoll' = epoll /\ aborted' = aborted /\ fd \notin DOMAIN epoll
    BY <1>1, <1>2, <1>4 DEF RemoveChannel, Registered
  <2>3. channels_' = [x \in DOMAIN channels_ \ {fd} |-> channels_[x]]
    BY <1>4 DEF RemoveChannel, Erased, Restrict
  <2>4. chan'[c] = o
    BY <1>1, <2>1
  <2>5. Registered(c)'
    BY <2>2, <2>3, <2>4, SMTT(30) DEF Registered
  <2> HIDE DEF o
  <2>6. o.fd = fd
    BY DEF o
  <2> QED BY <1>1, <2>1, <2>2, <2>3, <2>5, <2>6, OneChannel
<1> QED BY <1>2, <1>3, <1>4

\* A new Channel on a descriptor no channel has: neither epoll nor the map knows it.
LEMMA CreateKeeps ==
    ASSUME PollIndInv, NEW c \in Channels, NEW fd \in Fds, Create(c, fd)
    PROVE  PollIndInv'
<1> DEFINE o == [fd |-> fd, events |-> {}, index |-> -1, added |-> FALSE]
<1>1. /\ chan \in [Channels -> ChannelObject \cup {None}] /\ o \in ChannelObject
      /\ chan' = [chan EXCEPT ![c] = o] /\ ~Exists(c)
      /\ \A d \in Channels : Exists(d) => chan[d].fd # fd
      /\ UNCHANGED <<channels_, epoll, aborted>>
  BY DEF PollIndInv, Create, ChannelObject
<1>2. /\ chan' \in [Channels -> ChannelObject \cup {None}] /\ chan'[c] = o /\ Exists(c)'
      /\ \A d \in Channels : d # c => chan'[d] = chan[d] /\ (Exists(d)' <=> Exists(d))
  BY <1>1, NoneIsNoObject DEF Exists
<1>3. fd \notin DOMAIN epoll /\ fd \notin DOMAIN channels_
  BY <1>1 DEF PollIndInv
<1>4. \A d, e \in Channels :
          Exists(d)' /\ Exists(e)' /\ chan'[d].fd = chan'[e].fd => d = e
  BY <1>1, <1>2 DEF PollIndInv
<1>5. ASSUME NEW d \in Channels, Exists(d)' PROVE Registered(d)'
  <2>1. CASE d = c
    BY <1>1, <1>2, <1>3, <2>1, SMTT(30) DEF Registered
  <2>2. CASE d # c
    <3>1. Exists(d) /\ Registered(d) /\ chan'[d] = chan[d]
      BY <1>2, <1>5, <2>2 DEF PollIndInv
    <3> QED BY <1>1, <3>1 DEF Registered
  <2> QED BY <2>1, <2>2
<1>6. ASSUME NEW x \in DOMAIN epoll' \cup DOMAIN channels_'
      PROVE  \E d \in Channels : Exists(d)' /\ chan'[d].fd = x
  <2>1. PICK d \in Channels : Exists(d) /\ chan[d].fd = x
    BY <1>1, <1>6 DEF PollIndInv
  <2> QED BY <1>1, <1>2, <2>1
<1>7. ~aborted'
  BY <1>1 DEF PollIndInv
<1> QED BY <1>2, <1>4, <1>5, <1>6, <1>7 DEF PollIndInv, Exists

\* A channel that was removed leaves nothing behind when it is deleted.
LEMMA DestroyKeeps ==
    ASSUME PollIndInv, NEW c \in Channels, Destroy(c)
    PROVE  PollIndInv'
<1>1. /\ chan \in [Channels -> ChannelObject \cup {None}]
      /\ chan' = [chan EXCEPT ![c] = None] /\ Exists(c) /\ ~chan[c].added
      /\ UNCHANGED <<channels_, epoll, aborted>> /\ Registered(c)
  BY DEF PollIndInv, Destroy
<1>2. /\ chan' \in [Channels -> ChannelObject \cup {None}] /\ ~Exists(c)'
      /\ \A d \in Channels : d # c => chan'[d] = chan[d] /\ (Exists(d)' <=> Exists(d))
  BY <1>1 DEF Exists
<1>3. chan[c].fd \notin DOMAIN epoll /\ chan[c].fd \notin DOMAIN channels_
  BY <1>1, SMTT(30) DEF Registered
<1>4. \A d, e \in Channels :
          Exists(d)' /\ Exists(e)' /\ chan'[d].fd = chan'[e].fd => d = e
  BY <1>2 DEF PollIndInv
<1>5. ASSUME NEW d \in Channels, Exists(d)' PROVE Registered(d)'
  <2>1. Exists(d) /\ Registered(d) /\ chan'[d] = chan[d]
    BY <1>2, <1>5 DEF PollIndInv
  <2> QED BY <1>1, <2>1 DEF Registered
<1>6. ASSUME NEW x \in DOMAIN epoll' \cup DOMAIN channels_'
      PROVE  \E d \in Channels : Exists(d)' /\ chan'[d].fd = x
  <2>1. PICK d \in Channels : Exists(d) /\ chan[d].fd = x
    BY <1>1, <1>6 DEF PollIndInv
  <2>2. d # c
    BY <1>1, <1>3, <1>6, <2>1
  <2> QED BY <1>2, <2>1, <2>2
<1>7. ~aborted'
  BY <1>1 DEF PollIndInv
<1> QED BY <1>2, <1>4, <1>5, <1>6, <1>7 DEF PollIndInv, Exists

\* The invariant says what RegistrationAgrees does, removeChannel()'s assertions
\* included.
LEMMA PollInvariantSuffices == PollIndInv => RegistrationAgrees
<1> SUFFICES ASSUME PollIndInv PROVE RegistrationAgrees
  OBVIOUS
<1>1. ASSUME NEW fd \in Fds, NEW c \in Channels, Exists(c), chan[c].fd = fd
      PROVE  /\ fd \in DOMAIN epoll <=> chan[c].events # {}
             /\ fd \in DOMAIN epoll => epoll[fd] = [ptr |-> c, events |-> chan[c].events]
             /\ chan[c].added /\ chan[c].events = {} => RemoveAsserts(c)
  <2>1. Registered(c) /\ chan[c] \in ChannelObject
    BY <1>1 DEF PollIndInv, Exists
  <2>2. chan[c].index \in {-1, 1, 2}
    BY <2>1 DEF ChannelObject
  <2> QED BY <1>1, <2>1, <2>2 DEF Registered, RemoveAsserts
<1> QED BY <1>1 DEF PollIndInv, RegistrationAgrees

\* Poller.cpp and Channel.cpp: through any sequence of interest changes, removals,
\* deletions and reuse of descriptors epoll watches exactly what the channels ask
\* for, removeChannel()'s assertions hold and epoll_ctl() never fails.
THEOREM RegistrationAgreesHolds == PollSpec => []RegistrationAgrees
<1>1. PollIndInv /\ [PollNext]_pollVars => PollIndInv'
  <2> SUFFICES ASSUME PollIndInv, [PollNext]_pollVars PROVE PollIndInv'
    OBVIOUS
  <2>1. ASSUME NEW c \in Channels, NEW e \in PollEvents, Enable(c, e) \/ Disable(c, e)
        PROVE  PollIndInv'
    <3>1. Exists(c) /\ chan[c].events \in SUBSET PollEvents
      BY <2>1 DEF Enable, Disable, Exists, PollIndInv, ChannelObject
    <3>2. PICK events \in SUBSET PollEvents : ChangeInterest(c, events)
      BY <2>1, <3>1 DEF Enable, Disable
    <3> QED BY <3>2, InterestKeeps
  <2>2. ASSUME NEW c \in Channels, DisableAll(c) PROVE PollIndInv'
    BY <2>2, InterestKeeps DEF DisableAll
  <2>3. ASSUME NEW c \in Channels, RemoveChannel(c) PROVE PollIndInv'
    BY <2>3, RemoveKeeps
  <2>4. ASSUME NEW c \in Channels, Destroy(c) PROVE PollIndInv'
    BY <2>4, DestroyKeeps
  <2>5. ASSUME NEW c \in Channels, NEW fd \in Fds, Create(c, fd) PROVE PollIndInv'
    BY <2>5, CreateKeeps
  <2>6. ASSUME UNCHANGED <<chan, channels_, epoll, aborted>> PROVE PollIndInv'
    BY <2>6 DEF PollIndInv, Registered, Exists
  <2>7. ASSUME NEW ready, NEW reported, Poll(ready, reported) PROVE PollIndInv'
    BY <2>6, <2>7 DEF Poll
  <2>8. CASE UNCHANGED pollVars
    BY <2>6, <2>8 DEF pollVars
  <2> QED BY <2>1, <2>2, <2>3, <2>4, <2>5, <2>7, <2>8 DEF PollNext
<1> QED BY <1>1, PollInitial, PollInvariantSuffices, PTL DEF PollSpec

-----------------------------------------------------------------------------
(* Buffer: every operation does to the contents what it says, in every     *)
(* buffer whose indexes are in order, whatever the sizes.                  *)

Buffers == [buf : Seq(Bytes), r : Nat, w : Nat]
Good(x) == x \in Buffers /\ x.r <= x.w /\ x.w <= Len(x.buf) /\ CheapPrepend <= Len(x.buf)

\* What the user sees, byte by byte.
LEMMA ContentsBytes ==
    ASSUME NEW x, Good(x)
    PROVE  /\ Contents(x) \in Seq(Bytes) /\ Len(Contents(x)) = readableBytes(x) /\ readableBytes(x) \in Nat
           /\ \A i \in 1..readableBytes(x) : Contents(x)[i] = x.buf[x.r + i] /\ x.buf[x.r + i] \in Bytes
<1>1. x.buf \in Seq(Bytes) /\ x.r \in Nat /\ x.w \in Nat /\ x.r <= x.w /\ x.w <= Len(x.buf) /\ Len(x.buf) \in Nat
  BY SMTT(30) DEF Good, Buffers
<1>2. /\ SubSeq(x.buf, x.r + 1, x.w) \in Seq(Bytes)
      /\ Len(SubSeq(x.buf, x.r + 1, x.w)) = x.w - x.r
      /\ \A i \in 1..(x.w - x.r) : SubSeq(x.buf, x.r + 1, x.w)[i] = x.buf[x.r + i]
  <2> DEFINE m == x.r + 1
  <2>1. m \in Int /\ x.w \in Int /\ \A i \in m..x.w : x.buf[i] \in Bytes
    BY <1>1, SMTT(30)
  <2>2. x.w - m + 1 = x.w - x.r /\ (m <= x.w \/ x.w - x.r = 0)
    BY <1>1, SMTT(30)
  <2>3. /\ SubSeq(x.buf, m, x.w) \in Seq(Bytes)
        /\ Len(SubSeq(x.buf, m, x.w)) = IF m <= x.w THEN x.w - m + 1 ELSE 0
        /\ \A i \in 1..(x.w - m + 1) : SubSeq(x.buf, m, x.w)[i] = x.buf[m + i - 1]
    <3> HIDE DEF m
    <3> QED
      BY <2>1, SubSeqProperties, SMTT(30)
  <2>4. \A i \in 1..(x.w - x.r) : (x.r + 1) + i - 1 = x.r + i
    BY <1>1, SMTT(30)
  <2> QED
    BY <1>1, <2>2, <2>3, <2>4
<1>3. \A i \in 1..(x.w - x.r) : x.buf[x.r + i] \in Bytes
  <2>1. \A i \in 1..(x.w - x.r) : x.r + i \in 1..Len(x.buf)
    BY <1>1, SMTT(30)
  <2> QED
    BY <1>1, <2>1, SMTT(30)
<1> QED
  BY <1>1, <1>2, <1>3, SMTT(30) DEF Contents, readableBytes

\* Two buffers show the same.
LEMMA SameContents ==
    ASSUME NEW x, NEW y, Good(x), Good(y), readableBytes(x) = readableBytes(y),
           \A i \in 1..readableBytes(x) : y.buf[y.r + i] = x.buf[x.r + i]
    PROVE  Contents(y) = Contents(x)
<1>1. /\ Contents(x) \in Seq(Bytes) /\ Len(Contents(x)) = readableBytes(x)
      /\ \A i \in 1..readableBytes(x) : Contents(x)[i] = x.buf[x.r + i]
  BY ContentsBytes
<1>2. /\ Contents(y) \in Seq(Bytes) /\ Len(Contents(y)) = readableBytes(x)
      /\ \A i \in 1..readableBytes(x) : Contents(y)[i] = y.buf[y.r + i]
  BY ContentsBytes
<1>3. \A i \in 1..Len(Contents(x)) : Contents(y)[i] = Contents(x)[i]
  BY <1>1, <1>2
<1> QED
  BY <1>1, <1>2, <1>3, SeqEqual

\* A sequence is known by its elements.
Joins(s, t, u) ==
    /\ s \in Seq(Bytes) /\ t \in Seq(Bytes) /\ u \in Seq(Bytes) /\ Len(u) = Len(s) + Len(t)
    /\ \A i \in 1..Len(s) : u[i] = s[i]
    /\ \A i \in 1..Len(t) : u[Len(s) + i] = t[i]

\* Concatenation is associative.
Joined(s, t, x) == x = s \o t

LEMMA Associates ==
    ASSUME NEW s \in Seq(Bytes), NEW t \in Seq(Bytes), NEW u \in Seq(Bytes),
           NEW x, Joined(s, t, x), NEW y, Joined(t, u, y), NEW z, Joined(x, u, z)
    PROVE  Joined(s, y, z)
  BY ConcatAssociative, SMTT(30) DEF Joined

LEMMA Concatenated ==
    ASSUME NEW s, NEW t, NEW u, Joins(s, t, u)
    PROVE  u = s \o t
<1> USE DEF Joins
<1>1. /\ s \o t \in Seq(Bytes) /\ Len(s \o t) = Len(s) + Len(t) /\ Len(s) \in Nat /\ Len(t) \in Nat
      /\ \A i \in 1..(Len(s) + Len(t)) : (s \o t)[i] = IF i <= Len(s) THEN s[i] ELSE t[i - Len(s)]
  BY ConcatProperties, LenProperties
<1>2. ASSUME NEW i \in 1..(Len(s) + Len(t)) PROVE u[i] = (s \o t)[i]
  <2>1. CASE i <= Len(s)
    <3>1. i \in 1..Len(s)
      BY <1>1, <2>1, SMTT(30)
    <3> QED
      BY <1>1, <2>1, <3>1
  <2>2. CASE ~(i <= Len(s))
    <3>1. i - Len(s) \in 1..Len(t) /\ Len(s) + (i - Len(s)) = i
      BY <1>1, <2>2, SMTT(30)
    <3>2. u[i] = t[i - Len(s)]
      BY <3>1
    <3> QED
      BY <1>1, <2>2, <3>2
  <2> QED
    BY <2>1, <2>2
<1> QED
  BY <1>1, <1>2, SeqEqual

\* memcpy() into the vector.
LEMMA CopiedBytes ==
    ASSUME NEW buf \in Seq(Bytes), NEW at \in Nat, NEW d \in Seq(Bytes), at + Len(d) <= Len(buf)
    PROVE  /\ Copied(buf, at, d) \in Seq(Bytes) /\ Len(Copied(buf, at, d)) = Len(buf)
           /\ \A i \in 1..Len(d) : Copied(buf, at, d)[at + i] = d[i]
           /\ \A i \in 1..Len(buf) : (i <= at \/ i > at + Len(d)) => Copied(buf, at, d)[i] = buf[i]
<1>1. Len(buf) \in Nat /\ Len(d) \in Nat /\ DOMAIN buf = 1..Len(buf)
  BY SMTT(30)
<1>2. \A i \in 1..Len(buf) : Copied(buf, at, d)[i] = IF i > at /\ i <= at + Len(d) THEN d[i - at] ELSE buf[i]
  BY <1>1 DEF Copied
<1>3. DOMAIN Copied(buf, at, d) = 1..Len(buf)
  BY <1>1 DEF Copied
<1>4. \A i \in 1..Len(buf) : Copied(buf, at, d)[i] \in Bytes
  <2> SUFFICES ASSUME NEW i \in 1..Len(buf) PROVE Copied(buf, at, d)[i] \in Bytes
    OBVIOUS
  <2>1. CASE i > at /\ i <= at + Len(d)
    <3>1. i - at \in 1..Len(d)
      BY <1>1, <2>1, SMTT(30)
    <3>2. d[i - at] \in Bytes
      BY <3>1, SMTT(30)
    <3> QED
      BY <1>2, <2>1, <3>2
  <2>2. CASE ~(i > at /\ i <= at + Len(d))
    <3>1. buf[i] \in Bytes
      BY <1>1, SMTT(30)
    <3> QED
      BY <1>2, <2>2, <3>1
  <2> QED
    BY <2>1, <2>2
<1>5. Copied(buf, at, d) \in [1..Len(buf) -> Bytes]
  <2>1. Copied(buf, at, d) = [i \in 1..Len(buf) |-> Copied(buf, at, d)[i]]
    BY <1>1 DEF Copied
  <2> QED
    BY <1>4, <2>1
<1>6. Copied(buf, at, d) \in Seq(Bytes) /\ Len(Copied(buf, at, d)) = Len(buf)
  BY <1>1, <1>5, SMTT(30)
<1>7. ASSUME NEW i \in 1..Len(d) PROVE Copied(buf, at, d)[at + i] = d[i]
  <2>1. at + i \in 1..Len(buf) /\ at + i > at /\ at + i <= at + Len(d) /\ (at + i) - at = i
    BY <1>1, SMTT(30)
  <2> QED
    BY <1>2, <2>1
<1>8. ASSUME NEW i \in 1..Len(buf), i <= at \/ i > at + Len(d) PROVE Copied(buf, at, d)[i] = buf[i]
  BY <1>1, <1>2, <1>8, SMTT(30)
<1> QED
  BY <1>6, <1>7, <1>8

\* The parts of a good buffer.
LEMMA GoodParts ==
    ASSUME NEW x, Good(x)
    PROVE  /\ x.buf \in Seq(Bytes) /\ x.r \in Nat /\ x.w \in Nat /\ Len(x.buf) \in Nat /\ CheapPrepend \in Nat
           /\ x.r <= x.w /\ x.w <= Len(x.buf) /\ CheapPrepend <= Len(x.buf)
           /\ x = [buf |-> x.buf, r |-> x.r, w |-> x.w]
  BY SizesAssumption, SMTT(30) DEF Good, Buffers

LEMMA MadeGood ==
    ASSUME NEW buf \in Seq(Bytes), NEW r \in Nat, NEW w \in Nat, r <= w, w <= Len(buf), CheapPrepend <= Len(buf)
    PROVE  /\ Good([buf |-> buf, r |-> r, w |-> w])
           /\ readableBytes([buf |-> buf, r |-> r, w |-> w]) = w - r
           /\ writableBytes([buf |-> buf, r |-> r, w |-> w]) = Len(buf) - w
  BY DEF Good, Buffers, readableBytes, writableBytes

\* Bytes written behind the data, where there is room for them.
LEMMA WrittenKeeps ==
    ASSUME NEW x, Good(x), NEW d \in Seq(Bytes), Len(d) <= writableBytes(x)
    PROVE  /\ Good(Written(x, d)) /\ Contents(Written(x, d)) = Contents(x) \o d
           /\ writableBytes(Written(x, d)) = writableBytes(x) - Len(d)
<1>1. /\ x.buf \in Seq(Bytes) /\ x.r \in Nat /\ x.w \in Nat /\ Len(x.buf) \in Nat
      /\ x.r <= x.w /\ x.w <= Len(x.buf) /\ CheapPrepend <= Len(x.buf) /\ Len(d) \in Nat
      /\ x.w + Len(d) <= Len(x.buf) /\ x = [buf |-> x.buf, r |-> x.r, w |-> x.w]
  BY GoodParts, SMTT(30) DEF writableBytes
<1>2. PICK buf : buf = Copied(x.buf, x.w, d)
  OBVIOUS
<1>3. /\ buf \in Seq(Bytes) /\ Len(buf) = Len(x.buf)
      /\ \A i \in 1..Len(d) : buf[x.w + i] = d[i]
      /\ \A i \in 1..Len(x.buf) : (i <= x.w \/ i > x.w + Len(d)) => buf[i] = x.buf[i]
  BY <1>1, <1>2, CopiedBytes, SMTT(30)
<1>4. PICK y : y = Written(x, d)
  OBVIOUS
<1>5. y = [buf |-> buf, r |-> x.r, w |-> x.w + Len(d)]
  BY <1>1, <1>2, <1>4 DEF Written
<1>6. Good(y) /\ readableBytes(y) = x.w + Len(d) - x.r /\ writableBytes(y) = Len(x.buf) - (x.w + Len(d))
  BY <1>1, <1>3, <1>5, MadeGood, SMTT(30)
<1>7. /\ Contents(x) \in Seq(Bytes) /\ Len(Contents(x)) = x.w - x.r
      /\ \A i \in 1..(x.w - x.r) : Contents(x)[i] = x.buf[x.r + i]
  BY ContentsBytes DEF readableBytes
<1>8. /\ Contents(y) \in Seq(Bytes) /\ Len(Contents(y)) = x.w + Len(d) - x.r
      /\ \A i \in 1..(x.w + Len(d) - x.r) : Contents(y)[i] = buf[x.r + i]
  BY <1>5, <1>6, ContentsBytes
<1>9. \A i \in 1..(x.w - x.r) : Contents(y)[i] = Contents(x)[i]
  <2>1. \A i \in 1..(x.w - x.r) : /\ i \in 1..(x.w + Len(d) - x.r)
                                  /\ x.r + i \in 1..Len(x.buf) /\ x.r + i <= x.w
    BY <1>1, SMTT(30)
  <2> QED
    BY <1>3, <1>7, <1>8, <2>1
<1>10. \A i \in 1..Len(d) : Contents(y)[(x.w - x.r) + i] = d[i]
  <2>1. \A i \in 1..Len(d) : /\ (x.w - x.r) + i \in 1..(x.w + Len(d) - x.r)
                             /\ x.r + ((x.w - x.r) + i) = x.w + i
    BY <1>1, SMTT(30)
  <2> QED
    BY <1>3, <1>8, <2>1
<1>11. Len(Contents(y)) = Len(Contents(x)) + Len(d)
  BY <1>1, <1>7, <1>8, SMTT(30)
<1>12. Contents(y) = Contents(x) \o d
  <2>1. Joins(Contents(x), d, Contents(y))
    BY <1>7, <1>8, <1>9, <1>10, <1>11 DEF Joins
  <2> QED
    BY <2>1, Concatenated
<1> QED
  BY <1>1, <1>4, <1>6, <1>12, SMTT(30) DEF writableBytes

\* The vector grows behind the data, or the data moves to the front.
LEMMA SpaceKeeps ==
    ASSUME NEW x, Good(x), NEW len \in Nat, writableBytes(x) < len
    PROVE  /\ Good(makeSpace(x, len)) /\ Contents(makeSpace(x, len)) = Contents(x)
           /\ writableBytes(makeSpace(x, len)) >= len
           /\ ~MustGrow(x, len) => CheapPrepend < x.r
<1>1. /\ x.buf \in Seq(Bytes) /\ x.r \in Nat /\ x.w \in Nat /\ Len(x.buf) \in Nat /\ CheapPrepend \in Nat
      /\ x.r <= x.w /\ x.w <= Len(x.buf) /\ CheapPrepend <= Len(x.buf)
      /\ Len(x.buf) - x.w < len /\ x = [buf |-> x.buf, r |-> x.r, w |-> x.w]
  BY GoodParts DEF writableBytes
<1>2. CASE MustGrow(x, len)
  <2>1. PICK buf : buf = [i \in 1..(x.w + len) |-> IF i <= Len(x.buf) THEN x.buf[i] ELSE Zero]
    OBVIOUS
  <2>2. Zero \in Bytes
    BY BytesAssumption DEF Zero
  <2>3. buf \in [1..(x.w + len) -> Bytes]
    <3>1. ASSUME NEW i \in 1..(x.w + len) PROVE (IF i <= Len(x.buf) THEN x.buf[i] ELSE Zero) \in Bytes
      BY <1>1, <2>2, SMTT(30)
    <3> QED
      BY <2>1, <3>1
  <2>4. buf \in Seq(Bytes) /\ Len(buf) = x.w + len
    BY <1>1, <2>3, SMTT(30)
  <2>5. PICK y : y = makeSpace(x, len)
    OBVIOUS
  <2>6. y = [buf |-> buf, r |-> x.r, w |-> x.w]
    BY <1>1, <1>2, <2>1, <2>5 DEF makeSpace, Grown
  <2>7. Good(y) /\ readableBytes(y) = x.w - x.r /\ writableBytes(y) = len
    BY <1>1, <2>4, <2>6, MadeGood, SMTT(30)
  <2>8. \A i \in 1..(x.w - x.r) : y.buf[y.r + i] = x.buf[x.r + i]
    <3>1. \A i \in 1..(x.w - x.r) : x.r + i \in 1..(x.w + len) /\ x.r + i <= Len(x.buf)
      BY <1>1, SMTT(30)
    <3>2. y.buf = buf /\ y.r = x.r
      BY <2>6
    <3> QED
      BY <2>1, <3>1, <3>2, SMTT(30)
  <2>9. Contents(y) = Contents(x)
    BY <2>7, <2>8, SameContents DEF readableBytes
  <2> QED
    BY <1>2, <2>5, <2>7, <2>9, SMTT(30)
<1>3. CASE ~MustGrow(x, len)
  <2>1. (Len(x.buf) - x.w) + x.r >= len + CheapPrepend
    BY <1>1, <1>3, SMTT(30) DEF MustGrow, writableBytes, prependableBytes
  <2>2. CheapPrepend < x.r
    BY <1>1, <2>1, SMTT(30)
  <2>3. /\ Contents(x) \in Seq(Bytes) /\ Len(Contents(x)) = x.w - x.r
        /\ \A i \in 1..(x.w - x.r) : Contents(x)[i] = x.buf[x.r + i]
    BY ContentsBytes DEF readableBytes
  <2>4. PICK buf : buf = Copied(x.buf, CheapPrepend, Contents(x))
    OBVIOUS
  <2>5. /\ buf \in Seq(Bytes) /\ Len(buf) = Len(x.buf)
        /\ \A i \in 1..Len(Contents(x)) : buf[CheapPrepend + i] = Contents(x)[i]
    <3>1. CheapPrepend + Len(Contents(x)) <= Len(x.buf)
      BY <1>1, <2>2, <2>3, SMTT(30)
    <3>2. x.buf \in Seq(Bytes) /\ CheapPrepend \in Nat
      BY <1>1
    <3> QED
      BY <2>3, <2>4, <3>1, <3>2, CopiedBytes, SMTT(30)
  <2>6. PICK y : y = makeSpace(x, len)
    OBVIOUS
  <2>7. y = [buf |-> buf, r |-> CheapPrepend, w |-> CheapPrepend + (x.w - x.r)]
    BY <1>3, <2>4, <2>6 DEF makeSpace, Moved, readableBytes
  <2>8. Good(y) /\ readableBytes(y) = x.w - x.r /\ writableBytes(y) = Len(x.buf) - (CheapPrepend + (x.w - x.r))
    <3>1. /\ CheapPrepend + (x.w - x.r) \in Nat /\ CheapPrepend <= CheapPrepend + (x.w - x.r)
          /\ CheapPrepend + (x.w - x.r) <= Len(x.buf) /\ (CheapPrepend + (x.w - x.r)) - CheapPrepend = x.w - x.r
      BY <1>1, <2>2, SMTT(30)
    <3> QED
      BY <1>1, <2>5, <2>7, <3>1, MadeGood, SMTT(30)
  <2>9. \A i \in 1..(x.w - x.r) : y.buf[y.r + i] = x.buf[x.r + i]
    <3>1. y.buf = buf /\ y.r = CheapPrepend
      BY <2>7
    <3> QED
      BY <2>3, <2>5, <3>1
  <2>10. Contents(y) = Contents(x)
    BY <2>8, <2>9, SameContents DEF readableBytes
  <2>11. writableBytes(y) >= len
    BY <1>1, <2>1, <2>8, SMTT(30)
  <2> QED
    BY <2>2, <2>6, <2>8, <2>10, <2>11
<1> QED
  BY <1>2, <1>3

LEMMA EnsureKeeps ==
    ASSUME NEW x, Good(x), NEW len \in Nat
    PROVE  /\ Good(ensureWritableBytes(x, len)) /\ Contents(ensureWritableBytes(x, len)) = Contents(x)
           /\ len <= writableBytes(ensureWritableBytes(x, len))
<1>1. writableBytes(x) \in Int
  BY GoodParts, SMTT(30) DEF writableBytes
<1>2. CASE writableBytes(x) < len
  <2>1. PICK y : y = makeSpace(x, len)
    OBVIOUS
  <2>2. Good(y) /\ Contents(y) = Contents(x) /\ writableBytes(y) >= len
    BY <1>2, <2>1, SpaceKeeps
  <2>3. writableBytes(y) \in Int
    BY <2>2, GoodParts, SMTT(30) DEF writableBytes
  <2> QED
    BY <1>2, <2>1, <2>2, <2>3 DEF ensureWritableBytes
<1>3. CASE ~(writableBytes(x) < len)
  BY <1>1, <1>3, SMTT(30) DEF ensureWritableBytes
<1> QED
  BY <1>2, <1>3

LEMMA AppendKeeps ==
    ASSUME NEW x, Good(x), NEW d \in Seq(Bytes)
    PROVE  Good(append(x, d)) /\ Contents(append(x, d)) = Contents(x) \o d
<1>1. PICK y : y = ensureWritableBytes(x, Len(d))
  OBVIOUS
<1>2. Good(y) /\ Contents(y) = Contents(x) /\ Len(d) <= writableBytes(y)
  BY <1>1, EnsureKeeps, LenProperties
<1>3. Good(Written(y, d)) /\ Contents(Written(y, d)) = Contents(y) \o d
  BY <1>2, WrittenKeeps
<1> QED
  BY <1>1, <1>2, <1>3 DEF append

LEMMA PrependKeeps ==
    ASSUME NEW x, Good(x), NEW d \in Seq(Bytes), Len(d) <= prependableBytes(x)
    PROVE  Good(prepend(x, d)) /\ Contents(prepend(x, d)) = d \o Contents(x)
<1>1. /\ x.buf \in Seq(Bytes) /\ x.r \in Nat /\ x.w \in Nat /\ Len(x.buf) \in Nat
      /\ x.r <= x.w /\ x.w <= Len(x.buf) /\ CheapPrepend <= Len(x.buf) /\ Len(d) \in Nat
      /\ Len(d) <= x.r /\ x = [buf |-> x.buf, r |-> x.r, w |-> x.w]
  BY GoodParts, SMTT(30) DEF prependableBytes
<1>2. PICK r : r = x.r - Len(d)
  OBVIOUS
<1>3. r \in Nat /\ r + Len(d) = x.r /\ r + Len(d) <= Len(x.buf) /\ r <= x.w
  BY <1>1, <1>2, SMTT(30)
<1>4. PICK buf : buf = Copied(x.buf, r, d)
  OBVIOUS
<1>5. /\ buf \in Seq(Bytes) /\ Len(buf) = Len(x.buf)
      /\ \A i \in 1..Len(d) : buf[r + i] = d[i]
      /\ \A i \in 1..Len(x.buf) : (i <= r \/ i > r + Len(d)) => buf[i] = x.buf[i]
  BY <1>1, <1>3, <1>4, CopiedBytes, SMTT(30)
<1>6. PICK y : y = prepend(x, d)
  OBVIOUS
<1>7. y = [buf |-> buf, r |-> r, w |-> x.w]
  BY <1>1, <1>2, <1>4, <1>6 DEF prepend
<1>8. Good(y) /\ readableBytes(y) = x.w - r
  BY <1>1, <1>3, <1>5, <1>7, MadeGood
<1>9. /\ Contents(x) \in Seq(Bytes) /\ Len(Contents(x)) = x.w - x.r
      /\ \A i \in 1..(x.w - x.r) : Contents(x)[i] = x.buf[x.r + i]
  BY ContentsBytes DEF readableBytes
<1>10. /\ Contents(y) \in Seq(Bytes) /\ Len(Contents(y)) = x.w - r
       /\ \A i \in 1..(x.w - r) : Contents(y)[i] = buf[r + i]
  BY <1>7, <1>8, ContentsBytes
<1>11. \A i \in 1..Len(d) : Contents(y)[i] = d[i]
  <2>1. \A i \in 1..Len(d) : i \in 1..(x.w - r)
    BY <1>1, <1>3, SMTT(30)
  <2> QED
    BY <1>5, <1>10, <2>1
<1>12. \A i \in 1..(x.w - x.r) : Contents(y)[Len(d) + i] = Contents(x)[i]
  <2>1. \A i \in 1..(x.w - x.r) : /\ Len(d) + i \in 1..(x.w - r) /\ r + (Len(d) + i) = x.r + i
                                  /\ x.r + i \in 1..Len(x.buf) /\ x.r + i > r + Len(d)
    <3>1. /\ x.r \in Nat /\ x.w \in Nat /\ Len(x.buf) \in Nat /\ x.w <= Len(x.buf)
          /\ Len(d) \in Nat /\ r \in Nat /\ r + Len(d) = x.r
      BY <1>1, <1>3
    <3> QED
      BY <3>1, SMTT(30)
  <2> SUFFICES ASSUME NEW i \in 1..(x.w - x.r)
               PROVE  Contents(y)[Len(d) + i] = Contents(x)[i]
    OBVIOUS
  <2>2. Contents(y)[Len(d) + i] = buf[r + (Len(d) + i)]
    BY <1>10, <2>1
  <2>3. buf[x.r + i] = x.buf[x.r + i]
    BY <1>5, <2>1
  <2> QED
    BY <1>9, <2>1, <2>2, <2>3
<1>13. Len(Contents(y)) = Len(d) + Len(Contents(x))
  BY <1>1, <1>3, <1>9, <1>10, SMTT(30)
<1>14. Joins(d, Contents(x), Contents(y))
  BY <1>9, <1>10, <1>11, <1>12, <1>13 DEF Joins
<1> QED
  BY <1>6, <1>8, <1>14, Concatenated

\* Nothing is left, and the indexes go back to the start.
LEMMA RetrieveAllKeeps ==
    ASSUME NEW x, Good(x)
    PROVE  Good(retrieveAll(x)) /\ Contents(retrieveAll(x)) = <<>>
<1>1. retrieveAll(x) = [buf |-> x.buf, r |-> CheapPrepend, w |-> CheapPrepend]
  <2>1. x = [buf |-> x.buf, r |-> x.r, w |-> x.w]
    BY GoodParts
  <2>2. PICK y : y = retrieveAll(x)
    OBVIOUS
  <2>3. y = [buf |-> x.buf, r |-> CheapPrepend, w |-> CheapPrepend]
    BY <2>1, <2>2 DEF retrieveAll
  <2> QED
    BY <2>2, <2>3
<1>2. Good(retrieveAll(x)) /\ readableBytes(retrieveAll(x)) = 0
  BY <1>1, GoodParts, MadeGood, SMTT(30)
<1>3. Contents(retrieveAll(x)) \in Seq(Bytes) /\ Len(Contents(retrieveAll(x))) = 0
  BY <1>2, ContentsBytes
<1> QED
  BY <1>2, <1>3, EmptySeq

LEMMA RetrieveKeeps ==
    ASSUME NEW x, Good(x), NEW len \in 0..readableBytes(x)
    PROVE  /\ Good(retrieve(x, len))
           /\ Contents(retrieve(x, len)) = SubSeq(Contents(x), len + 1, readableBytes(x))
<1>1. /\ x.buf \in Seq(Bytes) /\ x.r \in Nat /\ x.w \in Nat /\ Len(x.buf) \in Nat
      /\ x.r <= x.w /\ x.w <= Len(x.buf) /\ CheapPrepend <= Len(x.buf)
      /\ x = [buf |-> x.buf, r |-> x.r, w |-> x.w]
  BY GoodParts
<1>2. PICK n : n = readableBytes(x)
  OBVIOUS
<1>3. n = x.w - x.r /\ n \in Nat /\ len \in 0..n
  BY <1>1, <1>2, SMTT(30) DEF readableBytes
<1>4. /\ Contents(x) \in Seq(Bytes) /\ Len(Contents(x)) = n
      /\ \A i \in 1..n : Contents(x)[i] = x.buf[x.r + i] /\ Contents(x)[i] \in Bytes
  BY <1>2, ContentsBytes
<1>5. CASE len < n
  <2>1. PICK y : y = retrieve(x, len)
    OBVIOUS
  <2>2. y = [buf |-> x.buf, r |-> x.r + len, w |-> x.w]
    BY <1>1, <1>2, <1>5, <2>1 DEF retrieve
  <2>3. Good(y) /\ readableBytes(y) = n - len
    <3>1. x.r + len \in Nat /\ x.r + len <= x.w /\ x.w - (x.r + len) = n - len
      BY <1>1, <1>3, SMTT(30)
    <3> QED
      BY <1>1, <2>2, <3>1, MadeGood
  <2>4. /\ Contents(y) \in Seq(Bytes) /\ Len(Contents(y)) = n - len
        /\ \A i \in 1..(n - len) : Contents(y)[i] = x.buf[(x.r + len) + i]
    BY <2>2, <2>3, ContentsBytes
  <2>5. PICK s : s = SubSeq(Contents(x), len + 1, n)
    OBVIOUS
  <2>6. /\ s \in Seq(Bytes) /\ Len(s) = n - len
        /\ \A i \in 1..(n - len) : s[i] = Contents(x)[len + i]
    <3> DEFINE m == len + 1
    <3>1. m \in Int /\ n \in Int /\ \A i \in m..n : Contents(x)[i] \in Bytes
      BY <1>3, <1>4, SMTT(30)
    <3>2. /\ m <= n /\ n - m + 1 = n - len /\ \A i \in 1..(n - len) : m + i - 1 = len + i
      BY <1>3, <1>5, SMTT(30)
    <3>3. /\ s \in Seq(Bytes) /\ Len(s) = (IF m <= n THEN n - m + 1 ELSE 0)
          /\ \A i \in 1..(n - m + 1) : s[i] = Contents(x)[m + i - 1]
      <4>1. s = SubSeq(Contents(x), m, n)
        BY <2>5
      <4> HIDE DEF m
      <4> QED
        BY <3>1, <4>1, SubSeqProperties, SMTT(30)
    <3> QED
      BY <3>2, <3>3
  <2>7. \A i \in 1..(n - len) : Contents(y)[i] = s[i]
    <3> SUFFICES ASSUME NEW i \in 1..(n - len) PROVE Contents(y)[i] = s[i]
      OBVIOUS
    <3>1. len + i \in 1..n /\ x.r + (len + i) = (x.r + len) + i
      BY <1>1, <1>3, SMTT(30)
    <3>2. s[i] = x.buf[x.r + (len + i)]
      BY <1>4, <2>6, <3>1
    <3> QED
      BY <2>4, <3>1, <3>2
  <2>8. Contents(y) = s
    BY <2>4, <2>6, <2>7, SeqEqual
  <2> QED
    BY <1>2, <2>1, <2>3, <2>5, <2>8
<1>6. CASE ~(len < n)
  <2>1. len = n /\ n + 1 \in Int /\ n \in Int /\ n < n + 1
    BY <1>3, <1>6, SMTT(30)
  <2>2. SubSeq(Contents(x), len + 1, n) = <<>>
    BY <2>1, SubSeqEmpty
  <2>3. retrieve(x, len) = retrieveAll(x)
    BY <1>2, <1>6 DEF retrieve
  <2> QED
    BY <1>2, <2>2, <2>3, RetrieveAllKeeps
<1> QED
  BY <1>5, <1>6

\* What readv() put into the buffer comes before what it put into extrabuf.
LEMMA ReadKeeps ==
    ASSUME NEW x, Good(x), NEW d \in Seq(Bytes)
    PROVE  Good(readFd(x, d)) /\ Contents(readFd(x, d)) = Contents(x) \o d
<1>1. PICK n : n = writableBytes(x)
  OBVIOUS
<1>2. n \in Nat /\ Len(d) \in Nat
  BY <1>1, GoodParts, SMTT(30) DEF writableBytes
<1>3. CASE Len(d) <= n
  BY <1>1, <1>3, WrittenKeeps DEF readFd
<1>4. CASE ~(Len(d) <= n)
  <2>1. PICK head, rest : head = SubSeq(d, 1, n) /\ rest = SubSeq(d, n + 1, Len(d))
    OBVIOUS
  <2>2. head \in Seq(Bytes) /\ Len(head) = n /\ \A i \in 1..n : d[i] = head[i]
    <3>1. \A i \in 1..n : d[i] \in Bytes
      BY <1>2, <1>4, SMTT(30)
    <3>2. /\ SubSeq(d, 1, n) \in Seq(Bytes) /\ Len(SubSeq(d, 1, n)) = (IF 1 <= n THEN n - 1 + 1 ELSE 0)
          /\ \A i \in 1..(n - 1 + 1) : SubSeq(d, 1, n)[i] = d[1 + i - 1]
      BY <1>2, <3>1, SubSeqProperties, SMTT(30)
    <3>3. n - 1 + 1 = n /\ (1 <= n \/ n = 0) /\ \A i \in 1..n : 1 + i - 1 = i
      BY <1>2, SMTT(30)
    <3> QED
      BY <2>1, <3>2, <3>3
  <2>3. /\ rest \in Seq(Bytes) /\ Len(rest) = Len(d) - n
        /\ \A i \in 1..(Len(d) - n) : d[n + i] = rest[i]
    <3> DEFINE m == n + 1
    <3>1. m \in Int /\ Len(d) \in Int /\ \A i \in m..Len(d) : d[i] \in Bytes
      BY <1>2, SMTT(30)
    <3>2. m <= Len(d) /\ Len(d) - m + 1 = Len(d) - n /\ \A i \in 1..(Len(d) - n) : m + i - 1 = n + i
      BY <1>2, <1>4, SMTT(30)
    <3>3. /\ rest \in Seq(Bytes) /\ Len(rest) = (IF m <= Len(d) THEN Len(d) - m + 1 ELSE 0)
          /\ \A i \in 1..(Len(d) - m + 1) : rest[i] = d[m + i - 1]
      <4>1. rest = SubSeq(d, m, Len(d))
        BY <2>1
      <4> HIDE DEF m
      <4> QED
        BY <3>1, <4>1, SubSeqProperties, SMTT(30)
    <3> QED
      BY <3>2, <3>3
  <2>4. d = head \o rest
    <3>1. Joins(head, rest, d)
      <4>1. Len(d) = Len(head) + Len(rest)
        BY <1>2, <2>2, <2>3, SMTT(30)
      <4>2. \A i \in 1..Len(rest) : d[Len(head) + i] = rest[i]
        BY <2>2, <2>3
      <4> QED
        BY <2>2, <2>3, <4>1, <4>2 DEF Joins
    <3> QED
      BY <3>1, Concatenated
  <2>5. PICK y : y = Written(x, head)
    OBVIOUS
  <2>6. Good(y) /\ Contents(y) = Contents(x) \o head
    <3>1. Len(head) <= writableBytes(x)
      BY <1>1, <1>2, <2>2, SMTT(30)
    <3> QED
      BY <2>2, <2>5, <3>1, WrittenKeeps
  <2>7. Good(append(y, rest)) /\ Contents(append(y, rest)) = Contents(y) \o rest
    BY <2>3, <2>6, AppendKeeps
  <2>8. readFd(x, d) = append(y, rest)
    BY <1>1, <1>4, <2>1, <2>5 DEF readFd
  <2>9. Contents(y) \o rest = Contents(x) \o d
    <3>1. Contents(x) \in Seq(Bytes)
      BY ContentsBytes
    <3>2. PICK c, z : c = Contents(x) /\ z = Contents(y)
      OBVIOUS
    <3>3. c \in Seq(Bytes) /\ z = c \o head
      BY <2>6, <3>1, <3>2
    <3>4. z \o rest = c \o d
      <4>1. c \in Seq(Bytes) /\ head \in Seq(Bytes) /\ rest \in Seq(Bytes)
        BY <2>2, <2>3, <3>3
      <4>2. PICK e : e = z \o rest
        OBVIOUS
      <4>3. Joined(c, head, z) /\ Joined(head, rest, d) /\ Joined(z, rest, e)
        BY <2>4, <3>3, <4>2 DEF Joined
      <4>4. Joined(c, d, e)
        BY <4>1, <4>3, Associates, SMTT(30)
      <4> QED
        BY <4>2, <4>4 DEF Joined
    <3> QED
      BY <3>2, <3>4
  <2> QED
    BY <2>7, <2>8, <2>9
<1> QED
  BY <1>3, <1>4

-----------------------------------------------------------------------------
\* Every operation leaves the indexes in order.
LEMMA GoodStep == Good(b) /\ [Next]_b => Good(b)'
<1> SUFFICES ASSUME Good(b), [Next]_b PROVE Good(b')
  BY DEF Good
<1>1. ASSUME NEW d \in Data PROVE d \in Seq(Bytes)
  <2>1. PICK n \in 0..MaxLen : d \in [1..n -> Bytes]
    BY DEF Data
  <2> QED
    BY <2>1, SizesAssumption, SMTT(30)
<1>2. ASSUME NEW d \in Data, AppendBytes(d) PROVE Good(b')
  BY <1>1, <1>2, AppendKeeps DEF AppendBytes
<1>3. ASSUME NEW d \in Data, Prepend(d) PROVE Good(b')
  BY <1>1, <1>3, PrependKeeps DEF Prepend
<1>4. ASSUME NEW d \in Data, ReadFd(d) PROVE Good(b')
  BY <1>1, <1>4, ReadKeeps DEF ReadFd
<1>5. ASSUME NEW len \in 0..MaxReadable, Retrieve(len) PROVE Good(b')
  <2>1. readableBytes(b) \in Nat /\ MaxReadable \in Nat
    BY ContentsBytes, SizesAssumption
  <2>2. len \in 0..readableBytes(b) /\ b' = retrieve(b, len)
    BY <1>5, <2>1, SMTT(30) DEF Retrieve
  <2> QED
    BY <2>2, RetrieveKeeps
<1>6. ASSUME NEW len \in 0..MaxLen, EnsureWritable(len) PROVE Good(b')
  <2>1. len \in Nat
    BY SizesAssumption, SMTT(30)
  <2> QED
    BY <1>6, <2>1, EnsureKeeps DEF EnsureWritable
<1>7. CASE RetrieveAll
  BY <1>7, RetrieveAllKeeps DEF RetrieveAll
<1>8. CASE UNCHANGED b
  BY <1>8
<1> QED
  BY <1>2, <1>3, <1>4, <1>5, <1>6, <1>7, <1>8 DEF Next

\* For every size of the vector, of the header's room and of extrabuf: append(),
\* prepend(), retrieve(), ensureWritableBytes() and readFd() always do to the
\* contents what they say, and makeSpace()'s assertions hold.
THEOREM OperationsKeepStreamHolds == Spec => []OperationsKeepStream
<1>1. Init => Good(b)
  <2> SUFFICES ASSUME Init PROVE Good(b)
    OBVIOUS
  <2>1. CheapPrepend \in Nat /\ InitialSize \in Nat /\ Zero \in Bytes
    BY SizesAssumption, BytesAssumption DEF Zero
  <2>2. PICK buf : buf = [i \in 1..(CheapPrepend + InitialSize) |-> Zero]
    OBVIOUS
  <2>3. buf \in [1..(CheapPrepend + InitialSize) -> Bytes]
    BY <2>1, <2>2
  <2>4. buf \in Seq(Bytes) /\ Len(buf) = CheapPrepend + InitialSize
    BY <2>1, <2>3, SMTT(30)
  <2>5. b = [buf |-> buf, r |-> CheapPrepend, w |-> CheapPrepend]
    BY <2>2 DEF Init, Empty
  <2> QED
    BY <2>1, <2>4, <2>5, MadeGood, SMTT(30)
<1>2. Good(b) => OperationsKeepStream
  <2> SUFFICES ASSUME Good(b) PROVE OperationsKeepStream
    OBVIOUS
  <2>1. IndexesInOrder
    BY GoodParts, SMTT(30) DEF IndexesInOrder
  <2>2. SpaceAsserted
    <3> SUFFICES ASSUME NEW len \in 0..(MaxLen + CheapPrepend), writableBytes(b) < len
                 PROVE  (~MustGrow(b, len) => CheapPrepend < b.r) /\ writableBytes(makeSpace(b, len)) >= len
      BY DEF SpaceAsserted
    <3>1. len \in Nat
      BY SizesAssumption, SMTT(30)
    <3> QED
      BY <3>1, SpaceKeeps
  <2>3. ASSUME NEW d \in Data
        PROVE  /\ Contents(append(b, d)) = Contents(b) \o d
               /\ Contents(readFd(b, d)) = Contents(b) \o d
               /\ Len(d) <= prependableBytes(b) => Contents(prepend(b, d)) = d \o Contents(b)
    <3>1. d \in Seq(Bytes)
      <4>1. PICK n \in 0..MaxLen : d \in [1..n -> Bytes]
        BY DEF Data
      <4> QED
        BY <4>1, SizesAssumption, SMTT(30)
    <3> QED
      BY <3>1, AppendKeeps, ReadKeeps, PrependKeeps
  <2>4. \A len \in 0..readableBytes(b) :
           Contents(retrieve(b, len)) = SubSeq(Contents(b), len + 1, readableBytes(b))
    BY RetrieveKeeps
  <2>5. \A len \in 0..MaxLen : Contents(ensureWritableBytes(b, len)) = Contents(b)
    <3>1. \A len \in 0..MaxLen : len \in Nat
      BY SizesAssumption, SMTT(30)
    <3> QED
      BY <3>1, EnsureKeeps
  <2> QED
    BY <2>1, <2>2, <2>3, <2>4, <2>5 DEF OperationsKeepStream
<1> QED
  BY <1>1, <1>2, GoodStep, PTL DEF Spec
=============================================================================
