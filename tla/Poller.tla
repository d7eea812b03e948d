------------------------------- MODULE Poller -------------------------------
(***************************************************************************)
(* src/Poller.cpp, src/Channel.cpp: what a loop watches.  A channel keeps  *)
(* its interest, the poller its map of channels and epoll its own table of *)
(* descriptors; a channel's index_ is the poller's only memory of what     *)
(* epoll was told.                                                         *)
(***************************************************************************)
EXTENDS Integers, FiniteSets, Functions

CONSTANTS Channels, Fds,
          InitEventListSize  \* kInitEventListSize

ASSUME ListAssumption == InitEventListSize \in Nat \ {0}
ASSUME WatchedAssumption == IsFiniteSet(Channels) /\ IsFiniteSet(Fds)

VARIABLES chan,      \* the Channel objects: fd_, events_, index_, addedToLoop_
          channels_, \* the poller's map from descriptors to channels
          epoll,     \* the kernel's: events and data.ptr of each descriptor
          listSize,  \* events_.size()
          missed,    \* per descriptor, how often a poll left it out though ready
          aborted    \* epoll_ctl() failed to add or to modify

pollVars == <<chan, channels_, epoll, listSize, missed, aborted>>

None == [fd |-> "none"]
Exists(c) == chan[c] # None
Erased(f, x) == Restrict(f, DOMAIN f \ {x})
Put(f, x, v) == [y \in DOMAIN f \cup {x} |-> IF y = x THEN v ELSE f[y]]

PollInit ==
    /\ chan = [c \in Channels |-> None]
    /\ channels_ = <<>>
    /\ epoll = <<>>
    /\ listSize = InitEventListSize
    /\ missed = [fd \in Fds |-> 0]
    /\ aborted = FALSE

-----------------------------------------------------------------------------
\* update(): epoll refuses to add a descriptor twice and to modify or delete one
\* it does not have; only the failure to delete is survived.
update(op, c, fd, events) ==
    LET refused == \/ op = "add" /\ fd \in DOMAIN epoll
                   \/ op = "mod" /\ fd \notin DOMAIN epoll
    IN  /\ epoll' = IF op = "del" THEN Erased(epoll, fd)
                    ELSE IF refused THEN epoll
                    ELSE Put(epoll, fd, [ptr |-> c, events |-> events])
        /\ aborted' = (aborted \/ refused)

\* Mutant: a channel that lost its interest is remembered as registered.
updateChannelBug(c, events) ==
    LET fd == chan[c].fd
        op == IF chan[c].index \in {-1, 2} THEN "add" ELSE IF events = {} THEN "del" ELSE "mod"
    IN  /\ update(op, c, fd, events)
        /\ chan' = [chan EXCEPT ![c].events = events, ![c].added = TRUE, ![c].index = 1]
        /\ channels_' = Put(channels_, fd, c)

\* Poller::updateChannel() for a channel whose events_ are now `events'.
updateChannel(c, events) ==
    LET fd == chan[c].fd
    IN  IF chan[c].index \in {-1, 2}
        THEN IF events = {}
             THEN /\ chan' = [chan EXCEPT ![c].events = events, ![c].added = TRUE]
                  /\ UNCHANGED <<channels_, epoll, aborted>>
             ELSE /\ update("add", c, fd, events)
                  /\ chan' = [chan EXCEPT ![c].events = events, ![c].added = TRUE, ![c].index = 1]
                  /\ channels_' = Put(channels_, fd, c)
        ELSE /\ update(IF events = {} THEN "del" ELSE "mod", c, fd, events)
             /\ chan' = [chan EXCEPT ![c].events = events, ![c].added = TRUE,
                                     ![c].index = IF events = {} THEN 2 ELSE 1]
             /\ UNCHANGED channels_

\* Channel::enableReading() and its kin: the interest changes, then update().
ChangeInterest(c, events) ==
    /\ Exists(c)
    /\ IF ~chan[c].added /\ events = {}
       THEN /\ chan' = [chan EXCEPT ![c].events = events]
            /\ UNCHANGED <<channels_, epoll, aborted>>
       ELSE updateChannel(c, events)
    /\ UNCHANGED <<listSize, missed>>

Enable(c, e) == Exists(c) /\ ChangeInterest(c, chan[c].events \cup {e})
Disable(c, e) == Exists(c) /\ ChangeInterest(c, chan[c].events \ {e})
DisableAll(c) == ChangeInterest(c, {})

\* What removeChannel() asserts before it changes anything.
RemoveAsserts(c) ==
    /\ chan[c].fd \in DOMAIN channels_
    /\ channels_[chan[c].fd] = c
    /\ chan[c].events = {}
    /\ chan[c].index \in {1, 2}

\* Channel::remove(), removeChannel().  Every owner calls disableAll() before.
RemoveChannel(c) ==
    /\ Exists(c) /\ chan[c].events = {}
    /\ IF chan[c].added
       THEN /\ channels_' = Erased(channels_, chan[c].fd)
            /\ chan' = [chan EXCEPT ![c].added = FALSE, ![c].index = -1]
            /\ IF chan[c].index = 1 THEN update("del", c, chan[c].fd, {})
               ELSE UNCHANGED <<epoll, aborted>>
       ELSE UNCHANGED <<chan, channels_, epoll, aborted>>
    /\ UNCHANGED <<listSize, missed>>

\* Channel::Channel() on a descriptor just opened: the kernel reuses numbers.
Create(c, fd) ==
    /\ ~Exists(c)
    /\ \A o \in Channels : Exists(o) => chan[o].fd # fd
    /\ chan' = [chan EXCEPT ![c] = [fd |-> fd, events |-> {}, index |-> -1, added |-> FALSE]]
    /\ UNCHANGED <<channels_, epoll, listSize, missed, aborted>>

\* The owner deletes the channel it removed and closes its descriptor.
Destroy(c) ==
    /\ Exists(c) /\ ~chan[c].added
    /\ chan' = [chan EXCEPT ![c] = None]
    /\ UNCHANGED <<channels_, epoll, listSize, missed, aborted>>

PollEvents == {"read", "write"}

\* epoll_wait() found `ready' and had room to report `reported'.
Reports(ready, reported) ==
    /\ reported \subseteq ready
    /\ Cardinality(reported) = IF Cardinality(ready) < listSize THEN Cardinality(ready) ELSE listSize

\* Mutant: the list of events keeps its size.
NewListSizeBug(reported) == listSize

NewListSize(reported) ==
    IF reported # {} /\ Cardinality(reported) = listSize THEN 2 * listSize ELSE listSize

\* Poller::poll().
Poll(ready, reported) ==
    /\ Reports(ready, reported)
    /\ listSize' = NewListSize(reported)
    /\ missed' = [fd \in Fds |-> IF fd \in ready \ reported THEN missed[fd] + 1 ELSE missed[fd]]
    /\ UNCHANGED <<chan, channels_, epoll, aborted>>

\* The user of the poller is one thread; it stops once every poll sees all.
PollNext ==
    /\ ~aborted
    /\ \/ \E c \in Channels, e \in PollEvents : Enable(c, e) \/ Disable(c, e)
       \/ \E c \in Channels : DisableAll(c) \/ RemoveChannel(c) \/ Destroy(c)
       \/ \E c \in Channels, fd \in Fds : Create(c, fd)
       \/ /\ listSize <= Cardinality(Fds)
          /\ \E ready \in SUBSET DOMAIN epoll : \E reported \in SUBSET ready : Poll(ready, reported)

PollSpec == PollInit /\ [][PollNext]_pollVars

-----------------------------------------------------------------------------
(* Properties.                                                             *)

\* Through any sequence of interest changes, removals and reuse of descriptors,
\* epoll watches exactly what the channels ask for, with a pointer to the live
\* channel; the poller's map has exactly the channels added to the loop, so
\* removeChannel()'s assertions hold whenever Channel::remove() gets there, and
\* epoll_ctl() is never given an operation that would abort the process.
RegistrationAgrees ==
    /\ ~aborted
    /\ \A fd \in Fds, c \in Channels : Exists(c) /\ chan[c].fd = fd =>
           /\ fd \in DOMAIN epoll <=> chan[c].events # {}
           /\ fd \in DOMAIN epoll => epoll[fd] = [ptr |-> c, events |-> chan[c].events]
           /\ chan[c].added /\ chan[c].events = {} => RemoveAsserts(c)
    /\ \A fd \in DOMAIN epoll \cup DOMAIN channels_ : \E c \in Channels : Exists(c) /\ chan[c].fd = fd

\* What makes it inductive: index_ remembers exactly what epoll and the map were
\* told of the channel, and no two channels share a descriptor.
Registered(c) ==
    /\ chan[c].added <=> chan[c].index # -1
    /\ chan[c].events # {} <=> chan[c].index = 1
    /\ chan[c].fd \in DOMAIN epoll <=> chan[c].index = 1
    /\ chan[c].index = 1 => epoll[chan[c].fd] = [ptr |-> c, events |-> chan[c].events]
    /\ chan[c].fd \in DOMAIN channels_ <=> chan[c].index # -1
    /\ chan[c].index # -1 => channels_[chan[c].fd] = c

ChannelObject == [fd : Fds, events : SUBSET PollEvents, index : {-1, 1, 2}, added : BOOLEAN]

PollIndInv ==
    /\ chan \in [Channels -> ChannelObject \cup {None}]
    /\ ~aborted
    /\ \A c, d \in Channels : Exists(c) /\ Exists(d) /\ chan[c].fd = chan[d].fd => c = d
    /\ \A c \in Channels : Exists(c) => Registered(c)
    /\ \A fd \in DOMAIN epoll \cup DOMAIN channels_ : \E c \in Channels : Exists(c) /\ chan[c].fd = fd

\* A ready descriptor is left out of a poll only a bounded number of times,
\* whichever ones the kernel prefers: each time the list of events was full and
\* has doubled (poll's resize), until it holds all of them.
ReadyNotStarved == \A fd \in Fds : InitEventListSize * 2^missed[fd] <= listSize
=============================================================================
