-------------------------- MODULE TimerQueueProofs --------------------------
(* Whatever the number of timers, addresses and threads: the two sets agree, *)
(* a cancelled timer does not come back, and a stale TimerId is harmless.    *)
EXTENDS TimerQueue, WellFoundedInduction, TLAPS

\* A leaf is tried with Zenon, then SMT, unless it names its prover.
USE ZenonT(30), SMTT(30)

-----------------------------------------------------------------------------
(* Arithmetic, order and sequences.                                        *)

\* A sequence is a function on an interval; so are its extension, its parts and
\* the concatenation of two.
LEMMA SeqFacts ==
    ASSUME NEW S, NEW s \in Seq(S)
    PROVE  Len(s) \in Nat /\ DOMAIN s = 1..Len(s) /\ \A i \in DOMAIN s : s[i] \in S
  BY SMTT(30)

LEMMA AppendFacts ==
    ASSUME NEW S, NEW s \in Seq(S), NEW e \in S
    PROVE  /\ Append(s, e) \in Seq(S) /\ Len(Append(s, e)) = Len(s) + 1
           /\ \A i \in 1..Len(s) : Append(s, e)[i] = s[i]
           /\ Append(s, e)[Len(s) + 1] = e
  BY SMTT(30)

LEMMA SubSeqFacts ==
    ASSUME NEW S, NEW s, NEW m \in Int, NEW n \in Int, \A i \in m..n : s[i] \in S
    PROVE  /\ SubSeq(s, m, n) \in Seq(S)
           /\ Len(SubSeq(s, m, n)) = IF m <= n THEN n - m + 1 ELSE 0
           /\ \A i \in 1..(n - m + 1) : SubSeq(s, m, n)[i] = s[m + i - 1]
<1>1. SubSeq(s, m, n) \in Seq(S)
  BY SMTT(30)
<1>2. Len(SubSeq(s, m, n)) = IF m <= n THEN n - m + 1 ELSE 0
  BY SMTT(30)
<1>3. \A i \in 1..(n - m + 1) : SubSeq(s, m, n)[i] = s[m + i - 1]
  BY SMTT(30)
<1> QED BY <1>1, <1>2, <1>3

LEMMA ConcatFacts ==
    ASSUME NEW S, NEW s \in Seq(S), NEW t \in Seq(S)
    PROVE  /\ s \o t \in Seq(S) /\ Len(s \o t) = Len(s) + Len(t)
           /\ \A i \in 1..(Len(s) + Len(t)) :
                 (s \o t)[i] = IF i <= Len(s) THEN s[i] ELSE t[i - Len(s)]
  BY SMTT(30)

\* A set of natural numbers has a least member.
LEMMA Least ==
    ASSUME NEW T \in SUBSET Nat, T # {}
    PROVE  \E m \in T : \A n \in T : m <= n
<1> DEFINE R == {rr \in Nat \X Nat : rr[1] < rr[2]}
<1>1. IsWellFoundedOn(R, Nat)
  <2>1. R = OpToRel(<, Nat)
    BY DEF OpToRel
  <2> QED BY <2>1, NatLessThanWellFounded
<1>2. PICK m \in T : \A n \in T : ~(<<n, m>> \in R)
  <2> HIDE DEF R
  <2> QED BY <1>1, WFMin
<1>3. ASSUME NEW n \in T PROVE m <= n
  <2>1. m \in Nat /\ n \in Nat
    OBVIOUS
  <2>2. ~(n < m)
    BY <1>2, <2>1
  <2> QED BY <2>1, <2>2, SMTT(30)
<1> QED BY <1>3

\* timers_.begin() of a set that is not empty is one of its entries, and none of
\* them expires earlier.
LEMMA BeginIn ==
    ASSUME NEW S \in SUBSET (Nat \X Addr), S # {}
    PROVE  Begin(S) \in S /\ \A d \in S : Begin(S)[1] <= d[1]
<1> DEFINE Firsts == {e[1] : e \in S}
<1>1. PICK m \in Firsts : \A n \in Firsts : m <= n
  <2>1. Firsts \subseteq Nat /\ Firsts # {}
    OBVIOUS
  <2> HIDE DEF Firsts
  <2> QED BY <2>1, Least
<1> DEFINE Seconds == {e[2] : e \in {d \in S : d[1] = m}}
<1>2. PICK a \in Seconds : \A b \in Seconds : a <= b
  <2>1. Seconds \subseteq Nat /\ Seconds # {}
    BY <1>1, TimeAssumption
  <2> HIDE DEF Seconds
  <2> QED BY <2>1, Least
<1>3. PICK e \in S : e[1] = m /\ e[2] = a
  BY <1>2
<1>4. \A d \in S : e[1] < d[1] \/ (e[1] = d[1] /\ e[2] <= d[2])
  <2> SUFFICES ASSUME NEW d \in S PROVE e[1] < d[1] \/ (e[1] = d[1] /\ e[2] <= d[2])
    OBVIOUS
  <2>1. d[1] \in Firsts /\ m <= d[1] /\ m \in Nat /\ d[1] \in Nat
    BY <1>1
  <2>2. d[1] = m => a <= d[2]
    BY <1>2
  <2> QED BY <1>3, <2>1, <2>2, SMTT(30)
<1> DEFINE b == Begin(S)
<1>5. b \in S /\ \A d \in S : b[1] < d[1] \/ (b[1] = d[1] /\ b[2] <= d[2])
  BY <1>4 DEF Begin
<1> HIDE DEF b
<1>6. ASSUME NEW d \in S PROVE b[1] <= d[1]
  <2>1. b[1] \in Nat /\ d[1] \in Nat
    BY <1>5
  <2> QED BY <1>5, <2>1, SMTT(30)
<1> QED BY <1>5, <1>6 DEF b

\* Quotients of natural numbers are natural numbers.
LEMMA DivNat ==
    ASSUME NEW a \in Nat, NEW b \in Nat \ {0}
    PROVE  a \div b \in Nat
  BY SMTT(30)

\* A product of natural numbers is one.
LEMMA TimesNat == ASSUME NEW a \in Nat, NEW b \in Nat PROVE a * b \in Nat
  BY SMTT(30)

\* The timerfd is set to a time.
LEMMA FdTyped ==
    ASSUME TypeOK, NEW when \in Nat, resetTimerfd(when)
    PROVE  fdAt' \in Nat /\ fdReadable' \in BOOLEAN
<1> DEFINE q == (when - now) \div TicksPerMicro
           x == MaxOf(MinDelay, q)
<1>1. now \in Nat /\ TicksPerMicro \in Nat \ {0} /\ MinDelay \in Nat
  BY TimeAssumption DEF TypeOK
<1>2. q \in Int
  BY <1>1, SMTT(30)
<1>3. x \in Nat
  <2> HIDE DEF q
  <2> QED BY <1>1, <1>2, SMTT(30) DEF MaxOf
<1>4. fdAt' = now + TicksPerMicro * x /\ fdReadable' = FALSE
  BY DEF resetTimerfd
<1> HIDE DEF x
<1> DEFINE y == TicksPerMicro * x
<1>5. y \in Nat
  BY <1>1, <1>3, TimesNat
<1>6. fdAt' = now + y
  BY <1>4
<1> HIDE DEF y
<1>7. fdAt' \in Nat
  BY <1>1, <1>5, <1>6, SMTT(30)
<1>8. fdReadable' \in BOOLEAN
  BY <1>4
<1> QED BY <1>7, <1>8

\* Timer::restart() changes the expiration only.
LEMMA RestartedTyped ==
    ASSUME NEW timer \in Timer, timer.interval > 0, NEW t \in Nat
    PROVE  /\ Restarted(timer, t) \in Timer
           /\ Restarted(timer, t).seq = timer.seq
<1> DEFINE period == TicksPerMicro * timer.interval
           next == timer.exp + period
           q == (t - next) \div TicksPerMicro
           k == q \div timer.interval
           exp == IF next > t THEN next ELSE next + period * (k + 1)
<1>1. /\ timer.exp \in Nat /\ timer.interval \in Nat \ {0} /\ TicksPerMicro \in Nat \ {0}
      /\ timer = [seq |-> timer.seq, exp |-> timer.exp, interval |-> timer.interval]
      /\ timer.seq \in Seqs /\ timer.interval \in Intervals
  <2>1. /\ timer = [seq |-> timer.seq, exp |-> timer.exp, interval |-> timer.interval]
        /\ timer.exp \in Nat /\ timer.seq \in Seqs /\ timer.interval \in Intervals
    BY DEF Timer
  <2>2. timer.interval \in Nat /\ TicksPerMicro \in Nat \ {0}
    BY <2>1, TimeAssumption
  <2>3. timer.interval \in Nat \ {0}
    BY <2>2, SMTT(30)
  <2> QED BY <2>1, <2>2, <2>3
<1>2. period \in Nat
  BY <1>1, TimesNat
<1> HIDE DEF period
<1>3. next \in Nat
  BY <1>1, <1>2, SMTT(30)
<1> HIDE DEF next
<1>4. exp \in Nat
  <2>1. CASE next > t
    BY <1>3, <2>1
  <2>2. CASE ~(next > t)
    <3>1. t - next \in Nat
      BY <1>3, <2>2, SMTT(30)
    <3>2. q \in Nat
      BY <1>1, <3>1, DivNat
    <3> HIDE DEF q
    <3>3. k \in Nat
      BY <1>1, <3>2, DivNat
    <3> HIDE DEF k
    <3>4. period * (k + 1) \in Nat
      BY <1>2, <3>3, TimesNat, SMTT(30)
    <3> QED BY <1>3, <2>2, <3>4, SMTT(30)
  <2> QED BY <2>1, <2>2
<1>5. Restarted(timer, t) = [timer EXCEPT !.exp = exp]
  BY DEF Restarted, period, next
<1> HIDE DEF exp
<1> QED BY <1>1, <1>4, <1>5 DEF Timer

Functor == [op : {"add", "cancel"}, id : TimerIds, path : Paths]

\* Taking one functor out leaves the others in order.
LEMMA DequeueFacts ==
    ASSUME pending \in Seq(Functor), NEW i \in DOMAIN pending, Dequeue(i)
    PROVE  /\ pending' \in Seq(Functor)
           /\ Len(pending') = Len(pending) - 1
           /\ \A j \in DOMAIN pending' :
                 LET k == IF j < i THEN j ELSE j + 1
                 IN  k \in DOMAIN pending /\ k # i /\ pending'[j] = pending[k]
<1> DEFINE n == Len(pending)
           s == SubSeq(pending, 1, i - 1)
           t == SubSeq(pending, i + 1, n)
<1>1. n \in Nat /\ DOMAIN pending = 1..n /\ i \in 1..n
  BY SeqFacts
<1>2. /\ s \in Seq(Functor) /\ Len(s) = i - 1
      /\ \A j \in 1..(i - 1) : s[j] = pending[j]
  BY <1>1, SubSeqFacts, SMTT(30)
<1>3. /\ t \in Seq(Functor) /\ Len(t) = n - i
      /\ \A j \in 1..(n - i) : t[j] = pending[i + j]
  <2>1. \A j \in (i + 1)..n : pending[j] \in Functor
    BY <1>1, SeqFacts, SMTT(30)
  <2>2. i + 1 \in Int /\ n \in Int
    BY <1>1, SMTT(30)
  <2> HIDE DEF n
  <2>3. /\ t \in Seq(Functor) /\ Len(t) = IF i + 1 <= n THEN n - (i + 1) + 1 ELSE 0
        /\ \A j \in 1..(n - (i + 1) + 1) : t[j] = pending[(i + 1) + j - 1]
    BY <2>1, <2>2, SubSeqFacts, SMTT(30)
  <2> HIDE DEF t
  <2>4. Len(t) = n - i
    BY <1>1, <2>3, SMTT(30)
  <2>5. ASSUME NEW j \in 1..(n - i) PROVE t[j] = pending[i + j]
    <3>1. j \in 1..(n - (i + 1) + 1) /\ (i + 1) + j - 1 = i + j
      BY <1>1, SMTT(30)
    <3> QED BY <2>3, <3>1
  <2> QED BY <2>3, <2>4, <2>5
<1>4. pending' = s \o t
  BY DEF Dequeue
<1> HIDE DEF n, s, t
<1>5. /\ pending' \in Seq(Functor) /\ Len(pending') = n - 1
  <2>1. s \o t \in Seq(Functor) /\ Len(s \o t) = Len(s) + Len(t)
    BY <1>2, <1>3, ConcatFacts
  <2>2. Len(s) + Len(t) = n - 1
    BY <1>1, <1>2, <1>3, SMTT(30)
  <2> QED BY <1>4, <2>1, <2>2
<1>6. DOMAIN pending' = 1..(n - 1)
  BY <1>5, SeqFacts
<1>7. ASSUME NEW j \in 1..(n - 1)
      PROVE  pending'[j] = pending[IF j < i THEN j ELSE j + 1]
  <2>1. pending'[j] = IF j <= i - 1 THEN s[j] ELSE t[j - (i - 1)]
    <3>1. \A k \in 1..(Len(s) + Len(t)) : (s \o t)[k] = IF k <= Len(s) THEN s[k] ELSE t[k - Len(s)]
      BY <1>2, <1>3, ConcatFacts
    <3>2. j \in 1..(Len(s) + Len(t)) /\ Len(s) = i - 1
      BY <1>1, <1>2, <1>3, SMTT(30)
    <3> QED BY <1>4, <3>1, <3>2
  <2>2. CASE j < i
    BY <1>1, <1>2, <2>1, <2>2, SMTT(30)
  <2>3. CASE ~(j < i)
    <3>1. j - (i - 1) \in 1..(n - i) /\ i + (j - (i - 1)) = j + 1
      BY <1>1, <2>3, SMTT(30)
    <3>2. t[j - (i - 1)] = pending[j + 1]
      BY <1>3, <3>1
    <3> QED BY <1>1, <2>1, <2>3, <3>2, SMTT(30)
  <2> QED BY <2>2, <2>3
<1> QED BY <1>1, <1>5, <1>6, <1>7, SMTT(30) DEF n

-----------------------------------------------------------------------------
(* Types.                                                                  *)

\* The queued functors.
LEMMA PendingTyped ==
    ASSUME TypeOK
    PROVE  /\ pending \in Seq(Functor)
           /\ \A i \in DOMAIN pending : pending[i] \in Functor /\ pending[i].id \in TimerIds
<1>1. pending \in Seq(Functor)
  BY DEF TypeOK, Functor
<1>2. DOMAIN pending = 1..Len(pending)
  BY <1>1, SeqFacts
<1>3. \A i \in DOMAIN pending : pending[i] \in Functor
  BY <1>1, <1>2, SeqFacts
<1> QED BY <1>1, <1>3 DEF Functor

\* new Timer(...)
LEMMA NewTimerTyped ==
    ASSUME TypeOK, NEW a, NEW when \in Whens, NEW interval \in Intervals, NewTimer(a, when)
    PROVE  /\ TimerOf(when, interval) \in Timer
           /\ created' \in 0..MaxTimers /\ created + 1 \in Nat
           /\ origin' \in [Seqs -> Nat \cup {None}]
<1>1. /\ created \in Nat /\ created < MaxTimers /\ created' = created + 1
      /\ origin' = [origin EXCEPT ![created + 1] = when]
      /\ when \in Nat /\ MaxTimers \in Nat
  BY TimeAssumption, SMTT(30) DEF NewTimer, TypeOK
<1>2. created + 1 \in Seqs /\ created' \in 0..MaxTimers
  BY <1>1, SMTT(30) DEF Seqs
<1>3. TimerOf(when, interval) \in Timer
  BY <1>1, <1>2 DEF TimerOf, Timer
<1>4. origin' \in [Seqs -> Nat \cup {None}]
  BY <1>1 DEF TypeOK
<1> QED BY <1>1, <1>2, <1>3, <1>4, SMTT(30)

\* addTimerInLoop()
LEMMA AddTyped ==
    ASSUME TypeOK, NEW a \in Addr, NEW timer \in Timer, addTimerInLoop(a, timer)
    PROVE  /\ timers' \subseteq Nat \X Addr /\ active' \subseteq TimerIds
           /\ fdAt' \in Nat \cup {None} /\ fdReadable' \in BOOLEAN
<1>1. timer.exp \in Nat /\ timer.seq \in Nat
  BY TimeAssumption, SMTT(30) DEF Timer, Seqs
<1>2. timers' \subseteq Nat \X Addr /\ active' \subseteq TimerIds
  BY <1>1, SMTT(30) DEF addTimerInLoop, insert, TypeOK, TimerIds
<1>3. resetTimerfd(timer.exp) \/ UNCHANGED fdVars
  BY DEF addTimerInLoop
<1>4. fdAt' \in Nat \cup {None} /\ fdReadable' \in BOOLEAN
  <2>1. CASE resetTimerfd(timer.exp)
    BY <1>1, <2>1, FdTyped
  <2>2. CASE UNCHANGED fdVars
    BY <2>2 DEF fdVars, TypeOK
  <2> QED BY <1>3, <2>1, <2>2
<1> QED BY <1>2, <1>4

\* cancelInLoop()
LEMMA CancelTyped ==
    ASSUME TypeOK, NEW id \in TimerIds, cancelInLoop(id)
    PROVE  /\ timers' \subseteq timers /\ active' \subseteq active
           /\ heap' \in [Addr -> Timer \cup {None}]
           /\ canceling' \subseteq TimerIds
           /\ fdAt' \in Nat \cup {None} /\ fdReadable' \in BOOLEAN
           /\ cancelled' \subseteq TimerIds /\ stopped' \subseteq cancelled'
<1>1. cancelled' \subseteq TimerIds /\ stopped' \subseteq cancelled'
  BY DEF cancelInLoop, TypeOK
<1>2. CASE FindActive(id) # {}
  <2> DEFINE entry == <<heap[id[1]].exp, id[1]>>
             rest == timers \ {entry}
  <2>1. /\ timers' = rest /\ active' \subseteq active
        /\ heap' = [heap EXCEPT ![id[1]] = None] /\ canceling' = canceling
        /\ \/ UNCHANGED fdVars
           \/ rest # {} /\ resetTimerfd(Begin(rest)[1])
           \/ disarmTimerfd
    BY <1>2 DEF cancelInLoop
  <2>2. heap' \in [Addr -> Timer \cup {None}] /\ canceling' \subseteq TimerIds
    BY <2>1 DEF TypeOK
  <2>3. fdAt' \in Nat \cup {None} /\ fdReadable' \in BOOLEAN
    <3>1. CASE UNCHANGED fdVars
      BY <3>1 DEF fdVars, TypeOK
    <3>2. CASE rest # {} /\ resetTimerfd(Begin(rest)[1])
      <4>1. rest \in SUBSET (Nat \X Addr)
        BY DEF TypeOK
      <4> HIDE DEF rest
      <4>2. Begin(rest) \in Nat \X Addr
        BY <3>2, <4>1, BeginIn
      <4>3. Begin(rest)[1] \in Nat
        BY <4>2
      <4> QED BY <3>2, <4>3, FdTyped
    <3>3. CASE disarmTimerfd
      BY <3>3 DEF disarmTimerfd
    <3> QED BY <2>1, <3>1, <3>2, <3>3
  <2> QED BY <1>1, <2>1, <2>2, <2>3
<1>3. CASE FindActive(id) = {}
  <2>1. /\ canceling' = IF calling THEN canceling \cup {id} ELSE canceling
        /\ UNCHANGED <<setVars, heap, fdVars>>
    BY <1>3 DEF cancelInLoop
  <2> QED BY <1>1, <2>1 DEF TypeOK, setVars, fdVars
<1> QED BY <1>2, <1>3

\* Every step keeps the types.
LEMMA TypeStep == IndInv /\ [Next]_vars => TypeOK'
<1> SUFFICES ASSUME IndInv, [Next]_vars PROVE TypeOK'
  OBVIOUS
<1>0. TypeOK
  BY DEF IndInv, SetsAgree
<1> USE DEF fdVars, setVars, batchVars, callerVars, historyVars, cancelVars
<1>1. CASE Tick
  BY <1>0, <1>1, SMTT(30) DEF Tick, TypeOK
<1>2. CASE FdExpires
  BY <1>0, <1>2 DEF FdExpires, TypeOK
<1>3. CASE PollTimer
  BY <1>0, <1>3 DEF PollTimer, TypeOK
<1>4. CASE HandleRead
  BY <1>0, <1>4 DEF HandleRead, TypeOK
<1>5. CASE RunTimer
  BY <1>0, <1>5 DEF RunTimer, TypeOK
<1>6. CASE Reset
  <2> DEFINE again == {e[2] : e \in Kept}
             gone == {e[2] : e \in expired} \ again
             next(a) == Restarted(heap[a], readAt)
  <2>1. /\ heap' = [a \in Addr |-> IF a \in again THEN next(a)
                                   ELSE IF a \in gone THEN None ELSE heap[a]]
        /\ timers' = timers \cup {<<next(a).exp, a>> : a \in again}
        /\ active' = active \cup {<<a, heap[a].seq>> : a \in again}
        /\ (timers' # {} /\ resetTimerfd(Begin(timers')[1])) \/ UNCHANGED fdVars
    BY <1>6 DEF Reset
  <2>2. /\ calling' = FALSE /\ expired' = {} /\ readAt' = 0 /\ toRun' = {}
        /\ UNCHANGED <<now, created, canceling, fdActive, pending, callerVars, ids,
                       cancelVars, historyVars>>
    BY <1>6 DEF Reset
  <2>3. ASSUME NEW a \in again
        PROVE  a \in Addr /\ next(a) \in Timer /\ heap[a].seq \in Nat
    <3>1. PICK e \in expired : e[2] = a /\ heap[a].interval > 0
      BY DEF Kept
    <3>2. a \in Addr /\ heap[a] \in Timer
      BY <1>0, <3>1 DEF IndInv, SetsAgree, Listed, TypeOK
    <3>3. heap[a].seq \in Nat
      BY <3>2, SMTT(30) DEF Timer, Seqs
    <3>4. readAt \in Nat
      BY <1>0 DEF TypeOK
    <3> QED BY <3>1, <3>2, <3>3, <3>4, RestartedTyped
  <2> HIDE DEF again, next
  <2>4. heap' \in [Addr -> Timer \cup {None}]
    BY <1>0, <2>1, <2>3 DEF TypeOK
  <2>5. timers' \subseteq Nat \X Addr
    <3>1. \A a \in again : next(a).exp \in Nat
      BY <2>3 DEF Timer
    <3> QED BY <1>0, <2>1, <2>3, <3>1, SMTT(30) DEF TypeOK
  <2>6. active' \subseteq TimerIds
    BY <1>0, <2>1, <2>3, SMTT(30) DEF TypeOK, TimerIds
  <2>7. fdAt' \in Nat \cup {None} /\ fdReadable' \in BOOLEAN
    <3>1. CASE timers' # {} /\ resetTimerfd(Begin(timers')[1])
      <4>1. Begin(timers') \in Nat \X Addr
        BY <2>5, <3>1, BeginIn
      <4>2. Begin(timers')[1] \in Nat
        BY <4>1
      <4> QED BY <1>0, <3>1, <4>2, FdTyped
    <3>2. CASE UNCHANGED fdVars
      BY <1>0, <3>2 DEF TypeOK
    <3> QED BY <2>1, <3>1, <3>2
  <2> QED BY <1>0, <2>2, <2>4, <2>5, <2>6, <2>7 DEF TypeOK
<1>7. ASSUME NEW i \in DOMAIN pending, RunAdd(i) PROVE TypeOK'
  <2>1. /\ addTimerInLoop(pending[i].id[1], heap[pending[i].id[1]])
        /\ Dequeue(i) /\ i \in Adds
        /\ UNCHANGED <<now, heap, created, batchVars, fdActive, callerVars, ids,
                       cancelVars, historyVars>>
    BY <1>7 DEF RunAdd, Adds
  <2>2. pending \in Seq(Functor) /\ pending[i] \in Functor
    BY <1>0, PendingTyped
  <2>3. pending[i].id[1] \in Addr
    BY <2>2 DEF Functor, TimerIds
  <2>4. heap[pending[i].id[1]] \in Timer
    BY <1>0, <2>1, <2>3 DEF IndInv, OwnersOK, OnItsWay, TypeOK
  <2>5. /\ timers' \subseteq Nat \X Addr /\ active' \subseteq TimerIds
        /\ fdAt' \in Nat \cup {None} /\ fdReadable' \in BOOLEAN
    BY <1>0, <2>1, <2>3, <2>4, AddTyped
  <2>6. pending' \in Seq(Functor)
    BY <2>1, <2>2, DequeueFacts
  <2> QED BY <1>0, <2>1, <2>5, <2>6 DEF TypeOK, Functor
<1>8. ASSUME NEW i \in DOMAIN pending, RunCancel(i) PROVE TypeOK'
  <2>1. /\ cancelInLoop(pending[i].id) /\ Dequeue(i)
        /\ UNCHANGED <<now, created, calling, expired, toRun, readAt, fdActive,
                       callerVars, ids, historyVars>>
    BY <1>8 DEF RunCancel
  <2>2. pending \in Seq(Functor) /\ pending[i].id \in TimerIds
    BY <1>0, PendingTyped
  <2>3. pending' \in Seq(Functor)
    BY <2>1, <2>2, DequeueFacts
  <2>4. /\ timers' \subseteq timers /\ active' \subseteq active
        /\ heap' \in [Addr -> Timer \cup {None}]
        /\ canceling' \subseteq TimerIds
        /\ fdAt' \in Nat \cup {None} /\ fdReadable' \in BOOLEAN
        /\ cancelled' \subseteq TimerIds /\ stopped' \subseteq cancelled'
    BY <1>0, <2>1, <2>2, CancelTyped
  <2> QED BY <1>0, <2>1, <2>3, <2>4 DEF TypeOK, Functor
<1>9. ASSUME NEW a \in Addr, NEW when \in Whens, NEW interval \in Intervals,
             LoopAdd(a, when, interval)
      PROVE  TypeOK'
  <2> DEFINE timer == TimerOf(when, interval)
  <2>1. /\ addTimerInLoop(a, timer) /\ NewTimer(a, when)
        /\ heap' = [heap EXCEPT ![a] = timer] /\ ids' = ids \cup {<<a, created + 1>>}
        /\ UNCHANGED <<now, batchVars, fdActive, pending, callerVars, cancelVars, handled>>
    BY <1>9 DEF LoopAdd
  <2>2. /\ timer \in Timer /\ created' \in 0..MaxTimers /\ created + 1 \in Nat
        /\ origin' \in [Seqs -> Nat \cup {None}]
    BY <1>0, <2>1, NewTimerTyped
  <2> HIDE DEF timer
  <2>3. /\ timers' \subseteq Nat \X Addr /\ active' \subseteq TimerIds
        /\ fdAt' \in Nat \cup {None} /\ fdReadable' \in BOOLEAN
    BY <1>0, <2>1, <2>2, AddTyped
  <2>4. heap' \in [Addr -> Timer \cup {None}] /\ ids' \subseteq TimerIds
    BY <1>0, <2>1, <2>2, SMTT(30) DEF TypeOK, TimerIds
  <2> QED BY <1>0, <2>1, <2>2, <2>3, <2>4 DEF TypeOK
<1>10. ASSUME NEW a \in Addr, NEW when \in Whens, NEW interval \in Intervals,
              NEW c \in Callers, CallerNew(c, a, when, interval)
       PROVE  TypeOK'
  <2> DEFINE timer == TimerOf(when, interval)
  <2>1. /\ NewTimer(a, when) /\ heap' = [heap EXCEPT ![a] = timer]
        /\ callerPc' = [callerPc EXCEPT ![c] = "queue"]
        /\ callerTimer' = [callerTimer EXCEPT ![c] = <<a, created + 1>>]
        /\ UNCHANGED <<now, setVars, batchVars, fdVars, fdActive, pending, ids,
                       cancelVars, handled>>
    BY <1>10 DEF CallerNew
  <2>2. /\ timer \in Timer /\ created' \in 0..MaxTimers /\ created + 1 \in Nat
        /\ origin' \in [Seqs -> Nat \cup {None}]
    BY <1>0, <2>1, NewTimerTyped
  <2> HIDE DEF timer
  <2>3. /\ heap' \in [Addr -> Timer \cup {None}]
        /\ callerPc' \in [Callers -> {"idle", "queue", "read"}]
        /\ callerTimer' \in [Callers -> TimerIds \cup {None}]
    BY <1>0, <2>1, <2>2 DEF TypeOK, TimerIds
  <2> QED BY <1>0, <2>1, <2>2, <2>3 DEF TypeOK
<1>11. ASSUME NEW id \in ids, LoopCancel(id) PROVE TypeOK'
  <2>1. /\ cancelInLoop(id)
        /\ UNCHANGED <<now, created, calling, expired, toRun, readAt, fdActive, pending,
                       callerVars, ids, historyVars>>
    BY <1>11 DEF LoopCancel
  <2>2. id \in TimerIds
    BY <1>0 DEF TypeOK
  <2>3. /\ timers' \subseteq timers /\ active' \subseteq active
        /\ heap' \in [Addr -> Timer \cup {None}]
        /\ canceling' \subseteq TimerIds
        /\ fdAt' \in Nat \cup {None} /\ fdReadable' \in BOOLEAN
        /\ cancelled' \subseteq TimerIds /\ stopped' \subseteq cancelled'
    BY <1>0, <2>1, <2>2, CancelTyped
  <2> QED BY <1>0, <2>1, <2>3 DEF TypeOK
<1>12. ASSUME NEW id \in ids, NEW c \in Callers, NEW path \in Paths, CallerCancel(c, id, path)
       PROVE  TypeOK'
  <2>1. pending' \in Seq(Functor)
    BY <1>0, <1>12, AppendFacts DEF CallerCancel, TypeOK, Functor
  <2> QED BY <1>0, <1>12, <2>1 DEF CallerCancel, TypeOK, Functor
<1>13. ASSUME NEW c \in Callers, NEW path \in Paths, CallerQueue(c, path) PROVE TypeOK'
  <2>1. callerTimer[c] \in TimerIds
    BY <1>0, <1>13 DEF CallerQueue, IndInv, OwnersOK, TypeOK
  <2>2. pending' \in Seq(Functor)
    BY <1>0, <1>13, <2>1, AppendFacts DEF CallerQueue, TypeOK, Functor
  <2> QED BY <1>0, <1>13, <2>2 DEF CallerQueue, TypeOK, Functor
<1>14. ASSUME NEW c \in Callers, CallerRead(c) PROVE TypeOK'
  <2>1. callerTimer[c] \in TimerIds
    BY <1>0, <1>14 DEF CallerRead, IndInv, OwnersOK, TypeOK
  <2>2. PICK s \in IF heap[callerTimer[c][1]] = None THEN 0..MaxTimers
                   ELSE {heap[callerTimer[c][1]].seq} :
            ids' = ids \cup {<<callerTimer[c][1], s>>}
    BY <1>14 DEF CallerRead
  <2>3. callerTimer[c][1] \in Addr /\ s \in Nat
    BY <1>0, <2>1, <2>2, SMTT(30) DEF TypeOK, TimerIds, Timer, Seqs
  <2>4. ids' \subseteq TimerIds
    BY <1>0, <2>2, <2>3, SMTT(30) DEF TypeOK, TimerIds
  <2> QED BY <1>0, <1>14, <2>4 DEF CallerRead, TypeOK
<1>15. CASE UNCHANGED vars
  BY <1>0, <1>15 DEF vars, TypeOK
<1> QED BY <1>1, <1>2, <1>3, <1>4, <1>5, <1>6, <1>7, <1>8, <1>9, <1>10, <1>11, <1>12,
           <1>13, <1>14, <1>15 DEF Next, LoopStep, User, CallerStep

-----------------------------------------------------------------------------
(* The two sets, the timers on their way and the cancelled ones.           *)

\* What the invariant says of entries: an address occurs once.
LEMMA EntriesDistinct ==
    ASSUME Listed, TypeOK, NEW d \in timers \cup expired, NEW e \in timers \cup expired, d[2] = e[2]
    PROVE  d = e
  BY SMTT(30) DEF Listed, TypeOK

\* A timer joins both sets under a free address.
LEMMA InsertListed ==
    ASSUME Listed, NEW a, heap'[a] # None,
           \A e \in timers \cup expired : e[2] # a /\ heap'[e[2]] = heap[e[2]],
           timers' = timers \cup {<<heap'[a].exp, a>>},
           active' = active \cup {<<a, heap'[a].seq>>},
           expired' = expired
    PROVE  Listed'
<1>1. \A e \in timers' \cup expired' : heap'[e[2]] # None /\ heap'[e[2]].exp = e[1]
  BY SMTT(30) DEF Listed
<1>2. active' = {<<e[2], heap'[e[2]].seq>> : e \in timers'}
  <2>1. active = {<<e[2], heap'[e[2]].seq>> : e \in timers}
    BY DEF Listed
  <2> DEFINE n == <<heap'[a].exp, a>>
  <2>2. timers' = timers \cup {n} /\ active' = active \cup {<<n[2], heap'[n[2]].seq>>}
    OBVIOUS
  <2> HIDE DEF n
  <2> QED BY <2>1, <2>2
<1>3. \A e \in timers', d \in expired' : e[2] # d[2]
  BY SMTT(30) DEF Listed
<1> QED BY <1>1, <1>2, <1>3 DEF Listed

\* cancelInLoop(): the timer leaves both sets together, or stays away from both.
LEMMA CancelKeeps ==
    ASSUME IndInv, NEW id \in TimerIds, cancelInLoop(id),
           created' = created, expired' = expired, calling' = calling
    PROVE  /\ Listed' /\ StoppedOK'
           /\ \A x \in TimerIds : OnItsWay(x) => OnItsWay(x)'
           /\ \A x \in active \ active' : x \in cancelled'
<1>1. TypeOK /\ Listed /\ StoppedOK /\ (~calling => expired = {})
  BY DEF IndInv, SetsAgree
<1>2. CASE id \in active
  <2> DEFINE entry == <<heap[id[1]].exp, id[1]>>
  <2>1. /\ timers' = timers \ {entry} /\ active' = active \ {id}
        /\ heap' = [heap EXCEPT ![id[1]] = None] /\ canceling' = canceling
        /\ stopped' = stopped \cup {id} /\ cancelled' = cancelled \cup {id}
    BY <1>2 DEF cancelInLoop, FindActive
  <2>2. PICK e \in timers : e[2] = id[1] /\ heap[e[2]].seq = id[2] /\ e = entry
    <3>1. PICK e \in timers : id = <<e[2], heap[e[2]].seq>>
      BY <1>1, <1>2 DEF Listed
    <3>2. e = <<e[1], e[2]>> /\ heap[e[2]].exp = e[1]
      BY <1>1, SMTT(30) DEF Listed, TypeOK
    <3>3. id[1] = e[2] /\ id[2] = heap[e[2]].seq
      BY <3>1
    <3> QED BY <3>2, <3>3
  <2>3. \A d \in timers' \cup expired : d[2] # id[1] /\ d[2] \in Addr
    BY <1>1, <2>1, <2>2, EntriesDistinct DEF TypeOK, Listed
  <2>4. \A a \in Addr : a # id[1] => heap'[a] = heap[a]
    BY <1>1, <2>1 DEF TypeOK
  <2>5. active' = {<<d[2], heap'[d[2]].seq>> : d \in timers'}
    <3>1. active = {<<d[2], heap[d[2]].seq>> : d \in timers}
      BY <1>1 DEF Listed
    <3>2. \A d \in timers' : <<d[2], heap'[d[2]].seq>> = <<d[2], heap[d[2]].seq>> /\ d[2] # id[1]
      BY <2>3, <2>4
    <3>3. <<entry[2], heap[entry[2]].seq>> = id
      BY <2>2, SMTT(30) DEF TimerIds
    <3>4. \A d \in timers : d # entry => <<d[2], heap[d[2]].seq>> # id
      <4>1. \A d \in timers : d # entry => d[2] # id[1]
        BY <2>1, <3>2
      <4> QED BY <4>1, SMTT(30)
    <3> DEFINE was(d) == <<d[2], heap[d[2]].seq>>
               is(d) == <<d[2], heap'[d[2]].seq>>
    <3>5. /\ active = {was(d) : d \in timers} /\ was(entry) = id
          /\ (\A d \in timers' : is(d) = was(d)) /\ \A d \in timers : d # entry => was(d) # id
      BY <3>1, <3>2, <3>3, <3>4
    <3> HIDE DEF entry, was, is
    <3>6. active' = {is(d) : d \in timers'}
      BY <2>1, <3>5
    <3> QED BY <3>6 DEF is
  <2>6. Listed'
    BY <1>1, <2>1, <2>3, <2>4, <2>5 DEF Listed
  <2>7. /\ Running' = Running /\ id \notin Running
    BY <2>3, <2>4, SMTT(30) DEF Running
  <2>8. StoppedOK'
    <3>1. \A a \in Addr : heap'[a] # None => heap'[a].seq <= created'
      BY <1>1, <2>1, <2>4 DEF StoppedOK, TypeOK
    <3>2. id[2] <= created
      BY <1>1, <2>2 DEF StoppedOK, Listed, TypeOK
    <3> QED BY <1>1, <2>1, <2>7, <3>1, <3>2 DEF StoppedOK, CancelSticks
  <2>9. ASSUME NEW x \in TimerIds, OnItsWay(x) PROVE OnItsWay(x)'
    <3>1. x[1] \in Addr /\ x[1] # id[1]
      BY <2>2, <2>9 DEF OnItsWay, TimerIds
    <3> QED BY <2>1, <2>4, <2>9, <3>1 DEF OnItsWay
  <2> QED BY <2>1, <2>6, <2>8, <2>9
<1>3. CASE id \notin active
  <2>1. /\ canceling' = IF calling THEN canceling \cup {id} ELSE canceling
        /\ timers' = timers /\ active' = active /\ heap' = heap
        /\ stopped' = IF id \in Running THEN stopped \cup {id} ELSE stopped
    BY <1>3 DEF cancelInLoop, FindActive, setVars
  <2>2. Listed'
    BY <1>1, <2>1 DEF Listed
  <2>3. ASSUME id \in Running
        PROVE  calling /\ id[2] <= created /\ \E e \in expired : e[2] = id[1]
    BY <1>1, <2>3, SMTT(30) DEF Running, StoppedOK, Listed, TypeOK
  <2>4. Running' = Running
    BY <2>1 DEF Running
  <2>5. StoppedOK'
    BY <1>1, <1>3, <2>1, <2>3, <2>4 DEF StoppedOK, CancelSticks
  <2>6. ASSUME NEW x \in TimerIds, OnItsWay(x) PROVE OnItsWay(x)'
    <3>1. x \notin stopped'
      BY <2>1, <2>3, <2>6 DEF OnItsWay
    <3> QED BY <2>1, <2>6, <3>1 DEF OnItsWay
  <2> QED BY <2>1, <2>2, <2>5, <2>6
<1> QED BY <1>2, <1>3

\* Owners may leave, none joins, and what they own stays on its way.
LEMMA OwnersFewer ==
    ASSUME TypeOK, OwnersOK,
           \A c \in Callers : callerPc'[c] # "idle" => callerTimer'[c] # None,
           \A c \in Queueing' : c \in Queueing /\ callerTimer'[c] = callerTimer[c],
           \A i \in Adds' : i \in Adds /\ pending'[i] = pending[i],
           \A x \in TimerIds : OnItsWay(x) => OnItsWay(x)'
    PROVE  OwnersOK'
<1>1. ASSUME NEW c \in Queueing' PROVE OnItsWay(callerTimer[c])'
  <2>1. PICK x \in TimerIds : x = callerTimer[c] /\ OnItsWay(x)
    BY SMTT(30) DEF Queueing, OwnersOK, TypeOK
  <2>2. OnItsWay(x)' /\ callerTimer'[c] = x
    BY <2>1
  <2> QED BY <2>2 DEF OnItsWay
<1>2. ASSUME NEW i \in Adds' PROVE OnItsWay(pending[i].id)'
  <2>1. pending[i].id \in TimerIds
    BY PendingTyped DEF Adds
  <2>2. PICK x \in TimerIds : x = pending[i].id /\ OnItsWay(x)
    BY <2>1 DEF OwnersOK
  <2>3. OnItsWay(x)' /\ pending'[i].id = x
    BY <2>2
  <2> QED BY <2>3 DEF OnItsWay
<1>3. \A c, d \in Queueing' : callerTimer'[c][1] = callerTimer'[d][1] => c = d
  <2>1. \A c, d \in Queueing : callerTimer[c][1] = callerTimer[d][1] => c = d
    BY DEF OwnersOK
  <2> QED BY <2>1
<1>4. \A i, j \in Adds' : pending'[i].id[1] = pending'[j].id[1] => i = j
  <2>1. \A i, j \in Adds : pending[i].id[1] = pending[j].id[1] => i = j
    BY DEF OwnersOK
  <2> QED BY <2>1, SMTT(30)
<1>5. \A c \in Queueing', i \in Adds' : callerTimer'[c][1] # pending'[i].id[1]
  <2>1. \A c \in Queueing, i \in Adds : callerTimer[c][1] # pending[i].id[1]
    BY DEF OwnersOK
  <2> QED BY <2>1, SMTT(30)
<1> QED BY <1>1, <1>2, <1>3, <1>4, <1>5 DEF OwnersOK

\* The owners stay who they are, and what they own stays on its way.
LEMMA OwnersSame ==
    ASSUME TypeOK, OwnersOK, UNCHANGED <<callerPc, callerTimer, pending>>,
           \A x \in TimerIds : OnItsWay(x) => OnItsWay(x)'
    PROVE  OwnersOK'
<1>1. Queueing' = Queueing /\ Adds' = Adds
  BY DEF Queueing, Adds
<1>2. \A c \in Callers : callerPc'[c] # "idle" => callerTimer'[c] # None
  BY DEF OwnersOK
<1> QED BY <1>1, <1>2, OwnersFewer

\* A functor is taken out of the queue, and with it the timer it adds.
LEMMA OwnersDequeued ==
    ASSUME TypeOK, OwnersOK, UNCHANGED <<callerPc, callerTimer>>,
           NEW i \in DOMAIN pending, Dequeue(i),
           \A x \in TimerIds :
               OnItsWay(x) /\ (i \in Adds => x[1] # pending[i].id[1]) => OnItsWay(x)'
    PROVE  OwnersOK'
<1> DEFINE from(j) == IF j < i THEN j ELSE j + 1
<1>1. pending \in Seq(Functor)
  BY PendingTyped
<1>2. \A j \in DOMAIN pending' :
          from(j) \in DOMAIN pending /\ from(j) # i /\ pending'[j] = pending[from(j)]
  BY <1>1, DequeueFacts
<1>3. \A j, k \in DOMAIN pending' : from(j) = from(k) => j = k
  <2>1. i \in Int /\ DOMAIN pending' \subseteq Int
    <3>1. pending' \in Seq(Functor) /\ DOMAIN pending' = 1..Len(pending')
      BY <1>1, DequeueFacts, SeqFacts
    <3>2. DOMAIN pending = 1..Len(pending)
      BY <1>1, SeqFacts
    <3> QED BY <3>1, <3>2, SMTT(30)
  <2> QED BY <2>1, SMTT(30)
<1> HIDE DEF from
<1>4. Queueing' = Queueing
  BY DEF Queueing
<1>5. \A j \in Adds' : /\ from(j) \in Adds /\ from(j) # i /\ pending'[j] = pending[from(j)]
                       /\ pending[from(j)].id \in TimerIds
  BY <1>2, PendingTyped DEF Adds
<1>6. ASSUME NEW j \in Adds' PROVE OnItsWay(pending[j].id)'
  <2>1. PICK x \in TimerIds : x = pending[from(j)].id
    BY <1>5
  <2>2. OnItsWay(x) /\ (i \in Adds => x[1] # pending[i].id[1])
    BY <1>5, <2>1 DEF OwnersOK
  <2>3. OnItsWay(x)' /\ pending'[j].id = x
    BY <1>5, <2>1, <2>2
  <2> QED BY <2>3 DEF OnItsWay
<1>7. ASSUME NEW c \in Queueing' PROVE OnItsWay(callerTimer[c])'
  <2>1. callerTimer[c] \in TimerIds
    BY <1>4 DEF Queueing, OwnersOK, TypeOK
  <2>2. OnItsWay(callerTimer[c]) /\ (i \in Adds => callerTimer[c][1] # pending[i].id[1])
    BY <1>4 DEF OwnersOK
  <2> QED BY <2>1, <2>2
<1>8. \A j, k \in Adds' : pending'[j].id[1] = pending'[k].id[1] => j = k
  <2>1. \A j \in Adds' : j \in DOMAIN pending'
    BY DEF Adds
  <2>2. \A j, k \in Adds : pending[j].id[1] = pending[k].id[1] => j = k
    BY DEF OwnersOK
  <2>3. ASSUME NEW j \in Adds', NEW k \in Adds', pending'[j].id[1] = pending'[k].id[1]
        PROVE  j = k
    <3>1. /\ from(j) \in Adds /\ pending'[j] = pending[from(j)]
          /\ from(k) \in Adds /\ pending'[k] = pending[from(k)]
      BY <1>5
    <3>2. pending[from(j)].id[1] = pending[from(k)].id[1]
      BY <2>3, <3>1
    <3>3. from(j) = from(k)
      BY <2>2, <3>1, <3>2
    <3> QED BY <1>3, <2>1, <3>3
  <2> QED BY <2>3
<1>9. \A c \in Queueing', j \in Adds' : callerTimer'[c][1] # pending'[j].id[1]
  <2>1. \A c \in Queueing, j \in Adds : callerTimer[c][1] # pending[j].id[1]
    BY DEF OwnersOK
  <2> QED BY <1>4, <1>5, <2>1, SMTT(30)
<1> QED BY <1>4, <1>6, <1>7, <1>8, <1>9 DEF OwnersOK

\* A functor is queued.
LEMMA AppendedAdds ==
    ASSUME TypeOK, NEW f \in Functor, pending' = Append(pending, f)
    PROVE  /\ \A i \in DOMAIN pending' : \/ i \in DOMAIN pending /\ pending'[i] = pending[i]
                                         \/ i = Len(pending) + 1 /\ pending'[i] = f
           /\ Len(pending) + 1 \notin DOMAIN pending
<1>1. pending \in Seq(Functor)
  BY PendingTyped
<1>2. /\ pending' \in Seq(Functor) /\ Len(pending') = Len(pending) + 1
      /\ \A i \in 1..Len(pending) : pending'[i] = pending[i]
      /\ pending'[Len(pending) + 1] = f
  BY <1>1, AppendFacts, SMTT(30)
<1>3. /\ DOMAIN pending = 1..Len(pending) /\ DOMAIN pending' = 1..(Len(pending) + 1)
      /\ Len(pending) \in Nat
  BY <1>1, <1>2, SeqFacts
<1> QED BY <1>2, <1>3, SMTT(30)

-----------------------------------------------------------------------------
(* One lemma per operation.                                                *)

\* What a step has to leave behind, and what it may take out of activeTimers_.
StepOK ==
    /\ Listed' /\ OwnersOK' /\ StoppedOK' /\ (~calling' => expired' = {})
    /\ \A id \in active \ active' :
           id \in cancelled' \/ (calling' /\ heap[id[1]].exp <= now)

\* Steps of the clock, of the kernel, and of the batch between two callbacks.
LEMMA SilentKeeps ==
    ASSUME IndInv,
           UNCHANGED <<heap, created, timers, active, calling, canceling, expired,
                       stopped, callerPc, callerTimer, pending>>
    PROVE  StepOK
<1>1. Listed' /\ StoppedOK' /\ (~calling' => expired' = {})
  BY DEF IndInv, SetsAgree, Listed, StoppedOK, CancelSticks, Running
<1>2. \A x \in TimerIds : OnItsWay(x) => OnItsWay(x)'
  BY DEF OnItsWay
<1>3. OwnersOK'
  BY <1>2, OwnersSame DEF IndInv, SetsAgree
<1> QED BY <1>1, <1>3 DEF StepOK

\* The address a and the sequence number after created, as a step finds and leaves them.
Slot(a, timer) ==
    /\ heap[a] = None /\ heap'[a] = timer /\ heap'[a] # None
    /\ heap'[a].seq = created + 1 /\ created \in Nat
    /\ \A b \in Addr : b # a => heap'[b] = heap[b]
    /\ \A b \in Addr : heap'[b] # None => heap'[b].seq <= created'
    /\ \A id \in stopped : id[2] <= created'
    /\ <<a, created + 1>> \notin stopped

\* No entry of the queue has the address.
Elsewhere(a) ==
    \A e \in timers \cup expired : e[2] \in Addr /\ e[2] # a /\ heap'[e[2]] = heap[e[2]]

\* new Timer(...): nobody refers to the address or to the sequence number yet.
LEMMA NewSlot ==
    ASSUME TypeOK, Listed, StoppedOK, NEW a \in Addr, NEW when \in Whens,
           NEW interval \in Intervals, NewTimer(a, when),
           heap' = [heap EXCEPT ![a] = TimerOf(when, interval)]
    PROVE  Slot(a, TimerOf(when, interval)) /\ Elsewhere(a)
<1>1. heap[a] = None /\ created' = created + 1 /\ created \in Nat
  BY SMTT(30) DEF NewTimer, TypeOK
<1>2. heap'[a] = TimerOf(when, interval) /\ \A b \in Addr : b # a => heap'[b] = heap[b]
  BY DEF TypeOK
<1>3. heap'[a] # None /\ heap'[a].seq = created + 1
  <2>1. TimerOf(when, interval) \in Timer
    BY NewTimerTyped
  <2> QED BY <1>2, <2>1, NoneAssumption, SMTT(30) DEF TimerOf
<1>4. \A e \in timers \cup expired : e[2] \in Addr /\ e[2] # a /\ heap'[e[2]] = heap[e[2]]
  BY <1>1, <1>2 DEF Listed, TypeOK
<1>5. ASSUME NEW b \in Addr, heap'[b] # None PROVE heap'[b].seq <= created'
  <2>1. CASE b = a
    BY <1>1, <1>3, <2>1, SMTT(30)
  <2>2. CASE b # a
    <3>1. heap'[b] = heap[b] /\ heap[b] \in Timer /\ heap[b].seq <= created
      BY <1>2, <1>5, <2>2 DEF StoppedOK, TypeOK
    <3>2. heap[b].seq \in Nat
      BY <3>1, SMTT(30) DEF Timer, Seqs
    <3> QED BY <1>1, <3>1, <3>2, SMTT(30)
  <2> QED BY <2>1, <2>2
<1>6. \A id \in stopped : id[2] \in Nat /\ id[2] <= created
  BY DEF StoppedOK, TypeOK, TimerIds
<1>7. (\A id \in stopped : id[2] <= created') /\ <<a, created + 1>> \notin stopped
  BY <1>1, <1>6, SMTT(30)
<1> QED BY <1>1, <1>2, <1>3, <1>4, <1>5, <1>7 DEF Slot, Elsewhere

\* addTimer() on another thread allocates a Timer: its caller owns it.
LEMMA CallerNewKeeps ==
    ASSUME IndInv, NEW a \in Addr, NEW when \in Whens, NEW interval \in Intervals,
           NEW c \in Callers, CallerNew(c, a, when, interval)
    PROVE  StepOK
<1>1. TypeOK /\ Listed /\ OwnersOK /\ StoppedOK
  BY DEF IndInv, SetsAgree
<1>2. /\ NewTimer(a, when) /\ heap' = [heap EXCEPT ![a] = TimerOf(when, interval)]
      /\ callerPc[c] = "idle"
      /\ callerPc' = [callerPc EXCEPT ![c] = "queue"]
      /\ callerTimer' = [callerTimer EXCEPT ![c] = <<a, created + 1>>]
      /\ UNCHANGED <<timers, active, calling, canceling, expired, pending, stopped>>
  BY DEF CallerNew, setVars, batchVars, cancelVars
<1>0. Slot(a, TimerOf(when, interval)) /\ Elsewhere(a)
  BY <1>1, <1>2, NewSlot
<1>3. /\ heap[a] = None /\ heap'[a] # None /\ heap'[a].seq = created + 1 /\ created \in Nat
      /\ \A b \in Addr : b # a => heap'[b] = heap[b]
      /\ \A b \in Addr : heap'[b] # None => heap'[b].seq <= created'
      /\ \A id \in stopped : id[2] <= created'
      /\ <<a, created + 1>> \notin stopped
  BY <1>0 DEF Slot
<1>4. \A e \in timers \cup expired : e[2] \in Addr /\ e[2] # a /\ heap'[e[2]] = heap[e[2]]
  BY <1>0 DEF Elsewhere
<1>5. Listed'
  BY <1>1, <1>2, <1>4 DEF Listed
<1>6. StoppedOK'
  <2>1. Running' = Running
    BY <1>2, <1>4 DEF Running
  <2> QED BY <1>1, <1>2, <1>3, <2>1 DEF StoppedOK, CancelSticks
<1>7. \A x \in TimerIds : OnItsWay(x) => OnItsWay(x)' /\ x[1] # a
  BY <1>2, <1>3 DEF OnItsWay, TimerIds
<1>8. OwnersOK'
  <2>1. /\ Queueing' = Queueing \cup {c} /\ c \notin Queueing /\ Adds' = Adds
        /\ \A d \in Callers : d # c => callerTimer'[d] = callerTimer[d] /\ callerPc'[d] = callerPc[d]
        /\ callerTimer'[c] = <<a, created + 1>>
    BY <1>1, <1>2 DEF Queueing, Adds, TypeOK
  <2>2. \A d \in Callers : callerPc'[d] # "idle" => callerTimer'[d] # None
    <3>1. created \in Nat
      BY <1>3
    <3>2. <<a, created + 1>> \in TimerIds
      BY <3>1, SMTT(30) DEF TimerIds
    <3>3. callerTimer'[c] # None
      BY <2>1, <3>2, NoneAssumption
    <3>4. \A d \in Callers : callerPc[d] # "idle" => callerTimer[d] # None
      BY <1>1 DEF OwnersOK
    <3> QED BY <2>1, <3>3, <3>4
  <2>3. \A d \in Queueing : d \in Callers /\ d # c /\ callerTimer[d] \in TimerIds /\ callerTimer[d][1] # a
    <3> SUFFICES ASSUME NEW d \in Queueing
                 PROVE  d \in Callers /\ d # c /\ callerTimer[d] \in TimerIds /\ callerTimer[d][1] # a
      OBVIOUS
    <3>1. d \in Callers /\ d # c /\ callerPc[d] # "idle"
      BY <2>1 DEF Queueing
    <3>2. OnItsWay(callerTimer[d]) /\ callerTimer[d] # None
      BY <1>1, <3>1 DEF OwnersOK
    <3>3. callerTimer[d] \in TimerIds
      BY <1>1, <3>1, <3>2 DEF TypeOK
    <3> QED BY <1>7, <3>1, <3>2, <3>3
  <2>4. \A i \in Adds : pending[i].id \in TimerIds /\ pending[i].id[1] # a
    BY <1>1, <1>7, PendingTyped DEF Adds, OwnersOK
  <2>5. ASSUME NEW d \in Queueing' PROVE OnItsWay(callerTimer[d])'
    <3>1. CASE d = c
      <4>1. \A e \in timers' \cup expired' : e[2] # a
        BY <1>2, <1>4
      <4> QED BY <1>2, <1>3, <2>1, <3>1, <4>1, SMTT(30) DEF OnItsWay
    <3>2. CASE d # c
      <4>1. PICK x \in TimerIds : x = callerTimer[d] /\ OnItsWay(x)
        BY <1>1, <2>1, <2>3, <3>2 DEF OwnersOK
      <4>2. OnItsWay(x)' /\ callerTimer'[d] = x
        BY <1>7, <2>1, <2>3, <3>2, <4>1
      <4> QED BY <4>2 DEF OnItsWay
    <3> QED BY <3>1, <3>2
  <2>6. ASSUME NEW i \in Adds' PROVE OnItsWay(pending[i].id)'
    <3>1. PICK x \in TimerIds : x = pending[i].id /\ OnItsWay(x)
      BY <1>1, <2>1, <2>4 DEF OwnersOK
    <3>2. OnItsWay(x)' /\ pending'[i].id = x
      BY <1>2, <1>7, <3>1
    <3> QED BY <3>2 DEF OnItsWay
  <2>7. \A d, e \in Queueing' : callerTimer'[d][1] = callerTimer'[e][1] => d = e
    <3>1. \A d, e \in Queueing : callerTimer[d][1] = callerTimer[e][1] => d = e
      BY <1>1 DEF OwnersOK
    <3>2. callerTimer'[c][1] = a /\ \A d \in Queueing : callerTimer'[d] = callerTimer[d]
      <4>1. \A d \in Queueing : callerTimer'[d] = callerTimer[d]
        BY <2>1, <2>3
      <4>2. <<a, created + 1>>[1] = a
        OBVIOUS
      <4> QED BY <2>1, <4>1, <4>2
    <3>3. \A d \in Queueing : callerTimer[d][1] # a
      BY <2>3
    <3>4. ASSUME NEW d \in Queueing', NEW e \in Queueing', callerTimer'[d][1] = callerTimer'[e][1]
          PROVE  d = e
      <4>1. (d = c \/ d \in Queueing) /\ (e = c \/ e \in Queueing)
        BY <2>1
      <4>2. \A b \in Queueing : callerTimer'[b][1] # callerTimer'[c][1]
        BY <3>2, <3>3
      <4>3. CASE d \in Queueing /\ e \in Queueing
        BY <3>1, <3>2, <3>4, <4>3
      <4> QED BY <3>4, <4>1, <4>2, <4>3
    <3> QED BY <3>4
  <2>8. \A i, j \in Adds' : pending'[i].id[1] = pending'[j].id[1] => i = j
    <3>1. \A i, j \in Adds : pending[i].id[1] = pending[j].id[1] => i = j
      BY <1>1 DEF OwnersOK
    <3>2. pending' = pending /\ Adds' = Adds
      BY <1>2, <2>1
    <3> QED BY <3>1, <3>2
  <2>9. \A d \in Queueing', i \in Adds' : callerTimer'[d][1] # pending'[i].id[1]
    <3>1. \A d \in Queueing, i \in Adds : callerTimer[d][1] # pending[i].id[1]
      BY <1>1 DEF OwnersOK
    <3>2. callerTimer'[c][1] = a /\ \A d \in Queueing : callerTimer'[d] = callerTimer[d]
      <4>1. <<a, created + 1>>[1] = a
        OBVIOUS
      <4> QED BY <2>1, <2>3, <4>1
    <3>3. Adds' = Adds /\ pending' = pending
      BY <1>2, <2>1
    <3>4. \A i \in Adds : callerTimer'[c][1] # pending[i].id[1]
      BY <2>4, <3>2
    <3> QED BY <2>1, <3>1, <3>2, <3>3, <3>4
  <2> QED BY <2>2, <2>5, <2>6, <2>7, <2>8, <2>9 DEF OwnersOK
<1> QED BY <1>2, <1>5, <1>6, <1>8 DEF StepOK, IndInv

\* addTimer() on the loop thread: the new timer goes straight into both sets.
LEMMA LoopAddKeeps ==
    ASSUME IndInv, NEW a \in Addr, NEW when \in Whens, NEW interval \in Intervals,
           LoopAdd(a, when, interval)
    PROVE  StepOK
<1>1. TypeOK /\ Listed /\ OwnersOK /\ StoppedOK
  BY DEF IndInv, SetsAgree
<1>2. /\ NewTimer(a, when) /\ heap' = [heap EXCEPT ![a] = TimerOf(when, interval)]
      /\ timers' = timers \cup {<<TimerOf(when, interval).exp, a>>}
      /\ active' = active \cup {<<a, TimerOf(when, interval).seq>>}
      /\ UNCHANGED <<calling, canceling, expired, pending, callerPc, callerTimer, stopped>>
  BY DEF LoopAdd, addTimerInLoop, insert, batchVars, callerVars, cancelVars
<1>0. Slot(a, TimerOf(when, interval)) /\ Elsewhere(a)
  BY <1>1, <1>2, NewSlot
<1>3. /\ heap[a] = None /\ heap'[a] = TimerOf(when, interval) /\ heap'[a] # None
      /\ heap'[a].seq = created + 1
      /\ \A b \in Addr : b # a => heap'[b] = heap[b]
      /\ \A b \in Addr : heap'[b] # None => heap'[b].seq <= created'
      /\ \A id \in stopped : id[2] <= created'
      /\ <<a, created + 1>> \notin stopped
  BY <1>0 DEF Slot
<1>4. \A e \in timers \cup expired : e[2] \in Addr /\ e[2] # a /\ heap'[e[2]] = heap[e[2]]
  BY <1>0 DEF Elsewhere
<1>5. Listed'
  BY <1>1, <1>2, <1>3, <1>4, InsertListed
<1>6. StoppedOK'
  <2>1. Running' = Running
    BY <1>2, <1>4 DEF Running
  <2>2. active' = active \cup {<<a, created + 1>>}
    BY <1>2, <1>3
  <2> QED BY <1>1, <1>2, <1>3, <2>1, <2>2 DEF StoppedOK, CancelSticks
<1>7. ASSUME NEW x \in TimerIds, OnItsWay(x) PROVE OnItsWay(x)'
  <2>1. x[1] \in Addr /\ x[1] # a
    BY <1>3, <1>7 DEF OnItsWay, TimerIds
  <2> QED BY <1>2, <1>3, <1>7, <2>1, SMTT(30) DEF OnItsWay
<1>8. OwnersOK'
  BY <1>1, <1>2, <1>7, OwnersSame
<1> QED BY <1>2, <1>5, <1>6, <1>8 DEF StepOK, IndInv

\* cancel() on the loop thread.
LEMMA LoopCancelKeeps ==
    ASSUME IndInv, NEW id \in ids, LoopCancel(id)
    PROVE  StepOK
<1>1. TypeOK /\ OwnersOK /\ (~calling => expired = {}) /\ id \in TimerIds
  BY DEF IndInv, SetsAgree, TypeOK
<1>2. /\ cancelInLoop(id)
      /\ UNCHANGED <<created, calling, expired, pending, callerPc, callerTimer>>
  BY DEF LoopCancel, callerVars
<1>3. /\ Listed' /\ StoppedOK' /\ \A x \in TimerIds : OnItsWay(x) => OnItsWay(x)'
      /\ \A x \in active \ active' : x \in cancelled'
  BY <1>1, <1>2, CancelKeeps
<1>4. OwnersOK'
  BY <1>1, <1>2, <1>3, OwnersSame
<1> QED BY <1>1, <1>2, <1>3, <1>4 DEF StepOK

\* The loop thread runs a queued cancelInLoop().
LEMMA RunCancelKeeps ==
    ASSUME IndInv, NEW i \in DOMAIN pending, RunCancel(i)
    PROVE  StepOK
<1>1. TypeOK /\ OwnersOK /\ (~calling => expired = {}) /\ pending[i].id \in TimerIds
  BY PendingTyped DEF IndInv, SetsAgree
<1>2. /\ cancelInLoop(pending[i].id) /\ Dequeue(i)
      /\ UNCHANGED <<created, calling, expired, callerPc, callerTimer>>
  BY DEF RunCancel, callerVars
<1>3. /\ Listed' /\ StoppedOK' /\ \A x \in TimerIds : OnItsWay(x) => OnItsWay(x)'
      /\ \A x \in active \ active' : x \in cancelled'
  BY <1>1, <1>2, CancelKeeps
<1>4. OwnersOK'
  BY <1>1, <1>2, <1>3, OwnersDequeued
<1> QED BY <1>1, <1>2, <1>3, <1>4 DEF StepOK

\* The loop thread runs a queued addTimerInLoop(): the functor owned the Timer,
\* so that no other functor and no caller does.
LEMMA RunAddKeeps ==
    ASSUME IndInv, NEW i \in DOMAIN pending, RunAdd(i)
    PROVE  StepOK
<1> DEFINE a == pending[i].id[1]
<1>1. /\ TypeOK /\ Listed /\ OwnersOK /\ StoppedOK /\ (~calling => expired = {})
      /\ pending[i].id \in TimerIds
  BY PendingTyped DEF IndInv, SetsAgree
<1>2. /\ Dequeue(i) /\ i \in Adds
      /\ timers' = timers \cup {<<heap[a].exp, a>>}
      /\ active' = active \cup {<<a, heap[a].seq>>}
      /\ UNCHANGED <<heap, created, calling, canceling, expired, callerPc, callerTimer, stopped>>
  BY DEF RunAdd, Adds, addTimerInLoop, insert, batchVars, callerVars, cancelVars
<1>3. OnItsWay(pending[i].id)
  BY <1>1, <1>2 DEF OwnersOK
<1>4. /\ heap[a] # None /\ pending[i].id = <<a, heap[a].seq>>
      /\ pending[i].id \notin stopped /\ \A e \in timers \cup expired : e[2] # a
  BY <1>1, <1>3, SMTT(30) DEF OnItsWay, TimerIds
<1> HIDE DEF a
<1>5. Listed'
  BY <1>1, <1>2, <1>4, InsertListed
<1>6. StoppedOK'
  <2>1. Running' = Running
    BY <1>2 DEF Running
  <2>2. active' = active \cup {pending[i].id}
    BY <1>2, <1>4
  <2> QED BY <1>1, <1>2, <1>4, <2>1, <2>2 DEF StoppedOK, CancelSticks
<1>7. ASSUME NEW x \in TimerIds, OnItsWay(x), x[1] # a PROVE OnItsWay(x)'
  BY <1>2, <1>7, SMTT(30) DEF OnItsWay
<1>8. OwnersOK'
  BY <1>1, <1>2, <1>7, OwnersDequeued DEF a
<1> QED BY <1>1, <1>2, <1>5, <1>6, <1>8 DEF StepOK

\* runInLoop(addTimerInLoop): the functor takes the Timer over from its caller.
LEMMA CallerQueueKeeps ==
    ASSUME IndInv, NEW c \in Callers, NEW path \in Paths, CallerQueue(c, path)
    PROVE  StepOK
<1> DEFINE f == [op |-> "add", id |-> callerTimer[c], path |-> path]
           n == Len(pending) + 1
<1>1. TypeOK /\ Listed /\ OwnersOK /\ StoppedOK /\ (~calling => expired = {})
  BY DEF IndInv, SetsAgree
<1>2. /\ callerPc[c] = "queue" /\ callerPc' = [callerPc EXCEPT ![c] = "read"]
      /\ pending' = Append(pending, f)
      /\ UNCHANGED <<heap, created, timers, active, calling, canceling, expired,
                     stopped, callerTimer>>
  BY DEF CallerQueue, setVars, batchVars, cancelVars
<1>3. Listed' /\ StoppedOK'
  BY <1>1, <1>2 DEF Listed, StoppedOK, CancelSticks, Running
<1>4. \A x \in TimerIds : OnItsWay(x) => OnItsWay(x)'
  BY <1>2 DEF OnItsWay
<1>5. callerTimer[c] \in TimerIds /\ c \in Queueing
  BY <1>1, <1>2 DEF Queueing, OwnersOK, TypeOK
<1>6. f \in Functor /\ f.id = callerTimer[c]
  BY <1>5 DEF Functor
<1> HIDE DEF f
<1>7. \A i \in DOMAIN pending' : \/ i \in DOMAIN pending /\ pending'[i] = pending[i]
                                 \/ i = n /\ pending'[i] = f
  BY <1>1, <1>2, <1>6, AppendedAdds
<1> HIDE DEF n
<1>8. \A i \in Adds' : \/ i \in Adds /\ pending'[i].id = pending[i].id
                       \/ i = n /\ pending'[i].id = callerTimer[c]
  BY <1>6, <1>7 DEF Adds
<1>9. /\ Queueing' \subseteq Queueing /\ c \notin Queueing'
      /\ \A d \in Callers : callerPc'[d] # "idle" => callerPc[d] # "idle"
  BY <1>1, <1>2 DEF Queueing, TypeOK
<1>10. \A i \in Adds : pending[i].id \in TimerIds
  BY <1>1, PendingTyped DEF Adds
<1>11. ASSUME NEW d \in Queueing' PROVE OnItsWay(callerTimer[d])'
  <2>1. PICK x \in TimerIds : x = callerTimer[d] /\ OnItsWay(x)
    BY <1>1, <1>9 DEF OwnersOK, Queueing, TypeOK
  <2>2. OnItsWay(x)' /\ callerTimer'[d] = x
    BY <1>2, <1>4, <2>1
  <2> QED BY <2>2 DEF OnItsWay
<1>12. ASSUME NEW i \in Adds' PROVE OnItsWay(pending[i].id)'
  <2>1. PICK x \in TimerIds : x = pending'[i].id /\ OnItsWay(x)
    BY <1>1, <1>5, <1>8, <1>10 DEF OwnersOK
  <2>2. OnItsWay(x)'
    BY <1>4, <2>1
  <2> QED BY <2>1, <2>2 DEF OnItsWay
<1>13. \A d \in Callers : callerPc'[d] # "idle" => callerTimer'[d] # None
  BY <1>1, <1>2, <1>9 DEF OwnersOK
<1>14. /\ \A d, e \in Queueing : callerTimer[d][1] = callerTimer[e][1] => d = e
       /\ \A i, j \in Adds : pending[i].id[1] = pending[j].id[1] => i = j
       /\ \A d \in Queueing, i \in Adds : callerTimer[d][1] # pending[i].id[1]
  BY <1>1 DEF OwnersOK
<1>15. \A d, e \in Queueing' : callerTimer'[d][1] = callerTimer'[e][1] => d = e
  BY <1>2, <1>9, <1>14
<1>16. ASSUME NEW i \in Adds', NEW j \in Adds', pending'[i].id[1] = pending'[j].id[1]
       PROVE  i = j
  <2>1. CASE i \in Adds /\ pending'[i].id = pending[i].id
    BY <1>5, <1>8, <1>14, <1>16, <2>1, SMTT(30)
  <2>2. CASE i = n /\ pending'[i].id = callerTimer[c]
    BY <1>5, <1>8, <1>14, <1>16, <2>2
  <2> QED BY <1>8, <2>1, <2>2
<1>17. ASSUME NEW d \in Queueing', NEW i \in Adds'
       PROVE  callerTimer'[d][1] # pending'[i].id[1]
  <2>1. d \in Queueing /\ d # c /\ callerTimer' = callerTimer
    BY <1>2, <1>9
  <2>2. CASE i \in Adds /\ pending'[i].id = pending[i].id
    BY <1>14, <2>1, <2>2
  <2>3. CASE pending'[i].id = callerTimer[c]
    BY <1>5, <1>14, <2>1, <2>3
  <2> QED BY <1>8, <2>2, <2>3
<1>18. OwnersOK'
  BY <1>11, <1>12, <1>13, <1>15, <1>16, <1>17 DEF OwnersOK
<1> QED BY <1>1, <1>2, <1>3, <1>18 DEF StepOK

\* cancel() on another thread queues cancelInLoop(), which owns nothing.
LEMMA CallerCancelKeeps ==
    ASSUME IndInv, NEW id \in ids, NEW c \in Callers, NEW path \in Paths,
           CallerCancel(c, id, path)
    PROVE  StepOK
<1> DEFINE f == [op |-> "cancel", id |-> id, path |-> path]
<1>1. TypeOK /\ Listed /\ OwnersOK /\ StoppedOK /\ (~calling => expired = {})
  BY DEF IndInv, SetsAgree
<1>2. /\ pending' = Append(pending, f)
      /\ UNCHANGED <<heap, created, timers, active, calling, canceling, expired,
                     stopped, callerPc, callerTimer>>
  BY DEF CallerCancel, setVars, batchVars, callerVars, cancelVars
<1>3. Listed' /\ StoppedOK'
  BY <1>1, <1>2 DEF Listed, StoppedOK, CancelSticks, Running
<1>4. \A x \in TimerIds : OnItsWay(x) => OnItsWay(x)'
  BY <1>2 DEF OnItsWay
<1>5. f \in Functor /\ f.op = "cancel"
  BY <1>1 DEF Functor, TypeOK
<1> HIDE DEF f
<1>6. \A i \in DOMAIN pending' : \/ i \in DOMAIN pending /\ pending'[i] = pending[i]
                                 \/ pending'[i] = f
  BY <1>1, <1>2, <1>5, AppendedAdds
<1>7. \A i \in Adds' : i \in Adds /\ pending'[i] = pending[i]
  BY <1>5, <1>6 DEF Adds
<1>8. Queueing' = Queueing
  BY <1>2 DEF Queueing
<1>9. \A d \in Callers : callerPc'[d] # "idle" => callerTimer'[d] # None
  BY <1>1, <1>2 DEF OwnersOK
<1>10. \A d \in Queueing' : d \in Queueing /\ callerTimer'[d] = callerTimer[d]
  BY <1>2, <1>8
<1>11. OwnersOK'
  BY <1>1, <1>4, <1>7, <1>9, <1>10, OwnersFewer
<1> QED BY <1>1, <1>2, <1>3, <1>11 DEF StepOK

\* return TimerId(...): the caller lets go of a Timer that is not its own any more.
LEMMA CallerReadKeeps ==
    ASSUME IndInv, NEW c \in Callers, CallerRead(c)
    PROVE  StepOK
<1>1. TypeOK /\ Listed /\ OwnersOK /\ StoppedOK /\ (~calling => expired = {})
  BY DEF IndInv, SetsAgree
<1>2. /\ callerPc[c] = "read" /\ callerPc' = [callerPc EXCEPT ![c] = "idle"]
      /\ callerTimer' = [callerTimer EXCEPT ![c] = None]
      /\ UNCHANGED <<heap, created, timers, active, calling, canceling, expired,
                     stopped, pending>>
  BY DEF CallerRead, setVars, batchVars, cancelVars
<1>3. Listed' /\ StoppedOK'
  BY <1>1, <1>2 DEF Listed, StoppedOK, CancelSticks, Running
<1>4. \A x \in TimerIds : OnItsWay(x) => OnItsWay(x)'
  BY <1>2 DEF OnItsWay
<1>5. /\ Queueing' = Queueing /\ c \notin Queueing /\ Adds' = Adds
      /\ \A d \in Callers : d # c => callerTimer'[d] = callerTimer[d] /\ callerPc'[d] = callerPc[d]
      /\ callerPc'[c] = "idle"
  BY <1>1, <1>2 DEF Queueing, Adds, TypeOK
<1>6. \A d \in Queueing' : d \in Queueing /\ callerTimer'[d] = callerTimer[d]
  BY <1>5 DEF Queueing
<1>7. \A d \in Callers : callerPc'[d] # "idle" => callerTimer'[d] # None
  BY <1>1, <1>5 DEF OwnersOK
<1>8. \A i \in Adds' : i \in Adds /\ pending'[i] = pending[i]
  BY <1>2, <1>5
<1>9. OwnersOK'
  BY <1>1, <1>4, <1>6, <1>7, <1>8, OwnersFewer
<1> QED BY <1>1, <1>2, <1>3, <1>9 DEF StepOK

\* handleRead() moves the timers that are due out of both sets.
LEMMA HandleReadKeeps ==
    ASSUME IndInv, HandleRead
    PROVE  StepOK
<1> DEFINE due == {e \in timers : e[1] <= now}
           pair(e) == <<e[2], heap[e[2]].seq>>
<1>1. TypeOK /\ Listed /\ OwnersOK /\ StoppedOK /\ expired = {}
  BY DEF IndInv, SetsAgree, HandleRead
<1>2. /\ timers' = timers \ due /\ active' = active \ {pair(e) : e \in due}
      /\ calling' = TRUE /\ canceling' = {} /\ expired' = due
      /\ UNCHANGED <<heap, created, stopped, pending, callerPc, callerTimer>>
  BY DEF HandleRead, callerVars, cancelVars
<1>3. due \subseteq timers /\ active = {pair(e) : e \in timers}
  BY <1>1 DEF Listed
<1>4. \A d, e \in timers : d[2] = e[2] => d = e
  BY <1>1, EntriesDistinct
<1>5. \A e \in due : heap[e[2]].exp <= now
  BY <1>1 DEF Listed
<1>6. \A e \in timers : pair(e)[1] = e[2]
  OBVIOUS
<1>7. Running' = {pair(e) : e \in due}
  BY <1>2 DEF Running
<1> HIDE DEF due, pair
<1>8. active' = {pair(e) : e \in timers'}
  BY <1>2, <1>3, <1>4, <1>6, SMTT(30)
<1>9. Listed'
  <2>1. \A e \in timers' \cup expired' : heap'[e[2]] # None /\ heap'[e[2]].exp = e[1]
    BY <1>1, <1>2, <1>3 DEF Listed
  <2>2. \A e \in timers', d \in expired' : e[2] # d[2]
    BY <1>2, <1>3, <1>4
  <2> QED BY <1>2, <1>8, <2>1, <2>2 DEF Listed, pair
<1>10. StoppedOK'
  <2>1. Running' \subseteq active /\ active' \subseteq active
    BY <1>2, <1>3, <1>7
  <2> QED BY <1>1, <1>2, <2>1 DEF StoppedOK, CancelSticks
<1>11. \A x \in TimerIds : OnItsWay(x) => OnItsWay(x)'
  BY <1>2, <1>3 DEF OnItsWay
<1>12. OwnersOK'
  BY <1>1, <1>2, <1>11, OwnersSame
<1>13. ASSUME NEW id \in active \ active' PROVE heap[id[1]].exp <= now
  <2>1. PICK e \in due : id = pair(e)
    BY <1>2
  <2> QED BY <1>3, <1>5, <1>6, <2>1
<1> QED BY <1>2, <1>9, <1>10, <1>12, <1>13 DEF StepOK

\* reset(): the kept timers are back in both sets under their next expiration,
\* the others are deleted and nothing refers to them.
LEMMA ResetKeeps ==
    ASSUME IndInv, Reset
    PROVE  StepOK
<1> DEFINE again == {e[2] : e \in Kept}
           late == {e[2] : e \in expired}
           next(a) == Restarted(heap[a], readAt)
           pair(e) == <<e[2], heap[e[2]].seq>>
<1>1. TypeOK /\ Listed /\ OwnersOK /\ StoppedOK
  BY DEF IndInv, SetsAgree
<1>2. /\ heap' = [a \in Addr |-> IF a \in again THEN next(a)
                                 ELSE IF a \in late \ again THEN None ELSE heap[a]]
      /\ timers' = timers \cup {<<next(a).exp, a>> : a \in again}
      /\ active' = active \cup {<<a, heap[a].seq>> : a \in again}
      /\ expired' = {} /\ UNCHANGED <<created, stopped, pending, callerPc, callerTimer>>
  BY DEF Reset, callerVars, cancelVars
<1>3. ASSUME NEW a \in again
      PROVE  /\ a \in Addr /\ a \in late /\ heap[a] \in Timer /\ next(a) # None
             /\ next(a).seq = heap[a].seq
             /\ <<a, heap[a].seq>> \in Running \ canceling
  <2>1. PICK e \in expired : e[2] = a /\ heap[a].interval > 0 /\ pair(e) \notin canceling
    BY DEF Kept
  <2>2. a \in Addr /\ heap[a] \in Timer
    BY <1>1, <2>1 DEF Listed, TypeOK
  <2>3. readAt \in Nat
    BY <1>1 DEF TypeOK
  <2>4. next(a) \in Timer /\ next(a).seq = heap[a].seq
    BY <2>1, <2>2, <2>3, RestartedTyped
  <2>5. <<a, heap[a].seq>> \in Running \ canceling
    BY <2>1 DEF Running
  <2> QED BY <2>1, <2>2, <2>4, <2>5, NoneAssumption
<1>4. \A e \in timers : e[2] \in Addr /\ e[2] \notin late
  BY <1>1 DEF Listed, TypeOK
<1> HIDE DEF again, late, next
<1>5. /\ \A a \in again : heap'[a] = next(a)
      /\ \A a \in Addr \ late : heap'[a] = heap[a]
      /\ \A a \in late \ again : a \in Addr => heap'[a] = None
  BY <1>2, <1>3
<1>6. Listed'
  <2>1. ASSUME NEW e \in timers' PROVE heap'[e[2]] # None /\ heap'[e[2]].exp = e[1]
    <3>1. CASE e \in timers
      BY <1>1, <1>4, <1>5, <3>1 DEF Listed
    <3>2. CASE e \notin timers
      <4>1. PICK a \in again : e = <<next(a).exp, a>>
        BY <1>2, <3>2
      <4> QED BY <1>3, <1>5, <4>1
    <3> QED BY <3>1, <3>2
  <2>2. active' = {<<e[2], heap'[e[2]].seq>> : e \in timers'}
    <3>1. active = {pair(e) : e \in timers}
      BY <1>1 DEF Listed
    <3>2. \A e \in timers : <<e[2], heap'[e[2]].seq>> = pair(e)
      BY <1>4, <1>5
    <3>3. \A a \in again : heap'[a].seq = heap[a].seq
      BY <1>3, <1>5
    <3> HIDE DEF pair
    <3>4. ASSUME NEW x \in active' PROVE \E e \in timers' : x = <<e[2], heap'[e[2]].seq>>
      <4>1. CASE x \in active
        BY <1>2, <3>1, <3>2, <4>1
      <4>2. CASE x \notin active
        <5>1. PICK a \in again : x = <<a, heap[a].seq>>
          BY <1>2, <4>2
        <5>2. <<next(a).exp, a>> \in timers'
          BY <1>2
        <5> QED BY <3>3, <5>1, <5>2
      <4> QED BY <4>1, <4>2
    <3>5. ASSUME NEW e \in timers' PROVE <<e[2], heap'[e[2]].seq>> \in active'
      <4>1. CASE e \in timers
        BY <1>2, <3>1, <3>2, <4>1, SMTT(30)
      <4>2. CASE e \notin timers
        <5>1. PICK a \in again : e = <<next(a).exp, a>>
          BY <1>2, <4>2
        <5>2. e[2] = a /\ <<a, heap[a].seq>> \in active'
          BY <1>2, <5>1
        <5> QED BY <3>3, <5>2
      <4> QED BY <4>1, <4>2
    <3> QED BY <3>4, <3>5
  <2> QED BY <1>2, <2>1, <2>2 DEF Listed
<1>7. StoppedOK'
  <2>1. \A a \in Addr : heap'[a] # None => heap[a] # None /\ heap'[a].seq = heap[a].seq
    <3>1. \A a \in again : heap[a] # None
      BY <1>3, NoneAssumption
    <3> QED BY <1>3, <1>5, <3>1
  <2>2. active' \cap stopped = {}
    BY <1>1, <1>2, <1>3 DEF StoppedOK, CancelSticks
  <2>3. Running' = {}
    BY <1>2 DEF Running
  <2> QED BY <1>1, <1>2, <2>1, <2>2, <2>3 DEF StoppedOK, CancelSticks
<1>8. ASSUME NEW x \in TimerIds, OnItsWay(x) PROVE OnItsWay(x)'
  <2>1. x[1] \in Addr \ late
    BY <1>8 DEF OnItsWay, TimerIds, late
  <2>2. x[1] \notin again
    BY <1>3, <2>1
  <2>3. \A e \in timers' \cup expired' : e[2] # x[1]
    BY <1>2, <1>8, <2>2, SMTT(30) DEF OnItsWay
  <2> QED BY <1>2, <1>5, <1>8, <2>1, <2>3 DEF OnItsWay
<1>9. OwnersOK'
  BY <1>1, <1>2, <1>8, OwnersSame
<1> QED BY <1>2, <1>6, <1>7, <1>9 DEF StepOK

-----------------------------------------------------------------------------
(* The theorems.                                                           *)

\* Every step keeps what the invariant says beyond the types.
LEMMA StepKeeps == IndInv /\ [Next]_vars => StepOK
<1> SUFFICES ASSUME IndInv, [Next]_vars PROVE StepOK
  OBVIOUS
<1> USE DEF fdVars, setVars, batchVars, callerVars, historyVars, cancelVars
<1>1. CASE Tick
  BY <1>1, SilentKeeps DEF Tick
<1>2. CASE FdExpires
  BY <1>2, SilentKeeps DEF FdExpires
<1>3. CASE PollTimer
  BY <1>3, SilentKeeps DEF PollTimer
<1>4. CASE HandleRead
  BY <1>4, HandleReadKeeps
<1>5. CASE RunTimer
  BY <1>5, SilentKeeps DEF RunTimer
<1>6. CASE Reset
  BY <1>6, ResetKeeps
<1>7. ASSUME NEW i \in DOMAIN pending, RunAdd(i) \/ RunCancel(i) PROVE StepOK
  BY <1>7, RunAddKeeps, RunCancelKeeps
<1>8. ASSUME NEW a \in Addr, NEW when \in Whens, NEW interval \in Intervals,
             LoopAdd(a, when, interval) \/ \E c \in Callers : CallerNew(c, a, when, interval)
      PROVE  StepOK
  BY <1>8, LoopAddKeeps, CallerNewKeeps
<1>9. ASSUME NEW id \in ids,
             LoopCancel(id) \/ \E c \in Callers, path \in Paths : CallerCancel(c, id, path)
      PROVE  StepOK
  BY <1>9, LoopCancelKeeps, CallerCancelKeeps
<1>10. ASSUME NEW c \in Callers, CallerStep(c) PROVE StepOK
  BY <1>10, CallerReadKeeps, CallerQueueKeeps DEF CallerStep
<1>11. CASE UNCHANGED vars
  BY <1>11, SilentKeeps DEF vars
<1> QED BY <1>1, <1>2, <1>3, <1>4, <1>5, <1>6, <1>7, <1>8, <1>9, <1>10, <1>11
        DEF Next, LoopStep, User

\* A TimerQueue that was just built satisfies the invariant.
LEMMA InitKeeps == Init => IndInv
<1> SUFFICES ASSUME Init PROVE IndInv
  OBVIOUS
<1>1. TypeOK
  <2>1. <<>> \in Seq(Functor) /\ 0 \in 0..MaxTimers
    BY TimeAssumption, SMTT(30)
  <2>2. calling \in BOOLEAN /\ fdReadable \in BOOLEAN /\ fdActive \in BOOLEAN
    BY DEF Init
  <2> QED BY <2>1, <2>2 DEF Init, TypeOK, Functor
<1>2. Listed
  BY DEF Init, Listed
<1>3. OwnersOK
  <2>1. Queueing = {} /\ \A c \in Callers : callerPc[c] = "idle"
    BY DEF Init, Queueing
  <2>2. Adds = {}
    <3>1. DOMAIN pending = {}
      BY SMTT(30) DEF Init
    <3> QED BY <3>1 DEF Adds
  <2> QED BY <2>1, <2>2 DEF OwnersOK
<1>4. StoppedOK
  BY DEF Init, StoppedOK, CancelSticks, Running
<1> QED BY <1>1, <1>2, <1>3, <1>4 DEF IndInv, SetsAgree, Init

\* IndInv holds in every reachable state.
THEOREM IndInvHolds == Spec => []IndInv
<1>1. IndInv /\ [Next]_vars => IndInv'
  BY TypeStep, StepKeeps DEF IndInv, SetsAgree, StepOK
<1> QED BY <1>1, InitKeeps, PTL DEF Spec

\* insert() and cancelInLoop() assert that timers_ and activeTimers_ have the same
\* size: for any number of addresses, timers and calling threads the two list the
\* same timers, and none of those was deleted.
THEOREM SetsAgreeHolds == Spec => []SetsAgree
<1>1. IndInv => SetsAgree
  BY DEF IndInv
<1> QED BY <1>1, IndInvHolds, PTL

\* A timer cancelInLoop() knew of, waiting or being called, is not restarted by
\* reset() and never due again, whatever is added and cancelled meanwhile.
THEOREM CancelSticksHolds == Spec => []CancelSticks
<1>1. IndInv => CancelSticks
  BY DEF IndInv, StoppedOK
<1> QED BY <1>1, IndInvHolds, PTL

\* A cancel() with a stale TimerId takes no other timer out of activeTimers_,
\* although the allocator has handed out its address again.
THEOREM LeavesOnlyByOwnIdHolds == Spec => LeavesOnlyByOwnId
<1>1. IndInv /\ [Next]_vars
      => [\A id \in active \ active' :
             id \in cancelled' \/ (calling' /\ heap[id[1]].exp <= now)]_vars
  BY StepKeeps DEF StepOK
<1> QED BY <1>1, IndInvHolds, PTL DEF Spec, LeavesOnlyByOwnId

-----------------------------------------------------------------------------
(* The timerfd and the periods.                                            *)

\* Division rounds down.
LEMMA DivBounds ==
    ASSUME NEW a \in Int, NEW b \in Nat \ {0}
    PROVE  /\ a \div b \in Int
           /\ b * (a \div b) <= a /\ a < b * (a \div b) + b
  BY SMTT(30)

\* Multiplication by a natural number is monotonic.
LEMMA TimesGrows ==
    ASSUME NEW a \in Nat, NEW b \in Int, NEW c \in Int, b <= c
    PROVE  a * b \in Int /\ a * c \in Int /\ a * b <= a * c
  BY SMTT(30)

\* Whole periods do not change the phase.
LEMMA StaysInPhase ==
    ASSUME NEW p \in Nat \ {0}, NEW x \in Int, x % p = 0, NEW k \in Int
    PROVE  (x + p * k) % p = 0
<1>1. x = p * (x \div p) + (x % p)
  BY SMTT(30)
<1>2. PICK j \in Int : x = p * j
  <2>1. x \div p \in Int
    BY SMTT(30)
  <2> QED BY <1>1, <2>1, SMTT(30)
<1>3. x + p * k = p * (j + k)
  BY <1>2, SMTT(30)
<1>4. ASSUME NEW m \in Int PROVE (p * m) % p = 0
  BY SMTT(30)
<1>5. j + k \in Int
  BY SMTT(30)
<1> QED BY <1>3, <1>4, <1>5

\* Setting the timerfd makes it expire in time, or after the minimum delay: the
\* truncation to microseconds only ever makes it early.
LEMMA FdSetInTime ==
    ASSUME TypeOK, NEW when \in Nat, resetTimerfd(when)
    PROVE  /\ fdAt' # None
           /\ fdAt' <= MaxOf(when, now + TicksPerMicro * MinDelay)
<1>1. now \in Nat /\ TicksPerMicro \in Nat \ {0} /\ MinDelay \in Nat
  BY TimeAssumption DEF TypeOK
<1>2. PICK q \in Int : q = (when - now) \div TicksPerMicro /\ TicksPerMicro * q <= when - now
  <2>1. when - now \in Int
    BY <1>1, SMTT(30)
  <2> QED BY <1>1, <2>1, DivBounds
<1>3. fdAt' = now + TicksPerMicro * MaxOf(MinDelay, q)
  BY <1>2 DEF resetTimerfd
<1>4. PICK least \in Int : least = TicksPerMicro * MinDelay
  BY <1>1, SMTT(30)
<1>5. PICK late \in Int : late = TicksPerMicro * q
  BY <1>1, SMTT(30)
<1>6. fdAt' = now + least \/ fdAt' = now + late
  BY <1>3, <1>4, <1>5 DEF MaxOf
<1>7. fdAt' \in Int /\ fdAt' <= MaxOf(when, now + least)
  BY <1>1, <1>2, <1>5, <1>6, SMTT(30) DEF MaxOf
<1> QED BY <1>4, <1>7, NoneAssumption

\* The timerfd looks after a set of timers.
Covers(S) ==
    S # {} => \/ fdReadable
              \/ /\ fdAt # None
                 /\ fdAt <= MaxOf(Begin(S)[1], now + TicksPerMicro * MinDelay)

\* It does after it was set for the earliest of them,
LEMMA SetCovers ==
    ASSUME TypeOK, now' = now, NEW S \in SUBSET (Nat \X Addr), NEW e \in S,
           \A d \in S : e[1] <= d[1], resetTimerfd(e[1])
    PROVE  S # {} => /\ fdAt' # None
                     /\ fdAt' <= MaxOf(Begin(S)[1], now' + TicksPerMicro * MinDelay)
<1>1. Begin(S) \in S /\ Begin(S)[1] <= e[1] /\ e[1] <= Begin(S)[1]
  BY BeginIn
<1>2. Begin(S)[1] \in Nat /\ e[1] \in Nat
  BY <1>1
<1>3. Begin(S)[1] = e[1]
  BY <1>1, <1>2, SMTT(30)
<1> QED BY <1>2, <1>3, FdSetInTime

\* and still does when timers no earlier than the earliest come or go.
LEMMA KeepsCover ==
    ASSUME Covers(timers), timers \in SUBSET (Nat \X Addr), UNCHANGED <<now, fdAt, fdReadable>>,
           NEW S \in SUBSET (Nat \X Addr), timers # {}, Begin(timers) \in S,
           \A d \in S : Begin(timers)[1] <= d[1]
    PROVE  fdReadable' \/ (/\ fdAt' # None
                           /\ fdAt' <= MaxOf(Begin(S)[1], now' + TicksPerMicro * MinDelay))
<1>1. Begin(S) \in S /\ Begin(S)[1] <= Begin(timers)[1] /\ Begin(timers)[1] <= Begin(S)[1]
  BY BeginIn
<1>2. Begin(S)[1] \in Nat /\ Begin(timers)[1] \in Nat
  BY <1>1
<1>3. Begin(S)[1] = Begin(timers)[1]
  BY <1>1, <1>2, SMTT(30)
<1> QED BY <1>3 DEF Covers

\* addTimerInLoop() and cancelInLoop() leave the timerfd looking after the timers.
LEMMA AddCovers ==
    ASSUME TypeOK, Covers(timers), now' = now, NEW a \in Addr, NEW timer \in Timer,
           addTimerInLoop(a, timer)
    PROVE  Covers(timers)'
<1> DEFINE e == <<timer.exp, a>>
           S == timers \cup {e}
<1>1. timer.exp \in Nat /\ timers \in SUBSET (Nat \X Addr) /\ timers' = S
  BY DEF addTimerInLoop, insert, TypeOK, Timer
<1>2. S \in SUBSET (Nat \X Addr) /\ e \in S /\ e[1] = timer.exp
  BY <1>1, SMTT(30)
<1>3. CASE timers = {} \/ timer.exp < Begin(timers)[1]
  <2>1. \A d \in S : e[1] <= d[1]
    <3> SUFFICES ASSUME NEW d \in timers PROVE timer.exp <= d[1]
      BY <1>1, SMTT(30)
    <3>1. Begin(timers) \in timers /\ Begin(timers)[1] <= d[1]
      BY <1>1, BeginIn
    <3>2. Begin(timers)[1] \in Nat /\ d[1] \in Nat
      BY <1>1, <3>1
    <3> QED BY <1>1, <1>3, <3>1, <3>2, SMTT(30)
  <2>2. resetTimerfd(e[1])
    BY <1>3, <1>2 DEF addTimerInLoop
  <2> HIDE DEF e, S
  <2> QED BY <1>1, <1>2, <2>1, <2>2, SetCovers DEF Covers
<1>4. CASE ~(timers = {} \/ timer.exp < Begin(timers)[1])
  <2>1. UNCHANGED <<now, fdAt, fdReadable>>
    BY <1>4 DEF addTimerInLoop, fdVars
  <2>2. Begin(timers) \in timers /\ \A d \in timers : Begin(timers)[1] <= d[1]
    BY <1>1, <1>4, BeginIn
  <2>3. Begin(timers)[1] <= e[1]
    <3>1. Begin(timers)[1] \in Nat
      BY <1>1, <2>2
    <3> QED BY <1>1, <1>4, <3>1, SMTT(30)
  <2>4. Begin(timers) \in S /\ \A d \in S : Begin(timers)[1] <= d[1]
    BY <2>2, <2>3
  <2> HIDE DEF e, S
  <2> QED BY <1>1, <1>2, <1>4, <2>1, <2>4, KeepsCover DEF Covers
<1> QED BY <1>3, <1>4

LEMMA CancelCovers ==
    ASSUME TypeOK, Covers(timers), now' = now, NEW id \in TimerIds, cancelInLoop(id)
    PROVE  Covers(timers)'
<1> DEFINE entry == <<heap[id[1]].exp, id[1]>>
           rest == timers \ {entry}
<1>1. timers \in SUBSET (Nat \X Addr) /\ rest \in SUBSET (Nat \X Addr)
  BY DEF TypeOK
<1>2. CASE FindActive(id) # {} /\ rest # {}
  <2>1. /\ timers' = rest
        /\ IF Begin(timers) # entry THEN UNCHANGED fdVars ELSE resetTimerfd(Begin(rest)[1])
    BY <1>2 DEF cancelInLoop
  <2>2. Begin(timers) \in timers /\ \A d \in timers : Begin(timers)[1] <= d[1]
    BY <1>1, <1>2, BeginIn
  <2>3. Begin(rest) \in rest /\ \A d \in rest : Begin(rest)[1] <= d[1]
    BY <1>1, <1>2, BeginIn
  <2>4. CASE Begin(timers) # entry
    <3>1. UNCHANGED <<now, fdAt, fdReadable>> /\ Begin(timers) \in rest
      BY <2>1, <2>2, <2>4 DEF fdVars
    <3>2. \A d \in rest : Begin(timers)[1] <= d[1]
      BY <2>2
    <3>3. timers # {}
      BY <2>2
    <3> HIDE DEF entry, rest
    <3> QED BY <1>1, <2>1, <3>1, <3>2, <3>3, KeepsCover DEF Covers
  <2>5. CASE Begin(timers) = entry
    <3>1. resetTimerfd(Begin(rest)[1])
      BY <2>1, <2>5
    <3> HIDE DEF entry, rest
    <3> QED BY <1>1, <2>1, <2>3, <3>1, SetCovers DEF Covers
  <2> QED BY <2>4, <2>5
<1>3. CASE FindActive(id) # {} /\ rest = {}
  BY <1>3 DEF cancelInLoop, Covers
<1>4. CASE FindActive(id) = {}
  BY <1>4 DEF cancelInLoop, setVars, fdVars, Covers
<1> QED BY <1>2, <1>3, <1>4

\* The timer r is due after t, by at most a period, and a whole number of periods
\* after the timer.
NextAfter(timer, t, r) ==
    LET period == TicksPerMicro * timer.interval
    IN  /\ r.interval = timer.interval /\ r.exp \in Nat
        /\ t < r.exp /\ r.exp <= t + period
        /\ \E k \in Int : r.exp = timer.exp + period * k

\* Timer::restart() of a timer that is due.
LEMMA RestartedNext ==
    ASSUME NEW timer \in Timer, timer.interval > 0, NEW t \in Nat, timer.exp <= t
    PROVE  NextAfter(timer, t, Restarted(timer, t))
<1> DEFINE i == timer.interval
           T == TicksPerMicro
<1>1. timer.exp \in Nat /\ i \in Nat \ {0} /\ T \in Nat \ {0}
  <2>1. timer.exp \in Nat /\ i \in Intervals
    BY DEF Timer
  <2>2. i \in Nat /\ TicksPerMicro \in Nat \ {0}
    BY <2>1, TimeAssumption
  <2>3. i \in Nat \ {0}
    BY <2>2, SMTT(30)
  <2> QED BY <2>1, <2>2, <2>3
<1>2. PICK period \in Nat : period = T * i
  BY <1>1, TimesNat
<1>3. PICK next \in Nat : next = timer.exp + period
  BY <1>1, <1>2, SMTT(30)
<1>4. PICK q \in Int : /\ q = (t - next) \div T
                       /\ T * q <= t - next /\ t - next < T * q + T
  <2>1. t - next \in Int
    BY SMTT(30)
  <2> QED BY <1>1, <2>1, DivBounds
<1>5. PICK k \in Int : k = q \div i /\ i * k <= q /\ q < i * k + i
  BY <1>1, DivBounds
<1>6. PICK exp : exp = IF next > t THEN next ELSE next + period * (k + 1)
  OBVIOUS
<1>7. Restarted(timer, t) = [timer EXCEPT !.exp = exp]
  BY <1>2, <1>3, <1>4, <1>5, <1>6 DEF Restarted
<1>8. Restarted(timer, t).exp = exp /\ Restarted(timer, t).interval = i
  BY <1>7 DEF Timer
<1>9. CASE next > t
  <2>1. exp = timer.exp + period * 1
    BY <1>1, <1>3, <1>6, <1>9, SMTT(30)
  <2>2. exp \in Nat /\ t < exp /\ exp <= t + period
    BY <1>1, <1>3, <1>6, <1>9, SMTT(30)
  <2> QED BY <1>2, <1>8, <2>1, <2>2, SMTT(30) DEF NextAfter
<1>10. CASE ~(next > t)
  <2>1. T * (i * k) <= T * q /\ T * (q + 1) <= T * (i * (k + 1))
    <3>1. i * k \in Int /\ i * (k + 1) \in Int /\ i * (k + 1) = i * k + i
      BY <1>1, SMTT(30)
    <3>2. q + 1 <= i * (k + 1)
      BY <1>1, <1>5, <3>1, SMTT(30)
    <3> HIDE DEF i, T
    <3> QED BY <1>1, <1>5, <3>1, <3>2, TimesGrows, SMTT(30)
  <2>2. T * (i * k) = period * k /\ T * (i * (k + 1)) = period * (k + 1)
    BY <1>1, <1>2, SMTT(30)
  <2>3. T * (q + 1) = T * q + T /\ T * q \in Int
    BY <1>1, SMTT(30)
  <2>4. period * (k + 1) = period * k + period /\ period * k \in Int
    BY SMTT(30)
  <2>5. period * k <= t - next /\ t - next < period * (k + 1)
    BY <1>1, <1>4, <2>1, <2>2, <2>3, <2>4, SMTT(30)
  <2>6. exp = next + period * (k + 1)
    BY <1>6, <1>10
  <2>7. exp \in Int /\ t < exp /\ exp <= t + period
    BY <2>4, <2>5, <2>6, SMTT(30)
  <2>8. exp = timer.exp + period * (k + 2) /\ k + 2 \in Int
    <3>1. period * (k + 2) = period * (k + 1) + period
      BY SMTT(30)
    <3> QED BY <1>1, <1>3, <2>4, <2>6, <3>1, SMTT(30)
  <2>9. exp \in Nat
    BY <2>7, SMTT(30)
  <2> QED BY <1>2, <1>8, <2>7, <2>8, <2>9 DEF NextAfter
<1> QED BY <1>9, <1>10

LEMMA NextInPhase ==
    ASSUME NEW timer \in Timer, NEW t, NEW r, NEW o \in Nat, timer.interval > 0,
           NextAfter(timer, t, r), (timer.exp - o) % (TicksPerMicro * timer.interval) = 0
    PROVE  (r.exp - o) % (TicksPerMicro * timer.interval) = 0
<1>1. timer.interval \in Nat /\ timer.exp \in Nat
  BY TimeAssumption DEF Timer
<1>2. timer.interval \in Nat \ {0}
  BY <1>1, SMTT(30)
<1>3. PICK p \in Nat \ {0} : p = TicksPerMicro * timer.interval
  BY <1>2, TimeAssumption, SMTT(30)
<1>4. PICK x \in Int : x = timer.exp - o
  BY <1>1, SMTT(30)
<1>5. PICK k \in Int : r.exp = timer.exp + p * k
  BY <1>3 DEF NextAfter
<1>6. p * k \in Int
  BY SMTT(30)
<1>7. r.exp - o = x + p * k
  <2>1. PICK m \in Int : m = p * k
    BY <1>6
  <2> QED BY <1>1, <1>4, <1>5, <2>1, SMTT(30)
<1>8. x % p = 0
  BY <1>3, <1>4
<1>9. (x + p * k) % p = 0
  BY <1>8, StaysInPhase
<1> QED BY <1>3, <1>7, <1>9

\* new Timer(...): its sequence number was never handled, and it is in phase.
LEMMA NewScheduled ==
    ASSUME IndInv, BatchOK, AllScheduled, NEW a \in Addr, NEW when \in Whens,
           NEW interval \in Intervals, NewTimer(a, when),
           heap' = [heap EXCEPT ![a] = TimerOf(when, interval)],
           UNCHANGED <<expired, toRun, readAt, handled>>
    PROVE  BatchOK' /\ AllScheduled'
<1> DEFINE s == created + 1
<1>1. /\ TypeOK /\ Slot(a, TimerOf(when, interval)) /\ Elsewhere(a)
      /\ \A b \in Addr : heap[b] # None => heap[b].seq <= created
  BY NewSlot DEF IndInv, SetsAgree, StoppedOK
<1>2. /\ created \in Nat /\ created' = s /\ s \in Seqs /\ when \in Nat /\ interval \in Nat
      /\ origin' = [origin EXCEPT ![s] = when] /\ DOMAIN origin = Seqs
      /\ DOMAIN handled = Seqs
  <2>1. created \in Nat /\ created < MaxTimers /\ MaxTimers \in Nat
    <3>1. created \in 0..MaxTimers
      BY <1>1 DEF TypeOK
    <3>2. created < MaxTimers
      BY DEF NewTimer
    <3> QED BY <3>1, <3>2, TimeAssumption, SMTT(30)
  <2>2. s \in Seqs
    BY <2>1, SMTT(30) DEF Seqs
  <2> QED BY <1>1, <2>1, <2>2, TimeAssumption DEF NewTimer, TypeOK
<1>3. handled[s] = None
  BY <1>2, SMTT(30) DEF BatchOK
<1>4. BatchOK'
  <2>1. \A x \in Seqs : handled'[x] # None => x <= created'
    BY <1>2, SMTT(30) DEF BatchOK, Seqs
  <2>2. \A e \in expired' : heap'[e[2]] = heap[e[2]]
    BY <1>1 DEF Elsewhere
  <2> QED BY <2>1, <2>2 DEF BatchOK
<1>5. heap'[a] = TimerOf(when, interval) /\ heap'[a].seq = s
  BY <1>1 DEF Slot
<1>6. ASSUME NEW b \in Addr, heap'[b] # None, b # a
      PROVE  /\ heap'[b] = heap[b] /\ heap[b] # None /\ heap[b].seq \in Seqs
             /\ heap[b].seq # s /\ Scheduled(b)
  <2>1. heap'[b] = heap[b] /\ heap[b] # None
    BY <1>1, <1>6 DEF Slot
  <2>2. heap[b].seq \in Seqs /\ heap[b].seq <= created
    <3>1. heap[b] \in Timer
      BY <1>1, <2>1 DEF TypeOK
    <3>2. heap[b].seq \in Seqs
      BY <3>1 DEF Timer
    <3> QED BY <1>1, <2>1, <3>2
  <2>3. heap[b].seq # s
    <3>1. PICK x \in Int : x = heap[b].seq
      BY <2>2, SMTT(30) DEF Seqs
    <3> QED BY <1>2, <2>2, <3>1, SMTT(30)
  <2> QED BY <2>1, <2>2, <2>3 DEF AllScheduled
<1>7. ASSUME NEW b \in Addr, heap'[b] # None PROVE Scheduled(b)'
  <2>1. CASE b = a
    <3>1. ASSUME NEW c \in Addr, heap'[c] # None, heap'[c].seq = heap'[b].seq PROVE c = b
      BY <1>5, <1>6, <2>1, <3>1
    <3>2. origin'[s] = when /\ when # None
      BY <1>2, NoneAssumption, SMTT(30)
    <3>3. InPhase(heap[b])'
      <4>1. heap'[a].exp = when /\ heap'[a].interval = interval
        BY <1>5, SMTT(30) DEF TimerOf
      <4>2. ASSUME interval > 0 PROVE (when - when) % (TicksPerMicro * interval) = 0
        <5>1. PICK p \in Nat \ {0} : p = TicksPerMicro * interval
          BY <1>2, <4>2, TimeAssumption, SMTT(30)
        <5>2. 0 % p = 0 /\ when - when = 0
          BY <1>2, SMTT(30)
        <5> QED BY <5>1, <5>2
      <4> QED BY <1>5, <2>1, <3>2, <4>1, <4>2 DEF InPhase
    <3> QED BY <1>3, <1>5, <2>1, <3>1, <3>3 DEF Scheduled
  <2>2. CASE b # a
    <3>1. /\ heap'[b] = heap[b] /\ heap[b].seq \in Seqs /\ heap[b].seq # s /\ Scheduled(b)
      BY <1>6, <1>7, <2>2
    <3>2. ASSUME NEW c \in Addr, heap'[c] # None, heap'[c].seq = heap'[b].seq PROVE c = b
      <4>1. c # a
        BY <1>5, <3>1, <3>2
      <4> QED BY <1>6, <3>1, <3>2, <4>1 DEF Scheduled
    <3>3. origin'[heap[b].seq] = origin[heap[b].seq]
      BY <1>2, <3>1
    <3> QED BY <3>1, <3>2, <3>3 DEF Scheduled, InPhase, WithinPeriod
  <2> QED BY <2>1, <2>2
<1> QED BY <1>4, <1>7 DEF AllScheduled

\* Deleting timers that are not being called, or nothing at all.
LEMMA FewerScheduled ==
    ASSUME BatchOK, AllScheduled, TypeOK, UNCHANGED <<created, expired, toRun, readAt, origin, handled>>,
           \A b \in Addr : heap'[b] = heap[b] \/ heap'[b] = None,
           \A e \in expired : heap'[e[2]] # None
    PROVE  BatchOK' /\ AllScheduled'
<1>1. \A e \in expired : heap'[e[2]] = heap[e[2]]
  BY DEF TypeOK
<1>2. BatchOK'
  BY <1>1 DEF BatchOK
<1>3. ASSUME NEW b \in Addr, heap'[b] # None PROVE Scheduled(b)'
  <2>1. heap'[b] = heap[b] /\ heap[b] # None /\ Scheduled(b)
    BY <1>3 DEF AllScheduled
  <2>2. ASSUME NEW c \in Addr, heap'[c] # None, heap'[c].seq = heap'[b].seq PROVE c = b
    <3>1. heap'[c] = heap[c]
      BY <2>2
    <3> QED BY <2>1, <2>2, <3>1 DEF Scheduled
  <2> QED BY <2>1, <2>2 DEF Scheduled, InPhase, WithinPeriod
<1> QED BY <1>2, <1>3 DEF AllScheduled

\* handleRead() takes out timers that are due; none was being called before.
LEMMA HandleReadScheduled ==
    ASSUME IndInv, BatchOK, AllScheduled, HandleRead
    PROVE  BatchOK' /\ AllScheduled'
<1>1. TypeOK /\ expired = {}
  BY DEF IndInv, SetsAgree, HandleRead
<1>2. /\ UNCHANGED <<heap, created, origin, handled>>
      /\ toRun' = expired' /\ readAt' = now /\ expired' \subseteq {e \in timers : e[1] <= now}
  BY DEF HandleRead, historyVars
<1>3. BatchOK'
  BY <1>2 DEF BatchOK
<1>4. ASSUME NEW b \in Addr, heap[b] # None PROVE Scheduled(b)'
  <2>1. Scheduled(b) /\ \A e \in expired : e[2] # b
    BY <1>1, <1>4 DEF AllScheduled
  <2> QED BY <1>2, <2>1 DEF Scheduled, InPhase, WithinPeriod
<1> QED BY <1>2, <1>3, <1>4 DEF AllScheduled

\* A callback is called: only its own timer becomes handled.
LEMMA RunTimerScheduled ==
    ASSUME IndInv, BatchOK, AllScheduled, RunTimer
    PROVE  BatchOK' /\ AllScheduled'
<1>1. /\ TypeOK /\ Listed /\ toRun # {}
      /\ \A b \in Addr : heap[b] # None => heap[b].seq <= created
  BY DEF IndInv, SetsAgree, StoppedOK, RunTimer
<1>2. PICK e \in toRun : e = Begin(toRun)
  <2>1. toRun \in SUBSET (Nat \X Addr)
    BY <1>1 DEF TypeOK
  <2> QED BY <1>1, <2>1, BeginIn
<1>3. PICK s \in Seqs : s = heap[e[2]].seq /\ s <= created
  <2>1. e[2] \in Addr /\ heap[e[2]] # None
    BY <1>1, <1>2 DEF Listed, TypeOK
  <2>2. heap[e[2]] \in Timer
    BY <1>1, <2>1 DEF TypeOK
  <2> QED BY <1>1, <2>1, <2>2 DEF Timer
<1>4. /\ toRun' = toRun \ {e} /\ handled' = [handled EXCEPT ![s] = readAt]
      /\ UNCHANGED <<heap, created, expired, readAt, origin>>
  BY <1>2, <1>3 DEF RunTimer
<1>5. /\ handled'[s] = readAt /\ \A x \in Seqs : x # s => handled'[x] = handled[x]
      /\ \A b \in Addr : heap[b] # None => heap[b].seq \in Seqs
  BY <1>1, <1>4 DEF TypeOK, Timer
<1>6. /\ e \in expired /\ e[2] \in Addr /\ heap[e[2]] # None
      /\ \A d \in expired : d[2] \in Addr /\ heap[d[2]] # None /\ (d[2] = e[2] => d = e)
  <2>1. e \in expired
    BY <1>1, <1>2 DEF TypeOK
  <2>2. \A d \in expired : d[2] \in Addr /\ heap[d[2]] # None
    BY <1>1 DEF Listed, TypeOK
  <2> QED BY <1>1, <2>1, <2>2, EntriesDistinct
<1>7. ASSUME NEW b \in Addr, heap[b] # None, b # e[2]
      PROVE  heap[b].seq # s /\ handled'[heap[b].seq] = handled[heap[b].seq]
  <2>1. Scheduled(b)
    BY <1>7 DEF AllScheduled
  <2>2. heap[b].seq # s
    BY <1>3, <1>6, <1>7, <2>1 DEF Scheduled
  <2> QED BY <1>5, <1>7, <2>2
<1>8. BatchOK'
  <2>1. \A x \in Seqs : handled'[x] # None => x <= created
    BY <1>3, <1>5 DEF BatchOK
  <2>2. ASSUME NEW d \in expired, d \notin toRun' PROVE handled'[heap[d[2]].seq] = readAt
    <3>1. CASE d = e
      BY <1>3, <1>5, <3>1
    <3>2. CASE d # e
      BY <1>4, <1>6, <1>7, <2>2, <3>2 DEF BatchOK
    <3> QED BY <3>1, <3>2
  <2> QED BY <1>4, <2>1, <2>2 DEF BatchOK
<1>9. ASSUME NEW b \in Addr, heap[b] # None PROVE Scheduled(b)'
  <2>1. Scheduled(b)
    BY <1>9 DEF AllScheduled
  <2>2. CASE b = e[2]
    BY <1>4, <1>6, <2>1, <2>2 DEF Scheduled, InPhase
  <2>3. CASE b # e[2]
    BY <1>4, <1>7, <1>9, <2>1, <2>3 DEF Scheduled, InPhase, WithinPeriod
  <2> QED BY <2>2, <2>3
<1> QED BY <1>4, <1>8, <1>9 DEF AllScheduled

\* reset(): what is left of the heap is a timer not called, or one started again.
LEMMA ResetHeap ==
    ASSUME IndInv, Reset, NEW a \in Addr, heap'[a] # None
    PROVE  /\ heap[a] \in Timer /\ heap[a] # None /\ heap'[a].seq = heap[a].seq
           /\ \/ heap'[a] = heap[a] /\ \A e \in expired : e[2] # a
              \/ /\ \E e \in expired : e[2] = a /\ heap[a].exp = e[1]
                 /\ heap[a].interval > 0 /\ heap'[a] = Restarted(heap[a], readAt)
<1> DEFINE again == {e[2] : e \in Kept}
           late == {e[2] : e \in expired}
<1>1. TypeOK /\ Listed
  BY DEF IndInv, SetsAgree
<1>2. heap' = [b \in Addr |-> IF b \in again THEN Restarted(heap[b], readAt)
                              ELSE IF b \in late \ again THEN None ELSE heap[b]]
  BY DEF Reset
<1>3. CASE a \in again
  <2>1. PICK e \in expired : e[2] = a /\ heap[a].interval > 0
    BY <1>3 DEF Kept
  <2>2. heap[a] # None /\ heap[a] \in Timer /\ heap[a].exp = e[1]
    BY <1>1, <2>1 DEF Listed, TypeOK
  <2>3. readAt \in Nat
    BY <1>1 DEF TypeOK
  <2>4. Restarted(heap[a], readAt).seq = heap[a].seq
    BY <2>1, <2>2, <2>3, RestartedTyped
  <2> QED BY <1>2, <1>3, <2>1, <2>2, <2>4
<1>4. CASE a \notin again
  <2>1. a \notin late /\ heap'[a] = heap[a]
    <3> HIDE DEF again, late
    <3> QED BY <1>2, <1>4
  <2> QED BY <1>1, <2>1 DEF TypeOK
<1> QED BY <1>3, <1>4

LEMMA ResetScheduled ==
    ASSUME IndInv, BatchOK, AllScheduled, Reset
    PROVE  BatchOK' /\ AllScheduled'
<1>1. /\ TypeOK /\ toRun = {} /\ expired' = {} /\ UNCHANGED <<created, origin, handled>>
      /\ readAt \in Nat
  BY DEF IndInv, SetsAgree, TypeOK, Reset, historyVars
<1>2. BatchOK'
  BY <1>1 DEF BatchOK
<1>3. ASSUME NEW b \in Addr, heap'[b] # None PROVE Scheduled(b)'
  <2>1. Scheduled(b) /\ heap[b] \in Timer /\ heap'[b].seq = heap[b].seq
    BY <1>3, ResetHeap DEF AllScheduled
  <2>2. ASSUME NEW c \in Addr, heap'[c] # None, heap'[c].seq = heap'[b].seq PROVE c = b
    <3>1. heap[c] # None /\ heap'[c].seq = heap[c].seq
      BY <2>2, ResetHeap
    <3> QED BY <2>1, <2>2, <3>1 DEF Scheduled
  <2>3. CASE heap'[b] = heap[b] /\ \A e \in expired : e[2] # b
    BY <1>1, <2>1, <2>2, <2>3 DEF Scheduled, InPhase, WithinPeriod
  <2>4. CASE ~(heap'[b] = heap[b] /\ \A e \in expired : e[2] # b)
    <3>1. PICK e \in expired : e[2] = b /\ heap[b].exp = e[1]
      BY <1>3, <2>4, ResetHeap
    <3>2. heap[b].interval > 0 /\ heap'[b] = Restarted(heap[b], readAt)
      BY <1>3, <2>4, ResetHeap
    <3>3. e[1] <= readAt /\ handled[heap[b].seq] = readAt
      BY <1>1, <3>1 DEF BatchOK
    <3>4. /\ heap'[b].interval = heap[b].interval /\ heap'[b].exp \in Nat
          /\ readAt < heap'[b].exp
          /\ heap'[b].exp <= readAt + TicksPerMicro * heap[b].interval
          /\ \E k \in Int : heap'[b].exp = heap[b].exp + TicksPerMicro * heap[b].interval * k
      <4>1. PICK timer \in Timer : timer = heap[b]
        BY <2>1
      <4>2. timer.interval > 0 /\ timer.exp <= readAt
        BY <3>1, <3>2, <3>3, <4>1
      <4>3. NextAfter(timer, readAt, Restarted(timer, readAt))
        BY <1>1, <4>2, RestartedNext
      <4> QED BY <3>2, <4>1, <4>3 DEF NextAfter
    <3>5. WithinPeriod(heap'[b], handled'[heap'[b].seq])
      BY <1>1, <2>1, <3>2, <3>3, <3>4 DEF WithinPeriod
    <3>6. PICK timer \in Timer : timer = heap[b]
      BY <2>1
    <3>7. PICK o \in Nat : o = origin[timer.seq]
      BY <1>1, <2>1, <3>6 DEF Scheduled, InPhase, TypeOK, Timer
    <3>8. (timer.exp - o) % (TicksPerMicro * timer.interval) = 0
      BY <2>1, <3>2, <3>6, <3>7 DEF Scheduled, InPhase
    <3>9. (heap'[b].exp - o) % (TicksPerMicro * timer.interval) = 0
      <4>1. timer.interval > 0 /\ NextAfter(timer, readAt, heap'[b])
        BY <3>2, <3>4, <3>6 DEF NextAfter
      <4> QED BY <3>8, <4>1, NextInPhase
    <3>10. InPhase(heap[b])'
      <4>1. heap'[b].interval = timer.interval /\ heap'[b].seq = timer.seq
        BY <2>1, <3>4, <3>6
      <4>2. origin'[heap'[b].seq] = o /\ origin'[heap'[b].seq] # None
        BY <1>1, <2>1, <3>6, <3>7, <4>1 DEF Scheduled, InPhase
      <4> QED BY <3>9, <4>1, <4>2 DEF InPhase
    <3> QED BY <2>2, <3>5, <3>10 DEF Scheduled
  <2> QED BY <2>3, <2>4
<1> QED BY <1>2, <1>3 DEF AllScheduled

\* Every step keeps the timerfd looking after the timers,
LEMMA CoversStep ==
    ASSUME IndInv, TimerfdCovers, [Next]_vars
    PROVE  TimerfdCovers'
<1>1. TypeOK /\ TypeOK' /\ (~calling => Covers(timers))
  BY TypeStep DEF IndInv, SetsAgree, TimerfdCovers, Covers
<1> SUFFICES ASSUME ~calling' PROVE Covers(timers)'
  BY DEF TimerfdCovers, Covers
<1> USE DEF fdVars, setVars, batchVars, callerVars, historyVars, cancelVars
<1>2. CASE UNCHANGED <<timers, calling, now, fdAt, fdReadable>>
  BY <1>1, <1>2 DEF Covers
<1>3. CASE Tick
  <2>1. /\ now \in Nat /\ now' = now + 1 /\ fdAt \in Nat \cup {None}
        /\ UNCHANGED <<timers, calling, fdAt, fdReadable>>
    BY <1>1, <1>3 DEF Tick, TypeOK
  <2>2. Covers(timers)
    BY <1>1, <2>1
  <2>3. PICK least \in Nat : least = TicksPerMicro * MinDelay
    BY TimeAssumption, TimesNat
  <2>4. CASE timers # {} /\ fdAt # None
    <3>1. PICK m \in Nat : m = Begin(timers)[1]
      <4>1. timers \in SUBSET (Nat \X Addr)
        BY <1>1 DEF TypeOK
      <4>2. Begin(timers) \in timers
        BY <2>4, <4>1, BeginIn
      <4> QED BY <4>1, <4>2
    <3>2. fdAt <= MaxOf(m, now + least) => fdAt <= MaxOf(m, now + 1 + least)
      BY <2>1, <2>4, SMTT(30) DEF MaxOf
    <3> QED BY <2>1, <2>2, <2>3, <3>1, <3>2 DEF Covers
  <2>5. CASE ~(timers # {} /\ fdAt # None)
    BY <2>1, <2>2, <2>5 DEF Covers
  <2> QED BY <2>4, <2>5
<1>4. CASE FdExpires
  BY <1>4 DEF FdExpires, Covers
<1>5. CASE HandleRead
  BY <1>5 DEF HandleRead
<1>6. CASE Reset
  <2>1. CASE timers' = {}
    BY <2>1 DEF Covers
  <2>2. CASE timers' # {}
    <3>1. timers' \in SUBSET (Nat \X Addr)
      BY <1>1 DEF TypeOK
    <3>2. Begin(timers') \in timers' /\ \A d \in timers' : Begin(timers')[1] <= d[1]
      BY <2>2, <3>1, BeginIn
    <3>3. resetTimerfd(Begin(timers')[1]) /\ now' = now
      BY <1>6, <2>2 DEF Reset
    <3> QED BY <1>1, <3>1, <3>2, <3>3, SetCovers DEF Covers
  <2> QED BY <2>1, <2>2
<1>7. ASSUME NEW i \in DOMAIN pending, RunAdd(i) PROVE Covers(timers)'
  <2>1. /\ i \in Adds /\ now' = now /\ ~calling
        /\ addTimerInLoop(pending[i].id[1], heap[pending[i].id[1]])
    BY <1>7 DEF RunAdd, Adds
  <2>2. pending[i].id[1] \in Addr /\ heap[pending[i].id[1]] # None
    BY <1>1, <2>1, PendingTyped DEF IndInv, OwnersOK, OnItsWay, TimerIds
  <2>3. heap[pending[i].id[1]] \in Timer
    <3>1. PICK a \in Addr : a = pending[i].id[1] /\ heap[a] # None
      BY <2>2
    <3>2. heap[a] \in Timer
      BY <1>1, <3>1 DEF TypeOK
    <3> QED BY <3>1, <3>2
  <2> QED BY <1>1, <2>1, <2>2, <2>3, AddCovers
<1>8. ASSUME NEW i \in DOMAIN pending, RunCancel(i) PROVE Covers(timers)'
  <2>1. pending[i].id \in TimerIds /\ cancelInLoop(pending[i].id) /\ now' = now /\ ~calling
    BY <1>1, <1>8, PendingTyped DEF RunCancel
  <2> QED BY <1>1, <2>1, CancelCovers
<1>9. ASSUME NEW a \in Addr, NEW when \in Whens, NEW interval \in Intervals,
             LoopAdd(a, when, interval)
      PROVE  Covers(timers)'
  <2>1. /\ NewTimer(a, when) /\ addTimerInLoop(a, TimerOf(when, interval))
        /\ now' = now /\ ~calling
    BY <1>9 DEF LoopAdd
  <2>2. TimerOf(when, interval) \in Timer
    BY <1>1, <2>1, NewTimerTyped
  <2> QED BY <1>1, <2>1, <2>2, AddCovers
<1>10. ASSUME NEW id \in ids, LoopCancel(id) PROVE Covers(timers)'
  <2>1. id \in TimerIds /\ cancelInLoop(id) /\ now' = now /\ ~calling
    BY <1>1, <1>10 DEF LoopCancel, TypeOK
  <2> QED BY <1>1, <2>1, CancelCovers
<1>11. CASE PollTimer
  BY <1>2, <1>11 DEF PollTimer
<1>12. CASE RunTimer
  BY <1>2, <1>12 DEF RunTimer
<1>13. ASSUME NEW c \in Callers, CallerStep(c) PROVE Covers(timers)'
  BY <1>2, <1>13 DEF CallerStep, CallerRead, CallerQueue
<1>14. ASSUME NEW a \in Addr, NEW when \in Whens, NEW interval \in Intervals,
              NEW c \in Callers, CallerNew(c, a, when, interval)
       PROVE  Covers(timers)'
  BY <1>2, <1>14 DEF CallerNew
<1>15. ASSUME NEW id \in ids, NEW c \in Callers, NEW path \in Paths, CallerCancel(c, id, path)
       PROVE  Covers(timers)'
  BY <1>2, <1>15 DEF CallerCancel
<1>16. CASE UNCHANGED vars
  BY <1>2, <1>16 DEF vars
<1> QED BY <1>3, <1>4, <1>5, <1>6, <1>7, <1>8, <1>9, <1>10, <1>11, <1>12, <1>13, <1>14,
           <1>15, <1>16 DEF Next, LoopStep, User

\* and every timer on its schedule.
LEMMA ScheduledStep ==
    ASSUME IndInv, BatchOK, AllScheduled, [Next]_vars
    PROVE  BatchOK' /\ AllScheduled'
<1>1. TypeOK /\ Listed /\ Listed' /\ IndInv
  BY StepKeeps DEF IndInv, SetsAgree, StepOK
<1> USE DEF fdVars, setVars, batchVars, callerVars, historyVars, cancelVars
<1>2. CASE UNCHANGED <<heap, created, expired, toRun, readAt, origin, handled>>
  <2>1. \A e \in expired : heap'[e[2]] # None
    BY <1>1, <1>2 DEF Listed
  <2> QED BY <1>1, <1>2, <2>1, FewerScheduled
<1>3. ASSUME NEW id \in TimerIds, cancelInLoop(id),
             UNCHANGED <<created, expired, toRun, readAt, origin, handled>>
      PROVE  BatchOK' /\ AllScheduled'
  <2>1. \A b \in Addr : heap'[b] = heap[b] \/ heap'[b] = None
    BY <1>1, <1>3 DEF cancelInLoop, TypeOK
  <2>2. \A e \in expired : heap'[e[2]] # None
    BY <1>1, <1>3 DEF Listed
  <2> QED BY <1>1, <1>3, <2>1, <2>2, FewerScheduled
<1>4. ASSUME NEW a \in Addr, NEW when \in Whens, NEW interval \in Intervals,
             LoopAdd(a, when, interval)
      PROVE  BatchOK' /\ AllScheduled'
  BY <1>4, NewScheduled DEF LoopAdd
<1>5. ASSUME NEW a \in Addr, NEW when \in Whens, NEW interval \in Intervals,
             NEW c \in Callers, CallerNew(c, a, when, interval)
      PROVE  BatchOK' /\ AllScheduled'
  BY <1>5, NewScheduled DEF CallerNew
<1>6. ASSUME NEW id \in ids, LoopCancel(id) PROVE BatchOK' /\ AllScheduled'
  BY <1>1, <1>3, <1>6 DEF LoopCancel, TypeOK
<1>7. ASSUME NEW i \in DOMAIN pending, RunCancel(i) PROVE BatchOK' /\ AllScheduled'
  <2>1. pending[i].id \in TimerIds
    BY <1>1, PendingTyped
  <2> QED BY <1>3, <1>7, <2>1 DEF RunCancel
<1>8. ASSUME NEW i \in DOMAIN pending, RunAdd(i) PROVE BatchOK' /\ AllScheduled'
  BY <1>2, <1>8 DEF RunAdd
<1>9. ASSUME NEW c \in Callers, CallerStep(c) PROVE BatchOK' /\ AllScheduled'
  BY <1>2, <1>9 DEF CallerStep, CallerRead, CallerQueue
<1>10. ASSUME NEW id \in ids, NEW c \in Callers, NEW path \in Paths, CallerCancel(c, id, path)
       PROVE  BatchOK' /\ AllScheduled'
  BY <1>2, <1>10 DEF CallerCancel
<1>11. CASE Tick \/ FdExpires \/ PollTimer
  BY <1>2, <1>11 DEF Tick, FdExpires, PollTimer
<1>12. CASE UNCHANGED vars
  BY <1>2, <1>12 DEF vars
<1> QED BY <1>4, <1>5, <1>6, <1>7, <1>8, <1>9, <1>10, <1>11, <1>12, HandleReadScheduled,
           RunTimerScheduled, ResetScheduled DEF Next, LoopStep, User

\* The timerfd and the Timer objects agree with the schedule in every state.
THEOREM ScheduleInvHolds == Spec => []ScheduleInv
<1>1. Init => ScheduleInv
  BY DEF Init, ScheduleInv, TimerfdCovers, BatchOK, AllScheduled
<1>2. IndInv /\ ScheduleInv /\ [Next]_vars => ScheduleInv'
  BY CoversStep, ScheduledStep DEF ScheduleInv
<1> QED BY <1>1, <1>2, IndInvHolds, PTL DEF Spec

\* resetTimerfd() and Timer::restart(): for any intervals, clock resolution and
\* minimum delay, the timerfd never expires too late for the earliest timer, and a
\* repeating timer is next due in phase and within a period of its last run.
THEOREM ScheduleKeptHolds == Spec => []ScheduleKept
<1>1. ASSUME IndInv, ScheduleInv PROVE PeriodKept
  <2> SUFFICES ASSUME NEW e \in timers, handled[heap[e[2]].seq] # None
               PROVE  LET timer == heap[e[2]]
                          period == TicksPerMicro * timer.interval
                          last == handled[timer.seq]
                      IN  /\ timer.interval > 0
                          /\ last < timer.exp /\ timer.exp <= last + period
                          /\ (timer.exp - origin[timer.seq]) % period = 0
    BY DEF PeriodKept
  <2>1. TypeOK /\ Listed
    BY <1>1 DEF IndInv, SetsAgree
  <2>2. e[2] \in Addr /\ heap[e[2]] # None /\ \A d \in expired : d[2] # e[2]
    BY <2>1 DEF Listed, TypeOK
  <2>3. Scheduled(e[2])
    BY <1>1, <2>2 DEF ScheduleInv, AllScheduled
  <2>4. WithinPeriod(heap[e[2]], handled[heap[e[2]].seq]) /\ InPhase(heap[e[2]])
    BY <2>2, <2>3 DEF Scheduled
  <2> QED BY <2>4 DEF WithinPeriod, InPhase
<1>2. IndInv /\ ScheduleInv => ScheduleKept
  BY <1>1 DEF ScheduleInv, ScheduleKept
<1> QED BY <1>2, IndInvHolds, ScheduleInvHolds, PTL
=============================================================================
