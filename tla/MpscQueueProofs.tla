-------------------------- MODULE MpscQueueProofs --------------------------
(***************************************************************************)
(* Proofs about MpscQueue.tla, for every set of producers, every buffer    *)
(* size, every counter width that is a multiple of it, and every number of *)
(* pushes.                                                                 *)
(***************************************************************************)
EXTENDS MpscQueue, SequenceTheorems, TLAPS

\* A leaf is tried with Zenon, then SMT, unless it names its prover.
USE ZenonT(30), SMTT(30)

(* Modular arithmetic of the wrapping counters. *)

\* Quotient and remainder by a positive divisor.
LEMMA DivMod ==
    ASSUME NEW d \in Nat \ {0}, NEW a \in Int
    PROVE  /\ a = d * (a \div d) + (a % d)
           /\ a % d \in 0..(d - 1)
           /\ a \div d \in Int
  BY SMTT(30)

\* A multiple of d at or above d, when it is positive.
LEMMA PositiveMultiple ==
    ASSUME NEW d \in Nat \ {0}, NEW q \in Int, d * q > 0
    PROVE  d * q >= d
<1>1. q >= 1 BY SMTT(30)
<1> QED BY <1>1, SMTT(30)

\* Two numbers less than d apart differ modulo d.
LEMMA ModDistinct ==
    ASSUME NEW d \in Nat \ {0}, NEW a \in Nat, NEW b \in Nat, a < b, b < a + d
    PROVE  a % d # b % d
<1> SUFFICES ASSUME a % d = b % d PROVE FALSE
  OBVIOUS
<1> DEFINE q == (b \div d) - (a \div d)
<1>1. q \in Int
  BY DivMod, SMTT(30)
<1>2. b - a = d * q
  <2>1. a = d * (a \div d) + (a % d) /\ a \div d \in Int BY DivMod, SMTT(30)
  <2>2. b = d * (b \div d) + (b % d) /\ b \div d \in Int BY DivMod, SMTT(30)
  <2>3. d * q = d * (b \div d) - d * (a \div d)
    BY <2>1, <2>2, SMTT(30)
  <2>4. a % d \in Int /\ b % d \in Int /\ d * (a \div d) \in Int /\ d * (b \div d) \in Int
    BY DivMod, <2>1, <2>2, SMTT(30)
  <2> QED BY <2>1, <2>2, <2>3, <2>4, SMTT(30)
<1> HIDE DEF q
<1>3. d * q >= d
  BY <1>1, <1>2, PositiveMultiple, SMTT(30)
<1> QED BY <1>2, <1>3, SMTT(30)

\* The remainder of a number written as a multiple of d plus a small rest.
LEMMA ModOfSum ==
    ASSUME NEW d \in Nat \ {0}, NEW q \in Int, NEW t \in 0..(d - 1)
    PROVE  (d * q + t) % d = t
  BY SMTT(30)

\* Unsigned subtraction of wrapped counters gives their distance, as long as
\* that distance is less than a revolution.
LEMMA WrappedDistance ==
    ASSUME NEW a \in Nat, NEW b \in Nat, a <= b, b - a < CounterMod
    PROVE  (Wrap(b) - Wrap(a)) % CounterMod = b - a
<1> DEFINE M == CounterMod
<1>0. M \in Nat \ {0}
  BY CounterModAssumption, SlotsAssumption, SMTT(30)
<1> DEFINE qa == a \div M
           qb == b \div M
           ra == a % M
           rb == b % M
<1>1. a = M * qa + ra /\ qa \in Int /\ ra \in Int
  BY <1>0, DivMod, SMTT(30)
<1>2. b = M * qb + rb /\ qb \in Int /\ rb \in Int
  BY <1>0, DivMod, SMTT(30)
<1> HIDE DEF qa, qb, ra, rb
<1>3. qa - qb \in Int /\ M * (qa - qb) = M * qa - M * qb
  BY <1>0, <1>1, <1>2, SMTT(30)
<1>4. rb - ra = M * (qa - qb) + (b - a)
  <2>1. M * qa \in Int /\ M * qb \in Int
    BY <1>0, <1>1, <1>2, SMTT(30)
  <2> QED BY <1>0, <1>1, <1>2, <1>3, <2>1, SMTT(30)
<1>5. (M * (qa - qb) + (b - a)) % M = b - a
  <2>1. b - a \in 0..(M - 1) BY <1>0, SMTT(30)
  <2> QED BY <1>0, <1>3, <2>1, ModOfSum
<1> QED BY <1>4, <1>5 DEF Wrap, ra, rb

\* The counter's width is a multiple of the buffer's, so wrapping the counter
\* does not disturb the slot a node falls in.
LEMMA SlotOfIsMod ==
    ASSUME NEW n \in Nat
    PROVE  SlotOf(n) = n % Slots
<1> DEFINE k == CounterMod \div Slots
           q == n \div CounterMod
           t == n % CounterMod
           u == t \div Slots
           v == t % Slots
<1>0. Slots \in Nat \ {0} /\ CounterMod \in Nat \ {0}
  BY CounterModAssumption, SlotsAssumption, SMTT(30)
<1>1. CounterMod = Slots * k /\ k \in Int
  BY <1>0, DivMod, CounterModAssumption, SMTT(30)
<1>2. n = CounterMod * q + t /\ q \in Int /\ t \in Int
  BY <1>0, DivMod, SMTT(30)
<1>3. t = Slots * u + v /\ u \in Int /\ v \in 0..(Slots - 1)
  BY <1>0, <1>2, DivMod
<1>4. SlotOf(n) = v
  BY DEF SlotOf, Wrap
<1> HIDE DEF k, q, t, u, v
<1>5. k * q + u \in Int /\ Slots * (k * q + u) = CounterMod * q + Slots * u
  <2>1. k * q \in Int /\ CounterMod * q = Slots * (k * q)
    BY <1>0, <1>1, <1>2, SMTT(30)
  <2>2. Slots * (k * q + u) = Slots * (k * q) + Slots * u
    BY <1>0, <1>3, <2>1, SMTT(30)
  <2> QED BY <1>3, <2>1, <2>2, SMTT(30)
<1>6. n = Slots * (k * q + u) + v
  <2>1. CounterMod * q \in Int /\ Slots * u \in Int /\ v \in Int
    BY <1>0, <1>2, <1>3, SMTT(30)
  <2> QED BY <1>2, <1>3, <1>5, <2>1, SMTT(30)
<1>7. (Slots * (k * q + u) + v) % Slots = v
  BY <1>0, <1>3, <1>5, ModOfSum
<1> QED BY <1>4, <1>6, <1>7

\* The slots of the buffer are those of any Slots consecutive nodes.
LEMMA SlotOfFacts ==
    /\ \A n \in Nat : SlotOf(n) \in 0..(Slots - 1)
    /\ \A m, n \in Nat : m < n /\ n < m + Slots => SlotOf(m) # SlotOf(n)
    /\ \A n \in Nat : SlotOf(n + Slots) = SlotOf(n)
<1>1. ASSUME NEW n \in Nat PROVE SlotOf(n) \in 0..(Slots - 1)
  BY SlotOfIsMod, SlotsAssumption, DivMod, SMTT(30)
<1>2. ASSUME NEW m \in Nat, NEW n \in Nat, m < n, n < m + Slots
      PROVE  SlotOf(m) # SlotOf(n)
  BY <1>2, SlotOfIsMod, SlotsAssumption, ModDistinct
<1>3. ASSUME NEW n \in Nat PROVE SlotOf(n + Slots) = SlotOf(n)
  <2> DEFINE q == n \div Slots
             v == n % Slots
  <2>0. Slots \in Nat \ {0}
    BY SlotsAssumption
  <2>1. n = Slots * q + v /\ q \in Int /\ v \in 0..(Slots - 1)
    BY <2>0, DivMod, SMTT(30)
  <2>2. SlotOf(n) = v /\ SlotOf(n + Slots) = (n + Slots) % Slots
    <3>1. n + Slots \in Nat
      BY <2>0, SMTT(30)
    <3> QED BY <3>1, SlotOfIsMod
  <2> HIDE DEF q, v
  <2>3. q + 1 \in Int /\ n + Slots = Slots * (q + 1) + v
    BY <2>0, <2>1, SMTT(30)
  <2>4. (Slots * (q + 1) + v) % Slots = v
    BY <2>0, <2>1, <2>3, ModOfSum
  <2> QED BY <2>2, <2>3, <2>4
<1> QED BY <1>1, <1>2, <1>3

\* Counters less than a revolution apart are equal when they look equal.
LEMMA WrapInjective ==
    ASSUME NEW a \in Nat, NEW b \in Nat, a <= b, b - a < CounterMod,
           Wrap(a) = Wrap(b)
    PROVE  a = b
<1>1. CounterMod \in Nat \ {0}
  BY CounterModAssumption, SlotsAssumption, SMTT(30)
<1>2. ASSUME a < b PROVE FALSE
  <2>1. b < a + CounterMod
    BY <1>1, SMTT(30)
  <2>2. a % CounterMod # b % CounterMod
    BY <1>1, <1>2, <2>1, ModDistinct
  <2> QED BY <2>2 DEF Wrap
<1> QED BY <1>2, SMTT(30)

-----------------------------------------------------------------------------
(* The inductive invariant. *)

\* The zeroed buffer with both counters at zero satisfies it.
LEMMA InitIndInv == Init => IndInv
<1> SUFFICES ASSUME Init PROVE IndInv
  OBVIOUS
<1> USE SlotsAssumption, CounterModAssumption, MaxPushAssumption DEF Init
<1>1. TypeOK
  BY SMTT(30) DEF TypeOK, EmptyNode
<1>2. WindowOK /\ LoadedOK /\ OwnedOK /\ RanOK
  BY SMTT(30) DEF WindowOK, LoadedOK, OwnedOK, RanOK, first, Writers
<1>3. NodesOK
  <2> SUFFICES ASSUME NEW n \in first..(first + Slots - 1)
               PROVE  slot[SlotOf(n)].id = 0 /\ ~ n < reserved
    BY DEF NodesOK
  <2>1. n \in Nat
    BY SMTT(30) DEF first
  <2> QED BY <2>1, SlotOfFacts, SMTT(30) DEF EmptyNode, first
<1> QED BY <1>1, <1>2, <1>3 DEF IndInv

\* Steps that only move a producer inside reserve() keep the invariant.
LEMMA ReserveStep ==
    ASSUME IndInv, NEW p \in Producers,
           Call(p) \/ LoadHead(p) \/ LoadTail(p) \/ CasFail(p)
    PROVE  IndInv'
<1> USE SlotsAssumption, CounterModAssumption, MaxPushAssumption
<1> USE DEF IndInv, TypeOK, Goto
<1>0. UNCHANGED <<reserved, consumed, slot, cpc, log, ran>>
  BY DEF Call, LoadHead, LoadTail, CasFail
<1>1. TypeOK'
  <2>1. /\ pc' \in [Producers -> {"idle", "loadHead", "loadTail", "cas", "fill", "commit"}]
        /\ r' \in [Producers -> Nat]
        /\ w' \in [Producers -> Nat]
        /\ sent' \in [Producers -> 0..MaxPush]
    <3>1. CASE Call(p)
      <4>1. sent \in [Producers -> 0..MaxPush] /\ sent[p] \in 0..MaxPush /\ sent[p] < MaxPush
        BY <3>1 DEF Call
      <4>2. sent[p] + 1 \in 0..MaxPush
        BY <4>1, SMTT(30)
      <4> QED BY <3>1, <4>1, <4>2 DEF Call
    <3>2. CASE LoadHead(p) BY <3>2 DEF LoadHead
    <3>3. CASE LoadTail(p) BY <3>3 DEF LoadTail
    <3>4. CASE CasFail(p) BY <3>4 DEF CasFail
    <3> QED BY <3>1, <3>2, <3>3, <3>4
  <2> QED BY <1>0, <2>1
<1>2. WindowOK' /\ NodesOK' /\ RanOK'
  BY <1>0 DEF WindowOK, NodesOK, RanOK, first, HeadNode, SlotOf, Wrap
<1>3. p \notin Writers /\ Writers' = Writers
  BY DEF Call, LoadHead, LoadTail, CasFail, Writers
<1>4. \A q \in Writers : pc'[q] = pc[q] /\ w'[q] = w[q] /\ sent'[q] = sent[q]
  BY <1>3 DEF Call, LoadHead, LoadTail, CasFail, Writers
<1>5. OwnedOK'
  <2> SUFFICES ASSUME NEW q \in Writers
               PROVE  /\ first' <= w'[q] /\ w'[q] < reserved'
                      /\ \A s \in Writers \ {q} : w'[q] # w'[s]
                      /\ log'[w'[q] + 1] = <<q, sent'[q]>>
                      /\ slot'[SlotOf(w'[q])].id = 0
                      /\ pc'[q] = "commit" => slot'[SlotOf(w'[q])].data = <<q, sent'[q]>>
    BY <1>3 DEF OwnedOK
  <2>1. first' = first
    BY <1>0 DEF first
  <2>2. /\ first <= w[q] /\ w[q] < reserved
        /\ \A s \in Writers \ {q} : w[q] # w[s]
        /\ log[w[q] + 1] = <<q, sent[q]>>
        /\ slot[SlotOf(w[q])].id = 0
        /\ pc[q] = "commit" => slot[SlotOf(w[q])].data = <<q, sent[q]>>
    BY DEF OwnedOK
  <2>3. reserved' = reserved /\ log' = log /\ slot' = slot
    BY <1>0
  <2>4. pc'[q] = pc[q] /\ w'[q] = w[q] /\ sent'[q] = sent[q]
    BY <1>4
  <2> HIDE DEF IndInv, TypeOK
  <2>5. \A s \in Writers \ {q} : w'[q] # w'[s]
    BY <1>4, <2>2
  <2>6. SlotOf(w'[q]) = SlotOf(w[q])
    BY <2>4
  <2>7. first' <= w'[q] /\ w'[q] < reserved'
    BY <2>1, <2>2, <2>3, <2>4
  <2>8. log'[w'[q] + 1] = <<q, sent'[q]>>
    BY <2>2, <2>3, <2>4
  <2>9. /\ slot'[SlotOf(w'[q])].id = 0
        /\ pc'[q] = "commit" => slot'[SlotOf(w'[q])].data = <<q, sent'[q]>>
    BY <2>2, <2>3, <2>4, <2>6
  <2> QED BY <2>5, <2>7, <2>8, <2>9
<1>6. LoadedOK'
  <2>1. CASE Call(p)
    BY <2>1, SMTT(30) DEF Call, LoadedOK
  <2>2. CASE LoadHead(p)
    <3>1. consumed <= reserved /\ consumed \in Nat /\ reserved \in Nat /\ reserved - consumed <= Slots
      BY SMTT(30) DEF WindowOK, first
    <3> QED BY <2>2, <3>1, SMTT(30) DEF LoadHead, LoadedOK
  <2>3. CASE LoadTail(p)
    <3>1. r[p] <= consumed /\ reserved - r[p] < CounterMod /\ r[p] <= reserved
      BY <2>3, SMTT(30) DEF LoadTail, LoadedOK, WindowOK, first
    <3>2. (Wrap(reserved) - Wrap(r[p])) % CounterMod = reserved - r[p]
      BY <3>1, WrappedDistance
    <3>3. pc'[p] = "cas" => reserved - r[p] < Slots
      BY <2>3, <3>1, <3>2, SMTT(30) DEF LoadTail, Overflows
    <3>4. /\ UNCHANGED <<reserved, consumed, r, sent>>
          /\ w' = [w EXCEPT ![p] = reserved]
          /\ pc[p] = "loadTail" /\ pc'[p] \in {"idle", "cas"}
          /\ \A q \in Producers \ {p} : pc'[q] = pc[q] /\ w'[q] = w[q]
      BY <2>3 DEF LoadTail
    <3>5. sent[p] > 0 /\ w'[p] = reserved
      BY <3>4 DEF LoadedOK
    <3> SUFFICES ASSUME NEW q \in Producers
                 PROVE  /\ pc'[q] # "idle" => sent'[q] > 0
                        /\ pc'[q] \in {"loadTail", "cas"} =>
                               r'[q] <= consumed' /\ reserved' - r'[q] < CounterMod
                        /\ pc'[q] = "cas" =>
                               r'[q] <= w'[q] /\ w'[q] <= reserved' /\ w'[q] - r'[q] < Slots
      BY DEF LoadedOK
    <3>6. CASE q = p
      BY <3>1, <3>3, <3>4, <3>5, <3>6, SMTT(30)
    <3>7. CASE q # p
      BY <3>4, <3>7 DEF LoadedOK
    <3> QED BY <3>6, <3>7
  <2>4. CASE CasFail(p)
    BY <2>4 DEF CasFail, LoadedOK
  <2> QED BY <2>1, <2>2, <2>3, <2>4
<1> QED BY <1>1, <1>2, <1>5, <1>6

\* Two nodes of one window of Slots consecutive nodes have different slots.
LEMMA WindowSlots ==
    ASSUME TypeOK
    PROVE  /\ first \in Nat
           /\ \A m, n \in first..(first + Slots - 1) :
                  SlotOf(m) = SlotOf(n) => m = n
<1>1. first \in Nat
  BY SMTT(30) DEF first, TypeOK
<1>2. ASSUME NEW m \in first..(first + Slots - 1), NEW n \in first..(first + Slots - 1),
             SlotOf(m) = SlotOf(n)
      PROVE  m = n
  <2>1. m \in Nat /\ n \in Nat
    BY <1>1, SlotsAssumption, SMTT(30)
  <2>2. m < n => n < m + Slots
    BY <1>1, SlotsAssumption, SMTT(30)
  <2>3. n < m => m < n + Slots
    BY <1>1, SlotsAssumption, SMTT(30)
  <2> QED BY <1>2, <2>1, <2>2, <2>3, SlotOfFacts, SMTT(30)
<1> QED BY <1>1, <1>2

\* A writer's node lies in the window of Slots nodes that starts at the head.
LEMMA WriterInWindow ==
    ASSUME TypeOK, WindowOK, OwnedOK, NEW q \in Writers
    PROVE  w[q] \in first..(first + Slots - 1) /\ w[q] \in Nat
<1>1. q \in Producers
  BY DEF Writers
<1> QED BY <1>1, SlotsAssumption, SMTT(30) DEF TypeOK, WindowOK, OwnedOK, first

\* The compare-exchange keeps the invariant: it succeeds only on a tail that
\* is current, and the head it was tested against can only have moved on.
LEMMA CasSucceedStep ==
    ASSUME IndInv, NEW p \in Producers, CasSucceed(p)
    PROVE  IndInv'
<1> USE SlotsAssumption, CounterModAssumption, MaxPushAssumption
<1>0. TypeOK /\ WindowOK /\ LoadedOK /\ OwnedOK /\ NodesOK /\ RanOK
  BY DEF IndInv
<1>1. /\ pc[p] = "cas" /\ pc' = [pc EXCEPT ![p] = "fill"]
      /\ reserved' = reserved + 1
      /\ log' = Append(log, <<p, sent[p]>>)
      /\ UNCHANGED <<consumed, slot, r, w, sent, cpc, ran>>
      /\ Wrap(w[p]) = Wrap(reserved) /\ NoFullRevolution(p)
  BY DEF CasSucceed, Goto
<1>2. first' = first /\ first \in Nat /\ consumed <= first
  BY <1>0, <1>1, SMTT(30) DEF first, TypeOK
<1>3. w[p] = reserved /\ reserved < consumed + Slots
  <2>1. /\ w[p] \in Nat /\ r[p] \in Nat /\ reserved \in Nat /\ consumed \in Nat
        /\ r[p] <= w[p] /\ w[p] <= reserved /\ w[p] - r[p] < Slots
        /\ r[p] <= consumed /\ reserved - r[p] < CounterMod
    BY <1>0, <1>1 DEF LoadedOK, TypeOK
  <2>2. reserved - w[p] < CounterMod
    BY <2>1, SMTT(30)
  <2>3. w[p] = reserved
    BY <1>1, <2>1, <2>2, WrapInjective
  <2> QED BY <2>1, <2>3, SMTT(30)
<1>4. <<p, sent[p]>> \in Functors
  <2>1. sent[p] \in 0..MaxPush
    BY <1>0 DEF TypeOK
  <2>2. sent[p] > 0
    BY <1>0, <1>1 DEF LoadedOK
  <2>3. sent[p] \in 1..MaxPush
    BY <2>1, <2>2, SMTT(30)
  <2> QED BY <2>3 DEF Functors
<1>5. /\ log' \in Seq(Functors) /\ Len(log') = reserved + 1
      /\ \A i \in 1..reserved : log'[i] = log[i]
      /\ log'[reserved + 1] = <<p, sent[p]>>
  <2>1. log \in Seq(Functors) /\ Len(log) = reserved
    BY <1>0 DEF TypeOK, WindowOK
  <2>2. log' = Append(log, <<p, sent[p]>>)
    BY <1>1
  <2> QED BY <1>4, <2>1, <2>2, SMTT(30)
<1>6. TypeOK'
  <2>1. reserved' \in Nat
    BY <1>0, <1>1, SMTT(30) DEF TypeOK
  <2> QED BY <1>0, <1>1, <1>5, <2>1 DEF TypeOK
<1>7. WindowOK'
  <2>1. /\ reserved \in Nat /\ consumed \in Nat /\ Slots \in Nat
        /\ reserved' = reserved + 1 /\ consumed' = consumed /\ cpc' = cpc
        /\ first <= reserved /\ first' = first /\ first \in Nat
        /\ cpc # "peek" => consumed < reserved
        /\ reserved < consumed + Slots /\ Len(log') = reserved + 1
    BY <1>0, <1>1, <1>2, <1>3, <1>5, SlotsAssumption DEF WindowOK, TypeOK
  <2>2. /\ first' <= reserved' /\ (cpc # "peek" => consumed' < reserved')
        /\ reserved' <= consumed' + Slots
    BY <2>1, SMTT(30)
  <2> QED BY <2>1, <2>2 DEF WindowOK
<1>8. LoadedOK'
  <2>1. ASSUME NEW q \in Producers
        PROVE  /\ pc'[q] # "idle" => sent[q] > 0
               /\ pc'[q] \in {"loadTail", "cas"} =>
                      r[q] <= consumed /\ reserved + 1 - r[q] < CounterMod
               /\ pc'[q] = "cas" =>
                      r[q] <= w[q] /\ w[q] <= reserved + 1 /\ w[q] - r[q] < Slots
    <3>1. CASE q = p
      <4>1. pc'[p] = "fill"
        BY <1>0, <1>1 DEF TypeOK
      <4> QED BY <1>0, <1>1, <3>1, <4>1 DEF LoadedOK
    <3>2. CASE q # p
      <4>1. pc'[q] = pc[q] /\ reserved \in Nat /\ w[q] \in Nat
        BY <1>0, <1>1, <3>2 DEF TypeOK
      <4>2. pc[q] \in {"loadTail", "cas"} => reserved + 1 - r[q] < CounterMod
        BY <1>1, <3>2 DEF NoFullRevolution
      <4> QED BY <1>0, <4>1, <4>2, SMTT(30) DEF LoadedOK
    <3> QED BY <3>1, <3>2
  <2>2. reserved' = reserved + 1 /\ consumed' = consumed /\ r' = r /\ w' = w /\ sent' = sent
    BY <1>1
  <2>3. /\ reserved \in Nat /\ consumed \in Nat /\ sent \in [Producers -> 0..MaxPush]
        /\ r \in [Producers -> Nat] /\ w \in [Producers -> Nat]
    BY <1>0 DEF TypeOK
  <2> QED BY <2>1, <2>2, <2>3, SMTT(30) DEF LoadedOK
<1>9. Writers' = Writers \cup {p} /\ p \notin Writers
  BY <1>0, <1>1, SMTT(30) DEF Writers, TypeOK
<1>10. slot[SlotOf(reserved)].id = 0
  BY <1>0, <1>2, <1>3, SMTT(30) DEF NodesOK, WindowOK, TypeOK
<1>11. OwnedOK'
  <2>1. ASSUME NEW q \in Writers
        PROVE  /\ first <= w[q] /\ w[q] < reserved /\ w[q] + 1 \in 1..reserved
               /\ pc'[q] = pc[q] /\ q # p
    <3>1. q \in Producers /\ q # p
      BY <1>9 DEF Writers
    <3>2. pc'[q] = pc[q] /\ w[q] \in Nat /\ reserved \in Nat
      BY <1>0, <1>1, <3>1 DEF TypeOK
    <3> QED BY <1>0, <3>1, <3>2, SMTT(30) DEF OwnedOK
  <2>2. ASSUME NEW q \in Writers'
        PROVE  /\ first <= w[q] /\ w[q] < reserved + 1
               /\ \A s \in Writers' \ {q} : w[q] # w[s]
               /\ log'[w[q] + 1] = <<q, sent[q]>>
               /\ slot[SlotOf(w[q])].id = 0
               /\ pc'[q] = "commit" => slot[SlotOf(w[q])].data = <<q, sent[q]>>
    <3>1. CASE q = p
      <4>1. first <= reserved /\ reserved \in Nat
        BY <1>0 DEF WindowOK, TypeOK
      <4>2. pc'[p] = "fill"
        BY <1>0, <1>1 DEF TypeOK
      <4>3. \A s \in Writers : w[s] # w[p]
        BY <1>3, <2>1, <4>1, SMTT(30)
      <4> QED BY <1>3, <1>5, <1>9, <1>10, <3>1, <4>1, <4>2, <4>3, SMTT(30)
    <3>2. CASE q \in Writers
      <4>1. reserved \in Nat /\ w[q] \in Nat
        BY <1>0, <3>2, WriterInWindow DEF TypeOK
      <4>2. log'[w[q] + 1] = log[w[q] + 1]
        BY <1>5, <2>1, <3>2
      <4>3. \A s \in Writers' \ {q} : w[q] # w[s]
        BY <1>0, <1>3, <1>9, <2>1, <3>2, <4>1, SMTT(30) DEF OwnedOK
      <4>4. /\ log[w[q] + 1] = <<q, sent[q]>>
            /\ slot[SlotOf(w[q])].id = 0
            /\ pc[q] = "commit" => slot[SlotOf(w[q])].data = <<q, sent[q]>>
        BY <1>0, <3>2 DEF OwnedOK
      <4>5. first <= w[q] /\ w[q] < reserved + 1
        BY <2>1, <3>2, <4>1, SMTT(30)
      <4> QED BY <2>1, <3>2, <4>2, <4>3, <4>4, <4>5
    <3> QED BY <1>9, <3>1, <3>2
  <2> QED BY <1>1, <1>2, <2>2 DEF OwnedOK
<1>12. NodesOK'
  <2>1. ASSUME NEW n \in first..(first + Slots - 1)
        PROVE  /\ n < reserved + 1 /\ slot[SlotOf(n)].id = 1 =>
                      slot[SlotOf(n)].data = log'[n + 1]
               /\ reserved + 1 <= n => slot[SlotOf(n)].id = 0
    <3>1. n \in Nat /\ reserved \in Nat
      BY <1>0, <1>2, SMTT(30) DEF TypeOK
    <3>2. n < reserved => n + 1 \in 1..reserved
      BY <3>1, SMTT(30)
    <3> QED BY <1>0, <1>5, <1>10, <3>1, <3>2, SMTT(30) DEF NodesOK
  <2> QED BY <1>0, <1>1, <1>2, <2>1 DEF NodesOK, HeadNode
<1>13. RanOK'
  <2>1. Len(ran) <= reserved /\ Len(ran) \in Nat
    <3>1. consumed \in Nat /\ reserved \in Nat /\ ran \in Seq(Functors)
      BY <1>0 DEF TypeOK
    <3>2. Len(ran) = IF cpc \in {"clear", "advance"} THEN consumed + 1 ELSE consumed
      BY <1>0 DEF RanOK
    <3>3. cpc # "peek" => consumed < reserved
      BY <1>0 DEF WindowOK
    <3>4. consumed <= reserved
      BY <1>0, <3>1, SMTT(30) DEF WindowOK, first
    <3> QED BY <3>1, <3>2, <3>3, <3>4, SMTT(30)
  <2>2. \A i \in 1..Len(ran) : log'[i] = log[i]
    <3>1. reserved \in Nat
      BY <1>0 DEF TypeOK
    <3>2. 1..Len(ran) \subseteq 1..reserved
      BY <2>1, <3>1, SMTT(30)
    <3> QED BY <1>5, <3>2
  <2> QED BY <1>0, <1>1, <2>2 DEF RanOK
<1> QED BY <1>6, <1>7, <1>8, <1>11, <1>12, <1>13 DEF IndInv

\* Filling and committing a node touch that node only.
LEMMA WriteStep ==
    ASSUME IndInv, NEW p \in Producers, Fill(p) \/ Commit(p)
    PROVE  IndInv'
<1> DEFINE k == SlotOf(w[p])
<1>0. TypeOK /\ WindowOK /\ LoadedOK /\ OwnedOK /\ NodesOK /\ RanOK
  BY DEF IndInv
<1>1. UNCHANGED <<reserved, consumed, r, w, sent, cpc, log, ran>>
  BY DEF Fill, Commit
<1>2. /\ reserved' = reserved /\ consumed' = consumed /\ r' = r /\ w' = w /\ sent' = sent
      /\ cpc' = cpc /\ log' = log /\ ran' = ran
  BY <1>1
<1>3. /\ p \in Writers
      /\ pc' = [pc EXCEPT ![p] = IF pc[p] = "fill" THEN "commit" ELSE "idle"]
      /\ \/ /\ pc[p] = "fill"
            /\ slot' = [slot EXCEPT ![k].data = <<p, sent[p]>>]
         \/ /\ pc[p] = "commit"
            /\ slot' = [slot EXCEPT ![k].id = 1]
  BY DEF Fill, Commit, Goto, Writers
<1>4. /\ slot \in [0..(Slots - 1) -> [id : {0, 1}, data : Functors \cup {Null}]]
      /\ w[p] \in Nat /\ k \in 0..(Slots - 1)
  BY <1>0, SlotOfFacts DEF TypeOK
<1>5. first' = first /\ first \in Nat
  BY <1>0, <1>2, SMTT(30) DEF first, TypeOK
<1>6. <<p, sent[p]>> \in Functors
  <2>1. sent[p] \in 0..MaxPush
    BY <1>0 DEF TypeOK
  <2>2. sent[p] > 0
    BY <1>0, <1>3 DEF LoadedOK
  <2>3. sent[p] \in 1..MaxPush
    BY <2>1, <2>2, MaxPushAssumption, SMTT(30)
  <2> QED BY <2>3 DEF Functors
<1>7. /\ slot' \in [0..(Slots - 1) -> [id : {0, 1}, data : Functors \cup {Null}]]
      /\ \A i \in 0..(Slots - 1) : i # k => slot'[i] = slot[i]
  <2>1. PICK x : /\ x \in [id : {0, 1}, data : Functors \cup {Null}]
                 /\ slot' = [slot EXCEPT ![k] = x]
    <3>1. slot[k] \in [id : {0, 1}, data : Functors \cup {Null}]
      BY <1>4
    <3>2. CASE pc[p] = "fill"
      <4>1. [slot[k] EXCEPT !.data = <<p, sent[p]>>] \in [id : {0, 1}, data : Functors \cup {Null}]
        BY <1>6, <3>1
      <4> QED BY <1>3, <3>2, <4>1
    <3>3. CASE pc[p] = "commit"
      <4>1. [slot[k] EXCEPT !.id = 1] \in [id : {0, 1}, data : Functors \cup {Null}]
        BY <3>1
      <4> QED BY <1>3, <3>3, <4>1
    <3> QED BY <1>3, <3>2, <3>3
  <2> QED BY <1>4, <2>1
<1>8. pc' \in [Producers -> {"idle", "loadHead", "loadTail", "cas", "fill", "commit"}]
  BY <1>0, <1>3 DEF TypeOK
<1>9. TypeOK'
  BY <1>0, <1>2, <1>7, <1>8 DEF TypeOK
<1>10. WindowOK' /\ RanOK'
  BY <1>0, <1>2, <1>5 DEF WindowOK, RanOK
<1>11. LoadedOK'
  <2>1. \A q \in Producers : q # p => pc'[q] = pc[q]
    BY <1>0, <1>3 DEF TypeOK
  <2>2. pc'[p] \in {"idle", "commit"} /\ pc[p] # "idle"
    BY <1>0, <1>3 DEF TypeOK, Writers
  <2> QED BY <1>0, <1>2, <2>1, <2>2 DEF LoadedOK
<1>12. w[p] \in first..(first + Slots - 1) /\ first <= w[p] /\ w[p] < reserved
  BY <1>0, <1>3, WriterInWindow DEF OwnedOK
<1>13. /\ slot[k].id = 0 /\ log[w[p] + 1] = <<p, sent[p]>>
       /\ pc[p] = "commit" => slot[k].data = <<p, sent[p]>>
  BY <1>0, <1>3 DEF OwnedOK
<1>14. \A n \in first..(first + Slots - 1) : n # w[p] => slot'[SlotOf(n)] = slot[SlotOf(n)]
  <2> SUFFICES ASSUME NEW n \in first..(first + Slots - 1), n # w[p]
               PROVE  slot'[SlotOf(n)] = slot[SlotOf(n)]
    OBVIOUS
  <2>1. n \in Nat
    BY <1>5, SlotsAssumption, SMTT(30)
  <2> QED BY <1>0, <1>7, <1>12, <2>1, SlotOfFacts, WindowSlots
<1>15. OwnedOK'
  <2> SUFFICES ASSUME NEW q \in Writers'
               PROVE  /\ first <= w[q] /\ w[q] < reserved
                      /\ \A s \in Writers' \ {q} : w[q] # w[s]
                      /\ log[w[q] + 1] = <<q, sent[q]>>
                      /\ slot'[SlotOf(w[q])].id = 0
                      /\ pc'[q] = "commit" => slot'[SlotOf(w[q])].data = <<q, sent[q]>>
    BY <1>2, <1>5 DEF OwnedOK
  <2>1. q \in Writers /\ Writers' \subseteq Writers
    BY <1>0, <1>3 DEF Writers, TypeOK
  <2>2. /\ first <= w[q] /\ w[q] < reserved
        /\ \A s \in Writers' \ {q} : w[q] # w[s]
        /\ log[w[q] + 1] = <<q, sent[q]>>
        /\ slot[SlotOf(w[q])].id = 0
        /\ pc[q] = "commit" => slot[SlotOf(w[q])].data = <<q, sent[q]>>
    BY <1>0, <2>1 DEF OwnedOK
  <2>3. CASE q = p
    <3>1. pc[p] = "fill" /\ slot' = [slot EXCEPT ![k].data = <<p, sent[p]>>]
      BY <1>0, <1>3, <2>3 DEF Writers, TypeOK
    <3> QED BY <1>4, <1>13, <2>2, <2>3, <3>1
  <2>4. CASE q # p
    <3>1. pc'[q] = pc[q]
      BY <1>0, <1>3, <2>1, <2>4 DEF Writers, TypeOK
    <3>2. w[q] # w[p] /\ w[q] \in first..(first + Slots - 1)
      BY <1>0, <1>3, <2>1, <2>4, WriterInWindow DEF OwnedOK
    <3> QED BY <1>14, <2>2, <3>1, <3>2
  <2> QED BY <2>3, <2>4
<1>16. NodesOK'
  <2>1. ASSUME NEW n \in first..(first + Slots - 1)
        PROVE  /\ n < reserved /\ slot'[SlotOf(n)].id = 1 =>
                      slot'[SlotOf(n)].data = log[n + 1]
               /\ reserved <= n => slot'[SlotOf(n)].id = 0
    <3>1. CASE n = w[p]
      <4>1. slot'[k].id = 1 => slot'[k].data = log[w[p] + 1]
        <5>1. CASE pc[p] = "fill"
          <6>1. slot'[k].id = 0
            BY <1>3, <1>4, <1>13, <5>1, SMTT(30)
          <6> QED BY <6>1, SMTT(30)
        <5>2. CASE pc[p] = "commit"
          <6>1. slot'[k].data = slot[k].data
            BY <1>3, <1>4, <5>2
          <6> QED BY <1>13, <5>2, <6>1
        <5> QED BY <1>3, <5>1, <5>2
      <4>2. ~ reserved <= n
        BY <1>0, <1>4, <1>12, <3>1, SMTT(30) DEF TypeOK
      <4> QED BY <3>1, <4>1, <4>2
    <3>2. CASE n # w[p]
      BY <1>0, <1>14, <3>2 DEF NodesOK
    <3> QED BY <3>1, <3>2
  <2>2. cpc \in {"run", "clear"} => slot'[SlotOf(consumed)].id = 1
    <3> SUFFICES ASSUME cpc \in {"run", "clear"} PROVE slot'[SlotOf(consumed)].id = 1
      OBVIOUS
    <3>1. slot[SlotOf(consumed)].id = 1 /\ SlotOf(consumed) \in 0..(Slots - 1)
      BY <1>0, SlotOfFacts DEF NodesOK, HeadNode, TypeOK
    <3> QED BY <1>7, <1>13, <3>1, SMTT(30)
  <2> QED BY <1>2, <1>5, <2>1, <2>2 DEF NodesOK, HeadNode
<1> QED BY <1>9, <1>10, <1>11, <1>15, <1>16 DEF IndInv

\* The loop thread's steps keep the invariant; clearing a slot before moving
\* the head is what makes the slot clean for the node Slots places later.
LEMMA ConsumerStep ==
    ASSUME IndInv, Consumer
    PROVE  IndInv'
<1> USE SlotsAssumption, CounterModAssumption, MaxPushAssumption
<1>0. TypeOK /\ WindowOK /\ LoadedOK /\ OwnedOK /\ NodesOK /\ RanOK
  BY DEF IndInv
<1>1. /\ reserved' = reserved /\ pc' = pc /\ r' = r /\ w' = w /\ sent' = sent /\ log' = log
      /\ Writers' = Writers
  BY DEF Consumer, Peek, Run, Clear, Advance, prodVars, Writers
<1>2. /\ reserved \in Nat /\ consumed \in Nat /\ first \in Nat
      /\ slot \in [0..(Slots - 1) -> [id : {0, 1}, data : Functors \cup {Null}]]
      /\ SlotOf(consumed) \in 0..(Slots - 1)
      /\ log \in Seq(Functors) /\ ran \in Seq(Functors)
  <2>1. /\ reserved \in Nat /\ consumed \in Nat
        /\ slot \in [0..(Slots - 1) -> [id : {0, 1}, data : Functors \cup {Null}]]
        /\ log \in Seq(Functors) /\ ran \in Seq(Functors)
    BY <1>0 DEF TypeOK
  <2>2. first \in Nat
    BY <2>1, SMTT(30) DEF first
  <2> QED BY <2>1, <2>2, SlotOfFacts
<1>3. CASE Peek
  <2>1. cpc = "peek" /\ cpc' = "run" /\ consumed' = consumed /\ slot' = slot /\ ran' = ran
    BY <1>3 DEF Peek
  <2>2. first' = first /\ first = consumed
    BY <2>1 DEF first
  <2>3. consumed < reserved /\ HeadNode.id = 1
    <3>1. consumed # reserved /\ slot[SlotOf(consumed)].id # 0
      BY <1>3 DEF Peek, HeadNode
    <3> QED BY <1>0, <1>2, <2>2, <3>1, SMTT(30) DEF WindowOK, HeadNode
  <2>4. TypeOK'
    BY <1>0, <1>1, <2>1 DEF TypeOK
  <2>5. WindowOK' /\ LoadedOK' /\ RanOK'
    BY <1>0, <1>1, <2>1, <2>2, <2>3 DEF WindowOK, LoadedOK, RanOK
  <2>6. HeadNode' = HeadNode
    BY <2>1 DEF HeadNode
  <2>7. OwnedOK'
    BY <1>0, <1>1, <2>1, <2>2 DEF OwnedOK
  <2>8. NodesOK'
    BY <1>0, <1>1, <2>1, <2>2, <2>3, <2>6 DEF NodesOK
  <2> QED BY <2>4, <2>5, <2>7, <2>8 DEF IndInv
<1>4. CASE Run
  <2>1. cpc = "run" /\ cpc' = "clear" /\ consumed' = consumed /\ slot' = slot
    BY <1>4 DEF Run
  <2>2. first' = first /\ first = consumed
    BY <2>1 DEF first
  <2>3. consumed < reserved /\ HeadNode.id = 1 /\ Len(log) = reserved /\ Len(ran) = consumed
    BY <1>0, <2>1 DEF WindowOK, NodesOK, RanOK
  <2>4. HeadNode.data = log[consumed + 1]
    <3>1. consumed \in first..(first + Slots - 1)
      BY <1>2, <2>2, SMTT(30)
    <3> QED BY <1>0, <2>3, <3>1 DEF NodesOK, HeadNode
  <2>5. log[consumed + 1] \in Functors
    BY <1>2, <2>3, SMTT(30)
  <2>6. ran' = Append(ran, log[consumed + 1])
    BY <1>4, <2>4, <2>5, NullAssumption DEF Run
  <2>7. /\ ran' \in Seq(Functors) /\ Len(ran') = consumed + 1
        /\ \A i \in 1..consumed : ran'[i] = ran[i]
        /\ ran'[consumed + 1] = log[consumed + 1]
    BY <1>2, <2>3, <2>5, <2>6, SMTT(30)
  <2>8. TypeOK'
    BY <1>0, <1>1, <2>1, <2>7 DEF TypeOK
  <2>9. WindowOK' /\ LoadedOK'
    BY <1>0, <1>1, <2>1, <2>2, <2>3 DEF WindowOK, LoadedOK
  <2>10. RanOK'
    <3>1. ASSUME NEW i \in 1..(consumed + 1) PROVE ran'[i] = log[i]
      <4>1. i = consumed + 1 \/ i \in 1..consumed
        BY <1>2, SMTT(30)
      <4> QED BY <1>0, <2>3, <2>7, <4>1 DEF RanOK
    <3> QED BY <1>1, <2>1, <2>7, <3>1 DEF RanOK
  <2>11. OwnedOK'
    BY <1>0, <1>1, <2>1, <2>2 DEF OwnedOK
  <2>12. NodesOK'
    BY <1>0, <1>1, <2>1, <2>2, <2>3 DEF NodesOK, HeadNode
  <2> QED BY <2>8, <2>9, <2>10, <2>11, <2>12 DEF IndInv
<1>5. CASE Clear
  <2>1. /\ cpc = "clear" /\ cpc' = "advance" /\ consumed' = consumed /\ ran' = ran
        /\ slot' = [slot EXCEPT ![SlotOf(consumed)] = EmptyNode]
    BY <1>5 DEF Clear
  <2>2. first' = consumed + 1 /\ first = consumed
    BY <2>1 DEF first
  <2>3. consumed < reserved /\ HeadNode.id = 1
    BY <1>0, <2>1 DEF WindowOK, NodesOK
  <2>4. /\ slot' \in [0..(Slots - 1) -> [id : {0, 1}, data : Functors \cup {Null}]]
        /\ slot'[SlotOf(consumed)].id = 0
        /\ \A i \in 0..(Slots - 1) : i # SlotOf(consumed) => slot'[i] = slot[i]
    BY <1>2, <2>1 DEF EmptyNode
  <2>5. TypeOK'
    BY <1>0, <1>1, <2>1, <2>4 DEF TypeOK
  <2>6. WindowOK' /\ LoadedOK' /\ RanOK'
    BY <1>0, <1>1, <1>2, <2>1, <2>2, <2>3, SMTT(30) DEF WindowOK, LoadedOK, RanOK
  <2>7. ASSUME NEW n \in (consumed + 1)..(consumed + Slots - 1)
        PROVE  n \in first..(first + Slots - 1) /\ slot'[SlotOf(n)] = slot[SlotOf(n)]
    <3>1. n \in Nat /\ consumed < n /\ n < consumed + Slots
      BY <1>2, SMTT(30)
    <3>2. SlotOf(consumed) # SlotOf(n) /\ SlotOf(n) \in 0..(Slots - 1)
      BY <1>2, <3>1, SlotOfFacts
    <3> QED BY <1>2, <2>2, <2>4, <3>1, <3>2, SMTT(30)
  <2>8. OwnedOK'
    <3> SUFFICES ASSUME NEW q \in Writers
                 PROVE  /\ consumed + 1 <= w[q] /\ slot'[SlotOf(w[q])] = slot[SlotOf(w[q])]
      BY <1>0, <1>1, <2>2 DEF OwnedOK
    <3>1. w[q] \in first..(first + Slots - 1) /\ w[q] \in Nat
      BY <1>0, WriterInWindow
    <3>2. w[q] # consumed
      BY <1>0, <2>3, SMTT(30) DEF OwnedOK, HeadNode
    <3>3. w[q] \in (consumed + 1)..(consumed + Slots - 1)
      BY <1>2, <2>2, <3>1, <3>2, SMTT(30)
    <3> QED BY <2>7, <3>1, <3>3, SMTT(30)
  <2>9. NodesOK'
    <3> SUFFICES ASSUME NEW n \in (consumed + 1)..(consumed + 1 + Slots - 1)
                 PROVE  /\ n < reserved /\ slot'[SlotOf(n)].id = 1 =>
                               slot'[SlotOf(n)].data = log[n + 1]
                        /\ reserved <= n => slot'[SlotOf(n)].id = 0
      BY <1>1, <2>1, <2>2, SMTT(30) DEF NodesOK
    <3>1. CASE n = consumed + Slots
      <4>1. SlotOf(n) = SlotOf(consumed)
        BY <1>2, <3>1, SlotOfFacts
      <4> QED BY <2>4, <4>1, SMTT(30)
    <3>2. CASE n \in (consumed + 1)..(consumed + Slots - 1)
      <4>1. n \in first..(first + Slots - 1) /\ slot'[SlotOf(n)] = slot[SlotOf(n)]
        BY <2>7, <3>2
      <4> QED BY <1>0, <4>1 DEF NodesOK
    <3>3. n = consumed + Slots \/ n \in (consumed + 1)..(consumed + Slots - 1)
      BY <1>2, SMTT(30)
    <3> QED BY <3>1, <3>2, <3>3
  <2> QED BY <2>5, <2>6, <2>8, <2>9 DEF IndInv
<1>6. CASE Advance
  <2>1. /\ cpc = "advance" /\ cpc' = "peek" /\ consumed' = consumed + 1
        /\ slot' = slot /\ ran' = ran
    BY <1>6 DEF Advance
  <2>2. first' = first /\ first = consumed + 1
    BY <2>1 DEF first
  <2>3. TypeOK'
    BY <1>0, <1>1, <1>2, <2>1, SMTT(30) DEF TypeOK
  <2>4. WindowOK' /\ RanOK'
    BY <1>0, <1>1, <1>2, <2>1, <2>2, SMTT(30) DEF WindowOK, RanOK
  <2>5. LoadedOK'
    <3>1. \A q \in Producers : r[q] <= consumed => r[q] <= consumed + 1
      <4> SUFFICES ASSUME NEW q \in Producers PROVE r[q] <= consumed => r[q] <= consumed + 1
        OBVIOUS
      <4>1. consumed \in Nat /\ r[q] \in Nat
        BY <1>0 DEF TypeOK
      <4> QED BY <4>1, SMTT(30)
    <3> QED BY <1>0, <1>1, <2>1, <3>1 DEF LoadedOK
  <2>6. OwnedOK'
    BY <1>0, <1>1, <2>1, <2>2 DEF OwnedOK
  <2>7. NodesOK'
    BY <1>0, <1>1, <2>1, <2>2 DEF NodesOK
  <2> QED BY <2>3, <2>4, <2>5, <2>6, <2>7 DEF IndInv
<1> QED BY <1>3, <1>4, <1>5, <1>6 DEF Consumer

\* The invariant holds throughout, for every number of producers, slots and
\* pushes.
THEOREM IndInvHolds == Spec => []IndInv
<1>1. IndInv /\ [Next]_vars => IndInv'
  <2> SUFFICES ASSUME IndInv, [Next]_vars PROVE IndInv'
    OBVIOUS
  <2>1. CASE Consumer
    BY <2>1, ConsumerStep
  <2>2. ASSUME NEW p \in Producers, Producer(p) PROVE IndInv'
    BY <2>2, ReserveStep, CasSucceedStep, WriteStep DEF Producer, Reserve
  <2>3. CASE UNCHANGED vars
    <3>1. /\ reserved' = reserved /\ consumed' = consumed /\ slot' = slot /\ pc' = pc
          /\ r' = r /\ w' = w /\ sent' = sent /\ cpc' = cpc /\ log' = log /\ ran' = ran
      BY <2>3 DEF vars
    <3>2. first' = first /\ Writers' = Writers /\ HeadNode' = HeadNode
      BY <3>1 DEF first, Writers, HeadNode
    <3>3. TypeOK' /\ WindowOK' /\ LoadedOK' /\ RanOK'
      BY <3>1, <3>2 DEF IndInv, TypeOK, WindowOK, LoadedOK, RanOK
    <3>4. OwnedOK' /\ NodesOK'
      BY <3>1, <3>2, SMTT(30) DEF IndInv, OwnedOK, NodesOK
    <3> QED BY <3>3, <3>4 DEF IndInv
  <2> QED BY <2>1, <2>2, <2>3 DEF Next
<1> QED BY <1>1, InitIndInv, PTL DEF Spec

\* reserve(), commit() and peek(): a producer has its node's slot to itself, and
\* the node is hidden until its commit.
THEOREM ExclusiveSlotHolds == Spec => []ExclusiveSlot
<1>1. IndInv => ExclusiveSlot
  <2> SUFFICES ASSUME IndInv, NEW p \in Writers
               PROVE  /\ \A q \in Writers \ {p} : SlotOf(w[p]) # SlotOf(w[q])
                      /\ cpc # "peek" => SlotOf(w[p]) # SlotOf(consumed)
                      /\ slot[SlotOf(w[p])].id = 0
    BY DEF ExclusiveSlot
  <2>0. TypeOK /\ WindowOK /\ OwnedOK /\ NodesOK
    BY DEF IndInv
  <2>1. \A q \in Writers : w[q] \in first..(first + Slots - 1)
    BY <2>0, WriterInWindow
  <2>2. ASSUME NEW q \in Writers \ {p} PROVE SlotOf(w[p]) # SlotOf(w[q])
    BY <2>0, <2>1, WindowSlots DEF OwnedOK
  <2>3. ASSUME cpc \in {"run", "clear"} PROVE SlotOf(w[p]) # SlotOf(consumed)
    BY <2>0, <2>3, SMTT(30) DEF NodesOK, OwnedOK, HeadNode
  <2>4. ASSUME cpc = "advance" PROVE SlotOf(w[p]) # SlotOf(consumed)
    <3>1. first = consumed + 1 /\ consumed \in Nat /\ reserved \in Nat
      BY <2>0, <2>4 DEF first, TypeOK
    <3>2. w[p] \in Nat /\ consumed < w[p] /\ w[p] < consumed + Slots
      <4>1. w[p] \in Nat /\ first <= w[p] /\ w[p] < reserved
        BY <2>0, WriterInWindow DEF OwnedOK
      <4>2. reserved <= consumed + Slots
        BY <2>0 DEF WindowOK
      <4> QED BY <3>1, <4>1, <4>2, SlotsAssumption, SMTT(30)
    <3> QED BY <3>1, <3>2, SlotOfFacts
  <2>5. cpc # "peek" => SlotOf(w[p]) # SlotOf(consumed)
    BY <2>0, <2>3, <2>4 DEF TypeOK
  <2>6. slot[SlotOf(w[p])].id = 0
    BY <2>0 DEF OwnedOK
  <2> QED BY <2>2, <2>5, <2>6
<1> QED BY <1>1, IndInvHolds, PTL

\* consume(): functors run once each, in the order of their reservations.
THEOREM RunInOrderHolds == Spec => []RunInOrder
<1>1. IndInv => RunInOrder
  <2> SUFFICES ASSUME IndInv PROVE RunInOrder
    OBVIOUS
  <2>1. /\ log \in Seq(Functors) /\ ran \in Seq(Functors)
        /\ Len(ran) <= Len(log)
        /\ \A i \in 1..Len(ran) : ran[i] = log[i]
    BY SMTT(30) DEF IndInv, TypeOK, WindowOK, RanOK, first
  <2>2. /\ SubSeq(log, 1, Len(ran)) \in Seq(Functors)
        /\ Len(SubSeq(log, 1, Len(ran))) = Len(ran)
        /\ \A i \in 1..Len(ran) : SubSeq(log, 1, Len(ran))[i] = log[i]
    BY <2>1, SubSeqProperties, SMTT(30)
  <2>3. ran = SubSeq(log, 1, Len(ran))
    BY <2>1, <2>2, SeqEqual
  <2> QED BY <2>1, <2>3 DEF RunInOrder
<1> QED BY <1>1, IndInvHolds, PTL

-----------------------------------------------------------------------------
(***************************************************************************)
(* The lock-free queue implements the bounded queue of FunctorRing.tla.    *)
(* Of the steps of MpscQueue.tla, the compare-exchange is the reservation, *)
(* the store of the id is the commit, and the memset is the consumption;   *)
(* all the others leave the ring as it is.                                 *)
(***************************************************************************)

\* ringView for given ends of the window, order and slots.
Node == [item : Functors, ready : BOOLEAN]
View(from, to, lg, sl) ==
    [i \in 1..(to - from) |->
        [item |-> lg[from + i], ready |-> sl[SlotOf(from + i - 1)].id # 0]]

ViewOK(v, from, to, lg, sl) ==
    /\ to - from \in Nat
    /\ v \in Seq(Node)
    /\ Len(v) = to - from
    /\ DOMAIN v = 1..(to - from)
    /\ \A i \in 1..(to - from) :
          v[i] = [item |-> lg[from + i], ready |-> sl[SlotOf(from + i - 1)].id # 0]

\* Such a view is a sequence of nodes.
LEMMA ViewFacts ==
    ASSUME NEW from \in Nat, NEW to \in Nat, from <= to,
           NEW lg \in Seq(Functors), Len(lg) = to, NEW sl
    PROVE  ViewOK(View(from, to, lg, sl), from, to, lg, sl)
<1> DEFINE N == to - from
           V == View(from, to, lg, sl)
<1>1. N \in Nat
  BY SMTT(30)
<1>2. ASSUME NEW i \in 1..N 
      PROVE  [item |-> lg[from + i], ready |-> sl[SlotOf(from + i - 1)].id # 0] \in Node
  <2>1. from + i \in 1..Len(lg)
    BY SMTT(30)
  <2>2. lg[from + i] \in Functors
    BY <2>1, ElementOfSeq
  <2> QED BY <2>2 DEF Node
<1>3. V \in [1..N -> Node]
  BY <1>2 DEF View
<1> HIDE DEF N, V
<1>4. V \in Seq(Node)
  BY <1>1, <1>3, SeqDef
<1>5. Len(V) = N /\ DOMAIN V = 1..N
  <2>1. DOMAIN V = 1..N
    BY <1>3
  <2>2. DOMAIN V = 1..Len(V) /\ Len(V) \in Nat
    BY <1>4, LenProperties
  <2> QED BY <1>1, <2>1, <2>2, SMTT(30)
<1>6. \A i \in 1..N : V[i] = [item |-> lg[from + i], ready |-> sl[SlotOf(from + i - 1)].id # 0]
  BY DEF V, N, View
<1> QED BY <1>1, <1>4, <1>5, <1>6 DEF V, N, ViewOK

\* The ring of an invariant state is such a view ...
LEMMA RingNow ==
    ASSUME IndInv
    PROVE  /\ reserved - first \in Nat
           /\ ringView \in Seq(Node)
           /\ Len(ringView) = reserved - first
           /\ DOMAIN ringView = 1..(reserved - first)
           /\ \A i \in 1..(reserved - first) : ringView[i] =
                 [item |-> log[first + i], ready |-> slot[SlotOf(first + i - 1)].id # 0]
<1>1. /\ reserved \in Nat /\ consumed \in Nat /\ log \in Seq(Functors)
      /\ first <= reserved /\ Len(log) = reserved
  BY DEF IndInv, TypeOK, WindowOK
<1>2. first \in Nat
  BY <1>1, SMTT(30) DEF first
<1> DEFINE V == View(first, reserved, log, slot)
<1>3. ringView = V
  BY DEF ringView, View
<1>4. ViewOK(V, first, reserved, log, slot)
  BY <1>1, <1>2, ViewFacts
<1> HIDE DEF V
<1> QED BY <1>3, <1>4 DEF ViewOK

\* ... and so is the ring after a step that keeps the invariant.
LEMMA RingNext ==
    ASSUME IndInv'
    PROVE  /\ reserved' - first' \in Nat
           /\ ringView' \in Seq(Node)
           /\ Len(ringView') = reserved' - first'
           /\ DOMAIN ringView' = 1..(reserved' - first')
           /\ \A i \in 1..(reserved' - first') : ringView'[i] =
                 [item |-> log'[first' + i], ready |-> slot'[SlotOf(first' + i - 1)].id # 0]
<1>1. /\ reserved' \in Nat /\ log' \in Seq(Functors)
      /\ first' <= reserved' /\ Len(log') = reserved'
  BY DEF IndInv, TypeOK, WindowOK, Functors
<1>2. first' \in Nat
  <2>1. consumed' \in Nat
    BY DEF IndInv, TypeOK
  <2>2. first' = consumed' + 1 \/ first' = consumed'
    BY DEF first
  <2> QED BY <2>1, <2>2, SMTT(30)
<1> DEFINE V == View(first', reserved', log', slot')
<1>3. ringView' = V
  BY DEF ringView, View, SlotOf, Wrap
<1>4. ViewOK(V, first', reserved', log', slot')
  BY <1>1, <1>2, ViewFacts
<1> HIDE DEF V
<1> QED BY <1>3, <1>4 DEF ViewOK

\* A step that changes neither the window, nor the order, nor an id of a slot
\* leaves the ring as it is.
LEMMA ViewStays ==
    ASSUME first' = first, reserved' = reserved, log' = log,
           \A n : slot'[SlotOf(n)].id = slot[SlotOf(n)].id
    PROVE  ringView' = ringView
  BY DEF ringView, SlotOf, Wrap

\* reserve(): the compare-exchange appends a node that is not ready.
LEMMA CasReserves ==
    ASSUME IndInv, IndInv', NEW p \in Producers, CasSucceed(p)
    PROVE  \E f \in Functors : Ring!Reserve(f)
<1> DEFINE f == <<p, sent[p]>>
           x == [item |-> f, ready |-> FALSE]
<1>1. /\ TypeOK /\ WindowOK /\ LoadedOK /\ NodesOK
      /\ reserved \in Nat /\ consumed \in Nat /\ first \in Nat /\ consumed <= first
      /\ w[p] \in Nat /\ r[p] \in Nat /\ log \in Seq(Functors) /\ Len(log) = reserved
  <2>1. /\ TypeOK /\ WindowOK /\ LoadedOK /\ NodesOK
        /\ reserved \in Nat /\ consumed \in Nat
        /\ w[p] \in Nat /\ r[p] \in Nat /\ log \in Seq(Functors) /\ Len(log) = reserved
    BY DEF IndInv, TypeOK, WindowOK
  <2>2. first \in Nat /\ consumed <= first
    BY <2>1, SMTT(30) DEF first
  <2> QED BY <2>1, <2>2
<1>2. /\ pc[p] = "cas" /\ Wrap(w[p]) = Wrap(reserved)
      /\ reserved' = reserved + 1 /\ log' = Append(log, f)
      /\ slot' = slot /\ first' = first
  BY DEF CasSucceed, Goto, first
<1>3. f \in Functors
  <2>1. sent[p] \in 0..MaxPush /\ sent[p] > 0
    BY <1>1, <1>2 DEF TypeOK, LoadedOK
  <2>2. sent[p] \in 1..MaxPush
    BY <2>1, MaxPushAssumption, SMTT(30)
  <2> QED BY <2>2 DEF Functors
<1>4. reserved - first < Slots
  <2>1. /\ r[p] <= consumed /\ reserved - r[p] < CounterMod
        /\ r[p] <= w[p] /\ w[p] <= reserved /\ w[p] - r[p] < Slots
    BY <1>1, <1>2 DEF LoadedOK
  <2>2. reserved - w[p] < CounterMod
    BY <1>1, <2>1, CounterModAssumption, SMTT(30)
  <2>3. w[p] = reserved
    BY <1>1, <1>2, <2>1, <2>2, WrapInjective
  <2> QED BY <1>1, <2>1, <2>3, SlotsAssumption, SMTT(30)
<1>5. slot[SlotOf(reserved)].id = 0
  <2>1. reserved \in first..(first + Slots - 1)
    BY <1>1, <1>4, SlotsAssumption, SMTT(30) DEF WindowOK
  <2> QED BY <1>1, <2>1, SMTT(30) DEF NodesOK
<1>6. ringView' = Append(ringView, x)
  <2> DEFINE N == reserved - first
  <2>1. /\ N \in Nat /\ ringView \in Seq(Node) /\ Len(ringView) = N
    BY RingNow
  <2>3. reserved' - first' = N + 1
    BY <1>1, <1>2, SMTT(30)
  <2>2. ringView' \in Seq(Node) /\ Len(ringView') = N + 1
    BY <2>3, RingNext
  <2>4. x \in Node
    BY <1>3 DEF Node
  <2>5. /\ Append(ringView, x) \in Seq(Node)
        /\ Len(Append(ringView, x)) = N + 1
        /\ \A i \in 1..N : Append(ringView, x)[i] = ringView[i]
        /\ Append(ringView, x)[N + 1] = x
    BY <2>1, <2>4, AppendProperties, SMTT(30)
  <2>8. log'[Len(log) + 1] = f /\ \A j \in 1..Len(log) : log'[j] = log[j]
    <3>1. log \in Seq(Functors) /\ f \in Functors /\ log' = Append(log, f)
      BY <1>1, <1>2, <1>3
    <3> HIDE DEF f
    <3> QED BY <3>1, SMTT(30)
  <2>6. ASSUME NEW i \in 1..(N + 1) PROVE ringView'[i] = Append(ringView, x)[i]
    <3>1. ringView'[i] = [item |-> log'[first + i], ready |-> slot[SlotOf(first + i - 1)].id # 0]
      BY <1>2, <2>3, RingNext
    <3>2. CASE i \in 1..N
      <4>1. first + i \in 1..Len(log)
        BY <1>1, <3>2, SMTT(30)
      <4>2. log'[first + i] = log[first + i]
        BY <2>8, <4>1
      <4>3. ringView[i] = [item |-> log[first + i], ready |-> slot[SlotOf(first + i - 1)].id # 0]
        BY <3>2, RingNow
      <4> QED BY <2>5, <3>1, <3>2, <4>2, <4>3
    <3>3. CASE i = N + 1
      <4>1. first + i = Len(log) + 1 /\ first + i - 1 = reserved
        BY <1>1, <3>3, SMTT(30)
      <4>2. log'[first + i] = f
        BY <2>8, <4>1
      <4> QED BY <1>5, <2>5, <3>1, <3>3, <4>1, <4>2
    <3> QED BY <2>1, <3>2, <3>3, SMTT(30)
  <2>7. Len(ringView') = Len(Append(ringView, x))
    BY <2>2, <2>3, <2>5
  <2> QED BY <2>2, <2>3, <2>5, <2>6, <2>7, SeqEqual
<1>7. Len(ringView) < Slots
  BY <1>4, RingNow
<1> QED BY <1>3, <1>6, <1>7 DEF Ring!Reserve

\* commit(): the store of the id makes the producer's node ready, and no other.
LEMMA CommitCommits ==
    ASSUME IndInv, IndInv', NEW p \in Producers, Commit(p)
    PROVE  \E f \in Functors : Ring!Commit(f)
<1> DEFINE f == <<p, sent[p]>>
           N == reserved - first
           k == w[p] - first + 1
           x == [item |-> f, ready |-> FALSE]
           y == [item |-> f, ready |-> TRUE]
<1>1. /\ TypeOK /\ WindowOK /\ OwnedOK /\ p \in Writers
      /\ reserved \in Nat /\ first \in Nat /\ w[p] \in Nat
      /\ first <= w[p] /\ w[p] < reserved
      /\ log[w[p] + 1] = f /\ slot[SlotOf(w[p])].id = 0
      /\ log \in Seq(Functors) /\ Len(log) = reserved
  <2>1. TypeOK /\ WindowOK /\ OwnedOK /\ pc[p] = "commit"
    BY DEF IndInv, Commit, Goto
  <2>2. p \in Writers
    BY <2>1 DEF Writers
  <2>3. /\ reserved \in Nat /\ consumed \in Nat /\ w[p] \in Nat
        /\ log \in Seq(Functors) /\ Len(log) = reserved
    BY <2>1 DEF TypeOK, WindowOK
  <2>4. first \in Nat
    BY <2>3, SMTT(30) DEF first
  <2>5. /\ first <= w[p] /\ w[p] < reserved
        /\ log[w[p] + 1] = f /\ slot[SlotOf(w[p])].id = 0
    BY <2>1, <2>2 DEF OwnedOK
  <2> QED BY <2>1, <2>2, <2>3, <2>4, <2>5
<1>2. /\ slot' = [slot EXCEPT ![SlotOf(w[p])].id = 1]
      /\ reserved' = reserved /\ first' = first /\ log' = log
  BY DEF Commit, first
<1>3. f \in Functors
  <2>1. w[p] + 1 \in 1..Len(log)
    BY <1>1, SMTT(30)
  <2> QED BY <1>1, <2>1, ElementOfSeq
<1>4. /\ N \in Nat /\ k \in 1..N /\ first + k - 1 = w[p] /\ first + k = w[p] + 1
  <2>1. reserved \in Nat /\ first \in Nat /\ w[p] \in Nat /\ first <= w[p] /\ w[p] < reserved
    BY <1>1
  <2> QED BY <2>1, SMTT(30)
<1>5. /\ ringView \in Seq(Node) /\ Len(ringView) = N
      /\ ringView' \in Seq(Node) /\ Len(ringView') = N
  BY <1>2, RingNow, RingNext
<1>6. ringView[k] = x
  <2>1. ringView[k] = [item |-> log[first + k], ready |-> slot[SlotOf(first + k - 1)].id # 0]
    BY <1>4, RingNow
  <2>2. log[first + k] = f
    BY <1>1, <1>4
  <2>3. (slot[SlotOf(first + k - 1)].id # 0) = FALSE
    BY <1>1, <1>4
  <2> QED BY <2>1, <2>2, <2>3
<1>7. ASSUME NEW i \in 1..N
      PROVE  ringView'[i] = IF i = k THEN y ELSE ringView[i]
  <2>1. /\ ringView[i] = [item |-> log[first + i], ready |-> slot[SlotOf(first + i - 1)].id # 0]
        /\ ringView'[i] = [item |-> log[first + i], ready |-> slot'[SlotOf(first + i - 1)].id # 0]
    BY <1>2, RingNow, RingNext
  <2>2. /\ first + i - 1 \in first..(first + Slots - 1)
        /\ w[p] \in first..(first + Slots - 1)
        /\ first + i - 1 \in Nat
    <3>1. reserved <= first + Slots
      <4>1. reserved \in Nat /\ consumed \in Nat /\ reserved <= consumed + Slots
        BY <1>1 DEF TypeOK, WindowOK
      <4> QED BY <4>1, SlotsAssumption, SMTT(30) DEF first
    <3>2. i \in Nat /\ 1 <= i /\ i <= reserved - first
      BY <1>4, SMTT(30)
    <3>3. /\ reserved \in Nat /\ first \in Nat /\ w[p] \in Nat /\ Slots \in Nat
          /\ first <= w[p] /\ w[p] < reserved
      BY <1>1, SlotsAssumption
    <3>4. first + i - 1 \in first..(first + Slots - 1) /\ first + i - 1 \in Nat
      BY <3>1, <3>2, <3>3, SMTT(30)
    <3>5. w[p] \in first..(first + Slots - 1)
      BY <3>1, <3>3, SMTT(30)
    <3> QED BY <3>4, <3>5
  <2>3. /\ SlotOf(w[p]) \in 0..(Slots - 1) /\ SlotOf(first + i - 1) \in 0..(Slots - 1)
        /\ slot \in [0..(Slots - 1) -> [id : {0, 1}, data : Functors \cup {Null}]]
    BY <1>1, <2>2, SlotOfFacts DEF TypeOK
  <2>4. CASE i = k
    <3>1. slot'[SlotOf(w[p])].id = 1
      BY <1>2, <2>3
    <3>2. first + i - 1 = w[p] /\ first + i = w[p] + 1
      BY <1>4, <2>4
    <3>3. slot'[SlotOf(first + i - 1)].id # 0 /\ log[first + i] = f
      BY <1>1, <3>1, <3>2, SMTT(30)
    <3>4. ringView'[i] = y
      BY <2>1, <3>3
    <3> QED BY <2>4, <3>4
  <2>5. CASE i # k
    <3>1. first + i - 1 # w[p]
      BY <1>1, <2>5, SMTT(30)
    <3>2. SlotOf(first + i - 1) # SlotOf(w[p])
      BY <1>1, <2>2, <3>1, WindowSlots
    <3>3. slot'[SlotOf(first + i - 1)] = slot[SlotOf(first + i - 1)]
      BY <1>2, <2>3, <3>2
    <3> QED BY <2>1, <2>5, <3>3
  <2> QED BY <2>4, <2>5
<1>8. ringView' = [ringView EXCEPT ![k] = y]
  <2>1. DOMAIN ringView = 1..N /\ DOMAIN ringView' = 1..N
    BY <1>5, SMTT(30)
  <2>2. Len([ringView EXCEPT ![k] = y]) = N /\ [ringView EXCEPT ![k] = y] \in Seq(Node)
    BY <1>3, <1>4, <1>5, ExceptSeq, SMTT(30) DEF Node
  <2>3. \A i \in 1..N : [ringView EXCEPT ![k] = y][i] = IF i = k THEN y ELSE ringView[i]
    BY <2>1
  <2> DEFINE e == [ringView EXCEPT ![k] = y]
  <2>4. Len(ringView') = Len(e) /\ \A i \in 1..Len(ringView') : ringView'[i] = e[i]
    BY <1>5, <1>7, <2>2, <2>3
  <2> HIDE DEF e
  <2>5. ringView' \in Seq(Node) /\ e \in Seq(Node)
    BY <1>5, <2>2 DEF e
  <2>6. ringView' = e
    BY <2>4, <2>5, SeqEqual
  <2> QED BY <2>6 DEF e
<1>9. k \in DOMAIN ringView
  BY <1>4, <1>5, SMTT(30)
<1> QED BY <1>3, <1>6, <1>8, <1>9 DEF Ring!Commit

\* consume(): the memset takes the head, which was ready, off the ring.
LEMMA ClearConsumes ==
    ASSUME IndInv, IndInv', Clear
    PROVE  Ring!Consume
<1> DEFINE N == reserved - first
<1>1. /\ TypeOK /\ WindowOK
      /\ reserved \in Nat /\ first \in Nat /\ consumed \in Nat
      /\ consumed < reserved /\ first = consumed /\ HeadNode.id = 1
      /\ reserved <= first + Slots
  BY DEF IndInv, TypeOK, WindowOK, NodesOK, first, Clear
<1>2. /\ slot' = [slot EXCEPT ![SlotOf(consumed)] = EmptyNode]
      /\ reserved' = reserved /\ first' = first + 1 /\ log' = log
  BY <1>1 DEF Clear, first
<1>3. /\ N \in Nat /\ N > 0 /\ reserved' - first' = N - 1
  BY <1>1, <1>2, SMTT(30)
<1>4. /\ ringView \in Seq(Node) /\ Len(ringView) = N
      /\ ringView' \in Seq(Node) /\ Len(ringView') = N - 1
  BY <1>3, RingNow, RingNext
<1>5. ringView # <<>>
  BY <1>3, <1>4, SMTT(30)
<1>6. Head(ringView).ready
  <2>1. ringView[1] = [item |-> log[first + 1], ready |-> slot[SlotOf(first + 1 - 1)].id # 0]
    BY <1>3, RingNow, SMTT(30)
  <2>2. first + 1 - 1 = consumed
    BY <1>1, SMTT(30)
  <2>3. slot[SlotOf(first + 1 - 1)].id # 0
    BY <1>1, <2>2, SMTT(30) DEF HeadNode
  <2>4. ringView[1] = [item |-> log[first + 1], ready |-> TRUE]
    BY <2>1, <2>3
  <2>5. ringView[1].ready
    BY <2>4, SMTT(30)
  <2> QED BY <1>4, <1>5, <2>5, HeadTailProperties, SMTT(30)
<1>7. /\ Tail(ringView) \in Seq(Node)
      /\ Len(Tail(ringView)) = N - 1
      /\ \A i \in 1..(N - 1) : Tail(ringView)[i] = ringView[i + 1]
  BY <1>4, <1>5, HeadTailProperties
<1>8. ASSUME NEW i \in 1..(N - 1) PROVE ringView'[i] = Tail(ringView)[i]
  <2>1. ringView'[i] = [item |-> log[first + 1 + i], ready |-> slot'[SlotOf(first + 1 + i - 1)].id # 0]
    BY <1>2, <1>3, RingNext
  <2>2. ringView[i + 1] = [item |-> log[first + (i + 1)], ready |-> slot[SlotOf(first + (i + 1) - 1)].id # 0]
    <3>1. i + 1 \in 1..N
      BY <1>3, SMTT(30)
    <3> QED BY <3>1, RingNow
  <2>3. /\ first + 1 + i = first + (i + 1) /\ first + 1 + i - 1 = first + i
        /\ first + (i + 1) - 1 = first + i
    BY <1>1, SMTT(30)
  <2>4. /\ first + i \in first..(first + Slots - 1) /\ consumed \in first..(first + Slots - 1)
        /\ first + i # consumed /\ first + i \in Nat
    BY <1>1, SlotsAssumption, SMTT(30)
  <2>5. SlotOf(first + i) # SlotOf(consumed)
    BY <1>1, <2>4, WindowSlots
  <2>6. slot'[SlotOf(first + i)] = slot[SlotOf(first + i)]
    BY <1>1, <1>2, <2>4, <2>5, SlotOfFacts DEF TypeOK
  <2> QED BY <1>7, <2>1, <2>2, <2>3, <2>6
<1>9. ringView' = Tail(ringView)
  BY <1>4, <1>7, <1>8, SeqEqual
<1> QED BY <1>5, <1>6, <1>9 DEF Ring!Consume, Ring!HeadReady

\* MpscQueue.h implements the bounded queue: its Init maps to FunctorRing's, and
\* every step of a producer or of the loop thread to a step of FunctorRing or to
\* none, for every number of producers, nodes and counter modulus.
THEOREM ImplementsRingHolds == Spec => ImplementsRing
<1>1. Init => Ring!Init
  <2> SUFFICES ASSUME Init PROVE ringView = <<>>
    BY DEF Ring!Init
  <2>1. reserved - first = 0
    BY SMTT(30) DEF Init, first
  <2>2. IndInv
    BY InitIndInv
  <2> QED BY <2>1, <2>2, RingNow, SMTT(30)
<1>2. IndInv /\ IndInv' /\ [Next]_vars => [Ring!Next]_ringView
  <2> SUFFICES ASSUME IndInv, IndInv', [Next]_vars
               PROVE  Ring!Next \/ ringView' = ringView
    OBVIOUS
  <2>1. ASSUME NEW p \in Producers, Call(p) \/ LoadHead(p) \/ LoadTail(p) \/ CasFail(p)
        PROVE  ringView' = ringView
    <3>1. first' = first /\ reserved' = reserved /\ log' = log /\ slot' = slot
      BY <2>1 DEF Call, LoadHead, LoadTail, CasFail, first
    <3> QED BY <3>1, ViewStays
  <2>2. ASSUME NEW p \in Producers, CasSucceed(p) PROVE Ring!Next
    BY <2>2, CasReserves DEF Ring!Next
  <2>3. ASSUME NEW p \in Producers, Fill(p) PROVE ringView' = ringView
    <3>1. /\ first' = first /\ reserved' = reserved /\ log' = log
          /\ slot' = [slot EXCEPT ![SlotOf(w[p])].data = <<p, sent[p]>>]
      BY <2>3 DEF Fill, first
    <3>2. slot \in [0..(Slots - 1) -> [id : {0, 1}, data : Functors \cup {Null}]]
      BY DEF IndInv, TypeOK
    <3>3. ASSUME NEW n PROVE slot'[SlotOf(n)].id = slot[SlotOf(n)].id
      BY <3>1, <3>2, SMTT(30)
    <3> QED BY <3>1, <3>3, ViewStays
  <2>4. ASSUME NEW p \in Producers, Commit(p) PROVE Ring!Next
    BY <2>4, CommitCommits DEF Ring!Next
  <2>5. CASE Peek \/ Run \/ Advance
    <3>1. first' = first /\ reserved' = reserved /\ log' = log /\ slot' = slot
      BY <2>5 DEF Peek, Run, Advance, first
    <3> QED BY <3>1, ViewStays
  <2>6. CASE Clear
    BY <2>6, ClearConsumes DEF Ring!Next
  <2>7. CASE UNCHANGED vars
    <3>1. first' = first /\ reserved' = reserved /\ log' = log /\ slot' = slot
      BY <2>7 DEF vars, first
    <3> QED BY <3>1, ViewStays
  <2> QED BY <2>1, <2>2, <2>3, <2>4, <2>5, <2>6, <2>7
          DEF Next, Consumer, Producer, Reserve
<1> QED BY <1>1, <1>2, IndInvHolds, PTL DEF Spec, ImplementsRing, Ring!Spec
=============================================================================
