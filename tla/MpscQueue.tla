----------------------------- MODULE MpscQueue -----------------------------
(***************************************************************************)
(* include/hvnetpp/MpscQueue.h over include/hvnetpp/CircularBuffer.h: the  *)
(* lock-free ring through which other threads hand functors to the loop    *)
(* thread.  One action per atomic access of the code; the interleaving is  *)
(* sequentially consistent.                                                *)
(*                                                                         *)
(* Head and tail advance by sizeof(Node) only, so both are counted in      *)
(* nodes.  The model keeps how many nodes were ever reserved and consumed; *)
(* the unsigned counters of the code are those numbers modulo CounterMod,  *)
(* and every comparison the code makes is made on the wrapped values.      *)
(***************************************************************************)
EXTENDS Integers, Sequences

CONSTANTS Producers,   \* threads calling queueInLoop()
          Slots,       \* size_ / sizeof(Node): 2^16 / 64 in the code
          CounterMod,  \* 2^32 / sizeof(Node): where the counters wrap
          MaxPush,     \* bound: functors each producer tries to push
          Null         \* the null functor pointer

ASSUME SlotsAssumption == Slots \in Nat \ {0}
ASSUME CounterModAssumption ==
    /\ CounterMod \in Nat
    /\ Slots < CounterMod
    /\ CounterMod % Slots = 0
ASSUME MaxPushAssumption == MaxPush \in Nat

\* A functor is named by its producer and its rank among that producer's calls.
Functors == Producers \X (1..MaxPush)
ASSUME NullAssumption == Null \notin Functors

VARIABLES
    reserved,   \* nodes ever reserved: tail_ before wrapping
    consumed,   \* nodes ever consumed: head_ before wrapping
    slot,       \* the mirrored buffer: node id and data per slot
    pc,         \* each producer's place in queueInLoop()
    r, w,       \* reserve()'s locals: the loaded head and tail
    sent,       \* functors each producer has tried to push
    cpc,        \* the loop thread's place in doPendingFunctors()
    log,        \* history: functors in the order their nodes were reserved
    ran         \* history: functors in the order the loop thread ran them

vars == <<reserved, consumed, slot, pc, r, w, sent, cpc, log, ran>>
prodVars == <<pc, r, w, sent>>

EmptyNode == [id |-> 0, data |-> Null]

Wrap(n) == n % CounterMod

\* CircularBuffer::headPtr()/getPointer(): offset & (size_ - 1).
SlotOf(n) == Wrap(n) % Slots

\* The buffer is a freshly truncated file: all zero.
Init ==
    /\ reserved = 0
    /\ consumed = 0
    /\ slot = [i \in 0..(Slots - 1) |-> EmptyNode]
    /\ pc = [p \in Producers |-> "idle"]
    /\ r = [p \in Producers |-> 0]
    /\ w = [p \in Producers |-> 0]
    /\ sent = [p \in Producers |-> 0]
    /\ cpc = "peek"
    /\ log = <<>>
    /\ ran = <<>>

-----------------------------------------------------------------------------
(* Producers: queueInLoop() -> reserve(), fill, commit().                  *)

Goto(p, from, to) ==
    /\ pc[p] = from
    /\ pc' = [pc EXCEPT ![p] = to]

\* queueInLoop() allocates the functor and enters reserve().
Call(p) ==
    /\ sent[p] < MaxPush
    /\ Goto(p, "idle", "loadHead")
    /\ sent' = [sent EXCEPT ![p] = @ + 1]
    /\ UNCHANGED <<reserved, consumed, slot, r, w, cpc, log, ran>>

LoadHead(p) ==
    /\ Goto(p, "loadHead", "loadTail")
    /\ r' = [r EXCEPT ![p] = consumed]
    /\ UNCHANGED <<reserved, consumed, slot, w, sent, cpc, log, ran>>

\* Mutant: the test lets one node too many through.
OverflowsBug(head, tail) == (Wrap(tail) - Wrap(head)) % CounterMod > Slots

\* (w - r) > (s - nodeSize), in unsigned arithmetic.
Overflows(head, tail) == (Wrap(tail) - Wrap(head)) % CounterMod > Slots - 1

\* Loads the tail and tests for overflow: reserve() returns nullptr or goes on.
LoadTail(p) ==
    /\ w' = [w EXCEPT ![p] = reserved]
    /\ Goto(p, "loadTail", IF Overflows(r[p], reserved) THEN "idle" ELSE "cas")
    /\ UNCHANGED <<reserved, consumed, slot, r, sent, cpc, log, ran>>

\* compare_exchange_weak() fails: the tail moved, or spuriously.
CasFail(p) ==
    /\ Goto(p, "cas", "loadHead")
    /\ UNCHANGED <<reserved, consumed, slot, r, w, sent, cpc, log, ran>>

\* Named bound: while one producer is between its load of the head and its
\* compare-exchange, the others do not push the tail a whole revolution of
\* the counter past the head it loaded (2^26 functors in the code).
NoFullRevolution(p) ==
    \A q \in Producers \ {p} :
        pc[q] \in {"loadTail", "cas"} => reserved + 1 - r[q] < CounterMod

CasSucceed(p) ==
    /\ Wrap(w[p]) = Wrap(reserved)
    /\ NoFullRevolution(p)
    /\ Goto(p, "cas", "fill")
    /\ reserved' = reserved + 1
    /\ log' = Append(log, <<p, sent[p]>>)
    /\ UNCHANGED <<consumed, slot, r, w, sent, cpc, ran>>

\* node->data.functorPtr = functor.release()
Fill(p) ==
    /\ Goto(p, "fill", "commit")
    /\ slot' = [slot EXCEPT ![SlotOf(w[p])].data = <<p, sent[p]>>]
    /\ UNCHANGED <<reserved, consumed, r, w, sent, cpc, log, ran>>

\* commit(): the release store of the node's id.
Commit(p) ==
    /\ Goto(p, "commit", "idle")
    /\ slot' = [slot EXCEPT ![SlotOf(w[p])].id = 1]
    /\ UNCHANGED <<reserved, consumed, r, w, sent, cpc, log, ran>>

-----------------------------------------------------------------------------
(* The loop thread: doPendingFunctors() -> peek(), run, consume().         *)

HeadNode == slot[SlotOf(consumed)]

\* Mutant: peek() trusts the tail alone.
PeekBug ==
    /\ cpc = "peek"
    /\ Wrap(consumed) # Wrap(reserved)
    /\ cpc' = "run"
    /\ UNCHANGED <<reserved, consumed, slot, prodVars, log, ran>>

\* peek() returns the head node.  The test of the tail and the load of the id
\* can be one step: the tail only moves away from the head.
Peek ==
    /\ cpc = "peek"
    /\ Wrap(consumed) # Wrap(reserved)
    /\ HeadNode.id # 0
    /\ cpc' = "run"
    /\ UNCHANGED <<reserved, consumed, slot, prodVars, log, ran>>

\* Runs and deletes the functor, if the node holds one.
Run ==
    /\ cpc = "run"
    /\ cpc' = "clear"
    /\ ran' = IF HeadNode.data = Null THEN ran ELSE Append(ran, HeadNode.data)
    /\ UNCHANGED <<reserved, consumed, slot, prodVars, log>>

\* Mutant: consume() does not clear the node.
ClearBug ==
    /\ cpc = "clear"
    /\ cpc' = "advance"
    /\ UNCHANGED <<reserved, consumed, slot, prodVars, log, ran>>

\* consume(): the memset ...
Clear ==
    /\ cpc = "clear"
    /\ cpc' = "advance"
    /\ slot' = [slot EXCEPT ![SlotOf(consumed)] = EmptyNode]
    /\ UNCHANGED <<reserved, consumed, prodVars, log, ran>>

\* ... and the increment of the head.
Advance ==
    /\ cpc = "advance"
    /\ cpc' = "peek"
    /\ consumed' = consumed + 1
    /\ UNCHANGED <<reserved, slot, prodVars, log, ran>>

-----------------------------------------------------------------------------
Reserve(p) == LoadHead(p) \/ LoadTail(p) \/ CasFail(p) \/ CasSucceed(p)

Producer(p) == Call(p) \/ Reserve(p) \/ Fill(p) \/ Commit(p)

Consumer == Peek \/ Run \/ Clear \/ Advance

Next == Consumer \/ \E p \in Producers : Producer(p)

Spec == Init /\ [][Next]_vars

-----------------------------------------------------------------------------
(* Properties.                                                             *)

TypeOK ==
    /\ reserved \in Nat
    /\ consumed \in Nat
    /\ slot \in [0..(Slots - 1) -> [id : {0, 1}, data : Functors \cup {Null}]]
    /\ pc \in [Producers -> {"idle", "loadHead", "loadTail", "cas", "fill", "commit"}]
    /\ r \in [Producers -> Nat]
    /\ w \in [Producers -> Nat]
    /\ sent \in [Producers -> 0..MaxPush]
    /\ cpc \in {"peek", "run", "clear", "advance"}
    /\ log \in Seq(Functors)
    /\ ran \in Seq(Functors)

\* Producers that own a node they have not committed.
Writers == {p \in Producers : pc[p] \in {"fill", "commit"}}

\* Between reserve() and commit() a producer has its node's memory to itself:
\* no other producer writes that slot, and the loop thread is neither running
\* the functor in it nor clearing it, whatever heads and tails reserve()
\* computed its overflow test from.  The slot of a node that is still being
\* filled never carries the id of an earlier node, so that peek() does not see it.
ExclusiveSlot ==
    \A p \in Writers :
        /\ \A q \in Writers \ {p} : SlotOf(w[p]) # SlotOf(w[q])
        /\ cpc # "peek" => SlotOf(w[p]) # SlotOf(consumed)
        /\ slot[SlotOf(w[p])].id = 0

\* The loop thread runs exactly the functors whose nodes were reserved, once
\* each, in the order of the reservations: none is lost, run twice, or
\* overtaken across the wrap of the buffer and of the counters.
RunInOrder == Len(ran) <= Len(log) /\ ran = SubSeq(log, 1, Len(ran))

\* The ring of FunctorRing.tla: the nodes not yet cleared.
first == IF cpc = "advance" THEN consumed + 1 ELSE consumed
ringView ==
    [i \in 1..(reserved - first) |->
        [item |-> log[first + i], ready |-> slot[SlotOf(first + i - 1)].id # 0]]

Ring == INSTANCE FunctorRing
            WITH Items <- Functors, Capacity <- Slots, ring <- ringView

-----------------------------------------------------------------------------
(* The inductive invariant behind the safety properties.                   *)

\* The live window never exceeds the buffer, and the loop thread only works
\* on a node that was reserved.
WindowOK ==
    /\ first <= reserved
    /\ cpc # "peek" => consumed < reserved
    /\ reserved <= consumed + Slots
    /\ Len(log) = reserved

\* What reserve() may conclude from a head and a tail that have gone stale.
LoadedOK ==
    \A p \in Producers :
        /\ pc[p] # "idle" => sent[p] > 0
        /\ pc[p] \in {"loadTail", "cas"} =>
               r[p] <= consumed /\ reserved - r[p] < CounterMod
        /\ pc[p] = "cas" =>
               r[p] <= w[p] /\ w[p] <= reserved /\ w[p] - r[p] < Slots

\* Every producer past its compare-exchange owns one hidden node of the window.
OwnedOK ==
    \A p \in Writers :
        /\ first <= w[p] /\ w[p] < reserved
        /\ \A q \in Writers \ {p} : w[p] # w[q]
        /\ log[w[p] + 1] = <<p, sent[p]>>
        /\ slot[SlotOf(w[p])].id = 0
        /\ pc[p] = "commit" => slot[SlotOf(w[p])].data = <<p, sent[p]>>

\* A committed node holds the functor its place in the order belongs to; the
\* slots the tail has yet to reach are clear.
NodesOK ==
    /\ \A n \in first..(first + Slots - 1) :
          /\ n < reserved /\ slot[SlotOf(n)].id = 1 =>
                 slot[SlotOf(n)].data = log[n + 1]
          /\ reserved <= n => slot[SlotOf(n)].id = 0
    /\ cpc \in {"run", "clear"} => HeadNode.id = 1

\* The functors run so far are those of the nodes up to the head.
RanOK ==
    /\ Len(ran) = IF cpc \in {"clear", "advance"} THEN consumed + 1 ELSE consumed
    /\ \A i \in 1..Len(ran) : ran[i] = log[i]

IndInv == TypeOK /\ WindowOK /\ LoadedOK /\ OwnedOK /\ NodesOK /\ RanOK

-----------------------------------------------------------------------------
\* The lock-free code implements the bounded queue EventLoop relies on.
ImplementsRing == Ring!Spec
=============================================================================
