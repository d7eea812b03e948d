---------------------------- MODULE FunctorRing ----------------------------
(***************************************************************************)
(* What MpscQueue<FunctorTask> promises to EventLoop: a bounded first-in   *)
(* first-out queue of nodes.  A producer first reserves a node, which fixes *)
(* the functor's place in the order, and commits it later; the consumer    *)
(* only ever sees the node at the head, and only once it is committed, so  *)
(* an uncommitted node hides every node behind it.  A reservation may be   *)
(* refused at any moment (the refusal leaves the ring alone).              *)
(* MpscQueue.tla shows that the lock-free code implements this module and  *)
(* EventLoop.tla is built on it.                                           *)
(***************************************************************************)
EXTENDS Naturals, Sequences

CONSTANTS Items,     \* the functors that are ever queued
          Capacity   \* nodes that fit in the buffer

VARIABLE ring        \* Seq of nodes [item, ready], oldest first

Node == [item : Items, ready : BOOLEAN]

Init == ring = <<>>

Reserve(f) ==
    /\ Len(ring) < Capacity
    /\ ring' = Append(ring, [item |-> f, ready |-> FALSE])

Commit(f) ==
    \E i \in DOMAIN ring :
        /\ ring[i] = [item |-> f, ready |-> FALSE]
        /\ ring' = [ring EXCEPT ![i] = [item |-> f, ready |-> TRUE]]

\* peek() returns a node.
HeadReady == ring # <<>> /\ Head(ring).ready

Consume ==
    /\ HeadReady
    /\ ring' = Tail(ring)

Next ==
    \/ \E f \in Items : Reserve(f) \/ Commit(f)
    \/ Consume

Spec == Init /\ [][Next]_ring
=============================================================================
