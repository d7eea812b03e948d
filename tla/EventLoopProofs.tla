-------------------------- MODULE EventLoopProofs --------------------------
(***************************************************************************)
(* Proofs about EventLoop.tla, for every set of threads and functors and   *)
(* every capacity of the ring.                                             *)
(***************************************************************************)
EXTENDS EventLoop, FiniteSetTheorems, TLAPS

\* A leaf is tried with Zenon, then SMT, unless it names its prover.
USE ZenonT(30), SMTT(30)

\* Adding to the end of a sequence and taking its head away.
LEMMA AppendFacts ==
    ASSUME NEW S, NEW s \in Seq(S), NEW e \in S
    PROVE  /\ Append(s, e) \in Seq(S) /\ Len(Append(s, e)) = Len(s) + 1
           /\ \A i \in 1..Len(s) : Append(s, e)[i] = s[i]
           /\ Append(s, e)[Len(s) + 1] = e
  BY SMTT(30)

LEMMA TailFacts ==
    ASSUME NEW S, NEW s \in Seq(S), s # <<>>
    PROVE  /\ Head(s) \in S /\ Tail(s) \in Seq(S) /\ Len(Tail(s)) = Len(s) - 1
           /\ \A i \in 1..Len(Tail(s)) : Tail(s)[i] = s[i + 1]
  BY SMTT(30)

\* What the operations on the ring do to its shape and to its head.
LEMMA RingFacts ==
    ASSUME ring \in Seq(Ring!Node), NEW f \in Functors
    PROVE  /\ Ring!Reserve(f) => /\ ring' \in Seq(Ring!Node)
                                 /\ Ring!HeadReady' <=> Ring!HeadReady
           /\ Ring!Commit(f) => /\ ring # <<>> /\ ring' \in Seq(Ring!Node)
                                /\ Ring!HeadReady => Ring!HeadReady'
           /\ ring' = Append(ring, [item |-> f, ready |-> TRUE]) =>
                  /\ ring' \in Seq(Ring!Node)
                  /\ Ring!HeadReady => Ring!HeadReady'
<1> USE DEF Ring!HeadReady
<1>1. ASSUME Ring!Reserve(f)
      PROVE  ring' \in Seq(Ring!Node) /\ (Ring!HeadReady' <=> Ring!HeadReady)
  <2> DEFINE n == [item |-> f, ready |-> FALSE]
  <2>1. n \in Ring!Node /\ ring' = Append(ring, n) /\ ~n.ready
    BY <1>1 DEF Ring!Reserve, Ring!Node
  <2> HIDE DEF n
  <2>2. ring' \in Seq(Ring!Node) /\ ring' # <<>>
    BY <2>1, SMTT(30)
  <2>3. CASE ring = <<>>
    BY <2>1, <2>2, <2>3, SMTT(30)
  <2>4. CASE ring # <<>>
    BY <2>1, <2>2, <2>4, SMTT(30)
  <2> QED BY <2>2, <2>3, <2>4
<1>2. ASSUME Ring!Commit(f)
      PROVE  ring # <<>> /\ ring' \in Seq(Ring!Node) /\ (Ring!HeadReady => Ring!HeadReady')
  <2> DEFINE n == [item |-> f, ready |-> TRUE]
  <2>1. PICK i \in DOMAIN ring : ring' = [ring EXCEPT ![i] = n]
    BY <1>2 DEF Ring!Commit
  <2>2. n \in Ring!Node /\ n.ready
    BY DEF Ring!Node
  <2> HIDE DEF n
  <2>3. ring' \in Seq(Ring!Node) /\ Len(ring') = Len(ring)
    BY <2>1, <2>2, SMTT(30)
  <2>4. \A j \in 1..Len(ring) : ring'[j] = IF j = i THEN n ELSE ring[j]
    BY <2>1, <2>2, SMTT(30)
  <2>5. ASSUME Ring!HeadReady PROVE Ring!HeadReady'
    <3>1. ring # <<>> /\ Len(ring) > 0 /\ ring' # <<>>
      BY <2>3, <2>5, SMTT(30)
    <3>2. Head(ring) = ring[1] /\ Head(ring') = ring'[1] /\ 1 \in 1..Len(ring)
      BY <2>3, <3>1, SMTT(30)
    <3> QED BY <2>2, <2>4, <2>5, <3>1, <3>2
  <2>6. ring # <<>>
    BY <2>1, SMTT(30)
  <2> QED BY <2>3, <2>5, <2>6
<1>3. ASSUME ring' = Append(ring, [item |-> f, ready |-> TRUE])
      PROVE  ring' \in Seq(Ring!Node) /\ (Ring!HeadReady => Ring!HeadReady')
  <2>1. [item |-> f, ready |-> TRUE] \in Ring!Node
    BY DEF Ring!Node
  <2> QED BY <1>3, <2>1, SMTT(30)
<1> QED BY <1>1, <1>2, <1>3

\* The node peek() returns holds a functor.
LEMMA HeadFacts ==
    ASSUME ring \in Seq(Ring!Node), Ring!HeadReady
    PROVE  Head(ring).item \in Functors /\ Tail(ring) \in Seq(Ring!Node)
<1>1. Head(ring) \in Ring!Node /\ Tail(ring) \in Seq(Ring!Node)
  BY SMTT(30) DEF Ring!HeadReady
<1> QED BY <1>1 DEF Ring!Node

-----------------------------------------------------------------------------
\* The invariant holds of a loop that has not started.
LEMMA InitIndInv == Init => IndInv
<1> SUFFICES ASSUME Init PROVE IndInv
  OBVIOUS
<1>1. TypeOK
  <2>1. ring \in Seq(Ring!Node) /\ fallback \in Seq(Functors) /\ batch \in Seq(Functors)
    BY SMTT(30) DEF Init, Ring!Init
  <2>2. /\ callerPc \in [Callers -> {"idle", "reserve", "commit", "wake"}]
        /\ callerFn \in [Callers -> Functors \cup {None}]
    BY DEF Init
  <2> QED BY <2>1, <2>2 DEF Init, TypeOK
<1>2. PlacesOK /\ WakeupOK
  BY DEF Init, PlacesOK, WakeupOK, Ring!Init, Ring!HeadReady
<1> QED BY <1>1, <1>2 DEF IndInv

\* A thread inside queueInLoop() or quit() keeps the invariant: whatever it
\* publishes, its wakeup is still to come.
LEMMA CallerStep ==
    ASSUME IndInv, NEW c \in Callers, Caller(c)
    PROVE  IndInv'
<1>0. TypeOK /\ PlacesOK /\ WakeupOK
  BY DEF IndInv
<1> USE DEF CallerGoto, queueVars, callerVars
<1>1. ASSUME NEW f \in Functors, Call(c, f) PROVE IndInv'
  <2>1. /\ callerPc[c] = "idle" /\ callerPc' = [callerPc EXCEPT ![c] = "reserve"]
        /\ callerFn' = [callerFn EXCEPT ![c] = f] /\ issued' = issued \cup {f}
        /\ ring' = ring /\ fallback' = fallback
        /\ UNCHANGED <<ringValid, batch, wakeReadable, wakeActive, quit,
                       calling, loopPc, owes, done, primed>>
    BY <1>1 DEF Call
  <2>2. TypeOK'
    BY <1>0, <2>1, SMTT(30) DEF TypeOK
  <2>3. WakeupComing' <=> WakeupComing
    BY <1>0, <2>1 DEF WakeupComing, TypeOK
  <2>4. Ring!HeadReady' <=> Ring!HeadReady
    BY <2>1 DEF Ring!HeadReady
  <2>5. PlacesOK'
    BY <1>0, <2>1, <2>4 DEF PlacesOK, TypeOK
  <2>6. WakeupOK'
    BY <1>0, <2>1, <2>3, <2>4 DEF WakeupOK, Quiet
  <2> QED BY <2>2, <2>5, <2>6 DEF IndInv
<1>2. CASE ReserveNode(c)
  <2>1. /\ callerPc[c] = "reserve" /\ callerPc' = [callerPc EXCEPT ![c] = "commit"]
        /\ ringValid
        /\ Ring!Reserve(callerFn[c]) /\ fallback' = fallback
        /\ UNCHANGED <<ringValid, batch, wakeReadable, wakeActive, quit, calling,
                       loopPc, owes, callerFn, issued, done, primed>>
    BY <1>2 DEF ReserveNode
  <2>2. callerFn[c] \in Functors
    BY <1>0, <2>1 DEF PlacesOK
  <2>3. ring' \in Seq(Ring!Node) /\ (Ring!HeadReady' <=> Ring!HeadReady)
    BY <1>0, <2>1, <2>2, RingFacts DEF TypeOK
  <2>4. TypeOK'
    BY <1>0, <2>1, <2>3 DEF TypeOK
  <2>5. WakeupComing' <=> WakeupComing
    BY <1>0, <2>1 DEF WakeupComing, TypeOK
  <2>6. PlacesOK'
    BY <1>0, <2>1, <2>2, <2>3 DEF PlacesOK, TypeOK
  <2>7. WakeupOK'
    BY <1>0, <2>1, <2>3, <2>5 DEF WakeupOK, Quiet
  <2> QED BY <2>4, <2>6, <2>7 DEF IndInv
<1>3. CASE CommitNode(c)
  <2>1. /\ callerPc[c] = "commit" /\ callerPc' = [callerPc EXCEPT ![c] = "wake"]
        /\ Ring!Commit(callerFn[c]) /\ fallback' = fallback
        /\ callerFn' = [callerFn EXCEPT ![c] = None]
        /\ UNCHANGED <<ringValid, batch, wakeReadable, wakeActive, quit, calling,
                       loopPc, owes, issued, done, primed>>
    BY <1>3 DEF CommitNode
  <2>2. callerFn[c] \in Functors
    BY <1>0, <2>1 DEF PlacesOK
  <2>3. ring # <<>> /\ ring' \in Seq(Ring!Node) /\ (Ring!HeadReady => Ring!HeadReady')
    BY <1>0, <2>1, <2>2, RingFacts DEF TypeOK
  <2>4. TypeOK'
    BY <1>0, <2>1, <2>3, SMTT(30) DEF TypeOK
  <2>5. WakeupComing'
    BY <1>0, <2>1 DEF WakeupComing, TypeOK
  <2>6. PlacesOK'
    BY <1>0, <2>1, <2>3 DEF PlacesOK, TypeOK
  <2> QED BY <2>4, <2>5, <2>6 DEF IndInv, WakeupOK, Quiet
<1>4. CASE PushFallback(c)
  <2>1. /\ callerPc[c] = "reserve" /\ callerPc' = [callerPc EXCEPT ![c] = "wake"]
        /\ fallback' = Append(fallback, callerFn[c]) /\ ring' = ring
        /\ callerFn' = [callerFn EXCEPT ![c] = None]
        /\ UNCHANGED <<ringValid, batch, wakeReadable, wakeActive, quit, calling,
                       loopPc, owes, issued, done, primed>>
    BY <1>4 DEF PushFallback
  <2>2. callerFn[c] \in Functors
    BY <1>0, <2>1 DEF PlacesOK
  <2>3. TypeOK'
    BY <1>0, <2>1, <2>2, SMTT(30) DEF TypeOK
  <2>4. WakeupComing'
    BY <1>0, <2>1 DEF WakeupComing, TypeOK
  <2>5. PlacesOK'
    BY <1>0, <2>1 DEF PlacesOK, TypeOK, Ring!HeadReady
  <2> QED BY <2>3, <2>4, <2>5 DEF IndInv, WakeupOK, Quiet
<1>5. CASE QuitStore(c)
  <2>1. /\ callerPc[c] = "idle" /\ callerPc' = [callerPc EXCEPT ![c] = "wake"]
        /\ quit' = TRUE /\ fallback' = fallback /\ ring' = ring
        /\ UNCHANGED <<ringValid, batch, wakeReadable, wakeActive, calling,
                       loopPc, owes, callerFn, issued, done, primed>>
    BY <1>5 DEF QuitStore
  <2>2. TypeOK'
    BY <1>0, <2>1, SMTT(30) DEF TypeOK
  <2>3. WakeupComing'
    BY <1>0, <2>1 DEF WakeupComing, TypeOK
  <2>4. PlacesOK'
    BY <1>0, <2>1 DEF PlacesOK, TypeOK, Ring!HeadReady
  <2> QED BY <2>2, <2>3, <2>4 DEF IndInv, WakeupOK, Quiet
<1>6. CASE Wakeup(c)
  <2>1. /\ callerPc[c] = "wake" /\ callerPc' = [callerPc EXCEPT ![c] = "idle"]
        /\ wakeReadable' = TRUE /\ fallback' = fallback /\ ring' = ring
        /\ UNCHANGED <<ringValid, batch, wakeActive, quit, calling,
                       loopPc, owes, callerFn, issued, done, primed>>
    BY <1>6 DEF Wakeup
  <2>2. TypeOK'
    BY <1>0, <2>1, SMTT(30) DEF TypeOK
  <2>3. PlacesOK'
    BY <1>0, <2>1 DEF PlacesOK, TypeOK, Ring!HeadReady
  <2> QED BY <2>1, <2>2, <2>3 DEF IndInv, WakeupOK, Quiet
<1> QED BY <1>1, <1>2, <1>3, <1>4, <1>5, <1>6 DEF Caller, CallerFinish

\* The loop thread's own steps keep the invariant.
LEMMA LoopStep ==
    ASSUME IndInv, Loop
    PROVE  IndInv'
<1>0. TypeOK /\ PlacesOK /\ WakeupOK
  BY DEF IndInv
<1> USE DEF LoopGoto, queueVars, callerVars
<1>a. ASSUME NEW f \in Functors, Enqueue(f), callerPc' = callerPc, loopPc' = loopPc
      PROVE  /\ ring' \in Seq(Ring!Node) /\ fallback' \in Seq(Functors)
             /\ wakeReadable' \in BOOLEAN /\ primed' \in BOOLEAN
             /\ Ring!HeadReady => Ring!HeadReady'
             /\ WakeupComing' <=> WakeupComing
             /\ Quiet' => ~calling /\ loopPc # "start" /\ Quiet
             /\ wakeReadable => wakeReadable'
             /\ ~ringValid => ring' = ring
  <2>1. \/ ring' = Append(ring, [item |-> f, ready |-> TRUE]) /\ fallback' = fallback
        \/ ring' = ring /\ fallback' = Append(fallback, f)
    BY <1>a DEF Enqueue
  <2>2. /\ ring' \in Seq(Ring!Node) /\ fallback' \in Seq(Functors)
        /\ Ring!HeadReady => Ring!HeadReady'
    <3>1. CASE ring' = Append(ring, [item |-> f, ready |-> TRUE]) /\ fallback' = fallback
      BY <1>0, <3>1, RingFacts DEF TypeOK
    <3>2. CASE ring' = ring /\ fallback' = Append(fallback, f)
      BY <1>0, <3>2, SMTT(30) DEF TypeOK, Ring!HeadReady
    <3> QED BY <2>1, <3>1, <3>2
  <2>3. wakeReadable' = (wakeReadable \/ calling) /\ primed' = (primed \/ loopPc = "start")
    BY <1>a DEF Enqueue
  <2>4. WakeupComing' <=> WakeupComing
    BY <1>a DEF WakeupComing
  <2>5. ~ringValid => ring' = ring
    BY <1>a DEF Enqueue
  <2> QED BY <2>2, <2>3, <2>4, <2>5 DEF Quiet
<1>1. ASSUME NEW f \in Functors, LoopQueue(f) PROVE IndInv'
  <2>1. /\ loopPc \in {"start", "events", "runNode", "runBatch"} /\ Enqueue(f)
        /\ issued' = issued \cup {f}
        /\ ringValid' = ringValid /\ batch' = batch /\ wakeActive' = wakeActive
        /\ quit' = quit /\ calling' = calling /\ loopPc' = loopPc /\ owes' = owes
        /\ callerPc' = callerPc /\ callerFn' = callerFn /\ done' = done
    BY <1>1 DEF LoopQueue, InUserCode
  <2>2. TypeOK'
    BY <1>0, <1>a, <2>1 DEF TypeOK
  <2>3. PlacesOK'
    BY <1>0, <1>a, <2>1 DEF PlacesOK
  <2>4. WakeupOK'
    BY <1>0, <1>a, <2>1 DEF WakeupOK, PlacesOK
  <2> QED BY <2>2, <2>3, <2>4 DEF IndInv
<1>2. CASE QueueCopy
  <2> DEFINE f == IF loopPc = "runNode" THEN Head(ring).item ELSE Head(batch)
  <2>1. /\ owes /\ owes' = FALSE /\ Enqueue(f)
        /\ ringValid' = ringValid /\ batch' = batch /\ wakeActive' = wakeActive
        /\ quit' = quit /\ calling' = calling /\ loopPc' = loopPc /\ issued' = issued
        /\ callerPc' = callerPc /\ callerFn' = callerFn /\ done' = done
    BY <1>2 DEF QueueCopy
  <2>2. loopPc \in {"runNode", "runBatch"}
    BY <1>0, <2>1 DEF PlacesOK
  <2>3. f \in Functors
    <3>1. ASSUME loopPc = "runNode" PROVE Head(ring).item \in Functors
      BY <1>0, <3>1, HeadFacts DEF PlacesOK, TypeOK
    <3>2. ASSUME loopPc = "runBatch" PROVE Head(batch) \in Functors
      BY <1>0, <3>2, SMTT(30) DEF PlacesOK, TypeOK
    <3> QED BY <2>2, <3>1, <3>2
  <2> HIDE DEF f
  <2>4. TypeOK'
    BY <1>0, <1>a, <2>1, <2>3 DEF TypeOK
  <2>5. PlacesOK'
    BY <1>0, <1>a, <2>1, <2>3 DEF PlacesOK
  <2>6. WakeupOK'
    BY <1>0, <1>a, <2>1, <2>2, <2>3 DEF WakeupOK, PlacesOK
  <2> QED BY <2>4, <2>5, <2>6 DEF IndInv
<1>3. CASE LoopQuit
  <2>1. /\ loopPc \in {"start", "events", "runNode", "runBatch"} /\ quit' = TRUE
        /\ ring' = ring /\ fallback' = fallback /\ callerPc' = callerPc /\ callerFn' = callerFn
        /\ UNCHANGED <<ringValid, batch, wakeReadable, wakeActive, calling, loopPc,
                       owes, issued, done, primed>>
    BY <1>3 DEF LoopQuit, InUserCode
  <2>2. TypeOK' /\ PlacesOK'
    BY <1>0, <2>1, SMTT(30) DEF TypeOK, PlacesOK, Ring!HeadReady
  <2>3. WakeupOK'
    BY <1>0, <2>1 DEF WakeupOK, Quiet, WakeupComing, Ring!HeadReady
  <2> QED BY <2>2, <2>3 DEF IndInv
<1>4. CASE LoopStart \/ CheckQuit
  <2>1. /\ \/ loopPc = "start" /\ loopPc' = "check"
           \/ loopPc = "check" /\ loopPc' = IF quit THEN "exited" ELSE "poll"
        /\ ring' = ring /\ fallback' = fallback /\ callerPc' = callerPc /\ callerFn' = callerFn
        /\ UNCHANGED <<ringValid, batch, wakeReadable, wakeActive, quit, calling,
                       owes, issued, done, primed>>
    BY <1>4 DEF LoopStart, CheckQuit
  <2>2. TypeOK' /\ PlacesOK'
    BY <1>0, <2>1 DEF TypeOK, PlacesOK, Ring!HeadReady
  <2>3. WakeupOK'
    BY <1>0, <2>1 DEF WakeupOK, Quiet, WakeupComing, Ring!HeadReady
  <2> QED BY <2>2, <2>3 DEF IndInv
<1>5. CASE PollReturn
  <2>1. /\ loopPc = "poll" /\ loopPc' = "events" /\ wakeActive' = wakeReadable
        /\ ring' = ring /\ fallback' = fallback /\ callerPc' = callerPc /\ callerFn' = callerFn
        /\ UNCHANGED <<ringValid, batch, wakeReadable, quit, calling, owes, issued, done, primed>>
    BY <1>5 DEF PollReturn
  <2>2. TypeOK' /\ PlacesOK' /\ WakeupOK'
    BY <1>0, <2>1 DEF TypeOK, PlacesOK, WakeupOK, Ring!HeadReady
  <2> QED BY <2>2 DEF IndInv
<1>6. CASE HandleRead \/ EndEvents
  <2>1. /\ loopPc = "events" /\ loopPc' \in {"events", "drain"}
        /\ ring' = ring /\ fallback' = fallback /\ callerPc' = callerPc /\ callerFn' = callerFn
        /\ UNCHANGED <<ringValid, batch, quit, owes, issued, done>>
        /\ wakeReadable' \in BOOLEAN /\ wakeActive' \in BOOLEAN /\ primed' \in BOOLEAN
        /\ calling' \in BOOLEAN /\ (loopPc' = "drain" => calling')
    BY <1>0, <1>6 DEF HandleRead, EndEvents, TypeOK
  <2>2. TypeOK' /\ PlacesOK' /\ WakeupOK'
    BY <1>0, <2>1 DEF TypeOK, PlacesOK, WakeupOK, Ring!HeadReady
  <2> QED BY <2>2 DEF IndInv
<1>7. CASE PeekNode \/ EnterBatched
  <2>1. /\ \/ loopPc = "drain" /\ loopPc' = "runNode" /\ Ring!HeadReady
           \/ loopPc = "batch" /\ loopPc' = "runBatch" /\ batch # <<>>
        /\ ring' = ring /\ fallback' = fallback /\ callerPc' = callerPc /\ callerFn' = callerFn
        /\ UNCHANGED <<ringValid, batch, wakeReadable, wakeActive, quit, calling,
                       issued, done, primed>>
    BY <1>7 DEF PeekNode, EnterBatched
  <2>a. owes' \in BOOLEAN
    <3>1. ASSUME NEW x PROVE (x \in Recurring) \in BOOLEAN
      BY SMTT(30)
    <3>2. CASE PeekNode
      BY <3>1, <3>2 DEF PeekNode
    <3>3. CASE EnterBatched
      BY <3>1, <3>3 DEF EnterBatched
    <3> QED BY <1>7, <3>2, <3>3
  <2>2. TypeOK' /\ PlacesOK'
    BY <1>0, <2>1, <2>a DEF TypeOK, PlacesOK, Ring!HeadReady
  <2>3. WakeupOK'
    BY <1>0, <2>1 DEF WakeupOK, Quiet, WakeupComing, Ring!HeadReady
  <2> QED BY <2>2, <2>3 DEF IndInv
<1>8. CASE ConsumeNode
  <2>1. /\ ~owes /\ loopPc = "runNode" /\ loopPc' = "drain" /\ Ring!HeadReady
        /\ ring' = Tail(ring) /\ done' = done \cup {Head(ring).item}
        /\ fallback' = fallback /\ callerPc' = callerPc /\ callerFn' = callerFn
        /\ UNCHANGED <<ringValid, batch, wakeReadable, wakeActive, quit, calling,
                       owes, issued, primed>>
    BY <1>8 DEF ConsumeNode, Ring!Consume
  <2>2. Head(ring).item \in Functors /\ ring' \in Seq(Ring!Node)
    BY <1>0, <2>1, HeadFacts DEF TypeOK
  <2>3. TypeOK' /\ PlacesOK' /\ WakeupOK'
    BY <1>0, <2>1, <2>2, SMTT(30) DEF TypeOK, PlacesOK, WakeupOK
  <2> QED BY <2>3 DEF IndInv
<1>9. CASE DrainEnds
  <2>1. /\ ~(ringValid /\ Ring!HeadReady) /\ loopPc = "drain" /\ loopPc' = "swap"
        /\ ring' = ring /\ fallback' = fallback /\ callerPc' = callerPc /\ callerFn' = callerFn
        /\ UNCHANGED <<ringValid, batch, wakeReadable, wakeActive, quit, calling,
                       owes, issued, done, primed>>
    BY <1>9 DEF DrainEnds
  <2>2. TypeOK' /\ PlacesOK'
    BY <1>0, <2>1 DEF TypeOK, PlacesOK, Ring!HeadReady
  <2>3. ~Ring!HeadReady'
    BY <1>0, <2>1 DEF PlacesOK, Ring!HeadReady
  <2>4. WakeupOK'
    BY <2>1, <2>3 DEF WakeupOK
  <2> QED BY <2>2, <2>4 DEF IndInv
<1>10. CASE SwapFallback
  <2>1. /\ loopPc = "swap" /\ loopPc' = "batch" /\ batch' = fallback /\ fallback' = <<>>
        /\ ring' = ring /\ callerPc' = callerPc /\ callerFn' = callerFn
        /\ UNCHANGED <<ringValid, wakeReadable, wakeActive, quit, calling,
                       owes, issued, done, primed>>
    BY <1>10 DEF SwapFallback
  <2>2. TypeOK' /\ PlacesOK'
    BY <1>0, <2>1, SMTT(30) DEF TypeOK, PlacesOK, Ring!HeadReady
  <2>3. WakeupOK'
    BY <1>0, <2>1 DEF WakeupOK, Quiet, WakeupComing, Ring!HeadReady
  <2> QED BY <2>2, <2>3 DEF IndInv
<1>11. CASE LeaveBatched \/ PendingDone
  <2>1. /\ \/ /\ loopPc = "runBatch" /\ loopPc' = "batch" /\ ~owes /\ batch' = Tail(batch)
              /\ done' = done \cup {Head(batch)} /\ calling' = calling
           \/ /\ loopPc = "batch" /\ loopPc' = "check" /\ batch' = batch /\ done' = done
              /\ calling' = FALSE
        /\ ring' = ring /\ fallback' = fallback /\ callerPc' = callerPc /\ callerFn' = callerFn
        /\ UNCHANGED <<ringValid, wakeReadable, wakeActive, quit, owes, issued, primed>>
    BY <1>11 DEF LeaveBatched, PendingDone
  <2>2. batch' \in Seq(Functors) /\ done' \subseteq Functors
    <3>1. batch \in Seq(Functors) /\ done \subseteq Functors /\ (loopPc = "runBatch" => batch # <<>>)
      BY <1>0 DEF TypeOK, PlacesOK
    <3>2. CASE loopPc = "runBatch"
      <4>1. Head(batch) \in Functors /\ Tail(batch) \in Seq(Functors)
        BY <3>1, <3>2, SMTT(30)
      <4> QED BY <2>1, <3>1, <3>2, <4>1
    <3>3. CASE loopPc # "runBatch"
      BY <2>1, <3>1, <3>3
    <3> QED BY <3>2, <3>3
  <2>3. TypeOK' /\ PlacesOK'
    BY <1>0, <2>1, <2>2 DEF TypeOK, PlacesOK, Ring!HeadReady
  <2>4. WakeupOK'
    BY <1>0, <2>1 DEF WakeupOK, Quiet, WakeupComing, Ring!HeadReady
  <2> QED BY <2>3, <2>4 DEF IndInv
<1> QED
  BY <1>1, <1>2, <1>3, <1>4, <1>5, <1>6, <1>7, <1>8, <1>9, <1>10, <1>11
     DEF Loop, Progress, PollWoken, PollOther

\* The invariant holds throughout.
THEOREM IndInvHolds == Spec => []IndInv
<1>1. IndInv /\ [Next]_vars => IndInv'
  <2> SUFFICES ASSUME IndInv, [Next]_vars PROVE IndInv'
    OBVIOUS
  <2>1. CASE Loop
    BY <2>1, LoopStep
  <2>2. ASSUME NEW c \in Callers, Caller(c) PROVE IndInv'
    BY <2>2, CallerStep
  <2>3. CASE UNCHANGED vars
    <3> USE DEF IndInv, vars, queueVars, callerVars, Ring!HeadReady
    <3>1. TypeOK' /\ PlacesOK'
      BY <2>3, SMTT(30) DEF TypeOK, PlacesOK
    <3>2. WakeupOK'
      BY <2>3 DEF WakeupOK, Quiet, WakeupComing
    <3> QED BY <3>1, <3>2
  <2> QED BY <2>1, <2>2, <2>3 DEF Next
<1> QED BY <1>1, InitIndInv, PTL DEF Spec

\* queueInLoop(), quit(): the loop thread never sleeps on a functor it could run,
\* or through quit(), without a wakeup on its way.
THEOREM NoLostWakeupHolds == Spec => []NoLostWakeup
<1>1. IndInv => NoLostWakeup
  BY DEF IndInv, WakeupOK, NoLostWakeup, Runnable, Quiet
<1> QED BY <1>1, IndInvHolds, PTL

-----------------------------------------------------------------------------
(* HeldOnce.                                                               *)

\* A sequence has one element more: so has the set of places, or is the same.
LEMMA OneMore ==
    ASSUME NEW n \in Nat, NEW S \in SUBSET (1..n), NEW T \in SUBSET (1..(n + 1)),
           \A i \in 1..n : i \in T <=> i \in S
    PROVE  /\ Cardinality(S) \in Nat
           /\ Cardinality(T) = Cardinality(S) + IF n + 1 \in T THEN 1 ELSE 0
<1>1. IsFiniteSet(S)
  <2>1. IsFiniteSet(1..n)
    BY FS_Interval, SMTT(30)
  <2> QED BY <2>1, FS_Subset
<1>2. Cardinality(S) \in Nat
  BY <1>1, FS_CardinalityType
<1>a. n + 1 \notin 1..n /\ \A i \in 1..(n + 1) : i \in 1..n \/ i = n + 1
  BY SMTT(30)
<1>3. CASE n + 1 \in T
  <2>1. T = S \cup {n + 1} /\ n + 1 \notin S
    BY <1>3, <1>a
  <2> QED BY <1>1, <1>2, <1>3, <2>1, FS_AddElement
<1>4. CASE n + 1 \notin T
  <2>1. \A i \in T : i \in S
    BY <1>4, <1>a
  <2>2. \A i \in S : i \in T
    BY <1>a
  <2>3. T = S
    BY <2>1, <2>2
  <2> QED BY <1>2, <1>4, <2>3, SMTT(30)
<1> QED BY <1>2, <1>3, <1>4

\* A sequence has lost its head.
Shifted(n, m, S, T) ==
    /\ n \in Nat /\ m \in Nat /\ n = m + 1 /\ S \in SUBSET (1..n) /\ T \in SUBSET (1..m)
    /\ \A i \in 1..m : i \in T <=> i + 1 \in S

LEMMA OneLess ==
    ASSUME NEW n, NEW m, NEW S, NEW T, Shifted(n, m, S, T)
    PROVE  /\ Cardinality(S) \in Nat /\ Cardinality(T) \in Nat
           /\ Cardinality(S) = Cardinality(T) + IF 1 \in S THEN 1 ELSE 0
<1>0. /\ n \in Nat /\ m \in Nat /\ n = m + 1 /\ S \in SUBSET (1..n) /\ T \in SUBSET (1..m)
      /\ \A i \in 1..m : i \in T <=> i + 1 \in S
  BY DEF Shifted
<1>1. IsFiniteSet(S) /\ IsFiniteSet(T)
  <2>1. IsFiniteSet(1..n) /\ IsFiniteSet(1..m)
    BY <1>0, FS_Interval, SMTT(30)
  <2> QED BY <1>0, <2>1, FS_Subset
<1>2. Cardinality(S) \in Nat /\ Cardinality(T) \in Nat
  BY <1>1, FS_CardinalityType
<1> DEFINE U == S \ {1}
           next == [i \in T |-> i + 1]
<1>3. Cardinality(U) = Cardinality(T)
  <2>1. next \in [T -> U]
    BY <1>0, SMTT(30) DEF next
  <2>2. \A i, j \in T : next[i] = next[j] => i = j
    BY <1>0, SMTT(30) DEF next
  <2>3. ASSUME NEW j \in U PROVE \E i \in T : next[i] = j
    <3>1. j - 1 \in T /\ (j - 1) + 1 = j
      BY <1>0, <2>3, SMTT(30)
    <3> QED BY <3>1 DEF next
  <2>4. next \in Bijection(T, U)
    <3> HIDE DEF next, U
    <3> QED BY <2>1, <2>2, <2>3 DEF Bijection, Injection, Surjection, IsInjective
  <2> QED BY <1>1, <2>4, FS_Bijection DEF ExistsBijection
<1> HIDE DEF U
<1>4. CASE 1 \in S
  <2>1. S = U \cup {1} /\ 1 \notin U
    BY <1>4 DEF U
  <2>2. IsFiniteSet(U)
    BY <1>1, FS_RemoveElement DEF U
  <2> QED BY <1>2, <1>3, <1>4, <2>1, <2>2, FS_AddElement
<1>5. CASE 1 \notin S
  <2>1. S = U
    BY <1>5 DEF U
  <2> QED BY <1>2, <1>3, <1>5, <2>1, SMTT(30)
<1> QED BY <1>2, <1>4, <1>5

\* Where a functor is, in a sequence of functors and in the ring.
At(s, f) == {i \in DOMAIN s : s[i] = f}
InRing(r, f) == {i \in DOMAIN r : r[i].item = f}
Waiting(f) == {c \in Callers : callerPc[c] = "reserve" /\ callerFn[c] = f}

LEMMA AtCounts ==
    ASSUME NEW s \in Seq(Functors), NEW f
    PROVE  /\ Cardinality(At(s, f)) \in Nat
           /\ s = <<>> => Cardinality(At(s, f)) = 0
           /\ \A x \in Functors : Cardinality(At(Append(s, x), f)) = Cardinality(At(s, f)) + IF x = f THEN 1 ELSE 0
           /\ s # <<>> => /\ Cardinality(At(Tail(s), f)) \in Nat
                          /\ Cardinality(At(s, f)) = Cardinality(At(Tail(s), f)) + IF Head(s) = f THEN 1 ELSE 0
<1>1. Len(s) \in Nat /\ DOMAIN s = 1..Len(s)
  BY SMTT(30)
<1>2. ASSUME NEW x \in Functors
      PROVE  /\ Cardinality(At(s, f)) \in Nat
             /\ Cardinality(At(Append(s, x), f)) = Cardinality(At(s, f)) + IF x = f THEN 1 ELSE 0
  <2>1. /\ DOMAIN Append(s, x) = 1..(Len(s) + 1) /\ Append(s, x)[Len(s) + 1] = x
        /\ \A i \in 1..Len(s) : Append(s, x)[i] = s[i]
    BY AppendFacts, SMTT(30)
  <2>2. /\ At(s, f) \in SUBSET (1..Len(s)) /\ At(Append(s, x), f) \in SUBSET (1..(Len(s) + 1))
        /\ \A i \in 1..Len(s) : i \in At(Append(s, x), f) <=> i \in At(s, f)
        /\ Len(s) + 1 \in At(Append(s, x), f) <=> x = f
    BY <1>1, <2>1, SMTT(30) DEF At
  <2> QED BY <1>1, <2>2, OneMore
<1>3. Cardinality(At(s, f)) \in Nat
  <2>1. At(s, f) \in SUBSET (1..Len(s)) /\ IsFiniteSet(1..Len(s))
    BY <1>1, FS_Interval, SMTT(30) DEF At
  <2> QED BY <2>1, FS_Subset, FS_CardinalityType
<1>4. ASSUME s = <<>> PROVE Cardinality(At(s, f)) = 0
  <2>1. At(s, f) = {}
    BY <1>4, SMTT(30) DEF At
  <2> QED BY <2>1, FS_EmptySet
<1>5. ASSUME s # <<>>
      PROVE  /\ Cardinality(At(Tail(s), f)) \in Nat
             /\ Cardinality(At(s, f)) = Cardinality(At(Tail(s), f)) + IF Head(s) = f THEN 1 ELSE 0
  <2>1. /\ Len(s) \in Nat \ {0} /\ DOMAIN Tail(s) = 1..(Len(s) - 1) /\ Head(s) = s[1]
        /\ \A i \in 1..(Len(s) - 1) : Tail(s)[i] = s[i + 1]
    BY <1>5, TailFacts, SMTT(30)
  <2>2. /\ At(s, f) \in SUBSET (1..Len(s)) /\ At(Tail(s), f) \in SUBSET (1..(Len(s) - 1))
        /\ \A i \in 1..(Len(s) - 1) : i \in At(Tail(s), f) <=> i + 1 \in At(s, f)
    BY <1>1, <2>1, SMTT(30) DEF At
  <2>3. 1 \in At(s, f) <=> Head(s) = f
    BY <1>1, <2>1, SMTT(30) DEF At
  <2>4. PICK S, T, n, m : S = At(s, f) /\ T = At(Tail(s), f) /\ n = Len(s) /\ m = Len(s) - 1
    OBVIOUS
  <2>5. Shifted(n, m, S, T)
    BY <2>1, <2>2, <2>4, SMTT(30) DEF Shifted
  <2>6. /\ Cardinality(S) \in Nat /\ Cardinality(T) \in Nat
        /\ Cardinality(S) = Cardinality(T) + IF 1 \in S THEN 1 ELSE 0
    BY <2>5, OneLess
  <2> QED BY <2>3, <2>4, <2>6
<1> QED BY <1>2, <1>3, <1>4, <1>5

\* The ring holds the functors of its nodes.
LEMMA RingCounts ==
    ASSUME NEW r \in Seq(Ring!Node), NEW f
    PROVE  /\ Cardinality(InRing(r, f)) \in Nat
           /\ r = <<>> => Cardinality(InRing(r, f)) = 0
           /\ \A n \in Ring!Node :
                 Cardinality(InRing(Append(r, n), f)) = Cardinality(InRing(r, f)) + IF n.item = f THEN 1 ELSE 0
           /\ r # <<>> => /\ Cardinality(InRing(Tail(r), f)) \in Nat
                          /\ Cardinality(InRing(r, f)) = Cardinality(InRing(Tail(r), f))
                                                         + IF Head(r).item = f THEN 1 ELSE 0
<1>1. Len(r) \in Nat /\ DOMAIN r = 1..Len(r)
  BY SMTT(30)
<1>2. ASSUME NEW n \in Ring!Node
      PROVE  Cardinality(InRing(Append(r, n), f)) = Cardinality(InRing(r, f)) + IF n.item = f THEN 1 ELSE 0
  <2>1. /\ DOMAIN Append(r, n) = 1..(Len(r) + 1) /\ Append(r, n)[Len(r) + 1] = n
        /\ \A i \in 1..Len(r) : Append(r, n)[i] = r[i]
    BY AppendFacts, SMTT(30)
  <2>2. /\ InRing(r, f) \in SUBSET (1..Len(r)) /\ InRing(Append(r, n), f) \in SUBSET (1..(Len(r) + 1))
        /\ \A i \in 1..Len(r) : i \in InRing(Append(r, n), f) <=> i \in InRing(r, f)
        /\ Len(r) + 1 \in InRing(Append(r, n), f) <=> n.item = f
    BY <1>1, <2>1, SMTT(30) DEF InRing
  <2> QED BY <1>1, <2>2, OneMore
<1>3. Cardinality(InRing(r, f)) \in Nat
  <2>1. InRing(r, f) \in SUBSET (1..Len(r)) /\ IsFiniteSet(1..Len(r))
    BY <1>1, FS_Interval, SMTT(30) DEF InRing
  <2> QED BY <2>1, FS_Subset, FS_CardinalityType
<1>4. ASSUME r = <<>> PROVE Cardinality(InRing(r, f)) = 0
  <2>1. InRing(r, f) = {}
    BY <1>4, SMTT(30) DEF InRing
  <2> QED BY <2>1, FS_EmptySet
<1>5. ASSUME r # <<>>
      PROVE  /\ Cardinality(InRing(Tail(r), f)) \in Nat
             /\ Cardinality(InRing(r, f)) = Cardinality(InRing(Tail(r), f)) + IF Head(r).item = f THEN 1 ELSE 0
  <2>1. /\ Len(r) \in Nat \ {0} /\ DOMAIN Tail(r) = 1..(Len(r) - 1) /\ Head(r) = r[1]
        /\ \A i \in 1..(Len(r) - 1) : Tail(r)[i] = r[i + 1]
    BY <1>5, TailFacts, SMTT(30)
  <2>2. /\ InRing(r, f) \in SUBSET (1..Len(r)) /\ InRing(Tail(r), f) \in SUBSET (1..(Len(r) - 1))
        /\ \A i \in 1..(Len(r) - 1) : i \in InRing(Tail(r), f) <=> i + 1 \in InRing(r, f)
    BY <1>1, <2>1, SMTT(30) DEF InRing
  <2>3. 1 \in InRing(r, f) <=> Head(r).item = f
    BY <1>1, <2>1, SMTT(30) DEF InRing
  <2>4. PICK S, T, n, m : S = InRing(r, f) /\ T = InRing(Tail(r), f) /\ n = Len(r) /\ m = Len(r) - 1
    OBVIOUS
  <2>5. Shifted(n, m, S, T)
    BY <2>1, <2>2, <2>4, SMTT(30) DEF Shifted
  <2>6. /\ Cardinality(S) \in Nat /\ Cardinality(T) \in Nat
        /\ Cardinality(S) = Cardinality(T) + IF 1 \in S THEN 1 ELSE 0
    BY <2>5, OneLess
  <2> QED BY <2>3, <2>4, <2>6
<1> QED BY <1>2, <1>3, <1>4, <1>5

\* One functor is held once, and the threads about to queue it are finitely many.
Held(f) ==
    /\ IsFiniteSet(Waiting(f))
    /\ Copies(f) = IF f \in issued \ done THEN 1 ELSE 0
    /\ f \in done => f \in issued

\* HeldInv without the count.
RunsOK ==
    /\ loopPc \notin {"batch", "runBatch"} => batch = <<>>
    /\ owes => (IF loopPc = "runNode" THEN Head(ring).item ELSE Head(batch)) \in Recurring

\* The four counts are numbers.
LEMMA CountTypes ==
    ASSUME TypeOK, NEW f, IsFiniteSet(Waiting(f))
    PROVE  /\ Copies(f) = Cardinality(Waiting(f)) + Cardinality(InRing(ring, f))
                          + Cardinality(At(fallback, f)) + Cardinality(At(batch, f))
           /\ Cardinality(Waiting(f)) \in Nat /\ Cardinality(InRing(ring, f)) \in Nat
           /\ Cardinality(At(fallback, f)) \in Nat /\ Cardinality(At(batch, f)) \in Nat
<1>1. ring \in Seq(Ring!Node) /\ fallback \in Seq(Functors) /\ batch \in Seq(Functors)
  BY DEF TypeOK
<1>2. Cardinality(Waiting(f)) \in Nat
  BY FS_CardinalityType
<1>3. Cardinality(InRing(ring, f)) \in Nat
  BY <1>1, RingCounts
<1>4. Cardinality(At(fallback, f)) \in Nat /\ Cardinality(At(batch, f)) \in Nat
  BY <1>1, AtCounts
<1> QED BY <1>2, <1>3, <1>4 DEF Copies, Waiting, InRing, At

\* A thread leaves the place where it holds its functor.
LEMMA WaitingMoves ==
    ASSUME TypeOK, NEW f, NEW c \in Callers, IsFiniteSet(Waiting(f)),
           callerPc[c] = "reserve", NEW pc \in {"commit", "wake"},
           callerPc' = [callerPc EXCEPT ![c] = pc],
           \A d \in Callers \ {c} : callerFn'[d] = callerFn[d]
    PROVE  /\ IsFiniteSet(Waiting(f)')
           /\ Cardinality(Waiting(f)) \in Nat /\ Cardinality(Waiting(f)') \in Nat
           /\ Cardinality(Waiting(f)) = Cardinality(Waiting(f)') + IF callerFn[c] = f THEN 1 ELSE 0
<1>1. Waiting(f)' = Waiting(f) \ {c}
  BY DEF Waiting, TypeOK
<1>2. IsFiniteSet(Waiting(f)') /\ Cardinality(Waiting(f)) \in Nat /\ Cardinality(Waiting(f)') \in Nat
  BY <1>1, FS_RemoveElement, FS_CardinalityType, SMTT(30)
<1>3. c \in Waiting(f) <=> callerFn[c] = f
  BY DEF Waiting
<1> QED BY <1>1, <1>2, <1>3, FS_RemoveElement, SMTT(30)

\* A functor that no step touches stays where it is.
LEMMA Untouched ==
    ASSUME NEW f, Held(f), TypeOK, TypeOK',
           Waiting(f)' = Waiting(f), InRing(ring, f)' = InRing(ring, f),
           fallback' = fallback, batch' = batch, issued' = issued, done' = done
    PROVE  Held(f)'
<1>1. /\ IsFiniteSet(Waiting(f)) /\ Copies(f) = (IF f \in issued \ done THEN 1 ELSE 0)
      /\ f \in done => f \in issued
  BY DEF Held
<1>2. Copies(f)' = Copies(f)
  BY DEF Copies, Waiting, InRing
<1> QED BY <1>1, <1>2 DEF Held


\* A thread takes up a functor, and puts it into the ring or the vector.
LEMMA CallerHeld ==
    ASSUME TypeOK, TypeOK', PlacesOK, NEW f \in Functors, Held(f), NEW c \in Callers, Caller(c)
    PROVE  Held(f)'
<1> USE DEF CallerGoto, queueVars, callerVars
<1>0. /\ IsFiniteSet(Waiting(f)) /\ Copies(f) = (IF f \in issued \ done THEN 1 ELSE 0)
      /\ f \in done => f \in issued
      /\ ring \in Seq(Ring!Node) /\ fallback \in Seq(Functors) /\ batch \in Seq(Functors)
      /\ callerPc \in [Callers -> {"idle", "reserve", "commit", "wake"}]
      /\ callerFn \in [Callers -> Functors \cup {None}]
  BY DEF Held, TypeOK
<1>a. /\ Copies(f) = Cardinality(Waiting(f)) + Cardinality(InRing(ring, f))
                     + Cardinality(At(fallback, f)) + Cardinality(At(batch, f))
      /\ Cardinality(Waiting(f)) \in Nat /\ Cardinality(InRing(ring, f)) \in Nat
      /\ Cardinality(At(fallback, f)) \in Nat /\ Cardinality(At(batch, f)) \in Nat
  BY <1>0, CountTypes
<1>1. ASSUME NEW g \in Functors, Call(c, g) PROVE Held(f)'
  <2>1. /\ g \notin issued /\ callerPc[c] = "idle" /\ callerPc' = [callerPc EXCEPT ![c] = "reserve"]
        /\ callerFn' = [callerFn EXCEPT ![c] = g] /\ issued' = issued \cup {g}
        /\ ring' = ring /\ fallback' = fallback /\ batch' = batch /\ done' = done
    BY <1>1 DEF Call
  <2>2. CASE g = f
    <3>1. Waiting(f)' = Waiting(f) \cup {c} /\ c \notin Waiting(f)
      BY <1>0, <2>1, <2>2 DEF Waiting
    <3>2. IsFiniteSet(Waiting(f)') /\ Cardinality(Waiting(f)') = Cardinality(Waiting(f)) + 1
      BY <1>0, <3>1, FS_AddElement, SMTT(30)
    <3>3. f \notin issued /\ f \notin done /\ f \in issued'
      BY <1>0, <2>1, <2>2
    <3>4. Copies(f)' = 1
      <4>1. Copies(f)' = Cardinality(Waiting(f)') + Cardinality(InRing(ring, f))
                         + Cardinality(At(fallback, f)) + Cardinality(At(batch, f))
        BY <2>1 DEF Copies, Waiting, InRing, At
      <4> QED BY <1>0, <1>a, <3>2, <3>3, <4>1, SMTT(30)
    <3> QED BY <2>1, <3>2, <3>3, <3>4 DEF Held
  <2>3. CASE g # f
    <3>1. Waiting(f)' = Waiting(f)
      BY <1>0, <2>1, <2>3 DEF Waiting
    <3>2. Copies(f)' = Copies(f)
      BY <2>1, <3>1 DEF Copies, Waiting
    <3> QED BY <1>0, <2>1, <2>3, <3>1, <3>2 DEF Held
  <2> QED BY <2>2, <2>3
<1>2. CASE ReserveNode(c)
  <2> DEFINE n == [item |-> callerFn[c], ready |-> FALSE]
  <2>1. /\ callerPc[c] = "reserve" /\ callerPc' = [callerPc EXCEPT ![c] = "commit"]
        /\ ring' = Append(ring, n)
        /\ UNCHANGED <<fallback, batch, callerFn, issued, done>>
    BY <1>2 DEF ReserveNode, Ring!Reserve
  <2>2. n \in Ring!Node /\ n.item = callerFn[c]
    BY <2>1 DEF PlacesOK, Ring!Node
  <2> HIDE DEF n
  <2>3. Cardinality(InRing(ring', f)) = Cardinality(InRing(ring, f)) + IF callerFn[c] = f THEN 1 ELSE 0
    BY <1>0, <2>1, <2>2, RingCounts, SMTT(30)
  <2>4. /\ IsFiniteSet(Waiting(f)') /\ Cardinality(Waiting(f)') \in Nat
        /\ Cardinality(Waiting(f)) = Cardinality(Waiting(f)') + IF callerFn[c] = f THEN 1 ELSE 0
    BY <1>0, <2>1, WaitingMoves
  <2>5. Copies(f)' = Copies(f)
    <3>1. Copies(f)' = Cardinality(Waiting(f)') + Cardinality(InRing(ring', f))
                       + Cardinality(At(fallback, f)) + Cardinality(At(batch, f))
      BY <2>1 DEF Copies, Waiting, InRing, At
    <3> QED BY <1>a, <2>3, <2>4, <3>1, SMTT(30)
  <2> QED BY <1>0, <2>1, <2>4, <2>5 DEF Held
<1>3. CASE PushFallback(c)
  <2>1. /\ callerPc[c] = "reserve" /\ callerPc' = [callerPc EXCEPT ![c] = "wake"]
        /\ fallback' = Append(fallback, callerFn[c]) /\ callerFn' = [callerFn EXCEPT ![c] = None]
        /\ UNCHANGED <<ring, batch, issued, done>>
    BY <1>3 DEF PushFallback
  <2>2. callerFn[c] \in Functors
    BY <2>1 DEF PlacesOK
  <2>3. Cardinality(At(fallback', f)) = Cardinality(At(fallback, f)) + IF callerFn[c] = f THEN 1 ELSE 0
    BY <1>0, <2>1, <2>2, AtCounts
  <2>4. /\ IsFiniteSet(Waiting(f)') /\ Cardinality(Waiting(f)') \in Nat
        /\ Cardinality(Waiting(f)) = Cardinality(Waiting(f)') + IF callerFn[c] = f THEN 1 ELSE 0
    <3>1. \A d \in Callers \ {c} : callerFn'[d] = callerFn[d]
      BY <1>0, <2>1
    <3> QED BY <1>0, <2>1, <3>1, WaitingMoves
  <2>5. Copies(f)' = Copies(f)
    <3>1. Copies(f)' = Cardinality(Waiting(f)') + Cardinality(InRing(ring, f))
                       + Cardinality(At(fallback', f)) + Cardinality(At(batch, f))
      BY <2>1 DEF Copies, Waiting, InRing, At
    <3> QED BY <1>a, <2>3, <2>4, <3>1, SMTT(30)
  <2> QED BY <1>0, <2>1, <2>4, <2>5 DEF Held
<1>4. CASE CommitNode(c)
  <2>1. /\ callerPc[c] = "commit" /\ callerPc' = [callerPc EXCEPT ![c] = "wake"]
        /\ Ring!Commit(callerFn[c]) /\ callerFn' = [callerFn EXCEPT ![c] = None]
        /\ UNCHANGED <<fallback, batch, issued, done>>
    BY <1>4 DEF CommitNode
  <2>2. Waiting(f)' = Waiting(f)
    BY <1>0, <2>1 DEF Waiting
  <2>3. InRing(ring, f)' = InRing(ring, f)
    BY <1>0, <2>1, SMTT(30) DEF InRing, Ring!Commit
  <2> QED BY <2>1, <2>2, <2>3, Untouched
<1>5. CASE QuitStore(c) \/ Wakeup(c)
  <2>1. /\ callerPc[c] \in {"idle", "wake"} /\ \E pc \in {"idle", "wake"} : callerPc' = [callerPc EXCEPT ![c] = pc]
        /\ UNCHANGED <<ring, fallback, batch, callerFn, issued, done>>
    BY <1>5 DEF QuitStore, Wakeup
  <2>2. Waiting(f)' = Waiting(f) /\ InRing(ring, f)' = InRing(ring, f)
    BY <1>0, <2>1 DEF Waiting, InRing
  <2> QED BY <2>1, <2>2, Untouched
<1> QED BY <1>1, <1>2, <1>3, <1>4, <1>5 DEF Caller, CallerFinish

\* queueInLoop() on the loop thread adds one functor to one of the queues.
LEMMA EnqueueCounts ==
    ASSUME TypeOK, NEW f, NEW g \in Functors, Enqueue(g)
    PROVE  /\ Cardinality(InRing(ring', f)) \in Nat /\ Cardinality(At(fallback', f)) \in Nat
           /\ Cardinality(InRing(ring', f)) + Cardinality(At(fallback', f))
              = Cardinality(InRing(ring, f)) + Cardinality(At(fallback, f)) + IF g = f THEN 1 ELSE 0
           /\ ring # <<>> => Head(ring') = Head(ring)
<1>0. ring \in Seq(Ring!Node) /\ fallback \in Seq(Functors)
  BY DEF TypeOK
<1>1. Cardinality(InRing(ring, f)) \in Nat /\ Cardinality(At(fallback, f)) \in Nat
  BY <1>0, RingCounts, AtCounts
<1> DEFINE n == [item |-> g, ready |-> TRUE]
<1>2. n \in Ring!Node /\ n.item = g
  BY DEF Ring!Node
<1>3. \/ ring' = Append(ring, n) /\ fallback' = fallback
      \/ ring' = ring /\ fallback' = Append(fallback, g)
  BY DEF Enqueue
<1> HIDE DEF n
<1>4. CASE ring' = Append(ring, n) /\ fallback' = fallback
  <2>1. Cardinality(InRing(ring', f)) = Cardinality(InRing(ring, f)) + IF g = f THEN 1 ELSE 0
    BY <1>0, <1>2, <1>4, RingCounts
  <2>2. ring # <<>> => Head(ring') = Head(ring)
    BY <1>0, <1>2, <1>4, SMTT(30)
  <2>3. Cardinality(At(fallback', f)) = Cardinality(At(fallback, f))
    BY <1>4
  <2> QED BY <1>1, <2>1, <2>2, <2>3, SMTT(30)
<1>5. CASE ring' = ring /\ fallback' = Append(fallback, g)
  <2>1. Cardinality(At(fallback', f)) = Cardinality(At(fallback, f)) + IF g = f THEN 1 ELSE 0
    BY <1>0, <1>5, AtCounts
  <2>2. Cardinality(InRing(ring', f)) = Cardinality(InRing(ring, f))
    BY <1>5
  <2> QED BY <1>1, <1>5, <2>1, <2>2, SMTT(30)
<1> QED BY <1>3, <1>4, <1>5

\* The loop thread takes a functor in, moves the vector, or is done with a functor.
LEMMA LoopHeld ==
    ASSUME TypeOK, TypeOK', PlacesOK, RunsOK, NEW f \in Functors \ Recurring, Held(f), Loop
    PROVE  Held(f)'
<1> USE DEF LoopGoto, queueVars, callerVars
<1>0. /\ IsFiniteSet(Waiting(f)) /\ Copies(f) = (IF f \in issued \ done THEN 1 ELSE 0)
      /\ f \in done => f \in issued
      /\ ring \in Seq(Ring!Node) /\ fallback \in Seq(Functors) /\ batch \in Seq(Functors)
  BY DEF Held, TypeOK
<1>a. /\ Copies(f) = Cardinality(Waiting(f)) + Cardinality(InRing(ring, f))
                     + Cardinality(At(fallback, f)) + Cardinality(At(batch, f))
      /\ Cardinality(Waiting(f)) \in Nat /\ Cardinality(InRing(ring, f)) \in Nat
      /\ Cardinality(At(fallback, f)) \in Nat /\ Cardinality(At(batch, f)) \in Nat
  BY <1>0, CountTypes
<1>b. ASSUME callerPc' = callerPc, callerFn' = callerFn
      PROVE  /\ Waiting(f)' = Waiting(f)
             /\ Copies(f)' = Cardinality(Waiting(f)) + Cardinality(InRing(ring', f))
                             + Cardinality(At(fallback', f)) + Cardinality(At(batch', f))
  BY <1>b DEF Copies, Waiting, InRing, At
<1>1. ASSUME NEW g \in Functors, LoopQueue(g) PROVE Held(f)'
  <2>1. /\ g \notin issued /\ issued' = issued \cup {g} /\ Enqueue(g)
        /\ callerPc' = callerPc /\ callerFn' = callerFn /\ batch' = batch /\ done' = done
    BY <1>1 DEF LoopQueue
  <2>2. Copies(f)' = Copies(f) + IF g = f THEN 1 ELSE 0
    <3>1. /\ Cardinality(InRing(ring', f)) \in Nat /\ Cardinality(At(fallback', f)) \in Nat
          /\ Cardinality(InRing(ring', f)) + Cardinality(At(fallback', f))
             = Cardinality(InRing(ring, f)) + Cardinality(At(fallback, f)) + IF g = f THEN 1 ELSE 0
      BY <2>1, EnqueueCounts
    <3>2. Copies(f)' = Cardinality(Waiting(f)) + Cardinality(InRing(ring', f))
                       + Cardinality(At(fallback', f)) + Cardinality(At(batch, f))
      BY <1>b, <2>1
    <3> QED BY <1>a, <3>1, <3>2, SMTT(30)
  <2>3. CASE g = f
    BY <1>0, <1>b, <2>1, <2>2, <2>3, SMTT(30) DEF Held
  <2>4. CASE g # f
    <3>1. Copies(f)' = Copies(f)
      BY <1>0, <2>2, <2>4, SMTT(30)
    <3> QED BY <1>0, <1>b, <2>1, <2>4, <3>1 DEF Held
  <2> QED BY <2>3, <2>4
<1>2. CASE QueueCopy
  <2> DEFINE g == IF loopPc = "runNode" THEN Head(ring).item ELSE Head(batch)
  <2>1. /\ owes /\ Enqueue(g) /\ UNCHANGED <<callerPc, callerFn, batch, issued, done>>
    BY <1>2 DEF QueueCopy
  <2>2. g \in Recurring /\ g \in Functors /\ g # f
    BY <2>1, RecurringAssumption DEF RunsOK
  <2> HIDE DEF g
  <2>3. Copies(f)' = Copies(f)
    BY <1>a, <1>b, <2>1, <2>2, EnqueueCounts, SMTT(30)
  <2> QED BY <1>0, <1>b, <2>1, <2>3 DEF Held
<1>3. CASE ConsumeNode
  <2>1. /\ ring # <<>> /\ ring' = Tail(ring) /\ done' = done \cup {Head(ring).item}
        /\ UNCHANGED <<callerPc, callerFn, fallback, batch, issued>>
    BY <1>3 DEF ConsumeNode, Ring!Consume, Ring!HeadReady
  <2>2. /\ Cardinality(InRing(ring', f)) \in Nat
        /\ Cardinality(InRing(ring, f)) = Cardinality(InRing(ring', f)) + IF Head(ring).item = f THEN 1 ELSE 0
    BY <1>0, <2>1, RingCounts
  <2>3. Copies(f) = Copies(f)' + IF Head(ring).item = f THEN 1 ELSE 0
    BY <1>a, <1>b, <2>1, <2>2, SMTT(30)
  <2>4. Copies(f)' \in Nat
    <3>1. Copies(f)' = Cardinality(Waiting(f)) + Cardinality(InRing(ring', f))
                       + Cardinality(At(fallback', f)) + Cardinality(At(batch', f))
      BY <1>b, <2>1
    <3>2. Cardinality(At(fallback', f)) \in Nat /\ Cardinality(At(batch', f)) \in Nat
          /\ Cardinality(InRing(ring', f)) \in Nat
      BY <1>a, <2>1, <2>2
    <3> QED BY <1>a, <3>1, <3>2, SMTT(30)
  <2>5. CASE Head(ring).item = f
    <3>1. f \in issued /\ Copies(f)' = 0 /\ f \in done'
      <4>1. Copies(f) = Copies(f)' + 1
        BY <2>3, <2>5
      <4>2. f \in done'
        BY <2>1, <2>5
      <4> QED BY <1>0, <2>4, <4>1, <4>2, SMTT(30)
    <3> QED BY <1>0, <1>b, <2>1, <3>1 DEF Held
  <2>6. CASE Head(ring).item # f
    <3>1. Copies(f)' = Copies(f) /\ (f \in done' <=> f \in done)
      BY <2>1, <2>3, <2>4, <2>6, SMTT(30)
    <3> QED BY <1>0, <1>b, <2>1, <3>1 DEF Held
  <2> QED BY <2>5, <2>6
<1>4. CASE LeaveBatched
  <2>1. /\ batch # <<>> /\ batch' = Tail(batch) /\ done' = done \cup {Head(batch)}
        /\ UNCHANGED <<callerPc, callerFn, ring, fallback, issued>>
    BY <1>4 DEF LeaveBatched, PlacesOK
  <2>2. /\ Cardinality(At(batch', f)) \in Nat
        /\ Cardinality(At(batch, f)) = Cardinality(At(batch', f)) + IF Head(batch) = f THEN 1 ELSE 0
    BY <1>0, <2>1, AtCounts
  <2>3. Copies(f) = Copies(f)' + IF Head(batch) = f THEN 1 ELSE 0
    BY <1>a, <1>b, <2>1, <2>2, SMTT(30)
  <2>4. Copies(f)' \in Nat
    <3>1. Copies(f)' = Cardinality(Waiting(f)) + Cardinality(InRing(ring', f))
                       + Cardinality(At(fallback', f)) + Cardinality(At(batch', f))
      BY <1>b, <2>1
    <3>2. Cardinality(At(fallback', f)) \in Nat /\ Cardinality(At(batch', f)) \in Nat
          /\ Cardinality(InRing(ring', f)) \in Nat
      BY <1>a, <2>1, <2>2
    <3> QED BY <1>a, <3>1, <3>2, SMTT(30)
  <2>5. CASE Head(batch) = f
    <3>1. f \in issued /\ Copies(f)' = 0 /\ f \in done'
      <4>1. Copies(f) = Copies(f)' + 1
        BY <2>3, <2>5
      <4>2. f \in done'
        BY <2>1, <2>5
      <4> QED BY <1>0, <2>4, <4>1, <4>2, SMTT(30)
    <3> QED BY <1>0, <1>b, <2>1, <3>1 DEF Held
  <2>6. CASE Head(batch) # f
    <3>1. Copies(f)' = Copies(f) /\ (f \in done' <=> f \in done)
      BY <2>1, <2>3, <2>4, <2>6, SMTT(30)
    <3> QED BY <1>0, <1>b, <2>1, <3>1 DEF Held
  <2> QED BY <2>5, <2>6
<1>5. CASE SwapFallback
  <2>1. /\ batch = <<>> /\ batch' = fallback /\ fallback' = <<>>
        /\ UNCHANGED <<callerPc, callerFn, ring, issued, done>>
    BY <1>5 DEF SwapFallback, RunsOK
  <2>2. Cardinality(At(batch, f)) = 0 /\ Cardinality(At(fallback', f)) = 0
    <3>1. fallback' \in Seq(Functors)
      BY DEF TypeOK
    <3> QED BY <1>0, <2>1, <3>1, AtCounts
  <2>3. Copies(f)' = Copies(f)
    BY <1>a, <1>b, <2>1, <2>2, SMTT(30)
  <2> QED BY <1>0, <1>b, <2>1, <2>3 DEF Held
<1>6. CASE LoopStart \/ CheckQuit \/ PollReturn \/ HandleRead \/ EndEvents \/ PeekNode \/ DrainEnds
           \/ EnterBatched \/ PendingDone \/ LoopQuit
  <2>1. UNCHANGED <<callerPc, callerFn, ring, fallback, batch, issued, done>>
    BY <1>6 DEF LoopStart, CheckQuit, PollReturn, HandleRead, EndEvents, PeekNode, DrainEnds,
                EnterBatched, PendingDone, LoopQuit
  <2> QED BY <1>b, <2>1, Untouched
<1> QED BY <1>1, <1>2, <1>3, <1>4, <1>5, <1>6 DEF Loop, Progress, PollWoken, PollOther

\* Nothing but consuming a node changes which functor is at the head of the ring.
LEMMA RunsStep ==
    ASSUME TypeOK, PlacesOK, RunsOK, Next
    PROVE  RunsOK'
<1> USE DEF LoopGoto, CallerGoto, queueVars, callerVars
<1>0. ring \in Seq(Ring!Node) /\ batch \in Seq(Functors) /\ owes \in BOOLEAN
  BY DEF TypeOK
<1>1. ASSUME NEW c \in Callers, Caller(c) PROVE RunsOK'
  <2>1. UNCHANGED <<batch, loopPc, owes>>
    BY <1>1 DEF Caller, CallerFinish, Call, ReserveNode, CommitNode, PushFallback, QuitStore, Wakeup
  <2>2. ASSUME owes, loopPc = "runNode" PROVE Head(ring').item = Head(ring).item
    <3>1. ring # <<>> /\ Head(ring) = ring[1] /\ 1 \in DOMAIN ring
      BY <1>0, <2>2, SMTT(30) DEF PlacesOK, Ring!HeadReady
    <3>2. CASE ring' = ring
      BY <3>2
    <3>3. CASE ReserveNode(c)
      <4> DEFINE n == [item |-> callerFn[c], ready |-> FALSE]
      <4>1. ring' = Append(ring, n) /\ n \in Ring!Node
        BY <3>3 DEF ReserveNode, Ring!Reserve, PlacesOK, Ring!Node
      <4> HIDE DEF n
      <4> QED BY <1>0, <3>1, <4>1, SMTT(30)
    <3>4. CASE CommitNode(c)
      <4>1. callerFn[c] \in Functors
        BY <3>4 DEF CommitNode, PlacesOK
      <4> DEFINE n == [item |-> callerFn[c], ready |-> TRUE]
      <4>2. PICK i \in DOMAIN ring : ring[i].item = callerFn[c] /\ ring' = [ring EXCEPT ![i] = n]
        <5>1. PICK i \in DOMAIN ring : /\ ring[i] = [item |-> callerFn[c], ready |-> FALSE]
                                      /\ ring' = [ring EXCEPT ![i] = n]
          BY <3>4 DEF CommitNode, Ring!Commit
        <5>2. ring[i].item = callerFn[c]
          BY <5>1, SMTT(30)
        <5> QED BY <5>1, <5>2
      <4>3. n \in Ring!Node /\ n.item = callerFn[c]
        BY <4>1 DEF Ring!Node
      <4> HIDE DEF n
      <4>4. ring' \in Seq(Ring!Node) /\ Len(ring') = Len(ring) /\ ring'[1] = IF i = 1 THEN n ELSE ring[1]
        BY <1>0, <3>1, <4>2, <4>3, SMTT(30)
      <4>5. Head(ring') = ring'[1]
        BY <1>0, <3>1, <4>4, SMTT(30)
      <4> QED BY <3>1, <4>2, <4>3, <4>4, <4>5
    <3> QED
      BY <1>1, <3>2, <3>3, <3>4 DEF Caller, CallerFinish, Call, PushFallback, QuitStore, Wakeup
  <2> QED BY <2>1, <2>2 DEF RunsOK
<1>2. CASE Loop
  <2>1. ASSUME NEW g \in Functors, Enqueue(g), UNCHANGED <<batch, loopPc>>, owes' => owes
        PROVE  RunsOK'
    <3>1. loopPc = "runNode" => Head(ring') = Head(ring)
      BY <2>1, EnqueueCounts DEF PlacesOK, Ring!HeadReady
    <3> QED BY <2>1, <3>1 DEF RunsOK
  <2>2. ASSUME NEW g \in Functors, LoopQueue(g) PROVE RunsOK'
    BY <2>1, <2>2 DEF LoopQueue
  <2>3. CASE QueueCopy
    <3> DEFINE g == IF loopPc = "runNode" THEN Head(ring).item ELSE Head(batch)
    <3>1. owes /\ ~owes' /\ Enqueue(g) /\ UNCHANGED <<batch, loopPc>>
      BY <2>3 DEF QueueCopy
    <3>2. g \in Functors
      BY <3>1, RecurringAssumption DEF RunsOK
    <3> HIDE DEF g
    <3> QED BY <2>1, <3>1, <3>2
  <2>4. CASE ConsumeNode \/ LeaveBatched
    <3>1. CASE ConsumeNode
      BY <3>1 DEF ConsumeNode, RunsOK
    <3>2. CASE LeaveBatched
      BY <3>2 DEF LeaveBatched, RunsOK
    <3> QED BY <2>4, <3>1, <3>2
  <2>5. CASE PeekNode \/ EnterBatched
    BY <2>5 DEF PeekNode, EnterBatched, RunsOK
  <2>6. CASE LoopQuit
    BY <2>6 DEF LoopQuit, RunsOK
  <2>7. CASE LoopStart \/ CheckQuit \/ PollReturn \/ HandleRead \/ EndEvents \/ DrainEnds \/ SwapFallback \/ PendingDone
    <3>1. ~owes /\ ~owes'
      BY <2>7, SMTT(30) DEF LoopStart, CheckQuit, PollReturn, HandleRead, EndEvents, DrainEnds, SwapFallback, PendingDone, PlacesOK
    <3>2. loopPc' \notin {"batch", "runBatch"} => batch' = <<>>
      BY <2>7 DEF LoopStart, CheckQuit, PollReturn, HandleRead, EndEvents, DrainEnds, SwapFallback, PendingDone, RunsOK
    <3> QED BY <3>1, <3>2 DEF RunsOK
  <2> QED
    BY <1>2, <2>2, <2>3, <2>4, <2>5, <2>6, <2>7 DEF Loop, Progress, PollWoken, PollOther
<1> QED BY <1>1, <1>2 DEF Next

\* The strengthened invariant holds throughout, next to the one of the wakeups.
THEOREM HeldInvHolds == Spec => []HeldInv
<1> DEFINE AllHeld == RunsOK /\ \A f \in Functors \ Recurring : Held(f)
<1>1. Init => AllHeld
  <2> SUFFICES ASSUME Init PROVE AllHeld
    OBVIOUS
  <2>1. RunsOK
    BY DEF Init, RunsOK
  <2>2. ASSUME NEW f PROVE Held(f)
    <3>1. Waiting(f) = {} /\ ring = <<>> /\ fallback = <<>> /\ batch = <<>> /\ issued = {} /\ done = {}
      BY DEF Init, Waiting, Ring!Init
    <3>2. InRing(ring, f) = {} /\ At(fallback, f) = {} /\ At(batch, f) = {}
      BY <3>1, SMTT(30) DEF InRing, At
    <3>3. Copies(f) = Cardinality(Waiting(f)) + Cardinality(InRing(ring, f))
                      + Cardinality(At(fallback, f)) + Cardinality(At(batch, f))
      BY DEF Copies, Waiting, InRing, At
    <3>4. Copies(f) = 0 /\ IsFiniteSet(Waiting(f))
      BY <3>1, <3>2, <3>3, FS_EmptySet, SMTT(30)
    <3> QED BY <3>1, <3>4 DEF Held
  <2> QED BY <2>1, <2>2
<1>2. IndInv /\ IndInv' /\ AllHeld /\ [Next]_vars => AllHeld'
  <2> SUFFICES ASSUME IndInv, IndInv', AllHeld, [Next]_vars PROVE AllHeld'
    OBVIOUS
  <2>0. TypeOK /\ PlacesOK /\ TypeOK' /\ RunsOK
    BY DEF IndInv
  <2>1. CASE Next
    <3>1. RunsOK'
      BY <2>0, <2>1, RunsStep
    <3>2. ASSUME NEW f \in Functors \ Recurring PROVE Held(f)'
      <4>1. CASE Loop
        BY <2>0, <4>1, LoopHeld
      <4>2. CASE \E c \in Callers : Caller(c)
        BY <2>0, <4>2, CallerHeld
      <4> QED BY <2>1, <4>1, <4>2 DEF Next
    <3> QED BY <3>1, <3>2
  <2>2. CASE UNCHANGED vars
    <3>1. UNCHANGED <<callerPc, callerFn, ring, fallback, batch, issued, done, loopPc, owes>>
      BY <2>2 DEF vars, queueVars, callerVars
    <3>2. RunsOK'
      BY <3>1 DEF RunsOK
    <3>3. ASSUME NEW f \in Functors \ Recurring PROVE Held(f)'
      <4>1. Waiting(f)' = Waiting(f) /\ InRing(ring, f)' = InRing(ring, f)
        BY <3>1 DEF Waiting, InRing
      <4> QED BY <2>0, <3>1, <4>1, Untouched
    <3> QED BY <3>2, <3>3
  <2> QED BY <2>1, <2>2
<1>3. IndInv /\ AllHeld => HeldInv
  <2>1. AllHeld => HeldOnce
    BY DEF HeldOnce, Held
  <2>2. IndInv /\ AllHeld => done \ Recurring \subseteq issued
    BY DEF Held, IndInv, TypeOK
  <2> QED BY <2>1, <2>2 DEF HeldInv, RunsOK
<1> HIDE DEF AllHeld
<1> QED BY <1>1, <1>2, <1>3, IndInvHolds, PTL DEF Spec

\* Whatever the threads, the functors and the capacity of the ring: a functor given
\* to queueInLoop() once is held exactly once until it has run, and nowhere
\* afterwards.
THEOREM HeldOnceHolds == Spec => []HeldOnce
<1>1. HeldInv => HeldOnce
  BY DEF HeldInv
<1> QED BY <1>1, HeldInvHolds, PTL
=============================================================================
