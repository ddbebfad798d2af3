------------------------ MODULE MpscQueueRefinement ------------------------
(***************************************************************************)
(* The command queue implements the abstract bounded queue of FifoQueue,   *)
(* by the inductive invariant of MpscQueueProofs.                          *)
(***************************************************************************)
EXTENDS MpscQueueProofs, SequenceTheorems

(* The refinement: the claim is the abstract Enqueue, the advance of head  *)
(* the abstract Dequeue, every other step leaves the abstract queue alone. *)

(* The abstract queue is what was claimed and not yet popped, in order. *)
LEMMA OutstandingIsSeq ==
    ASSUME IInv
    PROVE  /\ Outstanding \in Seq(Values)
           /\ Len(Outstanding) = Len(log) - Len(out)
           /\ \A i \in 1..(Len(log) - Len(out)) : Outstanding[i] = log[Len(out) + i]
<1>1. /\ Len(log) \in Nat /\ Len(out) \in Nat /\ Len(log) - Len(out) \in Nat
      /\ log \in Seq(Values)
  BY DEF IInv, TypeOK, CountersInv
<1>2. \A i \in 1..(Len(log) - Len(out)) : log[Len(out) + i] \in Values
  BY <1>1
<1>3. QED
  BY <1>1, <1>2 DEF Outstanding

(* The same of the next state. *)
LEMMA OutstandingIsSeqNext ==
    ASSUME IInv'
    PROVE  /\ Outstanding' \in Seq(Values)
           /\ Len(Outstanding') = Len(log') - Len(out')
           /\ \A i \in 1..(Len(log') - Len(out')) : Outstanding'[i] = log'[Len(out') + i]
<1>1. /\ Len(log') \in Nat /\ Len(out') \in Nat /\ Len(log') - Len(out') \in Nat
      /\ log' \in Seq(Values)
  BY DEF IInv, TypeOK, CountersInv
<1>2. \A i \in 1..(Len(log') - Len(out')) : log'[Len(out') + i] \in Values
  BY <1>1
<1>3. QED
  BY <1>1, <1>2 DEF Outstanding

(* The compare-and-swap of Push is the abstract Enqueue. *)
LEMMA ClaimEnqueues ==
    ASSUME IInv, IInv', NEW p \in Producers, PushClaim(p)
    PROVE  \E v \in Values : FIFO!Enqueue(v)
<1>1. /\ Len(log) \in Nat /\ Len(out) \in Nat /\ Len(out) <= Len(log)
      /\ pVal[p] \in Values /\ log \in Seq(Values) /\ QueueSize \in Nat
      /\ out' = out /\ log' = Append(log, pVal[p])
  <2>1. pc[p] = "cas" /\ out' = out /\ log' = Append(log, pVal[p])
    BY DEF PushClaim
  <2>2. pVal[p] \in Values
    BY <2>1 DEF IInv, ProducerInv
  <2>3. /\ Len(log) \in Nat /\ Len(out) \in Nat /\ Len(out) <= Len(log)
        /\ log \in Seq(Values) /\ QueueSize \in Nat
    BY QueueAssumption DEF IInv, TypeOK, CountersInv
  <2>4. QED
    BY <2>1, <2>2, <2>3
<1>2. /\ Len(log') = Len(log) + 1 /\ log'[Len(log) + 1] = pVal[p]
      /\ \A i \in 1..Len(log) : log'[i] = log[i]
  BY <1>1
<1>3. Len(log') - Len(out') <= QueueSize - 1
  BY DEF IInv, CountersInv
<1>4. Len(Outstanding) < QueueSize - 1
  BY <1>1, <1>2, <1>3, OutstandingIsSeq
<1>5. Outstanding' = Append(Outstanding, pVal[p])
  <2>1. /\ Outstanding \in Seq(Values) /\ Len(Outstanding) = Len(log) - Len(out)
        /\ \A i \in 1..(Len(log) - Len(out)) : Outstanding[i] = log[Len(out) + i]
    BY OutstandingIsSeq, Zenon
  <2>2. /\ Append(Outstanding, pVal[p]) \in Seq(Values)
        /\ Len(Append(Outstanding, pVal[p])) = Len(log) - Len(out) + 1
        /\ \A i \in 1..(Len(log) - Len(out)) :
              Append(Outstanding, pVal[p])[i] = log[Len(out) + i]
        /\ Append(Outstanding, pVal[p])[Len(log) - Len(out) + 1] = pVal[p]
    BY <1>1, <2>1, AppendProperties
  <2>3. /\ Outstanding' \in Seq(Values) /\ Len(Outstanding') = Len(log) - Len(out) + 1
        /\ \A i \in 1..(Len(log) - Len(out) + 1) : Outstanding'[i] = log'[Len(out) + i]
    <3>1. /\ Outstanding' \in Seq(Values) /\ Len(Outstanding') = Len(log') - Len(out')
          /\ \A i \in 1..(Len(log') - Len(out')) : Outstanding'[i] = log'[Len(out') + i]
      BY OutstandingIsSeqNext, Zenon
    <3>2. out' = out /\ Len(log') - Len(out') = Len(log) - Len(out) + 1
      BY <1>1, <1>2
    <3>3. QED
      BY <3>1, <3>2, Zenon
  <2>4. ASSUME NEW i \in 1..(Len(log) - Len(out) + 1)
        PROVE  Outstanding'[i] = Append(Outstanding, pVal[p])[i]
    <3>1. CASE i = Len(log) - Len(out) + 1
      <4>1. Len(out) + i = Len(log) + 1
        BY <1>1, <3>1
      <4>2. QED
        BY SMTT(60), <1>2, <2>2, <2>3, <3>1, <4>1
    <3>2. CASE i # Len(log) - Len(out) + 1
      <4>1. i \in 1..(Len(log) - Len(out)) /\ Len(out) + i \in 1..Len(log)
        BY <1>1, <3>2
      <4>2. QED
        BY <1>2, <2>2, <2>3, <4>1
    <3>3. QED
      BY ZenonT(60), <3>1, <3>2
  <2>5. QED
    BY ZenonT(60), <2>2, <2>3, <2>4, SeqEqual
<1>6. QED
  BY <1>1, <1>4, <1>5 DEF FIFO!Enqueue

(* The store of the new head in Pop is the abstract Dequeue. *)
LEMMA AdvanceDequeues ==
    ASSUME IInv, IInv', PopAdvance
    PROVE  FIFO!Dequeue
<1>1. /\ Len(log) \in Nat /\ Len(out) \in Nat /\ Len(out) < Len(log)
      /\ log \in Seq(Values) /\ out \in Seq(Values)
      /\ log' = log /\ out' = Append(out, log[Len(out) + 1]) /\ log[Len(out) + 1] \in Values
  BY DEF IInv, TypeOK, ConsumerInv, PopAdvance
<1>2. Len(out') = Len(out) + 1
  BY <1>1
<1>3. /\ Outstanding \in Seq(Values) /\ Len(Outstanding) = Len(log) - Len(out)
      /\ \A i \in 1..(Len(log) - Len(out)) : Outstanding[i] = log[Len(out) + i]
  BY OutstandingIsSeq, Zenon
<1>4. Outstanding # <<>> /\ Head(Outstanding) = log[Len(out) + 1]
  BY <1>1, <1>3
<1>5. Outstanding' = Tail(Outstanding)
  <2>1. /\ Tail(Outstanding) \in Seq(Values)
        /\ Len(Tail(Outstanding)) = Len(log) - Len(out) - 1
        /\ \A i \in 1..(Len(log) - Len(out) - 1) : Tail(Outstanding)[i] = Outstanding[i + 1]
    BY <1>1, <1>3, <1>4, HeadTailProperties
  <2>2. /\ Outstanding' \in Seq(Values) /\ Len(Outstanding') = Len(log) - Len(out) - 1
        /\ \A i \in 1..(Len(log) - Len(out) - 1) : Outstanding'[i] = log[Len(out) + 1 + i]
    <3>1. /\ Outstanding' \in Seq(Values) /\ Len(Outstanding') = Len(log') - Len(out')
          /\ \A i \in 1..(Len(log') - Len(out')) : Outstanding'[i] = log'[Len(out') + i]
      BY OutstandingIsSeqNext, Zenon
    <3>2. /\ log' = log /\ Len(out') = Len(out) + 1
          /\ Len(log') - Len(out') = Len(log) - Len(out) - 1
      BY <1>1, <1>2
    <3>3. QED
      BY <3>1, <3>2, Zenon
  <2>3. ASSUME NEW i \in 1..(Len(log) - Len(out) - 1)
        PROVE  Outstanding'[i] = Tail(Outstanding)[i]
    <3>1. /\ i + 1 \in 1..(Len(log) - Len(out))
          /\ Len(out) + (i + 1) = Len(out) + 1 + i
      BY <1>1
    <3>2. QED
      BY <1>3, <2>1, <2>2, <3>1
  <2>4. QED
    BY ZenonT(60), <2>1, <2>2, <2>3, SeqEqual
<1>6. QED
  BY <1>1, <1>4, <1>5 DEF FIFO!Dequeue

(* Control.Push and Control.Pop implement a bounded FIFO queue: this is    *)
(* what the hub and the nodes may rely on when they exchange commands.     *)
THEOREM QueueImplementsFifo ==
    ASSUME MaxPush < CounterMod
    PROVE  Spec => ImplementsFifo
<1>1. Init => FIFO!Init
  <2> SUFFICES ASSUME Init PROVE Outstanding = <<>> /\ out = <<>>
    BY DEF FIFO!Init
  <2>1. log = <<>> /\ out = <<>>
    BY DEF Init
  <2>2. QED
    BY <2>1 DEF Outstanding
<1>2. IInv /\ IInv' /\ [Next]_vars => [FIFO!Next]_(FIFO!vars)
  <2> SUFFICES ASSUME IInv, IInv', [Next]_vars
               PROVE  FIFO!Next \/ (Outstanding' = Outstanding /\ out' = out)
    BY DEF FIFO!vars
  <2>1. ASSUME NEW p \in Producers, PushClaim(p) PROVE FIFO!Next
    BY <2>1, ClaimEnqueues DEF FIFO!Next
  <2>2. ASSUME PopAdvance PROVE FIFO!Next
    BY <2>2, AdvanceDequeues DEF FIFO!Next
  <2>3. CASE UNCHANGED <<log, out>>
    BY ZenonT(60), <2>3 DEF Outstanding
  <2>4. UNCHANGED <<log, out>> \/ PopAdvance \/ \E p \in Producers : PushClaim(p)
    BY DEF Next, vars, Push, Pop, PushCall, PushReadHead, PushReadTail, PushSpin, PushFail,
           PushLost, PushStore, Notify, Crash, PopReadHead, PopReadTail, PopLoad, PopTimeout,
           PopClear, Wait
  <2>5. QED
    BY <2>1, <2>2, <2>3, <2>4
<1>3. QED
  BY Invariance, <1>1, <1>2, PTL DEF Spec, ImplementsFifo, FIFO!Spec
=============================================================================
