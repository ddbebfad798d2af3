-------------------------- MODULE MpscQueueProofs --------------------------
(***************************************************************************)
(* Proofs about MpscQueue for every set of producers, every queue size and *)
(* every number of pushes below CounterMod: as long as tail has not        *)
(* wrapped, no command is overwritten, lost, duplicated or reordered.      *)
(***************************************************************************)
EXTENDS MpscQueueInvariant

(* A step of the consumer that touches only what the consumer remembers. *)
QuietPop ==
    /\ UNCHANGED <<head, tail, entries, pc, pHead, pTail, pVal, log, out>>
    /\ cpc' # "advance"

(* Such a step can only disturb what the invariant says of the consumer. *)
LEMMA QuietPopKeepsIInv ==
    ASSUME IInv, QuietPop, TypeOK', ConsumerInv'
    PROVE  IInv'
<1>1. CountersInv' /\ RingInv' /\ ClaimsDistinct'
  BY DEF QuietPop, IInv, CountersInv, RingInv, ClaimsDistinct
<1>2. ASSUME NEW r \in Producers PROVE ProducerInv(r)'
  <2>1. ProducerInv(r)
    BY DEF IInv
  <2>2. QED
    BY <2>1 DEF QuietPop, ProducerInv
<1>3. QED
  BY <1>1, <1>2 DEF IInv

(* Every step of the consumer (Pop, Wait) preserves the invariant. *)
LEMMA PopKeepsIInv ==
    ASSUME MaxPush < CounterMod, IInv, Pop \/ Wait
    PROVE  IInv'
<1>. USE QueueAssumption DEF producerVars, consumerVars
<1>0. /\ TypeOK /\ CountersInv /\ ConsumerInv /\ RingInv /\ ClaimsDistinct
      /\ \A p \in Producers : ProducerInv(p)
      /\ Len(log) \in Nat /\ Len(out) \in Nat
  BY DEF IInv, TypeOK
<1>x. \A i \in Nat : Index(i) \in 0..QueueSize-1
  BY IndexRange
<1>1. ASSUME PopReadHead PROVE IInv'
  <2>1. TypeOK'
    BY <1>1, <1>0 DEF PopReadHead, TypeOK, ConsumerStates
  <2>2. QuietPop
    BY <1>1 DEF PopReadHead, QuietPop
  <2>3. ConsumerInv'
    BY <1>1, <1>0 DEF PopReadHead, CountersInv, ConsumerInv
  <2>4. QED
    BY <2>1, <2>2, <2>3, QuietPopKeepsIInv
<1>2. ASSUME PopReadTail PROVE IInv'
  <2>1. TypeOK'
    BY <1>2, <1>0 DEF PopReadTail, TypeOK, ConsumerStates
  <2>2. QuietPop
    BY <1>2 DEF PopReadTail, QuietPop
  <2>3. ConsumerInv'
    BY <1>2, <1>0 DEF PopReadTail, CountersInv, ConsumerInv
  <2>4. QED
    BY <2>1, <2>2, <2>3, QuietPopKeepsIInv
<1>3. ASSUME PopLoad PROVE IInv'
  <2>a. /\ cHead = Len(out) /\ Len(out) < Len(log)
        /\ cVal' = log[cHead + 1] /\ log[cHead + 1] \in Values
    <3>1. /\ cHead = Len(out) /\ cHead \in Len(out)..Len(log)-1
          /\ entries[Index(cHead)] # NoEntry /\ cVal' = entries[Index(cHead)]
      BY <1>3, <1>0 DEF PopLoad, ConsumerInv
    <3>2. cVal' = log[cHead + 1]
      BY <1>0, <3>1 DEF RingInv
    <3>3. QED
      BY <1>0, <3>1, <3>2 DEF TypeOK
  <2>1. TypeOK'
    BY <1>3, <1>0, <2>a DEF PopLoad, TypeOK, ConsumerStates
  <2>2. QuietPop
    BY <1>3 DEF PopLoad, QuietPop
  <2>3. ConsumerInv'
    BY SMTT(60), <1>3, <1>0, <2>a DEF PopLoad, CountersInv, ConsumerInv
  <2>4. QED
    BY <2>1, <2>2, <2>3, QuietPopKeepsIInv
<1>4. ASSUME PopTimeout PROVE IInv'
  <2>1. TypeOK'
    BY <1>4, <1>0 DEF PopTimeout, TypeOK, ConsumerStates
  <2>2. QuietPop
    BY <1>4 DEF PopTimeout, QuietPop
  <2>3. ConsumerInv'
    BY <1>4, <1>0 DEF PopTimeout, CountersInv, ConsumerInv
  <2>4. QED
    BY <2>1, <2>2, <2>3, QuietPopKeepsIInv
<1>5. ASSUME PopClear PROVE IInv'
  <2>a. /\ cHead \in Len(out)..Len(log)-1 /\ cHead = Len(out)
        /\ entries[Index(cHead)] # NoEntry /\ cVal = log[cHead + 1]
    BY <1>5, <1>0 DEF PopClear, ConsumerInv
  <2>b. /\ Index(cHead) \in 0..QueueSize-1
        /\ entries' = [entries EXCEPT ![Index(cHead)] = NoEntry]
        /\ cpc = "clear" /\ cpc' = "advance"
        /\ UNCHANGED <<head, tail, ev, producerVars, cHead, cVal, log, out>>
    BY <1>5, <1>0, <1>x, <2>a DEF PopClear
  <2>1. TypeOK'
    BY <1>0, <2>b DEF TypeOK, ConsumerStates
  <2>2. CountersInv'
    BY <1>0, <2>b DEF CountersInv
  <2>3. ConsumerInv'
    BY <1>0, <2>a, <2>b DEF TypeOK, ConsumerInv
  <2>4. RingInv'
    <3>1. ASSUME NEW i \in Len(out)..Len(log)-1 PROVE entries'[Index(i)] \in {NoEntry, log[i + 1]}
      BY <1>0, <1>x, <2>b DEF TypeOK, RingInv
    <3>2. ASSUME NEW j \in 0..QueueSize-1, entries'[j] # NoEntry
          PROVE  \E i \in Len(out)..Len(log)-1 : Index(i) = j
      BY SMTT(60), <1>0, <2>b, <3>2 DEF TypeOK, RingInv
    <3>3. QED
      BY <2>b, <3>1, <3>2 DEF RingInv
  <2>5. ASSUME NEW r \in Producers PROVE ProducerInv(r)'
    <3>1. pc[r] = "store" => pTail[r] # cHead
      BY <1>0, <2>a DEF ProducerInv
    <3>2. pc[r] = "store" => entries'[Index(pTail[r])] = NoEntry
      <4>1. pc[r] = "store" => entries[Index(pTail[r])] = NoEntry
        BY <1>0 DEF ProducerInv
      <4>2. \A j \in 0..QueueSize-1 : entries[j] = NoEntry => entries'[j] = NoEntry
        <5>1. entries \in [0..QueueSize-1 -> Values \cup {NoEntry}]
          BY <1>0, Zenon DEF TypeOK
        <5>2. entries' = [entries EXCEPT ![Index(cHead)] = NoEntry]
          BY <2>b
        <5>3. QED
          BY <5>1, <5>2
      <4>3. Index(pTail[r]) \in 0..QueueSize-1
        BY <1>0, <1>x DEF TypeOK
      <4>4. QED
        BY <4>1, <4>2, <4>3, Zenon
    <3>3. QED
      BY <1>0, <2>b, <3>1, <3>2, ProducerInv(r) DEF ProducerInv
  <2>6. ClaimsDistinct'
    BY <1>0, <2>b DEF ClaimsDistinct
  <2>7. QED
    BY <2>1, <2>2, <2>3, <2>4, <2>5, <2>6 DEF IInv
<1>6. ASSUME PopAdvance PROVE IInv'
  <2>a. /\ cHead = Len(out) /\ Len(out) < Len(log) /\ cVal = log[Len(out) + 1]
        /\ log[Len(out) + 1] \in Values /\ entries[Index(Len(out))] = NoEntry
        /\ \A r \in Producers : pc[r] = "store" => pTail[r] # Len(out)
    <3>1. cpc = "advance" /\ ConsumerInv /\ log \in Seq(Values)
      BY <1>6, <1>0, Zenon DEF PopAdvance, TypeOK
    <3>2. /\ cHead = Len(out) /\ Len(out) < Len(log) /\ cVal = log[Len(out) + 1]
          /\ entries[Index(Len(out))] = NoEntry
      BY <3>1 DEF ConsumerInv
    <3>3. log[Len(out) + 1] \in Values
      BY <1>0, <3>1, <3>2
    <3>4. \A r \in Producers : pc[r] = "store" => pTail[r] # Len(out)
      BY <1>0, <3>1, <3>2, Zenon DEF ProducerInv
    <3>5. QED
      BY <3>2, <3>3, <3>4
  <2>b. head' = Len(out) + 1
    <3>1. head' = (Len(out) + 1) % CounterMod
      BY <1>6, <2>a, Zenon DEF PopAdvance
    <3>2. Len(log) <= MaxPush
      BY <1>0 DEF CountersInv
    <3>3. Len(out) + 1 \in Nat /\ Len(out) + 1 < CounterMod
      BY <1>0, <2>a, <3>2
    <3>4. (Len(out) + 1) % CounterMod = Len(out) + 1
      BY <3>3, ModSmall
    <3>5. QED
      BY <3>1, <3>4
  <2>c. /\ out' \in Seq(Values) /\ Len(out') = Len(out) + 1
        /\ out'[Len(out) + 1] = log[Len(out) + 1]
        /\ \A i \in 1..Len(out) : out'[i] = out[i]
    BY <1>6, <1>0, <2>a DEF PopAdvance, TypeOK
  <2>1. TypeOK'
    <3>1. head' \in 0..CounterMod-1
      <4>1. Len(log) <= MaxPush
        BY <1>0 DEF CountersInv
      <4>2. QED
        BY <1>0, <2>a, <2>b, <4>1
    <3>2. cpc' \in ConsumerStates /\ cVal' \in Values \cup {NoEntry}
      BY <1>6 DEF PopAdvance, ConsumerStates
    <3>3. QED
      BY <1>6, <1>0, <2>c, <3>1, <3>2, Zenon DEF PopAdvance, TypeOK
  <2>2. CountersInv'
    <3>1. UNCHANGED <<tail, log>>
      BY <1>6 DEF PopAdvance
    <3>2. /\ tail = Len(log) /\ Len(log) - Len(out) <= QueueSize - 1 /\ Len(log) <= MaxPush
          /\ \A i \in 1..Len(out) : out[i] = log[i]
      BY <1>0 DEF CountersInv
    <3>3. head' = Len(out') /\ Len(out') <= Len(log) /\ Len(log) - Len(out') <= QueueSize - 1
      BY <1>0, <2>a, <2>b, <2>c, <3>2
    <3>4. \A i \in 1..Len(out') : i = Len(out) + 1 \/ i \in 1..Len(out)
      BY <1>0, <2>c
    <3>5. \A i \in 1..Len(out') : out'[i] = log[i]
      BY <2>c, <3>2, <3>4, Zenon
    <3>6. QED
      BY <3>1, <3>2, <3>3, <3>5, Zenon DEF CountersInv
  <2>3. ConsumerInv'
    BY <1>6 DEF PopAdvance, ConsumerInv
  <2>4. RingInv'
    <3>1. ASSUME NEW j \in 0..QueueSize-1, entries[j] # NoEntry
          PROVE  \E i \in Len(out)+1..Len(log)-1 : Index(i) = j
      <4>1. PICK i \in Len(out)..Len(log)-1 : Index(i) = j
        BY <1>0, <3>1 DEF RingInv
      <4>2. i # Len(out)
        BY <2>a, <3>1, <4>1
      <4>3. QED
        BY <1>0, <4>1, <4>2
    <3>2. QED
      BY <1>6, <1>0, <2>c, <3>1 DEF PopAdvance, RingInv
  <2>5. ASSUME NEW r \in Producers PROVE ProducerInv(r)'
    <3>1. ProducerInv(r) /\ pTail[r] \in Nat /\ pHead[r] \in Nat
      BY <1>0 DEF TypeOK
    <3>2. QED
      BY <1>6, <1>0, <2>a, <2>c, <3>1, SMTT(60) DEF PopAdvance, ProducerInv
  <2>6. ClaimsDistinct'
    BY <1>6, <1>0 DEF PopAdvance, ClaimsDistinct
  <2>7. QED
    BY <2>1, <2>2, <2>3, <2>4, <2>5, <2>6 DEF IInv
<1>7. ASSUME Wait PROVE IInv'
  <2>1. TypeOK'
    BY ZenonT(60), <1>7, <1>0 DEF Wait, TypeOK, ConsumerStates
  <2>2. QuietPop
    BY <1>7 DEF Wait, QuietPop
  <2>3. ConsumerInv'
    BY <1>7, <1>0 DEF Wait, CountersInv, ConsumerInv
  <2>4. QED
    BY <2>1, <2>2, <2>3, QuietPopKeepsIInv
<1>8. QED
  BY <1>1, <1>2, <1>3, <1>4, <1>5, <1>6, <1>7 DEF Pop

(* The invariant holds in every reachable state. *)
LEMMA Invariance ==
    ASSUME MaxPush < CounterMod
    PROVE  Spec => []IInv
<1>1. IInv /\ UNCHANGED vars => IInv'
  BY SMTT(60) DEF vars, producerVars, consumerVars, IInv, TypeOK, CountersInv, ProducerInv, ConsumerInv,
         RingInv, ClaimsDistinct
<1>2. IInv /\ [Next]_vars => IInv'
  BY <1>1, PushKeepsIInv, PopKeepsIInv DEF Next
<1>3. QED
  BY InitIInv, <1>2, PTL DEF Spec

(* Type correctness of the queue, its counters included, while fewer than  *)
(* CounterMod commands have been pushed.                                   *)
THEOREM QueueTypeCorrect ==
    ASSUME MaxPush < CounterMod
    PROVE  Spec => []TypeOK
<1>1. IInv => TypeOK
  BY DEF IInv
<1>2. QED
  BY Invariance, <1>1, PTL

(* Control.Push never stores into an entry that still holds a command, and *)
(* never into one another producer is about to fill.                       *)
THEOREM QueueNoOverwrite ==
    ASSUME MaxPush < CounterMod
    PROVE  Spec => []NoOverwrite
<1>1. IInv => NoOverwrite
  <2> SUFFICES ASSUME IInv, NEW p \in Producers, pc[p] = "store",
                      NEW r \in Producers \ {p}, pc[r] = "store"
               PROVE  Index(pTail[r]) # Index(pTail[p])
    BY DEF IInv, NoOverwrite, ProducerInv
  <2>1. /\ Len(log) \in Nat /\ Len(out) \in Nat
        /\ pTail[p] \in Nat /\ pTail[r] \in Nat
    BY DEF IInv, TypeOK
  <2>2. /\ pTail[p] \in Len(out)..Len(log)-1
        /\ pTail[r] \in Len(out)..Len(log)-1
        /\ pTail[p] # pTail[r]
    BY <2>1 DEF IInv, ProducerInv, ClaimsDistinct
  <2>3. QED
    BY SMTT(60), <2>2, OutstandingDistinct DEF IInv
<1>2. QED
  BY Invariance, <1>1, PTL

(* Control.Pop returns the commands in the order in which Control.Push     *)
(* claimed their places, whatever the interleaving and whichever producers *)
(* are killed.                                                             *)
THEOREM QueueInOrder ==
    ASSUME MaxPush < CounterMod
    PROVE  Spec => []InOrder
<1>1. IInv => InOrder
  BY DEF IInv, CountersInv, InOrder
<1>2. QED
  BY Invariance, <1>1, PTL

-----------------------------------------------------------------------------
(* The wake-up protocol.  As long as no producer is killed, an outstanding *)
(* place that is still empty has its producer about to fill it and then to *)
(* notify, or is the one the consumer has just emptied.                    *)
FillerInv ==
    \/ Killed
    \/ \A i \in Len(out)..Len(log)-1 : entries[Index(i)] = NoEntry =>
          \/ \E p \in Producers : pc[p] = "store" /\ pTail[p] = i
          \/ cpc = "advance" /\ i = cHead

(* A producer that was killed takes no more steps, and the step Crash      *)
(* leaves a killed producer behind.                                        *)
LEMMA KilledStays ==
    ASSUME TypeOK, [Next]_vars
    PROVE  /\ Killed => Killed'
           /\ (\E p \in Producers : Crash(p)) => Killed'
<1>1. ASSUME NEW p \in Producers, pc[p] = "dead" PROVE pc'[p] = "dead"
  <2>1. CASE UNCHANGED pc
    BY SMTT(60), <1>1, <2>1
  <2>2. CASE \E r \in Producers : \/ \E v \in Values : PushCall(r, v)
                                 \/ Push(r) \/ Notify(r) \/ Crash(r)
    BY SMTT(60), <1>1, <2>2 DEF Push, PushCall, PushReadHead, PushReadTail, PushSpin, PushFail, PushClaim,
                      PushLost, PushStore, Notify, Crash, TypeOK
  <2>3. CASE Pop \/ Wait
    <3>1. UNCHANGED pc
      BY <2>3 DEF Pop, PopReadHead, PopReadTail, PopLoad, PopTimeout, PopClear, PopAdvance, Wait,
                  producerVars
    <3>2. QED
      BY <1>1, <3>1
  <2>4. QED
    BY <2>1, <2>2, <2>3 DEF Next, vars, producerVars
<1>2. ASSUME NEW p \in Producers, Crash(p) PROVE pc'[p] = "dead"
  BY <1>2 DEF Crash, TypeOK
<1>3. QED
  BY <1>1, <1>2 DEF Killed

(* Every step keeps FillerInv. *)
LEMMA StepFillerInv ==
    ASSUME MaxPush < CounterMod, IInv, FillerInv, [Next]_vars
    PROVE  FillerInv'
<1>. SUFFICES ASSUME ~Killed, ~Killed', ~\E p \in Producers : Crash(p) PROVE FillerInv'
  BY SMTT(60), KilledStays DEF FillerInv, IInv
<1>. USE QueueAssumption DEF producerVars, consumerVars
<1>0. /\ TypeOK /\ Len(log) \in Nat /\ Len(out) \in Nat /\ Len(out) <= Len(log)
  BY SMTT(60) DEF IInv, TypeOK, CountersInv
<1>1. CASE UNCHANGED <<entries, log, out, pTail, cpc, cHead>> /\
           \A p \in Producers : pc[p] = "store" => pc'[p] = "store"
  BY <1>1, <1>0 DEF FillerInv
<1>2. ASSUME NEW p \in Producers, PushLost(p) PROVE FillerInv'
  <2>1. /\ UNCHANGED <<entries, log, out, cpc, cHead>>
        /\ \A r \in Producers : pc[r] = "store" => pc'[r] = "store" /\ pTail'[r] = pTail[r]
    BY <1>2, <1>0 DEF PushLost, TypeOK
  <2>2. QED
    BY <1>0, <2>1 DEF FillerInv
<1>3. ASSUME NEW p \in Producers, PushReadTail(p) PROVE FillerInv'
  <2>1. /\ UNCHANGED <<entries, log, out, cpc, cHead>>
        /\ \A r \in Producers : pc[r] = "store" => pc'[r] = "store" /\ pTail'[r] = pTail[r]
    BY <1>3, <1>0 DEF PushReadTail, TypeOK
  <2>2. QED
    BY <1>0, <2>1 DEF FillerInv
<1>4. ASSUME NEW p \in Producers, PushClaim(p) PROVE FillerInv'
  <2>1. /\ UNCHANGED <<entries, out, pTail, cpc, cHead>>
        /\ Len(log') = Len(log) + 1 /\ pTail[p] = Len(log) /\ pc'[p] = "store"
        /\ \A r \in Producers : pc[r] = "store" => pc'[r] = "store"
    <3>1. /\ UNCHANGED <<entries, out, pTail, cpc, cHead>> /\ pTail[p] = Len(log)
          /\ log' = Append(log, pVal[p]) /\ pVal[p] \in Values
      BY <1>4 DEF PushClaim, IInv, CountersInv, ProducerInv
    <3>2. /\ pc'[p] = "store"
          /\ \A r \in Producers : pc[r] = "store" => pc'[r] = "store"
      BY <1>4, <1>0 DEF PushClaim, TypeOK
    <3>3. Len(log') = Len(log) + 1
      BY SMTT(60), <1>0, <3>1 DEF TypeOK
    <3>4. QED
      BY SMTT(60), <3>1, <3>2, <3>3
  <2>2. ASSUME NEW i \in Len(out)..Len(log), entries[Index(i)] = NoEntry
        PROVE  \/ \E r \in Producers : pc'[r] = "store" /\ pTail[r] = i
               \/ cpc = "advance" /\ i = cHead
    <3>1. CASE i = Len(log)
      BY <2>1, <3>1
    <3>2. CASE i # Len(log)
      BY <1>0, <2>1, <2>2, <3>2 DEF FillerInv
    <3>3. QED
      BY <3>1, <3>2, Zenon
  <2>3. Len(log') - 1 = Len(log)
    BY <1>0, <2>1
  <2>4. QED
    BY ZenonT(60), <2>1, <2>2, <2>3 DEF FillerInv
<1>5. ASSUME NEW p \in Producers, PushStore(p) PROVE FillerInv'
  <2>1. /\ UNCHANGED <<log, out, cpc, cHead>>
        /\ entries' = [entries EXCEPT ![Index(pTail[p])] = pVal[p]]
        /\ pVal[p] # NoEntry /\ pTail[p] \in Nat
        /\ \A r \in Producers : pc[r] = "store" /\ r # p => pc'[r] = "store" /\ pTail'[r] = pTail[r]
    <3>1. /\ UNCHANGED <<log, out, cpc, cHead>> /\ pc[p] = "store"
          /\ entries' = [entries EXCEPT ![Index(pTail[p])] = pVal[p]]
      BY <1>5 DEF PushStore
    <3>2. pVal[p] \in Values
      BY <3>1 DEF IInv, ProducerInv
    <3>3. pTail[p] \in Nat
      BY <1>0 DEF TypeOK
    <3>4. \A r \in Producers : pc[r] = "store" /\ r # p => pc'[r] = "store" /\ pTail'[r] = pTail[r]
      BY ZenonT(60), <1>5, <1>0 DEF PushStore, TypeOK
    <3>5. QED
      BY <3>1, <3>2, <3>3, <3>4
  <2>2. ASSUME NEW i \in Len(out)..Len(log)-1, entries'[Index(i)] = NoEntry
        PROVE  entries[Index(i)] = NoEntry /\ i # pTail[p]
    <3>1. Index(i) \in 0..QueueSize-1 /\ Index(pTail[p]) \in 0..QueueSize-1
      <4>1. i \in Nat
        BY <1>0
      <4>2. QED
        BY ZenonT(60), <2>1, <4>1, IndexRange
    <3>2. entries \in [0..QueueSize-1 -> Values \cup {NoEntry}]
      BY <1>0 DEF TypeOK
    <3>3. Index(i) # Index(pTail[p])
      BY <2>1, <2>2, <3>1, <3>2
    <3>4. QED
      BY SMTT(60), <2>1, <2>2, <3>1, <3>2, <3>3
  <2>3. QED
    BY <2>1, <2>2 DEF FillerInv
<1>6. ASSUME PopClear PROVE FillerInv'
  <2>1. /\ UNCHANGED <<log, out, pc, pTail, cHead>>
        /\ entries' = [entries EXCEPT ![Index(cHead)] = NoEntry]
        /\ cpc' = "advance" /\ cpc = "clear" /\ cHead = Len(out) /\ Len(out) < Len(log)
    BY <1>6 DEF PopClear, IInv, ConsumerInv
  <2>2. ASSUME NEW i \in Len(out)..Len(log)-1, i # cHead
        PROVE  entries'[Index(i)] = entries[Index(i)]
    <3>1. Index(i) # Index(cHead)
      <4>1. cHead \in Len(out)..Len(log)-1
        BY <1>0, <2>1
      <4>2. QED
        BY <2>2, <4>1, OutstandingDistinct DEF IInv
    <3>2. QED
      BY <1>0, <2>1, <3>1, IndexRange DEF TypeOK
  <2>3. QED
    BY <2>1, <2>2 DEF FillerInv
<1>7. ASSUME PopAdvance PROVE FillerInv'
  <2>1. /\ UNCHANGED <<entries, log, pc, pTail>> /\ Len(out') = Len(out) + 1
        /\ cpc = "advance" /\ cHead = Len(out)
    <3>1. UNCHANGED <<entries, log, pc, pTail>> /\ cpc = "advance" /\ out' = Append(out, cVal)
      BY <1>7 DEF PopAdvance
    <3>2. cHead = Len(out)
      BY <3>1 DEF IInv, ConsumerInv
    <3>3. Len(out') = Len(out) + 1
      BY <1>0, <3>1 DEF TypeOK
    <3>4. QED
      BY <3>1, <3>2, <3>3
  <2>2. ASSUME NEW i \in Len(out')..Len(log')-1
        PROVE  i \in Len(out)..Len(log)-1 /\ i # cHead
    BY SMTT(60), <1>0, <2>1
  <2>3. QED
    BY <2>1, <2>2 DEF FillerInv
<1>8. ASSUME PopReadHead \/ PopReadTail \/ PopLoad \/ PopTimeout \/ Wait PROVE FillerInv'
  <2>1. /\ UNCHANGED <<entries, log, out, pc, pTail>>
        /\ cpc # "advance"
    BY <1>8 DEF PopReadHead, PopReadTail, PopLoad, PopTimeout, Wait
  <2>2. QED
    BY SMTT(60), <1>0, <2>1 DEF FillerInv
<1>9. ASSUME NEW p \in Producers,
             \/ PushReadHead(p) \/ PushSpin(p) \/ PushFail(p) \/ Notify(p)
             \/ \E v \in Values : PushCall(p, v)
      PROVE  FillerInv'
  BY ZenonT(60), <1>9, <1>0, <1>1 DEF PushReadHead, PushSpin, PushFail, Notify, PushCall, TypeOK
<1>10. CASE UNCHANGED vars
  BY <1>10, <1>1 DEF vars
<1>11. QED
  BY <1>2, <1>3, <1>4, <1>5, <1>6, <1>7, <1>8, <1>9, <1>10 DEF Next, Push, Pop

(* Every step keeps NoMissedWakeup. *)
LEMMA StepNoMissedWakeup ==
    ASSUME IInv, FillerInv, NoMissedWakeup, [Next]_vars
    PROVE  NoMissedWakeup'
<1>. SUFFICES ASSUME ~Killed, ~Killed', ~\E p \in Producers : Crash(p) PROVE NoMissedWakeup'
  BY SMTT(60), KilledStays DEF NoMissedWakeup, IInv
<1>. USE QueueAssumption DEF producerVars, consumerVars
<1>0. /\ TypeOK /\ Len(log) \in Nat /\ Len(out) \in Nat /\ Len(out) <= Len(log)
  BY SMTT(60) DEF IInv, TypeOK, CountersInv
<1>1. ASSUME NEW p \in Producers,
             \/ PushReadHead(p) \/ PushReadTail(p) \/ PushSpin(p) \/ PushFail(p)
             \/ PushLost(p) \/ \E v \in Values : PushCall(p, v)
      PROVE  NoMissedWakeup'
  <2>1. /\ UNCHANGED <<ev, cpc, log, out>>
        /\ \A r \in Producers : pc[r] \in {"store", "notify"} => pc'[r] = pc[r]
    BY ZenonT(60), <1>1, <1>0 DEF PushReadHead, PushReadTail, PushSpin, PushFail, PushLost, PushCall, TypeOK
  <2>2. QED
    BY <2>1 DEF NoMissedWakeup
<1>2. ASSUME NEW p \in Producers, PushClaim(p) \/ PushStore(p) PROVE NoMissedWakeup'
  <2>1. pc'[p] \in {"store", "notify"}
    BY <1>2, <1>0 DEF PushClaim, PushStore, TypeOK
  <2>2. QED
    BY SMTT(60), <2>1 DEF NoMissedWakeup
<1>3. ASSUME NEW p \in Producers, Notify(p) PROVE NoMissedWakeup'
  BY <1>3 DEF Notify, NoMissedWakeup
<1>4. ASSUME PopReadTail PROVE NoMissedWakeup'
  <2>1. UNCHANGED <<log, out, pc, ev>> /\ (cpc' = "wait" => Len(out) = Len(log))
    <3>1. cHead = Len(out) /\ tail = Len(log)
      BY <1>4 DEF PopReadTail, IInv, CountersInv, ConsumerInv
    <3>2. QED
      BY <1>4, <3>1 DEF PopReadTail
  <2>2. cpc' = "wait" => ~(Len(out') < Len(log'))
    BY <1>0, <2>1
  <2>3. QED
    BY <2>2, Zenon DEF NoMissedWakeup
<1>5. ASSUME PopTimeout PROVE NoMissedWakeup'
  <2>1. /\ UNCHANGED <<log, out, pc, ev>> /\ cpc = "load"
        /\ cHead \in Len(out)..Len(log)-1 /\ entries[Index(cHead)] = NoEntry
    BY <1>5, <1>0 DEF PopTimeout, IInv, ConsumerInv
  <2>2. \E p \in Producers : pc[p] = "store"
    BY SMTT(60), <2>1 DEF FillerInv
  <2>3. QED
    BY <2>1, <2>2 DEF NoMissedWakeup
<1>6. ASSUME PopReadHead \/ PopLoad \/ PopClear \/ PopAdvance \/ Wait PROVE NoMissedWakeup'
  <2>1. cpc' # "wait"
    BY <1>6 DEF PopReadHead, PopLoad, PopClear, PopAdvance, Wait
  <2>2. QED
    BY <2>1 DEF NoMissedWakeup
<1>7. CASE UNCHANGED vars
  BY <1>7 DEF vars, NoMissedWakeup
<1>8. QED
  BY SMTT(60), <1>1, <1>2, <1>3, <1>4, <1>5, <1>6, <1>7 DEF Next, Push, Pop

(* Neither consumer (the hub's dispatchLoop, a node's event loop) sleeps   *)
(* through a command: whenever it is blocked in Eventfd.Wait while         *)
(* commands are outstanding, a Notify is on its way or a producer has been *)
(* killed.                                                                 *)
(* This holds for Go's Pop and for Rust's, which gives up on an entry that *)
(* is claimed and not yet filled.                                          *)
THEOREM QueueNoMissedWakeup ==
    ASSUME MaxPush < CounterMod
    PROVE  Spec => []NoMissedWakeup
<1>1. Init => FillerInv /\ NoMissedWakeup
  <2> SUFFICES ASSUME Init PROVE FillerInv /\ NoMissedWakeup
    OBVIOUS
  <2>1. Len(log) = 0 /\ Len(out) = 0
    BY DEF Init
  <2>2. QED
    BY <2>1 DEF FillerInv, NoMissedWakeup
<1>2. IInv /\ FillerInv /\ NoMissedWakeup /\ [Next]_vars => (FillerInv /\ NoMissedWakeup)'
  BY StepFillerInv, StepNoMissedWakeup
<1>3. QED
  BY Invariance, <1>1, <1>2, PTL DEF Spec

=============================================================================
