------------------------- MODULE MpscQueueInvariant -------------------------
(***************************************************************************)
(* The inductive invariant of MpscQueue, and the proof that the steps of   *)
(* the producers preserve it, for every set of producers, every queue size *)
(* and every number of pushes below CounterMod (until tail wraps).         *)
(***************************************************************************)
EXTENDS MpscQueue, TLAPS

(* Without a wrap the counters are the lengths of the histories. *)
CountersInv ==
    /\ head = Len(out) /\ tail = Len(log)
    /\ Len(out) <= Len(log)
    /\ Len(log) - Len(out) <= QueueSize - 1
    /\ Len(log) <= MaxPush
    /\ \A i \in 1..Len(out) : out[i] = log[i]

(* What producer p remembers about the queue at each point of Push.  Its   *)
(* copy of head may be stale, but never runs ahead of head.                *)
ProducerInv(p) ==
    /\ pc[p] \in {"head", "tail", "cas", "store"} => pVal[p] \in Values
    /\ pc[p] \in {"tail", "cas"} => pHead[p] <= Len(out)
    /\ pc[p] = "cas" => /\ pHead[p] <= pTail[p]
                        /\ pTail[p] <= Len(log)
                        /\ pTail[p] - pHead[p] < QueueSize - 1
    /\ pc[p] = "store" => /\ Len(out) <= pTail[p]
                          /\ pTail[p] < Len(log)
                          /\ log[pTail[p] + 1] = pVal[p]
                          /\ entries[Index(pTail[p])] = NoEntry
                          /\ cpc = "advance" => pTail[p] # cHead

(* A place is claimed by one producer. *)
ClaimsDistinct ==
    \A p, r \in Producers :
        p # r /\ pc[p] = "store" /\ pc[r] = "store" => pTail[p] # pTail[r]

ConsumerInv ==
    /\ cpc \in {"tail", "load", "clear", "advance"} => cHead = Len(out)
    /\ cpc \in {"load", "clear", "advance"} => Len(out) < Len(log)
    /\ cpc = "clear" => entries[Index(cHead)] # NoEntry
    /\ cpc = "advance" => entries[Index(cHead)] = NoEntry
    /\ cpc \in {"clear", "advance"} => cVal = log[cHead + 1]

(* An outstanding place holds its own command or is still empty, and all   *)
(* other entries are empty.                                                *)
RingInv ==
    /\ \A i \in Len(out)..Len(log)-1 : entries[Index(i)] \in {NoEntry, log[i + 1]}
    /\ \A j \in 0..QueueSize-1 :
          entries[j] # NoEntry => \E i \in Len(out)..Len(log)-1 : Index(i) = j

IInv ==
    /\ TypeOK /\ CountersInv /\ ConsumerInv /\ RingInv
    /\ \A p \in Producers : ProducerInv(p)
    /\ ClaimsDistinct

-----------------------------------------------------------------------------
(* A number below the modulus is its own remainder. *)
LEMMA ModSmall ==
    ASSUME NEW a \in Nat, NEW n \in Nat, a < n
    PROVE  a % n = a
  BY SMT

(* Counters less than QueueSize apart have different entries (the reason   *)
(* why Control.Push limits tail - head).                                   *)
LEMMA IndexDistinct ==
    ASSUME NEW a \in Nat, NEW b \in Nat, a < b, b - a < QueueSize
    PROVE  Index(a) # Index(b)
<1>1. QueueSize \in Nat /\ QueueSize > 0
  BY QueueAssumption
<1>2. SUFFICES ASSUME a % QueueSize = b % QueueSize PROVE FALSE
  BY DEF Index
<1>3. PICK k \in Int : a = (k * QueueSize) + (a % QueueSize)
  <2>1. a \div QueueSize \in Int /\ a = ((a \div QueueSize) * QueueSize) + (a % QueueSize)
    BY <1>1, SMT
  <2>2. QED  BY <2>1, Zenon
<1>4. PICK m \in Int : b = (m * QueueSize) + (b % QueueSize)
  <2>1. b \div QueueSize \in Int /\ b = ((b \div QueueSize) * QueueSize) + (b % QueueSize)
    BY <1>1, SMT
  <2>2. QED  BY <2>1, Zenon
<1>5. b - a = (m - k) * QueueSize
  BY <1>1, <1>2, <1>3, <1>4, SMT
<1>6. CASE m - k >= 1
  BY <1>1, <1>5, <1>6, SMT
<1>7. CASE m - k <= 0
  BY <1>1, <1>5, <1>7, SMT
<1>8. QED
  BY <1>6, <1>7

(* A counter always falls on an entry of the ring. *)
LEMMA IndexRange ==
    ASSUME NEW a \in Nat
    PROVE  Index(a) \in 0..QueueSize-1
  BY QueueAssumption, SMT DEF Index

(* Outstanding places have different entries: there are never more than    *)
(* QueueSize - 1 of them.                                                  *)
LEMMA OutstandingDistinct ==
    ASSUME TypeOK, CountersInv,
           NEW i \in Len(out)..Len(log)-1, NEW j \in Len(out)..Len(log)-1, i # j
    PROVE  Index(i) # Index(j)
<1>1. Len(out) \in Nat /\ Len(log) \in Nat
  BY DEF TypeOK
<1>2. i \in Nat /\ j \in Nat /\ Len(log) - Len(out) <= QueueSize - 1 /\ QueueSize \in Nat
  BY <1>1, QueueAssumption DEF CountersInv
<1>3. CASE i < j
  <2>1. j - i < QueueSize
    BY <1>1, <1>2
  <2>2. QED
    BY <1>2, <1>3, <2>1, IndexDistinct
<1>4. CASE j < i
  <2>1. i - j < QueueSize
    BY <1>1, <1>2
  <2>2. QED
    BY <1>2, <1>4, <2>1, IndexDistinct
<1>5. QED
  BY <1>2, <1>3, <1>4

-----------------------------------------------------------------------------
(* Both counters at zero and an empty ring: the invariant holds at start. *)
LEMMA InitIInv == Init => IInv
<1> SUFFICES ASSUME Init PROVE IInv
  OBVIOUS
<1>1. TypeOK
  <2>1. 0 \in 0..CounterMod-1 /\ 0 \in 0..MaxSpin
    BY QueueAssumption
  <2>2. head \in 0..CounterMod-1 /\ tail \in 0..CounterMod-1 /\ cHead \in 0..CounterMod-1
    BY <2>1 DEF Init
  <2>3. ev \in BOOLEAN /\ cpc \in ConsumerStates
    BY ZenonT(60) DEF Init, ConsumerStates
  <2>4. pc \in [Producers -> ProducerStates]
    BY DEF Init, ProducerStates
  <2>5. /\ pHead \in [Producers -> 0..CounterMod-1]
        /\ pTail \in [Producers -> 0..CounterMod-1]
        /\ spin \in [Producers -> 0..MaxSpin]
    BY <2>1 DEF Init
  <2>6. /\ entries \in [0..QueueSize-1 -> Values \cup {NoEntry}]
        /\ pVal \in [Producers -> Values \cup {NoEntry}]
        /\ cVal \in Values \cup {NoEntry}
    BY DEF Init
  <2>7. log \in Seq(Values) /\ out \in Seq(Values)
    BY DEF Init
  <2>8. QED
    BY <2>2, <2>3, <2>4, <2>5, <2>6, <2>7 DEF TypeOK
<1>2. CountersInv
  BY QueueAssumption DEF Init, CountersInv
<1>3. ConsumerInv
  BY QueueAssumption DEF Init, ConsumerInv
<1>4. RingInv
  BY QueueAssumption DEF Init, RingInv
<1>5. \A p \in Producers : ProducerInv(p)
  BY ZenonT(60), QueueAssumption DEF Init, ProducerInv
<1>6. ClaimsDistinct
  BY QueueAssumption DEF Init, ClaimsDistinct
<1>7. QED
  BY <1>1, <1>2, <1>3, <1>4, <1>5, <1>6 DEF IInv

(* A step of Push that touches only what its producer remembers. *)
QuietPush(p) ==
    /\ UNCHANGED <<head, tail, entries, cpc, cHead, cVal, log, out>>
    /\ pc'[p] # "store"
    /\ \A r \in Producers \ {p} :
          /\ pc'[r] = pc[r] /\ pHead'[r] = pHead[r]
          /\ pTail'[r] = pTail[r] /\ pVal'[r] = pVal[r]

(* Such a step can only disturb what the invariant says of that producer. *)
LEMMA QuietPushKeepsIInv ==
    ASSUME IInv, NEW p \in Producers, QuietPush(p), TypeOK', ProducerInv(p)'
    PROVE  IInv'
<1>1. CountersInv' /\ ConsumerInv' /\ RingInv'
  BY DEF QuietPush, IInv, CountersInv, ConsumerInv, RingInv
<1>2. ASSUME NEW r \in Producers \ {p} PROVE ProducerInv(r)'
  <2>1. ProducerInv(r)
    BY DEF IInv
  <2>2. QED
    BY <2>1 DEF QuietPush, ProducerInv
<1>3. ClaimsDistinct'
  BY DEF QuietPush, IInv, ClaimsDistinct
<1>4. QED
  BY <1>1, <1>2, <1>3 DEF IInv

(* What the type invariant says of the variables of the producers. *)
ProducerTypes ==
    /\ pc \in [Producers -> ProducerStates]
    /\ pHead \in [Producers -> 0..CounterMod-1]
    /\ pTail \in [Producers -> 0..CounterMod-1]
    /\ pVal \in [Producers -> Values \cup {NoEntry}]
    /\ spin \in [Producers -> 0..MaxSpin]

(* A step that leaves the queue and the consumer alone can only disturb    *)
(* the types of the producers' variables.                                  *)
LEMMA QuietTypes ==
    ASSUME TypeOK, ProducerTypes', ev' \in BOOLEAN,
           UNCHANGED <<head, tail, entries, cpc, cHead, cVal, log, out>>
    PROVE  TypeOK'
  BY Zenon DEF TypeOK, ProducerTypes

(* The steps of a producer before and after its claim of a place change    *)
(* only what that producer remembers, and preserve the invariant.          *)
LEMMA QuietStepKeepsIInv ==
    ASSUME MaxPush < CounterMod, IInv, NEW p \in Producers,
           \/ \E v \in Values : PushCall(p, v)
           \/ PushReadHead(p) \/ PushReadTail(p) \/ PushSpin(p) \/ PushFail(p)
           \/ PushLost(p) \/ Notify(p) \/ Crash(p)
    PROVE  IInv'
<1>. USE DEF producerVars, consumerVars
<1>t. TypeOK
  BY DEF IInv
<1>c. head = Len(out) /\ tail = Len(log) /\ Len(out) <= Len(log) /\ Len(log) <= MaxPush
  BY DEF IInv, CountersInv
<1>p. ProducerInv(p)
  BY DEF IInv
<1>q. /\ QueueSize \in Nat /\ QueueSize >= 2 /\ MaxSpin \in Nat /\ MaxPush \in Nat
      /\ CounterMod \in Nat /\ CounterMod >= QueueSize /\ NoEntry \notin Values
  BY QueueAssumption
<1>n. Len(log) \in Nat /\ Len(out) \in Nat
  BY <1>t DEF TypeOK
<1>pc. pc \in [Producers -> ProducerStates]
  BY <1>t, Zenon DEF TypeOK
<1>ph. pHead \in [Producers -> 0..CounterMod-1]
  BY <1>t, Zenon DEF TypeOK
<1>pt. pTail \in [Producers -> 0..CounterMod-1]
  BY <1>t, Zenon DEF TypeOK
<1>pv. pVal \in [Producers -> Values \cup {NoEntry}]
  BY <1>t, Zenon DEF TypeOK
<1>sp. spin \in [Producers -> 0..MaxSpin]
  BY <1>t, Zenon DEF TypeOK
<1>ht. head \in 0..CounterMod-1 /\ tail \in 0..CounterMod-1 /\ ev \in BOOLEAN
  BY <1>t, Zenon DEF TypeOK
<1>1. ASSUME NEW v \in Values, PushCall(p, v) PROVE IInv'
  <2>1. TypeOK'
    <3>1. pc' \in [Producers -> ProducerStates]
      BY <1>1, <1>pc DEF PushCall, ProducerStates
    <3>2. pVal' \in [Producers -> Values \cup {NoEntry}]
      BY <1>1, <1>pv DEF PushCall
    <3>3. UNCHANGED <<head, tail, entries, cpc, cHead, cVal, log, out, pHead, pTail, spin>> /\ ev' = ev
      BY <1>1 DEF PushCall
    <3>4. ProducerTypes'
      BY <1>ph, <1>pt, <1>sp, <3>1, <3>2, <3>3, Zenon DEF ProducerTypes
    <3>5. QED
      BY <1>t, <1>ht, <3>3, <3>4, QuietTypes
  <2>2. QuietPush(p)
    BY <1>1, <1>pc, <1>pv DEF PushCall, QuietPush
  <2>3. ProducerInv(p)'
    <3>1. pc'[p] = "head" /\ pVal'[p] = v
      BY <1>1, <1>pc, <1>pv DEF PushCall
    <3>2. QED
      BY <3>1 DEF ProducerInv
  <2>4. QED
    BY <2>1, <2>2, <2>3, QuietPushKeepsIInv
<1>2. ASSUME PushReadHead(p) PROVE IInv'
  <2>1. TypeOK'
    <3>1. pc' \in [Producers -> ProducerStates]
      BY <1>2, <1>pc DEF PushReadHead, ProducerStates
    <3>2. pHead' \in [Producers -> 0..CounterMod-1]
      BY <1>2, <1>ph, <1>q, <1>ht DEF PushReadHead
    <3>3. UNCHANGED <<head, tail, entries, cpc, cHead, cVal, log, out, pTail, pVal, spin>> /\ ev' = ev
      BY <1>2 DEF PushReadHead
    <3>4. ProducerTypes'
      BY <1>pt, <1>pv, <1>sp, <3>1, <3>2, <3>3, Zenon DEF ProducerTypes
    <3>5. QED
      BY <1>t, <1>ht, <3>3, <3>4, QuietTypes
  <2>2. QuietPush(p)
    BY <1>2, <1>pc, <1>ph DEF PushReadHead, QuietPush
  <2>3. ProducerInv(p)'
    <3>1. pc'[p] = "tail" /\ pHead'[p] = head /\ pVal' = pVal /\ out' = out
      BY <1>2, <1>pc, <1>ph DEF PushReadHead
    <3>2. pVal[p] \in Values
      BY <1>2, <1>p DEF PushReadHead, ProducerInv
    <3>3. QED
      BY <1>c, <1>n, <3>1, <3>2 DEF ProducerInv
  <2>4. QED
    BY <2>1, <2>2, <2>3, QuietPushKeepsIInv
<1>3. ASSUME PushReadTail(p) PROVE IInv'
  <2>1. TypeOK'
    <3>1. pc' \in [Producers -> ProducerStates]
      BY <1>3, <1>pc DEF PushReadTail, ProducerStates
    <3>2. pTail' \in [Producers -> 0..CounterMod-1]
      BY <1>3, <1>pt, <1>q, <1>ht DEF PushReadTail
    <3>3. UNCHANGED <<head, tail, entries, cpc, cHead, cVal, log, out, pHead, pVal, spin>> /\ ev' = ev
      BY <1>3 DEF PushReadTail
    <3>4. ProducerTypes'
      BY <1>ph, <1>pv, <1>sp, <3>1, <3>2, <3>3, Zenon DEF ProducerTypes
    <3>5. QED
      BY <1>t, <1>ht, <3>3, <3>4, QuietTypes
  <2>2. QuietPush(p)
    BY <1>3, <1>pc, <1>pt DEF PushReadTail, QuietPush
  <2>3. ProducerInv(p)'
    <3>1. pHead[p] \in Nat /\ pHead[p] <= Len(out) /\ pVal[p] \in Values
      BY <1>3, <1>p, <1>ph DEF PushReadTail, ProducerInv
    <3>2. tail \in Nat /\ tail - pHead[p] \in Nat /\ tail - pHead[p] < CounterMod
      BY <3>1, <1>c, <1>n, <1>q
    <3>3. (tail - pHead[p]) % CounterMod = tail - pHead[p]
      BY <1>q, <3>2, ModSmall
    <3>4. ~(tail - pHead[p] >= QueueSize - 1)
      BY <1>3, <3>3, Zenon DEF PushReadTail, Full
    <3>5. pHead[p] <= tail /\ tail - pHead[p] < QueueSize - 1
      BY <1>q, <3>1, <3>2, <3>4
    <3>6. pc'[p] = "cas" /\ pTail'[p] = tail /\ UNCHANGED <<pHead, pVal, log, out>>
      BY <1>3, <1>pc, <1>pt DEF PushReadTail
    <3>7. QED
      BY <1>c, <1>n, <3>1, <3>2, <3>5, <3>6 DEF ProducerInv
  <2>4. QED
    BY <2>1, <2>2, <2>3, QuietPushKeepsIInv
<1>4. ASSUME PushSpin(p) PROVE IInv'
  <2>1. TypeOK'
    <3>1. pc' \in [Producers -> ProducerStates]
      BY <1>4, <1>pc DEF PushSpin, ProducerStates
    <3>2. spin' \in [Producers -> 0..MaxSpin]
      BY <1>4, <1>sp, <1>q DEF PushSpin
    <3>3. pHead' \in [Producers -> 0..CounterMod-1]
      BY <1>4, <1>ph, <1>q DEF PushSpin
    <3>4. UNCHANGED <<head, tail, entries, cpc, cHead, cVal, log, out, pTail, pVal>> /\ ev' = ev
      BY <1>4 DEF PushSpin
    <3>5. ProducerTypes'
      BY <1>pt, <1>pv, <3>1, <3>2, <3>3, <3>4, Zenon DEF ProducerTypes
    <3>6. QED
      BY <1>t, <1>ht, <3>4, <3>5, QuietTypes
  <2>2. QuietPush(p)
    BY <1>4, <1>pc, <1>ph, Zenon DEF PushSpin, QuietPush
  <2>3. ProducerInv(p)'
    <3>1. pc'[p] = "head" /\ pVal' = pVal
      BY <1>4, <1>pc DEF PushSpin
    <3>2. pVal[p] \in Values
      BY <1>4, <1>p DEF PushSpin, ProducerInv
    <3>3. QED
      BY <3>1, <3>2 DEF ProducerInv
  <2>4. QED
    BY <2>1, <2>2, <2>3, QuietPushKeepsIInv
<1>5. ASSUME PushFail(p) PROVE IInv'
  <2>1. TypeOK'
    <3>1. pc' \in [Producers -> ProducerStates]
      BY <1>5, <1>pc DEF PushFail, ProducerStates
    <3>2. spin' \in [Producers -> 0..MaxSpin]
      BY <1>5, <1>sp, <1>q DEF PushFail
    <3>3. pHead' \in [Producers -> 0..CounterMod-1]
      BY <1>5, <1>ph, <1>q DEF PushFail
    <3>4. pVal' \in [Producers -> Values \cup {NoEntry}]
      BY <1>5, <1>pv DEF PushFail
    <3>5. UNCHANGED <<head, tail, entries, cpc, cHead, cVal, log, out, pTail>> /\ ev' = ev
      BY <1>5 DEF PushFail
    <3>6. ProducerTypes'
      BY <1>pt, <3>1, <3>2, <3>3, <3>4, <3>5, Zenon DEF ProducerTypes
    <3>7. QED
      BY <1>t, <1>ht, <3>5, <3>6, QuietTypes
  <2>2. QuietPush(p)
    BY <1>5, <1>pc, <1>ph, <1>pv, Zenon DEF PushFail, QuietPush
  <2>3. ProducerInv(p)'
    <3>1. pc'[p] = "idle"
      BY <1>5, <1>pc DEF PushFail
    <3>2. QED
      BY <3>1 DEF ProducerInv
  <2>4. QED
    BY <2>1, <2>2, <2>3, QuietPushKeepsIInv
<1>6. ASSUME PushLost(p) PROVE IInv'
  <2>1. TypeOK'
    <3>1. pc' \in [Producers -> ProducerStates]
      BY <1>6, <1>pc DEF PushLost, ProducerStates
    <3>2. pHead' \in [Producers -> 0..CounterMod-1]
      BY <1>6, <1>ph, <1>q DEF PushLost
    <3>3. pTail' \in [Producers -> 0..CounterMod-1]
      BY <1>6, <1>pt, <1>q DEF PushLost
    <3>4. UNCHANGED <<head, tail, entries, cpc, cHead, cVal, log, out, pVal, spin>> /\ ev' = ev
      BY <1>6 DEF PushLost
    <3>5. ProducerTypes'
      BY <1>pv, <1>sp, <3>1, <3>2, <3>3, <3>4, Zenon DEF ProducerTypes
    <3>6. QED
      BY <1>t, <1>ht, <3>4, <3>5, QuietTypes
  <2>2. QuietPush(p)
    BY <1>6, <1>pc, <1>ph, <1>pt DEF PushLost, QuietPush
  <2>3. ProducerInv(p)'
    <3>1. pc'[p] = "head" /\ pVal' = pVal
      BY <1>6, <1>pc DEF PushLost
    <3>2. pVal[p] \in Values
      BY <1>6, <1>p DEF PushLost, ProducerInv
    <3>3. QED
      BY <3>1, <3>2 DEF ProducerInv
  <2>4. QED
    BY <2>1, <2>2, <2>3, QuietPushKeepsIInv
<1>7. ASSUME Notify(p) PROVE IInv'
  <2>1. TypeOK'
    <3>1. pc' \in [Producers -> ProducerStates]
      BY <1>7, <1>pc DEF Notify, ProducerStates
    <3>2. UNCHANGED <<head, tail, entries, cpc, cHead, cVal, log, out, pHead, pTail, pVal, spin>> /\ ev' = TRUE
      BY <1>7 DEF Notify
    <3>3. ProducerTypes'
      BY <1>ph, <1>pt, <1>pv, <1>sp, <3>1, <3>2, Zenon DEF ProducerTypes
    <3>4. QED
      BY <1>t, <1>ht, <3>2, <3>3, QuietTypes
  <2>2. QuietPush(p)
    BY <1>7, <1>pc DEF Notify, QuietPush
  <2>3. ProducerInv(p)'
    <3>1. pc'[p] = "idle"
      BY <1>7, <1>pc DEF Notify
    <3>2. QED
      BY <3>1 DEF ProducerInv
  <2>4. QED
    BY <2>1, <2>2, <2>3, QuietPushKeepsIInv
<1>8. ASSUME Crash(p) PROVE IInv'
  <2>1. TypeOK'
    <3>1. pc' \in [Producers -> ProducerStates]
      BY <1>8, <1>pc DEF Crash, ProducerStates
    <3>2. pHead' \in [Producers -> 0..CounterMod-1]
      BY <1>8, <1>ph, <1>q DEF Crash
    <3>3. pTail' \in [Producers -> 0..CounterMod-1]
      BY <1>8, <1>pt, <1>q DEF Crash
    <3>4. pVal' \in [Producers -> Values \cup {NoEntry}]
      BY <1>8, <1>pv DEF Crash
    <3>5. spin' \in [Producers -> 0..MaxSpin]
      BY <1>8, <1>sp, <1>q DEF Crash
    <3>6. UNCHANGED <<head, tail, entries, cpc, cHead, cVal, log, out>> /\ ev' = ev
      BY <1>8 DEF Crash
    <3>7. ProducerTypes'
      BY <3>1, <3>2, <3>3, <3>4, <3>5, <3>6, Zenon DEF ProducerTypes
    <3>8. QED
      BY <1>t, <1>ht, <3>6, <3>7, QuietTypes
  <2>2. QuietPush(p)
    BY <1>8, <1>pc, <1>ph, <1>pt, <1>pv, Zenon DEF Crash, QuietPush
  <2>3. ProducerInv(p)'
    <3>1. pc'[p] = "dead"
      BY <1>8, <1>pc DEF Crash
    <3>2. QED
      BY <3>1 DEF ProducerInv
  <2>4. QED
    BY <2>1, <2>2, <2>3, QuietPushKeepsIInv
<1>9. QED
  BY <1>1, <1>2, <1>3, <1>4, <1>5, <1>6, <1>7, <1>8

(* Winning the compare-and-swap of Push preserves the invariant: the place *)
(* claimed is fresh and its entry empty.                                   *)
LEMMA PushClaimKeepsIInv ==
    ASSUME MaxPush < CounterMod, IInv, NEW p \in Producers, PushClaim(p)
    PROVE  IInv'
<1>. USE DEF producerVars, consumerVars
<1>t. TypeOK
  BY DEF IInv
<1>c. /\ head = Len(out) /\ tail = Len(log) /\ Len(out) <= Len(log)
      /\ \A i \in 1..Len(out) : out[i] = log[i]
  BY DEF IInv, CountersInv
<1>k. ConsumerInv
  BY DEF IInv
<1>r. RingInv
  BY DEF IInv
<1>p. \A r \in Producers : ProducerInv(r)
  BY DEF IInv
<1>q. /\ QueueSize \in Nat /\ QueueSize >= 2 /\ MaxSpin \in Nat /\ MaxPush \in Nat
      /\ CounterMod \in Nat /\ CounterMod >= QueueSize /\ NoEntry \notin Values
  BY QueueAssumption
<1>n. Len(log) \in Nat /\ Len(out) \in Nat /\ log \in Seq(Values) /\ out \in Seq(Values)
  BY <1>t DEF TypeOK
<1>pc. pc \in [Producers -> ProducerStates]
  BY <1>t, Zenon DEF TypeOK
<1>ph. pHead \in [Producers -> 0..CounterMod-1]
  BY <1>t, Zenon DEF TypeOK
<1>pt. pTail \in [Producers -> 0..CounterMod-1]
  BY <1>t, Zenon DEF TypeOK
<1>a. /\ pc' = [pc EXCEPT ![p] = "store"] /\ log' = Append(log, pVal[p])
      /\ pc[p] = "cas" /\ tail = pTail[p] /\ tail' = (tail + 1) % CounterMod
  BY DEF PushClaim
<1>u. UNCHANGED <<head, entries, ev, pHead, pTail, pVal, spin, cpc, cHead, cVal, out>>
  BY DEF PushClaim
<1>1. Len(log) - Len(out) < QueueSize - 1 /\ pVal[p] \in Values /\ pTail[p] = Len(log)
  <2>1. /\ pVal[p] \in Values /\ pHead[p] <= Len(out)
        /\ pTail[p] - pHead[p] < QueueSize - 1
    BY <1>a, <1>p DEF ProducerInv
  <2>2. pHead[p] \in Nat
    BY <1>ph, <1>q
  <2>3. QED
    BY <1>n, <1>q, <1>a, <1>c, <2>1, <2>2
<1>2. tail' = Len(log) + 1 /\ Len(log) + 1 <= MaxPush
  <2>1. Len(log) < MaxPush
    BY DEF PushClaim
  <2>2. Len(log) + 1 \in Nat /\ Len(log) + 1 <= MaxPush /\ Len(log) + 1 < CounterMod
    BY <1>n, <1>q, <2>1
  <2>3. (Len(log) + 1) % CounterMod = Len(log) + 1
    BY <1>q, <2>2, ModSmall
  <2>4. QED
    BY <1>a, <1>c, <2>2, <2>3
<1>3. log' \in Seq(Values) /\ Len(log') = Len(log) + 1
  BY <1>a, <1>n, <1>1
<1>4. log'[Len(log) + 1] = pVal[p] /\ \A i \in 1..Len(log) : log'[i] = log[i]
  BY <1>a, <1>n, <1>1
<1>5. entries[Index(Len(log))] = NoEntry
  <2>1. \A i \in Len(out)..Len(log)-1 : Index(i) # Index(Len(log))
    <3>1. SUFFICES ASSUME NEW i \in Len(out)..Len(log)-1 PROVE Index(i) # Index(Len(log))
      OBVIOUS
    <3>2. i \in Nat /\ i < Len(log) /\ Len(log) - i < QueueSize
      BY <1>n, <1>q, <1>1
    <3>3. QED
      BY <1>n, <3>2, IndexDistinct
  <2>2. Index(Len(log)) \in 0..QueueSize-1
    BY <1>n, IndexRange
  <2>3. QED
    BY <1>r, <2>1, <2>2, Zenon DEF RingInv
<1>6. TypeOK'
  <2>1. tail' \in 0..CounterMod-1
    BY <1>n, <1>q, <1>2
  <2>2. pc' \in [Producers -> ProducerStates]
    BY <1>a, <1>pc DEF ProducerStates
  <2>3. QED
    BY <1>t, <1>u, <1>3, <2>1, <2>2, Zenon DEF TypeOK
<1>7. CountersInv'
  <2>1. head' = Len(out') /\ tail' = Len(log')
    BY <1>u, <1>c, <1>2, <1>3
  <2>2. Len(out') <= Len(log') /\ Len(log') - Len(out') <= QueueSize - 1 /\ Len(log') <= MaxPush
    BY <1>u, <1>n, <1>q, <1>c, <1>1, <1>2, <1>3
  <2>3. \A i \in 1..Len(out) : i \in 1..Len(log)
    BY <1>n, <1>c
  <2>4. \A i \in 1..Len(out') : out'[i] = log'[i]
    BY <1>u, <1>c, <1>4, <2>3, Zenon
  <2>5. QED
    BY <2>1, <2>2, <2>4, Zenon DEF CountersInv
<1>8. ConsumerInv'
  <2>1. cpc \in {"clear", "advance"} => cHead + 1 \in 1..Len(log)
    BY <1>k, <1>n DEF ConsumerInv
  <2>2. cpc \in {"clear", "advance"} => log'[cHead + 1] = log[cHead + 1]
    BY <1>4, <2>1
  <2>3. cpc \in {"load", "clear", "advance"} => Len(out) < Len(log')
    BY <1>k, <1>n, <1>3 DEF ConsumerInv
  <2>4. QED
    BY <1>k, <1>u, <2>2, <2>3 DEF ConsumerInv
<1>9. RingInv'
  <2>1. ASSUME NEW i \in Len(out)..Len(log) PROVE entries[Index(i)] \in {NoEntry, log'[i + 1]}
    <3>1. CASE i = Len(log)
      BY <1>5, <3>1
    <3>2. CASE i # Len(log)
      <4>1. i \in Len(out)..Len(log)-1 /\ i + 1 \in 1..Len(log)
        BY <1>n, <3>2
      <4>2. entries[Index(i)] \in {NoEntry, log[i + 1]} /\ log'[i + 1] = log[i + 1]
        BY <1>r, <1>4, <4>1, Zenon DEF RingInv
      <4>3. QED
        BY <4>2
    <3>3. QED
      BY <3>1, <3>2
  <2>2. \A i \in Len(out)..Len(log)-1 : i \in Len(out)..Len(log)
    BY <1>n
  <2>3. \A j \in 0..QueueSize-1 :
           entries[j] # NoEntry => \E i \in Len(out)..Len(log) : Index(i) = j
    BY <1>r, <2>2, Zenon DEF RingInv
  <2>4. Len(log') - 1 = Len(log)
    BY <1>n, <1>3
  <2>5. QED
    BY <1>u, <2>1, <2>3, <2>4 DEF RingInv
<1>10. ASSUME NEW r \in Producers PROVE ProducerInv(r)'
  <2>1. ProducerInv(r) /\ pTail[r] \in Nat /\ pHead[r] \in Nat
    BY <1>p, <1>pt, <1>ph, <1>q
  <2>2. CASE r = p
    <3>1. pc'[r] = "store"
      BY <1>a, <1>pc, <2>2
    <3>2. cpc = "advance" => Len(log) # cHead
      BY <1>k, <1>n DEF ConsumerInv
    <3>3. Len(out) <= Len(log) /\ Len(log) < Len(log')
      BY <1>n, <1>c, <1>3
    <3>4. QED
      BY <1>u, <1>1, <1>4, <1>5, <2>2, <3>1, <3>2, <3>3 DEF ProducerInv
  <2>3. CASE r # p
    <3>1. pc'[r] = pc[r]
      BY <1>a, <1>pc, <2>3, Zenon
    <3>2. pc[r] = "store" => pTail[r] + 1 \in 1..Len(log) /\ pTail[r] < Len(log')
      BY <1>n, <1>3, <2>1 DEF ProducerInv
    <3>3. pc[r] = "store" => log'[pTail[r] + 1] = log[pTail[r] + 1]
      BY <1>4, <3>2, Zenon
    <3>4. pc[r] = "cas" => pTail[r] <= Len(log')
      BY <1>n, <1>3, <2>1 DEF ProducerInv
    <3>5. QED
      BY <1>u, <2>1, <3>1, <3>2, <3>3, <3>4 DEF ProducerInv
  <2>4. QED
    BY <2>2, <2>3
<1>11. ClaimsDistinct'
  <2>1. \A r \in Producers : r # p => pc'[r] = pc[r]
    BY <1>a, <1>pc
  <2>2. \A r \in Producers : pc[r] = "store" => pTail[r] # pTail[p]
    <3>1. SUFFICES ASSUME NEW r \in Producers, pc[r] = "store" PROVE pTail[r] # pTail[p]
      OBVIOUS
    <3>2. pTail[r] \in Nat /\ pTail[r] < Len(log)
      BY <1>p, <1>pt, <1>q, <3>1 DEF ProducerInv
    <3>3. QED
      BY <1>n, <1>1, <3>2
  <2>3. ClaimsDistinct
    BY DEF IInv
  <2>4. QED
    BY <1>u, <2>1, <2>2, <2>3, Zenon DEF ClaimsDistinct
<1>12. QED
  BY <1>6, <1>7, <1>8, <1>9, <1>10, <1>11 DEF IInv

(* The store that ends Push preserves the invariant: it fills the entry of *)
(* the place its producer claimed, and no other place has that entry.      *)
LEMMA PushStoreKeepsIInv ==
    ASSUME IInv, NEW p \in Producers, PushStore(p)
    PROVE  IInv'
<1>. USE DEF producerVars, consumerVars
<1>t. TypeOK
  BY DEF IInv
<1>k. ConsumerInv
  BY DEF IInv
<1>r. RingInv
  BY DEF IInv
<1>d. ClaimsDistinct
  BY DEF IInv
<1>p. \A r \in Producers : ProducerInv(r)
  BY DEF IInv
<1>q. /\ QueueSize \in Nat /\ QueueSize >= 2 /\ MaxSpin \in Nat /\ MaxPush \in Nat
      /\ CounterMod \in Nat /\ CounterMod >= QueueSize /\ NoEntry \notin Values
  BY QueueAssumption
<1>n. Len(log) \in Nat /\ Len(out) \in Nat /\ log \in Seq(Values) /\ out \in Seq(Values)
  BY <1>t DEF TypeOK
<1>pc. pc \in [Producers -> ProducerStates]
  BY <1>t, Zenon DEF TypeOK
<1>ph. pHead \in [Producers -> 0..CounterMod-1]
  BY <1>t, Zenon DEF TypeOK
<1>pt. pTail \in [Producers -> 0..CounterMod-1]
  BY <1>t, Zenon DEF TypeOK
<1>pv. pVal \in [Producers -> Values \cup {NoEntry}]
  BY <1>t, Zenon DEF TypeOK
<1>sp. spin \in [Producers -> 0..MaxSpin]
  BY <1>t, Zenon DEF TypeOK
<1>en. entries \in [0..QueueSize-1 -> Values \cup {NoEntry}]
  BY <1>t, Zenon DEF TypeOK
<1>tn. \A r \in Producers : pTail[r] \in Nat
  BY <1>pt, <1>q
<1>w. \A i, j \in Len(out)..Len(log)-1 : i # j => Index(i) # Index(j)
  BY <1>t, OutstandingDistinct DEF IInv
<1>x. \A i \in Nat : Index(i) \in 0..QueueSize-1
  BY IndexRange
<1>a. pc[p] = "store" /\ pc' = [pc EXCEPT ![p] = "notify"]
  BY DEF PushStore
<1>e. entries' = [entries EXCEPT ![Index(pTail[p])] = pVal[p]]
  BY DEF PushStore
<1>b. /\ pHead' = [pHead EXCEPT ![p] = 0] /\ pTail' = [pTail EXCEPT ![p] = 0]
      /\ pVal' = [pVal EXCEPT ![p] = NoEntry] /\ spin' = [spin EXCEPT ![p] = 0]
  BY DEF PushStore
<1>u. UNCHANGED <<head, tail, ev, cpc, cHead, cVal, log, out>>
  BY DEF PushStore
<1>1. /\ pTail[p] \in Len(out)..Len(log)-1 /\ pTail[p] \in Nat
      /\ log[pTail[p] + 1] = pVal[p] /\ pVal[p] \in Values
      /\ entries[Index(pTail[p])] = NoEntry
      /\ cpc = "advance" => pTail[p] # cHead
  BY <1>a, <1>p, <1>n, <1>tn DEF ProducerInv
<1>2. cpc \in {"clear", "advance"} => pTail[p] # cHead
  BY <1>k, <1>1 DEF ConsumerInv
<1>3. Index(pTail[p]) \in 0..QueueSize-1
  BY <1>x, <1>1
<1>4. entries'[Index(pTail[p])] = pVal[p]
  BY <1>e, <1>en, <1>3
<1>5. \A j \in 0..QueueSize-1 : j # Index(pTail[p]) => entries'[j] = entries[j]
  BY <1>e, <1>en, <1>3
<1>6. TypeOK'
  <2>1. entries' \in [0..QueueSize-1 -> Values \cup {NoEntry}]
    BY <1>e, <1>en, <1>1, <1>3
  <2>2. pc' \in [Producers -> ProducerStates]
    BY <1>a, <1>pc DEF ProducerStates
  <2>3. pHead' \in [Producers -> 0..CounterMod-1]
    BY <1>b, <1>ph, <1>q
  <2>4. pTail' \in [Producers -> 0..CounterMod-1]
    BY <1>b, <1>pt, <1>q
  <2>5. pVal' \in [Producers -> Values \cup {NoEntry}]
    BY <1>b, <1>pv
  <2>6. spin' \in [Producers -> 0..MaxSpin]
    BY <1>b, <1>sp, <1>q
  <2>7. QED
    BY <1>t, <1>u, <2>1, <2>2, <2>3, <2>4, <2>5, <2>6, Zenon DEF TypeOK
<1>7. CountersInv'
  BY <1>u, Zenon DEF IInv, CountersInv
<1>8. ConsumerInv'
  <2>1. cpc \in {"clear", "advance"} => cHead \in Len(out)..Len(log)-1
    BY <1>k, <1>n DEF ConsumerInv
  <2>2. cpc \in {"clear", "advance"} => Index(cHead) # Index(pTail[p])
    BY <1>w, <1>1, <1>2, <2>1, Zenon
  <2>3. cpc \in {"clear", "advance"} => Index(cHead) \in 0..QueueSize-1
    BY <1>x, <1>n, <2>1
  <2>4. cpc \in {"clear", "advance"} => entries'[Index(cHead)] = entries[Index(cHead)]
    BY <1>5, <2>2, <2>3, Zenon
  <2>5. QED
    BY <1>k, <1>u, <2>4 DEF ConsumerInv
<1>9. RingInv'
  <2>1. ASSUME NEW i \in Len(out)..Len(log)-1 PROVE entries'[Index(i)] \in {NoEntry, log[i + 1]}
    <3>1. CASE i = pTail[p]
      BY <1>1, <1>4, <3>1
    <3>2. CASE i # pTail[p]
      <4>1. Index(i) # Index(pTail[p])
        BY <1>w, <1>1, <3>2, Zenon
      <4>2. Index(i) \in 0..QueueSize-1
        BY <1>x, <1>n
      <4>3. QED
        BY <1>5, <1>r, <4>1, <4>2, Zenon DEF RingInv
    <3>3. QED
      BY <3>1, <3>2
  <2>2. ASSUME NEW j \in 0..QueueSize-1, entries'[j] # NoEntry
        PROVE  \E i \in Len(out)..Len(log)-1 : Index(i) = j
    <3>1. CASE j = Index(pTail[p])
      BY <1>1, <3>1, Zenon
    <3>2. CASE j # Index(pTail[p])
      BY <1>5, <1>r, <2>2, <3>2, Zenon DEF RingInv
    <3>3. QED
      BY <3>1, <3>2
  <2>3. QED
    BY <1>u, <2>1, <2>2, Zenon DEF RingInv
<1>10. ASSUME NEW r \in Producers PROVE ProducerInv(r)'
  <2>1. CASE r = p
    <3>1. pc'[r] = "notify"
      BY <1>a, <1>pc, <2>1, Zenon
    <3>2. QED
      BY <3>1 DEF ProducerInv
  <2>2. CASE r # p
    <3>1. /\ pc'[r] = pc[r] /\ pHead'[r] = pHead[r]
          /\ pTail'[r] = pTail[r] /\ pVal'[r] = pVal[r]
      BY <1>a, <1>b, <1>pc, <1>ph, <1>pt, <1>pv, <2>2, Zenon
    <3>2. ProducerInv(r) /\ pTail[r] \in Nat
      BY <1>p, <1>tn, Zenon
    <3>3. pc[r] = "store" => pTail[r] \in Len(out)..Len(log)-1
      BY <1>n, <3>2 DEF ProducerInv
    <3>4. pc[r] = "store" => pTail[r] # pTail[p]
      BY <1>d, <1>a, <2>2, Zenon DEF ClaimsDistinct
    <3>5. pc[r] = "store" => Index(pTail[r]) # Index(pTail[p])
      BY <1>w, <1>1, <3>3, <3>4, Zenon
    <3>6. pc[r] = "store" => entries'[Index(pTail[r])] = entries[Index(pTail[r])]
      BY <1>5, <1>x, <3>2, <3>5, Zenon
    <3>7. QED
      BY <1>u, <3>1, <3>2, <3>6 DEF ProducerInv
  <2>3. QED
    BY <2>1, <2>2
<1>11. ClaimsDistinct'
  <2>1. pc'[p] # "store"
    BY <1>a, <1>pc
  <2>2. \A r \in Producers : r # p => pc'[r] = pc[r] /\ pTail'[r] = pTail[r]
    BY <1>a, <1>b, <1>pc, <1>pt
  <2>3. QED
    BY <1>d, <2>1, <2>2, Zenon DEF ClaimsDistinct
<1>12. QED
  BY <1>6, <1>7, <1>8, <1>9, <1>10, <1>11 DEF IInv

(* Every step of a producer (Push, Notify, being killed) preserves the     *)
(* invariant.                                                              *)
LEMMA PushKeepsIInv ==
    ASSUME MaxPush < CounterMod, IInv, NEW q \in Producers,
           \/ \E v \in Values : PushCall(q, v)
           \/ Push(q) \/ Notify(q) \/ Crash(q)
    PROVE  IInv'
  BY QuietStepKeepsIInv, PushClaimKeepsIInv, PushStoreKeepsIInv, Zenon DEF Push

=============================================================================
