----------------------------- MODULE MpscQueue -----------------------------
(***************************************************************************)
(* One command queue of the control stripe (shm.Control.Push and Pop, and  *)
(* their Rust counterparts), with the eventfd that its producers signal    *)
(* and its single consumer sleeps on.  The response queue has the hub's    *)
(* dispatchLoop as its consumer and every node as a producer; a request    *)
(* queue has one node as its consumer and the hub's goroutines as          *)
(* producers.                                                              *)
(*                                                                         *)
(* Every atomic access to shared memory is a step of its own.  A command   *)
(* is a member of Values, and an entry whose ready bit is clear is         *)
(* NoEntry.  head and tail are unsigned counters that wrap at CounterMod   *)
(* (2^32 in the code) and the entry of counter n is n % QueueSize.         *)
(***************************************************************************)
EXTENDS Integers, Sequences

CONSTANTS Producers,    \* goroutines or threads that call Push
          Crashable,    \* the producers whose process may be killed
          Values,       \* commands
          NoEntry,      \* an entry without the ready bit
          QueueSize,    \* entries in the ring (510)
          CounterMod,   \* where head and tail wrap (2^32)
          MaxSpin,      \* spins on a full queue before Push returns false
          PopGivesUp,   \* TRUE: Rust's pop, which stops spinning; FALSE: Go's
          MaxPush       \* bound: successful claims in a behaviour

ASSUME QueueAssumption ==
    /\ Crashable \subseteq Producers
    /\ NoEntry \notin Values
    /\ QueueSize \in Nat /\ QueueSize >= 2
    /\ CounterMod \in Nat /\ CounterMod >= QueueSize
    /\ MaxSpin \in Nat
    /\ PopGivesUp \in BOOLEAN
    /\ MaxPush \in Nat

VARIABLES
    head, tail,   \* the counters in the queue's header
    entries,      \* the ring
    ev,           \* the eventfd counter is not zero
    pc,           \* where each producer is in Push, and in the Notify after it
    pHead, pTail, \* its copies of head and tail
    pVal,         \* its command
    spin,         \* its spins on a full queue
    cpc,          \* where the consumer is in its loop
    cHead, cVal,  \* its copy of head, the entry it took
    log,          \* history: commands in the order their places were claimed
    out           \* history: commands in the order Pop returned them

producerVars == <<pc, pHead, pTail, pVal, spin>>
consumerVars == <<cpc, cHead, cVal>>
vars == <<head, tail, entries, ev, producerVars, consumerVars, log, out>>

ProducerStates == {"idle", "head", "tail", "cas", "store", "notify", "dead"}
ConsumerStates == {"pop", "tail", "load", "clear", "advance", "wait"}

(* The ring entry of counter n. *)
Index(n) == n % QueueSize

Init ==
    /\ head = 0 /\ tail = 0
    /\ entries = [i \in 0..QueueSize-1 |-> NoEntry]
    /\ ev = FALSE
    /\ pc = [p \in Producers |-> "idle"]
    /\ pHead = [p \in Producers |-> 0]
    /\ pTail = [p \in Producers |-> 0]
    /\ pVal = [p \in Producers |-> NoEntry]
    /\ spin = [p \in Producers |-> 0]
    /\ cpc \in {"pop", "wait"}      \* the hub pops first, a node waits first
    /\ cHead = 0 /\ cVal = NoEntry
    /\ log = <<>> /\ out = <<>>
-----------------------------------------------------------------------------
(* Push, one shared access at a time. *)

PushCall(p, v) ==
    /\ pc[p] = "idle"
    /\ Len(log) < MaxPush
    /\ pc' = [pc EXCEPT ![p] = "head"]
    /\ pVal' = [pVal EXCEPT ![p] = v]
    /\ UNCHANGED <<head, tail, entries, ev, pHead, pTail, spin, consumerVars, log, out>>

PushReadHead(p) ==
    /\ pc[p] = "head"
    /\ pHead' = [pHead EXCEPT ![p] = head]
    /\ pc' = [pc EXCEPT ![p] = "tail"]
    /\ UNCHANGED <<head, tail, entries, ev, pTail, pVal, spin, consumerVars, log, out>>

(* Mutated form of Full: a bound two places too high. *)
FullTooLate(p) == (tail - pHead[p]) % CounterMod > QueueSize

(* The comparison is unsigned: tail - head wraps, and head may be stale. *)
Full(p) == (tail - pHead[p]) % CounterMod >= QueueSize - 1

PushReadTail(p) ==
    /\ pc[p] = "tail"
    /\ ~Full(p)
    /\ pTail' = [pTail EXCEPT ![p] = tail]
    /\ pc' = [pc EXCEPT ![p] = "cas"]
    /\ UNCHANGED <<head, tail, entries, ev, pHead, pVal, spin, consumerVars, log, out>>

(* Mutated form of PushSpin: the number of spins is not limited. *)
PushSpinUnlimited(p) ==
    /\ pc[p] = "tail"
    /\ Full(p)
    /\ spin[p] <= MaxSpin
    /\ spin' = [spin EXCEPT ![p] = @ + 1]
    /\ pHead' = [pHead EXCEPT ![p] = 0]
    /\ pc' = [pc EXCEPT ![p] = "head"]
    /\ UNCHANGED <<head, tail, entries, ev, pTail, pVal, consumerVars, log, out>>

(* The queue looks full: read the counters again. *)
PushSpin(p) ==
    /\ pc[p] = "tail"
    /\ Full(p)
    /\ spin[p] < MaxSpin
    /\ spin' = [spin EXCEPT ![p] = @ + 1]
    /\ pHead' = [pHead EXCEPT ![p] = 0]
    /\ pc' = [pc EXCEPT ![p] = "head"]
    /\ UNCHANGED <<head, tail, entries, ev, pTail, pVal, consumerVars, log, out>>

PushFail(p) ==
    /\ pc[p] = "tail"
    /\ Full(p)
    /\ spin[p] >= MaxSpin
    /\ spin' = [spin EXCEPT ![p] = 0]
    /\ pHead' = [pHead EXCEPT ![p] = 0]
    /\ pVal' = [pVal EXCEPT ![p] = NoEntry]
    /\ pc' = [pc EXCEPT ![p] = "idle"]
    /\ UNCHANGED <<head, tail, entries, ev, pTail, consumerVars, log, out>>

(* Mutated form of PushClaim: tail is written without comparing it. *)
PushClaimBlind(p) ==
    /\ pc[p] = "cas"
    /\ Len(log) < MaxPush
    /\ tail' = (pTail[p] + 1) % CounterMod
    /\ log' = Append(log, pVal[p])
    /\ pc' = [pc EXCEPT ![p] = "store"]
    /\ UNCHANGED <<head, entries, ev, pHead, pTail, pVal, spin, consumerVars, out>>

(* The compare-and-swap on tail claims the entry of the old tail. *)
PushClaim(p) ==
    /\ pc[p] = "cas"
    /\ tail = pTail[p]
    /\ Len(log) < MaxPush
    /\ tail' = (tail + 1) % CounterMod
    /\ log' = Append(log, pVal[p])
    /\ pc' = [pc EXCEPT ![p] = "store"]
    /\ UNCHANGED <<head, entries, ev, pHead, pTail, pVal, spin, consumerVars, out>>

PushLost(p) ==
    /\ pc[p] = "cas"
    /\ tail # pTail[p]
    /\ pHead' = [pHead EXCEPT ![p] = 0]
    /\ pTail' = [pTail EXCEPT ![p] = 0]
    /\ pc' = [pc EXCEPT ![p] = "head"]
    /\ UNCHANGED <<head, tail, entries, ev, pVal, spin, consumerVars, log, out>>

PushStore(p) ==
    /\ pc[p] = "store"
    /\ entries' = [entries EXCEPT ![Index(pTail[p])] = pVal[p]]
    /\ pHead' = [pHead EXCEPT ![p] = 0]
    /\ pTail' = [pTail EXCEPT ![p] = 0]
    /\ pVal' = [pVal EXCEPT ![p] = NoEntry]
    /\ spin' = [spin EXCEPT ![p] = 0]
    /\ pc' = [pc EXCEPT ![p] = "notify"]
    /\ UNCHANGED <<head, tail, ev, consumerVars, log, out>>

(* Mutated form of Notify: the eventfd is not written. *)
NotifyNobody(p) ==
    /\ pc[p] = "notify"
    /\ pc' = [pc EXCEPT ![p] = "idle"]
    /\ UNCHANGED <<head, tail, entries, ev, pHead, pTail, pVal, spin, consumerVars, log, out>>

(* Every caller signals the consumer's eventfd after a successful Push. *)
Notify(p) ==
    /\ pc[p] = "notify"
    /\ ev' = TRUE
    /\ pc' = [pc EXCEPT ![p] = "idle"]
    /\ UNCHANGED <<head, tail, entries, pHead, pTail, pVal, spin, consumerVars, log, out>>

(* The producer's process is killed, between any two of its steps. *)
Crash(p) ==
    /\ p \in Crashable
    /\ pc[p] # "dead"
    /\ pc' = [pc EXCEPT ![p] = "dead"]
    /\ pHead' = [pHead EXCEPT ![p] = 0]
    /\ pTail' = [pTail EXCEPT ![p] = 0]
    /\ pVal' = [pVal EXCEPT ![p] = NoEntry]
    /\ spin' = [spin EXCEPT ![p] = 0]
    /\ UNCHANGED <<head, tail, entries, ev, consumerVars, log, out>>
-----------------------------------------------------------------------------
(* The consumer pops until the queue is empty, then waits. *)

PopReadHead ==
    /\ cpc = "pop"
    /\ cHead' = head
    /\ cpc' = "tail"
    /\ UNCHANGED <<head, tail, entries, ev, producerVars, cVal, log, out>>

PopReadTail ==
    /\ cpc = "tail"
    /\ cpc' = IF cHead = tail THEN "wait" ELSE "load"
    /\ UNCHANGED <<head, tail, entries, ev, producerVars, cHead, cVal, log, out>>

(* Mutated form of PopLoad: the entry is found from tail, not from head. *)
PopLoadNewest ==
    /\ cpc = "load"
    /\ entries[Index(tail - 1)] # NoEntry
    /\ cVal' = entries[Index(tail - 1)]
    /\ cpc' = "clear"
    /\ UNCHANGED <<head, tail, entries, ev, producerVars, cHead, log, out>>

(* Go spins on this load until the ready bit is set. *)
PopLoad ==
    /\ cpc = "load"
    /\ entries[Index(cHead)] # NoEntry
    /\ cVal' = entries[Index(cHead)]
    /\ cpc' = "clear"
    /\ UNCHANGED <<head, tail, entries, ev, producerVars, cHead, log, out>>

(* Rust stops after a million loads and reports an empty queue. *)
PopTimeout ==
    /\ PopGivesUp
    /\ cpc = "load"
    /\ entries[Index(cHead)] = NoEntry
    /\ cpc' = "wait"
    /\ UNCHANGED <<head, tail, entries, ev, producerVars, cHead, cVal, log, out>>

(* The ready bit is cleared before head moves past the entry. *)
PopClear ==
    /\ cpc = "clear"
    /\ entries' = [entries EXCEPT ![Index(cHead)] = NoEntry]
    /\ cpc' = "advance"
    /\ UNCHANGED <<head, tail, ev, producerVars, cHead, cVal, log, out>>

PopAdvance ==
    /\ cpc = "advance"
    /\ head' = (cHead + 1) % CounterMod
    /\ out' = Append(out, cVal)
    /\ cVal' = NoEntry
    /\ cpc' = "pop"
    /\ UNCHANGED <<tail, entries, ev, producerVars, cHead, log>>

(* Reading the eventfd blocks while it is zero and resets it. *)
Wait ==
    /\ cpc = "wait"
    /\ ev
    /\ ev' = FALSE
    /\ cpc' = "pop"
    /\ UNCHANGED <<head, tail, entries, producerVars, cHead, cVal, log, out>>
-----------------------------------------------------------------------------
Push(p) ==
    \/ PushReadHead(p) \/ PushReadTail(p) \/ PushSpin(p) \/ PushFail(p)
    \/ PushClaim(p) \/ PushLost(p) \/ PushStore(p)

Pop == PopReadHead \/ PopReadTail \/ PopLoad \/ PopTimeout \/ PopClear \/ PopAdvance

Next ==
    \/ \E p \in Producers : \/ \E v \in Values : PushCall(p, v)
                            \/ Push(p) \/ Notify(p) \/ Crash(p)
    \/ Pop \/ Wait

Spec == Init /\ [][Next]_vars

(* A thread that has started Push or Notify is scheduled until it returns, *)
(* and so is the consumer's loop.  No caller has to call Push.             *)
Fairness ==
    /\ \A p \in Producers : WF_vars(Push(p) \/ Notify(p))
    /\ WF_vars(Pop \/ Wait)

FairSpec == Spec /\ Fairness
-----------------------------------------------------------------------------
(* Counters stay in their width, entries hold commands, and no Push goes   *)
(* round its loop on a full queue more often than its spin limit.          *)
TypeOK ==
    /\ head \in 0..CounterMod-1 /\ tail \in 0..CounterMod-1
    /\ entries \in [0..QueueSize-1 -> Values \cup {NoEntry}]
    /\ ev \in BOOLEAN
    /\ pc \in [Producers -> ProducerStates]
    /\ pHead \in [Producers -> 0..CounterMod-1]
    /\ pTail \in [Producers -> 0..CounterMod-1]
    /\ pVal \in [Producers -> Values \cup {NoEntry}]
    /\ spin \in [Producers -> 0..MaxSpin]
    /\ cpc \in ConsumerStates
    /\ cHead \in 0..CounterMod-1
    /\ cVal \in Values \cup {NoEntry}
    /\ log \in Seq(Values) /\ out \in Seq(Values)

(* A producer that has claimed a place finds its entry empty: the store at *)
(* the end of Push never overwrites a command that Pop has not taken, and  *)
(* no two producers are about to store into the same entry.                *)
NoOverwrite ==
    \A p \in Producers : pc[p] = "store" =>
        /\ entries[Index(pTail[p])] = NoEntry
        /\ \A r \in Producers \ {p} :
              pc[r] = "store" => Index(pTail[r]) # Index(pTail[p])

(* Pop returns commands in the order in which Push claimed their places:   *)
(* none is lost, none is returned twice, none is made up.                  *)
InOrder == Len(out) <= Len(log) /\ \A i \in 1..Len(out) : out[i] = log[i]

(* Some producer has been killed; it may have been inside Push. *)
Killed == \E p \in Producers : pc[p] = "dead"

(* The consumer never sleeps on a command nobody will wake it for: when it *)
(* waits on a cleared eventfd while commands are outstanding, a producer   *)
(* is still on its way to Notify, unless one was killed on that way.       *)
NoMissedWakeup ==
    cpc = "wait" /\ ~ev /\ Len(out) < Len(log)
        => Killed \/ \E p \in Producers : pc[p] \in {"store", "notify"}

(* The commands claimed and not yet returned, as the abstract queue. *)
Outstanding == [i \in 1..(Len(log) - Len(out)) |-> log[Len(out) + i]]

FIFO == INSTANCE FifoQueue WITH q <- Outstanding, delivered <- out,
                                Capacity <- QueueSize - 1

(* Push and Pop, with all their interleavings, implement a bounded FIFO    *)
(* queue: a Push takes effect at its compare-and-swap and a Pop when it    *)
(* advances head.                                                          *)
ImplementsFifo == FIFO!Spec

(* Every command whose place was claimed is eventually returned by Pop,    *)
(* also by a Pop that gives up on entries that are not published yet,      *)
(* unless a producer was killed.  (No behaviour has more than MaxPush      *)
(* commands, so the queue that is emptied again and again misses none.)    *)
EventuallyPopped == []<>(Killed \/ Len(out) = Len(log))

(* A command that is published and signalled is eventually taken from the  *)
(* ring, whatever happens to the producers of the other commands.          *)
SurvivorsServed ==
    \A i \in 0..QueueSize-1 : entries[i] # NoEntry /\ ev ~> entries[i] = NoEntry
=============================================================================
