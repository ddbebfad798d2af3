---------------------------- MODULE NodeLifecycle ----------------------------
(***************************************************************************)
(* Nodes that come and go: Hub.Dial gives a connection to a node process   *)
(* (a session) a node ID and a name, Next hands stripes to it, its process *)
(* may die at any moment, and the watchdog of the session frees what the   *)
(* dead node had (CleanupResources), its ID and its name, step by step,    *)
(* while other goroutines go on.                                           *)
(*                                                                         *)
(* The stripe registry, the request queues and the node IDs outlive the    *)
(* sessions that used them: a freed slot keeps its last owner and header,  *)
(* a request queue belongs to the ID and is not emptied, and the lowest    *)
(* free ID is given out again at once.  A stripe is its header block here. *)
(*                                                                         *)
(* Windows names the overlaps that a behaviour may have:                   *)
(*   "held"    a process dies that has answered the last Next of a         *)
(*             connection that is still open;                              *)
(*   "enter"   a process dies while a call of Next is on its way to it;    *)
(*   "late"    Next looks up a session whose process is dead;              *)
(*   "slot"    a watchdog looks at a slot that allocSlot has not set yet;  *)
(*   "redial"  a name is dialled that a session still has;                 *)
(*   "connect" a process dies before it has got the handshake.             *)
(***************************************************************************)
EXTENDS Integers, Sequences, FiniteSets

CONSTANTS Names, Sessions, Conns, Blocks, None,
          MaxNodes,       \* node IDs are 1..MaxNodes-1 (64)
          MaxTotalSlots,  \* slots of the registry are 1..MaxTotalSlots (4096)
          MaxHops,        \* bound: calls of Next
          Windows

ASSUME LifecycleAssumption ==
    /\ None \notin Sessions \cup Conns \cup Blocks
    /\ MaxNodes \in Nat \ {0, 1} /\ MaxTotalSlots \in Nat \ {0} /\ MaxHops \in Nat
    /\ Windows \subseteq {"held", "enter", "late", "slot", "redial", "connect"}

IDs == 1..MaxNodes - 1
Slots == 1..MaxTotalSlots

VARIABLES
    nodeIDs,   \* Hub.nodeIDs: the IDs given out
    nodes,     \* Hub.nodes: the session of each name
    sess,      \* each session: Dial and watchdog, its ID and name
    alive,     \* the sessions whose process runs
    ev,        \* the sessions whose eventfd was signalled
    reg,       \* the stripe registry
    free,      \* free blocks
    conn,      \* the connections and where they are in Next
    waiters,   \* Hub.waiters
    hops,      \* calls of Next made
    done,      \* connections whose done channel holds an answer
    reqQ,      \* the request queue of each ID
    respQ,     \* the response queue
    tasks      \* tasks at the nodes: <<session, slot, connection it is for, state>>

hubVars == <<nodeIDs, nodes, sess>>
nodeVars == <<alive, ev, tasks>>
stripeVars == <<reg, free, conn, waiters, done, hops>>
vars == <<hubVars, nodeVars, stripeVars, reqQ, respQ>>

Init ==
    /\ nodeIDs = {}
    /\ nodes = [n \in Names |-> None]
    /\ sess = [s \in Sessions |-> [pc |-> "new", id |-> 0, name |-> None, i |-> 0, blk |-> None]]
    /\ alive = Sessions /\ ev = {}
    /\ reg = [i \in Slots |-> [status |-> "idle", owner |-> 0, hdr |-> None]]
    /\ free = Blocks
    /\ conn = [c \in Conns |-> [pc |-> "new", slot |-> 0, blk |-> None, node |-> None]]
    /\ hops = 0
    /\ waiters = [i \in Slots |-> None]
    /\ done = {}
    /\ reqQ = [k \in IDs |-> <<>>] /\ respQ = <<>>
    /\ tasks = {}

(***************************************************************************)
(* Dial.                                                                   *)
(***************************************************************************)
LowestFree == CHOOSE k \in IDs \ nodeIDs : \A j \in IDs \ nodeIDs : k <= j

(* Mutated form of DialId: the ID is not marked as taken. *)
DialIdUnmarked(s, n) ==
    /\ sess[s].pc = "new" /\ s \in alive
    /\ IDs \ nodeIDs # {}
    /\ sess' = [sess EXCEPT ![s].pc = "id", ![s].id = LowestFree, ![s].name = n]
    /\ UNCHANGED <<nodeIDs, nodes, nodeVars, stripeVars, reqQ, respQ>>

(* allocNodeID; without a free ID Dial returns and nothing has happened. *)
DialId(s, n) ==
    /\ sess[s].pc = "new" /\ s \in alive
    /\ "redial" \in Windows \/ \A r \in Sessions : sess[r].name # n \/ sess[r].pc = "closed"
    /\ IDs \ nodeIDs # {}
    /\ nodeIDs' = nodeIDs \cup {LowestFree}
    /\ sess' = [sess EXCEPT ![s].pc = "id", ![s].id = LowestFree, ![s].name = n]
    /\ UNCHANGED <<nodes, nodeVars, stripeVars, reqQ, respQ>>

(* The handshake is sent, the name is entered, the watchdog starts.  The   *)
(* process may have died since the handshake.                              *)
DialRegister(s) ==
    /\ sess[s].pc = "id"
    /\ nodes' = [nodes EXCEPT ![sess[s].name] = s]
    /\ sess' = [sess EXCEPT ![s].pc = "up"]
    /\ UNCHANGED <<nodeIDs, nodeVars, stripeVars, reqQ, respQ>>

(* The handshake cannot be sent: Dial returns the error and keeps the ID. *)
DialFail(s) ==
    /\ sess[s].pc = "id" /\ s \notin alive
    /\ sess' = [sess EXCEPT ![s].pc = "failed"]
    /\ UNCHANGED <<nodeIDs, nodes, nodeVars, stripeVars, reqQ, respQ>>

(***************************************************************************)
(* A process dies, and its watchdog reads an error.                        *)
(***************************************************************************)
(* A call of Next is on its way to s, or its command is. *)
Entering(s) ==
    \/ reqQ[sess[s].id] # <<>>
    \/ \E c \in Conns : /\ conn[c].pc \in {"slot", "set", "check", "push", "notify"}
                        /\ conn[c].node = s

(* A connection has, or will get, its stripe back from s, and the registry *)
(* still has s as its owner.                                               *)
HandedBack(s) ==
    \E c \in Conns : /\ conn[c].slot # 0 /\ conn[c].pc \in {"own", "check", "wait"}
                     /\ reg[conn[c].slot].owner = sess[s].id
                     /\ \A t \in tasks : t[1] # s \/ t[2] # conn[c].slot

Die(s) ==
    /\ s \in alive /\ sess[s].pc \in {"id", "up"}
    /\ sess[s].pc = "id" => "connect" \in Windows
    /\ "held" \in Windows \/ ~HandedBack(s)
    /\ "enter" \in Windows \/ ~Entering(s)
    /\ alive' = alive \ {s}
    /\ tasks' = {t \in tasks : t[1] # s}
    /\ UNCHANGED <<hubVars, ev, stripeVars, reqQ, respQ>>

(* CleanupResources, from slot 0, which is never in use, to the last but   *)
(* one.                                                                    *)
CleanupStart(s) ==
    /\ sess[s].pc = "up" /\ s \notin alive
    /\ sess' = [sess EXCEPT ![s].pc = "scan", ![s].i = 1]
    /\ UNCHANGED <<nodeIDs, nodes, nodeVars, stripeVars, reqQ, respQ>>

(* Mutated form of CleanupScan: the scan stays at a slot of another owner. *)
CleanupScanStays(s) ==
    /\ sess[s].pc = "scan" /\ sess[s].i < MaxTotalSlots
    /\ "slot" \in Windows \/ \A c \in Conns : conn[c].pc = "set" => conn[c].slot # sess[s].i
    /\ LET e == reg[sess[s].i]
       IN sess' = IF e.status # "idle" /\ e.owner = sess[s].id
                  THEN [sess EXCEPT ![s].pc = "slot", ![s].blk = e.hdr]
                  ELSE [sess EXCEPT ![s].i = IF e.status = "idle" THEN @ + 1 ELSE @]
    /\ UNCHANGED <<nodeIDs, nodes, nodeVars, stripeVars, reqQ, respQ>>

(* Reads status, owner and header of a slot. *)
CleanupScan(s) ==
    /\ sess[s].pc = "scan" /\ sess[s].i < MaxTotalSlots
    /\ "slot" \in Windows \/ \A c \in Conns : conn[c].pc = "set" => conn[c].slot # sess[s].i
    /\ LET e == reg[sess[s].i]
       IN sess' = IF e.status # "idle" /\ e.owner = sess[s].id
                  THEN [sess EXCEPT ![s].pc = "slot", ![s].blk = e.hdr]
                  ELSE [sess EXCEPT ![s].i = @ + 1]
    /\ UNCHANGED <<nodeIDs, nodes, nodeVars, stripeVars, reqQ, respQ>>

(* Mutated form of CleanupFree: the slot stays as it is. *)
CleanupFreeBlocks(s) ==
    /\ sess[s].pc = "slot"
    /\ free' = free \cup {sess[s].blk}
    /\ sess' = [sess EXCEPT ![s].pc = "scan", ![s].i = @ + 1, ![s].blk = None]
    /\ UNCHANGED <<nodeIDs, nodes, nodeVars, reg, conn, waiters, done, hops, reqQ, respQ>>

(* Frees the blocks and the slot. *)
CleanupFree(s) ==
    /\ sess[s].pc = "slot"
    /\ free' = free \cup {sess[s].blk}
    /\ reg' = [reg EXCEPT ![sess[s].i].status = "idle"]
    /\ sess' = [sess EXCEPT ![s].pc = "scan", ![s].i = @ + 1, ![s].blk = None]
    /\ UNCHANGED <<nodeIDs, nodes, nodeVars, conn, waiters, done, hops, reqQ, respQ>>

(* Mutated form of FreeId: the ID is free before the slots are. *)
FreeIdEarly(s) ==
    /\ sess[s].pc = "scan" /\ sess[s].id \in nodeIDs
    /\ nodeIDs' = nodeIDs \ {sess[s].id}
    /\ sess' = [sess EXCEPT ![s].pc = IF sess[s].i = MaxTotalSlots THEN "name" ELSE "scan"]
    /\ UNCHANGED <<nodes, nodeVars, stripeVars, reqQ, respQ>>

FreeId(s) ==
    /\ sess[s].pc = "scan" /\ sess[s].i = MaxTotalSlots
    /\ nodeIDs' = nodeIDs \ {sess[s].id}
    /\ sess' = [sess EXCEPT ![s].pc = "name"]
    /\ UNCHANGED <<nodes, nodeVars, stripeVars, reqQ, respQ>>

(* Mutated form of DeleteName: the entries are found by their ID. *)
DeleteNameById(s) ==
    /\ sess[s].pc = "name"
    /\ nodes' = [n \in Names |-> IF nodes[n] # None /\ sess[nodes[n]].id = sess[s].id
                                 THEN None ELSE nodes[n]]
    /\ sess' = [sess EXCEPT ![s].pc = "ev"]
    /\ UNCHANGED <<nodeIDs, nodeVars, stripeVars, reqQ, respQ>>

(* delete(h.nodes, name), whoever has the name by now. *)
DeleteName(s) ==
    /\ sess[s].pc = "name"
    /\ nodes' = [nodes EXCEPT ![sess[s].name] = None]
    /\ sess' = [sess EXCEPT ![s].pc = "ev"]
    /\ UNCHANGED <<nodeIDs, nodeVars, stripeVars, reqQ, respQ>>

closeEventfd(s) ==
    /\ sess[s].pc = "ev"
    /\ sess' = [sess EXCEPT ![s].pc = "closed"]
    /\ UNCHANGED <<nodeIDs, nodes, nodeVars, stripeVars, reqQ, respQ>>

(***************************************************************************)
(* Connections.                                                            *)
(***************************************************************************)
Request(c) ==
    /\ conn[c].pc = "new"
    /\ \E b \in free :
         /\ free' = free \ {b}
         /\ conn' = [conn EXCEPT ![c].pc = "own", ![c].blk = b]
    /\ UNCHANGED <<hubVars, nodeVars, reg, waiters, done, hops, reqQ, respQ>>

NextLookup(c, n) ==
    /\ conn[c].pc = "own" /\ hops < MaxHops /\ hops' = hops + 1
    /\ nodes[n] # None
    /\ "late" \in Windows \/ nodes[n] \in alive
    /\ conn' = [conn EXCEPT ![c].pc = IF conn[c].slot = 0 THEN "slot" ELSE "check",
                            ![c].node = nodes[n]]
    /\ UNCHANGED <<hubVars, nodeVars, reg, free, waiters, done, reqQ, respQ>>

(* allocSlot waits for a token of Hub.limit, which Close gives back.  Then *)
(* AllocSlot makes the status busy; owner and header stay for now.         *)
AllocSlot(c, i) ==
    /\ conn[c].pc = "slot" /\ reg[i].status = "idle"
    /\ Cardinality({d \in Conns : conn[d].slot # 0 /\ conn[d].pc # "closed"}) < MaxTotalSlots
    /\ reg' = [reg EXCEPT ![i].status = "busy"]
    /\ conn' = [conn EXCEPT ![c].pc = "set", ![c].slot = i]
    /\ UNCHANGED <<hubVars, nodeVars, free, waiters, done, hops, reqQ, respQ>>

(* SetStripe at the end of allocSlot. *)
AllocSlotSet(c) ==
    /\ conn[c].pc = "set"
    /\ reg' = [reg EXCEPT ![conn[c].slot] = [status |-> "ready", owner |-> 0, hdr |-> conn[c].blk]]
    /\ conn' = [conn EXCEPT ![c].pc = "check"]
    /\ UNCHANGED <<hubVars, nodeVars, free, waiters, done, hops, reqQ, respQ>>

(* When the slot is ready or done it gets its new owner, and a waiter; if  *)
(* it is not for a second, Next returns an error.                          *)
NextSetStripe(c) ==
    /\ conn[c].pc = "check"
    /\ IF reg[conn[c].slot].status \in {"ready", "done"}
       THEN /\ reg' = [reg EXCEPT ![conn[c].slot] =
                         [status |-> "busy", owner |-> sess[conn[c].node].id, hdr |-> conn[c].blk]]
            /\ done' = done \ {c}
            /\ waiters' = [waiters EXCEPT ![conn[c].slot] = c]
            /\ conn' = [conn EXCEPT ![c].pc = "push"]
       ELSE /\ conn' = [conn EXCEPT ![c].pc = "own"]
            /\ UNCHANGED <<reg, done, waiters>>
    /\ UNCHANGED <<hubVars, nodeVars, free, hops, reqQ, respQ>>

NextPush(c) ==
    /\ conn[c].pc = "push"
    /\ reqQ' = [reqQ EXCEPT ![sess[conn[c].node].id] = Append(@, conn[c].slot)]
    /\ conn' = [conn EXCEPT ![c].pc = "notify"]
    /\ UNCHANGED <<hubVars, nodeVars, reg, free, waiters, done, hops, respQ>>

(* Mutated form of NextNotify: the eventfd is not signalled. *)
NextNotifyNobody(c) ==
    /\ conn[c].pc = "notify"
    /\ conn' = [conn EXCEPT ![c].pc = IF sess[conn[c].node].pc = "closed" THEN "own" ELSE "wait"]
    /\ UNCHANGED <<hubVars, nodeVars, reg, free, waiters, done, hops, reqQ, respQ>>

(* notify: an error once the eventfd is closed. *)
NextNotify(c) ==
    /\ conn[c].pc = "notify"
    /\ conn' = [conn EXCEPT ![c].pc = IF sess[conn[c].node].pc = "closed" THEN "own" ELSE "wait"]
    /\ ev' = IF sess[conn[c].node].pc = "closed" THEN ev ELSE ev \cup {conn[c].node}
    /\ UNCHANGED <<hubVars, alive, tasks, reg, free, waiters, done, hops, reqQ, respQ>>

NextReturn(c) ==
    /\ conn[c].pc = "wait" /\ c \in done
    /\ done' = done \ {c}
    /\ conn' = [conn EXCEPT ![c].pc = "own"]
    /\ UNCHANGED <<hubVars, nodeVars, reg, free, waiters, hops, reqQ, respQ>>

Close(c) ==
    /\ conn[c].pc = "own"
    /\ free' = free \cup {conn[c].blk}
    /\ conn' = [conn EXCEPT ![c].pc = "closed"]
    /\ IF conn[c].slot = 0 THEN UNCHANGED <<reg, waiters>>
       ELSE /\ waiters' = [waiters EXCEPT ![conn[c].slot] = None]
            /\ reg' = [reg EXCEPT ![conn[c].slot].status = "idle"]
    /\ done' = done \ {c}
    /\ UNCHANGED <<hubVars, nodeVars, hops, reqQ, respQ>>

(***************************************************************************)
(* Nodes, and the hub's dispatchLoop.                                      *)
(***************************************************************************)
(* Mutated form of NodePop: the entry stays in the queue. *)
NodePopKeeps(s) ==
    /\ s \in alive /\ sess[s].pc = "up" /\ s \in ev
    /\ reqQ[sess[s].id] # <<>>
    /\ LET i == Head(reqQ[sess[s].id])
       IN tasks' = tasks \cup {<<s, i, waiters[i], "run">>}
    /\ UNCHANGED <<hubVars, alive, ev, stripeVars, reqQ, respQ>>

(* A node pops the request queue of its ID until it is empty. *)
NodePop(s) ==
    /\ s \in alive /\ sess[s].pc = "up" /\ s \in ev
    /\ LET q == reqQ[sess[s].id]
       IN /\ q # <<>>
          /\ tasks' = tasks \cup {<<s, Head(q), waiters[Head(q)], "run">>}
          /\ reqQ' = [reqQ EXCEPT ![sess[s].id] = Tail(q)]
          /\ ev' = IF Len(q) = 1 THEN ev \ {s} ELSE ev
    /\ UNCHANGED <<hubVars, alive, stripeVars, respQ>>

(* processSlot after its handler: the status, then the response. *)
TaskStatus(t) ==
    /\ t \in tasks /\ t[4] = "run"
    /\ reg' = [reg EXCEPT ![t[2]].status = "done"]
    /\ tasks' = (tasks \ {t}) \cup {<<t[1], t[2], t[3], "answer">>}
    /\ UNCHANGED <<hubVars, alive, ev, free, conn, waiters, done, hops, reqQ, respQ>>

TaskAnswer(t) ==
    /\ t \in tasks /\ t[4] = "answer"
    /\ respQ' = Append(respQ, t[2])
    /\ tasks' = tasks \ {t}
    /\ UNCHANGED <<hubVars, alive, ev, stripeVars, reqQ>>

Dispatch ==
    /\ respQ # <<>>
    /\ done' = IF waiters[Head(respQ)] = None THEN done ELSE done \cup {waiters[Head(respQ)]}
    /\ waiters' = [waiters EXCEPT ![Head(respQ)] = None]
    /\ respQ' = Tail(respQ)
    /\ UNCHANGED <<hubVars, nodeVars, reg, free, conn, hops, reqQ>>

Watchdog(s) ==
    CleanupStart(s) \/ CleanupScan(s) \/ CleanupFree(s) \/ FreeId(s) \/ DeleteName(s) \/ closeEventfd(s)

Calling(c) ==
    \/ \E i \in Slots : AllocSlot(c, i)
    \/ AllocSlotSet(c) \/ NextSetStripe(c)
    \/ NextPush(c) \/ NextNotify(c) \/ NextReturn(c)

Next ==
    \/ \E s \in Sessions :
         \/ \E n \in Names : DialId(s, n)
         \/ DialRegister(s) \/ DialFail(s) \/ Die(s) \/ Watchdog(s) \/ NodePop(s)
    \/ \E c \in Conns :
         \/ Request(c) \/ Calling(c) \/ Close(c)
         \/ \E n \in Names : NextLookup(c, n)
    \/ \E t \in tasks : TaskStatus(t) \/ TaskAnswer(t)
    \/ Dispatch

Spec == Init /\ [][Next]_vars

(* Goroutines and live processes run; nobody has to die, dial or call. *)
FairSpec ==
    /\ Spec
    /\ \A s \in Sessions : WF_vars(DialRegister(s) \/ DialFail(s) \/ Watchdog(s)) /\ WF_vars(NodePop(s))
    /\ \A c \in Conns : WF_vars(Calling(c))
    /\ WF_vars(\E t \in tasks : TaskStatus(t) \/ TaskAnswer(t))
    /\ WF_vars(Dispatch)

(***************************************************************************)
(* Properties.                                                             *)
(***************************************************************************)

(* Dial has given the session an ID that freeNodeID has not taken back. *)
HasId(s) == sess[s].pc \in {"id", "failed", "up", "scan", "slot"}

(* allocNodeID and freeNodeID: an ID belongs to one session at a time, and *)
(* is taken exactly as long as a session has it.                           *)
IdsExact ==
    /\ \A s, r \in Sessions : (HasId(s) /\ HasId(r) /\ sess[s].id = sess[r].id) => s = r
    /\ nodeIDs = {sess[s].id : s \in {r \in Sessions : HasId(r)}}

(* A connection whose Next will never return: its node has died. *)
Stuck(c) == conn[c].pc = "wait" /\ conn[c].node \notin alive

Held(c) == conn[c].pc \notin {"new", "closed"} /\ ~Stuck(c)

(* What CleanupResources frees are stripes that nobody can use any more: a *)
(* block of a connection that is in use is not free, and no two such       *)
(* connections have the same block or the same slot.                       *)
StripesKept ==
    \A c \in Conns : Held(c) =>
      /\ conn[c].blk \notin free
      /\ \A d \in Conns \ {c} : Held(d) =>
           /\ conn[c].blk # conn[d].blk
           /\ conn[c].slot # 0 => conn[c].slot # conn[d].slot
      /\ (conn[c].slot # 0 /\ conn[c].pc # "set") => reg[conn[c].slot].status # "idle"

(* The watchdog of c's dead node has not got to the slot of c yet. *)
Uncleaned(c) ==
    /\ sess[conn[c].node].pc \in {"up", "scan", "slot"}
    /\ sess[conn[c].node].i <= conn[c].slot

(* CleanupResources leaves nothing behind: a slot that is not idle, and a  *)
(* block that is not free, belongs to a connection in use, or to one that  *)
(* died with its node and that the watchdog of the node has still to reach.*)
(* The last slot of the registry is the exception: the scan stops before   *)
(* it.                                                                     *)
Reclaimed ==
    LET Last(c) == conn[c].slot = MaxTotalSlots
        Kept(c) == Held(c) \/ (Stuck(c) /\ (Uncleaned(c) \/ Last(c)))
    IN /\ \A i \in Slots : reg[i].status # "idle" => \E c \in Conns : Kept(c) /\ conn[c].slot = i
       /\ \A b \in Blocks \ free : \E c \in Conns : Kept(c) /\ conn[c].blk = b

(* A node works on a slot only for the connection that waits for an answer *)
(* from this very node.                                                    *)
TasksAssigned ==
    \A t \in tasks : t[3] # None /\ conn[t[3]].slot = t[2] /\ conn[t[3]].node = t[1]
                     /\ conn[t[3]].pc \in {"notify", "wait"}

(* A node that was dialled and is alive is found by its name. *)
NamesReachable == \A s \in alive : sess[s].pc = "up" => nodes[sess[s].name] = s

(* A node that died is forgotten: its watchdog gives its slots, ID, name   *)
(* and eventfd back.                                                       *)
DeadForgotten == []<>(\A s \in Sessions \ alive : sess[s].pc \in {"closed", "failed"})

(* Next returns, unless the node died.                                     *)
NextReturns == []<>(\A c \in Conns : conn[c].pc \in {"new", "own", "closed"} \/ Stuck(c))
=============================================================================
