------------------------------ MODULE Handoff ------------------------------
(***************************************************************************)
(* The handoff protocol of a hub and its nodes: Request, Next and Close of *)
(* a hub connection, the hub's dispatchLoop and handleExpandRequest, and a *)
(* node's event loop, task and RequestExpand.  All nodes stay connected.   *)
(*                                                                         *)
(* The command queues are FIFO sequences (MpscQueue implements FifoQueue). *)
(* Allocation takes any free blocks (BlockBus keeps its bitmap exact).  A  *)
(* stripe is its header block and the set of its blocks, and header blocks *)
(* live in shared memory.  A call of Next that reaches a node is a hop     *)
(* <<connection, number>>.  The id of a queue entry (a hop, or the number  *)
(* of an expansion) is a history value that only names the task or the     *)
(* goroutine that the entry starts.  A connection object is used once, as  *)
(* in the code, while slots, blocks and done channels are used again.      *)
(***************************************************************************)
EXTENDS Integers, Sequences, FiniteSets

CONSTANTS Conns, Nodes, Slots, Blocks, Chans,
          NoSlot, NoBlock, NoConn, NoChan, NoNode, NoHop,
          User,        \* the hub's user, in the abstract specification
          RustNodes,   \* the nodes that run the Rust library; the others run the Go one
          AllocFails,  \* TRUE: AllocBlocks and AllocSlot may fail though there is a free one
          Retries,     \* TRUE: a user goes on with a connection whose Next has failed
          Panics,      \* TRUE: a handler may panic
          QueueCap,    \* entries of a command queue
          MaxHops,     \* bound: hops of a connection
          MaxExpand    \* bound: expansions that tasks request

ASSUME HandoffAssumption ==
    /\ NoSlot \notin Slots /\ NoBlock \notin Blocks /\ NoConn \notin Conns
    /\ NoChan \notin Chans /\ NoNode \notin Nodes /\ User \notin Nodes
    /\ NoHop \notin Conns \X Nat
    /\ RustNodes \subseteq Nodes
    /\ AllocFails \in BOOLEAN /\ Retries \in BOOLEAN /\ Panics \in BOOLEAN
    /\ QueueCap \in Nat \ {0} /\ MaxHops \in Nat /\ MaxExpand \in Nat

VARIABLES
    free,      \* the blocks whose bit in the bus's bitmap is clear
    hdr,       \* header block -> the blocks its sequence names
    reg,       \* slot -> its entry of the stripe registry
    limit,     \* tokens in Hub.limit
    waiters,   \* slot -> the connection whose done field Hub.waiters points to
    buf,       \* done channel -> its buffer of one: "empty", "ok" or "err"
    pool,      \* donePool
    conn,      \* connection -> its busConn and where its user is
    respQ,     \* the response queue
    disp,      \* the dispatchLoop
    reqQ,      \* node -> its request queue
    nwaiters,  \* node -> slot -> the hop whose task waits for an expansion
    stuck,     \* the Go nodes whose event loop blocks for ever with wMu locked
    task,      \* hop -> processSlot / handle_process
    exp,       \* number -> the goroutine of handleExpandRequest
    expands    \* expansions requested so far

vars == <<free, hdr, reg, limit, waiters, buf, pool, conn, respQ, disp, reqQ, nwaiters,
          stuck, task, exp, expands>>

Hops == Conns \X (1..MaxHops)
Expansions == 1..MaxExpand
Entry(s, cmd, id) == [slot |-> s, cmd |-> cmd, id |-> id]

NoExp == [pc |-> "none", slot |-> NoSlot, node |-> NoNode, hdr |-> NoBlock, seq |-> {},
          ptr |-> NoConn, ch |-> NoChan]
NoTask == [pc |-> "none", node |-> NoNode, seq |-> {}, failed |-> FALSE]

Init ==
    /\ free = Blocks
    /\ hdr = [b \in Blocks |-> {}]
    /\ reg = [s \in Slots |-> [status |-> "idle", owner |-> NoNode, hdr |-> NoBlock]]
    /\ limit = 0
    /\ waiters = [s \in Slots |-> NoConn]
    /\ buf = [ch \in Chans |-> "empty"] /\ pool = Chans
    /\ conn = [c \in Conns |-> [pc |-> "new", slot |-> NoSlot, done |-> NoChan,
                                hdr |-> NoBlock, seq |-> {}, node |-> NoNode,
                                hops |-> 0, ok |-> TRUE]]
    /\ respQ = <<>>
    /\ disp = [pc |-> "pop", ptr |-> NoConn, ch |-> NoChan]
    /\ reqQ = [n \in Nodes |-> <<>>]
    /\ nwaiters = [n \in Nodes |-> [s \in Slots |-> NoHop]]
    /\ stuck = {}
    /\ task = [h \in Hops |-> NoTask]
    /\ exp = [r \in Expansions |-> NoExp]
    /\ expands = 0

busVars == <<free, hdr>>
hubVars == <<waiters, buf, disp, respQ, exp>>
nodeVars == <<reqQ, nwaiters, stuck, task, expands>>
-----------------------------------------------------------------------------
(* Hub.Request, busConn.Write *)

(* AllocStripe; a stripe starts as one block, its header, and grows by one *)
(* block at a time (the code: blockCount + 1 blocks, and two at a time for *)
(* a node).                                                                *)
Request(c, needSlot) ==
    /\ conn[c].pc = "new"
    /\ \E b \in free :
          /\ free' = free \ {b}
          /\ hdr' = [hdr EXCEPT ![b] = {b}]
          /\ conn' = [conn EXCEPT ![c].pc = IF needSlot THEN "reqslot" ELSE "own",
                                  ![c].hdr = b, ![c].seq = {b}]
    /\ UNCHANGED <<reg, limit, pool, hubVars, nodeVars>>

(* A user may call the methods of its connection. *)
Usable(c) == conn[c].pc = "own" /\ (conn[c].ok \/ Retries)

(* Mutated form of Grow: the header block is not written. *)
GrowNoHeader(c) ==
    /\ Usable(c)
    /\ expands < MaxExpand
    /\ expands' = expands + 1
    /\ \E b \in free :
          /\ free' = free \ {b}
          /\ conn' = [conn EXCEPT ![c].seq = @ \cup {b}]
    /\ UNCHANGED <<hdr, reg, limit, pool, hubVars, reqQ, nwaiters, stuck, task>>

(* ensureCapacity allocates a block and writes the header. *)
Grow(c) ==
    /\ Usable(c)
    /\ expands < MaxExpand
    /\ expands' = expands + 1
    /\ \E b \in free :
          /\ free' = free \ {b}
          /\ hdr' = [hdr EXCEPT ![conn[c].hdr] = conn[c].seq \cup {b}]
          /\ conn' = [conn EXCEPT ![c].seq = @ \cup {b}]
    /\ UNCHANGED <<reg, limit, pool, hubVars, reqQ, nwaiters, stuck, task>>

(* Mutated form of allocSlot: the slot may be in use. *)
allocSlotInUse(c) ==
    /\ conn[c].pc \in {"reqslot", "nextslot"}
    /\ limit < Cardinality(Slots)
    /\ limit' = limit + 1
    /\ \E s \in Slots, ch \in pool :
          /\ reg' = [reg EXCEPT ![s] = [status |-> "ready", owner |-> NoNode, hdr |-> conn[c].hdr]]
          /\ pool' = pool \ {ch}
          /\ conn' = [conn EXCEPT ![c].slot = s, ![c].done = ch,
                                  ![c].pc = IF @ = "reqslot" THEN "own" ELSE "poll"]
    /\ UNCHANGED <<busVars, hubVars, nodeVars>>

(* Hub.allocSlot, from Request or from the first Next. *)
allocSlot(c) ==
    /\ conn[c].pc \in {"reqslot", "nextslot"}
    /\ limit < Cardinality(Slots)
    /\ limit' = limit + 1
    /\ \E s \in Slots, ch \in pool :
          /\ reg[s].status = "idle"
          /\ reg' = [reg EXCEPT ![s] = [status |-> "ready", owner |-> NoNode, hdr |-> conn[c].hdr]]
          /\ pool' = pool \ {ch}
          /\ conn' = [conn EXCEPT ![c].slot = s, ![c].done = ch,
                                  ![c].pc = IF @ = "reqslot" THEN "own" ELSE "poll"]
    /\ UNCHANGED <<busVars, hubVars, nodeVars>>

(* The scan of AllocSlot finds no idle slot (a slot freed behind the scan  *)
(* is missed): Request frees the stripe, Next reports an error.            *)
allocSlotFails(c) ==
    /\ conn[c].pc \in {"reqslot", "nextslot"}
    /\ limit < Cardinality(Slots)
    /\ AllocFails \/ \A s \in Slots : reg[s].status # "idle"
    /\ IF conn[c].pc = "reqslot"
       THEN /\ free' = free \cup conn[c].seq
            /\ conn' = [conn EXCEPT ![c].pc = "closed", ![c].seq = {}]
       ELSE /\ conn' = [conn EXCEPT ![c].pc = "own", ![c].ok = FALSE]
            /\ UNCHANGED free
    /\ UNCHANGED <<hdr, reg, limit, pool, hubVars, nodeVars>>
-----------------------------------------------------------------------------
(* busConn.Next *)

NextCall(c, n) ==
    /\ Usable(c)
    /\ conn[c].hops < MaxHops
    /\ conn' = [conn EXCEPT ![c].pc = IF conn[c].slot = NoSlot THEN "nextslot" ELSE "poll",
                            ![c].node = n]
    /\ UNCHANGED <<busVars, reg, limit, pool, hubVars, nodeVars>>

(* The previous owner is done: SetStripe. *)
NextSetStripe(c) ==
    LET s == conn[c].slot IN
    /\ conn[c].pc = "poll"
    /\ reg[s].status \in {"done", "ready"}
    /\ reg' = [reg EXCEPT ![s] = [status |-> "busy", owner |-> conn[c].node, hdr |-> conn[c].hdr]]
    /\ conn' = [conn EXCEPT ![c].pc = "arm"]
    /\ UNCHANGED <<busVars, limit, pool, hubVars, nodeVars>>

(* A second has passed and the previous owner is not done. *)
NextTimeout(c) ==
    /\ conn[c].pc = "poll"
    /\ reg[conn[c].slot].status \notin {"done", "ready"}
    /\ conn' = [conn EXCEPT ![c].pc = "own", ![c].ok = FALSE]
    /\ UNCHANGED <<busVars, reg, limit, pool, hubVars, nodeVars>>

(* clearChannel, then the channel becomes the slot's waiter. *)
NextArm(c) ==
    /\ conn[c].pc = "arm"
    /\ buf' = [buf EXCEPT ![conn[c].done] = "empty"]
    /\ waiters' = [waiters EXCEPT ![conn[c].slot] = c]
    /\ conn' = [conn EXCEPT ![c].pc = "submit"]
    /\ UNCHANGED <<busVars, reg, limit, pool, disp, respQ, exp, nodeVars>>

(* submit: push and notify. *)
NextSubmit(c) ==
    LET n == conn[c].node IN
    /\ conn[c].pc = "submit"
    /\ Len(reqQ[n]) < QueueCap
    /\ reqQ' = [reqQ EXCEPT ![n] =
                  Append(@, Entry(conn[c].slot, "process", <<c, conn[c].hops + 1>>))]
    /\ conn' = [conn EXCEPT ![c].pc = "wait", ![c].hops = @ + 1]
    /\ UNCHANGED <<busVars, reg, limit, pool, hubVars, nwaiters, stuck, task, expands>>

(* Mutated form of NextReturn: no refreshStripe. *)
NextReturnNoRefresh(c) ==
    /\ conn[c].pc = "wait"
    /\ buf[conn[c].done] # "empty"
    /\ buf' = [buf EXCEPT ![conn[c].done] = "empty"]
    /\ conn' = [conn EXCEPT ![c].pc = "own", ![c].ok = buf[conn[c].done] = "ok"]
    /\ UNCHANGED <<busVars, reg, limit, pool, waiters, disp, respQ, exp, nodeVars>>

(* The receive from the done channel, and refreshStripe if it is no error: *)
(* the sequence is read again when the number of blocks has changed.       *)
NextReturn(c) ==
    LET ok == buf[conn[c].done] = "ok"
        seq == hdr[conn[c].hdr] IN
    /\ conn[c].pc = "wait"
    /\ buf[conn[c].done] # "empty"
    /\ buf' = [buf EXCEPT ![conn[c].done] = "empty"]
    /\ conn' = [conn EXCEPT ![c].pc = "own", ![c].ok = ok,
                            ![c].seq = IF ok /\ Cardinality(seq) # Cardinality(@) THEN seq ELSE @]
    /\ UNCHANGED <<busVars, reg, limit, pool, waiters, disp, respQ, exp, nodeVars>>
-----------------------------------------------------------------------------
(* busConn.Close *)

CloseFree(c) ==
    /\ Usable(c)
    /\ free' = free \cup conn[c].seq
    /\ conn' = [conn EXCEPT ![c].pc = IF conn[c].slot = NoSlot THEN "closed" ELSE "closewait",
                            ![c].seq = {}]
    /\ UNCHANGED <<hdr, reg, limit, pool, hubVars, nodeVars>>

CloseWaiter(c) ==
    /\ conn[c].pc = "closewait"
    /\ waiters' = [waiters EXCEPT ![conn[c].slot] = NoConn]
    /\ pool' = pool \cup {conn[c].done}
    /\ conn' = [conn EXCEPT ![c].pc = "closeslot"]
    /\ UNCHANGED <<busVars, reg, limit, buf, disp, respQ, exp, nodeVars>>

(* Mutated form of CloseSlot: no FreeSlot. *)
CloseSlotKeeps(c) ==
    /\ conn[c].pc = "closeslot"
    /\ limit' = limit - 1
    /\ conn' = [conn EXCEPT ![c].pc = "closed", ![c].done = NoChan]
    /\ UNCHANGED <<busVars, reg, pool, hubVars, nodeVars>>

CloseSlot(c) ==
    /\ conn[c].pc = "closeslot"
    /\ reg' = [reg EXCEPT ![conn[c].slot].status = "idle"]
    /\ limit' = limit - 1
    /\ conn' = [conn EXCEPT ![c].pc = "closed", ![c].done = NoChan]
    /\ UNCHANGED <<busVars, pool, hubVars, nodeVars>>
-----------------------------------------------------------------------------
(* Hub.dispatchLoop *)

DispatchProcess ==
    LET s == Head(respQ).slot IN
    /\ disp.pc = "pop" /\ respQ # <<>>
    /\ Head(respQ).cmd = "process"
    /\ respQ' = Tail(respQ)
    /\ waiters' = [waiters EXCEPT ![s] = NoConn]
    /\ disp' = IF waiters[s] = NoConn THEN disp
               ELSE [disp EXCEPT !.pc = "deref", !.ptr = waiters[s]]
    /\ UNCHANGED <<busVars, reg, limit, buf, pool, conn, exp, nodeVars>>

DispatchDeref ==
    /\ disp.pc = "deref"
    /\ disp' = [disp EXCEPT !.pc = "send", !.ch = conn[disp.ptr].done]
    /\ UNCHANGED <<busVars, reg, limit, pool, conn, waiters, buf, respQ, exp, nodeVars>>

(* A send on a nil channel blocks for ever, one on a full channel until    *)
(* somebody receives.                                                      *)
DispatchSend ==
    /\ disp.pc = "send"
    /\ disp.ch # NoChan
    /\ buf[disp.ch] = "empty"
    /\ buf' = [buf EXCEPT ![disp.ch] = "ok"]
    /\ disp' = [pc |-> "pop", ptr |-> NoConn, ch |-> NoChan]
    /\ UNCHANGED <<busVars, reg, limit, pool, conn, waiters, respQ, exp, nodeVars>>

(* Mutated form of DispatchExpand: any response wakes the slot's waiter. *)
DispatchExpandWakes ==
    LET e == Head(respQ) IN
    /\ disp.pc = "pop" /\ respQ # <<>>
    /\ e.cmd = "expand"
    /\ respQ' = Tail(respQ)
    /\ waiters' = [waiters EXCEPT ![e.slot] = NoConn]
    /\ disp' = IF waiters[e.slot] = NoConn THEN disp
               ELSE [disp EXCEPT !.pc = "deref", !.ptr = waiters[e.slot]]
    /\ UNCHANGED <<busVars, reg, limit, buf, pool, conn, exp, nodeVars>>

DispatchExpand ==
    LET e == Head(respQ) IN
    /\ disp.pc = "pop" /\ respQ # <<>>
    /\ e.cmd = "expand"
    /\ respQ' = Tail(respQ)
    /\ exp' = [exp EXCEPT ![e.id] = [NoExp EXCEPT !.pc = "header", !.slot = e.slot,
                                                  !.node = reg[e.slot].owner]]
    /\ UNCHANGED <<busVars, reg, limit, pool, conn, waiters, buf, disp, nodeVars>>
-----------------------------------------------------------------------------
(* Hub.handleExpandRequest *)

ExpandHeader(r) ==
    /\ exp[r].pc = "header"
    /\ exp' = [exp EXCEPT ![r].pc = "owner", ![r].hdr = reg[exp[r].slot].hdr,
                          ![r].seq = hdr[reg[exp[r].slot].hdr]]
    /\ UNCHANGED <<busVars, reg, limit, pool, conn, waiters, buf, disp, respQ, nodeVars>>

ExpandOwner(r) ==
    /\ exp[r].pc = "owner"
    /\ exp' = [exp EXCEPT ![r].pc = IF reg[exp[r].slot].owner = exp[r].node
                                    THEN "alloc" ELSE "error"]
    /\ UNCHANGED <<busVars, reg, limit, pool, conn, waiters, buf, disp, respQ, nodeVars>>

ExpandAlloc(r) ==
    /\ exp[r].pc = "alloc"
    /\ \E b \in free :
          /\ free' = free \ {b}
          /\ hdr' = [hdr EXCEPT ![exp[r].hdr] = exp[r].seq \cup {b}]
    /\ exp' = [exp EXCEPT ![r].pc = "ready"]
    /\ UNCHANGED <<reg, limit, pool, conn, waiters, buf, disp, respQ, nodeVars>>

ExpandAllocFails(r) ==
    /\ exp[r].pc = "alloc"
    /\ AllocFails \/ free = {}
    /\ exp' = [exp EXCEPT ![r].pc = "error"]
    /\ UNCHANGED <<busVars, reg, limit, pool, conn, waiters, buf, disp, respQ, nodeVars>>

(* A slot that is not at a node has owner 0, which is no node's ID: the    *)
(* response goes nowhere.                                                  *)
expandResponse(r, cmd) ==
    IF exp[r].node = NoNode THEN UNCHANGED reqQ
    ELSE /\ Len(reqQ[exp[r].node]) < QueueCap
         /\ reqQ' = [reqQ EXCEPT ![exp[r].node] = Append(@, Entry(exp[r].slot, cmd, r))]


ExpandReady(r) ==
    /\ exp[r].pc = "ready"
    /\ expandResponse(r, "ready")
    /\ exp' = [exp EXCEPT ![r] = NoExp]
    /\ UNCHANGED <<busVars, reg, limit, pool, conn, waiters, buf, disp, respQ, nwaiters, stuck,
                   task, expands>>

(* Mutated form of ExpandError: the waiter hears nothing. *)
ExpandErrorSilent(r) ==
    /\ exp[r].pc = "error"
    /\ expandResponse(r, "error")
    /\ exp' = [exp EXCEPT ![r] = NoExp]
    /\ UNCHANGED <<busVars, reg, limit, pool, conn, waiters, buf, disp, respQ, nwaiters, stuck,
                   task, expands>>

ExpandError(r) ==
    /\ exp[r].pc = "error"
    /\ expandResponse(r, "error")
    /\ exp' = [exp EXCEPT ![r].pc = "load"]
    /\ UNCHANGED <<busVars, reg, limit, pool, conn, waiters, buf, disp, respQ, nwaiters, stuck,
                   task, expands>>

(* The error also goes to the slot's waiter, which stays registered. *)
ExpandLoadWaiter(r) ==
    /\ exp[r].pc = "load"
    /\ exp' = [exp EXCEPT ![r] = IF waiters[exp[r].slot] = NoConn THEN NoExp
                                 ELSE [@ EXCEPT !.pc = "deref", !.ptr = waiters[exp[r].slot]]]
    /\ UNCHANGED <<busVars, reg, limit, pool, conn, waiters, buf, disp, respQ, nodeVars>>

ExpandDeref(r) ==
    /\ exp[r].pc = "deref"
    /\ exp' = [exp EXCEPT ![r].pc = "send", ![r].ch = conn[exp[r].ptr].done]
    /\ UNCHANGED <<busVars, reg, limit, pool, conn, waiters, buf, disp, respQ, nodeVars>>

ExpandSend(r) ==
    /\ exp[r].pc = "send"
    /\ exp[r].ch # NoChan
    /\ buf[exp[r].ch] = "empty"
    /\ buf' = [buf EXCEPT ![exp[r].ch] = "err"]
    /\ exp' = [exp EXCEPT ![r] = NoExp]
    /\ UNCHANGED <<busVars, reg, limit, pool, conn, waiters, disp, respQ, nodeVars>>
-----------------------------------------------------------------------------
(* A node: the event loop, processSlot and RequestExpand *)

slotOf(h) == conn[h[1]].slot

NodeProcess(n) ==
    LET e == Head(reqQ[n]) IN
    /\ n \notin stuck
    /\ reqQ[n] # <<>> /\ e.cmd = "process"
    /\ reqQ' = [reqQ EXCEPT ![n] = Tail(@)]
    /\ task' = [task EXCEPT ![e.id] = [NoTask EXCEPT !.pc = "start", !.node = n]]
    /\ UNCHANGED <<busVars, reg, limit, pool, conn, hubVars, nwaiters, stuck, expands>>

(* The answer to RequestExpand.  A Go event loop hands it over on an       *)
(* unbuffered channel with wMu locked, and blocks if the task has gone on  *)
(* without it; a Rust one drops the answer.                                *)
NodeExpanded(n) ==
    LET e == Head(reqQ[n])
        h == nwaiters[n][e.slot]
        waits == h # NoHop /\ task[h].pc = "expand" IN
    /\ n \notin stuck
    /\ reqQ[n] # <<>> /\ e.cmd \in {"ready", "error"}
    /\ reqQ' = [reqQ EXCEPT ![n] = Tail(@)]
    /\ stuck' = IF waits \/ h = NoHop \/ n \in RustNodes THEN stuck ELSE stuck \cup {n}
    /\ nwaiters' = [nwaiters EXCEPT ![n][e.slot] = NoHop]
    /\ task' = IF ~waits THEN task
               ELSE [task EXCEPT ![h].pc = IF e.cmd = "ready" THEN "grown" ELSE "run",
                                 ![h].failed = @ \/ e.cmd = "error"]
    /\ UNCHANGED <<busVars, reg, limit, pool, conn, hubVars, expands>>

(* The task reads the header: at its start, in OnExpandComplete, and in    *)
(* Rust whenever it uses the stripe.                                       *)
TaskRead(h) ==
    /\ task[h].pc \in {"start", "grown"} \/ (task[h].node \in RustNodes /\ task[h].pc = "run")
    /\ task' = [task EXCEPT ![h].pc = "run", ![h].seq = hdr[reg[slotOf(h)].hdr]]
    /\ UNCHANGED <<busVars, reg, limit, pool, conn, hubVars, reqQ, nwaiters, stuck, expands>>

(* In Rust a second waiter for the slot makes the first one fail. *)
RequestExpand(h) ==
    LET n == task[h].node
        dropped == {g \in Hops : /\ n \in RustNodes /\ g = nwaiters[n][slotOf(h)]
                                /\ task[g].pc = "expand"} IN
    /\ task[h].pc = "run" /\ task[h].node \notin stuck
    /\ expands < MaxExpand
    /\ Len(respQ) < QueueCap
    /\ expands' = expands + 1
    /\ nwaiters' = [nwaiters EXCEPT ![n][slotOf(h)] = h]
    /\ respQ' = Append(respQ, Entry(slotOf(h), "expand", expands + 1))
    /\ task' = [g \in Hops |-> IF g = h THEN [task[g] EXCEPT !.pc = "expand"]
                             ELSE IF g \in dropped
                                  THEN [task[g] EXCEPT !.pc = "run", !.failed = TRUE]
                                  ELSE task[g]]
    /\ UNCHANGED <<busVars, reg, limit, pool, conn, waiters, buf, disp, exp, reqQ, stuck>>

(* The response queue is full: RequestExpand fails and leaves its waiter.  *)
RequestExpandFull(h) ==
    /\ task[h].pc = "run" /\ task[h].node \notin stuck
    /\ expands < MaxExpand
    /\ Len(respQ) = QueueCap
    /\ expands' = expands + 1
    /\ nwaiters' = [nwaiters EXCEPT ![task[h].node][slotOf(h)] = h]
    /\ UNCHANGED <<busVars, reg, limit, pool, conn, hubVars, reqQ, stuck, task>>

(* The handler returned; a Go node gives no answer if an expansion failed. *)
TaskReturn(h) ==
    /\ task[h].pc = "run"
    /\ task' = [task EXCEPT ![h].pc = IF task[h].node \notin RustNodes /\ task[h].failed
                                        THEN "gone" ELSE "done"]
    /\ UNCHANGED <<busVars, reg, limit, pool, conn, hubVars, reqQ, nwaiters, stuck, expands>>

(* The handler panicked: recover takes it, and the answer is sent. *)
TaskPanic(h) ==
    /\ Panics
    /\ task[h].pc = "run"
    /\ task' = [task EXCEPT ![h].pc = "done"]
    /\ UNCHANGED <<busVars, reg, limit, pool, conn, hubVars, reqQ, nwaiters, stuck, expands>>

TaskSetDone(h) ==
    /\ task[h].pc = "done"
    /\ reg' = [reg EXCEPT ![slotOf(h)].status = "done"]
    /\ task' = [task EXCEPT ![h].pc = "push"]
    /\ UNCHANGED <<busVars, limit, pool, conn, hubVars, reqQ, nwaiters, stuck, expands>>

pushResponse(h) ==
    /\ task[h].pc = "push"
    /\ Len(respQ) < QueueCap
    /\ respQ' = Append(respQ, Entry(slotOf(h), "process", h))
    /\ task' = [task EXCEPT ![h].pc = "gone"]
    /\ UNCHANGED <<busVars, reg, limit, pool, conn, waiters, buf, disp, exp, reqQ, nwaiters, stuck,
                   expands>>
-----------------------------------------------------------------------------
ConnStep(c) ==
    \/ allocSlot(c) \/ allocSlotFails(c) \/ NextSetStripe(c) \/ NextTimeout(c) \/ NextArm(c)
    \/ NextSubmit(c) \/ NextReturn(c) \/ CloseWaiter(c) \/ CloseSlot(c)
UserCall(c) ==
    \/ \E needSlot \in BOOLEAN : Request(c, needSlot)
    \/ Grow(c)
    \/ \E n \in Nodes : NextCall(c, n)
    \/ CloseFree(c)
Dispatch == DispatchProcess \/ DispatchDeref \/ DispatchSend \/ DispatchExpand
Expand(r) ==
    \/ ExpandHeader(r) \/ ExpandOwner(r) \/ ExpandAlloc(r) \/ ExpandAllocFails(r)
    \/ ExpandReady(r) \/ ExpandError(r) \/ ExpandLoadWaiter(r) \/ ExpandDeref(r)
    \/ ExpandSend(r)
EventLoop(n) == NodeProcess(n) \/ NodeExpanded(n)
Task(h) ==
    \/ TaskRead(h) \/ RequestExpand(h) \/ RequestExpandFull(h) \/ TaskReturn(h)
    \/ TaskPanic(h) \/ TaskSetDone(h) \/ pushResponse(h)

Next ==
    \/ \E c \in Conns : ConnStep(c) \/ UserCall(c)
    \/ Dispatch
    \/ \E r \in Expansions : Expand(r)
    \/ \E h \in Hops : Task(h)
    \/ \E n \in Nodes : EventLoop(n)

Spec == Init /\ [][Next]_vars

(* The hub's goroutines, the event loops and the tasks are scheduled, and  *)
(* handlers return (MaxExpand bounds what a handler may still ask for).    *)
(* Nothing obliges the user to call Next or Close.                         *)
Fairness ==
    /\ \A c \in Conns : WF_vars(ConnStep(c))
    /\ WF_vars(Dispatch)
    /\ \A r \in Expansions : WF_vars(Expand(r))
    /\ \A h \in Hops : WF_vars(Task(h))
    /\ \A n \in Nodes : WF_vars(EventLoop(n))

FairSpec == Spec /\ Fairness
-----------------------------------------------------------------------------
HopsOf(c) == {h \in Hops : h[1] = c}
Queued(h) == \E n \in Nodes : \E k \in DOMAIN reqQ[n] :
                 reqQ[n][k].cmd = "process" /\ reqQ[n][k].id = h
Running(h) == task[h].pc \in {"start", "run", "expand", "grown", "done"}

(* Next blocks until the node has finished: while the user has the stripe  *)
(* (outside the receive in Next), no hop of the connection is queued at a  *)
(* node or running there.                                                  *)
HandedBack ==
    \A c \in Conns : conn[c].pc # "wait" => \A h \in HopsOf(c) : ~Queued(h) /\ ~Running(h)


(* A running task has the slot of its connection to itself: the registry   *)
(* names its node as the owner and still shows its stripe as busy.  The    *)
(* blocks it works on belong to that stripe: none is free or part of       *)
(* another one.                                                            *)
TaskOwns ==
    \A h \in Hops : Running(h) =>
      /\ reg[slotOf(h)] = [status |-> "busy", owner |-> task[h].node, hdr |-> conn[h[1]].hdr]
      /\ task[h].seq \subseteq hdr[conn[h[1]].hdr] \ free

Open(c) == conn[c].pc \notin {"new", "closewait", "closeslot", "closed"}

(* Every block is free or in exactly one open stripe as its header block   *)
(* records it: growth by the hub, expansions for nodes and Close neither   *)
(* leak blocks nor free them twice.                                        *)
BlocksExact ==
    /\ \A b \in Blocks : b \in free <=> \A c \in Conns : Open(c) => b \notin hdr[conn[c].hdr]
    /\ \A c, d \in Conns : c # d /\ Open(c) /\ Open(d)
                           => hdr[conn[c].hdr] \cap hdr[conn[d].hdr] = {}

(* When the user has the stripe, the hub's copy of its metadata is what    *)
(* the header block says, whatever the node asked for (refreshStripe).     *)
MetadataHandedBack ==
    \A c \in Conns : Open(c) /\ conn[c].pc # "wait" => conn[c].seq = hdr[conn[c].hdr]

HasSlot(c) == conn[c].slot # NoSlot /\ conn[c].pc # "closed"

(* A slot is used by at most one connection, it is idle exactly when no    *)
(* connection uses it, and Hub.limit counts the slots in use.              *)
SlotsExact ==
    /\ \A s \in Slots : reg[s].status = "idle" <=> \A c \in Conns : HasSlot(c) => conn[c].slot # s
    /\ \A c, d \in Conns : c # d /\ HasSlot(c) /\ HasSlot(d) => conn[c].slot # conn[d].slot
    /\ limit = Cardinality({c \in Conns : HasSlot(c)})


Holders(c) ==
    LET working == {n \in Nodes : \E h \in HopsOf(c) :
                       \/ Running(h) /\ task[h].node = n
                       \/ \E k \in DOMAIN reqQ[n] :
                             reqQ[n][k].cmd = "process" /\ reqQ[n][k].id = h}
    IN  working \cup IF Open(c) /\ (working = {} \/ conn[c].pc # "wait") THEN {User} ELSE {}

Ownership == INSTANCE StripeOwnership WITH holders <- [c \in Conns |-> Holders(c)]

(* The protocol implements the abstract handoff: the user or one node at a *)
(* time holds a stripe, and the node returns it to the user.               *)
ImplementsOwnership == Ownership!Spec

(* Every call of Next returns once the connection has a slot (a connection *)
(* without one waits in allocSlot until a user closes another).            *)
NextReturns ==
    \A c \in Conns : conn[c].pc \in {"poll", "arm", "submit", "wait"} ~> conn[c].pc = "own"
=============================================================================
