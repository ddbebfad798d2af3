---------------------------- MODULE NodeSession ----------------------------
(***************************************************************************)
(* A node process and the hubs that dial it, one connection per hub.  A    *)
(* connection begins with a handshake (eventfds and chunks), becomes a     *)
(* session with an event loop and a message loop, and ends when the hub is *)
(* gone.  A Go node keeps all its sessions in one Node object, whose       *)
(* control region, eventfds and chunks are those of the session loaded     *)
(* last; a Rust node has an object per connection.                         *)
(*                                                                         *)
(* Chunk i of hub h is <<h, i>>; its control region lies in <<h, 1>>.      *)
(* Every hub gives the node the same ID, as fresh hubs do, so that the     *)
(* request queue is found by the control region alone.  A command asks for *)
(* work on a stripe in one chunk.                                          *)
(*                                                                         *)
(* GoWindows and RustWindows name what may happen to a node of that kind:  *)
(*   "overlap"  a session begins while another one is being served;        *)
(*   "inflight" a session ends while the node has work of its hub;         *)
(*   "slowloop" a session ends before its event loop has begun to wait;    *)
(*   "attach"   a chunk that the node receives cannot be mapped;           *)
(*   "behind"   a task looks at its stripe before the message loop has     *)
(*              received the chunk.                                        *)
(***************************************************************************)
EXTENDS Integers, Sequences, FiniteSets, SequencesExt

CONSTANTS Hubs, None,
          Kinds,        \* the kinds of node, of "go" and "rust"
          GoWindows, RustWindows,
          MaxCmds,      \* bound: commands of all hubs
          MaxChunks     \* bound: chunks of a hub

ASSUME SessionAssumption ==
    /\ None \notin Hubs /\ Kinds \subseteq {"go", "rust"}
    /\ GoWindows \cup RustWindows \subseteq {"overlap", "inflight", "slowloop", "attach", "behind"}
    /\ MaxCmds \in Nat /\ MaxChunks \in Nat \ {0}

VARIABLES
    kind,      \* Go or Rust
    hub,       \* hub -> "off", "up", "notify" (between Push and Notify) or "dead"
    bus,       \* hub -> its number of chunks
    asked,     \* hub -> commands pushed so far
    sock,      \* hub -> messages on the way to the node
    reqQ,      \* hub -> commands in the request queue of the node
    ev,        \* hub -> the node's eventfd is signalled
    resp,      \* hub -> answers in its response queue
    pc,        \* hub -> where HandleConn is with its connection
    chunks,    \* hub -> Rust: NodeState.chunks; Go: nodeSession.Chunks
    node,      \* Go: the session in the Node object, and its chunks
    loop,      \* hub -> the event loop that its connection has started
    tasks,     \* tasks at work
    maps,      \* Go: the chunks that are mapped
    fds        \* file descriptors that are open, by connection

hubVars == <<hub, bus, asked>>
connVars == <<pc, chunks, node, maps, fds>>
vars == <<kind, hubVars, sock, reqQ, ev, resp, connVars, loop, tasks>>

May(w) == w \in IF kind = "go" THEN GoWindows ELSE RustWindows

Init ==
    /\ kind \in Kinds
    /\ hub = [h \in Hubs |-> "off"]
    /\ (\E n \in 1..MaxChunks : bus = [h \in Hubs |-> n]) /\ asked = [h \in Hubs |-> 0]
    /\ sock = [h \in Hubs |-> <<>>] /\ reqQ = [h \in Hubs |-> <<>>]
    /\ ev = [h \in Hubs |-> FALSE] /\ resp = [h \in Hubs |-> <<>>]
    /\ pc = [h \in Hubs |-> "none"] /\ chunks = [h \in Hubs |-> <<>>]
    /\ node = [cur |-> None, chunks |-> <<>>]
    /\ loop = [h \in Hubs |-> [pc |-> "none", on |-> None]]
    /\ tasks = {} /\ maps = {} /\ fds = {}

(* What a loop or task of the connection of hub h finds in its Node. *)
Ctrl(h) == IF kind = "go" THEN node.cur ELSE h
Chunks(h) == IF kind = "go" THEN node.chunks ELSE chunks[h]

(* Rust: the chunks live as long as an Arc of the Node or of its state.    *)
(* The Node is held by the message loop and by the event loop, the state   *)
(* by a task until its handler is done.                                    *)
Held(h) ==
    \/ pc[h] \in {"load", "serve"}
    \/ loop[h].pc \in {"top", "pop"}
    \/ \E t \in tasks : t.home = h /\ t.st \in {"new", "run"}

(* A step that needs memory that is not mapped is never taken: the process *)
(* ends there, after what its other threads have done meanwhile.           *)
Mapped(m) == IF kind = "go" THEN m \in maps ELSE Held(m[1])
-----------------------------------------------------------------------------
(* A hub, as far as the node sees it.                                      *)

ChunkList(h, i, j) == [k \in 1..j - i + 1 |-> <<h, i + k - 1>>]

(* Hub.Dial.  A process that is no hub says something else, or nothing,    *)
(* and goes.                                                               *)
Dial(h, says) ==
    /\ hub[h] = "off"
    /\ hub' = [hub EXCEPT ![h] = IF says = "hello" THEN "up" ELSE "dead"]
    /\ sock' = [sock EXCEPT ![h] =
                  IF says = "nothing" THEN <<>>
                  ELSE <<[hello |-> says = "hello", chunks |-> ChunkList(h, 1, bus[h])]>>]
    /\ UNCHANGED <<kind, bus, asked, reqQ, ev, resp, connVars, loop, tasks>>

(* tryAppendChunk: the broadcast is over before the chunk is used. *)
Grow(h) ==
    /\ hub[h] = "up" /\ bus[h] < MaxChunks
    /\ bus' = [bus EXCEPT ![h] = @ + 1]
    /\ sock' = [sock EXCEPT ![h] =
                  Append(@, [hello |-> FALSE, chunks |-> ChunkList(h, bus[h] + 1, bus[h] + 1)])]
    /\ UNCHANGED <<kind, hub, asked, reqQ, ev, resp, connVars, loop, tasks>>

(* Hub.submit: Push, then Notify. *)
Push(h, c) ==
    /\ hub[h] = "up" /\ c <= bus[h]
    /\ FoldFunction(+, 0, asked) < MaxCmds
    /\ hub' = [hub EXCEPT ![h] = "notify"]
    /\ asked' = [asked EXCEPT ![h] = @ + 1]
    /\ reqQ' = [reqQ EXCEPT ![h] = Append(@, [n |-> asked[h] + 1, c |-> c])]
    /\ UNCHANGED <<kind, bus, sock, ev, resp, connVars, loop, tasks>>

Notify(h) ==
    /\ hub[h] = "notify"
    /\ hub' = [hub EXCEPT ![h] = "up"]
    /\ ev' = [ev EXCEPT ![h] = TRUE]
    /\ UNCHANGED <<kind, bus, asked, sock, reqQ, resp, connVars, loop, tasks>>

(* The process of the hub ends, and with it its end of the connection. *)
HubDies(h) ==
    /\ hub[h] \in {"up", "notify"}
    /\ hub' = [hub EXCEPT ![h] = "dead"]
    /\ UNCHANGED <<kind, bus, asked, sock, reqQ, ev, resp, connVars, loop, tasks>>
-----------------------------------------------------------------------------
(* The connection at the node.                                             *)

Fd(h, names) == {h} \X names
Ends(h) == sock[h] = <<>> /\ hub[h] = "dead"

(* A connection that waits to be accepted, or for its first message. *)
Waits(h) == pc[h] = "none" /\ hub[h] # "off"


(* A first message with a wrong length, header, version or node ID, or too *)
(* few descriptors: all descriptors are closed.                            *)
Refuse(h) ==
    /\ Waits(h) /\ sock[h] # <<>>
    /\ ~Head(sock[h]).hello
    /\ pc' = [pc EXCEPT ![h] = "over"]
    /\ sock' = [sock EXCEPT ![h] = Tail(@)]
    /\ UNCHANGED <<kind, hubVars, reqQ, ev, resp, chunks, node, maps, fds, loop, tasks>>

(* One of the chunks cannot be mapped.  Go unmaps the ones before it and   *)
(* closes all descriptors; Rust leaves those of the chunks behind it open. *)
AttachFails(h) ==
    /\ Waits(h) /\ sock[h] # <<>>
    /\ Head(sock[h]).hello
    /\ kind = "go" \/ May("attach")
    /\ \E k \in 1..Len(Head(sock[h]).chunks) :
          fds' = fds \cup IF kind = "go" THEN {}
                          ELSE Fd(h, IF k < Len(Head(sock[h]).chunks) THEN {"chunk"} ELSE {})
    /\ pc' = [pc EXCEPT ![h] = "over"]
    /\ sock' = [sock EXCEPT ![h] = Tail(@)]
    /\ UNCHANGED <<kind, hubVars, reqQ, ev, resp, chunks, node, maps, loop, tasks>>

(* The eventfds are kept (Rust's close themselves when they are dropped);  *)
(* the chunks are mapped and their descriptors closed.                     *)
Handshake(h) ==
    /\ Waits(h) /\ sock[h] # <<>>
    /\ Head(sock[h]).hello
    /\ pc' = [pc EXCEPT ![h] = "load"]
    /\ chunks' = [chunks EXCEPT ![h] = Head(sock[h]).chunks]
    /\ IF kind = "go"
       THEN /\ maps' = maps \cup Range(Head(sock[h]).chunks)
            /\ fds' = fds \cup Fd(h, {"conn", "nodeEv", "hubEv"})
       ELSE /\ fds' = fds \cup Fd(h, {"conn"})
            /\ UNCHANGED maps
    /\ sock' = [sock EXCEPT ![h] = Tail(@)]
    /\ UNCHANGED <<kind, hubVars, reqQ, ev, resp, node, loop, tasks>>

(* The hub is gone before it has said hello. *)
NoHello(h) ==
    /\ Waits(h) /\ Ends(h)
    /\ pc' = [pc EXCEPT ![h] = "over"]
    /\ UNCHANGED <<kind, hubVars, sock, reqQ, ev, resp, chunks, node, maps, fds, loop, tasks>>

(* loadSession, and the start of the event loop. *)
loadSession(h) ==
    /\ pc[h] = "load"
    /\ May("overlap") \/ \A g \in Hubs : pc[g] \notin {"serve", "end"}
    /\ pc' = [pc EXCEPT ![h] = "serve"]
    /\ node' = IF kind = "go" THEN [cur |-> h, chunks |-> chunks[h]] ELSE node
    /\ loop' = [loop EXCEPT ![h].pc = "top"]
    /\ UNCHANGED <<kind, hubVars, sock, reqQ, ev, resp, chunks, maps, fds, tasks>>

(* Mutated form of handleMessage: the new chunks come first. *)
handleMessagePrepends(h) ==
    /\ pc[h] = "serve" /\ sock[h] # <<>>
    /\ LET new == Head(sock[h]).chunks IN
       IF kind = "go"
       THEN /\ node' = [node EXCEPT !.chunks = new \o @]
            /\ maps' = maps \cup Range(new)
            /\ UNCHANGED chunks
       ELSE /\ chunks' = [chunks EXCEPT ![h] = new \o @]
            /\ UNCHANGED <<node, maps>>
    /\ sock' = [sock EXCEPT ![h] = Tail(@)]
    /\ UNCHANGED <<kind, hubVars, reqQ, ev, resp, pc, fds, loop, tasks>>


(* handleMessage, message_loop: new chunks are mapped and appended.  When  *)
(* one cannot be mapped, Go ends the session and Rust leaves it out.       *)
handleMessage(h) ==
    /\ pc[h] = "serve" /\ sock[h] # <<>>
    /\ \E mapped \in BOOLEAN :
          LET new == IF mapped THEN Head(sock[h]).chunks ELSE <<>> IN
          /\ mapped \/ May("attach")
          /\ pc' = IF kind = "go" /\ ~mapped THEN [pc EXCEPT ![h] = "end"] ELSE pc
          /\ IF kind = "go"
             THEN /\ node' = [node EXCEPT !.chunks = @ \o new]
                  /\ maps' = maps \cup Range(new)
                  /\ UNCHANGED chunks
             ELSE /\ chunks' = [chunks EXCEPT ![h] = @ \o new]
                  /\ UNCHANGED <<node, maps>>
    /\ sock' = [sock EXCEPT ![h] = Tail(@)]
    /\ UNCHANGED <<kind, hubVars, reqQ, ev, resp, fds, loop, tasks>>

(* The node has work of hub h. *)
Busy(h) == ev[h] \/ loop[h].pc = "pop" \/ \E t \in tasks : t.home = h

(* Mutated form of EndSession: the event loop is woken, to make it stop,   *)
(* and the eventfds stay open.                                             *)
EndSessionWakes(h) ==
    /\ pc[h] = "end" \/ (pc[h] = "serve" /\ Ends(h))
    /\ May("slowloop") \/ loop[h].pc # "top"
    /\ May("inflight") \/ ~Busy(h)
    /\ pc' = [pc EXCEPT ![h] = "over"]
    /\ maps' = maps \ Range(node.chunks)
    /\ node' = [node EXCEPT !.chunks = <<>>]
    /\ fds' = fds \ Fd(h, {"conn"})
    /\ ev' = [ev EXCEPT ![h] = TRUE]
    /\ UNCHANGED <<kind, hubVars, sock, reqQ, resp, chunks, loop, tasks>>

(* The end of a session.  Go closes chunks and eventfds of the session     *)
(* that is loaded; Rust aborts its event loop, which takes effect where    *)
(* the loop waits, and drops its Node.                                     *)
EndSession(h) ==
    /\ pc[h] = "end" \/ (pc[h] = "serve" /\ Ends(h))
    /\ May("slowloop") \/ loop[h].pc # "top"
    /\ May("inflight") \/ ~Busy(h)
    /\ pc' = [pc EXCEPT ![h] = "over"]
    /\ IF kind = "go"
       THEN /\ maps' = maps \ Range(node.chunks)
            /\ node' = [node EXCEPT !.chunks = <<>>]
            /\ fds' = (fds \ Fd(node.cur, {"nodeEv", "hubEv"})) \ Fd(h, {"conn"})
            /\ UNCHANGED loop
       ELSE /\ loop' = [loop EXCEPT ![h].pc = IF @ = "pop" THEN "pop" ELSE "stopped"]
            /\ fds' = fds \ Fd(h, {"conn"})
            /\ UNCHANGED <<node, maps>>
    /\ UNCHANGED <<kind, hubVars, sock, reqQ, ev, resp, chunks, tasks>>
-----------------------------------------------------------------------------
(* StartEventLoop, start_event_loop.                                       *)

(* The loop waits for the eventfd that the Node has now, or stops because  *)
(* it is closed (Go) or because the loop was aborted (Rust).               *)
LoopWait(h) ==
    /\ loop[h].pc = "top"
    /\ LET open == IF kind = "go" THEN <<Ctrl(h), "nodeEv">> \in fds ELSE pc[h] = "serve" IN
       loop' = [loop EXCEPT ![h] = IF open THEN [pc |-> "blocked", on |-> Ctrl(h)]
                                   ELSE [pc |-> "stopped", on |-> None]]
    /\ UNCHANGED <<kind, hubVars, sock, reqQ, ev, resp, connVars, tasks>>

LoopWake(h) ==
    /\ loop[h].pc = "blocked" /\ ev[loop[h].on]
    /\ ev' = [ev EXCEPT ![loop[h].on] = FALSE]
    /\ loop' = [loop EXCEPT ![h] = [pc |-> "pop", on |-> None]]
    /\ UNCHANGED <<kind, hubVars, sock, reqQ, resp, connVars, tasks>>

(* Mutated form of LoopPop: one command for each wake-up. *)
LoopPopOne(h) ==
    LET q == Ctrl(h) IN
    /\ loop[h].pc = "pop" /\ Mapped(<<q, 1>>)
    /\ reqQ[q] # <<>>
    /\ reqQ' = [reqQ EXCEPT ![q] = Tail(@)]
    /\ loop' = [loop EXCEPT ![h].pc = "top"]
    /\ tasks' = tasks \cup {[home |-> q, n |-> Head(reqQ[q]).n, c |-> Head(reqQ[q]).c,
                             st |-> "new", mem |-> <<None, 0>>]}
    /\ UNCHANGED <<kind, hubVars, sock, ev, resp, connVars>>

(* Pop, and a task for the command. *)
LoopPop(h) ==
    LET q == Ctrl(h) IN
    /\ loop[h].pc = "pop" /\ Mapped(<<q, 1>>)
    /\ reqQ[q] # <<>>
    /\ reqQ' = [reqQ EXCEPT ![q] = Tail(@)]
    /\ tasks' = tasks \cup {[home |-> q, n |-> Head(reqQ[q]).n, c |-> Head(reqQ[q]).c,
                             st |-> "new", mem |-> <<None, 0>>]}
    /\ UNCHANGED <<kind, hubVars, sock, ev, resp, connVars, loop>>

LoopEmpty(h) ==
    /\ loop[h].pc = "pop" /\ Mapped(<<Ctrl(h), 1>>)
    /\ reqQ[Ctrl(h)] = <<>>
    /\ loop' = [loop EXCEPT ![h].pc = "top"]
    /\ UNCHANGED <<kind, hubVars, sock, reqQ, ev, resp, connVars, tasks>>
-----------------------------------------------------------------------------
(* processSlot, handle_process.                                            *)

Becomes(t, u) == tasks' = (tasks \ {t}) \cup {u}


(* getChunk waits for the chunk; a Rust task goes on without it, and finds *)
(* a stripe of no length.                                                  *)
TaskStart(t) ==
    /\ t.st = "new" /\ Mapped(<<Ctrl(t.home), 1>>)
    /\ t.c <= Len(Chunks(t.home)) \/ (kind = "rust" /\ May("behind"))
    /\ Becomes(t, [t EXCEPT !.st = "run",
                            !.mem = IF t.c <= Len(Chunks(t.home)) THEN Chunks(t.home)[t.c] ELSE @])
    /\ UNCHANGED <<kind, hubVars, sock, reqQ, ev, resp, connVars, loop>>

(* The handler works on the stripe. *)
TaskRun(t) ==
    /\ t.st = "run" /\ (kind = "go" => t.mem \in maps)
    /\ Becomes(t, [t EXCEPT !.st = "answer"])
    /\ UNCHANGED <<kind, hubVars, sock, reqQ, ev, resp, connVars, loop>>


(* SetStripeStatus and pushResponse. *)
TaskAnswer(t) ==
    /\ t.st = "answer" /\ Mapped(<<Ctrl(t.home), 1>>)
    /\ resp' = [resp EXCEPT ![Ctrl(t.home)] = Append(@, [home |-> t.home, n |-> t.n])]
    /\ tasks' = tasks \ {t}
    /\ UNCHANGED <<kind, hubVars, sock, reqQ, ev, connVars, loop>>
-----------------------------------------------------------------------------
HubStep(h) ==
    \/ \E says \in {"hello", "other", "nothing"} : Dial(h, says)
    \/ Grow(h) \/ HubDies(h)
    \/ \E c \in 1..MaxChunks : Push(h, c)

HandleConn(h) ==
    \/ Refuse(h) \/ AttachFails(h) \/ Handshake(h) \/ NoHello(h) \/ loadSession(h)
    \/ handleMessage(h) \/ EndSession(h)

StartEventLoop(h) == LoopWait(h) \/ LoopWake(h) \/ LoopPop(h) \/ LoopEmpty(h)

processSlot(t) == TaskStart(t) \/ TaskRun(t) \/ TaskAnswer(t)

(* What the node does, and a hub that has pushed a command. *)
NodeStep ==
    \/ \E h \in Hubs : Notify(h) \/ HandleConn(h) \/ StartEventLoop(h)
    \/ \E t \in tasks : processSlot(t)

Next == NodeStep \/ \E h \in Hubs : HubStep(h)

Spec == Init /\ [][Next]_vars

(* Goroutines and threads are scheduled, and handlers return.  One         *)
(* condition for all of them is enough, since nothing goes on for ever.    *)
Fairness == WF_vars(NodeStep)

FairSpec == Spec /\ Fairness
-----------------------------------------------------------------------------

(* At most one event loop pops from a request queue: Pop is "Single        *)
(* Consumer Safe" only, and a loop of an earlier session may still exist.  *)
OneConsumer ==
    \A k, l \in Hubs : loop[k].pc = "pop" /\ loop[l].pc = "pop" /\ Ctrl(k) = Ctrl(l) => k = l

(* The chunks of a session, with the ones on their way, are the chunks of  *)
(* its hub in their order, whatever sessions there were before: chunk IDs  *)
(* in commands and stripes mean what the hub means by them.                *)
SessionChunks ==
    \A h \in Hubs : pc[h] = "serve" =>
        LET known == Chunks(h) \o FlattenSeq([i \in 1..Len(sock[h]) |-> sock[h][i].chunks])
        IN known = ChunkList(h, 1, bus[h])




(* A command for a node that serves its hub is answered, unless the hub    *)
(* dies or the session ends: no wake-up and no chunk is missed for ever.   *)
Served ==
    \A h \in Hubs : pc[h] = "serve" /\ Len(resp[h]) < asked[h]
                       ~> pc[h] # "serve" \/ hub[h] = "dead" \/ Len(resp[h]) = asked[h]
=============================================================================
