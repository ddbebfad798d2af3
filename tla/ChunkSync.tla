----------------------------- MODULE ChunkSync -----------------------------
(***************************************************************************)
(* How nodes learn of the chunks of the bus: tryAppendChunk and its        *)
(* broadcast, Dial, the watchdog, and handleExpandRequest's look-up of a   *)
(* chunk, under the locks that the code takes (Hub.mu, Bus.mu and          *)
(* tryAppendChunkMux).  A node keeps its chunks in the order in which it   *)
(* receives them, and a chunk ID is a position in that list.  Chunks are   *)
(* numbers; every Dial is for a node of its own.                           *)
(***************************************************************************)
EXTENDS Integers, Sequences

CONSTANTS Appenders,   \* goroutines in AllocBlocks
          Dialers,     \* calls of Dial, also the names of the nodes
          Expanders,   \* goroutines in handleExpandRequest
          Nobody,
          MaxChunks,   \* chunks the bus may have
          MayDie       \* TRUE: a node may die

ASSUME ChunkSyncAssumption ==
    /\ Nobody \notin Appenders \cup Dialers \cup Expanders
    /\ Appenders \cap Dialers = {} /\ (Appenders \cup Dialers) \cap Expanders = {}
    /\ MaxChunks \in Nat \ {0} /\ MayDie \in BOOLEAN

VARIABLES
    hmu, bmu,   \* Hub.mu and Bus.mu
    mux,        \* who holds tryAppendChunkMux
    chunks,     \* chunks of the bus; chunkCount
    app,        \* appender -> where it is in tryAppendChunk
    seen,       \* appender -> the chunk count it has read
    todo,       \* appender -> the nodes it has still to tell
    dial,       \* dialer -> where it is in Dial, then in watchdog
    upto,       \* dialer -> the chunk count it has read
    fds,        \* dialer -> the chunks it has looked up
    sent,       \* dialer -> how many of them the handshake carried
    expander,   \* expander -> where it is in handleExpandRequest
    nodes,      \* the nodes in Hub.nodes
    alive,      \* the nodes whose end of the socket is open
    sock,       \* node -> the messages on its way, each a list of chunks
    got         \* node -> its chunks

appVars == <<app, seen, todo>>
dialVars == <<dial, upto, fds, sent>>
vars == <<hmu, bmu, mux, chunks, appVars, dialVars, expander, nodes, alive, sock, got>>

Actors == Appenders \cup Dialers \cup Expanders
Mutex == [writer : Actors \cup {Nobody}, readers : SUBSET Actors, waiting : SUBSET Actors]
-----------------------------------------------------------------------------
(* sync.RWMutex.  A writer that waits for the readers to leave already     *)
(* keeps new readers out; Unlock lets in the readers that wait.            *)

Unlocked == [writer |-> Nobody, readers |-> {}, waiting |-> {}]
Lock(m, a) == [m EXCEPT !.writer = a]
Locked(m, a) == m.writer = a /\ m.readers = {}
Unlock(m) == [writer |-> Nobody, readers |-> m.waiting, waiting |-> {}]
RLock(m, a) == IF m.writer = Nobody THEN [m EXCEPT !.readers = @ \cup {a}]
               ELSE [m EXCEPT !.waiting = @ \cup {a}]
RLocked(m, a) == a \in m.readers
RUnlock(m, a) == [m EXCEPT !.readers = @ \ {a}]
-----------------------------------------------------------------------------
Init ==
    /\ hmu = Unlocked /\ bmu = Unlocked /\ mux = Nobody
    /\ chunks = 1
    /\ app = [a \in Appenders |-> "idle"]
    /\ seen = [a \in Appenders |-> 0] /\ todo = [a \in Appenders |-> {}]
    /\ dial = [d \in Dialers |-> "none"]
    /\ upto = [d \in Dialers |-> 0] /\ fds = [d \in Dialers |-> <<>>]
    /\ sent = [d \in Dialers |-> 0]
    /\ expander = [e \in Expanders |-> "idle"]
    /\ nodes = {} /\ alive = Dialers
    /\ sock = [d \in Dialers |-> <<>>] /\ got = [d \in Dialers |-> <<>>]

(* A send to a node that is gone fails. *)
Send(d, msg) == IF d \in alive THEN [sock EXCEPT ![d] = Append(@, msg)] ELSE sock
-----------------------------------------------------------------------------
(* Bus.tryAppendChunk and Hub.AppendedChunkBroacast *)

appRest == <<dialVars, expander, nodes, alive, got>>

AppendCall(a) ==
    /\ app[a] = "idle"
    /\ chunks < MaxChunks
    /\ app' = [app EXCEPT ![a] = "mux"]
    /\ seen' = [seen EXCEPT ![a] = chunks]
    /\ UNCHANGED <<hmu, bmu, mux, chunks, todo, sock, appRest>>

(* Mutated form of AppendMux: the count is not checked again. *)
AppendMuxUnchecked(a) ==
    /\ app[a] = "mux" /\ mux = Nobody
    /\ mux' = a
    /\ app' = [app EXCEPT ![a] = "lock"]
    /\ UNCHANGED <<hmu, bmu, chunks, seen, todo, sock, appRest>>

(* Somebody else has appended a chunk in the meantime: return. *)
AppendMux(a) ==
    /\ app[a] = "mux" /\ mux = Nobody
    /\ mux' = IF chunks = seen[a] THEN a ELSE Nobody
    /\ app' = [app EXCEPT ![a] = IF chunks = seen[a] THEN "lock" ELSE "idle"]
    /\ UNCHANGED <<hmu, bmu, chunks, seen, todo, sock, appRest>>

AppendLock(a) ==
    /\ app[a] = "lock" /\ bmu.writer = Nobody
    /\ bmu' = Lock(bmu, a)
    /\ app' = [app EXCEPT ![a] = "append"]
    /\ UNCHANGED <<hmu, mux, chunks, seen, todo, sock, appRest>>

AppendChunk(a) ==
    /\ app[a] = "append" /\ Locked(bmu, a)
    /\ chunks' = chunks + 1
    /\ app' = [app EXCEPT ![a] = "bcast"]
    /\ UNCHANGED <<hmu, bmu, mux, seen, todo, sock, appRest>>

BroadcastRLock(a) ==
    /\ app[a] = "bcast"
    /\ hmu' = RLock(hmu, a)
    /\ app' = [app EXCEPT ![a] = "list"]
    /\ UNCHANGED <<bmu, mux, chunks, seen, todo, sock, appRest>>

BroadcastList(a) ==
    /\ app[a] = "list" /\ RLocked(hmu, a)
    /\ hmu' = RUnlock(hmu, a)
    /\ app' = [app EXCEPT ![a] = "send"]
    /\ todo' = [todo EXCEPT ![a] = nodes]
    /\ UNCHANGED <<bmu, mux, chunks, seen, sock, appRest>>

(* syncChunk; its error is ignored. *)
BroadcastSend(a, d) ==
    /\ app[a] = "send" /\ d \in todo[a]
    /\ sock' = Send(d, <<chunks>>)
    /\ todo' = [todo EXCEPT ![a] = @ \ {d}]
    /\ UNCHANGED <<hmu, bmu, mux, chunks, app, seen, appRest>>

AppendReturn(a) ==
    /\ app[a] = "send" /\ todo[a] = {}
    /\ bmu' = Unlock(bmu)
    /\ mux' = Nobody
    /\ app' = [app EXCEPT ![a] = "idle"]
    /\ UNCHANGED <<hmu, chunks, seen, todo, sock, appRest>>
-----------------------------------------------------------------------------
(* Hub.Dial *)

dialRest == <<mux, chunks, appVars, expander, alive, got>>

(* allocNodeID. *)
DialCall(d) ==
    /\ dial[d] = "none" /\ hmu.writer = Nobody
    /\ hmu' = Lock(hmu, d)
    /\ dial' = [dial EXCEPT ![d] = "id"]
    /\ UNCHANGED <<bmu, upto, fds, sent, nodes, sock, dialRest>>

DialId(d) ==
    /\ dial[d] = "id" /\ Locked(hmu, d)
    /\ hmu' = Unlock(hmu)
    /\ dial' = [dial EXCEPT ![d] = "rlock"]
    /\ UNCHANGED <<bmu, upto, fds, sent, nodes, sock, dialRest>>

DialRLock(d) ==
    /\ dial[d] = "rlock"
    /\ hmu' = RLock(hmu, d)
    /\ dial' = [dial EXCEPT ![d] = "count"]
    /\ UNCHANGED <<bmu, upto, fds, sent, nodes, sock, dialRest>>

DialCount(d) ==
    /\ dial[d] = "count" /\ RLocked(hmu, d)
    /\ dial' = [dial EXCEPT ![d] = "get"]
    /\ upto' = [upto EXCEPT ![d] = chunks]
    /\ UNCHANGED <<hmu, bmu, fds, sent, nodes, sock, dialRest>>

(* GetChunk for the next chunk, with Bus.mu locked for reading. *)
DialGetChunk(d) ==
    /\ dial[d] = "get" /\ Len(fds[d]) < upto[d]
    /\ bmu' = RLock(bmu, d)
    /\ dial' = [dial EXCEPT ![d] = "chunk"]
    /\ UNCHANGED <<hmu, upto, fds, sent, nodes, sock, dialRest>>

DialChunk(d) ==
    /\ dial[d] = "chunk" /\ RLocked(bmu, d)
    /\ bmu' = RUnlock(bmu, d)
    /\ dial' = [dial EXCEPT ![d] = "get"]
    /\ fds' = [fds EXCEPT ![d] = Append(@, Len(@) + 1)]
    /\ UNCHANGED <<hmu, upto, sent, nodes, sock, dialRest>>

(* The handshake carries the chunks; if it fails, so does Dial. *)
DialSend(d) ==
    /\ dial[d] = "get" /\ RLocked(hmu, d)
    /\ Len(fds[d]) = upto[d]
    /\ hmu' = RUnlock(hmu, d)
    /\ sock' = Send(d, fds[d])
    /\ dial' = [dial EXCEPT ![d] = IF d \in alive THEN "lock" ELSE "failed"]
    /\ sent' = [sent EXCEPT ![d] = Len(fds[d])]
    /\ UNCHANGED <<bmu, upto, fds, nodes, dialRest>>

DialLock(d) ==
    /\ dial[d] = "lock" /\ hmu.writer = Nobody
    /\ hmu' = Lock(hmu, d)
    /\ dial' = [dial EXCEPT ![d] = "after"]
    /\ UNCHANGED <<bmu, upto, fds, sent, nodes, sock, dialRest>>

(* Mutated form of DialAfter: the chunks are not counted again. *)
DialAfterBlind(d) ==
    /\ dial[d] = "after" /\ Locked(hmu, d)
    /\ dial' = [dial EXCEPT ![d] = "get"]
    /\ UNCHANGED <<hmu, bmu, upto, fds, sent, nodes, sock, dialRest>>

DialAfter(d) ==
    /\ dial[d] = "after" /\ Locked(hmu, d)
    /\ dial' = [dial EXCEPT ![d] = "get"]
    /\ upto' = [upto EXCEPT ![d] = chunks]
    /\ UNCHANGED <<hmu, bmu, fds, sent, nodes, sock, dialRest>>

(* Mutated form of DialRegister: the chunks of the handshake go out again. *)
DialRegisterAll(d) ==
    /\ dial[d] = "get" /\ Locked(hmu, d)
    /\ Len(fds[d]) = upto[d]
    /\ sock' = Send(d, fds[d])
    /\ nodes' = nodes \cup {d}
    /\ hmu' = Unlock(hmu)
    /\ dial' = [dial EXCEPT ![d] = "watch"]
    /\ upto' = [upto EXCEPT ![d] = 0] /\ fds' = [fds EXCEPT ![d] = <<>>]
    /\ sent' = [sent EXCEPT ![d] = 0]
    /\ UNCHANGED <<bmu, dialRest>>

(* The chunks that came since the handshake are sent, and the node is      *)
(* registered; its watchdog starts, and Dial's local variables are gone.   *)
DialRegister(d) ==
    LET new == SubSeq(fds[d], sent[d] + 1, upto[d])
        fails == new # <<>> /\ d \notin alive IN
    /\ dial[d] = "get" /\ Locked(hmu, d)
    /\ Len(fds[d]) = upto[d]
    /\ sock' = IF new = <<>> THEN sock ELSE Send(d, new)
    /\ nodes' = IF fails THEN nodes ELSE nodes \cup {d}
    /\ hmu' = Unlock(hmu)
    /\ dial' = [dial EXCEPT ![d] = IF fails THEN "failed" ELSE "watch"]
    /\ upto' = [upto EXCEPT ![d] = 0] /\ fds' = [fds EXCEPT ![d] = <<>>]
    /\ sent' = [sent EXCEPT ![d] = 0]
    /\ UNCHANGED <<bmu, dialRest>>
-----------------------------------------------------------------------------
(* Hub.watchdog: CleanupResources looks chunks up, freeNodeID and the      *)
(* removal from Hub.nodes lock Hub.mu.                                     *)

WatchCleanup(d) ==
    /\ dial[d] = "watch" /\ d \notin alive
    /\ bmu' = RLock(bmu, d)
    /\ dial' = [dial EXCEPT ![d] = "cleanup"]
    /\ UNCHANGED <<hmu, upto, fds, sent, nodes, sock, dialRest>>

WatchCleaned(d) ==
    /\ dial[d] = "cleanup" /\ RLocked(bmu, d)
    /\ bmu' = RUnlock(bmu, d)
    /\ dial' = [dial EXCEPT ![d] = "free"]
    /\ UNCHANGED <<hmu, upto, fds, sent, nodes, sock, dialRest>>

WatchLock(d) ==
    /\ dial[d] \in {"free", "delete"} /\ hmu.writer = Nobody
    /\ hmu' = Lock(hmu, d)
    /\ dial' = [dial EXCEPT ![d] = IF @ = "free" THEN "freeing" ELSE "deleting"]
    /\ UNCHANGED <<bmu, upto, fds, sent, nodes, sock, dialRest>>

WatchUnlock(d) ==
    /\ dial[d] \in {"freeing", "deleting"} /\ Locked(hmu, d)
    /\ hmu' = Unlock(hmu)
    /\ nodes' = IF dial[d] = "deleting" THEN nodes \ {d} ELSE nodes
    /\ dial' = [dial EXCEPT ![d] = IF @ = "freeing" THEN "delete" ELSE "closed"]
    /\ UNCHANGED <<bmu, upto, fds, sent, sock, dialRest>>
-----------------------------------------------------------------------------
(* Hub.handleExpandRequest: GetChunk with Hub.mu locked for reading. *)

expandRest == <<mux, chunks, appVars, dialVars, nodes, alive, sock, got>>

ExpandRLock(e) ==
    /\ expander[e] = "idle"
    /\ hmu' = RLock(hmu, e)
    /\ expander' = [expander EXCEPT ![e] = "get"]
    /\ UNCHANGED <<bmu, expandRest>>

ExpandGetChunk(e) ==
    /\ expander[e] = "get" /\ RLocked(hmu, e)
    /\ bmu' = RLock(bmu, e)
    /\ expander' = [expander EXCEPT ![e] = "chunk"]
    /\ UNCHANGED <<hmu, expandRest>>

ExpandChunk(e) ==
    /\ expander[e] = "chunk" /\ RLocked(bmu, e)
    /\ bmu' = RUnlock(bmu, e)
    /\ hmu' = RUnlock(hmu, e)
    /\ expander' = [expander EXCEPT ![e] = "idle"]
    /\ UNCHANGED expandRest
-----------------------------------------------------------------------------
(* A node: handshake and handleMessage append the chunks of a message. *)

Receive(d) ==
    /\ d \in alive /\ sock[d] # <<>>
    /\ got' = [got EXCEPT ![d] = @ \o Head(sock[d])]
    /\ sock' = [sock EXCEPT ![d] = Tail(@)]
    /\ UNCHANGED <<hmu, bmu, mux, chunks, appVars, dialVars, expander, nodes, alive>>

Die(d) ==
    /\ MayDie /\ d \in alive
    /\ alive' = alive \ {d}
    /\ sock' = [sock EXCEPT ![d] = <<>>] /\ got' = [got EXCEPT ![d] = <<>>]
    /\ UNCHANGED <<hmu, bmu, mux, chunks, appVars, dialVars, expander, nodes>>
-----------------------------------------------------------------------------
tryAppendChunk(a) ==
    \/ AppendMux(a) \/ AppendLock(a) \/ AppendChunk(a) \/ BroadcastRLock(a)
    \/ BroadcastList(a) \/ (\E d \in Dialers : BroadcastSend(a, d)) \/ AppendReturn(a)
Dial(d) ==
    \/ DialId(d) \/ DialRLock(d) \/ DialCount(d) \/ DialGetChunk(d) \/ DialChunk(d)
    \/ DialSend(d) \/ DialLock(d) \/ DialAfter(d) \/ DialRegister(d)
watchdog(d) == WatchCleanup(d) \/ WatchCleaned(d) \/ WatchLock(d) \/ WatchUnlock(d)
handleExpandRequest(e) == ExpandGetChunk(e) \/ ExpandChunk(e)

Next ==
    \/ \E a \in Appenders : AppendCall(a) \/ tryAppendChunk(a)
    \/ \E d \in Dialers : DialCall(d) \/ Dial(d) \/ watchdog(d) \/ Receive(d) \/ Die(d)
    \/ \E e \in Expanders : ExpandRLock(e) \/ handleExpandRequest(e)

Spec == Init /\ [][Next]_vars

(* Goroutines are scheduled and mutexes are handed on fairly.              *)
Fairness ==
    /\ \A a \in Appenders : SF_vars(tryAppendChunk(a))
    /\ \A d \in Dialers : SF_vars(Dial(d)) /\ SF_vars(watchdog(d)) /\ WF_vars(Receive(d))
    /\ \A e \in Expanders : WF_vars(handleExpandRequest(e))

FairSpec == Spec /\ Fairness
-----------------------------------------------------------------------------
(* The mutexes, Dial calls and sockets hold what they may, and the bus     *)
(* never has more than MaxChunks chunks.                                   *)
TypeOK ==
    /\ hmu \in Mutex /\ bmu \in Mutex /\ mux \in Appenders \cup {Nobody}
    /\ chunks \in 1..MaxChunks
    /\ app \in [Appenders -> {"idle", "mux", "lock", "append", "bcast", "list", "send"}]
    /\ seen \in [Appenders -> 0..MaxChunks] /\ todo \in [Appenders -> SUBSET Dialers]
    /\ dial \in [Dialers -> {"none", "id", "rlock", "count", "get", "chunk", "lock",
                             "after", "failed", "watch", "cleanup", "free", "freeing",
                             "delete", "deleting", "closed"}]
    /\ upto \in [Dialers -> 0..MaxChunks] /\ sent \in [Dialers -> 0..MaxChunks]
    /\ fds \in [Dialers -> Seq(1..MaxChunks)]
    /\ expander \in [Expanders -> {"idle", "get", "chunk"}]
    /\ nodes \subseteq Dialers /\ alive \subseteq Dialers
    /\ sock \in [Dialers -> Seq(Seq(1..MaxChunks))] /\ got \in [Dialers -> Seq(1..MaxChunks)]

(* A message carries the chunks behind chunk n. *)
Follows(msg, n) == msg # <<>> /\ \A i \in 1..Len(msg) : msg[i] = n + i

(* A node that has the list has and gets the messages msgs will have every *)
(* chunk at its place: chunk i is number i.                                *)
InPlace(has, msgs) ==
    /\ \A i \in 1..Len(has) : has[i] = i
    /\ \A k \in 1..Len(msgs) :
         Follows(msgs[k], IF k = 1 THEN Len(has) ELSE msgs[k - 1][Len(msgs[k - 1])])

(* The last chunk it will have then. *)
LastOf(has, msgs) == IF msgs = <<>> THEN Len(has) ELSE msgs[Len(msgs)][Len(msgs[Len(msgs)])]

(* A chunk has the same position in a node's list as in the bus's, so that *)
(* a chunk ID means the same to both: whatever Dial and the broadcasts of  *)
(* new chunks do at the same time, a node is sent every chunk once, and in *)
(* order.                                                                  *)
ChunkPositions == \A d \in Dialers : InPlace(got[d], sock[d])

(* A registered node has been sent every chunk, except while the goroutine *)
(* that appended the last one is still telling the nodes: no block that    *)
(* AllocBlocks can return lies in a chunk a node will never hear of.       *)
NothingMissed ==
    \A d \in nodes \cap alive :
        LastOf(got[d], sock[d]) = chunks \/ \E a \in Appenders : app[a] \in {"bcast", "list", "send"}

(* Every call of Dial and of tryAppendChunk, and every look-up of a chunk  *)
(* in handleExpandRequest, returns: the locks are never waited for in a    *)
(* circle.                                                                 *)
CallsReturn ==
    /\ \A a \in Appenders : app[a] # "idle" ~> app[a] = "idle"
    /\ \A d \in Dialers : dial[d] = "id" ~> dial[d] \in {"watch", "failed"}
    /\ \A e \in Expanders : expander[e] # "idle" ~> expander[e] = "idle"
=============================================================================
