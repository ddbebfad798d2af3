-------------------------- MODULE ChunkSyncProofs --------------------------
(***************************************************************************)
(* Chunks at the nodes, for any number of appending goroutines, calls of   *)
(* Dial, look-ups and chunks.                                              *)
(***************************************************************************)
EXTENDS ChunkSync, TLAPS

(* Appenders between their steps: with tryAppendChunkMux, with Bus.mu, and *)
(* with a new chunk that not every node knows yet.                         *)
InMux(a) == app[a] \in {"lock", "append", "bcast", "list", "send"}
InBus(a) == app[a] \in {"append", "bcast", "list", "send"}
Telling(a) == app[a] \in {"bcast", "list", "send"}
Announcing == \E a \in Appenders : app[a] \in {"bcast", "list"}

(* Dial in its two visits to the list of chunks, before the handshake and  *)
(* after it, and whoever has Hub.mu.                                       *)
Before(d) == dial[d] \in {"get", "chunk"} /\ sent[d] = 0
After(d) == dial[d] \in {"get", "chunk"} /\ sent[d] > 0
Writing(d) == dial[d] \in {"id", "after", "freeing", "deleting"} \/ After(d)

WellFormed ==
    /\ hmu \in Mutex /\ bmu \in Mutex
    /\ chunks \in Nat \ {0}
    /\ app \in [Appenders -> {"idle", "mux", "lock", "append", "bcast", "list", "send"}]
    /\ todo \in [Appenders -> SUBSET Dialers]
    /\ dial \in [Dialers -> {"none", "id", "rlock", "count", "get", "chunk", "lock",
                             "after", "failed", "watch", "cleanup", "free", "freeing",
                             "delete", "deleting", "closed"}]
    /\ upto \in [Dialers -> Nat] /\ sent \in [Dialers -> Nat]
    /\ fds \in [Dialers -> Seq(Nat)]
    /\ nodes \subseteq Dialers /\ alive \subseteq Dialers
    /\ sock \in [Dialers -> Seq(Seq(Nat))] /\ got \in [Dialers -> Seq(Nat)]

(* One appender at a time, and no reader of Bus.mu while it tells. *)
AppenderInv(a) ==
    /\ InMux(a) => mux = a
    /\ InBus(a) => bmu.writer = a
    /\ Telling(a) => bmu.readers = {}
    /\ app[a] # "send" => todo[a] = {}

(* One writer of Hub.mu, and no reader while Dial is in its second visit. *)
HubInv(d) ==
    /\ Writing(d) <=> hmu.writer = d
    /\ After(d) => hmu.readers = {}

(* What Dial knows. *)
DialInv(d) ==
    /\ \A i \in 1..Len(fds[d]) : fds[d][i] = i
    /\ Len(fds[d]) <= upto[d] /\ upto[d] <= chunks
    /\ dial[d] = "chunk" => Len(fds[d]) < upto[d]
    /\ \A a \in Appenders : Telling(a) => Len(fds[d]) < chunks
    /\ dial[d] \in {"none", "id", "rlock", "count"} => fds[d] = <<>> /\ sent[d] = 0
    /\ Before(d) => upto[d] > 0
    /\ dial[d] \in {"lock", "after"} => sent[d] > 0 /\ sent[d] = Len(fds[d])
    /\ After(d) => sent[d] <= Len(fds[d])
    /\ After(d) => \/ upto[d] = chunks
                   \/ /\ upto[d] = chunks - 1
                      /\ Announcing

(* The chunk that a registered node was told last. *)
Due(d) ==
    IF Announcing \/ \E a \in Appenders : d \in todo[a] THEN chunks - 1 ELSE chunks

(* The messages to a node, and how far they go if it lives. *)
Last(d) == LastOf(got[d], sock[d])
Sent(d) ==
    /\ dial[d] \in {"none", "id", "rlock", "count"} \/ Before(d) => Last(d) = 0
    /\ dial[d] \in {"lock", "after"} \/ After(d) => Last(d) = sent[d]
    /\ dial[d] = "watch" => Last(d) = Due(d)
    /\ dial[d] \in {"none", "id", "rlock", "count", "get", "chunk", "lock", "after", "watch"}
    /\ d \in nodes <=> dial[d] = "watch"
    /\ \A a \in Appenders : d \in todo[a] => dial[d] = "watch"
SentInv(d) == InPlace(got[d], sock[d]) /\ (d \in alive => Sent(d))

IInv ==
    /\ WellFormed
    /\ \A a \in Appenders : AppenderInv(a)
    /\ \A d \in Dialers : HubInv(d) /\ DialInv(d) /\ SentInv(d)
-----------------------------------------------------------------------------
(* What the operations of a mutex do to its fields. *)
LEMMA MutexOps ==
    ASSUME NEW m \in Mutex, NEW a \in Actors
    PROVE  /\ Lock(m, a) \in Mutex /\ Lock(m, a).writer = a /\ Lock(m, a).readers = m.readers
           /\ Unlock(m) \in Mutex /\ Unlock(m).writer = Nobody
           /\ RLock(m, a) \in Mutex /\ RLock(m, a).writer = m.writer
           /\ m.writer # Nobody => RLock(m, a).readers = m.readers
           /\ RUnlock(m, a) \in Mutex /\ RUnlock(m, a).writer = m.writer
           /\ RUnlock(m, a).readers \subseteq m.readers
  BY Zenon DEF Mutex, Lock, Unlock, RLock, RUnlock

(* The empty sequence is the one of length 0. *)
LEMMA EmptyLength ==
    ASSUME NEW S, NEW s \in Seq(S)
    PROVE  /\ s = <<>> <=> Len(s) = 0
           /\ Len(s) \in Nat
  OBVIOUS

(* A message that carries the next chunks goes to the end of a node's      *)
(* messages.                                                               *)
LEMMA SendInPlace ==
    ASSUME NEW has \in Seq(Nat), NEW msgs \in Seq(Seq(Nat)), NEW msg \in Seq(Nat),
           InPlace(has, msgs), Follows(msg, LastOf(has, msgs))
    PROVE  /\ InPlace(has, Append(msgs, msg))
           /\ LastOf(has, Append(msgs, msg)) = LastOf(has, msgs) + Len(msg)
<1> DEFINE all == Append(msgs, msg)
           n == Len(msgs)
<1>1. /\ n \in Nat /\ Len(all) = n + 1 /\ all[n + 1] = msg
      /\ \A k \in 1..n : all[k] = msgs[k]
  OBVIOUS
<1>2. Len(msg) \in Nat /\ Len(msg) > 0 /\ msg[Len(msg)] = LastOf(has, msgs) + Len(msg)
  BY DEF Follows
<1>3. all # <<>>
  <2>1. all \in Seq(Seq(Nat))
    OBVIOUS
  <2> HIDE DEF all, n
  <2> QED BY <1>1, <2>1, EmptyLength
<1>4. LastOf(has, all) = LastOf(has, msgs) + Len(msg)
  BY Zenon, <1>1, <1>2, <1>3 DEF LastOf
<1>5. msgs = <<>> <=> n = 0
  OBVIOUS
<1>6. ASSUME NEW k \in 1..(n + 1)
      PROVE  Follows(all[k], IF k = 1 THEN Len(has) ELSE all[k - 1][Len(all[k - 1])])
  <2>1. CASE k <= n
    <3>1. k \in 1..n /\ all[k] = msgs[k] /\ (k # 1 => k - 1 \in 1..n /\ all[k - 1] = msgs[k - 1])
      BY <1>1, <2>1
    <3>2. Follows(msgs[k], IF k = 1 THEN Len(has) ELSE msgs[k - 1][Len(msgs[k - 1])])
      BY Zenon, <3>1 DEF InPlace
    <3> QED BY Zenon, <3>1, <3>2
  <2>2. CASE k = n + 1
    <3>1. CASE n = 0
      BY <1>1, <1>5, <2>2, <3>1 DEF LastOf
    <3>2. CASE n # 0
      <4>1. n \in 1..n /\ k # 1 /\ all[k - 1] = msgs[n]
        BY <1>1, <2>2, <3>2
      <4>2. LastOf(has, msgs) = msgs[n][Len(msgs[n])]
        BY Zenon, <1>5, <3>2 DEF LastOf
      <4> QED BY Zenon, <1>1, <2>2, <4>1, <4>2
    <3> QED BY Zenon, <3>1, <3>2
  <2> QED BY <1>1, <2>1, <2>2
<1>7. \A i \in 1..Len(has) : has[i] = i
  BY Zenon DEF InPlace
<1> HIDE DEF all, n
<1>8. InPlace(has, all)
  BY Zenon, <1>1, <1>6, <1>7 DEF InPlace
<1> QED BY Zenon, <1>4, <1>8 DEF all

(* A node takes its first message. *)
LEMMA ReceiveInPlace ==
    ASSUME NEW has \in Seq(Nat), NEW msgs \in Seq(Seq(Nat)), InPlace(has, msgs), msgs # <<>>
    PROVE  /\ InPlace(has \o Head(msgs), Tail(msgs))
           /\ LastOf(has \o Head(msgs), Tail(msgs)) = LastOf(has, msgs)
<1> DEFINE n == Len(msgs)
           msg == Head(msgs)
           rest == Tail(msgs)
           all == has \o msg
<1>1. /\ n \in Nat /\ n >= 1 /\ msg = msgs[1] /\ msg \in Seq(Nat)
      /\ rest \in Seq(Seq(Nat)) /\ Len(rest) = n - 1
      /\ \A k \in 1..(n - 1) : rest[k] = msgs[k + 1]
  OBVIOUS
<1>2. Follows(msg, Len(has))
  <2>1. 1 \in 1..n
    BY <1>1
  <2> QED BY Zenon, <1>1, <2>1 DEF InPlace
<1>3. Len(msg) \in Nat /\ Len(msg) > 0 /\ \A i \in 1..Len(msg) : msg[i] = Len(has) + i
  BY <1>1, <1>2 DEF Follows
<1>4. /\ all \in Seq(Nat) /\ Len(all) = Len(has) + Len(msg) /\ Len(has) \in Nat
      /\ \A i \in 1..Len(has) : all[i] = has[i]
      /\ \A i \in Len(has) + 1..Len(has) + Len(msg) : all[i] = msg[i - Len(has)]
  BY <1>1
<1>5. msg[Len(msg)] = Len(all)
  <2> HIDE DEF msg, all
  <2>1. Len(msg) \in 1..Len(msg)
    BY <1>3
  <2> QED BY Zenon, <1>3, <1>4, <2>1
<1>6. \A i \in 1..Len(all) : all[i] = i
  <2> SUFFICES ASSUME NEW i \in 1..Len(all) PROVE all[i] = i
    OBVIOUS
  <2>1. CASE i <= Len(has)
    BY <1>4, <2>1 DEF InPlace
  <2>2. CASE i > Len(has)
    <3> DEFINE j == i - Len(has)
    <3>1. j \in 1..Len(msg) /\ i \in Len(has) + 1..Len(has) + Len(msg) /\ Len(has) + j = i
      BY <1>3, <1>4, <2>2
    <3> QED BY Zenon, <1>3, <1>4, <3>1
  <2> QED BY <1>4, <2>1, <2>2
<1>7. \A k \in 1..(n - 1) :
         Follows(rest[k], IF k = 1 THEN Len(all) ELSE rest[k - 1][Len(rest[k - 1])])
  <2> SUFFICES ASSUME NEW k \in 1..(n - 1)
               PROVE  Follows(rest[k], IF k = 1 THEN Len(all) ELSE rest[k - 1][Len(rest[k - 1])])
    OBVIOUS
  <2>1. k + 1 \in 1..n /\ k + 1 # 1 /\ (k + 1) - 1 = k /\ rest[k] = msgs[k + 1]
    BY <1>1
  <2>2. Follows(msgs[k + 1], msgs[k][Len(msgs[k])])
    BY Zenon, <2>1 DEF InPlace
  <2>3. CASE k = 1
    BY Zenon, <1>1, <1>5, <2>1, <2>2, <2>3
  <2>4. CASE k # 1
    <3>1. k - 1 \in 1..(n - 1) /\ rest[k - 1] = msgs[k]
      BY <1>1, <2>4
    <3> QED BY Zenon, <2>1, <2>2, <2>4, <3>1
  <2> QED BY Zenon, <2>3, <2>4
<1>8. LastOf(all, rest) = LastOf(has, msgs)
  <2>1. LastOf(has, msgs) = msgs[n][Len(msgs[n])]
    BY Zenon DEF LastOf
  <2>2. CASE n = 1
    <3>1. rest = <<>>
      <4> HIDE DEF rest, n
      <4> QED BY <1>1, <2>2, EmptyLength
    <3> QED BY Zenon, <1>1, <1>5, <2>1, <2>2, <3>1 DEF LastOf
  <2>3. CASE n # 1
    <3>1. rest # <<>> /\ rest[n - 1] = msgs[n]
      <4> HIDE DEF rest, n
      <4>1. n - 1 \in 1..(n - 1) /\ (n - 1) + 1 = n
        BY <1>1, <2>3
      <4> QED BY <1>1, <2>3, <4>1, EmptyLength
    <3> QED BY Zenon, <1>1, <2>1, <3>1 DEF LastOf
  <2> QED BY Zenon, <2>2, <2>3
<1> HIDE DEF n, msg, rest, all
<1>9. InPlace(all, rest)
  BY Zenon, <1>1, <1>6, <1>7 DEF InPlace
<1> QED BY Zenon, <1>8, <1>9 DEF all, rest, msg

(* What a send leaves on the sockets. *)
LEMMA SendOnly ==
    ASSUME WellFormed, NEW d \in Dialers, NEW msg \in Seq(Nat)
    PROVE  /\ Send(d, msg) \in [Dialers -> Seq(Seq(Nat))]
           /\ d \in alive => Send(d, msg)[d] = Append(sock[d], msg)
           /\ \A x \in Dialers \ {d} : Send(d, msg)[x] = sock[x]
<1>1. Append(sock[d], msg) \in Seq(Seq(Nat))
  BY DEF WellFormed
<1> QED BY Zenon, <1>1 DEF Send, WellFormed

(* What Dial has still to send after its second visit to the list. *)
LEMMA NewChunks ==
    ASSUME NEW s \in Seq(Nat), NEW n \in Nat, n <= Len(s),
           NEW new, new = SubSeq(s, n + 1, Len(s))
    PROVE  /\ new \in Seq(Nat) /\ Len(new) = Len(s) - n
           /\ \A i \in 1..(Len(s) - n) : new[i] = s[n + i]
<1>1. new \in Seq(Nat) /\ Len(new) = Len(s) - n
  OBVIOUS
<1>2. ASSUME NEW i \in 1..(Len(s) - n) PROVE new[i] = s[n + i]
  OBVIOUS
<1> QED BY Zenon, <1>1, <1>2

(* The chunks that DialRegister sends are those behind the handshake's. *)
LEMMA RegisterSends ==
    ASSUME IInv, NEW d \in Dialers, DialRegister(d)
    PROVE  LET new == SubSeq(fds[d], sent[d] + 1, upto[d]) IN
           /\ After(d) /\ hmu.writer = d /\ sent[d] <= upto[d]
           /\ new \in Seq(Nat) /\ Len(new) = upto[d] - sent[d]
           /\ \A i \in 1..Len(new) : new[i] = sent[d] + i
<1> DEFINE new == SubSeq(fds[d], sent[d] + 1, upto[d])
<1>1. hmu.writer = d /\ dial[d] = "get" /\ Len(fds[d]) = upto[d]
  BY Zenon DEF DialRegister, Locked
<1>2. After(d)
  BY Zenon, <1>1 DEF IInv, HubInv, Writing, After
<1>3. fds[d] \in Seq(Nat) /\ sent[d] \in Nat /\ upto[d] \in Nat
  BY Zenon DEF IInv, WellFormed
<1>4. sent[d] <= Len(fds[d]) /\ \A i \in 1..Len(fds[d]) : fds[d][i] = i
  BY Zenon, <1>2 DEF IInv, DialInv
<1>5. new = SubSeq(fds[d], sent[d] + 1, Len(fds[d]))
  BY Zenon, <1>1
<1> HIDE DEF new
<1>6. /\ new \in Seq(Nat) /\ Len(new) = Len(fds[d]) - sent[d]
      /\ \A i \in 1..(Len(fds[d]) - sent[d]) : new[i] = fds[d][sent[d] + i]
  <2> DEFINE s == fds[d]
             n == sent[d]
  <2>1. s \in Seq(Nat) /\ n \in Nat /\ n <= Len(s) /\ new = SubSeq(s, n + 1, Len(s))
    BY Zenon, <1>3, <1>4, <1>5
  <2> HIDE DEF s, n
  <2>2. /\ new \in Seq(Nat) /\ Len(new) = Len(s) - n
        /\ \A i \in 1..(Len(s) - n) : new[i] = s[n + i]
    BY Zenon, <2>1, NewChunks
  <2> QED BY Zenon, <2>2 DEF s, n
<1>7. ASSUME NEW i \in 1..Len(new) PROVE new[i] = sent[d] + i
  <2>1. Len(fds[d]) \in Nat
    BY <1>3
  <2>2. i \in 1..(Len(fds[d]) - sent[d])
    BY Zenon, <1>6
  <2>3. sent[d] + i \in 1..Len(fds[d])
    BY <1>3, <2>1, <2>2
  <2> QED BY Zenon, <1>4, <1>6, <2>2, <2>3
<1>8. Len(new) = upto[d] - sent[d] /\ sent[d] <= upto[d]
  BY Zenon, <1>1, <1>4, <1>6
<1> QED BY Zenon, <1>1, <1>2, <1>6, <1>7, <1>8 DEF new

(* DialInv depends on these variables only. *)
LEMMA DialFrame ==
    ASSUME NEW x \in Dialers, DialInv(x), chunks' = chunks,
           fds'[x] = fds[x], upto'[x] = upto[x], sent'[x] = sent[x], dial'[x] = dial[x],
           \A a \in Appenders : Telling(a)' => Telling(a),
           After(x) /\ Announcing => Announcing'
    PROVE  DialInv(x)'
<1>1. Before(x)' = Before(x) /\ After(x)' = After(x)
  BY Zenon DEF Before, After
<1> QED BY Zenon, <1>1 DEF DialInv

(* SentInv depends on these variables only. *)
LEMMA SentFrame ==
    ASSUME NEW x \in Dialers, SentInv(x), x \in alive' => x \in alive,
           dial'[x] = dial[x], sent'[x] = sent[x], got'[x] = got[x], sock'[x] = sock[x],
           x \in nodes' <=> x \in nodes,
           x \in nodes => Due(x)' = Due(x),
           \A a \in Appenders : x \in todo'[a] => x \in todo[a] \/ x \in nodes
    PROVE  SentInv(x)'
<1>1. (Before(x)' <=> Before(x)) /\ (After(x)' <=> After(x)) /\ Last(x)' = Last(x)
  BY Zenon DEF Before, After, Last
<1>2. InPlace(got[x], sock[x])'
  BY Zenon DEF SentInv
<1>3. ASSUME x \in alive' PROVE Sent(x)'
  BY Zenon, <1>1, <1>3 DEF SentInv, Sent
<1> QED BY Zenon, <1>2, <1>3 DEF SentInv

(* What a node is due to have been told depends on these variables only. *)
LEMMA DueFrame ==
    ASSUME NEW x \in Dialers, UNCHANGED <<chunks, app, todo>>
    PROVE  Due(x)' = Due(x)
  BY Zenon DEF Due, Announcing

(* An appender that tells is the only one with nodes to tell. *)
LEMMA OneTells ==
    ASSUME \A a \in Appenders : AppenderInv(a), NEW a \in Appenders, InBus(a)
    PROVE  \A b \in Appenders \ {a} : ~Telling(b) /\ app[b] # "send" /\ todo[b] = {}
  BY Zenon DEF AppenderInv, InBus, Telling

(* What a send adds to the messages to a node. *)
LEMMA SendNext ==
    ASSUME WellFormed, NEW d \in Dialers, d \in alive, NEW msg \in Seq(Nat), SentInv(d),
           Follows(msg, Last(d)), sock' = Send(d, msg), got' = got
    PROVE  InPlace(got[d], sock[d])' /\ Last(d)' = Last(d) + Len(msg)
<1>1. sock'[d] = Append(sock[d], msg) /\ got'[d] = got[d]
  BY Zenon, SendOnly
<1>2. got[d] \in Seq(Nat) /\ sock[d] \in Seq(Seq(Nat))
  BY Zenon DEF WellFormed
<1> QED BY <1>1, <1>2, SendInPlace DEF SentInv, Last
-----------------------------------------------------------------------------
(* Every step leaves the variables well formed. *)
LEMMA WellFormedStep ==
    ASSUME IInv, [Next]_vars
    PROVE  WellFormed'
<1> WellFormed
  BY Zenon DEF IInv
<1>1. ASSUME NEW a \in Appenders, AppendCall(a) PROVE WellFormed'
  BY Zenon, <1>1 DEF AppendCall, appRest, dialVars, WellFormed, Actors
<1>2. ASSUME NEW a \in Appenders, AppendMux(a) PROVE WellFormed'
  BY Zenon, <1>2 DEF AppendMux, appRest, dialVars, WellFormed, Actors
<1>3. ASSUME NEW a \in Appenders, AppendLock(a) PROVE WellFormed'
  BY Zenon, <1>3, MutexOps DEF AppendLock, appRest, dialVars, WellFormed, Actors
<1>4. ASSUME NEW a \in Appenders, AppendChunk(a) PROVE WellFormed'
  BY <1>4 DEF AppendChunk, appRest, dialVars, WellFormed, Actors
<1>5. ASSUME NEW a \in Appenders, BroadcastRLock(a) PROVE WellFormed'
  BY Zenon, <1>5, MutexOps DEF BroadcastRLock, appRest, dialVars, WellFormed, Actors
<1>6. ASSUME NEW a \in Appenders, BroadcastList(a) PROVE WellFormed'
  BY Zenon, <1>6, MutexOps DEF BroadcastList, appRest, dialVars, WellFormed, Actors
<1>7. ASSUME NEW a \in Appenders, NEW d \in Dialers, BroadcastSend(a, d) PROVE WellFormed'
  BY <1>7 DEF BroadcastSend, appRest, dialVars, WellFormed, Send, Actors
<1>8. ASSUME NEW a \in Appenders, AppendReturn(a) PROVE WellFormed'
  BY Zenon, <1>8, MutexOps DEF AppendReturn, appRest, dialVars, WellFormed, Actors
<1>9. ASSUME NEW d \in Dialers, DialCall(d) PROVE WellFormed'
  BY Zenon, <1>9, MutexOps DEF DialCall, dialRest, appVars, WellFormed, Actors
<1>10. ASSUME NEW d \in Dialers, DialId(d) PROVE WellFormed'
  BY Zenon, <1>10, MutexOps DEF DialId, dialRest, appVars, WellFormed, Actors
<1>11. ASSUME NEW d \in Dialers, DialRLock(d) PROVE WellFormed'
  BY Zenon, <1>11, MutexOps DEF DialRLock, dialRest, appVars, WellFormed, Actors
<1>12. ASSUME NEW d \in Dialers, DialCount(d) PROVE WellFormed'
  BY Zenon, <1>12 DEF DialCount, dialRest, appVars, WellFormed, Actors
<1>13. ASSUME NEW d \in Dialers, DialGetChunk(d) PROVE WellFormed'
  BY Zenon, <1>13, MutexOps DEF DialGetChunk, dialRest, appVars, WellFormed, Actors
<1>14. ASSUME NEW d \in Dialers, DialChunk(d) PROVE WellFormed'
  <2>1. Append(fds[d], Len(fds[d]) + 1) \in Seq(Nat)
    BY DEF WellFormed
  <2>2. bmu' \in Mutex
    BY Zenon, <1>14, MutexOps DEF DialChunk, WellFormed, Actors
  <2> QED BY Zenon, <1>14, <2>1, <2>2 DEF DialChunk, dialRest, appVars, WellFormed
<1>15. ASSUME NEW d \in Dialers, DialSend(d) PROVE WellFormed'
  <2>1. sock' \in [Dialers -> Seq(Seq(Nat))]
    BY Zenon, <1>15, SendOnly DEF DialSend, WellFormed
  <2>2. hmu' \in Mutex
    BY Zenon, <1>15, MutexOps DEF DialSend, WellFormed, Actors
  <2>3. Len(fds[d]) \in Nat
    BY DEF WellFormed
  <2> QED BY Zenon, <1>15, <2>1, <2>2, <2>3 DEF DialSend, dialRest, appVars, WellFormed
<1>16. ASSUME NEW d \in Dialers, DialLock(d) PROVE WellFormed'
  BY Zenon, <1>16, MutexOps DEF DialLock, dialRest, appVars, WellFormed, Actors
<1>17. ASSUME NEW d \in Dialers, DialAfter(d) PROVE WellFormed'
  BY Zenon, <1>17 DEF DialAfter, dialRest, appVars, WellFormed, Actors
<1>18. ASSUME NEW d \in Dialers, DialRegister(d) PROVE WellFormed'
  <2> DEFINE new == SubSeq(fds[d], sent[d] + 1, upto[d])
  <2>1. new \in Seq(Nat)
    BY Zenon, <1>18, RegisterSends
  <2> HIDE DEF new
  <2>2. sock' = sock \/ sock' = Send(d, new)
    BY Zenon, <1>18 DEF DialRegister, new
  <2>3. sock' \in [Dialers -> Seq(Seq(Nat))]
    BY <2>1, <2>2, SendOnly DEF WellFormed
  <2>4. hmu' \in Mutex
    BY Zenon, <1>18, MutexOps DEF DialRegister, WellFormed, Actors
  <2>5. nodes' \subseteq Dialers
    BY Zenon, <1>18 DEF DialRegister, WellFormed
  <2>6. <<>> \in Seq(Nat)
    OBVIOUS
  <2> QED BY Zenon, <1>18, <2>3, <2>4, <2>5, <2>6 DEF DialRegister, dialRest, appVars, WellFormed
<1>19. ASSUME NEW d \in Dialers, WatchCleanup(d) PROVE WellFormed'
  BY Zenon, <1>19, MutexOps DEF WatchCleanup, dialRest, appVars, WellFormed, Actors
<1>20. ASSUME NEW d \in Dialers, WatchCleaned(d) PROVE WellFormed'
  BY Zenon, <1>20, MutexOps DEF WatchCleaned, dialRest, appVars, WellFormed, Actors
<1>21. ASSUME NEW d \in Dialers, WatchLock(d) PROVE WellFormed'
  BY Zenon, <1>21, MutexOps DEF WatchLock, dialRest, appVars, WellFormed, Actors
<1>22. ASSUME NEW d \in Dialers, WatchUnlock(d) PROVE WellFormed'
  BY Zenon, <1>22, MutexOps DEF WatchUnlock, dialRest, appVars, WellFormed, Actors
<1>23. ASSUME NEW d \in Dialers, Receive(d) PROVE WellFormed'
  BY <1>23 DEF Receive, appVars, dialVars, WellFormed, Actors
<1>24. ASSUME NEW d \in Dialers, Die(d) PROVE WellFormed'
  BY <1>24 DEF Die, appVars, dialVars, WellFormed, Actors
<1>25. ASSUME NEW e \in Expanders, ExpandRLock(e) PROVE WellFormed'
  BY Zenon, <1>25, MutexOps DEF ExpandRLock, expandRest, appVars, dialVars, WellFormed,
     Actors
<1>26. ASSUME NEW e \in Expanders, ExpandGetChunk(e) PROVE WellFormed'
  BY Zenon, <1>26, MutexOps DEF ExpandGetChunk, expandRest, appVars, dialVars, WellFormed,
     Actors
<1>27. ASSUME NEW e \in Expanders, ExpandChunk(e) PROVE WellFormed'
  BY Zenon, <1>27, MutexOps DEF ExpandChunk, expandRest, appVars, dialVars, WellFormed,
     Actors
<1>28. ASSUME UNCHANGED vars PROVE WellFormed'
  BY Zenon, <1>28 DEF WellFormed, vars, appVars, dialVars
<1> QED BY Zenon, <1>1, <1>2, <1>3, <1>4, <1>5, <1>6, <1>7, <1>8, <1>9, <1>10, <1>11,
        <1>12, <1>13, <1>14, <1>15, <1>16, <1>17, <1>18, <1>19, <1>20, <1>21,
        <1>22, <1>23, <1>24, <1>25, <1>26, <1>27, <1>28
        DEF Next, tryAppendChunk, Dial, watchdog, handleExpandRequest

(* Every step keeps the appenders apart. *)
LEMMA AppenderStep ==
    ASSUME IInv, [Next]_vars, NEW b \in Appenders
    PROVE  AppenderInv(b)'
<1> WellFormed /\ \A a \in Appenders : AppenderInv(a)
  BY Zenon DEF IInv
<1>a. DOMAIN app = Appenders /\ DOMAIN todo = Appenders
  BY Zenon DEF WellFormed
<1>1. ASSUME NEW a \in Appenders, AppendCall(a) PROVE AppenderInv(b)'
  BY Zenon, <1>1, ChunkSyncAssumption, <1>a DEF AppendCall, appRest, dialVars, AppenderInv,
     InMux, InBus, Telling
<1>2. ASSUME NEW a \in Appenders, AppendMux(a) PROVE AppenderInv(b)'
  BY Zenon, <1>2, ChunkSyncAssumption, <1>a DEF AppendMux, appRest, dialVars, AppenderInv,
     InMux, InBus, Telling
<1>3. ASSUME NEW a \in Appenders, AppendLock(a) PROVE AppenderInv(b)'
  <2>1. bmu'.writer = a /\ bmu'.readers = bmu.readers
    BY Zenon, <1>3, MutexOps DEF AppendLock, WellFormed, Actors
  <2> QED BY Zenon, <1>3, ChunkSyncAssumption, <1>a, <2>1 DEF AppendLock, appRest, dialVars,
     AppenderInv, InMux, InBus, Telling
<1>4. ASSUME NEW a \in Appenders, AppendChunk(a) PROVE AppenderInv(b)'
  BY Zenon, <1>4, ChunkSyncAssumption, <1>a DEF AppendChunk, appRest, dialVars, AppenderInv,
     InMux, InBus, Telling, Locked
<1>5. ASSUME NEW a \in Appenders, BroadcastRLock(a) PROVE AppenderInv(b)'
  BY Zenon, <1>5, ChunkSyncAssumption, <1>a DEF BroadcastRLock, appRest, dialVars,
     AppenderInv, InMux, InBus, Telling
<1>6. ASSUME NEW a \in Appenders, BroadcastList(a) PROVE AppenderInv(b)'
  BY Zenon, <1>6, ChunkSyncAssumption, <1>a DEF BroadcastList, appRest, dialVars,
     AppenderInv, InMux, InBus, Telling
<1>7. ASSUME NEW a \in Appenders, NEW d \in Dialers, BroadcastSend(a, d) PROVE AppenderInv(b)'
  BY Zenon, <1>7, ChunkSyncAssumption, <1>a DEF BroadcastSend, appRest, dialVars,
     AppenderInv, InMux, InBus, Telling
<1>8. ASSUME NEW a \in Appenders, AppendReturn(a) PROVE AppenderInv(b)'
  <2>1. bmu'.writer = Nobody
    BY Zenon, <1>8, MutexOps DEF AppendReturn, WellFormed, Actors
  <2> QED BY Zenon, <1>8, ChunkSyncAssumption, <1>a, <2>1 DEF AppendReturn, appRest, dialVars,
     AppenderInv, InMux, InBus, Telling
<1>9. ASSUME NEW d \in Dialers, DialCall(d) PROVE AppenderInv(b)'
  BY Zenon, <1>9 DEF DialCall, dialRest, appVars, AppenderInv, InMux, InBus, Telling
<1>10. ASSUME NEW d \in Dialers, DialId(d) PROVE AppenderInv(b)'
  BY Zenon, <1>10 DEF DialId, dialRest, appVars, AppenderInv, InMux, InBus, Telling
<1>11. ASSUME NEW d \in Dialers, DialRLock(d) PROVE AppenderInv(b)'
  BY Zenon, <1>11 DEF DialRLock, dialRest, appVars, AppenderInv, InMux, InBus, Telling
<1>12. ASSUME NEW d \in Dialers, DialCount(d) PROVE AppenderInv(b)'
  BY Zenon, <1>12 DEF DialCount, dialRest, appVars, AppenderInv, InMux, InBus, Telling
<1>13. ASSUME NEW d \in Dialers, DialGetChunk(d) PROVE AppenderInv(b)'
  <2>1. bmu'.writer = bmu.writer /\ (bmu.writer # Nobody => bmu'.readers = bmu.readers)
    BY Zenon, <1>13, MutexOps DEF DialGetChunk, WellFormed, Actors
  <2> QED BY Zenon, <1>13, ChunkSyncAssumption, <2>1 DEF DialGetChunk, dialRest, appVars,
     AppenderInv, InMux, InBus, Telling
<1>14. ASSUME NEW d \in Dialers, DialChunk(d) PROVE AppenderInv(b)'
  <2>1. bmu'.writer = bmu.writer /\ bmu'.readers \subseteq bmu.readers
    BY Zenon, <1>14, MutexOps DEF DialChunk, WellFormed, Actors
  <2> QED BY Zenon, <1>14, ChunkSyncAssumption, <2>1 DEF DialChunk, dialRest, appVars, AppenderInv,
     InMux, InBus, Telling
<1>15. ASSUME NEW d \in Dialers, DialSend(d) PROVE AppenderInv(b)'
  BY Zenon, <1>15 DEF DialSend, dialRest, appVars, AppenderInv, InMux, InBus, Telling
<1>16. ASSUME NEW d \in Dialers, DialLock(d) PROVE AppenderInv(b)'
  BY Zenon, <1>16 DEF DialLock, dialRest, appVars, AppenderInv, InMux, InBus, Telling
<1>17. ASSUME NEW d \in Dialers, DialAfter(d) PROVE AppenderInv(b)'
  BY Zenon, <1>17 DEF DialAfter, dialRest, appVars, AppenderInv, InMux, InBus, Telling
<1>18. ASSUME NEW d \in Dialers, DialRegister(d) PROVE AppenderInv(b)'
  BY Zenon, <1>18 DEF DialRegister, dialRest, appVars, AppenderInv, InMux, InBus, Telling
<1>19. ASSUME NEW d \in Dialers, WatchCleanup(d) PROVE AppenderInv(b)'
  <2>1. bmu'.writer = bmu.writer /\ (bmu.writer # Nobody => bmu'.readers = bmu.readers)
    BY Zenon, <1>19, MutexOps DEF WatchCleanup, WellFormed, Actors
  <2> QED BY Zenon, <1>19, ChunkSyncAssumption, <2>1 DEF WatchCleanup, dialRest, appVars,
     AppenderInv, InMux, InBus, Telling
<1>20. ASSUME NEW d \in Dialers, WatchCleaned(d) PROVE AppenderInv(b)'
  <2>1. bmu'.writer = bmu.writer /\ bmu'.readers \subseteq bmu.readers
    BY Zenon, <1>20, MutexOps DEF WatchCleaned, WellFormed, Actors
  <2> QED BY Zenon, <1>20, ChunkSyncAssumption, <2>1 DEF WatchCleaned, dialRest, appVars,
     AppenderInv, InMux, InBus, Telling
<1>21. ASSUME NEW d \in Dialers, WatchLock(d) PROVE AppenderInv(b)'
  BY Zenon, <1>21 DEF WatchLock, dialRest, appVars, AppenderInv, InMux, InBus, Telling
<1>22. ASSUME NEW d \in Dialers, WatchUnlock(d) PROVE AppenderInv(b)'
  BY Zenon, <1>22 DEF WatchUnlock, dialRest, appVars, AppenderInv, InMux, InBus, Telling
<1>23. ASSUME NEW d \in Dialers, Receive(d) PROVE AppenderInv(b)'
  BY Zenon, <1>23 DEF Receive, appVars, dialVars, AppenderInv, InMux, InBus, Telling
<1>24. ASSUME NEW d \in Dialers, Die(d) PROVE AppenderInv(b)'
  BY Zenon, <1>24 DEF Die, appVars, dialVars, AppenderInv, InMux, InBus, Telling
<1>25. ASSUME NEW e \in Expanders, ExpandRLock(e) PROVE AppenderInv(b)'
  BY Zenon, <1>25 DEF ExpandRLock, expandRest, appVars, dialVars, AppenderInv, InMux, InBus,
     Telling
<1>26. ASSUME NEW e \in Expanders, ExpandGetChunk(e) PROVE AppenderInv(b)'
  <2>1. bmu'.writer = bmu.writer /\ (bmu.writer # Nobody => bmu'.readers = bmu.readers)
    BY Zenon, <1>26, MutexOps DEF ExpandGetChunk, WellFormed, Actors
  <2> QED BY Zenon, <1>26, ChunkSyncAssumption, <2>1 DEF ExpandGetChunk, expandRest, appVars,
     dialVars, AppenderInv, InMux, InBus, Telling
<1>27. ASSUME NEW e \in Expanders, ExpandChunk(e) PROVE AppenderInv(b)'
  <2>1. bmu'.writer = bmu.writer /\ bmu'.readers \subseteq bmu.readers
    BY Zenon, <1>27, MutexOps DEF ExpandChunk, WellFormed, Actors
  <2> QED BY Zenon, <1>27, ChunkSyncAssumption, <2>1 DEF ExpandChunk, expandRest, appVars, dialVars,
     AppenderInv, InMux, InBus, Telling
<1>28. ASSUME UNCHANGED vars PROVE AppenderInv(b)'
  BY Zenon, <1>28 DEF vars, appVars, AppenderInv, InMux, InBus, Telling
<1> QED BY Zenon, <1>1, <1>2, <1>3, <1>4, <1>5, <1>6, <1>7, <1>8, <1>9, <1>10, <1>11,
        <1>12, <1>13, <1>14, <1>15, <1>16, <1>17, <1>18, <1>19, <1>20, <1>21,
        <1>22, <1>23, <1>24, <1>25, <1>26, <1>27, <1>28
        DEF Next, tryAppendChunk, Dial, watchdog, handleExpandRequest

(* Every step keeps the writers of Hub.mu apart. *)
LEMMA HubStep ==
    ASSUME IInv, [Next]_vars, NEW x \in Dialers
    PROVE  HubInv(x)'
<1> WellFormed /\ \A d \in Dialers : HubInv(d) /\ DialInv(d)
  BY Zenon DEF IInv
<1>a. DOMAIN dial = Dialers /\ sent \in [Dialers -> Nat]
  BY Zenon DEF WellFormed
<1>1. ASSUME NEW a \in Appenders, AppendCall(a) PROVE HubInv(x)'
  BY Zenon, <1>1 DEF AppendCall, appRest, dialVars, HubInv, Writing, After
<1>2. ASSUME NEW a \in Appenders, AppendMux(a) PROVE HubInv(x)'
  BY Zenon, <1>2 DEF AppendMux, appRest, dialVars, HubInv, Writing, After
<1>3. ASSUME NEW a \in Appenders, AppendLock(a) PROVE HubInv(x)'
  BY Zenon, <1>3 DEF AppendLock, appRest, dialVars, HubInv, Writing, After
<1>4. ASSUME NEW a \in Appenders, AppendChunk(a) PROVE HubInv(x)'
  BY Zenon, <1>4 DEF AppendChunk, appRest, dialVars, HubInv, Writing, After
<1>5. ASSUME NEW a \in Appenders, BroadcastRLock(a) PROVE HubInv(x)'
  <2>1. hmu'.writer = hmu.writer /\ (hmu.writer # Nobody => hmu'.readers = hmu.readers)
    BY Zenon, <1>5, MutexOps DEF BroadcastRLock, WellFormed, Actors
  <2> QED BY Zenon, <1>5, ChunkSyncAssumption, <2>1 DEF BroadcastRLock, appRest, dialVars, HubInv,
     Writing, After
<1>6. ASSUME NEW a \in Appenders, BroadcastList(a) PROVE HubInv(x)'
  <2>1. hmu'.writer = hmu.writer /\ hmu'.readers \subseteq hmu.readers
    BY Zenon, <1>6, MutexOps DEF BroadcastList, WellFormed, Actors
  <2> QED BY Zenon, <1>6, ChunkSyncAssumption, <2>1 DEF BroadcastList, appRest, dialVars, HubInv,
     Writing, After, RLocked
<1>7. ASSUME NEW a \in Appenders, NEW d \in Dialers, BroadcastSend(a, d) PROVE HubInv(x)'
  BY Zenon, <1>7 DEF BroadcastSend, appRest, dialVars, HubInv, Writing, After
<1>8. ASSUME NEW a \in Appenders, AppendReturn(a) PROVE HubInv(x)'
  BY Zenon, <1>8 DEF AppendReturn, appRest, dialVars, HubInv, Writing, After
<1>9. ASSUME NEW d \in Dialers, DialCall(d) PROVE HubInv(x)'
  <2>1. hmu'.writer = d /\ hmu'.readers = hmu.readers
    BY Zenon, <1>9, MutexOps DEF DialCall, WellFormed, Actors
  <2> QED BY Zenon, <1>9, <1>a, ChunkSyncAssumption, <2>1 DEF DialCall, dialRest, appVars, HubInv,
     Writing, After
<1>10. ASSUME NEW d \in Dialers, DialId(d) PROVE HubInv(x)'
  <2>1. hmu'.writer = Nobody
    BY Zenon, <1>10, MutexOps DEF DialId, WellFormed, Actors
  <2> QED BY Zenon, <1>10, <1>a, ChunkSyncAssumption, <2>1 DEF DialId, dialRest, appVars, HubInv,
     Writing, After, Locked
<1>11. ASSUME NEW d \in Dialers, DialRLock(d) PROVE HubInv(x)'
  <2>1. hmu'.writer = hmu.writer /\ (hmu.writer # Nobody => hmu'.readers = hmu.readers)
    BY Zenon, <1>11, MutexOps DEF DialRLock, WellFormed, Actors
  <2> QED BY Zenon, <1>11, <1>a, ChunkSyncAssumption, <2>1 DEF DialRLock, dialRest, appVars, HubInv,
     Writing, After
<1>12. ASSUME NEW d \in Dialers, DialCount(d) PROVE HubInv(x)'
  BY <1>12, <1>a DEF DialCount, dialRest, appVars, HubInv, Writing, After, RLocked,
     DialInv, Before
<1>13. ASSUME NEW d \in Dialers, DialGetChunk(d) PROVE HubInv(x)'
  BY Zenon, <1>13, <1>a DEF DialGetChunk, dialRest, appVars, HubInv, Writing, After
<1>14. ASSUME NEW d \in Dialers, DialChunk(d) PROVE HubInv(x)'
  BY Zenon, <1>14, <1>a DEF DialChunk, dialRest, appVars, HubInv, Writing, After
<1>15. ASSUME NEW d \in Dialers, DialSend(d) PROVE HubInv(x)'
  <2>1. hmu'.writer = hmu.writer /\ hmu'.readers \subseteq hmu.readers
    BY Zenon, <1>15, MutexOps DEF DialSend, WellFormed, Actors
  <2> QED BY Zenon, <1>15, <1>a, ChunkSyncAssumption, <2>1 DEF DialSend, dialRest, appVars, HubInv,
     Writing, After, RLocked, DialInv, Before
<1>16. ASSUME NEW d \in Dialers, DialLock(d) PROVE HubInv(x)'
  <2>1. hmu'.writer = d /\ hmu'.readers = hmu.readers
    BY Zenon, <1>16, MutexOps DEF DialLock, WellFormed, Actors
  <2> QED BY Zenon, <1>16, <1>a, ChunkSyncAssumption, <2>1 DEF DialLock, dialRest, appVars, HubInv,
     Writing, After, DialInv, Before
<1>17. ASSUME NEW d \in Dialers, DialAfter(d) PROVE HubInv(x)'
  BY Zenon, <1>17, <1>a DEF DialAfter, dialRest, appVars, HubInv, Writing, After, Locked,
     DialInv, Before
<1>18. ASSUME NEW d \in Dialers, DialRegister(d) PROVE HubInv(x)'
  <2>1. hmu'.writer = Nobody
    BY Zenon, <1>18, MutexOps DEF DialRegister, WellFormed, Actors
  <2> QED BY Zenon, <1>18, <1>a, ChunkSyncAssumption, <2>1 DEF DialRegister, dialRest, appVars,
     HubInv, Writing, After, Locked
<1>19. ASSUME NEW d \in Dialers, WatchCleanup(d) PROVE HubInv(x)'
  BY Zenon, <1>19, <1>a DEF WatchCleanup, dialRest, appVars, HubInv, Writing, After
<1>20. ASSUME NEW d \in Dialers, WatchCleaned(d) PROVE HubInv(x)'
  BY Zenon, <1>20, <1>a DEF WatchCleaned, dialRest, appVars, HubInv, Writing, After
<1>21. ASSUME NEW d \in Dialers, WatchLock(d) PROVE HubInv(x)'
  <2>1. hmu'.writer = d /\ hmu'.readers = hmu.readers
    BY Zenon, <1>21, MutexOps DEF WatchLock, WellFormed, Actors
  <2> QED BY Zenon, <1>21, <1>a, ChunkSyncAssumption, <2>1 DEF WatchLock, dialRest, appVars, HubInv,
     Writing, After
<1>22. ASSUME NEW d \in Dialers, WatchUnlock(d) PROVE HubInv(x)'
  <2>1. hmu'.writer = Nobody
    BY Zenon, <1>22, MutexOps DEF WatchUnlock, WellFormed, Actors
  <2> QED BY Zenon, <1>22, <1>a, ChunkSyncAssumption, <2>1 DEF WatchUnlock, dialRest, appVars,
     HubInv, Writing, After, Locked
<1>23. ASSUME NEW d \in Dialers, Receive(d) PROVE HubInv(x)'
  BY Zenon, <1>23, <1>a DEF Receive, appVars, dialVars, HubInv, Writing, After
<1>24. ASSUME NEW d \in Dialers, Die(d) PROVE HubInv(x)'
  BY Zenon, <1>24, <1>a DEF Die, appVars, dialVars, HubInv, Writing, After
<1>25. ASSUME NEW e \in Expanders, ExpandRLock(e) PROVE HubInv(x)'
  <2>1. hmu'.writer = hmu.writer /\ (hmu.writer # Nobody => hmu'.readers = hmu.readers)
    BY Zenon, <1>25, MutexOps DEF ExpandRLock, WellFormed, Actors
  <2> QED BY Zenon, <1>25, ChunkSyncAssumption, <2>1 DEF ExpandRLock, expandRest, appVars, dialVars,
     HubInv, Writing, After
<1>26. ASSUME NEW e \in Expanders, ExpandGetChunk(e) PROVE HubInv(x)'
  BY Zenon, <1>26 DEF ExpandGetChunk, expandRest, appVars, dialVars, HubInv, Writing, After
<1>27. ASSUME NEW e \in Expanders, ExpandChunk(e) PROVE HubInv(x)'
  <2>1. hmu'.writer = hmu.writer /\ hmu'.readers \subseteq hmu.readers
    BY Zenon, <1>27, MutexOps DEF ExpandChunk, WellFormed, Actors
  <2> QED BY Zenon, <1>27, ChunkSyncAssumption, <2>1 DEF ExpandChunk, expandRest, appVars, dialVars,
     HubInv, Writing, After
<1>28. ASSUME UNCHANGED vars PROVE HubInv(x)'
  BY Zenon, <1>28 DEF vars, dialVars, HubInv, Writing, After
<1> QED BY Zenon, <1>1, <1>2, <1>3, <1>4, <1>5, <1>6, <1>7, <1>8, <1>9, <1>10, <1>11,
        <1>12, <1>13, <1>14, <1>15, <1>16, <1>17, <1>18, <1>19, <1>20, <1>21,
        <1>22, <1>23, <1>24, <1>25, <1>26, <1>27, <1>28
        DEF Next, tryAppendChunk, Dial, watchdog, handleExpandRequest

(* Every step keeps what Dial knows. *)
LEMMA DialStep ==
    ASSUME IInv, [Next]_vars, NEW x \in Dialers
    PROVE  DialInv(x)'
<1> /\ WellFormed /\ \A a \in Appenders : AppenderInv(a)
    /\ \A d \in Dialers : HubInv(d) /\ DialInv(d)
  BY Zenon DEF IInv
<1>a. /\ DOMAIN app = Appenders /\ DOMAIN todo = Appenders
      /\ DOMAIN dial = Dialers /\ DOMAIN upto = Dialers
      /\ DOMAIN sent = Dialers /\ DOMAIN fds = Dialers
  BY Zenon DEF WellFormed
<1>b. upto[x] \in Nat /\ sent[x] \in Nat /\ Len(fds[x]) \in Nat /\ chunks \in Nat
  BY DEF WellFormed
<1>c. /\ chunks \in Nat \ {0}
      /\ \A d \in Dialers : /\ fds[d] \in Seq(Nat) /\ Len(fds[d]) \in Nat
                            /\ upto[d] \in Nat /\ sent[d] \in Nat
  BY DEF WellFormed
<1>1. ASSUME NEW a \in Appenders, AppendCall(a) PROVE DialInv(x)'
  <2>1. \A c \in Appenders : Telling(c)' => Telling(c)
    BY Zenon, <1>1, <1>a DEF AppendCall, appRest, dialVars, Telling
  <2>2. Announcing => Announcing'
    BY Zenon, <1>1, <1>a DEF AppendCall, appRest, dialVars, Announcing
  <2> QED BY Zenon, <1>1, <2>1, <2>2, DialFrame DEF AppendCall, appRest, dialVars
<1>2. ASSUME NEW a \in Appenders, AppendMux(a) PROVE DialInv(x)'
  <2>1. \A c \in Appenders : Telling(c)' => Telling(c)
    BY Zenon, <1>2, <1>a DEF AppendMux, appRest, dialVars, Telling
  <2>2. Announcing => Announcing'
    BY Zenon, <1>2, <1>a DEF AppendMux, appRest, dialVars, Announcing
  <2> QED BY Zenon, <1>2, <2>1, <2>2, DialFrame DEF AppendMux, appRest, dialVars
<1>3. ASSUME NEW a \in Appenders, AppendLock(a) PROVE DialInv(x)'
  <2>1. \A c \in Appenders : Telling(c)' => Telling(c)
    BY Zenon, <1>3, <1>a DEF AppendLock, appRest, dialVars, Telling
  <2>2. Announcing => Announcing'
    BY Zenon, <1>3, <1>a DEF AppendLock, appRest, dialVars, Announcing
  <2> QED BY Zenon, <1>3, <2>1, <2>2, DialFrame DEF AppendLock, appRest, dialVars
<1>4. ASSUME NEW a \in Appenders, AppendChunk(a) PROVE DialInv(x)'
  <2>1. Announcing' /\ ~Announcing /\ chunks' = chunks + 1 /\ upto[x] <= chunks
    <3>1. Announcing'
      BY Zenon, <1>4, <1>a DEF AppendChunk, Announcing
    <3>2. ~Announcing
      BY Zenon, <1>4 DEF AppendChunk, Announcing, AppenderInv, InBus
    <3> QED BY Zenon, <1>4, <3>1, <3>2 DEF AppendChunk, DialInv
  <2>2. Before(x)' = Before(x) /\ After(x)' = After(x)
    BY Zenon, <1>4 DEF AppendChunk, appRest, dialVars, Before, After
  <2>3. UNCHANGED <<fds, upto, sent, dial>>
    BY Zenon, <1>4 DEF AppendChunk, appRest, dialVars
  <2> QED BY <1>b, <2>1, <2>2, <2>3 DEF DialInv
<1>5. ASSUME NEW a \in Appenders, BroadcastRLock(a) PROVE DialInv(x)'
  <2>1. \A c \in Appenders : Telling(c)' => Telling(c)
    BY Zenon, <1>5, <1>a DEF BroadcastRLock, appRest, dialVars, Telling
  <2>2. Announcing => Announcing'
    BY Zenon, <1>5, <1>a DEF BroadcastRLock, appRest, dialVars, Announcing
  <2> QED BY Zenon, <1>5, <2>1, <2>2, DialFrame DEF BroadcastRLock, appRest, dialVars
<1>6. ASSUME NEW a \in Appenders, BroadcastList(a) PROVE DialInv(x)'
  <2>1. \A c \in Appenders : Telling(c)' => Telling(c)
    BY Zenon, <1>6, <1>a DEF BroadcastList, appRest, dialVars, Telling
  <2>2. ~After(x)
    BY Zenon, <1>6 DEF BroadcastList, appRest, dialVars, HubInv, RLocked
  <2> QED BY Zenon, <1>6, <2>1, <2>2, DialFrame DEF BroadcastList, appRest, dialVars
<1>7. ASSUME NEW a \in Appenders, NEW d \in Dialers, BroadcastSend(a, d) PROVE DialInv(x)'
  <2>1. \A c \in Appenders : Telling(c)' => Telling(c)
    BY Zenon, <1>7, <1>a DEF BroadcastSend, appRest, dialVars, Telling
  <2>2. Announcing => Announcing'
    BY Zenon, <1>7, <1>a DEF BroadcastSend, appRest, dialVars, Announcing
  <2> QED BY Zenon, <1>7, <2>1, <2>2, DialFrame DEF BroadcastSend, appRest, dialVars
<1>8. ASSUME NEW a \in Appenders, AppendReturn(a) PROVE DialInv(x)'
  <2>1. \A c \in Appenders : Telling(c)' => Telling(c)
    BY Zenon, <1>8, <1>a DEF AppendReturn, appRest, dialVars, Telling
  <2>2. Announcing => Announcing'
    BY Zenon, <1>8, <1>a DEF AppendReturn, appRest, dialVars, Announcing
  <2> QED BY Zenon, <1>8, <2>1, <2>2, DialFrame DEF AppendReturn, appRest, dialVars
<1>9. ASSUME NEW d \in Dialers, DialCall(d) PROVE DialInv(x)'
  <2>1. ASSUME x # d PROVE DialInv(x)'
    BY Zenon, <1>9, <1>a, <2>1, DialFrame DEF DialCall, dialRest, appVars, Telling, Announcing
  <2>2. ASSUME x = d PROVE DialInv(d)'
    BY Zenon, <1>9, <1>a, <1>c DEF DialCall, dialRest, appVars, DialInv, Before, After,
     Telling, Announcing
  <2> QED BY Zenon, <2>1, <2>2
<1>10. ASSUME NEW d \in Dialers, DialId(d) PROVE DialInv(x)'
  <2>1. ASSUME x # d PROVE DialInv(x)'
    BY Zenon, <1>10, <1>a, <2>1, DialFrame DEF DialId, dialRest, appVars, Telling, Announcing
  <2>2. ASSUME x = d PROVE DialInv(d)'
    BY Zenon, <1>10, <1>a, <1>c DEF DialId, dialRest, appVars, DialInv, Before, After, Telling,
     Announcing
  <2> QED BY Zenon, <2>1, <2>2
<1>11. ASSUME NEW d \in Dialers, DialRLock(d) PROVE DialInv(x)'
  <2>1. ASSUME x # d PROVE DialInv(x)'
    BY Zenon, <1>11, <1>a, <2>1, DialFrame DEF DialRLock, dialRest, appVars, Telling,
     Announcing
  <2>2. ASSUME x = d PROVE DialInv(d)'
    BY Zenon, <1>11, <1>a, <1>c DEF DialRLock, dialRest, appVars, DialInv, Before, After,
     Telling, Announcing
  <2> QED BY Zenon, <2>1, <2>2
<1>12. ASSUME NEW d \in Dialers, DialCount(d) PROVE DialInv(x)'
  <2>1. ASSUME x # d PROVE DialInv(x)'
    BY Zenon, <1>12, <1>a, <2>1, DialFrame DEF DialCount, dialRest, appVars, Telling,
     Announcing
  <2>2. ASSUME x = d PROVE DialInv(d)'
    <3>1. fds[d] = <<>> /\ sent[d] = 0
      BY Zenon, <1>12 DEF DialCount, DialInv
    <3>2. Len(fds[d]) = 0
      BY Zenon, <3>1
    <3> QED BY <1>12, <1>a, <1>c, <3>1, <3>2 DEF DialCount, dialRest, appVars, DialInv, Before, After, Telling
  <2> QED BY Zenon, <2>1, <2>2
<1>13. ASSUME NEW d \in Dialers, DialGetChunk(d) PROVE DialInv(x)'
  <2>1. ASSUME x # d PROVE DialInv(x)'
    BY Zenon, <1>13, <1>a, <2>1, DialFrame DEF DialGetChunk, dialRest, appVars, Telling,
     Announcing
  <2>2. ASSUME x = d PROVE DialInv(d)'
    BY Zenon, <1>13, <1>a, <1>c DEF DialGetChunk, dialRest, appVars, DialInv, Before, After,
     Telling, Announcing
  <2> QED BY Zenon, <2>1, <2>2
<1>14. ASSUME NEW d \in Dialers, DialChunk(d) PROVE DialInv(x)'
  <2>1. ASSUME x # d PROVE DialInv(x)'
    BY Zenon, <1>14, <1>a, <2>1, DialFrame DEF DialChunk, dialRest, appVars, Telling,
     Announcing
  <2>2. ASSUME x = d PROVE DialInv(d)'
    <3>1. \A a \in Appenders : ~Telling(a)
      BY Zenon, <1>14 DEF DialChunk, RLocked, AppenderInv
    <3>2. \A a \in Appenders : ~Telling(a)'
      BY Zenon, <1>14, <3>1 DEF DialChunk, dialRest, appVars, Telling
    <3>3. /\ fds'[d] = Append(fds[d], Len(fds[d]) + 1) /\ dial'[d] = "get"
          /\ UNCHANGED <<upto, sent, chunks>> /\ (Announcing' <=> Announcing)
      BY Zenon, <1>14, <1>a DEF DialChunk, dialRest, appVars, Announcing
    <3>4. Len(fds'[d]) = Len(fds[d]) + 1 /\ \A i \in 1..Len(fds'[d]) : fds'[d][i] = i
      BY <1>c, <3>3 DEF DialInv
    <3>5. dial[d] = "chunk" /\ Len(fds[d]) < upto[d] /\ upto[d] <= chunks
      BY Zenon, <1>14 DEF DialChunk, DialInv
    <3>6. (Before(d)' <=> Before(d)) /\ (After(d)' <=> After(d))
      BY Zenon, <3>3, <3>5 DEF Before, After
    <3> QED BY <1>c, <3>2, <3>3, <3>4, <3>5, <3>6 DEF DialInv
  <2> QED BY Zenon, <2>1, <2>2
<1>15. ASSUME NEW d \in Dialers, DialSend(d) PROVE DialInv(x)'
  <2>1. ASSUME x # d PROVE DialInv(x)'
    BY Zenon, <1>15, <1>a, <2>1, DialFrame DEF DialSend, dialRest, appVars, Telling, Announcing
  <2>2. ASSUME x = d PROVE DialInv(d)'
    <3>1. dial[d] = "get" /\ Len(fds[d]) = upto[d] /\ Before(d)
      BY <1>15, <1>c DEF DialSend, RLocked, HubInv, Before, After
    <3>2. upto[d] > 0
      BY Zenon, <3>1 DEF DialInv
    <3>3. /\ sent'[d] = Len(fds[d]) /\ dial'[d] \in {"lock", "failed"}
          /\ UNCHANGED <<fds, upto, chunks, app>>
      BY Zenon, <1>15, <1>a DEF DialSend, dialRest, appVars
    <3>4. ~Before(d)' /\ ~After(d)'
      BY Zenon, <3>3 DEF Before, After
    <3> QED BY Zenon, <1>c, <3>1, <3>2, <3>3, <3>4 DEF DialInv, Telling
  <2> QED BY Zenon, <2>1, <2>2
<1>16. ASSUME NEW d \in Dialers, DialLock(d) PROVE DialInv(x)'
  <2>1. ASSUME x # d PROVE DialInv(x)'
    BY Zenon, <1>16, <1>a, <2>1, DialFrame DEF DialLock, dialRest, appVars, Telling, Announcing
  <2>2. ASSUME x = d PROVE DialInv(d)'
    BY Zenon, <1>16, <1>a, <1>c DEF DialLock, dialRest, appVars, DialInv, Before, After,
     Telling, Announcing
  <2> QED BY Zenon, <2>1, <2>2
<1>17. ASSUME NEW d \in Dialers, DialAfter(d) PROVE DialInv(x)'
  <2>1. ASSUME x # d PROVE DialInv(x)'
    BY Zenon, <1>17, <1>a, <2>1, DialFrame DEF DialAfter, dialRest, appVars, Telling,
     Announcing
  <2>2. ASSUME x = d PROVE DialInv(d)'
    <3>1. /\ dial[d] = "after" /\ dial'[d] = "get" /\ upto'[d] = chunks
          /\ UNCHANGED <<fds, sent, chunks, app>>
      BY Zenon, <1>17, <1>a DEF DialAfter, dialRest, appVars
    <3>2. sent[d] > 0 /\ sent[d] = Len(fds[d]) /\ Len(fds[d]) <= chunks
      BY <1>c, <3>1 DEF DialInv
    <3>3. ~Before(d)' /\ After(d)'
      BY <1>c, <3>1, <3>2 DEF Before, After
    <3>4. /\ \A i \in 1..Len(fds'[d]) : fds'[d][i] = i
          /\ \A a \in Appenders : Telling(a)' => Len(fds'[d]) < chunks'
      BY Zenon, <3>1 DEF DialInv, Telling
    <3>5. Len(fds'[d]) <= upto'[d] /\ upto'[d] <= chunks' /\ sent'[d] <= Len(fds'[d])
      BY <1>c, <3>1, <3>2
    <3> QED BY Zenon, <3>1, <3>3, <3>4, <3>5 DEF DialInv
  <2> QED BY Zenon, <2>1, <2>2
<1>18. ASSUME NEW d \in Dialers, DialRegister(d) PROVE DialInv(x)'
  <2>1. ASSUME x # d PROVE DialInv(x)'
    BY Zenon, <1>18, <1>a, <2>1, DialFrame DEF DialRegister, dialRest, appVars, Telling,
     Announcing
  <2>2. ASSUME x = d PROVE DialInv(d)'
    <3>1. /\ dial'[d] \in {"failed", "watch"} /\ upto'[d] = 0 /\ fds'[d] = <<>>
          /\ sent'[d] = 0 /\ UNCHANGED <<chunks, app>>
      BY Zenon, <1>18, <1>a DEF DialRegister, dialRest, appVars
    <3>2. Len(fds'[d]) = 0
      BY Zenon, <3>1
    <3>3. ~Before(d)' /\ ~After(d)'
      BY Zenon, <3>1 DEF Before, After
    <3> QED BY <1>c, <3>1, <3>2, <3>3 DEF DialInv, Telling
  <2> QED BY Zenon, <2>1, <2>2
<1>19. ASSUME NEW d \in Dialers, WatchCleanup(d) PROVE DialInv(x)'
  <2>1. ASSUME x # d PROVE DialInv(x)'
    BY Zenon, <1>19, <1>a, <2>1, DialFrame DEF WatchCleanup, dialRest, appVars, Telling,
     Announcing
  <2>2. ASSUME x = d PROVE DialInv(d)'
    BY Zenon, <1>19, <1>a, <1>c DEF WatchCleanup, dialRest, appVars, DialInv, Before, After,
     Telling, Announcing
  <2> QED BY Zenon, <2>1, <2>2
<1>20. ASSUME NEW d \in Dialers, WatchCleaned(d) PROVE DialInv(x)'
  <2>1. ASSUME x # d PROVE DialInv(x)'
    BY Zenon, <1>20, <1>a, <2>1, DialFrame DEF WatchCleaned, dialRest, appVars, Telling,
     Announcing
  <2>2. ASSUME x = d PROVE DialInv(d)'
    BY Zenon, <1>20, <1>a, <1>c DEF WatchCleaned, dialRest, appVars, DialInv, Before, After,
     Telling, Announcing
  <2> QED BY Zenon, <2>1, <2>2
<1>21. ASSUME NEW d \in Dialers, WatchLock(d) PROVE DialInv(x)'
  <2>1. ASSUME x # d PROVE DialInv(x)'
    BY Zenon, <1>21, <1>a, <2>1, DialFrame DEF WatchLock, dialRest, appVars, Telling,
     Announcing
  <2>2. ASSUME x = d PROVE DialInv(d)'
    BY Zenon, <1>21, <1>a, <1>c DEF WatchLock, dialRest, appVars, DialInv, Before, After,
     Telling, Announcing
  <2> QED BY Zenon, <2>1, <2>2
<1>22. ASSUME NEW d \in Dialers, WatchUnlock(d) PROVE DialInv(x)'
  <2>1. ASSUME x # d PROVE DialInv(x)'
    BY Zenon, <1>22, <1>a, <2>1, DialFrame DEF WatchUnlock, dialRest, appVars, Telling,
     Announcing
  <2>2. ASSUME x = d PROVE DialInv(d)'
    BY Zenon, <1>22, <1>a, <1>c DEF WatchUnlock, dialRest, appVars, DialInv, Before, After,
     Telling, Announcing
  <2> QED BY Zenon, <2>1, <2>2
<1>23. ASSUME NEW d \in Dialers, Receive(d) PROVE DialInv(x)'
  BY Zenon, <1>23, DialFrame DEF Receive, appVars, dialVars, Telling, Announcing
<1>24. ASSUME NEW d \in Dialers, Die(d) PROVE DialInv(x)'
  BY Zenon, <1>24, DialFrame DEF Die, appVars, dialVars, Telling, Announcing
<1>25. ASSUME NEW e \in Expanders, ExpandRLock(e) PROVE DialInv(x)'
  BY Zenon, <1>25, DialFrame DEF ExpandRLock, expandRest, appVars, dialVars, Telling,
     Announcing
<1>26. ASSUME NEW e \in Expanders, ExpandGetChunk(e) PROVE DialInv(x)'
  BY Zenon, <1>26, DialFrame DEF ExpandGetChunk, expandRest, appVars, dialVars, Telling,
     Announcing
<1>27. ASSUME NEW e \in Expanders, ExpandChunk(e) PROVE DialInv(x)'
  BY Zenon, <1>27, DialFrame DEF ExpandChunk, expandRest, appVars, dialVars, Telling,
     Announcing
<1>28. ASSUME UNCHANGED vars PROVE DialInv(x)'
  BY Zenon, <1>28, DialFrame DEF vars, appVars, dialVars, Telling, Announcing
<1> QED BY Zenon, <1>1, <1>2, <1>3, <1>4, <1>5, <1>6, <1>7, <1>8, <1>9, <1>10, <1>11,
        <1>12, <1>13, <1>14, <1>15, <1>16, <1>17, <1>18, <1>19, <1>20, <1>21,
        <1>22, <1>23, <1>24, <1>25, <1>26, <1>27, <1>28
        DEF Next, tryAppendChunk, Dial, watchdog, handleExpandRequest

(* Every step keeps the chunks that were sent in place. *)
LEMMA SentStep ==
    ASSUME IInv, [Next]_vars, NEW x \in Dialers
    PROVE  SentInv(x)'
<1> /\ WellFormed /\ \A a \in Appenders : AppenderInv(a)
    /\ \A d \in Dialers : HubInv(d) /\ DialInv(d) /\ SentInv(d)
  BY Zenon DEF IInv
<1>a. /\ DOMAIN app = Appenders /\ DOMAIN todo = Appenders
      /\ DOMAIN dial = Dialers /\ DOMAIN sent = Dialers
      /\ DOMAIN got = Dialers /\ DOMAIN sock = Dialers
  BY Zenon DEF WellFormed
<1>c. /\ chunks \in Nat \ {0}
      /\ \A d \in Dialers : /\ fds[d] \in Seq(Nat) /\ Len(fds[d]) \in Nat
                            /\ upto[d] \in Nat /\ sent[d] \in Nat
  BY DEF WellFormed
<1>1. ASSUME NEW a \in Appenders, AppendCall(a) PROVE SentInv(x)'
  <2>1. Announcing' <=> Announcing
    BY Zenon, <1>1, <1>a DEF AppendCall, appRest, dialVars, Announcing
  <2>2. Due(x)' = Due(x)
    BY Zenon, <1>1, <2>1 DEF AppendCall, appRest, dialVars, Due
  <2> QED BY Zenon, <1>1, <2>2, SentFrame DEF AppendCall, appRest, dialVars
<1>2. ASSUME NEW a \in Appenders, AppendMux(a) PROVE SentInv(x)'
  <2>1. Announcing' <=> Announcing
    BY Zenon, <1>2, <1>a DEF AppendMux, appRest, dialVars, Announcing
  <2>2. Due(x)' = Due(x)
    BY Zenon, <1>2, <2>1 DEF AppendMux, appRest, dialVars, Due
  <2> QED BY Zenon, <1>2, <2>2, SentFrame DEF AppendMux, appRest, dialVars
<1>3. ASSUME NEW a \in Appenders, AppendLock(a) PROVE SentInv(x)'
  <2>1. Announcing' <=> Announcing
    BY Zenon, <1>3, <1>a DEF AppendLock, appRest, dialVars, Announcing
  <2>2. Due(x)' = Due(x)
    BY Zenon, <1>3, <2>1 DEF AppendLock, appRest, dialVars, Due
  <2> QED BY Zenon, <1>3, <2>2, SentFrame DEF AppendLock, appRest, dialVars
<1>4. ASSUME NEW a \in Appenders, AppendChunk(a) PROVE SentInv(x)'
  <2>1. InBus(a) /\ app[a] = "append"
    BY Zenon, <1>4 DEF AppendChunk, InBus
  <2>2. Announcing' /\ chunks' = chunks + 1 /\ todo' = todo
    BY Zenon, <1>4, <1>a DEF AppendChunk, Announcing
  <2>3. ~Announcing /\ \A b \in Appenders : todo[b] = {}
    BY Zenon, <2>1, OneTells DEF Announcing, Telling, AppenderInv
  <2>4. Due(x)' = Due(x)
    BY <1>c, <2>2, <2>3 DEF Due
  <2> QED BY Zenon, <1>4, <2>4, SentFrame DEF AppendChunk, appRest, dialVars
<1>5. ASSUME NEW a \in Appenders, BroadcastRLock(a) PROVE SentInv(x)'
  <2>1. Announcing' <=> Announcing
    BY Zenon, <1>5, <1>a DEF BroadcastRLock, appRest, dialVars, Announcing
  <2>2. Due(x)' = Due(x)
    BY Zenon, <1>5, <2>1 DEF BroadcastRLock, appRest, dialVars, Due
  <2> QED BY Zenon, <1>5, <2>2, SentFrame DEF BroadcastRLock, appRest, dialVars
<1>6. ASSUME NEW a \in Appenders, BroadcastList(a) PROVE SentInv(x)'
  <2>1. Announcing /\ chunks' = chunks
    BY Zenon, <1>6 DEF BroadcastList, Announcing
  <2>2. \A b \in Appenders : x \in todo'[b] => x \in todo[b] \/ x \in nodes
    BY Zenon, <1>6, <1>a DEF BroadcastList
  <2>3. x \in nodes => x \in todo'[a]
    BY Zenon, <1>6, <1>a DEF BroadcastList
  <2>4. x \in nodes => Due(x)' = Due(x)
    BY Zenon, <2>1, <2>3 DEF Due
  <2> QED BY Zenon, <1>6, <2>2, <2>4, SentFrame DEF BroadcastList, appRest, dialVars
<1>7. ASSUME NEW a \in Appenders, NEW d \in Dialers, BroadcastSend(a, d) PROVE SentInv(x)'
  <2>1. /\ app[a] = "send" /\ d \in todo[a] /\ UNCHANGED <<app, chunks, nodes, alive, got, dial, sent>>
        /\ sock' = Send(d, <<chunks>>) /\ todo' = [todo EXCEPT ![a] = @ \ {d}]
    BY Zenon, <1>7 DEF BroadcastSend, appRest, dialVars
  <2>2. /\ \A b \in Appenders \ {a} : todo'[b] = todo[b]
        /\ todo'[a] = todo[a] \ {d}
    BY Zenon, <1>a, <2>1
  <2>3. <<chunks>> \in Seq(Nat) /\ Len(<<chunks>>) = 1
    BY <1>c
  <2>4. Announcing' <=> Announcing
    BY Zenon, <2>1 DEF Announcing
  <2>5. ASSUME x # d PROVE SentInv(x)'
    <3>1. sock'[x] = sock[x]
      BY Zenon, <2>1, <2>3, <2>5, SendOnly
    <3>2. \A b \in Appenders : x \in todo'[b] <=> x \in todo[b]
      BY Zenon, <2>2, <2>5
    <3>3. Due(x)' = Due(x)
      BY Zenon, <2>1, <2>4, <3>2 DEF Due
    <3> QED BY Zenon, <2>1, <3>1, <3>2, <3>3, SentFrame
  <2>6. ASSUME d \in alive PROVE SentInv(d)'
    <3>1. /\ dial[d] = "watch" /\ Last(d) = chunks - 1
      BY Zenon, <2>1, <2>6 DEF SentInv, Sent, Due
    <3>2. ~Announcing' /\ \A b \in Appenders : d \notin todo'[b]
      BY Zenon, <2>1, <2>2, <2>4, OneTells DEF InBus, Telling, Announcing
    <3>3. Due(d)' = chunks
      BY Zenon, <2>1, <3>2 DEF Due
    <3>4. Follows(<<chunks>>, Last(d))
      BY <1>c, <3>1 DEF Follows
    <3>5. InPlace(got[d], sock[d])' /\ Last(d)' = chunks
      <4>1. InPlace(got[d], sock[d])' /\ Last(d)' = Last(d) + Len(<<chunks>>)
        BY Zenon, <2>1, <2>3, <2>6, <3>4, SendNext
      <4> QED BY <1>c, <2>3, <3>1, <4>1
    <3>6. Sent(d)'
      BY Zenon, <2>1, <2>6, <3>1, <3>2, <3>3, <3>5 DEF SentInv, Sent, Before, After
    <3> QED BY Zenon, <3>5, <3>6 DEF SentInv
  <2>7. ASSUME d \notin alive PROVE SentInv(d)'
    BY Zenon, <2>1, <2>7 DEF SentInv, Send
  <2> QED BY Zenon, <2>5, <2>6, <2>7
<1>8. ASSUME NEW a \in Appenders, AppendReturn(a) PROVE SentInv(x)'
  <2>1. Announcing' <=> Announcing
    BY Zenon, <1>8, <1>a DEF AppendReturn, appRest, dialVars, Announcing
  <2>2. Due(x)' = Due(x)
    BY Zenon, <1>8, <2>1 DEF AppendReturn, appRest, dialVars, Due
  <2> QED BY Zenon, <1>8, <2>2, SentFrame DEF AppendReturn, appRest, dialVars
<1>9. ASSUME NEW d \in Dialers, DialCall(d) PROVE SentInv(x)'
  <2>1. ASSUME x # d PROVE SentInv(x)'
    BY Zenon, <1>9, <1>a, <2>1, DueFrame, SentFrame DEF DialCall, dialRest, appVars
  <2>2. ASSUME x = d PROVE SentInv(d)'
    <3>1. InPlace(got[d], sock[d])' /\ Last(d)' = Last(d) /\ Due(d)' = Due(d)
      BY Zenon, <1>9, DueFrame DEF DialCall, dialRest, appVars, SentInv, Last
    <3>2. ASSUME d \in alive' PROVE Sent(d)'
      BY Zenon, <1>9, <1>a, <1>c, <3>1, <3>2 DEF DialCall, dialRest, appVars, Sent, SentInv,
         Before, After
    <3> QED BY Zenon, <3>1, <3>2 DEF SentInv
  <2> QED BY Zenon, <2>1, <2>2
<1>10. ASSUME NEW d \in Dialers, DialId(d) PROVE SentInv(x)'
  <2>1. ASSUME x # d PROVE SentInv(x)'
    BY Zenon, <1>10, <1>a, <2>1, DueFrame, SentFrame DEF DialId, dialRest, appVars
  <2>2. ASSUME x = d PROVE SentInv(d)'
    <3>1. InPlace(got[d], sock[d])' /\ Last(d)' = Last(d) /\ Due(d)' = Due(d)
      BY Zenon, <1>10, DueFrame DEF DialId, dialRest, appVars, SentInv, Last
    <3>2. ASSUME d \in alive' PROVE Sent(d)'
      BY Zenon, <1>10, <1>a, <1>c, <3>1, <3>2 DEF DialId, dialRest, appVars, Sent, SentInv,
         Before, After
    <3> QED BY Zenon, <3>1, <3>2 DEF SentInv
  <2> QED BY Zenon, <2>1, <2>2
<1>11. ASSUME NEW d \in Dialers, DialRLock(d) PROVE SentInv(x)'
  <2>1. ASSUME x # d PROVE SentInv(x)'
    BY Zenon, <1>11, <1>a, <2>1, DueFrame, SentFrame DEF DialRLock, dialRest, appVars
  <2>2. ASSUME x = d PROVE SentInv(d)'
    <3>1. InPlace(got[d], sock[d])' /\ Last(d)' = Last(d) /\ Due(d)' = Due(d)
      BY Zenon, <1>11, DueFrame DEF DialRLock, dialRest, appVars, SentInv, Last
    <3>2. ASSUME d \in alive' PROVE Sent(d)'
      BY Zenon, <1>11, <1>a, <1>c, <3>1, <3>2 DEF DialRLock, dialRest, appVars, Sent, SentInv,
         Before, After
    <3> QED BY Zenon, <3>1, <3>2 DEF SentInv
  <2> QED BY Zenon, <2>1, <2>2
<1>12. ASSUME NEW d \in Dialers, DialCount(d) PROVE SentInv(x)'
  <2>1. ASSUME x # d PROVE SentInv(x)'
    BY Zenon, <1>12, <1>a, <2>1, DueFrame, SentFrame DEF DialCount, dialRest, appVars
  <2>2. ASSUME x = d PROVE SentInv(d)'
    <3>1. InPlace(got[d], sock[d])' /\ Last(d)' = Last(d) /\ Due(d)' = Due(d)
      BY Zenon, <1>12, DueFrame DEF DialCount, dialRest, appVars, SentInv, Last
    <3>2. ASSUME d \in alive' PROVE Sent(d)'
      BY Zenon, <1>12, <1>a, <1>c, <3>1, <3>2 DEF DialCount, dialRest, appVars, Sent, SentInv,
         Before, After, DialInv
    <3> QED BY Zenon, <3>1, <3>2 DEF SentInv
  <2> QED BY Zenon, <2>1, <2>2
<1>13. ASSUME NEW d \in Dialers, DialGetChunk(d) PROVE SentInv(x)'
  <2>1. ASSUME x # d PROVE SentInv(x)'
    BY Zenon, <1>13, <1>a, <2>1, DueFrame, SentFrame DEF DialGetChunk, dialRest, appVars
  <2>2. ASSUME x = d PROVE SentInv(d)'
    <3>1. InPlace(got[d], sock[d])' /\ Last(d)' = Last(d) /\ Due(d)' = Due(d)
      BY Zenon, <1>13, DueFrame DEF DialGetChunk, dialRest, appVars, SentInv, Last
    <3>2. ASSUME d \in alive' PROVE Sent(d)'
      BY Zenon, <1>13, <1>a, <1>c, <3>1, <3>2 DEF DialGetChunk, dialRest, appVars, Sent, SentInv,
         Before, After
    <3> QED BY Zenon, <3>1, <3>2 DEF SentInv
  <2> QED BY Zenon, <2>1, <2>2
<1>14. ASSUME NEW d \in Dialers, DialChunk(d) PROVE SentInv(x)'
  <2>1. ASSUME x # d PROVE SentInv(x)'
    BY Zenon, <1>14, <1>a, <2>1, DueFrame, SentFrame DEF DialChunk, dialRest, appVars
  <2>2. ASSUME x = d PROVE SentInv(d)'
    <3>1. InPlace(got[d], sock[d])' /\ Last(d)' = Last(d) /\ Due(d)' = Due(d)
      BY Zenon, <1>14, DueFrame DEF DialChunk, dialRest, appVars, SentInv, Last
    <3>2. ASSUME d \in alive' PROVE Sent(d)'
      BY Zenon, <1>14, <1>a, <1>c, <3>1, <3>2 DEF DialChunk, dialRest, appVars, Sent, SentInv,
         Before, After
    <3> QED BY Zenon, <3>1, <3>2 DEF SentInv
  <2> QED BY Zenon, <2>1, <2>2
<1>15. ASSUME NEW d \in Dialers, DialSend(d) PROVE SentInv(x)'
  <2>1. ASSUME x # d PROVE SentInv(x)'
    <3>1. sock'[x] = sock[x]
      BY Zenon, <1>15, <1>c, <2>1, SendOnly DEF DialSend
    <3> QED BY Zenon, <1>15, <1>a, <2>1, <3>1, DueFrame, SentFrame DEF DialSend, dialRest, appVars
  <2>2. ASSUME x = d PROVE SentInv(d)'
    <3>1. /\ dial[d] = "get" /\ Before(d) /\ Len(fds[d]) = upto[d] /\ upto[d] > 0
          /\ \A i \in 1..Len(fds[d]) : fds[d][i] = i
      BY <1>15, <1>c DEF DialSend, RLocked, HubInv, DialInv, Before, After
    <3>2. /\ sock' = Send(d, fds[d]) /\ UNCHANGED <<nodes, todo, alive, got>>
          /\ dial'[d] = IF d \in alive THEN "lock" ELSE "failed"
          /\ sent'[d] = Len(fds[d])
      BY Zenon, <1>15, <1>a DEF DialSend, dialRest, appVars
    <3>3. ASSUME d \in alive PROVE SentInv(d)'
      <4>1. Last(d) = 0 /\ d \notin nodes /\ \A a \in Appenders : d \notin todo[a]
        BY Zenon, <3>1, <3>3 DEF SentInv, Sent
      <4>2. Follows(fds[d], Last(d))
        BY <1>c, <3>1, <4>1 DEF Follows
      <4>3. InPlace(got[d], sock[d])' /\ Last(d)' = Last(d) + Len(fds[d])
        BY Zenon, <1>c, <3>2, <3>3, <4>2, SendNext
      <4>4. Sent(d)'
        BY <1>c, <3>2, <3>3, <4>1, <4>3 DEF Sent, Before, After
      <4> QED BY Zenon, <4>3, <4>4 DEF SentInv
    <3>4. ASSUME d \notin alive PROVE SentInv(d)'
      BY Zenon, <3>2, <3>4 DEF SentInv, Send
    <3> QED BY Zenon, <3>3, <3>4
  <2> QED BY Zenon, <2>1, <2>2
<1>16. ASSUME NEW d \in Dialers, DialLock(d) PROVE SentInv(x)'
  <2>1. ASSUME x # d PROVE SentInv(x)'
    BY Zenon, <1>16, <1>a, <2>1, DueFrame, SentFrame DEF DialLock, dialRest, appVars
  <2>2. ASSUME x = d PROVE SentInv(d)'
    <3>1. InPlace(got[d], sock[d])' /\ Last(d)' = Last(d) /\ Due(d)' = Due(d)
      BY Zenon, <1>16, DueFrame DEF DialLock, dialRest, appVars, SentInv, Last
    <3>2. ASSUME d \in alive' PROVE Sent(d)'
      BY Zenon, <1>16, <1>a, <1>c, <3>1, <3>2 DEF DialLock, dialRest, appVars, Sent, SentInv,
         Before, After, DialInv
    <3> QED BY Zenon, <3>1, <3>2 DEF SentInv
  <2> QED BY Zenon, <2>1, <2>2
<1>17. ASSUME NEW d \in Dialers, DialAfter(d) PROVE SentInv(x)'
  <2>1. ASSUME x # d PROVE SentInv(x)'
    BY Zenon, <1>17, <1>a, <2>1, DueFrame, SentFrame DEF DialAfter, dialRest, appVars
  <2>2. ASSUME x = d PROVE SentInv(d)'
    <3>1. InPlace(got[d], sock[d])' /\ Last(d)' = Last(d) /\ Due(d)' = Due(d)
      BY Zenon, <1>17, DueFrame DEF DialAfter, dialRest, appVars, SentInv, Last
    <3>2. ASSUME d \in alive' PROVE Sent(d)'
      BY Zenon, <1>17, <1>a, <1>c, <3>1, <3>2 DEF DialAfter, dialRest, appVars, Sent, SentInv,
         Before, After, DialInv
    <3> QED BY Zenon, <3>1, <3>2 DEF SentInv
  <2> QED BY Zenon, <2>1, <2>2
<1>18. ASSUME NEW d \in Dialers, DialRegister(d) PROVE SentInv(x)'
  <2>1. ASSUME x # d PROVE SentInv(x)'
    <3> DEFINE new == SubSeq(fds[d], sent[d] + 1, upto[d])
    <3>1. new \in Seq(Nat)
      BY Zenon, <1>18, RegisterSends
    <3>2. sock' = IF new = <<>> THEN sock ELSE Send(d, new)
      BY Zenon, <1>18 DEF DialRegister
    <3> HIDE DEF new
    <3>3. sock'[x] = sock[x]
      BY Zenon, <2>1, <3>1, <3>2, SendOnly
    <3>4. /\ dial'[x] = dial[x] /\ sent'[x] = sent[x] /\ (x \in nodes' <=> x \in nodes)
          /\ UNCHANGED <<alive, got, chunks, app, todo>>
      BY Zenon, <1>18, <1>a, <2>1 DEF DialRegister, dialRest, appVars
    <3> QED BY Zenon, <3>3, <3>4, DueFrame, SentFrame
  <2>2. ASSUME x = d PROVE SentInv(d)'
    <3> DEFINE new == SubSeq(fds[d], sent[d] + 1, upto[d])
    <3>1. /\ After(d) /\ sent[d] <= upto[d] /\ new \in Seq(Nat) /\ Len(new) = upto[d] - sent[d]
          /\ \A i \in 1..Len(new) : new[i] = sent[d] + i
      BY Zenon, <1>18, RegisterSends
    <3>2. /\ sock' = IF new = <<>> THEN sock ELSE Send(d, new)
          /\ d \in alive => nodes' = nodes \cup {d} /\ dial'[d] = "watch"
          /\ UNCHANGED <<todo, alive, got, app, chunks>>
      BY Zenon, <1>18, <1>a DEF DialRegister, dialRest, appVars
    <3> HIDE DEF new
    <3>3. ASSUME d \in alive PROVE SentInv(d)'
      <4>1. Last(d) = sent[d] /\ \A a \in Appenders : d \notin todo[a]
        BY Zenon, <3>1, <3>3 DEF SentInv, Sent, After
      <4>2. InPlace(got[d], sock[d])' /\ Last(d)' = upto[d]
        <5>1. CASE new = <<>>
          <6>1. Len(new) = 0
            BY Zenon, <5>1
          <6> QED BY <1>c, <3>1, <3>2, <4>1, <5>1, <6>1 DEF SentInv, Last
        <5>2. CASE new # <<>>
          <6>1. Follows(new, Last(d))
            BY Zenon, <3>1, <4>1, <5>2 DEF Follows
          <6>2. InPlace(got[d], sock[d])' /\ Last(d)' = Last(d) + Len(new)
            BY Zenon, <3>1, <3>2, <3>3, <5>2, <6>1, SendNext
          <6>3. sent[d] + (upto[d] - sent[d]) = upto[d]
            BY <1>c
          <6> QED BY Zenon, <3>1, <4>1, <6>2, <6>3
        <5> QED BY Zenon, <5>1, <5>2
      <4>3. Due(d) = upto[d]
        <5>1. Len(fds[d]) = upto[d]
          BY Zenon, <1>18 DEF DialRegister
        <5>2. Announcing => upto[d] < chunks
          BY Zenon, <5>1 DEF DialInv, Announcing, Telling
        <5>3. upto[d] = chunks \/ (upto[d] = chunks - 1 /\ Announcing)
          BY Zenon, <3>1 DEF DialInv
        <5> QED BY <1>c, <4>1, <5>2, <5>3 DEF Due
      <4>4. Due(d)' = Due(d)
        BY Zenon, <3>2, DueFrame
      <4>5. Sent(d)'
        BY Zenon, <3>2, <3>3, <4>2, <4>3, <4>4 DEF Sent, Before, After
      <4> QED BY Zenon, <4>2, <4>5 DEF SentInv
    <3>4. ASSUME d \notin alive PROVE SentInv(d)'
      BY Zenon, <3>2, <3>4 DEF SentInv, Send
    <3> QED BY Zenon, <3>3, <3>4
  <2> QED BY Zenon, <2>1, <2>2
<1>19. ASSUME NEW d \in Dialers, WatchCleanup(d) PROVE SentInv(x)'
  <2>1. ASSUME x # d PROVE SentInv(x)'
    BY Zenon, <1>19, <1>a, <2>1, DueFrame, SentFrame DEF WatchCleanup, dialRest, appVars
  <2>2. ASSUME x = d PROVE SentInv(d)'
    <3>1. InPlace(got[d], sock[d])' /\ Last(d)' = Last(d) /\ Due(d)' = Due(d)
      BY Zenon, <1>19, DueFrame DEF WatchCleanup, dialRest, appVars, SentInv, Last
    <3>2. ASSUME d \in alive' PROVE Sent(d)'
      BY Zenon, <1>19, <1>a, <1>c, <3>1, <3>2 DEF WatchCleanup, dialRest, appVars, Sent, SentInv,
         Before, After
    <3> QED BY Zenon, <3>1, <3>2 DEF SentInv
  <2> QED BY Zenon, <2>1, <2>2
<1>20. ASSUME NEW d \in Dialers, WatchCleaned(d) PROVE SentInv(x)'
  <2>1. ASSUME x # d PROVE SentInv(x)'
    BY Zenon, <1>20, <1>a, <2>1, DueFrame, SentFrame DEF WatchCleaned, dialRest, appVars
  <2>2. ASSUME x = d PROVE SentInv(d)'
    <3>1. InPlace(got[d], sock[d])' /\ Last(d)' = Last(d) /\ Due(d)' = Due(d)
      BY Zenon, <1>20, DueFrame DEF WatchCleaned, dialRest, appVars, SentInv, Last
    <3>2. ASSUME d \in alive' PROVE Sent(d)'
      BY Zenon, <1>20, <1>a, <1>c, <3>1, <3>2 DEF WatchCleaned, dialRest, appVars, Sent, SentInv,
         Before, After
    <3> QED BY Zenon, <3>1, <3>2 DEF SentInv
  <2> QED BY Zenon, <2>1, <2>2
<1>21. ASSUME NEW d \in Dialers, WatchLock(d) PROVE SentInv(x)'
  <2>1. ASSUME x # d PROVE SentInv(x)'
    BY Zenon, <1>21, <1>a, <2>1, DueFrame, SentFrame DEF WatchLock, dialRest, appVars
  <2>2. ASSUME x = d PROVE SentInv(d)'
    <3>1. InPlace(got[d], sock[d])' /\ Last(d)' = Last(d) /\ Due(d)' = Due(d)
      BY Zenon, <1>21, DueFrame DEF WatchLock, dialRest, appVars, SentInv, Last
    <3>2. ASSUME d \in alive' PROVE Sent(d)'
      BY Zenon, <1>21, <1>a, <1>c, <3>1, <3>2 DEF WatchLock, dialRest, appVars, Sent, SentInv,
         Before, After
    <3> QED BY Zenon, <3>1, <3>2 DEF SentInv
  <2> QED BY Zenon, <2>1, <2>2
<1>22. ASSUME NEW d \in Dialers, WatchUnlock(d) PROVE SentInv(x)'
  <2>1. ASSUME x # d PROVE SentInv(x)'
    BY Zenon, <1>22, <1>a, <2>1, DueFrame, SentFrame DEF WatchUnlock, dialRest, appVars
  <2>2. ASSUME x = d PROVE SentInv(d)'
    <3>1. InPlace(got[d], sock[d])' /\ Last(d)' = Last(d) /\ Due(d)' = Due(d)
      BY Zenon, <1>22, DueFrame DEF WatchUnlock, dialRest, appVars, SentInv, Last
    <3>2. ASSUME d \in alive' PROVE Sent(d)'
      BY Zenon, <1>22, <1>a, <1>c, <3>1, <3>2 DEF WatchUnlock, dialRest, appVars, Sent, SentInv,
         Before, After
    <3> QED BY Zenon, <3>1, <3>2 DEF SentInv
  <2> QED BY Zenon, <2>1, <2>2
<1>23. ASSUME NEW d \in Dialers, Receive(d) PROVE SentInv(x)'
  <2>1. ASSUME x # d PROVE SentInv(x)'
    BY Zenon, <1>23, <1>a, <2>1, DueFrame, SentFrame DEF Receive, appVars, dialVars
  <2>2. ASSUME x = d PROVE SentInv(d)'
    <3>1. /\ got'[d] = got[d] \o Head(sock[d]) /\ sock'[d] = Tail(sock[d])
          /\ UNCHANGED <<dial, sent, nodes, alive, todo, app, chunks>>
      BY Zenon, <1>23, <1>a DEF Receive, appVars, dialVars
    <3>2. got[d] \in Seq(Nat) /\ sock[d] \in Seq(Seq(Nat)) /\ sock[d] # <<>>
      BY Zenon, <1>23 DEF Receive, WellFormed
    <3>3. InPlace(got[d], sock[d])' /\ Last(d)' = Last(d)
      BY Zenon, <3>1, <3>2, ReceiveInPlace DEF SentInv, Last
    <3>4. Due(d)' = Due(d)
      BY Zenon, <3>1, DueFrame
    <3>5. ASSUME d \in alive PROVE Sent(d)'
      BY Zenon, <3>1, <3>3, <3>4, <3>5 DEF SentInv, Sent, Before, After
    <3> QED BY Zenon, <3>1, <3>3, <3>5 DEF SentInv
  <2> QED BY Zenon, <2>1, <2>2
<1>24. ASSUME NEW d \in Dialers, Die(d) PROVE SentInv(x)'
  <2>1. ASSUME x # d PROVE SentInv(x)'
    BY Zenon, <1>24, <1>a, <2>1, DueFrame, SentFrame DEF Die, appVars, dialVars
  <2>2. ASSUME x = d PROVE SentInv(d)'
    <3>1. got'[d] = <<>> /\ sock'[d] = <<>> /\ d \notin alive'
      BY Zenon, <1>24, <1>a DEF Die
    <3> QED BY <3>1 DEF SentInv, InPlace
  <2> QED BY Zenon, <2>1, <2>2
<1>25. ASSUME NEW e \in Expanders, ExpandRLock(e) PROVE SentInv(x)'
  BY Zenon, <1>25, DueFrame, SentFrame DEF ExpandRLock, expandRest, appVars, dialVars
<1>26. ASSUME NEW e \in Expanders, ExpandGetChunk(e) PROVE SentInv(x)'
  BY Zenon, <1>26, DueFrame, SentFrame DEF ExpandGetChunk, expandRest, appVars, dialVars
<1>27. ASSUME NEW e \in Expanders, ExpandChunk(e) PROVE SentInv(x)'
  BY Zenon, <1>27, DueFrame, SentFrame DEF ExpandChunk, expandRest, appVars, dialVars
<1>28. ASSUME UNCHANGED vars PROVE SentInv(x)'
  BY Zenon, <1>28, DueFrame, SentFrame DEF vars, appVars, dialVars
<1> QED BY Zenon, <1>1, <1>2, <1>3, <1>4, <1>5, <1>6, <1>7, <1>8, <1>9, <1>10, <1>11,
        <1>12, <1>13, <1>14, <1>15, <1>16, <1>17, <1>18, <1>19, <1>20, <1>21,
        <1>22, <1>23, <1>24, <1>25, <1>26, <1>27, <1>28
        DEF Next, tryAppendChunk, Dial, watchdog, handleExpandRequest

-----------------------------------------------------------------------------
(* The initial state. *)
LEMMA InitInv == Init => IInv
<1> SUFFICES ASSUME Init PROVE IInv
  OBVIOUS
<1>1. Unlocked \in Mutex
  BY Zenon DEF Unlocked, Mutex
<1>2. <<>> \in Seq(Nat) /\ <<>> \in Seq(Seq(Nat)) /\ Len(<<>>) = 0
  OBVIOUS
<1>3. WellFormed
  BY <1>1, <1>2 DEF Init, WellFormed
<1>4. ASSUME NEW a \in Appenders PROVE AppenderInv(a) /\ ~Telling(a)
  BY Zenon DEF Init, AppenderInv, InMux, InBus, Telling
<1>5. ASSUME NEW d \in Dialers PROVE HubInv(d)
  BY Zenon, ChunkSyncAssumption DEF Init, HubInv, Writing, After, Unlocked
<1>6. ASSUME NEW d \in Dialers PROVE DialInv(d)
  BY <1>2, <1>4 DEF Init, DialInv, Before, After
<1>7. ASSUME NEW d \in Dialers PROVE SentInv(d)
  <2>1. InPlace(got[d], sock[d]) /\ Last(d) = 0
    BY <1>2 DEF Init, InPlace, Last, LastOf
  <2>2. Sent(d)
    BY Zenon, <2>1 DEF Init, Sent, Before, After
  <2> QED BY Zenon, <2>1, <2>2 DEF SentInv
<1> QED BY Zenon, <1>3, <1>4, <1>5, <1>6, <1>7 DEF IInv

(* The invariant is inductive. *)
LEMMA Invariance == Spec => []IInv
<1>1. IInv /\ [Next]_vars => IInv'
  <2> SUFFICES ASSUME IInv, [Next]_vars PROVE IInv'
    OBVIOUS
  <2>1. WellFormed'
    BY Zenon, WellFormedStep
  <2>2. \A a \in Appenders : AppenderInv(a)'
    BY Zenon, AppenderStep
  <2>3. \A d \in Dialers : HubInv(d)' /\ DialInv(d)' /\ SentInv(d)'
    BY Zenon, HubStep, DialStep, SentStep
  <2> QED BY Zenon, <2>1, <2>2, <2>3 DEF IInv
<1> QED BY InitInv, <1>1, PTL DEF Spec

(* A node has, and is sent, every chunk once and in the order of the bus,  *)
(* whatever calls of tryAppendChunk and Dial overlap and whatever nodes    *)
(* die.                                                                    *)
THEOREM ChunkPositionsHold == Spec => []ChunkPositions
<1>1. IInv => ChunkPositions
  BY Zenon DEF IInv, SentInv, ChunkPositions
<1> QED BY Invariance, <1>1, PTL

(* A registered node that lives has been sent every chunk, unless the      *)
(* goroutine that appended the last one is still telling the nodes.        *)
THEOREM NothingMissedHolds == Spec => []NothingMissed
<1>1. IInv => NothingMissed
  <2> SUFFICES ASSUME IInv, NEW d \in nodes \cap alive,
                      \A a \in Appenders : ~Telling(a)
               PROVE  LastOf(got[d], sock[d]) = chunks
    BY Zenon DEF NothingMissed, Telling
  <2>1. d \in Dialers /\ d \in nodes /\ d \in alive
    BY Zenon DEF IInv, WellFormed
  <2>2. Last(d) = Due(d)
    BY Zenon, <2>1 DEF IInv, SentInv, Sent
  <2>3. ~Announcing /\ \A a \in Appenders : todo[a] = {}
    BY Zenon DEF IInv, AppenderInv, Telling, Announcing
  <2> QED BY Zenon, <2>2, <2>3 DEF Due, Last
<1> QED BY Invariance, <1>1, PTL
=============================================================================
