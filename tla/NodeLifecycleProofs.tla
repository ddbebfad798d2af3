------------------------- MODULE NodeLifecycleProofs -------------------------
(***************************************************************************)
(* Node IDs and names, for any number of nodes, sessions and connections.  *)
(***************************************************************************)
EXTENDS NodeLifecycle, WellFoundedInduction, TLAPS

(* LowestFree, which allocNodeID searches for, exists: it is a free ID.     *)
LEMMA LowestFreeIsFree ==
    ASSUME IDs \ nodeIDs # {}
    PROVE  LowestFree \in IDs \ nodeIDs
<1> DEFINE R == {ss \in Nat \X Nat : ss[1] < ss[2]}
<1> DEFINE T == IDs \ nodeIDs
<1>1. T \subseteq Nat
  BY LifecycleAssumption DEF IDs
<1>2. IsWellFoundedOn(R, Nat)
  BY NatLessThanWellFounded DEF OpToRel
<1>3. PICK k \in T : \A j \in T : ~(<<j, k>> \in R)
  <2> HIDE DEF R, T
  <2>1. T # {}
    BY DEF T
  <2> QED
    BY ZenonT(60), <1>1, <1>2, <2>1, WFMin
<1>4. \A j \in T : k <= j
  <2>1. SUFFICES ASSUME NEW j \in T, j < k PROVE FALSE
    <3>1. \A j \in T : j \in Nat /\ k \in Nat
      BY <1>1
    <3> HIDE DEF T
    <3> QED
      BY <3>1
  <2>2. j \in Nat /\ k \in Nat
    BY <1>1
  <2>3. <<j, k>> \in R
    BY <2>1, <2>2
  <2> QED
    BY <1>3, <2>3
<1> QED
  BY <1>3, <1>4 DEF LowestFree

(***************************************************************************)
(* Well-formed sessions, connections and slots.                            *)
(***************************************************************************)
SessionStates ==
    {"new", "id", "failed", "up", "scan", "slot", "name", "ev", "closed"}

Session ==
    [pc : SessionStates,
     id : 0..MaxNodes - 1, name : Names \cup {None}, i : Nat, blk : Blocks \cup {None}]

Calls == {"slot", "set", "check", "push", "notify", "wait"}

Connection ==
    [pc : Calls \cup {"new", "own", "closed"},
     slot : Slots \cup {0}, blk : Blocks \cup {None}, node : Sessions \cup {None}]

Slot ==
    [status : {"idle", "busy", "ready", "done"}, owner : 0..MaxNodes - 1,
     hdr : Blocks \cup {None}]

WellFormed ==
    /\ nodeIDs \subseteq IDs
    /\ nodes \in [Names -> Sessions \cup {None}]
    /\ sess \in [Sessions -> Session]
    /\ reg \in [Slots -> Slot]
    /\ free \subseteq Blocks \cup {None}
    /\ conn \in [Conns -> Connection]
    /\ \A c \in Conns : conn[c].pc \in Calls => conn[c].node \in Sessions
    /\ \A s \in Sessions : sess[s].pc \in {"scan", "slot"} => sess[s].i # 0

(* A session with a field set to a value of its type is a session. *)
LEMMA SessionField ==
    ASSUME NEW r \in Session
    PROVE  /\ \A p \in SessionStates : [r EXCEPT !.pc = p] \in Session
           /\ \A k \in 0..MaxNodes - 1 : [r EXCEPT !.id = k] \in Session
           /\ \A n \in Names \cup {None} : [r EXCEPT !.name = n] \in Session
           /\ \A k \in Nat : [r EXCEPT !.i = k] \in Session
           /\ \A b \in Blocks \cup {None} : [r EXCEPT !.blk = b] \in Session
  BY DEF Session

(* The same of a connection. *)
LEMMA ConnectionField ==
    ASSUME NEW r \in Connection
    PROVE  /\ \A p \in Calls \cup {"new", "own", "closed"} : [r EXCEPT !.pc = p] \in Connection
           /\ \A i \in Slots : [r EXCEPT !.slot = i] \in Connection
           /\ \A b \in Blocks \cup {None} : [r EXCEPT !.blk = b] \in Connection
           /\ \A s \in Sessions : [r EXCEPT !.node = s] \in Connection
  BY DEF Connection

(* Freeing a slot leaves a registry of slots. *)
LEMMA SlotFreed ==
    ASSUME NEW f \in [Slots -> Slot], NEW k
    PROVE  [f EXCEPT ![k].status = "idle"] \in [Slots -> Slot]
<1>1. ASSUME NEW r \in Slot PROVE [r EXCEPT !.status = "idle"] \in Slot
  BY DEF Slot
<1> QED
  BY ZenonT(60), <1>1

(* A session that leaves the states of its slots alone. *)
LEMMA SessionMoves ==
    ASSUME NEW f \in [Sessions -> Session], NEW s \in Sessions, NEW p \in SessionStates,
           \A q \in Sessions : f[q].pc \in {"scan", "slot"} => f[q].i # 0,
           p \notin {"scan", "slot"}
    PROVE  /\ [f EXCEPT ![s].pc = p] \in [Sessions -> Session]
           /\ \A q \in Sessions : [f EXCEPT ![s].pc = p][q].pc \in {"scan", "slot"}
                                    => [f EXCEPT ![s].pc = p][q].i # 0
<1>1. [f EXCEPT ![s].pc = p] = [f EXCEPT ![s] = [f[s] EXCEPT !.pc = p]]
  BY Zenon
<1>2. [f[s] EXCEPT !.pc = p] \in Session
  BY SessionField, Zenon
<1>3. ASSUME NEW q \in Sessions, [f EXCEPT ![s].pc = p][q].pc \in {"scan", "slot"}
      PROVE  [f EXCEPT ![s].pc = p][q].i # 0
  <2>1. CASE q = s
    <3>1. [f EXCEPT ![s].pc = p][q].pc = p
      BY <2>1 DEF Session
    <3> QED  BY <1>3, <3>1
  <2>2. CASE q # s
    <3>1. [f EXCEPT ![s].pc = p][q] = f[q]
      BY <2>2
    <3> QED  BY <1>3, <3>1
  <2> QED  BY <2>1, <2>2
<1> QED
  BY <1>1, <1>2, <1>3, Zenon

(* The initial state is well-formed. *)
LEMMA InitWellFormed == Init => WellFormed
<1> SUFFICES ASSUME Init PROVE WellFormed
  OBVIOUS
<1>1. 0 \in 0..MaxNodes - 1
  BY LifecycleAssumption
<1>2. sess \in [Sessions -> Session]
  BY <1>1 DEF Init, Session, SessionStates
<1>3. reg \in [Slots -> Slot]
  BY <1>1 DEF Init, Slot
<1>4. conn \in [Conns -> Connection]
  BY DEF Init, Connection
<1>5. \A c \in Conns : conn[c].pc \notin Calls
  BY DEF Init, Calls
<1> QED
  BY <1>2, <1>3, <1>4, <1>5 DEF Init, WellFormed

(* Every step keeps the state well-formed. *)
LEMMA StepWellFormed == WellFormed /\ [Next]_vars => WellFormed'
<1> SUFFICES ASSUME WellFormed, [Next]_vars PROVE WellFormed'
  OBVIOUS
<1> USE DEF WellFormed, hubVars, nodeVars, stripeVars
<1>1. ASSUME NEW s \in Sessions, NEW n \in Names, DialId(s, n) PROVE WellFormed'
  <2> DEFINE r == [sess[s] EXCEPT !.pc = "id"]
  <2> DEFINE q == [r EXCEPT !.id = LowestFree]
  <2>1. LowestFree \in IDs /\ LowestFree \in 0..MaxNodes - 1
    BY SMTT(60), <1>1, LowestFreeIsFree, LifecycleAssumption DEF DialId, IDs
  <2>2. r \in Session
    BY ZenonT(60), SessionField DEF SessionStates
  <2>3. q \in Session
    <3> HIDE DEF r
    <3> QED BY <2>1, <2>2, SessionField
  <2>4. [q EXCEPT !.name = n] \in Session
    <3> HIDE DEF q
    <3> QED BY <2>3, SessionField
  <2>5. sess' = [sess EXCEPT ![s] = [q EXCEPT !.name = n]]
    BY ZenonT(60), <1>1 DEF DialId
  <2>6. sess' \in [Sessions -> Session]
    BY <2>4, <2>5
  <2> QED
    BY <1>1, <2>1, <2>6 DEF DialId
<1>2. ASSUME NEW s \in Sessions, DialRegister(s) PROVE WellFormed'
  <2>1. nodes' \in [Names -> Sessions \cup {None}]
    BY <1>2, Zenon DEF DialRegister
  <2>2. "up" \in SessionStates /\ "up" \notin {"scan", "slot"}
    BY DEF SessionStates
  <2>3. sess' = [sess EXCEPT ![s].pc = "up"]
    BY <1>2, Zenon DEF DialRegister
  <2>4. /\ sess' \in [Sessions -> Session]
        /\ \A q \in Sessions : sess'[q].pc \in {"scan", "slot"} => sess'[q].i # 0
    BY <2>2, <2>3, SessionMoves
  <2>5. UNCHANGED <<nodeIDs, reg, free, conn>>
    BY <1>2, Zenon DEF DialRegister
  <2> QED
    BY <2>1, <2>4, <2>5, Zenon
<1>3. ASSUME NEW s \in Sessions, DialFail(s) PROVE WellFormed'
  BY <1>3 DEF DialFail, Session, SessionStates
<1>4. ASSUME NEW s \in Sessions, Die(s) PROVE WellFormed'
  BY <1>4 DEF Die
<1>5. ASSUME NEW s \in Sessions, CleanupStart(s) PROVE WellFormed'
  <2> DEFINE r == [sess[s] EXCEPT !.pc = "scan"]
  <2>0. r \in Session
    BY ZenonT(60), SessionField DEF SessionStates
  <2>1. [r EXCEPT !.i = 1] \in Session
    <3> HIDE DEF r
    <3> QED BY ZenonT(60), SessionField, <2>0
  <2>2. sess' = [sess EXCEPT ![s] = [r EXCEPT !.i = 1]]
    BY ZenonT(60), <1>5 DEF CleanupStart
  <2>3. sess' \in [Sessions -> Session]
    BY ZenonT(60), <2>1, <2>2
  <2> QED
    BY <1>5, <2>3 DEF CleanupStart
<1>6. ASSUME NEW s \in Sessions, CleanupScan(s) PROVE WellFormed'
  <2> DEFINE r == [sess[s] EXCEPT !.pc = "slot"]
  <2> DEFINE b == reg[sess[s].i].hdr
  <2>1. CASE sess' = [sess EXCEPT ![s].i = @ + 1]
    BY SMTT(60), <1>6, <2>1 DEF CleanupScan, Session
  <2>2. CASE sess' = [sess EXCEPT ![s].pc = "slot", ![s].blk = b]
    <3>1. b \in Blocks \cup {None}
      BY SMTT(60), <1>6, LifecycleAssumption DEF CleanupScan, Session, Slots, Slot
    <3>2. r \in Session
      BY ZenonT(60), SessionField DEF SessionStates
    <3>3. [r EXCEPT !.blk = b] \in Session
      <4> HIDE DEF r, b
      <4> QED BY ZenonT(60), <3>1, <3>2, SessionField
    <3>4. sess' = [sess EXCEPT ![s] = [r EXCEPT !.blk = b]]
      BY ZenonT(60), <2>2
    <3>5. sess' \in [Sessions -> Session]
      BY <3>3, <3>4
    <3>6. \A q \in Sessions : sess'[q].i = sess[q].i /\ (sess'[q].pc = sess[q].pc \/ q = s)
      BY <2>2 DEF Session
    <3> QED
      BY <1>6, <3>5, <3>6 DEF CleanupScan
  <2>3. sess' = [sess EXCEPT ![s].i = @ + 1] \/ sess' = [sess EXCEPT ![s].pc = "slot", ![s].blk = b]
    BY <1>6, Zenon DEF CleanupScan
  <2> QED
    BY <2>1, <2>2, <2>3, Zenon
<1>7. ASSUME NEW s \in Sessions, CleanupFree(s) PROVE WellFormed'
  <2>1. sess' \in [Sessions -> Session]
    BY <1>7 DEF CleanupFree, Session, SessionStates
  <2>2. free' \subseteq Blocks \cup {None}
    BY <1>7 DEF CleanupFree, Session
  <2>3. reg' \in [Slots -> Slot]
    BY ZenonT(60), <1>7, SlotFreed DEF CleanupFree
  <2>4. \A q \in Sessions : sess'[q] = sess[q] \/ sess'[q].i = sess[q].i + 1
    BY <1>7 DEF CleanupFree, Session
  <2>5. \A q \in Sessions : sess[q].i \in Nat
    BY DEF Session
  <2>6. \A q \in Sessions : sess'[q].pc \in {"scan", "slot"} => sess'[q].i # 0
    BY <2>4, <2>5
  <2> QED
    BY <1>7, <2>1, <2>2, <2>3, <2>6 DEF CleanupFree
<1>8. ASSUME NEW s \in Sessions, FreeId(s) PROVE WellFormed'
  BY SMTT(60), <1>8 DEF FreeId, Session, SessionStates
<1>9. ASSUME NEW s \in Sessions, DeleteName(s) PROVE WellFormed'
  <2>1. nodes' \in [Names -> Sessions \cup {None}]
    BY <1>9, Zenon DEF DeleteName
  <2>2. "ev" \in SessionStates /\ "ev" \notin {"scan", "slot"}
    BY DEF SessionStates
  <2>3. sess' = [sess EXCEPT ![s].pc = "ev"]
    BY <1>9, Zenon DEF DeleteName
  <2>4. /\ sess' \in [Sessions -> Session]
        /\ \A q \in Sessions : sess'[q].pc \in {"scan", "slot"} => sess'[q].i # 0
    BY <2>2, <2>3, SessionMoves
  <2>5. UNCHANGED <<nodeIDs, reg, free, conn>>
    BY <1>9, Zenon DEF DeleteName
  <2> QED
    BY <2>1, <2>4, <2>5, Zenon
<1>10. ASSUME NEW s \in Sessions, closeEventfd(s) PROVE WellFormed'
  BY <1>10 DEF closeEventfd, Session, SessionStates
<1>11. ASSUME NEW s \in Sessions, NodePop(s) PROVE WellFormed'
  BY <1>11 DEF NodePop
<1>12. ASSUME NEW c \in Conns, Request(c) PROVE WellFormed'
  <2>1. PICK b \in free : conn' = [conn EXCEPT ![c].pc = "own", ![c].blk = b] /\ free' = free \ {b}
    BY ZenonT(60), <1>12 DEF Request
  <2> DEFINE r == [conn[c] EXCEPT !.pc = "own"]
  <2>2. r \in Connection
    BY ZenonT(60), ConnectionField
  <2>3. [r EXCEPT !.blk = b] \in Connection
    <3> HIDE DEF r
    <3> QED BY <2>2, ConnectionField
  <2>4. conn' = [conn EXCEPT ![c] = [r EXCEPT !.blk = b]]
    BY ZenonT(60), <2>1
  <2>5. conn' \in [Conns -> Connection]
    BY <2>3, <2>4
  <2>6. \A d \in Conns : conn'[d].pc \in Calls => conn'[d].node \in Sessions
    BY <2>1 DEF Connection, Calls
  <2> QED
    BY <1>12, <2>1, <2>5, <2>6 DEF Request
<1>13. ASSUME NEW c \in Conns, NEW n \in Names, NextLookup(c, n) PROVE WellFormed'
  <2> DEFINE r == [conn[c] EXCEPT !.pc = IF conn[c].slot = 0 THEN "slot" ELSE "check"]
  <2>1. nodes[n] \in Sessions
    BY ZenonT(60), <1>13 DEF NextLookup
  <2>2. r \in Connection
    BY ZenonT(60), ConnectionField DEF Calls
  <2>3. [r EXCEPT !.node = nodes[n]] \in Connection
    <3> HIDE DEF r
    <3> QED BY <2>1, <2>2, ConnectionField
  <2>4. conn' = [conn EXCEPT ![c] = [r EXCEPT !.node = nodes[n]]]
    BY ZenonT(60), <1>13 DEF NextLookup
  <2>5. conn' \in [Conns -> Connection]
    BY <2>3, <2>4
  <2>6. \A d \in Conns : conn'[d].pc \in Calls => conn'[d].node \in Sessions
    BY <1>13, <2>1 DEF NextLookup, Connection
  <2> QED
    BY <1>13, <2>5, <2>6 DEF NextLookup
<1>14. ASSUME NEW c \in Conns, NEW i \in Slots, AllocSlot(c, i) PROVE WellFormed'
  <2> DEFINE r == [conn[c] EXCEPT !.pc = "set"]
  <2>1. reg' \in [Slots -> Slot]
    BY ZenonT(60), <1>14 DEF AllocSlot, Slot
  <2>2. r \in Connection
    BY ZenonT(60), ConnectionField DEF Calls
  <2>3. [r EXCEPT !.slot = i] \in Connection
    <3> HIDE DEF r
    <3> QED BY <2>2, ConnectionField
  <2>4. conn' = [conn EXCEPT ![c] = [r EXCEPT !.slot = i]]
    BY ZenonT(60), <1>14 DEF AllocSlot
  <2>5. conn' \in [Conns -> Connection]
    BY <2>3, <2>4
  <2>6. \A d \in Conns : conn'[d].pc \in Calls => conn'[d].node \in Sessions
    BY <1>14 DEF AllocSlot, Connection, Calls
  <2> QED
    BY <1>14, <2>1, <2>5, <2>6 DEF AllocSlot
<1>15. ASSUME NEW c \in Conns, AllocSlotSet(c) PROVE WellFormed'
  <2>1. reg' \in [Slots -> Slot]
    <3>1. [status |-> "ready", owner |-> 0, hdr |-> conn[c].blk] \in Slot
      BY LifecycleAssumption DEF Slot, Connection
    <3> QED BY ZenonT(60), <1>15, <3>1 DEF AllocSlotSet
  <2>2. conn' \in [Conns -> Connection]
    BY <1>15 DEF AllocSlotSet, Connection, Calls
  <2>3. \A d \in Conns : conn'[d].pc \in Calls => conn'[d].node \in Sessions
    BY <1>15 DEF AllocSlotSet, Connection, Calls
  <2> QED
    BY <1>15, <2>1, <2>2, <2>3 DEF AllocSlotSet
<1>16. ASSUME NEW c \in Conns, NextSetStripe(c) PROVE WellFormed'
  <2>1. conn[c].node \in Sessions
    BY <1>16 DEF NextSetStripe, Calls
  <2>2. reg' \in [Slots -> Slot]
    BY <1>16, <2>1 DEF NextSetStripe, Slot, Connection, Session
  <2>3. conn' \in [Conns -> Connection]
    <3>1. [conn[c] EXCEPT !.pc = "push"] \in Connection
      BY ZenonT(60), ConnectionField DEF Calls
    <3>2. [conn[c] EXCEPT !.pc = "own"] \in Connection
      BY ZenonT(60), ConnectionField DEF Calls
    <3>3. \/ conn' = [conn EXCEPT ![c] = [conn[c] EXCEPT !.pc = "push"]]
          \/ conn' = [conn EXCEPT ![c] = [conn[c] EXCEPT !.pc = "own"]]
      BY ZenonT(60), <1>16 DEF NextSetStripe
    <3> QED  BY <3>1, <3>2, <3>3
  <2>4. \A d \in Conns : conn'[d].pc \in Calls => conn'[d].node \in Sessions
    BY SMTT(60), <1>16, <2>1 DEF NextSetStripe, Connection, Calls
  <2> QED
    BY <1>16, <2>2, <2>3, <2>4 DEF NextSetStripe
<1>17. ASSUME NEW c \in Conns, NextPush(c) PROVE WellFormed'
  BY SMTT(60), <1>17 DEF NextPush, Connection, Calls
<1>18. ASSUME NEW c \in Conns, NextNotify(c) PROVE WellFormed'
  BY <1>18 DEF NextNotify, Connection, Calls
<1>19. ASSUME NEW c \in Conns, NextReturn(c) PROVE WellFormed'
  BY SMTT(60), <1>19 DEF NextReturn, Connection, Calls
<1>20. ASSUME NEW c \in Conns, Close(c) PROVE WellFormed'
  <2>1. reg' \in [Slots -> Slot]
    <3>1. reg' = reg \/ reg' = [reg EXCEPT ![conn[c].slot].status = "idle"]
      BY ZenonT(60), <1>20 DEF Close
    <3> QED  BY <3>1, SlotFreed
  <2>2. conn' \in [Conns -> Connection] /\ free' \subseteq Blocks \cup {None}
    BY <1>20 DEF Close, Connection
  <2>3. \A d \in Conns : conn'[d].pc \in Calls => conn'[d].node \in Sessions
    BY <1>20 DEF Close, Connection, Calls
  <2> QED
    BY <1>20, <2>1, <2>2, <2>3 DEF Close
<1>21. ASSUME NEW t \in tasks, TaskStatus(t) PROVE WellFormed'
  BY ZenonT(60), <1>21 DEF TaskStatus, Slot
<1>22. ASSUME NEW t \in tasks, TaskAnswer(t) PROVE WellFormed'
  BY <1>22 DEF TaskAnswer
<1>23. CASE Dispatch
  BY <1>23 DEF Dispatch
<1>24. CASE UNCHANGED vars
  BY <1>24 DEF vars
<1> QED
  BY ZenonT(60), <1>1, <1>2, <1>3, <1>4, <1>5, <1>6, <1>7, <1>8, <1>9, <1>10, <1>11, <1>12, <1>13, <1>14,
     <1>15, <1>16, <1>17, <1>18, <1>19, <1>20, <1>21, <1>22, <1>23, <1>24
     DEF Next, Watchdog, Calling

(***************************************************************************)
(* Node IDs.                                                               *)
(***************************************************************************)
(* A step that gives no ID out and takes none back keeps IdsExact. *)
LEMMA IdsKept ==
    ASSUME IdsExact, nodeIDs' = nodeIDs,
           \A s \in Sessions : (HasId(s)' <=> HasId(s)) /\ sess'[s].id = sess[s].id
    PROVE  IdsExact'
<1>1. \A s, r \in Sessions : (HasId(s) /\ HasId(r) /\ sess[s].id = sess[r].id) => s = r
  BY DEF IdsExact
<1>2. \A s, r \in Sessions :
        (HasId(s)' /\ HasId(r)' /\ sess'[s].id = sess'[r].id) => s = r
  BY <1>1
<1>3. {r \in Sessions : HasId(r)'} = {r \in Sessions : HasId(r)}
  OBVIOUS
<1>4. {sess'[s].id : s \in {r \in Sessions : HasId(r)'}} =
      {sess[s].id : s \in {r \in Sessions : HasId(r)}}
  BY <1>3
<1> QED
  BY <1>2, <1>4 DEF IdsExact

(* Every step keeps IdsExact: allocNodeID gives out an ID that no session  *)
(* has, and freeNodeID takes back the ID of the session that gives it up.  *)
LEMMA StepIdsExact == WellFormed /\ IdsExact /\ [Next]_vars => IdsExact'
<1> SUFFICES ASSUME WellFormed, IdsExact, [Next]_vars PROVE IdsExact'
  OBVIOUS
<1> USE DEF hubVars, nodeVars, stripeVars
<1>0. sess \in [Sessions -> Session] /\ nodeIDs \subseteq IDs
  BY DEF WellFormed
<1>1. ASSUME NEW s \in Sessions, NEW n \in Names, DialId(s, n) PROVE IdsExact'
  <2>1. LowestFree \notin nodeIDs
    BY <1>1, LowestFreeIsFree DEF DialId
  <2>2. ~HasId(s) /\ HasId(s)' /\ sess'[s].id = LowestFree
    BY <1>0, <1>1 DEF DialId, HasId, Session
  <2>3. \A r \in Sessions \ {s} : (HasId(r)' <=> HasId(r)) /\ sess'[r].id = sess[r].id
    BY <1>0, <1>1 DEF DialId, HasId, Session
  <2>4. \A r \in Sessions : HasId(r) => sess[r].id \in nodeIDs
    BY DEF IdsExact
  <2>5. \A q, r \in Sessions :
          (HasId(q)' /\ HasId(r)' /\ sess'[q].id = sess'[r].id) => q = r
    BY <2>1, <2>2, <2>3, <2>4 DEF IdsExact
  <2>6. \A k : k \in nodeIDs' <=> \E r \in Sessions : HasId(r)' /\ k = sess'[r].id
    <3>1. \A k : k \in nodeIDs <=> \E r \in Sessions : HasId(r) /\ k = sess[r].id
      BY DEF IdsExact
    <3>2. nodeIDs' = nodeIDs \cup {LowestFree}
      BY <1>1 DEF DialId
    <3> QED
      BY <2>2, <2>3, <3>1, <3>2
  <2>7. nodeIDs' = {sess'[q].id : q \in {r \in Sessions : HasId(r)'}}
    BY <2>6
  <2> QED
    BY <2>5, <2>7 DEF IdsExact
<1>2. ASSUME NEW s \in Sessions, FreeId(s) PROVE IdsExact'
  <2>1. HasId(s) /\ ~HasId(s)'
    BY <1>0, <1>2 DEF FreeId, HasId, Session
  <2>2. \A r \in Sessions \ {s} : (HasId(r)' <=> HasId(r)) /\ sess'[r].id = sess[r].id
    BY <1>0, <1>2 DEF FreeId, HasId, Session
  <2>3. \A q, r \in Sessions :
          (HasId(q)' /\ HasId(r)' /\ sess'[q].id = sess'[r].id) => q = r
    BY <2>1, <2>2 DEF IdsExact
  <2>4. \A k : k \in nodeIDs' <=> \E r \in Sessions : HasId(r)' /\ k = sess'[r].id
    <3>1. \A k : k \in nodeIDs <=> \E r \in Sessions : HasId(r) /\ k = sess[r].id
      BY DEF IdsExact
    <3>2. \A r \in Sessions : HasId(r) /\ sess[r].id = sess[s].id => r = s
      BY <2>1 DEF IdsExact
    <3>3. nodeIDs' = nodeIDs \ {sess[s].id}
      BY <1>2 DEF FreeId
    <3> QED
      BY <2>1, <2>2, <3>1, <3>2, <3>3
  <2>5. nodeIDs' = {sess'[q].id : q \in {r \in Sessions : HasId(r)'}}
    BY <2>4
  <2> QED
    BY <2>3, <2>5 DEF IdsExact
<1>3. ASSUME NEW s \in Sessions, DialRegister(s) \/ DialFail(s) PROVE IdsExact'
  <2>1. \A r \in Sessions : (HasId(r)' <=> HasId(r)) /\ sess'[r].id = sess[r].id
    BY SMTT(60), <1>0, <1>3 DEF DialRegister, DialFail, HasId, Session
  <2> QED
    BY <1>3, <2>1, IdsKept DEF DialRegister, DialFail
<1>4. ASSUME NEW s \in Sessions, CleanupStart(s) \/ CleanupScan(s) \/ CleanupFree(s)
      PROVE  IdsExact'
  <2>1. \A r \in Sessions : (HasId(r)' <=> HasId(r)) /\ sess'[r].id = sess[r].id
    BY <1>0, <1>4 DEF CleanupStart, CleanupScan, CleanupFree, HasId, Session
  <2> QED
    BY SMTT(60), <1>4, <2>1, IdsKept DEF CleanupStart, CleanupScan, CleanupFree
<1>5. ASSUME NEW s \in Sessions, DeleteName(s) \/ closeEventfd(s) PROVE IdsExact'
  <2>1. \A r \in Sessions : (HasId(r)' <=> HasId(r)) /\ sess'[r].id = sess[r].id
    BY <1>0, <1>5 DEF DeleteName, closeEventfd, HasId, Session
  <2> QED
    BY <1>5, <2>1, IdsKept DEF DeleteName, closeEventfd
<1>6. CASE UNCHANGED hubVars
  BY SMTT(60), <1>6 DEF IdsExact, HasId
<1>7. ASSUME NEW s \in Sessions, Die(s) \/ NodePop(s) PROVE UNCHANGED hubVars
  BY <1>7 DEF Die, NodePop
<1>8. ASSUME NEW c \in Conns, NEW n \in Names, NextLookup(c, n) PROVE UNCHANGED hubVars
  BY ZenonT(60), <1>8 DEF NextLookup
<1>9. ASSUME NEW c \in Conns, Request(c) \/ Calling(c) \/ Close(c) PROVE UNCHANGED hubVars
  BY ZenonT(60), <1>9 DEF Request, Close, Calling, AllocSlot, AllocSlotSet, NextSetStripe, NextPush,
              NextNotify, NextReturn
<1>10. ASSUME NEW t \in tasks, TaskStatus(t) \/ TaskAnswer(t) PROVE UNCHANGED hubVars
  BY <1>10 DEF TaskStatus, TaskAnswer
<1>11. Dispatch \/ UNCHANGED vars => UNCHANGED hubVars
  BY DEF Dispatch, vars
<1> HIDE DEF hubVars
<1> QED
  BY <1>1, <1>2, <1>3, <1>4, <1>5, <1>6, <1>7, <1>8, <1>9, <1>10, <1>11 DEF Next, Watchdog

(* The registry of node IDs is exact in every window: however Dial,        *)
(* watchdogs and dying processes overlap, an ID belongs to one session at  *)
(* a time and is taken exactly as long as a session has it (allocNodeID,   *)
(* freeNodeID).                                                            *)
THEOREM LifecycleIdsExact == Spec => []IdsExact
<1>1. Init => IdsExact
  BY DEF Init, IdsExact, HasId
<1> QED
  BY <1>1, InitWellFormed, StepWellFormed, StepIdsExact, PTL DEF Spec

(***************************************************************************)
(* Names.                                                                  *)
(***************************************************************************)
(* Dial has been called for the session, and its watchdog is not through. *)
Named(s) == sess[s].pc \notin {"new", "closed"}

(* What NamesReachable needs: no two sessions have a name at a time. *)
NamesInv ==
    /\ \A s \in Sessions : Named(s) => sess[s].name \in Names
    /\ \A s, r \in Sessions : (Named(s) /\ Named(r) /\ sess[s].name = sess[r].name) => s = r
    /\ NamesReachable
    /\ alive \subseteq Sessions

(* A step that leaves the names alone keeps NamesInv. *)
LEMMA NamesKept ==
    ASSUME NamesInv, nodes' = nodes, alive' \subseteq alive,
           \A s \in Sessions : /\ Named(s)' => Named(s)
                               /\ sess'[s].name = sess[s].name
                               /\ sess'[s].pc = "up" => sess[s].pc = "up"
    PROVE  NamesInv'
  BY DEF NamesInv, NamesReachable

(* Every step keeps NamesInv if no name is dialled that a session has. *)
LEMMA StepNamesInv ==
    WellFormed /\ NamesInv /\ "redial" \notin Windows /\ [Next]_vars => NamesInv'
<1> SUFFICES ASSUME WellFormed, NamesInv, "redial" \notin Windows, [Next]_vars PROVE NamesInv'
  OBVIOUS
<1> USE DEF hubVars, nodeVars, stripeVars
<1>0. sess \in [Sessions -> Session] /\ nodes \in [Names -> Sessions \cup {None}]
  BY DEF WellFormed
<1>1. ASSUME NEW s \in Sessions, NEW n \in Names, DialId(s, n) PROVE NamesInv'
  <2>1. sess'[s].pc = "id" /\ sess'[s].name = n
    BY <1>0, <1>1 DEF DialId, Session
  <2>2. \A r \in Sessions \ {s} : sess'[r] = sess[r]
    BY <1>0, <1>1 DEF DialId
  <2>3. \A r \in Sessions : Named(r) => sess[r].name # n
    BY <1>1 DEF DialId, Named
  <2>4. \A r \in Sessions : Named(r)' => r = s \/ (Named(r) /\ sess'[r].name = sess[r].name)
    BY <2>2 DEF Named
  <2>5. NamesReachable'
    BY ZenonT(60), <1>1, <2>1, <2>2 DEF NamesInv, NamesReachable, DialId
  <2>6. \A r \in Sessions : Named(r)' => sess'[r].name \in Names
    BY <2>1, <2>4 DEF NamesInv
  <2>7. \A q, r \in Sessions :
          (Named(q)' /\ Named(r)' /\ sess'[q].name = sess'[r].name) => q = r
    BY <2>1, <2>3, <2>4 DEF NamesInv
  <2>8. alive' \subseteq Sessions
    BY <1>1 DEF NamesInv, DialId
  <2> QED
    BY <2>5, <2>6, <2>7, <2>8 DEF NamesInv
<1>2. ASSUME NEW s \in Sessions, DialRegister(s) PROVE NamesInv'
  <2>1. Named(s) /\ sess[s].name \in Names
    BY <1>2 DEF DialRegister, Named, NamesInv
  <2>2. \A r \in Sessions : (Named(r)' <=> Named(r)) /\ sess'[r].name = sess[r].name
    BY <1>0, <1>2 DEF DialRegister, Named, Session
  <2>3. \A r \in Sessions \ {s} : sess'[r] = sess[r]
    BY <1>0, <1>2 DEF DialRegister
  <2>4. \A r \in Sessions \ {s} : sess[r].pc = "up" => sess[r].name # sess[s].name
    BY <2>1 DEF NamesInv, Named
  <2>5. ASSUME NEW r \in alive, sess'[r].pc = "up" PROVE nodes'[sess'[r].name] = r
    <3>1. r \in Sessions
      BY DEF NamesInv
    <3>2. CASE r = s
      BY <1>0, <1>2, <2>1, <2>2, <3>2 DEF DialRegister
    <3>3. CASE r # s
      BY <1>0, <1>2, <2>3, <2>4, <2>5, <3>1, <3>3 DEF DialRegister, NamesInv, NamesReachable, Named
    <3> QED
      BY <3>2, <3>3
  <2>6. NamesReachable'
    BY <1>2, <2>5 DEF NamesReachable, DialRegister
  <2> QED
    BY <1>2, <2>2, <2>6 DEF NamesInv, DialRegister
<1>3. ASSUME NEW s \in Sessions, DeleteName(s) PROVE NamesInv'
  <2>1. \A r \in Sessions : (Named(r)' <=> Named(r)) /\ sess'[r].name = sess[r].name
    BY <1>0, <1>3 DEF DeleteName, Named, Session
  <2>2. \A r \in Sessions : sess'[r].pc = "up" => r # s /\ sess[r].pc = "up"
    BY <1>0, <1>3 DEF DeleteName, Session
  <2>3. \A r \in Sessions \ {s} : sess[r].pc = "up" => sess[r].name # sess[s].name
    BY <1>3 DEF DeleteName, NamesInv, Named
  <2>4. \A r \in Sessions \ {s} : sess[r].pc = "up" => nodes'[sess[r].name] = nodes[sess[r].name]
    BY SMTT(60), <1>0, <1>3, <2>3 DEF DeleteName, NamesInv, Named
  <2>5. NamesReachable'
    <3>1. \A r \in alive : r \in Sessions /\ (sess[r].pc = "up" => nodes[sess[r].name] = r)
      BY DEF NamesInv, NamesReachable
    <3>2. alive' = alive
      BY SMTT(60), <1>3 DEF DeleteName
    <3> QED
      BY SMTT(60), <2>1, <2>2, <2>4, <3>1, <3>2 DEF NamesReachable
  <2> QED
    BY <1>3, <2>1, <2>5 DEF NamesInv, DeleteName
<1>4. ASSUME NEW s \in Sessions, DialFail(s) \/ CleanupStart(s) \/ CleanupScan(s)
      PROVE  NamesInv'
  <2>1. \A r \in Sessions : /\ Named(r)' => Named(r)
                            /\ sess'[r].name = sess[r].name
                            /\ sess'[r].pc = "up" => sess[r].pc = "up"
    BY SMTT(60), <1>0, <1>4 DEF DialFail, CleanupStart, CleanupScan, Named, Session
  <2> QED
    BY SMTT(60), <1>4, <2>1, NamesKept DEF DialFail, CleanupStart, CleanupScan
<1>5. ASSUME NEW s \in Sessions, CleanupFree(s) \/ FreeId(s) \/ closeEventfd(s)
      PROVE  NamesInv'
  <2>1. \A r \in Sessions : /\ Named(r)' => Named(r)
                            /\ sess'[r].name = sess[r].name
                            /\ sess'[r].pc = "up" => sess[r].pc = "up"
    BY <1>0, <1>5 DEF CleanupFree, FreeId, closeEventfd, Named, Session
  <2> QED
    BY SMTT(60), <1>5, <2>1, NamesKept DEF CleanupFree, FreeId, closeEventfd
<1>6. CASE UNCHANGED hubVars /\ alive' \subseteq alive
  BY ZenonT(60), <1>6, NamesKept DEF Named
<1>7. ASSUME NEW s \in Sessions, Die(s) \/ NodePop(s)
      PROVE  UNCHANGED hubVars /\ alive' \subseteq alive
  BY <1>7 DEF Die, NodePop
<1>8. ASSUME NEW c \in Conns, NEW n \in Names, NextLookup(c, n)
      PROVE  UNCHANGED hubVars /\ alive' \subseteq alive
  BY ZenonT(60), <1>8 DEF NextLookup
<1>9. ASSUME NEW c \in Conns, Request(c) \/ Calling(c) \/ Close(c)
      PROVE  UNCHANGED hubVars /\ alive' \subseteq alive
  BY ZenonT(60), <1>9 DEF Request, Close, Calling, AllocSlot, AllocSlotSet, NextSetStripe, NextPush,
              NextNotify, NextReturn
<1>10. ASSUME NEW t \in tasks, TaskStatus(t) \/ TaskAnswer(t)
       PROVE  UNCHANGED hubVars /\ alive' \subseteq alive
  BY <1>10 DEF TaskStatus, TaskAnswer
<1>11. Dispatch \/ UNCHANGED vars => UNCHANGED hubVars /\ alive' \subseteq alive
  BY DEF Dispatch, vars
<1> HIDE DEF hubVars
<1> QED
  BY SMTT(60), <1>1, <1>2, <1>3, <1>4, <1>5, <1>6, <1>7, <1>8, <1>9, <1>10, <1>11 DEF Next, Watchdog

(* As long as no name is dialled that a session still has, a node that was *)
(* dialled and is alive is found by its name: the watchdog of an earlier   *)
(* session never deletes the entry of a later one (Dial, watchdog).        *)
THEOREM LifecycleNamesReachable == "redial" \notin Windows /\ Spec => []NamesReachable
<1> SUFFICES ASSUME "redial" \notin Windows PROVE Spec => []NamesReachable
  OBVIOUS
<1>1. Init => NamesInv
  BY DEF Init, NamesInv, NamesReachable, Named
<1>2. WellFormed /\ NamesInv /\ [Next]_vars => NamesInv'
  BY StepNamesInv
<1>3. NamesInv => NamesReachable
  BY DEF NamesInv
<1> QED
  BY <1>1, <1>2, <1>3, InitWellFormed, StepWellFormed, PTL DEF Spec
=============================================================================
