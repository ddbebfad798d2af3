-------------------------- MODULE StripeOwnership --------------------------
(***************************************************************************)
(* What the handoff protocol promises: the stripe of a connection is in    *)
(* the hands of one party at a time, the hub's user or the one node that   *)
(* the user gave it to, and only the user opens and closes it.             *)
(***************************************************************************)
CONSTANTS Conns, Nodes, User

VARIABLE holders   \* the parties that may touch the stripe of a connection

Init == holders = [c \in Conns |-> {}]

Open(c) == holders[c] = {} /\ holders' = [holders EXCEPT ![c] = {User}]

Give(c, n) == holders[c] = {User} /\ holders' = [holders EXCEPT ![c] = {n}]

GiveBack(c, n) == holders[c] = {n} /\ holders' = [holders EXCEPT ![c] = {User}]

Close(c) == holders[c] = {User} /\ holders' = [holders EXCEPT ![c] = {}]

Next == \E c \in Conns : \/ Open(c) \/ Close(c)
                         \/ \E n \in Nodes : Give(c, n) \/ GiveBack(c, n)

Spec == Init /\ [][Next]_holders
=============================================================================
