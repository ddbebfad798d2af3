----------------------------- MODULE FifoQueue -----------------------------
(***************************************************************************)
(* What a command queue in the control stripe promises its users: a        *)
(* bounded first-in first-out queue.  A successful Push appends one        *)
(* command, a successful Pop removes and returns the oldest one, and each  *)
(* is a single indivisible step.  MpscQueue is shown to implement this     *)
(* module; the modules that compose hub and nodes use queues of this kind. *)
(***************************************************************************)
EXTENDS Naturals, Sequences

CONSTANTS Values,     \* the commands: a slot identifier with a command code
          Capacity    \* how many commands may be outstanding

VARIABLES q,          \* the commands pushed and not yet popped, oldest first
          delivered   \* every command popped so far, in the order of the pops

vars == <<q, delivered>>

Init == q = <<>> /\ delivered = <<>>

Enqueue(v) ==
    /\ Len(q) < Capacity
    /\ q' = Append(q, v)
    /\ UNCHANGED delivered

Dequeue ==
    /\ q # <<>>
    /\ q' = Tail(q)
    /\ delivered' = Append(delivered, Head(q))

Next == Dequeue \/ \E v \in Values : Enqueue(v)

Spec == Init /\ [][Next]_vars
=============================================================================
