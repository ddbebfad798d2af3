----------------------------- MODULE MCHandoff -----------------------------
(* Small instances of Handoff. *)
EXTENDS Handoff, TLC

(* Blocks, channels, slots and connections are interchangeable; nodes are  *)
(* not, since some run the Go library and some the Rust one.               *)
Symmetry == Permutations(Blocks) \cup Permutations(Chans) \cup Permutations(Slots)
              \cup Permutations(Conns)
=============================================================================
