----------------------------- MODULE MCStripeIO -----------------------------
(* StripeIO for TLC: a payload inside a block and one over block borders. *)
EXTENDS StripeIO

MCPayloads == {<<1>>, <<2, 1, 2>>}
=============================================================================
