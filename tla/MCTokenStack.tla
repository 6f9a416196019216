---------------------------- MODULE MCTokenStack ----------------------------
(* Bounds for TokenStack. *)
EXTENDS TokenStack

CONSTANTS a, b

Programs == {<<>>, <<a>>, <<a, b>>}

=============================================================================
