----------------------------- MODULE MCObjects -----------------------------
(* Three names, two of which share a bucket.                               *)
EXTENDS Objects, TLC

HashOf == [a |-> 0, b |-> 2, c |-> 1]

Permuted == Permutations(Obj)

=============================================================================
