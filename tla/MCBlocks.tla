------------------------------ MODULE MCBlocks ------------------------------
(* Bounds for Blocks. *)
EXTENDS Blocks

CONSTANTS c1, c2, y1, y2

Renamed == Permutations({c1, c2}) \cup Permutations({y1, y2})

=============================================================================
