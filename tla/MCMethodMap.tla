---------------------------- MODULE MCMethodMap ----------------------------
(* Hashes for MethodMap: three names that share buckets of widths 2 and 4, *)
(* two of them one of width 8, and a name apart.                           *)
EXTENDS MethodMap

CONSTANTS k1, k2, k3, k4

Hashes == (k1 :> 0) @@ (k2 :> 4) @@ (k3 :> 8) @@ (k4 :> 1)

=============================================================================
