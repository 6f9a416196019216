---------------------------- MODULE MCDataStack ----------------------------
(* Bounds for DataStack, and a reading of the chains from the pointers.     *)
EXTENDS DataStack

(* The nodes met by following at most k next pointers from n. *)
RECURSIVE Walk(_, _)
Walk(n, k) ==
    IF n = NULL \/ k = 0 THEN <<>>
    ELSE <<n>> \o Walk(next[n], k - 1)

(* The history variable path is what a walk along the pointers finds, and *)
(* so is finite: no sequence of operations ties a chain into a cycle.      *)
PathIsWalk ==
    \A n \in Live : path[n] = Walk(n, Cardinality(Node) + 1)

=============================================================================
