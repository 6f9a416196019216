---------------------------- MODULE MCScopeStack ----------------------------
(* The blocks of ScopeStack differ in nothing but their names.              *)
EXTENDS ScopeStack

CONSTANTS b1, b2

Renamed == Permutations({b1, b2})

(* Bound: a restore to a void save point is followed to its end, and no     *)
(* further: nothing is claimed about the scopes after it.                   *)
NotBeyondWreck == base = Wrecked => mode # "run"

=============================================================================
