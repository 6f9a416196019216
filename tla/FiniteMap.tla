----------------------------- MODULE FiniteMap -----------------------------
(***************************************************************************)
(* What method_map.h promises: a function from names to runnables, that    *)
(* many owners can share and that goes away with the last of them.  It     *)
(* holds Depth names at least; what happens with more depends on luck.     *)
(***************************************************************************)
EXTENDS Naturals, FiniteSets

CONSTANTS
    Key,        \* names
    Val,        \* runnables
    NONE,       \* what the map has for a name that is not in it
    Depth       \* how many names fit, whatever they are

VARIABLES
    map,        \* the value of every name
    known       \* whether anything is known of the map: not after an overrun

vars == <<map, known>>

Defined == {k \in Key : map[k] # NONE}

Init == map = [k \in Key |-> NONE] /\ known = TRUE

Set(k, v) ==
    /\ known
    /\ map' = [map EXCEPT ![k] = v]
    /\ UNCHANGED known

Remove(k) ==
    /\ known
    /\ k \in Defined
    /\ map' = [map EXCEPT ![k] = NONE]
    /\ UNCHANGED known

Overrun ==
    /\ known
    /\ Cardinality(Defined) >= Depth
    /\ known' = FALSE
    /\ map' = [k \in Key |-> NONE]

Free ==
    /\ known
    /\ map' = [k \in Key |-> NONE]
    /\ UNCHANGED known

Next ==
    \/ \E k \in Key, v \in Val : Set(k, v)
    \/ \E k \in Key : Remove(k)
    \/ Overrun \/ Free

Spec == Init /\ [][Next]_vars

=============================================================================
