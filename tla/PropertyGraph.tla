--------------------------- MODULE PropertyGraph ---------------------------
(***************************************************************************)
(* What object.h and prop_map.h promise together, without counters and     *)
(* without buckets: an object has properties, which are objects, a map     *)
(* that belongs to no object has some too, and an object exists for as     *)
(* long as it can be reached from a caller or from such a map.             *)
(***************************************************************************)
EXTENDS Naturals, FiniteSets

CONSTANTS
    Obj,        \* addresses of objects; one may be used again
    Map,        \* property maps that belong to no object
    Key,        \* names of properties
    NONE,       \* the property of a name that is not set
    Depth       \* properties an object can have, whatever their names

VARIABLES
    property,   \* property[x][k], for objects and for maps
    exists,     \* the objects that exist
    held,       \* held[o]: claims of callers
    kept,       \* objects that a failed call has claimed for ever
    broken      \* objects and maps of which nothing is known any more

vars == <<property, exists, held, kept, broken>>

Nothing == [k \in Key |-> NONE]
Children(x) == {property[x][k] : k \in Key} \ {NONE}

(* What can be reached from the objects in S: the least set that has them  *)
(* and the properties of everything in it.                                 *)
Reach(S) ==
    LET children == [o \in Obj |-> Children(o)]
        sets == {T \in SUBSET Obj :
                    S \subseteq T /\ \A o \in T : children[o] \subseteq T}
    IN  {o \in Obj : \A T \in sets : o \in T}

Roots == {o \in Obj : held[o] > 0} \cup kept \cup UNION {Children(m) : m \in Map}
Wanted == Reach(Roots)

Init ==
    /\ property = [x \in Obj \cup Map |-> Nothing]
    /\ exists = {}
    /\ held = [o \in Obj |-> 0]
    /\ kept = {}
    /\ broken = {}

Make(o) ==
    /\ o \notin exists
    /\ exists' = exists \cup {o}
    /\ held' = [held EXCEPT ![o] = 1]
    /\ UNCHANGED <<kept, broken, property>>

Copy(o, c) ==
    /\ c \notin exists
    /\ exists' = exists \cup {c}
    /\ held' = [held EXCEPT ![c] = 1]
    /\ UNCHANGED <<kept, broken>>
    /\ o \in Wanted
    /\ property' = [property EXCEPT ![c] = property[o]]

CopyFails(o) ==
    /\ UNCHANGED <<exists, held, broken, property>>
    /\ kept' \in {kept \cup S : S \in SUBSET Children(o)}

(* A property never leads back to its object.                              *)
Set(x, k, v) ==
    /\ UNCHANGED <<exists, held, kept, broken>>
    /\ property'[x] = [property[x] EXCEPT ![k] = v]
    /\ \A y \in (Obj \cup Map) \ {x} : property'[y] = property[y]
    /\ v \in Wanted
    /\ x \in Obj => x \in Wanted \ Reach({v})

Overfill(x) ==
    /\ broken' = broken \cup {x}
    /\ x \in Obj => Cardinality({k \in Key : property[x][k] # NONE}) >= Depth
    /\ UNCHANGED <<exists, held, kept, property>>

Remove(m, k) ==
    /\ UNCHANGED <<exists, held, kept, broken>>
    /\ property' = [property EXCEPT ![m][k] = NONE]

Clear(m) ==
    /\ UNCHANGED <<exists, held, kept, broken>>
    /\ property' = [property EXCEPT ![m] = Nothing]

Claim(o) ==
    /\ held' = [held EXCEPT ![o] = @ + 1]
    /\ o \in Wanted
    /\ UNCHANGED <<exists, kept, broken, property>>

Release(o) ==
    /\ held[o] > 0
    /\ held' = [held EXCEPT ![o] = @ - 1]
    /\ UNCHANGED <<exists, kept, broken, property>>

(* Only what nobody can reach goes away, and its properties with it.       *)
Reap(o) ==
    /\ o \in exists
    /\ exists' = exists \ {o}
    /\ UNCHANGED <<held, kept, broken>>
    /\ o \notin Wanted
    /\ property' = [property EXCEPT ![o] = Nothing]

Next ==
    \/ \E o \in Obj : Make(o) \/ CopyFails(o) \/ Claim(o) \/ Release(o)
                      \/ Reap(o)
    \/ \E o, c \in Obj : Copy(o, c)
    \/ \E x \in Obj \cup Map :
          Overfill(x) \/ \E k \in Key, v \in Obj : Set(x, k, v)
    \/ \E m \in Map : Clear(m) \/ \E k \in Key : Remove(m, k)

Spec == Init /\ [][Next]_vars

=============================================================================
