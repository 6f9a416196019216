------------------------------ MODULE Objects ------------------------------
(***************************************************************************)
(* object.c on top of PropMap: objects with properties, the claims that    *)
(* keep them alive, and property maps that belong to no object, as         *)
(* tests/prop_map.c uses them.                                             *)
(*                                                                         *)
(* ctno_free calls itself through pm_free for every property of an object  *)
(* that goes away.  Here it has a stack, todo, of the calls that are still *)
(* to be made, the next one first; every FreeStep is one call, and nothing *)
(* else happens in between.  A caller may use any object that it can reach *)
(* from one that it holds or from a map, as ctno_get_prop hands out what   *)
(* it finds without a claim.                                               *)
(*                                                                         *)
(* ctno_dynamic does not claim the values of the map that it copies.  All  *)
(* its callers give it an empty one, so that NewDynamic has none.  Calls   *)
(* that fail and change nothing are stuttering steps.                      *)
(***************************************************************************)
EXTENDS PropMap

CONSTANTS
    Obj,            \* addresses of objects
    Map,            \* property maps that belong to no object
    LiteralKind,    \* types of literals
    SizeMax,        \* SIZE_MAX
    MaxHeld,        \* bound: claims of callers on one object
    MaxItems        \* bound: properties of all maps together

ASSUME ObjectAssumption ==
    /\ SizeMax \in Nat \ {0}
    /\ "integral" \in LiteralKind /\ {"none", "dynamic"} \cap LiteralKind = {}
    /\ IsFiniteSet(Obj) /\ IsFiniteSet(Map)
    /\ Obj \cap Map = {}
    /\ NONE \notin Obj
    /\ MaxHeld \in Nat \ {0}

VARIABLES
    kind,       \* "none", "dynamic", or the type of a literal
    refcount,
    pm,         \* the property map of an object, and the others
    todo,       \* calls of ctno_free that are to be made
    held,       \* history: claims of callers
    lost,       \* history: claims that failed calls have forgotten
    wrecked     \* history: the owners of maps that grew

counting == <<refcount, held, lost>>
vars == <<kind, pm, todo, counting, wrecked>>

Owner == Obj \cup Map
Existing == {o \in Obj : kind[o] # "none"}

ValuesOf(x) ==
    UNION {{pm[x].buckets[b][i].val : i \in DOMAIN pm[x].buckets[b]} :
              b \in Buckets}

(* What can be reached from the objects in S.                              *)
ClosedSets ==
    LET values == [o \in Obj |-> ValuesOf(o)]
    IN  {T \in SUBSET Obj : \A o \in T : values[o] \subseteq T}
Reach(S) ==
    LET sets == {T \in ClosedSets : S \subseteq T}
    IN  {o \in Obj : \A T \in sets : o \in T}

Roots == {o \in Obj : held[o] > 0} \cup UNION {ValuesOf(m) : m \in Map}
Usable == Reach(Roots)

(* How many properties there are in some maps.                             *)
ItemsOf(S) == MapThenSumSet(LAMBDA x : pm[x].item_count, S)

Idle == todo = <<>> /\ wrecked = {}

Init ==
    /\ kind = [o \in Obj |-> "none"]
    /\ refcount = [o \in Obj |-> 0]
    /\ pm = [x \in Owner |-> pm_new]
    /\ todo = <<>>
    /\ held = [o \in Obj |-> 0]
    /\ lost = [o \in Obj |-> 0]
    /\ wrecked = {}

-----------------------------------------------------------------------------
(* malloc, and ctno_literal or ctno_dynamic.                               *)
New(o, t) ==
    /\ Idle
    /\ kind[o] = "none"
    /\ kind' = [kind EXCEPT ![o] = t]
    /\ refcount' = [refcount EXCEPT ![o] = 1]
    /\ held' = [held EXCEPT ![o] = 1]
    /\ pm' = [pm EXCEPT ![o] = pm_new]
    /\ UNCHANGED <<todo, lost, wrecked>>
NewLiteral(o) == \E t \in LiteralKind : New(o, t)
NewDynamic(o) == New(o, "dynamic")

ctno_claim(o) ==
    /\ Idle
    /\ held[o] < MaxHeld
    /\ refcount[o] # SizeMax
    /\ refcount' = [refcount EXCEPT ![o] = @ + 1]
    /\ held' = [held EXCEPT ![o] = @ + 1]
    /\ UNCHANGED <<kind, pm, todo, lost, wrecked>>

(* A caller frees an object.                                               *)
Release(o) ==
    /\ Idle
    /\ held[o] > 0
    /\ held' = [held EXCEPT ![o] = @ - 1]
    /\ todo' = <<o>>
    /\ UNCHANGED <<kind, pm, refcount, lost, wrecked>>

(* A wrong FreeStep: the properties of the object are forgotten.           *)
FreeStepShallow ==
    /\ todo # <<>>
    /\ LET o == Head(todo)
       IN  /\ refcount' = [refcount EXCEPT ![o] = @ - 1]
           /\ IF refcount[o] = 1
              THEN /\ kind' = [kind EXCEPT ![o] = "none"]
                   /\ pm' = [pm EXCEPT ![o] = pm_new]
              ELSE UNCHANGED <<kind, pm>>
    /\ todo' = Tail(todo)
    /\ UNCHANGED <<held, lost, wrecked>>

(* One call of ctno_free.                                                  *)
FreeStep ==
    /\ todo # <<>>
    /\ LET o == Head(todo)
       IN  /\ refcount' = [refcount EXCEPT ![o] = @ - 1]
           /\ IF refcount[o] = 1
              THEN /\ kind' = [kind EXCEPT ![o] = "none"]
                   /\ pm' = [pm EXCEPT ![o] = pm_new]
                   /\ todo' = Values(pm[o]) \o Tail(todo)
              ELSE /\ todo' = Tail(todo)
                   /\ UNCHANGED <<kind, pm>>
    /\ UNCHANGED <<held, lost, wrecked>>

-----------------------------------------------------------------------------
(* pm_set, on the map of x.  It claims the new value before it frees the   *)
(* old one, and the two may be the same.                                   *)
SetOld(x, k, v) ==
    /\ pm_is_key(pm[x], k)
    /\ refcount[v] # SizeMax
    /\ refcount' = [refcount EXCEPT ![v] = @ + 1]
    /\ todo' = <<pm_get(pm[x], k)>>
    /\ pm' = [pm EXCEPT ![x] = Replaced(@, k, v)]
    /\ UNCHANGED <<kind, held, lost, wrecked>>

SetNew(x, k, v) ==
    /\ ~pm_is_key(pm[x], k)
    /\ ~Crowded(pm[x], k)
    /\ ItemsOf(Owner) < MaxItems
    /\ refcount[v] # SizeMax
    /\ refcount' = [refcount EXCEPT ![v] = @ + 1]
    /\ pm' = [pm EXCEPT ![x] = Added(@, k, v)]
    /\ UNCHANGED <<kind, todo, held, lost, wrecked>>

(* pm_rehash.  When there is no memory, or a bucket of the new map is full *)
(* before everything is in it, nothing changes.                            *)
SetGrown(x, k) ==
    /\ ~pm_is_key(pm[x], k)
    /\ Crowded(pm[x], k)
    /\ wrecked' = {x}
    /\ UNCHANGED <<kind, pm, todo, counting>>

pm_set(x, k, v) == SetOld(x, k, v) \/ SetNew(x, k, v) \/ SetGrown(x, k)

(* A wrong check_for_cycles: it looks at the object only.                  *)
CyclesNear(to, adding) == to = adding

check_for_cycles(to, adding) == to \in Reach({adding})

ctno_set_prop(to, k, adding) ==
    /\ Idle
    /\ kind[to] = "dynamic"
    /\ ~check_for_cycles(to, adding)
    /\ pm_set(to, k, adding)

SetInMap(m, k, v) ==
    /\ Idle
    /\ pm_set(m, k, v)

pm_remove(m, k) ==
    /\ Idle
    /\ pm_get(pm[m], k) # NONE
    /\ pm' = [pm EXCEPT ![m] = Removed(@, k)]
    /\ todo' = <<pm_get(pm[m], k)>>
    /\ UNCHANGED <<kind, counting, wrecked>>

(* pm_free, and another pm_new.                                            *)
pm_free(m) ==
    /\ Idle
    /\ Values(pm[m]) # <<>>
    /\ pm' = [pm EXCEPT ![m] = pm_new]
    /\ todo' = Values(pm[m])
    /\ UNCHANGED <<kind, counting, wrecked>>

-----------------------------------------------------------------------------
(* ctno_copy.  The type of a literal is not copied and is zero, integral.  *)
Occurs(o, vs) == Cardinality({i \in DOMAIN vs : vs[i] = o})

(* A wrong Claimed: the values of a copy are not claimed.                  *)
ClaimedNone(vs) == refcount
Claimed(vs) == [o \in Obj |-> refcount[o] + Occurs(o, vs)]
CanClaim(vs) == \A o \in Obj : Claimed(vs)[o] <= SizeMax

CopyDynamic(o, c) ==
    /\ Idle
    /\ kind[o] = "dynamic" /\ kind[c] = "none"
    /\ CanClaim(Values(pm[o]))
    /\ ItemsOf(Owner) + ItemsOf({o}) <= MaxItems
    /\ pm' = [pm EXCEPT ![c] = pm_copy(pm[o])]
    /\ refcount' = [Claimed(Values(pm[o])) EXCEPT ![c] = 1]
    /\ kind' = [kind EXCEPT ![c] = "dynamic"]
    /\ held' = [held EXCEPT ![c] = 1]
    /\ UNCHANGED <<todo, lost, wrecked>>

CopyLiteral(o, c) ==
    /\ Idle
    /\ kind[o] \in LiteralKind
    /\ New(c, "integral")

(* The n-th value cannot be claimed: the claims before it are forgotten.   *)
CopyFails(o) ==
    /\ Idle
    /\ kind[o] = "dynamic"
    /\ ~CanClaim(Values(pm[o]))
    /\ LET vs == Values(pm[o])
           n == CHOOSE i \in DOMAIN vs :
                   /\ ~CanClaim(SubSeq(vs, 1, i))
                   /\ CanClaim(SubSeq(vs, 1, i - 1))
           some == SubSeq(vs, 1, n - 1)
       IN  /\ refcount' = Claimed(some)
           /\ lost' = [p \in Obj |-> lost[p] + Occurs(p, some)]
    /\ UNCHANGED <<kind, pm, todo, held, wrecked>>

Next ==
    \/ \E o \in Obj : NewLiteral(o) \/ NewDynamic(o) \/ Release(o)
    \/ \E o \in Usable : ctno_claim(o) \/ CopyFails(o)
    \/ \E o \in Usable, c \in Obj : CopyDynamic(o, c) \/ CopyLiteral(o, c)
    \/ \E to, adding \in Usable, k \in Key : ctno_set_prop(to, k, adding)
    \/ \E m \in Map, k \in Key, v \in Usable : SetInMap(m, k, v)
    \/ \E m \in Map, k \in Key : pm_remove(m, k)
    \/ \E m \in Map : pm_free(m)
    \/ FreeStep

Spec == Init /\ [][Next]_vars

-----------------------------------------------------------------------------
PropMaps == [buckets    : [Buckets -> Seq([key : Key, val : Obj])],
             bk_gr_pref : Nat,
             item_count : Nat]

TypeOK ==
    /\ kind \in [Obj -> {"none", "dynamic"} \cup LiteralKind]
    /\ refcount \in [Obj -> 0 .. SizeMax]
    /\ todo \in Seq(Obj)
    /\ held \in [Obj -> 0 .. MaxHeld]
    /\ lost \in [Obj -> 0 .. SizeMax]
    /\ wrecked \subseteq Owner
    /\ pm \in [Owner -> PropMaps]
    /\ \A x \in Owner : WellFormed(pm[x])
    /\ \A o \in Obj : kind[o] # "dynamic" => pm[o] = pm_new

(* The places that have the object o.                                      *)
References(o) ==
    {r \in Owner \X Buckets \X (1 .. MaxDepth) :
        /\ r[3] \in DOMAIN pm[r[1]].buckets[r[2]]
        /\ pm[r[1]].buckets[r[2]][r[3]].val = o}

(* Maps are as pm_get expects them, and a count is the number of the       *)
(* claims there are: of callers, of properties, of the calls of ctno_free  *)
(* that are still to come, and those that ctno_copy forgets when it fails. *)
(* An object is freed when its count is zero.  No property of an object is *)
(* ever removed, so that its deep buckets are counted exactly.             *)
IInv ==
    /\ TypeOK
    /\ \A o \in Obj :
          /\ refcount[o] = held[o] + lost[o] + Cardinality(References(o))
                               + Occurs(o, todo)
          /\ refcount[o] = 0 <=> kind[o] = "none"
          /\ pm[o].bk_gr_pref = Cardinality(Deep(pm[o].buckets))

(* Nothing that a caller, a map or an object has was freed, at any moment  *)
(* of a free that goes through many objects (ctno_free, pm_set 97-101).    *)
NothingDangles ==
    /\ \A o \in Obj : held[o] > 0 => o \in Existing
    /\ \A x \in Owner : ValuesOf(x) \subseteq Existing

(* No object is a property of itself, however far down (check_for_cycles   *)
(* 104-116).                                                               *)
Acyclic == \A o \in Obj : o \notin Reach(ValuesOf(o))

(* After every free there is only what can be reached, or what a copy that *)
(* failed has forgotten (ctno_free, pm_free).                              *)
OnlyReachable ==
    todo = <<>> => Existing = Reach(Roots \cup {o \in Obj : lost[o] > 0})

(* The properties an object can have for certain before its map grows.     *)
SafeCount ==
    LET preferred == (MaxDepth \div 2 + 1) * PrefDepth
    IN  IF preferred < MaxDepth THEN preferred ELSE MaxDepth

Graph ==
    INSTANCE PropertyGraph WITH
        Depth <- SafeCount,
        property <- [x \in Owner |-> [k \in Key |-> pm_get(pm[x], k)]],
        exists <- Existing,
        kept <- {o \in Obj : lost[o] > 0},
        broken <- wrecked

(* Counts and buckets are as good as reachability: what object.h and       *)
(* prop_map.h promise.                                                     *)
Implements == Graph!Spec

=============================================================================
