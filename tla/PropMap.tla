------------------------------ MODULE PropMap ------------------------------
(***************************************************************************)
(* prop_map.c, as functions of a map: buckets of items, found by the hash  *)
(* of their keys, the number of items, and bk_gr_pref, which counts the    *)
(* buckets that have reached the preferred depth and is not counted down   *)
(* when one loses an item.  pm_hash is any function.                       *)
(*                                                                         *)
(* pm_new clears PM_MAX_BUCKET_DEPTH buckets, however many it makes, so    *)
(* that a map is usable only with that many; every caller asks for 8 and   *)
(* the depth is 8.  A growth has twice as many, half of them with anything *)
(* in them, and ends with free(pm), which is the address of the object     *)
(* that has the map, or that of a variable: nothing is known after one.    *)
(***************************************************************************)
EXTENDS Naturals, Sequences, FiniteSets, FiniteSetsExt,
        SequencesExt

CONSTANTS
    Key,            \* the names of properties
    Hash,           \* pm_hash
    MaxDepth,       \* PM_MAX_BUCKET_DEPTH
    PrefDepth,      \* PM_PREF_BUCKET_DEPTH
    NONE            \* what pm_get has when there is no such key

ASSUME PropMapAssumption ==
    /\ Hash \in [Key -> Nat]
    /\ MaxDepth \in Nat \ {0}
    /\ PrefDepth \in 1 .. MaxDepth

Buckets == 0 .. MaxDepth - 1

pm_new == [buckets |-> [b \in Buckets |-> <<>>], bk_gr_pref |-> 0,
           item_count |-> 0]

Index(k) == Hash[k] % MaxDepth
Bucket(pm, k) == pm.buckets[Index(k)]
Position(pm, k) == SelectInSeq(Bucket(pm, k), LAMBDA item : item.key = k)

pm_is_key(pm, k) == Position(pm, k) # 0
pm_get(pm, k) ==
    IF pm.item_count # 0 /\ pm_is_key(pm, k)
    THEN Bucket(pm, k)[Position(pm, k)].val ELSE NONE

Deep(buckets) == {b \in Buckets : Len(buckets[b]) >= PrefDepth}

(* pm_raw_add, and the end of pm_set.                                      *)
Added(pm, k, v) ==
    [buckets |-> [pm.buckets EXCEPT
                     ![Index(k)] = Append(@, [key |-> k, val |-> v])],
     bk_gr_pref |-> IF Len(Bucket(pm, k)) + 1 = PrefDepth
                    THEN pm.bk_gr_pref + 1 ELSE pm.bk_gr_pref,
     item_count |-> pm.item_count + 1]

Replaced(pm, k, v) ==
    [pm EXCEPT !.buckets[Index(k)][Position(pm, k)].val = v]

(* A wrong Removed: the item stays in its bucket.                          *)
RemovedNot(pm, k) == [pm EXCEPT !.item_count = @ - 1]

Removed(pm, k) ==
    [pm EXCEPT !.buckets[Index(k)] = RemoveAt(@, Position(pm, k)),
               !.item_count = @ - 1]

(* pm_set: the map has to grow for another key.                            *)
Crowded(pm, k) ==
    \/ Len(Bucket(pm, k)) = MaxDepth
    \/ pm.bk_gr_pref > MaxDepth \div 2

(* A wrong pm_copy: the full buckets of the copy are not counted.          *)
pm_copyFlat(pm) == [pm EXCEPT !.bk_gr_pref = 0]

(* pm_copy adds the items in their order, so that every bucket is the same *)
(* and only bk_gr_pref may differ.                                         *)
pm_copy(pm) == [pm EXCEPT !.bk_gr_pref = Cardinality(Deep(pm.buckets))]

(* The values, in the order in which pm_free and ctno_copy come to them.   *)
InBucket(bucket) == [i \in DOMAIN bucket |-> bucket[i].val]
Values(pm) ==
    FlattenSeq([b \in 1 .. MaxDepth |-> InBucket(pm.buckets[b - 1])])

-----------------------------------------------------------------------------
(* Every key has one item at most, in the bucket of its hash, the counters *)
(* agree with the buckets, and none is too deep.                           *)
WellFormed(pm) ==
    /\ \A b \in Buckets : Len(pm.buckets[b]) <= MaxDepth
    /\ \A b \in Buckets : \A i \in DOMAIN pm.buckets[b] :
          LET k == pm.buckets[b][i].key
          IN  Index(k) = b /\ Position(pm, k) = i
    /\ pm.item_count = Len(Values(pm))
    /\ pm.bk_gr_pref >= Cardinality(Deep(pm.buckets))

=============================================================================
