----------------------------- MODULE MethodMap -----------------------------
(***************************************************************************)
(* method_map.c: a hash table of runnables with buckets of a fixed depth.  *)
(*                                                                         *)
(* A name is looked for in one bucket, the one of its hash.  When that is  *)
(* full, or when too many buckets have reached their preferred depth, the  *)
(* table is built anew with twice the buckets, the old one is freed, and   *)
(* the name is added without another look at the depth of its bucket.      *)
(*                                                                         *)
(* mm_hash is any function here.  A runnable is a C function, or a block   *)
(* with memory of its own, which the map that has it frees (rn_free).  The *)
(* map can have many owners, who claim it (mm_claim) and free it (mm_free).*)
(* A call that fails and changes nothing is a stuttering step.             *)
(***************************************************************************)
EXTENDS Naturals, Sequences, FiniteSets, SequencesExt

CONSTANTS
    Key,            \* names
    Hash,           \* mm_hash
    CFun,           \* runnables that are C functions
    Block,          \* runnables that own memory
    NONE,           \* the value of a name that is not in the map
    InitWidth,      \* width of mm_new
    MaxDepth,       \* MM_MAX_BUCKET_DEPTH
    PrefDepth,      \* MM_PREF_BUCKET_DEPTH
    MaxWidth,       \* bound: buckets
    MaxClaims,      \* bound: owners of the map
    MaxPref,        \* bound: bk_gr_pref
    MallocMayFail   \* whether malloc is allowed to return NULL

Val == CFun \cup Block

ASSUME HashAssumption == Hash \in [Key -> Nat]
ASSUME WidthAssumption == InitWidth \in Nat \ {0} /\ MaxWidth \in Nat
ASSUME DepthAssumption == MaxDepth \in Nat /\ PrefDepth \in 1 .. MaxDepth
ASSUME ValAssumption == NONE \notin Val /\ CFun \cap Block = {}

VARIABLES
    width,      \* bucket_count
    buckets,    \* buckets[0 .. width - 1], each with its items, first to last
    pref,       \* bk_gr_pref
    items,      \* item_count
    refs,       \* refcount
    mode,       \* "run"; "gone" when the buckets are freed; "overrun" after a
                \* write past the last item of a bucket; "crashed"
    claims,     \* history: owners of the map
    used,       \* history: blocks that were handed to the map
    freed,      \* history: blocks that were freed
    spoilt,     \* history: what a growth has freed or forgotten: "values"
                \* that are still in the map, "claims" of other owners
    drifted     \* history: whether an item was removed since the last growth

table == <<width, buckets, pref, items>>
owners == <<refs, claims>>
blocks == <<used, freed>>
vars == <<table, owners, blocks, mode, spoilt, drifted>>

Item(k, v) == [key |-> k, func |-> v]

(* The first item of the bucket b that has the name k; 0 if there is none. *)
Position(k, b) == SelectInSeq(b, LAMBDA item : item.key = k)

BucketOf(k) == buckets[Hash[k] % width]

(* mm_get *)
Lookup(k) ==
    LET i == Position(k, BucketOf(k))
    IN  IF i = 0 THEN NONE ELSE BucketOf(k)[i].func

Blocks(bs) ==
    {b \in Block : \E i \in DOMAIN bs : \E j \in DOMAIN bs[i] : bs[i][j].func = b}

Deep(bs) == {i \in DOMAIN bs : Len(bs[i]) >= PrefDepth}

(* mm_new *)
NoItems(n) == [i \in 0 .. n - 1 |-> <<>>]

Init ==
    /\ width = InitWidth
    /\ buckets = NoItems(InitWidth)
    /\ pref = 0 /\ items = 0
    /\ refs = 1 /\ claims = 1
    /\ used = {} /\ freed = {}
    /\ mode = "run"
    /\ spoilt = {}
    /\ drifted = FALSE

(* A value that a caller can hand over: a block only once. *)
Fresh(v) == v \in CFun \cup (Block \ used)

Running == mode = "run" /\ claims > 0

-----------------------------------------------------------------------------

(* mm_set of a name that is in the map *)
SetOld(k, v) ==
    LET i == Position(k, BucketOf(k))
    IN  /\ Running /\ Fresh(v)
        /\ i # 0
        /\ buckets' = [buckets EXCEPT ![Hash[k] % width][i].func = v]
        /\ used' = used \cup ({v} \cap Block)
        /\ freed' = freed \cup ({Lookup(k)} \cap Block)
        /\ UNCHANGED <<width, pref, items, owners, mode, spoilt, drifted>>

(* mm_raw_add: the last item in its bucket of the n buckets bs *)
RawAdd(bs, item, n) == [bs EXCEPT ![Hash[item.key] % n] = Append(@, item)]

(* A defect for the mutant runs: bk_gr_pref counts past the depth only. *)
PlaceLate(k, v, n, bs, p, count) ==
    /\ width' = n
    /\ buckets' = RawAdd(bs, Item(k, v), n)
    /\ pref' = IF Len(bs[Hash[k] % n]) = PrefDepth THEN p + 1 ELSE p
    /\ items' = count + 1
    /\ used' = used \cup ({v} \cap Block)

(* The end of mm_set: a new last item in its bucket of the n buckets bs,   *)
(* p of which have reached the preferred depth, with count items before.   *)
Place(k, v, n, bs, p, count) ==
    /\ width' = n
    /\ buckets' = RawAdd(bs, Item(k, v), n)
    /\ pref' = IF Len(bs[Hash[k] % n]) + 1 = PrefDepth THEN p + 1 ELSE p
    /\ items' = count + 1
    /\ used' = used \cup ({v} \cap Block)

(* A defect for the mutant runs: the preferred depth alone counts. *)
TooManyDeep(k) == pref > width \div 2

(* mm_set has to make the table grow first. *)
Crowded(k) == Len(BucketOf(k)) = MaxDepth \/ pref > width \div 2

(* mm_set of a new name *)
SetNew(k, v) ==
    /\ Running /\ Fresh(v)
    /\ Lookup(k) = NONE
    /\ ~Crowded(k)
    /\ pref < MaxPref
    /\ Place(k, v, width, buckets, pref, items)
    /\ UNCHANGED <<owners, freed, mode, spoilt, drifted>>

(* A defect for the mutant runs: an item stays in the bucket it had. *)
RehashedInPlace(n) ==
    [i \in 0 .. n - 1 |-> IF i < width THEN buckets[i] ELSE <<>>]

AllItems == FlattenSeq([i \in 1 .. width |-> buckets[i - 1]])

(* mm_raw_add of all the items, in their order, to a map of n buckets. *)
Rehashed(n) ==
    LET added[i \in 0 .. Len(AllItems)] ==
            IF i = 0 THEN NoItems(n) ELSE RawAdd(added[i - 1], AllItems[i], n)
    IN  added[Len(AllItems)]

(* mm_raw_add finds room for all of them. *)
Fits(bs) == \A i \in DOMAIN bs : Len(bs[i]) <= MaxDepth

(* The end of mm_rehash: mm_free of the old map, and a new refcount.  The  *)
(* last owner frees the runnables with the old map, and the new map keeps  *)
(* them; when there are others, their claims are forgotten.                *)
Exchange ==
    /\ freed' = IF refs = 1 THEN freed \cup Blocks(buckets) ELSE freed
    /\ refs' = 1
    /\ spoilt' = spoilt
                   \cup (IF refs = 1 /\ Blocks(buckets) # {} THEN {"values"} ELSE {})
                   \cup (IF refs # 1 THEN {"claims"} ELSE {})
    /\ drifted' = FALSE
    /\ UNCHANGED claims

(* mm_set of a new name that makes the table grow. *)
SetGrown(k, v) ==
    LET n == 2 * width
        bs == Rehashed(n)
    IN  /\ Running /\ Fresh(v)
        /\ Lookup(k) = NONE
        /\ Crowded(k)
        /\ n <= MaxWidth
        /\ Fits(bs)
        /\ Place(k, v, n, bs, Cardinality(Deep(bs)), Len(AllItems))
        /\ Exchange
        /\ mode' = IF Len(bs[Hash[k] % n]) = MaxDepth THEN "overrun" ELSE mode

(* mm_set that cannot allocate the copy of the name: it asks the wrong     *)
(* pointer, and copies the name to NULL.                                   *)
SetNoMemory(k) ==
    /\ MallocMayFail
    /\ Running
    /\ Lookup(k) = NONE
    /\ mode' = "crashed"
    /\ UNCHANGED <<table, owners, blocks, spoilt, drifted>>

(* mm_rehash, which fails and changes nothing when some items do not fit.  *)
Rehash(n) ==
    LET bs == Rehashed(n)
    IN  /\ Running
        /\ n >= width
        /\ Fits(bs)
        /\ width' = n
        /\ buckets' = bs
        /\ pref' = Cardinality(Deep(bs))
        /\ items' = Len(AllItems)
        /\ Exchange
        /\ UNCHANGED <<used, mode>>

(* mm_remove.  The bucket may fall below its preferred depth, but pref is  *)
(* left as it was. *)
RemoveKey(k) ==
    LET h == Hash[k] % width
        i == Position(k, buckets[h])
    IN  /\ Running
        /\ i # 0
        /\ buckets' = [buckets EXCEPT ![h] = RemoveAt(@, i)]
        /\ freed' = freed \cup ({Lookup(k)} \cap Block)
        /\ items' = items - 1
        /\ drifted' = TRUE
        /\ UNCHANGED <<width, pref, owners, used, mode, spoilt>>

(* mm_claim by an owner, for one more *)
Claim ==
    /\ Running
    /\ claims < MaxClaims
    /\ refs' = refs + 1
    /\ claims' = claims + 1
    /\ UNCHANGED <<table, blocks, mode, spoilt, drifted>>

(* A defect for the mutant runs: the first owner to leave frees the map. *)
ReleaseFirst ==
    /\ Running
    /\ refs' = refs - 1
    /\ claims' = claims - 1
    /\ freed' = freed \cup Blocks(buckets)
    /\ buckets' = NoItems(width)
    /\ mode' = "gone"
    /\ UNCHANGED <<width, pref, items, used, spoilt, drifted>>

(* mm_free by an owner; the last one frees the buckets and what they hold. *)
Release ==
    /\ Running
    /\ refs' = refs - 1
    /\ claims' = claims - 1
    /\ IF refs = 1
       THEN /\ freed' = freed \cup Blocks(buckets)
            /\ buckets' = NoItems(width)
            /\ mode' = "gone"
       ELSE UNCHANGED <<freed, buckets, mode>>
    /\ UNCHANGED <<width, pref, items, used, spoilt, drifted>>

(* Sooner or later somebody runs or frees a block that was freed, or looks *)
(* into a map that is gone, and that may stop the program.                 *)
Crash ==
    /\ \/ mode = "run" /\ Blocks(buckets) \cap freed # {}
       \/ mode = "gone" /\ claims > 0
       \/ mode = "overrun"
    /\ mode' = "crashed"
    /\ UNCHANGED <<table, owners, blocks, spoilt, drifted>>

Next ==
    \/ \E k \in Key, v \in Val : SetOld(k, v) \/ SetNew(k, v) \/ SetGrown(k, v)
    \/ \E k \in Key : SetNoMemory(k) \/ RemoveKey(k)
    \/ \E n \in 1 .. MaxWidth : Rehash(n)
    \/ Claim \/ Release \/ Crash

Spec == Init /\ [][Next]_vars

-----------------------------------------------------------------------------

TypeOK ==
    /\ width \in Nat \ {0}
    /\ buckets \in [0 .. width - 1 -> Seq([key : Key, func : Val])]
    /\ pref \in Nat /\ items \in Nat
    /\ refs \in Nat /\ claims \in Nat
    /\ mode \in {"run", "gone", "overrun", "crashed"}
    /\ used \in SUBSET Block /\ freed \in SUBSET used
    /\ spoilt \in SUBSET {"values", "claims"}
    /\ drifted \in BOOLEAN

Places == {p \in (DOMAIN buckets) \X (1 .. MaxDepth + 1) :
              p[2] <= Len(buckets[p[1]])}
At(p) == buckets[p[1]][p[2]]

(* The table can be searched by hash: every item is in the bucket of its   *)
(* name, no name is there twice, no bucket is longer than its array, and   *)
(* item_count, which mm_get and mm_remove rely on, counts the items        *)
(* (method_map.c 64-101, 118-143, 171-208).                                *)
Searchable ==
    mode = "run" =>
        /\ Fits(buckets)
        /\ \A p \in Places : Hash[At(p).key] % width = p[1]
        /\ \A p, q \in Places : At(p).key = At(q).key => p = q
        /\ items = Cardinality(Places)

(* bk_gr_pref is the number of buckets that reached the preferred depth    *)
(* until something is removed; then it is that number or more, so that a   *)
(* table may grow early but never late (method_map.c 76, 98, 140, 185).    *)
PrefCounts ==
    mode = "run" =>
        /\ pref >= Cardinality(Deep(buckets))
        /\ ~drifted => pref = Cardinality(Deep(buckets))

(* A map that is in use has an owner it knows of, never counts more than   *)
(* it has, and holds nothing that was not handed to it (method_map.c       *)
(* 54-100, 190-225).                                                       *)
Owned ==
    mode = "run" => refs \in 1 .. claims /\ Blocks(buckets) \subseteq used

(* The table is sound after any calls, whatever mm_hash computes: one      *)
(* search in one bucket finds a name, and bk_gr_pref never grows a table   *)
(* late (method_map.c 64-101, 118-143, 171-208).                           *)
IInv == TypeOK /\ Searchable /\ PrefCounts /\ Owned

(* A table of twice the width always takes the items, so that mm_set never *)
(* returns MM_SET_REHASH_FAIL for lack of room in a bucket.                *)
DoublingFits == mode = "run" => Fits(Rehashed(2 * width))

(* A block that was handed to the map is there once until it is freed, and *)
(* not afterwards, and the map goes away with its last owner and no        *)
(* earlier; unless the table grew, and freed the blocks that it kept or    *)
(* forgot its other owners.                                                *)
OneOwner ==
    mode \in {"run", "gone"} =>
        /\ "values" \notin spoilt =>
              /\ used \ freed = Blocks(buckets)
              /\ \A b \in Block :
                    Cardinality({p \in Places : At(p).func = b}) <= 1
        /\ "claims" \notin spoilt =>
              refs = claims /\ (mode = "gone" <=> claims = 0)

(* Once a bucket has overrun, nothing counts any more. *)
FM == INSTANCE FiniteMap
          WITH map <- [k \in Key |-> IF Fits(buckets) THEN Lookup(k) ELSE NONE],
               known <- Fits(buckets), Depth <- MaxDepth

(* method_map.c implements FiniteMap, whatever mm_hash computes. *)
Implements == FM!Spec

=============================================================================
