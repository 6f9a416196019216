--------------------------- MODULE ObjectsProofs ---------------------------
(***************************************************************************)
(* Proofs about Objects: that the counts are exact, that nothing dangles,  *)
(* that there are no cycles, that only what can be reached exists, and     *)
(* that all of it implements PropertyGraph.                                *)
(***************************************************************************)
EXTENDS Objects, SequenceLemmas, FiniteSetTheorems

Item == [key : Key, val : Obj]

USE PropMapAssumption, ObjectAssumption

-----------------------------------------------------------------------------
(* Property maps.                                                          *)

LEMMA IndexType ==
    ASSUME NEW k \in Key
    PROVE  Index(k) \in Buckets
  BY DEF Index, Buckets

(* Position finds the first item of a bucket that has a key. *)
LEMMA PositionFacts ==
    ASSUME NEW m \in PropMaps, NEW k \in Key
    PROVE  /\ Bucket(m, k) \in Seq(Item)
           /\ Position(m, k) \in 0 .. Len(Bucket(m, k))
           /\ Position(m, k) = 0 => \A i \in 1 .. Len(Bucket(m, k)) : Bucket(m, k)[i].key # k
           /\ Position(m, k) # 0 => Bucket(m, k)[Position(m, k)].key = k
<1> DEFINE s == Bucket(m, k)
           I == {i \in 1 .. Len(s) : s[i].key = k}
<1>1. s \in Seq(Item)
  BY IndexType DEF Bucket, PropMaps, Item
<1>2. Position(m, k) = IF I # {} THEN Min(I) ELSE 0
  BY DEF Position, SelectInSeq
<1>3. ASSUME I # {} PROVE Min(I) \in I
  <2>1. I \subseteq Nat
    OBVIOUS
  <2>2. \E n \in I : \A j \in I : n <= j
    <3> HIDE DEF I
    <3> QED BY <1>3, <2>1, LeastNumber
  <2> QED BY <2>2 DEF Min
<1> QED BY <1>1, <1>2, <1>3

(* The items of a map whose value is in X. *)
Slots(m, X) ==
    {p \in Buckets \X (1 .. MaxDepth) :
        /\ p[2] \in DOMAIN m.buckets[p[1]]
        /\ m.buckets[p[1]][p[2]].val \in X}

Fits(m) == m \in PropMaps /\ \A b \in Buckets : Len(m.buckets[b]) <= MaxDepth

LEMMA BucketType ==
    ASSUME NEW m \in PropMaps, NEW b \in Buckets
    PROVE  /\ m.buckets[b] \in Seq(Item)
           /\ DOMAIN m.buckets[b] = 1 .. Len(m.buckets[b])
           /\ Len(m.buckets[b]) \in Nat
           /\ \A i \in 1 .. Len(m.buckets[b]) :
                 /\ m.buckets[b][i] \in Item
                 /\ m.buckets[b][i].key \in Key
                 /\ m.buckets[b][i].val \in Obj
<1>1. m.buckets[b] \in Seq(Item)
  BY DEF PropMaps, Item
<1>2. \A i \in 1 .. Len(m.buckets[b]) : m.buckets[b][i] \in Item
  BY <1>1
<1> QED BY <1>1, <1>2 DEF Item

LEMMA BucketsFinite ==
    /\ IsFiniteSet(Buckets)
    /\ IsFiniteSet(Buckets \X (1 .. MaxDepth))
<1>1. MaxDepth - 1 \in Int /\ 0 \in Int /\ MaxDepth \in Int /\ 1 \in Int
  OBVIOUS
<1>2. IsFiniteSet(Buckets) /\ IsFiniteSet(1 .. MaxDepth)
  BY <1>1, FS_Interval DEF Buckets
<1> QED BY <1>2, FS_Product

LEMMA SlotsFinite ==
    ASSUME NEW m, NEW X
    PROVE  IsFiniteSet(Slots(m, X)) /\ Cardinality(Slots(m, X)) \in Nat
<1>1. Slots(m, X) \in SUBSET (Buckets \X (1 .. MaxDepth))
  BY DEF Slots
<1>2. IsFiniteSet(Slots(m, X))
  BY <1>1, BucketsFinite, FS_Subset, Zenon
<1> QED BY <1>2, FS_CardinalityType, Zenon

LEMMA ValuesType ==
    ASSUME NEW m \in PropMaps
    PROVE  Values(m) \in Seq(Obj)
<1> DEFINE ss == [b \in 1 .. MaxDepth |-> InBucket(m.buckets[b - 1])]
<1>1. ASSUME NEW b \in 1 .. MaxDepth PROVE InBucket(m.buckets[b - 1]) \in Seq(Obj)
  <2>1. b - 1 \in Buckets
    BY DEF Buckets
  <2> DEFINE s == m.buckets[b - 1]
  <2>2. DOMAIN s = 1 .. Len(s) /\ Len(s) \in Nat /\ \A i \in 1 .. Len(s) : s[i].val \in Obj
    BY <2>1, BucketType
  <2> HIDE DEF s
  <2>3. InBucket(s) \in Seq(Obj)
    BY <2>2 DEF InBucket
  <2> QED BY <2>3 DEF s
<1>2. ss \in Seq(Seq(Obj))
  BY <1>1
<1> HIDE DEF ss
<1>3. FlattenSeq(ss) \in Seq(Obj)
  BY <1>2, FlattenType
<1> QED BY <1>3 DEF Values, ss

(* Values has every item of the map once. *)
LEMMA CountOfValues ==
    ASSUME NEW m, Fits(m), NEW X
    PROVE  Cardinality(Spots(Values(m), X)) = Cardinality(Slots(m, X))
<1> DEFINE ss == [b \in 1 .. MaxDepth |-> InBucket(m.buckets[b - 1])]
           Q == SpotsUpTo(ss, MaxDepth, X)
           f == [q \in Q |-> <<q[1] - 1, q[2]>>]
<1>0. m \in PropMaps /\ \A b \in Buckets : Len(m.buckets[b]) <= MaxDepth
  BY DEF Fits
<1>1. ASSUME NEW b \in 1 .. MaxDepth
      PROVE  /\ b - 1 \in Buckets
             /\ ss[b] \in Seq(Obj)
             /\ Spots(ss[b], X) = {i \in 1 .. Len(m.buckets[b - 1]) :
                                       m.buckets[b - 1][i].val \in X}
  <2>1. b - 1 \in Buckets
    BY DEF Buckets
  <2> DEFINE s == m.buckets[b - 1]
             t == ss[b]
  <2>2. DOMAIN s = 1 .. Len(s) /\ Len(s) \in Nat /\ \A i \in 1 .. Len(s) : s[i].val \in Obj
    BY <1>0, <2>1, BucketType
  <2>3. t = InBucket(s)
    OBVIOUS
  <2> HIDE DEF s, t
  <2>4. t = [i \in 1 .. Len(s) |-> s[i].val]
    BY <2>2, <2>3 DEF InBucket
  <2>5. t \in Seq(Obj) /\ Len(t) = Len(s)
    BY <2>2, <2>4
  <2>6. Spots(t, X) = {i \in 1 .. Len(s) : s[i].val \in X}
    BY <2>4, <2>5 DEF Spots
  <2> QED BY <2>1, <2>5, <2>6 DEF s, t
<1>2. ss \in Seq(Seq(Obj)) /\ Len(ss) = MaxDepth
  <2>1. \A b \in 1 .. MaxDepth : InBucket(m.buckets[b - 1]) \in Seq(Obj)
    BY <1>1
  <2> QED BY <2>1
<1> HIDE DEF ss
<1>3. IsFiniteSet(Q) /\ Cardinality(Spots(FlattenSeq(ss), X)) = Cardinality(Q)
  BY <1>2, CountOfFlatten
<1>4. Q = {p \in (1 .. MaxDepth) \X Nat :
              /\ p[2] \in 1 .. Len(m.buckets[p[1] - 1])
              /\ m.buckets[p[1] - 1][p[2]].val \in X}
  <2>1. \A p \in (1 .. MaxDepth) \X Nat : p[1] \in 1 .. MaxDepth
    OBVIOUS
  <2>2. \A p \in (1 .. MaxDepth) \X Nat :
           p[2] \in Spots(ss[p[1]], X) <=>
              /\ p[2] \in 1 .. Len(m.buckets[p[1] - 1])
              /\ m.buckets[p[1] - 1][p[2]].val \in X
    BY <1>1, <2>1
  <2> HIDE DEF ss
  <2> QED BY <2>2 DEF SpotsUpTo
<1>5. ASSUME NEW q \in Q PROVE <<q[1] - 1, q[2]>> \in Slots(m, X)
  <2>1. q[1] \in 1 .. MaxDepth /\ q[2] \in Nat /\ q[1] - 1 \in Buckets
    BY <1>1, <1>4
  <2>2. DOMAIN m.buckets[q[1] - 1] = 1 .. Len(m.buckets[q[1] - 1])
        /\ Len(m.buckets[q[1] - 1]) \in Nat /\ Len(m.buckets[q[1] - 1]) <= MaxDepth
    BY <1>0, <2>1, BucketType
  <2>3. q[2] \in 1 .. Len(m.buckets[q[1] - 1]) /\ m.buckets[q[1] - 1][q[2]].val \in X
    BY <1>4
  <2>4. q[2] \in 1 .. MaxDepth
    BY <2>2, <2>3
  <2> HIDE DEF Q
  <2> QED BY <2>1, <2>2, <2>3, <2>4 DEF Slots
<1>6. ASSUME NEW p \in Slots(m, X)
      PROVE  <<p[1] + 1, p[2]>> \in Q /\ <<(p[1] + 1) - 1, p[2]>> = p
  <2>1. p[1] \in Buckets /\ p[2] \in 1 .. MaxDepth /\ p = <<p[1], p[2]>>
        /\ p[2] \in DOMAIN m.buckets[p[1]] /\ m.buckets[p[1]][p[2]].val \in X
    BY DEF Slots
  <2>2. p[1] + 1 \in 1 .. MaxDepth /\ (p[1] + 1) - 1 = p[1] /\ p[2] \in Nat
    BY <2>1 DEF Buckets
  <2>3. DOMAIN m.buckets[p[1]] = 1 .. Len(m.buckets[p[1]])
    BY <1>0, <2>1, BucketType
  <2> HIDE DEF Q
  <2> QED BY <1>4, <2>1, <2>2, <2>3
<1>7. \A x, y \in Q : <<x[1] - 1, x[2]>> = <<y[1] - 1, y[2]>> => x = y
  <2>1. \A x \in Q : x[1] \in Nat /\ x = <<x[1], x[2]>>
    BY <1>4
  <2> HIDE DEF Q
  <2>2. \A x, y \in Q : x[1] - 1 = y[1] - 1 => x[1] = y[1]
    BY <2>1
  <2> QED BY <2>1, <2>2
<1> DEFINE T == Slots(m, X)
<1> HIDE DEF Q, T
<1>8. f \in [Q -> T]
  BY <1>5 DEF T
<1>9. \A x, y \in Q : f[x] = f[y] => x = y
  BY <1>7
<1>10. \A y \in T : \E x \in Q : f[x] = y
  <2> TAKE y \in T
  <2>1. <<y[1] + 1, y[2]>> \in Q /\ <<(y[1] + 1) - 1, y[2]>> = y
    BY <1>6 DEF T
  <2> DEFINE x == <<y[1] + 1, y[2]>>
  <2>2. x[1] = y[1] + 1 /\ x[2] = y[2]
    OBVIOUS
  <2>3. x \in Q /\ f[x] = y
    BY <2>1, <2>2
  <2> QED BY <2>3
<1>11. Cardinality(T) = Cardinality(Q)
  <2> HIDE DEF f
  <2> QED BY <1>3, <1>8, <1>9, <1>10, SameSize
<1> QED BY <1>3, <1>11 DEF T, Values, ss

LEMMA LengthOfValues ==
    ASSUME NEW m, Fits(m)
    PROVE  Len(Values(m)) = Cardinality(Slots(m, Obj))
<1>1. Values(m) \in Seq(Obj)
  BY ValuesType DEF Fits
<1> DEFINE v == Values(m)
<1>2. v \in Seq(Obj)
  BY <1>1
<1> HIDE DEF v
<1>3. Spots(v, Obj) = 1 .. Len(v) /\ Len(v) \in Nat
  BY <1>2 DEF Spots
<1>4. Cardinality(1 .. Len(v)) = Len(v)
  <2> DEFINE n == Len(v)
  <2>1. n \in Nat
    BY <1>3
  <2> HIDE DEF n
  <2>2. Cardinality(1 .. n) = n
    BY <2>1, FS_Interval
  <2> QED BY <2>2 DEF n
<1>5. Cardinality(Spots(v, Obj)) = Cardinality(Slots(m, Obj))
  BY CountOfValues DEF v
<1> QED BY <1>3, <1>4, <1>5 DEF v

LEMMA OccursInValues ==
    ASSUME NEW m, Fits(m), NEW o
    PROVE  Occurs(o, Values(m)) = Cardinality(Slots(m, {o}))
<1>1. Values(m) \in Seq(Obj)
  BY ValuesType DEF Fits
<1>2. {i \in DOMAIN Values(m) : Values(m)[i] = o} = Spots(Values(m), {o})
  BY <1>1 DEF Spots
<1> QED BY <1>2, CountOfValues DEF Occurs

(* Every key has one item at most, in the bucket of its hash. *)
KeysOnce(m) ==
    \A b \in Buckets : \A i \in 1 .. Len(m.buckets[b]) :
        /\ Index(m.buckets[b][i].key) = b
        /\ \A j \in 1 .. Len(m.buckets[b]) :
              m.buckets[b][j].key = m.buckets[b][i].key => j = i

Sound(m) == m \in PropMaps /\ WellFormed(m)

LEMMA WellFormedMeans ==
    ASSUME NEW m \in PropMaps
    PROVE  Sound(m) <=> /\ Fits(m)
                        /\ KeysOnce(m)
                        /\ m.item_count = Cardinality(Slots(m, Obj))
                        /\ m.bk_gr_pref >= Cardinality(Deep(m.buckets))
<1> DEFINE Found == \A b \in Buckets : \A i \in DOMAIN m.buckets[b] :
                       LET k == m.buckets[b][i].key
                       IN  Index(k) = b /\ Position(m, k) = i
<1>1. Found => KeysOnce(m)
  <2> SUFFICES ASSUME Found, NEW b \in Buckets, NEW i \in 1 .. Len(m.buckets[b])
               PROVE  /\ Index(m.buckets[b][i].key) = b
                      /\ \A j \in 1 .. Len(m.buckets[b]) :
                            m.buckets[b][j].key = m.buckets[b][i].key => j = i
    BY DEF KeysOnce
  <2>1. \A j \in 1 .. Len(m.buckets[b]) :
           Index(m.buckets[b][j].key) = b /\ Position(m, m.buckets[b][j].key) = j
    BY BucketType
  <2> QED BY <2>1
<1>2. KeysOnce(m) => Found
  <2> SUFFICES ASSUME KeysOnce(m), NEW b \in Buckets, NEW i \in DOMAIN m.buckets[b]
               PROVE  /\ Index(m.buckets[b][i].key) = b
                      /\ Position(m, m.buckets[b][i].key) = i
    OBVIOUS
  <2> DEFINE k == m.buckets[b][i].key
             s == m.buckets[b]
             p == Position(m, k)
  <2>1. i \in 1 .. Len(s) /\ k \in Key
    BY BucketType
  <2>2. Index(k) = b /\ \A j \in 1 .. Len(s) : s[j].key = k => j = i
    BY <2>1 DEF KeysOnce
  <2>3. Bucket(m, k) = s /\ Len(s) \in Nat
    BY <2>2, BucketType DEF Bucket
  <2>4. /\ p \in 0 .. Len(s)
        /\ p = 0 => \A j \in 1 .. Len(s) : s[j].key # k
        /\ p # 0 => s[p].key = k
    <3> HIDE DEF p, k
    <3> QED BY <2>1, <2>3, PositionFacts DEF p
  <2>5. p # 0 /\ p \in 1 .. Len(s)
    BY <2>1, <2>3, <2>4
  <2> QED BY <2>2, <2>4, <2>5
<1>3. Fits(m) => Len(Values(m)) = Cardinality(Slots(m, Obj))
  BY LengthOfValues
<1> QED BY <1>1, <1>2, <1>3, Zenon DEF Sound, WellFormed, Fits

LEMMA SoundMeans ==
    ASSUME NEW m, Sound(m)
    PROVE  /\ m \in PropMaps
           /\ Fits(m)
           /\ KeysOnce(m)
           /\ m.item_count = Cardinality(Slots(m, Obj))
           /\ m.bk_gr_pref >= Cardinality(Deep(m.buckets))
  BY WellFormedMeans DEF Sound

(* The map has an item with the key k and the value v. *)
Has(m, k, v) ==
    \E i \in 1 .. Len(Bucket(m, k)) :
        Bucket(m, k)[i].key = k /\ Bucket(m, k)[i].val = v

(* pm_get finds the item of a key, if there is one. *)
LEMMA GetMeans ==
    ASSUME NEW m, Sound(m), NEW k \in Key
    PROVE  /\ pm_get(m, k) \in Obj \cup {NONE}
           /\ \A v \in Obj : pm_get(m, k) = v <=> Has(m, k, v)
           /\ pm_is_key(m, k) <=> pm_get(m, k) # NONE
           /\ pm_is_key(m, k) =>
                 /\ Position(m, k) \in 1 .. Len(Bucket(m, k))
                 /\ Bucket(m, k)[Position(m, k)].key = k
                 /\ Bucket(m, k)[Position(m, k)].val = pm_get(m, k)
           /\ ~pm_is_key(m, k) =>
                 \A i \in 1 .. Len(Bucket(m, k)) : Bucket(m, k)[i].key # k
<1> DEFINE s == Bucket(m, k)
           p == Position(m, k)
<1>1. /\ m \in PropMaps /\ Fits(m) /\ KeysOnce(m)
      /\ m.item_count = Cardinality(Slots(m, Obj))
  BY SoundMeans
<1>2. /\ s \in Seq(Item)
      /\ p \in 0 .. Len(s)
      /\ p = 0 => \A i \in 1 .. Len(s) : s[i].key # k
      /\ p # 0 => s[p].key = k
  BY <1>1, PositionFacts
<1>3. Index(k) \in Buckets /\ s = m.buckets[Index(k)] /\ Len(s) \in Nat /\ Len(s) <= MaxDepth
  BY <1>1, IndexType, BucketType DEF Bucket, Fits
<1>4. p # 0 => p \in 1 .. Len(s)
  BY <1>2, <1>3
<1>5. p # 0 => m.item_count # 0
  <2> SUFFICES ASSUME p # 0 PROVE m.item_count # 0
    OBVIOUS
  <2>1. p \in 1 .. Len(s) /\ p \in 1 .. MaxDepth
    BY <1>3, <1>4
  <2>2. <<Index(k), p>> \in Slots(m, Obj)
    <3>1. DOMAIN s = 1 .. Len(s) /\ s[p].val \in Obj
      BY <1>1, <1>3, <2>1, BucketType
    <3> HIDE DEF p
    <3> QED BY <1>3, <2>1, <3>1 DEF Slots
  <2>3. Cardinality(Slots(m, Obj)) # 0
    BY <2>2, SlotsFinite, FS_EmptySet
  <2> QED BY <1>1, <2>3
<1>6. \A i \in 1 .. Len(s) : s[i].val \in Obj
  BY <1>1, <1>3, BucketType
<1>7. pm_is_key(m, k) <=> p # 0
  BY DEF pm_is_key
<1>8. pm_get(m, k) = IF p # 0 THEN s[p].val ELSE NONE
  BY <1>5, <1>7 DEF pm_get
<1>9. \A i, j \in 1 .. Len(s) : s[i].key = k /\ s[j].key = k => j = i
  BY <1>1, <1>3 DEF KeysOnce
<1> HIDE DEF p, s
<1>10. \A v \in Obj : pm_get(m, k) = v <=>
          \E i \in 1 .. Len(s) : s[i].key = k /\ s[i].val = v
  <2>1. CASE p = 0
    BY <1>2, <1>8, <2>1
  <2>2. CASE p # 0
    BY <1>2, <1>4, <1>8, <1>9, <2>2
  <2> QED BY <2>1, <2>2
<1>11. pm_get(m, k) \in Obj \cup {NONE} /\ (p # 0 <=> pm_get(m, k) # NONE)
  BY <1>4, <1>6, <1>8
<1> QED BY <1>2, <1>4, <1>7, <1>8, <1>10, <1>11 DEF Has, p, s

(* What is in a map are the values of its keys. *)
LEMMA SlotsAreValues ==
    ASSUME NEW m, Sound(m), NEW v \in Obj
    PROVE  /\ Slots(m, {v}) # {} <=> \E k \in Key : pm_get(m, k) = v
           /\ Slots(m, {v}) # {} <=>
                 v \in UNION {{m.buckets[b][i].val : i \in DOMAIN m.buckets[b]} : b \in Buckets}
           /\ Slots(m, {v}) # {} <=> Cardinality(Slots(m, {v})) # 0
<1>1. m \in PropMaps /\ Fits(m) /\ KeysOnce(m)
  BY SoundMeans
<1>2. \A b \in Buckets :
         /\ DOMAIN m.buckets[b] = 1 .. Len(m.buckets[b])
         /\ Len(m.buckets[b]) \in Nat /\ Len(m.buckets[b]) <= MaxDepth
         /\ \A i \in 1 .. Len(m.buckets[b]) :
               m.buckets[b][i].key \in Key /\ Index(m.buckets[b][i].key) = b
  BY <1>1, BucketType DEF Fits, KeysOnce
<1>3. \A b \in Buckets : \A i \in 1 .. Len(m.buckets[b]) : i \in 1 .. MaxDepth
  BY <1>2
<1>4. Slots(m, {v}) # {} <=>
         \E b \in Buckets : \E i \in 1 .. Len(m.buckets[b]) : m.buckets[b][i].val = v
  <2>1. ASSUME NEW p \in Slots(m, {v})
        PROVE  \E b \in Buckets : \E i \in 1 .. Len(m.buckets[b]) : m.buckets[b][i].val = v
    <3>1. p[1] \in Buckets /\ p[2] \in DOMAIN m.buckets[p[1]] /\ m.buckets[p[1]][p[2]].val = v
      BY DEF Slots
    <3> QED BY <1>2, <3>1
  <2>2. ASSUME NEW b \in Buckets, NEW i \in 1 .. Len(m.buckets[b]), m.buckets[b][i].val = v
        PROVE  <<b, i>> \in Slots(m, {v})
    BY <1>2, <1>3, <2>2 DEF Slots
  <2> QED BY <2>1, <2>2
<1>5. (\E b \in Buckets : \E i \in 1 .. Len(m.buckets[b]) : m.buckets[b][i].val = v)
         <=> \E k \in Key : Has(m, k, v)
  <2>1. ASSUME NEW b \in Buckets, NEW i \in 1 .. Len(m.buckets[b]), m.buckets[b][i].val = v
        PROVE  \E k \in Key : Has(m, k, v)
    <3> DEFINE k == m.buckets[b][i].key
    <3>1. k \in Key /\ Index(k) = b
      BY <1>2
    <3>2. Bucket(m, k) = m.buckets[b]
      BY <3>1 DEF Bucket
    <3>3. Has(m, k, v)
      BY <2>1, <3>2 DEF Has
    <3> QED BY <3>1, <3>3
  <2>2. ASSUME NEW k \in Key, Has(m, k, v)
        PROVE  \E b \in Buckets : \E i \in 1 .. Len(m.buckets[b]) : m.buckets[b][i].val = v
    BY <2>2, IndexType DEF Has, Bucket
  <2> QED BY <2>1, <2>2
<1>6. (\E k \in Key : Has(m, k, v)) <=> \E k \in Key : pm_get(m, k) = v
  BY GetMeans
<1>7. (\E b \in Buckets : \E i \in 1 .. Len(m.buckets[b]) : m.buckets[b][i].val = v)
         <=> v \in UNION {{m.buckets[b][i].val : i \in DOMAIN m.buckets[b]} : b \in Buckets}
  BY <1>2
<1>8. Slots(m, {v}) # {} <=> Cardinality(Slots(m, {v})) # 0
  BY SlotsFinite, FS_EmptySet
<1> QED BY <1>4, <1>5, <1>6, <1>7, <1>8

LEMMA EmptyMap ==
    /\ Sound(pm_new)
    /\ \A X : Slots(pm_new, X) = {}
    /\ \A k \in Key : pm_get(pm_new, k) = NONE
    /\ pm_new.bk_gr_pref = 0 /\ Cardinality(Deep(pm_new.buckets)) = 0
<1>1. pm_new \in PropMaps
  BY DEF pm_new, PropMaps
<1>2. \A b \in Buckets : pm_new.buckets[b] = <<>>
  BY DEF pm_new
<1>3. \A X : Slots(pm_new, X) = {}
  BY <1>2 DEF Slots
<1>4. Deep(pm_new.buckets) = {}
  BY <1>2 DEF Deep
<1>5. Fits(pm_new) /\ KeysOnce(pm_new)
  BY <1>1, <1>2 DEF Fits, KeysOnce
<1>6. pm_new.item_count = 0 /\ pm_new.bk_gr_pref = 0
  BY DEF pm_new
<1>7. Cardinality({}) = 0
  BY FS_EmptySet
<1>8. Sound(pm_new)
  BY <1>1, <1>3, <1>4, <1>5, <1>6, <1>7, WellFormedMeans
<1>9. \A k \in Key : pm_get(pm_new, k) = NONE
  BY <1>6 DEF pm_get
<1> QED BY <1>3, <1>4, <1>6, <1>7, <1>8, <1>9

LEMMA DeepFinite ==
    ASSUME NEW buckets
    PROVE  IsFiniteSet(Deep(buckets)) /\ Cardinality(Deep(buckets)) \in Nat
<1>1. Deep(buckets) \in SUBSET Buckets
  BY DEF Deep
<1>2. IsFiniteSet(Deep(buckets))
  BY <1>1, BucketsFinite, FS_Subset, Zenon
<1> QED BY <1>2, FS_CardinalityType, Zenon

LEMMA CopiedMap ==
    ASSUME NEW m, Sound(m)
    PROVE  /\ Sound(pm_copy(m))
           /\ \A X : Slots(pm_copy(m), X) = Slots(m, X)
           /\ \A k \in Key : pm_get(pm_copy(m), k) = pm_get(m, k)
           /\ pm_copy(m).bk_gr_pref = Cardinality(Deep(pm_copy(m).buckets))
<1> DEFINE c == pm_copy(m)
<1>1. /\ m \in PropMaps /\ Fits(m) /\ KeysOnce(m)
      /\ m.item_count = Cardinality(Slots(m, Obj))
  BY SoundMeans
<1>2. /\ c.buckets = m.buckets /\ c.item_count = m.item_count
      /\ c.bk_gr_pref = Cardinality(Deep(m.buckets))
  BY <1>1 DEF pm_copy, PropMaps
<1>3. c \in PropMaps
  BY <1>1, DeepFinite DEF pm_copy, PropMaps
<1>4. \A X : Slots(c, X) = Slots(m, X)
  BY <1>2 DEF Slots
<1>5. \A k \in Key : pm_get(c, k) = pm_get(m, k)
  BY <1>2 DEF pm_get, pm_is_key, Position, Bucket
<1>6. Fits(c) /\ KeysOnce(c)
  BY <1>1, <1>2, <1>3 DEF Fits, KeysOnce
<1>7. Cardinality(Deep(c.buckets)) \in Nat
  BY DeepFinite
<1>8. Sound(c)
  <2>1. c.item_count = Cardinality(Slots(c, Obj)) /\ c.bk_gr_pref >= Cardinality(Deep(c.buckets))
    <3> HIDE DEF c
    <3> QED BY <1>1, <1>2, <1>4, <1>7
  <2> QED BY <1>3, <1>6, <2>1, WellFormedMeans
<1> QED BY <1>2, <1>4, <1>5, <1>8

(* Two maps that have the same values for a key. *)
LEMMA SameGet ==
    ASSUME NEW m, Sound(m), NEW m2, Sound(m2), NEW k \in Key,
           \A w \in Obj : Has(m2, k, w) <=> Has(m, k, w)
    PROVE  pm_get(m2, k) = pm_get(m, k)
  BY GetMeans

(* A new value for a key that is there. *)
LEMMA ReplacedMap ==
    ASSUME NEW m, Sound(m), NEW k \in Key, pm_is_key(m, k), NEW v \in Obj
    PROVE  LET m2 == Replaced(m, k, v)
           IN  /\ Sound(m2)
               /\ \A X : Cardinality(Slots(m2, X)) = Cardinality(Slots(m, X))
                            + One(v \in X) - One(pm_get(m, k) \in X)
               /\ \A k2 \in Key : pm_get(m2, k2) = IF k2 = k THEN v ELSE pm_get(m, k2)
               /\ m2.bk_gr_pref = m.bk_gr_pref
               /\ Deep(m2.buckets) = Deep(m.buckets)
<1> DEFINE b == Index(k)
           p == Position(m, k)
           s == m.buckets[b]
           m2 == Replaced(m, k, v)
           s2 == m2.buckets[b]
           old == pm_get(m, k)
<1>1. /\ m \in PropMaps /\ Fits(m) /\ KeysOnce(m)
      /\ m.item_count = Cardinality(Slots(m, Obj))
      /\ m.bk_gr_pref >= Cardinality(Deep(m.buckets))
  BY SoundMeans
<1>2. /\ b \in Buckets /\ s = Bucket(m, k)
      /\ p \in 1 .. Len(s) /\ s[p].key = k /\ s[p].val = old
  BY GetMeans, IndexType DEF Bucket
<1>3. /\ s \in Seq(Item) /\ DOMAIN s = 1 .. Len(s) /\ Len(s) \in Nat /\ Len(s) <= MaxDepth
      /\ \A i \in 1 .. Len(s) : s[i] \in Item
  BY <1>1, <1>2, BucketType DEF Fits
<1>4. /\ m2.buckets = [m.buckets EXCEPT ![b] = [s EXCEPT ![p] = [s[p] EXCEPT !.val = v]]]
      /\ m2.item_count = m.item_count /\ m2.bk_gr_pref = m.bk_gr_pref
      /\ m2 = [m EXCEPT !.buckets = m2.buckets]
  BY <1>1 DEF Replaced, PropMaps
<1>5. m.buckets \in [Buckets -> Seq(Item)]
  BY <1>1 DEF PropMaps, Item
<1>6. /\ s2 = [s EXCEPT ![p] = [s[p] EXCEPT !.val = v]]
      /\ \A c \in Buckets : c # b => m2.buckets[c] = m.buckets[c]
  BY <1>2, <1>4, <1>5
<1>7. /\ s2 \in Seq(Item) /\ Len(s2) = Len(s)
      /\ \A i \in 1 .. Len(s) : s2[i].key = s[i].key
      /\ \A i \in 1 .. Len(s) : s2[i].val = IF i = p THEN v ELSE s[i].val
  <2>1. [s[p] EXCEPT !.val = v] = [key |-> s[p].key, val |-> v] /\ s[p].key \in Key
    BY <1>2, <1>3 DEF Item
  <2> DEFINE it == [key |-> s[p].key, val |-> v]
  <2>2. it \in Item
    BY <2>1 DEF Item
  <2>3. s2 = [s EXCEPT ![p] = it]
    BY <1>6, <2>1
  <2>4. it.key = s[p].key /\ it.val = v
    OBVIOUS
  <2> HIDE DEF it, s2, s, p
  <2> QED BY <1>2, <1>3, <2>2, <2>3, <2>4
<1>8. m2 \in PropMaps
  <2>1. m2.buckets \in [Buckets -> Seq(Item)]
    BY <1>2, <1>4, <1>5, <1>6, <1>7
  <2> HIDE DEF m2
  <2> QED BY <1>1, <1>4, <2>1 DEF PropMaps, Item
<1>9. \A c \in Buckets : Len(m2.buckets[c]) = Len(m.buckets[c])
  BY <1>6, <1>7
<1>10. Fits(m2) /\ Deep(m2.buckets) = Deep(m.buckets)
  BY <1>1, <1>8, <1>9 DEF Fits, Deep
<1>11. KeysOnce(m2)
  <2>1. \A c \in Buckets : \A i \in 1 .. Len(m.buckets[c]) :
           m2.buckets[c][i].key = m.buckets[c][i].key
    BY <1>6, <1>7
  <2> HIDE DEF m2
  <2> QED BY <1>1, <1>9, <2>1 DEF KeysOnce
<1>12. ASSUME NEW X
       PROVE  /\ Slots(m2, X) = (Slots(m, X) \ {<<b, p>>})
                                   \cup (IF v \in X THEN {<<b, p>>} ELSE {})
              /\ <<b, p>> \in Slots(m, X) <=> old \in X
  <2>1. \A c \in Buckets : DOMAIN m2.buckets[c] = DOMAIN m.buckets[c]
    <3> HIDE DEF m2
    <3> QED BY <1>1, <1>8, <1>9, BucketType
  <2>2. p \in 1 .. MaxDepth /\ p \in DOMAIN s
    BY <1>2, <1>3
  <2>3. \A c \in Buckets : \A i \in DOMAIN m.buckets[c] :
           m2.buckets[c][i].val = IF c = b /\ i = p THEN v ELSE m.buckets[c][i].val
    BY <1>3, <1>6, <1>7
  <2>4. <<b, p>> \in Slots(m, X) <=> old \in X
    BY <1>2, <2>2 DEF Slots
  <2>5. <<b, p>> \in Slots(m2, X) <=> v \in X
    <3> HIDE DEF m2, p
    <3> QED BY <1>2, <2>1, <2>2, <2>3 DEF Slots
  <2>6. \A c, i : <<c, i>> # <<b, p>> =>
           (<<c, i>> \in Slots(m2, X) <=> <<c, i>> \in Slots(m, X))
    <3> HIDE DEF m2, p
    <3> QED BY <2>1, <2>3 DEF Slots
  <2>7. \A q : q \in Slots(m, X) \cup Slots(m2, X) => q = <<q[1], q[2]>>
    BY DEF Slots
  <2> HIDE DEF m2, p, b
  <2>8. ASSUME NEW q PROVE q \in Slots(m2, X) <=>
             q \in (Slots(m, X) \ {<<b, p>>}) \cup (IF v \in X THEN {<<b, p>>} ELSE {})
    <3>1. CASE q = <<b, p>>
      BY <2>5, <3>1
    <3>2. CASE q # <<b, p>>
      BY <2>6, <2>7, <3>2
    <3> QED BY <3>1, <3>2
  <2> QED BY <2>4, <2>8
<1>13. \A X : Cardinality(Slots(m2, X)) = Cardinality(Slots(m, X)) + One(v \in X) - One(old \in X)
  <2> TAKE X
  <2> DEFINE A == Slots(m, X)
             q == <<b, p>>
             B == A \ {q}
  <2>1. IsFiniteSet(A) /\ Cardinality(A) \in Nat
    BY SlotsFinite
  <2> HIDE DEF A, q
  <2>2. IsFiniteSet(B) /\ Cardinality(B) = Cardinality(A) - One(q \in A)
    BY <2>1, OneLess
  <2>3. q \notin B
    OBVIOUS
  <2>4. (v \in X) \in BOOLEAN
    OBVIOUS
  <2>5. Cardinality(B \cup (IF v \in X THEN {q} ELSE {})) = Cardinality(B) + One(v \in X)
    <3> HIDE DEF B
    <3> QED BY <2>2, <2>3, <2>4, OneMore
  <2>6. Slots(m2, X) = B \cup (IF v \in X THEN {q} ELSE {}) /\ (q \in A <=> old \in X)
    BY <1>12 DEF A, q
  <2>7. One(q \in A) = One(old \in X) /\ One(q \in A) \in Int /\ One(v \in X) \in Int
    BY <2>6 DEF One
  <2> HIDE DEF B, m2, old
  <2>8. Cardinality(B) \in Nat
    BY <2>2, FS_CardinalityType
  <2>9. Cardinality(Slots(m2, X)) = Cardinality(A) + One(v \in X) - One(old \in X)
    BY <2>1, <2>2, <2>5, <2>6, <2>7, <2>8
  <2> QED BY <2>9 DEF A
<1>14. Sound(m2)
  <2>1. old \in Obj
    BY <1>2, <1>3 DEF Item
  <2>2. Cardinality(Slots(m2, Obj)) = Cardinality(Slots(m, Obj)) + One(v \in Obj) - One(old \in Obj)
    BY <1>13
  <2>3. One(v \in Obj) = 1 /\ One(old \in Obj) = 1
    BY <2>1 DEF One
  <2>4. Cardinality(Slots(m, Obj)) \in Nat
    BY SlotsFinite
  <2> HIDE DEF m2, old
  <2>5. m2.item_count = Cardinality(Slots(m2, Obj))
    BY <1>1, <1>4, <2>2, <2>3, <2>4
  <2> QED BY <1>1, <1>4, <1>8, <1>10, <1>11, <2>5, WellFormedMeans
<1>15. ASSUME NEW k2 \in Key
       PROVE  pm_get(m2, k2) = IF k2 = k THEN v ELSE pm_get(m, k2)
  <2>1. Index(k2) \in Buckets
    BY IndexType
  <2>2. CASE k2 = k
    <3>1. Has(m2, k, v)
      <4>1. Bucket(m2, k) = s2
        BY DEF Bucket
      <4> HIDE DEF m2, p
      <4> QED BY <1>2, <1>7, <4>1 DEF Has
    <3> QED BY <1>14, <2>2, <3>1, GetMeans
  <2>3. CASE k2 # k
    <3>1. CASE Index(k2) # b
      <4>1. Bucket(m2, k2) = Bucket(m, k2)
        BY <1>6, <2>1, <3>1 DEF Bucket
      <4>2. \A w \in Obj : Has(m2, k2, w) <=> Has(m, k2, w)
        BY <4>1 DEF Has
      <4> HIDE DEF m2
      <4> QED BY <1>14, <2>3, <4>2, SameGet
    <3>2. CASE Index(k2) = b
      <4>1. Bucket(m2, k2) = s2 /\ Bucket(m, k2) = s
        BY <3>2 DEF Bucket
      <4>2. \A w \in Obj : Has(m2, k2, w) <=> Has(m, k2, w)
        <5> HIDE DEF m2, p
        <5> QED BY <1>2, <1>7, <2>3, <4>1 DEF Has
      <4> HIDE DEF m2
      <4> QED BY <1>14, <2>3, <4>2, SameGet
    <3> QED BY <3>1, <3>2
  <2> QED BY <2>2, <2>3
<1> QED BY <1>4, <1>10, <1>13, <1>14, <1>15

(* A key more, in a bucket that has room. *)
LEMMA AddedMap ==
    ASSUME NEW m, Sound(m), NEW k \in Key, ~pm_is_key(m, k), ~Crowded(m, k), NEW v \in Obj
    PROVE  LET m2 == Added(m, k, v)
           IN  /\ Sound(m2)
               /\ \A X : Cardinality(Slots(m2, X)) = Cardinality(Slots(m, X)) + One(v \in X)
               /\ \A k2 \in Key : pm_get(m2, k2) = IF k2 = k THEN v ELSE pm_get(m, k2)
               /\ m2.bk_gr_pref - Cardinality(Deep(m2.buckets))
                     = m.bk_gr_pref - Cardinality(Deep(m.buckets))
<1> DEFINE b == Index(k)
           s == m.buckets[b]
           n == Len(s)
           it == [key |-> k, val |-> v]
           m2 == Added(m, k, v)
           s2 == m2.buckets[b]
<1>1. /\ m \in PropMaps /\ Fits(m) /\ KeysOnce(m)
      /\ m.item_count = Cardinality(Slots(m, Obj))
      /\ m.bk_gr_pref >= Cardinality(Deep(m.buckets))
  BY SoundMeans
<1>2. /\ b \in Buckets /\ s = Bucket(m, k) /\ \A i \in 1 .. n : s[i].key # k
  BY GetMeans, IndexType DEF Bucket
<1>3. /\ s \in Seq(Item) /\ DOMAIN s = 1 .. n /\ n \in Nat /\ n < MaxDepth
      /\ \A i \in 1 .. n : s[i] \in Item
  <2>1. s \in Seq(Item) /\ DOMAIN s = 1 .. n /\ n \in Nat /\ n <= MaxDepth
        /\ \A i \in 1 .. n : s[i] \in Item
    BY <1>1, <1>2, BucketType DEF Fits
  <2>2. n # MaxDepth
    BY <1>2 DEF Crowded
  <2> QED BY <2>1, <2>2
<1>4. /\ m2.buckets = [m.buckets EXCEPT ![b] = Append(s, it)]
      /\ m2.bk_gr_pref = m.bk_gr_pref + One(n + 1 = PrefDepth)
      /\ m2.item_count = m.item_count + 1
      /\ m2 = [buckets |-> m2.buckets, bk_gr_pref |-> m2.bk_gr_pref,
               item_count |-> m2.item_count]
  <2>1. m.bk_gr_pref \in Nat
    BY <1>1 DEF PropMaps
  <2> QED BY <2>1 DEF Added, Bucket, One
<1>5. m.buckets \in [Buckets -> Seq(Item)] /\ m.bk_gr_pref \in Nat /\ m.item_count \in Nat
  BY <1>1 DEF PropMaps, Item
<1>6. /\ s2 = Append(s, it)
      /\ \A c \in Buckets : c # b => m2.buckets[c] = m.buckets[c]
  BY <1>2, <1>4, <1>5
<1>7. /\ s2 \in Seq(Item) /\ Len(s2) = n + 1
      /\ \A i \in 1 .. n : s2[i] = s[i]
      /\ s2[n + 1].key = k /\ s2[n + 1].val = v
  <2>1. it \in Item /\ it.key = k /\ it.val = v
    BY DEF Item
  <2> HIDE DEF it, s2, s
  <2> QED BY <1>3, <1>6, <2>1, AppendFacts
<1>8. m2 \in PropMaps
  <2>1. m2.buckets \in [Buckets -> Seq(Item)]
    BY <1>2, <1>4, <1>5, <1>6, <1>7
  <2>2. m2.bk_gr_pref \in Nat /\ m2.item_count \in Nat
    BY <1>4, <1>5 DEF One
  <2> HIDE DEF m2
  <2> QED BY <1>4, <2>1, <2>2 DEF PropMaps, Item
<1>9. Fits(m2)
  <2>1. \A c \in Buckets : Len(m2.buckets[c]) <= MaxDepth
    BY <1>1, <1>3, <1>6, <1>7, SMTT(30) DEF Fits
  <2> QED BY <1>8, <2>1 DEF Fits
<1>10. Cardinality(Deep(m2.buckets)) = Cardinality(Deep(m.buckets)) + One(n + 1 = PrefDepth)
  <2> DEFINE D == Deep(m.buckets)
             full == n + 1 = PrefDepth
  <2>1. full => b \notin D
    BY <1>3 DEF Deep
  <2>2. Deep(m2.buckets) = D \cup (IF full THEN {b} ELSE {})
    <3>1. ASSUME NEW c \in Buckets
          PROVE  Len(m2.buckets[c]) >= PrefDepth <=>
                    Len(m.buckets[c]) >= PrefDepth \/ (full /\ c = b)
      <4>1. CASE c # b
        BY <1>6, <4>1
      <4>2. CASE c = b
        <5>1. Len(m2.buckets[c]) = n + 1 /\ Len(m.buckets[c]) = n
          BY <1>7, <4>2
        <5> HIDE DEF m2, n
        <5> QED BY <1>3, <4>2, <5>1
      <4> QED BY <4>1, <4>2
    <3> HIDE DEF m2, full
    <3>2. CASE full
      BY <1>2, <3>1, <3>2 DEF Deep
    <3>3. CASE ~full
      BY <3>1, <3>3 DEF Deep
    <3> QED BY <3>2, <3>3
  <2>3. IsFiniteSet(D) /\ full \in BOOLEAN
    BY DeepFinite
  <2> HIDE DEF D, full
  <2>4. Cardinality(D \cup (IF full THEN {b} ELSE {})) = Cardinality(D) + One(full)
    <3> HIDE DEF b
    <3> QED BY <2>1, <2>3, OneMore
  <2> QED BY <2>2, <2>4 DEF D, full
<1>11. KeysOnce(m2)
  <2>1. ASSUME NEW c \in Buckets, NEW i \in 1 .. Len(m2.buckets[c])
        PROVE  /\ Index(m2.buckets[c][i].key) = c
               /\ \A j \in 1 .. Len(m2.buckets[c]) :
                     m2.buckets[c][j].key = m2.buckets[c][i].key => j = i
    <3>1. CASE c # b
      BY <1>1, <1>6, <3>1 DEF KeysOnce
    <3>2. CASE c = b
      <4>1. /\ \A j \in 1 .. n : Index(s[j].key) = b /\ s[j].key # k
            /\ \A l, j \in 1 .. n : s[j].key = s[l].key => j = l
        BY <1>1, <1>2 DEF KeysOnce
      <4>2. i \in 1 .. n + 1 /\ m2.buckets[c] = s2
        BY <1>7, <3>2
      <4>3. \A j \in 1 .. n + 1 : j \in 1 .. n \/ j = n + 1
        BY <1>3
      <4>4. \A j \in 1 .. n + 1 : s2[j].key = IF j = n + 1 THEN k ELSE s[j].key
        BY <1>3, <1>7, <4>3
      <4>5. b = Index(k) /\ n + 1 \notin 1 .. n
        BY <1>3
      <4> HIDE DEF m2, s2, s, n, b
      <4>6. Index(s2[i].key) = b
        BY <4>1, <4>2, <4>3, <4>4, <4>5
      <4>7. \A j \in 1 .. n + 1 : s2[j].key = s2[i].key => j = i
        <5> TAKE j \in 1 .. n + 1
        <5>1. CASE i = n + 1
          BY <4>1, <4>3, <4>4, <4>5, <5>1
        <5>2. CASE i \in 1 .. n
          BY <4>1, <4>2, <4>3, <4>4, <4>5, <5>2
        <5> QED BY <4>2, <4>3, <5>1, <5>2
      <4> QED BY <1>7, <3>2, <4>2, <4>6, <4>7
    <3> QED BY <3>1, <3>2
  <2> QED BY <2>1 DEF KeysOnce
<1>12. ASSUME NEW X
       PROVE  /\ Slots(m2, X) = Slots(m, X) \cup (IF v \in X THEN {<<b, n + 1>>} ELSE {})
              /\ <<b, n + 1>> \notin Slots(m, X)
  <2>1. \A c \in Buckets : DOMAIN m2.buckets[c] = IF c = b THEN 1 .. n + 1 ELSE DOMAIN m.buckets[c]
    <3>1. DOMAIN s2 = 1 .. n + 1
      <4>1. DOMAIN s2 = 1 .. Len(s2)
        BY <1>8, <1>2, BucketType
      <4> QED BY <1>7, <4>1
    <3> QED BY <1>6, <3>1
  <2>2. n + 1 \in 1 .. MaxDepth /\ n + 1 \notin DOMAIN s /\ n + 1 \in 1 .. n + 1
    BY <1>3
  <2>3. \A i : i \in 1 .. n + 1 /\ i # n + 1 <=> i \in DOMAIN s
    BY <1>3
  <2>4. <<b, n + 1>> \notin Slots(m, X)
    BY <2>2 DEF Slots
  <2>5. <<b, n + 1>> \in Slots(m2, X) <=> v \in X
    <3> HIDE DEF m2, n
    <3> QED BY <1>2, <1>7, <2>1, <2>2 DEF Slots
  <2>6. ASSUME NEW c \in Buckets, NEW i, <<c, i>> # <<b, n + 1>>
        PROVE  <<c, i>> \in Slots(m2, X) <=> <<c, i>> \in Slots(m, X)
    <3>1. CASE c # b
      BY <1>6, <3>1 DEF Slots
    <3>2. CASE c = b
      <4>1. i # n + 1
        BY <2>6, <3>2
      <4>2. i \in DOMAIN s2 <=> i \in DOMAIN s
        BY <1>2, <2>1, <2>3, <4>1
      <4>3. i \in DOMAIN s => s2[i] = s[i]
        BY <1>3, <1>7
      <4> HIDE DEF m2, n
      <4> QED BY <3>2, <4>2, <4>3 DEF Slots
    <3> QED BY <3>1, <3>2
  <2>7. \A q : q \in Slots(m, X) \cup Slots(m2, X) => q = <<q[1], q[2]>> /\ q[1] \in Buckets
    BY DEF Slots
  <2> HIDE DEF m2, n, b
  <2>8. ASSUME NEW q PROVE q \in Slots(m2, X) <=>
             q \in Slots(m, X) \cup (IF v \in X THEN {<<b, n + 1>>} ELSE {})
    <3>1. CASE q = <<b, n + 1>>
      BY <2>4, <2>5, <3>1
    <3>2. CASE q # <<b, n + 1>>
      BY <2>6, <2>7, <3>2
    <3> QED BY <3>1, <3>2
  <2> QED BY <2>4, <2>8
<1>13. \A X : Cardinality(Slots(m2, X)) = Cardinality(Slots(m, X)) + One(v \in X)
  <2> TAKE X
  <2> DEFINE A == Slots(m, X)
             q == <<b, n + 1>>
             z == v \in X
  <2>1. IsFiniteSet(A)
    BY SlotsFinite
  <2>2. q \notin A /\ Slots(m2, X) = A \cup (IF z THEN {q} ELSE {}) /\ z \in BOOLEAN
    BY <1>12
  <2> HIDE DEF A, q, z
  <2>3. Cardinality(A \cup (IF z THEN {q} ELSE {})) = Cardinality(A) + One(z)
    BY <2>1, <2>2, OneMore
  <2> QED BY <2>2, <2>3 DEF A, z
<1>14. /\ m2.bk_gr_pref >= Cardinality(Deep(m2.buckets))
       /\ m2.bk_gr_pref - Cardinality(Deep(m2.buckets))
            = m.bk_gr_pref - Cardinality(Deep(m.buckets))
  <2>1. Cardinality(Deep(m.buckets)) \in Nat /\ One(n + 1 = PrefDepth) \in Nat
    BY DeepFinite DEF One
  <2> HIDE DEF m2, n
  <2> QED BY <1>1, <1>4, <1>5, <1>10, <2>1
<1>15. Sound(m2)
  <2>1. Cardinality(Slots(m2, Obj)) = Cardinality(Slots(m, Obj)) + 1
    BY <1>13 DEF One
  <2> HIDE DEF m2
  <2>2. m2.item_count = Cardinality(Slots(m2, Obj))
    BY <1>1, <1>4, <2>1
  <2> QED BY <1>8, <1>9, <1>11, <1>14, <2>2, WellFormedMeans
<1>16. ASSUME NEW k2 \in Key
       PROVE  pm_get(m2, k2) = IF k2 = k THEN v ELSE pm_get(m, k2)
  <2>1. Index(k2) \in Buckets
    BY IndexType
  <2>2. CASE k2 = k
    <3>1. Has(m2, k, v)
      <4>1. Bucket(m2, k) = s2 /\ n + 1 \in 1 .. n + 1
        BY <1>3 DEF Bucket
      <4> HIDE DEF m2, n
      <4> QED BY <1>7, <4>1 DEF Has
    <3> QED BY <1>15, <2>2, <3>1, GetMeans
  <2>3. CASE k2 # k
    <3>1. \A w \in Obj : Has(m2, k2, w) <=> Has(m, k2, w)
      <4>1. CASE Index(k2) # b
        <5>1. Bucket(m2, k2) = Bucket(m, k2)
          BY <1>6, <2>1, <4>1 DEF Bucket
        <5> QED BY <5>1 DEF Has
      <4>2. CASE Index(k2) = b
        <5>1. Bucket(m2, k2) = s2 /\ Bucket(m, k2) = s
          BY <4>2 DEF Bucket
        <5>2. \A j \in 1 .. n + 1 : j \in 1 .. n \/ j = n + 1
          BY <1>3
        <5>3. \A j \in 1 .. n : j \in 1 .. n + 1
          BY <1>3
        <5>4. \A w \in Obj : Has(m2, k2, w) <=>
                 \E i \in 1 .. n + 1 : s2[i].key = k2 /\ s2[i].val = w
          BY <1>7, <5>1 DEF Has
        <5>5. \A w \in Obj : Has(m, k2, w) <=>
                 \E i \in 1 .. n : s[i].key = k2 /\ s[i].val = w
          BY <5>1 DEF Has
        <5>6. s2[n + 1].key # k2 /\ \A i \in 1 .. n : s2[i] = s[i]
          BY <1>7, <2>3
        <5> HIDE DEF m2, n, s, s2
        <5> QED BY <5>2, <5>3, <5>4, <5>5, <5>6
      <4> QED BY <4>1, <4>2
    <3> HIDE DEF m2
    <3> QED BY <1>15, <2>3, <3>1, SameGet
  <2> QED BY <2>2, <2>3
<1> QED BY <1>13, <1>14, <1>15, <1>16

(* A key less: the items behind its own move up. *)
LEMMA RemovedMap ==
    ASSUME NEW m, Sound(m), NEW k \in Key, pm_is_key(m, k)
    PROVE  LET m2 == Removed(m, k)
           IN  /\ Sound(m2)
               /\ \A X : Cardinality(Slots(m2, X)) =
                            Cardinality(Slots(m, X)) - One(pm_get(m, k) \in X)
               /\ \A k2 \in Key : pm_get(m2, k2) = IF k2 = k THEN NONE ELSE pm_get(m, k2)
<1> DEFINE b == Index(k)
           p == Position(m, k)
           s == m.buckets[b]
           n == Len(s)
           m2 == Removed(m, k)
           s2 == m2.buckets[b]
           old == pm_get(m, k)
<1>1. /\ m \in PropMaps /\ Fits(m) /\ KeysOnce(m)
      /\ m.item_count = Cardinality(Slots(m, Obj))
      /\ m.bk_gr_pref >= Cardinality(Deep(m.buckets))
  BY SoundMeans
<1>2. /\ b \in Buckets /\ s = Bucket(m, k)
      /\ p \in 1 .. n /\ s[p].key = k /\ s[p].val = old
  BY GetMeans, IndexType DEF Bucket
<1>3. /\ s \in Seq(Item) /\ DOMAIN s = 1 .. n /\ n \in Nat /\ n <= MaxDepth
      /\ \A i \in 1 .. n : s[i] \in Item
  BY <1>1, <1>2, BucketType DEF Fits
<1>4. old \in Obj
  BY <1>2, <1>3 DEF Item
<1>5. m.buckets \in [Buckets -> Seq(Item)] /\ m.bk_gr_pref \in Nat /\ m.item_count \in Nat
  BY <1>1 DEF PropMaps, Item
<1>6. /\ m2.buckets = [m.buckets EXCEPT ![b] = RemoveAt(s, p)]
      /\ m2.bk_gr_pref = m.bk_gr_pref
      /\ m2.item_count = m.item_count - 1
      /\ m2 = [buckets |-> m2.buckets, bk_gr_pref |-> m2.bk_gr_pref,
               item_count |-> m2.item_count]
  <2> DEFINE bs == [m.buckets EXCEPT ![b] = RemoveAt(s, p)]
  <2>1. m2 = [m EXCEPT !.buckets = bs, !.item_count = m.item_count - 1]
    BY DEF Removed
  <2> HIDE DEF bs, m2
  <2>2. /\ m2.buckets = bs /\ m2.bk_gr_pref = m.bk_gr_pref
        /\ m2.item_count = m.item_count - 1
    BY <1>1, <2>1 DEF PropMaps
  <2>3. m2 = [buckets |-> m2.buckets, bk_gr_pref |-> m2.bk_gr_pref,
               item_count |-> m2.item_count]
    BY <1>1, <2>1 DEF PropMaps
  <2> QED BY <2>2, <2>3 DEF bs
<1>7. /\ s2 = RemoveAt(s, p)
      /\ \A c \in Buckets : c # b => m2.buckets[c] = m.buckets[c]
  BY <1>2, <1>5, <1>6
<1>8. /\ s2 \in Seq(Item) /\ Len(s2) = n - 1
      /\ \A i \in 1 .. n - 1 : s2[i] = IF i < p THEN s[i] ELSE s[i + 1]
  <2> HIDE DEF s2, s, p
  <2> QED BY <1>2, <1>3, <1>7, RemoveAtFacts, ZenonT(40) DEF n
(* The places of the items that stay. *)
<1> DEFINE from(i) == IF i < p THEN i ELSE i + 1
           to(i) == IF i < p THEN i ELSE i - 1
<1>9. /\ \A i \in 1 .. n - 1 : from(i) \in 1 .. n /\ from(i) # p /\ to(from(i)) = i
                                 /\ s2[i] = s[from(i)]
      /\ \A i \in 1 .. n : i # p => to(i) \in 1 .. n - 1 /\ from(to(i)) = i
  <2>1. p \in Int /\ 1 <= p /\ p <= n /\ n \in Int
    BY <1>2, <1>3
  <2> DEFINE q == p
             l == n
  <2>2. q \in Int /\ 1 <= q /\ q <= l /\ l \in Int
    BY <2>1
  <2> HIDE DEF q, l
  <2>3. ASSUME NEW i \in 1 .. l - 1
        PROVE  LET f == IF i < q THEN i ELSE i + 1
               IN  f \in 1 .. l /\ f # q /\ (IF f < q THEN f ELSE f - 1) = i
    BY <2>2
  <2>4. ASSUME NEW i \in 1 .. l, i # q
        PROVE  LET t == IF i < q THEN i ELSE i - 1
               IN  t \in 1 .. l - 1 /\ (IF t < q THEN t ELSE t + 1) = i
    BY <2>2, <2>4
  <2>5. \A i \in 1 .. n - 1 : from(i) \in 1 .. n /\ from(i) # p /\ to(from(i)) = i
    BY <2>3, Zenon DEF q, l
  <2>6. \A i \in 1 .. n : i # p => to(i) \in 1 .. n - 1 /\ from(to(i)) = i
    BY <2>4, Zenon DEF q, l
  <2>7. \A i \in 1 .. n - 1 : s2[i] = s[from(i)]
    BY <1>8
  <2> QED BY <2>5, <2>6, <2>7
<1>10. m2 \in PropMaps /\ m.item_count # 0
  <2>1. m2.buckets \in [Buckets -> Seq(Item)]
    BY <1>2, <1>5, <1>6, <1>7, <1>8
  <2>2. m.item_count # 0
    <3>1. pm_get(m, k) # NONE
      BY GetMeans
    <3> QED BY <3>1 DEF pm_get
  <2>3. m2.item_count \in Nat
    BY <1>5, <1>6, <2>2
  <2> HIDE DEF m2
  <2> QED BY <1>5, <1>6, <2>1, <2>2, <2>3 DEF PropMaps, Item
<1>11. Fits(m2) /\ Deep(m2.buckets) \in SUBSET Deep(m.buckets)
  <2>1. \A c \in Buckets : Len(m2.buckets[c]) <= Len(m.buckets[c])
                              /\ Len(m.buckets[c]) \in Nat /\ Len(m2.buckets[c]) \in Nat
                              /\ Len(m.buckets[c]) <= MaxDepth
    <3> TAKE c \in Buckets
    <3>1. Len(m.buckets[c]) \in Nat /\ Len(m.buckets[c]) <= MaxDepth
      BY <1>1, BucketType DEF Fits
    <3>2. CASE c # b
      BY <1>7, <3>1, <3>2
    <3>3. CASE c = b
      <4>1. Len(m.buckets[c]) = n /\ Len(m2.buckets[c]) = n - 1 /\ n >= 1
        <5>1. Len(m.buckets[c]) = n /\ Len(m2.buckets[c]) = n - 1
          BY <1>8, <3>3
        <5> HIDE DEF n, m2, p
        <5>2. n >= 1
          BY <1>2, <1>3
        <5> QED BY <5>1, <5>2
      <4> HIDE DEF n, m2
      <4> QED BY <1>3, <3>1, <4>1
    <3> QED BY <3>2, <3>3
  <2> HIDE DEF m2
  <2>2. \A c \in Buckets : Len(m2.buckets[c]) <= MaxDepth
    BY <2>1
  <2>3. \A c \in Buckets : Len(m2.buckets[c]) >= PrefDepth => Len(m.buckets[c]) >= PrefDepth
    BY <2>1
  <2> QED BY <1>10, <2>2, <2>3 DEF Fits, Deep
<1>12. KeysOnce(m2)
  <2>1. ASSUME NEW c \in Buckets, NEW i \in 1 .. Len(m2.buckets[c])
        PROVE  /\ Index(m2.buckets[c][i].key) = c
               /\ \A j \in 1 .. Len(m2.buckets[c]) :
                     m2.buckets[c][j].key = m2.buckets[c][i].key => j = i
    <3>1. CASE c # b
      BY <1>1, <1>7, <3>1 DEF KeysOnce
    <3>2. CASE c = b
      <4>1. /\ \A j \in 1 .. n : Index(s[j].key) = b
            /\ \A l, j \in 1 .. n : s[j].key = s[l].key => j = l
        BY <1>1, <1>2 DEF KeysOnce
      <4>2. i \in 1 .. n - 1 /\ m2.buckets[c] = s2 /\ Len(s2) = n - 1
        BY <1>8, <3>2
      <4>3. \A j \in 1 .. n - 1 : from(j) \in 1 .. n /\ to(from(j)) = j /\ s2[j] = s[from(j)]
        BY <1>9
      <4> HIDE DEF m2, s2, s, n, b, from, to
      <4> QED BY <3>2, <4>1, <4>2, <4>3
    <3> QED BY <3>1, <3>2
  <2> QED BY <2>1 DEF KeysOnce
<1>13. ASSUME NEW X
       PROVE  Cardinality(Slots(m2, X)) = Cardinality(Slots(m, X)) - One(old \in X)
  <2> DEFINE A == Slots(m, X)
             q == <<b, p>>
             B == A \ {q}
             T == Slots(m2, X)
             g(r) == IF r[1] = b THEN <<b, to(r[2])>> ELSE r
             h(r) == IF r[1] = b THEN <<b, from(r[2])>> ELSE r
             f == [r \in B |-> g(r)]
  <2>1. /\ DOMAIN s2 = 1 .. n - 1
        /\ \A c \in Buckets : c # b => DOMAIN m2.buckets[c] = DOMAIN m.buckets[c]
    <3>1. DOMAIN s2 = 1 .. Len(s2)
      BY <1>2, <1>10, BucketType
    <3> QED BY <1>7, <1>8, <3>1
  <2>2. \A i \in 1 .. n : i \in 1 .. MaxDepth
    BY <1>3
  <2>3. \A i \in 1 .. n - 1 : i \in 1 .. MaxDepth
    BY <1>3
  <2>4. q \in A <=> old \in X
    BY <1>2, <1>3, <2>2 DEF Slots
  <2>5. ASSUME NEW r \in B PROVE g(r) \in T /\ h(g(r)) = r
    <3>1. /\ r[1] \in Buckets /\ r[2] \in 1 .. MaxDepth /\ r = <<r[1], r[2]>>
          /\ r[2] \in DOMAIN m.buckets[r[1]] /\ m.buckets[r[1]][r[2]].val \in X
          /\ r # <<b, p>>
      BY DEF Slots
    <3>2. CASE r[1] = b
      <4>1. r[2] \in 1 .. n /\ r[2] # p /\ s[r[2]].val \in X
        BY <1>3, <3>1, <3>2
      <4>2. to(r[2]) \in 1 .. n - 1 /\ from(to(r[2])) = r[2]
        BY <1>9, <4>1
      <4>3. s2[to(r[2])].val \in X
        BY <1>9, <4>1, <4>2
      <4> HIDE DEF from, to, m2, s2
      <4>4. <<b, to(r[2])>> \in T
        BY <1>2, <2>1, <2>3, <4>2, <4>3 DEF Slots, s2
      <4> QED BY <3>1, <3>2, <4>2, <4>4
    <3>3. CASE r[1] # b
      <4>1. r[2] \in DOMAIN m2.buckets[r[1]] /\ m2.buckets[r[1]][r[2]].val \in X
        BY <1>7, <2>1, <3>1, <3>3
      <4> HIDE DEF m2
      <4>2. r \in T
        BY <3>1, <4>1 DEF Slots
      <4> QED BY <3>3, <4>2
    <3> QED BY <3>2, <3>3
  <2>6. ASSUME NEW r \in T PROVE h(r) \in B /\ g(h(r)) = r
    <3>1. /\ r[1] \in Buckets /\ r[2] \in 1 .. MaxDepth /\ r = <<r[1], r[2]>>
          /\ r[2] \in DOMAIN m2.buckets[r[1]] /\ m2.buckets[r[1]][r[2]].val \in X
      BY DEF Slots
    <3>2. CASE r[1] = b
      <4>1. r[2] \in 1 .. n - 1 /\ s2[r[2]].val \in X
        BY <2>1, <3>1, <3>2
      <4>2. from(r[2]) \in 1 .. n /\ from(r[2]) # p /\ to(from(r[2])) = r[2]
            /\ s[from(r[2])].val \in X
        BY <1>9, <4>1
      <4> HIDE DEF from, to, m2
      <4>3. <<b, from(r[2])>> \in B
        BY <1>2, <1>3, <2>2, <4>2 DEF Slots
      <4> QED BY <3>1, <3>2, <4>2, <4>3
    <3>3. CASE r[1] # b
      <4>1. r[2] \in DOMAIN m.buckets[r[1]] /\ m.buckets[r[1]][r[2]].val \in X
        BY <1>7, <2>1, <3>1, <3>3
      <4>2. r # <<b, p>>
        BY <3>1, <3>3
      <4>3. r \in B
        BY <3>1, <4>1, <4>2 DEF Slots
      <4> QED BY <3>3, <4>3
    <3> QED BY <3>2, <3>3
  <2>7. IsFiniteSet(A)
    BY SlotsFinite
  <2> HIDE DEF A, T, q, g, h
  <2>8. IsFiniteSet(B) /\ Cardinality(B) = Cardinality(A) - One(q \in A)
    BY <2>7, OneLess
  <2> HIDE DEF B
  <2>9. /\ f \in [B -> T]
        /\ \A x, y \in B : f[x] = f[y] => x = y
        /\ \A y \in T : \E x \in B : f[x] = y
    <3>1. f \in [B -> T]
      BY <2>5
    <3>2. ASSUME NEW x \in B, NEW y \in B, f[x] = f[y] PROVE x = y
      <4>1. g(x) = g(y) /\ h(g(x)) = x /\ h(g(y)) = y
        BY <2>5, <3>2
      <4> QED BY <4>1
    <3>3. \A y \in T : f[h(y)] = y
      BY <2>6
    <3> QED BY <2>6, <3>1, <3>2, <3>3
  <2> HIDE DEF f
  <2>10. Cardinality(T) = Cardinality(B)
    BY <2>8, <2>9, SameSize
  <2>11. One(q \in A) = One(old \in X)
    BY <2>4 DEF One
  <2> QED BY <2>8, <2>10, <2>11 DEF A, T
<1>14. Sound(m2)
  <2>1. Cardinality(Slots(m2, Obj)) = Cardinality(Slots(m, Obj)) - 1
    BY <1>4, <1>13 DEF One
  <2>2. IsFiniteSet(Deep(m.buckets)) /\ Cardinality(Deep(m.buckets)) \in Nat
        /\ Cardinality(Deep(m2.buckets)) \in Nat
    BY DeepFinite
  <2>3. Cardinality(Deep(m2.buckets)) <= Cardinality(Deep(m.buckets))
    <3> HIDE DEF m2
    <3> QED BY <1>11, <2>2, FS_Subset
  <2> HIDE DEF m2
  <2>4. m2.item_count = Cardinality(Slots(m2, Obj))
    BY <1>1, <1>6, <2>1
  <2>5. m2.bk_gr_pref >= Cardinality(Deep(m2.buckets))
    BY <1>1, <1>5, <1>6, <2>2, <2>3
  <2> QED BY <1>10, <1>11, <1>12, <2>4, <2>5, WellFormedMeans
<1>15. ASSUME NEW k2 \in Key
       PROVE  pm_get(m2, k2) = IF k2 = k THEN NONE ELSE pm_get(m, k2)
  <2>1. Index(k2) \in Buckets
    BY IndexType
  <2>2. CASE Index(k2) # b
    <3>1. Bucket(m2, k2) = Bucket(m, k2)
      BY <1>7, <2>1, <2>2 DEF Bucket
    <3>2. \A w \in Obj : Has(m2, k2, w) <=> Has(m, k2, w)
      BY <3>1 DEF Has
    <3> HIDE DEF m2
    <3> QED BY <1>14, <2>2, <3>2, SameGet
  <2>3. CASE Index(k2) = b
    <3>1. Bucket(m2, k2) = s2 /\ Bucket(m, k2) = s
      BY <2>3 DEF Bucket
    <3>2. /\ \A w \in Obj : Has(m2, k2, w) <=>
                 \E i \in 1 .. n - 1 : s2[i].key = k2 /\ s2[i].val = w
          /\ \A w \in Obj : Has(m, k2, w) <=>
                 \E i \in 1 .. n : s[i].key = k2 /\ s[i].val = w
      BY <1>8, <3>1 DEF Has
    <3>3. /\ \A i \in 1 .. n - 1 : from(i) \in 1 .. n /\ from(i) # p /\ s2[i] = s[from(i)]
          /\ \A i \in 1 .. n : i # p => to(i) \in 1 .. n - 1 /\ from(to(i)) = i
      BY <1>9
    <3>4. \A i \in 1 .. n : s[i].key = k => i = p
      BY <1>1, <1>2 DEF KeysOnce
    <3>5. CASE k2 = k
      <4>1. \A w \in Obj : ~Has(m2, k2, w)
        <5> HIDE DEF m2, s2, s, n, from, to, p
        <5> QED BY <3>2, <3>3, <3>4, <3>5
      <4> HIDE DEF m2
      <4> QED BY <1>14, <3>5, <4>1, GetMeans
    <3>6. CASE k2 # k
      <4>1. \A w \in Obj : Has(m2, k2, w) <=> Has(m, k2, w)
        <5>1. s[p].key # k2
          BY <1>2, <3>6
        <5> HIDE DEF m2, s2, s, n, from, to, p
        <5> QED BY <3>2, <3>3, <5>1
      <4> HIDE DEF m2
      <4> QED BY <1>14, <3>6, <4>1, SameGet
    <3> QED BY <3>5, <3>6
  <2> QED BY <2>2, <2>3
<1> QED BY <1>13, <1>14, <1>15

(* The values of a map, and of whatever has it. *)
ValuesIn(m) == UNION {{m.buckets[b][i].val : i \in DOMAIN m.buckets[b]} : b \in Buckets}

LEMMA ValuesAreGets ==
    ASSUME NEW m, Sound(m)
    PROVE  /\ ValuesIn(m) \subseteq Obj
           /\ ValuesIn(m) = {pm_get(m, k) : k \in Key} \ {NONE}
           /\ \A v \in Obj : v \in ValuesIn(m) <=> Cardinality(Slots(m, {v})) # 0
           /\ \A v \in Obj : v \notin ValuesIn(m) <=> Slots(m, {v}) = {}
<1>1. ValuesIn(m) \subseteq Obj
  <2>1. m \in PropMaps
    BY SoundMeans
  <2> QED BY <2>1, BucketType DEF ValuesIn
<1>2. \A v \in Obj : v \in ValuesIn(m) <=> \E k \in Key : pm_get(m, k) = v
  BY SlotsAreValues DEF ValuesIn
<1>3. \A k \in Key : pm_get(m, k) \in Obj \cup {NONE}
  BY GetMeans
<1>4. ValuesIn(m) = {pm_get(m, k) : k \in Key} \ {NONE}
  BY <1>1, <1>2, <1>3
<1>5. \A v \in Obj : /\ v \in ValuesIn(m) <=> Cardinality(Slots(m, {v})) # 0
                     /\ v \notin ValuesIn(m) <=> Slots(m, {v}) = {}
  BY SlotsAreValues DEF ValuesIn
<1> QED BY <1>1, <1>4, <1>5

-----------------------------------------------------------------------------
(* References.                                                             *)

RefsIn(f, o) ==
    {r \in Owner \X Buckets \X (1 .. MaxDepth) : <<r[2], r[3]>> \in Slots(f[r[1]], {o})}

LEMMA ReferencesAre ==
    ASSUME NEW o
    PROVE  References(o) = RefsIn(pm, o) /\ References(o)' = RefsIn(pm', o)
<1>1. \A r \in Owner \X Buckets \X (1 .. MaxDepth) :
         <<r[2], r[3]>> \in Buckets \X (1 .. MaxDepth)
         /\ <<r[2], r[3]>>[1] = r[2] /\ <<r[2], r[3]>>[2] = r[3]
  OBVIOUS
<1> QED BY <1>1, Zenon DEF References, RefsIn, Slots

LEMMA RefsFinite ==
    ASSUME NEW f, NEW o
    PROVE  IsFiniteSet(RefsIn(f, o)) /\ Cardinality(RefsIn(f, o)) \in Nat
<1>1. IsFiniteSet(Owner)
  BY FS_Union DEF Owner
<1>2. IsFiniteSet(Owner \X (Buckets \X (1 .. MaxDepth)))
  BY <1>1, BucketsFinite, FS_Product
<1>3. IsFiniteSet(1 .. MaxDepth) /\ IsFiniteSet(Buckets)
  <2>1. MaxDepth \in Int /\ 1 \in Int /\ MaxDepth - 1 \in Int /\ 0 \in Int
    OBVIOUS
  <2> QED BY <2>1, FS_Interval DEF Buckets
<1> DEFINE P == Owner \X (Buckets \X (1 .. MaxDepth))
           T == Owner \X Buckets \X (1 .. MaxDepth)
           g == [p \in P |-> <<p[1], p[2][1], p[2][2]>>]
<1>4. \A p, q \in P : <<p[1], p[2][1], p[2][2]>> = <<q[1], q[2][1], q[2][2]>> => p = q
  <2>1. \A p \in P : p = <<p[1], <<p[2][1], p[2][2]>>>>
    OBVIOUS
  <2> QED BY <2>1
<1>5. \A t \in T : <<t[1], <<t[2], t[3]>>>> \in P /\ t = <<t[1], t[2], t[3]>>
  OBVIOUS
<1>6. \A p \in P : <<p[1], p[2][1], p[2][2]>> \in T
  OBVIOUS
<1>7. IsFiniteSet(T)
  <2>1. g \in [P -> T]
    BY <1>6
  <2>2. \A p, q \in P : g[p] = g[q] => p = q
    BY <1>4
  <2>3. \A t \in T : \E p \in P : g[p] = t
    <3> TAKE t \in T
    <3> DEFINE p == <<t[1], <<t[2], t[3]>>>>
    <3>1. p \in P /\ g[p] = <<t[1], t[2], t[3]>>
      BY <1>5
    <3> QED BY <1>5, <3>1
  <2> HIDE DEF g, P, T
  <2> QED BY <1>2, <2>1, <2>2, <2>3, SameSize DEF P
<1>8. RefsIn(f, o) \in SUBSET T
  BY DEF RefsIn
<1>9. IsFiniteSet(RefsIn(f, o))
  <2> HIDE DEF T
  <2> QED BY <1>7, <1>8, FS_Subset, Zenon
<1> QED BY <1>9, FS_CardinalityType, Zenon

(* The references of one owner are the slots of its map. *)
RefsBut(f, o, x) == {r \in RefsIn(f, o) : r[1] # x}

LEMMA RefsSplit ==
    ASSUME NEW f, NEW o, NEW x \in Owner
    PROVE  /\ Cardinality(RefsBut(f, o, x)) \in Nat
           /\ Cardinality(RefsIn(f, o)) =
                 Cardinality(RefsBut(f, o, x)) + Cardinality(Slots(f[x], {o}))
<1> DEFINE R == RefsIn(f, o)
           Rest == {r \in R : r[1] # x}
           Mine == {r \in R : r[1] = x}
           A == Slots(f[x], {o})
           g == [p \in A |-> <<x, p[1], p[2]>>]
<1>1. IsFiniteSet(R)
  BY RefsFinite
<1>2. R = Rest \cup Mine /\ Rest \cap Mine = {} /\ Rest \in SUBSET R /\ Mine \in SUBSET R
  OBVIOUS
<1>3. \A p \in A : /\ p[1] \in Buckets /\ p[2] \in 1 .. MaxDepth /\ p = <<p[1], p[2]>>
                   /\ <<x, p[1], p[2]>> \in Mine
  <2> TAKE p \in A
  <2>1. p[1] \in Buckets /\ p[2] \in 1 .. MaxDepth /\ p = <<p[1], p[2]>>
    BY DEF Slots
  <2> DEFINE r == <<x, p[1], p[2]>>
  <2>2. r[1] = x /\ r[2] = p[1] /\ r[3] = p[2] /\ r \in Owner \X Buckets \X (1 .. MaxDepth)
    BY <2>1
  <2>3. r \in Mine
    <3> HIDE DEF r
    <3> QED BY <2>1, <2>2 DEF RefsIn
  <2> QED BY <2>1, <2>3
<1>4. \A r \in Mine : <<r[2], r[3]>> \in A /\ r = <<x, r[2], r[3]>>
  BY DEF RefsIn
<1> HIDE DEF R, A, Mine, Rest
<1>5. g \in [A -> Mine]
  BY <1>3
<1>6. \A p, q \in A : g[p] = g[q] => p = q
  BY <1>3
<1>7. \A r \in Mine : \E p \in A : g[p] = r
  <2> TAKE r \in Mine
  <2> DEFINE p == <<r[2], r[3]>>
  <2>1. p \in A /\ p[1] = r[2] /\ p[2] = r[3]
    BY <1>4
  <2>2. g[p] = r
    BY <1>4, <2>1
  <2> QED BY <2>1, <2>2
<1>8. IsFiniteSet(A) /\ Cardinality(A) \in Nat
  BY SlotsFinite DEF A
<1>9. Cardinality(Mine) = Cardinality(A)
  <2> HIDE DEF g
  <2> QED BY <1>5, <1>6, <1>7, <1>8, SameSize
<1>10. IsFiniteSet(Rest) /\ IsFiniteSet(Mine)
  BY <1>1, <1>2, FS_Subset
<1>11. Cardinality(Rest) \in Nat
  BY <1>10, FS_CardinalityType
<1>12. Cardinality(R) = Cardinality(Rest) + Cardinality(Mine) - Cardinality(Rest \cap Mine)
  BY <1>2, <1>10, FS_Union
<1>13. Cardinality(Rest \cap Mine) = 0
  BY <1>2, FS_EmptySet
<1>14. Cardinality(R) = Cardinality(Rest) + Cardinality(A)
  BY <1>8, <1>9, <1>11, <1>12, <1>13
<1> QED BY <1>11, <1>14 DEF R, Rest, A, RefsBut

LEMMA RefsChange ==
    ASSUME NEW f \in [Owner -> PropMaps], NEW o, NEW x \in Owner, NEW m
    PROVE  Cardinality(RefsIn([f EXCEPT ![x] = m], o)) =
              Cardinality(RefsIn(f, o)) - Cardinality(Slots(f[x], {o}))
                 + Cardinality(Slots(m, {o}))
<1> DEFINE g == [f EXCEPT ![x] = m]
           A == RefsBut(f, o, x)
           B == RefsBut(g, o, x)
<1>1. g[x] = m /\ \A y \in Owner : y # x => g[y] = f[y]
  OBVIOUS
<1>2. A = B
  <2> HIDE DEF g
  <2>1. \A r \in Owner \X Buckets \X (1 .. MaxDepth) : r[1] \in Owner
    OBVIOUS
  <2> QED BY <1>1, <2>1 DEF RefsIn, RefsBut
<1>3. Cardinality(RefsIn(f, o)) = Cardinality(A) + Cardinality(Slots(f[x], {o}))
      /\ Cardinality(A) \in Nat
  BY RefsSplit
<1>4. Cardinality(RefsIn(g, o)) = Cardinality(B) + Cardinality(Slots(g[x], {o}))
  <2> HIDE DEF g
  <2> QED BY RefsSplit
<1>5. Cardinality(Slots(f[x], {o})) \in Nat /\ Cardinality(Slots(m, {o})) \in Nat
  BY SlotsFinite
<1> HIDE DEF g, A, B
<1>6. Cardinality(RefsIn(g, o)) = Cardinality(RefsIn(f, o))
           - Cardinality(Slots(f[x], {o})) + Cardinality(Slots(m, {o}))
  BY <1>1, <1>2, <1>3, <1>4, <1>5
<1> QED BY <1>6 DEF g

LEMMA RefsZero ==
    ASSUME NEW f, NEW o
    PROVE  /\ Cardinality(RefsIn(f, o)) = 0 => \A x \in Owner : Slots(f[x], {o}) = {}
           /\ (\A x \in Owner : Slots(f[x], {o}) = {}) => Cardinality(RefsIn(f, o)) = 0
           /\ \A x \in Owner : Cardinality(Slots(f[x], {o})) <= Cardinality(RefsIn(f, o))
<1>1. \A x \in Owner : Cardinality(Slots(f[x], {o})) <= Cardinality(RefsIn(f, o))
  <2> TAKE x \in Owner
  <2> DEFINE a == Cardinality(RefsBut(f, o, x))
             c == Cardinality(Slots(f[x], {o}))
  <2>1. Cardinality(RefsIn(f, o)) = a + c /\ a \in Nat /\ c \in Nat
    BY RefsSplit, SlotsFinite
  <2> HIDE DEF a, c
  <2>2. c <= Cardinality(RefsIn(f, o))
    BY <2>1
  <2> QED BY <2>2 DEF c
<1>2. ASSUME Cardinality(RefsIn(f, o)) = 0, NEW x \in Owner PROVE Slots(f[x], {o}) = {}
  <2>1. Cardinality(Slots(f[x], {o})) = 0
    BY <1>1, <1>2, SlotsFinite
  <2> QED BY <2>1, SlotsFinite, FS_EmptySet
<1>3. ASSUME \A x \in Owner : Slots(f[x], {o}) = {} PROVE Cardinality(RefsIn(f, o)) = 0
  <2>1. \A r \in Owner \X Buckets \X (1 .. MaxDepth) : r[1] \in Owner
    OBVIOUS
  <2>2. RefsIn(f, o) = {}
    BY <1>3, <2>1 DEF RefsIn
  <2> QED BY <2>2, FS_EmptySet
<1> QED BY <1>1, <1>2, <1>3

-----------------------------------------------------------------------------
(* Occurrences in a list of objects.                                       *)

LEMMA OccursSpots ==
    ASSUME NEW s \in Seq(Obj), NEW o
    PROVE  Occurs(o, s) = Cardinality(Spots(s, {o})) /\ Occurs(o, s) \in Nat
<1>1. {i \in DOMAIN s : s[i] = o} = Spots(s, {o})
  BY DEF Spots
<1> QED BY <1>1, SpotsFinite DEF Occurs

LEMMA OccursConcat ==
    ASSUME NEW s \in Seq(Obj), NEW t \in Seq(Obj), NEW o
    PROVE  Occurs(o, s \o t) = Occurs(o, s) + Occurs(o, t)
<1>1. s \o t \in Seq(Obj)
  OBVIOUS
<1>2. /\ Occurs(o, s \o t) = Cardinality(Spots(s \o t, {o}))
      /\ Occurs(o, s) = Cardinality(Spots(s, {o}))
      /\ Occurs(o, t) = Cardinality(Spots(t, {o}))
  BY <1>1, OccursSpots, Zenon
<1>3. Cardinality(Spots(s \o t, {o})) = Cardinality(Spots(s, {o})) + Cardinality(Spots(t, {o}))
  BY CountOfConcat
<1> QED BY <1>2, <1>3

LEMMA OccursOne ==
    ASSUME NEW v \in Obj, NEW o
    PROVE  Occurs(o, <<v>>) = One(o = v)
<1>1. CASE o = v
  <2>1. {i \in DOMAIN <<v>> : <<v>>[i] = o} = {1}
    BY <1>1
  <2> QED BY <1>1, <2>1, FS_Singleton DEF Occurs, One
<1>2. CASE o # v
  <2>1. {i \in DOMAIN <<v>> : <<v>>[i] = o} = {}
    BY <1>2
  <2> QED BY <1>2, <2>1, FS_EmptySet DEF Occurs, One
<1> QED BY <1>1, <1>2

LEMMA OccursNone ==
    ASSUME NEW o
    PROVE  Occurs(o, <<>>) = 0
<1>1. {i \in DOMAIN <<>> : <<>>[i] = o} = {}
  OBVIOUS
<1> QED BY <1>1, FS_EmptySet DEF Occurs

LEMMA OccursHead ==
    ASSUME NEW s \in Seq(Obj), s # <<>>, NEW o
    PROVE  /\ Head(s) \in Obj /\ Tail(s) \in Seq(Obj)
           /\ Occurs(o, s) = One(o = Head(s)) + Occurs(o, Tail(s))
<1>1. Head(s) \in Obj /\ Tail(s) \in Seq(Obj) /\ <<Head(s)>> \o Tail(s) = s
  BY HeadTail
<1> DEFINE h == Head(s)
           t == Tail(s)
<1>2. h \in Obj /\ t \in Seq(Obj) /\ <<h>> \o t = s
  BY <1>1
<1> HIDE DEF h, t
<1>3. <<h>> \in Seq(Obj)
  BY <1>2
<1>4. Occurs(o, <<h>> \o t) = Occurs(o, <<h>>) + Occurs(o, t)
  BY <1>2, <1>3, OccursConcat
<1>5. Occurs(o, s) = One(o = h) + Occurs(o, t)
  BY <1>2, <1>4, OccursOne
<1> QED BY <1>2, <1>5 DEF h, t

(* What occurs, occurs somewhere. *)
LEMMA OccursWhere ==
    ASSUME NEW s \in Seq(Obj), NEW o
    PROVE  Occurs(o, s) # 0 <=> \E i \in 1 .. Len(s) : s[i] = o
<1>1. IsFiniteSet(Spots(s, {o})) /\ Occurs(o, s) = Cardinality(Spots(s, {o}))
  BY SpotsFinite, OccursSpots
<1>2. Occurs(o, s) # 0 <=> Spots(s, {o}) # {}
  BY <1>1, FS_EmptySet
<1> QED BY <1>2 DEF Spots

-----------------------------------------------------------------------------
(* What IInv says of single objects and owners.                            *)

LEMMA MapsSound ==
    ASSUME TypeOK
    PROVE  \A x \in Owner :
              /\ Sound(pm[x])
              /\ ValuesOf(x) = ValuesIn(pm[x])
              /\ ValuesOf(x) \subseteq Obj
<1> TAKE x \in Owner
<1>1. Sound(pm[x])
  BY DEF TypeOK, Sound
<1>2. ValuesOf(x) = ValuesIn(pm[x])
  BY DEF ValuesOf, ValuesIn
<1> QED BY <1>1, <1>2, ValuesAreGets

LEMMA CountFacts ==
    ASSUME IInv, NEW o \in Obj
    PROVE  /\ refcount[o] \in Nat /\ refcount[o] <= SizeMax
           /\ held[o] \in Nat /\ lost[o] \in Nat /\ Occurs(o, todo) \in Nat
           /\ Cardinality(RefsIn(pm, o)) \in Nat
           /\ refcount[o] = held[o] + lost[o] + Cardinality(RefsIn(pm, o)) + Occurs(o, todo)
           /\ o \in Existing <=> refcount[o] # 0
           /\ o \in Existing <=> kind[o] # "none"
<1>1. todo \in Seq(Obj) /\ refcount[o] \in 0 .. SizeMax /\ held[o] \in 0 .. MaxHeld
      /\ lost[o] \in 0 .. SizeMax
  BY DEF IInv, TypeOK
<1>2. Occurs(o, todo) \in Nat /\ Cardinality(RefsIn(pm, o)) \in Nat
  BY <1>1, OccursSpots, RefsFinite
<1> QED BY <1>1, <1>2, ReferencesAre DEF IInv, Existing

LEMMA ExistingFacts ==
    ASSUME IInv
    PROVE  /\ \A o \in Obj : held[o] # 0 \/ lost[o] # 0 => o \in Existing
           /\ \A x \in Owner : ValuesOf(x) \subseteq Existing
           /\ todo # <<>> => Head(todo) \in Existing
<1>1. \A o \in Obj : held[o] # 0 \/ lost[o] # 0 => o \in Existing
  BY CountFacts
<1>4. \A v \in Obj : Cardinality(RefsIn(pm, v)) # 0 => v \in Existing
  <2> TAKE v \in Obj
  <2> DEFINE n == Cardinality(RefsIn(pm, v))
  <2>1. /\ refcount[v] = held[v] + lost[v] + n + Occurs(v, todo)
        /\ n \in Nat /\ held[v] \in Nat /\ lost[v] \in Nat /\ Occurs(v, todo) \in Nat
        /\ v \in Existing <=> refcount[v] # 0
    BY CountFacts
  <2> HIDE DEF n
  <2>2. n # 0 => v \in Existing
    BY <2>1
  <2> QED BY <2>2 DEF n
<1>2. ASSUME NEW x \in Owner, NEW v \in ValuesOf(x) PROVE v \in Existing
  <2>1. Sound(pm[x]) /\ v \in ValuesIn(pm[x]) /\ v \in Obj
    BY <1>2, MapsSound DEF IInv
  <2>2. Cardinality(Slots(pm[x], {v})) # 0 /\ Cardinality(Slots(pm[x], {v})) \in Nat
    BY <2>1, ValuesAreGets, SlotsFinite
  <2>3. Cardinality(Slots(pm[x], {v})) <= Cardinality(RefsIn(pm, v))
        /\ Cardinality(RefsIn(pm, v)) \in Nat
    BY RefsZero, RefsFinite
  <2>4. Cardinality(RefsIn(pm, v)) # 0
    BY <2>2, <2>3
  <2> QED BY <1>4, <2>1, <2>4
<1>3. ASSUME todo # <<>> PROVE Head(todo) \in Existing
  <2>1. todo \in Seq(Obj)
    BY DEF IInv, TypeOK
  <2> DEFINE h == Head(todo)
  <2>2. h \in Obj /\ Tail(todo) \in Seq(Obj) /\ Occurs(h, todo) = One(h = h) + Occurs(h, Tail(todo))
    BY <1>3, <2>1, OccursHead
  <2>3. Occurs(h, Tail(todo)) \in Nat
    BY <2>2, OccursSpots
  <2>4. Occurs(h, todo) # 0
    BY <2>2, <2>3 DEF One
  <2> QED BY <2>2, <2>4, CountFacts, SMTT(30)
<1> QED BY <1>1, <1>2, <1>3

-----------------------------------------------------------------------------
(* Reachability, of any values.                                            *)

(* vals[o] are the values of o. *)
Closed(vals, T) == T \subseteq Obj /\ \A o \in T : vals[o] \subseteq T
ReachBy(vals, S) ==
    {o \in Obj : \A T \in SUBSET Obj : Closed(vals, T) /\ S \subseteq T => o \in T}

Vals == [o \in Obj |-> ValuesOf(o)]

LEMMA ReachIs ==
    /\ \A S : Reach(S) = ReachBy(Vals, S)
    /\ \A S : Reach(S)' = ReachBy(Vals', S')
    /\ \A o \in Obj : Vals[o] = ValuesOf(o) /\ Vals'[o] = ValuesOf(o)'
<1>1. \A S : Reach(S) = ReachBy(Vals, S)
  BY DEF Reach, ClosedSets, ReachBy, Closed, Vals
<1>2. \A S : Reach(S)' = ReachBy(Vals', S')
  BY DEF Reach, ClosedSets, ReachBy, Closed, Vals
<1> QED BY <1>1, <1>2 DEF Vals

(* What can be reached is the least closed set. *)
LEMMA ReachFacts ==
    ASSUME NEW vals \in [Obj -> SUBSET Obj], NEW S, S \subseteq Obj
    PROVE  /\ S \subseteq ReachBy(vals, S)
           /\ Closed(vals, ReachBy(vals, S))
           /\ \A T : Closed(vals, T) /\ S \subseteq T => ReachBy(vals, S) \subseteq T
  BY DEF ReachBy, Closed

LEMMA ReachMore ==
    ASSUME NEW vals \in [Obj -> SUBSET Obj], NEW S, NEW T, S \subseteq T, T \subseteq Obj
    PROVE  ReachBy(vals, S) \subseteq ReachBy(vals, T)
  BY DEF ReachBy

LEMMA ValsType ==
    ASSUME TypeOK
    PROVE  Vals \in [Obj -> SUBSET Obj]
  BY MapsSound DEF Vals, Owner

(* Callers can only use what exists. *)
LEMMA UsableExists ==
    ASSUME IInv
    PROVE  /\ Roots \subseteq Existing /\ Roots \subseteq Obj
           /\ Usable \subseteq Existing /\ Usable \subseteq Obj
           /\ \A o \in Existing : Reach({o}) \subseteq Existing
<1>1. Existing \subseteq Obj
  BY DEF Existing
<1>2. \A o \in Obj : held[o] > 0 => o \in Existing
  BY ExistingFacts, CountFacts
<1>3. Roots \subseteq Existing
  BY <1>2, ExistingFacts DEF Roots, Owner
<1>4. Closed(Vals, Existing)
  BY <1>1, ExistingFacts DEF Closed, Vals, Owner
<1>5. Vals \in [Obj -> SUBSET Obj]
  BY ValsType DEF IInv
<1>6. ReachBy(Vals, Roots) \subseteq Existing
  BY <1>1, <1>3, <1>4, <1>5, ReachFacts
<1>7. ASSUME NEW o \in Existing PROVE Reach({o}) \subseteq Existing
  <2>1. ReachBy(Vals, {o}) \subseteq Existing
    BY <1>1, <1>4, <1>5, ReachFacts
  <2> QED BY <2>1, ReachIs
<1> QED BY <1>1, <1>3, <1>6, <1>7, ReachIs DEF Usable

-----------------------------------------------------------------------------
(* The inductive invariant.                                                *)

(* A new map for an owner, or none. *)
LEMMA MapStep ==
    ASSUME TypeOK, NEW x \in Owner, NEW m, Sound(m), pm' = [pm EXCEPT ![x] = m]
    PROVE  /\ pm' \in [Owner -> PropMaps] /\ \A y \in Owner : WellFormed(pm'[y])
           /\ pm'[x] = m /\ \A y \in Owner : y # x => pm'[y] = pm[y]
           /\ \A o \in Obj : Cardinality(References(o)') = Cardinality(RefsIn(pm, o))
                 - Cardinality(Slots(pm[x], {o})) + Cardinality(Slots(m, {o}))
<1>1. pm \in [Owner -> PropMaps] /\ \A y \in Owner : WellFormed(pm[y])
  BY DEF TypeOK
<1>2. m \in PropMaps /\ WellFormed(m)
  BY DEF Sound
<1>3. pm'[x] = m /\ \A y \in Owner : y # x => pm'[y] = pm[y]
  BY <1>1
<1>4. pm' \in [Owner -> PropMaps] /\ \A y \in Owner : WellFormed(pm'[y])
  BY <1>1, <1>2, <1>3
<1>5. \A o \in Obj : Cardinality(RefsIn(pm', o)) = Cardinality(RefsIn(pm, o))
                 - Cardinality(Slots(pm[x], {o})) + Cardinality(Slots(m, {o}))
  BY <1>1, RefsChange
<1> QED BY <1>3, <1>4, <1>5, ReferencesAre

LEMMA MapsStay ==
    ASSUME pm' = pm, NEW o
    PROVE  Cardinality(References(o)') = Cardinality(RefsIn(pm, o))
  BY ReferencesAre

(* A value that is set is one that exists, and a map has no others. *)
LEMMA SlotsBound ==
    ASSUME IInv, NEW x \in Owner, NEW o \in Obj
    PROVE  /\ Cardinality(Slots(pm[x], {o})) \in Nat
           /\ Cardinality(Slots(pm[x], {o})) <= Cardinality(RefsIn(pm, o))
           /\ kind[o] = "none" => Cardinality(Slots(pm[x], {o})) = 0
<1> DEFINE c == Cardinality(Slots(pm[x], {o}))
           n == Cardinality(RefsIn(pm, o))
<1>1. c \in Nat /\ c <= n
  BY RefsZero, SlotsFinite
<1>2. /\ refcount[o] = held[o] + lost[o] + n + Occurs(o, todo)
      /\ n \in Nat /\ held[o] \in Nat /\ lost[o] \in Nat /\ Occurs(o, todo) \in Nat
      /\ o \in Existing <=> refcount[o] # 0
  BY CountFacts
<1>3. o \in Existing <=> kind[o] # "none"
  BY CountFacts
<1> HIDE DEF c, n
<1>4. o \notin Existing => c = 0
  BY <1>1, <1>2
<1>5. kind[o] = "none" => c = 0
  BY <1>3, <1>4, Zenon
<1> QED BY <1>1, <1>5 DEF c, n

(* The parts of IInv after a step. *)
LEMMA Rebuild ==
    ASSUME kind' \in [Obj -> {"none", "dynamic"} \cup LiteralKind],
           refcount' \in [Obj -> Nat], \A o \in Obj : refcount'[o] <= SizeMax,
           todo' \in Seq(Obj), held' \in [Obj -> 0 .. MaxHeld], lost' \in [Obj -> Nat],
           wrecked' \subseteq Owner,
           pm' \in [Owner -> PropMaps], \A x \in Owner : WellFormed(pm'[x]),
           \A o \in Obj : kind'[o] # "dynamic" => pm'[o] = pm_new,
           \A o \in Obj : pm'[o].bk_gr_pref = Cardinality(Deep(pm'[o].buckets)),
           \A o \in Obj : refcount'[o] = 0 <=> kind'[o] = "none",
           \A o \in Obj : refcount'[o] = held'[o] + lost'[o] + Cardinality(References(o)')
                                            + Occurs(o, todo')
    PROVE  IInv'
<1>1. refcount' \in [Obj -> 0 .. SizeMax]
  OBVIOUS
<1>2. ASSUME NEW o \in Obj PROVE lost'[o] <= SizeMax
  <2> DEFINE n == Cardinality(References(o)')
             t == Occurs(o, todo')
  <2>1. n \in Nat
    BY ReferencesAre, RefsFinite
  <2>2. t \in Nat
    BY OccursSpots
  <2>3. refcount'[o] = held'[o] + lost'[o] + n + t /\ held'[o] \in Nat /\ lost'[o] \in Nat
        /\ refcount'[o] <= SizeMax
    OBVIOUS
  <2> HIDE DEF n, t
  <2> QED BY <2>1, <2>2, <2>3
<1>3. lost' \in [Obj -> 0 .. SizeMax]
  BY <1>2
<1> QED BY <1>1, <1>3 DEF IInv, TypeOK

LEMMA TypeFacts ==
    ASSUME IInv
    PROVE  /\ kind \in [Obj -> {"none", "dynamic"} \cup LiteralKind]
           /\ refcount \in [Obj -> 0 .. SizeMax] /\ refcount \in [Obj -> Nat]
           /\ todo \in Seq(Obj)
           /\ held \in [Obj -> 0 .. MaxHeld]
           /\ lost \in [Obj -> Nat]
           /\ wrecked \subseteq Owner
           /\ pm \in [Owner -> PropMaps]
           /\ \A x \in Owner : WellFormed(pm[x])
           /\ \A o \in Obj : kind[o] # "dynamic" => pm[o] = pm_new
           /\ \A o \in Obj : pm[o].bk_gr_pref = Cardinality(Deep(pm[o].buckets))
           /\ \A o \in Obj : refcount[o] = 0 <=> kind[o] = "none"
<1>1. lost \in [Obj -> 0 .. SizeMax] /\ refcount \in [Obj -> 0 .. SizeMax]
  BY DEF IInv, TypeOK
<1>2. lost \in [Obj -> Nat] /\ refcount \in [Obj -> Nat]
  BY <1>1
<1> QED BY <1>1, <1>2 DEF IInv, TypeOK

LEMMA NewKeeps ==
    ASSUME IInv, NEW o \in Obj, NEW t, t \in LiteralKind \cup {"dynamic"}, New(o, t)
    PROVE  IInv'
<1>1. /\ todo = <<>> /\ kind[o] = "none"
      /\ kind' = [kind EXCEPT ![o] = t] /\ refcount' = [refcount EXCEPT ![o] = 1]
      /\ held' = [held EXCEPT ![o] = 1] /\ pm' = [pm EXCEPT ![o] = pm_new]
      /\ todo' = todo /\ lost' = lost /\ wrecked' = wrecked
  BY DEF New, Idle
<1>2. TypeOK /\ \A p \in Obj : /\ refcount[p] = 0 <=> kind[p] = "none"
                               /\ pm[p].bk_gr_pref = Cardinality(Deep(pm[p].buckets))
  BY DEF IInv
<1>3. pm' = pm
  <2>1. pm[o] = pm_new /\ pm \in [Owner -> PropMaps] /\ o \in Owner
    BY <1>1, <1>2 DEF TypeOK, Owner
  <2> HIDE DEF pm_new
  <2> QED BY <1>1, <2>1
<1>4. \A p \in Obj : refcount'[p] = held'[p] + lost'[p] + Cardinality(References(p)')
                                       + Occurs(p, todo')
  <2> TAKE p \in Obj
  <2> DEFINE n == Cardinality(RefsIn(pm, p))
             z == Occurs(p, todo)
  <2>1. /\ refcount[p] = held[p] + lost[p] + n + z
        /\ n \in Nat /\ held[p] \in Nat /\ lost[p] \in Nat /\ z \in Nat
    BY CountFacts
  <2>2. Cardinality(References(p)') = n
    BY <1>3, MapsStay
  <2>3. refcount \in [Obj -> 0 .. SizeMax] /\ held \in [Obj -> 0 .. MaxHeld]
    BY <1>2 DEF TypeOK
  <2>4. refcount[o] = 0
    BY <1>1, <1>2
  <2> HIDE DEF n, z
  <2>5. CASE p = o
    <3>1. refcount'[p] = 1 /\ held'[p] = 1 /\ refcount[p] = 0
      BY <1>1, <2>3, <2>4, <2>5
    <3>2. n = 0 /\ z = 0 /\ lost[p] = 0
      BY <2>1, <3>1
    <3> QED BY <1>1, <2>2, <3>1, <3>2 DEF z
  <2>6. CASE p # o
    <3>1. refcount'[p] = refcount[p] /\ held'[p] = held[p]
      BY <1>1, <2>3, <2>6
    <3> QED BY <1>1, <2>1, <2>2, <3>1 DEF z
  <2> QED BY <2>5, <2>6
<1>5. \A p \in Obj : refcount'[p] = 0 <=> kind'[p] = "none"
  <2>1. t # "none"
    OBVIOUS
  <2>2. kind \in [Obj -> {"none", "dynamic"} \cup LiteralKind] /\ refcount \in [Obj -> 0 .. SizeMax]
    BY <1>2 DEF TypeOK
  <2>3. 1 # 0
    OBVIOUS
  <2> QED BY <1>1, <1>2, <2>1, <2>2, <2>3, Zenon
<1>6. \A p \in Obj : kind'[p] # "dynamic" => pm'[p] = pm_new
  <2>1. pm[o] = pm_new
    BY <1>1, <1>2 DEF TypeOK
  <2> HIDE DEF pm_new
  <2> QED BY <1>1, <1>2, <1>3, <2>1 DEF TypeOK
<1>7. refcount' \in [Obj -> Nat] /\ \A p \in Obj : refcount'[p] <= SizeMax
  BY <1>1, <1>2 DEF TypeOK
<1>8. held' \in [Obj -> 0 .. MaxHeld]
  BY <1>1, <1>2 DEF TypeOK
<1>9. kind' \in [Obj -> {"none", "dynamic"} \cup LiteralKind]
  BY <1>1, <1>2 DEF TypeOK
<1>10. /\ todo' \in Seq(Obj) /\ lost' \in [Obj -> Nat] /\ wrecked' \subseteq Owner
       /\ pm' \in [Owner -> PropMaps] /\ \A x \in Owner : WellFormed(pm'[x])
       /\ \A p \in Obj : pm'[p].bk_gr_pref = Cardinality(Deep(pm'[p].buckets))
  BY <1>1, <1>3, TypeFacts
<1> QED BY <1>4, <1>5, <1>6, <1>7, <1>8, <1>9, <1>10, Rebuild

LEMMA ClaimKeeps ==
    ASSUME IInv, NEW o \in Existing, ctno_claim(o)
    PROVE  IInv'
<1>1. /\ todo = <<>> /\ held[o] < MaxHeld /\ refcount[o] # SizeMax
      /\ refcount' = [refcount EXCEPT ![o] = @ + 1]
      /\ held' = [held EXCEPT ![o] = @ + 1]
      /\ kind' = kind /\ pm' = pm /\ todo' = todo /\ lost' = lost /\ wrecked' = wrecked
  BY DEF ctno_claim, Idle
<1>2. TypeOK /\ \A p \in Obj : /\ refcount[p] = 0 <=> kind[p] = "none"
                               /\ pm[p].bk_gr_pref = Cardinality(Deep(pm[p].buckets))
  BY DEF IInv
<1>3. refcount \in [Obj -> 0 .. SizeMax] /\ held \in [Obj -> 0 .. MaxHeld]
  BY <1>2 DEF TypeOK
<1>4. o \in Obj /\ refcount[o] # 0
  BY CountFacts DEF Existing
<1>5. ASSUME NEW p \in Obj
      PROVE  /\ refcount'[p] = refcount[p] + One(p = o)
             /\ held'[p] = held[p] + One(p = o)
             /\ refcount[p] \in Nat /\ held[p] \in Nat /\ One(p = o) \in Nat
  BY <1>1, <1>3 DEF One
<1>6. \A p \in Obj : refcount'[p] = held'[p] + lost'[p] + Cardinality(References(p)')
                                       + Occurs(p, todo')
  <2> TAKE p \in Obj
  <2> DEFINE n == Cardinality(RefsIn(pm, p))
             z == Occurs(p, todo)
  <2>1. /\ refcount[p] = held[p] + lost[p] + n + z
        /\ n \in Nat /\ held[p] \in Nat /\ lost[p] \in Nat /\ z \in Nat
    BY CountFacts
  <2>2. Cardinality(References(p)') = n
    BY <1>1, MapsStay
  <2>3. Occurs(p, todo') = z /\ lost'[p] = lost[p]
    BY <1>1
  <2> HIDE DEF n, z
  <2> QED BY <1>5, <2>1, <2>2, <2>3
<1>7. \A p \in Obj : refcount'[p] = 0 <=> kind'[p] = "none"
  <2>1. \A p \in Obj : refcount'[p] = 0 <=> refcount[p] = 0
    BY <1>4, <1>5 DEF One
  <2> QED BY <1>1, <1>2, <2>1
<1>8. refcount' \in [Obj -> Nat] /\ \A p \in Obj : refcount'[p] <= SizeMax
  <2>1. refcount' \in [Obj -> Nat]
    BY <1>1, <1>3, <1>4
  <2>2. \A p \in Obj : refcount'[p] <= SizeMax
    BY <1>1, <1>3, <1>4
  <2> QED BY <2>1, <2>2
<1>9. held' \in [Obj -> 0 .. MaxHeld]
  BY <1>1, <1>3, <1>4
<1>10. /\ todo' \in Seq(Obj) /\ lost' \in [Obj -> Nat] /\ wrecked' \subseteq Owner
       /\ pm' \in [Owner -> PropMaps] /\ \A x \in Owner : WellFormed(pm'[x])
       /\ \A p \in Obj : pm'[p].bk_gr_pref = Cardinality(Deep(pm'[p].buckets))
       /\ kind' \in [Obj -> {"none", "dynamic"} \cup LiteralKind]
       /\ \A p \in Obj : kind'[p] # "dynamic" => pm'[p] = pm_new
  BY <1>1, TypeFacts
<1> QED BY <1>6, <1>7, <1>8, <1>9, <1>10, Rebuild

LEMMA ReleaseKeeps ==
    ASSUME IInv, NEW o \in Obj, Release(o)
    PROVE  IInv'
<1>1. /\ todo = <<>> /\ held[o] > 0
      /\ held' = [held EXCEPT ![o] = @ - 1] /\ todo' = <<o>>
      /\ kind' = kind /\ pm' = pm /\ refcount' = refcount /\ lost' = lost
      /\ wrecked' = wrecked
  BY DEF Release, Idle
<1>2. held \in [Obj -> 0 .. MaxHeld]
  BY TypeFacts
<1>3. held' \in [Obj -> 0 .. MaxHeld]
  BY <1>1, <1>2
<1>4. \A p \in Obj : refcount'[p] = held'[p] + lost'[p] + Cardinality(References(p)')
                                       + Occurs(p, todo')
  <2> TAKE p \in Obj
  <2> DEFINE n == Cardinality(RefsIn(pm, p))
             z == Occurs(p, todo')
  <2>1. /\ refcount[p] = held[p] + lost[p] + n + Occurs(p, todo)
        /\ n \in Nat /\ held[p] \in Nat /\ lost[p] \in Nat
    BY CountFacts
  <2>2. Cardinality(References(p)') = n
    BY <1>1, MapsStay
  <2>3. Occurs(p, todo) = 0
    BY <1>1, OccursNone
  <2>4. z = One(p = o) /\ One(p = o) \in Nat
    BY <1>1, OccursOne DEF One
  <2>5. held'[p] = held[p] - One(p = o)
    BY <1>1, <1>2 DEF One
  <2> HIDE DEF n, z
  <2>6. refcount'[p] = held'[p] + lost'[p] + n + z
    BY <1>1, <2>1, <2>3, <2>4, <2>5, SMTT(30)
  <2> QED BY <2>2, <2>6 DEF z
<1>5. todo' \in Seq(Obj)
  BY <1>1
<1>6. \A p \in Obj : refcount'[p] <= SizeMax
  BY <1>1, TypeFacts
<1>7. /\ kind' \in [Obj -> {"none", "dynamic"} \cup LiteralKind]
      /\ refcount' \in [Obj -> Nat] /\ lost' \in [Obj -> Nat] /\ wrecked' \subseteq Owner
      /\ pm' \in [Owner -> PropMaps] /\ \A x \in Owner : WellFormed(pm'[x])
      /\ \A p \in Obj : kind'[p] # "dynamic" => pm'[p] = pm_new
      /\ \A p \in Obj : pm'[p].bk_gr_pref = Cardinality(Deep(pm'[p].buckets))
      /\ \A p \in Obj : refcount'[p] = 0 <=> kind'[p] = "none"
  BY <1>1, TypeFacts
<1> QED BY <1>3, <1>4, <1>5, <1>6, <1>7, Rebuild

LEMMA FreeStepKeeps ==
    ASSUME IInv, FreeStep
    PROVE  IInv'
<1> DEFINE o == Head(todo)
           t == Tail(todo)
<1>1. /\ todo # <<>>
      /\ refcount' = [refcount EXCEPT ![o] = @ - 1]
      /\ held' = held /\ lost' = lost /\ wrecked' = wrecked
  BY DEF FreeStep
<1>2. todo \in Seq(Obj) /\ refcount \in [Obj -> 0 .. SizeMax]
  BY TypeFacts
<1>3. /\ o \in Obj /\ t \in Seq(Obj)
      /\ \A p \in Obj : Occurs(p, todo) = One(p = o) + Occurs(p, t) /\ Occurs(p, t) \in Nat
  BY <1>1, <1>2, OccursHead, OccursSpots
<1> HIDE DEF o, t
<1>4. refcount[o] # 0
  BY <1>1, ExistingFacts, CountFacts DEF o, Existing
<1>5. /\ refcount' \in [Obj -> Nat]
      /\ \A p \in Obj : /\ refcount'[p] <= SizeMax
                        /\ refcount'[p] = refcount[p] - One(p = o)
                        /\ refcount[p] \in Nat
  <2>1. refcount' \in [Obj -> Nat]
    BY <1>1, <1>2, <1>3, <1>4
  <2>2. \A p \in Obj : refcount'[p] <= SizeMax
    BY <1>1, <1>2, <1>3, <1>4
  <2>3. \A p \in Obj : refcount'[p] = refcount[p] - One(p = o) /\ refcount[p] \in Nat
    BY <1>1, <1>2, <1>3 DEF One
  <2> QED BY <2>1, <2>2, <2>3
<1>6. held' \in [Obj -> 0 .. MaxHeld] /\ lost' \in [Obj -> Nat] /\ wrecked' \subseteq Owner
  BY <1>1, TypeFacts
<1>7. CASE refcount[o] = 1
  <2>1. /\ kind' = [kind EXCEPT ![o] = "none"]
        /\ pm' = [pm EXCEPT ![o] = pm_new]
        /\ todo' = Values(pm[o]) \o t
    BY <1>7 DEF FreeStep, o, t
  <2>2. o \in Owner /\ Sound(pm[o]) /\ Fits(pm[o]) /\ pm[o] \in PropMaps
    BY <1>3, MapsSound, SoundMeans DEF Owner, IInv
  <2>3. Values(pm[o]) \in Seq(Obj)
    BY <2>2, ValuesType
  <2>4. todo' \in Seq(Obj)
    BY <1>3, <2>1, <2>3
  <2>5. TypeOK
    BY DEF IInv
  <2>6. /\ pm' \in [Owner -> PropMaps] /\ \A y \in Owner : WellFormed(pm'[y])
        /\ pm'[o] = pm_new /\ \A y \in Owner : y # o => pm'[y] = pm[y]
        /\ \A p \in Obj : Cardinality(References(p)') = Cardinality(RefsIn(pm, p))
                 - Cardinality(Slots(pm[o], {p})) + Cardinality(Slots(pm_new, {p}))
    <3>1. Sound(pm_new)
      BY EmptyMap
    <3> HIDE DEF pm_new
    <3> QED BY <2>1, <2>2, <2>5, <3>1, MapStep
  <2>7. \A p \in Obj : refcount'[p] = held'[p] + lost'[p] + Cardinality(References(p)')
                                        + Occurs(p, todo')
    <3> TAKE p \in Obj
    <3> DEFINE n == Cardinality(RefsIn(pm, p))
               s == Cardinality(Slots(pm[o], {p}))
    <3>1. /\ refcount[p] = held[p] + lost[p] + n + Occurs(p, todo)
          /\ n \in Nat /\ held[p] \in Nat /\ lost[p] \in Nat
      BY CountFacts
    <3>2. Cardinality(Slots(pm_new, {p})) = 0
      BY EmptyMap, FS_EmptySet
    <3>3. s \in Nat
      BY SlotsFinite
    <3>4. Occurs(p, todo') = s + Occurs(p, t)
      <4> DEFINE v == Values(pm[o])
      <4>1. Occurs(p, v) = s
        BY <2>2, OccursInValues
      <4>2. v \in Seq(Obj) /\ todo' = v \o t
        BY <2>1, <2>3
      <4> HIDE DEF v, s
      <4>3. Occurs(p, v \o t) = Occurs(p, v) + Occurs(p, t)
        BY <1>3, <4>2, OccursConcat
      <4> QED BY <4>1, <4>2, <4>3
    <3>5. One(p = o) \in Nat
      BY DEF One
    <3>6. Cardinality(References(p)') = n - s
      <4>1. Cardinality(References(p)') = n - s + 0
        BY <2>6, <3>2
      <4> HIDE DEF n, s
      <4> QED BY <3>1, <3>3, <4>1
    <3> DEFINE r == Cardinality(References(p)')
               z == Occurs(p, todo')
               a == Occurs(p, t)
               b == One(p = o)
    <3>7. /\ refcount'[p] = refcount[p] - b /\ refcount[p] \in Nat /\ b \in Nat
          /\ refcount[p] = held[p] + lost[p] + n + (b + a) /\ a \in Nat
          /\ r = n - s /\ z = s + a
          /\ held' = held /\ lost' = lost
      BY <1>1, <1>3, <1>5, <3>1, <3>4, <3>5, <3>6
    <3> HIDE DEF n, s, r, z, a, b
    <3>8. refcount'[p] = held'[p] + lost'[p] + r + z
      BY <3>1, <3>3, <3>7
    <3> QED BY <3>8 DEF r, z
  <2>8. \A p \in Obj : refcount'[p] = 0 <=> kind'[p] = "none"
    <3>1. \A p \in Obj : p # o => refcount'[p] = refcount[p]
      BY <1>1, <1>2
    <3>2. refcount'[o] = 0
      BY <1>1, <1>2, <1>3, <1>7
    <3>3. kind \in [Obj -> {"none", "dynamic"} \cup LiteralKind]
          /\ \A p \in Obj : refcount[p] = 0 <=> kind[p] = "none"
      BY TypeFacts
    <3> QED BY <1>3, <2>1, <3>1, <3>2, <3>3
  <2>9. kind' \in [Obj -> {"none", "dynamic"} \cup LiteralKind]
    BY <2>1, TypeFacts
  <2>10. \A p \in Obj : kind'[p] # "dynamic" => pm'[p] = pm_new
    <3> HIDE DEF pm_new
    <3> QED BY <1>3, <2>1, <2>6, TypeFacts DEF Owner
  <2>11. \A p \in Obj : pm'[p].bk_gr_pref = Cardinality(Deep(pm'[p].buckets))
    <3>1. pm_new.bk_gr_pref = Cardinality(Deep(pm_new.buckets))
      BY EmptyMap
    <3> HIDE DEF pm_new
    <3> QED BY <2>6, <3>1, TypeFacts DEF Owner
  <2> HIDE DEF pm_new
  <2> QED BY <1>5, <1>6, <2>4, <2>6, <2>7, <2>8, <2>9, <2>10, <2>11, Rebuild
<1>8. CASE refcount[o] # 1
  <2>1. kind' = kind /\ pm' = pm /\ todo' = t
    BY <1>8 DEF FreeStep, o, t
  <2>2. \A p \in Obj : refcount'[p] = held'[p] + lost'[p] + Cardinality(References(p)')
                                        + Occurs(p, todo')
    <3> TAKE p \in Obj
    <3> DEFINE n == Cardinality(RefsIn(pm, p))
    <3>1. /\ refcount[p] = held[p] + lost[p] + n + Occurs(p, todo)
          /\ n \in Nat /\ held[p] \in Nat /\ lost[p] \in Nat
      BY CountFacts
    <3>2. Cardinality(References(p)') = n
      BY <2>1, MapsStay
    <3>3. One(p = o) \in Nat
      BY DEF One
    <3> HIDE DEF n
    <3> QED BY <1>1, <1>3, <1>5, <2>1, <3>1, <3>2, <3>3, SMTT(30)
  <2>3. \A p \in Obj : refcount'[p] = 0 <=> kind'[p] = "none"
    <3>1. \A p \in Obj : refcount'[p] = 0 <=> refcount[p] = 0
      BY <1>3, <1>4, <1>5, <1>8 DEF One
    <3> QED BY <2>1, <3>1, TypeFacts
  <2>4. /\ kind' \in [Obj -> {"none", "dynamic"} \cup LiteralKind] /\ todo' \in Seq(Obj)
        /\ pm' \in [Owner -> PropMaps] /\ \A x \in Owner : WellFormed(pm'[x])
        /\ \A p \in Obj : kind'[p] # "dynamic" => pm'[p] = pm_new
        /\ \A p \in Obj : pm'[p].bk_gr_pref = Cardinality(Deep(pm'[p].buckets))
    BY <1>3, <2>1, TypeFacts
  <2> QED BY <1>5, <1>6, <2>2, <2>3, <2>4, Rebuild
<1> QED BY <1>7, <1>8

(* A map loses z values p to the calls that are to be made, and gets a. *)
LEMMA MapBalance ==
    ASSUME IInv, todo = <<>>, held' = held, lost' = lost,
           NEW p \in Obj, NEW x \in Owner, NEW m, Sound(m), pm' = [pm EXCEPT ![x] = m],
           NEW a \in Nat, NEW z \in Nat,
           refcount'[p] = refcount[p] + a, Occurs(p, todo') = z,
           Cardinality(Slots(m, {p})) = Cardinality(Slots(pm[x], {p})) + a - z
    PROVE  refcount'[p] = held'[p] + lost'[p] + Cardinality(References(p)')
                            + Occurs(p, todo')
<1> DEFINE n == Cardinality(RefsIn(pm, p))
           r == Cardinality(References(p)')
           s == Cardinality(Slots(pm[x], {p}))
           s2 == Cardinality(Slots(m, {p}))
           y == Occurs(p, todo)
<1>1. /\ refcount[p] = held[p] + lost[p] + n + y
      /\ n \in Nat /\ held[p] \in Nat /\ lost[p] \in Nat
  BY CountFacts
<1>2. y = 0
  BY OccursNone
<1>3. r = n - s + s2
  <2>1. TypeOK
    BY DEF IInv
  <2>2. \A o \in Obj : Cardinality(References(o)') = Cardinality(RefsIn(pm, o))
                 - Cardinality(Slots(pm[x], {o})) + Cardinality(Slots(m, {o}))
    BY <2>1, MapStep
  <2> QED BY <2>2
<1>4. s \in Nat /\ s2 \in Nat
  BY SlotsFinite
<1>5. s2 = s + a - z
  OBVIOUS
<1> HIDE DEF n, r, s, s2, y
<1>6. refcount'[p] = held'[p] + lost'[p] + r + z
  BY <1>1, <1>2, <1>3, <1>4, <1>5
<1> QED BY <1>6 DEF r

(* What SetOld and SetNew do to the count of the new value. *)
LEMMA ValueClaimed ==
    ASSUME IInv, NEW v \in Existing, refcount[v] # SizeMax,
           refcount' = [refcount EXCEPT ![v] = @ + 1], kind' = kind
    PROVE  /\ refcount' \in [Obj -> Nat]
           /\ \A p \in Obj : refcount'[p] <= SizeMax
           /\ \A p \in Obj : refcount'[p] = refcount[p] + One(p = v)
           /\ \A p \in Obj : refcount'[p] = 0 <=> kind'[p] = "none"
<1>1. v \in Obj /\ refcount[v] # 0 /\ refcount \in [Obj -> 0 .. SizeMax]
  BY CountFacts, TypeFacts DEF Existing
<1>2. refcount' \in [Obj -> Nat] /\ \A p \in Obj : refcount'[p] <= SizeMax
  BY <1>1
<1>3. \A p \in Obj : refcount'[p] = refcount[p] + One(p = v)
  BY <1>1 DEF One
<1>4. \A p \in Obj : refcount'[p] = 0 <=> refcount[p] = 0
  BY <1>1
<1> QED BY <1>2, <1>3, <1>4, TypeFacts

LEMMA SetOldKeeps ==
    ASSUME IInv, todo = <<>>, NEW x \in Owner, NEW k \in Key, NEW v \in Existing,
           x \in Obj => kind[x] = "dynamic", SetOld(x, k, v)
    PROVE  IInv'
<1> DEFINE old == pm_get(pm[x], k)
           m == Replaced(pm[x], k, v)
<1>1. /\ pm_is_key(pm[x], k) /\ refcount[v] # SizeMax
      /\ refcount' = [refcount EXCEPT ![v] = @ + 1]
      /\ todo' = <<old>> /\ pm' = [pm EXCEPT ![x] = m]
      /\ kind' = kind /\ held' = held /\ lost' = lost /\ wrecked' = wrecked
  BY DEF SetOld
<1>2. Sound(pm[x]) /\ v \in Obj
  BY MapsSound DEF IInv, Existing
<1>3. old \in Obj
  BY <1>1, <1>2, GetMeans
<1>4. /\ Sound(m)
      /\ \A X : Cardinality(Slots(m, X)) = Cardinality(Slots(pm[x], X)) + One(v \in X) - One(old \in X)
      /\ m.bk_gr_pref = pm[x].bk_gr_pref
      /\ Deep(m.buckets) = Deep(pm[x].buckets)
  BY <1>1, <1>2, ReplacedMap
<1> HIDE DEF old, m
<1>5. /\ refcount' \in [Obj -> Nat]
      /\ \A p \in Obj : refcount'[p] <= SizeMax
      /\ \A p \in Obj : refcount'[p] = refcount[p] + One(p = v)
      /\ \A p \in Obj : refcount'[p] = 0 <=> kind'[p] = "none"
  BY <1>1, ValueClaimed
<1>6. todo' \in Seq(Obj)
  BY <1>1, <1>3
<1>7. /\ pm' \in [Owner -> PropMaps] /\ \A y \in Owner : WellFormed(pm'[y])
      /\ pm'[x] = m /\ \A y \in Owner : y # x => pm'[y] = pm[y]
  BY <1>1, <1>4, MapStep DEF IInv
<1>8. \A p \in Obj : refcount'[p] = held'[p] + lost'[p] + Cardinality(References(p)')
                                      + Occurs(p, todo')
  <2> TAKE p \in Obj
  <2> DEFINE a == One(p = v)
             z == One(p = old)
  <2>1. a \in Nat /\ z \in Nat
    BY DEF One
  <2>2. Occurs(p, todo') = z
    BY <1>1, <1>3, OccursOne
  <2>3. Cardinality(Slots(m, {p})) = Cardinality(Slots(pm[x], {p})) + a - z
    <3>1. One(v \in {p}) = a /\ One(old \in {p}) = z
      BY DEF One
    <3> QED BY <1>4, <3>1
  <2>4. refcount'[p] = refcount[p] + a
    BY <1>5
  <2>5. held' = held /\ lost' = lost /\ Sound(m) /\ pm' = [pm EXCEPT ![x] = m]
    BY <1>1, <1>4
  <2> HIDE DEF a, z, m
  <2> QED BY <2>1, <2>2, <2>3, <2>4, <2>5, MapBalance, ZenonT(40)
<1>9. \A p \in Obj : kind'[p] # "dynamic" => pm'[p] = pm_new
  BY <1>1, <1>7, TypeFacts DEF Owner
<1>10. \A p \in Obj : pm'[p].bk_gr_pref = Cardinality(Deep(pm'[p].buckets))
  BY <1>4, <1>7, TypeFacts DEF Owner
<1>11. /\ kind' \in [Obj -> {"none", "dynamic"} \cup LiteralKind]
       /\ held' \in [Obj -> 0 .. MaxHeld] /\ lost' \in [Obj -> Nat] /\ wrecked' \subseteq Owner
  BY <1>1, TypeFacts
<1> QED BY <1>5, <1>6, <1>7, <1>8, <1>9, <1>10, <1>11, Rebuild

LEMMA SetNewKeeps ==
    ASSUME IInv, todo = <<>>, NEW x \in Owner, NEW k \in Key, NEW v \in Existing,
           x \in Obj => kind[x] = "dynamic", SetNew(x, k, v)
    PROVE  IInv'
<1> DEFINE m == Added(pm[x], k, v)
<1>1. /\ ~pm_is_key(pm[x], k) /\ ~Crowded(pm[x], k) /\ refcount[v] # SizeMax
      /\ refcount' = [refcount EXCEPT ![v] = @ + 1]
      /\ pm' = [pm EXCEPT ![x] = m]
      /\ kind' = kind /\ todo' = todo /\ held' = held /\ lost' = lost /\ wrecked' = wrecked
  BY DEF SetNew
<1>2. Sound(pm[x]) /\ v \in Obj
  BY MapsSound DEF IInv, Existing
<1>4. /\ Sound(m)
      /\ \A X : Cardinality(Slots(m, X)) = Cardinality(Slots(pm[x], X)) + One(v \in X)
      /\ m.bk_gr_pref - Cardinality(Deep(m.buckets))
            = pm[x].bk_gr_pref - Cardinality(Deep(pm[x].buckets))
  BY <1>1, <1>2, AddedMap
<1> HIDE DEF m
<1>5. /\ refcount' \in [Obj -> Nat]
      /\ \A p \in Obj : refcount'[p] <= SizeMax
      /\ \A p \in Obj : refcount'[p] = refcount[p] + One(p = v)
      /\ \A p \in Obj : refcount'[p] = 0 <=> kind'[p] = "none"
  BY <1>1, ValueClaimed
<1>7. /\ pm' \in [Owner -> PropMaps] /\ \A y \in Owner : WellFormed(pm'[y])
      /\ pm'[x] = m /\ \A y \in Owner : y # x => pm'[y] = pm[y]
  BY <1>1, <1>4, MapStep DEF IInv
<1>8. \A p \in Obj : refcount'[p] = held'[p] + lost'[p] + Cardinality(References(p)')
                                      + Occurs(p, todo')
  <2> TAKE p \in Obj
  <2> DEFINE a == One(p = v)
             s == Cardinality(Slots(pm[x], {p}))
  <2>1. a \in Nat /\ 0 \in Nat /\ s \in Nat
    BY SlotsFinite DEF One
  <2>2. Occurs(p, todo') = 0
    BY <1>1, OccursNone
  <2>3. Cardinality(Slots(m, {p})) = s + a - 0
    <3>1. One(v \in {p}) = a
      BY DEF One
    <3>2. Cardinality(Slots(m, {p})) = s + a
      BY <1>4, <3>1
    <3> HIDE DEF s, a
    <3> QED BY <2>1, <3>2
  <2>4. refcount'[p] = refcount[p] + a
    BY <1>5
  <2>5. held' = held /\ lost' = lost /\ Sound(m) /\ pm' = [pm EXCEPT ![x] = m]
    BY <1>1, <1>4
  <2> HIDE DEF a, m
  <2>6. Cardinality(Slots(m, {p})) = Cardinality(Slots(pm[x], {p})) + a - 0
    BY <2>3
  <2> HIDE DEF s
  <2> QED BY <2>1, <2>2, <2>4, <2>5, <2>6, MapBalance, ZenonT(40)
<1>9. \A p \in Obj : kind'[p] # "dynamic" => pm'[p] = pm_new
  BY <1>1, <1>7, TypeFacts DEF Owner
<1>10. \A p \in Obj : pm'[p].bk_gr_pref = Cardinality(Deep(pm'[p].buckets))
  <2>1. x \in Obj => m.bk_gr_pref = Cardinality(Deep(m.buckets))
    <3>1. SUFFICES ASSUME x \in Obj PROVE m.bk_gr_pref = Cardinality(Deep(m.buckets))
      OBVIOUS
    <3> DEFINE c == Cardinality(Deep(m.buckets))
               d == Cardinality(Deep(pm[x].buckets))
    <3>2. pm[x].bk_gr_pref = d /\ c \in Nat /\ d \in Nat
      BY <3>1, TypeFacts, DeepFinite
    <3>3. m.bk_gr_pref \in Nat /\ m.bk_gr_pref - c = pm[x].bk_gr_pref - d
      BY <1>4, SoundMeans DEF PropMaps
    <3> HIDE DEF c, d
    <3>4. m.bk_gr_pref = c
      BY <3>2, <3>3
    <3> QED BY <3>4 DEF c
  <2> QED BY <1>7, <2>1, TypeFacts DEF Owner
<1>11. /\ kind' \in [Obj -> {"none", "dynamic"} \cup LiteralKind] /\ todo' \in Seq(Obj)
       /\ held' \in [Obj -> 0 .. MaxHeld] /\ lost' \in [Obj -> Nat] /\ wrecked' \subseteq Owner
  BY <1>1, TypeFacts
<1> QED BY <1>5, <1>7, <1>8, <1>9, <1>10, <1>11, Rebuild

(* A map that belongs to no object loses some of its values. *)
LEMMA LossKeeps ==
    ASSUME IInv, todo = <<>>, NEW x \in Map, NEW m, Sound(m),
           pm' = [pm EXCEPT ![x] = m], todo' \in Seq(Obj),
           \A p \in Obj : Cardinality(Slots(m, {p})) =
                             Cardinality(Slots(pm[x], {p})) - Occurs(p, todo'),
           kind' = kind, refcount' = refcount, held' = held, lost' = lost, wrecked' = wrecked
    PROVE  IInv'
<1>1. x \in Owner /\ \A p \in Obj : p # x /\ p \in Owner
  BY DEF Owner
<1>2. /\ pm' \in [Owner -> PropMaps] /\ \A y \in Owner : WellFormed(pm'[y])
      /\ pm'[x] = m /\ \A y \in Owner : y # x => pm'[y] = pm[y]
  BY <1>1, MapStep DEF IInv
<1>3. \A p \in Obj : refcount'[p] = held'[p] + lost'[p] + Cardinality(References(p)')
                                      + Occurs(p, todo')
  <2> TAKE p \in Obj
  <2> DEFINE z == Occurs(p, todo')
             s == Cardinality(Slots(pm[x], {p}))
  <2>1. z \in Nat /\ 0 \in Nat /\ s \in Nat
    BY OccursSpots, SlotsFinite
  <2>2. Occurs(p, todo') = z
    OBVIOUS
  <2>3. Cardinality(Slots(m, {p})) = s + 0 - z
    <3>1. Cardinality(Slots(m, {p})) = s - z
      OBVIOUS
    <3> HIDE DEF s, z
    <3> QED BY <2>1, <3>1
  <2>4. refcount'[p] = refcount[p] + 0
    BY CountFacts
  <2> HIDE DEF z
  <2> QED BY <1>1, <2>1, <2>2, <2>3, <2>4, MapBalance, ZenonT(40)
<1>4. \A p \in Obj : pm'[p] = pm[p]
  BY <1>1, <1>2
<1>5. \A p \in Obj : kind'[p] # "dynamic" => pm'[p] = pm_new
  BY <1>4, TypeFacts
<1>6. \A p \in Obj : pm'[p].bk_gr_pref = Cardinality(Deep(pm'[p].buckets))
  BY <1>4, TypeFacts
<1>7. \A p \in Obj : refcount'[p] <= SizeMax
  BY TypeFacts
<1>8. /\ kind' \in [Obj -> {"none", "dynamic"} \cup LiteralKind] /\ refcount' \in [Obj -> Nat]
      /\ held' \in [Obj -> 0 .. MaxHeld] /\ lost' \in [Obj -> Nat] /\ wrecked' \subseteq Owner
      /\ \A p \in Obj : refcount'[p] = 0 <=> kind'[p] = "none"
  BY TypeFacts
<1> QED BY <1>2, <1>3, <1>5, <1>6, <1>7, <1>8, Rebuild

LEMMA RemoveKeeps ==
    ASSUME IInv, NEW x \in Map, NEW k \in Key, pm_remove(x, k)
    PROVE  IInv'
<1> DEFINE old == pm_get(pm[x], k)
           m == Removed(pm[x], k)
<1>1. /\ todo = <<>> /\ old # NONE /\ pm' = [pm EXCEPT ![x] = m] /\ todo' = <<old>>
      /\ kind' = kind /\ refcount' = refcount /\ held' = held /\ lost' = lost
      /\ wrecked' = wrecked
  BY DEF pm_remove, Idle, counting
<1>2. Sound(pm[x])
  BY MapsSound DEF IInv, Owner
<1>3. pm_is_key(pm[x], k) /\ old \in Obj
  BY <1>1, <1>2, GetMeans
<1>4. /\ Sound(m)
      /\ \A X : Cardinality(Slots(m, X)) = Cardinality(Slots(pm[x], X)) - One(old \in X)
  BY <1>2, <1>3, RemovedMap
<1> HIDE DEF old, m
<1>5. \A p \in Obj : Cardinality(Slots(m, {p})) =
                        Cardinality(Slots(pm[x], {p})) - Occurs(p, todo')
  <2> TAKE p \in Obj
  <2>1. One(old \in {p}) = One(p = old) /\ Occurs(p, todo') = One(p = old)
    BY <1>1, <1>3, OccursOne DEF One
  <2> QED BY <1>4, <2>1
<1>6. todo' \in Seq(Obj)
  BY <1>1, <1>3
<1> QED BY <1>1, <1>4, <1>5, <1>6, LossKeeps

LEMMA ClearKeeps ==
    ASSUME IInv, NEW x \in Map, pm_free(x)
    PROVE  IInv'
<1>1. /\ todo = <<>> /\ pm' = [pm EXCEPT ![x] = pm_new] /\ todo' = Values(pm[x])
      /\ kind' = kind /\ refcount' = refcount /\ held' = held /\ lost' = lost
      /\ wrecked' = wrecked
  BY DEF pm_free, Idle, counting
<1>2. Sound(pm[x]) /\ Fits(pm[x]) /\ pm[x] \in PropMaps
  BY MapsSound, SoundMeans DEF IInv, Owner
<1>3. todo' \in Seq(Obj)
  BY <1>1, <1>2, ValuesType
<1>4. \A p \in Obj : Cardinality(Slots(pm_new, {p})) =
                        Cardinality(Slots(pm[x], {p})) - Occurs(p, todo')
  <2> TAKE p \in Obj
  <2> DEFINE s == Cardinality(Slots(pm[x], {p}))
  <2>1. Occurs(p, todo') = s
    BY <1>1, <1>2, OccursInValues
  <2>2. Cardinality(Slots(pm_new, {p})) = 0
    BY EmptyMap, FS_EmptySet
  <2>3. s \in Nat
    BY SlotsFinite
  <2> HIDE DEF s, pm_new
  <2>4. 0 = s - s
    BY <2>3
  <2> QED BY <2>1, <2>2, <2>4 DEF s
<1>5. Sound(pm_new)
  BY EmptyMap
<1> HIDE DEF pm_new
<1> QED BY <1>1, <1>3, <1>4, <1>5, LossKeeps

LEMMA CopyDynamicKeeps ==
    ASSUME IInv, NEW o \in Obj, NEW c \in Obj, CopyDynamic(o, c)
    PROVE  IInv'
<1> DEFINE m == pm_copy(pm[o])
           vs == Values(pm[o])
<1>1. /\ todo = <<>> /\ kind[o] = "dynamic" /\ kind[c] = "none"
      /\ CanClaim(vs)
      /\ pm' = [pm EXCEPT ![c] = m]
      /\ refcount' = [Claimed(vs) EXCEPT ![c] = 1]
      /\ kind' = [kind EXCEPT ![c] = "dynamic"]
      /\ held' = [held EXCEPT ![c] = 1]
      /\ todo' = todo /\ lost' = lost /\ wrecked' = wrecked
  BY DEF CopyDynamic, Idle
<1>2. /\ Sound(pm[o]) /\ Fits(pm[o]) /\ o \in Owner /\ c \in Owner
      /\ Sound(m) /\ (\A X : Slots(m, X) = Slots(pm[o], X))
      /\ m.bk_gr_pref = Cardinality(Deep(m.buckets))
  BY MapsSound, SoundMeans, CopiedMap DEF IInv, Owner
<1>3. pm[c] = pm_new /\ \A X : Slots(pm[c], X) = {}
  BY <1>1, TypeFacts, EmptyMap
<1>4. ASSUME NEW p \in Obj
      PROVE  /\ Occurs(p, vs) = Cardinality(Slots(pm[o], {p}))
             /\ Occurs(p, vs) \in Nat
             /\ refcount[p] + Occurs(p, vs) <= SizeMax
             /\ Claimed(vs)[p] = refcount[p] + Occurs(p, vs)
             /\ refcount[p] = 0 => Occurs(p, vs) = 0
  <2>1. Occurs(p, vs) = Cardinality(Slots(pm[o], {p})) /\ Occurs(p, vs) \in Nat
    BY <1>2, OccursInValues, SlotsFinite
  <2>2. Claimed(vs)[p] = refcount[p] + Occurs(p, vs)
    BY DEF Claimed
  <2>3. Claimed(vs)[p] <= SizeMax
    BY <1>1 DEF CanClaim
  <2>4. refcount[p] = 0 => Occurs(p, vs) = 0
    BY <1>2, <2>1, SlotsBound, TypeFacts
  <2> QED BY <2>1, <2>2, <2>3, <2>4
<1> HIDE DEF vs, m
<1>5. /\ refcount'[c] = 1 /\ held'[c] = 1 /\ kind'[c] = "dynamic"
      /\ \A p \in Obj : p # c => /\ refcount'[p] = refcount[p] + Occurs(p, vs)
                                 /\ held'[p] = held[p] /\ kind'[p] = kind[p]
      /\ refcount' \in [Obj -> Nat]
      /\ held' \in [Obj -> 0 .. MaxHeld]
      /\ kind' \in [Obj -> {"none", "dynamic"} \cup LiteralKind]
  <2>1. /\ Claimed(vs) \in [Obj -> Nat]
        /\ held \in [Obj -> 0 .. MaxHeld]
        /\ kind \in [Obj -> {"none", "dynamic"} \cup LiteralKind]
    <3>1. \A p \in Obj : refcount[p] + Occurs(p, vs) \in Nat
      <4> TAKE p \in Obj
      <4>1. refcount[p] \in Nat /\ Occurs(p, vs) \in Nat
        BY <1>4, CountFacts
      <4> DEFINE n == Occurs(p, vs)
                 r == refcount[p]
      <4> HIDE DEF n, r
      <4>2. r \in Nat /\ n \in Nat
        BY <4>1 DEF n, r
      <4>3. r + n \in Nat
        BY <4>2
      <4> QED BY <4>3 DEF n, r
    <3> QED BY <3>1, TypeFacts DEF Claimed
  <2>2. /\ refcount'[c] = 1 /\ \A p \in Obj : p # c => refcount'[p] = refcount[p] + Occurs(p, vs)
    BY <1>1, <1>4, <2>1
  <2>3. refcount' \in [Obj -> Nat]
    BY <1>1, <2>1
  <2>4. held' \in [Obj -> 0 .. MaxHeld] /\ held'[c] = 1 /\ \A p \in Obj : p # c => held'[p] = held[p]
    BY <1>1, <2>1
  <2>5. /\ kind' \in [Obj -> {"none", "dynamic"} \cup LiteralKind] /\ kind'[c] = "dynamic"
        /\ \A p \in Obj : p # c => kind'[p] = kind[p]
    BY <1>1, <2>1
  <2> QED BY <2>2, <2>3, <2>4, <2>5
<1>6. \A p \in Obj : refcount'[p] <= SizeMax
  <2>1. \A p \in Obj : p # c => refcount'[p] <= SizeMax
    BY <1>4, <1>5
  <2>2. refcount'[c] <= SizeMax
    BY <1>5
  <2> QED BY <2>1, <2>2
<1>7. /\ pm' \in [Owner -> PropMaps] /\ \A y \in Owner : WellFormed(pm'[y])
      /\ pm'[c] = m /\ \A y \in Owner : y # c => pm'[y] = pm[y]
      /\ \A p \in Obj : Cardinality(References(p)') = Cardinality(RefsIn(pm, p))
                 - Cardinality(Slots(pm[c], {p})) + Cardinality(Slots(m, {p}))
  <2>1. TypeOK /\ Sound(m) /\ pm' = [pm EXCEPT ![c] = m] /\ c \in Owner
    BY <1>1, <1>2 DEF IInv
  <2> QED BY <2>1, MapStep
<1>8. \A p \in Obj : refcount'[p] = held'[p] + lost'[p] + Cardinality(References(p)')
                                      + Occurs(p, todo')
  <2> TAKE p \in Obj
  <2> DEFINE n == Cardinality(RefsIn(pm, p))
             r == Cardinality(References(p)')
             s == Occurs(p, vs)
             z == Occurs(p, todo')
  <2>1. /\ refcount[p] = held[p] + lost[p] + n + Occurs(p, todo)
        /\ n \in Nat /\ held[p] \in Nat /\ lost[p] \in Nat /\ refcount[p] \in Nat
    BY CountFacts
  <2>2. z = 0 /\ Occurs(p, todo) = 0
    BY <1>1, OccursNone
  <2>3. Cardinality(Slots(pm[c], {p})) = 0 /\ Cardinality(Slots(m, {p})) = s
    BY <1>2, <1>3, <1>4, FS_EmptySet
  <2>4. r = n - 0 + s
    BY <1>7, <2>3
  <2>5. s \in Nat /\ (refcount[p] = 0 => s = 0)
    BY <1>4
  <2>6. refcount[c] = 0
    BY <1>1, TypeFacts
  <2> HIDE DEF n, r, s, z
  <2>7. CASE p = c
    <3>1. refcount[p] = 0 /\ refcount'[p] = 1 /\ held'[p] = 1 /\ lost'[p] = lost[p]
      BY <1>1, <1>5, <2>6, <2>7
    <3>2. lost[p] = 0 /\ n = 0 /\ s = 0
      BY <2>1, <2>2, <2>5, <3>1
    <3>3. refcount'[p] = held'[p] + lost'[p] + r + z
      BY <2>2, <2>4, <3>1, <3>2
    <3> QED BY <3>3 DEF r, z
  <2>8. CASE p # c
    <3>1. refcount'[p] = refcount[p] + s /\ held'[p] = held[p] /\ lost'[p] = lost[p]
      BY <1>1, <1>5, <2>8 DEF s
    <3>2. refcount'[p] = held'[p] + lost'[p] + r + z
      BY <2>1, <2>2, <2>4, <2>5, <3>1
    <3> QED BY <3>2 DEF r, z
  <2> QED BY <2>7, <2>8
<1>9. \A p \in Obj : refcount'[p] = 0 <=> kind'[p] = "none"
  <2>1. \A p \in Obj : p # c => (refcount'[p] = 0 <=> refcount[p] = 0)
    <3> TAKE p \in Obj
    <3> DEFINE r == refcount[p]
               s == Occurs(p, vs)
    <3>1. r \in Nat /\ s \in Nat /\ (r = 0 => s = 0)
      BY <1>4, CountFacts
    <3>2. p # c => refcount'[p] = r + s
      BY <1>5
    <3> HIDE DEF r, s
    <3>3. p # c => (refcount'[p] = 0 <=> r = 0)
      BY <3>1, <3>2
    <3> QED BY <3>3 DEF r
  <2> QED BY <1>5, <2>1, TypeFacts, SMTT(30)
<1>10. \A p \in Obj : kind'[p] # "dynamic" => pm'[p] = pm_new
  BY <1>5, <1>7, TypeFacts DEF Owner
<1>11. \A p \in Obj : pm'[p].bk_gr_pref = Cardinality(Deep(pm'[p].buckets))
  BY <1>2, <1>7, TypeFacts DEF Owner
<1>12. todo' \in Seq(Obj) /\ lost' \in [Obj -> Nat] /\ wrecked' \subseteq Owner
  BY <1>1, TypeFacts
<1> QED BY <1>5, <1>6, <1>7, <1>8, <1>9, <1>10, <1>11, <1>12, Rebuild

(* The value that cannot be claimed is the first one of its kind. *)
LEMMA FirstUnclaimable ==
    ASSUME IInv, NEW vs \in Seq(Obj), ~CanClaim(vs)
    PROVE  \E i \in DOMAIN vs : /\ ~CanClaim(SubSeq(vs, 1, i))
                                /\ CanClaim(SubSeq(vs, 1, i - 1))
<1> DEFINE n == Len(vs)
           Bad == {i \in 0 .. n : ~CanClaim(SubSeq(vs, 1, i))}
<1>1. n \in Nat /\ SubSeq(vs, 1, n) = vs /\ SubSeq(vs, 1, 0) = <<>> /\ DOMAIN vs = 1 .. n
  OBVIOUS
<1>2. CanClaim(<<>>)
  <2> SUFFICES ASSUME NEW p \in Obj PROVE Claimed(<<>>)[p] <= SizeMax
    BY DEF CanClaim
  <2>1. Claimed(<<>>)[p] = refcount[p] + 0
    BY OccursNone DEF Claimed
  <2>2. refcount[p] \in Nat /\ refcount[p] <= SizeMax
    BY CountFacts
  <2> QED BY <2>1, <2>2
<1>3. Bad \subseteq Nat /\ n \in Bad
  <2>1. n \in 0 .. n
    BY <1>1
  <2>2. ~CanClaim(SubSeq(vs, 1, n))
    BY <1>1, Zenon
  <2>3. 0 .. n \subseteq Nat
    OBVIOUS
  <2> HIDE DEF n
  <2> QED BY <2>1, <2>2, <2>3
<1>4. PICK i \in Bad : \A j \in Bad : i <= j
  <2> HIDE DEF Bad
  <2>1. Bad # {}
    BY <1>3
  <2> QED BY <1>3, <2>1, LeastNumber
<1>5. i # 0
  BY <1>1, <1>2
<1>6. i \in 1 .. n /\ i - 1 \in 0 .. n /\ ~(i <= i - 1)
  BY <1>1, <1>5
<1>7. i - 1 \notin Bad
  BY <1>4, <1>6
<1>8. CanClaim(SubSeq(vs, 1, i - 1))
  BY <1>6, <1>7
<1> QED BY <1>1, <1>6, <1>8

LEMMA ClaimsForgotten ==
    ASSUME IInv, NEW some \in Seq(Obj), CanClaim(some), todo = <<>>,
           \A p \in Obj : Occurs(p, some) # 0 => p \in Existing,
           refcount' = Claimed(some),
           lost' = [p \in Obj |-> lost[p] + Occurs(p, some)],
           kind' = kind, pm' = pm, todo' = todo, held' = held, wrecked' = wrecked
    PROVE  IInv'
<1>1. ASSUME NEW p \in Obj
      PROVE  /\ refcount'[p] \in Nat /\ refcount'[p] <= SizeMax /\ lost'[p] \in Nat
             /\ refcount'[p] = 0 <=> kind'[p] = "none"
             /\ refcount'[p] = held'[p] + lost'[p] + Cardinality(References(p)')
                               + Occurs(p, todo')
  <2> DEFINE n == Cardinality(RefsIn(pm, p))
             s == Occurs(p, some)
             t == Occurs(p, todo)
             r == refcount[p]
             h == held[p]
             z == lost[p]
  <2>1. /\ r = h + z + n + t /\ n \in Nat /\ h \in Nat /\ z \in Nat
        /\ r \in Nat /\ t \in Nat
    BY CountFacts
  <2>2. s \in Nat /\ refcount'[p] = r + s /\ lost'[p] = z + s
    BY OccursSpots DEF Claimed
  <2>3. refcount'[p] <= SizeMax
    BY DEF CanClaim
  <2>4. (p \in Existing <=> r # 0) /\ (p \in Existing <=> kind[p] # "none")
        /\ (s # 0 => p \in Existing)
    BY CountFacts
  <2>5. Cardinality(References(p)') = n
    BY MapsStay
  <2>6. Occurs(p, todo') = t
    OBVIOUS
  <2> HIDE DEF n, s, t, r, h, z
  <2>7. r + s \in Nat /\ z + s \in Nat /\ (r + s = 0 <=> p \notin Existing)
        /\ r + s = h + (z + s) + n + t
    BY <2>1, <2>2, <2>4
  <2> QED BY <2>2, <2>3, <2>4, <2>5, <2>6, <2>7 DEF h
<1>2. refcount' \in [Obj -> Nat] /\ lost' \in [Obj -> Nat]
  BY <1>1 DEF Claimed
<1>3. /\ kind' \in [Obj -> {"none", "dynamic"} \cup LiteralKind]
      /\ todo' \in Seq(Obj) /\ held' \in [Obj -> 0 .. MaxHeld] /\ wrecked' \subseteq Owner
      /\ pm' \in [Owner -> PropMaps]
      /\ \A x \in Owner : WellFormed(pm'[x])
      /\ \A p \in Obj : kind'[p] # "dynamic" => pm'[p] = pm_new
      /\ \A p \in Obj : pm'[p].bk_gr_pref = Cardinality(Deep(pm'[p].buckets))
  BY TypeFacts
<1> QED BY <1>1, <1>2, <1>3, Rebuild

LEMMA CopyFailsKeeps ==
    ASSUME IInv, NEW o \in Obj, CopyFails(o)
    PROVE  /\ IInv'
           /\ \A p \in Obj : lost'[p] > 0 => lost[p] > 0 \/ p \in ValuesOf(o)
           /\ \A p \in Obj : lost[p] > 0 => lost'[p] > 0
<1> DEFINE vs == Values(pm[o])
           n == CHOOSE i \in DOMAIN vs : /\ ~CanClaim(SubSeq(vs, 1, i))
                                         /\ CanClaim(SubSeq(vs, 1, i - 1))
           some == SubSeq(vs, 1, n - 1)
<1>1. /\ ~CanClaim(vs) /\ todo = <<>>
      /\ refcount' = Claimed(some) /\ lost' = [p \in Obj |-> lost[p] + Occurs(p, some)]
      /\ kind' = kind /\ pm' = pm /\ todo' = todo /\ held' = held /\ wrecked' = wrecked
  BY DEF CopyFails, Idle
<1>2. Sound(pm[o]) /\ pm[o] \in PropMaps /\ ValuesOf(o) = ValuesIn(pm[o])
      /\ ValuesOf(o) \subseteq Existing
  BY MapsSound, SoundMeans, ExistingFacts DEF IInv, Owner
<1>3. vs \in Seq(Obj)
  BY <1>2, ValuesType
<1>4. ASSUME NEW p \in Obj, Occurs(p, vs) # 0 PROVE p \in ValuesOf(o)
  <2>1. Occurs(p, vs) = Cardinality(Slots(pm[o], {p}))
    BY <1>2, OccursInValues, SoundMeans
  <2> QED BY <1>2, <1>4, <2>1, ValuesAreGets
<1> HIDE DEF vs
<1>5. n \in DOMAIN vs /\ CanClaim(some)
  <2>1. \E i \in DOMAIN vs : /\ ~CanClaim(SubSeq(vs, 1, i))
                             /\ CanClaim(SubSeq(vs, 1, i - 1))
    BY <1>1, <1>3, FirstUnclaimable
  <2> QED BY <2>1
<1> HIDE DEF n
<1>6. some \in Seq(Obj) /\ Len(some) = n - 1 /\ n \in 1 .. Len(vs)
      /\ \A i \in 1 .. n - 1 : some[i] = vs[i]
  BY <1>3, <1>5
<1> HIDE DEF some
<1>7. ASSUME NEW p \in Obj, Occurs(p, some) # 0 PROVE p \in ValuesOf(o)
  <2>1. PICK i \in 1 .. Len(some) : some[i] = p
    BY <1>6, <1>7, OccursWhere
  <2>2. i \in 1 .. Len(vs) /\ vs[i] = p
    BY <1>3, <1>6, <2>1
  <2>3. Occurs(p, vs) # 0
    BY <1>3, <2>2, OccursWhere
  <2> QED BY <1>4, <2>3
<1>8. IInv'
  <2>1. \A p \in Obj : Occurs(p, some) # 0 => p \in Existing
    BY <1>2, <1>7
  <2> QED BY <1>1, <1>5, <1>6, <2>1, ClaimsForgotten
<1>9. ASSUME NEW p \in Obj
      PROVE  /\ lost'[p] > 0 => lost[p] > 0 \/ p \in ValuesOf(o)
             /\ lost[p] > 0 => lost'[p] > 0
  <2> DEFINE s == Occurs(p, some)
             z == lost[p]
  <2>1. s \in Nat /\ z \in Nat /\ lost'[p] = z + s /\ (s # 0 => p \in ValuesOf(o))
    BY <1>1, <1>6, <1>7, OccursSpots, CountFacts
  <2> HIDE DEF s, z
  <2>2. /\ z + s > 0 => z > 0 \/ s # 0
        /\ z > 0 => z + s > 0
    BY <2>1
  <2> QED BY <2>1, <2>2 DEF z
<1> QED BY <1>8, <1>9

(* Nothing changes, or what is known to be ruined. *)
LEMMA OthersKeep ==
    ASSUME IInv, wrecked' \subseteq Owner,
           kind' = kind, pm' = pm, todo' = todo, counting' = counting
    PROVE  IInv'
<1>1. refcount' = refcount /\ held' = held /\ lost' = lost
  BY DEF counting
<1>2. ASSUME NEW p \in Obj
      PROVE  refcount'[p] = held'[p] + lost'[p] + Cardinality(References(p)')
                               + Occurs(p, todo')
  BY <1>1, CountFacts, MapsStay
<1>3. ASSUME NEW p \in Obj PROVE refcount'[p] <= SizeMax
  BY <1>1, CountFacts
<1>4. /\ kind' \in [Obj -> {"none", "dynamic"} \cup LiteralKind]
      /\ refcount' \in [Obj -> Nat] /\ lost' \in [Obj -> Nat]
      /\ todo' \in Seq(Obj) /\ held' \in [Obj -> 0 .. MaxHeld] /\ wrecked' \subseteq Owner
      /\ pm' \in [Owner -> PropMaps]
      /\ \A y \in Owner : WellFormed(pm'[y])
      /\ \A p \in Obj : kind'[p] # "dynamic" => pm'[p] = pm_new
      /\ \A p \in Obj : pm'[p].bk_gr_pref = Cardinality(Deep(pm'[p].buckets))
      /\ \A p \in Obj : refcount'[p] = 0 <=> kind'[p] = "none"
  BY <1>1, TypeFacts
<1> QED BY <1>2, <1>3, <1>4, Rebuild

(* When pm_set is called, for a map or an object. *)
MaySet(x, v) ==
    /\ Idle
    /\ v \in Usable
    /\ x \in Obj => x \in Usable /\ kind[x] = "dynamic" /\ x \notin Reach({v})

(* The steps, with what is known of those who take part. *)
Steps ==
    \/ \E o \in Obj, t \in LiteralKind \cup {"dynamic"} : New(o, t)
    \/ \E o \in Obj : Release(o)
    \/ \E o \in Obj : o \in Usable /\ ctno_claim(o)
    \/ \E o \in Obj : CopyFails(o)
    \/ \E o, c \in Obj : o \in Usable /\ CopyDynamic(o, c)
    \/ \E x \in Owner, k \in Key, v \in Obj : MaySet(x, v) /\ SetOld(x, k, v)
    \/ \E x \in Owner, k \in Key, v \in Obj : MaySet(x, v) /\ SetNew(x, k, v)
    \/ \E x \in Owner, k \in Key : Idle /\ SetGrown(x, k)
    \/ \E m \in Map, k \in Key : pm_remove(m, k)
    \/ \E m \in Map : pm_free(m)
    \/ FreeStep

LEMMA NextIsSteps ==
    ASSUME IInv, Next
    PROVE  Steps
<1>1. Usable \subseteq Obj /\ "integral" \in LiteralKind
  BY UsableExists
<1>2. \A m \in Map : m \in Owner /\ m \notin Obj
  BY DEF Owner
<1>3. \A o \in Obj : o \in Owner
  BY DEF Owner
<1>4. CASE \E o \in Obj : NewLiteral(o) \/ NewDynamic(o) \/ Release(o)
  BY <1>4, Zenon DEF NewLiteral, NewDynamic, Steps
<1>5. CASE \E o \in Usable : ctno_claim(o) \/ CopyFails(o)
  BY <1>1, <1>5, Zenon DEF Steps
<1>6. CASE \E o \in Usable, c \in Obj : CopyDynamic(o, c) \/ CopyLiteral(o, c)
  BY <1>1, <1>6, Zenon DEF Steps, CopyLiteral
<1>7. CASE \E to, adding \in Usable, k \in Key : ctno_set_prop(to, k, adding)
  <2>1. PICK to \in Usable, adding \in Usable, k \in Key : ctno_set_prop(to, k, adding)
    BY <1>7, Zenon
  <2>2. to \in Owner /\ to \in Obj /\ adding \in Obj
    BY <1>1, <1>3
  <2>3. MaySet(to, adding) /\ Idle /\ pm_set(to, k, adding)
    BY <2>1 DEF ctno_set_prop, check_for_cycles, MaySet
  <2> QED BY <2>2, <2>3, Zenon DEF pm_set, Steps
<1>8. CASE \E m \in Map, k \in Key, v \in Usable : SetInMap(m, k, v)
  <2>1. PICK m \in Map, k \in Key, v \in Usable : SetInMap(m, k, v)
    BY <1>8, Zenon
  <2>2. m \in Owner /\ m \notin Obj /\ v \in Obj
    BY <1>1, <1>2
  <2>3. MaySet(m, v) /\ Idle /\ pm_set(m, k, v)
    BY <2>1, <2>2 DEF SetInMap, MaySet
  <2> QED BY <2>2, <2>3, Zenon DEF pm_set, Steps
<1>9. CASE \E m \in Map, k \in Key : pm_remove(m, k)
  BY <1>9, Zenon DEF Steps
<1>10. CASE \E m \in Map : pm_free(m)
  BY <1>10, Zenon DEF Steps
<1>11. CASE FreeStep
  BY <1>11, Zenon DEF Steps
<1> QED BY <1>4, <1>5, <1>6, <1>7, <1>8, <1>9, <1>10, <1>11, Zenon DEF Next

LEMMA StepKeeps ==
    ASSUME IInv, [Next]_vars
    PROVE  IInv'
<1>1. CASE UNCHANGED vars
  <2>1. /\ kind' = kind /\ pm' = pm /\ todo' = todo /\ counting' = counting
        /\ wrecked' \subseteq Owner
    BY <1>1, TypeFacts DEF vars
  <2> QED BY <2>1, OthersKeep
<1>2. CASE Next
  <2>1. Steps /\ Usable \subseteq Existing
    BY <1>2, NextIsSteps, UsableExists
  <2>2. CASE \E o \in Obj, t \in LiteralKind \cup {"dynamic"} : New(o, t)
    BY <2>2, NewKeeps, Zenon
  <2>3. CASE \E o \in Obj : Release(o)
    BY <2>3, ReleaseKeeps, Zenon
  <2>4. CASE \E o \in Obj : o \in Usable /\ ctno_claim(o)
    BY <2>1, <2>4, ClaimKeeps, Zenon
  <2>5. CASE \E o \in Obj : CopyFails(o)
    BY <2>5, CopyFailsKeeps, Zenon
  <2>6. CASE \E o, c \in Obj : o \in Usable /\ CopyDynamic(o, c)
    BY <2>6, CopyDynamicKeeps, Zenon
  <2>7. CASE \E x \in Owner, k \in Key, v \in Obj : MaySet(x, v) /\ SetOld(x, k, v)
    <3>1. PICK x \in Owner, k \in Key, v \in Obj : MaySet(x, v) /\ SetOld(x, k, v)
      BY <2>7, Zenon
    <3>2. todo = <<>> /\ v \in Existing /\ (x \in Obj => kind[x] = "dynamic")
      BY <2>1, <3>1, Zenon DEF MaySet, Idle
    <3> QED BY <3>1, <3>2, SetOldKeeps, Zenon
  <2>8. CASE \E x \in Owner, k \in Key, v \in Obj : MaySet(x, v) /\ SetNew(x, k, v)
    <3>1. PICK x \in Owner, k \in Key, v \in Obj : MaySet(x, v) /\ SetNew(x, k, v)
      BY <2>8, Zenon
    <3>2. todo = <<>> /\ v \in Existing /\ (x \in Obj => kind[x] = "dynamic")
      BY <2>1, <3>1, Zenon DEF MaySet, Idle
    <3> QED BY <3>1, <3>2, SetNewKeeps, Zenon
  <2>9. CASE \E x \in Owner, k \in Key : Idle /\ SetGrown(x, k)
    <3>1. PICK x \in Owner, k \in Key : Idle /\ SetGrown(x, k)
      BY <2>9, Zenon
    <3>2. /\ kind' = kind /\ pm' = pm /\ todo' = todo /\ counting' = counting
          /\ wrecked' \subseteq Owner
      BY <3>1 DEF SetGrown
    <3> QED BY <3>2, OthersKeep
  <2>10. CASE \E m \in Map, k \in Key : pm_remove(m, k)
    BY <2>10, RemoveKeeps, Zenon
  <2>11. CASE \E m \in Map : pm_free(m)
    BY <2>11, ClearKeeps, Zenon
  <2>12. CASE FreeStep
    BY <2>12, FreeStepKeeps, Zenon
  <2> QED BY <2>1, <2>2, <2>3, <2>4, <2>5, <2>6, <2>7, <2>8, <2>9, <2>10, <2>11,
             <2>12, Zenon DEF Steps
<1> QED BY <1>1, <1>2

LEMMA InitHolds ==
    ASSUME Init
    PROVE  IInv
<1>1. /\ kind = [o \in Obj |-> "none"] /\ refcount = [o \in Obj |-> 0]
      /\ pm = [x \in Owner |-> pm_new] /\ todo = <<>>
      /\ held = [o \in Obj |-> 0] /\ lost = [o \in Obj |-> 0] /\ wrecked = {}
  BY DEF Init
<1>2. /\ pm_new \in PropMaps /\ WellFormed(pm_new) /\ \A X : Slots(pm_new, X) = {}
      /\ pm_new.bk_gr_pref = Cardinality(Deep(pm_new.buckets))
  BY EmptyMap DEF Sound
<1>3. \A o \in Obj : Cardinality(References(o)) = 0 /\ Occurs(o, todo) = 0
  <2> TAKE o \in Obj
  <2>1. Occurs(o, todo) = 0
    BY <1>1, OccursNone
  <2>2. RefsIn(pm, o) = {}
    BY <1>1, <1>2 DEF RefsIn
  <2> QED BY <2>1, <2>2, ReferencesAre, FS_EmptySet
<1> HIDE DEF pm_new
<1>4. /\ kind \in [Obj -> {"none", "dynamic"} \cup LiteralKind]
      /\ refcount \in [Obj -> 0 .. SizeMax]
      /\ todo \in Seq(Obj)
      /\ held \in [Obj -> 0 .. MaxHeld]
      /\ lost \in [Obj -> 0 .. SizeMax]
      /\ wrecked \subseteq Owner
  BY <1>1
<1>5. /\ pm \in [Owner -> PropMaps]
      /\ \A x \in Owner : WellFormed(pm[x])
      /\ \A o \in Obj : /\ pm[o] = pm_new
                        /\ pm[o].bk_gr_pref = Cardinality(Deep(pm[o].buckets))
  BY <1>1, <1>2 DEF Owner
<1>6. \A o \in Obj : /\ refcount[o] = held[o] + lost[o] + Cardinality(References(o))
                                         + Occurs(o, todo)
                     /\ refcount[o] = 0 <=> kind[o] = "none"
  BY <1>1, <1>3
<1> QED BY <1>4, <1>5, <1>6 DEF IInv, TypeOK

(* The counts of objects are exact at every step of every free, and every  *)
(* map is as pm_get expects it (ctno_claim, ctno_free, ctno_copy, pm_set,  *)
(* pm_remove, pm_free).                                                    *)
THEOREM CountsAreExact == Spec => []IInv
<1>1. Init => IInv
  BY InitHolds
<1>2. IInv /\ [Next]_vars => IInv'
  BY StepKeeps
<1> QED BY <1>1, <1>2, PTL DEF Spec

(* Whatever a caller, an object or a map has is there, even in the middle  *)
(* of a free (ctno_free, pm_set 97-101).                                   *)
THEOREM HeldObjectsExist == Spec => []NothingDangles
<1>1. IInv => NothingDangles
  <2> SUFFICES ASSUME IInv PROVE NothingDangles
    OBVIOUS
  <2>1. \A o \in Obj : held[o] > 0 => o \in Existing
    BY ExistingFacts, CountFacts
  <2> QED BY <2>1, ExistingFacts DEF NothingDangles
<1> QED BY <1>1, CountsAreExact, PTL

-----------------------------------------------------------------------------
(* The properties of all maps, whichever buckets they are in.              *)

Gets(m) == [k \in Key |-> pm_get(m, k)]
Properties(f) == [x \in Owner |-> [k \in Key |-> pm_get(f[x], k)]]
Others(g) == {g[k] : k \in Key} \ {NONE}

LEMMA GetsFacts ==
    ASSUME NEW m, Sound(m)
    PROVE  /\ Gets(m) \in [Key -> Obj \cup {NONE}]
           /\ Others(Gets(m)) = ValuesIn(m)
  BY GetMeans, ValuesAreGets DEF Gets, Others

LEMMA PropertiesFacts ==
    ASSUME TypeOK
    PROVE  /\ \A x \in Owner : Properties(pm)[x] = Gets(pm[x]) /\ Sound(pm[x])
           /\ \A x \in Owner : ValuesOf(x) = Others(Properties(pm)[x])
           /\ \A o \in Obj : Vals[o] = Others(Properties(pm)[o])
<1>1. \A x \in Owner : Properties(pm)[x] = Gets(pm[x])
  BY DEF Properties, Gets
<1>2. \A x \in Owner : ValuesOf(x) = Others(Properties(pm)[x])
  BY <1>1, MapsSound, GetsFacts
<1> QED BY <1>1, <1>2, MapsSound DEF Vals, Owner

(* A new map for an owner. *)
LEMMA PropertiesChange ==
    ASSUME TypeOK, NEW x \in Owner, NEW m, Sound(m), pm' = [pm EXCEPT ![x] = m]
    PROVE  /\ Properties(pm') = [Properties(pm) EXCEPT ![x] = Gets(m)]
           /\ Vals' \in [Obj -> SUBSET Obj]
           /\ \A p \in Obj : p # x => Vals'[p] = Vals[p]
           /\ x \in Obj => Vals'[x] = Others(Gets(m))
<1>1. pm \in [Owner -> PropMaps]
  BY DEF TypeOK
<1>2. pm' \in [Owner -> PropMaps] /\ pm'[x] = m /\ \A y \in Owner : y # x => pm'[y] = pm[y]
  BY MapStep
<1>3. Properties(pm') = [Properties(pm) EXCEPT ![x] = Gets(m)]
  BY <1>2 DEF Properties, Gets
<1>4. \A y \in Owner : ValuesOf(y)' = ValuesIn(pm'[y])
  BY DEF ValuesOf, ValuesIn
<1>5. \A p \in Obj : p \in Owner /\ Vals'[p] = ValuesIn(pm'[p])
  BY <1>4 DEF Vals, Owner
<1>6. \A p \in Obj : p # x => Vals'[p] = Vals[p]
  BY <1>2, <1>5, MapsSound DEF Vals
<1>7. x \in Obj => Vals'[x] = Others(Gets(m))
  BY <1>2, <1>5, GetsFacts
<1>8. Others(Gets(m)) \subseteq Obj
  BY GetsFacts, ValuesAreGets
<1>9. Vals' \in [Obj -> SUBSET Obj]
  <2>1. \A p \in Obj : Vals'[p] \in SUBSET Obj
    BY <1>6, <1>7, <1>8, ValsType
  <2> QED BY <2>1 DEF Vals
<1> QED BY <1>3, <1>6, <1>7, <1>9

(* The same maps. *)
LEMMA PropertiesStay ==
    ASSUME pm' = pm
    PROVE  Properties(pm') = Properties(pm) /\ Vals' = Vals
  BY DEF Properties, Vals, ValuesOf

-----------------------------------------------------------------------------
(* Graphs without cycles.                                                  *)

NoCycle(vals) == \A p \in Obj : p \notin ReachBy(vals, vals[p])

LEMMA AcyclicIs ==
    /\ Acyclic <=> NoCycle(Vals)
    /\ Acyclic' <=> NoCycle(Vals')
<1>1. \A p \in Obj : Reach(ValuesOf(p)) = ReachBy(Vals, Vals[p])
  BY ReachIs
<1>2. \A p \in Obj : Reach(ValuesOf(p))' = ReachBy(Vals', Vals'[p])
  BY ReachIs
<1> QED BY <1>1, <1>2 DEF Acyclic, NoCycle

(* Fewer properties have no new cycles. *)
LEMMA FewerEdges ==
    ASSUME NEW vals \in [Obj -> SUBSET Obj], NEW new \in [Obj -> SUBSET Obj],
           NoCycle(vals), \A p \in Obj : new[p] \subseteq vals[p]
    PROVE  NoCycle(new)
<1> SUFFICES ASSUME NEW p \in Obj PROVE p \notin ReachBy(new, new[p])
  BY DEF NoCycle
<1> DEFINE T == ReachBy(vals, vals[p])
<1>1. vals[p] \subseteq T /\ Closed(vals, T) /\ p \notin T
  BY ReachFacts DEF NoCycle
<1> HIDE DEF T
<1>2. Closed(new, T) /\ new[p] \subseteq T
  BY <1>1 DEF Closed
<1> QED BY <1>1, <1>2, ReachFacts

(* Neither has a property that does not lead back. *)
LEMMA EdgeAdded ==
    ASSUME NEW vals \in [Obj -> SUBSET Obj], NEW new \in [Obj -> SUBSET Obj],
           NoCycle(vals), NEW x \in Obj, NEW v \in Obj, x \notin ReachBy(vals, {v}),
           \A p \in Obj : p # x => new[p] \subseteq vals[p],
           new[x] \subseteq vals[x] \cup {v}
    PROVE  NoCycle(new)
<1> SUFFICES ASSUME NEW p \in Obj PROVE p \notin ReachBy(new, new[p])
  BY DEF NoCycle
<1> DEFINE T == ReachBy(vals, vals[p])
           A == ReachBy(vals, {v})
<1>1. vals[p] \subseteq T /\ Closed(vals, T) /\ p \notin T
  BY ReachFacts DEF NoCycle
<1>2. v \in A /\ Closed(vals, A) /\ x \notin A
  BY ReachFacts
<1>3. CASE p \in A
  <2>1. T \subseteq A
    <3>1. vals[p] \subseteq A
      BY <1>2, <1>3 DEF Closed
    <3>2. vals[p] \subseteq Obj
      OBVIOUS
    <3> HIDE DEF A
    <3> QED BY <1>2, <3>1, <3>2, ReachFacts
  <2> HIDE DEF T, A
  <2>2. Closed(new, T) /\ new[p] \subseteq T
    BY <1>1, <1>2, <1>3, <2>1 DEF Closed
  <2> QED BY <1>1, <2>2, ReachFacts
<1>4. CASE p \notin A
  <2> HIDE DEF T, A
  <2>1. Closed(new, T \cup A) /\ new[p] \subseteq T \cup A
    BY <1>1, <1>2 DEF Closed
  <2>2. p \notin T \cup A
    BY <1>1, <1>4
  <2> QED BY <2>1, <2>2, ReachFacts
<1> QED BY <1>3, <1>4

(* Neither has an object that is new and has the properties of another. *)
LEMMA NodeAdded ==
    ASSUME NEW vals \in [Obj -> SUBSET Obj], NEW new \in [Obj -> SUBSET Obj],
           NoCycle(vals), NEW o \in Obj, NEW c \in Obj,
           \A p \in Obj : c \notin vals[p],
           \A p \in Obj : p # c => new[p] = vals[p],
           new[c] = vals[o]
    PROVE  NoCycle(new)
<1> SUFFICES ASSUME NEW p \in Obj PROVE p \notin ReachBy(new, new[p])
  BY DEF NoCycle
<1>1. PICK q \in Obj : new[p] = vals[q] /\ (p = c \/ p = q)
  OBVIOUS
<1> DEFINE T == ReachBy(vals, vals[q])
<1>2. vals[q] \subseteq T /\ Closed(vals, T) /\ q \notin T
  BY ReachFacts DEF NoCycle
<1> HIDE DEF T
<1>3. Closed(new, T \ {c}) /\ new[p] \subseteq T \ {c}
  BY <1>1, <1>2 DEF Closed
<1>4. p \notin T \ {c}
  BY <1>1, <1>2
<1> QED BY <1>3, <1>4, ReachFacts

(* What is in a graph without cycles is reached from what nothing in it    *)
(* leads to.                                                               *)
LEMMA Reached ==
    ASSUME NEW vals \in [Obj -> SUBSET Obj], NoCycle(vals),
           NEW E, E \subseteq Obj, NEW R, R \subseteq Obj,
           \A p \in E : p \in R \/ \E q \in E : p \in vals[q]
    PROVE  E \subseteq ReachBy(vals, R)
<1> DEFINE W == ReachBy(vals, R)
           Bad == E \ W
           D(p) == ReachBy(vals, vals[p])
           Size(p) == Cardinality(D(p))
           Sizes == {n \in Nat : \E p \in Bad : n = Cardinality(Obj) - Size(p)}
<1> SUFFICES ASSUME Bad # {} PROVE FALSE
  OBVIOUS
<1>1. R \subseteq W /\ Closed(vals, W)
  BY ReachFacts
<1>2. ASSUME NEW p \in Obj
      PROVE  /\ D(p) \subseteq Obj /\ IsFiniteSet(D(p))
             /\ Size(p) \in Nat /\ Size(p) <= Cardinality(Obj)
  <2>1. D(p) \in SUBSET Obj
    BY DEF ReachBy
  <2> HIDE DEF D
  <2>2. IsFiniteSet(D(p)) /\ Cardinality(D(p)) <= Cardinality(Obj)
    BY <2>1, FS_Subset, Zenon
  <2>3. Cardinality(D(p)) \in Nat
    BY <2>2, FS_CardinalityType
  <2> QED BY <2>1, <2>2, <2>3
<1>3. Cardinality(Obj) \in Nat
  BY FS_CardinalityType
<1>4. ASSUME NEW p \in Bad
      PROVE  \E q \in Bad : Size(q) > Size(p)
  <2>1. PICK q \in E : p \in vals[q]
    BY <1>1
  <2>2. q \in Bad /\ p \in Obj /\ q \in Obj
    BY <1>1, <2>1 DEF Closed
  <2>3. /\ vals[q] \subseteq D(q) /\ Closed(vals, D(q))
    BY <2>2, ReachFacts
  <2>4. p \in D(q) /\ vals[p] \subseteq D(q) /\ vals[p] \subseteq Obj
    <3> HIDE DEF D
    <3> QED BY <2>1, <2>2, <2>3 DEF Closed
  <2>5. D(p) \subseteq D(q)
    BY <2>2, <2>3, <2>4, ReachFacts
  <2>6. p \notin D(p)
    BY <2>2 DEF NoCycle
  <2>7. IsFiniteSet(D(q)) /\ IsFiniteSet(D(p)) /\ Size(p) \in Nat /\ Size(q) \in Nat
    BY <1>2, <2>2
  <2> HIDE DEF D
  <2>8. Cardinality(D(p)) <= Cardinality(D(q)) /\ Cardinality(D(q)) # Cardinality(D(p))
    BY <2>4, <2>5, <2>6, <2>7, FS_Subset
  <2>9. Size(q) > Size(p)
    BY <2>7, <2>8
  <2> QED BY <2>2, <2>9
<1> HIDE DEF Size
<1>5. ASSUME NEW p \in Bad PROVE Cardinality(Obj) - Size(p) \in Sizes
  BY <1>2, <1>3, <1>5
<1>6. PICK n \in Sizes : \A j \in Sizes : n <= j
  <2>1. Sizes \subseteq Nat /\ Sizes # {}
    BY <1>5
  <2> HIDE DEF Sizes
  <2> QED BY <2>1, LeastNumber
<1>7. PICK p \in Bad : n = Cardinality(Obj) - Size(p)
  OBVIOUS
<1>8. PICK q \in Bad : Size(q) > Size(p)
  BY <1>4
<1>9. n <= Cardinality(Obj) - Size(q)
  BY <1>5, <1>6
<1>10. Size(p) \in Nat /\ Size(q) \in Nat
  BY <1>2
<1> QED BY <1>3, <1>7, <1>8, <1>9, <1>10

-----------------------------------------------------------------------------
(* What the steps do to the properties.                                    *)

LEMMA ClearedProperties ==
    Sound(pm_new) /\ Gets(pm_new) = [k \in Key |-> NONE] /\ Others(Gets(pm_new)) = {}
  BY EmptyMap DEF Gets, Others

(* Only an object that exists has properties, and only objects that exist  *)
(* are properties.                                                         *)
LEMMA NewHasNone ==
    ASSUME IInv, NEW o \in Obj, kind[o] = "none"
    PROVE  /\ o \notin Existing /\ pm[o] = pm_new /\ Vals[o] = {}
           /\ \A p \in Obj : o \notin Vals[p]
           /\ pm' = [pm EXCEPT ![o] = pm_new] => pm' = pm
<1>1. o \notin Existing /\ pm[o] = pm_new
  BY TypeFacts DEF Existing
<1>2. \A p \in Obj : o \notin Vals[p]
  BY <1>1, ExistingFacts DEF Vals, Owner
<1>3. Vals[o] = {}
  <2>1. TypeOK /\ o \in Owner
    BY DEF IInv, Owner
  <2>2. Vals[o] = Others(Gets(pm[o]))
    BY <2>1, PropertiesFacts
  <2> QED BY <1>1, <2>2, ClearedProperties
<1>4. pm' = [pm EXCEPT ![o] = pm_new] => pm' = pm
  BY <1>1, TypeFacts
<1> QED BY <1>1, <1>2, <1>3, <1>4

LEMMA SetProperty ==
    ASSUME IInv, NEW x \in Owner, NEW k \in Key, NEW v \in Obj,
           SetOld(x, k, v) \/ SetNew(x, k, v)
    PROVE  \E m : /\ Sound(m) /\ pm' = [pm EXCEPT ![x] = m]
                  /\ Gets(m) = [Gets(pm[x]) EXCEPT ![k] = v]
                  /\ Others(Gets(m)) \subseteq Others(Gets(pm[x])) \cup {v}
<1>1. Sound(pm[x])
  BY MapsSound DEF IInv
<1> DEFINE Changed(m) == \A k2 \in Key : pm_get(m, k2) = IF k2 = k THEN v ELSE pm_get(pm[x], k2)
<1>2. ASSUME NEW m, Changed(m)
      PROVE  /\ Gets(m) = [Gets(pm[x]) EXCEPT ![k] = v]
             /\ Others(Gets(m)) \subseteq Others(Gets(pm[x])) \cup {v}
  BY <1>2 DEF Gets, Others
<1>3. CASE SetOld(x, k, v)
  <2> DEFINE m == Replaced(pm[x], k, v)
  <2>1. pm_is_key(pm[x], k) /\ pm' = [pm EXCEPT ![x] = m]
    BY <1>3 DEF SetOld
  <2>2. Sound(m) /\ Changed(m)
    BY <1>1, <2>1, ReplacedMap
  <2> HIDE DEF m, Changed
  <2> QED BY <1>2, <2>1, <2>2
<1>4. CASE SetNew(x, k, v)
  <2> DEFINE m == Added(pm[x], k, v)
  <2>1. ~pm_is_key(pm[x], k) /\ ~Crowded(pm[x], k) /\ pm' = [pm EXCEPT ![x] = m]
    BY <1>4 DEF SetNew
  <2>2. Sound(m) /\ Changed(m)
    BY <1>1, <2>1, AddedMap
  <2> HIDE DEF m, Changed
  <2> QED BY <1>2, <2>1, <2>2
<1> QED BY <1>3, <1>4

LEMMA RemoveProperty ==
    ASSUME IInv, NEW x \in Map, NEW k \in Key, pm_remove(x, k)
    PROVE  \E m : /\ Sound(m) /\ pm' = [pm EXCEPT ![x] = m]
                  /\ Gets(m) = [Gets(pm[x]) EXCEPT ![k] = NONE]
<1> DEFINE m == Removed(pm[x], k)
<1>1. Sound(pm[x])
  BY MapsSound DEF IInv, Owner
<1>2. pm_get(pm[x], k) # NONE /\ pm' = [pm EXCEPT ![x] = m]
  BY DEF pm_remove
<1>3. pm_is_key(pm[x], k)
  BY <1>1, <1>2, GetMeans
<1>4. Sound(m) /\ \A k2 \in Key : pm_get(m, k2) = IF k2 = k THEN NONE ELSE pm_get(pm[x], k2)
  BY <1>1, <1>3, RemovedMap
<1> HIDE DEF m
<1>5. Gets(m) = [Gets(pm[x]) EXCEPT ![k] = NONE]
  BY <1>4 DEF Gets
<1> QED BY <1>2, <1>4, <1>5

LEMMA CopyProperties ==
    ASSUME IInv, NEW o \in Obj, NEW c \in Obj, CopyDynamic(o, c)
    PROVE  \E m : /\ Sound(m) /\ pm' = [pm EXCEPT ![c] = m]
                  /\ Gets(m) = Gets(pm[o])
<1>1. Sound(pm[o]) /\ pm' = [pm EXCEPT ![c] = pm_copy(pm[o])]
  BY MapsSound DEF IInv, Owner, CopyDynamic
<1>2. Sound(pm_copy(pm[o])) /\ \A k \in Key : pm_get(pm_copy(pm[o]), k) = pm_get(pm[o], k)
  BY <1>1, CopiedMap
<1>3. Gets(pm_copy(pm[o])) = Gets(pm[o])
  BY <1>2 DEF Gets
<1> QED BY <1>1, <1>2, <1>3

(* An object goes away when the last claim on it does, and nothing leads   *)
(* to it then.                                                             *)
LEMMA FreeCases ==
    ASSUME IInv, FreeStep
    PROVE  /\ held' = held /\ lost' = lost /\ wrecked' = wrecked
           /\ \/ kind' = kind /\ pm' = pm
              \/ \E o \in Existing :
                    /\ kind' = [kind EXCEPT ![o] = "none"]
                    /\ pm' = [pm EXCEPT ![o] = pm_new]
                    /\ held[o] = 0 /\ lost[o] = 0
                    /\ \A x \in Owner : o \notin ValuesOf(x)
<1> DEFINE o == Head(todo)
<1>1. todo # <<>> /\ held' = held /\ lost' = lost /\ wrecked' = wrecked
  BY DEF FreeStep
<1>2. CASE refcount[o] # 1
  BY <1>1, <1>2 DEF FreeStep
<1>3. CASE refcount[o] = 1
  <2>1. /\ kind' = [kind EXCEPT ![o] = "none"] /\ pm' = [pm EXCEPT ![o] = pm_new]
    BY <1>3 DEF FreeStep
  <2>2. o \in Existing /\ o \in Obj
    BY <1>1, ExistingFacts DEF Existing
  <2>3. Occurs(o, todo) # 0
    <3>1. todo \in Seq(Obj) /\ 1 \in 1 .. Len(todo) /\ todo[1] = o
      BY <1>1, TypeFacts
    <3> HIDE DEF o
    <3> QED BY <3>1, OccursWhere
  <2> DEFINE n == Cardinality(RefsIn(pm, o))
             t == Occurs(o, todo)
             r == refcount[o]
             h == held[o]
             z == lost[o]
  <2> HIDE DEF o
  <2>4. r = h + z + n + t /\ h \in Nat /\ z \in Nat /\ n \in Nat /\ t \in Nat /\ t # 0 /\ r = 1
    BY <1>3, <2>2, <2>3, CountFacts
  <2> HIDE DEF n, t, r, h, z
  <2>5. h = 0 /\ z = 0 /\ n = 0
    BY <2>4
  <2> USE DEF n, h, z
  <2>6. ASSUME NEW x \in Owner PROVE o \notin ValuesOf(x)
    <3>1. Cardinality(Slots(pm[x], {o})) \in Nat /\ Cardinality(Slots(pm[x], {o})) <= n
      BY <2>2, SlotsBound
    <3>2. Cardinality(Slots(pm[x], {o})) = 0
      BY <2>5, <3>1
    <3>3. ValuesOf(x) = ValuesIn(pm[x]) /\ Sound(pm[x])
      BY MapsSound DEF IInv
    <3> QED BY <2>2, <3>2, <3>3, ValuesAreGets
  <2> QED BY <1>1, <2>1, <2>2, <2>5, <2>6
<1> QED BY <1>2, <1>3

-----------------------------------------------------------------------------
(* No cycles.                                                              *)

LEMMA StepAcyclic ==
    ASSUME IInv, Acyclic, [Next]_vars
    PROVE  Acyclic'
<1>1. TypeOK /\ Vals \in [Obj -> SUBSET Obj] /\ NoCycle(Vals)
  BY ValsType, AcyclicIs DEF IInv
<1>2. ASSUME pm' = pm PROVE Acyclic'
  BY <1>2, AcyclicIs, PropertiesStay
<1>3. ASSUME NEW x \in Owner, NEW m, Sound(m), pm' = [pm EXCEPT ![x] = m],
             x \in Obj => Others(Gets(m)) \subseteq Vals[x]
      PROVE  Acyclic'
  <2>1. /\ Vals' \in [Obj -> SUBSET Obj]
        /\ \A p \in Obj : p # x => Vals'[p] = Vals[p]
        /\ x \in Obj => Vals'[x] = Others(Gets(m))
    BY <1>1, <1>3, PropertiesChange
  <2>2. \A p \in Obj : Vals'[p] \subseteq Vals[p]
    BY <1>3, <2>1
  <2>3. NoCycle(Vals')
    BY <1>1, <2>1, <2>2, FewerEdges
  <2> QED BY <2>3, AcyclicIs
<1>4. CASE UNCHANGED vars
  BY <1>2, <1>4 DEF vars
<1>5. CASE Next
  <2>1. Steps
    BY <1>5, NextIsSteps
  <2>2. CASE \E o \in Obj, t \in LiteralKind \cup {"dynamic"} : New(o, t)
    <3>1. PICK o \in Obj : kind[o] = "none" /\ pm' = [pm EXCEPT ![o] = pm_new]
      BY <2>2 DEF New
    <3>2. pm' = pm
      BY <3>1, NewHasNone
    <3> QED BY <1>2, <3>2
  <2>3. CASE \E o \in Obj : Release(o)
    BY <1>2, <2>3 DEF Release
  <2>4. CASE \E o \in Obj : o \in Usable /\ ctno_claim(o)
    BY <1>2, <2>4 DEF ctno_claim
  <2>5. CASE \E o \in Obj : CopyFails(o)
    BY <1>2, <2>5 DEF CopyFails
  <2>6. CASE \E o, c \in Obj : o \in Usable /\ CopyDynamic(o, c)
    <3>1. PICK o \in Obj, c \in Obj : CopyDynamic(o, c)
      BY <2>6
    <3>2. kind[c] = "none"
      BY <3>1 DEF CopyDynamic
    <3>3. PICK m : Sound(m) /\ pm' = [pm EXCEPT ![c] = m] /\ Gets(m) = Gets(pm[o])
      BY <3>1, CopyProperties
    <3>4. /\ Vals' \in [Obj -> SUBSET Obj]
          /\ \A p \in Obj : p # c => Vals'[p] = Vals[p]
          /\ Vals'[c] = Others(Gets(pm[o]))
      BY <1>1, <3>3, PropertiesChange DEF Owner
    <3>5. Vals[o] = Others(Gets(pm[o]))
      BY <1>1, PropertiesFacts DEF Owner
    <3>6. \A p \in Obj : c \notin Vals[p]
      BY <3>2, NewHasNone
    <3>7. NoCycle(Vals')
      BY <1>1, <3>4, <3>5, <3>6, NodeAdded
    <3> QED BY <3>7, AcyclicIs
  <2>7. CASE \E x \in Owner, k \in Key, v \in Obj :
                MaySet(x, v) /\ (SetOld(x, k, v) \/ SetNew(x, k, v))
    <3>1. PICK x \in Owner, k \in Key, v \in Obj :
                  MaySet(x, v) /\ (SetOld(x, k, v) \/ SetNew(x, k, v))
      BY <2>7
    <3>2. PICK m : /\ Sound(m) /\ pm' = [pm EXCEPT ![x] = m]
                   /\ Others(Gets(m)) \subseteq Others(Gets(pm[x])) \cup {v}
      BY <3>1, SetProperty
    <3>3. CASE x \notin Obj
      BY <1>3, <3>2, <3>3
    <3>4. CASE x \in Obj
      <4>1. x \notin ReachBy(Vals, {v})
        BY <3>1, <3>4, ReachIs DEF MaySet
      <4>2. /\ Vals' \in [Obj -> SUBSET Obj]
            /\ \A p \in Obj : p # x => Vals'[p] = Vals[p]
            /\ Vals'[x] = Others(Gets(m))
        BY <1>1, <3>2, <3>4, PropertiesChange
      <4>3. Vals[x] = Others(Gets(pm[x]))
        BY <1>1, <3>4, PropertiesFacts
      <4>4. /\ Vals'[x] \subseteq Vals[x] \cup {v}
            /\ \A p \in Obj : p # x => Vals'[p] \subseteq Vals[p]
        BY <3>2, <4>2, <4>3
      <4>5. NoCycle(Vals')
        BY <1>1, <3>4, <4>1, <4>2, <4>4, EdgeAdded
      <4> QED BY <4>5, AcyclicIs
    <3> QED BY <3>3, <3>4
  <2>8. CASE \E x \in Owner, k \in Key : Idle /\ SetGrown(x, k)
    BY <1>2, <2>8 DEF SetGrown
  <2>9. CASE \E m \in Map, k \in Key : pm_remove(m, k)
    <3>1. PICK x \in Map, k \in Key : pm_remove(x, k)
      BY <2>9
    <3>2. PICK m : Sound(m) /\ pm' = [pm EXCEPT ![x] = m]
      BY <3>1, RemoveProperty
    <3>3. x \in Owner /\ x \notin Obj
      BY DEF Owner
    <3> QED BY <1>3, <3>2, <3>3
  <2>10. CASE \E m \in Map : pm_free(m)
    <3>1. PICK x \in Map : pm' = [pm EXCEPT ![x] = pm_new]
      BY <2>10 DEF pm_free
    <3>2. x \in Owner /\ x \notin Obj
      BY DEF Owner
    <3> QED BY <1>3, <3>1, <3>2, ClearedProperties
  <2>11. CASE FreeStep
    <3>1. CASE pm' = pm
      BY <1>2, <3>1
    <3>2. CASE \E o \in Existing : pm' = [pm EXCEPT ![o] = pm_new]
      <4>1. PICK o \in Obj : pm' = [pm EXCEPT ![o] = pm_new]
        BY <3>2 DEF Existing
      <4>2. o \in Owner /\ Others(Gets(pm_new)) \subseteq Vals[o] /\ Sound(pm_new)
        BY ClearedProperties DEF Owner
      <4> HIDE DEF pm_new
      <4> QED BY <1>3, <4>1, <4>2
    <3> QED BY <2>11, <3>1, <3>2, FreeCases
  <2> QED BY <2>1, <2>2, <2>3, <2>4, <2>5, <2>6, <2>7, <2>8, <2>9, <2>10, <2>11,
             Zenon DEF Steps
<1> QED BY <1>4, <1>5

LEMMA InitAcyclic ==
    ASSUME Init
    PROVE  Acyclic
<1>1. TypeOK
  BY InitHolds DEF IInv
<1>2. \A o \in Obj : o \in Owner /\ pm[o] = pm_new
  BY DEF Init, Owner
<1>3. \A o \in Obj : Vals[o] = {}
  BY <1>1, <1>2, PropertiesFacts, ClearedProperties
<1>4. Vals \in [Obj -> SUBSET Obj] /\ Closed(Vals, {})
  BY <1>1, ValsType DEF Closed
<1>5. NoCycle(Vals)
  BY <1>3, <1>4, ReachFacts DEF NoCycle
<1> QED BY <1>5, AcyclicIs

(* No object is ever a property of itself, however far down, although      *)
(* check_for_cycles is asked only when a property is set, and a copy takes *)
(* over all the properties of another object (ctno_set_prop, ctno_copy).   *)
THEOREM NeverCyclic == Spec => []Acyclic
<1>1. Init => IInv /\ Acyclic
  BY InitHolds, InitAcyclic
<1>2. (IInv /\ Acyclic) /\ [Next]_vars => (IInv /\ Acyclic)'
  BY StepKeeps, StepAcyclic
<1> QED BY <1>1, <1>2, PTL DEF Spec

(* When no call of ctno_free is left to do, what exists is what a caller   *)
(* or a map can reach, and nothing else but what a failed copy has claimed *)
(* for ever: counting leaks nothing (ctno_free, pm_free).                  *)
THEOREM NothingLeaks == Spec => []OnlyReachable
<1>1. ASSUME IInv, Acyclic PROVE OnlyReachable
  <2> DEFINE R == Roots \cup {o \in Obj : lost[o] > 0}
  <2> SUFFICES ASSUME todo = <<>> PROVE Existing = Reach(R)
    BY DEF OnlyReachable
  <2>1. Vals \in [Obj -> SUBSET Obj] /\ NoCycle(Vals)
    BY <1>1, ValsType, AcyclicIs DEF IInv
  <2>2. Existing \subseteq Obj /\ R \subseteq Obj /\ R \subseteq Existing
    BY <1>1, UsableExists, ExistingFacts, CountFacts DEF Existing
  <2>3. Closed(Vals, Existing)
    BY <1>1, <2>2, ExistingFacts DEF Closed, Vals, Owner
  <2>4. ReachBy(Vals, R) \subseteq Existing
    <3> HIDE DEF R
    <3> QED BY <2>1, <2>2, <2>3, ReachFacts
  <2>5. ASSUME NEW p \in Existing
        PROVE  p \in R \/ \E q \in Existing : p \in Vals[q]
    <3> DEFINE n == Cardinality(RefsIn(pm, p))
               h == held[p]
               z == lost[p]
               t == Occurs(p, todo)
               r == refcount[p]
    <3>1. p \in Obj /\ r = h + z + n + t /\ h \in Nat /\ z \in Nat /\ n \in Nat /\ r # 0
      BY <1>1, <2>2, CountFacts
    <3>2. t = 0
      BY OccursNone
    <3>3. h > 0 => p \in R
      BY <3>1 DEF Roots
    <3>4. z > 0 => p \in R
      BY <3>1
    <3>5. n # 0 => p \in R \/ \E q \in Existing : p \in Vals[q]
      <4> SUFFICES ASSUME n # 0 PROVE p \in R \/ \E q \in Existing : p \in Vals[q]
        OBVIOUS
      <4>1. PICK ref \in RefsIn(pm, p) : TRUE
        BY <3>1, FS_EmptySet
      <4>2. PICK x \in Owner : Slots(pm[x], {p}) # {}
        BY <4>1 DEF RefsIn
      <4>3. p \in ValuesOf(x)
        BY <1>1, <3>1, <4>2, MapsSound, ValuesAreGets DEF IInv
      <4>4. CASE x \in Map
        BY <4>3, <4>4 DEF Roots
      <4>5. CASE x \in Obj
        <5>1. p \in Vals[x]
          BY <4>3, <4>5 DEF Vals
        <5>2. kind[x] # "none"
          BY <1>1, <4>5, <5>1, NewHasNone
        <5> QED BY <4>5, <5>1, <5>2 DEF Existing
      <4> QED BY <4>4, <4>5 DEF Owner
    <3> HIDE DEF n, h, z, t, r
    <3>6. n # 0 \/ h > 0 \/ z > 0
      BY <3>1, <3>2
    <3> QED BY <3>3, <3>4, <3>5, <3>6
  <2> HIDE DEF R
  <2>6. Existing \subseteq ReachBy(Vals, R)
    BY <2>1, <2>2, <2>5, Reached
  <2> QED BY <2>4, <2>6, ReachIs
<1>2. IInv /\ Acyclic => OnlyReachable
  BY <1>1
<1> QED BY <1>2, CountsAreExact, NeverCyclic, PTL

-----------------------------------------------------------------------------
(* The refinement of PropertyGraph.                                        *)

LEMMA GraphIs ==
    ASSUME TypeOK
    PROVE  /\ \A x \in Owner : Graph!Children(x) = ValuesOf(x)
           /\ \A S : Graph!Reach(S) = ReachBy(Vals, S)
           /\ Graph!Roots = Roots \cup {o \in Obj : lost[o] > 0}
           /\ Graph!Wanted = ReachBy(Vals, Roots \cup {o \in Obj : lost[o] > 0})
<1>1. \A x \in Owner : Graph!Children(x) = ValuesOf(x)
  <2> TAKE x \in Owner
  <2>1. ValuesOf(x) = Others(Properties(pm)[x])
    BY PropertiesFacts
  <2> QED BY <2>1, Zenon DEF Graph!Children, Others, Properties
<1>2. [o \in Obj |-> Graph!Children(o)] = Vals
  BY <1>1 DEF Vals, Owner
<1>3. \A S : Graph!Reach(S) = ReachBy(Vals, S)
  <2> TAKE S
  <2>1. Graph!Reach(S) = {o \in Obj : \A T \in {T \in SUBSET Obj :
                     S \subseteq T /\ \A p \in T : Vals[p] \subseteq T} : o \in T}
    BY <1>2, Zenon DEF Graph!Reach
  <2> QED BY <2>1 DEF ReachBy, Closed
<1>4. Graph!Roots = Roots \cup {o \in Obj : lost[o] > 0}
  <2>1. \A m \in Map : Graph!Children(m) = ValuesOf(m)
    BY <1>1 DEF Owner
  <2>2. UNION {Graph!Children(m) : m \in Map} = UNION {ValuesOf(m) : m \in Map}
    BY <2>1
  <2> QED BY <2>2 DEF Graph!Roots, Roots
<1> QED BY <1>1, <1>3, <1>4 DEF Graph!Wanted

(* Callers use what PropertyGraph wants to exist. *)
LEMMA UsableWanted ==
    ASSUME IInv
    PROVE  Usable \subseteq Graph!Wanted
<1>1. TypeOK /\ Vals \in [Obj -> SUBSET Obj] /\ Roots \subseteq Obj
  BY ValsType, UsableExists DEF IInv
<1>2. ReachBy(Vals, Roots) \subseteq ReachBy(Vals, Roots \cup {o \in Obj : lost[o] > 0})
  BY <1>1, ReachMore
<1> QED BY <1>1, <1>2, GraphIs, ReachIs DEF Usable

(* a buckets with p items and more. *)
LEMMA Monotone ==
    ASSUME NEW a \in Nat, NEW b \in Nat, NEW p \in Nat, a <= b
    PROVE  a * p <= b * p
<1>1. b - a \in Nat /\ b = a + (b - a)
  OBVIOUS
<1> DEFINE d == b - a
<1> HIDE DEF d
<1>2. d \in Nat /\ b = a + d
  BY <1>1 DEF d
<1>3. b * p = a * p + d * p /\ d * p \in Nat /\ a * p \in Nat
  BY <1>2
<1> QED BY <1>3

(* A map that is full for one key has many. *)
LEMMA CrowdedHasMany ==
    ASSUME NEW m, Sound(m), NEW k \in Key, Crowded(m, k),
           m.bk_gr_pref = Cardinality(Deep(m.buckets))
    PROVE  Cardinality(Slots(m, Obj)) >= SafeCount
<1> DEFINE n == Cardinality(Slots(m, Obj))
<1>1. /\ m \in PropMaps
      /\ \A b \in Buckets : /\ DOMAIN m.buckets[b] = 1 .. Len(m.buckets[b])
                            /\ Len(m.buckets[b]) \in Nat /\ Len(m.buckets[b]) <= MaxDepth
                            /\ \A i \in 1 .. Len(m.buckets[b]) : m.buckets[b][i].val \in Obj
  BY SoundMeans, BucketType DEF Fits
<1>2. \A b \in Buckets : \A i \in 1 .. Len(m.buckets[b]) : <<b, i>> \in Slots(m, Obj)
  BY <1>1 DEF Slots
<1>3. ASSUME NEW B, B \subseteq Buckets, NEW d \in 1 .. MaxDepth,
             \A b \in B : Len(m.buckets[b]) >= d
      PROVE  /\ Cardinality(B) \in Nat /\ Cardinality(B) * d <= n
  <2>1. B \X (1 .. d) \in SUBSET Slots(m, Obj)
    <3>1. ASSUME NEW b \in B, NEW i \in 1 .. d PROVE <<b, i>> \in Slots(m, Obj)
      <4> DEFINE l == Len(m.buckets[b])
      <4>1. b \in Buckets /\ l \in Nat /\ l >= d
        BY <1>1, <1>3
      <4> HIDE DEF l
      <4>2. i \in 1 .. l
        BY <4>1
      <4> QED BY <1>2, <4>1, <4>2 DEF l
    <3> QED BY <3>1
  <2>2. IsFiniteSet(B) /\ IsFiniteSet(1 .. d) /\ Cardinality(1 .. d) = d
    <3>1. B \in SUBSET Buckets
      BY <1>3
    <3>2. IsFiniteSet(B)
      BY <3>1, BucketsFinite, FS_Subset, Zenon
    <3>3. d \in Int /\ 1 \in Int /\ 1 <= d
      OBVIOUS
    <3> QED BY <3>2, <3>3, FS_Interval
  <2>3. Cardinality(B \X (1 .. d)) = Cardinality(B) * d
    <3> DEFINE D == 1 .. d
    <3>1. IsFiniteSet(B) /\ IsFiniteSet(D) /\ Cardinality(D) = d
      BY <2>2
    <3> HIDE DEF D
    <3>2. Cardinality(B \X D) = Cardinality(B) * Cardinality(D)
      BY <3>1, FS_Product, Zenon
    <3> QED BY <3>1, <3>2 DEF D
  <2>4. Cardinality(B \X (1 .. d)) <= n
    BY <2>1, SlotsFinite, FS_Subset, Zenon
  <2> QED BY <2>2, <2>3, <2>4, FS_CardinalityType
<1>4. CASE Len(Bucket(m, k)) = MaxDepth
  <2> DEFINE b == Index(k)
  <2>1. b \in Buckets /\ Len(m.buckets[b]) = MaxDepth
    BY <1>4, IndexType DEF Bucket
  <2> HIDE DEF b
  <2>2. Cardinality({b}) = 1
    BY FS_Singleton
  <2>3. {b} \subseteq Buckets /\ MaxDepth \in 1 .. MaxDepth
        /\ \A c \in {b} : Len(m.buckets[c]) >= MaxDepth
    BY <2>1
  <2> HIDE DEF n
  <2>4. 1 * MaxDepth <= n
    BY <1>3, <2>2, <2>3
  <2>5. n \in Nat
    BY SlotsFinite DEF n
  <2>6. SafeCount \in Int /\ SafeCount <= MaxDepth
    <3> DEFINE s == (MaxDepth \div 2 + 1) * PrefDepth
    <3>1. s \in Int
      <4>1. MaxDepth \div 2 + 1 \in Int /\ PrefDepth \in Int
        OBVIOUS
      <4> QED BY <4>1
    <3>2. SafeCount = IF s < MaxDepth THEN s ELSE MaxDepth
      BY DEF SafeCount
    <3> HIDE DEF s
    <3> QED BY <3>1, <3>2
  <2> QED BY <2>4, <2>5, <2>6 DEF n
<1>5. CASE m.bk_gr_pref > MaxDepth \div 2
  <2> DEFINE B == Deep(m.buckets)
             a == MaxDepth \div 2 + 1
             c == Cardinality(B)
             s == a * PrefDepth
  <2>1. B \subseteq Buckets /\ \A b \in B : Len(m.buckets[b]) >= PrefDepth
    BY DEF Deep
  <2>2. c \in Nat /\ c * PrefDepth <= n
    BY <1>3, <2>1
  <2>3. a \in Nat /\ PrefDepth \in Nat
    OBVIOUS
  <2>4. SafeCount = IF s < MaxDepth THEN s ELSE MaxDepth
    BY DEF SafeCount
  <2>5. a <= c
    <3> DEFINE h == MaxDepth \div 2
    <3>1. h \in Nat /\ c > h /\ a = h + 1
      BY <1>5
    <3> HIDE DEF c, h, a
    <3> QED BY <2>2, <3>1
  <2>6. n \in Nat
    BY SlotsFinite
  <2> HIDE DEF B, a, c, n
  <2>7. s <= c * PrefDepth /\ s \in Int /\ c * PrefDepth \in Int
    BY <2>2, <2>3, <2>5, Monotone
  <2> DEFINE z == c * PrefDepth
  <2> HIDE DEF s, z
  <2>8. s \in Int /\ z \in Int /\ s <= z /\ z <= n
    BY <2>2, <2>7 DEF z
  <2>9. SafeCount <= s
    BY <2>4, <2>8
  <2>10. SafeCount \in Int
    BY <2>4, <2>8
  <2> QED BY <2>6, <2>8, <2>9, <2>10 DEF n
<1> QED BY <1>4, <1>5 DEF Crowded

(* Every item has a key of its own. *)
LEMMA CountOfKeys ==
    ASSUME NEW m, Sound(m)
    PROVE  Cardinality({k \in Key : pm_get(m, k) # NONE}) = Cardinality(Slots(m, Obj))
<1> DEFINE S == Slots(m, Obj)
           T == {k \in Key : pm_get(m, k) # NONE}
           f == [p \in S |-> m.buckets[p[1]][p[2]].key]
<1>1. m \in PropMaps /\ Fits(m) /\ KeysOnce(m)
  BY SoundMeans
<1>2. \A b \in Buckets :
         /\ DOMAIN m.buckets[b] = 1 .. Len(m.buckets[b])
         /\ Len(m.buckets[b]) \in Nat /\ Len(m.buckets[b]) <= MaxDepth
         /\ \A i \in 1 .. Len(m.buckets[b]) :
               /\ m.buckets[b][i].key \in Key /\ m.buckets[b][i].val \in Obj
               /\ Index(m.buckets[b][i].key) = b
               /\ \A j \in 1 .. Len(m.buckets[b]) :
                     m.buckets[b][j].key = m.buckets[b][i].key => j = i
  BY <1>1, BucketType DEF Fits, KeysOnce
<1>3. ASSUME NEW p \in S
      PROVE  /\ p = <<p[1], p[2]>> /\ p[1] \in Buckets /\ p[2] \in 1 .. Len(m.buckets[p[1]])
             /\ f[p] \in T /\ Index(f[p]) = p[1]
  <2>1. p = <<p[1], p[2]>> /\ p[1] \in Buckets /\ p[2] \in 1 .. Len(m.buckets[p[1]])
    BY <1>2 DEF Slots
  <2> DEFINE k == m.buckets[p[1]][p[2]].key
             v == m.buckets[p[1]][p[2]].val
  <2>2. f[p] = k /\ k \in Key /\ v \in Obj /\ Index(k) = p[1]
    BY <1>2, <2>1
  <2>3. Has(m, k, v)
    BY <2>1, <2>2 DEF Has, Bucket
  <2>4. pm_get(m, k) = v
    <3> HIDE DEF k, v
    <3> QED BY <2>2, <2>3, GetMeans
  <2>5. v # NONE
    BY <2>2
  <2> QED BY <2>1, <2>2, <2>4, <2>5
<1>4. ASSUME NEW p \in S, NEW q \in S, f[p] = f[q] PROVE p = q
  <2>1. p[1] = q[1]
    BY <1>3, <1>4
  <2>2. m.buckets[p[1]][p[2]].key = m.buckets[p[1]][q[2]].key
    BY <1>4, <2>1
  <2>3. p[2] = q[2]
    BY <1>2, <1>3, <2>1, <2>2
  <2> QED BY <1>3, <2>1, <2>3
<1>5. ASSUME NEW k \in T PROVE \E p \in S : f[p] = k
  <2> DEFINE b == Index(k)
             i == Position(m, k)
  <2>1. b \in Buckets /\ i \in 1 .. Len(m.buckets[b]) /\ m.buckets[b][i].key = k
    BY GetMeans, IndexType DEF Bucket
  <2> HIDE DEF b, i
  <2>2. <<b, i>> \in S
    BY <1>2, <2>1 DEF Slots
  <2>3. f[<<b, i>>] = k
    BY <2>1, <2>2
  <2> QED BY <2>2, <2>3
<1>6. IsFiniteSet(S) /\ f \in [S -> T]
  BY <1>3, SlotsFinite
<1> HIDE DEF S, T, f
<1>7. Cardinality(T) = Cardinality(S)
  BY <1>4, <1>5, <1>6, SameSize
<1> QED BY <1>7 DEF S, T

(* Every step is one of PropertyGraph, or nothing happens in it.           *)
LEMMA StepImplements ==
    ASSUME IInv, IInv', [Next]_vars
    PROVE  [Graph!Next]_(Graph!vars)
<1> DEFINE lostSet == {o \in Obj : lost[o] > 0}
           P == Properties(pm)
<1>1. TypeOK /\ Usable \subseteq Graph!Wanted
  BY UsableWanted DEF IInv
<1>2. Existing \subseteq Obj /\ Obj \subseteq Owner /\ Map \subseteq Owner /\ Owner = Obj \cup Map
  BY DEF Existing, Owner
<1>3. ASSUME pm' = pm, kind' = kind, held' = held, lost' = lost, wrecked' = wrecked
      PROVE  UNCHANGED Graph!vars
  BY <1>3 DEF Graph!vars, Existing
<1>4. ASSUME UNCHANGED lost PROVE lostSet' = lostSet
  BY <1>4
<1>5. ASSUME UNCHANGED kind PROVE Existing' = Existing
  BY <1>5 DEF Existing
<1>6. CASE UNCHANGED vars
  BY <1>3, <1>6 DEF vars, counting
<1>7. CASE Next
  <2>1. Steps
    BY <1>7, NextIsSteps
  <2>2. ASSUME NEW o \in Obj, NEW t \in LiteralKind \cup {"dynamic"}, New(o, t)
        PROVE  Graph!Make(o)
    <3>1. /\ kind[o] = "none" /\ kind' = [kind EXCEPT ![o] = t]
          /\ held' = [held EXCEPT ![o] = 1] /\ pm' = [pm EXCEPT ![o] = pm_new]
          /\ lost' = lost /\ wrecked' = wrecked /\ t # "none"
      BY <2>2 DEF New
    <3>2. o \notin Existing /\ pm' = pm
      BY <3>1, NewHasNone
    <3>3. Existing' = Existing \cup {o}
      BY <3>1, TypeFacts DEF Existing
    <3> QED BY <3>1, <3>2, <3>3, <1>4 DEF Graph!Make
  <2>3. ASSUME NEW o \in Obj, Release(o) PROVE Graph!Release(o)
    <3>1. /\ held[o] > 0 /\ held' = [held EXCEPT ![o] = @ - 1]
          /\ kind' = kind /\ pm' = pm /\ lost' = lost /\ wrecked' = wrecked
      BY <2>3 DEF Release
    <3> QED BY <3>1, <1>4, <1>5 DEF Graph!Release
  <2>4. ASSUME NEW o \in Obj, o \in Usable, ctno_claim(o) PROVE Graph!Claim(o)
    <3>1. /\ held' = [held EXCEPT ![o] = @ + 1]
          /\ kind' = kind /\ pm' = pm /\ lost' = lost /\ wrecked' = wrecked
      BY <2>4 DEF ctno_claim
    <3> QED BY <3>1, <1>1, <1>4, <1>5, <2>4 DEF Graph!Claim
  <2>5. ASSUME NEW o \in Obj, CopyFails(o) PROVE Graph!CopyFails(o)
    <3>1. kind' = kind /\ pm' = pm /\ held' = held /\ wrecked' = wrecked
      BY <2>5 DEF CopyFails
    <3>2. /\ \A p \in Obj : lost'[p] > 0 => lost[p] > 0 \/ p \in ValuesOf(o)
          /\ \A p \in Obj : lost[p] > 0 => lost'[p] > 0
      BY <2>5, CopyFailsKeeps
    <3>3. Graph!Children(o) = ValuesOf(o)
      BY <1>1, <1>2, GraphIs
    <3> DEFINE S == {p \in ValuesOf(o) : p \in lostSet'}
    <3>4. S \in SUBSET Graph!Children(o) /\ lostSet' = lostSet \cup S
      <4>1. ValuesOf(o) \subseteq Obj
        BY <1>1, <1>2, MapsSound
      <4> QED BY <3>2, <3>3, <4>1
    <3>5. lostSet' \in {lostSet \cup T : T \in SUBSET Graph!Children(o)}
      BY <3>4
    <3> QED BY <3>1, <3>5, <1>5 DEF Graph!CopyFails
  <2>6. ASSUME NEW o \in Obj, NEW c \in Obj, o \in Usable, CopyDynamic(o, c)
        PROVE  Graph!Copy(o, c)
    <3>1. /\ kind[c] = "none" /\ kind' = [kind EXCEPT ![c] = "dynamic"]
          /\ held' = [held EXCEPT ![c] = 1] /\ lost' = lost /\ wrecked' = wrecked
      BY <2>6 DEF CopyDynamic
    <3>2. c \notin Existing
      BY <3>1, NewHasNone
    <3>3. Existing' = Existing \cup {c}
      BY <3>1, TypeFacts DEF Existing
    <3>4. PICK m : Sound(m) /\ pm' = [pm EXCEPT ![c] = m] /\ Gets(m) = Gets(pm[o])
      BY <2>6, CopyProperties
    <3>5. Properties(pm') = [Properties(pm) EXCEPT ![c] = Properties(pm)[o]]
      <4>1. Properties(pm') = [Properties(pm) EXCEPT ![c] = Gets(m)]
        BY <1>1, <1>2, <3>4, PropertiesChange
      <4>2. Properties(pm)[o] = Gets(pm[o])
        BY <1>1, <1>2, PropertiesFacts
      <4> QED BY <3>4, <4>1, <4>2
    <3> QED BY <3>1, <3>2, <3>3, <3>5, <1>1, <1>4, <2>6 DEF Graph!Copy, Properties
  <2>7. ASSUME NEW x \in Owner, NEW k \in Key, NEW v \in Obj, MaySet(x, v),
               SetOld(x, k, v) \/ SetNew(x, k, v)
        PROVE  Graph!Set(x, k, v)
    <3>1. /\ kind' = kind /\ held' = held /\ lost' = lost /\ wrecked' = wrecked
      BY <2>7 DEF SetOld, SetNew
    <3>2. PICK m : /\ Sound(m) /\ pm' = [pm EXCEPT ![x] = m]
                   /\ Gets(m) = [Gets(pm[x]) EXCEPT ![k] = v]
      BY <2>7, SetProperty
    <3>3. /\ Properties(pm')[x] = [Properties(pm)[x] EXCEPT ![k] = v]
          /\ \A y \in Owner \ {x} : Properties(pm')[y] = Properties(pm)[y]
      <4>1. Properties(pm') = [Properties(pm) EXCEPT ![x] = Gets(m)]
        BY <1>1, <3>2, PropertiesChange
      <4>2. Properties(pm)[x] = Gets(pm[x])
        BY <1>1, PropertiesFacts
      <4>3. DOMAIN Properties(pm) = Owner
        BY DEF Properties
      <4> QED BY <3>2, <4>1, <4>2, <4>3
    <3>4. v \in Graph!Wanted /\ (x \in Obj => x \in Graph!Wanted \ Graph!Reach({v}))
      <4>1. Graph!Reach({v}) = Reach({v})
        BY <1>1, GraphIs, ReachIs
      <4> QED BY <1>1, <2>7, <4>1 DEF MaySet
    <3> QED BY <3>1, <3>3, <3>4, <1>2, <1>4, <1>5 DEF Graph!Set, Properties
  <2>8. ASSUME NEW x \in Owner, NEW k \in Key, Idle, SetGrown(x, k)
        PROVE  Graph!Overfill(x)
    <3>1. /\ wrecked' = wrecked \cup {x} /\ kind' = kind /\ held' = held /\ lost' = lost
          /\ pm' = pm /\ Crowded(pm[x], k)
      BY <2>8 DEF SetGrown, Idle, counting
    <3>2. x \in Obj => Cardinality({k2 \in Key : Properties(pm)[x][k2] # NONE}) >= SafeCount
      <4> SUFFICES ASSUME x \in Obj
                   PROVE  Cardinality({k2 \in Key : Properties(pm)[x][k2] # NONE}) >= SafeCount
        OBVIOUS
      <4>1. Sound(pm[x]) /\ pm[x].bk_gr_pref = Cardinality(Deep(pm[x].buckets))
        BY MapsSound, TypeFacts DEF IInv
      <4>2. Cardinality({k2 \in Key : pm_get(pm[x], k2) # NONE}) >= SafeCount
        BY <3>1, <4>1, CrowdedHasMany, CountOfKeys
      <4>3. \A k2 \in Key : Properties(pm)[x][k2] = pm_get(pm[x], k2)
        BY DEF Properties
      <4>4. {k2 \in Key : Properties(pm)[x][k2] # NONE} = {k2 \in Key : pm_get(pm[x], k2) # NONE}
        BY <4>3
      <4> QED BY <4>2, <4>4
    <3>3. lostSet' = lostSet /\ Existing' = Existing /\ UNCHANGED Properties(pm)
      BY <3>1, <1>4, <1>5
    <3>4. UNCHANGED held /\ wrecked' = wrecked \cup {x}
      BY <3>1
    <3>5. UNCHANGED <<Existing, held, lostSet, Properties(pm)>>
      BY <3>3, <3>4
    <3>6. x \in Obj =>
             Cardinality({k2 \in Key : [y \in Owner |-> [k3 \in Key |-> pm_get(pm[y], k3)]]
                                          [x][k2] # NONE}) >= SafeCount
      BY <3>2, Zenon DEF Properties
    <3>7. UNCHANGED <<Existing, held, {o \in Obj : lost[o] > 0},
                      [y \in Owner |-> [k3 \in Key |-> pm_get(pm[y], k3)]]>>
      BY <3>5, Zenon DEF Properties
    <3>8. \A S : Graph!Cardinality(S) = Cardinality(S)
      BY DEF Graph!Cardinality, Cardinality
    <3> QED BY <3>4, <3>6, <3>7, <3>8, Zenon DEF Graph!Overfill
  <2>9. ASSUME NEW x \in Map, NEW k \in Key, pm_remove(x, k)
        PROVE  Graph!Remove(x, k)
    <3>1. /\ kind' = kind /\ held' = held /\ lost' = lost /\ wrecked' = wrecked
      BY <2>9 DEF pm_remove, counting
    <3>2. PICK m : /\ Sound(m) /\ pm' = [pm EXCEPT ![x] = m]
                   /\ Gets(m) = [Gets(pm[x]) EXCEPT ![k] = NONE]
      BY <2>9, RemoveProperty
    <3>3. Properties(pm') = [Properties(pm) EXCEPT ![x][k] = NONE]
      <4>1. Properties(pm') = [Properties(pm) EXCEPT ![x] = Gets(m)]
        BY <1>1, <1>2, <3>2, PropertiesChange
      <4>2. Properties(pm)[x] = Gets(pm[x])
        BY <1>1, <1>2, PropertiesFacts
      <4> QED BY <3>2, <4>1, <4>2
    <3> QED BY <3>1, <3>3, <1>4, <1>5 DEF Graph!Remove, Properties
  <2>10. ASSUME NEW x \in Map, pm_free(x) PROVE Graph!Clear(x)
    <3>1. /\ kind' = kind /\ held' = held /\ lost' = lost /\ wrecked' = wrecked
          /\ pm' = [pm EXCEPT ![x] = pm_new]
      BY <2>10 DEF pm_free, counting
    <3>2. Properties(pm') = [Properties(pm) EXCEPT ![x] = Graph!Nothing]
      <4>1. Sound(pm_new) /\ Gets(pm_new) = Graph!Nothing
        BY ClearedProperties DEF Graph!Nothing
      <4> HIDE DEF pm_new
      <4>2. Properties(pm') = [Properties(pm) EXCEPT ![x] = Gets(pm_new)]
        BY <1>1, <1>2, <3>1, <4>1, PropertiesChange
      <4> QED BY <4>1, <4>2
    <3> QED BY <3>1, <3>2, <1>4, <1>5 DEF Graph!Clear, Properties
  <2>11. ASSUME FreeStep, ~UNCHANGED Graph!vars
         PROVE  \E o \in Obj : Graph!Reap(o)
    <3>1. held' = held /\ lost' = lost /\ wrecked' = wrecked
      BY <2>11, FreeCases
    <3>2. PICK o \in Existing :
                    /\ kind' = [kind EXCEPT ![o] = "none"]
                    /\ pm' = [pm EXCEPT ![o] = pm_new]
                    /\ held[o] = 0 /\ lost[o] = 0
                    /\ \A x \in Owner : o \notin ValuesOf(x)
      BY <1>3, <2>11, <3>1, FreeCases
    <3>3. o \in Obj
      BY <1>2
    <3>4. Existing' = Existing \ {o}
      BY <3>2, <3>3, TypeFacts DEF Existing
    <3>5. Properties(pm') = [Properties(pm) EXCEPT ![o] = Graph!Nothing]
      <4>1. Sound(pm_new) /\ Gets(pm_new) = Graph!Nothing
        BY ClearedProperties DEF Graph!Nothing
      <4> HIDE DEF pm_new
      <4>2. Properties(pm') = [Properties(pm) EXCEPT ![o] = Gets(pm_new)]
        BY <1>1, <1>2, <3>2, <3>3, <4>1, PropertiesChange
      <4> QED BY <4>1, <4>2
    <3>6. o \notin Graph!Wanted
      <4> DEFINE R == Roots \cup lostSet
      <4>1. Vals \in [Obj -> SUBSET Obj] /\ Roots \subseteq Obj
        BY <1>1, ValsType, UsableExists
      <4>2. R \subseteq Obj \ {o}
        BY <1>2, <3>2, <4>1 DEF Roots
      <4>3. Closed(Vals, Obj \ {o})
        BY <1>2, <3>2, <4>1 DEF Closed, Vals
      <4> HIDE DEF R
      <4>4. ReachBy(Vals, R) \subseteq Obj \ {o}
        BY <4>1, <4>2, <4>3, ReachFacts
      <4>5. Graph!Wanted = ReachBy(Vals, R)
        BY <1>1, GraphIs DEF R
      <4> QED BY <4>4, <4>5
    <3>7. Graph!Reap(o)
      BY <3>1, <3>2, <3>4, <3>5, <3>6, <1>4 DEF Graph!Reap, Properties
    <3> QED BY <3>3, <3>7
  <2>12. CASE \E o \in Obj, t \in LiteralKind \cup {"dynamic"} : New(o, t)
    BY <2>2, <2>12, Zenon DEF Graph!Next
  <2>13. CASE \E o \in Obj : Release(o)
    BY <2>3, <2>13, Zenon DEF Graph!Next
  <2>14. CASE \E o \in Obj : o \in Usable /\ ctno_claim(o)
    BY <2>4, <2>14, Zenon DEF Graph!Next
  <2>15. CASE \E o \in Obj : CopyFails(o)
    BY <2>5, <2>15, Zenon DEF Graph!Next
  <2>16. CASE \E o, c \in Obj : o \in Usable /\ CopyDynamic(o, c)
    BY <2>6, <2>16, Zenon DEF Graph!Next
  <2>17. CASE \E x \in Owner, k \in Key, v \in Obj : MaySet(x, v) /\ SetOld(x, k, v)
    BY <1>2, <2>7, <2>17, Zenon DEF Graph!Next
  <2>18. CASE \E x \in Owner, k \in Key, v \in Obj : MaySet(x, v) /\ SetNew(x, k, v)
    BY <1>2, <2>7, <2>18, Zenon DEF Graph!Next
  <2>19. CASE \E x \in Owner, k \in Key : Idle /\ SetGrown(x, k)
    BY <1>2, <2>8, <2>19, Zenon DEF Graph!Next
  <2>20. CASE \E m \in Map, k \in Key : pm_remove(m, k)
    BY <2>9, <2>20, Zenon DEF Graph!Next
  <2>21. CASE \E m \in Map : pm_free(m)
    BY <2>10, <2>21, Zenon DEF Graph!Next
  <2>22. CASE FreeStep
    BY <2>11, <2>22, Zenon DEF Graph!Next
  <2> QED BY <2>1, <2>12, <2>13, <2>14, <2>15, <2>16, <2>17, <2>18, <2>19, <2>20,
             <2>21, <2>22, Zenon DEF Steps
<1> QED BY <1>6, <1>7

LEMMA InitImplements ==
    ASSUME Init
    PROVE  Graph!Init
<1>1. /\ kind = [o \in Obj |-> "none"] /\ pm = [x \in Owner |-> pm_new]
      /\ held = [o \in Obj |-> 0] /\ lost = [o \in Obj |-> 0] /\ wrecked = {}
  BY DEF Init
<1>2. Existing = {} /\ {o \in Obj : lost[o] > 0} = {}
  BY <1>1 DEF Existing
<1>3. [x \in Owner |-> [k \in Key |-> pm_get(pm[x], k)]] = [x \in Obj \cup Map |-> Graph!Nothing]
  <2>1. \A x \in Owner : [k \in Key |-> pm_get(pm[x], k)] = Graph!Nothing
    BY <1>1, EmptyMap DEF Graph!Nothing
  <2> QED BY <2>1 DEF Owner
<1> QED BY <1>1, <1>2, <1>3 DEF Graph!Init

(* Counting, with buckets, does what a reader of object.h and prop_map.h   *)
(* expects: an object is there for as long as somebody can reach it, its   *)
(* properties are those that were set, and the map of an object grows only *)
(* when it has SafeCount properties or more (object.c, prop_map.c).        *)
THEOREM ObjectsImplementGraph == Spec => Implements
<1>1. Init => IInv /\ Graph!Init
  BY InitHolds, InitImplements
<1>2. IInv /\ [Next]_vars => IInv'
  BY StepKeeps
<1>3. IInv /\ IInv' /\ [Next]_vars => [Graph!Next]_(Graph!vars)
  BY StepImplements
<1> QED BY <1>1, <1>2, <1>3, PTL DEF Spec, Implements, Graph!Spec

=============================================================================
