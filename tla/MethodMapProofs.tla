-------------------------- MODULE MethodMapProofs --------------------------
(***************************************************************************)
(* Proofs about MethodMap: that the table can be searched and grows in     *)
(* time, that doubling it always makes room, that what it owns is owned    *)
(* once, and that all of it implements FiniteMap.                          *)
(*                                                                         *)
(* What a table holds is said by counting: Marks are the places of the     *)
(* items in a set, and an operation changes their number for every set at  *)
(* once.  That no name is there twice, what a search finds and who owns a  *)
(* block are counts of such sets.                                          *)
(***************************************************************************)
EXTENDS MethodMap, SequenceLemmas, FiniteSetTheorems

Entry == [key : Key, func : Val]
Tables(n) == [0 .. n - 1 -> Seq(Entry)]

(* The places of the items of a table that are in X. *)
Marks(bs, X) == {p \in (DOMAIN bs) \X Nat : p[2] \in Spots(bs[p[1]], X)}

Keyed(k) == {x \in Entry : x.key = k}
Valued(v) == {x \in Entry : x.func = v}

USE HashAssumption, WidthAssumption, DepthAssumption, ValAssumption

-----------------------------------------------------------------------------
(* Tables.                                                                 *)

LEMMA HashType ==
    ASSUME NEW n \in Nat \ {0}, NEW k \in Key
    PROVE  Hash[k] \in Nat /\ Hash[k] % n \in 0 .. n - 1
<1> DEFINE h == Hash[k]
<1>1. h \in Nat
  OBVIOUS
<1> HIDE DEF h
<1>2. h % n \in 0 .. n - 1
  BY <1>1
<1> QED BY <1>1, <1>2 DEF h

LEMMA EntryFacts ==
    ASSUME NEW x \in Entry
    PROVE  x.key \in Key /\ x.func \in Val /\ x = Item(x.key, x.func)
  BY DEF Entry, Item

LEMMA ItemFacts ==
    ASSUME NEW k \in Key, NEW v \in Val
    PROVE  Item(k, v) \in Entry /\ Item(k, v).key = k /\ Item(k, v).func = v
  BY DEF Entry, Item

LEMMA TableType ==
    ASSUME NEW n \in Nat \ {0}, NEW bs \in Tables(n), NEW b \in 0 .. n - 1
    PROVE  /\ DOMAIN bs = 0 .. n - 1
           /\ bs[b] \in Seq(Entry)
           /\ Len(bs[b]) \in Nat
           /\ DOMAIN bs[b] = 1 .. Len(bs[b])
           /\ \A i \in 1 .. Len(bs[b]) : bs[b][i] \in Entry
<1>1. DOMAIN bs = 0 .. n - 1 /\ bs[b] \in Seq(Entry)
  BY DEF Tables
<1> QED BY <1>1

LEMMA MarkFacts ==
    ASSUME NEW n \in Nat \ {0}, NEW bs \in Tables(n), NEW X, NEW p
    PROVE  p \in Marks(bs, X) <=>
              /\ p = <<p[1], p[2]>>
              /\ p[1] \in 0 .. n - 1
              /\ p[2] \in 1 .. Len(bs[p[1]])
              /\ bs[p[1]][p[2]] \in X
<1>1. DOMAIN bs = 0 .. n - 1
  BY DEF Tables
<1>2. ASSUME p \in Marks(bs, X)
      PROVE  /\ p = <<p[1], p[2]>> /\ p[1] \in 0 .. n - 1
             /\ p[2] \in 1 .. Len(bs[p[1]]) /\ bs[p[1]][p[2]] \in X
  BY <1>1, <1>2 DEF Marks, Spots
<1>3. ASSUME p = <<p[1], p[2]>>, p[1] \in 0 .. n - 1,
             p[2] \in 1 .. Len(bs[p[1]]), bs[p[1]][p[2]] \in X
      PROVE  p \in Marks(bs, X)
  <2>1. p[2] \in Nat
    BY <1>3, TableType
  <2> QED BY <1>1, <1>3, <2>1 DEF Marks, Spots
<1> QED BY <1>2, <1>3

(* The items of a table are those of its flat form. *)
LEMMA CountIsFlat ==
    ASSUME NEW n \in Nat \ {0}, NEW bs \in Tables(n), NEW X
    PROVE  LET all == FlattenSeq([i \in 1 .. n |-> bs[i - 1]])
           IN  /\ all \in Seq(Entry)
               /\ IsFiniteSet(Marks(bs, X))
               /\ Cardinality(Marks(bs, X)) \in Nat
               /\ Cardinality(Marks(bs, X)) = Cardinality(Spots(all, X))
<1> DEFINE ss == [i \in 1 .. n |-> bs[i - 1]]
           A == SpotsUpTo(ss, n, X)
           B == Marks(bs, X)
           f == [q \in A |-> <<q[1] - 1, q[2]>>]
<1>1. \A i \in 1 .. n : i - 1 \in 0 .. n - 1 /\ bs[i - 1] \in Seq(Entry)
  BY TableType
<1>2. ss \in Seq(Seq(Entry)) /\ Len(ss) = n
  BY <1>1
<1>3. /\ IsFiniteSet(A)
      /\ Cardinality(Spots(FlattenSeq(ss), X)) = Cardinality(A)
  <2> HIDE DEF ss
  <2> QED BY <1>2, CountOfFlatten
<1>4. ASSUME NEW q \in A
      PROVE  q = <<q[1], q[2]>> /\ q[1] \in 1 .. n /\ <<q[1] - 1, q[2]>> \in B
  <2>1. q = <<q[1], q[2]>> /\ q[1] \in 1 .. n /\ q[2] \in Nat /\ q[2] \in Spots(ss[q[1]], X)
    BY DEF SpotsUpTo
  <2>2. ss[q[1]] = bs[q[1] - 1] /\ q[1] - 1 \in DOMAIN bs
    BY <1>1, <2>1, TableType
  <2> QED BY <2>1, <2>2 DEF Marks
<1>5. ASSUME NEW p \in B PROVE \E q \in A : f[q] = p
  <2>1. /\ p = <<p[1], p[2]>> /\ p[1] \in DOMAIN bs /\ p[2] \in Nat
        /\ p[2] \in Spots(bs[p[1]], X)
    BY DEF Marks
  <2>2. p[1] \in 0 .. n - 1
    BY <2>1 DEF Tables
  <2>3. p[1] + 1 \in 1 .. n /\ (p[1] + 1) - 1 = p[1]
    BY <2>2
  <2>4. ss[p[1] + 1] = bs[p[1]]
    BY <2>3
  <2>5. <<p[1] + 1, p[2]>> \in A
    BY <2>1, <2>3, <2>4 DEF SpotsUpTo
  <2>6. f[<<p[1] + 1, p[2]>>] = p
    BY <2>1, <2>3, <2>5
  <2> QED BY <2>5, <2>6
<1>6. f \in [A -> B]
  <2> HIDE DEF A, B
  <2> QED BY <1>4
<1>7. ASSUME NEW x \in A, NEW y \in A, f[x] = f[y] PROVE x = y
  <2>1. x = <<x[1], x[2]>> /\ y = <<y[1], y[2]>> /\ x[1] \in 1 .. n /\ y[1] \in 1 .. n
    BY <1>4
  <2>2. x[1] - 1 = y[1] - 1 /\ x[2] = y[2]
    BY <1>7
  <2>3. x[1] = y[1]
    BY <2>1, <2>2
  <2> QED BY <2>1, <2>2, <2>3
<1>8. IsFiniteSet(B) /\ Cardinality(B) = Cardinality(A)
  <2> HIDE DEF A, B, f
  <2> QED BY <1>3, <1>5, <1>6, <1>7, SameSize, ZenonT(60)
<1>9. FlattenSeq(ss) \in Seq(Entry)
  <2> HIDE DEF ss
  <2> QED BY <1>2, FlattenType
<1> QED BY <1>3, <1>8, <1>9, FS_CardinalityType

(* One bucket is another. *)
LEMMA CountOfExchange ==
    ASSUME NEW n \in Nat \ {0}, NEW bs \in Tables(n), NEW h \in 0 .. n - 1,
           NEW s \in Seq(Entry), NEW X
    PROVE  /\ [bs EXCEPT ![h] = s] \in Tables(n)
           /\ Cardinality(Marks([bs EXCEPT ![h] = s], X)) =
                 Cardinality(Marks(bs, X))
                 + Cardinality(Spots(s, X)) - Cardinality(Spots(bs[h], X))
<1> DEFINE bs2 == [bs EXCEPT ![h] = s]
           Rest == {p \in Marks(bs, X) : p[1] # h}
           In(t) == {h} \X Spots(t, X)
<1>1. bs2 \in Tables(n) /\ bs2[h] = s /\ \A b \in 0 .. n - 1 : b # h => bs2[b] = bs[b]
  BY DEF Tables
<1> HIDE DEF bs2
<1>2. ASSUME NEW t \in Seq(Entry)
      PROVE  IsFiniteSet(In(t)) /\ Cardinality(In(t)) = Cardinality(Spots(t, X))
  <2> DEFINE S == Spots(t, X)
             U == {h} \X S
             f == [i \in S |-> <<h, i>>]
  <2>1. IsFiniteSet(S)
    BY SpotsFinite
  <2> HIDE DEF S
  <2>2. f \in [S -> U] /\ \A y \in U : \E x \in S : f[x] = y
    OBVIOUS
  <2>3. \A x, y \in S : f[x] = f[y] => x = y
    OBVIOUS
  <2> HIDE DEF f, U
  <2>4. IsFiniteSet(U) /\ Cardinality(U) = Cardinality(S)
    BY <2>1, <2>2, <2>3, SameSize, ZenonT(60)
  <2> QED BY <2>4 DEF S, U
<1>3. bs[h] \in Seq(Entry)
  BY TableType
<1>4. ASSUME NEW cs \in Tables(n), \A b \in 0 .. n - 1 : b # h => cs[b] = bs[b]
      PROVE  Marks(cs, X) = Rest \cup In(cs[h])
  <2>1. DOMAIN bs = 0 .. n - 1 /\ DOMAIN cs = 0 .. n - 1
    BY DEF Tables
  <2>2. Spots(cs[h], X) \subseteq Nat
    BY DEF Spots
  <2>3. \A p : p \in Marks(cs, X) => p \in Rest \cup In(cs[h])
    BY <1>4, <2>1 DEF Marks
  <2>4. \A p : p \in Rest \cup In(cs[h]) => p \in Marks(cs, X)
    BY <1>4, <2>1, <2>2 DEF Marks
  <2> QED BY <2>3, <2>4
<1>5. IsFiniteSet(Rest) /\ Cardinality(Rest) \in Nat
  <2>1. Rest \in SUBSET Marks(bs, X) /\ IsFiniteSet(Marks(bs, X))
    BY CountIsFlat
  <2> HIDE DEF Rest
  <2>2. IsFiniteSet(Rest)
    BY <2>1, FS_Subset, Zenon
  <2> QED BY <2>2, FS_CardinalityType
<1>6. ASSUME NEW t \in Seq(Entry)
      PROVE  Cardinality(Rest \cup In(t)) = Cardinality(Rest) + Cardinality(Spots(t, X))
  <2> DEFINE U == In(t)
             c == Cardinality(Spots(t, X))
  <2>1. IsFiniteSet(U) /\ Cardinality(U) = c /\ c \in Nat
    BY <1>2, SpotsFinite
  <2>2. Rest \cap U = {}
    OBVIOUS
  <2> HIDE DEF U, c, Rest
  <2>3. Cardinality(Rest \cup U) = Cardinality(Rest) + Cardinality(U) - Cardinality(Rest \cap U)
    BY <1>5, <2>1, FS_Union, Zenon
  <2>4. Cardinality(Rest \cap U) = 0
    BY <2>2, FS_EmptySet
  <2>5. Cardinality(Rest \cup U) = Cardinality(Rest) + c
    BY <1>5, <2>1, <2>3, <2>4
  <2> QED BY <2>5 DEF U, c
<1>7. Marks(bs, X) = Rest \cup In(bs[h]) /\ Marks(bs2, X) = Rest \cup In(s)
  BY <1>1, <1>4
<1> DEFINE a == Cardinality(Rest)
           c == Cardinality(Spots(s, X))
           d == Cardinality(Spots(bs[h], X))
<1>8. Cardinality(Marks(bs, X)) = a + d /\ Cardinality(Marks(bs2, X)) = a + c
  BY <1>3, <1>6, <1>7
<1>9. a \in Nat /\ c \in Nat /\ d \in Nat
  BY <1>3, <1>5, SpotsFinite
<1> HIDE DEF a, c, d
<1>10. Cardinality(Marks(bs2, X)) = Cardinality(Marks(bs, X)) + c - d
  BY <1>8, <1>9
<1> QED BY <1>1, <1>10 DEF bs2, c, d

(* The names of a bucket of a doubled table were in one bucket. *)
LEMMA HashOfDouble ==
    ASSUME NEW h \in Nat, NEW w \in Nat \ {0}
    PROVE  2 * w \in Nat \ {0} /\ (h % (2 * w)) % w = h % w
<1> DEFINE d == 2 * w
           q == h \div d
           r == h % d
<1>1. d \in Nat \ {0}
  OBVIOUS
<1>2. ASSUME NEW x \in Nat, NEW y \in Nat \ {0}
      PROVE  x = y * (x \div y) + (x % y) /\ x \div y \in Nat /\ x % y \in 0 .. y - 1
  OBVIOUS
<1>3. ASSUME NEW a \in Int, NEW b \in Int, NEW s \in 0 .. w - 1, NEW t \in 0 .. w - 1,
             w * a + s = w * b + t
      PROVE  s = t
  BY <1>3
<1> DEFINE a == h \div w
           s == h % w
           b == r \div w
           t == r % w
<1>4. h = d * q + r /\ q \in Nat /\ r \in Nat
  <2> HIDE DEF d
  <2> QED BY <1>1, <1>2
<1>5. h = w * a + s /\ a \in Nat /\ s \in 0 .. w - 1
  BY <1>2
<1>6. r = w * b + t /\ b \in Nat /\ t \in 0 .. w - 1
  <2> HIDE DEF r
  <2> QED BY <1>2, <1>4
<1> HIDE DEF q, r, a, s, b, t
<1>7. d * q = w * (2 * q)
  BY <1>4
<1>8. w * (2 * q) + (w * b + t) = w * (2 * q + b) + t
  BY <1>4, <1>6
<1>9. w * a + s = w * (2 * q + b) + t /\ 2 * q + b \in Int /\ a \in Int
  BY <1>4, <1>5, <1>6, <1>7, <1>8
<1>10. s = t
  BY <1>3, <1>5, <1>6, <1>9
<1> QED BY <1>1, <1>10 DEF s, t, r

-----------------------------------------------------------------------------
(* Adding and moving items.                                                *)

LEMMA AddedTable ==
    ASSUME NEW n \in Nat \ {0}, NEW bs \in Tables(n), NEW x \in Entry
    PROVE  LET h == Hash[x.key] % n
               bs2 == RawAdd(bs, x, n)
           IN  /\ h \in 0 .. n - 1
               /\ bs2 \in Tables(n)
               /\ bs2[h] = Append(bs[h], x)
               /\ \A b \in 0 .. n - 1 : b # h => bs2[b] = bs[b]
               /\ \A X : Cardinality(Marks(bs2, X)) =
                            Cardinality(Marks(bs, X)) + One(x \in X)
<1> DEFINE h == Hash[x.key] % n
           s == Append(bs[h], x)
           bs2 == RawAdd(bs, x, n)
<1>1. h \in 0 .. n - 1
  BY EntryFacts, HashType
<1>2. bs[h] \in Seq(Entry)
  BY <1>1, TableType
<1>3. s \in Seq(Entry)
  BY <1>2
<1>4. bs2 = [bs EXCEPT ![h] = s]
  BY DEF RawAdd
<1> HIDE DEF h, bs2
<1>5. bs2 \in Tables(n) /\ bs2[h] = s /\ \A b \in 0 .. n - 1 : b # h => bs2[b] = bs[b]
  BY <1>1, <1>3, <1>4 DEF Tables
<1>6. ASSUME NEW X
      PROVE  Cardinality(Marks(bs2, X)) = Cardinality(Marks(bs, X)) + One(x \in X)
  <2> DEFINE c == Cardinality(Marks(bs, X))
             d == Cardinality(Spots(bs[h], X))
             e == One(x \in X)
  <2>1. Cardinality(Spots(s, X)) = d + e
    BY <1>2, CountOfAppend
  <2>2. Cardinality(Marks(bs2, X)) = c + Cardinality(Spots(s, X)) - d
    <3> HIDE DEF s
    <3>1. s \in Seq(Entry) /\ bs2 = [bs EXCEPT ![h] = s]
      BY <1>3, <1>4
    <3>2. ASSUME NEW t \in Seq(Entry)
          PROVE  Cardinality(Marks([bs EXCEPT ![h] = t], X)) =
                    Cardinality(Marks(bs, X))
                    + Cardinality(Spots(t, X)) - Cardinality(Spots(bs[h], X))
      <4> HIDE DEF c, d, e
      <4> QED BY <1>1, CountOfExchange
    <3> QED BY <3>1, <3>2
  <2>3. c \in Nat /\ d \in Nat /\ e \in Nat
    BY <1>2, CountIsFlat, SpotsFinite DEF One
  <2> HIDE DEF c, d, e, s
  <2>4. Cardinality(Marks(bs2, X)) = c + e
    BY <2>1, <2>2, <2>3
  <2> QED BY <2>4 DEF c, e
<1> QED BY <1>1, <1>5, <1>6 DEF h, bs2

(* Every item is in the bucket of its name. *)
InPlace(bs, n) ==
    \A b \in 0 .. n - 1 : \A i \in 1 .. Len(bs[b]) : Hash[bs[b][i].key] % n = b

LEMMA EmptyTable ==
    ASSUME NEW n \in Nat \ {0}
    PROVE  /\ NoItems(n) \in Tables(n)
           /\ \A b \in 0 .. n - 1 : NoItems(n)[b] = <<>>
           /\ \A X : Marks(NoItems(n), X) = {} /\ Cardinality(Marks(NoItems(n), X)) = 0
<1>1. NoItems(n) \in Tables(n) /\ \A b \in 0 .. n - 1 : NoItems(n)[b] = <<>>
  BY DEF NoItems, Tables
<1>2. ASSUME NEW X PROVE Marks(NoItems(n), X) = {}
  <2>1. DOMAIN NoItems(n) = 0 .. n - 1
    BY DEF NoItems
  <2>2. Spots(<<>>, X) = {}
    BY DEF Spots
  <2> QED BY <1>1, <2>1, <2>2 DEF Marks
<1> QED BY <1>1, <1>2, FS_EmptySet

LEMMA AddedInPlace ==
    ASSUME NEW n \in Nat \ {0}, NEW bs \in Tables(n), InPlace(bs, n), NEW x \in Entry
    PROVE  InPlace(RawAdd(bs, x, n), n)
<1> DEFINE h == Hash[x.key] % n
           bs2 == RawAdd(bs, x, n)
<1>1. /\ h \in 0 .. n - 1 /\ bs2[h] = Append(bs[h], x)
      /\ \A b \in 0 .. n - 1 : b # h => bs2[b] = bs[b]
  BY AddedTable
<1> HIDE DEF bs2
<1> SUFFICES ASSUME NEW b \in 0 .. n - 1, NEW i \in 1 .. Len(bs2[b])
             PROVE  Hash[bs2[b][i].key] % n = b
  BY DEF InPlace, bs2
<1>2. CASE b # h
  BY <1>1, <1>2 DEF InPlace
<1>3. CASE b = h
  <2> DEFINE s == bs[h]
             l == Len(s)
  <2>1. s \in Seq(Entry) /\ l \in Nat
    BY <1>1, TableType
  <2>2. /\ Len(Append(s, x)) = l + 1 /\ Append(s, x)[l + 1] = x
        /\ \A j \in 1 .. l : Append(s, x)[j] = s[j]
    BY <2>1, AppendFacts
  <2>3. \A j \in 1 .. l : Hash[s[j].key] % n = b
    BY <1>3 DEF InPlace
  <2>4. Hash[x.key] % n = b /\ bs2[b] = Append(s, x)
    BY <1>1, <1>3
  <2> HIDE DEF s, l, h
  <2>5. i \in 1 .. l \/ i = l + 1
    BY <2>1, <2>2, <2>4
  <2> QED BY <2>2, <2>3, <2>4, <2>5
<1> QED BY <1>2, <1>3

LEMMA AllItemsFacts ==
    ASSUME width \in Nat \ {0}, buckets \in Tables(width)
    PROVE  /\ AllItems \in Seq(Entry)
           /\ \A X : Cardinality(Spots(AllItems, X)) = Cardinality(Marks(buckets, X))
<1>1. AllItems = FlattenSeq([i \in 1 .. width |-> buckets[i - 1]])
  BY DEF AllItems
<1> HIDE DEF AllItems
<1> QED BY <1>1, CountIsFlat

(* The loop of mm_rehash. *)
LEMMA RehashLoop ==
    ASSUME width \in Nat \ {0}, buckets \in Tables(width), NEW n \in Nat \ {0}
    PROVE  \E f \in [0 .. Len(AllItems) -> Tables(n)] :
              /\ Rehashed(n) = f[Len(AllItems)]
              /\ f[0] = NoItems(n)
              /\ \A i \in 1 .. Len(AllItems) : f[i] = RawAdd(f[i - 1], AllItems[i], n)
<1> DEFINE all == AllItems
           m == Len(all)
           T == Tables(n)
           none == NoItems(n)
           F(f) == [i \in 0 .. m |-> IF i = 0 THEN none ELSE RawAdd(f[i - 1], all[i], n)]
           step == [i \in 1 .. m |-> [bs \in T |-> RawAdd(bs, all[i], n)]]
           loop == CHOOSE f : f = F(f)
<1>1. all \in Seq(Entry) /\ m \in Nat /\ \A i \in 1 .. m : all[i] \in Entry
  <2>1. AllItems \in Seq(Entry)
    BY AllItemsFacts
  <2> HIDE DEF all
  <2>2. all \in Seq(Entry)
    BY <2>1 DEF all
  <2> QED BY <2>2
<1>2. none \in T
  BY EmptyTable
<1>3. Rehashed(n) = loop[m]
  BY DEF Rehashed
<1> HIDE DEF all, m, T, none
<1>4. ASSUME NEW i \in 1 .. m, NEW bs \in T PROVE RawAdd(bs, all[i], n) \in T
  BY <1>1, AddedTable DEF T
<1>5. step \in [1 .. m -> [T -> T]]
  BY <1>4
<1>6. PICK g \in [0 .. m -> T] :
         g[0] = none /\ \A i \in 1 .. m : g[i] = step[i][g[i - 1]]
  <2> HIDE DEF step
  <2>1. \E g : Iterates(g, m, T, none, step)
    BY <1>1, <1>2, <1>5, RecursionExists
  <2> QED BY <2>1 DEF Iterates
<1>7. \A i \in 1 .. m : i - 1 \in 0 .. m /\ i \in 0 .. m /\ i # 0
  BY <1>1
<1>8. ASSUME NEW i \in 1 .. m PROVE g[i] = RawAdd(g[i - 1], all[i], n)
  <2>1. g[i - 1] \in T
    BY <1>7
  <2> QED BY <1>6, <2>1
<1>9. g = F(g)
  <2>1. \A i \in 0 .. m : g[i] = IF i = 0 THEN none ELSE RawAdd(g[i - 1], all[i], n)
    <3>1. \A i \in 0 .. m : i # 0 => i \in 1 .. m
      BY <1>1
    <3> QED BY <1>6, <1>8, <3>1
  <2>2. g = [i \in 0 .. m |-> g[i]]
    OBVIOUS
  <2> QED BY <2>1, <2>2
<1>10. loop = F(loop)
  <2> HIDE DEF F
  <2> QED BY <1>9
<1>11. \A f, i : i \in 0 .. m => F(f)[i] = IF i = 0 THEN none ELSE RawAdd(f[i - 1], all[i], n)
  OBVIOUS
<1>12. loop = [i \in 0 .. m |-> loop[i]]
  BY <1>10, ZenonT(30)
<1> HIDE DEF F, loop
<1>13. /\ loop[0] = none
       /\ \A i \in 1 .. m : loop[i] = RawAdd(loop[i - 1], all[i], n)
  <2>1. \A i : i \in 0 .. m => loop[i] = IF i = 0 THEN none ELSE RawAdd(loop[i - 1], all[i], n)
    BY <1>10, <1>11, Zenon
  <2>2. 0 \in 0 .. m
    BY <1>1
  <2> QED BY <1>7, <2>1, <2>2
<1>14. \A i \in 0 .. m : loop[i] \in T
  <2> DEFINE Good == {i \in 0 .. m : loop[i] \in T}
  <2>1. 0 \in Good
    BY <1>1, <1>2, <1>13
  <2>2. ASSUME NEW i \in 0 .. m - 1, i \in Good PROVE i + 1 \in Good
    <3>1. i + 1 \in 1 .. m /\ (i + 1) - 1 = i /\ i + 1 \in 0 .. m
      BY <1>1
    <3>2. loop[i + 1] = RawAdd(loop[i], all[i + 1], n)
      BY <1>13, <3>1
    <3> QED BY <1>4, <2>2, <3>1, <3>2
  <2>3. \A i \in 0 .. m : i \in Good
    <3> HIDE DEF Good
    <3> QED BY <1>1, <2>1, <2>2, UpwardInduction
  <2> QED BY <2>3
<1>15. loop \in [0 .. m -> T]
  BY <1>12, <1>14
<1> QED BY <1>3, <1>13, <1>15 DEF all, m, T, none

(* A table that is built anew has the same items, each in its place. *)
LEMMA RehashedTable ==
    ASSUME width \in Nat \ {0}, buckets \in Tables(width), NEW n \in Nat \ {0}
    PROVE  /\ Rehashed(n) \in Tables(n)
           /\ InPlace(Rehashed(n), n)
           /\ \A X : Cardinality(Marks(Rehashed(n), X)) = Cardinality(Marks(buckets, X))
<1> DEFINE all == AllItems
           m == Len(all)
           T == Tables(n)
           Upto(i, X) == {j \in 1 .. i : all[j] \in X}
<1>1. all \in Seq(Entry) /\ m \in Nat /\ \A i \in 1 .. m : all[i] \in Entry
  <2>1. AllItems \in Seq(Entry)
    BY AllItemsFacts
  <2> HIDE DEF all
  <2>2. all \in Seq(Entry)
    BY <2>1 DEF all
  <2> QED BY <2>2
<1>2. PICK f \in [0 .. m -> T] :
         /\ Rehashed(n) = f[m]
         /\ f[0] = NoItems(n)
         /\ \A i \in 1 .. m : f[i] = RawAdd(f[i - 1], all[i], n)
  BY RehashLoop
<1>3. \A X : Cardinality(Spots(all, X)) = Cardinality(Marks(buckets, X))
  BY AllItemsFacts
<1>4. \A X : Spots(all, X) = Upto(m, X)
  BY DEF Spots
<1> HIDE DEF all, m, T
<1>5. ASSUME NEW i \in 0 .. m - 1
      PROVE  /\ i + 1 \in 1 .. m /\ i + 1 \in 0 .. m /\ i \in 0 .. m
             /\ all[i + 1] \in Entry
             /\ f[i] \in Tables(n) /\ f[i + 1] = RawAdd(f[i], all[i + 1], n)
  <2>1. i + 1 \in 1 .. m /\ i + 1 \in 0 .. m /\ i \in 0 .. m /\ (i + 1) - 1 = i
    BY <1>1
  <2> QED BY <1>1, <1>2, <2>1 DEF T
<1>6. InPlace(f[m], n)
  <2> DEFINE Good == {i \in 0 .. m : InPlace(f[i], n)}
  <2>1. 0 \in Good
    <3>1. InPlace(NoItems(n), n)
      <4>1. Len(<<>>) = 0
        OBVIOUS
      <4> QED BY <4>1, EmptyTable DEF InPlace
    <3> QED BY <1>1, <1>2, <3>1
  <2>2. ASSUME NEW i \in 0 .. m - 1, i \in Good PROVE i + 1 \in Good
    BY <1>5, <2>2, AddedInPlace
  <2>3. \A i \in 0 .. m : i \in Good
    <3> HIDE DEF Good
    <3> QED BY <1>1, <2>1, <2>2, UpwardInduction
  <2> QED BY <1>1, <2>3
<1>7. ASSUME NEW X PROVE Cardinality(Marks(f[m], X)) = Cardinality(Marks(buckets, X))
  <2> DEFINE Good == {i \in 0 .. m : /\ IsFiniteSet(Upto(i, X))
                                     /\ Cardinality(Marks(f[i], X)) = Cardinality(Upto(i, X))}
  <2>1. 0 \in Good
    <3>1. Upto(0, X) = {}
      OBVIOUS
    <3>2. Cardinality(Marks(f[0], X)) = 0
      BY <1>2, EmptyTable
    <3>3. IsFiniteSet(Upto(0, X)) /\ Cardinality(Upto(0, X)) = 0
      <4> HIDE DEF Upto
      <4> QED BY <3>1, FS_EmptySet
    <3>4. 0 \in 0 .. m
      BY <1>1
    <3> HIDE DEF Upto
    <3> QED BY <3>2, <3>3, <3>4
  <2>2. ASSUME NEW i \in 0 .. m - 1, i \in Good PROVE i + 1 \in Good
    <3> DEFINE b == all[i + 1] \in X
               S == Upto(i, X)
    <3>1. Upto(i + 1, X) = S \cup (IF b THEN {i + 1} ELSE {})
      <4>1. \A j : j \in 1 .. i + 1 <=> (j \in 1 .. i \/ j = i + 1)
        BY <1>1
      <4> QED BY <4>1
    <3>2. i + 1 \notin S
      BY <1>1
    <3>3. b \in BOOLEAN /\ IsFiniteSet(S) /\ Cardinality(Marks(f[i], X)) = Cardinality(S)
      BY <2>2
    <3> HIDE DEF S, Upto, b
    <3>4. Cardinality(Upto(i + 1, X)) = Cardinality(S) + One(b)
      BY <3>1, <3>2, <3>3, OneMore
    <3>5. IsFiniteSet(Upto(i + 1, X))
      <4>1. CASE b
        BY <3>1, <3>3, <4>1, FS_AddElement
      <4>2. CASE ~b
        BY <3>1, <3>3, <4>2
      <4> QED BY <4>1, <4>2
    <3>6. Cardinality(Marks(f[i + 1], X)) = Cardinality(Marks(f[i], X)) + One(b)
      BY <1>5, AddedTable DEF b
    <3> QED BY <1>5, <3>3, <3>4, <3>5, <3>6
  <2>3. \A i \in 0 .. m : i \in Good
    <3> HIDE DEF Good
    <3> QED BY <1>1, <2>1, <2>2, UpwardInduction
  <2>4. m \in Good
    <3> HIDE DEF Good
    <3> QED BY <1>1, <2>3
  <2>5. Cardinality(Marks(f[m], X)) = Cardinality(Upto(m, X))
    BY <2>4
  <2> HIDE DEF Upto
  <2> QED BY <1>3, <1>4, <2>5
<1>8. f[m] \in Tables(n)
  BY <1>1, <1>2 DEF T
<1> QED BY <1>2, <1>6, <1>7, <1>8

-----------------------------------------------------------------------------
(* Searching.                                                              *)

(* A table that can be searched. *)
Sound(bs, n) ==
    /\ bs \in Tables(n)
    /\ InPlace(bs, n)
    /\ \A k \in Key : Cardinality(Marks(bs, Keyed(k))) <= 1

(* mm_get in any table *)
Get(bs, n, k) ==
    LET b == bs[Hash[k] % n]
        i == Position(k, b)
    IN  IF i = 0 THEN NONE ELSE b[i].func

LEMMA LookupIsGet ==
    \A k : Lookup(k) = Get(buckets, width, k)
  BY DEF Lookup, Get, BucketOf

(* Position finds the first item of a bucket that has a name. *)
LEMMA PositionFacts ==
    ASSUME NEW b \in Seq(Entry), NEW k \in Key
    PROVE  /\ Position(k, b) \in 0 .. Len(b)
           /\ Position(k, b) = 0 => \A i \in 1 .. Len(b) : b[i].key # k
           /\ Position(k, b) # 0 => b[Position(k, b)].key = k
<1> DEFINE I == {i \in 1 .. Len(b) : b[i].key = k}
<1>1. Position(k, b) = IF I # {} THEN Min(I) ELSE 0
  BY DEF Position, SelectInSeq
<1>2. ASSUME I # {} PROVE Min(I) \in I
  <2>1. I \subseteq Nat
    OBVIOUS
  <2>2. \E n \in I : \A j \in I : n <= j
    <3> HIDE DEF I
    <3> QED BY <1>2, <2>1, LeastNumber
  <2> QED BY <2>2 DEF Min
<1> QED BY <1>1, <1>2

LEMMA CountZero ==
    ASSUME NEW n \in Nat \ {0}, NEW bs \in Tables(n), NEW X
    PROVE  /\ Cardinality(Marks(bs, X)) \in Nat
           /\ Cardinality(Marks(bs, X)) = 0 <=> Marks(bs, X) = {}
  BY CountIsFlat, FS_EmptySet

LEMMA CountSubset ==
    ASSUME NEW n \in Nat \ {0}, NEW bs \in Tables(n), NEW X, NEW S \in SUBSET Marks(bs, X)
    PROVE  /\ IsFiniteSet(S) /\ Cardinality(S) \in Nat
           /\ Cardinality(S) <= Cardinality(Marks(bs, X))
<1>1. IsFiniteSet(Marks(bs, X))
  BY CountIsFlat
<1>2. IsFiniteSet(S) /\ Cardinality(S) <= Cardinality(Marks(bs, X))
  BY <1>1, FS_Subset, Zenon
<1> QED BY <1>2, FS_CardinalityType

(* A name is in the table if some item has it. *)
LEMMA GetMeans ==
    ASSUME NEW n \in Nat \ {0}, NEW bs, Sound(bs, n), NEW k \in Key
    PROVE  LET b == bs[Hash[k] % n]
               i == Position(k, b)
           IN  /\ b \in Seq(Entry)
               /\ i \in 0 .. Len(b)
               /\ i = 0 <=> Get(bs, n, k) = NONE
               /\ i # 0 => b[i] = Item(k, Get(bs, n, k)) /\ Get(bs, n, k) \in Val
               /\ Get(bs, n, k) = NONE <=> Cardinality(Marks(bs, Keyed(k))) = 0
               /\ \A v \in Val :
                     Get(bs, n, k) = v <=> Cardinality(Marks(bs, {Item(k, v)})) # 0
<1> DEFINE h == Hash[k] % n
           b == bs[h]
           i == Position(k, b)
           g == Get(bs, n, k)
<1>1. /\ bs \in Tables(n) /\ InPlace(bs, n)
      /\ Cardinality(Marks(bs, Keyed(k))) <= 1
  BY DEF Sound
<1>2. h \in 0 .. n - 1
  BY HashType
<1>3. b \in Seq(Entry) /\ Len(b) \in Nat /\ \A j \in 1 .. Len(b) : b[j] \in Entry
  BY <1>1, <1>2, TableType
<1>4. /\ i \in 0 .. Len(b)
      /\ i = 0 => \A j \in 1 .. Len(b) : b[j].key # k
      /\ i # 0 => b[i].key = k
  <2> HIDE DEF b
  <2> QED BY <1>3, PositionFacts
<1>5. g = IF i = 0 THEN NONE ELSE b[i].func
  BY DEF Get
<1>6. ASSUME NEW p \in Marks(bs, Keyed(k))
      PROVE  p = <<h, p[2]>> /\ p[2] \in 1 .. Len(b) /\ b[p[2]].key = k
  <2>1. /\ p = <<p[1], p[2]>> /\ p[1] \in 0 .. n - 1 /\ p[2] \in 1 .. Len(bs[p[1]])
        /\ bs[p[1]][p[2]].key = k
    BY <1>1, MarkFacts DEF Keyed
  <2>2. p[1] = h
    BY <1>1, <2>1 DEF InPlace
  <2> QED BY <2>1, <2>2
<1>7. ASSUME i # 0 PROVE i \in 1 .. Len(b) /\ <<h, i>> \in Marks(bs, Keyed(k))
  <2>1. i \in 1 .. Len(b)
    BY <1>3, <1>4, <1>7
  <2>2. b[i] \in Keyed(k)
    BY <1>3, <1>4, <1>7, <2>1 DEF Keyed
  <2> QED BY <1>1, <1>2, <2>1, <2>2, MarkFacts
<1>8. i # 0 => b[i] = Item(k, g) /\ g \in Val
  <2> HIDE DEF b, g, i
  <2> QED BY <1>3, <1>4, <1>5, <1>7, EntryFacts
<1>9. i = 0 <=> g = NONE
  BY <1>5, <1>8
<1>10. i = 0 <=> Marks(bs, Keyed(k)) = {}
  BY <1>4, <1>6, <1>7
<1>11. g = NONE <=> Cardinality(Marks(bs, Keyed(k))) = 0
  <2> HIDE DEF g, i
  <2> QED BY <1>1, <1>9, <1>10, CountZero
<1>12. ASSUME NEW v \in Val
       PROVE  g = v <=> Cardinality(Marks(bs, {Item(k, v)})) # 0
  <2>1. ASSUME g = v PROVE Marks(bs, {Item(k, v)}) # {}
    <3>1. i # 0
      <4>1. v # NONE
        OBVIOUS
      <4> QED BY <1>9, <2>1, <4>1
    <3>2. b[i] \in {Item(k, v)}
      BY <1>8, <2>1, <3>1
    <3>3. <<h, i>> \in Marks(bs, {Item(k, v)})
      BY <1>1, <1>2, <1>7, <3>1, <3>2, MarkFacts
    <3> QED BY <3>3
  <2>2. ASSUME Marks(bs, {Item(k, v)}) # {} PROVE g = v
    <3>1. PICK p : p \in Marks(bs, {Item(k, v)})
      BY <2>2
    <3>2. /\ p = <<p[1], p[2]>> /\ p[1] \in 0 .. n - 1 /\ p[2] \in 1 .. Len(bs[p[1]])
          /\ bs[p[1]][p[2]] = Item(k, v)
      BY <1>1, <3>1, MarkFacts
    <3>3. Item(k, v) \in Keyed(k) /\ Item(k, v).func = v
      BY ItemFacts DEF Keyed
    <3>4. p \in Marks(bs, Keyed(k))
      BY <1>1, <3>2, <3>3, MarkFacts
    <3>5. i # 0
      BY <1>10, <3>4
    <3>6. p = <<h, i>>
      <4> DEFINE S == Marks(bs, Keyed(k))
      <4>1. IsFiniteSet(S) /\ Cardinality(S) <= 1
        BY <1>1, CountIsFlat
      <4>2. p \in S /\ <<h, i>> \in S
        BY <1>7, <3>4, <3>5
      <4> HIDE DEF S
      <4> QED BY <4>1, <4>2, CountAtMostOne
    <3>7. b[i] = Item(k, v)
      BY <3>2, <3>6
    <3> QED BY <1>5, <3>3, <3>5, <3>7
  <2> HIDE DEF g
  <2> QED BY <1>1, <2>1, <2>2, CountZero
<1> HIDE DEF g
<1> QED BY <1>3, <1>4, <1>8, <1>9, <1>11, <1>12 DEF g

(* Two tables with the same value of a name. *)
LEMMA SameGet ==
    ASSUME NEW n \in Nat \ {0}, NEW bs, Sound(bs, n),
           NEW n2 \in Nat \ {0}, NEW bs2, Sound(bs2, n2), NEW k \in Key,
           \A v \in Val : Cardinality(Marks(bs2, {Item(k, v)})) = 0
                             <=> Cardinality(Marks(bs, {Item(k, v)})) = 0
    PROVE  Get(bs2, n2, k) = Get(bs, n, k)
<1> DEFINE a == Get(bs, n, k)
           b == Get(bs2, n2, k)
<1>1. /\ a \in Val \cup {NONE} /\ b \in Val \cup {NONE}
      /\ \A v \in Val : /\ a = v <=> Cardinality(Marks(bs, {Item(k, v)})) # 0
                        /\ b = v <=> Cardinality(Marks(bs2, {Item(k, v)})) # 0
  BY GetMeans
<1> HIDE DEF a, b
<1>2. \A v \in Val : a = v <=> b = v
  BY <1>1
<1> QED BY <1>1, <1>2 DEF a, b

(* mm_rehash *)
LEMMA RehashedSound ==
    ASSUME width \in Nat \ {0}, Sound(buckets, width), NEW n \in Nat \ {0}
    PROVE  /\ Sound(Rehashed(n), n)
           /\ \A X : Cardinality(Marks(Rehashed(n), X)) = Cardinality(Marks(buckets, X))
           /\ \A k \in Key : Get(Rehashed(n), n, k) = Get(buckets, width, k)
<1>1. buckets \in Tables(width) /\ \A k \in Key : Cardinality(Marks(buckets, Keyed(k))) <= 1
  BY DEF Sound
<1> DEFINE bs2 == Rehashed(n)
<1>2. /\ bs2 \in Tables(n) /\ InPlace(bs2, n)
      /\ \A X : Cardinality(Marks(bs2, X)) = Cardinality(Marks(buckets, X))
  BY <1>1, RehashedTable
<1> HIDE DEF bs2
<1>3. Sound(bs2, n)
  BY <1>1, <1>2 DEF Sound
<1>4. ASSUME NEW k \in Key PROVE Get(bs2, n, k) = Get(buckets, width, k)
  <2>1. \A v \in Val : Cardinality(Marks(bs2, {Item(k, v)})) = 0
                          <=> Cardinality(Marks(buckets, {Item(k, v)})) = 0
    BY <1>2
  <2> QED BY <1>3, <2>1, SameGet
<1> QED BY <1>2, <1>3, <1>4 DEF bs2

(* A new item for a name that has none. *)
LEMMA PlacedSound ==
    ASSUME NEW n \in Nat \ {0}, NEW bs, Sound(bs, n), NEW k \in Key, NEW v \in Val,
           Get(bs, n, k) = NONE
    PROVE  LET bs2 == RawAdd(bs, Item(k, v), n)
           IN  /\ Sound(bs2, n)
               /\ \A X : Cardinality(Marks(bs2, X)) =
                            Cardinality(Marks(bs, X)) + One(Item(k, v) \in X)
               /\ \A j \in Key : Get(bs2, n, j) = IF j = k THEN v ELSE Get(bs, n, j)
<1> DEFINE x == Item(k, v)
           bs2 == RawAdd(bs, x, n)
<1>1. /\ bs \in Tables(n) /\ InPlace(bs, n)
      /\ \A j \in Key : Cardinality(Marks(bs, Keyed(j))) <= 1
  BY DEF Sound
<1>2. x \in Entry /\ x.key = k /\ x.func = v
  BY ItemFacts
<1> HIDE DEF x
<1>3. /\ bs2 \in Tables(n)
      /\ \A X : Cardinality(Marks(bs2, X)) = Cardinality(Marks(bs, X)) + One(x \in X)
  BY <1>1, <1>2, AddedTable
<1>4. InPlace(bs2, n)
  BY <1>1, <1>2, AddedInPlace
<1>5. Cardinality(Marks(bs, Keyed(k))) = 0
  BY GetMeans
<1> HIDE DEF bs2
<1>6. ASSUME NEW j \in Key PROVE Cardinality(Marks(bs2, Keyed(j))) <= 1
  <2>1. Cardinality(Marks(bs, Keyed(j))) \in Nat
    BY <1>1, CountZero
  <2>2. x \in Keyed(j) => j = k
    BY <1>2 DEF Keyed
  <2> QED BY <1>1, <1>3, <1>5, <2>1, <2>2 DEF One
<1>7. Sound(bs2, n)
  BY <1>3, <1>4, <1>6 DEF Sound
<1>8. Get(bs2, n, k) = v
  <2>1. Cardinality(Marks(bs2, {x})) = Cardinality(Marks(bs, {x})) + One(x \in {x})
    BY <1>3
  <2>2. Cardinality(Marks(bs, {x})) \in Nat /\ One(x \in {x}) = 1
    BY <1>1, CountZero DEF One
  <2>3. Cardinality(Marks(bs2, {Item(k, v)})) # 0
    BY <2>1, <2>2 DEF x
  <2> QED BY <1>7, <2>3, GetMeans
<1>9. ASSUME NEW j \in Key, j # k PROVE Get(bs2, n, j) = Get(bs, n, j)
  <2>1. ASSUME NEW w \in Val
        PROVE  Cardinality(Marks(bs2, {Item(j, w)})) = 0
                  <=> Cardinality(Marks(bs, {Item(j, w)})) = 0
    <3>1. x \notin {Item(j, w)}
      BY <1>2, <1>9, ItemFacts
    <3>2. Cardinality(Marks(bs, {Item(j, w)})) \in Nat
      BY <1>1, CountZero
    <3>3. One(x \in {Item(j, w)}) = 0
      BY <3>1 DEF One
    <3>4. Cardinality(Marks(bs2, {Item(j, w)})) = Cardinality(Marks(bs, {Item(j, w)})) + 0
      BY <1>3, <3>3
    <3> QED BY <3>2, <3>4
  <2> QED BY <1>7, <2>1, SameGet
<1> QED BY <1>3, <1>7, <1>8, <1>9 DEF bs2, x

(* The bucket s can take the place of the bucket b: its items belong there, *)
(* and there are no more of any name.                                      *)
CanReplace(s, b, h, n) ==
    /\ s \in Seq(Entry)
    /\ \A i \in 1 .. Len(s) : Hash[s[i].key] % n = h
    /\ \A j \in Key : Cardinality(Spots(s, Keyed(j))) <= Cardinality(Spots(b, Keyed(j)))

LEMMA BucketExchanged ==
    ASSUME NEW n \in Nat \ {0}, NEW bs, Sound(bs, n), NEW h \in 0 .. n - 1,
           NEW s, CanReplace(s, bs[h], h, n)
    PROVE  /\ Sound([bs EXCEPT ![h] = s], n)
           /\ \A X : Cardinality(Marks([bs EXCEPT ![h] = s], X)) =
                        Cardinality(Marks(bs, X))
                        + Cardinality(Spots(s, X)) - Cardinality(Spots(bs[h], X))
<1> USE DEF CanReplace
<1> DEFINE bs2 == [bs EXCEPT ![h] = s]
<1>1. /\ bs \in Tables(n) /\ InPlace(bs, n)
      /\ \A j \in Key : Cardinality(Marks(bs, Keyed(j))) <= 1
  BY DEF Sound
<1>2. bs2 \in Tables(n) /\ bs2[h] = s /\ \A b \in 0 .. n - 1 : b # h => bs2[b] = bs[b]
  BY <1>1 DEF Tables
<1>3. bs[h] \in Seq(Entry)
  BY <1>1, TableType
<1>4. ASSUME NEW X
      PROVE  Cardinality(Marks(bs2, X)) =
                Cardinality(Marks(bs, X))
                + Cardinality(Spots(s, X)) - Cardinality(Spots(bs[h], X))
  BY <1>1, CountOfExchange
<1> HIDE DEF bs2
<1>5. InPlace(bs2, n)
  <2> SUFFICES ASSUME NEW b \in 0 .. n - 1, NEW i \in 1 .. Len(bs2[b])
               PROVE  Hash[bs2[b][i].key] % n = b
    BY DEF InPlace
  <2>1. CASE b = h
    BY <1>2, <2>1
  <2>2. CASE b # h
    BY <1>1, <1>2, <2>2 DEF InPlace
  <2> QED BY <2>1, <2>2
<1>6. ASSUME NEW j \in Key PROVE Cardinality(Marks(bs2, Keyed(j))) <= 1
  <2> DEFINE X == Keyed(j)
             a == Cardinality(Marks(bs, X))
             c == Cardinality(Spots(s, X))
             d == Cardinality(Spots(bs[h], X))
  <2>1. a \in Nat /\ a <= 1 /\ c \in Nat /\ d \in Nat /\ c <= d
    BY <1>1, <1>3, CountZero, SpotsFinite
  <2>2. Cardinality(Marks(bs2, X)) = a + c - d
    BY <1>4
  <2> HIDE DEF a, c, d
  <2> QED BY <2>1, <2>2
<1>7. Sound(bs2, n)
  BY <1>2, <1>5, <1>6 DEF Sound
<1> QED BY <1>4, <1>7 DEF bs2

(* Another value for a name. *)
Replaced(bs, n, k, v) ==
    [bs EXCEPT ![Hash[k] % n][Position(k, bs[Hash[k] % n])].func = v]

LEMMA ReplacedSound ==
    ASSUME NEW n \in Nat \ {0}, NEW bs, Sound(bs, n), NEW k \in Key, NEW v \in Val,
           Get(bs, n, k) # NONE
    PROVE  LET bs2 == Replaced(bs, n, k, v)
           IN  /\ Sound(bs2, n)
               /\ \A b \in 0 .. n - 1 : Len(bs2[b]) = Len(bs[b])
               /\ \A X : Cardinality(Marks(bs2, X)) =
                            Cardinality(Marks(bs, X))
                            + One(Item(k, v) \in X)
                            - One(Item(k, Get(bs, n, k)) \in X)
               /\ \A j \in Key : Get(bs2, n, j) = IF j # k THEN Get(bs, n, j) ELSE v
<1> DEFINE h == Hash[k] % n
           b == bs[h]
           i == Position(k, b)
           u == Get(bs, n, k)
           s == [b EXCEPT ![i].func = v]
           bs2 == [bs EXCEPT ![h][i].func = v]
           x == Item(k, v)
           y == Item(k, u)
<1>1. bs \in Tables(n) /\ InPlace(bs, n) /\ h \in 0 .. n - 1
  BY HashType DEF Sound
<1>2. b \in Seq(Entry) /\ i \in 0 .. Len(b) /\ i # 0 /\ b[i] = y /\ u \in Val
  BY GetMeans
<1>3. \A j \in 1 .. Len(b) : Hash[b[j].key] % n = h
  BY <1>1 DEF InPlace
<1>4. bs2 = [bs EXCEPT ![h] = s]
  BY <1>1 DEF Tables
<1>5. x \in Entry /\ y \in Entry /\ x.key = k /\ y.key = k /\ [y EXCEPT !.func = v] = x
  BY <1>2, ItemFacts DEF Item
<1>6. Cardinality(Marks(bs, {y})) # 0
  BY GetMeans
<1> HIDE DEF h, i, u, x, y, bs2
<1>7. i \in 1 .. Len(b) /\ b[i] = y
  BY <1>2
<1>8. s = [b EXCEPT ![i] = x]
  <2> HIDE DEF b
  <2>1. s = [b EXCEPT ![i] = [b[i] EXCEPT !.func = v]]
    OBVIOUS
  <2> QED BY <1>5, <1>7, <2>1
<1> HIDE DEF b, s
<1>9. /\ s \in Seq(Entry) /\ Len(s) = Len(b) /\ s[i] = x
      /\ \A j \in 1 .. Len(b) : j # i => s[j] = b[j]
  BY <1>2, <1>5, <1>7, <1>8
<1>10. ASSUME NEW X
       PROVE  /\ Cardinality(Spots(s, X)) =
                    Cardinality(Spots(b, X)) + One(x \in X) - One(y \in X)
              /\ Cardinality(Spots(b, X)) \in Nat
  <2>1. Cardinality(Spots(s, X)) =
           Cardinality(Spots(b, X)) + One(s[i] \in X) - One(b[i] \in X)
    BY <1>2, <1>7, <1>9, CountOfChange
  <2> QED BY <1>2, <1>7, <1>9, <2>1, SpotsFinite
<1>11. \A j \in 1 .. Len(s) : Hash[s[j].key] % n = h
  <2> TAKE j \in 1 .. Len(s)
  <2>1. CASE j = i
    BY <1>5, <1>9, <2>1 DEF h
  <2>2. CASE j # i
    BY <1>3, <1>9, <2>2
  <2> QED BY <2>1, <2>2
<1>12. ASSUME NEW j \in Key
       PROVE  Cardinality(Spots(s, Keyed(j))) <= Cardinality(Spots(b, Keyed(j)))
  <2> DEFINE X == Keyed(j)
  <2>1. x \in X <=> y \in X
    BY <1>5 DEF Keyed
  <2>2. One(x \in X) = One(y \in X) /\ One(x \in X) \in Nat
    BY <2>1 DEF One
  <2> HIDE DEF X
  <2>3. Cardinality(Spots(s, X)) <= Cardinality(Spots(b, X))
    BY <1>10, <2>2
  <2> QED BY <2>3 DEF X
<1>13. /\ Sound(bs2, n)
       /\ \A X : Cardinality(Marks(bs2, X)) =
                    Cardinality(Marks(bs, X))
                    + Cardinality(Spots(s, X)) - Cardinality(Spots(b, X))
  <2>1. h \in 0 .. n - 1 /\ CanReplace(s, bs[h], h, n)
    BY <1>1, <1>9, <1>11, <1>12 DEF b, CanReplace
  <2>2. Sound([bs EXCEPT ![h] = s], n)
    BY <2>1, BucketExchanged
  <2>3. ASSUME NEW X
        PROVE  Cardinality(Marks([bs EXCEPT ![h] = s], X)) =
                  Cardinality(Marks(bs, X))
                  + Cardinality(Spots(s, X)) - Cardinality(Spots(bs[h], X))
    BY <2>1, BucketExchanged
  <2> QED BY <1>4, <2>2, <2>3 DEF b
<1>14. ASSUME NEW X
       PROVE  Cardinality(Marks(bs2, X)) =
                 Cardinality(Marks(bs, X)) + One(x \in X) - One(y \in X)
  <2> DEFINE a == Cardinality(Marks(bs, X))
             c == Cardinality(Spots(b, X))
             e == One(x \in X)
             f == One(y \in X)
  <2>1. a \in Nat /\ c \in Nat /\ e \in Nat /\ f \in Nat
    BY <1>1, <1>10, CountZero DEF One
  <2>2. Cardinality(Marks(bs2, X)) = a + Cardinality(Spots(s, X)) - c
    BY <1>13
  <2>3. Cardinality(Spots(s, X)) = c + e - f
    BY <1>10
  <2> HIDE DEF a, c, e, f
  <2>4. Cardinality(Marks(bs2, X)) = a + e - f
    BY <2>1, <2>2, <2>3
  <2> QED BY <2>4 DEF a, e, f
<1>15. \A c \in 0 .. n - 1 : Len(bs2[c]) = Len(bs[c])
  <2>1. bs2[h] = s /\ \A c \in 0 .. n - 1 : c # h => bs2[c] = bs[c]
    BY <1>1, <1>4 DEF Tables
  <2> QED BY <1>9, <2>1 DEF b
<1>16. ASSUME NEW j \in Key, j # k PROVE Get(bs2, n, j) = Get(bs, n, j)
  <2>1. ASSUME NEW w \in Val
        PROVE  Cardinality(Marks(bs2, {Item(j, w)})) = 0
                  <=> Cardinality(Marks(bs, {Item(j, w)})) = 0
    <3> DEFINE X == {Item(j, w)}
    <3>1. x \notin X /\ y \notin X
      BY <1>5, <1>16, ItemFacts
    <3> HIDE DEF X
    <3>2. Cardinality(Marks(bs, X)) \in Nat
      BY <1>1, CountZero
    <3>3. One(x \in X) = 0 /\ One(y \in X) = 0
      BY <3>1 DEF One
    <3>4. Cardinality(Marks(bs2, X)) = Cardinality(Marks(bs, X)) + 0 - 0
      BY <1>14, <3>3
    <3>5. Cardinality(Marks(bs2, X)) = 0 <=> Cardinality(Marks(bs, X)) = 0
      BY <3>2, <3>4
    <3> QED BY <3>5 DEF X
  <2> QED BY <1>13, <2>1, SameGet
<1>17. Get(bs2, n, k) = v
  <2> DEFINE X == {x}
             a == Cardinality(Marks(bs, X))
             f == One(y \in X)
  <2>1. a \in Nat /\ One(x \in X) = 1
    BY <1>1, CountZero DEF One
  <2>2. f = 0 \/ (f = 1 /\ a # 0)
    <3>1. CASE x = y
      BY <1>6, <3>1 DEF One
    <3>2. CASE x # y
      BY <3>2 DEF One
    <3> QED BY <3>1, <3>2
  <2>3. Cardinality(Marks(bs2, X)) = a + One(x \in X) - f
    BY <1>14
  <2> HIDE DEF a, f, X
  <2>4. Cardinality(Marks(bs2, X)) # 0
    BY <2>1, <2>2, <2>3
  <2>5. Cardinality(Marks(bs2, {Item(k, v)})) # 0
    BY <2>4 DEF X, x
  <2> QED BY <1>13, <2>5, GetMeans
<1>18. \A j \in Key : Get(bs2, n, j) = IF j # k THEN Get(bs, n, j) ELSE v
  BY <1>16, <1>17
<1> QED BY <1>13, <1>14, <1>15, <1>18 DEF Replaced, bs2, h, b, i, u, x, y

(* mm_remove *)
Removed(bs, n, k) ==
    [bs EXCEPT ![Hash[k] % n] = RemoveAt(@, Position(k, bs[Hash[k] % n]))]

LEMMA RemovedSound ==
    ASSUME NEW n \in Nat \ {0}, NEW bs, Sound(bs, n), NEW k \in Key,
           Get(bs, n, k) # NONE
    PROVE  LET bs2 == Removed(bs, n, k)
           IN  /\ Sound(bs2, n)
               /\ \A b \in 0 .. n - 1 : Len(bs2[b]) <= Len(bs[b])
               /\ \A X : Cardinality(Marks(bs2, X)) =
                            Cardinality(Marks(bs, X)) - One(Item(k, Get(bs, n, k)) \in X)
               /\ \A j \in Key : Get(bs2, n, j) = IF j # k THEN Get(bs, n, j) ELSE NONE
<1> DEFINE h == Hash[k] % n
           b == bs[h]
           i == Position(k, b)
           u == Get(bs, n, k)
           s == RemoveAt(b, i)
           bs2 == [bs EXCEPT ![h] = RemoveAt(@, i)]
           y == Item(k, u)
<1>1. /\ bs \in Tables(n) /\ InPlace(bs, n) /\ h \in 0 .. n - 1
      /\ Cardinality(Marks(bs, Keyed(k))) <= 1
  BY HashType DEF Sound
<1>2. b \in Seq(Entry) /\ i \in 0 .. Len(b) /\ i # 0 /\ b[i] = y /\ u \in Val
  BY GetMeans
<1>3. \A j \in 1 .. Len(b) : Hash[b[j].key] % n = h
  BY <1>1 DEF InPlace
<1>4. bs2 = [bs EXCEPT ![h] = s]
  BY <1>1 DEF Tables
<1>5. y \in Entry /\ y.key = k
  BY <1>2, ItemFacts
<1> HIDE DEF h, b, i, u, y, s, bs2
<1>6. Len(b) \in Nat /\ i \in 1 .. Len(b)
  BY <1>2
<1>7. /\ s \in Seq(Entry) /\ Len(s) = Len(b) - 1
      /\ \A j \in 1 .. Len(b) - 1 : s[j] = IF j < i THEN b[j] ELSE b[j + 1]
  BY <1>2, <1>6, RemoveAtFacts DEF s
<1>8. ASSUME NEW X
      PROVE  /\ Cardinality(Spots(s, X)) = Cardinality(Spots(b, X)) - One(y \in X)
             /\ Cardinality(Spots(b, X)) \in Nat /\ One(y \in X) \in Nat
  <2>1. Cardinality(Spots(s, X)) = Cardinality(Spots(b, X)) - One(y \in X)
    BY <1>2, <1>6, CountOfRemoved DEF s
  <2>2. Cardinality(Spots(b, X)) \in Nat /\ One(y \in X) \in Nat
    BY <1>2, SpotsFinite DEF One
  <2> QED BY <2>1, <2>2
<1>9. \A j \in 1 .. Len(s) : Hash[s[j].key] % n = h
  <2> TAKE j \in 1 .. Len(s)
  <2>1. j \in 1 .. Len(b) - 1 /\ j \in 1 .. Len(b) /\ j + 1 \in 1 .. Len(b)
    BY <1>6, <1>7
  <2> QED BY <1>3, <1>7, <2>1
<1>10. ASSUME NEW j \in Key
       PROVE  Cardinality(Spots(s, Keyed(j))) <= Cardinality(Spots(b, Keyed(j)))
  <2> DEFINE X == Keyed(j)
             c == Cardinality(Spots(b, X))
             f == One(y \in X)
  <2>1. Cardinality(Spots(s, X)) = c - f /\ c \in Nat /\ f \in Nat
    BY <1>8
  <2> HIDE DEF X, c, f
  <2>2. Cardinality(Spots(s, X)) <= c
    BY <2>1
  <2> QED BY <2>2 DEF X, c
<1>11. /\ Sound(bs2, n)
       /\ \A X : Cardinality(Marks(bs2, X)) =
                    Cardinality(Marks(bs, X))
                    + Cardinality(Spots(s, X)) - Cardinality(Spots(b, X))
  <2>1. h \in 0 .. n - 1 /\ CanReplace(s, bs[h], h, n)
    BY <1>1, <1>7, <1>9, <1>10 DEF b, CanReplace
  <2>2. Sound([bs EXCEPT ![h] = s], n)
    BY <2>1, BucketExchanged
  <2>3. ASSUME NEW X
        PROVE  Cardinality(Marks([bs EXCEPT ![h] = s], X)) =
                  Cardinality(Marks(bs, X))
                  + Cardinality(Spots(s, X)) - Cardinality(Spots(bs[h], X))
    BY <2>1, BucketExchanged
  <2> QED BY <1>4, <2>2, <2>3 DEF b
<1>12. ASSUME NEW X
       PROVE  Cardinality(Marks(bs2, X)) = Cardinality(Marks(bs, X)) - One(y \in X)
  <2> DEFINE a == Cardinality(Marks(bs, X))
             c == Cardinality(Spots(b, X))
             f == One(y \in X)
  <2>1. a \in Nat /\ c \in Nat /\ f \in Nat
    BY <1>1, <1>8, CountZero
  <2>2. Cardinality(Marks(bs2, X)) = a + Cardinality(Spots(s, X)) - c
    BY <1>11
  <2>3. Cardinality(Spots(s, X)) = c - f
    BY <1>8
  <2> HIDE DEF a, c, f
  <2>4. Cardinality(Marks(bs2, X)) = a - f
    BY <2>1, <2>2, <2>3
  <2> QED BY <2>4 DEF a, f
<1>13. \A c \in 0 .. n - 1 : Len(bs2[c]) <= Len(bs[c])
  <2>1. bs2[h] = s /\ \A c \in 0 .. n - 1 : c # h => bs2[c] = bs[c]
    BY <1>1, <1>4 DEF Tables
  <2>2. \A c \in 0 .. n - 1 : Len(bs[c]) \in Nat
    BY <1>1, TableType
  <2>3. Len(s) <= Len(bs[h])
    BY <1>6, <1>7 DEF b
  <2> QED BY <2>1, <2>2, <2>3
<1>14. ASSUME NEW j \in Key, j # k PROVE Get(bs2, n, j) = Get(bs, n, j)
  <2>1. ASSUME NEW w \in Val
        PROVE  Cardinality(Marks(bs2, {Item(j, w)})) = 0
                  <=> Cardinality(Marks(bs, {Item(j, w)})) = 0
    <3> DEFINE X == {Item(j, w)}
    <3>1. y \notin X
      BY <1>5, <1>14, ItemFacts
    <3> HIDE DEF X
    <3>2. Cardinality(Marks(bs, X)) \in Nat
      BY <1>1, CountZero
    <3>3. One(y \in X) = 0
      BY <3>1 DEF One
    <3>4. Cardinality(Marks(bs2, X)) = Cardinality(Marks(bs, X)) - 0
      BY <1>12, <3>3
    <3>5. Cardinality(Marks(bs2, X)) = 0 <=> Cardinality(Marks(bs, X)) = 0
      BY <3>2, <3>4
    <3> QED BY <3>5 DEF X
  <2> QED BY <1>11, <2>1, SameGet
<1>15. Get(bs2, n, k) = NONE
  <2> DEFINE X == Keyed(k)
             a == Cardinality(Marks(bs, X))
  <2>1. a \in Nat /\ a <= 1
    BY <1>1, CountZero
  <2>2. y \in X
    BY <1>5 DEF Keyed
  <2>3. Cardinality(Marks(bs2, X)) = a - One(y \in X) /\ One(y \in X) = 1
    BY <1>12, <2>2 DEF One
  <2>4. Cardinality(Marks(bs2, X)) \in Nat
    BY <1>11, CountZero DEF Sound
  <2> HIDE DEF X, a
  <2>5. Cardinality(Marks(bs2, X)) = 0
    BY <2>1, <2>3, <2>4
  <2> QED BY <1>11, <2>5, GetMeans DEF X
<1>16. \A j \in Key : Get(bs2, n, j) = IF j # k THEN Get(bs, n, j) ELSE NONE
  BY <1>14, <1>15
<1> QED BY <1>11, <1>12, <1>13, <1>16 DEF Removed, bs2, h, b, i, u, y

-----------------------------------------------------------------------------
(* The invariant in terms of counts.                                       *)

(* Places, of any table *)
PlacesOf(bs) ==
    {p \in (DOMAIN bs) \X (1 .. MaxDepth + 1) : p[2] <= Len(bs[p[1]])}

LEMMA PlacesAreMarks ==
    ASSUME NEW n \in Nat \ {0}, NEW bs \in Tables(n), Fits(bs)
    PROVE  PlacesOf(bs) = Marks(bs, Entry)
<1>1. /\ DOMAIN bs = 0 .. n - 1
      /\ \A b \in 0 .. n - 1 : /\ Len(bs[b]) \in Nat /\ Len(bs[b]) <= MaxDepth
                               /\ \A i \in 1 .. Len(bs[b]) : bs[b][i] \in Entry
  BY TableType DEF Fits
<1>2. ASSUME NEW b \in 0 .. n - 1, NEW i
      PROVE  i \in 1 .. Len(bs[b]) <=> (i \in 1 .. MaxDepth + 1 /\ i <= Len(bs[b]))
  <2> DEFINE l == Len(bs[b])
  <2>1. l \in Nat /\ l <= MaxDepth
    BY <1>1
  <2> HIDE DEF l
  <2>2. i \in 1 .. l <=> (i \in 1 .. MaxDepth + 1 /\ i <= l)
    BY <2>1
  <2> QED BY <2>2 DEF l
<1>3. ASSUME NEW p \in PlacesOf(bs) PROVE p \in Marks(bs, Entry)
  <2>1. /\ p = <<p[1], p[2]>> /\ p[1] \in 0 .. n - 1
        /\ p[2] \in 1 .. MaxDepth + 1 /\ p[2] <= Len(bs[p[1]])
    BY <1>1 DEF PlacesOf
  <2>2. p[2] \in 1 .. Len(bs[p[1]])
    BY <1>2, <2>1
  <2> QED BY <1>1, <2>1, <2>2, MarkFacts
<1>4. ASSUME NEW p \in Marks(bs, Entry) PROVE p \in PlacesOf(bs)
  <2>1. p = <<p[1], p[2]>> /\ p[1] \in 0 .. n - 1 /\ p[2] \in 1 .. Len(bs[p[1]])
    BY MarkFacts
  <2>2. p[2] \in 1 .. MaxDepth + 1 /\ p[2] <= Len(bs[p[1]])
    BY <1>2, <2>1
  <2> QED BY <1>1, <2>1, <2>2 DEF PlacesOf
<1> QED BY <1>3, <1>4

(* No name is there twice. *)
LEMMA KeysOnce ==
    ASSUME NEW n \in Nat \ {0}, NEW bs \in Tables(n)
    PROVE  (\A k \in Key : Cardinality(Marks(bs, Keyed(k))) <= 1)
              <=> \A p, q \in Marks(bs, Entry) :
                     bs[p[1]][p[2]].key = bs[q[1]][q[2]].key => p = q
<1>1. ASSUME NEW k \in Key
      PROVE  Cardinality(Marks(bs, Keyed(k))) <= 1
                <=> \A p, q \in Marks(bs, Keyed(k)) : p = q
  BY CountIsFlat, CountAtMostOne
<1>2. ASSUME NEW p, NEW k \in Key
      PROVE  p \in Marks(bs, Keyed(k))
                <=> (p \in Marks(bs, Entry) /\ bs[p[1]][p[2]].key = k)
  BY MarkFacts DEF Keyed
<1>3. ASSUME NEW p \in Marks(bs, Entry) PROVE bs[p[1]][p[2]].key \in Key
  BY MarkFacts, EntryFacts
<1>4. ASSUME \A k \in Key : Cardinality(Marks(bs, Keyed(k))) <= 1,
             NEW p \in Marks(bs, Entry), NEW q \in Marks(bs, Entry),
             bs[p[1]][p[2]].key = bs[q[1]][q[2]].key
      PROVE  p = q
  <2> DEFINE k == bs[p[1]][p[2]].key
  <2>1. k \in Key /\ bs[q[1]][q[2]].key = k
    BY <1>3, <1>4
  <2>2. p \in Marks(bs, Keyed(k)) /\ q \in Marks(bs, Keyed(k))
    BY <1>2, <2>1
  <2> HIDE DEF k
  <2> QED BY <1>1, <1>4, <2>1, <2>2
<1>5. ASSUME \A p, q \in Marks(bs, Entry) :
                bs[p[1]][p[2]].key = bs[q[1]][q[2]].key => p = q,
             NEW k \in Key
      PROVE  Cardinality(Marks(bs, Keyed(k))) <= 1
  <2>1. ASSUME NEW p \in Marks(bs, Keyed(k)), NEW q \in Marks(bs, Keyed(k)) PROVE p = q
    <3>1. p \in Marks(bs, Entry) /\ bs[p[1]][p[2]].key = k
      BY <1>2
    <3>2. q \in Marks(bs, Entry) /\ bs[q[1]][q[2]].key = k
      BY <1>2
    <3> QED BY <1>5, <3>1, <3>2
  <2> QED BY <1>1, <2>1
<1> QED BY <1>4, <1>5

(* The table is sound, has no bucket that is too long, and c items. *)
TableOK(bs, n, c) ==
    Fits(bs) /\ Sound(bs, n) /\ c = Cardinality(Marks(bs, Entry))

LEMMA TableOKMeans ==
    ASSUME NEW n \in Nat \ {0}, NEW bs \in Tables(n), NEW c
    PROVE  TableOK(bs, n, c) <=>
              /\ Fits(bs)
              /\ \A p \in PlacesOf(bs) : Hash[bs[p[1]][p[2]].key] % n = p[1]
              /\ \A p, q \in PlacesOf(bs) :
                    bs[p[1]][p[2]].key = bs[q[1]][q[2]].key => p = q
              /\ c = Cardinality(PlacesOf(bs))
<1> SUFFICES ASSUME Fits(bs)
             PROVE  TableOK(bs, n, c) <=>
                      /\ \A p \in PlacesOf(bs) : Hash[bs[p[1]][p[2]].key] % n = p[1]
                      /\ \A p, q \in PlacesOf(bs) :
                            bs[p[1]][p[2]].key = bs[q[1]][q[2]].key => p = q
                      /\ c = Cardinality(PlacesOf(bs))
  BY DEF TableOK
<1>1. PlacesOf(bs) = Marks(bs, Entry)
  BY PlacesAreMarks
<1>2. InPlace(bs, n) <=> \A p \in Marks(bs, Entry) : Hash[bs[p[1]][p[2]].key] % n = p[1]
  <2>1. ASSUME InPlace(bs, n), NEW p \in Marks(bs, Entry)
        PROVE  Hash[bs[p[1]][p[2]].key] % n = p[1]
    BY <2>1, MarkFacts DEF InPlace
  <2>2. ASSUME \A p \in Marks(bs, Entry) : Hash[bs[p[1]][p[2]].key] % n = p[1],
               NEW b \in 0 .. n - 1, NEW i \in 1 .. Len(bs[b])
        PROVE  Hash[bs[b][i].key] % n = b
    <3>1. bs[b][i] \in Entry
      BY TableType
    <3>2. <<b, i>> \in Marks(bs, Entry)
      BY <3>1, MarkFacts
    <3> QED BY <2>2, <3>2
  <2> QED BY <2>1, <2>2 DEF InPlace
<1> QED BY <1>1, <1>2, KeysOnce DEF TableOK, Sound

(* IInv, and the same of the next state. *)
LEMMA IInvMeans ==
    /\ TypeOK => width \in Nat \ {0} /\ buckets \in Tables(width)
    /\ IInv <=> /\ TypeOK /\ PrefCounts /\ Owned
                /\ mode = "run" => TableOK(buckets, width, items)
<1>1. TypeOK => width \in Nat \ {0} /\ buckets \in Tables(width)
  BY DEF TypeOK, Tables, Entry
<1>2. ASSUME TypeOK
      PROVE  Searchable <=> (mode = "run" => TableOK(buckets, width, items))
  <2>1. Places = PlacesOf(buckets)
    BY DEF Places, PlacesOf
  <2>2. TableOK(buckets, width, items) <=>
           /\ Fits(buckets)
           /\ \A p \in PlacesOf(buckets) : Hash[buckets[p[1]][p[2]].key] % width = p[1]
           /\ \A p, q \in PlacesOf(buckets) :
                 buckets[p[1]][p[2]].key = buckets[q[1]][q[2]].key => p = q
           /\ items = Cardinality(PlacesOf(buckets))
    BY <1>1, <1>2, TableOKMeans
  <2> QED BY <2>1, <2>2 DEF Searchable, At
<1> QED BY <1>1, <1>2 DEF IInv

LEMMA IInvNext ==
    ASSUME TypeOK', PrefCounts', Owned', mode' = "run" => TableOK(buckets', width', items')
    PROVE  IInv'
<1>1. width' \in Nat \ {0} /\ buckets' \in Tables(width')
  BY DEF TypeOK, Tables, Entry
<1>2. Places' = PlacesOf(buckets')
  BY DEF Places, PlacesOf
<1>3. mode' = "run" =>
           /\ Fits(buckets')
           /\ \A p \in PlacesOf(buckets') : Hash[buckets'[p[1]][p[2]].key] % width' = p[1]
           /\ \A p, q \in PlacesOf(buckets') :
                 buckets'[p[1]][p[2]].key = buckets'[q[1]][q[2]].key => p = q
           /\ items' = Cardinality(PlacesOf(buckets'))
  BY <1>1, TableOKMeans
<1>4. Searchable'
  BY <1>2, <1>3 DEF Searchable, At, Fits
<1> QED BY <1>4 DEF IInv

(* How many buckets have reached the preferred depth. *)
LEMMA DeepFacts ==
    ASSUME NEW n \in Nat \ {0}, NEW bs \in Tables(n)
    PROVE  /\ IsFiniteSet(Deep(bs))
           /\ Cardinality(Deep(bs)) \in Nat
           /\ Deep(bs) = {b \in 0 .. n - 1 : Len(bs[b]) >= PrefDepth}
<1>1. DOMAIN bs = 0 .. n - 1
  BY DEF Tables
<1>2. IsFiniteSet(0 .. n - 1)
  <2>1. n - 1 \in Int /\ 0 \in Int
    OBVIOUS
  <2> QED BY <2>1, FS_Interval
<1>3. Deep(bs) = {b \in 0 .. n - 1 : Len(bs[b]) >= PrefDepth}
  BY <1>1 DEF Deep
<1>4. Deep(bs) \in SUBSET (0 .. n - 1)
  BY <1>3
<1>5. IsFiniteSet(Deep(bs))
  BY <1>2, <1>4, FS_Subset, Zenon
<1> QED BY <1>3, <1>5, FS_CardinalityType

LEMMA DeepLess ==
    ASSUME NEW n \in Nat \ {0}, NEW bs \in Tables(n), NEW bs2 \in Tables(n),
           \A b \in 0 .. n - 1 : Len(bs2[b]) <= Len(bs[b])
    PROVE  Cardinality(Deep(bs2)) <= Cardinality(Deep(bs))
<1>1. /\ Deep(bs) = {b \in 0 .. n - 1 : Len(bs[b]) >= PrefDepth}
      /\ Deep(bs2) = {b \in 0 .. n - 1 : Len(bs2[b]) >= PrefDepth}
      /\ IsFiniteSet(Deep(bs))
  BY DeepFacts
<1>2. Deep(bs2) \in SUBSET Deep(bs)
  <2>1. ASSUME NEW b \in 0 .. n - 1, Len(bs2[b]) >= PrefDepth PROVE Len(bs[b]) >= PrefDepth
    <3> DEFINE l == Len(bs[b])
               l2 == Len(bs2[b])
    <3>1. l \in Nat /\ l2 \in Nat /\ l2 <= l /\ l2 >= PrefDepth /\ PrefDepth \in Nat
      BY <2>1, TableType
    <3> HIDE DEF l, l2
    <3>2. l >= PrefDepth
      BY <3>1
    <3> QED BY <3>2 DEF l
  <2> QED BY <1>1, <2>1
<1> QED BY <1>1, <1>2, FS_Subset, Zenon

LEMMA DeepSame ==
    ASSUME NEW n \in Nat \ {0}, NEW bs \in Tables(n), NEW bs2 \in Tables(n),
           \A b \in 0 .. n - 1 : Len(bs2[b]) = Len(bs[b])
    PROVE  Deep(bs2) = Deep(bs)
<1>1. /\ Deep(bs) = {b \in 0 .. n - 1 : Len(bs[b]) >= PrefDepth}
      /\ Deep(bs2) = {b \in 0 .. n - 1 : Len(bs2[b]) >= PrefDepth}
  BY DeepFacts
<1> QED BY <1>1

LEMMA DeepAdded ==
    ASSUME NEW n \in Nat \ {0}, NEW bs \in Tables(n), NEW x \in Entry
    PROVE  Cardinality(Deep(RawAdd(bs, x, n))) =
              Cardinality(Deep(bs)) + One(Len(bs[Hash[x.key] % n]) + 1 = PrefDepth)
<1> DEFINE h == Hash[x.key] % n
           bs2 == RawAdd(bs, x, n)
           l == Len(bs[h])
           is == l + 1 = PrefDepth
           D == Deep(bs)
<1>1. /\ h \in 0 .. n - 1 /\ bs2 \in Tables(n) /\ bs2[h] = Append(bs[h], x)
      /\ \A b \in 0 .. n - 1 : b # h => bs2[b] = bs[b]
  BY AddedTable
<1> HIDE DEF bs2, h
<1>2. bs[h] \in Seq(Entry) /\ l \in Nat
  BY <1>1, TableType
<1>3. Len(bs2[h]) = l + 1
  <2>1. Len(Append(bs[h], x)) = Len(bs[h]) + 1
    BY <1>2, AppendFacts
  <2> QED BY <1>1, <2>1
<1>4. /\ D = {b \in 0 .. n - 1 : Len(bs[b]) >= PrefDepth}
      /\ Deep(bs2) = {b \in 0 .. n - 1 : Len(bs2[b]) >= PrefDepth}
      /\ IsFiniteSet(D)
  BY <1>1, DeepFacts
<1>5. /\ h \in D <=> l >= PrefDepth
      /\ h \in Deep(bs2) <=> l + 1 >= PrefDepth
      /\ \A b : b # h => (b \in D <=> b \in Deep(bs2))
  BY <1>1, <1>3, <1>4
<1> HIDE DEF l, D
<1>6. Deep(bs2) = D \cup (IF is THEN {h} ELSE {}) /\ (is => h \notin D)
  <2>1. PrefDepth \in Nat
    OBVIOUS
  <2>2. CASE is
    <3>1. ~(l >= PrefDepth) /\ l + 1 >= PrefDepth
      BY <1>2, <2>1, <2>2
    <3> QED BY <1>5, <2>2, <3>1
  <2>3. CASE ~is
    <3>1. l >= PrefDepth <=> l + 1 >= PrefDepth
      BY <1>2, <2>1, <2>3
    <3> QED BY <1>5, <2>3, <3>1
  <2> QED BY <2>2, <2>3
<1>7. is \in BOOLEAN
  OBVIOUS
<1> HIDE DEF is
<1>8. Cardinality(D \cup (IF is THEN {h} ELSE {})) = Cardinality(D) + One(is)
  BY <1>4, <1>6, <1>7, OneMore
<1> QED BY <1>6, <1>8 DEF bs2, D, is, l, h

(* The blocks of a table are the values that its items have. *)
LEMMA BlocksAre ==
    ASSUME NEW n \in Nat \ {0}, NEW bs \in Tables(n)
    PROVE  \A b : b \in Blocks(bs) <=>
                     (b \in Block /\ Cardinality(Marks(bs, Valued(b))) # 0)
<1> SUFFICES ASSUME NEW b \in Block
             PROVE  b \in Blocks(bs) <=> Cardinality(Marks(bs, Valued(b))) # 0
  BY DEF Blocks
<1>1. ASSUME b \in Blocks(bs) PROVE Marks(bs, Valued(b)) # {}
  <2>1. PICK i \in DOMAIN bs : \E j \in DOMAIN bs[i] : bs[i][j].func = b
    BY <1>1 DEF Blocks
  <2>2. PICK j \in DOMAIN bs[i] : bs[i][j].func = b
    BY <2>1
  <2>3. i \in 0 .. n - 1
    BY DEF Tables
  <2>4. j \in 1 .. Len(bs[i]) /\ bs[i][j] \in Entry
    BY <2>3, TableType
  <2>5. <<i, j>> \in Marks(bs, Valued(b))
    BY <2>2, <2>3, <2>4, MarkFacts DEF Valued
  <2> QED BY <2>5
<1>2. ASSUME NEW p \in Marks(bs, Valued(b)) PROVE b \in Blocks(bs)
  <2>1. p[1] \in 0 .. n - 1 /\ p[2] \in 1 .. Len(bs[p[1]]) /\ bs[p[1]][p[2]].func = b
    BY MarkFacts DEF Valued
  <2>2. p[1] \in DOMAIN bs /\ p[2] \in DOMAIN bs[p[1]]
    BY <2>1, TableType
  <2> QED BY <2>1, <2>2 DEF Blocks
<1> QED BY <1>1, <1>2, CountZero

(* The value of a name is the value of an item. *)
LEMMA GetIsValue ==
    ASSUME NEW n \in Nat \ {0}, NEW bs, Sound(bs, n), NEW k \in Key,
           Get(bs, n, k) # NONE
    PROVE  /\ Get(bs, n, k) \in Val
           /\ Cardinality(Marks(bs, Valued(Get(bs, n, k)))) # 0
           /\ Get(bs, n, k) \in Block => Get(bs, n, k) \in Blocks(bs)
<1> DEFINE u == Get(bs, n, k)
<1>1. u \in Val /\ Cardinality(Marks(bs, {Item(k, u)})) # 0 /\ bs \in Tables(n)
  BY GetMeans DEF Sound
<1> HIDE DEF u
<1>2. PICK p : p \in Marks(bs, {Item(k, u)})
  BY <1>1, CountZero
<1>3. p \in Marks(bs, Valued(u))
  BY <1>1, <1>2, MarkFacts, ItemFacts DEF Valued
<1>4. Cardinality(Marks(bs, Valued(u))) # 0
  BY <1>1, <1>3, CountZero
<1> QED BY <1>1, <1>4, BlocksAre DEF u

-----------------------------------------------------------------------------
(* What the actions do to the table.                                       *)

LEMMA TableNow ==
    ASSUME IInv, mode = "run"
    PROVE  /\ width \in Nat \ {0}
           /\ TableOK(buckets, width, items)
           /\ Sound(buckets, width) /\ Fits(buckets) /\ buckets \in Tables(width)
           /\ items = Cardinality(Marks(buckets, Entry))
           /\ DOMAIN buckets = 0 .. width - 1
  BY IInvMeans DEF TableOK, Sound, Tables

LEMMA SetOldEffect ==
    ASSUME IInv, NEW k \in Key, NEW v \in Val, SetOld(k, v)
    PROVE  /\ Lookup(k) \in Val
           /\ Lookup(k) \in Block => Lookup(k) \in Blocks(buckets)
           /\ TableOK(buckets', width, items)
           /\ Deep(buckets') = Deep(buckets)
           /\ \A X : Cardinality(Marks(buckets', X)) =
                        Cardinality(Marks(buckets, X))
                        + One(Item(k, v) \in X) - One(Item(k, Lookup(k)) \in X)
           /\ \A j \in Key : Get(buckets', width, j) =
                                IF j # k THEN Get(buckets, width, j) ELSE v
<1> DEFINE h == Hash[k] % width
           bs2 == Replaced(buckets, width, k, v)
           u == Get(buckets, width, k)
<1>1. mode = "run" /\ Position(k, buckets[h]) # 0 /\ buckets' = bs2
  BY DEF SetOld, Running, BucketOf, Replaced
<1>2. /\ width \in Nat \ {0} /\ Sound(buckets, width) /\ Fits(buckets)
      /\ buckets \in Tables(width) /\ items = Cardinality(Marks(buckets, Entry))
  BY <1>1, TableNow
<1>3. u # NONE /\ Lookup(k) = u
  BY <1>1, <1>2, GetMeans, LookupIsGet
<1>4. u \in Val /\ (u \in Block => u \in Blocks(buckets))
  BY <1>2, <1>3, GetIsValue
<1>5. /\ Sound(bs2, width)
      /\ \A b \in 0 .. width - 1 : Len(bs2[b]) = Len(buckets[b])
      /\ \A j \in Key : Get(bs2, width, j) = IF j # k THEN Get(buckets, width, j) ELSE v
  BY <1>2, <1>3, ReplacedSound
<1>6. ASSUME NEW X
      PROVE  Cardinality(Marks(bs2, X)) =
                Cardinality(Marks(buckets, X)) + One(Item(k, v) \in X) - One(Item(k, u) \in X)
  BY <1>2, <1>3, ReplacedSound
<1> HIDE DEF bs2, u, h
<1>7. bs2 \in Tables(width) /\ Deep(bs2) = Deep(buckets)
  BY <1>2, <1>5, DeepSame DEF Sound
<1>8. Fits(bs2)
  BY <1>2, <1>5, <1>7 DEF Fits, Tables
<1>9. Cardinality(Marks(bs2, Entry)) = items
  <2>1. One(Item(k, v) \in Entry) = 1 /\ One(Item(k, u) \in Entry) = 1
    BY <1>4, ItemFacts DEF One
  <2>2. items \in Nat
    BY <1>2, CountZero
  <2>3. Cardinality(Marks(bs2, Entry)) = items + 1 - 1
    BY <1>2, <1>6, <2>1
  <2> QED BY <2>2, <2>3
<1>10. TableOK(bs2, width, items)
  BY <1>5, <1>8, <1>9 DEF TableOK
<1> QED BY <1>1, <1>3, <1>4, <1>5, <1>6, <1>7, <1>10

LEMMA SetNewEffect ==
    ASSUME IInv, NEW k \in Key, NEW v \in Val, SetNew(k, v)
    PROVE  /\ width' = width
           /\ TableOK(buckets', width, items')
           /\ pref' = pref + One(Len(buckets[Hash[k] % width]) + 1 = PrefDepth)
           /\ Cardinality(Deep(buckets')) = Cardinality(Deep(buckets))
                 + One(Len(buckets[Hash[k] % width]) + 1 = PrefDepth)
           /\ \A X : Cardinality(Marks(buckets', X)) =
                        Cardinality(Marks(buckets, X)) + One(Item(k, v) \in X)
           /\ \A j \in Key : Get(buckets', width, j) =
                                IF j = k THEN v ELSE Get(buckets, width, j)
<1> DEFINE h == Hash[k] % width
           x == Item(k, v)
           bs2 == RawAdd(buckets, x, width)
           is == Len(buckets[h]) + 1 = PrefDepth
<1>1. /\ mode = "run" /\ Lookup(k) = NONE /\ Len(buckets[h]) # MaxDepth
      /\ width' = width /\ buckets' = bs2 /\ items' = items + 1
      /\ pref' = IF is THEN pref + 1 ELSE pref
  BY DEF SetNew, Running, Crowded, BucketOf, Place
<1>2. /\ width \in Nat \ {0} /\ Sound(buckets, width) /\ Fits(buckets)
      /\ buckets \in Tables(width) /\ items = Cardinality(Marks(buckets, Entry))
      /\ DOMAIN buckets = 0 .. width - 1
  BY <1>1, TableNow
<1>3. x \in Entry /\ x.key = k /\ Get(buckets, width, k) = NONE
  BY <1>1, ItemFacts, LookupIsGet
<1>4. /\ Sound(bs2, width)
      /\ \A j \in Key : Get(bs2, width, j) = IF j = k THEN v ELSE Get(buckets, width, j)
  BY <1>2, <1>3, PlacedSound
<1>5. \A X : Cardinality(Marks(bs2, X)) = Cardinality(Marks(buckets, X)) + One(x \in X)
  BY <1>2, <1>3, PlacedSound
<1>6. Cardinality(Deep(bs2)) = Cardinality(Deep(buckets)) + One(is)
  BY <1>2, <1>3, DeepAdded
<1>7. pref' = pref + One(is)
  <2>1. pref \in Nat
    BY DEF IInv, TypeOK
  <2> QED BY <1>1, <2>1 DEF One
<1>8. Fits(bs2)
  <2>1. /\ h \in 0 .. width - 1 /\ bs2[h] = Append(buckets[h], x)
        /\ \A b \in 0 .. width - 1 : b # h => bs2[b] = buckets[b]
    BY <1>2, <1>3, AddedTable
  <2> DEFINE l == Len(buckets[h])
  <2>2. l \in Nat /\ l <= MaxDepth /\ l # MaxDepth /\ Len(bs2[h]) = l + 1
    <3>1. buckets[h] \in Seq(Entry) /\ Len(buckets[h]) \in Nat
      BY <1>2, <2>1, TableType
    <3>2. Len(Append(buckets[h], x)) = Len(buckets[h]) + 1
      BY <1>3, <3>1, AppendFacts
    <3> QED BY <1>1, <1>2, <2>1, <3>1, <3>2 DEF Fits
  <2> HIDE DEF l
  <2>3. Len(bs2[h]) <= MaxDepth
    BY <2>2
  <2>4. DOMAIN bs2 = 0 .. width - 1
    BY <1>4 DEF Sound, Tables
  <2> HIDE DEF bs2, h
  <2> QED BY <1>2, <2>1, <2>3, <2>4 DEF Fits
<1>9. items' = Cardinality(Marks(bs2, Entry))
  <2>1. One(x \in Entry) = 1
    BY <1>3 DEF One
  <2> QED BY <1>1, <1>2, <1>5, <2>1
<1>10. TableOK(bs2, width, items')
  BY <1>4, <1>8, <1>9 DEF TableOK
<1> HIDE DEF bs2, is
<1> QED BY <1>1, <1>4, <1>5, <1>6, <1>7, <1>10 DEF is

(* Any table built anew of the current one. *)
LEMMA RehashEffect ==
    ASSUME IInv, mode = "run", NEW n \in Nat \ {0}
    PROVE  /\ Sound(Rehashed(n), n)
           /\ Len(AllItems) = items
           /\ items = Cardinality(Marks(Rehashed(n), Entry))
           /\ \A X : Cardinality(Marks(Rehashed(n), X)) = Cardinality(Marks(buckets, X))
           /\ \A k \in Key : Get(Rehashed(n), n, k) = Get(buckets, width, k)
           /\ Blocks(Rehashed(n)) = Blocks(buckets)
<1>1. /\ width \in Nat \ {0} /\ Sound(buckets, width) /\ Fits(buckets)
      /\ buckets \in Tables(width) /\ items = Cardinality(Marks(buckets, Entry))
  BY TableNow
<1> DEFINE bs2 == Rehashed(n)
<1>2. /\ Sound(bs2, n)
      /\ \A X : Cardinality(Marks(bs2, X)) = Cardinality(Marks(buckets, X))
      /\ \A k \in Key : Get(bs2, n, k) = Get(buckets, width, k)
  BY <1>1, RehashedSound
<1> HIDE DEF bs2
<1>3. Len(AllItems) = items
  <2> DEFINE all == AllItems
             m == Len(all)
  <2>1. all \in Seq(Entry) /\ Cardinality(Spots(all, Entry)) = items
    BY <1>1, AllItemsFacts
  <2> HIDE DEF all
  <2>2. m \in Nat /\ \A i \in 1 .. m : all[i] \in Entry
    BY <2>1
  <2>3. Spots(all, Entry) = 1 .. m
    BY <2>2 DEF Spots
  <2> HIDE DEF m
  <2>4. Cardinality(1 .. m) = m
    BY <2>2, FS_Interval
  <2> QED BY <2>1, <2>3, <2>4 DEF m, all
<1>4. Blocks(bs2) = Blocks(buckets)
  <2>1. bs2 \in Tables(n)
    BY <1>2 DEF Sound
  <2> QED BY <1>1, <1>2, <2>1, BlocksAre
<1> QED BY <1>1, <1>2, <1>3, <1>4 DEF bs2

LEMMA SetGrownEffect ==
    ASSUME IInv, NEW k \in Key, NEW v \in Val, SetGrown(k, v)
    PROVE  LET n == 2 * width
               bs == Rehashed(n)
               is == Len(bs[Hash[k] % n]) + 1 = PrefDepth
           IN  /\ n \in Nat \ {0} /\ width' = n
               /\ Hash[k] % n \in 0 .. n - 1
               /\ items' = items + 1
               /\ buckets' = RawAdd(bs, Item(k, v), n)
               /\ Sound(buckets', n)
               /\ Len(bs[Hash[k] % n]) \in Nat /\ Len(bs[Hash[k] % n]) <= MaxDepth
               /\ IF Len(bs[Hash[k] % n]) = MaxDepth
                  THEN mode' = "overrun" /\ ~Fits(buckets')
                  ELSE mode' = "run" /\ TableOK(buckets', n, items')
               /\ pref' = Cardinality(Deep(bs)) + One(is)
               /\ Cardinality(Deep(buckets')) = Cardinality(Deep(bs)) + One(is)
               /\ \A X : Cardinality(Marks(buckets', X)) =
                            Cardinality(Marks(buckets, X)) + One(Item(k, v) \in X)
               /\ \A j \in Key : Get(buckets', n, j) =
                                    IF j = k THEN v ELSE Get(buckets, width, j)
<1> DEFINE n == 2 * width
           bs == Rehashed(n)
           h == Hash[k] % n
           x == Item(k, v)
           bs2 == RawAdd(bs, x, n)
           l == Len(bs[h])
           is == l + 1 = PrefDepth
<1>1. /\ mode = "run" /\ Lookup(k) = NONE /\ Fits(bs)
      /\ width' = n /\ buckets' = bs2 /\ items' = Len(AllItems) + 1
      /\ pref' = IF is THEN Cardinality(Deep(bs)) + 1 ELSE Cardinality(Deep(bs))
      /\ mode' = IF l = MaxDepth THEN "overrun" ELSE mode
  BY DEF SetGrown, Running, Place
<1>2. width \in Nat \ {0} /\ n \in Nat \ {0}
  BY <1>1, TableNow
<1> HIDE DEF n
<1>3. /\ Sound(bs, n) /\ Len(AllItems) = items
      /\ items = Cardinality(Marks(bs, Entry))
      /\ \A X : Cardinality(Marks(bs, X)) = Cardinality(Marks(buckets, X))
      /\ \A j \in Key : Get(bs, n, j) = Get(buckets, width, j)
  BY <1>1, <1>2, RehashEffect
<1> HIDE DEF bs
<1>4. x \in Entry /\ x.key = k /\ Get(bs, n, k) = NONE /\ bs \in Tables(n)
  BY <1>1, <1>3, ItemFacts, LookupIsGet DEF Sound
<1>5. /\ Sound(bs2, n)
      /\ \A j \in Key : Get(bs2, n, j) = IF j = k THEN v ELSE Get(bs, n, j)
  BY <1>2, <1>3, <1>4, PlacedSound
<1>6. \A X : Cardinality(Marks(bs2, X)) = Cardinality(Marks(bs, X)) + One(x \in X)
  BY <1>2, <1>3, <1>4, PlacedSound
<1>7. Cardinality(Deep(bs2)) = Cardinality(Deep(bs)) + One(is)
  BY <1>2, <1>4, DeepAdded
<1>8. /\ h \in 0 .. n - 1 /\ bs2[h] = Append(bs[h], x)
      /\ \A b \in 0 .. n - 1 : b # h => bs2[b] = bs[b]
  BY <1>2, <1>4, AddedTable, SMTT(30)
<1>9. l \in Nat /\ l <= MaxDepth /\ Len(bs2[h]) = l + 1
  <2>1. bs[h] \in Seq(Entry) /\ Len(bs[h]) \in Nat /\ DOMAIN bs = 0 .. n - 1
    BY <1>2, <1>4, <1>8, TableType
  <2>2. Len(Append(bs[h], x)) = Len(bs[h]) + 1
    BY <1>4, <2>1, AppendFacts
  <2> QED BY <1>1, <1>8, <2>1, <2>2 DEF Fits
<1>10. pref' = Cardinality(Deep(bs)) + One(is)
  <2>1. Cardinality(Deep(bs)) \in Nat
    BY <1>2, <1>4, DeepFacts
  <2> QED BY <1>1, <2>1 DEF One
<1>11. DOMAIN bs2 = 0 .. n - 1 /\ DOMAIN bs = 0 .. n - 1
  BY <1>4, <1>5 DEF Sound, Tables
<1>12. items' = Cardinality(Marks(bs2, Entry))
  <2>1. One(x \in Entry) = 1
    BY <1>4 DEF One
  <2> QED BY <1>1, <1>3, <1>6, <2>1
<1> HIDE DEF bs2, l, is, h
<1>13. CASE l = MaxDepth
  <2>1. mode' = "overrun"
    BY <1>1, <1>13
  <2>2. ~(Len(bs2[h]) <= MaxDepth)
    BY <1>9, <1>13
  <2>3. ~Fits(bs2)
    BY <1>8, <1>11, <2>2 DEF Fits
  <2> QED BY <1>1, <1>2, <1>3, <1>5, <1>6, <1>7, <1>8, <1>9, <1>10, <1>13, <2>1, <2>3
          DEF n, bs, h, x, bs2, l, is
<1>14. CASE l # MaxDepth
  <2>1. mode' = "run"
    BY <1>1, <1>14
  <2>2. Len(bs2[h]) <= MaxDepth
    BY <1>9, <1>14
  <2>3. Fits(bs2)
    BY <1>1, <1>8, <1>11, <2>2 DEF Fits
  <2>4. TableOK(bs2, n, items')
    BY <1>5, <1>12, <2>3 DEF TableOK
  <2> QED BY <1>1, <1>2, <1>3, <1>5, <1>6, <1>7, <1>8, <1>9, <1>10, <1>14, <2>1, <2>4
          DEF n, bs, h, x, bs2, l, is
<1> QED BY <1>13, <1>14

LEMMA RemoveEffect ==
    ASSUME IInv, NEW k \in Key, RemoveKey(k)
    PROVE  /\ Lookup(k) \in Val
           /\ Lookup(k) \in Block => Lookup(k) \in Blocks(buckets)
           /\ TableOK(buckets', width, items')
           /\ Cardinality(Deep(buckets')) <= Cardinality(Deep(buckets))
           /\ items' \in Nat
           /\ \A X : Cardinality(Marks(buckets', X)) =
                        Cardinality(Marks(buckets, X)) - One(Item(k, Lookup(k)) \in X)
           /\ \A j \in Key : Get(buckets', width, j) =
                                IF j # k THEN Get(buckets, width, j) ELSE NONE
<1> DEFINE h == Hash[k] % width
           bs2 == Removed(buckets, width, k)
           u == Get(buckets, width, k)
<1>1. mode = "run" /\ Position(k, buckets[h]) # 0 /\ buckets' = bs2 /\ items' = items - 1
  BY DEF RemoveKey, Running, Removed
<1>2. /\ width \in Nat \ {0} /\ Sound(buckets, width) /\ Fits(buckets)
      /\ buckets \in Tables(width) /\ items = Cardinality(Marks(buckets, Entry))
  BY <1>1, TableNow
<1>3. u # NONE /\ Lookup(k) = u
  BY <1>1, <1>2, GetMeans, LookupIsGet
<1>4. u \in Val /\ (u \in Block => u \in Blocks(buckets))
  BY <1>2, <1>3, GetIsValue
<1>5. /\ Sound(bs2, width)
      /\ \A b \in 0 .. width - 1 : Len(bs2[b]) <= Len(buckets[b])
      /\ \A j \in Key : Get(bs2, width, j) = IF j # k THEN Get(buckets, width, j) ELSE NONE
  BY <1>2, <1>3, RemovedSound
<1>6. ASSUME NEW X
      PROVE  Cardinality(Marks(bs2, X)) =
                Cardinality(Marks(buckets, X)) - One(Item(k, u) \in X)
  BY <1>2, <1>3, RemovedSound
<1> HIDE DEF bs2, u, h
<1>7. bs2 \in Tables(width) /\ Cardinality(Deep(bs2)) <= Cardinality(Deep(buckets))
  BY <1>2, <1>5, DeepLess DEF Sound
<1>8. Fits(bs2)
  <2>1. DOMAIN bs2 = 0 .. width - 1 /\ DOMAIN buckets = 0 .. width - 1
    BY <1>2, <1>7 DEF Tables
  <2> SUFFICES ASSUME NEW b \in 0 .. width - 1 PROVE Len(bs2[b]) <= MaxDepth
    BY <2>1 DEF Fits
  <2> DEFINE l == Len(bs2[b])
             m == Len(buckets[b])
  <2>2. l \in Nat /\ m \in Nat /\ l <= m /\ m <= MaxDepth
    BY <1>2, <1>5, <1>7, <2>1, TableType DEF Fits
  <2> HIDE DEF l, m
  <2>3. l <= MaxDepth
    BY <2>2
  <2> QED BY <2>3 DEF l
<1>9. Cardinality(Marks(bs2, Entry)) = items'
  <2>1. One(Item(k, u) \in Entry) = 1
    BY <1>4, ItemFacts DEF One
  <2> QED BY <1>1, <1>2, <1>6, <2>1
<1>10. items' \in Nat
  BY <1>2, <1>7, <1>9, CountZero
<1>11. TableOK(bs2, width, items')
  BY <1>5, <1>8, <1>9 DEF TableOK
<1> QED BY <1>1, <1>3, <1>4, <1>5, <1>6, <1>7, <1>10, <1>11

-----------------------------------------------------------------------------
(* The invariant.                                                          *)

LEMMA TypeFacts ==
    ASSUME TypeOK
    PROVE  /\ pref \in Nat /\ items \in Nat /\ refs \in Nat /\ claims \in Nat
           /\ used \in SUBSET Block /\ freed \in SUBSET used
           /\ spoilt \in SUBSET {"values", "claims"} /\ drifted \in BOOLEAN
           /\ mode \in {"run", "gone", "overrun", "crashed"}
           /\ width \in Nat \ {0} /\ buckets \in Tables(width)
  BY IInvMeans DEF TypeOK

LEMMA SoundType ==
    ASSUME NEW n, NEW bs, Sound(bs, n)
    PROVE  bs \in [0 .. n - 1 -> Seq([key : Key, func : Val])]
  BY DEF Sound, Tables, Entry

(* Every block of a table with one item more, or changed, has been used. *)
LEMMA BlocksUsed ==
    ASSUME NEW n \in Nat \ {0}, NEW bs \in Tables(n),
           NEW n2 \in Nat \ {0}, NEW bs2 \in Tables(n2), NEW x \in Entry,
           \A X : Cardinality(Marks(bs2, X)) <= Cardinality(Marks(bs, X)) + One(x \in X),
           Blocks(bs) \subseteq used
    PROVE  Blocks(bs2) \subseteq used \cup ({x.func} \cap Block)
<1> SUFFICES ASSUME NEW b \in Blocks(bs2), b # x.func PROVE b \in Blocks(bs)
  BY BlocksAre
<1>1. b \in Block /\ Cardinality(Marks(bs2, Valued(b))) # 0
  BY BlocksAre
<1>2. One(x \in Valued(b)) = 0
  BY DEF One, Valued
<1>3. Cardinality(Marks(bs, Valued(b))) # 0
  <2> DEFINE a == Cardinality(Marks(bs, Valued(b)))
             c == Cardinality(Marks(bs2, Valued(b)))
  <2>1. a \in Nat /\ c \in Nat /\ c # 0
    BY <1>1, CountZero
  <2>2. c <= a + One(x \in Valued(b))
    OBVIOUS
  <2>3. c <= a + 0
    BY <1>2, <2>2
  <2> HIDE DEF a, c
  <2>4. a # 0
    BY <2>1, <2>3
  <2> QED BY <2>4 DEF a
<1> QED BY <1>1, <1>3, BlocksAre

LEMMA SetOldKeeps ==
    ASSUME IInv, NEW k \in Key, NEW v \in Val, SetOld(k, v)
    PROVE  IInv'
<1> DEFINE u == Lookup(k)
           x == Item(k, v)
<1>1. /\ u \in Val /\ (u \in Block => u \in Blocks(buckets))
      /\ TableOK(buckets', width, items)
      /\ Deep(buckets') = Deep(buckets)
  BY SetOldEffect
<1>2. \A X : Cardinality(Marks(buckets', X)) =
                Cardinality(Marks(buckets, X)) + One(x \in X) - One(Item(k, u) \in X)
  BY SetOldEffect
<1>3. /\ mode = "run" /\ mode' = mode /\ width' = width /\ pref' = pref /\ items' = items
      /\ refs' = refs /\ claims' = claims /\ spoilt' = spoilt /\ drifted' = drifted
      /\ used' = used \cup ({v} \cap Block) /\ freed' = freed \cup ({u} \cap Block)
  BY DEF SetOld, Running, owners
<1>4. TypeOK /\ PrefCounts /\ refs \in 1 .. claims /\ Blocks(buckets) \subseteq used
  BY <1>3 DEF IInv, Owned
<1>5. /\ width \in Nat \ {0} /\ buckets \in Tables(width)
      /\ Sound(buckets', width) /\ buckets' \in Tables(width)
  BY <1>1, <1>4, IInvMeans DEF TableOK, Sound
<1>6. TypeOK'
  <2>1. buckets' \in [0 .. width' - 1 -> Seq([key : Key, func : Val])]
    BY <1>3, <1>5, SoundType
  <2>2. used' \in SUBSET Block /\ freed' \in SUBSET used'
    <3>1. used \in SUBSET Block /\ freed \in SUBSET used
      BY <1>4 DEF TypeOK
    <3> QED BY <1>1, <1>3, <1>4, <3>1
  <2> QED BY <1>3, <1>4, <2>1, <2>2 DEF TypeOK
<1>7. PrefCounts'
  <2>1. Deep(buckets)' = Deep(buckets)
    BY <1>1 DEF Deep
  <2> QED BY <1>3, <1>4, <2>1 DEF PrefCounts
<1>8. Owned'
  <2>1. x \in Entry /\ x.func = v
    BY ItemFacts
  <2> HIDE DEF x, u
  <2>2. ASSUME NEW X
        PROVE  Cardinality(Marks(buckets', X)) <= Cardinality(Marks(buckets, X)) + One(x \in X)
    <3> DEFINE a == Cardinality(Marks(buckets, X))
               c == Cardinality(Marks(buckets', X))
               e == One(x \in X)
               f == One(Item(k, u) \in X)
    <3>1. a \in Nat /\ c \in Nat /\ e \in Nat /\ f \in Nat
      BY <1>5, CountZero DEF One
    <3>2. c = a + e - f
      BY <1>2
    <3> HIDE DEF a, c, e, f
    <3>3. c <= a + e
      BY <3>1, <3>2
    <3> QED BY <3>3 DEF a, c, e
  <2>3. Blocks(buckets') \subseteq used \cup ({x.func} \cap Block)
    BY <1>4, <1>5, <2>1, <2>2, BlocksUsed
  <2>4. Blocks(buckets)' = Blocks(buckets')
    BY DEF Blocks
  <2> QED BY <1>3, <1>4, <2>1, <2>3, <2>4 DEF Owned
<1>9. TableOK(buckets', width', items')
  BY <1>1, <1>3
<1> QED BY <1>6, <1>7, <1>8, <1>9, IInvNext

LEMMA SetNewKeeps ==
    ASSUME IInv, NEW k \in Key, NEW v \in Val, SetNew(k, v)
    PROVE  IInv'
<1> DEFINE x == Item(k, v)
           is == Len(buckets[Hash[k] % width]) + 1 = PrefDepth
<1>1. /\ width' = width /\ TableOK(buckets', width, items')
      /\ pref' = pref + One(is)
      /\ Cardinality(Deep(buckets')) = Cardinality(Deep(buckets)) + One(is)
  BY SetNewEffect
<1>2. \A X : Cardinality(Marks(buckets', X)) = Cardinality(Marks(buckets, X)) + One(x \in X)
  BY SetNewEffect
<1>3. /\ mode = "run" /\ mode' = mode /\ items' = items + 1
      /\ refs' = refs /\ claims' = claims /\ spoilt' = spoilt /\ drifted' = drifted
      /\ used' = used \cup ({v} \cap Block) /\ freed' = freed
  BY DEF SetNew, Running, owners, Place
<1>4. TypeOK /\ PrefCounts /\ refs \in 1 .. claims /\ Blocks(buckets) \subseteq used
  BY <1>3 DEF IInv, Owned
<1>5. /\ width \in Nat \ {0} /\ buckets \in Tables(width)
      /\ Sound(buckets', width) /\ buckets' \in Tables(width)
  BY <1>1, <1>4, IInvMeans DEF TableOK, Sound
<1>6. pref \in Nat /\ items \in Nat /\ used \in SUBSET Block /\ freed \in SUBSET used
  BY <1>4, TypeFacts
<1>7. One(is) \in Nat
  BY DEF One
<1> HIDE DEF is, x
<1>8. TypeOK'
  <2>1. buckets' \in [0 .. width' - 1 -> Seq([key : Key, func : Val])]
    BY <1>1, <1>5, SoundType
  <2>2. used' \in SUBSET Block /\ freed' \in SUBSET used'
    BY <1>3, <1>6
  <2>3. pref' \in Nat /\ items' \in Nat
    BY <1>1, <1>3, <1>6, <1>7
  <2> QED BY <1>1, <1>3, <1>4, <2>1, <2>2, <2>3 DEF TypeOK
<1>9. PrefCounts'
  <2>1. Deep(buckets)' = Deep(buckets')
    BY DEF Deep
  <2> DEFINE d == Cardinality(Deep(buckets))
  <2>2. d \in Nat /\ pref >= d /\ (~drifted => pref = d)
    BY <1>3, <1>4, <1>5, DeepFacts DEF PrefCounts
  <2>3. Cardinality(Deep(buckets')) = d + One(is)
    BY <1>1
  <2> HIDE DEF d
  <2>4. pref' >= d + One(is) /\ (~drifted => pref' = d + One(is))
    BY <1>1, <1>6, <1>7, <2>2
  <2> QED BY <1>3, <2>1, <2>3, <2>4 DEF PrefCounts
<1>10. Owned'
  <2>1. x \in Entry /\ x.func = v
    BY ItemFacts DEF x
  <2>2. ASSUME NEW X
        PROVE  Cardinality(Marks(buckets', X)) <= Cardinality(Marks(buckets, X)) + One(x \in X)
    <3>1. Cardinality(Marks(buckets', X)) = Cardinality(Marks(buckets, X)) + One(x \in X)
      BY <1>2
    <3>2. Cardinality(Marks(buckets', X)) \in Nat
      BY <1>5, CountZero
    <3> QED BY <3>1, <3>2
  <2>3. Blocks(buckets') \subseteq used \cup ({x.func} \cap Block)
    BY <1>4, <1>5, <2>1, <2>2, BlocksUsed
  <2>4. Blocks(buckets)' = Blocks(buckets')
    BY DEF Blocks
  <2> QED BY <1>3, <1>4, <2>1, <2>3, <2>4 DEF Owned
<1>11. TableOK(buckets', width', items')
  BY <1>1
<1> QED BY <1>8, <1>9, <1>10, <1>11, IInvNext

LEMMA ExchangeFacts ==
    ASSUME TypeOK, Owned, mode = "run", Exchange
    PROVE  /\ refs' = 1 /\ claims' = claims /\ drifted' = FALSE
           /\ refs' \in 1 .. claims'
           /\ freed' \in SUBSET used /\ freed \subseteq freed'
           /\ spoilt' \in SUBSET {"values", "claims"} /\ spoilt \subseteq spoilt'
           /\ "values" \notin spoilt' => freed' = freed
           /\ "claims" \notin spoilt' => refs = 1
<1>1. /\ refs \in 1 .. claims /\ refs \in Nat /\ claims \in Nat
      /\ Blocks(buckets) \subseteq used /\ freed \in SUBSET used
      /\ spoilt \in SUBSET {"values", "claims"}
  BY TypeFacts DEF Owned
<1>2. /\ freed' = IF refs = 1 THEN freed \cup Blocks(buckets) ELSE freed
      /\ refs' = 1
      /\ spoilt' = spoilt
                     \cup (IF refs = 1 /\ Blocks(buckets) # {} THEN {"values"} ELSE {})
                     \cup (IF refs # 1 THEN {"claims"} ELSE {})
      /\ drifted' = FALSE
      /\ claims' = claims
  BY DEF Exchange
<1>3. 1 \in 1 .. claims
  BY <1>1
<1>4. freed' \in SUBSET used /\ freed \subseteq freed'
  BY <1>1, <1>2
<1>5. spoilt' \in SUBSET {"values", "claims"} /\ spoilt \subseteq spoilt'
  BY <1>1, <1>2
<1>6. ASSUME "values" \notin spoilt' PROVE freed' = freed
  BY <1>2, <1>6
<1>7. ASSUME "claims" \notin spoilt' PROVE refs = 1
  BY <1>2, <1>7
<1> QED BY <1>2, <1>3, <1>4, <1>5, <1>6, <1>7

LEMMA RehashKeeps ==
    ASSUME IInv, NEW n \in 1 .. MaxWidth, Rehash(n)
    PROVE  IInv'
<1> DEFINE bs == Rehashed(n)
<1>1. /\ mode = "run" /\ mode' = mode /\ Fits(bs) /\ width' = n /\ buckets' = bs
      /\ pref' = Cardinality(Deep(bs)) /\ items' = Len(AllItems) /\ used' = used
      /\ Exchange
  BY DEF Rehash, Running
<1>2. TypeOK /\ Owned /\ Blocks(buckets) \subseteq used
  BY <1>1 DEF IInv, Owned
<1>3. n \in Nat \ {0}
  OBVIOUS
<1>4. /\ Sound(bs, n) /\ Len(AllItems) = items /\ items = Cardinality(Marks(bs, Entry))
      /\ Blocks(bs) = Blocks(buckets)
  BY <1>1, <1>3, RehashEffect
<1> HIDE DEF bs
<1>5. bs \in Tables(n) /\ Cardinality(Deep(bs)) \in Nat
  BY <1>3, <1>4, DeepFacts DEF Sound
<1>6. /\ refs' = 1 /\ claims' = claims /\ drifted' = FALSE /\ refs' \in 1 .. claims'
      /\ freed' \in SUBSET used /\ spoilt' \in SUBSET {"values", "claims"}
  BY <1>1, <1>2, ExchangeFacts
<1>7. TypeOK'
  <2>1. buckets' \in [0 .. width' - 1 -> Seq([key : Key, func : Val])]
    BY <1>1, <1>4, SoundType
  <2>2. used \in SUBSET Block /\ items \in Nat /\ claims \in Nat
        /\ mode \in {"run", "gone", "overrun", "crashed"}
    BY <1>2, TypeFacts
  <2> QED BY <1>1, <1>3, <1>4, <1>5, <1>6, <2>1, <2>2 DEF TypeOK
<1>8. PrefCounts'
  <2>1. Deep(buckets)' = Deep(buckets')
    BY DEF Deep
  <2> QED BY <1>1, <1>5, <2>1 DEF PrefCounts
<1>9. Owned'
  <2>1. Blocks(buckets)' = Blocks(buckets')
    BY DEF Blocks
  <2> QED BY <1>1, <1>2, <1>4, <1>6, <2>1 DEF Owned
<1>10. TableOK(buckets', width', items')
  BY <1>1, <1>4 DEF TableOK
<1> QED BY <1>7, <1>8, <1>9, <1>10, IInvNext

LEMMA SetGrownKeeps ==
    ASSUME IInv, NEW k \in Key, NEW v \in Val, SetGrown(k, v)
    PROVE  IInv'
<1> DEFINE n == 2 * width
           bs == Rehashed(n)
           l == Len(bs[Hash[k] % n])
           e == One(l + 1 = PrefDepth)
           d == Cardinality(Deep(bs))
           x == Item(k, v)
<1>1. /\ n \in Nat \ {0} /\ width' = n /\ items' = items + 1
      /\ Sound(buckets', n)
      /\ IF l = MaxDepth THEN mode' = "overrun"
                         ELSE mode' = "run" /\ TableOK(buckets', n, items')
      /\ pref' = d + e
      /\ Cardinality(Deep(buckets')) = d + e
  BY SetGrownEffect
<1>2. \A X : Cardinality(Marks(buckets', X)) = Cardinality(Marks(buckets, X)) + One(x \in X)
  BY SetGrownEffect
<1>3. mode = "run" /\ Exchange /\ used' = used \cup ({v} \cap Block)
  BY DEF SetGrown, Running, Place
<1>4. TypeOK /\ Owned /\ Blocks(buckets) \subseteq used
  BY <1>3 DEF IInv, Owned
<1>5. /\ width \in Nat \ {0} /\ buckets \in Tables(width)
      /\ items \in Nat /\ claims \in Nat /\ used \in SUBSET Block
  BY <1>4, TypeFacts
<1>6. buckets' \in Tables(n)
  BY <1>1 DEF Sound
<1> HIDE DEF n, bs, l, e, d, x
<1>7. d + e \in Nat
  BY <1>1, <1>6, DeepFacts
<1>8. /\ refs' = 1 /\ claims' = claims /\ drifted' = FALSE /\ refs' \in 1 .. claims'
      /\ freed' \in SUBSET used /\ spoilt' \in SUBSET {"values", "claims"}
  BY <1>3, <1>4, ExchangeFacts
<1>9. TypeOK'
  <2>1. buckets' \in [0 .. width' - 1 -> Seq([key : Key, func : Val])]
    BY <1>1, SoundType
  <2>2. used' \in SUBSET Block /\ freed' \in SUBSET used'
    BY <1>3, <1>5, <1>8
  <2>3. mode' \in {"run", "gone", "overrun", "crashed"}
    BY <1>1
  <2>4. pref' \in Nat /\ items' \in Nat /\ refs' \in Nat /\ claims' \in Nat
    BY <1>1, <1>5, <1>7, <1>8
  <2> QED BY <1>1, <1>8, <2>1, <2>2, <2>3, <2>4 DEF TypeOK
<1>10. PrefCounts'
  <2>1. Deep(buckets)' = Deep(buckets')
    BY DEF Deep
  <2> QED BY <1>1, <1>7, <2>1 DEF PrefCounts
<1>11. Owned'
  <2>1. x \in Entry /\ x.func = v
    BY ItemFacts DEF x
  <2>2. ASSUME NEW X
        PROVE  Cardinality(Marks(buckets', X)) <= Cardinality(Marks(buckets, X)) + One(x \in X)
    <3>1. Cardinality(Marks(buckets', X)) = Cardinality(Marks(buckets, X)) + One(x \in X)
      BY <1>2
    <3>2. Cardinality(Marks(buckets', X)) \in Nat
      BY <1>1, <1>6, CountZero
    <3> QED BY <3>1, <3>2
  <2>3. Blocks(buckets') \subseteq used \cup ({x.func} \cap Block)
    BY <1>1, <1>4, <1>5, <1>6, <2>1, <2>2, BlocksUsed
  <2>4. Blocks(buckets)' = Blocks(buckets')
    BY DEF Blocks
  <2> QED BY <1>3, <1>8, <2>1, <2>3, <2>4 DEF Owned
<1>12. mode' = "run" => TableOK(buckets', width', items')
  BY <1>1
<1> QED BY <1>9, <1>10, <1>11, <1>12, IInvNext

LEMMA RemoveKeeps ==
    ASSUME IInv, NEW k \in Key, RemoveKey(k)
    PROVE  IInv'
<1> DEFINE u == Lookup(k)
           x == Item(k, u)
<1>1. /\ u \in Val /\ (u \in Block => u \in Blocks(buckets))
      /\ TableOK(buckets', width, items')
      /\ Cardinality(Deep(buckets')) <= Cardinality(Deep(buckets))
      /\ items' \in Nat
  BY RemoveEffect
<1>2. \A X : Cardinality(Marks(buckets', X)) = Cardinality(Marks(buckets, X)) - One(x \in X)
  BY RemoveEffect
<1>3. /\ mode = "run" /\ mode' = mode /\ width' = width /\ pref' = pref
      /\ refs' = refs /\ claims' = claims /\ spoilt' = spoilt /\ drifted' = TRUE
      /\ used' = used /\ freed' = freed \cup ({u} \cap Block)
  BY DEF RemoveKey, Running, owners
<1>4. TypeOK /\ PrefCounts /\ refs \in 1 .. claims /\ Blocks(buckets) \subseteq used
  BY <1>3 DEF IInv, Owned
<1>5. /\ width \in Nat \ {0} /\ buckets \in Tables(width)
      /\ Sound(buckets', width) /\ buckets' \in Tables(width)
  BY <1>1, <1>4, IInvMeans DEF TableOK, Sound
<1>6. x \in Entry /\ x.func = u
  BY <1>1, ItemFacts
<1> HIDE DEF u, x
<1>7. TypeOK'
  <2>1. buckets' \in [0 .. width' - 1 -> Seq([key : Key, func : Val])]
    BY <1>3, <1>5, SoundType
  <2>2. used \in SUBSET Block /\ freed \in SUBSET used
    BY <1>4, TypeFacts
  <2>3. freed' \in SUBSET used'
    BY <1>1, <1>3, <1>4, <2>2
  <2> QED BY <1>1, <1>3, <1>4, <2>1, <2>2, <2>3 DEF TypeOK
<1>8. PrefCounts'
  <2>1. Deep(buckets)' = Deep(buckets')
    BY DEF Deep
  <2> DEFINE d == Cardinality(Deep(buckets))
             e == Cardinality(Deep(buckets'))
  <2>2. d \in Nat /\ e \in Nat /\ e <= d /\ pref >= d /\ pref \in Nat
    BY <1>1, <1>3, <1>4, <1>5, DeepFacts, TypeFacts DEF PrefCounts
  <2> HIDE DEF d, e
  <2>3. pref >= e
    BY <2>2
  <2> QED BY <1>3, <2>1, <2>3 DEF PrefCounts, e
<1>9. Owned'
  <2>1. ASSUME NEW b \in Blocks(buckets') PROVE b \in Blocks(buckets)
    <3> DEFINE a == Cardinality(Marks(buckets, Valued(b)))
               c == Cardinality(Marks(buckets', Valued(b)))
               f == One(x \in Valued(b))
    <3>1. b \in Block /\ a \in Nat /\ c \in Nat /\ c # 0 /\ f \in Nat
      BY <1>5, BlocksAre, CountZero DEF One
    <3>2. c = a - f
      BY <1>2
    <3> HIDE DEF a, c, f
    <3>3. a # 0
      BY <3>1, <3>2
    <3> QED BY <1>5, <3>1, <3>3, BlocksAre DEF a
  <2>2. Blocks(buckets)' = Blocks(buckets')
    BY DEF Blocks
  <2> QED BY <1>3, <1>4, <2>1, <2>2 DEF Owned
<1>10. TableOK(buckets', width', items')
  BY <1>1, <1>3
<1> QED BY <1>7, <1>8, <1>9, <1>10, IInvNext

LEMMA ReleaseKeeps ==
    ASSUME IInv, Release
    PROVE  IInv'
<1>1. /\ mode = "run" /\ refs' = refs - 1 /\ claims' = claims - 1
      /\ width' = width /\ pref' = pref /\ items' = items /\ used' = used
      /\ spoilt' = spoilt /\ drifted' = drifted
      /\ IF refs = 1
         THEN /\ freed' = freed \cup Blocks(buckets)
              /\ buckets' = NoItems(width) /\ mode' = "gone"
         ELSE freed' = freed /\ buckets' = buckets /\ mode' = mode
  BY DEF Release, Running
<1>2. /\ TypeOK /\ PrefCounts /\ refs \in 1 .. claims /\ Blocks(buckets) \subseteq used
      /\ TableOK(buckets, width, items)
  BY <1>1, IInvMeans DEF Owned
<1>3. /\ width \in Nat \ {0} /\ buckets \in Tables(width) /\ Sound(buckets, width)
      /\ claims \in Nat /\ refs \in Nat /\ freed \in SUBSET used /\ used \in SUBSET Block
  BY <1>2, TypeFacts DEF TableOK
<1>4. refs' \in Nat /\ claims' \in Nat /\ (refs # 1 => refs' \in 1 .. claims')
  BY <1>1, <1>2, <1>3
<1>5. NoItems(width) \in Tables(width)
  BY <1>3, EmptyTable
<1>6. TypeOK'
  <2>1. buckets' \in Tables(width)
    BY <1>1, <1>3, <1>5
  <2>2. freed' \in SUBSET used'
    BY <1>1, <1>2, <1>3
  <2>3. mode' \in {"run", "gone", "overrun", "crashed"}
    BY <1>1
  <2> QED BY <1>1, <1>2, <1>4, <2>1, <2>2, <2>3 DEF TypeOK, Tables, Entry
<1>7. CASE refs = 1
  <2>1. mode' = "gone"
    BY <1>1, <1>7
  <2> QED BY <1>6, <2>1, IInvNext DEF PrefCounts, Owned
<1>8. CASE refs # 1
  <2>1. /\ mode' = mode /\ buckets' = buckets /\ freed' = freed
    BY <1>1, <1>8
  <2>2. PrefCounts'
    BY <1>1, <1>2, <2>1 DEF PrefCounts, Deep
  <2>3. Owned'
    BY <1>1, <1>2, <1>4, <1>8, <2>1 DEF Owned, Blocks
  <2>4. TableOK(buckets', width', items')
    BY <1>1, <1>2, <2>1
  <2> QED BY <1>6, <2>2, <2>3, <2>4, IInvNext
<1> QED BY <1>7, <1>8

LEMMA ClaimKeeps ==
    ASSUME IInv, Claim
    PROVE  IInv'
<1>1. /\ mode = "run" /\ mode' = mode /\ refs' = refs + 1 /\ claims' = claims + 1
      /\ width' = width /\ buckets' = buckets /\ pref' = pref /\ items' = items
      /\ used' = used /\ freed' = freed /\ spoilt' = spoilt /\ drifted' = drifted
  BY DEF Claim, Running, table, blocks
<1>2. /\ TypeOK /\ PrefCounts /\ refs \in 1 .. claims /\ Blocks(buckets) \subseteq used
      /\ TableOK(buckets, width, items) /\ refs \in Nat /\ claims \in Nat
  BY <1>1, IInvMeans, TypeFacts DEF Owned
<1>3. refs' \in 1 .. claims' /\ refs' \in Nat /\ claims' \in Nat
  BY <1>1, <1>2
<1>4. TypeOK'
  BY <1>1, <1>2, <1>3 DEF TypeOK
<1>5. PrefCounts'
  BY <1>1, <1>2 DEF PrefCounts, Deep
<1>6. Owned'
  BY <1>1, <1>2, <1>3 DEF Owned, Blocks
<1> QED BY <1>1, <1>2, <1>4, <1>5, <1>6, IInvNext

(* A step that changes nothing, or only stops the program. *)
LEMMA StopKeeps ==
    ASSUME IInv, UNCHANGED <<table, owners, blocks, spoilt, drifted>>,
           mode' = mode \/ mode' = "crashed"
    PROVE  IInv'
<1>1. /\ width' = width /\ buckets' = buckets /\ pref' = pref /\ items' = items
      /\ refs' = refs /\ claims' = claims
      /\ used' = used /\ freed' = freed /\ spoilt' = spoilt /\ drifted' = drifted
  BY DEF table, owners, blocks
<1>2. TypeOK /\ PrefCounts /\ Owned /\ (mode = "run" => TableOK(buckets, width, items))
  BY IInvMeans
<1>3. TypeOK'
  BY <1>1, <1>2 DEF TypeOK
<1>4. mode' = "run" => mode = "run"
  OBVIOUS
<1>5. PrefCounts'
  BY <1>1, <1>2, <1>4 DEF PrefCounts, Deep
<1>6. Owned'
  BY <1>1, <1>2, <1>4 DEF Owned, Blocks
<1> QED BY <1>1, <1>2, <1>3, <1>4, <1>5, <1>6, IInvNext

LEMMA NextIsSteps ==
    ASSUME [Next]_vars
    PROVE  \/ \E k \in Key, v \in Val : SetOld(k, v) \/ SetNew(k, v) \/ SetGrown(k, v)
           \/ \E k \in Key : RemoveKey(k)
           \/ \E n \in 1 .. MaxWidth : Rehash(n)
           \/ Claim \/ Release
           \/ /\ UNCHANGED <<table, owners, blocks, spoilt, drifted>>
              /\ mode' = mode \/ mode' = "crashed"
<1>1. ASSUME NEW k \in Key, SetNoMemory(k)
      PROVE  UNCHANGED <<table, owners, blocks, spoilt, drifted>> /\ mode' = "crashed"
  BY <1>1 DEF SetNoMemory
<1>2. ASSUME Crash
      PROVE  UNCHANGED <<table, owners, blocks, spoilt, drifted>> /\ mode' = "crashed"
  BY <1>2 DEF Crash
<1>3. ASSUME UNCHANGED vars
      PROVE  UNCHANGED <<table, owners, blocks, spoilt, drifted>> /\ mode' = mode
  BY <1>3 DEF vars
<1> QED BY <1>1, <1>2, <1>3 DEF Next

LEMMA StepKeeps ==
    ASSUME IInv, [Next]_vars
    PROVE  IInv'
<1>1. ASSUME NEW k \in Key, NEW v \in Val, SetOld(k, v) \/ SetNew(k, v) \/ SetGrown(k, v)
      PROVE  IInv'
  BY <1>1, SetOldKeeps, SetNewKeeps, SetGrownKeeps
<1>2. ASSUME NEW k \in Key, RemoveKey(k) PROVE IInv'
  BY <1>2, RemoveKeeps
<1>3. ASSUME NEW n \in 1 .. MaxWidth, Rehash(n) PROVE IInv'
  BY <1>3, RehashKeeps
<1> QED BY <1>1, <1>2, <1>3, ClaimKeeps, ReleaseKeeps, StopKeeps, NextIsSteps

LEMMA InitHolds ==
    ASSUME Init
    PROVE  IInv
<1>1. /\ width = InitWidth /\ buckets = NoItems(InitWidth) /\ pref = 0 /\ items = 0
      /\ refs = 1 /\ claims = 1 /\ used = {} /\ freed = {} /\ mode = "run"
      /\ spoilt = {} /\ drifted = FALSE
  BY DEF Init
<1>2. InitWidth \in Nat \ {0}
  OBVIOUS
<1>3. /\ NoItems(InitWidth) \in Tables(InitWidth)
      /\ \A b \in 0 .. InitWidth - 1 : NoItems(InitWidth)[b] = <<>>
      /\ \A X : Cardinality(Marks(NoItems(InitWidth), X)) = 0
  BY <1>2, EmptyTable
<1> DEFINE bs == NoItems(InitWidth)
<1> HIDE DEF bs
<1>4. TypeOK
  BY <1>1, <1>3 DEF TypeOK, Tables, Entry
<1>5. Len(<<>>) = 0 /\ MaxDepth \in Nat /\ PrefDepth >= 1 /\ PrefDepth \in Nat
  OBVIOUS
<1>6. DOMAIN bs = 0 .. InitWidth - 1 /\ \A b \in 0 .. InitWidth - 1 : Len(bs[b]) = 0
  BY <1>3, <1>5 DEF bs, Tables
<1>7. Fits(bs)
  BY <1>5, <1>6 DEF Fits
<1>8. InPlace(bs, InitWidth)
  BY <1>6 DEF InPlace
<1>9. Sound(bs, InitWidth)
  BY <1>3, <1>8 DEF Sound, bs
<1>10. TableOK(buckets, width, items)
  BY <1>1, <1>3, <1>7, <1>9 DEF TableOK, bs
<1>11. Deep(buckets) = {}
  BY <1>1, <1>5, <1>6 DEF Deep, bs
<1>12. PrefCounts
  BY <1>1, <1>11, FS_EmptySet DEF PrefCounts
<1>13. Blocks(buckets) = {}
  BY <1>1, <1>2, <1>3, BlocksAre
<1>14. Owned
  BY <1>1, <1>13 DEF Owned
<1> QED BY <1>4, <1>10, <1>12, <1>14, IInvMeans

(* The table is sound after any calls, whatever mm_hash computes and       *)
(* however wide and deep it is: every item is in the bucket of its name,   *)
(* no name is there twice, item_count counts the items, and bk_gr_pref is  *)
(* never less than the number of deep buckets (method_map.c 64-208).       *)
THEOREM TableIsSound == Spec => []IInv
<1>1. Init => IInv
  BY InitHolds
<1>2. IInv /\ [Next]_vars => IInv'
  BY StepKeeps
<1> QED BY <1>1, <1>2, PTL DEF Spec

-----------------------------------------------------------------------------
(* Doubling.                                                               *)

(* The items whose place is the bucket b of n. *)
Belonging(n, b) == {x \in Entry : Hash[x.key] % n = b}

LEMMA CountOfBucket ==
    ASSUME NEW n \in Nat \ {0}, NEW bs \in Tables(n), InPlace(bs, n), NEW b \in 0 .. n - 1
    PROVE  Cardinality(Marks(bs, Belonging(n, b))) = Len(bs[b])
<1> DEFINE l == Len(bs[b])
           S == 1 .. l
           T == Marks(bs, Belonging(n, b))
           f == [i \in S |-> <<b, i>>]
<1>1. l \in Nat /\ \A i \in S : bs[b][i] \in Entry /\ Hash[bs[b][i].key] % n = b
  BY TableType DEF InPlace
<1>2. IsFiniteSet(S) /\ Cardinality(S) = l
  <2> HIDE DEF l
  <2>1. 1 \in Int /\ l \in Int
    BY <1>1
  <2>2. IsFiniteSet(S)
    BY <2>1, FS_Interval
  <2>3. Cardinality(S) = IF 1 > l THEN 0 ELSE l - 1 + 1
    BY <2>1, FS_Interval
  <2> QED BY <1>1, <2>2, <2>3
<1>3. \A i \in S : <<b, i>> \in T
  BY <1>1, MarkFacts DEF Belonging
<1>4. ASSUME NEW p \in T PROVE p[2] \in S /\ p = <<b, p[2]>>
  <2>1. /\ p = <<p[1], p[2]>> /\ p[1] \in 0 .. n - 1 /\ p[2] \in 1 .. Len(bs[p[1]])
        /\ Hash[bs[p[1]][p[2]].key] % n = b
    BY MarkFacts DEF Belonging
  <2>2. p[1] = b
    BY <2>1 DEF InPlace
  <2> QED BY <2>1, <2>2
<1> HIDE DEF S, T
<1>5. f \in [S -> T] /\ \A x, y \in S : f[x] = f[y] => x = y
  BY <1>3
<1>6. \A p \in T : \E i \in S : f[i] = p
  BY <1>4
<1> HIDE DEF f
<1>7. Cardinality(T) = Cardinality(S)
  BY <1>2, <1>5, <1>6, SameSize, ZenonT(60)
<1> QED BY <1>2, <1>7 DEF T

(* A bucket of the doubled table has no more items than the one they were  *)
(* in.                                                                     *)
LEMMA DoubledFits ==
    ASSUME IInv, mode = "run"
    PROVE  Fits(Rehashed(2 * width))
<1> DEFINE n == 2 * width
           bs == Rehashed(n)
<1>1. width \in Nat \ {0} /\ Sound(buckets, width) /\ Fits(buckets)
  BY TableNow
<1>2. n \in Nat \ {0} /\ \A h \in Nat : (h % n) % width = h % width
  BY <1>1, HashOfDouble
<1> HIDE DEF n
<1>3. Sound(bs, n) /\ \A X : Cardinality(Marks(bs, X)) = Cardinality(Marks(buckets, X))
  BY <1>1, <1>2, RehashedSound
<1> HIDE DEF bs
<1>4. /\ bs \in Tables(n) /\ InPlace(bs, n)
      /\ buckets \in Tables(width) /\ InPlace(buckets, width)
      /\ DOMAIN bs = 0 .. n - 1 /\ DOMAIN buckets = 0 .. width - 1
  BY <1>1, <1>3 DEF Sound, Tables
<1>5. ASSUME NEW b \in 0 .. n - 1 PROVE Len(bs[b]) <= MaxDepth
  <2> DEFINE c == b % width
             X == Belonging(n, b)
             Y == Belonging(width, c)
             l == Len(bs[b])
             m == Len(buckets[c])
             d == Cardinality(Marks(buckets, X))
  <2>1. b \in Nat /\ c \in 0 .. width - 1
    BY <1>1, <1>2
  <2>2. X \subseteq Y
    <3> SUFFICES ASSUME NEW x \in X PROVE x \in Y
      OBVIOUS
    <3>1. x \in Entry /\ Hash[x.key] % n = b
      BY DEF Belonging
    <3>2. Hash[x.key] \in Nat
      BY <3>1, EntryFacts
    <3>3. Hash[x.key] % width = c
      BY <1>2, <3>1, <3>2
    <3> QED BY <3>1, <3>3 DEF Belonging
  <2> HIDE DEF c
  <2>3. Cardinality(Marks(bs, X)) = l
    BY <1>2, <1>4, CountOfBucket
  <2>4. Cardinality(Marks(buckets, Y)) = m
    BY <1>1, <1>4, <2>1, CountOfBucket
  <2> HIDE DEF X, Y
  <2>5. Marks(buckets, X) \subseteq Marks(buckets, Y)
    BY <1>1, <1>4, <2>2, MarkFacts
  <2>6. d \in Nat /\ d <= Cardinality(Marks(buckets, Y))
    BY <1>1, <1>4, <2>5, CountSubset
  <2>7. l = d
    BY <1>3, <2>3
  <2>8. m \in Nat /\ m <= MaxDepth
    BY <1>1, <1>4, <2>1, TableType DEF Fits
  <2> HIDE DEF l, m, d
  <2>9. l <= MaxDepth
    BY <2>4, <2>6, <2>7, <2>8
  <2> QED BY <2>9 DEF l
<1>6. Fits(bs)
  BY <1>4, <1>5 DEF Fits
<1> QED BY <1>6 DEF bs, n

(* When mm_set doubles the table, mm_rehash always finds room for every    *)
(* item: no more of them meet in a bucket than did before, so that mm_set  *)
(* never returns MM_SET_REHASH_FAIL for it (method_map.c 73-99, 190-208).  *)
THEOREM DoublingIsEnough == Spec => []DoublingFits
<1>1. IInv => DoublingFits
  BY DoubledFits DEF DoublingFits
<1> QED BY <1>1, TableIsSound, PTL

-----------------------------------------------------------------------------
(* What the table owns.                                                    *)

(* The blocks that were handed over, us, and not freed, fr, are in the     *)
(* table, each once.                                                       *)
Ours(bs, us, fr) ==
    /\ us \ fr = Blocks(bs)
    /\ \A b \in Block : Cardinality(Marks(bs, Valued(b))) <= 1

LEMMA ValuePlaces ==
    ASSUME NEW n \in Nat \ {0}, NEW bs \in Tables(n), Fits(bs), NEW v
    PROVE  {p \in PlacesOf(bs) : bs[p[1]][p[2]].func = v} = Marks(bs, Valued(v))
<1>1. PlacesOf(bs) = Marks(bs, Entry)
  BY PlacesAreMarks
<1>2. \A p : p \in Marks(bs, Valued(v))
                <=> (p \in Marks(bs, Entry) /\ bs[p[1]][p[2]].func = v)
  BY MarkFacts DEF Valued
<1> QED BY <1>1, <1>2

LEMMA OneOwnerMeans ==
    ASSUME TypeOK, Fits(buckets), OneOwner, mode \in {"run", "gone"}
    PROVE  /\ "values" \notin spoilt => Ours(buckets, used, freed)
           /\ "claims" \notin spoilt => refs = claims /\ (mode = "gone" <=> claims = 0)
<1>1. width \in Nat \ {0} /\ buckets \in Tables(width)
  BY TypeFacts
<1>2. ASSUME NEW b
      PROVE  {p \in Places : At(p).func = b} = Marks(buckets, Valued(b))
  <2>1. Places = PlacesOf(buckets)
    BY DEF Places, PlacesOf
  <2> QED BY <1>1, <2>1, ValuePlaces DEF At
<1> QED BY <1>2 DEF OneOwner, Ours

LEMMA OneOwnerNext ==
    ASSUME TypeOK', mode' \in {"run", "gone"} => Fits(buckets'),
           "values" \notin spoilt' => Ours(buckets', used', freed'),
           "claims" \notin spoilt' => refs' = claims' /\ (mode' = "gone" <=> claims' = 0)
    PROVE  OneOwner'
<1> SUFFICES ASSUME mode' \in {"run", "gone"} PROVE OneOwner'
  BY DEF OneOwner
<1>1. width' \in Nat \ {0} /\ buckets' \in Tables(width')
  BY DEF TypeOK, Tables, Entry
<1>2. ASSUME NEW b
      PROVE  {p \in Places : At(p).func = b}' = Marks(buckets', Valued(b))
  <2>1. Places' = PlacesOf(buckets')
    BY DEF Places, PlacesOf
  <2>2. {p \in PlacesOf(buckets') : buckets'[p[1]][p[2]].func = b} = Marks(buckets', Valued(b))
    BY <1>1, ValuePlaces
  <2> QED BY <2>1, <2>2 DEF At
<1>3. Blocks(buckets)' = Blocks(buckets')
  BY DEF Blocks
<1>4. "values" \notin spoilt' =>
         /\ (used \ freed)' = Blocks(buckets)'
         /\ \A b \in Block : Cardinality({p \in Places : At(p).func = b}') <= 1
  BY <1>2, <1>3 DEF Ours
<1> QED BY <1>4 DEF OneOwner

(* A step that puts the value in into the table and takes out away. *)
LEMMA OursAfter ==
    ASSUME NEW n \in Nat \ {0}, NEW bs \in Tables(n),
           NEW n2 \in Nat \ {0}, NEW bs2 \in Tables(n2),
           NEW us, NEW fr \in SUBSET us, Ours(bs, us, fr), NEW in \in (Val \cup {NONE}) \ us,
           NEW out \in Val \cup {NONE}, out \in Block => out \in Blocks(bs),
           \A b \in Block : Cardinality(Marks(bs2, Valued(b))) =
                Cardinality(Marks(bs, Valued(b))) + One(b = in) - One(b = out)
    PROVE  Ours(bs2, us \cup ({in} \cap Block), fr \cup ({out} \cap Block))
<1>1. us \ fr = Blocks(bs)
  BY DEF Ours
<1>2. ASSUME NEW b \in Block
      PROVE  /\ Cardinality(Marks(bs2, Valued(b))) <= 1
             /\ b \in Blocks(bs2) <=> b = in \/ (b \in Blocks(bs) /\ b # out)
  <2> DEFINE a == Cardinality(Marks(bs, Valued(b)))
             c == Cardinality(Marks(bs2, Valued(b)))
  <2>1. /\ a \in Nat /\ a <= 1 /\ c \in Nat
        /\ b \in Blocks(bs) <=> a # 0
        /\ b \in Blocks(bs2) <=> c # 0
    BY BlocksAre, CountZero DEF Ours
  <2>2. c = a + One(b = in) - One(b = out)
    OBVIOUS
  <2> HIDE DEF a, c
  <2>3. CASE b = in
    <3>1. a = 0 /\ b # out
      BY <1>1, <2>1, <2>3
    <3>2. One(b = in) = 1 /\ One(b = out) = 0
      BY <2>3, <3>1 DEF One
    <3>3. c = 1
      BY <2>2, <3>1, <3>2
    <3>4. c <= 1 /\ c # 0
      BY <3>3
    <3> QED BY <2>1, <2>3, <3>4 DEF c
  <2>4. CASE b # in /\ b = out
    <3>1. a = 1
      BY <2>1, <2>4
    <3>2. One(b = in) = 0 /\ One(b = out) = 1
      BY <2>4 DEF One
    <3>3. c = 0
      BY <2>2, <3>1, <3>2
    <3>4. c <= 1
      BY <3>3
    <3> QED BY <2>1, <2>4, <3>3, <3>4 DEF c
  <2>5. CASE b # in /\ b # out
    <3>1. One(b = in) = 0 /\ One(b = out) = 0
      BY <2>5 DEF One
    <3>2. c = a
      BY <2>1, <2>2, <3>1
    <3> QED BY <2>1, <2>5, <3>2 DEF c
  <2> QED BY <2>3, <2>4, <2>5
<1>3. Blocks(bs) \subseteq Block /\ Blocks(bs2) \subseteq Block
  BY DEF Blocks
<1>4. ASSUME NEW b \in Block
      PROVE  b \in Blocks(bs2) <=>
                b \in (us \cup ({in} \cap Block)) \ (fr \cup ({out} \cap Block))
  <2>1. b = in => b \notin fr /\ b # out
    BY <1>1
  <2> QED BY <1>1, <1>2, <2>1
<1>5. ASSUME NEW b \in us, b \notin Block PROVE b \in fr
  BY <1>1, <1>3, <1>5
<1>6. Blocks(bs2) = (us \cup ({in} \cap Block)) \ (fr \cup ({out} \cap Block))
  BY <1>3, <1>4, <1>5
<1> QED BY <1>2, <1>6 DEF Ours

LEMMA ItemValued ==
    ASSUME NEW k \in Key, NEW v \in Val, NEW b
    PROVE  One(Item(k, v) \in Valued(b)) = One(b = v)
<1>1. Item(k, v) \in Valued(b) <=> b = v
  BY ItemFacts DEF Valued
<1> QED BY <1>1 DEF One

LEMMA NoneIsNoBlock ==
    ASSUME NEW b \in Block
    PROVE  b # NONE /\ One(b = NONE) = 0 /\ {NONE} \cap Block = {}
  BY DEF One, Val

LEMMA SetOldOwns ==
    ASSUME IInv, IInv', OneOwner, NEW k \in Key, NEW v \in Val, SetOld(k, v)
    PROVE  OneOwner'
<1> DEFINE u == Lookup(k)
<1>1. /\ mode = "run" /\ mode' = mode /\ width' = width /\ refs' = refs /\ claims' = claims
      /\ spoilt' = spoilt /\ Fresh(v)
      /\ used' = used \cup ({v} \cap Block) /\ freed' = freed \cup ({u} \cap Block)
  BY DEF SetOld, Running, owners
<1>2. TypeOK /\ TypeOK' /\ Fits(buckets) /\ Fits(buckets')
  BY <1>1, IInvMeans, SetOldEffect DEF IInv, TableOK
<1>3. /\ width \in Nat \ {0} /\ buckets \in Tables(width) /\ buckets' \in Tables(width)
      /\ used \in SUBSET Block /\ freed \in SUBSET used
  BY <1>2, TypeFacts, SetOldEffect DEF TableOK, Sound
<1>4. u \in Val /\ (u \in Block => u \in Blocks(buckets))
  BY SetOldEffect
<1>5. v \notin used
  BY <1>1, <1>3 DEF Fresh
<1>6. ASSUME NEW b \in Block
      PROVE  Cardinality(Marks(buckets', Valued(b))) =
                Cardinality(Marks(buckets, Valued(b))) + One(b = v) - One(b = u)
  <2>1. Cardinality(Marks(buckets', Valued(b))) =
           Cardinality(Marks(buckets, Valued(b)))
           + One(Item(k, v) \in Valued(b)) - One(Item(k, u) \in Valued(b))
    BY SetOldEffect
  <2> HIDE DEF u
  <2> QED BY <1>4, <2>1, ItemValued
<1> HIDE DEF u
<1>7. "values" \notin spoilt' => Ours(buckets', used', freed')
  <2> SUFFICES ASSUME "values" \notin spoilt' PROVE Ours(buckets', used', freed')
    OBVIOUS
  <2>1. Ours(buckets, used, freed)
    BY <1>1, <1>2, OneOwnerMeans
  <2> QED BY <1>1, <1>3, <1>4, <1>5, <1>6, <2>1, OursAfter
<1>8. "claims" \notin spoilt' => refs' = claims' /\ (mode' = "gone" <=> claims' = 0)
  BY <1>1, <1>2, OneOwnerMeans
<1> QED BY <1>2, <1>7, <1>8, OneOwnerNext

LEMMA SetNewOwns ==
    ASSUME IInv, IInv', OneOwner, NEW k \in Key, NEW v \in Val, SetNew(k, v)
    PROVE  OneOwner'
<1>1. /\ mode = "run" /\ mode' = mode /\ width' = width /\ refs' = refs /\ claims' = claims
      /\ spoilt' = spoilt /\ Fresh(v)
      /\ used' = used \cup ({v} \cap Block) /\ freed' = freed
  BY DEF SetNew, Running, owners, Place
<1>2. TypeOK /\ TypeOK' /\ Fits(buckets) /\ Fits(buckets')
  BY <1>1, IInvMeans, SetNewEffect DEF IInv, TableOK
<1>3. /\ width \in Nat \ {0} /\ buckets \in Tables(width) /\ buckets' \in Tables(width)
      /\ used \in SUBSET Block /\ freed \in SUBSET used
  BY <1>1, <1>2, TypeFacts, SetNewEffect DEF TableOK, Sound
<1>4. v \notin used
  BY <1>1, <1>3 DEF Fresh
<1>5. ASSUME NEW b \in Block
      PROVE  Cardinality(Marks(buckets', Valued(b))) =
                Cardinality(Marks(buckets, Valued(b))) + One(b = v) - One(b = NONE)
  <2> DEFINE a == Cardinality(Marks(buckets, Valued(b)))
             c == Cardinality(Marks(buckets', Valued(b)))
  <2>1. c = a + One(Item(k, v) \in Valued(b))
    BY SetNewEffect
  <2>2. a \in Nat /\ One(b = v) \in Nat
    BY <1>3, CountZero DEF One
  <2> HIDE DEF a, c
  <2>3. One(b = NONE) = 0 /\ c = a + One(b = v)
    BY <2>1, ItemValued, NoneIsNoBlock
  <2>4. c = a + One(b = v) - One(b = NONE)
    BY <2>2, <2>3
  <2> QED BY <2>4 DEF a, c
<1>6. "values" \notin spoilt' => Ours(buckets', used', freed')
  <2> SUFFICES ASSUME "values" \notin spoilt' PROVE Ours(buckets', used', freed')
    OBVIOUS
  <2>1. Ours(buckets, used, freed)
    BY <1>1, <1>2, OneOwnerMeans
  <2>2. NONE \notin Block /\ freed' = freed \cup ({NONE} \cap Block)
    BY <1>1 DEF Val
  <2> QED BY <1>1, <1>3, <1>4, <1>5, <2>1, <2>2, OursAfter
<1>7. "claims" \notin spoilt' => refs' = claims' /\ (mode' = "gone" <=> claims' = 0)
  BY <1>1, <1>2, OneOwnerMeans
<1> QED BY <1>2, <1>6, <1>7, OneOwnerNext

(* The owners after a growth. *)
LEMMA ExchangeOwns ==
    ASSUME IInv, OneOwner, mode = "run", Exchange
    PROVE  /\ "values" \notin spoilt' => Ours(buckets, used, freed) /\ freed' = freed
           /\ "claims" \notin spoilt' => refs' = 1 /\ claims' = 1
<1>1. TypeOK /\ Owned /\ Fits(buckets)
  BY TableNow DEF IInv
<1>2. /\ refs' = 1 /\ claims' = claims /\ spoilt \subseteq spoilt'
      /\ "values" \notin spoilt' => freed' = freed
      /\ "claims" \notin spoilt' => refs = 1
  BY <1>1, ExchangeFacts
<1>3. /\ "values" \notin spoilt => Ours(buckets, used, freed)
      /\ "claims" \notin spoilt => refs = claims
  BY <1>1, OneOwnerMeans
<1> QED BY <1>2, <1>3

LEMMA RehashOwns ==
    ASSUME IInv, IInv', OneOwner, NEW n \in 1 .. MaxWidth, Rehash(n)
    PROVE  OneOwner'
<1> DEFINE bs == Rehashed(n)
<1>1. /\ mode = "run" /\ mode' = mode /\ Fits(bs) /\ width' = n /\ buckets' = bs
      /\ used' = used /\ Exchange
  BY DEF Rehash, Running
<1>2. n \in Nat \ {0} /\ TypeOK /\ TypeOK'
  BY DEF IInv
<1>3. Sound(bs, n) /\ \A X : Cardinality(Marks(bs, X)) = Cardinality(Marks(buckets, X))
  BY <1>1, <1>2, RehashEffect
<1> HIDE DEF bs
<1>4. /\ width \in Nat \ {0} /\ buckets \in Tables(width) /\ bs \in Tables(n)
      /\ used \in SUBSET Block /\ freed \in SUBSET used
  BY <1>2, <1>3, TypeFacts DEF Sound
<1>5. ASSUME NEW b \in Block
      PROVE  Cardinality(Marks(bs, Valued(b))) =
                Cardinality(Marks(buckets, Valued(b))) + One(b = NONE) - One(b = NONE)
  <2> DEFINE a == Cardinality(Marks(buckets, Valued(b)))
  <2>1. a \in Nat /\ Cardinality(Marks(bs, Valued(b))) = a /\ One(b = NONE) = 0
    BY <1>3, <1>4, CountZero, NoneIsNoBlock
  <2> HIDE DEF a
  <2>2. Cardinality(Marks(bs, Valued(b))) = a + One(b = NONE) - One(b = NONE)
    BY <2>1
  <2> QED BY <2>2 DEF a
<1>6. "values" \notin spoilt' => Ours(buckets', used', freed')
  <2> SUFFICES ASSUME "values" \notin spoilt' PROVE Ours(buckets', used', freed')
    OBVIOUS
  <2>1. Ours(buckets, used, freed) /\ freed' = freed
    BY <1>1, ExchangeOwns
  <2>2. NONE \notin Block
    BY DEF Val
  <2>3. used' = used \cup ({NONE} \cap Block) /\ freed' = freed \cup ({NONE} \cap Block)
    BY <1>1, <2>1, <2>2
  <2>4. NONE \in (Val \cup {NONE}) \ used
    BY <1>4, <2>2
  <2>5. Ours(bs, used \cup ({NONE} \cap Block), freed \cup ({NONE} \cap Block))
    BY <1>2, <1>4, <1>5, <2>1, <2>2, <2>4, OursAfter
  <2> QED BY <1>1, <2>3, <2>5
<1>7. "claims" \notin spoilt' => refs' = claims' /\ (mode' = "gone" <=> claims' = 0)
  BY <1>1, ExchangeOwns
<1> QED BY <1>1, <1>2, <1>6, <1>7, OneOwnerNext

LEMMA SetGrownOwns ==
    ASSUME IInv, IInv', OneOwner, NEW k \in Key, NEW v \in Val, SetGrown(k, v)
    PROVE  OneOwner'
<1> DEFINE n == 2 * width
<1>1. mode = "run" /\ Exchange /\ Fresh(v) /\ used' = used \cup ({v} \cap Block)
  BY DEF SetGrown, Running, Place
<1>2. TypeOK /\ TypeOK'
  BY DEF IInv
<1>3. /\ n \in Nat \ {0} /\ Sound(buckets', n)
      /\ mode' = "overrun" \/ (mode' = "run" /\ TableOK(buckets', n, items'))
  BY SetGrownEffect
<1>4. \A X : Cardinality(Marks(buckets', X)) =
                Cardinality(Marks(buckets, X)) + One(Item(k, v) \in X)
  BY SetGrownEffect
<1> HIDE DEF n
<1>5. /\ width \in Nat \ {0} /\ buckets \in Tables(width) /\ buckets' \in Tables(n)
      /\ used \in SUBSET Block /\ freed \in SUBSET used
  BY <1>2, <1>3, TypeFacts DEF Sound
<1>6. v \notin used
  BY <1>1, <1>5 DEF Fresh
<1>7. ASSUME NEW b \in Block
      PROVE  Cardinality(Marks(buckets', Valued(b))) =
                Cardinality(Marks(buckets, Valued(b))) + One(b = v) - One(b = NONE)
  <2> DEFINE a == Cardinality(Marks(buckets, Valued(b)))
             c == Cardinality(Marks(buckets', Valued(b)))
  <2>1. c = a + One(Item(k, v) \in Valued(b))
    BY <1>4
  <2>2. a \in Nat /\ One(b = v) \in Nat
    BY <1>5, CountZero DEF One
  <2> HIDE DEF a, c
  <2>3. One(b = NONE) = 0 /\ c = a + One(b = v)
    BY <2>1, ItemValued, NoneIsNoBlock
  <2>4. c = a + One(b = v) - One(b = NONE)
    BY <2>2, <2>3
  <2> QED BY <2>4 DEF a, c
<1>8. "values" \notin spoilt' => Ours(buckets', used', freed')
  <2> SUFFICES ASSUME "values" \notin spoilt' PROVE Ours(buckets', used', freed')
    OBVIOUS
  <2>1. Ours(buckets, used, freed) /\ freed' = freed
    BY <1>1, ExchangeOwns
  <2>2. NONE \notin Block /\ freed' = freed \cup ({NONE} \cap Block)
    BY <2>1 DEF Val
  <2> QED BY <1>1, <1>3, <1>5, <1>6, <1>7, <2>1, <2>2, OursAfter
<1>9. CASE mode' = "overrun"
  <2>1. ~(mode' \in {"run", "gone"})
    BY <1>9
  <2> QED BY <2>1 DEF OneOwner
<1>10. CASE mode' = "run" /\ TableOK(buckets', n, items')
  <2>1. "claims" \notin spoilt' => refs' = claims' /\ (mode' = "gone" <=> claims' = 0)
    BY <1>1, <1>10, ExchangeOwns
  <2> QED BY <1>2, <1>8, <1>10, <2>1, OneOwnerNext DEF TableOK
<1> QED BY <1>3, <1>9, <1>10

LEMMA RemoveOwns ==
    ASSUME IInv, IInv', OneOwner, NEW k \in Key, RemoveKey(k)
    PROVE  OneOwner'
<1> DEFINE u == Lookup(k)
<1>1. /\ mode = "run" /\ mode' = mode /\ width' = width /\ refs' = refs /\ claims' = claims
      /\ spoilt' = spoilt /\ used' = used /\ freed' = freed \cup ({u} \cap Block)
  BY DEF RemoveKey, Running, owners
<1>2. TypeOK /\ TypeOK' /\ Fits(buckets) /\ Fits(buckets')
  BY <1>1, IInvMeans, RemoveEffect DEF IInv, TableOK
<1>3. /\ width \in Nat \ {0} /\ buckets \in Tables(width) /\ buckets' \in Tables(width)
      /\ used \in SUBSET Block /\ freed \in SUBSET used
  BY <1>2, TypeFacts, RemoveEffect DEF TableOK, Sound
<1>4. u \in Val /\ (u \in Block => u \in Blocks(buckets))
  BY RemoveEffect
<1>5. ASSUME NEW b \in Block
      PROVE  Cardinality(Marks(buckets', Valued(b))) =
                Cardinality(Marks(buckets, Valued(b))) + One(b = NONE) - One(b = u)
  <2> DEFINE a == Cardinality(Marks(buckets, Valued(b)))
             c == Cardinality(Marks(buckets', Valued(b)))
  <2>1. c = a - One(Item(k, u) \in Valued(b))
    BY RemoveEffect
  <2>2. a \in Nat /\ One(b = u) \in Nat
    BY <1>3, CountZero DEF One
  <2> HIDE DEF a, c, u
  <2>3. One(b = NONE) = 0 /\ c = a - One(b = u)
    BY <1>4, <2>1, ItemValued, NoneIsNoBlock
  <2>4. c = a + One(b = NONE) - One(b = u)
    BY <2>2, <2>3
  <2> QED BY <2>4 DEF a, c
<1> HIDE DEF u
<1>6. "values" \notin spoilt' => Ours(buckets', used', freed')
  <2> SUFFICES ASSUME "values" \notin spoilt' PROVE Ours(buckets', used', freed')
    OBVIOUS
  <2>1. Ours(buckets, used, freed)
    BY <1>1, <1>2, OneOwnerMeans
  <2>2. NONE \notin Block
    BY DEF Val
  <2>3. used' = used \cup ({NONE} \cap Block) /\ NONE \in (Val \cup {NONE}) \ used
    BY <1>1, <1>3, <2>2
  <2>4. Ours(buckets', used \cup ({NONE} \cap Block), freed \cup ({u} \cap Block))
    BY <1>3, <1>4, <1>5, <2>1, <2>3, OursAfter
  <2> QED BY <1>1, <2>3, <2>4
<1>7. "claims" \notin spoilt' => refs' = claims' /\ (mode' = "gone" <=> claims' = 0)
  BY <1>1, <1>2, OneOwnerMeans
<1> QED BY <1>2, <1>6, <1>7, OneOwnerNext

LEMMA ClaimOwns ==
    ASSUME IInv, IInv', OneOwner, Claim
    PROVE  OneOwner'
<1>1. /\ mode = "run" /\ mode' = mode /\ refs' = refs + 1 /\ claims' = claims + 1
      /\ buckets' = buckets /\ used' = used /\ freed' = freed /\ spoilt' = spoilt
  BY DEF Claim, Running, table, blocks
<1>2. TypeOK /\ TypeOK' /\ Fits(buckets) /\ Fits(buckets') /\ claims \in Nat
  BY <1>1, TableNow, TypeFacts DEF IInv
<1>3. /\ "values" \notin spoilt => Ours(buckets, used, freed)
      /\ "claims" \notin spoilt => refs = claims
  BY <1>1, <1>2, OneOwnerMeans
<1>4. "values" \notin spoilt' => Ours(buckets', used', freed')
  BY <1>1, <1>3
<1>5. "claims" \notin spoilt' => refs' = claims' /\ (mode' = "gone" <=> claims' = 0)
  BY <1>1, <1>2, <1>3
<1> QED BY <1>2, <1>4, <1>5, OneOwnerNext

LEMMA ReleaseOwns ==
    ASSUME IInv, IInv', OneOwner, Release
    PROVE  OneOwner'
<1>1. /\ mode = "run" /\ refs' = refs - 1 /\ claims' = claims - 1 /\ width' = width
      /\ used' = used /\ spoilt' = spoilt
      /\ IF refs = 1
         THEN /\ freed' = freed \cup Blocks(buckets)
              /\ buckets' = NoItems(width)
              /\ mode' = "gone"
         ELSE freed' = freed /\ buckets' = buckets /\ mode' = mode
  BY DEF Release, Running
<1>2. /\ TypeOK /\ TypeOK' /\ Fits(buckets) /\ claims \in Nat /\ refs \in 1 .. claims
      /\ width \in Nat \ {0}
  BY <1>1, TableNow, TypeFacts DEF IInv, Owned
<1>3. /\ "values" \notin spoilt => Ours(buckets, used, freed)
      /\ "claims" \notin spoilt => refs = claims
  BY <1>1, <1>2, OneOwnerMeans
<1>4. CASE refs = 1
  <2> DEFINE bs == NoItems(width)
  <2>1. /\ bs \in Tables(width) /\ \A b \in 0 .. width - 1 : bs[b] = <<>>
        /\ \A X : Cardinality(Marks(bs, X)) = 0
    BY <1>2, EmptyTable
  <2> HIDE DEF bs
  <2>2. Fits(bs)
    <3>1. Len(<<>>) <= MaxDepth
      OBVIOUS
    <3> QED BY <2>1, <3>1 DEF Fits, Tables
  <2>3. Blocks(bs) = {}
    BY <1>2, <2>1, BlocksAre
  <2>4. ASSUME "values" \notin spoilt' PROVE Ours(bs, used', freed')
    <3>1. used' \ freed' = {}
      BY <1>1, <1>3, <1>4, <2>4 DEF Ours
    <3> QED BY <2>1, <2>3, <3>1 DEF Ours
  <2>5. "claims" \notin spoilt' => refs' = claims' /\ claims' = 0
    BY <1>1, <1>3, <1>4
  <2> QED BY <1>1, <1>2, <1>4, <2>2, <2>4, <2>5, OneOwnerNext DEF bs
<1>5. CASE refs # 1
  <2>1. /\ freed' = freed /\ buckets' = buckets /\ mode' = "run"
    BY <1>1, <1>5
  <2>2. "values" \notin spoilt' => Ours(buckets', used', freed')
    BY <1>1, <1>3, <2>1
  <2>3. claims' # 0
    BY <1>1, <1>2, <1>5
  <2>4. "claims" \notin spoilt' => refs' = claims' /\ (mode' = "gone" <=> claims' = 0)
    BY <1>1, <1>3, <2>1, <2>3
  <2> QED BY <1>2, <2>1, <2>2, <2>4, OneOwnerNext
<1> QED BY <1>4, <1>5

LEMMA StopOwns ==
    ASSUME OneOwner, UNCHANGED <<table, owners, blocks, spoilt, drifted>>,
           mode' = mode \/ mode' = "crashed"
    PROVE  OneOwner'
<1>1. /\ width' = width /\ buckets' = buckets /\ refs' = refs /\ claims' = claims
      /\ used' = used /\ freed' = freed /\ spoilt' = spoilt
  BY DEF table, owners, blocks
<1>2. CASE mode' = mode
  BY <1>1, <1>2 DEF OneOwner, Places, At, Blocks
<1>3. CASE mode' = "crashed"
  BY <1>3 DEF OneOwner
<1> QED BY <1>2, <1>3

(* What is handed to the map is in it once until it is freed, and freed    *)
(* once; the map goes away with its last owner, and not before: whatever   *)
(* the names hash to and however many owners there are, unless a growth    *)
(* has freed the values or forgotten the owners (method_map.c 54-101,      *)
(* 171-225).                                                               *)
THEOREM OwnedOnce == Spec => []OneOwner
<1>1. Init => OneOwner
  <2> SUFFICES ASSUME Init PROVE OneOwner
    OBVIOUS
  <2>1. /\ width = InitWidth /\ buckets = NoItems(InitWidth) /\ mode = "run"
        /\ refs = 1 /\ claims = 1 /\ used = {} /\ freed = {}
    BY DEF Init
  <2>2. InitWidth \in Nat \ {0}
    OBVIOUS
  <2>3. /\ buckets \in Tables(width) /\ \A b \in 0 .. width - 1 : buckets[b] = <<>>
        /\ \A X : Cardinality(Marks(buckets, X)) = 0
    BY <2>1, <2>2, EmptyTable
  <2>4. Blocks(buckets) = {}
    BY <2>1, <2>2, <2>3, BlocksAre
  <2>5. Places = {}
    <3>1. DOMAIN buckets = 0 .. width - 1 /\ Len(<<>>) = 0
      BY <2>3 DEF Tables
    <3> QED BY <2>3, <3>1 DEF Places
  <2>6. \A b : Cardinality({p \in Places : At(p).func = b}) = 0
    <3>1. \A b : {p \in Places : At(p).func = b} = {}
      BY <2>5
    <3> QED BY <3>1, FS_EmptySet
  <2>7. \A b : Cardinality({p \in Places : At(p).func = b}) <= 1
    BY <2>6
  <2>8. used \ freed = Blocks(buckets)
    BY <2>1, <2>4
  <2>9. refs = claims /\ mode # "gone" /\ claims # 0
    BY <2>1
  <2> QED BY <2>7, <2>8, <2>9, Zenon DEF OneOwner
<1>2. ASSUME IInv, IInv', OneOwner, [Next]_vars PROVE OneOwner'
  <2>1. ASSUME NEW k \in Key, NEW v \in Val, SetOld(k, v) \/ SetNew(k, v) \/ SetGrown(k, v)
        PROVE  OneOwner'
    BY <1>2, <2>1, SetOldOwns, SetNewOwns, SetGrownOwns
  <2>2. ASSUME NEW k \in Key, RemoveKey(k) PROVE OneOwner'
    BY <1>2, <2>2, RemoveOwns
  <2>3. ASSUME NEW n \in 1 .. MaxWidth, Rehash(n) PROVE OneOwner'
    BY <1>2, <2>3, RehashOwns
  <2> QED BY <1>2, <2>1, <2>2, <2>3, ClaimOwns, ReleaseOwns, StopOwns, NextIsSteps
<1> QED BY <1>1, <1>2, TableIsSound, PTL DEF Spec

-----------------------------------------------------------------------------
(* The map that the table implements.                                      *)

(* The value of every name *)
MapOf(bs, n) == [k \in Key |-> IF Fits(bs) THEN Get(bs, n, k) ELSE NONE]

LEMMA FMIs ==
    /\ Fits(buckets)' = Fits(buckets')
    /\ [k \in Key |-> IF Fits(buckets) THEN Lookup(k) ELSE NONE] = MapOf(buckets, width)
    /\ [k \in Key |-> IF Fits(buckets) THEN Lookup(k) ELSE NONE]' = MapOf(buckets', width')
<1>1. [k \in Key |-> IF Fits(buckets) THEN Lookup(k) ELSE NONE] = MapOf(buckets, width)
  BY LookupIsGet DEF MapOf
<1>2. \A k : Lookup(k)' = Get(buckets', width', k)
  BY DEF Lookup, Get, BucketOf
<1>3. [k \in Key |-> IF Fits(buckets) THEN Lookup(k) ELSE NONE]' = MapOf(buckets', width')
  BY <1>2 DEF MapOf, Fits
<1> QED BY <1>1, <1>3 DEF Fits

LEMMA FMVars ==
    /\ FM!vars = <<MapOf(buckets, width), Fits(buckets)>>
    /\ FM!vars' = <<MapOf(buckets', width'), Fits(buckets')>>
  BY FMIs DEF FM!vars

(* One step of FiniteMap, for each of its actions. *)
LEMMA FMSet ==
    ASSUME Fits(buckets), Fits(buckets'), NEW k \in Key, NEW v \in Val,
           MapOf(buckets', width') = [MapOf(buckets, width) EXCEPT ![k] = v]
    PROVE  FM!Next
<1>1. FM!Set(k, v)
  BY FMIs DEF FM!Set
<1> QED BY <1>1 DEF FM!Next

LEMMA FMRemove ==
    ASSUME Fits(buckets), Fits(buckets'), NEW k \in Key, MapOf(buckets, width)[k] # NONE,
           MapOf(buckets', width') = [MapOf(buckets, width) EXCEPT ![k] = NONE]
    PROVE  FM!Next
<1>1. FM!Remove(k)
  BY FMIs DEF FM!Remove, FM!Defined
<1> QED BY <1>1 DEF FM!Next

LEMMA FMOverrun ==
    ASSUME Fits(buckets), ~Fits(buckets'),
           Cardinality({k \in Key : MapOf(buckets, width)[k] # NONE}) >= MaxDepth
    PROVE  FM!Next
<1>1. \A S : FM!Cardinality(S) = Cardinality(S)
  BY DEF FM!Cardinality, Cardinality
<1>2. FM!Defined = {k \in Key : MapOf(buckets, width)[k] # NONE}
  BY FMIs DEF FM!Defined
<1>3. MapOf(buckets', width') = [k \in Key |-> NONE]
  BY DEF MapOf
<1>4. FM!Cardinality(FM!Defined) >= MaxDepth
  BY <1>1, <1>2
<1>5. FM!Overrun
  BY <1>3, <1>4, FMIs DEF FM!Overrun
<1> QED BY <1>5 DEF FM!Next

LEMMA FMFree ==
    ASSUME Fits(buckets), Fits(buckets'), MapOf(buckets', width') = [k \in Key |-> NONE]
    PROVE  FM!Next
<1>1. FM!Free
  BY FMIs DEF FM!Free
<1> QED BY <1>1 DEF FM!Next

(* There are as many names in a table as there are items. *)
LEMMA NamesCount ==
    ASSUME NEW n \in Nat \ {0}, NEW bs, Sound(bs, n)
    PROVE  Cardinality({k \in Key : Get(bs, n, k) # NONE}) = Cardinality(Marks(bs, Entry))
<1> DEFINE S == Marks(bs, Entry)
           T == {k \in Key : Get(bs, n, k) # NONE}
           f == [p \in S |-> bs[p[1]][p[2]].key]
<1>1. bs \in Tables(n) /\ \A k \in Key : Cardinality(Marks(bs, Keyed(k))) <= 1
  BY DEF Sound
<1>2. IsFiniteSet(S)
  BY <1>1, CountIsFlat
<1>3. ASSUME NEW k \in Key PROVE Get(bs, n, k) # NONE <=> Marks(bs, Keyed(k)) # {}
  BY <1>1, GetMeans, CountZero
<1>4. ASSUME NEW p, NEW k \in Key
      PROVE  p \in Marks(bs, Keyed(k)) <=> (p \in S /\ bs[p[1]][p[2]].key = k)
  BY <1>1, MarkFacts DEF Keyed
<1>5. ASSUME NEW p \in S PROVE bs[p[1]][p[2]].key \in T
  <2> DEFINE k == bs[p[1]][p[2]].key
  <2>1. k \in Key
    BY <1>1, MarkFacts, EntryFacts
  <2>2. p \in Marks(bs, Keyed(k))
    BY <1>4, <2>1
  <2> HIDE DEF k
  <2>3. k \in T
    BY <1>3, <2>1, <2>2
  <2> QED BY <2>3 DEF k
<1>6. \A x, y \in S : bs[x[1]][x[2]].key = bs[y[1]][y[2]].key => x = y
  BY <1>1, KeysOnce
<1>7. \A k \in T : \E p \in S : bs[p[1]][p[2]].key = k
  BY <1>3, <1>4
<1> HIDE DEF S, T
<1>8. f \in [S -> T] /\ \A x, y \in S : f[x] = f[y] => x = y
  BY <1>5, <1>6
<1>9. \A k \in T : \E p \in S : f[p] = k
  BY <1>7
<1> HIDE DEF f
<1>10. Cardinality(T) = Cardinality(S)
  BY <1>2, <1>8, <1>9, SameSize, ZenonT(60)
<1> QED BY <1>10 DEF S, T

LEMMA SetImplements ==
    ASSUME IInv, NEW k \in Key, NEW v \in Val,
           SetOld(k, v) \/ SetNew(k, v) \/ SetGrown(k, v)
    PROVE  FM!Next
<1>1. mode = "run"
  BY DEF SetOld, SetNew, SetGrown, Running
<1>2. Fits(buckets) /\ width \in Nat \ {0} /\ Sound(buckets, width)
  BY <1>1, TableNow
<1>3. CASE SetOld(k, v)
  <2>1. Fits(buckets') /\ width' = width
    BY <1>3, SetOldEffect DEF TableOK, SetOld
  <2>2. \A j \in Key : Get(buckets', width', j) =
                          IF j = k THEN v ELSE Get(buckets, width, j)
    BY <1>3, <2>1, SetOldEffect
  <2>3. MapOf(buckets', width') = [MapOf(buckets, width) EXCEPT ![k] = v]
    BY <1>2, <2>1, <2>2 DEF MapOf
  <2> QED BY <1>2, <2>1, <2>3, FMSet
<1>4. CASE SetNew(k, v)
  <2>1. Fits(buckets') /\ width' = width
    BY <1>4, SetNewEffect DEF TableOK
  <2>2. \A j \in Key : Get(buckets', width', j) =
                          IF j = k THEN v ELSE Get(buckets, width, j)
    BY <1>4, <2>1, SetNewEffect
  <2>3. MapOf(buckets', width') = [MapOf(buckets, width) EXCEPT ![k] = v]
    BY <1>2, <2>1, <2>2 DEF MapOf
  <2> QED BY <1>2, <2>1, <2>3, FMSet
<1>5. CASE SetGrown(k, v)
  <2> DEFINE n == 2 * width
             bs == Rehashed(n)
             h == Hash[k] % n
             l == Len(bs[h])
  <2>1. /\ n \in Nat \ {0} /\ width' = n /\ h \in 0 .. n - 1
        /\ IF l = MaxDepth THEN mode' = "overrun" /\ ~Fits(buckets')
                           ELSE mode' = "run" /\ TableOK(buckets', n, items')
    BY <1>5, SetGrownEffect
  <2>2. \A j \in Key : Get(buckets', n, j) = IF j = k THEN v ELSE Get(buckets, width, j)
    BY <1>5, SetGrownEffect
  <2> HIDE DEF n
  <2>3. /\ Sound(bs, n)
        /\ items = Cardinality(Marks(bs, Entry))
    BY <1>1, <2>1, RehashEffect
  <2> HIDE DEF bs, h
  <2>4. CASE l = MaxDepth
    <3> DEFINE c == Cardinality({j \in Key : Get(buckets, width, j) # NONE})
    <3>1. c = items
      BY <1>1, <1>2, NamesCount, TableNow
    <3>2. bs \in Tables(n) /\ InPlace(bs, n)
      BY <2>3 DEF Sound
    <3>3. Cardinality(Marks(bs, Belonging(n, h))) = l
      BY <2>1, <3>2, CountOfBucket
    <3>4. Marks(bs, Belonging(n, h)) \subseteq Marks(bs, Entry)
      BY <2>1, <3>2, MarkFacts DEF Belonging
    <3>5. l <= Cardinality(Marks(bs, Entry))
      BY <2>1, <3>2, <3>3, <3>4, CountSubset
    <3>6. \A j \in Key : MapOf(buckets, width)[j] = Get(buckets, width, j)
      BY <1>2 DEF MapOf
    <3>7. {j \in Key : MapOf(buckets, width)[j] # NONE} =
             {j \in Key : Get(buckets, width, j) # NONE}
      BY <3>6
    <3>8. c \in Nat /\ c >= MaxDepth
      <4>1. items \in Nat
        BY TypeFacts DEF IInv
      <4> HIDE DEF l, c
      <4> QED BY <2>3, <2>4, <3>1, <3>5, <4>1
    <3>9. Cardinality({j \in Key : MapOf(buckets, width)[j] # NONE}) >= MaxDepth
      BY <3>7, <3>8
    <3>10. ~Fits(buckets')
      BY <2>1, <2>4
    <3> QED BY <1>2, <3>9, <3>10, FMOverrun
  <2>5. CASE l # MaxDepth
    <3>1. Fits(buckets')
      BY <2>1, <2>5 DEF TableOK
    <3>2. \A j \in Key : Get(buckets', width', j) =
                            IF j = k THEN v ELSE Get(buckets, width, j)
      BY <2>1, <2>2
    <3> HIDE DEF l
    <3>3. MapOf(buckets', width') = [MapOf(buckets, width) EXCEPT ![k] = v]
      BY <1>2, <3>1, <3>2 DEF MapOf
    <3> QED BY <1>2, <3>1, <3>3, FMSet
  <2> QED BY <2>4, <2>5
<1> QED BY <1>3, <1>4, <1>5

LEMMA RemoveImplements ==
    ASSUME IInv, NEW k \in Key, RemoveKey(k)
    PROVE  FM!Next
<1>1. mode = "run" /\ width' = width
  BY DEF RemoveKey, Running
<1>2. Fits(buckets) /\ Fits(buckets')
  BY <1>1, TableNow, RemoveEffect DEF TableOK
<1>3. \A j \in Key : Get(buckets', width', j) =
                        IF j = k THEN NONE ELSE Get(buckets, width, j)
  BY <1>1, RemoveEffect
<1>4. MapOf(buckets', width') = [MapOf(buckets, width) EXCEPT ![k] = NONE]
  BY <1>2, <1>3 DEF MapOf
<1>5. MapOf(buckets, width)[k] # NONE
  <2>1. Lookup(k) \in Val
    BY RemoveEffect
  <2>2. MapOf(buckets, width)[k] = Lookup(k)
    BY <1>2, LookupIsGet DEF MapOf
  <2> QED BY <2>1, <2>2
<1> QED BY <1>2, <1>4, <1>5, FMRemove

LEMMA ReleaseImplements ==
    ASSUME IInv, Release
    PROVE  FM!Next \/ UNCHANGED FM!vars
<1>1. /\ mode = "run" /\ width' = width
      /\ buckets' = IF refs = 1 THEN NoItems(width) ELSE buckets
  BY DEF Release, Running
<1>2. Fits(buckets) /\ width \in Nat \ {0}
  BY <1>1, TableNow
<1>3. CASE refs = 1
  <2> DEFINE bs == NoItems(width)
  <2>1. bs \in Tables(width) /\ \A b \in 0 .. width - 1 : bs[b] = <<>>
    BY <1>2, EmptyTable
  <2> HIDE DEF bs
  <2>2. Len(<<>>) <= MaxDepth /\ Len(<<>>) = 0 /\ <<>> \in Seq(Entry)
    OBVIOUS
  <2>3. Fits(bs)
    BY <2>1, <2>2 DEF Fits, Tables
  <2>4. ASSUME NEW k \in Key PROVE Get(bs, width, k) = NONE
    <3>1. bs[Hash[k] % width] = <<>>
      BY <1>2, <2>1, HashType
    <3> DEFINE i == Position(k, <<>>)
    <3>2. i \in 0 .. Len(<<>>)
      BY <2>2, PositionFacts
    <3>3. i \in 0 .. 0
      BY <2>2, <3>2
    <3> HIDE DEF i
    <3>4. i = 0
      BY <3>3
    <3> QED BY <3>1, <3>4 DEF Get, i
  <2>5. MapOf(bs, width) = [k \in Key |-> NONE]
    BY <2>3, <2>4 DEF MapOf
  <2>6. buckets' = bs
    BY <1>1, <1>3 DEF bs
  <2> QED BY <1>1, <1>2, <2>3, <2>5, <2>6, FMFree
<1>4. CASE refs # 1
  <2>1. buckets' = buckets
    BY <1>1, <1>4
  <2> QED BY <1>1, <2>1, FMVars
<1> QED BY <1>3, <1>4

LEMMA RehashImplements ==
    ASSUME IInv, NEW n \in 1 .. MaxWidth, Rehash(n)
    PROVE  UNCHANGED FM!vars
<1> DEFINE bs == Rehashed(n)
<1>1. mode = "run" /\ Fits(bs) /\ width' = n /\ buckets' = bs
  BY DEF Rehash, Running
<1>2. Fits(buckets) /\ n \in Nat \ {0}
  BY <1>1, TableNow
<1>3. \A k \in Key : Get(bs, n, k) = Get(buckets, width, k)
  BY <1>1, <1>2, RehashEffect
<1> HIDE DEF bs
<1>4. MapOf(bs, n) = MapOf(buckets, width)
  BY <1>1, <1>2, <1>3 DEF MapOf
<1> QED BY <1>1, <1>2, <1>4, FMVars

LEMMA InitImplements ==
    ASSUME Init
    PROVE  FM!Init
<1>1. width = InitWidth /\ buckets = NoItems(InitWidth) /\ mode = "run"
  BY DEF Init
<1>2. IInv
  BY InitHolds
<1>3. Fits(buckets) /\ width \in Nat \ {0} /\ Sound(buckets, width)
  BY <1>1, <1>2, TableNow
<1>4. \A X : Cardinality(Marks(buckets, X)) = 0
  BY <1>1, <1>3, EmptyTable
<1>5. MapOf(buckets, width) = [k \in Key |-> NONE]
  BY <1>3, <1>4, GetMeans DEF MapOf
<1> QED BY <1>3, <1>5, FMIs DEF FM!Init

LEMMA StepImplements ==
    ASSUME IInv, [Next]_vars
    PROVE  [FM!Next]_(FM!vars)
<1>1. ASSUME NEW k \in Key, NEW v \in Val, SetOld(k, v) \/ SetNew(k, v) \/ SetGrown(k, v)
      PROVE  FM!Next
  BY <1>1, SetImplements
<1>2. ASSUME NEW k \in Key, RemoveKey(k) PROVE FM!Next
  BY <1>2, RemoveImplements
<1>3. ASSUME NEW n \in 1 .. MaxWidth, Rehash(n) PROVE UNCHANGED FM!vars
  BY <1>3, RehashImplements
<1>4. ASSUME UNCHANGED <<width, buckets>> PROVE UNCHANGED FM!vars
  BY <1>4, FMVars
<1>5. ASSUME Claim PROVE UNCHANGED <<width, buckets>>
  BY <1>5 DEF Claim, table
<1>6. ASSUME UNCHANGED <<table, owners, blocks, spoilt, drifted>>
      PROVE  UNCHANGED <<width, buckets>>
  BY <1>6 DEF table
<1> QED BY <1>1, <1>2, <1>3, <1>4, <1>5, <1>6, ReleaseImplements, NextIsSteps

(* method_map.c is a function from names to runnables, whatever mm_hash    *)
(* computes: its searches, growths, changes of place and owners cannot be  *)
(* seen from outside, up to a bucket that overruns, and that only a map of *)
(* MaxDepth names or more can have (method_map.c 54-225).                  *)
THEOREM TableImplementsMap == Spec => Implements
<1>1. Init => IInv /\ FM!Init
  BY InitHolds, InitImplements
<1>2. IInv /\ [Next]_vars => IInv'
  BY StepKeeps
<1>3. IInv /\ [Next]_vars => [FM!Next]_(FM!vars)
  BY StepImplements
<1> QED BY <1>1, <1>2, <1>3, PTL DEF Spec, Implements, FM!Spec

=============================================================================
