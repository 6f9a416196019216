-------------------------- MODULE DataStackProofs --------------------------
(***************************************************************************)
(* The reference counts of data_stack.c are exact, for any number of       *)
(* stacks, nodes and objects and whichever calls fail, and what they       *)
(* protect implements independent sequences of values.                     *)
(***************************************************************************)
EXTENDS DataStack, TLAPS, FiniteSetTheorems, SequenceTheorems

(* When a function changes at one argument only, how many times it takes   *)
(* the value v changes by what was there and by what is there now.         *)
LEMMA CountUpdate ==
    ASSUME NEW D, IsFiniteSet(D), NEW f, DOMAIN f = D, NEW g, DOMAIN g = D,
           NEW x \in D, NEW v,
           \A y \in D : y # x => g[y] = f[y]
    PROVE  /\ Count(f, v) \in Nat
           /\ Count(g, v) = Count(f, v) - Hit(f[x], v)
                                        + Hit(g[x], v)
<1> DEFINE F == {y \in D : f[y] = v}
           G == {y \in D : g[y] = v}
           C == F \ {x}
<1>1. IsFiniteSet(F) /\ IsFiniteSet(C)
  BY FS_Subset
<1>2. Cardinality(F) \in Nat /\ Cardinality(C) \in Nat
  BY <1>1, FS_CardinalityType
<1>3. Cardinality(F) = Cardinality(C) + Hit(f[x], v)
  <2>1. CASE f[x] = v
    <3>1. F = C \cup {x} /\ x \notin C
      BY <2>1
    <3> QED BY <3>1, <1>1, <1>2, <2>1, FS_AddElement DEF Hit
  <2>2. CASE f[x] # v
    <3>1. F = C
      BY <2>2
    <3> QED BY <3>1, <1>2, <2>2 DEF Hit
  <2> QED BY <2>1, <2>2
<1>4. Cardinality(G) = Cardinality(C) + Hit(g[x], v)
  <2>1. CASE g[x] = v
    <3>1. G = C \cup {x} /\ x \notin C
      BY <2>1
    <3> QED BY <3>1, <1>1, <1>2, <2>1, FS_AddElement DEF Hit
  <2>2. CASE g[x] # v
    <3>1. G = C
      BY <2>2
    <3>2. Cardinality(G) = Cardinality(C)
      BY <3>1
    <3> QED BY <3>2, <1>2, <2>2 DEF Hit
  <2> QED BY <2>1, <2>2
<1>5. Count(f, v) = Cardinality(F) /\ Count(g, v) = Cardinality(G)
  BY DEF Count
<1> QED BY <1>2, <1>3, <1>4, <1>5 DEF Hit

(* A function that never takes the value v takes it zero times. *)
LEMMA CountNone ==
    ASSUME NEW f, NEW v, \A x \in DOMAIN f : f[x] # v
    PROVE  Count(f, v) = 0
BY FS_EmptySet DEF Count

(* A value that a function takes is counted. *)
LEMMA CountPositive ==
    ASSUME NEW D, IsFiniteSet(D), NEW R, NEW f \in [D -> R], NEW x \in D
    PROVE  Count(f, f[x]) > 0
<1> DEFINE F == {y \in D : f[y] = f[x]}
<1>1. IsFiniteSet(F)
  BY FS_Subset
<1>2. F # {}
  OBVIOUS
<1>3. Cardinality(F) \in Nat /\ Cardinality(F) # 0
  BY <1>1, <1>2, FS_EmptySet, FS_CardinalityType
<1>4. Count(f, f[x]) = Cardinality(F)
  BY DEF Count
<1> QED BY <1>3, <1>4

-----------------------------------------------------------------------------
(* What exact counts imply: whatever is pointed to is counted. *)

LEMMA CountsAreNat ==
    ASSUME TypeOK
    PROVE  /\ \A n \in Node : Count(head, n) \in Nat /\ Count(next, n) \in Nat
           /\ \A o \in Obj : Count(value, o) \in Nat
<1>1. ASSUME NEW D, IsFiniteSet(D), NEW R, NEW f \in [D -> R], NEW v
      PROVE  Count(f, v) \in Nat
  <2>1. {y \in D : f[y] = v} \in SUBSET D
    OBVIOUS
  <2> QED BY <1>1, <2>1, FS_Subset, FS_CardinalityType DEF Count
<1>2. ASSUME NEW n \in Node
      PROVE  Count(head, n) \in Nat /\ Count(next, n) \in Nat
  BY <1>1, NodeAssumption, StackAssumption DEF TypeOK
<1>3. ASSUME NEW o \in Obj
      PROVE  Count(value, o) \in Nat
  BY <1>1, NodeAssumption DEF TypeOK
<1> QED BY <1>2, <1>3

LEMMA PointedToIsCounted ==
    ASSUME IInv
    PROVE  /\ \A s \in Stack : head[s] # NULL => rc[head[s]] > 0
           /\ \A n \in Node : next[n] # NULL => rc[next[n]] > 0
           /\ pend # NULL => rc[pend] > 0
           /\ \A n \in Node : value[n] # NULL => orc[value[n]] > 0
<1> USE DEF IInv
<1>0. /\ \A n \in Node : Count(head, n) \in Nat /\ Count(next, n) \in Nat
      /\ \A o \in Obj : Count(value, o) \in Nat
  BY CountsAreNat
<1>1. ASSUME NEW n \in Node,
             Count(head, n) > 0 \/ Count(next, n) > 0 \/ pend = n
      PROVE  rc[n] > 0
  <2>1. rc[n] = Count(head, n) + Count(next, n)
                  + Hit(pend, n) + lostN[n]
    BY DEF NodeRefsExact
  <2>2. lostN[n] \in Nat
    BY DEF TypeOK
  <2> QED BY <1>0, <1>1, <2>1, <2>2 DEF Hit
<1>2. ASSUME NEW o \in Obj, Count(value, o) > 0
      PROVE  orc[o] > 0
  <2>1. orc[o] = held[o] + Count(value, o) + lostO[o]
    BY DEF ObjRefsExact
  <2>2. held[o] \in Nat /\ lostO[o] \in Nat
    BY DEF TypeOK
  <2> QED BY <1>0, <1>2, <2>1, <2>2
<1>3. ASSUME NEW s \in Stack, head[s] # NULL
      PROVE  rc[head[s]] > 0
  <2>1. head[s] \in Node
    BY <1>3 DEF TypeOK
  <2>2. Count(head, head[s]) > 0
    BY <2>1, CountPositive, StackAssumption DEF TypeOK
  <2> QED BY <1>1, <2>1, <2>2
<1>4. ASSUME NEW n \in Node, next[n] # NULL
      PROVE  rc[next[n]] > 0
  <2>1. next[n] \in Node
    BY <1>4 DEF TypeOK
  <2>2. Count(next, next[n]) > 0
    BY <2>1, CountPositive, NodeAssumption DEF TypeOK
  <2> QED BY <1>1, <2>1, <2>2
<1>5. ASSUME NEW n \in Node, value[n] # NULL
      PROVE  orc[value[n]] > 0
  <2>1. value[n] \in Obj
    BY <1>5 DEF TypeOK
  <2>2. Count(value, value[n]) > 0
    BY <2>1, CountPositive, NodeAssumption DEF TypeOK
  <2> QED BY <1>2, <2>1, <2>2
<1>6. ASSUME pend # NULL
      PROVE  rc[pend] > 0
  <2>1. pend \in Node
    BY <1>6 DEF TypeOK
  <2> QED BY <1>1, <2>1
<1> QED BY <1>3, <1>4, <1>5, <1>6

LEMMA InvImpliesNoDangling == IInv => NoDangling
<1> SUFFICES ASSUME IInv PROVE NoDangling
  OBVIOUS
<1>1. /\ \A s \in Stack : head[s] # NULL => rc[head[s]] > 0
      /\ \A n \in Node : next[n] # NULL => rc[next[n]] > 0
      /\ pend # NULL => rc[pend] > 0
      /\ \A n \in Node : value[n] # NULL => orc[value[n]] > 0
  BY PointedToIsCounted
<1>2. \A n \in Live : n \in Node /\ value[n] \in Obj
  BY DEF IInv, CellsMatchCounts, Live
<1> QED BY <1>1, <1>2, ObjAssumption DEF IInv, TypeOK, NoDangling, Live, Alive

-----------------------------------------------------------------------------
(* The invariant is inductive: one lemma per action that moves pointers.   *)

(* Initially nothing points anywhere, and no cell is in use. *)
LEMMA InitInv == Init => IInv
<1> SUFFICES ASSUME Init PROVE IInv
  OBVIOUS
<1>1. TypeOK
  <2>1. <<>> \in Seq(Node)
    BY EmptySeq
  <2> QED BY <2>1 DEF Init, TypeOK
<1>2. NodeRefsExact
  <2> SUFFICES ASSUME NEW n \in Node
               PROVE  rc[n] = Count(head, n) + Count(next, n)
                                + Hit(pend, n) + lostN[n]
    BY DEF NodeRefsExact
  <2>1. n # NULL
    BY NodeAssumption
  <2>2. Count(head, n) = 0
    BY <2>1, CountNone DEF Init
  <2>3. Count(next, n) = 0
    BY <2>1, CountNone DEF Init
  <2> QED BY <2>1, <2>2, <2>3 DEF Init, Hit
<1>3. ObjRefsExact
  <2> SUFFICES ASSUME NEW o \in Obj
               PROVE  orc[o] = held[o] + Count(value, o) + lostO[o]
    BY DEF ObjRefsExact
  <2>1. o # NULL
    BY ObjAssumption
  <2>2. Count(value, o) = 0
    BY <2>1, CountNone DEF Init
  <2> QED BY <2>2 DEF Init
<1>4. CellsMatchCounts /\ PathsHold /\ PathsLive
  BY DEF Init, CellsMatchCounts, PathsHold, PathsLive, Live
<1> QED BY <1>1, <1>2, <1>3, <1>4 DEF IInv

(* Callers' own claims move no pointer at all. *)
LEMMA CallersPreserveInv ==
    ASSUME IInv, NEW o \in Obj, NewObject(o) \/ Claim(o) \/ Release(o)
    PROVE  IInv'
<1> USE DEF IInv
<1>0. UNCHANGED <<head, next, value, rc, pend, lostN, lostO, path>>
  BY DEF NewObject, Claim, Release
<1>1. Count(value, o) \in Nat
  BY CountsAreNat
<1>2. /\ orc[o] \in Nat /\ held[o] \in Nat /\ lostO[o] \in Nat
      /\ orc[o] = held[o] + Count(value, o) + lostO[o]
  BY DEF TypeOK, ObjRefsExact
<1>3. /\ orc' = [orc EXCEPT ![o] = orc'[o]]
      /\ held' = [held EXCEPT ![o] = held'[o]]
      /\ orc'[o] \in Nat /\ held'[o] \in Nat
      /\ orc'[o] = held'[o] + Count(value, o) + lostO[o]
  <2>1. CASE NewObject(o)
    <3>1. orc' = [orc EXCEPT ![o] = 1] /\ held' = [held EXCEPT ![o] = 1]
      BY <2>1 DEF NewObject
    <3>2. orc'[o] = 1 /\ held'[o] = 1
      BY <3>1 DEF TypeOK
    <3>3. held[o] = 0 /\ orc[o] = 0
      BY <1>1, <1>2, <2>1 DEF NewObject
    <3>4. /\ orc'[o] \in Nat /\ held'[o] \in Nat
          /\ orc'[o] = held'[o] + Count(value, o) + lostO[o]
      BY <3>2, <3>3, <1>1, <1>2
    <3> QED BY <3>1, <3>2, <3>4
  <2>2. CASE Claim(o)
    <3>1. orc' = [orc EXCEPT ![o] = orc[o] + 1] /\ held' = [held EXCEPT ![o] = held[o] + 1]
      BY <2>2 DEF Claim
    <3>2. orc'[o] = orc[o] + 1 /\ held'[o] = held[o] + 1
      BY <3>1 DEF TypeOK
    <3>3. held[o] > 0
      BY <1>1, <1>2, <2>2 DEF Claim
    <3>4. /\ orc'[o] \in Nat /\ held'[o] \in Nat
          /\ orc'[o] = held'[o] + Count(value, o) + lostO[o]
      BY <3>2, <3>3, <1>1, <1>2
    <3> QED BY <3>1, <3>2, <3>4
  <2>3. CASE Release(o)
    <3>1. orc' = [orc EXCEPT ![o] = orc[o] - 1] /\ held' = [held EXCEPT ![o] = held[o] - 1]
      BY <2>3 DEF Release
    <3>2. orc'[o] = orc[o] - 1 /\ held'[o] = held[o] - 1
      BY <3>1 DEF TypeOK
    <3>3. held[o] > 0
      BY <1>1, <1>2, <2>3 DEF Release
    <3>4. /\ orc'[o] \in Nat /\ held'[o] \in Nat
          /\ orc'[o] = held'[o] + Count(value, o) + lostO[o]
      BY <3>2, <3>3, <1>1, <1>2
    <3> QED BY <3>1, <3>2, <3>4
  <2> QED BY <2>1, <2>2, <2>3
<1>4. TypeOK'
  BY <1>0, <1>3 DEF TypeOK
<1>5. NodeRefsExact' /\ CellsMatchCounts' /\ PathsHold' /\ PathsLive'
  BY <1>0 DEF NodeRefsExact, CellsMatchCounts, PathsHold,
         PathsLive, Live, PathAt
<1>6. ObjRefsExact'
  <2> SUFFICES ASSUME NEW p \in Obj
               PROVE  orc'[p] = held'[p] + Count(value, p) + lostO[p]
    BY <1>0 DEF ObjRefsExact
  <2>1. CASE p = o
    BY <2>1, <1>3
  <2>2. CASE p # o
    BY <2>2, <1>3 DEF TypeOK, ObjRefsExact
  <2> QED BY <2>1, <2>2
<1> QED BY <1>4, <1>5, <1>6

(* When no link of a node in use changes, its path does not either. *)
LEMMA PathsUntouched ==
    ASSUME PathsHold, PathsLive, UNCHANGED path, Live' = Live,
           \A m \in Live : next'[m] = next[m]
    PROVE  PathsHold' /\ PathsLive'
<1>1. PathsHold'
  BY DEF PathsHold, PathAt
<1>2. PathsLive'
  BY DEF PathsLive
<1> QED BY <1>1, <1>2

(* The same cells are in use when the same counts are zero. *)
LEMMA SameCellsLive ==
    ASSUME TypeOK, TypeOK', \A m \in Node : rc'[m] = 0 <=> rc[m] = 0
    PROVE  Live' = Live
<1>1. ASSUME NEW m \in Node
      PROVE  rc'[m] > 0 <=> rc[m] > 0
  <2>1. rc[m] \in Nat /\ rc'[m] \in Nat
    BY DEF TypeOK
  <2> QED BY <2>1
<1> QED BY <1>1 DEF Live

LEMMA CellsUntouched ==
    ASSUME TypeOK, TypeOK', CellsMatchCounts, UNCHANGED <<next, value>>,
           \A m \in Node : rc'[m] = 0 <=> rc[m] = 0
    PROVE  CellsMatchCounts'
<1>1. ASSUME NEW m \in Node
      PROVE  /\ rc'[m] = 0 => next'[m] = NULL /\ value'[m] = NULL
             /\ rc'[m] > 0 => value'[m] \in Obj
  <2>1. rc[m] \in Nat /\ rc'[m] \in Nat
    BY DEF TypeOK
  <2> QED BY <2>1 DEF CellsMatchCounts
<1> QED BY <1>1 DEF CellsMatchCounts

(* The counts of one node, before a step. *)
LEMMA NodeCount ==
    ASSUME IInv, NEW n \in Node
    PROVE  /\ rc[n] \in Nat /\ lostN[n] \in Nat
           /\ Count(head, n) \in Nat /\ Count(next, n) \in Nat
           /\ rc[n] = Count(head, n) + Count(next, n)
                         + Hit(pend, n) + lostN[n]
BY CountsAreNat DEF IInv, TypeOK, NodeRefsExact

LEMMA ObjCount ==
    ASSUME IInv, NEW o \in Obj
    PROVE  /\ orc[o] \in Nat /\ held[o] \in Nat /\ lostO[o] \in Nat
           /\ Count(value, o) \in Nat
           /\ orc[o] = held[o] + Count(value, o) + lostO[o]
BY CountsAreNat DEF IInv, TypeOK, ObjRefsExact

(* CountUpdate for each of the three fields that are counted. *)
LEMMA HeadCount ==
    ASSUME TypeOK, TypeOK', NEW x \in Stack, NEW v,
           \A y \in Stack : y # x => head'[y] = head[y]
    PROVE  Count(head', v) = Count(head, v) - Hit(head[x], v)
               + Hit(head'[x], v)
<1>1. /\ DOMAIN head = Stack /\ DOMAIN head' = Stack
      /\ IsFiniteSet(Stack)
  BY StackAssumption DEF TypeOK
<1> QED BY <1>1, CountUpdate

LEMMA NextCount ==
    ASSUME TypeOK, TypeOK', NEW x \in Node, NEW v,
           \A y \in Node : y # x => next'[y] = next[y]
    PROVE  Count(next', v) = Count(next, v) - Hit(next[x], v)
               + Hit(next'[x], v)
<1>1. /\ DOMAIN next = Node /\ DOMAIN next' = Node
      /\ IsFiniteSet(Node)
  BY NodeAssumption DEF TypeOK
<1> QED BY <1>1, CountUpdate

LEMMA ValueCount ==
    ASSUME TypeOK, TypeOK', NEW x \in Node, NEW v,
           \A y \in Node : y # x => value'[y] = value[y]
    PROVE  Count(value', v) = Count(value, v) - Hit(value[x], v)
               + Hit(value'[x], v)
<1>1. /\ DOMAIN value = Node /\ DOMAIN value' = Node
      /\ IsFiniteSet(Node)
  BY NodeAssumption DEF TypeOK
<1> QED BY <1>1, CountUpdate

(* dst_push links a cell nobody pointed to in front of the old head. *)
LEMMA PushPreservesInv ==
    ASSUME IInv, NEW s \in Stack, NEW o \in Obj, Push(s, o)
    PROVE  IInv'
<1>p. PICK n \in Node \ Live :
          /\ next' = [next EXCEPT ![n] = head[s]]
          /\ value' = [value EXCEPT ![n] = o]
          /\ rc' = [rc EXCEPT ![n] = 1]
          /\ head' = [head EXCEPT ![s] = n]
          /\ path' = [path EXCEPT ![n] = <<n>> \o PathAt(head[s])]
  BY DEF Push
<1> DEFINE h == head[s]
<1>0. /\ orc' = [orc EXCEPT ![o] = @ + 1]
      /\ pend = NULL /\ UNCHANGED <<pend, held, lostN, lostO>>
  BY DEF Push, Idle
<1>1. /\ n \in Node /\ n # NULL /\ rc[n] = 0
      /\ next[n] = NULL /\ value[n] = NULL
  BY <1>p, NodeAssumption DEF IInv, TypeOK, CellsMatchCounts, Live
<1>2. /\ h \in Node \cup {NULL} /\ h # n
      /\ h # NULL => rc[h] > 0
  BY <1>1, PointedToIsCounted DEF IInv, TypeOK
<1>3. \A m \in Node : next[m] # n
  BY <1>1, PointedToIsCounted
<1>4. TypeOK'
  <2>1. PathAt(h) \in Seq(Node) /\ <<n>> \o PathAt(h) \in Seq(Node)
    BY <1>1, <1>2 DEF IInv, TypeOK, PathAt
  <2> QED BY <2>1, <1>p, <1>0, <1>1, <1>2 DEF IInv, TypeOK
<1>5. NodeRefsExact'
  <2>1. ASSUME NEW m \in Node
        PROVE  rc'[m] = Count(head', m) + Count(next', m)
                          + Hit(pend', m) + lostN'[m]
    <3>1. Count(head', m) = Count(head, m) - Hit(h, m)
                              + Hit(n, m)
      <4>1. head'[s] = n /\ \A t \in Stack : t # s => head'[t] = head[t]
        BY <1>p DEF IInv, TypeOK
      <4> QED BY <4>1, <1>4, HeadCount DEF IInv
    <3>2. Count(next', m) = Count(next, m) - Hit(next[n], m)
                              + Hit(h, m)
      <4>1. next'[n] = h /\ \A k \in Node : k # n => next'[k] = next[k]
        BY <1>p DEF IInv, TypeOK
      <4> QED BY <4>1, <1>1, <1>4, NextCount DEF IInv
    <3>3. rc'[m] = (IF n = m THEN 1 ELSE rc[m])
      BY <1>p, <1>1 DEF IInv, TypeOK
    <3>4. m # NULL
      BY NodeAssumption
    <3>5. /\ rc[m] \in Nat /\ lostN[m] \in Nat
          /\ Count(head, m) \in Nat /\ Count(next, m) \in Nat
          /\ rc[m] = Count(head, m) + Count(next, m) + Hit(pend, m) + lostN[m]
      BY NodeCount DEF Hit
    <3>6. pend = NULL /\ pend' = NULL /\ lostN' = lostN
      BY <1>0
    <3> QED BY <1>1, <1>2, <3>1, <3>2, <3>3, <3>4, <3>5, <3>6 DEF Hit
  <2> QED BY <2>1 DEF NodeRefsExact
<1>6. ObjRefsExact'
  <2>1. ASSUME NEW p \in Obj
        PROVE  orc'[p] = held[p] + Count(value', p) + lostO[p]
    <3>1. Count(value', p) = Count(value, p) - Hit(value[n], p)
                               + Hit(o, p)
      <4>1. value'[n] = o /\ \A k \in Node : k # n => value'[k] = value[k]
        BY <1>p DEF IInv, TypeOK
      <4> QED BY <4>1, <1>1, <1>4, ValueCount DEF IInv
    <3>2. orc'[p] = (IF o = p THEN orc[p] + 1 ELSE orc[p])
      BY <1>0 DEF IInv, TypeOK
    <3>3. p # NULL
      BY ObjAssumption
    <3>4. /\ orc[p] \in Nat /\ held[p] \in Nat /\ lostO[p] \in Nat
          /\ Count(value, p) \in Nat
          /\ orc[p] = held[p] + Count(value, p) + lostO[p]
      BY ObjCount
    <3> QED BY <1>1, <3>1, <3>2, <3>3, <3>4 DEF Hit
  <2> QED BY <2>1, <1>0 DEF ObjRefsExact
<1>7. CellsMatchCounts'
  BY <1>p, <1>1 DEF IInv, TypeOK, CellsMatchCounts
<1>8. /\ Live' = Live \cup {n} /\ n \notin Live
      /\ next'[n] = h /\ path'[n] = <<n>> \o PathAt(h)
  BY <1>p, <1>1 DEF IInv, TypeOK, Live
<1>9. \A m \in Live : next'[m] = next[m] /\ path'[m] = path[m]
  BY <1>p, <1>1 DEF IInv, TypeOK, Live
<1>10. h # NULL => h \in Live /\ path'[h] = path[h]
  BY <1>2, <1>9 DEF Live
<1>11. PathsHold'
  <2>1. ASSUME NEW m \in Live
        PROVE  path'[m] = <<m>> \o PathAt(next[m])'
    <3>0. next'[m] = next[m] /\ next[m] \in Node \cup {NULL}
      BY <1>9 DEF IInv, TypeOK, Live
    <3>1. PathAt(next[m])' = PathAt(next[m])
      <4>1. CASE next[m] = NULL
        BY <3>0, <4>1 DEF PathAt
      <4>2. CASE next[m] # NULL
        <5>1. next[m] \in Live
          BY <3>0, <4>2, PointedToIsCounted DEF Live
        <5> QED BY <3>0, <4>2, <5>1, <1>9 DEF PathAt
      <4> QED BY <4>1, <4>2
    <3> QED BY <3>1, <1>9 DEF IInv, PathsHold
  <2>2. path'[n] = <<n>> \o PathAt(next[n])'
    BY <1>8, <1>10 DEF PathAt
  <2> QED BY <2>1, <2>2, <1>8 DEF PathsHold
<1>12. PathsLive'
  <2>1. ASSUME NEW m \in Live, NEW i \in DOMAIN path'[m]
        PROVE  /\ path'[m][i] \in Live'
               /\ i + 1 \in DOMAIN path'[m] => next'[path'[m][i]] = path'[m][i + 1]
    <3>1. path'[m] = path[m] /\ i \in DOMAIN path[m]
      BY <1>9
    <3>2. /\ path[m][i] \in Live
          /\ i + 1 \in DOMAIN path[m] => next[path[m][i]] = path[m][i + 1]
      BY <3>1 DEF IInv, PathsLive
    <3>3. next'[path[m][i]] = next[path[m][i]] /\ path[m][i] \in Live'
      BY <3>2, <1>8, <1>9
    <3> QED BY <3>1, <3>2, <3>3
  <2>2. ASSUME NEW i \in DOMAIN path'[n]
        PROVE  /\ path'[n][i] \in Live'
               /\ i + 1 \in DOMAIN path'[n] => next'[path'[n][i]] = path'[n][i + 1]
    <3> DEFINE q == PathAt(h)
    <3>1. /\ q \in Seq(Node) /\ DOMAIN path'[n] = 1 .. Len(q) + 1
          /\ path'[n][1] = n
          /\ \A j \in 2 .. Len(q) + 1 : path'[n][j] = q[j - 1]
      BY <1>1, <1>2, <1>8 DEF IInv, TypeOK, PathAt
    <3>2. Len(q) > 0 => h # NULL /\ q = path[h] /\ q[1] = h
      <4>1. CASE h = NULL
        BY <4>1 DEF PathAt
      <4>2. CASE h # NULL
        <5>1. q = <<h>> \o PathAt(next[h]) /\ q = path[h]
          BY <4>2, <1>10 DEF PathAt, IInv, PathsHold
        <5>2. PathAt(next[h]) \in Seq(Node)
          BY <4>2, <1>2 DEF IInv, TypeOK, PathAt
        <5> QED BY <4>2, <5>1, <5>2
      <4> QED BY <4>1, <4>2
    <3>3. \A j \in 1 .. Len(q) :
             /\ q[j] \in Live
             /\ j + 1 \in 1 .. Len(q) => next[q[j]] = q[j + 1]
      <4>1. SUFFICES ASSUME Len(q) > 0
                     PROVE  \A j \in 1 .. Len(q) :
                               /\ q[j] \in Live
                               /\ j + 1 \in 1 .. Len(q) => next[q[j]] = q[j + 1]
        BY <3>1
      <4>2. h \in Live /\ q = path[h] /\ DOMAIN path[h] = 1 .. Len(q)
        BY <4>1, <3>1, <3>2, <1>10
      <4> QED BY <4>2 DEF IInv, PathsLive
    <3>4. CASE i = 1
      BY <3>1, <3>2, <3>4, <1>8
    <3>5. CASE i # 1
      <4>1. i \in 2 .. Len(q) + 1 /\ i - 1 \in 1 .. Len(q)
        BY <3>1, <3>5
      <4>2. path'[n][i] = q[i - 1] /\ q[i - 1] \in Live
        BY <4>1, <3>1, <3>3
      <4>3. ASSUME i + 1 \in DOMAIN path'[n]
            PROVE  next'[path'[n][i]] = path'[n][i + 1]
        <5>1. i + 1 \in 2 .. Len(q) + 1 /\ (i - 1) + 1 \in 1 .. Len(q)
          BY <4>1, <4>3, <3>1
        <5>2. path'[n][i + 1] = q[i] /\ next[q[i - 1]] = q[i]
          BY <4>1, <5>1, <3>1, <3>3
        <5> QED BY <4>2, <5>2, <1>9
      <4> QED BY <4>2, <4>3, <1>8
    <3> QED BY <3>4, <3>5
  <2> QED BY <2>1, <2>2, <1>8 DEF PathsLive
<1> QED BY <1>4, <1>5, <1>6, <1>7, <1>11, <1>12 DEF IInv

(* dst_push that fails after its claim is a claim that nobody owns. *)
LEMMA PushNoMemoryPreservesInv ==
    ASSUME IInv, NEW s \in Stack, NEW o \in Obj, PushNoMemory(s, o)
    PROVE  IInv'
<1>0. /\ orc' = [orc EXCEPT ![o] = @ + 1]
      /\ lostO' = [lostO EXCEPT ![o] = @ + 1]
      /\ UNCHANGED <<head, next, value, rc, pend, held, lostN, path>>
  BY DEF PushNoMemory
<1>1. TypeOK'
  BY <1>0 DEF IInv, TypeOK
<1>2. NodeRefsExact' /\ CellsMatchCounts' /\ PathsHold' /\ PathsLive'
  BY <1>0 DEF IInv, NodeRefsExact, CellsMatchCounts, PathsHold,
         PathsLive, Live, PathAt
<1>3. ASSUME NEW p \in Obj
      PROVE  orc'[p] = held'[p] + Count(value', p) + lostO'[p]
  <2>1. /\ orc'[p] = orc[p] + Hit(o, p)
        /\ lostO'[p] = lostO[p] + Hit(o, p)
    BY <1>0 DEF IInv, TypeOK, Hit
  <2>2. held' = held /\ value' = value
    BY <1>0
  <2>3. /\ orc[p] \in Nat /\ held[p] \in Nat /\ lostO[p] \in Nat
        /\ Count(value, p) \in Nat
        /\ orc[p] = held[p] + Count(value, p) + lostO[p]
    BY ObjCount
  <2> QED BY <2>1, <2>2, <2>3 DEF Hit
<1> QED BY <1>1, <1>2, <1>3 DEF IInv, ObjRefsExact

(* dst_pop hands the claim on the old head to dst_node_free, which runs on *)
(* with it as its cursor, and takes a claim on the next node instead.      *)
LEMMA PopPreservesInv ==
    ASSUME IInv, NEW s \in Stack, Pop(s)
    PROVE  IInv'
<1> DEFINE h == head[s]
           nx == next[h]
           o == value[h]
<1>0. /\ rc' = Claimed(nx)
      /\ orc' = [orc EXCEPT ![o] = @ + 1]
      /\ held' = [held EXCEPT ![o] = @ + 1]
      /\ head' = [head EXCEPT ![s] = nx]
      /\ pend = NULL /\ pend' = h
      /\ UNCHANGED <<next, value, lostN, lostO, path>>
  BY DEF Pop, Idle
<1>1. h \in Node /\ rc[h] > 0 /\ h # NULL
  BY PointedToIsCounted, NodeAssumption DEF Pop, IInv, TypeOK
<1>2. nx \in Node \cup {NULL} /\ o \in Obj /\ (nx # NULL => rc[nx] > 0)
  BY <1>1, PointedToIsCounted DEF IInv, TypeOK, CellsMatchCounts
<1>3. \A m \in Node : rc'[m] = rc[m] + Hit(nx, m)
  BY <1>0 DEF IInv, TypeOK, Claimed, Hit
<1>4. TypeOK'
  <2>1. rc' \in [Node -> Nat]
    BY <1>0 DEF IInv, TypeOK, Claimed
  <2> QED BY <2>1, <1>0, <1>1, <1>2 DEF IInv, TypeOK
<1>5. NodeRefsExact'
  <2>1. ASSUME NEW m \in Node
        PROVE  rc'[m] = Count(head', m) + Count(next', m)
                          + Hit(pend', m) + lostN'[m]
    <3>1. Count(head', m) = Count(head, m) - Hit(h, m) + Hit(nx, m)
      <4>1. head'[s] = nx /\ \A t \in Stack : t # s => head'[t] = head[t]
        BY <1>0 DEF IInv, TypeOK
      <4> QED BY <4>1, <1>4, HeadCount DEF IInv
    <3>2. next' = next /\ lostN' = lostN /\ pend' = h
      BY <1>0
    <3>3. Hit(pend, m) = 0
      BY <1>0, NodeAssumption DEF Hit
    <3>4. rc'[m] = rc[m] + Hit(nx, m)
      BY <1>3
    <3>5. /\ rc[m] \in Nat /\ lostN[m] \in Nat
          /\ Count(head, m) \in Nat /\ Count(next, m) \in Nat
          /\ rc[m] = Count(head, m) + Count(next, m) + Hit(pend, m) + lostN[m]
      BY NodeCount
    <3> QED BY <3>1, <3>2, <3>3, <3>4, <3>5 DEF Hit
  <2> QED BY <2>1 DEF NodeRefsExact
<1>6. ObjRefsExact'
  <2>1. ASSUME NEW p \in Obj
        PROVE  orc'[p] = held'[p] + Count(value', p) + lostO'[p]
    <3>1. orc'[p] - orc[p] = held'[p] - held[p]
      BY <1>0, <1>2 DEF IInv, TypeOK
    <3>2. value' = value /\ lostO' = lostO /\ orc'[p] \in Nat /\ held'[p] \in Nat
      BY <1>0, <1>4 DEF TypeOK
    <3>3. /\ orc[p] \in Nat /\ held[p] \in Nat /\ lostO[p] \in Nat
          /\ Count(value, p) \in Nat
          /\ orc[p] = held[p] + Count(value, p) + lostO[p]
      BY ObjCount
    <3> QED BY <3>1, <3>2, <3>3
  <2> QED BY <2>1 DEF ObjRefsExact
<1>7. ASSUME NEW m \in Node
      PROVE  rc'[m] = 0 <=> rc[m] = 0
  <2>1. rc[m] \in Nat /\ m # NULL
    BY NodeAssumption DEF IInv, TypeOK
  <2>2. rc'[m] = rc[m] + Hit(nx, m)
    BY <1>2, <1>3
  <2> QED BY <1>2, <2>1, <2>2 DEF Hit
<1>8. CellsMatchCounts'
  BY <1>0, <1>4, <1>7, CellsUntouched DEF IInv
<1>9. PathsHold' /\ PathsLive'
  <2>1. Live' = Live
    BY <1>4, <1>7, SameCellsLive DEF IInv
  <2>2. PathsHold /\ PathsLive /\ next' = next /\ path' = path
    BY <1>0 DEF IInv
  <2> QED BY <2>1, <2>2, PathsUntouched
<1> QED BY <1>4, <1>5, <1>6, <1>8, <1>9 DEF IInv

(* dst_pop that fails leaves a claim on the next node that nobody owns. *)
LEMMA PopClaimFailPreservesInv ==
    ASSUME IInv, NEW s \in Stack, PopClaimFail(s)
    PROVE  IInv'
<1> DEFINE nx == next[head[s]]
<1>0. /\ rc' = Claimed(nx)
      /\ lostN' = [lostN EXCEPT ![nx] = @ + 1]
      /\ nx # NULL
      /\ UNCHANGED <<head, next, value, orc, pend, held, lostO, path>>
  BY DEF PopClaimFail
<1>1. nx \in Node /\ rc[nx] > 0
  <2>1. head[s] \in Node
    BY DEF PopClaimFail, IInv, TypeOK
  <2>2. next[head[s]] \in Node /\ rc[next[head[s]]] > 0
    BY <2>1, <1>0, PointedToIsCounted DEF IInv, TypeOK
  <2> QED BY <2>2
<1>2. \A m \in Node : /\ rc'[m] = rc[m] + Hit(nx, m)
                      /\ lostN'[m] = lostN[m] + Hit(nx, m)
  <2>1. ASSUME NEW m \in Node
        PROVE  rc'[m] = rc[m] + Hit(nx, m)
    <3>1. rc[m] \in Nat
      BY DEF IInv, TypeOK
    <3> QED BY <3>1, <1>0 DEF Claimed, Hit
  <2>2. ASSUME NEW m \in Node
        PROVE  lostN'[m] = lostN[m] + Hit(nx, m)
    <3>1. lostN[m] \in Nat /\ DOMAIN lostN = Node
      BY DEF IInv, TypeOK
    <3> QED BY <3>1, <1>0 DEF Hit
  <2> QED BY <2>1, <2>2
<1>3. TypeOK'
  <2>0. rc \in [Node -> Nat] /\ lostN \in [Node -> Nat]
    BY DEF IInv, TypeOK
  <2>1. rc' \in [Node -> Nat]
    BY <1>0, <2>0 DEF Claimed
  <2>2. lostN' \in [Node -> Nat]
    BY <1>0, <1>1, <2>0
  <2>3. UNCHANGED <<head, next, value, orc, pend, held, lostO, path>>
    BY <1>0
  <2> QED BY <2>1, <2>2, <2>3 DEF IInv, TypeOK
<1>4. ASSUME NEW m \in Node
      PROVE  rc'[m] = Count(head', m) + Count(next', m)
                        + Hit(pend', m) + lostN'[m]
  <2>1. head' = head /\ next' = next /\ pend' = pend
    BY <1>0
  <2>2. /\ rc[m] \in Nat /\ lostN[m] \in Nat
        /\ Count(head, m) \in Nat /\ Count(next, m) \in Nat
        /\ rc[m] = Count(head, m) + Count(next, m) + Hit(pend, m) + lostN[m]
    BY NodeCount
  <2>3. rc'[m] = rc[m] + Hit(nx, m) /\ lostN'[m] = lostN[m] + Hit(nx, m)
    BY <1>2
  <2> QED BY <2>1, <2>2, <2>3 DEF Hit
<1>5. ObjRefsExact'
  BY <1>0 DEF IInv, ObjRefsExact
<1>6. ASSUME NEW m \in Node
      PROVE  rc'[m] = 0 <=> rc[m] = 0
  <2>1. rc[m] \in Nat /\ m # NULL
    BY NodeAssumption DEF IInv, TypeOK
  <2>2. rc'[m] = rc[m] + Hit(nx, m)
    BY <1>1, <1>2
  <2> QED BY <1>1, <2>1, <2>2 DEF Hit
<1>7. CellsMatchCounts'
  BY <1>0, <1>3, <1>6, CellsUntouched DEF IInv
<1>8. PathsHold' /\ PathsLive'
  <2>1. Live' = Live
    BY <1>3, <1>6, SameCellsLive DEF IInv
  <2>2. PathsHold /\ PathsLive /\ next' = next /\ path' = path
    BY <1>0 DEF IInv
  <2> QED BY <2>1, <2>2, PathsUntouched
<1> QED BY <1>3, <1>4, <1>5, <1>7, <1>8 DEF IInv, NodeRefsExact

(* dst_copy adds one pointer to the head, and one to its count. *)
LEMMA CopyPreservesInv ==
    ASSUME IInv, NEW s \in Stack, NEW t \in Stack, Copy(s, t)
    PROVE  IInv'
<1> DEFINE h == head[s]
<1>0. /\ rc' = Claimed(h)
      /\ head' = [head EXCEPT ![t] = h]
      /\ head[t] = NULL
      /\ UNCHANGED <<next, value, orc, pend, held, lostN, lostO, path>>
  BY DEF Copy
<1>1. h \in Node \cup {NULL} /\ (h # NULL => rc[h] > 0)
  BY PointedToIsCounted DEF IInv, TypeOK
<1>2. \A m \in Node : rc'[m] = rc[m] + Hit(h, m)
  BY <1>0 DEF IInv, TypeOK, Claimed, Hit
<1>3. TypeOK'
  <2>1. rc' \in [Node -> Nat]
    BY <1>0 DEF IInv, TypeOK, Claimed
  <2> QED BY <2>1, <1>0, <1>1 DEF IInv, TypeOK
<1>4. ASSUME NEW m \in Node
      PROVE  rc'[m] = Count(head', m) + Count(next', m)
                        + Hit(pend', m) + lostN'[m]
  <2>1. Count(head', m) = Count(head, m) - Hit(NULL, m) + Hit(h, m)
    <3>1. head'[t] = h /\ \A u \in Stack : u # t => head'[u] = head[u]
      BY <1>0 DEF IInv, TypeOK
    <3> QED BY <3>1, <1>0, <1>3, HeadCount DEF IInv
  <2>2. next' = next /\ lostN' = lostN /\ pend' = pend
    BY <1>0
  <2>3. rc'[m] = rc[m] + Hit(h, m) /\ m # NULL
    BY <1>2, NodeAssumption
  <2>4. /\ rc[m] \in Nat /\ lostN[m] \in Nat
        /\ Count(head, m) \in Nat /\ Count(next, m) \in Nat
        /\ rc[m] = Count(head, m) + Count(next, m) + Hit(pend, m) + lostN[m]
    BY NodeCount
  <2> QED BY <2>1, <2>2, <2>3, <2>4 DEF Hit
<1>5. ObjRefsExact'
  BY <1>0 DEF IInv, ObjRefsExact
<1>6. ASSUME NEW m \in Node
      PROVE  rc'[m] = 0 <=> rc[m] = 0
  <2>1. rc[m] \in Nat /\ m # NULL
    BY NodeAssumption DEF IInv, TypeOK
  <2>2. rc'[m] = rc[m] + Hit(h, m)
    BY <1>2
  <2> QED BY <1>1, <2>1, <2>2 DEF Hit
<1>7. CellsMatchCounts'
  BY <1>0, <1>3, <1>6, CellsUntouched DEF IInv
<1>8. PathsHold' /\ PathsLive'
  <2>1. Live' = Live
    BY <1>3, <1>6, SameCellsLive DEF IInv
  <2>2. PathsHold /\ PathsLive /\ next' = next /\ path' = path
    BY <1>0 DEF IInv
  <2> QED BY <2>1, <2>2, PathsUntouched
<1> QED BY <1>3, <1>4, <1>5, <1>7, <1>8 DEF IInv, NodeRefsExact

(* dst_free hands the claim of the stack to the loop of dst_node_free. *)
LEMMA FreePreservesInv ==
    ASSUME IInv, NEW s \in Stack, Free(s)
    PROVE  IInv'
<1> DEFINE h == head[s]
<1>0. /\ h # NULL /\ pend = NULL /\ pend' = h
      /\ head' = [head EXCEPT ![s] = NULL]
      /\ UNCHANGED <<next, value, rc, orc, held, lostN, lostO, path>>
  BY DEF Free, Idle
<1>1. h \in Node
  BY <1>0 DEF IInv, TypeOK
<1>2. TypeOK'
  BY <1>0, <1>1 DEF IInv, TypeOK
<1>3. ASSUME NEW m \in Node
      PROVE  rc'[m] = Count(head', m) + Count(next', m)
                        + Hit(pend', m) + lostN'[m]
  <2>1. Count(head', m) = Count(head, m) - Hit(h, m) + Hit(NULL, m)
    <3>1. head'[s] = NULL /\ \A u \in Stack : u # s => head'[u] = head[u]
      BY <1>0 DEF IInv, TypeOK
    <3> QED BY <3>1, <1>2, HeadCount DEF IInv
  <2>2. next' = next /\ lostN' = lostN /\ rc' = rc /\ pend = NULL /\ pend' = h
    BY <1>0
  <2>3. m # NULL
    BY NodeAssumption
  <2>4. /\ rc[m] \in Nat /\ lostN[m] \in Nat
        /\ Count(head, m) \in Nat /\ Count(next, m) \in Nat
        /\ rc[m] = Count(head, m) + Count(next, m) + Hit(pend, m) + lostN[m]
    BY NodeCount
  <2> QED BY <2>1, <2>2, <2>3, <2>4 DEF Hit
<1>4. ObjRefsExact' /\ CellsMatchCounts' /\ PathsHold' /\ PathsLive'
  BY <1>0 DEF IInv, ObjRefsExact, CellsMatchCounts, PathsHold,
         PathsLive, Live, PathAt
<1> QED BY <1>2, <1>3, <1>4 DEF IInv, NodeRefsExact

(* A node is freed when the cursor is all that points to it; the cursor    *)
(* takes over the claim it had on the next one.                            *)
LEMMA FreeNodePreservesInv ==
    ASSUME IInv, FreeNode
    PROVE  IInv'
<1> DEFINE n == pend
           nx == next[n]
           o == value[n]
<1>0. /\ n # NULL /\ rc[n] = 1
      /\ rc' = [rc EXCEPT ![n] = 0]
      /\ orc' = [orc EXCEPT ![o] = @ - 1]
      /\ pend' = nx
      /\ next' = [next EXCEPT ![n] = NULL]
      /\ value' = [value EXCEPT ![n] = NULL]
      /\ UNCHANGED <<head, held, lostN, lostO, path>>
  BY DEF FreeNode
<1>1. n \in Node /\ nx \in Node \cup {NULL} /\ o \in Obj
  BY <1>0 DEF IInv, TypeOK, CellsMatchCounts
<1>2. orc[o] > 0
  BY <1>1, ObjAssumption, PointedToIsCounted
<1>3. TypeOK'
  <2>1. orc[o] - 1 \in Nat
    BY <1>1, <1>2 DEF IInv, TypeOK
  <2> QED BY <2>1, <1>0, <1>1 DEF IInv, TypeOK
<1>4. \A m \in Node : next[m] # n
  <2>1. SUFFICES ASSUME NEW m \in Node, next[m] = n PROVE FALSE
    OBVIOUS
  <2>2. Count(next, n) > 0
    BY <2>1, CountPositive, NodeAssumption DEF IInv, TypeOK
  <2>3. Hit(pend, n) = 1
    BY DEF Hit
  <2>4. /\ rc[n] \in Nat /\ lostN[n] \in Nat
        /\ Count(head, n) \in Nat /\ Count(next, n) \in Nat
        /\ rc[n] = Count(head, n) + Count(next, n) + Hit(n, n) + lostN[n]
    BY <1>1, NodeCount
  <2> QED BY <1>0, <2>2, <2>3, <2>4
<1>5. ASSUME NEW m \in Node
      PROVE  rc'[m] = Count(head', m) + Count(next', m)
                        + Hit(pend', m) + lostN'[m]
  <2>1. Count(next', m) = Count(next, m) - Hit(nx, m) + Hit(NULL, m)
    <3>1. next'[n] = NULL /\ \A k \in Node : k # n => next'[k] = next[k]
      BY <1>0, <1>1 DEF IInv, TypeOK
    <3> QED BY <3>1, <1>1, <1>3, NextCount DEF IInv
  <2>2. head' = head /\ lostN' = lostN /\ pend' = nx
    BY <1>0
  <2>3. m # NULL /\ rc'[m] = (IF n = m THEN 0 ELSE rc[m])
    BY <1>0, <1>1, NodeAssumption DEF IInv, TypeOK
  <2>4. /\ rc[m] \in Nat /\ lostN[m] \in Nat
        /\ Count(head, m) \in Nat /\ Count(next, m) \in Nat
        /\ rc[m] = Count(head, m) + Count(next, m) + Hit(n, m) + lostN[m]
    BY NodeCount
  <2>5. nx # n
    BY <1>1, <1>4
  <2> QED BY <1>0, <2>1, <2>2, <2>3, <2>4, <2>5 DEF Hit
<1>6. ASSUME NEW p \in Obj
      PROVE  orc'[p] = held'[p] + Count(value', p) + lostO'[p]
  <2>1. Count(value', p) = Count(value, p) - Hit(o, p) + Hit(NULL, p)
    <3>1. value'[n] = NULL /\ \A k \in Node : k # n => value'[k] = value[k]
      BY <1>0, <1>1 DEF IInv, TypeOK
    <3> QED BY <3>1, <1>1, <1>3, ValueCount DEF IInv
  <2>2. held' = held /\ lostO' = lostO /\ p # NULL
    BY <1>0, ObjAssumption
  <2>3. orc'[p] = orc[p] - Hit(o, p)
    BY <1>0, <1>1 DEF IInv, TypeOK, Hit
  <2>4. /\ orc[p] \in Nat /\ held[p] \in Nat /\ lostO[p] \in Nat
        /\ Count(value, p) \in Nat
        /\ orc[p] = held[p] + Count(value, p) + lostO[p]
    BY ObjCount
  <2> QED BY <2>1, <2>2, <2>3, <2>4 DEF Hit
<1>7. CellsMatchCounts'
  BY <1>0, <1>1 DEF IInv, TypeOK, CellsMatchCounts
<1>8. /\ Live' = Live \ {n} /\ path' = path
      /\ \A m \in Live' : next'[m] = next[m]
  BY <1>0, <1>1 DEF IInv, TypeOK, Live
<1>10. PathsHold'
  BY <1>4, <1>8 DEF IInv, PathsHold, PathAt, Live
<1>11. PathsLive'
  <2> SUFFICES ASSUME NEW m \in Live', NEW i \in DOMAIN path[m]
               PROVE  /\ path[m][i] \in Live'
                      /\ i + 1 \in DOMAIN path[m]
                           => next'[path[m][i]] = path[m][i + 1]
    BY <1>8 DEF PathsLive
  <2>1. m \in Live /\ m # n /\ m \in Node
    BY <1>8 DEF Live
  <2>2. /\ path[m][i] \in Live
        /\ i + 1 \in DOMAIN path[m] => next[path[m][i]] = path[m][i + 1]
    BY <2>1 DEF IInv, PathsLive
  <2>3. path[m][i] # n
    <3>1. path[m] \in Seq(Node) /\ i \in 1 .. Len(path[m])
      BY <2>1 DEF IInv, TypeOK
    <3>2. CASE i = 1
      <4>1. path[m] = <<m>> \o PathAt(next[m])
        BY <2>1 DEF IInv, PathsHold
      <4>2. PathAt(next[m]) \in Seq(Node)
        BY <2>1 DEF IInv, TypeOK, PathAt
      <4> QED BY <2>1, <3>2, <4>1, <4>2
    <3>3. CASE i # 1
      <4>1. i - 1 \in DOMAIN path[m] /\ (i - 1) + 1 = i
        BY <3>1, <3>3
      <4>2. path[m][i - 1] \in Node /\ next[path[m][i - 1]] = path[m][i]
        BY <2>1, <4>1 DEF IInv, PathsLive, Live
      <4> QED BY <4>2, <1>4
    <3> QED BY <3>2, <3>3
  <2> QED BY <1>8, <2>2, <2>3
<1> QED BY <1>3, <1>5, <1>6, <1>7, <1>10, <1>11
        DEF IInv, NodeRefsExact, ObjRefsExact

(* The loop stops at a node that something else points to as well. *)
LEMMA FreeSharedPreservesInv ==
    ASSUME IInv, FreeShared
    PROVE  IInv'
<1> DEFINE n == pend
<1>0. /\ n # NULL /\ rc[n] # 1 /\ pend' = NULL
      /\ rc' = [rc EXCEPT ![n] = @ - 1]
      /\ UNCHANGED <<head, next, value, orc, held, lostN, lostO, path>>
  BY DEF FreeShared
<1>1. n \in Node /\ rc[n] \in Nat /\ rc[n] > 1
  <2>1. rc[n] > 0
    BY <1>0, PointedToIsCounted
  <2> QED BY <1>0, <2>1 DEF IInv, TypeOK
<1>2. TypeOK'
  <2>1. rc[n] - 1 \in Nat
    BY <1>1
  <2> QED BY <2>1, <1>0, <1>1 DEF IInv, TypeOK
<1>3. \A m \in Node : rc'[m] = rc[m] - Hit(n, m)
  BY <1>0, <1>1 DEF IInv, TypeOK, Hit
<1>4. ASSUME NEW m \in Node
      PROVE  rc'[m] = Count(head', m) + Count(next', m)
                        + Hit(pend', m) + lostN'[m]
  <2>1. head' = head /\ next' = next /\ lostN' = lostN /\ pend' = NULL
    BY <1>0
  <2>2. m # NULL /\ rc'[m] = rc[m] - Hit(n, m)
    BY <1>3, NodeAssumption
  <2>3. /\ rc[m] \in Nat /\ lostN[m] \in Nat
        /\ Count(head, m) \in Nat /\ Count(next, m) \in Nat
        /\ rc[m] = Count(head, m) + Count(next, m) + Hit(n, m) + lostN[m]
    BY NodeCount
  <2> QED BY <2>1, <2>2, <2>3 DEF Hit
<1>5. ObjRefsExact'
  BY <1>0 DEF IInv, ObjRefsExact
<1>6. ASSUME NEW m \in Node
      PROVE  rc'[m] = 0 <=> rc[m] = 0
  BY <1>0, <1>1 DEF IInv, TypeOK
<1>7. CellsMatchCounts'
  BY <1>0, <1>2, <1>6 DEF IInv, TypeOK, CellsMatchCounts
<1>8. PathsHold' /\ PathsLive'
  BY <1>0, <1>2, <1>6, PathsUntouched DEF IInv, TypeOK, Live
<1> QED BY <1>2, <1>4, <1>5, <1>7, <1>8 DEF IInv, NodeRefsExact

LEMMA StepPreservesInv ==
    ASSUME IInv, [Next]_vars
    PROVE  IInv'
<1>1. ASSUME NEW o \in Obj, NewObject(o) \/ Claim(o) \/ Release(o)
      PROVE  IInv'
  BY <1>1, CallersPreserveInv
<1>2. ASSUME NEW s \in Stack, NEW o \in Obj, Push(s, o) \/ PushNoMemory(s, o)
      PROVE  IInv'
  BY <1>2, PushPreservesInv, PushNoMemoryPreservesInv
<1>3. ASSUME NEW s \in Stack, Pop(s) \/ PopClaimFail(s) \/ Free(s)
      PROVE  IInv'
  BY <1>3, PopPreservesInv, PopClaimFailPreservesInv, FreePreservesInv
<1>4. ASSUME NEW s \in Stack, NEW t \in Stack, Copy(s, t)
      PROVE  IInv'
  BY <1>4, CopyPreservesInv
<1>5. CASE FreeStep
  BY <1>5, FreeNodePreservesInv, FreeSharedPreservesInv DEF FreeStep
<1>6. CASE UNCHANGED vars
  BY <1>6 DEF vars, IInv, TypeOK, NodeRefsExact, ObjRefsExact,
              CellsMatchCounts, PathsHold, PathsLive, Live, PathAt
<1> QED BY <1>1, <1>2, <1>3, <1>4, <1>5, <1>6 DEF Next

-----------------------------------------------------------------------------

(* The counts of nodes and objects are exact in every reachable state, for *)
(* every number of stacks, nodes and objects, also when calls fail half    *)
(* way (data_stack.c 26-31, 50-53).                                        *)
THEOREM CountsExact == Spec => []IInv
<1>1. Init => IInv
  BY InitInv
<1>2. IInv /\ [Next]_vars => IInv'
  BY StepPreservesInv
<1> QED BY <1>1, <1>2, PTL DEF Spec

(* So no DataStack, node or running dst_node_free ever points to memory    *)
(* that was freed, and every value on a stack is alive.                    *)
THEOREM NothingDangles == Spec => []NoDangling
<1>1. IInv => NoDangling
  BY InvImpliesNoDangling
<1> QED BY <1>1, CountsExact, PTL

-----------------------------------------------------------------------------
(* The refinement: each call maps to one step of ValueStacks, or to none.  *)

ContentAlive == \A s \in Stack : \A i \in DOMAIN Content[s] : Content[s][i] \in Alive

(* The nodes a stack reaches are in use, so what they hold is alive. *)
LEMMA PathAtFacts ==
    ASSUME IInv, NEW s \in Stack
    PROVE  /\ PathAt(head[s]) \in Seq(Node)
           /\ \A i \in DOMAIN PathAt(head[s]) : PathAt(head[s])[i] \in Live
           /\ head[s] # NULL => /\ head[s] \in Live
                               /\ PathAt(head[s])
                                    = <<head[s]>> \o PathAt(next[head[s]])
           /\ head[s] # NULL => PathAt(next[head[s]]) \in Seq(Node)
<1>1. head[s] # NULL => head[s] \in Live
  BY PointedToIsCounted DEF IInv, TypeOK, Live
<1>2. PathAt(head[s]) \in Seq(Node)
  BY <1>1 DEF IInv, TypeOK, PathAt, Live
<1>3. \A i \in DOMAIN PathAt(head[s]) : PathAt(head[s])[i] \in Live
  BY <1>1 DEF IInv, PathsLive, PathAt
<1>4. head[s] # NULL => /\ PathAt(head[s]) = <<head[s]>> \o PathAt(next[head[s]])
                        /\ PathAt(next[head[s]]) \in Seq(Node)
  <2> SUFFICES ASSUME head[s] # NULL
               PROVE  /\ PathAt(head[s]) = <<head[s]>> \o PathAt(next[head[s]])
                      /\ PathAt(next[head[s]]) \in Seq(Node)
    OBVIOUS
  <2>1. PathAt(head[s]) = path[head[s]] /\ head[s] \in Node
    BY <1>1 DEF PathAt, Live
  <2>2. path[head[s]] = <<head[s]>> \o PathAt(next[head[s]])
    BY <1>1 DEF IInv, PathsHold
  <2>3. PathAt(next[head[s]]) \in Seq(Node)
    BY <2>1 DEF IInv, TypeOK, PathAt
  <2> QED BY <2>1, <2>2, <2>3
<1> QED BY <1>1, <1>2, <1>3, <1>4

ReachedInUse ==
    \A s \in Stack : \A i \in DOMAIN PathAt(head[s]) : PathAt(head[s])[i] \in Live

LEMMA StacksReachNodesInUse == IInv => ReachedInUse
BY PathAtFacts DEF ReachedInUse

LEMMA StacksReachNodesInUseNext == IInv' => ReachedInUse'
BY StacksReachNodesInUse, PTL

LEMMA StacksHoldLiveObjects == IInv => ContentAlive
<1> SUFFICES ASSUME IInv, NEW s \in Stack, NEW i \in DOMAIN Content[s]
             PROVE  Content[s][i] \in Alive
  BY DEF ContentAlive
<1> DEFINE q == PathAt(head[s])
<1>1. Content[s] = Values(q)
  BY DEF Content
<1>2. i \in DOMAIN q /\ Content[s][i] = value[q[i]]
  BY <1>1 DEF Values
<1>3. q[i] \in Live
  BY <1>2, PathAtFacts
<1> QED BY <1>2, <1>3, InvImpliesNoDangling DEF NoDangling

LEMMA StacksHoldLiveObjectsNext == IInv' => ContentAlive'
BY StacksHoldLiveObjects, PTL

(* A stack whose head is not moved keeps what it holds, as long as nodes   *)
(* in use keep their values and paths.                                     *)
LEMMA ContentUntouched ==
    ASSUME IInv, NEW s \in Stack, NEW t \in Stack, head'[t] = head[s],
           \A n \in Live : path'[n] = path[n],
           \A i \in DOMAIN PathAt(head[s]) :
               value'[PathAt(head[s])[i]] = value[PathAt(head[s])[i]]
    PROVE  Content'[t] = Content[s]
<1> DEFINE q == PathAt(head[s])
<1>1. PathAt(head[t])' = q
  BY PathAtFacts DEF PathAt
<1>2. Content'[t] = [i \in DOMAIN q |-> value'[q[i]]]
  BY <1>1 DEF Content, Values
<1>3. Content[s] = [i \in DOMAIN q |-> value[q[i]]]
  BY DEF Content, Values
<1> QED BY <1>2, <1>3

(* Looking up the elements of a sequence one by one. *)
Lookup(v, q) == [i \in DOMAIN q |-> v[q[i]]]

LEMMA LookupCons ==
    ASSUME NEW S, NEW q \in Seq(S), NEW n \in S, NEW T, NEW v,
           v[n] \in T, \A i \in DOMAIN q : v[q[i]] \in T
    PROVE  /\ Lookup(v, q) \in Seq(T)
           /\ Lookup(v, <<n>> \o q) = <<v[n]>> \o Lookup(v, q)
<1> DEFINE e == <<n>> \o q
<1>1. /\ Len(q) \in Nat /\ DOMAIN q = 1 .. Len(q)
      /\ DOMAIN e = 1 .. Len(q) + 1 /\ e[1] = n
      /\ \A j \in 2 .. Len(q) + 1 : e[j] = q[j - 1]
  OBVIOUS
<1>2. Lookup(v, q) \in [1 .. Len(q) -> T]
  BY <1>1 DEF Lookup
<1>3. Lookup(v, q) \in Seq(T) /\ Len(Lookup(v, q)) = Len(q)
  BY <1>1, <1>2
<1>4. PICK c \in Seq(T) : c = Lookup(v, q)
  BY <1>3
<1>5. /\ DOMAIN (<<v[n]>> \o c) = 1 .. Len(q) + 1
      /\ (<<v[n]>> \o c)[1] = v[n]
      /\ \A j \in 2 .. Len(q) + 1 : (<<v[n]>> \o c)[j] = c[j - 1]
  BY <1>3, <1>4
<1>6. ASSUME NEW j \in 1 .. Len(q) + 1
      PROVE  v[e[j]] = (<<v[n]>> \o c)[j]
  <2>1. CASE j = 1
    BY <2>1, <1>1, <1>5
  <2>2. CASE j # 1
    <3>1. j \in 2 .. Len(q) + 1 /\ j - 1 \in DOMAIN q
      BY <2>2, <1>1
    <3>2. e[j] = q[j - 1] /\ (<<v[n]>> \o c)[j] = c[j - 1]
      BY <3>1, <1>1, <1>5
    <3>3. c[j - 1] = v[q[j - 1]]
      BY <3>1, <1>4 DEF Lookup
    <3> QED BY <3>2, <3>3
  <2> QED BY <2>1, <2>2
<1>7. <<v[n]>> \o c = [j \in 1 .. Len(q) + 1 |-> (<<v[n]>> \o c)[j]]
  BY <1>4, <1>5
<1>8. Lookup(v, e) = [j \in 1 .. Len(q) + 1 |-> v[e[j]]]
  BY <1>1 DEF Lookup
<1>9. Lookup(v, e) = <<v[n]>> \o c
  BY <1>6, <1>7, <1>8
<1> QED BY <1>3, <1>4, <1>9

(* A claim that a caller owns keeps its object alive. *)
LEMMA HeldIsAlive ==
    ASSUME IInv, NEW o \in Obj, held[o] > 0
    PROVE  orc[o] > 0
<1>1. /\ held[o] \in Nat /\ lostO[o] \in Nat /\ Count(value, o) \in Nat
      /\ orc[o] = held[o] + Count(value, o) + lostO[o]
  BY ObjCount
<1> QED BY <1>1

LEMMA ContentsUntouched ==
    ASSUME IInv, UNCHANGED <<head, value, path>>
    PROVE  Content' = Content
BY DEF Content, Values, PathAt

(* New, claimed and released objects; a release may destroy its object. *)
LEMMA CallersRefine ==
    ASSUME IInv, IInv', NEW o \in Obj, NewObject(o) \/ Claim(o) \/ Release(o)
    PROVE  VS!Make(o) \/ VS!Claim(o) \/ VS!Release(o)
<1>1. Content' = Content
  BY ContentsUntouched DEF NewObject, Claim, Release
<1>2. CASE NewObject(o)
  <2>1. o \notin Alive /\ Alive' = Alive \cup {o}
    BY <1>2 DEF NewObject, Alive, IInv, TypeOK
  <2> QED BY <1>1, <1>2, <2>1 DEF NewObject, VS!Make
<1>3. CASE Claim(o)
  <2>1. Alive' = Alive
    BY <1>3, HeldIsAlive DEF Claim, Alive, IInv, TypeOK
  <2> QED BY <1>1, <1>3, <2>1 DEF Claim, VS!Claim
<1>4. CASE Release(o)
  <2>1. CASE orc'[o] > 0
    <3>1. Alive' = Alive
      BY <1>4, <2>1 DEF Release, Alive, IInv, TypeOK
    <3> QED BY <1>1, <1>4, <3>1 DEF Release, VS!Release
  <2>2. CASE ~(orc'[o] > 0)
    <3>1. Alive' = Alive \ {o}
      BY <1>4, <2>2 DEF Release, Alive, IInv, TypeOK
    <3>2. o \notin Alive'
      BY <3>1
    <3>3. ~VS!OnStack(o)'
      BY <3>2, StacksHoldLiveObjectsNext DEF ContentAlive, VS!OnStack
    <3>4. ~(held'[o] > 0)
      <4>1. /\ held[o] \in Nat /\ lostO[o] \in Nat /\ Count(value, o) \in Nat
            /\ orc[o] \in Nat
            /\ orc[o] = held[o] + Count(value, o) + lostO[o]
        BY ObjCount
      <4>2. held'[o] = held[o] - 1 /\ orc'[o] = orc[o] - 1
        BY <1>4 DEF Release, IInv, TypeOK
      <4> QED BY <4>1, <4>2, <2>2
    <3> QED BY <1>1, <1>4, <3>1, <3>3, <3>4 DEF Release, VS!Release, VS!Wanted
  <2> QED BY <2>1, <2>2
<1> QED BY <1>2, <1>3, <1>4

LEMMA PushRefines ==
    ASSUME IInv, NEW s \in Stack, NEW o \in Obj, Push(s, o)
    PROVE  VS!Push(s, o)
<1>p. PICK n \in Node \ Live :
          /\ value' = [value EXCEPT ![n] = o]
          /\ head' = [head EXCEPT ![s] = n]
          /\ path' = [path EXCEPT ![n] = <<n>> \o PathAt(head[s])]
  BY DEF Push
<1> DEFINE q == PathAt(head[s])
<1>1. /\ held[o] > 0 /\ held' = held
      /\ orc' = [orc EXCEPT ![o] = @ + 1]
  BY DEF Push
<1>2. Alive' = Alive
  BY <1>1, HeldIsAlive DEF Alive, IInv, TypeOK
<1>3. n \notin Live /\ n \in Node /\ n # NULL
  BY <1>p, NodeAssumption
<1>4. \A m \in Live : path'[m] = path[m] /\ value'[m] = value[m]
  BY <1>p, <1>3 DEF IInv, TypeOK, Live
<1>5. ASSUME NEW t \in Stack, t # s
      PROVE  Content'[t] = Content[t]
  <2>1. head'[t] = head[t]
    BY <1>p, <1>5 DEF IInv, TypeOK
  <2>2. \A i \in DOMAIN PathAt(head[t]) :
           value'[PathAt(head[t])[i]] = value[PathAt(head[t])[i]]
    BY <1>4, PathAtFacts
  <2> QED BY <1>4, <2>1, <2>2, ContentUntouched
<1>6. Content'[s] = <<o>> \o Content[s]
  <2>1. q \in Seq(Node) /\ \A i \in DOMAIN q : q[i] \in Live
    BY PathAtFacts
  <2>2. head'[s] = n /\ value'[n] = o /\ path'[n] = <<n>> \o q
    BY <1>p, <1>3 DEF IInv, TypeOK
  <2>3. PathAt(head[s])' = <<n>> \o q
    BY <1>3, <2>2 DEF PathAt
  <2>4. \A i \in DOMAIN q : value'[q[i]] = value[q[i]] /\ value[q[i]] \in Obj
    BY <2>1, <1>4 DEF IInv, CellsMatchCounts, Live
  <2>5. Lookup(value', <<n>> \o q) = <<o>> \o Lookup(value', q)
    <3>1. value'[n] \in Obj /\ \A i \in DOMAIN q : value'[q[i]] \in Obj
      BY <2>2, <2>4
    <3>2. Lookup(value', <<n>> \o q) = <<value'[n]>> \o Lookup(value', q)
      BY <2>1, <3>1, <1>3, LookupCons
    <3> QED BY <3>2, <2>2
  <2>6. Lookup(value', q) = Content[s]
    BY <2>4 DEF Lookup, Content, Values
  <2>7. Content'[s] = Lookup(value', <<n>> \o q)
    BY <2>3 DEF Lookup, Content, Values
  <2> QED BY <2>5, <2>6, <2>7
<1>7. Content' = [Content EXCEPT ![s] = <<o>> \o Content[s]]
  BY <1>5, <1>6 DEF Content
<1> QED BY <1>1, <1>2, <1>7 DEF VS!Push

LEMMA PopRefines ==
    ASSUME IInv, NEW s \in Stack, Pop(s)
    PROVE  VS!Pop(s)
<1> DEFINE h == head[s]
           q == PathAt(next[h])
           o == value[h]
<1>0. /\ h # NULL
      /\ orc' = [orc EXCEPT ![o] = @ + 1]
      /\ held' = [held EXCEPT ![o] = @ + 1]
      /\ head' = [head EXCEPT ![s] = next[h]]
      /\ UNCHANGED <<value, path>>
  BY DEF Pop
<1>1. /\ h \in Live /\ h \in Node /\ o \in Obj
      /\ PathAt(h) = <<h>> \o q /\ q \in Seq(Node)
  BY <1>0, PathAtFacts DEF IInv, CellsMatchCounts, Live
<1>2. \A i \in DOMAIN q : value[q[i]] \in Obj
  <2>1. \A i \in DOMAIN PathAt(h) : PathAt(h)[i] \in Live
    BY PathAtFacts
  <2>2. ASSUME NEW i \in DOMAIN q
        PROVE  q[i] \in Live
    <3>1. i + 1 \in DOMAIN (<<h>> \o q) /\ (<<h>> \o q)[i + 1] = q[i]
      BY <1>1
    <3>2. PathAt(h)[i + 1] \in Live
      BY <2>1, <3>1, <1>1
    <3> QED BY <3>1, <3>2, <1>1
  <2> QED BY <2>2 DEF IInv, CellsMatchCounts, Live
<1>3. Content[s] = <<o>> \o Lookup(value, q) /\ Lookup(value, q) \in Seq(Obj)
  <2>1. Lookup(value, q) \in Seq(Obj)
        /\ Lookup(value, <<h>> \o q) = <<o>> \o Lookup(value, q)
    BY <1>1, <1>2, LookupCons
  <2>2. Content[s] = Lookup(value, PathAt(h))
    BY DEF Content, Values, Lookup
  <2> QED BY <2>1, <2>2, <1>1
<1>4. /\ Content[s] # <<>> /\ Head(Content[s]) = o
      /\ Tail(Content[s]) = Lookup(value, q)
  <2>1. PICK c \in Seq(Obj) : c = Lookup(value, q)
    BY <1>3
  <2>2. <<o>> \o c # <<>> /\ Head(<<o>> \o c) = o /\ Tail(<<o>> \o c) = c
    BY <2>1, <1>1
  <2> QED BY <2>1, <2>2, <1>3
<1>5. Content'[s] = Lookup(value, q)
  <2>1. head'[s] = next[h]
    BY <1>0 DEF IInv, TypeOK
  <2>2. PathAt(head[s])' = q
    BY <2>1, <1>0 DEF PathAt
  <2> QED BY <2>2, <1>0 DEF Content, Values, Lookup
<1>6. ASSUME NEW t \in Stack, t # s
      PROVE  Content'[t] = Content[t]
  <2>1. head'[t] = head[t]
    BY <1>0, <1>6 DEF IInv, TypeOK
  <2> QED BY <1>0, <2>1, ContentUntouched
<1>7. Content' = [Content EXCEPT ![s] = Tail(Content[s])]
  BY <1>4, <1>5, <1>6 DEF Content
<1>8. Alive' = Alive
  <2>1. orc[o] > 0
    BY <1>1, InvImpliesNoDangling DEF NoDangling, Alive
  <2> QED BY <2>1, <1>0 DEF Alive, IInv, TypeOK
<1> QED BY <1>0, <1>4, <1>7, <1>8 DEF VS!Pop

LEMMA CopyRefines ==
    ASSUME IInv, NEW s \in Stack, NEW t \in Stack, Copy(s, t)
    PROVE  VS!Copy(s, t)
<1>0. /\ head[t] = NULL
      /\ head' = [head EXCEPT ![t] = head[s]]
      /\ UNCHANGED <<value, path, orc, held>>
  BY DEF Copy
<1>1. Content[t] = <<>>
  BY <1>0 DEF Content, Values, PathAt
<1>2. Content'[t] = Content[s]
  <2>1. head'[t] = head[s]
    BY <1>0 DEF IInv, TypeOK
  <2> QED BY <1>0, <2>1, ContentUntouched
<1>3. ASSUME NEW u \in Stack, u # t
      PROVE  Content'[u] = Content[u]
  <2>1. head'[u] = head[u]
    BY <1>0, <1>3 DEF IInv, TypeOK
  <2> QED BY <1>0, <2>1, ContentUntouched
<1>4. Content' = [Content EXCEPT ![t] = Content[s]]
  BY <1>2, <1>3 DEF Content
<1>5. Alive' = Alive
  BY <1>0 DEF Alive
<1> QED BY <1>0, <1>1, <1>4, <1>5 DEF VS!Copy

LEMMA FreeRefines ==
    ASSUME IInv, NEW s \in Stack, Free(s)
    PROVE  VS!Clear(s)
<1>0. /\ head' = [head EXCEPT ![s] = NULL]
      /\ UNCHANGED <<value, path, orc, held>>
  BY DEF Free
<1>1. Content'[s] = <<>>
  <2>1. head'[s] = NULL
    BY <1>0 DEF IInv, TypeOK
  <2> QED BY <2>1 DEF Content, Values, PathAt
<1>2. ASSUME NEW u \in Stack, u # s
      PROVE  Content'[u] = Content[u]
  <2>1. head'[u] = head[u]
    BY <1>0, <1>2 DEF IInv, TypeOK
  <2> QED BY <1>0, <2>1, ContentUntouched
<1>3. Content' = [Content EXCEPT ![s] = <<>>]
  BY <1>1, <1>2 DEF Content
<1>4. Alive' = Alive
  BY <1>0 DEF Alive
<1> QED BY <1>0, <1>3, <1>4 DEF VS!Clear

(* Freeing a node may take away the last claim on its value, which then is *)
(* on no stack and owned by no caller.                                     *)
LEMMA FreeNodeRefines ==
    ASSUME IInv, IInv', FreeNode
    PROVE  (\E o \in Obj : VS!Reap(o)) \/ UNCHANGED VS!vars
<1> DEFINE n == pend
           o == value[n]
<1>0. /\ n # NULL /\ rc[n] = 1
      /\ rc' = [rc EXCEPT ![n] = 0]
      /\ orc' = [orc EXCEPT ![o] = @ - 1]
      /\ value' = [value EXCEPT ![n] = NULL]
      /\ UNCHANGED <<head, held, lostO, path>>
  BY DEF FreeNode
<1>1. n \in Node /\ o \in Obj
  BY <1>0 DEF IInv, TypeOK, CellsMatchCounts
<1>2. Content' = Content
  <2>1. ASSUME NEW s \in Stack
        PROVE  Content'[s] = Content[s]
    <3>1. \A m \in Live : m # n => value'[m] = value[m]
      BY <1>0, <1>1 DEF IInv, TypeOK, Live
    <3>2. PathAt(head[s])' = PathAt(head[s])
      BY <1>0 DEF PathAt
    <3>3. \A i \in DOMAIN PathAt(head[s])' : PathAt(head[s])'[i] \in Live'
      BY StacksReachNodesInUseNext DEF ReachedInUse
    <3>4. n \notin Live' /\ Live' \subseteq Live
      BY <1>0, <1>1 DEF IInv, TypeOK, Live
    <3>5. \A i \in DOMAIN PathAt(head[s]) :
             value'[PathAt(head[s])[i]] = value[PathAt(head[s])[i]]
      BY <3>1, <3>2, <3>3, <3>4
    <3> QED BY <3>5, <1>0, ContentUntouched
  <2> QED BY <2>1 DEF Content
<1>3. CASE orc'[o] > 0
  <2>1. Alive' = Alive
    BY <1>0, <1>1, <1>3 DEF Alive, IInv, TypeOK
  <2> QED BY <1>0, <1>2, <2>1 DEF VS!vars
<1>4. CASE ~(orc'[o] > 0)
  <2>1. orc[o] > 0
    BY <1>0, <1>1, ObjAssumption, PointedToIsCounted
  <2>2. o \in Alive /\ Alive' = Alive \ {o}
    BY <1>0, <1>1, <1>4, <2>1 DEF Alive, IInv, TypeOK
  <2>3. ~VS!OnStack(o)
    <3>1. \A s \in Stack : \A i \in DOMAIN Content[s] : Content[s][i] \in Alive'
      BY <1>2, StacksHoldLiveObjectsNext DEF ContentAlive
    <3> QED BY <3>1, <2>2 DEF VS!OnStack
  <2>4. ~(held[o] > 0)
    <3>1. /\ held[o] \in Nat /\ lostO[o] \in Nat /\ Count(value, o) \in Nat
          /\ orc[o] \in Nat
          /\ orc[o] = held[o] + Count(value, o) + lostO[o]
      BY <1>1, ObjCount
    <3>2. Count(value, o) > 0
      BY <1>1, CountPositive, NodeAssumption DEF IInv, TypeOK
    <3>3. orc'[o] = orc[o] - 1
      BY <1>0, <1>1 DEF IInv, TypeOK
    <3> QED BY <3>1, <3>2, <3>3, <1>4
  <2> QED BY <1>0, <1>1, <1>2, <2>2, <2>3, <2>4 DEF VS!Reap, VS!Wanted
<1> QED BY <1>3, <1>4

(* Calls that fail, and the turn that stops the loop, change nothing that  *)
(* ValueStacks sees.                                                       *)
LEMMA OthersRefine ==
    ASSUME IInv,
           \/ \E s \in Stack, o \in Obj : PushNoMemory(s, o)
           \/ \E s \in Stack : PopClaimFail(s)
           \/ FreeShared
    PROVE  UNCHANGED VS!vars
<1>1. Content' = Content /\ held' = held
  BY ContentsUntouched DEF PushNoMemory, PopClaimFail, FreeShared
<1>2. Alive' = Alive
  <2>1. CASE \E s \in Stack, o \in Obj : PushNoMemory(s, o)
    BY <2>1, HeldIsAlive DEF PushNoMemory, Alive, IInv, TypeOK
  <2>2. CASE \E s \in Stack : PopClaimFail(s)
    BY <2>2 DEF PopClaimFail, Alive
  <2>3. CASE FreeShared
    BY <2>3 DEF FreeShared, Alive
  <2> QED BY <2>1, <2>2, <2>3
<1> QED BY <1>1, <1>2 DEF VS!vars

LEMMA StepRefines ==
    ASSUME IInv, IInv', [Next]_vars
    PROVE  [VS!Next]_(VS!vars)
<1>1. ASSUME NEW o \in Obj, NewObject(o) \/ Claim(o) \/ Release(o)
      PROVE  VS!Next
  BY <1>1, CallersRefine DEF VS!Next
<1>2. ASSUME NEW s \in Stack, NEW o \in Obj, Push(s, o)
      PROVE  VS!Next
  BY <1>2, PushRefines DEF VS!Next
<1>3. ASSUME NEW s \in Stack, Pop(s) \/ Free(s)
      PROVE  VS!Next
  BY <1>3, PopRefines, FreeRefines DEF VS!Next
<1>4. ASSUME NEW s \in Stack, NEW t \in Stack, Copy(s, t)
      PROVE  VS!Next
  BY <1>4, CopyRefines DEF VS!Next
<1>5. CASE FreeNode
  BY <1>5, FreeNodeRefines DEF VS!Next
<1>6. CASE \/ \E s \in Stack, o \in Obj : PushNoMemory(s, o)
           \/ \E s \in Stack : PopClaimFail(s)
           \/ FreeShared
  BY <1>6, OthersRefine
<1>7. CASE UNCHANGED vars
  BY <1>7 DEF vars, VS!vars, Content, Values, PathAt, Alive
<1> QED BY <1>1, <1>2, <1>3, <1>4, <1>5, <1>6, <1>7 DEF Next, FreeStep

(* data_stack.c implements independent sequences of live objects: copies   *)
(* are snapshots although their nodes are shared, failing calls change no  *)
(* stack, and no object dies while a stack or a caller has it.             *)
THEOREM Refinement == Spec => Implements
<1>1. Init => VS!Init
  BY DEF Init, VS!Init, Content, Values, PathAt, Alive
<1>2. IInv /\ IInv' /\ [Next]_vars => [VS!Next]_(VS!vars)
  BY StepRefines
<1> QED BY <1>1, <1>2, CountsExact, PTL DEF Spec, VS!Spec, Implements

-----------------------------------------------------------------------------
(* The independence of the stacks: what one call may do to all of them.    *)

AtMostOneMoves ==
    \A s, t \in Stack :
        s # t => Content'[s] = Content[s] \/ Content'[t] = Content[t]

ByOneAtTheTop ==
    \A s \in Stack :
        \/ Content'[s] = Content[s]
        \/ Content'[s] = <<>>
        \/ Content[s] = <<>>
        \/ Content'[s] = Tail(Content[s])
        \/ Content[s] = Tail(Content'[s])

FailuresMoveNothing == lostN' # lostN \/ lostO' # lostO => Content' = Content

StackStep == AtMostOneMoves /\ ByOneAtTheTop /\ FailuresMoveNothing

LEMMA NoStackMoves ==
    ASSUME Content' = Content
    PROVE  StackStep
BY DEF StackStep, AtMostOneMoves, ByOneAtTheTop, FailuresMoveNothing

LEMMA OneStackMoves ==
    ASSUME NEW s \in Stack, NEW x,
           Content' = [Content EXCEPT ![s] = x],
           x = <<>> \/ Content[s] = <<>> \/ x = Tail(Content[s]) \/ Content[s] = Tail(x),
           UNCHANGED <<lostN, lostO>>
    PROVE  StackStep
<1>1. DOMAIN Content = Stack
  BY DEF Content
<1>2. Content'[s] = x /\ \A t \in Stack : t # s => Content'[t] = Content[t]
  BY <1>1
<1>3. AtMostOneMoves
  BY <1>2 DEF AtMostOneMoves
<1>4. ByOneAtTheTop
  BY <1>2 DEF ByOneAtTheTop
<1> QED BY <1>3, <1>4 DEF StackStep, FailuresMoveNothing

(* What a stack holds is a sequence of objects. *)
LEMMA ContentIsSeq ==
    ASSUME IInv, NEW s \in Stack
    PROVE  Content[s] \in Seq(Obj)
<1> DEFINE q == PathAt(head[s])
<1>1. q \in Seq(Node) /\ \A i \in DOMAIN q : q[i] \in Live
  BY PathAtFacts
<1>2. Len(q) \in Nat /\ DOMAIN q = 1 .. Len(q)
  BY <1>1
<1>3. \A i \in DOMAIN q : value[q[i]] \in Obj
  BY <1>1 DEF IInv, CellsMatchCounts, Live
<1>4. Content[s] = [i \in 1 .. Len(q) |-> value[q[i]]]
  BY <1>2 DEF Content, Values
<1> QED BY <1>2, <1>3, <1>4

LEMMA StepKeepsStacksApart ==
    ASSUME IInv, IInv', Next
    PROVE  StackStep
<1>1. ASSUME NEW o \in Obj, NewObject(o) \/ Claim(o) \/ Release(o)
      PROVE  StackStep
  BY <1>1, ContentsUntouched, NoStackMoves DEF NewObject, Claim, Release
<1>2. ASSUME NEW s \in Stack, NEW o \in Obj, Push(s, o)
      PROVE  StackStep
  <2>1. Content' = [Content EXCEPT ![s] = <<o>> \o Content[s]]
    BY <1>2, PushRefines DEF VS!Push
  <2>2. Content[s] = Tail(<<o>> \o Content[s])
    BY ContentIsSeq
  <2>3. UNCHANGED <<lostN, lostO>>
    BY <1>2 DEF Push
  <2> QED BY <2>1, <2>2, <2>3, OneStackMoves
<1>3. ASSUME NEW s \in Stack, Pop(s)
      PROVE  StackStep
  <2>1. Content' = [Content EXCEPT ![s] = Tail(Content[s])]
    BY <1>3, PopRefines DEF VS!Pop
  <2>2. UNCHANGED <<lostN, lostO>>
    BY <1>3 DEF Pop
  <2> QED BY <2>1, <2>2, OneStackMoves
<1>4. ASSUME NEW s \in Stack, NEW t \in Stack, Copy(s, t)
      PROVE  StackStep
  <2>1. Content[t] = <<>> /\ Content' = [Content EXCEPT ![t] = Content[s]]
    BY <1>4, CopyRefines DEF VS!Copy
  <2>2. UNCHANGED <<lostN, lostO>>
    BY <1>4 DEF Copy
  <2> QED BY <2>1, <2>2, OneStackMoves
<1>5. ASSUME NEW s \in Stack, Free(s)
      PROVE  StackStep
  <2>1. Content' = [Content EXCEPT ![s] = <<>>]
    BY <1>5, FreeRefines DEF VS!Clear
  <2>2. UNCHANGED <<lostN, lostO>>
    BY <1>5 DEF Free
  <2> QED BY <2>1, <2>2, OneStackMoves
<1>6. CASE FreeNode
  BY <1>6, FreeNodeRefines, NoStackMoves DEF VS!Reap, VS!vars
<1>7. CASE \/ \E s \in Stack, o \in Obj : PushNoMemory(s, o)
           \/ \E s \in Stack : PopClaimFail(s)
           \/ FreeShared
  BY <1>7, OthersRefine, NoStackMoves DEF VS!vars
<1> QED BY <1>1, <1>2, <1>3, <1>4, <1>5, <1>6, <1>7 DEF Next, FreeStep

(* Whatever nodes the stacks share, a call changes what its own stack      *)
(* holds and no other, by one value at the top or as a whole, and a call   *)
(* that fails after it claimed something changes none: dst_push, dst_pop,  *)
(* dst_copy and dst_free, with nothing to bound stacks, nodes or objects.  *)
THEOREM StacksAreIndependent == Spec => StacksIndependent
<1>1. IInv /\ IInv' /\ [Next]_vars
        => [/\ \A s, t \in Stack :
                 s # t => Content'[s] = Content[s] \/ Content'[t] = Content[t]
            /\ \A s \in Stack :
                 \/ Content'[s] = Content[s]
                 \/ Content'[s] = <<>>
                 \/ Content[s] = <<>>
                 \/ Content'[s] = Tail(Content[s])
                 \/ Content[s] = Tail(Content'[s])
            /\ lostN' # lostN \/ lostO' # lostO => Content' = Content]_vars
  BY StepKeepsStacksApart
  DEF StackStep, AtMostOneMoves, ByOneAtTheTop, FailuresMoveNothing
<1> QED BY <1>1, CountsExact, PTL DEF Spec, StacksIndependent

=============================================================================
