-------------------------- MODULE ScopeStackProofs --------------------------
(* Proofs about ScopeStack. *)
EXTENDS ScopeStack, SequenceLemmas, FiniteSetTheorems

LEMMA EmptyLayer == Empty \in Layer /\ \A k \in Key : Empty[k] = NONE
  BY DEF Empty, Layer

LEMMA LayersFacts ==
    ASSUME TypeOK
    PROVE  /\ layers \in Seq(Layer) /\ layers # <<>>
           /\ Top \in Nat \ {0} /\ DOMAIN layers = 1 .. Top
           /\ \A i \in 1 .. Top : layers[i] \in Layer
           /\ \A i \in 1 .. Top, k \in Key : layers[i][k] \in Val \cup {NONE}
  BY DEF TypeOK, Layer, Top

-----------------------------------------------------------------------------
(* The loop of sst_redefine finds the scopes that define a name.           *)

(* s has the scopes up to m that define k, from the top down. *)
Descends(s, k, m) ==
    /\ s \in Seq(1 .. m)
    /\ \A j \in DOMAIN s : layers[s[j]][k] # NONE
    /\ \A i, j \in DOMAIN s : i < j => s[i] > s[j]
    /\ \A i \in 1 .. m : layers[i][k] # NONE => \E j \in DOMAIN s : s[j] = i

LEMMA DescendsFurther ==
    ASSUME NEW k, NEW m \in Nat, NEW s, Descends(s, k, m),
           layers[m + 1][k] # NONE
    PROVE  Descends(<<m + 1>> \o s, k, m + 1)
<1> DEFINE t == <<m + 1>> \o s
<1>1. s \in Seq(1 .. m) /\ s \in Seq(1 .. m + 1) /\ <<m + 1>> \in Seq(1 .. m + 1)
  BY DEF Descends
<1>a. /\ Len(s) \in Nat /\ DOMAIN s = 1 .. Len(s)
      /\ \A j \in DOMAIN s : s[j] \in 1 .. m
  BY <1>1
<1>b. /\ t \in Seq(1 .. m + 1) /\ Len(t) = Len(s) + 1
      /\ \A j \in 1 .. Len(s) + 1 : t[j] = IF j = 1 THEN m + 1 ELSE s[j - 1]
  BY <1>1, PrependEntry
<1> HIDE DEF t
<1>c. DOMAIN t = 1 .. Len(s) + 1
  BY <1>a, <1>b
<1>2. /\ t \in Seq(1 .. m + 1) /\ DOMAIN t = 1 .. Len(s) + 1
      /\ Len(s) \in Nat /\ DOMAIN s = 1 .. Len(s)
      /\ t[1] = m + 1
      /\ \A j \in 2 .. Len(s) + 1 : t[j] = s[j - 1] /\ j - 1 \in DOMAIN s
      /\ \A j \in DOMAIN s : s[j] \in 1 .. m /\ t[j + 1] = s[j] /\ j + 1 \in DOMAIN t
  <2>1. t[1] = m + 1
    BY <1>a, <1>b
  <2>2. \A j \in 2 .. Len(s) + 1 : t[j] = s[j - 1] /\ j - 1 \in DOMAIN s
    BY <1>a, <1>b
  <2>3. \A j \in DOMAIN s : t[j + 1] = s[j] /\ j + 1 \in DOMAIN t
    BY <1>a, <1>b, <1>c
  <2> QED BY <1>a, <1>b, <1>c, <2>1, <2>2, <2>3
<1>3. \A j \in DOMAIN t : layers[t[j]][k] # NONE
  <2> TAKE j \in DOMAIN t
  <2>1. CASE j = 1
    BY <2>1, <1>2
  <2>2. CASE j # 1
    <3>1. j \in 2 .. Len(s) + 1
      BY <2>2, <1>2
    <3>2. t[j] = s[j - 1] /\ j - 1 \in DOMAIN s
      BY <3>1, <1>2
    <3> QED BY <3>2 DEF Descends
  <2> QED BY <2>1, <2>2
<1>4. \A i, j \in DOMAIN t : i < j => t[i] > t[j]
  <2> SUFFICES ASSUME NEW i \in DOMAIN t, NEW j \in DOMAIN t, i < j
               PROVE  t[i] > t[j]
    OBVIOUS
  <2>1. j \in 2 .. Len(s) + 1 /\ t[j] = s[j - 1] /\ j - 1 \in DOMAIN s
    BY <1>2
  <2>2. CASE i = 1
    BY <2>1, <2>2, <1>2
  <2>3. CASE i # 1
    <3>1. t[i] = s[i - 1] /\ i - 1 \in DOMAIN s /\ i - 1 < j - 1
      BY <2>3, <1>2
    <3> QED BY <2>1, <3>1 DEF Descends
  <2> QED BY <2>2, <2>3
<1>5. ASSUME NEW i \in 1 .. m + 1, layers[i][k] # NONE
      PROVE  \E j \in DOMAIN t : t[j] = i
  <2>1. CASE i = m + 1
    BY <2>1, <1>2
  <2>2. CASE i # m + 1
    <3>1. PICK j \in DOMAIN s : s[j] = i
      BY <2>2, <1>5 DEF Descends
    <3>2. j + 1 \in DOMAIN t /\ t[j + 1] = i
      BY <3>1, <1>2
    <3> QED BY <3>2
  <2> QED BY <2>1, <2>2
<1> QED BY <1>2, <1>3, <1>4, <1>5 DEF Descends, t

LEMMA DescendsNoFurther ==
    ASSUME NEW k, NEW m \in Nat, NEW s, Descends(s, k, m),
           layers[m + 1][k] = NONE
    PROVE  Descends(s, k, m + 1)
<1>1. s \in Seq(1 .. m + 1)
  BY DEF Descends
<1>2. ASSUME NEW i \in 1 .. m + 1, layers[i][k] # NONE
      PROVE  \E j \in DOMAIN s : s[j] = i
  BY <1>2 DEF Descends
<1> QED BY <1>1, <1>2 DEF Descends

(* The definition of Holders is a loop from the globals up. *)
LEMMA HoldersLoop ==
    ASSUME TypeOK, NEW k \in Key
    PROVE  \E f : /\ Holders(k) = f[Top]
                  /\ f[0] = <<>>
                  /\ \A i \in 1 .. Top :
                        f[i] = IF layers[i][k] = NONE THEN f[i - 1]
                               ELSE <<i>> \o f[i - 1]
<1> DEFINE n == Top
           F(f) == [i \in 0 .. n |->
                       IF i = 0 THEN <<>>
                       ELSE IF layers[i][k] = NONE THEN f[i - 1]
                       ELSE <<i>> \o f[i - 1]]
           step == [i \in 1 .. n |-> [s \in Seq(Nat) |->
                       IF layers[i][k] = NONE THEN s ELSE <<i>> \o s]]
           below == CHOOSE f : f = F(f)
<1>1. n \in Nat
  BY LayersFacts
<1>2. step \in [1 .. n -> [Seq(Nat) -> Seq(Nat)]]
  BY <1>1
<1>3. PICK f \in [0 .. n -> Seq(Nat)] :
         f[0] = <<>> /\ \A i \in 1 .. n : f[i] = step[i][f[i - 1]]
  <2> DEFINE T == Seq(Nat)
             start == <<>>
  <2>1. start \in T
    OBVIOUS
  <2> HIDE DEF step, n, T, start
  <2>2. \E f \in [0 .. n -> T] :
           f[0] = start /\ \A i \in 1 .. n : f[i] = step[i][f[i - 1]]
    <3>1. step \in [1 .. n -> [T -> T]]
      BY <1>2 DEF T
    <3>2. \E f : Iterates(f, n, T, start, step)
      BY <1>1, <3>1, <2>1, RecursionExists
    <3> QED BY <3>2 DEF Iterates
  <2> QED BY <2>2 DEF T, start
<1>4. f = F(f)
  <2>1. ASSUME NEW i \in 1 .. n
        PROVE  f[i] = IF layers[i][k] = NONE THEN f[i - 1] ELSE <<i>> \o f[i - 1]
    <3>1. f[i - 1] \in Seq(Nat)
      BY <1>1
    <3> QED BY <1>3, <3>1
  <2>2. \A i \in 0 .. n : f[i] = IF i = 0 THEN <<>>
                       ELSE IF layers[i][k] = NONE THEN f[i - 1]
                       ELSE <<i>> \o f[i - 1]
    <3> HIDE DEF n
    <3> TAKE i \in 0 .. n
    <3>1. CASE i = 0
      BY <3>1, <1>3
    <3>2. CASE i # 0
      <4>1. i \in 1 .. n
        BY <3>2, <1>1
      <4> QED BY <3>2, <4>1, <2>1
    <3> QED BY <3>1, <3>2
  <2> HIDE DEF n
  <2> QED BY <2>2
<1>5. below = F(below)
  <2> HIDE DEF F
  <2> QED BY <1>4
<1>6. Holders(k) = below[n]
  BY DEF Holders
<1>7. \A g, i : i \in 0 .. n => F(g)[i] = IF i = 0 THEN <<>>
                       ELSE IF layers[i][k] = NONE THEN g[i - 1]
                       ELSE <<i>> \o g[i - 1]
  OBVIOUS
<1> HIDE DEF F, below
<1>8. /\ below[0] = <<>>
      /\ \A i \in 1 .. n : below[i] = IF layers[i][k] = NONE THEN below[i - 1]
                                      ELSE <<i>> \o below[i - 1]
  <2> HIDE DEF n
  <2>1. \A i : i \in 0 .. n => below[i] = IF i = 0 THEN <<>>
                       ELSE IF layers[i][k] = NONE THEN below[i - 1]
                       ELSE <<i>> \o below[i - 1]
    BY <1>5, <1>7, Zenon
  <2>2. 0 \in 0 .. n /\ \A i \in 1 .. n : i \in 0 .. n /\ i # 0
    BY <1>1
  <2> QED BY <2>1, <2>2
<1> QED BY <1>6, <1>8

LEMMA HoldersDescend ==
    ASSUME TypeOK, NEW k \in Key
    PROVE  Descends(Holders(k), k, Top)
<1>1. PICK f : /\ Holders(k) = f[Top]
               /\ f[0] = <<>>
               /\ \A i \in 1 .. Top :
                     f[i] = IF layers[i][k] = NONE THEN f[i - 1]
                            ELSE <<i>> \o f[i - 1]
  BY HoldersLoop
<1> DEFINE n == Top
           S == {m \in 0 .. n : Descends(f[m], k, m)}
<1>2. n \in Nat
  BY LayersFacts
<1>3. 0 \in S
  <2>1. Descends(<<>>, k, 0)
    BY DEF Descends
  <2> QED BY <1>1, <1>2, <2>1
<1>4. ASSUME NEW m \in 0 .. n - 1, m \in S PROVE m + 1 \in S
  <2>1. /\ m \in Nat /\ m + 1 \in 1 .. n /\ m + 1 \in 0 .. n
        /\ (m + 1) - 1 = m
        /\ Descends(f[m], k, m)
    BY <1>2, <1>4
  <2>2. f[m + 1] = IF layers[m + 1][k] = NONE THEN f[m] ELSE <<m + 1>> \o f[m]
    BY <1>1, <2>1
  <2>3. Descends(f[m + 1], k, m + 1)
    BY <2>1, <2>2, DescendsFurther, DescendsNoFurther
  <2> QED BY <2>1, <2>3
<1>5. \A m \in 0 .. n : m \in S
  <2> HIDE DEF S, n
  <2> QED BY <1>2, <1>3, <1>4, UpwardInduction
<1>6. n \in S
  BY <1>2, <1>5
<1> QED BY <1>1, <1>6


-----------------------------------------------------------------------------
(* Maps in which one name got a new value.                                 *)

Overwritten(ms, places, k, v) ==
    [i \in DOMAIN ms |-> IF i \in places THEN [ms[i] EXCEPT ![k] = v] ELSE ms[i]]

LEMMA OverwrittenType ==
    ASSUME NEW ms \in Seq(Layer), NEW D, NEW k \in Key, NEW v \in Val \cup {NONE}
    PROVE  /\ Overwritten(ms, D, k, v) \in Seq(Layer)
           /\ Len(Overwritten(ms, D, k, v)) = Len(ms)
<1> DEFINE n == Len(ms)
           o == Overwritten(ms, D, k, v)
<1>1. n \in Nat /\ DOMAIN ms = 1 .. n /\ \A i \in 1 .. n : ms[i] \in Layer
  OBVIOUS
<1>2. o = [i \in 1 .. n |-> IF i \in D THEN [ms[i] EXCEPT ![k] = v] ELSE ms[i]]
  BY <1>1 DEF Overwritten
<1>3. ASSUME NEW m \in Layer
      PROVE  [m EXCEPT ![k] = v] \in Layer
  BY DEF Layer
<1> HIDE DEF n, o
<1>4. o \in Seq(Layer) /\ Len(o) = n
  BY <1>1, <1>2, <1>3
<1> QED BY <1>4 DEF o, n

LEMMA OverwrittenValue ==
    ASSUME NEW ms \in Seq(Layer), NEW D, NEW k \in Key, NEW v,
           NEW i \in DOMAIN ms, NEW l \in Key
    PROVE  Overwritten(ms, D, k, v)[i][l]
              = IF i \in D /\ l = k THEN v ELSE ms[i][l]
<1>1. ms[i] \in Layer
  OBVIOUS
<1>2. Overwritten(ms, D, k, v)[i] = IF i \in D THEN [ms[i] EXCEPT ![k] = v] ELSE ms[i]
  BY DEF Overwritten
<1> QED BY <1>1, <1>2 DEF Layer

(* The first n holders, and what redefining them does. *)
LEMMA RedefinedFacts ==
    ASSUME TypeOK, NEW k \in Key, NEW v \in Val, NEW n \in 0 .. Len(Holders(k))
    PROVE  /\ Redefined(k, v, n)
                 = Overwritten(layers, {Holders(k)[j] : j \in 1 .. n}, k, v)
           /\ Redefined(k, v, n) \in Seq(Layer)
           /\ Len(Redefined(k, v, n)) = Top
           /\ Redefined(k, v, n) # <<>>
<1>1. layers \in Seq(Layer) /\ Top \in Nat \ {0}
  BY LayersFacts
<1>2. Redefined(k, v, n) = Overwritten(layers, {Holders(k)[j] : j \in 1 .. n}, k, v)
  BY DEF Redefined, Overwritten
<1>3. /\ Redefined(k, v, n) \in Seq(Layer)
      /\ Len(Redefined(k, v, n)) = Top
  <2> PICK D : D = {Holders(k)[j] : j \in 1 .. n}
    OBVIOUS
  <2>1. v \in Val \cup {NONE}
    OBVIOUS
  <2>2. /\ Overwritten(layers, D, k, v) \in Seq(Layer)
        /\ Len(Overwritten(layers, D, k, v)) = Len(layers)
    BY <1>1, <2>1, OverwrittenType
  <2>3. Redefined(k, v, n) = Overwritten(layers, D, k, v)
    BY <1>2
  <2> QED BY <2>2, <2>3 DEF Top
<1> QED BY <1>1, <1>2, <1>3

LEMMA HoldersFacts ==
    ASSUME TypeOK, NEW k \in Key
    PROVE  /\ Len(Holders(k)) \in Nat /\ DOMAIN Holders(k) = 1 .. Len(Holders(k))
           /\ \A j \in 1 .. Len(Holders(k)) :
                 /\ Holders(k)[j] \in 1 .. Top
                 /\ layers[Holders(k)[j]][k] \in Val
<1>1. Descends(Holders(k), k, Top)
  BY HoldersDescend
<1>2. /\ Holders(k) \in Seq(1 .. Top)
      /\ \A j \in DOMAIN Holders(k) : layers[Holders(k)[j]][k] # NONE
  BY <1>1 DEF Descends
<1> QED BY <1>2, LayersFacts

(* What sst_redefine puts in the log. *)
LEMMA RedefinitionsFacts ==
    ASSUME TypeOK, NEW k \in Key, NEW n \in 0 .. Len(Holders(k))
    PROVE  /\ Redefinitions(k, n) \in Seq(Changes)
           /\ Len(Redefinitions(k, n)) = n
           /\ DOMAIN Redefinitions(k, n) = 1 .. n
<1>1. \A j \in 1 .. n : Changed(k, layers[Holders(k)[j]][k], Holders(k)[j]) \in Changes
  BY HoldersFacts, LayersFacts DEF Changed, Changes
<1>2. n \in Nat
  BY HoldersFacts
<1> QED BY <1>1, <1>2 DEF Redefinitions

-----------------------------------------------------------------------------
(* Types.                                                                  *)

LEMMA TypeInit == Init => TypeOK
<1> SUFFICES ASSUME Init PROVE TypeOK
  OBVIOUS
<1>1. PICK m \in [Key -> CFun \cup {NONE}] : layers = <<m>>
  BY DEF Init
<1>2. m \in Layer
  BY DEF Layer, Val
<1>3. layers \in Seq(Layer) /\ layers # <<>>
  BY <1>1, <1>2
<1>4. log \in Seq(Changes) /\ snaps \in Seq(Seq(Layer))
  BY DEF Init
<1>5. cap \in Nat
  BY CapAssumption DEF Init
<1>6. /\ saving \in BOOLEAN /\ mode \in {"run", "restore", "failed", "freed", "crashed"}
      /\ used \in SUBSET Block /\ freed \in SUBSET used
      /\ base \in Seq(Layer) \cup {NoSave, Void, Wrecked}
      /\ tainted \in BOOLEAN
  BY DEF Init
<1> QED BY <1>3, <1>4, <1>5, <1>6 DEF TypeOK

(* The part of TypeOK about what is saved, for the calls that make changes. *)
LEMMA PushChangesType ==
    ASSUME TypeOK, NEW cs \in Seq(Changes), NEW before \in Seq(Seq(Layer)),
           PushChanges(cs, before)
    PROVE  log' \in Seq(Changes) /\ snaps' \in Seq(Seq(Layer))
<1>1. log \in Seq(Changes) /\ snaps \in Seq(Seq(Layer))
  BY DEF TypeOK
<1>2. log \o cs \in Seq(Changes)
  BY <1>1, ConcatProperties
<1>3. snaps \o before \in Seq(Seq(Layer))
  BY <1>1, ConcatProperties
<1> QED BY <1>1, <1>2, <1>3 DEF PushChanges

LEMMA UnloggedType ==
    ASSUME TypeOK, Unlogged
    PROVE  /\ base' \in Seq(Layer) \cup {NoSave, Void, Wrecked}
           /\ snaps' \in Seq(Seq(Layer))
<1>1. base \in Seq(Layer) \cup {NoSave, Void, Wrecked} /\ snaps \in Seq(Seq(Layer))
  BY DEF TypeOK
<1>2. <<>> \in Seq(Seq(Layer))
  OBVIOUS
<1> QED BY <1>1, <1>2 DEF Unlogged

(* The block b is somewhere in the maps ms. *)
Held(ms, b) == \E i \in DOMAIN ms, k \in Key : ms[i][k] = b

LEMMA HeldBlocks ==
    ASSUME NEW ms, NEW b \in Block
    PROVE  b \in BlocksIn(ms) <=> Held(ms, b)
<1>1. ASSUME Held(ms, b) PROVE Places(ms, b) # {}
  <2>1. PICK i \in DOMAIN ms, k \in Key : ms[i][k] = b
    BY <1>1 DEF Held
  <2>2. <<i, k>> \in Places(ms, b)
    BY <2>1 DEF Places
  <2> QED BY <2>2
<1>2. ASSUME Places(ms, b) # {} PROVE Held(ms, b)
  <2>1. PICK p \in (DOMAIN ms) \X Key : ms[p[1]][p[2]] = b
    BY <1>2 DEF Places
  <2> QED BY <2>1 DEF Held
<1> QED BY <1>1, <1>2 DEF BlocksIn

(* The values that sst_set and sst_redefine replace belong to the stack. *)
LEMMA ReplacedUsed ==
    ASSUME TypeOK, BlocksUsed, NEW i \in 1 .. Top, NEW k \in Key,
           layers[i][k] \in Block
    PROVE  layers[i][k] \in used
<1>1. Held(layers, layers[i][k])
  BY LayersFacts DEF Held
<1> QED BY <1>1, HeldBlocks DEF BlocksUsed

LEMMA PutType ==
    ASSUME TypeOK, BlocksUsed, NEW k \in Key, NEW v \in Val, Put(k, v)
    PROVE  /\ layers' = Overwritten(layers, {Top}, k, v)
           /\ layers' \in Seq(Layer) /\ layers' # <<>> /\ Len(layers') = Top
           /\ used' = used \cup ({v} \cap Block)
           /\ freed' = freed \cup ({layers[Top][k]} \cap Block)
           /\ used' \in SUBSET Block /\ freed' \in SUBSET used'
           /\ tainted' \in BOOLEAN
<1>1. layers \in Seq(Layer) /\ Top \in DOMAIN layers /\ Top \in 1 .. Top
  BY LayersFacts
<1>2. layers' = Overwritten(layers, {Top}, k, v)
  <2> DEFINE D == {Top}
  <2>1. layers' = [layers EXCEPT ![Top][k] = v]
    BY DEF Put
  <2>2. D = {Top}
    OBVIOUS
  <2> HIDE DEF D
  <2>3. layers' = Overwritten(layers, D, k, v)
    BY <1>1, <2>1, <2>2 DEF Overwritten
  <2> QED BY <2>2, <2>3
<1>3. layers' \in Seq(Layer) /\ Len(layers') = Top
  <2> DEFINE D == {Top}
  <2> HIDE DEF D
  <2>1. layers' = Overwritten(layers, D, k, v) /\ v \in Val \cup {NONE}
    BY <1>2 DEF D
  <2>2. /\ Overwritten(layers, D, k, v) \in Seq(Layer)
        /\ Len(Overwritten(layers, D, k, v)) = Len(layers)
    BY <1>1, <2>1, OverwrittenType
  <2> QED BY <2>1, <2>2 DEF Top
<1>4. layers' # <<>>
  BY <1>3, LayersFacts
<1>5. freed' = freed \cup ({layers[Top][k]} \cap Block)
  BY DEF Put, Dispose
<1>6. used' = used \cup ({v} \cap Block) /\ tainted' \in BOOLEAN
  BY DEF Put, TypeOK
<1>7. {layers[Top][k]} \cap Block \subseteq used
  BY <1>1, ReplacedUsed
<1> QED BY <1>2, <1>3, <1>4, <1>5, <1>6, <1>7 DEF TypeOK

LEMMA PutInAllType ==
    ASSUME TypeOK, BlocksUsed, NEW k \in Key, NEW v \in Val,
           NEW n \in 1 .. Len(Holders(k)), PutInAll(k, v, n)
    PROVE  /\ layers' \in Seq(Layer) /\ layers' # <<>> /\ Len(layers') = Top
           /\ used' = used \cup ({v} \cap Block)
           /\ freed' = freed \cup {b \in Block : \E j \in 1 .. n :
                                      layers[Holders(k)[j]][k] = b}
           /\ used' \in SUBSET Block /\ freed' \in SUBSET used'
           /\ tainted' \in BOOLEAN
<1>1. layers' \in Seq(Layer) /\ layers' # <<>> /\ Len(layers') = Top
  <2>1. n \in 0 .. Len(Holders(k)) /\ layers' = Redefined(k, v, n)
    BY HoldersFacts DEF PutInAll
  <2> QED BY <2>1, RedefinedFacts
<1>2. freed' = freed \cup {b \in Block : \E j \in 1 .. n :
                              layers[Holders(k)[j]][k] = b}
  BY DEF PutInAll, Dispose
<1>3. used' = used \cup ({v} \cap Block) /\ tainted' \in BOOLEAN
  BY DEF PutInAll, TypeOK
<1>4. {b \in Block : \E j \in 1 .. n : layers[Holders(k)[j]][k] = b} \subseteq used
  <2> SUFFICES ASSUME NEW j \in 1 .. n, layers[Holders(k)[j]][k] \in Block
               PROVE  layers[Holders(k)[j]][k] \in used
    OBVIOUS
  <2>1. Holders(k)[j] \in 1 .. Top
    BY HoldersFacts
  <2> QED BY <2>1, ReplacedUsed
<1> QED BY <1>1, <1>2, <1>3, <1>4 DEF TypeOK

(* The change that a restore looks at. *)
LEMMA UndoingFacts ==
    ASSUME TypeOK, NEW type, Undoing(type)
    PROVE  /\ mode = "restore" /\ log # <<>>
           /\ Last(log) \in Changes /\ Last(log).type = type
           /\ Front(log) \in Seq(Changes)
           /\ Len(log) \in Nat \ {0} /\ Last(log) = log[Len(log)]
           /\ Len(Front(log)) = Len(log) - 1
           /\ \A i \in 1 .. Len(log) - 1 : Front(log)[i] = log[i]
<1>1. log \in Seq(Changes) /\ log # <<>>
  BY DEF TypeOK, Undoing
<1>2. Len(log) \in Nat \ {0}
  BY <1>1
<1> QED BY <1>1, <1>2, LastFront DEF Undoing

LEMMA ChangeTypes ==
    ASSUME NEW c \in Changes
    PROVE  /\ c.type \in {"SSCN_SCOPE_POP", "SSCN_SET", "SSCN_ADD"}
           /\ c.type = "SSCN_SCOPE_POP" => c.layer \in Layer
           /\ c.type = "SSCN_SET" => c.key \in Key /\ c.val \in Val /\ c.idx \in Nat \ {0}
           /\ c.type = "SSCN_ADD" => c.key \in Key /\ c.idx \in Nat \ {0}
  BY DEF Changes

LEMMA ChangeDoneType ==
    ASSUME TypeOK, log # <<>>, ChangeDone
    PROVE  log' \in Seq(Changes) /\ snaps' \in Seq(Seq(Layer))
<1>1. Front(log) \in Seq(Changes) /\ Front(snaps) \in Seq(Seq(Layer))
  BY FrontType DEF TypeOK
<1> QED BY <1>1 DEF ChangeDone, TypeOK

(* The value that a restore puts in the place of one that was set. *)
Earlier == IF Last(log).type = "SSCN_SET" THEN Last(log).val ELSE NONE

LEMMA UndoneType ==
    ASSUME TypeOK, BlocksUsed, UndoSet \/ UndoAdd
    PROVE  /\ log # <<>> /\ ChangeDone
           /\ UNCHANGED <<cap, saving, base, used, tainted, mode>>
           /\ Last(log).key \in Key /\ Last(log).idx \in 1 .. Top
           /\ Earlier \in Val \cup {NONE}
           /\ layers' = Overwritten(layers, {Last(log).idx}, Last(log).key, Earlier)
           /\ layers' \in Seq(Layer) /\ layers' # <<>> /\ Len(layers') = Top
           /\ freed' = freed \cup ({layers[Last(log).idx][Last(log).key]} \cap Block)
           /\ freed' \in SUBSET used
<1> DEFINE c == Last(log)
           old == layers[c.idx][c.key]
           D == {c.idx}
<1>1. /\ log # <<>> /\ ChangeDone
      /\ UNCHANGED <<cap, saving, base, used, tainted, mode>>
      /\ c.idx <= Top /\ Dispose(<<old>>)
      /\ layers' = [layers EXCEPT ![c.idx][c.key] = Earlier]
  BY DEF UndoSet, UndoAdd, Undoing, Earlier
<1>2. /\ c.key \in Key /\ c.idx \in 1 .. Top
      /\ Earlier \in Val \cup {NONE}
  <2>1. c \in Changes /\ c.type \in {"SSCN_SET", "SSCN_ADD"}
    BY UndoingFacts DEF UndoSet, UndoAdd
  <2>2. Top \in Nat
    BY LayersFacts
  <2> QED BY <1>1, <2>1, <2>2, ChangeTypes DEF Earlier
<1>3. freed' = freed \cup ({old} \cap Block)
  <2> HIDE DEF old
  <2> QED BY <1>1 DEF Dispose
<1>4. freed' \in SUBSET used
  BY <1>2, <1>3, ReplacedUsed DEF TypeOK
<1>5. layers \in Seq(Layer) /\ DOMAIN layers = 1 .. Top
  BY LayersFacts
<1>6. D = {c.idx}
  OBVIOUS
<1> HIDE DEF D
<1>7. layers' = Overwritten(layers, D, c.key, Earlier)
  BY <1>1, <1>2, <1>5, <1>6 DEF Overwritten
<1>8. layers' \in Seq(Layer) /\ Len(layers') = Top /\ layers' # <<>>
  <2>1. /\ Overwritten(layers, D, c.key, Earlier) \in Seq(Layer)
        /\ Len(Overwritten(layers, D, c.key, Earlier)) = Len(layers)
    BY <1>2, <1>5, OverwrittenType
  <2> QED BY <1>7, <2>1, LayersFacts DEF Top
<1> QED BY <1>1, <1>2, <1>3, <1>4, <1>6, <1>7, <1>8

(* What sst_set logs. *)
LEMMA SetChange ==
    ASSUME TypeOK, NEW k \in Key
    PROVE  (IF layers[Top][k] = NONE THEN Added(k, Top)
            ELSE Changed(k, layers[Top][k], Top)) \in Changes
<1>1. layers[Top][k] \in Val \cup {NONE} /\ Top \in Nat \ {0}
  BY LayersFacts
<1>2. Added(k, Top) \in Changes
  BY <1>1 DEF Added, Changes
<1>3. layers[Top][k] \in Val => Changed(k, layers[Top][k], Top) \in Changes
  BY <1>1 DEF Changed, Changes
<1> QED BY <1>1, <1>2, <1>3

LEMMA RedefinedStates ==
    ASSUME TypeOK, NEW k \in Key, NEW v \in Val, NEW n \in 0 .. Len(Holders(k))
    PROVE  [j \in 1 .. n |-> Redefined(k, v, j - 1)] \in Seq(Seq(Layer))
<1>1. n \in Nat
  BY HoldersFacts
<1>2. \A j \in 1 .. n : Redefined(k, v, j - 1) \in Seq(Layer)
  <2> TAKE j \in 1 .. n
  <2>1. j - 1 \in 0 .. Len(Holders(k))
    BY HoldersFacts
  <2> QED BY <2>1, RedefinedFacts
<1> QED BY <1>1, <1>2

LEMMA TypeStep ==
    ASSUME TypeOK, BlocksUsed, [Next]_vars
    PROVE  TypeOK'
<1> USE DEF TypeOK
<1>1. ASSUME NEW k \in Key, NEW v \in Val, Set(k, v)
      PROVE  TypeOK'
  <2> DEFINE old == layers[Top][k]
             c == IF old = NONE THEN Added(k, Top) ELSE Changed(k, old, Top)
  <2>1. Put(k, v) /\ PushChanges(<<c>>, <<layers>>)
        /\ UNCHANGED <<cap, saving, base, mode>>
    BY <1>1 DEF Set
  <2>4. <<c>> \in Seq(Changes) /\ <<layers>> \in Seq(Seq(Layer))
    BY SetChange
  <2>5. log' \in Seq(Changes) /\ snaps' \in Seq(Seq(Layer))
    <3> HIDE DEF c, TypeOK
    <3> QED BY <2>1, <2>4, PushChangesType
  <2> QED BY <2>1, <2>5, PutType
<1>2. ASSUME NEW k \in Key, NEW v \in Val, SetUnlogged(k, v)
      PROVE  TypeOK'
  BY <1>2, PutType, UnloggedType DEF SetUnlogged
<1>3. ASSUME NEW k \in Key, NEW v \in Val, Redefine(k, v)
      PROVE  TypeOK'
  <2> DEFINE n == Len(Holders(k))
             before == [j \in 1 .. n |-> Redefined(k, v, j - 1)]
  <2>1. /\ PutInAll(k, v, n) /\ PushChanges(Redefinitions(k, n), before)
        /\ UNCHANGED <<cap, saving, base, mode>>
    BY <1>3 DEF Redefine
  <2>2. n \in 1 .. n /\ n \in 0 .. n
    <3>1. n \in Nat /\ n > 0
      BY <2>1, HoldersFacts DEF PutInAll
    <3> QED BY <3>1
  <2>3. before \in Seq(Seq(Layer))
    BY <2>2, RedefinedStates
  <2>4. log' \in Seq(Changes) /\ snaps' \in Seq(Seq(Layer))
    <3> HIDE DEF before, TypeOK
    <3> QED BY <2>1, <2>2, <2>3, RedefinitionsFacts, PushChangesType
  <2> QED BY <2>1, <2>2, <2>4, PutInAllType
<1>4. ASSUME NEW k \in Key, NEW v \in Val, RedefineUnlogged(k, v)
      PROVE  TypeOK'
  <2>1. PICK n \in 1 .. Len(Holders(k)) :
           /\ PutInAll(k, v, n)
           /\ log' = log \o Redefinitions(k, n - 1)
    BY <1>4 DEF RedefineUnlogged
  <2>2. n - 1 \in 0 .. Len(Holders(k))
    BY HoldersFacts
  <2>3. log' \in Seq(Changes)
    BY <2>1, <2>2, RedefinitionsFacts
  <2>4. Unlogged /\ UNCHANGED <<cap, saving, mode>>
    BY <1>4 DEF RedefineUnlogged
  <2> QED BY <2>1, <2>3, <2>4, PutInAllType, UnloggedType
<1>5. CASE PushScope \/ PushScopeNoMemory
  <2>1. Grown \in Nat
    BY DEF Grown
  <2>2. Append(layers, Empty) \in Seq(Layer) /\ Append(layers, Empty) # <<>>
    <3>1. Empty \in Layer /\ layers \in Seq(Layer)
      BY DEF Empty, Layer
    <3> QED BY <3>1, AppendFacts
  <2>3. CASE PushScope
    BY <2>1, <2>2, <2>3, UnloggedType DEF PushScope, blocks
  <2>4. CASE PushScopeNoMemory
    BY <2>1, <2>4 DEF PushScopeNoMemory, blocks, saves
  <2> QED BY <1>5, <2>3, <2>4
<1>6. CASE PopScope \/ PopScopeLost
  <2>1. Top > 1
    BY <1>6 DEF PopScope, PopScopeLost
  <2>2. /\ Front(layers) \in Seq(Layer) /\ Front(layers) # <<>>
        /\ Last(layers) \in Layer /\ Last(layers) = layers[Top]
    <3>1. layers \in Seq(Layer) /\ layers # <<>> /\ Len(layers) > 1
      BY <2>1 DEF Top
    <3>2. /\ Front(layers) \in Seq(Layer) /\ Len(Front(layers)) = Len(layers) - 1
          /\ Last(layers) \in Layer /\ Last(layers) = layers[Len(layers)]
      BY <3>1, LastFront
    <3> QED BY <3>1, <3>2 DEF Top
  <2>3. CASE PopScope
    <3>1. /\ PushChanges(<<Popped(Last(layers))>>, <<layers>>)
          /\ layers' = Front(layers)
          /\ UNCHANGED <<cap, saving, base, used, tainted, mode>>
      BY <2>3 DEF PopScope
    <3>2. <<Popped(Last(layers))>> \in Seq(Changes) /\ <<layers>> \in Seq(Seq(Layer))
      BY <2>2 DEF Popped, Changes
    <3>3. log' \in Seq(Changes) /\ snaps' \in Seq(Seq(Layer))
      <4> HIDE DEF TypeOK
      <4> QED BY <3>1, <3>2, PushChangesType
    <3>4. freed' \in SUBSET used
      <4>1. CASE saving
        BY <2>3, <4>1 DEF PopScope
      <4>2. CASE ~saving
        <5>1. freed' = freed \cup {b \in Block : \E p \in DOMAIN Last(layers) :
                                                    Last(layers)[p] = b}
          BY <2>3, <4>2 DEF PopScope, Dispose
        <5>2. ASSUME NEW p \in DOMAIN Last(layers), Last(layers)[p] \in Block
              PROVE  Last(layers)[p] \in used
          BY <2>2, <5>2, ReplacedUsed, LayersFacts DEF Layer
        <5> QED BY <5>1, <5>2
      <4> QED BY <4>1, <4>2
    <3> QED BY <3>1, <3>3, <3>4, <2>2
  <2>4. CASE PopScopeLost
    BY <2>2, <2>4, UnloggedType DEF PopScopeLost
  <2> QED BY <1>6, <2>3, <2>4
<1>7. CASE Save
  BY <1>7 DEF Save, stacks, blocks
<1>8. CASE Discard
  <2>1. <<>> \in Seq(Changes) /\ <<>> \in Seq(Seq(Layer))
    OBVIOUS
  <2>2. LogBlocks \subseteq used
    BY DEF BlocksUsed
  <2> QED BY <1>8, <2>1, <2>2 DEF Discard, stacks, Unsaved
<1>9. CASE BeginRestore
  BY <1>9 DEF BeginRestore, stacks, blocks
<1>10. CASE Free
  <2>1. SubSeq(layers, 1, 1) \in Seq(Layer) /\ SubSeq(layers, 1, 1) # <<>>
    BY LayersFacts
  <2>2. BlocksIn(Tail(layers)) \subseteq used
    <3> SUFFICES ASSUME NEW b \in Block, Held(Tail(layers), b) PROVE b \in used
      BY HeldBlocks DEF BlocksIn
    <3>1. PICK i \in DOMAIN Tail(layers), k \in Key : Tail(layers)[i][k] = b
      BY DEF Held
    <3>2. Tail(layers)[i] = layers[i + 1] /\ i + 1 \in 1 .. Top
      BY LayersFacts DEF Top
    <3> QED BY <3>1, <3>2, ReplacedUsed
  <2>3. LogBlocks \subseteq used
    BY DEF BlocksUsed
  <2>4. <<>> \in Seq(Changes) /\ <<>> \in Seq(Seq(Layer))
    OBVIOUS
  <2>5. /\ mode' \in {"freed", "crashed"} /\ layers' = SubSeq(layers, 1, 1)
        /\ freed' = freed \cup BlocksIn(Tail(layers)) \cup LogBlocks
        /\ saving' = FALSE /\ log' = <<>> /\ snaps' = <<>>
        /\ base' \in {NoSave, Wrecked}
        /\ UNCHANGED <<cap, used, tainted>>
    BY <1>10 DEF Free, Unsaved
  <2> QED BY <2>1, <2>2, <2>3, <2>4, <2>5
<1>11. CASE Crash
  BY <1>11 DEF Crash, stacks, saves, blocks
<1>12. CASE UndoScopePop
  <2>1. log # <<>> /\ Last(log).layer \in Layer
    BY <1>12, UndoingFacts, ChangeTypes DEF UndoScopePop
  <2>2. layers' = Append(layers, Last(log).layer) /\ ChangeDone
        /\ UNCHANGED <<cap, saving, base, used, freed, tainted, mode>>
    BY <1>12 DEF UndoScopePop, blocks
  <2>3. layers' \in Seq(Layer) /\ layers' # <<>>
    BY <2>1, <2>2, AppendFacts
  <2>4. log' \in Seq(Changes) /\ snaps' \in Seq(Seq(Layer))
    BY <2>1, <2>2, ChangeDoneType
  <2> QED BY <2>2, <2>3, <2>4
<1>13. CASE UndoSet \/ UndoAdd
  BY <1>13, UndoneType, ChangeDoneType
<1>14. CASE UndoAddFails
  BY <1>14 DEF UndoAddFails, stacks, saves, blocks
<1>15. CASE UndoInLost
  <2>1. log # <<>>
    BY <1>15 DEF UndoInLost, Undoing
  <2> QED BY <1>15, <2>1, ChangeDoneType DEF UndoInLost, stacks
<1>16. CASE RestoreDone
  BY <1>16 DEF RestoreDone, stacks, blocks, Unsaved
<1>17. CASE UNCHANGED vars
  BY <1>17 DEF vars, stacks, saves, blocks
<1> QED
  BY <1>1, <1>2, <1>3, <1>4, <1>5, <1>6, <1>7, <1>8, <1>9, <1>10, <1>11,
     <1>12, <1>13, <1>14, <1>15, <1>16, <1>17 DEF Next, Loop

-----------------------------------------------------------------------------
(* Chains of changes.                                                      *)

LEMMA ChainOfOne ==
    ASSUME NEW c, NEW a, NEW b, Undoes(c, a, b)
    PROVE  Chained(<<c>>, <<a>>, a, b)
  BY DEF Chained

(* Two chains make one. *)
LEMMA ChainConcat ==
    ASSUME NEW C, NEW V, NEW cs \in Seq(C), NEW vs \in Seq(V),
           NEW ds \in Seq(C), NEW us \in Seq(V), NEW a, NEW b, NEW c,
           Chained(cs, vs, a, b), Chained(ds, us, b, c)
    PROVE  Chained(cs \o ds, vs \o us, a, c)
<1> DEFINE l == Len(cs)
           m == Len(ds)
           es == cs \o ds
           ws == vs \o us
<1>1. /\ l \in Nat /\ m \in Nat /\ Len(vs) = l /\ Len(us) = m
      /\ DOMAIN cs = 1 .. l /\ DOMAIN ds = 1 .. m
      /\ (cs = <<>> <=> l = 0) /\ (ds = <<>> <=> m = 0)
  BY DEF Chained
<1>2. /\ Len(es) = l + m /\ DOMAIN es = 1 .. l + m /\ (es = <<>> <=> l + m = 0)
      /\ \A i \in 1 .. l + m : es[i] = IF i <= l THEN cs[i] ELSE ds[i - l]
  BY <1>1, ConcatProperties
<1>3. /\ Len(ws) = l + m
      /\ \A i \in 1 .. l + m : ws[i] = IF i <= l THEN vs[i] ELSE us[i - l]
  <2>1. /\ Len(ws) = Len(vs) + Len(us)
        /\ \A i \in 1 .. Len(vs) + Len(us) :
              ws[i] = IF i <= Len(vs) THEN vs[i] ELSE us[i - Len(vs)]
    BY ConcatProperties
  <2> QED BY <1>1, <2>1
<1>4. /\ a = IF l = 0 THEN b ELSE vs[1]
      /\ b = IF m = 0 THEN c ELSE us[1]
      /\ \A i \in 1 .. l : Undoes(cs[i], vs[i], IF i = l THEN b ELSE vs[i + 1])
      /\ \A i \in 1 .. m : Undoes(ds[i], us[i], IF i = m THEN c ELSE us[i + 1])
  BY <1>1 DEF Chained
<1> HIDE DEF l, m, es, ws
<1>5. a = IF l + m = 0 THEN c ELSE ws[1]
  BY <1>1, <1>3, <1>4
<1>6. ASSUME NEW i \in 1 .. l + m
      PROVE  Undoes(es[i], ws[i], IF i = l + m THEN c ELSE ws[i + 1])
  <2>1. CASE i < l
    <3>1. i \in 1 .. l /\ i # l /\ i # l + m /\ i + 1 \in 1 .. l + m /\ i + 1 <= l
      BY <2>1, <1>1
    <3>2. es[i] = cs[i] /\ ws[i] = vs[i] /\ ws[i + 1] = vs[i + 1]
      BY <3>1, <1>1, <1>2, <1>3
    <3> QED BY <3>1, <3>2, <1>4
  <2>2. CASE i = l
    <3>1. es[i] = cs[i] /\ ws[i] = vs[i] /\ i \in 1 .. l
      BY <2>2, <1>1, <1>2, <1>3
    <3>2. b = IF i = l + m THEN c ELSE ws[i + 1]
      <4>1. CASE m = 0
        BY <2>2, <4>1, <1>1, <1>4
      <4>2. CASE m # 0
        <5>1. l + 1 \in 1 .. l + m /\ ~(l + 1 <= l) /\ (l + 1) - l = 1
          BY <4>2, <1>1
        <5>2. ws[l + 1] = us[(l + 1) - l]
          BY <5>1, <1>3
        <5> QED BY <2>2, <4>2, <5>1, <5>2, <1>1, <1>4
      <4> QED BY <4>1, <4>2
    <3> QED BY <2>2, <3>1, <3>2, <1>4
  <2>3. CASE i > l
    <3>1. /\ i - l \in 1 .. m /\ es[i] = ds[i - l] /\ ws[i] = us[i - l]
          /\ (i = l + m <=> i - l = m)
      BY <2>3, <1>1, <1>2, <1>3
    <3>2. i # l + m => ws[i + 1] = us[(i - l) + 1]
      BY <2>3, <1>1, <1>3
    <3> QED BY <3>1, <3>2, <1>4
  <2> QED BY <2>1, <2>2, <2>3, <1>1
<1> QED BY <1>2, <1>3, <1>5, <1>6 DEF Chained, es, ws

(* Without its last change a chain leads to where that was made. *)
LEMMA ChainRetracts ==
    ASSUME NEW C, NEW V, NEW cs \in Seq(C), NEW vs \in Seq(V), cs # <<>>,
           NEW a, NEW b, Chained(cs, vs, a, b)
    PROVE  /\ vs # <<>> /\ Last(vs) \in V
           /\ Undoes(Last(cs), Last(vs), b)
           /\ Chained(Front(cs), Front(vs), a, Last(vs))
<1> DEFINE l == Len(cs)
           ds == Front(cs)
           us == Front(vs)
<1>1. /\ l \in Nat /\ l >= 1 /\ Len(vs) = l /\ DOMAIN cs = 1 .. l /\ vs # <<>>
      /\ a = vs[1]
      /\ \A i \in 1 .. l : Undoes(cs[i], vs[i], IF i = l THEN b ELSE vs[i + 1])
  BY DEF Chained
<1>2. /\ Len(ds) = l - 1 /\ \A i \in 1 .. l - 1 : ds[i] = cs[i]
      /\ Last(cs) = cs[l]
      /\ ds \in Seq(C)
  BY LastFront
<1>3. /\ Len(us) = l - 1 /\ \A i \in 1 .. l - 1 : us[i] = vs[i]
      /\ Last(vs) = vs[l] /\ Last(vs) \in V
  BY <1>1, LastFront
<1>4. DOMAIN ds = 1 .. l - 1 /\ (ds = <<>> <=> l - 1 = 0)
  BY <1>2
<1> HIDE DEF l, ds, us
<1>5. a = IF ds = <<>> THEN Last(vs) ELSE us[1]
  BY <1>1, <1>3, <1>4
<1>6. ASSUME NEW i \in 1 .. l - 1
      PROVE  Undoes(ds[i], us[i], IF i = l - 1 THEN Last(vs) ELSE us[i + 1])
  <2>1. i \in 1 .. l /\ i # l /\ ds[i] = cs[i] /\ us[i] = vs[i]
    BY <1>1, <1>2, <1>3
  <2>2. vs[i + 1] = IF i = l - 1 THEN Last(vs) ELSE us[i + 1]
    BY <1>1, <1>3
  <2> QED BY <2>1, <2>2, <1>1
<1> QED BY <1>1, <1>2, <1>3, <1>4, <1>5, <1>6 DEF Chained, ds, us

(* No scope is redefined twice. *)
LEMMA HoldersDistinct ==
    ASSUME TypeOK, NEW k \in Key, NEW i \in 1 .. Len(Holders(k)),
           NEW j \in 1 .. Len(Holders(k)), Holders(k)[i] = Holders(k)[j]
    PROVE  i = j
<1>1. DOMAIN Holders(k) = 1 .. Len(Holders(k)) /\ Len(Holders(k)) \in Nat
  BY HoldersFacts
<1>2. \A p, q \in 1 .. Len(Holders(k)) : p < q => Holders(k)[p] > Holders(k)[q]
  BY <1>1, HoldersDescend DEF Descends
<1>3. Holders(k)[i] \in 1 .. Top /\ Holders(k)[j] \in 1 .. Top /\ Top \in Nat
  BY HoldersFacts, LayersFacts
<1>4. ~(i < j) /\ ~(j < i)
  BY <1>2, <1>3
<1> QED BY <1>1, <1>4

(* One turn of the loop of sst_redefine, and its undo. *)
LEMMA RedefineTurn ==
    ASSUME TypeOK, NEW k \in Key, NEW v \in Val, NEW j \in 1 .. Len(Holders(k))
    PROVE  Undoes(Changed(k, layers[Holders(k)[j]][k], Holders(k)[j]),
                  Redefined(k, v, j - 1), Redefined(k, v, j))
<1> DEFINE h == Holders(k)[j]
           before == Redefined(k, v, j - 1)
           after == Redefined(k, v, j)
           Done(m) == {Holders(k)[p] : p \in 1 .. m}
<1>1. h \in 1 .. Top /\ DOMAIN layers = 1 .. Top /\ layers[h] \in Layer
  BY HoldersFacts, LayersFacts
<1>2. j \in Nat /\ Done(j) = Done(j - 1) \cup {h} /\ h \notin Done(j - 1)
  <2>1. j \in Nat /\ 1 .. j = (1 .. j - 1) \cup {j} /\ Len(Holders(k)) \in Nat
    BY HoldersFacts
  <2>2. ASSUME h \in Done(j - 1) PROVE FALSE
    <3>1. PICK p \in 1 .. j - 1 : Holders(k)[p] = h
      BY <2>2
    <3>2. p \in 1 .. Len(Holders(k)) /\ p # j
      BY <2>1
    <3> QED BY <3>1, <3>2, HoldersDistinct
  <2> QED BY <2>1, <2>2
<1>3. /\ before = [i \in DOMAIN layers |-> IF i \in Done(j - 1)
                      THEN [layers[i] EXCEPT ![k] = v] ELSE layers[i]]
      /\ after = [i \in DOMAIN layers |-> IF i \in Done(j)
                      THEN [layers[i] EXCEPT ![k] = v] ELSE layers[i]]
  BY DEF Redefined
<1> HIDE DEF h, before, after, Done
<1>4. h \in DOMAIN after
  BY <1>1, <1>3
<1>5. before = [after EXCEPT ![h][k] = layers[h][k]]
  <2>1. after[h] = [layers[h] EXCEPT ![k] = v] /\ before[h] = layers[h]
    BY <1>1, <1>2, <1>3
  <2>2. [after[h] EXCEPT ![k] = layers[h][k]] = layers[h]
    BY <2>1, <1>1 DEF Layer
  <2>3. \A i \in DOMAIN layers : i # h => before[i] = after[i]
    BY <1>2, <1>3
  <2>4. DOMAIN before = DOMAIN layers /\ DOMAIN after = DOMAIN layers
    BY <1>3
  <2>5. \A i \in DOMAIN layers : before[i] = [after EXCEPT ![h][k] = layers[h][k]][i]
    BY <2>1, <2>2, <2>3, <2>4
  <2> QED BY <2>4, <2>5, <1>3
<1> QED BY <1>4, <1>5 DEF Undoes, Changed, h, before, after

(* sst_redefine adds a chain to the log. *)
LEMMA RedefineChain ==
    ASSUME TypeOK, NEW k \in Key, NEW v \in Val, NEW n \in 1 .. Len(Holders(k))
    PROVE  Chained(Redefinitions(k, n), [j \in 1 .. n |-> Redefined(k, v, j - 1)],
                   layers, Redefined(k, v, n))
<1> DEFINE vs == [j \in 1 .. n |-> Redefined(k, v, j - 1)]
           cs == Redefinitions(k, n)
<1>1. /\ n \in Nat /\ n >= 1 /\ Len(vs) = n /\ Len(cs) = n /\ DOMAIN cs = 1 .. n
      /\ n \in 0 .. Len(Holders(k))
  BY HoldersFacts, RedefinitionsFacts
<1>2. layers = vs[1]
  <2>1. vs[1] = Redefined(k, v, 0)
    BY <1>1
  <2>2. Redefined(k, v, 0) = [i \in DOMAIN layers |-> layers[i]]
    BY DEF Redefined
  <2> QED BY <2>1, <2>2, LayersFacts
<1>3. ASSUME NEW i \in 1 .. n
      PROVE  Undoes(cs[i], vs[i], IF i = n THEN Redefined(k, v, n) ELSE vs[i + 1])
  <2>1. i \in 1 .. Len(Holders(k))
    BY HoldersFacts
  <2>2. /\ cs[i] = Changed(k, layers[Holders(k)[i]][k], Holders(k)[i])
        /\ vs[i] = Redefined(k, v, i - 1)
    BY DEF Redefinitions
  <2>3. (IF i = n THEN Redefined(k, v, n) ELSE vs[i + 1]) = Redefined(k, v, i)
    BY <1>1
  <2> QED BY <2>1, <2>2, <2>3, RedefineTurn
<1>4. cs # <<>>
  BY <1>1
<1> HIDE DEF cs, vs
<1> QED BY <1>1, <1>2, <1>3, <1>4 DEF Chained, cs, vs

LEMMA FrontThenLast ==
    ASSUME NEW S, NEW s \in Seq(S), s # <<>>
    PROVE  s = Append(Front(s), Last(s))
<1>1. /\ Front(s) \in Seq(S) /\ Len(Front(s)) = Len(s) - 1
      /\ \A i \in 1 .. Len(s) - 1 : Front(s)[i] = s[i]
      /\ Last(s) \in S /\ Last(s) = s[Len(s)]
  BY LastFront
<1> DEFINE t == Front(s)
           x == Last(s)
           n == Len(s)
<1>2. n \in Nat /\ n >= 1
  OBVIOUS
<1> HIDE DEF t, x, n
<1>3. /\ Append(t, x) \in Seq(S) /\ Len(Append(t, x)) = n
      /\ Append(t, x)[n] = x /\ \A i \in 1 .. n - 1 : Append(t, x)[i] = t[i]
  <2>1. t \in Seq(S) /\ x \in S /\ Len(t) = n - 1
    BY <1>1 DEF t, x, n
  <2>2. Len(t) + 1 = n
    BY <1>2, <2>1
  <2> QED BY <2>1, <2>2, AppendFacts
<1>4. \A i \in 1 .. n : s[i] = Append(t, x)[i]
  <2> TAKE i \in 1 .. n
  <2>1. CASE i = n
    BY <2>1, <1>1, <1>3 DEF x, n
  <2>2. CASE i # n
    <3>1. i \in 1 .. n - 1
      BY <2>2, <1>2
    <3> QED BY <3>1, <1>1, <1>3 DEF t, n
  <2> QED BY <2>1, <2>2
<1>5. s = Append(t, x)
  BY <1>3, <1>4, SeqEqual DEF n
<1> QED BY <1>5 DEF t, x

(* What the restore is about to undo, unless the save point was void. *)
LEMMA LastChange ==
    ASSUME TypeOK, UndoChain, LogWhileSaved, mode = "restore", base # Wrecked,
           log # <<>>
    PROVE  /\ Exact /\ snaps # <<>> /\ Last(snaps) \in Seq(Layer)
           /\ Undoes(Last(log), Last(snaps), layers)
           /\ Chained(Front(log), Front(snaps), base, Last(snaps))
<1>1. Exact
  BY DEF LogWhileSaved, Exact
<1>2. Chained(log, snaps, base, layers)
  BY <1>1 DEF UndoChain
<1>3. log \in Seq(Changes) /\ snaps \in Seq(Seq(Layer))
  BY DEF TypeOK
<1> QED BY <1>1, <1>2, <1>3, ChainRetracts

LEMMA UndoesSet ==
    ASSUME TypeOK, NEW k \in Key, NEW v \in Val, NEW after,
           after = [layers EXCEPT ![Top][k] = v]
    PROVE  Undoes(IF layers[Top][k] = NONE THEN Added(k, Top)
                  ELSE Changed(k, layers[Top][k], Top), layers, after)
<1> DEFINE old == layers[Top][k]
<1>1. /\ layers \in Seq(Layer) /\ Top \in DOMAIN layers /\ layers[Top] \in Layer
  BY LayersFacts
<1>2. Top \in DOMAIN after /\ after[Top][k] # NONE
  BY <1>1, NoneAssumption DEF Layer
<1>3. layers = [after EXCEPT ![Top][k] = old]
  <2>1. after[Top] = [layers[Top] EXCEPT ![k] = v] /\ DOMAIN after = DOMAIN layers
    BY <1>1
  <2>2. [after[Top] EXCEPT ![k] = old] = layers[Top]
    BY <1>1, <2>1 DEF Layer
  <2>3. \A i \in DOMAIN layers : i # Top => after[i] = layers[i]
    BY <1>1
  <2>4. \A i \in DOMAIN layers : [after EXCEPT ![Top][k] = old][i] = layers[i]
    BY <2>1, <2>2, <2>3
  <2>5. layers = [i \in DOMAIN layers |-> layers[i]]
    BY <1>1
  <2> HIDE DEF old
  <2> QED BY <2>1, <2>4, <2>5
<1>4. CASE old = NONE
  BY <1>2, <1>3, <1>4 DEF Undoes, Added
<1>5. CASE old # NONE
  BY <1>2, <1>3, <1>5 DEF Undoes, Changed
<1> QED BY <1>4, <1>5

(* A logged call makes the chain longer. *)
LEMMA ChainGrows ==
    ASSUME TypeOK, UndoChain, NEW cs \in Seq(Changes), NEW us \in Seq(Seq(Layer)),
           PushChanges(cs, us), saving /\ Exact => Chained(cs, us, layers, layers'),
           UNCHANGED <<saving, base, mode>>, mode = "run"
    PROVE  UndoChain'
<1> SUFFICES ASSUME Exact, saving
             PROVE  Chained(log', snaps', base', layers')
  BY DEF UndoChain, Exact
<1>1. Chained(log, snaps, base, layers)
  BY DEF UndoChain
<1>2. log \in Seq(Changes) /\ snaps \in Seq(Seq(Layer))
  BY DEF TypeOK
<1>3. Chained(log \o cs, snaps \o us, base, layers')
  BY <1>1, <1>2, ChainConcat
<1> QED BY <1>3 DEF PushChanges

(* A call that is not logged voids the save point. *)
LEMMA UnloggedVoids ==
    ASSUME Unlogged, saving' = saving, mode' = mode, mode = "run"
    PROVE  UndoChain'
  BY DEF Unlogged, UndoChain, Exact

(* A restore takes the changes back one by one. *)
LEMMA ChainShrinks ==
    ASSUME TypeOK, UndoChain, LogWhileSaved, mode = "restore", log # <<>>,
           ChangeDone, Exact => layers' = Last(snaps),
           UNCHANGED <<saving, base, mode>>
    PROVE  UndoChain'
<1> SUFFICES ASSUME Exact PROVE Chained(log', snaps', base', layers')
  BY DEF UndoChain, Exact
<1>1. Chained(Front(log), Front(snaps), base, Last(snaps))
  BY LastChange DEF Exact
<1> QED BY <1>1 DEF ChangeDone

(* The undo of a change leads to the state in which it was made. *)
LEMMA UndoExact ==
    ASSUME TypeOK, UndoChain, LogWhileSaved, base # Wrecked,
           UndoScopePop \/ UndoSet \/ UndoAdd
    PROVE  layers' = Last(snaps)
<1>1. mode = "restore" /\ log # <<>>
  BY DEF UndoScopePop, UndoSet, UndoAdd, Undoing
<1>2. Undoes(Last(log), Last(snaps), layers)
  BY <1>1, LastChange
<1> QED BY <1>2 DEF UndoScopePop, UndoSet, UndoAdd, Undoing, Undoes

(* A change is undone in a scope that is there. *)
LEMMA IndexInScopes ==
    ASSUME TypeOK, UndoChain, LogWhileSaved, mode = "restore", log # <<>>,
           Last(log).type \in {"SSCN_SET", "SSCN_ADD"}, Last(log).idx > Top
    PROVE  base = Wrecked
<1> SUFFICES ASSUME base # Wrecked PROVE FALSE
  OBVIOUS
<1>1. Undoes(Last(log), Last(snaps), layers)
  BY LastChange
<1>2. Last(log).idx \in DOMAIN layers
  BY <1>1 DEF Undoes
<1> QED BY <1>2, LayersFacts

LEMMA ChainStep ==
    ASSUME TypeOK, UndoChain, LogWhileSaved, [Next]_vars
    PROVE  UndoChain'
<1>1. ASSUME NEW k \in Key, NEW v \in Val, Set(k, v)
      PROVE  UndoChain'
  <2> DEFINE old == layers[Top][k]
             c == IF old = NONE THEN Added(k, Top) ELSE Changed(k, old, Top)
  <2>1. /\ layers' = [layers EXCEPT ![Top][k] = v] /\ PushChanges(<<c>>, <<layers>>)
        /\ UNCHANGED <<saving, base, mode>> /\ mode = "run"
    BY <1>1 DEF Set, Put
  <2>2. <<c>> \in Seq(Changes) /\ <<layers>> \in Seq(Seq(Layer))
    BY LayersFacts, SetChange
  <2>3. Undoes(c, layers, layers')
    BY <2>1, UndoesSet
  <2> HIDE DEF c
  <2>4. Chained(<<c>>, <<layers>>, layers, layers')
    BY <2>3, ChainOfOne
  <2> QED BY <2>1, <2>2, <2>4, ChainGrows
<1>2. ASSUME NEW k \in Key, NEW v \in Val, SetUnlogged(k, v)
      PROVE  UndoChain'
  BY <1>2, UnloggedVoids DEF SetUnlogged, Put
<1>3. ASSUME NEW k \in Key, NEW v \in Val, Redefine(k, v)
      PROVE  UndoChain'
  <2> DEFINE n == Len(Holders(k))
             us == [j \in 1 .. n |-> Redefined(k, v, j - 1)]
             cs == Redefinitions(k, n)
  <2>1. /\ layers' = Redefined(k, v, n) /\ PushChanges(cs, us)
        /\ UNCHANGED <<saving, base, mode>> /\ mode = "run" /\ n > 0
    BY <1>3 DEF Redefine, PutInAll
  <2>2. n \in 1 .. Len(Holders(k)) /\ n \in 0 .. Len(Holders(k))
    BY <2>1, HoldersFacts
  <2>3. cs \in Seq(Changes) /\ us \in Seq(Seq(Layer))
    BY <2>2, RedefinitionsFacts, RedefinedStates
  <2>4. Chained(cs, us, layers, layers')
    BY <2>1, <2>2, RedefineChain
  <2> HIDE DEF cs, us
  <2> QED BY <2>1, <2>3, <2>4, ChainGrows
<1>4. ASSUME NEW k \in Key, NEW v \in Val, RedefineUnlogged(k, v)
      PROVE  UndoChain'
  BY <1>4, UnloggedVoids DEF RedefineUnlogged, PutInAll
<1>5. CASE PushScope
  BY <1>5, UnloggedVoids DEF PushScope
<1>6. CASE PushScopeNoMemory
  BY <1>6 DEF PushScopeNoMemory, saves, UndoChain, Exact
<1>7. CASE PopScope
  <2> DEFINE c == Popped(Last(layers))
  <2>1. /\ layers' = Front(layers) /\ PushChanges(<<c>>, <<layers>>)
        /\ UNCHANGED <<saving, base, mode>> /\ mode = "run"
    BY <1>7 DEF PopScope
  <2>2. layers \in Seq(Layer) /\ layers # <<>>
    BY LayersFacts
  <2>3. c \in Changes
    BY <2>2, LastFront DEF Popped, Changes
  <2>4. layers = Append(layers', Last(layers))
    BY <2>1, <2>2, FrontThenLast
  <2>5. Undoes(c, layers, layers')
    BY <2>4 DEF Undoes, Popped
  <2> HIDE DEF c
  <2>6. <<c>> \in Seq(Changes) /\ <<layers>> \in Seq(Seq(Layer))
    BY <2>2, <2>3
  <2>7. Chained(<<c>>, <<layers>>, layers, layers')
    BY <2>5, ChainOfOne
  <2> QED BY <2>1, <2>6, <2>7, ChainGrows
<1>8. CASE PopScopeLost
  BY <1>8, UnloggedVoids DEF PopScopeLost
<1>9. CASE Save
  <2>1. saving \/ base = Wrecked => base' = base
    BY <1>9 DEF Save
  <2>2. CASE saving \/ base = Wrecked
    BY <1>9, <2>1, <2>2 DEF Save, stacks, UndoChain, Exact
  <2>3. CASE ~saving /\ base # Wrecked
    <3>1. log = <<>> /\ snaps = <<>> /\ mode = "run"
      BY <1>9, <2>3 DEF Save, LogWhileSaved
    <3>2. base' = layers /\ UNCHANGED <<layers, log, snaps>>
      BY <1>9, <2>3 DEF Save, stacks
    <3> QED BY <3>1, <3>2 DEF UndoChain, Chained
  <2> QED BY <2>2, <2>3
<1>10. CASE Discard
  BY <1>10 DEF Discard, UndoChain
<1>11. CASE BeginRestore
  BY <1>11 DEF BeginRestore, stacks, UndoChain, Exact
<1>12. CASE UndoScopePop \/ UndoSet \/ UndoAdd
  <2>1. /\ mode = "restore" /\ log # <<>> /\ ChangeDone
        /\ UNCHANGED <<saving, base, mode>>
    BY <1>12 DEF UndoScopePop, UndoSet, UndoAdd, Undoing
  <2>2. Exact => layers' = Last(snaps)
    BY <1>12, UndoExact DEF Exact
  <2> QED BY <2>1, <2>2, ChainShrinks
<1>13. CASE UndoInLost
  <2>1. /\ mode = "restore" /\ log # <<>> /\ Last(log).idx > Top
        /\ Last(log).type \in {"SSCN_SET", "SSCN_ADD"}
        /\ ChangeDone /\ UNCHANGED <<layers, saving, base, mode>>
    BY <1>13 DEF UndoInLost, Undoing, stacks
  <2>2. base = Wrecked
    BY <2>1, IndexInScopes
  <2> QED BY <2>1, <2>2 DEF UndoChain, Exact
<1>14. CASE UndoAddFails \/ Crash
  BY <1>14 DEF UndoAddFails, Crash, Undoing, stacks, saves, UndoChain, Exact
<1>15. CASE RestoreDone
  BY <1>15 DEF RestoreDone, UndoChain, Exact, LogWhileSaved
<1>16. CASE Free
  BY <1>16 DEF Free, UndoChain
<1>17. CASE UNCHANGED vars
  BY <1>17 DEF vars, stacks, saves, UndoChain, Exact
<1> QED
  BY <1>1, <1>2, <1>3, <1>4, <1>5, <1>6, <1>7, <1>8, <1>9, <1>10, <1>11,
     <1>12, <1>13, <1>14, <1>15, <1>16, <1>17 DEF Next, Loop

-----------------------------------------------------------------------------
(* When there is a log, how large the array is, and what fails.            *)

LEMMA LogStep ==
    ASSUME TypeOK, UndoChain, LogWhileSaved, [Next]_vars
    PROVE  LogWhileSaved'
<1> USE DEF LogWhileSaved, Exact
<1>1. ASSUME NEW k \in Key, NEW v \in Val,
             Set(k, v) \/ SetUnlogged(k, v) \/ Redefine(k, v) \/ RedefineUnlogged(k, v)
      PROVE  LogWhileSaved'
  <2>1. mode = "run" /\ mode' = "run" /\ saving' = saving
    BY <1>1 DEF Set, SetUnlogged, Redefine, RedefineUnlogged, Put, PutInAll
  <2>2. CASE Set(k, v) \/ Redefine(k, v)
    <3>1. /\ base' = base /\ (~saving => UNCHANGED <<log, snaps>>)
          /\ ~Exact => snaps' = snaps
      BY <2>2 DEF Set, Redefine, PushChanges
    <3> QED BY <2>1, <3>1
  <2>3. CASE SetUnlogged(k, v) \/ RedefineUnlogged(k, v)
    <3>1. saving /\ Unlogged
      BY <2>3 DEF SetUnlogged, RedefineUnlogged
    <3>2. base' # NoSave /\ ~Exact' /\ snaps' = <<>>
      BY <3>1, NoSaveAssumption DEF Unlogged
    <3> QED BY <2>1, <3>1, <3>2
  <2> QED BY <1>1, <2>2, <2>3
<1>2. CASE PushScope \/ PopScopeLost
  BY <1>2, NoSaveAssumption DEF PushScope, PopScopeLost, Unlogged, Exact
<1>3. CASE PopScope
  BY <1>3 DEF PopScope, PushChanges
<1>4. CASE PushScopeNoMemory
  BY <1>4 DEF PushScopeNoMemory, saves
<1>5. CASE Save
  <2>1. layers # NoSave /\ layers # Void
    BY LayersFacts, NoSaveAssumption
  <2>2. base' = IF saving \/ base = Wrecked THEN base ELSE layers
    BY <1>5 DEF Save
  <2>3. base' # NoSave
    BY <2>1, <2>2, NoSaveAssumption
  <2> QED BY <1>5, <2>3 DEF Save
<1>6. CASE Discard \/ Free
  BY <1>6, NoSaveAssumption DEF Discard, Free, Unsaved
<1>7. CASE BeginRestore
  BY <1>7, NoSaveAssumption DEF BeginRestore
<1>8. CASE UndoScopePop \/ UndoSet \/ UndoAdd \/ UndoInLost
  <2>1. mode = "restore" /\ ChangeDone /\ UNCHANGED <<saving, base, mode>>
    BY <1>8 DEF UndoScopePop, UndoSet, UndoAdd, UndoInLost, Undoing
  <2> QED BY <2>1 DEF ChangeDone
<1>9. CASE RestoreDone
  <2>1. mode = "restore" /\ log = <<>> /\ ~saving
    BY <1>9 DEF RestoreDone
  <2>2. snaps = <<>>
    <3>1. CASE Exact
      <4>1. Len(snaps) = Len(log)
        BY <2>1, <3>1 DEF UndoChain, Chained
      <4> QED BY <2>1, <4>1 DEF TypeOK
    <3> QED BY <3>1
  <2> QED BY <1>9, <2>1, <2>2, NoSaveAssumption DEF RestoreDone, Unsaved
<1>10. CASE UndoAddFails
  <2>1. /\ mode = "restore" /\ log # <<>> /\ Last(log).type = "SSCN_ADD"
        /\ layers[Last(log).idx][Last(log).key] = NONE
    BY <1>10 DEF UndoAddFails, Undoing
  <2>2. base = Wrecked
    <3> SUFFICES ASSUME base # Wrecked PROVE FALSE
      OBVIOUS
    <3>1. Undoes(Last(log), Last(snaps), layers)
      BY <2>1, LastChange
    <3> QED BY <2>1, <3>1 DEF Undoes
  <2> QED BY <1>10, <2>1, <2>2, NoSaveAssumption DEF UndoAddFails, saves
<1>11. CASE Crash
  BY <1>11 DEF Crash, saves
<1>12. CASE UNCHANGED vars
  BY <1>12 DEF vars, saves
<1> QED
  BY <1>1, <1>2, <1>3, <1>4, <1>5, <1>6, <1>7, <1>8, <1>9, <1>10, <1>11,
     <1>12 DEF Next, Loop

(* What happens to the states before the changes, and to the array. *)
LEMMA SnapsBound ==
    ASSUME TypeOK, InBounds, base # Wrecked, mode \in {"run", "restore"},
           cap' \in Nat, cap <= cap',
           \/ snaps' = snaps
           \/ snaps' = <<>>
           \/ snaps # <<>> /\ snaps' = Front(snaps)
           \/ \E us \in Seq(Seq(Layer)) :
                 snaps' = snaps \o us /\ \A j \in DOMAIN us : Len(us[j]) <= cap
    PROVE  \A j \in DOMAIN snaps' : Len(snaps'[j]) <= cap'
<1>1. /\ snaps \in Seq(Seq(Layer)) /\ cap \in Nat
      /\ \A j \in DOMAIN snaps : Len(snaps[j]) \in Nat /\ Len(snaps[j]) <= cap
  BY DEF TypeOK, InBounds
<1>2. CASE snaps' = snaps \/ snaps' = <<>>
  BY <1>1, <1>2
<1>3. CASE snaps # <<>> /\ snaps' = Front(snaps)
  <2>1. /\ snaps' \in Seq(Seq(Layer)) /\ Len(snaps') = Len(snaps) - 1
        /\ \A j \in 1 .. Len(snaps) - 1 : snaps'[j] = snaps[j]
    BY <1>1, <1>3, LastFront
  <2>2. Len(snaps) \in Nat /\ DOMAIN snaps = 1 .. Len(snaps)
        /\ DOMAIN snaps' = 1 .. Len(snaps) - 1
    BY <1>1, <2>1
  <2>3. \A j \in DOMAIN snaps' : j \in DOMAIN snaps /\ snaps'[j] = snaps[j]
    BY <2>1, <2>2
  <2> QED BY <1>1, <2>3
<1>4. ASSUME NEW us \in Seq(Seq(Layer)), snaps' = snaps \o us,
             \A j \in DOMAIN us : Len(us[j]) <= cap
      PROVE  \A j \in DOMAIN snaps' : Len(snaps'[j]) <= cap'
  <2>1. /\ Len(snaps) \in Nat /\ Len(us) \in Nat
        /\ DOMAIN snaps = 1 .. Len(snaps) /\ DOMAIN us = 1 .. Len(us)
        /\ DOMAIN snaps' = 1 .. Len(snaps) + Len(us)
    BY <1>1, <1>4
  <2>2. \A j \in 1 .. Len(snaps) + Len(us) :
           snaps'[j] = IF j <= Len(snaps) THEN snaps[j] ELSE us[j - Len(snaps)]
    BY <1>1, <1>4, ConcatProperties
  <2>3. ASSUME NEW j \in 1 .. Len(snaps) + Len(us)
        PROVE  Len(snaps'[j]) <= cap'
    <3>1. CASE j <= Len(snaps)
      <4>1. j \in DOMAIN snaps /\ snaps'[j] = snaps[j]
        BY <3>1, <2>1, <2>2
      <4>2. Len(snaps[j]) \in Nat /\ Len(snaps[j]) <= cap
        BY <4>1, <1>1
      <4> QED BY <4>1, <4>2, <1>1
    <3>2. CASE ~(j <= Len(snaps))
      <4>1. j - Len(snaps) \in DOMAIN us
        BY <3>2, <2>1
      <4>2. us[j - Len(snaps)] \in Seq(Layer)
        BY <4>1
      <4>3. Len(us[j - Len(snaps)]) <= cap /\ Len(us[j - Len(snaps)]) \in Nat
        BY <4>1, <4>2, <1>4
      <4> QED BY <3>2, <4>3, <2>2, <1>1
    <3> QED BY <3>1, <3>2
  <2> QED BY <2>1, <2>3
<1> QED BY <1>2, <1>3, <1>4

(* The array is large enough for every state that a restore comes through. *)
LEMMA BoundsStep ==
    ASSUME TypeOK, BlocksUsed, UndoChain, LogWhileSaved, InBounds, [Next]_vars
    PROVE  InBounds'
<1> SUFFICES ASSUME base' # Wrecked
             PROVE  /\ Top' <= cap'
                    /\ mode' \in {"run", "restore"} =>
                          \A j \in DOMAIN snaps' : Len(snaps'[j]) <= cap'
  BY DEF InBounds
<1> DEFINE Bound == /\ Top' <= cap'
                    /\ mode' \in {"run", "restore"} =>
                          \A j \in DOMAIN snaps' : Len(snaps'[j]) <= cap'
<1>1. Top \in Nat \ {0} /\ cap \in Nat /\ layers \in Seq(Layer)
  BY LayersFacts DEF TypeOK
<1>2. base # Wrecked => Top <= cap
  BY DEF InBounds
(* logged calls *)
<1>3. ASSUME NEW cs, NEW us \in Seq(Seq(Layer)), PushChanges(cs, us),
             \A j \in DOMAIN us : Len(us[j]) <= cap,
             cap' = cap, base # Wrecked, mode = "run"
      PROVE  \A j \in DOMAIN snaps' : Len(snaps'[j]) <= cap'
  <2>1. snaps' = snaps \/ snaps' = snaps \o us
    BY <1>3 DEF PushChanges
  <2> QED BY <1>1, <1>3, <2>1, SnapsBound, SMTT(30)
<1>4. ASSUME Unlogged, cap' \in Nat, cap <= cap', base # Wrecked, mode = "run"
      PROVE  \A j \in DOMAIN snaps' : Len(snaps'[j]) <= cap'
  BY <1>4, SnapsBound DEF Unlogged
<1>5. ASSUME NEW k \in Key, NEW v \in Val, Set(k, v)
      PROVE  Bound
  <2>1. cap' = cap /\ base # Wrecked /\ mode = "run" /\ Put(k, v)
    BY <1>5 DEF Set, Put
  <2>2. PICK cs : PushChanges(cs, <<layers>>)
    BY <1>5 DEF Set
  <2>3. Top' = Top
    BY <2>1, PutType DEF Top
  <2>4. <<layers>> \in Seq(Seq(Layer)) /\ \A j \in DOMAIN <<layers>> : Len(<<layers>>[j]) <= cap
    BY <1>1, <1>2, <2>1 DEF Top
  <2> QED BY <2>1, <2>2, <2>3, <2>4, <1>2, <1>3
<1>6. ASSUME NEW k \in Key, NEW v \in Val, SetUnlogged(k, v)
      PROVE  Bound
  <2>1. cap' = cap /\ mode = "run" /\ Put(k, v) /\ Unlogged
    BY <1>6 DEF SetUnlogged, Put
  <2>2. Top' = Top
    BY <2>1, PutType DEF Top
  <2>3. base # Wrecked
    BY <2>1 DEF Unlogged, Exact
  <2> QED BY <2>1, <2>2, <2>3, <1>1, <1>2, <1>4
<1>7. ASSUME NEW k \in Key, NEW v \in Val, Redefine(k, v)
      PROVE  Bound
  <2> DEFINE n == Len(Holders(k))
             us == [j \in 1 .. n |-> Redefined(k, v, j - 1)]
  <2>1. /\ cap' = cap /\ base # Wrecked /\ mode = "run" /\ PutInAll(k, v, n)
        /\ PushChanges(Redefinitions(k, n), us)
    BY <1>7 DEF Redefine, PutInAll
  <2>2. n \in 1 .. Len(Holders(k)) /\ n \in 0 .. Len(Holders(k))
    BY <2>1, HoldersFacts DEF PutInAll
  <2>3. Top' = Top
    BY <2>1, <2>2, PutInAllType DEF Top
  <2>4. us \in Seq(Seq(Layer))
    BY <2>2, RedefinedStates
  <2>5. \A j \in DOMAIN us : Len(us[j]) <= cap
    <3> SUFFICES ASSUME NEW j \in 1 .. n PROVE Len(Redefined(k, v, j - 1)) <= cap
      OBVIOUS
    <3>1. j - 1 \in 0 .. Len(Holders(k))
      BY <2>2
    <3> QED BY <3>1, <2>1, <1>2, RedefinedFacts
  <2> HIDE DEF us
  <2> QED BY <2>1, <2>3, <2>4, <2>5, <1>2, <1>3
<1>8. ASSUME NEW k \in Key, NEW v \in Val, RedefineUnlogged(k, v)
      PROVE  Bound
  <2>1. PICK n \in 1 .. Len(Holders(k)) : PutInAll(k, v, n)
    BY <1>8 DEF RedefineUnlogged
  <2>2. cap' = cap /\ mode = "run" /\ Unlogged
    BY <1>8 DEF RedefineUnlogged, PutInAll
  <2>3. Top' = Top
    BY <2>1, PutInAllType DEF Top
  <2>4. base # Wrecked
    BY <2>2 DEF Unlogged, Exact
  <2> QED BY <2>2, <2>3, <2>4, <1>1, <1>2, <1>4
<1>9. CASE PushScope
  <2>1. mode = "run" /\ cap' = Grown /\ Unlogged /\ Top' = Top + 1
    BY <1>9, <1>1, EmptyLayer, AppendFacts DEF PushScope, Top
  <2>2. base # Wrecked
    BY <2>1 DEF Unlogged, Exact
  <2>3. Grown \in Nat /\ Top + 1 <= Grown /\ cap <= Grown
    BY <1>1, <1>2, <2>2 DEF Grown
  <2> QED BY <2>1, <2>2, <2>3, <1>4
<1>10. CASE PushScopeNoMemory
  <2>1. mode = "run" /\ cap' = Grown /\ UNCHANGED <<layers, base, snaps>>
    BY <1>10 DEF PushScopeNoMemory, saves
  <2>2. Grown \in Nat /\ Top <= Grown /\ cap <= Grown
    BY <1>1, <1>2, <2>1 DEF Grown
  <2> QED BY <2>1, <2>2, SnapsBound DEF Top
<1>11. CASE PopScope
  <2>1. cap' = cap /\ base # Wrecked /\ mode = "run" /\ layers' = Front(layers)
    BY <1>11 DEF PopScope
  <2>2. PICK cs : PushChanges(cs, <<layers>>)
    BY <1>11 DEF PopScope
  <2>3. Top' = Top - 1
    BY <2>1, LayersFacts, LastFront DEF Top
  <2>4. <<layers>> \in Seq(Seq(Layer)) /\ \A j \in DOMAIN <<layers>> : Len(<<layers>>[j]) <= cap
    BY <1>1, <1>2, <2>1 DEF Top
  <2>5. \A j \in DOMAIN snaps' : Len(snaps'[j]) <= cap'
    BY <2>1, <2>2, <2>4, <1>3
  <2> QED BY <2>1, <2>3, <2>5, <1>1, <1>2
<1>12. CASE PopScopeLost
  <2>1. cap' = cap /\ Unlogged /\ mode = "run" /\ layers' = Front(layers)
    BY <1>12 DEF PopScopeLost
  <2>2. base # Wrecked
    BY <2>1 DEF Unlogged, Exact
  <2>3. Top' = Top - 1
    BY <2>1, LayersFacts, LastFront DEF Top
  <2>4. \A j \in DOMAIN snaps' : Len(snaps'[j]) <= cap'
    BY <2>1, <2>2, <1>1, <1>4
  <2> QED BY <2>1, <2>2, <2>3, <2>4, <1>1, <1>2
<1>13. CASE Save \/ BeginRestore \/ RestoreDone
  <2>1. /\ UNCHANGED <<layers, cap, snaps>> /\ mode \in {"run", "restore"}
        /\ base # Wrecked
    BY <1>13 DEF Save, BeginRestore, RestoreDone, stacks, Unsaved
  <2> QED BY <2>1, <1>1, <1>2, SnapsBound DEF Top
<1>14. CASE Discard \/ Free
  <2>1. cap' = cap /\ snaps' = <<>> /\ base # Wrecked
    BY <1>14 DEF Discard, Free, stacks, Unsaved
  <2>2. Top' <= Top
    <3>1. CASE Discard
      BY <3>1, <1>1 DEF Discard, stacks, Top
    <3>2. CASE Free
      <4>1. layers' = SubSeq(layers, 1, 1)
        BY <3>2 DEF Free
      <4>2. Len(layers') = 1
        BY <4>1, LayersFacts
      <4> QED BY <4>2, <1>1 DEF Top
    <3> QED BY <1>14, <3>1, <3>2
  <2>3. Top' \in Nat
    BY <1>1, <1>14, LayersFacts DEF Discard, Free, stacks, Top
  <2> QED BY <2>1, <2>2, <2>3, <1>1, <1>2
<1>15. CASE UndoScopePop \/ UndoSet \/ UndoAdd
  <2>1. /\ mode = "restore" /\ log # <<>> /\ ChangeDone /\ cap' = cap /\ base # Wrecked
    BY <1>15 DEF UndoScopePop, UndoSet, UndoAdd, Undoing
  <2>2. Exact /\ snaps # <<>> /\ layers' = Last(snaps)
    BY <2>1, <1>15, LastChange, UndoExact
  <2>3. Last(snaps) = snaps[Len(snaps)] /\ Len(snaps) \in DOMAIN snaps
    <3>1. snaps \in Seq(Seq(Layer)) /\ snaps # <<>>
      BY <2>2 DEF TypeOK
    <3>2. Len(snaps) \in DOMAIN snaps
      BY <3>1
    <3> QED BY <3>1, <3>2, LastFront
  <2>4. Top' <= cap'
    BY <2>1, <2>2, <2>3 DEF InBounds, Top
  <2>5. snaps' = Front(snaps)
    BY <2>1, <2>2 DEF ChangeDone
  <2> QED BY <2>1, <2>2, <2>4, <2>5, <1>1, SnapsBound
<1>16. CASE UndoAddFails \/ Crash
  BY <1>16, <1>1, <1>2, SnapsBound DEF UndoAddFails, Crash, stacks, saves, Top
<1>17. CASE UndoInLost
  <2>1. /\ mode = "restore" /\ log # <<>> /\ Last(log).idx > Top
        /\ Last(log).type \in {"SSCN_SET", "SSCN_ADD"} /\ base # Wrecked
    BY <1>17 DEF UndoInLost, Undoing
  <2> QED BY <2>1, IndexInScopes
<1>18. CASE UNCHANGED vars
  BY <1>18 DEF vars, stacks, saves, InBounds, Top
<1> QED
  BY <1>5, <1>6, <1>7, <1>8, <1>9, <1>10, <1>11, <1>12, <1>13, <1>14,
     <1>15, <1>16, <1>17, <1>18 DEF Next, Loop

-----------------------------------------------------------------------------
(* Owners: how many places a block has.                                    *)

(* The block b is at no two places in the maps ms. *)
Single(ms, b) ==
    \A i, j \in DOMAIN ms, k, l \in Key :
        ms[i][k] = b /\ ms[j][l] = b => i = j /\ k = l

LEMMA CountedPlaces ==
    ASSUME NEW ms \in Seq(Layer), NEW b
    PROVE  /\ Cardinality(Places(ms, b)) \in Nat
           /\ Cardinality(Places(ms, b)) = 0 <=> ~Held(ms, b)
           /\ Cardinality(Places(ms, b)) = 1 <=> Held(ms, b) /\ Single(ms, b)
<1> DEFINE P == Places(ms, b)
<1>1. IsFiniteSet(P)
  <2>1. IsFiniteSet(1 .. Len(ms)) /\ DOMAIN ms = 1 .. Len(ms)
    BY FS_Interval
  <2>2. IsFiniteSet((DOMAIN ms) \X Key)
    BY <2>1, KeyAssumption, FS_Product
  <2>3. P \subseteq (DOMAIN ms) \X Key
    BY DEF Places
  <2> QED BY <2>2, <2>3, FS_Subset
<1>2. Cardinality(P) \in Nat
  BY <1>1, FS_CardinalityType
<1>3. P = {} <=> ~Held(ms, b)
  <2>1. ASSUME Held(ms, b) PROVE P # {}
    <3>1. PICK i \in DOMAIN ms, k \in Key : ms[i][k] = b
      BY <2>1 DEF Held
    <3>2. <<i, k>> \in P
      BY <3>1 DEF Places
    <3> QED BY <3>2
  <2>2. ASSUME P # {} PROVE Held(ms, b)
    <3>1. PICK p \in (DOMAIN ms) \X Key : ms[p[1]][p[2]] = b
      BY <2>2 DEF Places
    <3> QED BY <3>1 DEF Held
  <2> QED BY <2>1, <2>2
<1>4. (\E p : P = {p}) <=> Held(ms, b) /\ Single(ms, b)
  <2>1. ASSUME NEW p, P = {p} PROVE Held(ms, b) /\ Single(ms, b)
    <3>1. ASSUME NEW i \in DOMAIN ms, NEW j \in DOMAIN ms, NEW k \in Key, NEW l \in Key,
                 ms[i][k] = b, ms[j][l] = b
          PROVE  i = j /\ k = l
      <4>1. <<i, k>> \in P /\ <<j, l>> \in P
        BY <3>1 DEF Places
      <4>2. <<i, k>> = <<j, l>>
        BY <4>1, <2>1
      <4> QED BY <4>2
    <3> QED BY <3>1, <2>1, <1>3 DEF Single
  <2>2. ASSUME Held(ms, b), Single(ms, b) PROVE \E p : P = {p}
    <3>1. PICK i \in DOMAIN ms, k \in Key : ms[i][k] = b
      BY <2>2 DEF Held
    <3>2. ASSUME NEW p \in P PROVE p = <<i, k>>
      <4>1. p \in (DOMAIN ms) \X Key /\ ms[p[1]][p[2]] = b
        BY DEF Places
      <4>2. p = <<p[1], p[2]>> /\ p[1] \in DOMAIN ms /\ p[2] \in Key
        BY <4>1
      <4>3. p[1] = i /\ p[2] = k
        BY <4>1, <4>2, <3>1, <2>2 DEF Single
      <4> QED BY <4>2, <4>3
    <3>3. <<i, k>> \in P
      BY <3>1 DEF Places
    <3> QED BY <3>2, <3>3
  <2> QED BY <2>1, <2>2
<1>5. (Cardinality(P) = 0 <=> P = {}) /\ (Cardinality(P) = 1 <=> \E p : P = {p})
  BY <1>1, FS_EmptySet, FS_Singleton
<1> QED BY <1>2, <1>3, <1>4, <1>5

(* OneOwner of the block b, as a formula without numbers: ms are the       *)
(* scopes, ps the maps in the log, alive says whether b was handed over    *)
(* and not freed.                                                          *)
Owned(ms, ps, b, alive) ==
    /\ Single(ms, b) /\ Single(ps, b)
    /\ ~(Held(ms, b) /\ Held(ps, b))
    /\ alive <=> Held(ms, b) \/ Held(ps, b)

LEMMA OwnedCount ==
    ASSUME NEW ms \in Seq(Layer), NEW ps \in Seq(Layer), NEW b, NEW alive \in BOOLEAN
    PROVE  Owned(ms, ps, b, alive)
              <=> Cardinality(Places(ms, b)) + Cardinality(Places(ps, b))
                     = IF alive THEN 1 ELSE 0
<1> DEFINE m == Cardinality(Places(ms, b))
           p == Cardinality(Places(ps, b))
<1>1. m \in Nat /\ (m = 0 <=> ~Held(ms, b)) /\ (m = 1 <=> Held(ms, b) /\ Single(ms, b))
  BY CountedPlaces
<1>2. p \in Nat /\ (p = 0 <=> ~Held(ps, b)) /\ (p = 1 <=> Held(ps, b) /\ Single(ps, b))
  BY CountedPlaces
<1> HIDE DEF m, p
<1>3. (~Held(ms, b) => Single(ms, b)) /\ (~Held(ps, b) => Single(ps, b))
  BY DEF Held, Single
<1>4. m + p = 0 <=> m = 0 /\ p = 0
  BY <1>1, <1>2
<1>5. m + p = 1 <=> (m = 1 /\ p = 0) \/ (m = 0 /\ p = 1)
  BY <1>1, <1>2
<1>6. ~(m = 0 /\ m = 1) /\ ~(p = 0 /\ p = 1)
  OBVIOUS
<1>7. Owned(ms, ps, b, alive) <=> m + p = IF alive THEN 1 ELSE 0
  BY <1>1, <1>2, <1>3, <1>4, <1>5, <1>6 DEF Owned
<1> QED BY <1>7 DEF m, p

(* One map: it has the block b, and at one place only. *)
In(m, b) == \E k \in Key : m[k] = b
Once(m, b) == \A k, l \in Key : m[k] = b /\ m[l] = b => k = l

LEMMA HeldAppend ==
    ASSUME NEW ms \in Seq(Layer), NEW m \in Layer, NEW b
    PROVE  /\ Held(Append(ms, m), b) <=> Held(ms, b) \/ In(m, b)
           /\ Single(Append(ms, m), b)
                 <=> Single(ms, b) /\ Once(m, b) /\ ~(Held(ms, b) /\ In(m, b))
<1> DEFINE n == Len(ms)
           t == Append(ms, m)
<1>1. /\ n \in Nat /\ DOMAIN ms = 1 .. n /\ DOMAIN t = 1 .. n + 1
      /\ t[n + 1] = m /\ \A i \in 1 .. n : t[i] = ms[i]
  BY AppendFacts
<1> HIDE DEF n, t
<1>2. 1 .. n + 1 = (1 .. n) \cup {n + 1} /\ n + 1 \notin 1 .. n
  BY <1>1
<1>3. Held(t, b) <=> Held(ms, b) \/ In(m, b)
  BY <1>1, <1>2 DEF Held, In
<1>4. ASSUME Single(t, b)
      PROVE  Single(ms, b) /\ Once(m, b) /\ ~(Held(ms, b) /\ In(m, b))
  <2>1. Single(ms, b)
    BY <1>4, <1>1, <1>2 DEF Single
  <2>2. Once(m, b)
    BY <1>4, <1>1, <1>2 DEF Single, Once
  <2>3. ~(Held(ms, b) /\ In(m, b))
    BY <1>4, <1>1, <1>2 DEF Single, Held, In
  <2> QED BY <2>1, <2>2, <2>3
<1>5. ASSUME Single(ms, b), Once(m, b), ~(Held(ms, b) /\ In(m, b))
      PROVE  Single(t, b)
  <2> SUFFICES ASSUME NEW i \in DOMAIN t, NEW j \in DOMAIN t, NEW k \in Key, NEW l \in Key,
                      t[i][k] = b, t[j][l] = b
               PROVE  i = j /\ k = l
    BY DEF Single
  <2>1. CASE i \in 1 .. n /\ j \in 1 .. n
    BY <2>1, <1>1, <1>5 DEF Single
  <2>2. CASE i = n + 1 /\ j = n + 1
    BY <2>2, <1>1, <1>5 DEF Once
  <2>3. CASE i \in 1 .. n /\ j = n + 1
    BY <2>3, <1>1, <1>5 DEF Held, In
  <2>4. CASE i = n + 1 /\ j \in 1 .. n
    BY <2>4, <1>1, <1>5 DEF Held, In
  <2> QED BY <1>1, <1>2, <2>1, <2>2, <2>3, <2>4
<1> QED BY <1>3, <1>4, <1>5 DEF t

(* Maps that do not have the block do not count. *)
LEMMA HeldConcat ==
    ASSUME NEW ms \in Seq(Layer), NEW ns \in Seq(Layer), NEW b, ~Held(ns, b)
    PROVE  /\ Held(ms \o ns, b) <=> Held(ms, b)
           /\ Single(ms \o ns, b) <=> Single(ms, b)
<1> DEFINE n == Len(ms)
           m == Len(ns)
           t == ms \o ns
<1>1. /\ n \in Nat /\ m \in Nat /\ DOMAIN ms = 1 .. n /\ DOMAIN ns = 1 .. m
      /\ DOMAIN t = 1 .. n + m
      /\ \A i \in 1 .. n + m : t[i] = IF i <= n THEN ms[i] ELSE ns[i - n]
  BY ConcatProperties
<1> HIDE DEF n, m, t
<1>2. ASSUME NEW i \in DOMAIN t, NEW k \in Key, t[i][k] = b
      PROVE  i \in DOMAIN ms /\ t[i] = ms[i]
  <2>1. CASE i <= n
    BY <2>1, <1>1
  <2>2. CASE ~(i <= n)
    <3>1. i - n \in DOMAIN ns /\ t[i] = ns[i - n]
      BY <2>2, <1>1
    <3> QED BY <3>1, <1>2 DEF Held
  <2> QED BY <2>1, <2>2
<1>3. \A i \in DOMAIN ms : i \in DOMAIN t /\ t[i] = ms[i]
  BY <1>1
<1>4. Held(t, b) <=> Held(ms, b)
  BY <1>2, <1>3 DEF Held
<1>5. Single(t, b) <=> Single(ms, b)
  BY <1>2, <1>3 DEF Single
<1> QED BY <1>4, <1>5 DEF t

LEMMA PayloadType ==
    ASSUME NEW c \in Changes
    PROVE  Payload(c) \in Layer
<1>1. Empty \in Layer
  BY EmptyLayer
<1>2. c.type = "SSCN_SET" => [Empty EXCEPT ![c.key] = c.val] \in Layer
  BY <1>1, ChangeTypes DEF Layer
<1> QED BY <1>1, <1>2, ChangeTypes DEF Payload

LEMMA PayloadsType ==
    ASSUME NEW cs \in Seq(Changes)
    PROVE  Payloads(cs) \in Seq(Layer) /\ Len(Payloads(cs)) = Len(cs)
<1>1. Len(cs) \in Nat /\ DOMAIN cs = 1 .. Len(cs) /\ \A j \in 1 .. Len(cs) : cs[j] \in Changes
  OBVIOUS
<1>2. \A j \in 1 .. Len(cs) : Payload(cs[j]) \in Layer
  BY <1>1, PayloadType
<1> QED BY <1>1, <1>2 DEF Payloads

LEMMA PayloadsConcat ==
    ASSUME NEW cs \in Seq(Changes), NEW ds \in Seq(Changes)
    PROVE  Payloads(cs \o ds) = Payloads(cs) \o Payloads(ds)
<1> DEFINE n == Len(cs)
           m == Len(ds)
           a == Payloads(cs)
           b == Payloads(ds)
           t == Payloads(cs \o ds)
<1>1. /\ n \in Nat /\ m \in Nat /\ a \in Seq(Layer) /\ b \in Seq(Layer)
      /\ Len(a) = n /\ Len(b) = m
  BY PayloadsType
<1>2. /\ cs \o ds \in Seq(Changes) /\ Len(cs \o ds) = n + m
      /\ \A i \in 1 .. n + m : (cs \o ds)[i] = IF i <= n THEN cs[i] ELSE ds[i - n]
  BY ConcatProperties
<1>3. t \in Seq(Layer) /\ Len(t) = n + m
  BY <1>2, PayloadsType
<1>4. /\ \A i \in 1 .. n : a[i] = Payload(cs[i])
      /\ \A i \in 1 .. m : b[i] = Payload(ds[i])
      /\ \A i \in 1 .. n + m : t[i] = Payload((cs \o ds)[i])
  BY <1>2 DEF Payloads
<1> HIDE DEF n, m, a, b, t
<1>5. /\ a \o b \in Seq(Layer) /\ Len(a \o b) = n + m
      /\ \A i \in 1 .. n + m : (a \o b)[i] = IF i <= n THEN a[i] ELSE b[i - n]
  <2>1. /\ a \o b \in Seq(Layer) /\ Len(a \o b) = Len(a) + Len(b)
        /\ \A i \in 1 .. Len(a) + Len(b) :
              (a \o b)[i] = IF i <= Len(a) THEN a[i] ELSE b[i - Len(a)]
    BY <1>1, ConcatProperties
  <2> QED BY <1>1, <2>1
<1>6. ASSUME NEW i \in 1 .. n + m PROVE t[i] = (a \o b)[i]
  <2>1. CASE i <= n
    <3>1. i \in 1 .. n
      BY <2>1, <1>1
    <3> QED BY <2>1, <3>1, <1>2, <1>4, <1>5
  <2>2. CASE ~(i <= n)
    <3>1. i - n \in 1 .. m
      BY <2>2, <1>1
    <3> QED BY <2>2, <3>1, <1>2, <1>4, <1>5
  <2> QED BY <2>1, <2>2
<1>7. t = a \o b
  BY <1>3, <1>5, <1>6, SeqEqual
<1> QED BY <1>7 DEF t, a, b

(* The payload of the last change, and those of the others. *)
LEMMA PayloadsFront ==
    ASSUME NEW cs \in Seq(Changes), cs # <<>>
    PROVE  Payloads(cs) = Append(Payloads(Front(cs)), Payload(Last(cs)))
<1> DEFINE f == Front(cs)
           c == Last(cs)
           a == Payloads(f)
<1>1. f \in Seq(Changes) /\ c \in Changes /\ cs = Append(f, c)
  BY LastFront, FrontThenLast
<1>2. a \in Seq(Layer) /\ Payload(c) \in Layer
  BY <1>1, PayloadsType, PayloadType
<1> HIDE DEF f, c
<1>3. cs = f \o <<c>> /\ <<c>> \in Seq(Changes)
  BY <1>1
<1>4. Payloads(cs) = a \o Payloads(<<c>>)
  BY <1>1, <1>3, PayloadsConcat
<1>5. Payloads(<<c>>) = <<Payload(c)>>
  BY DEF Payloads
<1> HIDE DEF a
<1>6. a \o <<Payload(c)>> = Append(a, Payload(c))
  BY <1>2
<1> QED BY <1>4, <1>5, <1>6 DEF a, f, c

(* The blocks that the scopes ms and the maps ps in the log have, when     *)
(* those in us were handed over and those in fs freed.                     *)
Owns(ms, ps, us, fs) == \A b \in Block : Owned(ms, ps, b, b \in us \ fs)

LEMMA OwnsCount ==
    ASSUME NEW ms \in Seq(Layer), NEW ps \in Seq(Layer), NEW us, NEW fs
    PROVE  (\A b \in Block : Cardinality(Places(ms, b)) + Cardinality(Places(ps, b))
                                = IF b \in us \ fs THEN 1 ELSE 0)
              <=> Owns(ms, ps, us, fs)
<1>1. ASSUME NEW b \in Block, NEW alive \in BOOLEAN
      PROVE  Owned(ms, ps, b, alive)
               <=> Cardinality(Places(ms, b)) + Cardinality(Places(ps, b))
                      = IF alive THEN 1 ELSE 0
  BY OwnedCount
<1>2. ASSUME NEW b \in Block
      PROVE  (b \in us \ fs) \in BOOLEAN
  OBVIOUS
<1>3. ASSUME NEW b \in Block
      PROVE  Owned(ms, ps, b, b \in us \ fs)
               <=> Cardinality(Places(ms, b)) + Cardinality(Places(ps, b))
                      = IF b \in us \ fs THEN 1 ELSE 0
  BY <1>1, <1>2
<1> QED BY <1>3 DEF Owns

(* A map that is overwritten in some scopes: what becomes of the block b.  *)
LEMMA OverwriteOthers ==
    ASSUME NEW ms \in Seq(Layer), NEW D \in SUBSET DOMAIN ms, NEW k \in Key, NEW v,
           NEW b, v # b, \A i \in D : ms[i][k] # b
    PROVE  /\ Held(Overwritten(ms, D, k, v), b) <=> Held(ms, b)
           /\ Single(Overwritten(ms, D, k, v), b) <=> Single(ms, b)
<1> DEFINE t == Overwritten(ms, D, k, v)
<1>1. DOMAIN t = DOMAIN ms
  BY DEF Overwritten
<1>2. \A i \in DOMAIN ms, l \in Key : t[i][l] = b <=> ms[i][l] = b
  BY OverwrittenValue
<1> HIDE DEF t
<1>3. Held(t, b) <=> Held(ms, b)
  BY <1>1, <1>2 DEF Held
<1>4. Single(t, b) <=> Single(ms, b)
  BY <1>1, <1>2 DEF Single
<1> QED BY <1>3, <1>4 DEF t

LEMMA OverwriteGone ==
    ASSUME NEW ms \in Seq(Layer), NEW D \in SUBSET DOMAIN ms, NEW k \in Key, NEW v,
           NEW b, v # b, NEW i \in D, ms[i][k] = b, Single(ms, b)
    PROVE  ~Held(Overwritten(ms, D, k, v), b)
<1> DEFINE t == Overwritten(ms, D, k, v)
<1>1. DOMAIN t = DOMAIN ms
  BY DEF Overwritten
<1>2. \A j \in DOMAIN ms, l \in Key : t[j][l] = b => ms[j][l] = b /\ ~(j \in D /\ l = k)
  BY OverwrittenValue
<1> HIDE DEF t
<1>3. \A j \in DOMAIN ms, l \in Key : ms[j][l] = b => j = i /\ l = k
  BY DEF Single
<1> QED BY <1>1, <1>2, <1>3 DEF Held, t

LEMMA OverwriteNew ==
    ASSUME NEW ms \in Seq(Layer), NEW i \in DOMAIN ms, NEW k \in Key, NEW b,
           ~Held(ms, b)
    PROVE  Held(Overwritten(ms, {i}, k, b), b) /\ Single(Overwritten(ms, {i}, k, b), b)
<1> DEFINE D == {i}
           t == Overwritten(ms, D, k, b)
<1>1. DOMAIN t = DOMAIN ms
  BY DEF Overwritten
<1>2. \A j \in DOMAIN ms, l \in Key :
         t[j][l] = IF j \in D /\ l = k THEN b ELSE ms[j][l]
  BY OverwrittenValue
<1> HIDE DEF t
<1>3. \A j \in DOMAIN ms, l \in Key : t[j][l] = b <=> j = i /\ l = k
  BY <1>2 DEF Held
<1>4. Held(t, b) /\ Single(t, b)
  BY <1>1, <1>3 DEF Held, Single
<1> QED BY <1>4 DEF t

(* A value v is put in the scopes D; ps and qs are the log before and      *)
(* after.  The values in its place are freed, v had no place.              *)
LEMMA OwnsOverwritten ==
    ASSUME NEW ms \in Seq(Layer), NEW D \in SUBSET DOMAIN ms, NEW k \in Key,
           NEW v \in Val \cup {NONE}, NEW ps, NEW qs, NEW us, NEW fs,
           Owns(ms, ps, us, fs),
           v \in Block => /\ \E i \in DOMAIN ms : D = {i}
                          /\ ~Held(ms, v) /\ ~Held(qs, v) /\ v \notin fs,
           \A b \in Block : b # v => /\ Held(qs, b) <=> Held(ps, b)
                                     /\ Single(qs, b) <=> Single(ps, b)
    PROVE  Owns(Overwritten(ms, D, k, v), qs, us \cup ({v} \cap Block),
                fs \cup {b \in Block : \E i \in D : ms[i][k] = b})
<1> DEFINE t == Overwritten(ms, D, k, v)
           us2 == us \cup ({v} \cap Block)
           fs2 == fs \cup {b \in Block : \E i \in D : ms[i][k] = b}
<1> SUFFICES ASSUME NEW b \in Block
             PROVE  Owned(t, qs, b, b \in us2 \ fs2)
  BY DEF Owns
<1>1. Owned(ms, ps, b, b \in us \ fs)
  BY DEF Owns
<1>2. CASE b = v
  <2>1. PICK i \in DOMAIN ms : D = {i}
    BY <1>2
  <2>2. Held(t, b) /\ Single(t, b)
    BY <1>2, <2>1, OverwriteNew
  <2>3. ~Held(qs, b) /\ Single(qs, b)
    BY <1>2 DEF Held, Single
  <2>4. b \in us2 \ fs2
    <3>1. ~\E j \in D : ms[j][k] = b
      BY <1>2 DEF Held
    <3> QED BY <1>2, <3>1
  <2> QED BY <2>2, <2>3, <2>4 DEF Owned
<1>3. CASE b # v /\ \A i \in D : ms[i][k] # b
  <2>1. (Held(t, b) <=> Held(ms, b)) /\ (Single(t, b) <=> Single(ms, b))
    BY <1>3, OverwriteOthers
  <2>2. b \in us2 \ fs2 <=> b \in us \ fs
    BY <1>3
  <2> QED BY <1>1, <1>3, <2>1, <2>2 DEF Owned
<1>4. ASSUME b # v, NEW i \in D, ms[i][k] = b
      PROVE  Owned(t, qs, b, b \in us2 \ fs2)
  <2>1. Held(ms, b) /\ Single(ms, b) /\ ~Held(ps, b)
    BY <1>1, <1>4 DEF Owned, Held
  <2>2. ~Held(t, b)
    BY <1>4, <2>1, OverwriteGone
  <2>3. Single(t, b)
    BY <2>2 DEF Held, Single
  <2>4. ~Held(qs, b) /\ Single(qs, b)
    BY <1>1, <1>4, <2>1 DEF Owned
  <2>5. b \notin us2 \ fs2
    BY <1>4
  <2> QED BY <2>2, <2>3, <2>4, <2>5 DEF Owned
<1> QED BY <1>2, <1>3, <1>4

(* A map goes from the scopes to the log, or back. *)
LEMMA OwnsMoved ==
    ASSUME NEW ms \in Seq(Layer), NEW ps \in Seq(Layer), NEW m \in Layer, NEW us, NEW fs
    PROVE  Owns(Append(ms, m), ps, us, fs) <=> Owns(ms, Append(ps, m), us, fs)
<1>1. ASSUME NEW b \in Block
      PROVE  Owned(Append(ms, m), ps, b, b \in us \ fs)
                <=> Owned(ms, Append(ps, m), b, b \in us \ fs)
  <2>1. /\ Held(Append(ms, m), b) <=> Held(ms, b) \/ In(m, b)
        /\ Single(Append(ms, m), b)
              <=> Single(ms, b) /\ Once(m, b) /\ ~(Held(ms, b) /\ In(m, b))
    BY HeldAppend
  <2>2. /\ Held(Append(ps, m), b) <=> Held(ps, b) \/ In(m, b)
        /\ Single(Append(ps, m), b)
              <=> Single(ps, b) /\ Once(m, b) /\ ~(Held(ps, b) /\ In(m, b))
    BY HeldAppend
  <2>3. ~In(m, b) => Once(m, b)
    BY DEF In, Once
  <2> QED BY <2>1, <2>2, <2>3 DEF Owned
<1> QED BY <1>1 DEF Owns

(* A map is thrown away with all that is in it: the last of the scopes or  *)
(* everything in the log. *)
LEMMA OwnsFreed ==
    ASSUME NEW ms \in Seq(Layer), NEW ps \in Seq(Layer), NEW us, NEW fs, NEW m \in Layer,
           Owns(Append(ms, m), ps, us, fs)
    PROVE  Owns(ms, ps, us, fs \cup {b \in Block : In(m, b)})
<1> SUFFICES ASSUME NEW b \in Block
             PROVE  Owned(ms, ps, b, b \in us \ (fs \cup {x \in Block : In(m, x)}))
  BY DEF Owns
<1>1. Owned(Append(ms, m), ps, b, b \in us \ fs)
  BY DEF Owns
<1>2. /\ Held(Append(ms, m), b) <=> Held(ms, b) \/ In(m, b)
      /\ Single(Append(ms, m), b)
            <=> Single(ms, b) /\ Once(m, b) /\ ~(Held(ms, b) /\ In(m, b))
  BY HeldAppend
<1> QED BY <1>1, <1>2 DEF Owned

(* ... the log, and all scopes but the globals. *)
LEMMA OwnsDropped ==
    ASSUME NEW ms \in Seq(Layer), NEW ns \in Seq(Layer), NEW ps \in Seq(Layer),
           NEW us, NEW fs, NEW gs,
           Owns(ms, ps, us, fs),
           \A i \in DOMAIN ns : i \in DOMAIN ms /\ ns[i] = ms[i],
           gs = {b \in Block : \E i \in DOMAIN ms \ DOMAIN ns, k \in Key : ms[i][k] = b}
    PROVE  Owns(ns, <<>>, us, fs \cup gs \cup BlocksIn(ps))
<1> SUFFICES ASSUME NEW b \in Block
             PROVE  Owned(ns, <<>>, b, b \in us \ (fs \cup gs \cup BlocksIn(ps)))
  BY DEF Owns
<1>1. Owned(ms, ps, b, b \in us \ fs) /\ (b \in BlocksIn(ps) <=> Held(ps, b))
  BY HeldBlocks DEF Owns
<1>2. ~Held(<<>>, b) /\ Single(<<>>, b)
  BY DEF Held, Single
<1>3. Single(ns, b)
  BY <1>1 DEF Owned, Single
<1>4. Held(ms, b) <=> Held(ns, b) \/ b \in gs
  BY DEF Held
<1>5. Held(ns, b) => b \notin gs
  BY <1>1 DEF Owned, Single, Held
<1> QED BY <1>1, <1>2, <1>3, <1>4, <1>5 DEF Owned

(* What is logged has no block in it while every block has an owner: the   *)
(* log is, for the blocks, what it was.                                    *)
LEMMA LogsNoBlock ==
    ASSUME TypeOK, NEW cs \in Seq(Changes), log' = log \/ log' = log \o cs,
           NEW b \in Block, log' # log => ~Held(Payloads(cs), b)
    PROVE  /\ Held(Payloads(log'), b) <=> Held(Payloads(log), b)
           /\ Single(Payloads(log'), b) <=> Single(Payloads(log), b)
<1>1. log \in Seq(Changes)
  BY DEF TypeOK
<1>2. CASE log' = log
  BY <1>2
<1>3. CASE log' # log
  <2>1. Payloads(log') = Payloads(log) \o Payloads(cs)
    BY <1>1, <1>3, PayloadsConcat
  <2>2. Payloads(log) \in Seq(Layer) /\ Payloads(cs) \in Seq(Layer)
    BY <1>1, PayloadsType
  <2> QED BY <1>3, <2>1, <2>2, HeldConcat
<1> QED BY <1>2, <1>3

LEMMA PayloadBlocks ==
    ASSUME NEW c \in Changes, NEW b \in Block
    PROVE  /\ c.type = "SSCN_SCOPE_POP" => Payload(c) = c.layer
           /\ c.type = "SSCN_SET" => (In(Payload(c), b) <=> c.val = b)
           /\ c.type = "SSCN_ADD" => ~In(Payload(c), b)
<1>1. NONE # b /\ DOMAIN Empty = Key /\ \A k \in Key : Empty[k] = NONE
  BY EmptyLayer, NoneAssumption DEF Val, Layer
<1>2. ASSUME c.type = "SSCN_SET" PROVE In(Payload(c), b) <=> c.val = b
  <2>1. Payload(c) = [Empty EXCEPT ![c.key] = c.val] /\ c.key \in Key
    BY <1>2, ChangeTypes DEF Payload
  <2>2. \A k \in Key : Payload(c)[k] = IF k = c.key THEN c.val ELSE NONE
    BY <2>1, <1>1
  <2> QED BY <2>1, <2>2, <1>1 DEF In
<1>3. ASSUME c.type = "SSCN_ADD" PROVE ~In(Payload(c), b)
  BY <1>3, <1>1 DEF Payload, In
<1> QED BY <1>2, <1>3 DEF Payload

(* A new value may be put into the scopes: nobody has it. *)
LEMMA FreshUnheld ==
    ASSUME TypeOK, BlocksUsed, NEW v \in Block, Fresh(v)
    PROVE  ~Held(layers, v) /\ ~Held(Payloads(log), v) /\ v \notin freed
<1>1. v \notin used
  BY ValAssumption DEF Fresh
<1>2. v \notin BlocksIn(layers) /\ v \notin BlocksIn(Payloads(log))
  BY <1>1 DEF BlocksUsed, LogBlocks
<1> QED BY <1>1, <1>2, HeldBlocks DEF TypeOK

LEMMA OwnerStep ==
    ASSUME TypeOK, TypeOK', UndoChain, LogWhileSaved, BlocksUsed, OneOwner, [Next]_vars
    PROVE  OneOwner'
<1> DEFINE Good == Owns(layers, Payloads(log), used, freed)
           GoodNext == Owns(layers', Payloads(log'), used', freed')
<1> SUFFICES ASSUME ~tainted', base' # Wrecked
             PROVE  GoodNext
  <2>1. layers' \in Seq(Layer) /\ Payloads(log') \in Seq(Layer)
    BY PayloadsType DEF TypeOK
  <2>2. GoodNext => \A b \in Block :
           Cardinality(Places(layers', b)) + Cardinality(Places(Payloads(log'), b))
              = IF b \in used' \ freed' THEN 1 ELSE 0
    BY <2>1, OwnsCount
  <2> QED BY <2>2 DEF OneOwner, Owners
<1>1. ~tainted /\ base # Wrecked => Good
  <2>1. layers \in Seq(Layer) /\ Payloads(log) \in Seq(Layer)
    BY PayloadsType DEF TypeOK
  <2>2. ~tainted /\ base # Wrecked => \A b \in Block :
           Cardinality(Places(layers, b)) + Cardinality(Places(Payloads(log), b))
              = IF b \in used \ freed THEN 1 ELSE 0
    BY DEF OneOwner, Owners
  <2> QED BY <2>1, <2>2, OwnsCount
<1>2. /\ layers \in Seq(Layer) /\ layers # <<>> /\ log \in Seq(Changes)
      /\ Payloads(log) \in Seq(Layer) /\ Top \in Nat \ {0} /\ DOMAIN layers = 1 .. Top
  BY LayersFacts, PayloadsType DEF TypeOK
<1> HIDE DEF Good, GoodNext
<1>3. ASSUME NEW k \in Key, NEW v \in Val, Put(k, v), NEW cs \in Seq(Changes),
             log' = log \/ log' = log \o cs, base # Wrecked,
             \A b \in Block : log' # log => ~Held(Payloads(cs), b)
      PROVE  GoodNext
  <2> DEFINE D == {Top}
             ps == Payloads(log)
             qs == Payloads(log')
  <2>1. /\ layers' = Overwritten(layers, D, k, v) /\ Fresh(v) /\ ~tainted
        /\ used' = used \cup ({v} \cap Block)
        /\ freed' = freed \cup {b \in Block : \E i \in D : layers[i][k] = b}
    BY <1>3, PutType DEF Put
  <2>2. Owns(layers, ps, used, freed)
    BY <2>1, <1>3, <1>1 DEF Good
  <2>3. \A b \in Block : /\ Held(qs, b) <=> Held(ps, b)
                         /\ Single(qs, b) <=> Single(ps, b)
    BY <1>3, LogsNoBlock
  <2>4. v \in Block => /\ \E i \in DOMAIN layers : D = {i}
                       /\ ~Held(layers, v) /\ ~Held(qs, v) /\ v \notin freed
    <3>1. v \in Block => ~Held(layers, v) /\ ~Held(ps, v) /\ v \notin freed
      BY <2>1, FreshUnheld
    <3>2. Top \in DOMAIN layers /\ D = {Top}
      BY <1>2
    <3> HIDE DEF D, ps, qs
    <3> QED BY <3>1, <3>2, <2>3
  <2>5. D \in SUBSET DOMAIN layers /\ v \in Val \cup {NONE}
    BY <1>2
  <2> HIDE DEF D, ps, qs
  <2>6. Owns(Overwritten(layers, D, k, v), qs, used \cup ({v} \cap Block),
             freed \cup {b \in Block : \E i \in D : layers[i][k] = b})
    BY <2>2, <2>3, <2>4, <2>5, <1>2, OwnsOverwritten
  <2> QED BY <2>1, <2>6 DEF GoodNext, qs
<1>4. ASSUME NEW k \in Key, NEW v \in Val, Set(k, v)
      PROVE  GoodNext
  <2> DEFINE old == layers[Top][k]
             c == IF old = NONE THEN Added(k, Top) ELSE Changed(k, old, Top)
  <2>1. /\ Put(k, v) /\ base # Wrecked /\ ~(saving /\ old \in Block)
        /\ PushChanges(<<c>>, <<layers>>)
    BY <1>4 DEF Set, Put
  <2>2. log' = IF saving THEN log \o <<c>> ELSE log
    BY <2>1 DEF PushChanges
  <2>3. <<c>> \in Seq(Changes) /\ c \in Changes
    BY SetChange
  <2>4. ASSUME NEW b \in Block, saving PROVE ~Held(Payloads(<<c>>), b)
    <3>1. ~In(Payload(c), b)
      BY <2>1, <2>3, <2>4, PayloadBlocks DEF Added, Changed
    <3>2. Payloads(<<c>>) = <<Payload(c)>>
      BY DEF Payloads
    <3> QED BY <3>1, <3>2 DEF Held, In
  <2> HIDE DEF c
  <2> QED BY <2>1, <2>2, <2>3, <2>4, <1>3
<1>5. ASSUME NEW k \in Key, NEW v \in Val, SetUnlogged(k, v)
      PROVE  GoodNext
  <2>1. Put(k, v) /\ log' = log /\ Unlogged
    BY <1>5 DEF SetUnlogged
  <2>2. base # Wrecked
    BY <2>1 DEF Unlogged, Exact
  <2>3. <<>> \in Seq(Changes)
    OBVIOUS
  <2> QED BY <2>1, <2>2, <2>3, <1>3
<1>6. ASSUME NEW k \in Key, NEW v \in Val, NEW n \in 1 .. Len(Holders(k)),
             NEW m \in 0 .. n, PutInAll(k, v, n), base # Wrecked,
             log' = IF saving THEN log \o Redefinitions(k, m) ELSE log
      PROVE  GoodNext
  <2> DEFINE D == {Holders(k)[j] : j \in 1 .. n}
             cs == Redefinitions(k, m)
             ps == Payloads(log)
             qs == Payloads(log')
  <2>1. /\ n \in 0 .. Len(Holders(k)) /\ m \in 0 .. Len(Holders(k)) /\ n \in Nat
        /\ \A j \in 1 .. n : Holders(k)[j] \in 1 .. Top
    BY HoldersFacts
  <2>2. layers' = Overwritten(layers, D, k, v)
    BY <1>6, <2>1, RedefinedFacts DEF PutInAll
  <2>3. /\ used' = used \cup ({v} \cap Block)
        /\ freed' = freed \cup {b \in Block : \E i \in D : layers[i][k] = b}
    BY <1>6, PutInAllType
  <2>4. /\ Fresh(v) /\ ~tainted /\ ~(v \in Block /\ n > 1)
        /\ saving => \A j \in 1 .. n : layers[Holders(k)[j]][k] \notin Block
    BY <1>6 DEF PutInAll
  <2>5. Owns(layers, ps, used, freed)
    BY <2>4, <1>6, <1>1 DEF Good
  <2>6. ASSUME NEW b \in Block
        PROVE  /\ Held(qs, b) <=> Held(ps, b)
               /\ Single(qs, b) <=> Single(ps, b)
    <3>1. cs \in Seq(Changes) /\ DOMAIN cs = 1 .. m
      BY <2>1, RedefinitionsFacts
    <3>2. ASSUME saving, Held(Payloads(cs), b) PROVE FALSE
      <4>1. PICK j \in 1 .. m, l \in Key : Payload(cs[j])[l] = b
        BY <3>1, <3>2 DEF Held, Payloads
      <4>2. cs[j] \in Changes
        BY <3>1
      <4>3. cs[j].type = "SSCN_SET" /\ cs[j].val = layers[Holders(k)[j]][k]
        BY DEF Redefinitions, Changed
      <4>4. In(Payload(cs[j]), b)
        BY <4>1 DEF In
      <4>5. j \in 1 .. n
        BY <1>6
      <4> QED BY <4>2, <4>3, <4>4, <4>5, <2>4, <3>2, PayloadBlocks
    <3> HIDE DEF cs
    <3>3. log' = log \/ log' = log \o cs
      BY <1>6 DEF cs
    <3>4. log' # log => ~Held(Payloads(cs), b)
      BY <1>6, <3>2
    <3> QED BY <3>1, <3>3, <3>4, LogsNoBlock
  <2>7. v \in Block => /\ \E i \in DOMAIN layers : D = {i}
                       /\ ~Held(layers, v) /\ ~Held(qs, v) /\ v \notin freed
    <3> SUFFICES ASSUME v \in Block
                 PROVE  /\ \E i \in DOMAIN layers : D = {i}
                        /\ ~Held(layers, v) /\ ~Held(qs, v) /\ v \notin freed
      OBVIOUS
    <3>1. n = 1
      BY <2>1, <2>4
    <3>2. D = {Holders(k)[1]} /\ Holders(k)[1] \in DOMAIN layers
      BY <3>1, <2>1, <1>2
    <3>3. ~Held(layers, v) /\ ~Held(ps, v) /\ v \notin freed
      BY <2>4, FreshUnheld
    <3> QED BY <3>2, <3>3, <2>6
  <2>8. D \in SUBSET DOMAIN layers /\ v \in Val \cup {NONE}
    BY <2>1, <1>2
  <2> HIDE DEF D, ps, qs, cs
  <2>9. Owns(Overwritten(layers, D, k, v), qs, used \cup ({v} \cap Block),
             freed \cup {b \in Block : \E i \in D : layers[i][k] = b})
    BY <2>5, <2>6, <2>7, <2>8, <1>2, OwnsOverwritten
  <2> QED BY <2>2, <2>3, <2>9 DEF GoodNext, qs
<1>7. ASSUME NEW k \in Key, NEW v \in Val, Redefine(k, v)
      PROVE  GoodNext
  <2> DEFINE n == Len(Holders(k))
  <2>1. PutInAll(k, v, n) /\ base # Wrecked
    BY <1>7 DEF Redefine
  <2>2. n \in 1 .. n /\ n \in 0 .. n
    BY <2>1, HoldersFacts DEF PutInAll
  <2>3. log' = IF saving THEN log \o Redefinitions(k, n) ELSE log
    BY <1>7 DEF Redefine, PushChanges
  <2> QED BY <2>1, <2>2, <2>3, <1>6
<1>8. ASSUME NEW k \in Key, NEW v \in Val, RedefineUnlogged(k, v)
      PROVE  GoodNext
  <2>1. PICK n \in 1 .. Len(Holders(k)) :
           PutInAll(k, v, n) /\ log' = log \o Redefinitions(k, n - 1)
    BY <1>8 DEF RedefineUnlogged
  <2>2. saving /\ Unlogged
    BY <1>8 DEF RedefineUnlogged
  <2>3. base # Wrecked
    BY <2>2 DEF Unlogged, Exact
  <2>4. n - 1 \in 0 .. n
    BY HoldersFacts
  <2> QED BY <2>1, <2>2, <2>3, <2>4, <1>6
<1>9. CASE PushScope
  <2>1. layers' = Append(layers, Empty) /\ UNCHANGED <<log, used, freed, tainted>>
    BY <1>9 DEF PushScope, blocks
  <2>2. base # Wrecked
    BY <1>9 DEF PushScope, Unlogged, Exact
  <2>3. Owns(layers, Payloads(log), used, freed)
    BY <2>1, <2>2, <1>1 DEF Good
  <2>4. ASSUME NEW b \in Block
        PROVE  Owned(layers', Payloads(log'), b, b \in used' \ freed')
    <3>1. ~In(Empty, b) /\ Once(Empty, b) /\ Empty \in Layer
      BY EmptyLayer, NoneAssumption DEF In, Once, Val
    <3>2. /\ Held(layers', b) <=> Held(layers, b)
          /\ Single(layers', b) <=> Single(layers, b)
      BY <2>1, <3>1, <1>2, HeldAppend
    <3> QED BY <2>1, <2>3, <3>2 DEF Owns, Owned
  <2> QED BY <2>4 DEF GoodNext, Owns
<1>10. CASE PopScope \/ PopScopeLost
  <2> DEFINE m == Last(layers)
             f == Front(layers)
  <2>1. /\ layers' = f /\ used' = used /\ m \in Layer /\ f \in Seq(Layer)
        /\ layers = Append(f, m)
    BY <1>10, <1>2, LastFront, FrontThenLast DEF PopScope, PopScopeLost
  <2>2. base # Wrecked /\ ~tainted
    <3>1. CASE PopScope
      BY <3>1 DEF PopScope
    <3>2. CASE PopScopeLost
      BY <3>2 DEF PopScopeLost, Unlogged, Exact
    <3> QED BY <1>10, <3>1, <3>2
  <2>3. Owns(layers, Payloads(log), used, freed)
    BY <2>2, <1>1 DEF Good
  <2> HIDE DEF m, f
  <2>4. Owns(f, Append(Payloads(log), m), used, freed)
    BY <2>1, <2>3, <1>2, OwnsMoved
  <2>5. Owns(f, Payloads(log), used, freed \cup {b \in Block : In(m, b)})
    BY <2>1, <2>3, <1>2, OwnsFreed
  <2>6. CASE PopScope /\ saving
    <3>1. log' = log \o <<Popped(m)>> /\ freed' = freed
      BY <2>6 DEF PopScope, PushChanges, m
    <3>2. <<Popped(m)>> \in Seq(Changes)
      BY <2>1 DEF Popped, Changes
    <3>3. Payloads(log') = Payloads(log) \o Payloads(<<Popped(m)>>)
      BY <3>1, <3>2, <1>2, PayloadsConcat
    <3>4. Payloads(<<Popped(m)>>) = <<m>>
      BY DEF Payloads, Payload, Popped
    <3>5. Payloads(log') = Append(Payloads(log), m)
      <4> DEFINE ps == Payloads(log)
      <4> HIDE DEF ps
      <4>1. ps \o <<m>> = Append(ps, m)
        BY <1>2, <2>1 DEF ps
      <4> QED BY <3>3, <3>4, <4>1 DEF ps
    <3> QED BY <2>1, <2>4, <3>1, <3>5 DEF GoodNext
  <2>7. CASE PopScope /\ ~saving
    <3>1. log' = log /\ Dispose(m)
      BY <2>7 DEF PopScope, PushChanges, m
    <3>2. freed' = freed \cup {b \in Block : In(m, b)}
      BY <3>1, <2>1 DEF Dispose, In, Layer
    <3> QED BY <2>1, <2>5, <3>1, <3>2 DEF GoodNext
  <2>8. CASE PopScopeLost
    <3>1. log' = log /\ freed' = freed /\ ~\E k \in Key : m[k] \in Block
      BY <2>8 DEF PopScopeLost, m
    <3>2. {b \in Block : In(m, b)} = {}
      BY <3>1 DEF In
    <3> QED BY <2>1, <2>5, <3>1, <3>2 DEF GoodNext
  <2> QED BY <1>10, <2>6, <2>7, <2>8
<1>11. CASE Discard
  <2>1. /\ layers' = layers /\ used' = used /\ log' = <<>> /\ ~tainted
        /\ freed' = freed \cup LogBlocks /\ base # Wrecked
    BY <1>11 DEF Discard, stacks, Unsaved
  <2>2. Owns(layers, Payloads(log), used, freed)
    BY <2>1, <1>1 DEF Good
  <2>3. Owns(layers, <<>>, used, freed \cup {} \cup BlocksIn(Payloads(log)))
    BY <2>2, <1>2, OwnsDropped
  <2>4. Payloads(log') = <<>>
    BY <2>1 DEF Payloads
  <2> QED BY <2>1, <2>3, <2>4 DEF GoodNext, LogBlocks
<1>12. CASE Free
  <2> DEFINE one == SubSeq(layers, 1, 1)
             gs == BlocksIn(Tail(layers))
  <2>1. /\ layers' = one /\ used' = used /\ log' = <<>> /\ ~tainted
        /\ freed' = freed \cup gs \cup LogBlocks /\ base # Wrecked
    BY <1>12 DEF Free, Unsaved
  <2>2. Owns(layers, Payloads(log), used, freed)
    BY <2>1, <1>1 DEF Good
  <2>3. one \in Seq(Layer) /\ DOMAIN one = {1} /\ one[1] = layers[1]
    BY <1>2
  <2>4. gs = {b \in Block : \E i \in DOMAIN layers \ DOMAIN one, k \in Key :
                               layers[i][k] = b}
    <3>1. DOMAIN Tail(layers) = 1 .. Top - 1
          /\ \A i \in 1 .. Top - 1 : Tail(layers)[i] = layers[i + 1]
      BY <1>2 DEF Top
    <3>2. ASSUME NEW b \in Block
          PROVE  Held(Tail(layers), b)
                   <=> \E i \in DOMAIN layers \ DOMAIN one, k \in Key : layers[i][k] = b
      <4>1. ASSUME NEW i \in 1 .. Top - 1 PROVE i + 1 \in DOMAIN layers \ DOMAIN one
        BY <1>2, <2>3
      <4>2. ASSUME NEW i \in DOMAIN layers \ DOMAIN one
            PROVE  i - 1 \in 1 .. Top - 1 /\ layers[i] = Tail(layers)[i - 1]
        <5>1. i \in 1 .. Top /\ i # 1
          BY <1>2, <2>3
        <5>2. i - 1 \in 1 .. Top - 1 /\ (i - 1) + 1 = i
          BY <5>1, <1>2
        <5> QED BY <5>2, <3>1
      <4> DEFINE t == Tail(layers)
      <4>3. ASSUME Held(t, b)
            PROVE  \E i \in DOMAIN layers \ DOMAIN one, k \in Key : layers[i][k] = b
        <5>1. PICK i \in DOMAIN t, k \in Key : t[i][k] = b
          BY <4>3 DEF Held
        <5>2. i \in 1 .. Top - 1 /\ layers[i + 1][k] = b
          BY <5>1, <3>1
        <5> QED BY <5>2, <4>1
      <4>4. ASSUME NEW i \in DOMAIN layers \ DOMAIN one, NEW k \in Key, layers[i][k] = b
            PROVE  Held(t, b)
        <5>1. i - 1 \in DOMAIN t /\ t[i - 1][k] = b
          BY <4>2, <4>4, <3>1
        <5> QED BY <5>1 DEF Held
      <4> QED BY <4>3, <4>4
    <3>3. \A b \in Block : b \in gs <=> Held(Tail(layers), b)
      BY HeldBlocks
    <3> QED BY <3>2, <3>3 DEF BlocksIn
  <2> HIDE DEF one, gs
  <2>7. \A i \in DOMAIN one : i \in DOMAIN layers /\ one[i] = layers[i]
    BY <2>3, <1>2
  <2>5. Owns(one, <<>>, used, freed \cup gs \cup BlocksIn(Payloads(log)))
    <3> DEFINE ps == Payloads(log)
    <3>1. Owns(layers, ps, used, freed) /\ ps \in Seq(Layer)
      BY <2>2, <1>2
    <3> HIDE DEF ps
    <3>2. Owns(one, <<>>, used, freed \cup gs \cup BlocksIn(ps))
      BY <2>3, <2>4, <2>7, <3>1, <1>2, OwnsDropped
    <3> QED BY <3>2 DEF ps
  <2>6. Payloads(log') = <<>>
    BY <2>1 DEF Payloads
  <2> QED BY <2>1, <2>5, <2>6 DEF GoodNext, LogBlocks
<1>13. CASE UndoScopePop
  <2> DEFINE c == Last(log)
             ps == Payloads(Front(log))
  <2>1. /\ mode = "restore" /\ log # <<>> /\ c \in Changes /\ c.type = "SSCN_SCOPE_POP"
        /\ layers' = Append(layers, c.layer) /\ log' = Front(log)
        /\ UNCHANGED <<base, used, freed, tainted>>
    BY <1>13, UndoingFacts DEF UndoScopePop, ChangeDone, blocks
  <2>2. Payloads(log) = Append(ps, c.layer) /\ c.layer \in Layer
    BY <2>1, <1>2, PayloadsFront, ChangeTypes DEF Payload
  <2>3. ps \in Seq(Layer)
    BY <2>1, <1>2, LastFront, PayloadsType
  <2>4. Owns(layers, Payloads(log), used, freed)
    BY <2>1, <1>1 DEF Good
  <2> HIDE DEF c, ps
  <2>5. Owns(Append(layers, c.layer), ps, used, freed)
    BY <2>2, <2>3, <2>4, <1>2, OwnsMoved
  <2> QED BY <2>1, <2>5 DEF GoodNext, ps
<1>14. CASE UndoSet \/ UndoAdd
  <2> DEFINE c == Last(log)
             D == {c.idx}
             ps == Payloads(log)
             qs == Payloads(Front(log))
             m == Payload(c)
  <2>1. /\ log # <<>> /\ log' = Front(log) /\ c.key \in Key /\ c.idx \in DOMAIN layers
        /\ UNCHANGED <<base, used, tainted>> /\ Earlier \in Val \cup {NONE}
        /\ layers' = Overwritten(layers, D, c.key, Earlier)
        /\ freed' = freed \cup {b \in Block : \E i \in D : layers[i][c.key] = b}
    BY <1>14, <1>2, UndoneType DEF ChangeDone
  <2>2. Owns(layers, ps, used, freed)
    BY <2>1, <1>1 DEF Good
  <2>3. c \in Changes /\ c.type \in {"SSCN_SET", "SSCN_ADD"}
    BY <1>14, UndoingFacts DEF UndoSet, UndoAdd
  <2>4. ps = Append(qs, m) /\ m \in Layer /\ qs \in Seq(Layer)
    BY <2>1, <2>3, <1>2, PayloadsFront, PayloadType, PayloadsType, LastFront
  <2>5. \A b \in Block : In(m, b) <=> Earlier = b
    BY <2>3, PayloadBlocks, NoneAssumption DEF Earlier, Val
  <2> HIDE DEF ps, qs, m
  <2>6. ASSUME NEW b \in Block
        PROVE  /\ Held(ps, b) <=> Held(qs, b) \/ In(m, b)
               /\ Single(ps, b)
                     <=> Single(qs, b) /\ Once(m, b) /\ ~(Held(qs, b) /\ In(m, b))
    BY <2>4, HeldAppend
  <2>7. \A b \in Block : b # Earlier => /\ Held(qs, b) <=> Held(ps, b)
                                        /\ Single(qs, b) <=> Single(ps, b)
    BY <2>5, <2>6 DEF Once, In
  <2>8. Earlier \in Block => /\ \E i \in DOMAIN layers : D = {i}
                             /\ ~Held(layers, Earlier) /\ ~Held(qs, Earlier)
                             /\ Earlier \in used \ freed
    <3> SUFFICES ASSUME Earlier \in Block
                 PROVE  ~Held(layers, Earlier) /\ ~Held(qs, Earlier)
                           /\ Earlier \in used \ freed
      BY <2>1
    <3>1. Owned(layers, ps, Earlier, Earlier \in used \ freed)
      BY <2>2 DEF Owns
    <3>2. Held(ps, Earlier) /\ In(m, Earlier)
      BY <2>5, <2>6
    <3> QED BY <3>1, <3>2, <2>6 DEF Owned
  <2>9. D \in SUBSET DOMAIN layers
    BY <2>1
  <2> HIDE DEF D, c
  <2>10. Owns(Overwritten(layers, D, c.key, Earlier), qs, used \cup ({Earlier} \cap Block),
              freed \cup {b \in Block : \E i \in D : layers[i][c.key] = b})
    BY <2>1, <2>2, <2>7, <2>8, <2>9, <1>2, OwnsOverwritten
  <2>11. used' = used \cup ({Earlier} \cap Block)
    BY <2>1, <2>8
  <2> QED BY <2>1, <2>10, <2>11 DEF GoodNext, qs
<1>15. CASE UndoInLost
  <2>1. /\ mode = "restore" /\ log # <<>> /\ Last(log).idx > Top
        /\ Last(log).type \in {"SSCN_SET", "SSCN_ADD"} /\ base # Wrecked
    BY <1>15 DEF UndoInLost, Undoing
  <2> QED BY <2>1, IndexInScopes
<1>16. ASSUME UNCHANGED <<layers, log, used, freed, tainted>>, base # Wrecked
       PROVE  GoodNext
  BY <1>16, <1>1 DEF Good, GoodNext
<1>17. CASE PushScopeNoMemory \/ Save \/ BeginRestore \/ UndoAddFails
            \/ RestoreDone \/ Crash \/ UNCHANGED vars
  <2>1. UNCHANGED <<layers, log, used, freed, tainted>>
    BY <1>17 DEF PushScopeNoMemory, Save, BeginRestore, UndoAddFails,
                 RestoreDone, Crash, vars, stacks, saves, blocks
  <2>2. base # Wrecked
    BY <1>17 DEF PushScopeNoMemory, Save, BeginRestore, UndoAddFails,
                 RestoreDone, Crash, vars, saves, Unsaved
  <2> QED BY <2>1, <2>2, <1>16
<1> QED
  BY <1>4, <1>5, <1>7, <1>8, <1>9, <1>10, <1>11, <1>12, <1>13, <1>14, <1>15,
     <1>17 DEF Next, Loop

-----------------------------------------------------------------------------
(* What fails, and what was handed over.                                   *)

LEMMA FailStep ==
    ASSUME TypeOK, UndoChain, LogWhileSaved, InBounds, UndoNeverFails, OneOwner,
           [Next]_vars
    PROVE  UndoNeverFails'
<1> SUFFICES ASSUME mode' \in {"failed", "crashed"}
             PROVE  base' = Wrecked \/ tainted'
  BY DEF UndoNeverFails
<1>1. CASE UndoAddFails
  <2>1. /\ mode = "restore" /\ log # <<>> /\ Last(log).type = "SSCN_ADD"
        /\ layers[Last(log).idx][Last(log).key] = NONE /\ base' = base
    BY <1>1 DEF UndoAddFails, Undoing, saves
  <2>2. base = Wrecked
    <3> SUFFICES ASSUME base # Wrecked PROVE FALSE
      OBVIOUS
    <3>1. Undoes(Last(log), Last(snaps), layers)
      BY <2>1, LastChange
    <3> QED BY <2>1, <3>1 DEF Undoes
  <2> QED BY <2>1, <2>2
<1>2. CASE Crash
  <2>1. /\ Dangling # {} \/ Top > cap
        /\ UNCHANGED <<base, tainted>>
    BY <1>2 DEF Crash, saves, blocks
  <2>2. ASSUME base # Wrecked, ~tainted PROVE FALSE
    <3>1. Top <= cap /\ Top \in Nat /\ cap \in Nat
      BY <2>2, LayersFacts DEF InBounds, TypeOK
    <3>2. Owns(layers, Payloads(log), used, freed)
      <4>1. layers \in Seq(Layer) /\ Payloads(log) \in Seq(Layer)
        BY PayloadsType DEF TypeOK
      <4>2. \A b \in Block :
               Cardinality(Places(layers, b)) + Cardinality(Places(Payloads(log), b))
                  = IF b \in used \ freed THEN 1 ELSE 0
        BY <2>2 DEF OneOwner, Owners
      <4> QED BY <4>1, <4>2, OwnsCount
    <3>3. PICK b \in freed : b \in LogBlocks \cup BlocksIn(layers)
      BY <2>1, <3>1 DEF Dangling
    <3>4. b \in Block /\ (Held(layers, b) \/ Held(Payloads(log), b))
      BY <3>3, HeldBlocks DEF LogBlocks, BlocksIn
    <3> QED BY <3>2, <3>3, <3>4 DEF Owns, Owned
  <2> QED BY <2>1, <2>2
<1>3. CASE Free
  <2>1. mode = "failed"
    BY <1>3 DEF Free
  <2> QED BY <1>3, <2>1 DEF Free, Unsaved, LogWhileSaved
<1>4. CASE UNCHANGED vars
  BY <1>4 DEF vars, saves, blocks, UndoNeverFails
<1>5. CASE ~(UndoAddFails \/ Crash \/ Free \/ UNCHANGED vars)
  <2>1. mode' \in {"run", "restore"}
    BY <1>5, ZenonT(40) DEF Next, Loop, Set, SetUnlogged, Redefine, RedefineUnlogged, Put, PutInAll,
                PushScope, PushScopeNoMemory, PopScope, PopScopeLost, Save, Discard,
                BeginRestore, UndoScopePop, UndoSet, UndoAdd, UndoInLost, Undoing,
                RestoreDone
  <2> QED BY <2>1
<1> QED BY <1>1, <1>2, <1>3, <1>4, <1>5

(* Everything that is in the maps ms was handed over. *)
LEMMA BlocksUsedHeld ==
    BlocksUsed <=> \A b \in Block : Held(layers, b) \/ Held(Payloads(log), b) => b \in used
<1>1. \A b \in Block : /\ b \in BlocksIn(layers) <=> Held(layers, b)
                       /\ b \in LogBlocks <=> Held(Payloads(log), b)
  BY HeldBlocks DEF LogBlocks
<1>2. BlocksIn(layers) \subseteq Block /\ LogBlocks \subseteq Block
  BY DEF BlocksIn, LogBlocks
<1> QED BY <1>1, <1>2 DEF BlocksUsed

LEMMA HeldInLog ==
    ASSUME TypeOK, NEW cs \in Seq(Changes), log' = log \/ log' = log \o cs,
           NEW b, Held(Payloads(log'), b)
    PROVE  Held(Payloads(log), b) \/ \E j \in DOMAIN cs : In(Payload(cs[j]), b)
<1>1. log \in Seq(Changes)
  BY DEF TypeOK
<1>2. PICK i \in DOMAIN log', k \in Key : Payload(log'[i])[k] = b
  BY DEF Held, Payloads
<1>3. CASE log' = log
  BY <1>3
<1>4. CASE log' = log \o cs
  <2>1. /\ i \in 1 .. Len(log) + Len(cs) /\ Len(log) \in Nat /\ Len(cs) \in Nat
        /\ log'[i] = IF i <= Len(log) THEN log[i] ELSE cs[i - Len(log)]
    BY <1>1, <1>2, <1>4, ConcatProperties
  <2>2. CASE i <= Len(log)
    <3>1. i \in DOMAIN log /\ log'[i] = log[i]
      BY <2>1, <2>2, <1>1
    <3> QED BY <3>1, <1>2 DEF Held, Payloads
  <2>3. CASE ~(i <= Len(log))
    <3>1. i - Len(log) \in DOMAIN cs /\ log'[i] = cs[i - Len(log)]
      BY <2>1, <2>3
    <3> QED BY <3>1, <1>2 DEF In
  <2> QED BY <2>2, <2>3
<1> QED BY <1>3, <1>4

LEMMA HeldOverwritten ==
    ASSUME NEW ms \in Seq(Layer), NEW D, NEW k \in Key, NEW v, NEW b,
           Held(Overwritten(ms, D, k, v), b)
    PROVE  b = v \/ Held(ms, b)
<1> DEFINE t == Overwritten(ms, D, k, v)
<1>1. DOMAIN t = DOMAIN ms
  BY DEF Overwritten
<1>2. \A i \in DOMAIN ms, l \in Key : t[i][l] \in {v, ms[i][l]}
  BY OverwrittenValue
<1>3. Held(t, b)
  OBVIOUS
<1> HIDE DEF t
<1> QED BY <1>1, <1>2, <1>3 DEF Held

LEMMA UsedStep ==
    ASSUME TypeOK, BlocksUsed, [Next]_vars
    PROVE  BlocksUsed'
<1> SUFFICES ASSUME NEW b \in Block, Held(layers', b) \/ Held(Payloads(log'), b)
             PROVE  b \in used'
  <2>1. \A x \in Block : /\ x \in BlocksIn(layers') <=> Held(layers', x)
                         /\ x \in LogBlocks' <=> Held(Payloads(log'), x)
    BY HeldBlocks DEF LogBlocks
  <2>2. BlocksIn(layers') \subseteq Block /\ LogBlocks' \subseteq Block
    BY DEF BlocksIn, LogBlocks
  <2> QED BY <2>1, <2>2 DEF BlocksUsed
<1>1. Held(layers, b) \/ Held(Payloads(log), b) => b \in used
  BY BlocksUsedHeld
<1>2. /\ layers \in Seq(Layer) /\ layers # <<>> /\ log \in Seq(Changes)
      /\ Top \in Nat \ {0} /\ DOMAIN layers = 1 .. Top
  BY LayersFacts DEF TypeOK
<1>3. \A i \in 1 .. Top, k \in Key : layers[i][k] = b => Held(layers, b)
  BY <1>2 DEF Held
<1>4. ASSUME NEW k \in Key, NEW v \in Val, Set(k, v) \/ SetUnlogged(k, v)
      PROVE  b \in used'
  <2> DEFINE old == layers[Top][k]
             c == IF old = NONE THEN Added(k, Top) ELSE Changed(k, old, Top)
  <2>1. Put(k, v) /\ (log' = log \/ log' = log \o <<c>>)
    BY <1>4 DEF Set, SetUnlogged, PushChanges
  <2>2. <<c>> \in Seq(Changes) /\ c \in Changes
    BY SetChange
  <2>3. In(Payload(c), b) => old = b
    BY <2>2, PayloadBlocks DEF Added, Changed
  <2>4. In(Payload(c), b) => Held(layers, b)
    BY <2>3, <1>2, <1>3
  <2> DEFINE cs == <<c>>
  <2>5. Held(Payloads(log'), b) => Held(Payloads(log), b) \/ Held(layers, b)
    <3>1. \A j \in DOMAIN cs : cs[j] = c
      OBVIOUS
    <3>2. cs \in Seq(Changes) /\ (log' = log \/ log' = log \o cs)
      BY <2>1, <2>2
    <3> HIDE DEF c, cs
    <3> QED BY <3>1, <3>2, <2>4, HeldInLog
  <2> HIDE DEF c
  <2>6. Held(layers', b) => b = v \/ Held(layers, b)
    BY <2>1, <1>2, PutType, HeldOverwritten
  <2>7. used' = used \cup ({v} \cap Block)
    BY <2>1, PutType
  <2> QED BY <2>5, <2>6, <2>7, <1>1
<1>5. ASSUME NEW k \in Key, NEW v \in Val, Redefine(k, v) \/ RedefineUnlogged(k, v)
      PROVE  b \in used'
  <2>1. \E n \in 1 .. Len(Holders(k)), m \in 0 .. Len(Holders(k)) :
           /\ PutInAll(k, v, n)
           /\ log' = log \/ log' = log \o Redefinitions(k, m)
    <3>1. CASE Redefine(k, v)
      <4> DEFINE n == Len(Holders(k))
      <4>1. PutInAll(k, v, n) /\ (log' = log \/ log' = log \o Redefinitions(k, n))
        BY <3>1 DEF Redefine, PushChanges
      <4>2. n \in 1 .. n /\ n \in 0 .. n
        BY <4>1, HoldersFacts DEF PutInAll
      <4> HIDE DEF n
      <4> QED BY <4>1, <4>2 DEF n
    <3>2. CASE RedefineUnlogged(k, v)
      <4>1. PICK n \in 1 .. Len(Holders(k)) :
               PutInAll(k, v, n) /\ log' = log \o Redefinitions(k, n - 1)
        BY <3>2 DEF RedefineUnlogged
      <4>2. n - 1 \in 0 .. Len(Holders(k))
        BY HoldersFacts
      <4> QED BY <4>1, <4>2
    <3> QED BY <1>5, <3>1, <3>2
  <2>2. PICK n \in 1 .. Len(Holders(k)), m \in 0 .. Len(Holders(k)) :
           /\ PutInAll(k, v, n)
           /\ log' = log \/ log' = log \o Redefinitions(k, m)
    BY <2>1
  <2> DEFINE cs == Redefinitions(k, m)
  <2>3. cs \in Seq(Changes) /\ DOMAIN cs = 1 .. m
    BY RedefinitionsFacts
  <2>4. ASSUME NEW j \in DOMAIN cs, In(Payload(cs[j]), b)
        PROVE  Held(layers, b)
    <3>1. j \in 1 .. Len(Holders(k)) /\ cs[j] \in Changes
      BY <2>3, HoldersFacts
    <3>2. cs[j].type = "SSCN_SET" /\ cs[j].val = layers[Holders(k)[j]][k]
      BY <2>3 DEF Redefinitions, Changed
    <3>3. layers[Holders(k)[j]][k] = b
      BY <3>1, <3>2, <2>4, PayloadBlocks
    <3> QED BY <3>1, <3>3, <1>3, HoldersFacts
  <2>5. Held(Payloads(log'), b) => Held(Payloads(log), b) \/ Held(layers, b)
    <3> HIDE DEF cs
    <3>1. log' = log \/ log' = log \o cs
      BY <2>2 DEF cs
    <3> QED BY <3>1, <2>3, <2>4, HeldInLog
  <2>6. Held(layers', b) => b = v \/ Held(layers, b)
    <3> DEFINE D == {Holders(k)[j] : j \in 1 .. n}
    <3>1. n \in 0 .. Len(Holders(k))
      BY HoldersFacts
    <3>2. layers' = Overwritten(layers, D, k, v)
      BY <2>2, <3>1, RedefinedFacts DEF PutInAll
    <3> HIDE DEF D
    <3> QED BY <3>2, <1>2, HeldOverwritten
  <2>7. used' = used \cup ({v} \cap Block)
    BY <2>2, PutInAllType
  <2> QED BY <2>5, <2>6, <2>7, <1>1
<1>6. CASE PushScope
  <2>1. layers' = Append(layers, Empty) /\ UNCHANGED <<log, used>>
    BY <1>6 DEF PushScope, blocks
  <2>2. ~In(Empty, b) /\ Empty \in Layer
    BY EmptyLayer, NoneAssumption DEF In, Val
  <2>3. Held(layers', b) => Held(layers, b)
    BY <2>1, <2>2, <1>2, HeldAppend
  <2> QED BY <2>1, <2>3, <1>1
<1>7. CASE PopScope \/ PopScopeLost
  <2> DEFINE m == Last(layers)
             f == Front(layers)
  <2>1. /\ layers' = f /\ used' = used /\ m \in Layer /\ f \in Seq(Layer)
        /\ layers = Append(f, m)
        /\ log' = log \/ log' = log \o <<Popped(m)>>
    <3>1. m \in Layer /\ f \in Seq(Layer) /\ layers = Append(f, m)
      BY <1>2, LastFront, FrontThenLast
    <3> QED BY <1>7, <3>1 DEF PopScope, PopScopeLost, PushChanges
  <2> HIDE DEF m, f
  <2>2. Held(layers, b) <=> Held(f, b) \/ In(m, b)
    BY <2>1, HeldAppend
  <2>3. <<Popped(m)>> \in Seq(Changes) /\ Payload(Popped(m)) = m
    BY <2>1 DEF Popped, Changes, Payload
  <2>4. \A j \in DOMAIN <<Popped(m)>> : <<Popped(m)>>[j] = Popped(m)
    OBVIOUS
  <2>5. Held(Payloads(log'), b) => Held(Payloads(log), b) \/ In(m, b)
    BY <2>1, <2>3, <2>4, HeldInLog
  <2> QED BY <2>1, <2>2, <2>5, <1>1
<1>8. CASE Discard
  <2>1. layers' = layers /\ used' = used /\ log' = <<>>
    BY <1>8 DEF Discard, stacks
  <2>2. ~Held(Payloads(log'), b)
    BY <2>1 DEF Payloads, Held
  <2> QED BY <2>1, <2>2, <1>1
<1>9. CASE Free
  <2>1. layers' = SubSeq(layers, 1, 1) /\ used' = used /\ log' = <<>>
    BY <1>9 DEF Free
  <2>2. ~Held(Payloads(log'), b)
    BY <2>1 DEF Payloads, Held
  <2>3. DOMAIN layers' = {1} /\ layers'[1] = layers[1]
    BY <2>1, <1>2
  <2>4. Held(layers', b) => Held(layers, b)
    BY <2>3, <1>2 DEF Held
  <2> QED BY <2>1, <2>2, <2>4, <1>1
<1>10. CASE UndoScopePop \/ UndoSet \/ UndoAdd \/ UndoInLost
  <2> DEFINE c == Last(log)
             qs == Payloads(Front(log))
             m == Payload(c)
  <2>1. log # <<>> /\ log' = Front(log) /\ used' = used
    BY <1>10 DEF UndoScopePop, UndoSet, UndoAdd, UndoInLost, Undoing, ChangeDone, blocks
  <2>2. Payloads(log) = Append(qs, m) /\ m \in Layer /\ qs \in Seq(Layer) /\ c \in Changes
    BY <2>1, <1>2, PayloadsFront, PayloadType, PayloadsType, LastFront
  <2>3. Held(Payloads(log), b) <=> Held(Payloads(log'), b) \/ In(m, b)
    <3> HIDE DEF qs, m
    <3>1. Held(Payloads(log), b) <=> Held(qs, b) \/ In(m, b)
      BY <2>2, HeldAppend
    <3> QED BY <3>1, <2>1 DEF qs
  <2>4. Held(layers', b) => Held(layers, b) \/ In(m, b)
    <3>1. CASE UndoScopePop
      <4>1. layers' = Append(layers, c.layer) /\ c.type = "SSCN_SCOPE_POP"
        BY <3>1 DEF UndoScopePop, Undoing
      <4>2. m = c.layer
        BY <4>1 DEF Payload
      <4> HIDE DEF c, m
      <4> QED BY <4>1, <4>2, <2>2, <1>2, HeldAppend
    <3>2. CASE UndoSet \/ UndoAdd
      <4> DEFINE D == {c.idx}
      <4>1. layers' = Overwritten(layers, D, c.key, Earlier) /\ c.key \in Key
        BY <3>2, UndoneType
      <4>2. In(m, b) <=> Earlier = b
        <5>1. c.type \in {"SSCN_SET", "SSCN_ADD"}
          BY <3>2 DEF UndoSet, UndoAdd, Undoing
        <5> QED BY <5>1, <2>2, PayloadBlocks, NoneAssumption DEF Earlier, Val
      <4> HIDE DEF D, c
      <4>3. Held(layers', b) => b = Earlier \/ Held(layers, b)
        BY <4>1, <1>2, HeldOverwritten
      <4> QED BY <4>2, <4>3
    <3>3. CASE UndoInLost
      BY <3>3 DEF UndoInLost, stacks
    <3> QED BY <1>10, <3>1, <3>2, <3>3
  <2> QED BY <2>1, <2>3, <2>4, <1>1
<1>11. CASE PushScopeNoMemory \/ Save \/ BeginRestore \/ UndoAddFails
            \/ RestoreDone \/ Crash \/ UNCHANGED vars
  <2>1. UNCHANGED <<layers, log, used>>
    BY <1>11 DEF PushScopeNoMemory, Save, BeginRestore, UndoAddFails,
                 RestoreDone, Crash, vars, stacks, saves, blocks
  <2> QED BY <2>1, <1>1
<1> QED
  BY <1>4, <1>5, <1>6, <1>7, <1>8, <1>9, <1>10, <1>11 DEF Next, Loop

-----------------------------------------------------------------------------
(* The inductive invariant: IInv needs OneOwner, for nothing that was freed *)
(* may be left where a crash would follow, and OneOwner needs the chain of  *)
(* undos.                                                                   *)
Inductive == IInv /\ OneOwner

LEMMA InitInductive == Init => Inductive
<1> SUFFICES ASSUME Init PROVE Inductive
  OBVIOUS
<1>1. TypeOK
  BY TypeInit
<1>2. PICK m \in [Key -> CFun \cup {NONE}] : layers = <<m>>
  BY DEF Init
<1>3. log = <<>> /\ saving = FALSE /\ mode = "run" /\ base = NoSave /\ snaps = <<>>
      /\ used = {} /\ freed = {} /\ cap = InitCap /\ tainted = FALSE
  BY DEF Init
<1>4. UndoChain /\ UndoNeverFails
  BY <1>3 DEF UndoChain, UndoNeverFails
<1>5. LogWhileSaved
  BY <1>3, NoSaveAssumption DEF LogWhileSaved, Exact
<1>6. InBounds
  <2>1. Top = 1
    BY <1>2 DEF Top
  <2> QED BY <1>3, <2>1, CapAssumption DEF InBounds
<1>7. ASSUME NEW b \in Block PROVE ~Held(layers, b) /\ ~Held(Payloads(log), b)
  <2>1. \A k \in Key : m[k] # b
    BY ValAssumption, NoneAssumption DEF Val
  <2>2. ~Held(layers, b)
    BY <1>2, <2>1 DEF Held
  <2> QED BY <2>2, <1>3 DEF Held, Payloads
<1>8. BlocksUsed
  BY <1>7, BlocksUsedHeld
<1>9. OneOwner
  <2>1. layers \in Seq(Layer) /\ Payloads(log) \in Seq(Layer)
    BY <1>1, PayloadsType DEF TypeOK
  <2>2. Owns(layers, Payloads(log), used, freed)
    BY <1>3, <1>7 DEF Owns, Owned, Held, Single
  <2> QED BY <2>1, <2>2, OwnsCount DEF OneOwner, Owners
<1> QED BY <1>1, <1>4, <1>5, <1>6, <1>8, <1>9 DEF Inductive, IInv

LEMMA StepInductive ==
    ASSUME Inductive, [Next]_vars
    PROVE  Inductive'
<1>1. /\ TypeOK /\ UndoChain /\ LogWhileSaved /\ InBounds /\ UndoNeverFails
      /\ BlocksUsed /\ OneOwner
  BY DEF Inductive, IInv
<1>2. TypeOK'
  BY <1>1, TypeStep
<1>3. UndoChain'
  BY <1>1, ChainStep
<1>4. LogWhileSaved'
  BY <1>1, LogStep
<1>5. InBounds'
  BY <1>1, BoundsStep
<1>6. UndoNeverFails'
  BY <1>1, FailStep
<1>7. BlocksUsed'
  BY <1>1, UsedStep
<1>8. OneOwner'
  BY <1>1, <1>2, OwnerStep
<1> QED BY <1>2, <1>3, <1>4, <1>5, <1>6, <1>7, <1>8 DEF Inductive, IInv

(* Whatever is set, redefined, pushed, popped, saved, discarded and        *)
(* restored in any order, wherever malloc fails: the log is a chain of     *)
(* undos back to the save point as long as everything was logged, the      *)
(* array of scopes is large enough for every state of the restore, no undo *)
(* of a complete log fails, and the stack frees only what it was given     *)
(* (scope_stack.c).                                                        *)
THEOREM LogLeadsBack == Spec => []IInv
<1>1. Inductive /\ [Next]_vars => Inductive'
  BY StepInductive
<1>2. Inductive => IInv
  BY DEF Inductive
<1> QED BY InitInductive, <1>1, <1>2, PTL DEF Spec

(* A block that was handed over is in exactly one place, in a scope or in  *)
(* the log, until it is freed, and nowhere afterwards, unless one of the   *)
(* three calls that break this was made (scope_stack.c 36-107, 117-258).   *)
THEOREM BlocksHaveOneOwner == Spec => []OneOwner
<1>1. Inductive /\ [Next]_vars => Inductive'
  BY StepInductive
<1>2. Inductive => OneOwner
  BY DEF Inductive
<1> QED BY InitInductive, <1>1, <1>2, PTL DEF Spec

(* A restore of a save point that was not voided ends with the scopes that *)
(* were saved (scope_stack.c 64-107).                                      *)
THEOREM RestoreGivesBack == Spec => RestoreExact
<1>1. Inductive /\ [Next]_vars => Inductive'
  BY StepInductive
<1>2. ASSUME Inductive, [Next]_vars, mode = "restore", mode' = "run", Exact
      PROVE  layers' = base
  <2>1. RestoreDone
    BY <1>2 DEF Next, Loop, Set, SetUnlogged, Redefine, RedefineUnlogged, Put, PutInAll,
                PushScope, PushScopeNoMemory, PopScope, PopScopeLost, Save, Discard,
                BeginRestore, UndoScopePop, UndoSet, UndoAdd, UndoAddFails, UndoInLost,
                Free, Crash, vars
  <2>2. Chained(log, snaps, base, layers)
    BY <1>2 DEF Inductive, IInv, UndoChain
  <2> QED BY <2>1, <2>2 DEF RestoreDone, Chained, stacks
<1>3. Inductive /\ [Next]_vars =>
         [mode = "restore" /\ mode' = "run" /\ Exact => layers' = base]_vars
  BY <1>2
<1> QED BY InitInductive, <1>1, <1>3, PTL DEF Spec, RestoreExact

-----------------------------------------------------------------------------
(* The refinement of ScopeStore.                                           *)

LEMMA NotLayers ==
    /\ NoSave \notin Seq(Layer) /\ Void \notin Seq(Layer) /\ Wrecked \notin Seq(Layer)
    /\ NoSave # Void /\ Void # Wrecked /\ Wrecked # NoSave
  BY NoSaveAssumption

(* What the mapping makes of a state between two calls. *)
LEMMA MappedRun ==
    ASSUME Inductive, mode = "run"
    PROVE  /\ Now = layers
           /\ ~saving => base \in {NoSave, Wrecked}
           /\ saving => /\ base # NoSave
                        /\ Saved = IF Exact THEN base ELSE Void
                        /\ Saved # NoSave
                        /\ Exact => base \in Seq(Layer)
           /\ ~saving => Saved = IF base = Wrecked THEN Void ELSE NoSave
<1>1. TypeOK /\ LogWhileSaved
  BY DEF Inductive, IInv
<1>2. ~saving => base \in {NoSave, Wrecked}
  BY <1>1 DEF LogWhileSaved
<1>3. Now = layers
  BY <1>2, NotLayers DEF Now
<1>4. saving => base # NoSave /\ (Exact => base \in Seq(Layer))
  BY <1>1 DEF LogWhileSaved, TypeOK, Exact
<1> QED BY <1>2, <1>3, <1>4, NotLayers DEF Saved, Exact

(* ... after a step, of which only this much is known. *)
LEMMA MappedNext ==
    ASSUME saving' \/ base' \in {NoSave, Void, Wrecked}
    PROVE  Now' = layers'
  BY NotLayers DEF Now

LEMMA SavedNext ==
    /\ ~Exact' => Saved' = Void
    /\ Exact' /\ saving' => Saved' = base'
    /\ Exact' /\ ~saving' => Saved' = NoSave
  BY DEF Saved

(* The scopes that sst_redefine reached after n turns. *)
LEMMA RedefinedFrom ==
    ASSUME TypeOK, NEW k \in Key, NEW v \in Val, NEW n \in 1 .. Len(Holders(k))
    PROVE  Redefined(k, v, n) = [i \in DOMAIN layers |->
               IF layers[i][k] = NONE \/ i < Holders(k)[n] THEN layers[i]
               ELSE [layers[i] EXCEPT ![k] = v]]
<1> DEFINE H == Holders(k)
           l == Len(H)
<1>1. /\ l \in Nat /\ DOMAIN H = 1 .. l /\ n \in 1 .. l /\ n \in Nat
      /\ \A j \in 1 .. l : H[j] \in 1 .. Top /\ layers[H[j]][k] \in Val
      /\ Top \in Nat /\ DOMAIN layers = 1 .. Top
  BY HoldersFacts, LayersFacts
<1>2. /\ \A i, j \in 1 .. l : i < j => H[i] > H[j]
      /\ \A i \in 1 .. Top : layers[i][k] # NONE => \E j \in 1 .. l : H[j] = i
  BY <1>1, HoldersDescend DEF Descends
<1> HIDE DEF H, l
<1>3. ASSUME NEW i \in DOMAIN layers
      PROVE  i \in {H[j] : j \in 1 .. n} <=> ~(layers[i][k] = NONE \/ i < H[n])
  <2>1. ASSUME NEW j \in 1 .. n PROVE layers[H[j]][k] # NONE /\ ~(H[j] < H[n])
    <3>1. j \in 1 .. l /\ (j < n \/ j = n)
      BY <1>1
    <3>2. layers[H[j]][k] # NONE
      BY <3>1, <1>1, NoneAssumption
    <3>3. H[j] \in Nat /\ H[n] \in Nat
      BY <3>1, <1>1
    <3>4. H[j] > H[n] \/ H[j] = H[n]
      BY <3>1, <1>1, <1>2
    <3> QED BY <3>2, <3>3, <3>4
  <2>2. ASSUME layers[i][k] # NONE, ~(i < H[n])
        PROVE  \E j \in 1 .. n : H[j] = i
    <3>1. PICK j \in 1 .. l : H[j] = i
      BY <2>2, <1>1, <1>2
    <3>2. H[j] \in Nat /\ H[n] \in Nat
      BY <1>1
    <3>3. ~(n < j)
      <4>1. n < j => H[n] > H[j]
        BY <1>1, <1>2
      <4> QED BY <4>1, <3>1, <3>2, <2>2
    <3> QED BY <3>1, <3>3, <1>1
  <2> QED BY <2>1, <2>2
<1>4. Redefined(k, v, n) = [i \in DOMAIN layers |->
           IF i \in {H[j] : j \in 1 .. n} THEN [layers[i] EXCEPT ![k] = v] ELSE layers[i]]
  BY DEF Redefined, H
<1>5. Redefined(k, v, n) = [i \in DOMAIN layers |->
               IF layers[i][k] = NONE \/ i < H[n] THEN layers[i]
               ELSE [layers[i] EXCEPT ![k] = v]]
  BY <1>3, <1>4
<1> QED BY <1>5 DEF H

(* At the end of the loop every scope that defines the name is done. *)
LEMMA RedefinedAll ==
    ASSUME TypeOK, NEW k \in Key, NEW v \in Val
    PROVE  Redefined(k, v, Len(Holders(k))) = [i \in DOMAIN layers |->
               IF layers[i][k] = NONE THEN layers[i]
               ELSE [layers[i] EXCEPT ![k] = v]]
<1> DEFINE H == Holders(k)
           l == Len(H)
<1>1. /\ \A j \in 1 .. l : H[j] \in 1 .. Top /\ layers[H[j]][k] \in Val
      /\ DOMAIN layers = 1 .. Top /\ DOMAIN H = 1 .. l
  BY HoldersFacts, LayersFacts
<1>2. \A i \in 1 .. Top : layers[i][k] # NONE => \E j \in 1 .. l : H[j] = i
  BY <1>1, HoldersDescend DEF Descends
<1> HIDE DEF H, l
<1>3. \A i \in DOMAIN layers : i \in {H[j] : j \in 1 .. l} <=> layers[i][k] # NONE
  BY <1>1, <1>2, NoneAssumption
<1>4. Redefined(k, v, l) = [i \in DOMAIN layers |->
           IF i \in {H[j] : j \in 1 .. l} THEN [layers[i] EXCEPT ![k] = v] ELSE layers[i]]
  BY DEF Redefined, H
<1> QED BY <1>3, <1>4 DEF H, l

(* A call that is not logged, in the terms of ScopeStore. *)
LEMMA UnloggedVoided ==
    ASSUME Inductive, mode = "run", Unlogged, saving' = saving
    PROVE  SS!Voided /\ Now' = layers' /\ (saving => Saved # NoSave)
<1>1. /\ ~saving => base \in {NoSave, Wrecked}
      /\ saving => base # NoSave /\ Saved # NoSave
      /\ ~saving => Saved = IF base = Wrecked THEN Void ELSE NoSave
  BY MappedRun
<1>2. CASE saving
  <2>1. ~Exact'
    BY <1>2 DEF Unlogged, Exact
  <2> QED BY <1>1, <1>2, <2>1, SavedNext, MappedNext DEF SS!Voided
<1>3. CASE ~saving
  <2>1. base' = base /\ Exact' = Exact
    BY <1>3 DEF Unlogged, Exact
  <2>2. Saved' = Saved
    BY <1>3, <2>1 DEF Saved
  <2> QED BY <1>1, <1>3, <2>1, <2>2, MappedNext DEF SS!Voided
<1> QED BY <1>2, <1>3

LEMMA MappedStep ==
    ASSUME Inductive, Inductive', [Next]_vars
    PROVE  [SS!Next]_(SS!vars)
<1>1. /\ TypeOK /\ UndoChain /\ LogWhileSaved /\ BlocksUsed /\ TypeOK' /\ LogWhileSaved'
      /\ layers \in Seq(Layer)
  BY DEF Inductive, IInv, TypeOK
<1>2. ASSUME mode = "run", UNCHANGED <<saving, base>>
      PROVE  Now = layers /\ Now' = layers' /\ Saved' = Saved
  <2>1. Saved' = Saved
    BY <1>2 DEF Saved, Exact
  <2>2. saving' \/ base' \in {NoSave, Void, Wrecked}
    BY <1>2, MappedRun
  <2> QED BY <1>2, <2>1, <2>2, MappedRun, MappedNext
<1>3. ASSUME NEW k \in Key, NEW v \in Val, Set(k, v)
      PROVE  SS!Next
  <2>1. /\ mode = "run" /\ UNCHANGED <<saving, base>>
        /\ layers' = [layers EXCEPT ![Len(layers)][k] = v]
    BY <1>3 DEF Set, Put, Top
  <2>2. SS!Set(k, v)
    BY <2>1, <1>2 DEF SS!Set, SS!Recorded
  <2> QED BY <2>2 DEF SS!Next
<1>4. ASSUME NEW k \in Key, NEW v \in Val, SetUnlogged(k, v)
      PROVE  SS!Next
  <2>1. /\ mode = "run" /\ MallocMayFail /\ Unlogged /\ saving' = saving
        /\ layers' = [layers EXCEPT ![Len(layers)][k] = v]
    BY <1>4 DEF SetUnlogged, Put, Top
  <2>2. SS!Voided /\ Now' = layers' /\ Now = layers
    BY <2>1, UnloggedVoided, MappedRun
  <2>3. SS!Set(k, v)
    BY <2>1, <2>2 DEF SS!Set, SS!Recorded
  <2> QED BY <2>3 DEF SS!Next
<1>5. ASSUME NEW k \in Key, NEW v \in Val, Redefine(k, v)
      PROVE  SS!Next
  <2>1. /\ mode = "run" /\ UNCHANGED <<saving, base>>
        /\ layers' = Redefined(k, v, Len(Holders(k)))
    BY <1>5 DEF Redefine, PutInAll
  <2>2. SS!Redefine(k, v)
    BY <2>1, <1>1, <1>2, RedefinedAll DEF SS!Redefine
  <2> QED BY <2>2 DEF SS!Next
<1>6. ASSUME NEW k \in Key, NEW v \in Val, RedefineUnlogged(k, v)
      PROVE  SS!Next
  <2>1. PICK n \in 1 .. Len(Holders(k)) : layers' = Redefined(k, v, n) /\ mode = "run"
    BY <1>6 DEF RedefineUnlogged, PutInAll
  <2>2. MallocMayFail /\ Unlogged /\ saving' = saving /\ saving
    BY <1>6 DEF RedefineUnlogged
  <2>3. SS!Voided /\ Now' = layers' /\ Now = layers /\ Saved # NoSave
    BY <2>1, <2>2, UnloggedVoided, MappedRun
  <2>4. Holders(k)[n] \in DOMAIN layers
    BY <1>1, HoldersFacts, LayersFacts
  <2>5. layers' = [i \in DOMAIN layers |->
               IF layers[i][k] = NONE \/ i < Holders(k)[n] THEN layers[i]
               ELSE [layers[i] EXCEPT ![k] = v]]
    BY <2>1, <1>1, RedefinedFrom
  <2>6. SS!RedefineSome(k, v)
    BY <2>2, <2>3, <2>4, <2>5 DEF SS!RedefineSome
  <2> QED BY <2>6 DEF SS!Next
<1>7. CASE PushScope
  <2>1. SS!Voided /\ Now' = layers' /\ Now = layers
    BY <1>7, UnloggedVoided, MappedRun DEF PushScope
  <2> QED BY <1>7, <2>1 DEF PushScope, SS!Next, SS!PushScope, Empty
<1>8. CASE PushScopeNoMemory
  <2>1. UNCHANGED <<layers, saving, base>>
    BY <1>8 DEF PushScopeNoMemory, saves
  <2> QED BY <2>1 DEF SS!vars, Now, Saved, Exact
<1>9. CASE PopScope
  <2>1. /\ mode = "run" /\ UNCHANGED <<saving, base>> /\ Len(layers) > 1
        /\ layers' = SubSeq(layers, 1, Len(layers) - 1)
    BY <1>9 DEF PopScope, Front, Top
  <2> QED BY <2>1, <1>2 DEF SS!Next, SS!PopScope, SS!Recorded
<1>10. CASE PopScopeLost
  <2>1. /\ mode = "run" /\ MallocMayFail /\ Unlogged /\ saving' = saving /\ Len(layers) > 1
        /\ layers' = SubSeq(layers, 1, Len(layers) - 1)
    BY <1>10 DEF PopScopeLost, Front, Top
  <2>2. SS!Voided /\ Now' = layers' /\ Now = layers
    BY <2>1, UnloggedVoided, MappedRun
  <2> QED BY <2>1, <2>2 DEF SS!Next, SS!PopScope, SS!Recorded
<1>11. CASE Save
  <2>1. /\ mode = "run" /\ saving' /\ layers' = layers
        /\ base' = IF saving \/ base = Wrecked THEN base ELSE layers
    BY <1>11 DEF Save, stacks
  <2>2. Now = layers /\ Now' = layers
    BY <2>1, MappedRun, MappedNext
  <2>3. CASE saving \/ base = Wrecked
    <3>1. Saved' = Saved
      BY <2>1, <2>3, MappedRun DEF Saved, Exact
    <3> QED BY <2>2, <3>1 DEF SS!vars
  <2>4. CASE ~saving /\ base # Wrecked
    <3>1. Saved = NoSave
      BY <2>1, <2>4, MappedRun
    <3>2. base' = layers /\ Exact'
      BY <2>1, <2>4, <1>1, NotLayers DEF Exact
    <3>3. Saved' = layers
      BY <2>1, <3>2, SavedNext
    <3> QED BY <2>2, <3>1, <3>3 DEF SS!Next, SS!Save
  <2> QED BY <2>3, <2>4
<1>12. CASE Discard
  <2>1. /\ mode = "run" /\ saving' = FALSE /\ layers' = layers
        /\ base' = IF base = Wrecked THEN Wrecked ELSE NoSave
    BY <1>12 DEF Discard, stacks, Unsaved
  <2>2. Now = layers /\ Now' = layers
    BY <2>1, MappedRun, MappedNext
  <2>3. CASE base = Wrecked
    <3>1. Saved = Void /\ Saved' = Void
      BY <2>1, <2>3 DEF Saved, Exact
    <3> QED BY <2>2, <3>1 DEF SS!vars
  <2>4. CASE base # Wrecked
    <3>1. Saved' = NoSave
      BY <2>1, <2>4, NotLayers DEF Saved, Exact
    <3> QED BY <2>2, <3>1 DEF SS!Next, SS!Discard
  <2> QED BY <2>3, <2>4
<1>13. CASE BeginRestore
  <2>1. /\ mode = "run" /\ saving /\ saving' = FALSE /\ layers' = layers
        /\ base' = IF base = Void THEN Wrecked ELSE base
    BY <1>13 DEF BeginRestore, stacks
  <2>2. Now = layers /\ base # NoSave /\ (Exact => base \in Seq(Layer) /\ Saved = base)
    BY <2>1, MappedRun
  <2>3. CASE Exact
    <3>1. base' = base /\ Exact' /\ base \in Seq(Layer)
      BY <2>1, <2>2, <2>3 DEF Exact
    <3>2. Now' = base /\ Saved' = NoSave
      BY <2>1, <3>1 DEF Now, Saved
    <3> QED BY <2>2, <2>3, <3>1, <3>2, NotLayers DEF SS!Next, SS!Restore
  <2>4. CASE ~Exact
    <3>1. base' = Wrecked /\ ~Exact'
      BY <2>1, <2>4 DEF Exact
    <3>2. Now' = layers /\ Saved' = Void /\ Saved = Void
      BY <2>1, <2>4, <3>1, MappedNext DEF Saved
    <3> QED BY <2>2, <3>2 DEF SS!vars
  <2> QED BY <2>3, <2>4
<1>14. ASSUME mode = "restore", UNCHANGED <<saving, base>>
       PROVE  [SS!Next]_(SS!vars)
  <2>1. ~saving /\ base \notin {NoSave, Void}
    BY <1>1, <1>14 DEF LogWhileSaved
  <2>2. CASE base = Wrecked
    <3>1. /\ Saved = Void /\ Saved' = Void /\ Now' = layers'
      BY <1>14, <2>2, MappedNext DEF Saved, Exact
    <3>2. layers' \in Seq(Layer)
      BY <1>1 DEF TypeOK
    <3> QED BY <3>1, <3>2 DEF SS!Next, SS!Wreck, SS!Layer, Layer
  <2>3. CASE base # Wrecked
    <3>1. base \in Seq(Layer)
      BY <1>1, <2>1, <2>3 DEF TypeOK
    <3>2. Now = base /\ Now' = base /\ Saved' = Saved
      BY <1>14, <2>1, <3>1 DEF Now, Saved, Exact
    <3> QED BY <3>2 DEF SS!vars
  <2> QED BY <2>2, <2>3
<1>15. CASE UndoScopePop \/ UndoSet \/ UndoAdd \/ UndoInLost \/ UndoAddFails
  <2>1. mode = "restore" /\ UNCHANGED <<saving, base>>
    BY <1>15 DEF UndoScopePop, UndoSet, UndoAdd, UndoInLost, UndoAddFails, Undoing, saves
  <2> QED BY <2>1, <1>14
<1>16. CASE RestoreDone
  <2>1. /\ mode = "restore" /\ log = <<>> /\ layers' = layers /\ saving' = saving
        /\ base' = IF base = Wrecked THEN Wrecked ELSE NoSave
    BY <1>16 DEF RestoreDone, stacks, Unsaved
  <2>2. ~saving /\ base \notin {NoSave, Void}
    BY <1>1, <2>1 DEF LogWhileSaved
  <2>3. CASE base = Wrecked
    <3>1. /\ Saved = Void /\ Saved' = Void /\ Now' = layers' /\ Now = layers
      BY <2>1, <2>3, MappedNext, NotLayers DEF Saved, Exact, Now
    <3> QED BY <2>1, <3>1 DEF SS!vars
  <2>4. CASE base # Wrecked
    <3>1. base \in Seq(Layer) /\ Exact
      BY <1>1, <2>2, <2>4 DEF TypeOK, Exact
    <3>2. base = layers
      BY <1>1, <2>1, <3>1 DEF UndoChain, Chained
    <3>3. Now = base /\ Saved = NoSave
      BY <2>2, <3>1 DEF Now, Saved
    <3>4. Now' = layers' /\ Saved' = NoSave
      BY <2>1, <2>2, <2>4, MappedNext, NotLayers DEF Saved, Exact
    <3> QED BY <2>1, <3>2, <3>3, <3>4 DEF SS!vars
  <2> QED BY <2>3, <2>4
<1>17. CASE Free
  <2>1. /\ mode \in {"run", "failed"} /\ layers' = SubSeq(layers, 1, 1)
        /\ saving' = FALSE
        /\ base' = IF base = Wrecked THEN Wrecked ELSE NoSave
    BY <1>17 DEF Free, Unsaved
  <2>2. Now' = layers'
    BY <2>1, MappedNext
  <2>3. CASE base = Wrecked
    <3>1. Saved = Void /\ Saved' = Void
      BY <2>1, <2>3 DEF Saved, Exact
    <3>2. layers' \in Seq(Layer)
      BY <1>1 DEF TypeOK
    <3> QED BY <2>2, <3>1, <3>2 DEF SS!Next, SS!Wreck, SS!Layer, Layer
  <2>4. CASE base # Wrecked
    <3>1. mode = "run"
      BY <1>1, <2>1, <2>4 DEF LogWhileSaved
    <3>2. Now = layers
      BY <3>1, MappedRun
    <3>3. Saved' = NoSave
      BY <2>1, <2>4, NotLayers DEF Saved, Exact
    <3> QED BY <2>1, <2>2, <3>2, <3>3 DEF SS!Next, SS!End
  <2> QED BY <2>3, <2>4
<1>18. CASE Crash \/ UNCHANGED vars
  <2>1. UNCHANGED <<layers, saving, base>>
    BY <1>18 DEF Crash, vars, stacks, saves
  <2> QED BY <2>1 DEF SS!vars, Now, Saved, Exact
<1> QED
  BY <1>3, <1>4, <1>5, <1>6, <1>7, <1>8, <1>9, <1>10, <1>11, <1>12, <1>13,
     <1>15, <1>16, <1>17, <1>18 DEF Next, Loop

LEMMA MappedInit == Init => SS!Init
<1> SUFFICES ASSUME Init PROVE SS!Init
  OBVIOUS
<1>1. PICK m \in [Key -> CFun \cup {NONE}] : layers = <<m>>
  BY DEF Init
<1>2. base = NoSave /\ saving = FALSE
  BY DEF Init
<1>3. m \in SS!Layer
  BY DEF SS!Layer, Val
<1>4. Now = layers /\ Saved = NoSave
  BY <1>2, NotLayers DEF Now, Saved, Exact
<1> QED BY <1>1, <1>3, <1>4 DEF SS!Init

(* scope_stack.c keeps the promise of ScopeStore: a restore is one step    *)
(* that brings back the scopes of the save point, taken when it begins     *)
(* (scope_stack.c, scope_stack.h).                                         *)
THEOREM StackImplementsStore == Spec => Implements
<1>1. Inductive /\ [Next]_vars => Inductive'
  BY StepInductive
<1>2. Inductive /\ Inductive' /\ [Next]_vars => [SS!Next]_(SS!vars)
  BY MappedStep
<1> QED BY InitInductive, MappedInit, <1>1, <1>2, PTL DEF Spec, Implements, SS!Spec

=============================================================================
