------------------------- MODULE InterpreterProofs -------------------------
(***************************************************************************)
(* Theorems about Interpreter, for every set of programs, every set of     *)
(* foreign functions and any number of operations of theirs: a candidate   *)
(* that mismatches leaves no trace, no save point outlives its candidate,  *)
(* and curly takes just the tokens up to its match.                        *)
(***************************************************************************)
EXTENDS Interpreter, SequenceLemmas, FiniteSetTheorems

-----------------------------------------------------------------------------
(* The candidates of a word.                                               *)

(* The definition of GetAll is a loop from the globals up. *)
LEMMA GetAllLoop ==
    ASSUME layers \in Seq(SS!Layer), NEW k \in Words
    PROVE  \E f : /\ GetAll(k) = f[Len(layers)]
                  /\ f[0] = <<>>
                  /\ \A i \in 1 .. Len(layers) :
                        f[i] = IF layers[i][k] = NONE THEN f[i - 1]
                               ELSE <<layers[i][k]>> \o f[i - 1]
<1> DEFINE n == Len(layers)
           F(f) == [i \in 0 .. n |->
                       IF i = 0 THEN <<>>
                       ELSE IF layers[i][k] = NONE THEN f[i - 1]
                       ELSE <<layers[i][k]>> \o f[i - 1]]
           step == [i \in 1 .. n |-> [s \in Seq(Runnables) |->
                       IF layers[i][k] = NONE THEN s ELSE <<layers[i][k]>> \o s]]
           found == CHOOSE f : f = F(f)
<1>1. n \in Nat
  OBVIOUS
<1>2. ASSUME NEW i \in 1 .. n PROVE layers[i][k] \in Runnables \cup {NONE}
  <2>1. layers[i] \in SS!Layer
    OBVIOUS
  <2> QED BY <2>1 DEF SS!Layer
<1>3. step \in [1 .. n -> [Seq(Runnables) -> Seq(Runnables)]]
  <2>1. ASSUME NEW i \in 1 .. n, NEW s \in Seq(Runnables)
        PROVE  (IF layers[i][k] = NONE THEN s ELSE <<layers[i][k]>> \o s)
                  \in Seq(Runnables)
    <3> DEFINE v == layers[i][k]
    <3>1. v \in Runnables \cup {NONE}
      BY <1>2
    <3> HIDE DEF v
    <3>2. v # NONE => <<v>> \o s \in Seq(Runnables)
      BY <3>1, ConsProperties
    <3> QED BY <3>2 DEF v
  <2> HIDE DEF n
  <2> QED BY <2>1
<1>4. PICK f \in [0 .. n -> Seq(Runnables)] :
         f[0] = <<>> /\ \A i \in 1 .. n : f[i] = step[i][f[i - 1]]
  <2> DEFINE T == Seq(Runnables)
             start == <<>>
  <2>1. start \in T
    OBVIOUS
  <2> HIDE DEF step, n, T, start
  <2>2. step \in [1 .. n -> [T -> T]]
    BY <1>3 DEF T
  <2>3. \E f : Iterates(f, n, T, start, step)
    BY <1>1, <2>2, <2>1, RecursionExists
  <2> QED BY <2>3 DEF T, start, Iterates
<1>5. f = F(f)
  <2>1. ASSUME NEW i \in 1 .. n
        PROVE  f[i] = IF layers[i][k] = NONE THEN f[i - 1]
                      ELSE <<layers[i][k]>> \o f[i - 1]
    <3>1. f[i - 1] \in Seq(Runnables)
      BY <1>1
    <3> QED BY <1>4, <3>1
  <2>2. \A i \in 0 .. n : f[i] = IF i = 0 THEN <<>>
                       ELSE IF layers[i][k] = NONE THEN f[i - 1]
                       ELSE <<layers[i][k]>> \o f[i - 1]
    <3> HIDE DEF n
    <3> TAKE i \in 0 .. n
    <3>1. CASE i = 0
      BY <3>1, <1>4
    <3>2. CASE i # 0
      <4>1. i \in 1 .. n
        BY <3>2, <1>1
      <4> QED BY <2>1, <3>2, <4>1
    <3> QED BY <3>1, <3>2
  <2> HIDE DEF n
  <2> QED BY <2>2
<1>6. found = F(found)
  <2> HIDE DEF F
  <2> QED BY <1>5
<1>7. GetAll(k) = found[n]
  BY DEF GetAll
<1>8. \A g, i : i \in 0 .. n => F(g)[i] = IF i = 0 THEN <<>>
                       ELSE IF layers[i][k] = NONE THEN g[i - 1]
                       ELSE <<layers[i][k]>> \o g[i - 1]
  OBVIOUS
<1> HIDE DEF F, found
<1>9. /\ found[0] = <<>>
      /\ \A i \in 1 .. n : found[i] = IF layers[i][k] = NONE THEN found[i - 1]
                                      ELSE <<layers[i][k]>> \o found[i - 1]
  <2> HIDE DEF n
  <2>1. \A i : i \in 0 .. n => found[i] = IF i = 0 THEN <<>>
                       ELSE IF layers[i][k] = NONE THEN found[i - 1]
                       ELSE <<layers[i][k]>> \o found[i - 1]
    BY <1>6, <1>8, Zenon
  <2>2. 0 \in 0 .. n /\ \A i \in 1 .. n : i \in 0 .. n /\ i # 0
    BY <1>1
  <2> QED BY <2>1, <2>2
<1> QED BY <1>7, <1>9

LEMMA GetAllType ==
    ASSUME layers \in Seq(SS!Layer), NEW k \in Words
    PROVE  GetAll(k) \in Seq(Runnables)
<1>1. PICK f : /\ GetAll(k) = f[Len(layers)]
               /\ f[0] = <<>>
               /\ \A i \in 1 .. Len(layers) :
                     f[i] = IF layers[i][k] = NONE THEN f[i - 1]
                            ELSE <<layers[i][k]>> \o f[i - 1]
  BY GetAllLoop
<1> DEFINE n == Len(layers)
           S == {i \in 0 .. n : f[i] \in Seq(Runnables)}
<1>2. n \in Nat
  OBVIOUS
<1>3. 0 \in S
  <2>1. f[0] \in Seq(Runnables)
    BY <1>1
  <2>2. 0 \in 0 .. n
    BY <1>2
  <2> QED BY <2>1, <2>2
<1>4. ASSUME NEW m \in 0 .. n - 1, m \in S PROVE m + 1 \in S
  <2>1. /\ m + 1 \in 1 .. n /\ m + 1 \in 0 .. n /\ (m + 1) - 1 = m
        /\ f[m] \in Seq(Runnables)
    BY <1>2, <1>4
  <2> DEFINE v == layers[m + 1][k]
  <2>2. v \in Runnables \cup {NONE}
    <3>1. layers[m + 1] \in SS!Layer
      BY <2>1
    <3> QED BY <3>1 DEF SS!Layer
  <2>3. f[m + 1] = IF v = NONE THEN f[m] ELSE <<v>> \o f[m]
    BY <1>1, <2>1
  <2> HIDE DEF v
  <2>4. v # NONE => <<v>> \o f[m] \in Seq(Runnables)
    BY <2>1, <2>2, ConsProperties
  <2> QED BY <2>1, <2>3, <2>4
<1>5. \A m \in 0 .. n : m \in S
  <2> HIDE DEF S, n
  <2> QED BY <1>2, <1>3, <1>4, UpwardInduction
<1>6. n \in S
  BY <1>2, <1>5
<1> QED BY <1>1, <1>6

-----------------------------------------------------------------------------
(* What can be done to the token stack and to the scopes.                  *)

LevelsType == levels \in Seq(Seq(Token)) /\ input \in Seq(Token)

LEMMA TakingType ==
    ASSUME LevelsType, NEW t \in Token, Taking(t)
    PROVE  LevelsType' /\ tsaved' = tsaved
<1> USE DEF LevelsType
<1>1. CASE levels # <<>> /\ Head(levels) # <<>> /\ TS!PopPushed
  <2>1. Head(levels) \in Seq(Token) /\ Tail(levels) \in Seq(Seq(Token))
    BY <1>1, HeadTail
  <2> DEFINE h == Head(levels)
             r == Tail(levels)
  <2>2. Tail(h) \in Seq(Token)
    BY <1>1, <2>1
  <2>3. <<Tail(h)>> \o r \in Seq(Seq(Token))
    <3> DEFINE x == Tail(h)
               T == Seq(Token)
    <3>1. x \in T /\ r \in Seq(T)
      BY <2>1, <2>2
    <3> HIDE DEF x, T, r
    <3>2. <<x>> \o r \in Seq(T)
      BY <3>1, ConsProperties
    <3> QED BY <3>2 DEF x, T
  <2> QED BY <1>1, <2>3 DEF TS!PopPushed
<1>2. CASE levels = <<>> /\ input # <<>> /\ TS!PopInput
  BY <1>2 DEF TS!PopInput
<1> QED BY <1>1, <1>2 DEF Taking, Readable

LEMMA PushType ==
    ASSUME LevelsType, NEW t \in Token, TS!Push(t)
    PROVE  LevelsType' /\ tsaved' = tsaved
<1> USE DEF LevelsType
<1>1. CASE levels = <<>>
  <2>1. levels' = <<<<t>>>> /\ input' = input /\ tsaved' = tsaved
    BY <1>1 DEF TS!Push
  <2>2. <<t>> \in Seq(Token)
    OBVIOUS
  <2>3. <<<<t>>>> \in Seq(Seq(Token))
    BY <2>2
  <2> QED BY <2>1, <2>3
<1>2. CASE levels # <<>>
  <2> DEFINE h == Head(levels)
             r == Tail(levels)
             T == Seq(Token)
             x == <<t>> \o h
  <2>1. h \in Seq(Token) /\ r \in Seq(T)
    BY <1>2, HeadTail
  <2>2. x \in T
    <3> HIDE DEF h
    <3> QED BY <2>1, ConsProperties
  <2>3. levels' = <<x>> \o r /\ input' = input /\ tsaved' = tsaved
    BY <1>2 DEF TS!Push
  <2>4. <<x>> \o r \in Seq(T)
    <3> HIDE DEF x, T, r
    <3> QED BY <2>1, <2>2, ConsProperties
  <2> QED BY <2>3, <2>4
<1> QED BY <1>1, <1>2

LEMMA PushLevelType ==
    ASSUME LevelsType, TS!PushLevel
    PROVE  LevelsType' /\ tsaved' = tsaved
<1> DEFINE T == Seq(Token)
           x == <<>>
<1>1. x \in T /\ levels \in Seq(T)
  BY DEF LevelsType
<1>2. <<x>> \o levels \in Seq(T)
  <2> HIDE DEF x, T
  <2> QED BY <1>1, ConsProperties
<1> QED BY <1>2 DEF TS!PushLevel, LevelsType

LEMMA PopLevelType ==
    ASSUME LevelsType, TS!PopLevel
    PROVE  LevelsType' /\ tsaved' = tsaved
  BY HeadTail DEF TS!PopLevel, LevelsType

ScopesType == layers \in Seq(SS!Layer) /\ layers # <<>>

(* What the scopes of a running candidate are saved as. *)
SavedAs(ls) == ssaved \in {ls, Void, NoSave}

LEMMA SetType ==
    ASSUME ScopesType, NEW k \in Words, NEW v \in Runnables, NEW ls,
           SavedAs(ls), SS!Set(k, v)
    PROVE  ScopesType' /\ SavedAs(ls)'
<1> DEFINE n == Len(layers)
<1>1. n \in Nat /\ n >= 1 /\ layers[n] \in SS!Layer
  BY DEF ScopesType
<1>2. [layers[n] EXCEPT ![k] = v] \in SS!Layer
  BY <1>1 DEF SS!Layer
<1>3. layers' = [layers EXCEPT ![n] = [layers[n] EXCEPT ![k] = v]]
  BY DEF SS!Set
<1>4. layers' \in Seq(SS!Layer) /\ Len(layers') = n
  BY <1>1, <1>2, <1>3 DEF ScopesType
<1>5. ssaved' \in {ssaved, Void, NoSave}
  BY DEF SS!Set, SS!Recorded, SS!Voided
<1> QED BY <1>1, <1>4, <1>5 DEF ScopesType, SavedAs

LEMMA PushScopeType ==
    ASSUME ScopesType, NEW ls, SavedAs(ls), SS!PushScope
    PROVE  ScopesType' /\ SavedAs(ls)'
<1>1. [k \in Words |-> NONE] \in SS!Layer
  BY DEF SS!Layer
<1>2. layers' = Append(layers, [k \in Words |-> NONE])
  BY DEF SS!PushScope
<1>3. ssaved' \in {ssaved, Void, NoSave}
  BY DEF SS!PushScope, SS!Voided
<1> QED BY <1>1, <1>2, <1>3, AppendFacts DEF ScopesType, SavedAs

LEMMA PopScopeType ==
    ASSUME ScopesType, NEW ls, SavedAs(ls), SS!PopScope
    PROVE  ScopesType' /\ SavedAs(ls)'
<1>1. Len(layers) > 1 /\ layers' = Front(layers)
  BY DEF SS!PopScope, Front
<1>2. layers' \in Seq(SS!Layer) /\ Len(layers') = Len(layers) - 1
  BY <1>1, LastFront DEF ScopesType
<1>3. ssaved' \in {ssaved, Void, NoSave}
  BY DEF SS!PopScope, SS!Recorded, SS!Voided
<1>4. Len(layers) \in Nat
  BY DEF ScopesType
<1> QED BY <1>1, <1>2, <1>3, <1>4 DEF ScopesType, SavedAs

-----------------------------------------------------------------------------
(* Outcomes of methods, and the loop.                                      *)

LEMMA LiteralPushed ==
    ASSUME NEW o \in Objects, NEW d \in Seq(Objects)
    PROVE  <<o>> \o d \in Seq(Objects)
  BY ConsProperties

(* A method leaves objects on the data stack. *)
LEMMA OutcomesType ==
    ASSUME NEW d \in Seq(Objects), d # <<>>, Head(d) \in DOMAIN Methods,
           NEW w \in Methods[Head(d)], NEW out \in Outcomes(w, d)
    PROVE  /\ out[1] \in {"ok", "mismatch", "error", "crash"}
           /\ out[2] \in Seq(Objects)
<1>1. Tail(d) \in Seq(Objects) /\ Head(d) = d[1]
  BY HeadTail
<1>2. Head(d) \in {"string", "integral", "real"}
  BY DEF Methods
<1>3. CASE w = "puts"
  BY <1>1, <1>3 DEF Outcomes
<1>4. CASE w = ">string"
  <2>1. Outcomes(w, d) = {<<"ok", <<"string">> \o Tail(d)>>}
    BY <1>4 DEF Outcomes
  <2>2. <<"string">> \o Tail(d) \in Seq(Objects)
    BY <1>1, LiteralPushed DEF Objects
  <2> QED BY <2>1, <2>2
<1>5. CASE w \notin {"puts", ">string"}
  <2>1. w \in {"+", "-", "/"} /\ Head(d) \in Numbers
    BY <1>2, <1>5 DEF Methods, Numbers
  <2>2. out \in Arithmetic(w, d)
    BY <1>5 DEF Outcomes
  <2>3. CASE Len(d) = 1
    <3>1. out = <<"mismatch", <<>>>>
      BY <2>2, <2>3 DEF Arithmetic
    <3>2. <<>> \in Seq(Objects)
      OBVIOUS
    <3> QED BY <3>1, <3>2
  <2>4. CASE Len(d) # 1
    <3> DEFINE rest == Tail(Tail(d))
    <3>1. Tail(d) # <<>> /\ d[2] \in Objects
      <4>1. Len(d) \in Nat /\ Len(d) >= 1
        OBVIOUS
      <4>2. Len(d) >= 2
        <5> DEFINE n == Len(d)
        <5>1. n \in Nat /\ n >= 1 /\ n # 1
          BY <2>4, <4>1
        <5> HIDE DEF n
        <5>2. n >= 2
          BY <5>1
        <5> QED BY <5>2 DEF n
      <4>3. 2 \in 1 .. Len(d) /\ Len(Tail(d)) = Len(d) - 1
        BY <4>1, <4>2
      <4>4. Len(Tail(d)) # 0 /\ d[2] \in Objects
        BY <4>1, <4>2, <4>3
      <4>5. Tail(d) # <<>>
        <5>1. Len(<<>>) = 0
          OBVIOUS
        <5> QED BY <4>4, <5>1, Zenon
      <4> QED BY <4>4, <4>5
    <3>2. rest \in Seq(Objects)
      BY <1>1, <3>1, HeadTail
    <3>3. out \in IF d[2] \in Numbers
                  THEN IF w = "/" THEN Quotient(rest) ELSE Sum(d[1], d[2], rest)
                  ELSE IF w = "+" /\ d[1] = "real" THEN Uninitialised(rest)
                  ELSE {<<"mismatch", rest>>}
      BY <2>2, <2>4 DEF Arithmetic
    <3> HIDE DEF rest
    <3>4. \A o \in Objects : <<o>> \o rest \in Seq(Objects)
      BY <3>2, LiteralPushed
    <3>5. Numbers \subseteq Objects /\ "real" \in Objects
      BY DEF Numbers, Objects
    <3>6. CASE out \in Quotient(rest)
      <4>1. <<"real">> \o rest \in Seq(Objects)
        BY <3>4, <3>5
      <4>2. out = <<"ok", <<"real">> \o rest>> \/ out = <<"error", rest>>
        BY <3>6 DEF Quotient
      <4> HIDE DEF Outcomes
      <4>3. CASE out = <<"ok", <<"real">> \o rest>>
        BY <4>1, <4>3
      <4>4. CASE out = <<"error", rest>>
        BY <3>2, <4>4
      <4> QED BY <4>2, <4>3, <4>4
    <3>7. CASE out \in Sum(d[1], d[2], rest) /\ d[2] \in Numbers
      <4> DEFINE o == IF d[1] = "integral" THEN d[2] ELSE "real"
      <4>1. o \in Objects
        BY <3>5, <3>7
      <4>2. out = <<"ok", <<o>> \o rest>>
        BY <3>7 DEF Sum
      <4> HIDE DEF o
      <4> QED BY <3>4, <4>1, <4>2
    <3>8. CASE out \in Uninitialised(rest)
      <4>1. \/ \E o \in Objects : out = <<"ok", <<o>> \o rest>>
            \/ out = <<"crash", rest>>
        BY <3>8 DEF Uninitialised
      <4>2. ASSUME NEW o \in Objects, out = <<"ok", <<o>> \o rest>>
            PROVE  out[1] \in {"ok"} /\ out[2] \in Seq(Objects)
        BY <3>4, <4>2
      <4>3. CASE out = <<"crash", rest>>
        BY <3>2, <4>3
      <4> QED BY <4>1, <4>2, <4>3
    <3>9. CASE out = <<"mismatch", rest>>
      BY <3>2, <3>9
    <3> QED BY <3>3, <3>6, <3>7, <3>8, <3>9
  <2> QED BY <2>3, <2>4
<1> QED BY <1>3, <1>4, <1>5

-----------------------------------------------------------------------------
(* Braces.                                                                 *)

LEMMA CountsNatural ==
    ASSUME NEW s \in Seq(Token)
    PROVE  Opens(s) \in Nat /\ Closes(s) \in Nat
<1>1. IsFiniteSet(DOMAIN s)
  BY FS_Interval
<1>2. /\ IsFiniteSet({i \in DOMAIN s : s[i] = "{"})
      /\ IsFiniteSet({i \in DOMAIN s : s[i] = "}"})
  BY <1>1, FS_Subset
<1> QED BY <1>2, FS_CardinalityType DEF Opens, Closes

LEMMA CountsOfNone == Opens(<<>>) = 0 /\ Closes(<<>>) = 0
<1>1. DOMAIN <<>> = {}
  OBVIOUS
<1>2. {i \in DOMAIN <<>> : <<>>[i] = "{"} = {} /\ {i \in DOMAIN <<>> : <<>>[i] = "}"} = {}
  BY <1>1
<1> QED BY <1>2, FS_EmptySet DEF Opens, Closes

LEMMA CountsOfMore ==
    ASSUME NEW s \in Seq(Token), NEW t \in Token
    PROVE  /\ Opens(Append(s, t)) = Opens(s) + IF t = "{" THEN 1 ELSE 0
           /\ Closes(Append(s, t)) = Closes(s) + IF t = "}" THEN 1 ELSE 0
<1> DEFINE r == Append(s, t)
           n == Len(s)
           At(q, x) == {i \in DOMAIN q : q[i] = x}
<1>1. /\ n \in Nat /\ n + 1 \notin DOMAIN s /\ n + 1 \in DOMAIN r
      /\ DOMAIN r = DOMAIN s \cup {n + 1}
      /\ r[n + 1] = t
      /\ \A i \in DOMAIN s : r[i] = s[i]
  OBVIOUS
<1>2. IsFiniteSet(DOMAIN s)
  BY FS_Interval
<1>3. ASSUME NEW x
      PROVE  Cardinality(At(r, x)) = Cardinality(At(s, x)) + IF t = x THEN 1 ELSE 0
  <2>1. IsFiniteSet(At(s, x)) /\ n + 1 \notin At(s, x)
    BY <1>1, <1>2, FS_Subset
  <2> HIDE DEF r, n
  <2>2. CASE t = x
    <3>1. At(r, x) = At(s, x) \cup {n + 1}
      BY <1>1, <2>2
    <3> HIDE DEF At
    <3> QED BY <2>1, <2>2, <3>1, FS_AddElement
  <2>3. CASE t # x
    <3>1. At(r, x) = At(s, x)
      BY <1>1, <2>3
    <3>2. Cardinality(At(s, x)) \in Nat
      BY <2>1, FS_CardinalityType
    <3> HIDE DEF At
    <3> QED BY <2>3, <3>1, <3>2
  <2> QED BY <2>2, <2>3
<1>4. /\ Opens(s) = Cardinality(At(s, "{")) /\ Opens(r) = Cardinality(At(r, "{"))
      /\ Closes(s) = Cardinality(At(s, "}")) /\ Closes(r) = Cardinality(At(r, "}"))
  BY DEF Opens, Closes
<1> HIDE DEF At, r
<1>5. /\ Opens(r) = Opens(s) + IF t = "{" THEN 1 ELSE 0
      /\ Closes(r) = Closes(s) + IF t = "}" THEN 1 ELSE 0
  BY <1>3, <1>4
<1> QED BY <1>5 DEF r

LEMMA PrefixFacts ==
    ASSUME NEW S, NEW s \in Seq(S), NEW x \in S
    PROVE  /\ SubSeq(s, 1, Len(s)) = s
           /\ \A i \in 1 .. Len(s) :
                 /\ SubSeq(s, 1, i) \in Seq(S)
                 /\ SubSeq(Append(s, x), 1, i) = SubSeq(s, 1, i)
  OBVIOUS

(* curly takes a token of a block that is not closed. *)
LEMMA UnclosedFurther ==
    ASSUME NEW s \in Seq(Token), NEW t \in Token,
           Unclosed(s), Opens(s) + 1 # Closes(s)
    PROVE  Unclosed(Append(s, t))
<1> DEFINE r == Append(s, t)
           n == Len(s)
<1>1. n \in Nat /\ r \in Seq(Token) /\ Len(r) = n + 1
  BY AppendFacts
<1>2. Opens(s) \in Nat /\ Closes(s) \in Nat /\ Opens(s) >= Closes(s)
  BY CountsNatural DEF Unclosed
<1>3. Opens(r) + 1 >= Closes(r)
  <2>1. /\ Opens(r) = Opens(s) + IF t = "{" THEN 1 ELSE 0
        /\ Closes(r) = Closes(s) + IF t = "}" THEN 1 ELSE 0
    BY CountsOfMore
  <2> DEFINE o == IF t = "{" THEN 1 ELSE 0
             c == IF t = "}" THEN 1 ELSE 0
  <2>2. Opens(r) = Opens(s) + o /\ Closes(r) = Closes(s) + c
    BY <2>1
  <2>3. o \in {0, 1} /\ c \in {0, 1}
    BY Zenon
  <2> HIDE DEF o, c, r
  <2> QED BY <1>2, <2>2, <2>3
<1>4. ASSUME NEW i \in 1 .. Len(r) - 1
      PROVE  Opens(SubSeq(r, 1, i)) >= Closes(SubSeq(r, 1, i))
  <2>1. i \in 1 .. n /\ (i # n => i \in 1 .. n - 1)
    <3> HIDE DEF r, n
    <3> QED BY <1>1
  <2>2. SubSeq(r, 1, i) = SubSeq(s, 1, i)
    BY <2>1, PrefixFacts
  <2>3. CASE i = n
    BY <1>2, <2>2, <2>3, PrefixFacts
  <2>4. CASE i # n
    BY <2>1, <2>2, <2>4 DEF Unclosed
  <2> QED BY <2>3, <2>4
<1> QED BY <1>3, <1>4 DEF Unclosed

(* The last token of a block that is closed at last is its match. *)
LEMMA ClosedBlock ==
    ASSUME NEW s \in Seq(Token), Unclosed(s), Opens(s) + 1 = Closes(s)
    PROVE  s # <<>> /\ Last(s) = "}" /\ Balanced(Front(s))
<1>1. s # <<>>
  BY CountsOfNone
<1> DEFINE f == Front(s)
           t == Last(s)
           n == Len(s)
<1>2. /\ f \in Seq(Token) /\ t \in Token /\ n \in Nat /\ n >= 1
      /\ Len(f) = n - 1 /\ s = Append(f, t)
  <2>1. /\ f \in Seq(Token) /\ t \in Token /\ Len(f) = n - 1
        /\ \A i \in 1 .. n - 1 : f[i] = s[i]
        /\ t = s[n]
    BY <1>1, LastFront
  <2>2. n \in Nat /\ n >= 1
    BY <1>1
  <2>3. s = Append(f, t)
    <3> HIDE DEF f, t
    <3> QED BY <2>1, <2>2
  <2> QED BY <2>1, <2>2, <2>3
<1>3. /\ Opens(s) = Opens(f) + IF t = "{" THEN 1 ELSE 0
      /\ Closes(s) = Closes(f) + IF t = "}" THEN 1 ELSE 0
  <2> HIDE DEF f, t
  <2> QED BY <1>2, CountsOfMore
<1>4. Opens(f) \in Nat /\ Closes(f) \in Nat
  <2> HIDE DEF f
  <2> QED BY <1>2, CountsNatural
<1>5. ASSUME NEW i \in 1 .. n - 1
      PROVE  /\ SubSeq(s, 1, i) = SubSeq(f, 1, i)
             /\ Opens(SubSeq(f, 1, i)) >= Closes(SubSeq(f, 1, i))
  <2>1. i \in 1 .. Len(f)
    BY <1>2
  <2>2. SubSeq(s, 1, i) = SubSeq(f, 1, i)
    <3> HIDE DEF f, t
    <3> QED BY <1>2, <2>1, PrefixFacts
  <2>3. Opens(SubSeq(s, 1, i)) >= Closes(SubSeq(s, 1, i))
    BY DEF Unclosed
  <2> QED BY <2>2, <2>3
<1>6. Opens(f) >= Closes(f)
  <2>1. CASE n = 1
    <3>1. f = <<>>
      <4> HIDE DEF f
      <4> QED BY <1>2, <2>1
    <3> QED BY <3>1, CountsOfNone
  <2>2. CASE n # 1
    <3>1. n - 1 \in 1 .. n - 1 /\ n - 1 \in 1 .. Len(f)
      BY <1>2, <2>2
    <3>2. SubSeq(f, 1, Len(f)) = f
      <4> HIDE DEF f
      <4> QED BY <1>2, PrefixFacts
    <3> QED BY <1>2, <1>5, <3>1, <3>2
  <2> QED BY <2>1, <2>2
<1>7. t = "}" /\ Opens(f) = Closes(f)
  <2> HIDE DEF f, t
  <2> DEFINE o == IF t = "{" THEN 1 ELSE 0
             c == IF t = "}" THEN 1 ELSE 0
  <2>1. Opens(s) = Opens(f) + o /\ Closes(s) = Closes(f) + c
    BY <1>3
  <2>2. /\ o \in {0, 1} /\ c \in {0, 1}
        /\ c = 1 => t = "}"
        /\ o = 1 => t = "{"
    <3>1. 0 # 1
      OBVIOUS
    <3> QED BY <3>1, Zenon
  <2>3. t = "}" => t # "{"
    BY Zenon
  <2>4. c = 1 => o # 1
    BY <2>2, <2>3, Zenon
  <2> HIDE DEF o, c
  <2>5. c = 1 /\ Opens(f) = Closes(f)
    <3> DEFINE a == Opens(f)
               b == Closes(f)
    <3>1. a \in Nat /\ b \in Nat /\ a >= b /\ (a + o) + 1 = b + c
      BY <1>4, <1>6, <2>1
    <3>2. o \in {0, 1} /\ c \in {0, 1} /\ (c = 1 => o # 1)
      BY <2>2, <2>4, Zenon
    <3> HIDE DEF a, b
    <3>3. c = 1 /\ a = b
      BY <3>1, <3>2
    <3> QED BY <3>3 DEF a, b
  <2> QED BY <2>2, <2>5, Zenon
<1>8. Balanced(f)
  <2>1. \A i \in DOMAIN f : i \in 1 .. n - 1
    BY <1>2
  <2> HIDE DEF f, n
  <2> QED BY <1>5, <1>7, <2>1 DEF Balanced
<1> QED BY <1>1, <1>7, <1>8

-----------------------------------------------------------------------------
(* The tokens ahead.                                                       *)

(* The end of a level changes nothing. *)
LEMMA AheadAfterLevel ==
    ASSUME LevelsType, levels # <<>>, Head(levels) = <<>>, TS!PopLevel
    PROVE  Ahead' = Ahead
<1> DEFINE T == Seq(Token)
           r == Tail(levels)
           e == <<>>
<1>1. e \in T /\ r \in Seq(T) /\ levels = <<e>> \o r /\ levels' = r /\ input' = input
  BY HeadTail DEF LevelsType, TS!PopLevel
<1>2. FlattenSeq(<<e>> \o r) = e \o FlattenSeq(r)
  <2>1. e \in Seq(Token) /\ r \in Seq(Seq(Token))
    BY <1>1
  <2> HIDE DEF e, r
  <2> QED BY <2>1, FlattenFirst
<1>3. FlattenSeq(r) \in Seq(Token)
  <2>1. r \in Seq(Seq(Token))
    BY <1>1
  <2> HIDE DEF r
  <2> QED BY <2>1, FlattenType
<1>4. e \o FlattenSeq(r) = FlattenSeq(r)
  <2> DEFINE a == FlattenSeq(r)
  <2>1. a \in Seq(Token)
    BY <1>3
  <2> HIDE DEF a
  <2>2. <<>> \o a = a
    BY <2>1, EmptyConcat
  <2> QED BY <2>2 DEF a
<1>5. FlattenSeq(levels') = FlattenSeq(levels)
  BY <1>1, <1>2, <1>4
<1> QED BY <1>1, <1>5 DEF Ahead

(* A token that is taken was the next one. *)
LEMMA AheadAfterToken ==
    ASSUME LevelsType, NEW t \in Token, Taking(t)
    PROVE  Ahead = <<t>> \o Ahead' /\ Ahead' \in Seq(Token)
<1> USE DEF LevelsType
<1>1. CASE levels # <<>> /\ Head(levels) # <<>> /\ t = Head(Head(levels)) /\ TS!PopPushed
  <2> DEFINE h == Head(levels)
             r == Tail(levels)
             x == Tail(h)
             T == Seq(Token)
             a == FlattenSeq(r)
  <2>1. h \in T /\ r \in Seq(T) /\ levels = <<h>> \o r
    BY <1>1, HeadTail
  <2>2. x \in Seq(Token) /\ h = <<t>> \o x
    <3>1. h \in Seq(Token) /\ h # <<>> /\ t = Head(h)
      BY <1>1, <2>1
    <3> HIDE DEF h
    <3> QED BY <3>1, HeadTail
  <2>3. levels' = <<x>> \o r /\ input' = input
    BY <1>1 DEF TS!PopPushed
  <2>4. FlattenSeq(<<h>> \o r) = h \o a /\ FlattenSeq(<<x>> \o r) = x \o a
    <3>1. h \in Seq(Token) /\ r \in Seq(Seq(Token))
      BY <2>1
    <3> HIDE DEF h, r, x
    <3> QED BY <3>1, <2>2, FlattenFirst
  <2>5. a \in Seq(Token)
    <3>1. r \in Seq(Seq(Token))
      BY <2>1
    <3> HIDE DEF r
    <3> QED BY <3>1, FlattenType
  <2>6. Ahead = ((<<t>> \o x) \o a) \o input /\ Ahead' = (x \o a) \o input
    BY <2>1, <2>2, <2>3, <2>4 DEF Ahead
  <2>7. input \in Seq(Token) /\ <<t>> \in Seq(Token)
    OBVIOUS
  <2> HIDE DEF x, a
  <2>8. x \o a \in Seq(Token) /\ (x \o a) \o input \in Seq(Token)
    BY <2>2, <2>5, <2>7
  <2>9. (<<t>> \o x) \o a = <<t>> \o (x \o a)
    BY <2>2, <2>5, <2>7, Assoc
  <2>10. (<<t>> \o (x \o a)) \o input = <<t>> \o ((x \o a) \o input)
    <3> DEFINE y == x \o a
    <3>1. y \in Seq(Token)
      BY <2>8
    <3> HIDE DEF y
    <3>2. (<<t>> \o y) \o input = <<t>> \o (y \o input)
      BY <3>1, <2>7, Assoc
    <3> QED BY <3>2 DEF y
  <2> QED BY <2>6, <2>8, <2>9, <2>10
<1>2. CASE levels = <<>> /\ Readable /\ t = Head(input) /\ TS!PopInput
  <2>1. input # <<>> /\ input' = Tail(input) /\ levels' = <<>>
    BY <1>2 DEF TS!PopInput
  <2>2. FlattenSeq(<<>>) = <<>>
    BY DEF FlattenSeq
  <2>3. Ahead = <<>> \o input /\ Ahead' = <<>> \o input'
    BY <1>2, <2>1, <2>2 DEF Ahead
  <2>4. /\ input = <<t>> \o Tail(input) /\ Tail(input) \in Seq(Token)
        /\ <<>> \o input = input
    BY <1>2, <2>1, HeadTail, EmptyConcat
  <2>5. <<>> \o Tail(input) = Tail(input)
    BY <2>1, EmptyConcat
  <2> QED BY <2>1, <2>3, <2>4, <2>5
<1> QED BY <1>1, <1>2 DEF Taking

-----------------------------------------------------------------------------
(* Types.                                                                  *)

StacksType == LevelsType /\ ScopesType /\ data \in Seq(Objects)

Where == pc \in {"next", "literal", "method", "lookup", "try", "level",
                 "push", "curly", "foreign", "ran", "done", "failed",
                 "crashed", "wrecked"}

WorkType ==
    /\ Where
    /\ pc \in {"method", "lookup"} => ctkn \in Words
    /\ cands \in Seq(Runnables)
    /\ pc = "try" \/ InCandidate => cands # <<>>
    /\ todo \in Seq(Token) /\ block \in Seq(Token)
    /\ ops \in 0 .. MaxOps

LEMMA TypeParts == TypeOK <=> StacksType /\ WorkType
  BY DEF TypeOK, StacksType, WorkType, Where, Ended, LevelsType, ScopesType

LEMMA TypePartsNext == TypeOK' <=> StacksType' /\ WorkType'
  BY DEF TypeOK, StacksType, WorkType, Where, Ended, LevelsType, ScopesType,
         InCandidate

(* The tokens that the loop and its literals and methods work on. *)
LEMMA LoopTypes ==
    ASSUME StacksType, WorkType,
           DropLevel \/ TakeToken \/ Finish \/ PushLiteral
    PROVE  StacksType' /\ WorkType'
<1> USE DEF StacksType, WorkType, Where
<1>1. CASE DropLevel
  <2>1. LevelsType'
    BY <1>1, PopLevelType DEF DropLevel
  <2> QED BY <1>1, <2>1 DEF DropLevel, sst, run, ScopesType, InCandidate
<1>2. CASE TakeToken
  <2>1. PICK t \in Token : /\ Taking(t)
                           /\ ctkn' = t
                           /\ pc' = IF t \in Words THEN "method" ELSE "literal"
    BY <1>2 DEF TakeToken
  <2>2. LevelsType'
    BY <2>1, TakingType
  <2>3. UNCHANGED <<sst, data, run>>
    BY <1>2 DEF TakeToken
  <2> QED BY <2>1, <2>2, <2>3 DEF sst, run, ScopesType, InCandidate
<1>3. CASE Finish
  BY <1>3 DEF Finish, tst, sst, run, LevelsType, ScopesType, InCandidate
<1>4. CASE PushLiteral
  <2>1. data' \in Seq(Objects)
    BY <1>4, LiteralPushed DEF PushLiteral
  <2>2. pc' \in {"next", "failed"}
    BY <1>4 DEF PushLiteral
  <2>3. UNCHANGED <<tst, sst, run>>
    BY <1>4 DEF PushLiteral
  <2> QED BY <2>1, <2>2, <2>3 DEF tst, sst, run, LevelsType, ScopesType, InCandidate
<1> QED BY <1>1, <1>2, <1>3, <1>4

LEMMA MethodEnds ==
    ASSUME StacksType, RunMethod
    PROVE  /\ data' \in Seq(Objects)
           /\ pc' \in {"lookup", "next", "failed", "crashed"}
<1>1. CASE UNCHANGED data /\ pc' \in {"lookup", "crashed"}
  BY <1>1 DEF StacksType
<1>2. CASE ~(UNCHANGED data /\ pc' \in {"lookup", "crashed"})
  <2>1. /\ data # <<>> /\ Head(data) \in DOMAIN Methods
        /\ ctkn \in Methods[Head(data)]
    BY <1>2 DEF RunMethod
  <2>2. PICK out \in Outcomes(ctkn, data) :
           pc' = AfterMethod[out[1]] /\ data' = out[2]
    BY <1>2, <2>1 DEF RunMethod
  <2>3. out[1] \in {"ok", "mismatch", "error", "crash"} /\ out[2] \in Seq(Objects)
    BY <2>1, OutcomesType DEF StacksType
  <2> QED BY <2>2, <2>3 DEF AfterMethod
<1> QED BY <1>1, <1>2

LEMMA MethodTypes ==
    ASSUME StacksType, WorkType, RunMethod
    PROVE  StacksType' /\ WorkType'
<1>1. pc = "method" /\ UNCHANGED <<tst, sst, ctkn, run>>
  BY DEF RunMethod
<1>2. data' \in Seq(Objects) /\ pc' \in {"lookup", "next", "failed", "crashed"}
  BY MethodEnds
<1> QED BY <1>1, <1>2 DEF StacksType, WorkType, Where, tst, sst, run, LevelsType,
                          ScopesType, InCandidate

LEMMA TryTypes ==
    ASSUME StacksType, WorkType, LookUp \/ TryCandidate
    PROVE  StacksType' /\ WorkType'
<1> USE DEF StacksType, WorkType, Where
<1>1. CASE LookUp
  <2>1. GetAll(ctkn) \in Seq(Runnables)
    BY <1>1, GetAllType DEF LookUp, ScopesType
  <2>2. pc' = IF cands' = <<>> THEN "failed" ELSE "try"
    BY <1>1 DEF LookUp
  <2>3. cands' = GetAll(ctkn) /\ UNCHANGED <<tst, sst, data, ctkn, todo, block, ops>>
    BY <1>1 DEF LookUp
  <2> QED BY <2>1, <2>2, <2>3 DEF tst, sst, LevelsType, ScopesType, InCandidate
<1>2. CASE TryCandidate
  <2>1. pc = "try" /\ pc' \in {"level", "curly", "foreign"}
    BY <1>2 DEF TryCandidate
  <2>2. UNCHANGED <<levels, input, layers, data, ctkn, cands, todo, ops>> /\ block' = <<>>
    BY <1>2 DEF TryCandidate, TS!Save, SS!Save
  <2> QED BY <2>1, <2>2 DEF LevelsType, ScopesType, InCandidate
<1> QED BY <1>1, <1>2

LEMMA BlockTypes ==
    ASSUME StacksType, WorkType, RunBlock \/ PushBlockToken \/ BlockPushed
    PROVE  StacksType' /\ WorkType'
<1> USE DEF StacksType, WorkType, Where
<1>1. CASE RunBlock
  <2>1. LevelsType'
    BY <1>1, PushLevelType DEF RunBlock
  <2>2. AnyPuts \in Seq(Token)
    <3>1. ">string" \in Token /\ "puts" \in Token
      BY DEF Token, Words
    <3>2. \A a, b \in Token : <<a, b>> \in Seq(Token)
      OBVIOUS
    <3> QED BY <3>1, <3>2 DEF AnyPuts
  <2>3. /\ pc = "level" /\ pc' = "push" /\ todo' = AnyPuts
        /\ UNCHANGED <<sst, data, ctkn, cands, block, ops>>
    BY <1>1 DEF RunBlock
  <2> QED BY <2>1, <2>2, <2>3 DEF sst, ScopesType, InCandidate
<1>2. CASE PushBlockToken
  <2>1. /\ pc = "push" /\ todo # <<>> /\ TS!Push(Last(todo)) /\ todo' = Front(todo)
        /\ UNCHANGED <<sst, data, pc, ctkn, cands, block, ops>>
    BY <1>2 DEF PushBlockToken
  <2>2. Last(todo) \in Token /\ todo' \in Seq(Token)
    BY <2>1, LastFront
  <2>3. LevelsType'
    BY <2>1, <2>2, PushType
  <2> QED BY <2>1, <2>2, <2>3 DEF sst, ScopesType, InCandidate
<1>3. CASE BlockPushed
  <2>1. /\ pc = "push" /\ pc' = "ran"
        /\ UNCHANGED <<tst, sst, data, ctkn, cands, todo, block, ops>>
    BY <1>3 DEF BlockPushed, Return
  <2> QED BY <2>1 DEF tst, sst, LevelsType, ScopesType, InCandidate
<1> QED BY <1>1, <1>2, <1>3

LEMMA CurlyTypes ==
    ASSUME StacksType, WorkType, CurlyTake \/ CurlyUnclosed \/ CurlyPush
    PROVE  StacksType' /\ WorkType'
<1> USE DEF StacksType, WorkType, Where
<1>1. CASE CurlyTake
  <2>1. PICK t \in Token : Taking(t) /\ block' = Append(block, t)
    BY <1>1 DEF CurlyTake
  <2>2. LevelsType'
    BY <2>1, TakingType
  <2>3. block' \in Seq(Token)
    BY <2>1
  <2>4. UNCHANGED <<sst, data, pc, ctkn, cands, todo, ops>>
    BY <1>1 DEF CurlyTake
  <2> QED BY <2>2, <2>3, <2>4 DEF sst, ScopesType, InCandidate
<1>2. CASE CurlyUnclosed
  <2>1. /\ pc = "curly" /\ pc' = "ran"
        /\ UNCHANGED <<tst, sst, data, ctkn, cands, todo, block, ops>>
    BY <1>2 DEF CurlyUnclosed, Return
  <2> QED BY <2>1 DEF tst, sst, LevelsType, ScopesType, InCandidate
<1>3. CASE CurlyPush
  <2>1. "codeBlock" \in Objects
    BY DEF Objects
  <2>2. data' \in Seq(Objects)
    BY <1>3, <2>1, LiteralPushed DEF CurlyPush
  <2>3. /\ pc = "curly" /\ pc' \in {"ran", "crashed"}
        /\ UNCHANGED <<tst, sst, ctkn, cands, todo, block, ops>>
    BY <1>3 DEF CurlyPush, Return
  <2> QED BY <2>2, <2>3 DEF tst, sst, LevelsType, ScopesType, InCandidate
<1> QED BY <1>1, <1>2, <1>3

(* The three kinds of operation of a foreign function. *)
LEMMA ForeignOps ==
    ASSUME StacksType, ForeignOp, NEW ls, SavedAs(ls)
    PROVE  StacksType' /\ tsaved' = tsaved /\ SavedAs(ls)'
<1> USE DEF StacksType
<1>1. CASE /\ data' = <<"integral">> \o data \/ (data # <<>> /\ data' = Tail(data))
           /\ UNCHANGED <<tst, sst>>
  <2>1. "integral" \in Objects
    BY DEF Objects
  <2>2. data' \in Seq(Objects)
    BY <1>1, <2>1, LiteralPushed, HeadTail
  <2> QED BY <1>1, <2>2 DEF tst, sst, LevelsType, ScopesType, SavedAs
<1>2. CASE /\ \/ \E t \in Token : Taking(t)
              \/ \E t \in Pushed : TS!Push(t)
              \/ TS!PushLevel \/ TS!PopLevel
           /\ UNCHANGED <<sst, data>>
  <2>1. Pushed \subseteq Token
    BY PushedAssumption
  <2>2. LevelsType' /\ tsaved' = tsaved
    BY <1>2, <2>1, TakingType, PushType, PushLevelType, PopLevelType
  <2> QED BY <1>2, <2>2 DEF sst, ScopesType, SavedAs
<1>3. CASE /\ \/ \E w \in Foreign : SS!Set(w, w) \/ SS!Set("puts", w)
              \/ SS!PushScope \/ SS!PopScope
           /\ UNCHANGED <<tst, data>>
  <2>1. \A w \in Foreign : w \in Words /\ w \in Runnables
    BY DEF Words, Runnables
  <2>2. "puts" \in Words
    BY DEF Words
  <2>3. ScopesType' /\ SavedAs(ls)'
    BY <1>3, <2>1, <2>2, SetType, PushScopeType, PopScopeType
  <2> QED BY <1>3, <2>3 DEF tst, LevelsType
<1> QED BY <1>1, <1>2, <1>3 DEF ForeignOp

LEMMA ForeignTypes ==
    ASSUME StacksType, WorkType, SavedBefore, ForeignOp \/ ForeignReturn
    PROVE  StacksType' /\ WorkType'
<1>1. CASE ForeignOp
  <2>1. SavedAs(before.layers)
    BY <1>1 DEF SavedBefore, ForeignOp, InCandidate, SavedAs
  <2>2. StacksType'
    BY <1>1, <2>1, ForeignOps
  <2>3. /\ ops < MaxOps /\ ops' = ops + 1
        /\ UNCHANGED <<pc, ctkn, cands, todo, block>>
    BY <1>1 DEF ForeignOp
  <2>4. ops' \in 0 .. MaxOps
    BY <2>3, OpsAssumption DEF WorkType
  <2> QED BY <2>2, <2>3, <2>4 DEF WorkType, Where, InCandidate
<1>2. CASE ForeignReturn
  <2>1. /\ pc = "foreign" /\ pc' = "ran"
        /\ UNCHANGED <<tst, sst, data, ctkn, cands, todo, block, ops>>
    BY <1>2 DEF ForeignReturn, Return
  <2> QED BY <2>1 DEF StacksType, WorkType, Where, tst, sst, LevelsType,
                      ScopesType, InCandidate
<1> QED BY <1>1, <1>2

(* Going back brings back stacks of the right kind, since it goes back to  *)
(* what is in before. *)
LEMMA RollBackGoesBack ==
    ASSUME SavedBefore, RollBack
    PROVE  Stacks' = before /\ before \in View
<1>1. /\ before \in View
      /\ tsaved = [levels |-> before.levels, input |-> before.input]
      /\ ssaved \in {before.layers, Void, NoSave}
      /\ copy = before.data
  BY DEF SavedBefore, RollBack, InCandidate
<1>2. levels' = before.levels /\ input' = before.input
  BY <1>1 DEF RollBack, TS!Restore
<1>3. layers' = before.layers
  BY <1>1 DEF RollBack, SS!Restore
<1>4. data' = before.data
  BY <1>1 DEF RollBack
<1>5. before = [levels |-> before.levels, input |-> before.input,
                data |-> before.data, layers |-> before.layers]
  BY <1>1 DEF View
<1> QED BY <1>1, <1>2, <1>3, <1>4, <1>5 DEF Stacks

LEMMA EndTypes ==
    ASSUME StacksType, WorkType, SavedBefore,
           Accept \/ RollBack \/ RollBackWrecks \/ CandidateFails
    PROVE  StacksType' /\ WorkType'
<1> USE DEF WorkType, Where
<1>1. CASE Accept
  <2>1. /\ pc' = "next" /\ cands' = <<>>
        /\ UNCHANGED <<levels, input, layers, data, ctkn, todo, block, ops>>
    BY <1>1 DEF Accept, TS!Discard, SS!Discard
  <2> QED BY <2>1 DEF StacksType, LevelsType, ScopesType, InCandidate
<1>2. CASE RollBack
  <2>1. Stacks' = before /\ before \in View
    BY <1>2, RollBackGoesBack
  <2>2. /\ levels' = before.levels /\ input' = before.input
        /\ data' = before.data /\ layers' = before.layers
    BY <2>1 DEF Stacks
  <2>3. StacksType'
    BY <2>1, <2>2 DEF View, StacksType, LevelsType, ScopesType
  <2>4. /\ pc = "ran" /\ cands' = Tail(cands)
        /\ pc' = IF cands' = <<>> THEN "next" ELSE "try"
        /\ UNCHANGED <<ctkn, todo, block, ops>>
    BY <1>2 DEF RollBack
  <2>5. cands' \in Seq(Runnables)
    BY <2>4, HeadTail DEF InCandidate
  <2> QED BY <2>3, <2>4, <2>5 DEF InCandidate
<1>3. CASE RollBackWrecks \/ CandidateFails
  <2>1. /\ pc' \in {"wrecked", "failed"}
        /\ UNCHANGED <<tst, sst, data, ctkn, run>>
    BY <1>3 DEF RollBackWrecks, CandidateFails
  <2> QED BY <2>1 DEF StacksType, tst, sst, run, LevelsType, ScopesType, InCandidate
<1> QED BY <1>1, <1>2, <1>3

LEMMA TypeStep ==
    ASSUME TypeOK, SavedBefore, [Next]_vars
    PROVE  TypeOK'
<1>1. StacksType /\ WorkType
  BY TypeParts
<1>2. CASE UNCHANGED vars
  BY <1>1, <1>2, TypePartsNext DEF vars, tst, sst, run, StacksType, WorkType, Where,
     LevelsType, ScopesType, InCandidate
<1>3. CASE Next /\ ~UNCHANGED vars
  <2>1. StacksType' /\ WorkType'
    BY <1>1, <1>3, LoopTypes, MethodTypes, TryTypes, BlockTypes, CurlyTypes,
       ForeignTypes, EndTypes DEF Next, Stopped
  <2> QED BY <2>1, TypePartsNext
<1> QED BY <1>2, <1>3

-----------------------------------------------------------------------------
(* Save points.                                                            *)

(* Only these change a save point: all else leaves tst's and the copy of   *)
(* the data stack alone. *)
LEMMA QuietSteps ==
    ASSUME StacksType, WorkType, SavedBefore, [Next]_vars
    PROVE  \/ TryCandidate \/ Accept \/ RollBack
           \/ /\ tsaved' = tsaved /\ copy' = copy
              /\ (ssaved' = ssaved \/ ForeignOp)
<1>1. CASE TakeToken \/ CurlyTake
  BY <1>1, TakingType DEF TakeToken, CurlyTake, StacksType, sst
<1>2. CASE RunBlock \/ DropLevel
  BY <1>2, PushLevelType, PopLevelType DEF RunBlock, DropLevel, StacksType, sst
<1>3. CASE PushBlockToken
  <2>1. todo # <<>> /\ todo \in Seq(Token) /\ TS!Push(Last(todo))
        /\ UNCHANGED <<sst, copy>>
    BY <1>3 DEF PushBlockToken, WorkType
  <2>2. Last(todo) \in Token
    BY <2>1, LastFront
  <2> QED BY <2>1, <2>2, PushType DEF StacksType, sst
<1>4. CASE ForeignOp
  <2>1. SavedAs(before.layers)
    BY <1>4 DEF SavedBefore, ForeignOp, InCandidate, SavedAs
  <2>2. tsaved' = tsaved
    BY <1>4, <2>1, ForeignOps
  <2> QED BY <1>4, <2>2 DEF ForeignOp
<1>5. CASE \/ Finish \/ PushLiteral \/ RunMethod \/ LookUp \/ BlockPushed
           \/ CurlyUnclosed \/ CurlyPush \/ ForeignReturn
           \/ RollBackWrecks \/ CandidateFails \/ Stopped \/ UNCHANGED vars
  BY <1>5 DEF Finish, PushLiteral, RunMethod, LookUp, BlockPushed, CurlyUnclosed,
     CurlyPush, ForeignReturn, RollBackWrecks, CandidateFails, Stopped, vars, tst, sst
<1> QED BY <1>1, <1>2, <1>3, <1>4, <1>5 DEF Next

AtRest == {"next", "literal", "method", "lookup", "try", "done"}

(* parse comes to rest only from where it was at rest, or by ending a      *)
(* candidate. *)
LEMMA RestsFrom ==
    ASSUME WorkType, [Next]_vars, pc' \in AtRest
    PROVE  Accept \/ RollBack \/ pc \in AtRest
  BY DEF Next, AtRest, DropLevel, TakeToken, Finish, PushLiteral, RunMethod,
     LookUp, TryCandidate, RunBlock, PushBlockToken, BlockPushed, CurlyTake,
     CurlyUnclosed, CurlyPush, ForeignOp, ForeignReturn, RollBackWrecks,
     CandidateFails, Stopped, Return, vars

LEMMA NoStaleStep ==
    ASSUME StacksType, WorkType, SavedBefore, NoStaleSave, [Next]_vars
    PROVE  NoStaleSave'
<1> SUFFICES ASSUME pc' \in AtRest
             PROVE  tsaved' = NoSave /\ ssaved' = NoSave /\ copy' = NoSave
  BY DEF NoStaleSave, AtRest
<1>1. CASE Accept
  BY <1>1 DEF Accept, TS!Discard, SS!Discard
<1>2. CASE RollBack
  BY <1>2 DEF RollBack, TS!Restore, SS!Restore
<1>3. CASE pc \in AtRest /\ ~Accept /\ ~RollBack
  <2>1. tsaved = NoSave /\ ssaved = NoSave /\ copy = NoSave
    BY <1>3 DEF NoStaleSave, AtRest
  <2>2. ~TryCandidate /\ ~ForeignOp
    BY <1>3 DEF TryCandidate, ForeignOp, AtRest
  <2> QED BY <1>3, <2>1, <2>2, QuietSteps
<1> QED BY <1>1, <1>2, <1>3, RestsFrom

LEMMA SavedStep ==
    ASSUME StacksType, WorkType, SavedBefore, [Next]_vars
    PROVE  SavedBefore'
<1>1. CASE TryCandidate
  <2>1. /\ pc = "try" /\ pc' \in {"level", "curly", "foreign"}
        /\ tsaved' = [levels |-> levels, input |-> input]
        /\ ssaved' = layers /\ copy' = data /\ before' = before
    BY <1>1 DEF TryCandidate, TS!Save, TS!View, SS!Save
  <2>2. before = Stacks
    BY <2>1 DEF SavedBefore
  <2>3. before \in View
    BY <2>2 DEF Stacks, View, StacksType, LevelsType, ScopesType
  <2> QED BY <2>1, <2>2, <2>3 DEF SavedBefore, Stacks
<1>2. CASE LookUp
  <2>1. pc' \in {"failed", "try"} /\ (pc' = "try" => before' = Stacks)
        /\ UNCHANGED <<tst, sst, data>>
    BY <1>2 DEF LookUp
  <2> QED BY <2>1 DEF SavedBefore, InCandidate, Stacks, tst, sst
<1>3. CASE RollBack
  <2>1. Stacks' = before
    BY <1>3, RollBackGoesBack
  <2>2. before' = before /\ pc' \in {"next", "try"}
    BY <1>3 DEF RollBack, history
  <2> QED BY <2>1, <2>2 DEF SavedBefore, InCandidate
<1>4. CASE ~TryCandidate /\ ~LookUp /\ ~RollBack
  <2>1. before' = before
    BY <1>4 DEF Next, DropLevel, TakeToken, Finish, PushLiteral, RunMethod,
       RunBlock, PushBlockToken, BlockPushed, CurlyTake, CurlyUnclosed, CurlyPush,
       ForeignOp, ForeignReturn, Accept, RollBackWrecks, CandidateFails, Stopped,
       vars, history
  <2>2. CASE Accept
    BY <2>2 DEF Accept, SavedBefore, InCandidate
  <2>3. CASE ~Accept
    <3>1. pc' # "try" \/ UNCHANGED vars
      BY <1>4, <2>3, MethodEnds DEF Next, DropLevel, TakeToken, Finish, PushLiteral,
         RunBlock, PushBlockToken, BlockPushed, CurlyTake, CurlyUnclosed, CurlyPush,
         ForeignOp, ForeignReturn, RollBackWrecks, CandidateFails, Stopped, Return,
         vars
    <3>2. InCandidate' => InCandidate
      BY <1>4, <2>3, MethodEnds DEF Next, DropLevel, TakeToken, Finish, PushLiteral,
         RunBlock, PushBlockToken, BlockPushed, CurlyTake, CurlyUnclosed, CurlyPush,
         ForeignOp, ForeignReturn, RollBackWrecks, CandidateFails, Stopped, Return,
         vars, InCandidate
    <3>3. ASSUME InCandidate
          PROVE  ssaved' \in {before.layers, Void, NoSave}
      <4>1. SavedAs(before.layers)
        BY <3>3 DEF SavedBefore, SavedAs
      <4>2. ForeignOp => SavedAs(before.layers)'
        <5>1. ASSUME NEW ls, SavedAs(ls), ForeignOp PROVE ssaved' \in {ls, Void, NoSave}
          BY <5>1, ForeignOps DEF SavedAs
        <5> QED BY <2>1, <4>1, <5>1 DEF SavedAs
      <4> QED BY <1>4, <2>1, <2>3, <4>1, <4>2, QuietSteps DEF SavedAs
    <3>4. tsaved' = tsaved /\ copy' = copy
      BY <1>4, <2>3, QuietSteps
    <3>5. CASE UNCHANGED vars
      BY <3>5 DEF SavedBefore, InCandidate, Stacks, vars, tst, sst, history
    <3>6. CASE pc' # "try"
      BY <2>1, <3>2, <3>3, <3>4, <3>6 DEF SavedBefore
    <3> QED BY <3>1, <3>5, <3>6
  <2> QED BY <2>2, <2>3
<1> QED BY <1>1, <1>2, <1>3, <1>4

-----------------------------------------------------------------------------
(* curly.                                                                  *)

LEMMA CurlyStep ==
    ASSUME StacksType, WorkType, TakenByCurly, [Next]_vars
    PROVE  TakenByCurly'
<1> SUFFICES ASSUME pc' = "curly"
             PROVE  opened' = block' \o Ahead' /\ Unclosed(block')
  BY DEF TakenByCurly, Unclosed, Opens, Closes
<1>1. CASE TryCandidate
  <2>1. block' = <<>> /\ opened' = Ahead /\ UNCHANGED <<levels, input>>
    BY <1>1 DEF TryCandidate, TS!Save
  <2>2. Ahead' = Ahead
    BY <2>1 DEF Ahead
  <2>3. Ahead \in Seq(Token)
    <3>1. FlattenSeq(levels) \in Seq(Token) /\ input \in Seq(Token)
      BY FlattenType DEF StacksType, LevelsType
    <3> QED BY <3>1 DEF Ahead
  <2>4. <<>> \o Ahead = Ahead
    BY <2>3, EmptyConcat
  <2>5. Unclosed(<<>>)
    BY CountsOfNone DEF Unclosed
  <2> QED BY <2>1, <2>2, <2>4, <2>5
<1>2. CASE CurlyTake
  <2>1. PICK t \in Token : Taking(t) /\ block' = Append(block, t)
    BY <1>2 DEF CurlyTake
  <2>2. opened = block \o Ahead /\ Unclosed(block) /\ opened' = opened
    BY <1>2 DEF CurlyTake, TakenByCurly, history
  <2>3. Ahead = <<t>> \o Ahead' /\ Ahead' \in Seq(Token) /\ block \in Seq(Token)
    BY <2>1, AheadAfterToken DEF StacksType, WorkType
  <2>4. block \o (<<t>> \o Ahead') = Append(block, t) \o Ahead'
    <3> DEFINE a == Ahead'
    <3>1. a \in Seq(Token) /\ <<t>> \in Seq(Token)
      BY <2>3
    <3> HIDE DEF a
    <3>2. (block \o <<t>>) \o a = block \o (<<t>> \o a)
      BY <2>3, <3>1, Assoc
    <3>3. block \o <<t>> = Append(block, t)
      BY <2>3
    <3> QED BY <3>2, <3>3 DEF a
  <2>5. Unclosed(block')
    BY <1>2, <2>1, <2>2, <2>3, UnclosedFurther DEF CurlyTake, CurlyOpen
  <2> QED BY <2>1, <2>2, <2>3, <2>4, <2>5
<1>3. CASE DropLevel
  <2>1. Ahead' = Ahead
    BY <1>3, AheadAfterLevel DEF DropLevel, StacksType
  <2>2. UNCHANGED <<pc, block, opened>>
    BY <1>3 DEF DropLevel, run, history
  <2> QED BY <2>1, <2>2 DEF TakenByCurly
<1>4. CASE UNCHANGED vars
  <2>1. UNCHANGED <<pc, block, opened, levels, input>>
    BY <1>4 DEF vars, run, history, tst
  <2> QED BY <2>1 DEF TakenByCurly, Ahead
<1>5. CASE Next /\ ~TryCandidate /\ ~CurlyTake /\ ~DropLevel /\ ~UNCHANGED vars
  <2>1. pc' # "curly"
    BY <1>5, MethodEnds DEF Next, TakeToken, Finish, PushLiteral, LookUp,
       RunBlock, PushBlockToken, BlockPushed, CurlyUnclosed, CurlyPush,
       ForeignOp, ForeignReturn, Accept, RollBack, RollBackWrecks, CandidateFails,
       Stopped, Return
  <2> QED BY <2>1
<1> QED BY <1>1, <1>2, <1>3, <1>4, <1>5

-----------------------------------------------------------------------------
(* The theorems.                                                           *)

LEMMA InitHolds ==
    ASSUME Init
    PROVE  IInv
<1>1. /\ levels = <<<<>>>> /\ input \in Seq(Token) /\ layers = <<Globals>>
      /\ data = <<>> /\ pc = "next" /\ cands = <<>> /\ todo = <<>> /\ block = <<>>
      /\ ops = 0 /\ tsaved = NoSave /\ ssaved = NoSave /\ copy = NoSave
  BY ProgramsAssumption DEF Init
<1>2. Globals \in SS!Layer
  BY DEF Globals, SS!Layer, Runnables
<1>3. <<Globals>> \in Seq(SS!Layer) /\ <<Globals>> # <<>>
  BY <1>2
<1>4. <<<<>>>> \in Seq(Seq(Token))
  <2>1. <<>> \in Seq(Token)
    OBVIOUS
  <2> QED BY <2>1
<1>5. StacksType
  BY <1>1, <1>3, <1>4 DEF StacksType, LevelsType, ScopesType
<1>6. WorkType
  BY <1>1, OpsAssumption DEF WorkType, Where, InCandidate
<1>7. TypeOK
  BY <1>5, <1>6, TypeParts
<1> QED BY <1>1, <1>7 DEF IInv, NoStaleSave, SavedBefore, TakenByCurly, InCandidate

LEMMA InvariantStep ==
    ASSUME IInv, [Next]_vars
    PROVE  IInv'
<1>1. TypeOK /\ SavedBefore /\ NoStaleSave /\ TakenByCurly /\ StacksType /\ WorkType
  BY TypeParts DEF IInv
<1> QED BY <1>1, TypeStep, NoStaleStep, SavedStep, CurlyStep DEF IInv

(* parse holds what it should wherever it is; the save points are those of *)
(* the candidate that runs, and what curly has taken was ahead when it     *)
(* began (main.c 10-171, globals.c 5-46). *)
THEOREM ParseKeepsItsPlace == Spec => []IInv
<1>1. Init => IInv
  BY InitHolds
<1>2. IInv /\ [Next]_vars => IInv'
  BY InvariantStep
<1> QED BY <1>1, <1>2, PTL DEF Spec

(* No save point outlives its candidate (main.c 78-133). *)
THEOREM SavesEnd == Spec => []NoStaleSave
<1>1. IInv => NoStaleSave
  BY DEF IInv
<1> QED BY <1>1, ParseKeepsItsPlace, PTL

(* A candidate that mismatches leaves the three stacks as the first        *)
(* candidate found them, whatever it did to them (main.c 96-114). *)
THEOREM MismatchTakenBack == Spec => MismatchLeavesNoTrace
<1>1. IInv /\ [Next]_vars =>
          [pc = "ran" /\ result = "mismatch" /\ pc' # "wrecked" => Stacks' = before]_vars
  <2> SUFFICES ASSUME IInv, Next, pc = "ran", result = "mismatch", pc' # "wrecked"
               PROVE  Stacks' = before \/ UNCHANGED vars
    OBVIOUS
  <2>1. RollBack \/ UNCHANGED vars
    BY DEF Next, DropLevel, TakeToken, Finish, PushLiteral, RunMethod, LookUp,
       TryCandidate, RunBlock, PushBlockToken, BlockPushed, CurlyTake,
       CurlyUnclosed, CurlyPush, ForeignOp, ForeignReturn, Accept,
       RollBackWrecks, CandidateFails, Stopped
  <2> QED BY <2>1, RollBackGoesBack DEF IInv
<1> QED BY <1>1, ParseKeepsItsPlace, PTL DEF Spec, MismatchLeavesNoTrace

(* The block of curly and its "}" are just the tokens that were ahead, and *)
(* the "}" is the match of the "{", on whichever levels and whatever tokens *)
(* foreign functions have pushed (globals.c 5-46, GLOBALS.md 7). *)
THEOREM CurlyFindsItsMatch == Spec => CurlyMatches
<1>1. IInv /\ [Next]_vars =>
          [pc = "curly" /\ pc' = "ran" /\ result' = "ok" =>
              /\ opened = block \o Ahead'
              /\ Last(block) = "}"
              /\ Balanced(Front(block))]_vars
  <2> SUFFICES ASSUME IInv, Next, pc = "curly", pc' = "ran", result' = "ok"
               PROVE  /\ opened = block \o Ahead'
                      /\ Last(block) = "}"
                      /\ Balanced(Front(block))
    OBVIOUS
  <2>1. CurlyPush
    BY DEF Next, DropLevel, TakeToken, Finish, PushLiteral, RunMethod, LookUp,
       TryCandidate, RunBlock, PushBlockToken, BlockPushed, CurlyTake,
       CurlyUnclosed, ForeignOp, ForeignReturn, Accept, RollBack,
       RollBackWrecks, CandidateFails, Stopped, Return, vars
  <2>2. opened = block \o Ahead /\ Unclosed(block) /\ block \in Seq(Token)
    BY DEF IInv, TakenByCurly, TypeOK
  <2>3. Opens(block) + 1 = Closes(block) /\ UNCHANGED tst
    BY <2>1 DEF CurlyPush, CurlyOpen
  <2>4. Ahead' = Ahead
    BY <2>3 DEF Ahead, tst
  <2> QED BY <2>2, <2>3, <2>4, ClosedBlock
<1> QED BY <1>1, ParseKeepsItsPlace, PTL DEF Spec, CurlyMatches

=============================================================================
