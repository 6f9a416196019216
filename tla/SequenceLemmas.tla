--------------------------- MODULE SequenceLemmas ---------------------------
(***************************************************************************)
(* What the proofs about several components use: induction over natural    *)
(* numbers, stated of sets and functions instead of operators so that a    *)
(* definition can take their place, and facts about sequences.             *)
(***************************************************************************)
EXTENDS Integers, Sequences, SequencesExt, TLAPS, SequenceTheorems,
        WellFoundedInduction, FiniteSetTheorems

(* A set of natural numbers that is not empty has a least one. *)
LEMMA LeastNumber ==
    ASSUME NEW S, S \subseteq Nat, S # {}
    PROVE  \E n \in S : \A m \in S : n <= m
<1> DEFINE R == {p \in Nat \X Nat : p[1] < p[2]}
<1>1. IsWellFoundedOn(R, Nat)
  <2>1. R = OpToRel(<, Nat)
    BY DEF OpToRel
  <2> QED BY NatLessThanWellFounded, <2>1
<1>2. PICK x \in S : \A y \in S : ~(<<y, x>> \in R)
  <2> HIDE DEF R
  <2> QED BY <1>1, WFMin
<1>3. ASSUME NEW y \in S PROVE x <= y
  <2>1. x \in Nat /\ y \in Nat
    OBVIOUS
  <2>2. <<y, x>> \in Nat \X Nat /\ ~(<<y, x>> \in R)
    BY <1>2, <2>1
  <2>3. ~(<<y, x>>[1] < <<y, x>>[2])
    BY <2>2
  <2> QED BY <2>1, <2>3
<1> QED BY <1>3

(* Induction from 0 up to n. *)
LEMMA UpwardInduction ==
    ASSUME NEW n \in Nat, NEW S, 0 \in S,
           \A i \in 0 .. n - 1 : i \in S => i + 1 \in S
    PROVE  \A i \in 0 .. n : i \in S
<1> SUFFICES ASSUME NEW j \in 0 .. n, j \notin S PROVE FALSE
  OBVIOUS
<1> DEFINE Bad == {i \in 0 .. n : i \notin S}
<1>1. Bad \subseteq Nat /\ Bad # {}
  OBVIOUS
<1>2. PICK i \in Bad : \A m \in Bad : i <= m
  <2> HIDE DEF Bad
  <2> QED BY <1>1, LeastNumber
<1>3. i \in 0 .. n /\ i # 0 /\ i - 1 \in 0 .. n - 1
  OBVIOUS
<1>4. i - 1 \in S
  BY <1>2, <1>3
<1> QED BY <1>3, <1>4

(* f begins with a and goes on by step. *)
Iterates(f, n, T, a, step) ==
    /\ f \in [0 .. n -> T]
    /\ f[0] = a
    /\ \A i \in 1 .. n : f[i] = step[i][f[i - 1]]

(* Such a function exists. *)
LEMMA RecursionExists ==
    ASSUME NEW n \in Nat, NEW T, NEW a \in T, NEW step \in [1 .. n -> [T -> T]]
    PROVE  \E f : Iterates(f, n, T, a, step)
<1> DEFINE Good(m, f) == /\ f \in [0 .. m -> T]
                         /\ f[0] = a
                         /\ \A i \in 1 .. m : f[i] = step[i][f[i - 1]]
           S == {m \in 0 .. n : \E f : Good(m, f)}
<1>1. 0 \in S
  <2> DEFINE f == [i \in 0 .. 0 |-> a]
  <2>1. Good(0, f)
    OBVIOUS
  <2> HIDE DEF f, Good
  <2> QED BY <2>1
<1>2. ASSUME NEW m \in 0 .. n - 1, m \in S PROVE m + 1 \in S
  <2>1. PICK f : Good(m, f)
    BY <1>2
  <2> DEFINE g == [i \in 0 .. m + 1 |-> IF i = m + 1 THEN step[m + 1][f[m]] ELSE f[i]]
  <2>2. step[m + 1][f[m]] \in T
    BY <2>1
  <2>3. g \in [0 .. m + 1 -> T]
    BY <2>1, <2>2
  <2>4. g[0] = a
    BY <2>1
  <2>5. ASSUME NEW i \in 1 .. m + 1 PROVE g[i] = step[i][g[i - 1]]
    BY <2>1
  <2>6. Good(m + 1, g)
    BY <2>3, <2>4, <2>5
  <2> HIDE DEF g, Good
  <2> QED BY <2>6
<1>3. \A m \in 0 .. n : m \in S
  <2> HIDE DEF S
  <2> QED BY <1>1, <1>2, UpwardInduction
<1>4. \E f : Good(n, f)
  <2>1. n \in S
    <3> HIDE DEF S
    <3> QED BY <1>3
  <2> HIDE DEF Good
  <2> QED BY <2>1
<1> QED BY <1>4 DEF Iterates

-----------------------------------------------------------------------------

LEMMA ConsProperties ==
    ASSUME NEW S, NEW x \in S, NEW s \in Seq(S)
    PROVE  /\ <<x>> \o s \in Seq(S)
           /\ <<x>> \o s # <<>>
           /\ Head(<<x>> \o s) = x
           /\ Tail(<<x>> \o s) = s
  OBVIOUS

LEMMA PrependEntry ==
    ASSUME NEW S, NEW x \in S, NEW s \in Seq(S)
    PROVE  /\ <<x>> \o s \in Seq(S)
           /\ Len(<<x>> \o s) = Len(s) + 1
           /\ \A j \in 1 .. Len(s) + 1 :
                 (<<x>> \o s)[j] = IF j = 1 THEN x ELSE s[j - 1]
<1>1. <<x>> \in Seq(S) /\ Len(<<x>>) = 1 /\ <<x>>[1] = x
  OBVIOUS
<1>2. <<x>> \o s \in Seq(S) /\ Len(<<x>> \o s) = 1 + Len(s)
  BY <1>1, ConcatProperties
<1>3. Len(s) \in Nat
  OBVIOUS
<1>4. ASSUME NEW j \in 1 .. 1 + Len(s)
      PROVE  (<<x>> \o s)[j] = IF j = 1 THEN x ELSE s[j - 1]
  BY <1>1, <1>3, ConcatProperties
<1> QED BY <1>2, <1>3, <1>4

LEMMA HeadTail ==
    ASSUME NEW S, NEW s \in Seq(S), s # <<>>
    PROVE  /\ Head(s) \in S
           /\ Tail(s) \in Seq(S)
           /\ <<Head(s)>> \o Tail(s) = s
  OBVIOUS

LEMMA TailOfConcat ==
    ASSUME NEW S, NEW s \in Seq(S), NEW t \in Seq(S), s # <<>>
    PROVE  s \o t # <<>> /\ Tail(s \o t) = Tail(s) \o t
  OBVIOUS

LEMMA EmptyConcat ==
    ASSUME NEW S, NEW s \in Seq(S)
    PROVE  <<>> \o s = s /\ (s # <<>> => <<>> \o Tail(s) = Tail(s))
  OBVIOUS

LEMMA Assoc ==
    ASSUME NEW S, NEW r \in Seq(S), NEW s \in Seq(S), NEW t \in Seq(S)
    PROVE  (r \o s) \o t = r \o (s \o t)
  OBVIOUS

LEMMA LastFront ==
    ASSUME NEW S, NEW s \in Seq(S), s # <<>>
    PROVE  /\ Front(s) \in Seq(S)
           /\ Len(Front(s)) = Len(s) - 1
           /\ \A i \in 1..Len(s) - 1 : Front(s)[i] = s[i]
           /\ Last(s) \in S
           /\ Last(s) = s[Len(s)]
<1>1. Len(s) \in Nat /\ Len(s) >= 1 /\ \A i \in 1..Len(s) : s[i] \in S
  OBVIOUS
<1>2. \A i \in 1..(Len(s) - 1) : s[i] \in S
  BY <1>1
<1>3. /\ SubSeq(s, 1, Len(s) - 1) \in Seq(S)
      /\ Len(SubSeq(s, 1, Len(s) - 1))
            = IF 1 <= Len(s) - 1 THEN Len(s) - 1 - 1 + 1 ELSE 0
      /\ \A i \in 1..(Len(s) - 1 - 1 + 1) :
            SubSeq(s, 1, Len(s) - 1)[i] = s[1 + i - 1]
  BY <1>1, <1>2, SubSeqProperties
<1>4. Front(s) = SubSeq(s, 1, Len(s) - 1) /\ Last(s) = s[Len(s)]
  BY DEF Front, Last
<1>5. Front(s) \in Seq(S)
  BY <1>3, <1>4
<1>6. Len(Front(s)) = IF 1 <= Len(s) - 1 THEN Len(s) - 1 - 1 + 1 ELSE 0
  BY <1>3, <1>4
<1>7. \A i \in 1..(Len(s) - 1 - 1 + 1) : Front(s)[i] = s[1 + i - 1]
  BY <1>3, <1>4
<1>8. Len(Front(s)) = Len(s) - 1
  <2> DEFINE m == Len(s)
             k == Len(Front(s))
  <2>1. m \in Nat /\ m >= 1
    BY <1>1
  <2>2. k = IF 1 <= m - 1 THEN m - 1 - 1 + 1 ELSE 0
    BY <1>6
  <2> HIDE DEF m, k
  <2>3. k = m - 1
    BY <2>1, <2>2
  <2> QED
    BY <2>3 DEF m, k
<1>9. \A i \in 1..(Len(s) - 1) : Front(s)[i] = s[i]
  BY <1>1, <1>7
<1> QED
  BY <1>1, <1>4, <1>5, <1>8, <1>9

LEMMA AppendFacts ==
    ASSUME NEW S, NEW s \in Seq(S), NEW x \in S
    PROVE  /\ Append(s, x) \in Seq(S)
           /\ Append(s, x) # <<>>
           /\ Len(Append(s, x)) = Len(s) + 1
           /\ Append(s, x)[Len(s) + 1] = x
           /\ \A i \in 1..Len(s) : Append(s, x)[i] = s[i]
  OBVIOUS

LEMMA FrontType ==
    ASSUME NEW S, NEW s \in Seq(S)
    PROVE  Front(s) \in Seq(S)
<1>1. CASE s = <<>>
  <2>1. Len(s) = 0
    BY <1>1
  <2>2. \A i \in 1..(Len(s) - 1) : s[i] \in S
    BY <2>1
  <2>3. SubSeq(s, 1, Len(s) - 1) \in Seq(S)
    BY <2>1, <2>2, SubSeqProperties
  <2> QED
    BY <2>3 DEF Front
<1>2. CASE s # <<>>
  BY <1>2, LastFront
<1> QED
  BY <1>1, <1>2

-----------------------------------------------------------------------------
(* The definition of FlattenSeq is a loop over its argument. *)
LEMMA FlattenLoop ==
    ASSUME NEW S, NEW ss \in Seq(Seq(S)), ss # <<>>
    PROVE  \E f \in [1 .. Len(ss) -> Seq(S)] :
              /\ FlattenSeq(ss) = f[Len(ss)]
              /\ f[1] = ss[1]
              /\ \A i \in 2 .. Len(ss) : f[i] = f[i - 1] \o ss[i]
<1> DEFINE n == Len(ss)
           F(f) == [i \in 1 .. n |-> IF i = 1 THEN ss[i] ELSE f[i - 1] \o ss[i]]
           step == [i \in 1 .. n |-> [s \in Seq(S) |-> s \o ss[i]]]
           loop == CHOOSE f : f = F(f)
<1>1. n \in Nat /\ n >= 1 /\ \A i \in 1 .. n : ss[i] \in Seq(S)
  OBVIOUS
<1>2. step \in [1 .. n -> [Seq(S) -> Seq(S)]]
  BY <1>1
<1>3. PICK g \in [0 .. n -> Seq(S)] :
         g[0] = <<>> /\ \A i \in 1 .. n : g[i] = step[i][g[i - 1]]
  <2> DEFINE T == Seq(S)
             none == <<>>
  <2>1. none \in T
    OBVIOUS
  <2>2. n \in Nat
    BY <1>1
  <2> HIDE DEF step, n, T, none
  <2>3. \E g \in [0 .. n -> T] :
           g[0] = none /\ \A i \in 1 .. n : g[i] = step[i][g[i - 1]]
    <3>1. step \in [1 .. n -> [T -> T]]
      BY <1>2 DEF T
    <3>2. \E g : Iterates(g, n, T, none, step)
      BY <2>2, <3>1, <2>1, RecursionExists
    <3> QED BY <3>2 DEF Iterates
  <2> QED BY <2>3 DEF T, none
<1> DEFINE T == Seq(S)
<1>4. ASSUME NEW i \in 1 .. n PROVE g[i] = g[i - 1] \o ss[i] /\ g[i] \in T
  <2>1. i - 1 \in 0 .. n /\ i \in 0 .. n
    BY <1>1
  <2>2. g[i - 1] \in T /\ g[i] \in T
    BY <2>1
  <2>3. step[i][g[i - 1]] = g[i - 1] \o ss[i]
    BY <2>2
  <2> QED BY <1>3, <2>2, <2>3
<1> DEFINE h == [i \in 1 .. n |-> g[i]]
<1>5. h = F(h)
  <2>1. 1 \in 1 .. n /\ 1 - 1 = 0 /\ ss[1] \in Seq(S)
    BY <1>1
  <2>2. h[1] = ss[1]
    <3>1. h[1] = g[1] /\ g[1] = g[0] \o ss[1]
      BY <2>1, <1>4
    <3>2. g[1] = <<>> \o ss[1]
      BY <1>3, <3>1
    <3> DEFINE a == ss[1]
    <3>3. a \in Seq(S)
      BY <2>1
    <3> HIDE DEF a
    <3>4. <<>> \o a = a
      BY <3>3, EmptyConcat
    <3> QED BY <3>1, <3>2, <3>4 DEF a
  <2>3. ASSUME NEW i \in 2 .. n PROVE h[i] = h[i - 1] \o ss[i]
    <3>1. i \in 1 .. n /\ i - 1 \in 1 .. n
      BY <1>1
    <3> QED BY <3>1, <1>4
  <2>4. \A i \in 1 .. n : h[i] = IF i = 1 THEN ss[i] ELSE h[i - 1] \o ss[i]
    <3> HIDE DEF h
    <3>1. \A i \in 1 .. n : i # 1 => i \in 2 .. n
      BY <1>1
    <3> QED BY <2>2, <2>3, <3>1
  <2>5. h = [i \in 1 .. n |-> h[i]]
    OBVIOUS
  <2> HIDE DEF h, n
  <2> QED BY <2>4, <2>5
<1>6. loop = F(loop)
  <2> HIDE DEF F
  <2> QED BY <1>5
<1>7. Len(ss) # 0 /\ FlattenSeq(ss) = loop[n]
  BY <1>1 DEF FlattenSeq
<1>8. \A f, i : i \in 1 .. n => F(f)[i] = IF i = 1 THEN ss[i] ELSE f[i - 1] \o ss[i]
  OBVIOUS
<1>9. loop = [i \in 1 .. n |-> loop[i]]
  BY <1>6, ZenonT(30)
<1> HIDE DEF F, loop
<1>10. /\ loop[1] = ss[1]
       /\ \A i \in 2 .. n : loop[i] = loop[i - 1] \o ss[i]
  <2> HIDE DEF n
  <2>1. \A i : i \in 1 .. n => loop[i] = IF i = 1 THEN ss[i] ELSE loop[i - 1] \o ss[i]
    BY <1>6, <1>8, Zenon
  <2>2. 1 \in 1 .. n /\ \A i \in 2 .. n : i \in 1 .. n /\ i # 1
    BY <1>1
  <2> QED BY <2>1, <2>2
<1>11. \A i \in 0 .. n - 1 : i + 1 \in 1 .. n /\ loop[i + 1] \in T
  <2> DEFINE Good == {i \in 0 .. n - 1 : loop[i + 1] \in T}
  <2>1. 0 \in Good
    BY <1>1, <1>10
  <2>2. ASSUME NEW i \in 0 .. (n - 1) - 1, i \in Good PROVE i + 1 \in Good
    <3>1. /\ i \in Nat /\ i + 1 \in 0 .. n - 1 /\ i + 2 \in 2 .. n
          /\ (i + 2) - 1 = i + 1 /\ (i + 1) + 1 = i + 2 /\ i + 2 \in 1 .. n
      BY <1>1
    <3>2. loop[i + 2] = loop[i + 1] \o ss[i + 2]
      BY <1>10, <3>1
    <3>3. loop[i + 1] \in Seq(S) /\ ss[i + 2] \in Seq(S)
      BY <1>1, <2>2, <3>1
    <3>4. loop[i + 2] \in T
      BY <3>2, <3>3
    <3> QED BY <3>1, <3>4
  <2>3. n - 1 \in Nat
    BY <1>1
  <2>4. \A i \in 0 .. n - 1 : i \in Good
    <3> HIDE DEF Good, n
    <3> QED BY <2>1, <2>2, <2>3, UpwardInduction
  <2> QED BY <1>1, <2>4
<1>12. loop \in [1 .. n -> T]
  <2>1. ASSUME NEW i \in 1 .. n PROVE loop[i] \in T
    <3>1. i - 1 \in 0 .. n - 1 /\ (i - 1) + 1 = i
      BY <1>1
    <3> QED BY <1>11, <3>1
  <2> HIDE DEF n, T
  <2> QED BY <1>9, <2>1
<1> QED BY <1>7, <1>10, <1>12

(* The first sequence comes first. *)
LEMMA FlattenFirst ==
    ASSUME NEW S, NEW h \in Seq(S), NEW rest \in Seq(Seq(S))
    PROVE  FlattenSeq(<<h>> \o rest) = h \o FlattenSeq(rest)
<1>5. \A a, b \in Seq(S) : (h \o a) \o b = h \o (a \o b)
  BY Assoc
<1> DEFINE T == Seq(S)
           ss == <<h>> \o rest
           n == Len(rest)
<1>1. /\ ss \in Seq(T) /\ ss # <<>> /\ n \in Nat /\ Len(ss) = n + 1
      /\ ss[1] = h
      /\ \A i \in 1 .. n : ss[i + 1] = rest[i]
  <2>1. h \in T /\ rest \in Seq(T)
    OBVIOUS
  <2>2. /\ <<h>> \o rest \in Seq(T)
        /\ Len(<<h>> \o rest) = Len(rest) + 1
        /\ \A j \in 1 .. Len(rest) + 1 :
              (<<h>> \o rest)[j] = IF j = 1 THEN h ELSE rest[j - 1]
    <3> HIDE DEF T
    <3> QED BY <2>1, PrependEntry
  <2>3. n \in Nat /\ <<h>> \o rest # <<>>
    BY <2>1, <2>2
  <2>4. \A i \in 1 .. n : i + 1 \in 1 .. n + 1 /\ i + 1 # 1 /\ (i + 1) - 1 = i
    BY <2>3
  <2>5. 1 \in 1 .. n + 1
    BY <2>3
  <2> QED BY <2>2, <2>3, <2>4, <2>5
<1>2. PICK f \in [1 .. Len(ss) -> Seq(S)] :
              /\ FlattenSeq(ss) = f[Len(ss)]
              /\ f[1] = ss[1]
              /\ \A i \in 2 .. Len(ss) : f[i] = f[i - 1] \o ss[i]
  <2>1. ss \in Seq(Seq(S)) /\ ss # <<>>
    BY <1>1
  <2> HIDE DEF ss
  <2> QED BY <2>1, FlattenLoop
<1>6. n \in Nat /\ Len(ss) = n + 1
  BY <1>1
<1> HIDE DEF T, ss
<1>3. CASE rest = <<>>
  <2>1. n = 0 /\ FlattenSeq(rest) = <<>>
    BY <1>3 DEF FlattenSeq
  <2>2. FlattenSeq(ss) = h
    BY <1>1, <1>2, <2>1
  <2>3. h \o <<>> = h
    OBVIOUS
  <2> QED BY <2>1, <2>2, <2>3 DEF ss
<1>4. CASE rest # <<>>
  <2>1. PICK g \in [1 .. n -> Seq(S)] :
              /\ FlattenSeq(rest) = g[n]
              /\ g[1] = rest[1]
              /\ \A i \in 2 .. n : g[i] = g[i - 1] \o rest[i]
    BY <1>4, FlattenLoop
  <2>2. n >= 1 /\ n - 1 \in Nat
    BY <1>4
  <2> DEFINE Good == {i \in 0 .. n - 1 : f[i + 2] = h \o g[i + 1]}
  <2>3. 0 \in Good
    <3>1. 2 \in 2 .. Len(ss) /\ 2 - 1 = 1 /\ 1 \in 1 .. n /\ 1 + 1 = 2
      BY <1>1, <2>2
    <3>2. f[2] = f[1] \o ss[2] /\ ss[2] = rest[1]
      BY <1>1, <1>2, <3>1
    <3>3. f[2] = h \o g[1]
      BY <1>1, <1>2, <2>1, <3>2
    <3>4. f[0 + 2] = h \o g[0 + 1]
      BY <3>3
    <3>5. 0 \in 0 .. n - 1
      BY <2>2
    <3> QED BY <3>4, <3>5
  <2>4. ASSUME NEW i \in 0 .. (n - 1) - 1, i \in Good PROVE i + 1 \in Good
    <3>1. /\ i + 3 \in 2 .. Len(ss) /\ (i + 3) - 1 = i + 2
          /\ i + 2 \in 2 .. n /\ (i + 2) - 1 = i + 1 /\ i + 2 \in 1 .. n
          /\ (i + 2) + 1 = i + 3 /\ i + 1 \in 1 .. n
          /\ i + 1 \in 0 .. n - 1 /\ (i + 1) + 2 = i + 3 /\ (i + 1) + 1 = i + 2
      BY <1>6, i \in 0 .. (n - 1) - 1
    <3>2. f[i + 3] = f[i + 2] \o ss[i + 3] /\ ss[i + 3] = rest[i + 2]
      BY <1>1, <1>2, <3>1
    <3>3. g[i + 2] = g[i + 1] \o rest[i + 2]
      BY <2>1, <3>1
    <3>4. f[i + 2] = h \o g[i + 1]
      BY <2>4
    <3>5. g[i + 1] \in Seq(S) /\ rest[i + 2] \in Seq(S)
      <4>1. \A j \in 1 .. n : rest[j] \in Seq(S)
        OBVIOUS
      <4>2. i + 1 \in 1 .. n /\ i + 2 \in 1 .. n
        BY <3>1
      <4> QED BY <2>1, <4>1, <4>2
    <3>6. (h \o g[i + 1]) \o rest[i + 2] = h \o (g[i + 1] \o rest[i + 2])
      BY <1>5, <3>5
    <3>7. f[i + 3] = h \o g[i + 2]
      BY <3>2, <3>3, <3>4, <3>6
    <3> QED BY <3>1, <3>7
  <2>5. \A i \in 0 .. n - 1 : i \in Good
    <3> HIDE DEF Good, n
    <3> QED BY <2>2, <2>3, <2>4, UpwardInduction
  <2>6. n - 1 \in Good /\ (n - 1) + 2 = n + 1 /\ (n - 1) + 1 = n
    <3>1. n - 1 \in 0 .. n - 1 /\ (n - 1) + 2 = n + 1 /\ (n - 1) + 1 = n
      BY <1>1, <2>2
    <3> HIDE DEF Good, n
    <3> QED BY <2>5, <3>1
  <2>7. f[n + 1] = h \o g[n]
    BY <2>6
  <2>8. FlattenSeq(ss) = h \o FlattenSeq(rest)
    BY <1>1, <1>2, <2>1, <2>7
  <2> QED BY <2>8 DEF ss
<1> QED BY <1>3, <1>4

LEMMA FlattenType ==
    ASSUME NEW S, NEW ss \in Seq(Seq(S))
    PROVE  FlattenSeq(ss) \in Seq(S)
<1>1. CASE ss = <<>>
  BY <1>1 DEF FlattenSeq
<1>2. CASE ss # <<>>
  <2>1. PICK f \in [1 .. Len(ss) -> Seq(S)] : FlattenSeq(ss) = f[Len(ss)]
    BY <1>2, FlattenLoop
  <2>2. Len(ss) \in 1 .. Len(ss)
    BY <1>2
  <2> QED BY <2>1, <2>2
<1> QED BY <1>1, <1>2

LEMMA FlattenLast ==
    ASSUME NEW S, NEW ss \in Seq(Seq(S)), NEW l \in Seq(S)
    PROVE  FlattenSeq(Append(ss, l)) = FlattenSeq(ss) \o l
<1> DEFINE T == Seq(S)
           n == Len(ss)
           us == Append(ss, l)
<1>1. /\ n \in Nat /\ us \in Seq(T) /\ us # <<>> /\ Len(us) = n + 1
      /\ us[n + 1] = l /\ \A i \in 1 .. n : us[i] = ss[i]
  <2>1. ss \in Seq(T) /\ l \in T
    OBVIOUS
  <2> HIDE DEF T
  <2> QED BY <2>1, AppendFacts
<1>2. PICK f \in [1 .. Len(us) -> Seq(S)] :
              /\ FlattenSeq(us) = f[Len(us)]
              /\ f[1] = us[1]
              /\ \A i \in 2 .. Len(us) : f[i] = f[i - 1] \o us[i]
  <2>1. us \in Seq(Seq(S)) /\ us # <<>>
    BY <1>1
  <2> HIDE DEF us
  <2> QED BY <2>1, FlattenLoop
<1>3. CASE ss = <<>>
  <2>1. n = 0 /\ FlattenSeq(ss) = <<>> /\ <<>> \o l = l
    BY <1>3 DEF FlattenSeq
  <2> HIDE DEF us
  <2> QED BY <1>1, <1>2, <2>1 DEF us
<1>4. CASE ss # <<>>
  <2>1. PICK g \in [1 .. n -> Seq(S)] :
              /\ FlattenSeq(ss) = g[n]
              /\ g[1] = ss[1]
              /\ \A i \in 2 .. n : g[i] = g[i - 1] \o ss[i]
    BY <1>4, FlattenLoop
  <2>2. n >= 1 /\ n - 1 \in Nat
    BY <1>4
  <2> DEFINE Good == {i \in 0 .. n - 1 : f[i + 1] = g[i + 1]}
  <2> HIDE DEF n, us
  <2>3. 0 \in Good
    <3>1. 1 \in 1 .. n /\ 0 \in 0 .. n - 1
      BY <2>2
    <3> QED BY <1>1, <1>2, <2>1, <3>1
  <2>4. ASSUME NEW i \in 0 .. (n - 1) - 1, i \in Good PROVE i + 1 \in Good
    <3>1. /\ i + 2 \in 2 .. Len(us) /\ (i + 2) - 1 = i + 1
          /\ i + 2 \in 2 .. n /\ i + 2 \in 1 .. n
          /\ i + 1 \in 0 .. n - 1 /\ (i + 1) + 1 = i + 2
      BY <1>1, <2>2, i \in 0 .. (n - 1) - 1
    <3>2. f[i + 2] = f[i + 1] \o us[i + 2] /\ us[i + 2] = ss[i + 2]
      BY <1>1, <1>2, <3>1
    <3>3. g[i + 2] = g[i + 1] \o ss[i + 2]
      BY <2>1, <3>1
    <3> QED BY <2>4, <3>1, <3>2, <3>3
  <2>5. \A i \in 0 .. n - 1 : i \in Good
    <3> HIDE DEF Good
    <3> QED BY <2>2, <2>3, <2>4, UpwardInduction
  <2>6. n - 1 \in Good /\ (n - 1) + 1 = n
    <3>1. n - 1 \in 0 .. n - 1 /\ (n - 1) + 1 = n
      BY <1>1, <2>2
    <3> HIDE DEF Good
    <3> QED BY <2>5, <3>1
  <2>7. f[n] = g[n]
    BY <2>6
  <2>8. n + 1 \in 2 .. Len(us) /\ (n + 1) - 1 = n
    BY <1>1, <2>2
  <2>9. f[n + 1] = f[n] \o us[n + 1]
    BY <1>2, <2>8
  <2> QED BY <1>1, <1>2, <2>1, <2>7, <2>9 DEF us
<1> QED BY <1>3, <1>4

-----------------------------------------------------------------------------
(* Counting.                                                               *)

(* The places of a sequence, and of a sequence of sequences, that have a   *)
(* member of X.                                                            *)
Spots(s, X) == {i \in 1 .. Len(s) : s[i] \in X}
SpotsUpTo(ss, n, X) ==
    {p \in (1 .. n) \X Nat : p[2] \in Spots(ss[p[1]], X)}

LEMMA SpotsFinite ==
    ASSUME NEW S, NEW s \in Seq(S), NEW X
    PROVE  /\ IsFiniteSet(Spots(s, X))
           /\ Cardinality(Spots(s, X)) \in Nat
           /\ Cardinality(Spots(s, X)) <= Len(s)
<1>1. Len(s) \in Nat
  OBVIOUS
<1>2. IsFiniteSet(1 .. Len(s)) /\ Cardinality(1 .. Len(s)) = Len(s)
  <2> DEFINE n == Len(s)
  <2>1. n \in Nat
    BY <1>1
  <2> HIDE DEF n
  <2>2. IsFiniteSet(1 .. n) /\ Cardinality(1 .. n) = n
    BY <2>1, FS_Interval
  <2> QED BY <2>2 DEF n
<1>3. Spots(s, X) \in SUBSET (1 .. Len(s))
  BY DEF Spots
<1>4. IsFiniteSet(Spots(s, X)) /\ Cardinality(Spots(s, X)) <= Len(s)
  BY <1>2, <1>3, FS_Subset, Zenon
<1> QED BY <1>4, FS_CardinalityType

(* A bijection keeps the number of elements. *)
LEMMA SameSize ==
    ASSUME NEW S, NEW T, IsFiniteSet(S), NEW f \in [S -> T],
           \A x, y \in S : f[x] = f[y] => x = y,
           \A y \in T : \E x \in S : f[x] = y
    PROVE  IsFiniteSet(T) /\ Cardinality(T) = Cardinality(S)
<1>1. f \in Bijection(S, T)
  BY DEF Bijection, Injection, Surjection, IsInjective
<1>2. ExistsBijection(S, T)
  BY <1>1 DEF ExistsBijection
<1> QED BY <1>2, FS_Bijection, Zenon

One(b) == IF b THEN 1 ELSE 0

(* An element more, or less. *)
LEMMA OneMore ==
    ASSUME NEW S, IsFiniteSet(S), NEW x, NEW b \in BOOLEAN, b => x \notin S
    PROVE  Cardinality(S \cup (IF b THEN {x} ELSE {})) = Cardinality(S) + One(b)
<1>1. Cardinality(S) \in Nat
  BY FS_CardinalityType
<1>2. CASE b
  BY <1>2, FS_AddElement DEF One
<1>3. CASE ~b
  BY <1>1, <1>3 DEF One
<1> QED BY <1>2, <1>3

LEMMA OneLess ==
    ASSUME NEW S, IsFiniteSet(S), NEW x
    PROVE  /\ IsFiniteSet(S \ {x})
           /\ Cardinality(S \ {x}) = Cardinality(S) - One(x \in S)
<1>1. Cardinality(S) \in Nat
  BY FS_CardinalityType
<1>2. CASE x \in S
  BY <1>2, FS_RemoveElement DEF One
<1>3. CASE x \notin S
  BY <1>1, <1>3, FS_RemoveElement DEF One
<1> QED BY <1>2, <1>3

LEMMA CountOfConcat ==
    ASSUME NEW S, NEW s \in Seq(S), NEW t \in Seq(S), NEW X
    PROVE  Cardinality(Spots(s \o t, X)) =
              Cardinality(Spots(s, X)) + Cardinality(Spots(t, X))
<1> DEFINE n == Len(s)
           A == Spots(s, X)
           B == Spots(t, X)
           C == {i \in 1 .. Len(s \o t) : i > n /\ (s \o t)[i] \in X}
<1>1. /\ s \o t \in Seq(S)
      /\ Len(s \o t) = Len(s) + Len(t)
      /\ \A i \in 1 .. Len(s) + Len(t) :
            (s \o t)[i] = IF i <= Len(s) THEN s[i] ELSE t[i - Len(s)]
  BY ConcatProperties
<1>2. n \in Nat /\ Len(t) \in Nat
  OBVIOUS
<1>3. Spots(s \o t, X) = A \cup C
  BY <1>1, <1>2 DEF Spots
<1>4. A \cap C = {}
  BY <1>2 DEF Spots
<1>5. IsFiniteSet(A) /\ IsFiniteSet(B) /\ Cardinality(A) \in Nat /\ Cardinality(B) \in Nat
  BY SpotsFinite
<1>6. IsFiniteSet(C) /\ Cardinality(C) = Cardinality(B)
  <2> DEFINE f == [i \in B |-> i + n]
  <2>1. \A i \in B : i \in 1 .. Len(t) /\ t[i] \in X
    BY DEF Spots
  <2>2. \A i \in B : i + n \in C
    <3> TAKE i \in B
    <3>1. i + n \in 1 .. n + Len(t) /\ i + n > n /\ (i + n) - n = i /\ ~(i + n <= n)
      BY <1>2, <2>1
    <3> QED BY <1>1, <2>1, <3>1
  <2>3. \A j \in C : j - n \in B /\ (j - n) + n = j
    <3> TAKE j \in C
    <3>1. j \in 1 .. n + Len(t) /\ j > n /\ (s \o t)[j] \in X
      BY <1>1
    <3>2. j - n \in 1 .. Len(t) /\ (j - n) + n = j /\ ~(j <= n)
      BY <1>2, <3>1
    <3>3. t[j - n] \in X
      BY <1>1, <3>1, <3>2
    <3> QED BY <3>2, <3>3 DEF Spots
  <2>4. \A x, y \in B : x + n = y + n => x = y
    BY <1>2, <2>1
  <2>5. f \in [B -> C]
    <3> HIDE DEF B, C
    <3> QED BY <2>2
  <2>6. \A x, y \in B : f[x] = f[y] => x = y
    <3> HIDE DEF B, C
    <3> QED BY <2>4
  <2>7. \A y \in C : \E x \in B : f[x] = y
    <3> HIDE DEF B, C
    <3> QED BY <2>3
  <2> HIDE DEF f, B, C
  <2> QED BY <1>5, <2>5, <2>6, <2>7, SameSize
<1> HIDE DEF A, B, C
<1>7. Cardinality(A \cup C) = Cardinality(A) + Cardinality(C) - Cardinality(A \cap C)
  BY <1>5, <1>6, FS_Union
<1>8. Cardinality(A \cap C) = 0
  BY <1>4, FS_EmptySet
<1>9. Cardinality(A \cup C) = Cardinality(A) + Cardinality(B)
  BY <1>5, <1>6, <1>7, <1>8
<1> QED BY <1>3, <1>9 DEF A, B

(* The members of X in a sequence of sequences are those in its flat form. *)
LEMMA CountOfFlatten ==
    ASSUME NEW S, NEW ss \in Seq(Seq(S)), NEW X
    PROVE  /\ IsFiniteSet(SpotsUpTo(ss, Len(ss), X))
           /\ Cardinality(Spots(FlattenSeq(ss), X)) =
                 Cardinality(SpotsUpTo(ss, Len(ss), X))
<1> DEFINE n == Len(ss)
           P(i) == SpotsUpTo(ss, i, X)
<1>1. n \in Nat /\ \A i \in 1 .. n : ss[i] \in Seq(S)
  OBVIOUS
<1>2. P(0) = {}
  BY DEF SpotsUpTo
<1>3. ASSUME NEW i \in 0 .. n - 1
      PROVE  /\ P(i + 1) = P(i) \cup {p \in P(i + 1) : p[1] = i + 1}
             /\ P(i) \cap {p \in P(i + 1) : p[1] = i + 1} = {}
  <2>1. \A j : j \in 1 .. i + 1 <=> (j \in 1 .. i \/ j = i + 1)
    BY <1>1
  <2>2. i + 1 \notin 1 .. i
    BY <1>1
  <2> HIDE DEF n
  <2> QED BY <2>1, <2>2 DEF SpotsUpTo
<1>4. ASSUME NEW i \in 0 .. n - 1
      PROVE  LET Q == {p \in P(i + 1) : p[1] = i + 1}
             IN  IsFiniteSet(Q) /\ Cardinality(Q) = Cardinality(Spots(ss[i + 1], X))
  <2> DEFINE Q == {p \in P(i + 1) : p[1] = i + 1}
             A == Spots(ss[i + 1], X)
             f == [j \in A |-> <<i + 1, j>>]
  <2>1. i + 1 \in 1 .. n /\ i + 1 \in 1 .. i + 1
    BY <1>1
  <2>2. ss[i + 1] \in Seq(S)
    BY <1>1, <2>1
  <2>3. IsFiniteSet(A)
    BY <2>2, SpotsFinite
  <2>4. A \subseteq Nat
    BY DEF Spots
  <2>5. \A j \in A : <<i + 1, j>> \in Q
    <3> HIDE DEF A, n
    <3> QED BY <2>1, <2>4 DEF SpotsUpTo, A
  <2>6. \A q \in Q : q[2] \in A /\ q = <<i + 1, q[2]>>
    BY DEF SpotsUpTo
  <2> HIDE DEF A, Q
  <2>7. f \in [A -> Q]
    BY <2>5
  <2>8. \A x, y \in A : f[x] = f[y] => x = y
    BY Zenon
  <2>9. \A y \in Q : \E x \in A : f[x] = y
    BY <2>6
  <2>10. IsFiniteSet(Q) /\ Cardinality(Q) = Cardinality(A)
    <3> HIDE DEF f
    <3> QED BY <2>3, <2>7, <2>8, <2>9, SameSize
  <2> QED BY <2>10 DEF A, Q
<1>5. ASSUME NEW i \in 0 .. n - 1, IsFiniteSet(P(i))
      PROVE  /\ IsFiniteSet(P(i + 1))
             /\ Cardinality(P(i + 1)) = Cardinality(P(i)) + Cardinality(Spots(ss[i + 1], X))
  <2> DEFINE Q == {p \in P(i + 1) : p[1] = i + 1}
             A == P(i)
             B == P(i + 1)
             c == Cardinality(Spots(ss[i + 1], X))
  <2>1. B = A \cup Q /\ A \cap Q = {}
    BY <1>3
  <2>2. IsFiniteSet(Q) /\ Cardinality(Q) = c
    BY <1>4
  <2>3. IsFiniteSet(A)
    BY <1>5
  <2> HIDE DEF A, B, Q, c
  <2>4. IsFiniteSet(B) /\ Cardinality(B) = Cardinality(A) + Cardinality(Q) - Cardinality(A \cap Q)
    BY <2>1, <2>2, <2>3, FS_Union, Zenon
  <2>5. Cardinality(A \cap Q) = 0 /\ Cardinality(A) \in Nat /\ Cardinality(Q) \in Nat
    BY <2>1, <2>2, <2>3, FS_EmptySet, FS_CardinalityType
  <2>6. Cardinality(B) = Cardinality(A) + c
    BY <2>2, <2>4, <2>5
  <2> QED BY <2>4, <2>6 DEF A, B, c
<1> HIDE DEF P
<1>6. CASE ss = <<>>
  <2>1. n = 0 /\ FlattenSeq(ss) = <<>>
    BY <1>6 DEF FlattenSeq
  <2>2. Spots(<<>>, X) = {}
    BY DEF Spots
  <2> QED BY <1>2, <2>1, <2>2, FS_EmptySet DEF P
<1>7. CASE ss # <<>>
  <2>1. PICK f \in [1 .. n -> Seq(S)] :
              /\ FlattenSeq(ss) = f[n]
              /\ f[1] = ss[1]
              /\ \A i \in 2 .. n : f[i] = f[i - 1] \o ss[i]
    BY <1>7, FlattenLoop
  <2>2. n >= 1 /\ n - 1 \in Nat
    BY <1>7
  <2> DEFINE Good == {i \in 0 .. n - 1 :
                         /\ IsFiniteSet(P(i + 1))
                         /\ Cardinality(Spots(f[i + 1], X)) = Cardinality(P(i + 1))}
  <2>3. 0 \in Good
    <3>1. 0 \in 0 .. n - 1 /\ 0 + 1 = 1
      BY <2>2
    <3>2. IsFiniteSet(P(0)) /\ Cardinality(P(0)) = 0
      BY <1>2, FS_EmptySet
    <3>3. ss[1] \in Seq(S)
      BY <1>1, <2>2
    <3>4. Cardinality(Spots(ss[1], X)) \in Nat
      BY <3>3, SpotsFinite
    <3>5. IsFiniteSet(P(1)) /\ Cardinality(P(1)) = 0 + Cardinality(Spots(ss[1], X))
      BY <1>5, <3>1, <3>2
    <3> QED BY <2>1, <3>1, <3>4, <3>5
  <2>4. ASSUME NEW i \in 0 .. (n - 1) - 1, i \in Good PROVE i + 1 \in Good
    <3>1. /\ i + 1 \in 0 .. n - 1 /\ (i + 1) + 1 = i + 2
          /\ i + 2 \in 2 .. n /\ (i + 2) - 1 = i + 1 /\ i + 1 \in 1 .. n
          /\ i + 2 \in 1 .. n
      BY <1>1, <2>2
    <3>2. /\ IsFiniteSet(P(i + 2))
          /\ Cardinality(P(i + 2)) = Cardinality(P(i + 1)) + Cardinality(Spots(ss[i + 2], X))
      BY <1>5, <2>4, <3>1
    <3>3. f[i + 2] = f[i + 1] \o ss[i + 2]
      BY <2>1, <3>1
    <3>4. f[i + 1] \in Seq(S) /\ ss[i + 2] \in Seq(S)
      BY <1>1, <2>1, <3>1
    <3>5. Cardinality(Spots(f[i + 2], X)) =
             Cardinality(Spots(f[i + 1], X)) + Cardinality(Spots(ss[i + 2], X))
      BY <3>3, <3>4, CountOfConcat
    <3>6. Cardinality(Spots(f[i + 2], X)) = Cardinality(P(i + 2))
      BY <2>4, <3>2, <3>5
    <3> QED BY <3>1, <3>2, <3>6
  <2>5. \A i \in 0 .. n - 1 : i \in Good
    <3> HIDE DEF Good, n
    <3> QED BY <2>2, <2>3, <2>4, UpwardInduction
  <2>6. n - 1 \in Good /\ (n - 1) + 1 = n
    <3>1. n - 1 \in 0 .. n - 1 /\ (n - 1) + 1 = n
      BY <2>2
    <3> QED BY <2>5, <3>1
  <2> QED BY <2>1, <2>6 DEF P
<1> QED BY <1>6, <1>7

LEMMA RemoveAtFacts ==
    ASSUME NEW S, NEW s \in Seq(S), NEW p \in 1 .. Len(s)
    PROVE  /\ RemoveAt(s, p) \in Seq(S)
           /\ Len(RemoveAt(s, p)) = Len(s) - 1
           /\ \A i \in 1 .. Len(s) - 1 :
                 RemoveAt(s, p)[i] = IF i < p THEN s[i] ELSE s[i + 1]
<1> DEFINE n == Len(s)
           a == SubSeq(s, 1, p - 1)
           b == SubSeq(s, p + 1, n)
<1>1. n \in Nat /\ n >= 1 /\ p \in Nat /\ 1 <= p /\ p <= n /\ \A i \in 1 .. n : s[i] \in S
  OBVIOUS
<1>2. \A i \in 1 .. p - 1 : i \in 1 .. n
  BY <1>1
<1>3. \A i \in p + 1 .. n : i \in 1 .. n
  BY <1>1
<1>4. a \in Seq(S) /\ Len(a) = p - 1 /\ \A i \in 1 .. p - 1 : a[i] = s[i]
  <2>1. 1 \in Int /\ p - 1 \in Int /\ \A i \in 1 .. p - 1 : s[i] \in S
    BY <1>1, <1>2
  <2>2. /\ a \in Seq(S)
        /\ Len(a) = IF 1 <= p - 1 THEN (p - 1) - 1 + 1 ELSE 0
        /\ \A i \in 1 .. (p - 1) - 1 + 1 : a[i] = s[1 + i - 1]
    BY <2>1, SubSeqProperties
  <2>3. Len(a) = p - 1
    <3> DEFINE l == Len(a)
    <3>1. l = IF 1 <= p - 1 THEN (p - 1) - 1 + 1 ELSE 0
      BY <2>2
    <3> HIDE DEF l
    <3>2. l = p - 1
      BY <1>1, <3>1
    <3> QED BY <3>2 DEF l
  <2>4. ASSUME NEW i \in 1 .. p - 1 PROVE a[i] = s[i]
    <3>1. i \in 1 .. (p - 1) - 1 + 1 /\ 1 + i - 1 = i
      BY <1>1
    <3> QED BY <2>2, <3>1
  <2> QED BY <2>2, <2>3, <2>4
<1>5. b \in Seq(S) /\ Len(b) = n - p /\ \A i \in 1 .. n - p : b[i] = s[i + p]
  <2>1. p + 1 \in Int /\ n \in Int /\ \A i \in p + 1 .. n : s[i] \in S
    BY <1>1, <1>3
  <2>2. /\ b \in Seq(S)
        /\ Len(b) = IF p + 1 <= n THEN n - (p + 1) + 1 ELSE 0
        /\ \A i \in 1 .. n - (p + 1) + 1 : b[i] = s[p + 1 + i - 1]
    <3> HIDE DEF n
    <3>1. \A i \in p + 1 .. n : s[i] \in S
      BY <2>1
    <3> QED BY <2>1, <3>1, SubSeqProperties
  <2>3. Len(b) = n - p
    <3> DEFINE l == Len(b)
    <3>1. l = IF p + 1 <= n THEN n - (p + 1) + 1 ELSE 0
      BY <2>2
    <3> HIDE DEF l, n
    <3>2. l = n - p
      BY <1>1, <3>1
    <3> QED BY <3>2 DEF l
  <2>4. ASSUME NEW i \in 1 .. n - p PROVE b[i] = s[i + p]
    <3>1. i \in 1 .. n - (p + 1) + 1 /\ p + 1 + i - 1 = i + p
      BY <1>1
    <3> QED BY <2>2, <3>1
  <2> QED BY <2>2, <2>3, <2>4
<1>6. RemoveAt(s, p) = a \o b
  BY DEF RemoveAt
<1> HIDE DEF a, b, n
<1>7. /\ a \o b \in Seq(S)
      /\ Len(a \o b) = Len(a) + Len(b)
      /\ \A i \in 1 .. Len(a) + Len(b) :
            (a \o b)[i] = IF i <= Len(a) THEN a[i] ELSE b[i - Len(a)]
  BY <1>4, <1>5, ConcatProperties
<1>8. Len(a) + Len(b) = n - 1
  BY <1>1, <1>4, <1>5
<1>9. ASSUME NEW i \in 1 .. n - 1
      PROVE  (a \o b)[i] = IF i < p THEN s[i] ELSE s[i + 1]
  <2>1. (a \o b)[i] = IF i <= p - 1 THEN a[i] ELSE b[i - (p - 1)]
    BY <1>4, <1>7, <1>8
  <2>2. CASE i < p
    <3>1. i <= p - 1 /\ i \in 1 .. p - 1
      BY <1>1, <2>2
    <3> QED BY <1>4, <2>1, <2>2, <3>1
  <2>3. CASE ~(i < p)
    <3>1. ~(i <= p - 1) /\ i - (p - 1) \in 1 .. n - p /\ (i - (p - 1)) + p = i + 1
      BY <1>1, <2>3
    <3> QED BY <1>5, <2>1, <2>3, <3>1
  <2> QED BY <2>2, <2>3
<1> QED BY <1>6, <1>7, <1>8, <1>9 DEF n

LEMMA CountOfAppend ==
    ASSUME NEW S, NEW s \in Seq(S), NEW x \in S, NEW X
    PROVE  Cardinality(Spots(Append(s, x), X)) =
              Cardinality(Spots(s, X)) + One(x \in X)
<1> DEFINE n == Len(s)
           b == x \in X
           A == Spots(s, X)
<1>1. /\ n \in Nat /\ Len(Append(s, x)) = n + 1 /\ Append(s, x)[n + 1] = x
      /\ \A i \in 1 .. n : Append(s, x)[i] = s[i]
  BY AppendFacts
<1>2. Spots(Append(s, x), X) = A \cup (IF b THEN {n + 1} ELSE {})
  <2>1. \A i : i \in 1 .. n + 1 <=> (i \in 1 .. n \/ i = n + 1)
    BY <1>1
  <2> HIDE DEF n
  <2> QED BY <1>1, <2>1 DEF Spots, n
<1>3. IsFiniteSet(A) /\ n + 1 \notin A
  <2>1. n + 1 \notin 1 .. n
    <3> HIDE DEF n
    <3> QED BY <1>1
  <2>2. A \subseteq 1 .. n
    BY DEF Spots
  <2> QED BY <2>1, <2>2, SpotsFinite
<1> HIDE DEF A, b, n
<1>4. b \in BOOLEAN
  BY DEF b
<1>5. Cardinality(A \cup (IF b THEN {n + 1} ELSE {})) = Cardinality(A) + One(b)
  BY <1>3, <1>4, OneMore
<1> QED BY <1>2, <1>5 DEF A, b

(* Another member at the place p. *)
LEMMA CountOfChange ==
    ASSUME NEW S, NEW s \in Seq(S), NEW t \in Seq(S), NEW X, NEW p \in 1 .. Len(s),
           Len(t) = Len(s), \A i \in 1 .. Len(s) : i # p => t[i] = s[i]
    PROVE  Cardinality(Spots(t, X)) =
              Cardinality(Spots(s, X)) + One(t[p] \in X) - One(s[p] \in X)
<1> DEFINE A == Spots(s, X)
           B == Spots(t, X)
           a == s[p] \in X
           b == t[p] \in X
<1>1. (p \in A <=> a) /\ (p \in B <=> b) /\ A \ {p} = B \ {p}
  BY DEF Spots
<1>2. IsFiniteSet(A) /\ IsFiniteSet(B) /\ Cardinality(A) \in Nat /\ Cardinality(B) \in Nat
  BY SpotsFinite
<1>3. a \in BOOLEAN /\ b \in BOOLEAN
  OBVIOUS
<1> HIDE DEF A, B, a, b
<1>4. /\ Cardinality(A \ {p}) = Cardinality(A) - One(p \in A)
      /\ Cardinality(B \ {p}) = Cardinality(B) - One(p \in B)
  BY <1>2, OneLess
<1>5. One(p \in A) = One(a) /\ One(p \in B) = One(b) /\ One(a) \in Nat /\ One(b) \in Nat
  BY <1>1 DEF One
<1>6. Cardinality(B) = Cardinality(A) + One(b) - One(a)
  <2>1. Cardinality(A \ {p}) = Cardinality(B \ {p})
    BY <1>1
  <2> DEFINE c == Cardinality(A)
             d == Cardinality(B)
             x == One(a)
             y == One(b)
  <2>2. c - x = d - y
    BY <1>4, <1>5, <2>1
  <2>3. c \in Nat /\ d \in Nat /\ x \in Nat /\ y \in Nat
    BY <1>2, <1>5
  <2> HIDE DEF c, d, x, y
  <2>4. d = c + y - x
    BY <2>2, <2>3
  <2> QED BY <2>4 DEF c, d, x, y
<1> QED BY <1>6 DEF A, B, a, b

LEMMA CountOfRemoved ==
    ASSUME NEW S, NEW s \in Seq(S), NEW X, NEW p \in 1 .. Len(s)
    PROVE  Cardinality(Spots(RemoveAt(s, p), X)) =
              Cardinality(Spots(s, X)) - One(s[p] \in X)
<1> DEFINE n == Len(s)
           t == RemoveAt(s, p)
           A == Spots(s, X)
           B == Spots(t, X)
           a == s[p] \in X
           C == A \ {p}
           f == [i \in B |-> IF i < p THEN i ELSE i + 1]
<1>1. /\ n \in Nat /\ p \in Nat /\ 1 <= p /\ p <= n /\ Len(t) = n - 1
      /\ \A i \in 1 .. n - 1 : t[i] = IF i < p THEN s[i] ELSE s[i + 1]
  BY RemoveAtFacts
<1>2. IsFiniteSet(A) /\ IsFiniteSet(B) /\ Cardinality(A) \in Nat
  BY SpotsFinite, RemoveAtFacts
<1>3. A = {i \in 1 .. n : s[i] \in X} /\ B = {i \in 1 .. n - 1 : t[i] \in X}
      /\ (p \in A <=> a)
  BY <1>1 DEF Spots
<1> HIDE DEF A, B, a, n, t
<1>4. ASSUME NEW i \in B PROVE f[i] \in C
  <2>1. i \in 1 .. n - 1 /\ t[i] \in X /\ f[i] = IF i < p THEN i ELSE i + 1
    BY <1>3
  <2>2. f[i] \in 1 .. n /\ f[i] # p
    BY <1>1, <2>1
  <2>3. s[f[i]] = t[i]
    BY <1>1, <2>1
  <2> QED BY <1>3, <2>1, <2>2, <2>3
<1>5. ASSUME NEW x \in B, NEW y \in B, f[x] = f[y] PROVE x = y
  BY <1>1, <1>3, <1>5
<1>6. ASSUME NEW y \in C PROVE \E x \in B : f[x] = y
  <2>1. y \in 1 .. n /\ s[y] \in X /\ y # p
    BY <1>3
  <2>2. CASE y < p
    <3>1. y \in 1 .. n - 1 /\ t[y] = s[y]
      BY <1>1, <2>1, <2>2
    <3>2. y \in B
      BY <1>3, <2>1, <3>1
    <3> QED BY <2>2, <3>2
  <2>3. CASE ~(y < p)
    <3>1. y - 1 \in 1 .. n - 1 /\ ~(y - 1 < p) /\ (y - 1) + 1 = y
      BY <1>1, <2>1, <2>3
    <3>2. t[y - 1] = s[y]
      BY <1>1, <3>1
    <3>3. y - 1 \in B
      BY <1>3, <2>1, <3>1, <3>2
    <3> QED BY <3>1, <3>3
  <2> QED BY <2>2, <2>3
<1>7. f \in [B -> C]
  <2>1. \A i \in B : f[i] \in C
    BY <1>4
  <2> HIDE DEF C
  <2> QED BY <2>1
<1>8. Cardinality(C) = Cardinality(B)
  <2> HIDE DEF f, C
  <2> QED BY <1>2, <1>5, <1>6, <1>7, SameSize
<1>9. Cardinality(C) = Cardinality(A) - One(p \in A)
  BY <1>2, OneLess
<1>10. One(p \in A) = One(a)
  BY <1>3 DEF One
<1>11. Cardinality(B) = Cardinality(A) - One(a)
  BY <1>8, <1>9, <1>10
<1> QED BY <1>11 DEF A, B, a, t

LEMMA CountAtMostOne ==
    ASSUME NEW S, IsFiniteSet(S)
    PROVE  Cardinality(S) <= 1 <=> \A x, y \in S : x = y
<1>1. ASSUME NEW x \in S, NEW y \in S, Cardinality(S) <= 1 PROVE x = y
  <2>1. /\ IsFiniteSet(S \ {x}) /\ Cardinality(S \ {x}) = Cardinality(S) - 1
        /\ Cardinality(S) \in Nat
    BY FS_RemoveElement, FS_CardinalityType
  <2>2. Cardinality(S \ {x}) = 0 \/ Cardinality(S) = 0
    BY <1>1, <2>1, FS_CardinalityType
  <2>3. S \ {x} = {} \/ S = {}
    BY <2>1, <2>2, FS_EmptySet
  <2> QED BY <2>3
<1>2. ASSUME \A x, y \in S : x = y PROVE Cardinality(S) <= 1
  <2>1. CASE S = {}
    BY <2>1, FS_EmptySet
  <2>2. ASSUME NEW x \in S PROVE Cardinality(S) <= 1
    <3>1. S = {x}
      BY <1>2
    <3> QED BY <3>1, FS_Singleton
  <2> QED BY <2>1, <2>2
<1> QED BY <1>1, <1>2

=============================================================================
