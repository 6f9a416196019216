-------------------------- MODULE TokenStackProofs --------------------------
(* Proofs about TokenStack. *)
EXTENDS TokenStack, SequenceLemmas

(* A change that can be undone extends the chain. *)
LEMMA ChainExtends ==
    ASSUME NEW cs \in Seq(Changes), NEW vs \in Seq(Views), NEW first,
           NEW v \in Views, NEW c \in Changes, NEW w,
           Chained(cs, vs, first, v), Undoes(c, v, w)
    PROVE  Chained(Append(cs, c), Append(vs, v), first, w)
<1> DEFINE ds == Append(cs, c)
           us == Append(vs, v)
<1>1. /\ Len(cs) \in Nat /\ Len(vs) = Len(cs)
      /\ cs = <<>> <=> Len(cs) = 0
      /\ DOMAIN cs = 1..Len(cs)
  BY DEF Chained
<1>2. /\ ds # <<>> /\ Len(ds) = Len(cs) + 1 /\ DOMAIN ds = 1..Len(cs) + 1
      /\ ds[Len(cs) + 1] = c /\ \A i \in 1..Len(cs) : ds[i] = cs[i]
  BY <1>1, AppendFacts
<1>3. /\ Len(us) = Len(cs) + 1
      /\ us[Len(cs) + 1] = v /\ \A i \in 1..Len(cs) : us[i] = vs[i]
  BY <1>1, AppendFacts
<1> HIDE DEF ds, us
<1>4. first = us[1]
  BY <1>1, <1>3 DEF Chained
<1>5. ASSUME NEW i \in 1..Len(cs) + 1
      PROVE  Undoes(ds[i], us[i], IF i = Len(ds) THEN w ELSE us[i + 1])
  <2>1. CASE i = Len(cs) + 1
    BY <2>1, <1>2, <1>3
  <2>2. CASE i # Len(cs) + 1
    <3>1. i \in 1..Len(cs) /\ i # Len(ds)
      BY <2>2, <1>1, <1>2
    <3>2. Undoes(cs[i], vs[i], IF i = Len(cs) THEN v ELSE vs[i + 1])
      BY <3>1, <1>1 DEF Chained
    <3>3. us[i + 1] = IF i = Len(cs) THEN v ELSE vs[i + 1]
      BY <3>1, <1>1, <1>3
    <3> QED
      BY <3>1, <3>2, <3>3, <1>2, <1>3
  <2> QED
    BY <2>1, <2>2
<1> QED
  BY <1>2, <1>3, <1>4, <1>5 DEF Chained, ds, us

(* The last change of a chain can be undone, and what is left is a chain. *)
LEMMA ChainRetracts ==
    ASSUME NEW cs \in Seq(Changes), NEW vs \in Seq(Views), NEW first, NEW v,
           cs # <<>>, Chained(cs, vs, first, v)
    PROVE  /\ vs # <<>>
           /\ Undoes(Last(cs), Last(vs), v)
           /\ Chained(Front(cs), Front(vs), first, Last(vs))
<1> DEFINE ds == Front(cs)
           us == Front(vs)
           n == Len(cs)
<1>1. n \in Nat /\ n >= 1 /\ Len(vs) = n /\ DOMAIN cs = 1..n /\ vs # <<>>
  BY DEF Chained
<1>2. /\ Last(cs) = cs[n] /\ Len(ds) = n - 1 /\ DOMAIN ds = 1..n - 1
      /\ \A i \in 1..n - 1 : ds[i] = cs[i]
      /\ ds = <<>> <=> n = 1
  <2>1. ds \in Seq(Changes) /\ Len(ds) = n - 1
    BY LastFront
  <2>2. DOMAIN ds = 1..n - 1 /\ (ds = <<>> <=> n = 1)
    BY <2>1, <1>1
  <2> QED
    BY <2>1, <2>2, LastFront
<1>3. /\ Last(vs) = vs[n] /\ Len(us) = n - 1
      /\ \A i \in 1..n - 1 : us[i] = vs[i]
  BY <1>1, LastFront
<1> HIDE DEF ds, us
<1>4. ASSUME NEW i \in 1..n
      PROVE  Undoes(cs[i], vs[i], IF i = n THEN v ELSE vs[i + 1])
  BY <1>1 DEF Chained
<1>5. Undoes(Last(cs), Last(vs), v)
  BY <1>1, <1>2, <1>3, <1>4
<1>6. first = IF ds = <<>> THEN Last(vs) ELSE us[1]
  <2>1. first = vs[1]
    BY <1>1 DEF Chained
  <2>2. CASE n = 1
    BY <2>1, <2>2, <1>2, <1>3
  <2>3. CASE n # 1
    BY <2>1, <2>3, <1>1, <1>2, <1>3
  <2> QED
    BY <2>2, <2>3
<1>7. ASSUME NEW i \in 1..n - 1
      PROVE  Undoes(ds[i], us[i],
                    IF i = Len(ds) THEN Last(vs) ELSE us[i + 1])
  <2>1. i \in 1..n /\ i # n /\ i + 1 \in 1..n
    BY <1>1
  <2>2. Undoes(cs[i], vs[i], vs[i + 1])
    BY <2>1, <1>4
  <2>3. vs[i + 1] = IF i = Len(ds) THEN Last(vs) ELSE us[i + 1]
    BY <2>1, <1>1, <1>2, <1>3
  <2> QED
    BY <2>2, <2>3, <1>2, <1>3
<1> QED
  BY <1>1, <1>2, <1>3, <1>5, <1>6, <1>7 DEF Chained, ds, us

LEMMA OnHeadProperties ==
    ASSUME NEW ls \in Seq(Seq(Token)), ls # <<>>, NEW toks \in Seq(Token)
    PROVE  /\ OnHead(toks, ls) \in Seq(Seq(Token))
           /\ OnHead(toks, ls) # <<>>
           /\ Head(OnHead(toks, ls)) = toks \o Head(ls)
           /\ Tail(OnHead(toks, ls)) = Tail(ls)
<1>1. Head(ls) \in Seq(Token) /\ Tail(ls) \in Seq(Seq(Token))
  BY HeadTail
<1>2. toks \o Head(ls) \in Seq(Token)
  BY <1>1
<1> QED
  BY <1>1, <1>2, ConsProperties DEF OnHead

LEMMA ViewType == TypeOK => View \in Views
  BY DEF TypeOK, View, Views

LEMMA ChangeType ==
    ASSUME NEW type \in Types, NEW toks \in Seq(Token)
    PROVE  Change(type, toks) \in Changes
  BY DEF Change, Changes

LEMMA PushChangeType ==
    ASSUME TypeOK, NEW c \in Changes, PushChange(c)
    PROVE  log' \in Seq(Changes) /\ snaps' \in Seq(Views)
<1>1. View \in Views /\ log \in Seq(Changes) /\ snaps \in Seq(Views)
  BY ViewType DEF TypeOK
<1>2. CASE tracking
  <2>1. log' = Append(log, c) /\ snaps' = Append(snaps, View)
    BY <1>2 DEF PushChange
  <2> QED
    BY <1>1, <2>1, AppendFacts
<1>3. CASE ~tracking
  BY <1>1, <1>3 DEF PushChange
<1> QED
  BY <1>2, <1>3

LEMMA FrontsType ==
    ASSUME TypeOK, log' = Front(log), snaps' = Front(snaps)
    PROVE  log' \in Seq(Changes) /\ snaps' \in Seq(Views)
  BY FrontType DEF TypeOK

(* The type of the last change of a log. *)
LEMMA LastToks ==
    ASSUME TypeOK, log # <<>>
    PROVE  Last(log).toks \in Seq(Token)
<1>1. Last(log) \in Changes
  BY LastFront DEF TypeOK
<1> QED
  BY <1>1 DEF Changes

(* Only the modes, and what the end of tst_pop changes. *)
LEMMA TookType ==
    ASSUME TypeOK, NEW t \in Token, NEW type \in Types, NEW read,
           Took(t, type, read)
    PROVE  /\ log' \in Seq(Changes)
           /\ snaps' \in Seq(Views)
           /\ mode' \in {"run", "restore"}
           /\ lost' \in {"no", "yes"}
<1>1. Change(type, <<t>>) \in Changes
  <2>1. <<t>> \in Seq(Token)
    OBVIOUS
  <2> QED
    BY <2>1, ChangeType
<1>2. CASE HandOut(t, type, read)
  <2>1. CASE mode = "pop" /\ PushChange(Change(type, <<t>>)) /\ mode' = "run"
             /\ UNCHANGED lost
    BY <2>1, <1>1, PushChangeType DEF TypeOK
  <2>2. CASE UndoingPush /\ log' = Front(log) /\ snaps' = Front(snaps)
             /\ UNCHANGED <<mode, lost>>
    BY <2>2, FrontsType DEF TypeOK, UndoingPush
  <2> QED
    BY <1>2, <2>1, <2>2 DEF HandOut
<1>3. CASE HandOutFails(read)
  BY <1>3 DEF HandOutFails, TypeOK
<1> QED
  BY <1>2, <1>3 DEF Took

-----------------------------------------------------------------------------

LEMMA TypeStep == TypeOK /\ [Next]_vars => TypeOK'
<1> SUFFICES ASSUME TypeOK, [Next]_vars PROVE TypeOK'
  OBVIOUS
<1> USE DEF TypeOK
<1>e. /\ <<>> \in Seq(Token) /\ <<>> \in Seq(Seq(Token))
      /\ <<<<>>>> \in Seq(Seq(Token))
      /\ <<>> \in Seq(Changes) /\ <<>> \in Seq(Views)
  OBVIOUS
<1>h. levels # <<>> => /\ Head(levels) \in Seq(Token)
                       /\ Tail(levels) \in Seq(Seq(Token))
  BY HeadTail
<1>1. ASSUME NEW t \in Token, Push(t) PROVE TypeOK'
  <2>1. Change("TSCN_TOKEN_PUSH", <<>>) \in Changes
    BY <1>e, ChangeType DEF Types
  <2>2. log' \in Seq(Changes) /\ snaps' \in Seq(Views)
    BY <1>1, <2>1, PushChangeType DEF Push
  <2>3. levels # <<>> /\ levels' = OnHead(<<t>>, levels) /\ <<t>> \in Seq(Token)
    BY <1>1 DEF Push
  <2>4. levels' \in Seq(Seq(Token))
    BY <2>3, OnHeadProperties
  <2> QED
    BY <1>1, <2>2, <2>4 DEF Push
<1>2. ASSUME NEW t \in Token, PushOnNoLevel(t) PROVE TypeOK'
  <2>1. /\ Change("TSCN_LEVEL_PUSH", <<>>) \in Changes
        /\ Change("TSCN_TOKEN_PUSH", <<>>) \in Changes
    BY <1>e, ChangeType DEF Types
  <2>2. View \in Views /\ [View EXCEPT !.levels = <<<<>>>>] \in Views
    BY ViewType, <1>e DEF Views
  <2>3. log' \in Seq(Changes) /\ snaps' \in Seq(Views)
    <3>1. CASE tracking
      <4>1. /\ log' = Append(Append(log, Change("TSCN_LEVEL_PUSH", <<>>)),
                             Change("TSCN_TOKEN_PUSH", <<>>))
            /\ snaps' = Append(Append(snaps, View),
                               [View EXCEPT !.levels = <<<<>>>>])
        BY <1>2, <3>1 DEF PushOnNoLevel
      <4>2. /\ Append(log, Change("TSCN_LEVEL_PUSH", <<>>)) \in Seq(Changes)
            /\ Append(snaps, View) \in Seq(Views)
        BY <2>1, <2>2, AppendFacts
      <4> QED
        BY <2>1, <2>2, <4>1, <4>2, AppendFacts
    <3>2. CASE ~tracking
      BY <1>2, <3>2 DEF PushOnNoLevel
    <3> QED
      BY <3>1, <3>2
  <2>4. levels' \in Seq(Seq(Token))
    BY <1>2 DEF PushOnNoLevel
  <2> QED
    BY <1>2, <2>3, <2>4 DEF PushOnNoLevel
<1>3. CASE PushThroughNull
  BY <1>3 DEF PushThroughNull
<1>4. CASE PushLevel
  <2>1. Change("TSCN_LEVEL_PUSH", <<>>) \in Changes
    BY <1>e, ChangeType DEF Types
  <2>2. log' \in Seq(Changes) /\ snaps' \in Seq(Views)
    BY <1>4, <2>1, PushChangeType DEF PushLevel
  <2>3. levels' \in Seq(Seq(Token))
    BY <1>4, <1>e, ConsProperties DEF PushLevel
  <2> QED
    BY <1>4, <2>2, <2>3 DEF PushLevel
<1>5. CASE PopLevel
  <2>1. Change("TSCN_LEVEL_POP", Head(levels)) \in Changes
    BY <1>5, <1>h, ChangeType DEF Types, PopLevel
  <2>2. log' \in Seq(Changes) /\ snaps' \in Seq(Views)
    BY <1>5, <2>1, PushChangeType DEF PopLevel
  <2> QED
    BY <1>5, <2>2, <1>h DEF PopLevel
<1>6. CASE BeginPop
  BY <1>6 DEF BeginPop
<1>7. CASE Peek
  <2>1. src # <<>> /\ pulled' = <<Head(src)>> /\ src' = Tail(src)
    BY <1>7 DEF Peek
  <2>2. pulled' \in Seq(Token) /\ src' \in Seq(Token)
    BY <2>1, HeadTail
  <2> QED
    BY <1>7, <2>2 DEF Peek
<1>8. CASE Save
  BY <1>8, ViewType DEF Save
<1>9. CASE Discard
  BY <1>9, <1>e DEF Discard
<1>10. CASE BeginRestore
  BY <1>10 DEF BeginRestore
<1>11. CASE Free
  BY <1>11, <1>e DEF Free
<1>12. CASE DropEmptyLevel
  <2>1. Change("TSCN_LEVEL_POP", <<>>) \in Changes
    BY <1>e, ChangeType DEF Types
  <2>2. log' \in Seq(Changes) /\ snaps' \in Seq(Views)
    BY <1>12, <2>1, PushChangeType DEF DropEmptyLevel
  <2> QED
    BY <1>12, <1>h, <2>2 DEF DropEmptyLevel, NextLevelEmpty
<1>13. CASE DropEmptyLevelUnlogged
  BY <1>13, <1>h DEF DropEmptyLevelUnlogged, NextLevelEmpty
<1>14. CASE PopPushed
  <2>1. /\ levels # <<>> /\ Head(levels) # <<>>
        /\ levels' = <<Tail(Head(levels))>> \o Tail(levels)
        /\ Took(Head(Head(levels)), "TSCN_TOKEN_POP", 0)
    BY <1>14 DEF PopPushed
  <2>2. Head(Head(levels)) \in Token /\ Tail(Head(levels)) \in Seq(Token)
    BY <2>1, <1>h, HeadTail
  <2>3. levels' \in Seq(Seq(Token))
    BY <2>1, <2>2, <1>h, ConsProperties
  <2>4. /\ log' \in Seq(Changes) /\ snaps' \in Seq(Views)
        /\ mode' \in {"run", "restore"}
        /\ lost' \in {"no", "yes"}
    BY <2>1, <2>2, TookType DEF Types
  <2> QED
    BY <1>14, <2>3, <2>4 DEF PopPushed
<1>15. CASE PopPulled
  <2>1. /\ pulled # <<>> /\ pulled' = Tail(pulled)
        /\ Took(Head(pulled), "TSCN_TOKEN_NEXT", 0)
    BY <1>15 DEF PopPulled
  <2>2. Head(pulled) \in Token /\ Tail(pulled) \in Seq(Token)
    BY <2>1, HeadTail
  <2>3. /\ log' \in Seq(Changes) /\ snaps' \in Seq(Views)
        /\ mode' \in {"run", "restore"}
        /\ lost' \in {"no", "yes"}
    BY <2>1, <2>2, TookType DEF Types
  <2> QED
    BY <1>15, <2>1, <2>2, <2>3 DEF PopPulled
<1>16. CASE PopNext
  <2>1. /\ src # <<>> /\ src' = Tail(src)
        /\ Took(Head(src), "TSCN_TOKEN_NEXT", 1)
    BY <1>16 DEF PopNext
  <2>2. Head(src) \in Token /\ Tail(src) \in Seq(Token)
    BY <2>1, HeadTail
  <2>3. /\ log' \in Seq(Changes) /\ snaps' \in Seq(Views)
        /\ mode' \in {"run", "restore"}
        /\ lost' \in {"no", "yes"}
    BY <2>1, <2>2, TookType DEF Types
  <2> QED
    BY <1>16, <2>1, <2>2, <2>3 DEF PopNext
<1>17. CASE PopFails
  BY <1>17 DEF PopFails
<1>18. CASE UndoTokenPop
  <2>1. Undoing("TSCN_TOKEN_POP") /\ log # <<>>
    BY <1>18 DEF UndoTokenPop, Undoing
  <2>2. log' \in Seq(Changes) /\ snaps' \in Seq(Views)
    BY <1>18, FrontsType DEF UndoTokenPop, ChangeDone
  <2>3. Last(log).toks \in Seq(Token)
    BY <2>1, LastToks
  <2>4. levels' \in Seq(Seq(Token))
    <3>1. CASE levels = <<>>
      BY <1>18, <2>3, <3>1 DEF UndoTokenPop
    <3>2. CASE levels # <<>>
      BY <1>18, <2>3, <3>2, OnHeadProperties DEF UndoTokenPop
    <3> QED
      BY <3>1, <3>2
  <2> QED
    BY <1>18, <2>2, <2>4 DEF UndoTokenPop
<1>19. CASE UndoTokenNext
  <2>1. Undoing("TSCN_TOKEN_NEXT") /\ log # <<>>
    BY <1>19 DEF UndoTokenNext, Undoing
  <2>2. log' \in Seq(Changes) /\ snaps' \in Seq(Views)
    BY <1>19, FrontsType DEF UndoTokenNext, ChangeDone
  <2>3. Last(log).toks \in Seq(Token)
    BY <2>1, LastToks
  <2>4. pulled' \in Seq(Token)
    BY <1>19, <2>3 DEF UndoTokenNext
  <2> QED
    BY <1>19, <2>2, <2>4 DEF UndoTokenNext
<1>20. CASE UndoLevelPop
  <2>1. Undoing("TSCN_LEVEL_POP") /\ log # <<>>
    BY <1>20 DEF UndoLevelPop, Undoing
  <2>2. log' \in Seq(Changes) /\ snaps' \in Seq(Views)
    BY <1>20, FrontsType DEF UndoLevelPop, ChangeDone
  <2>3. Last(log).toks \in Seq(Token)
    BY <2>1, LastToks
  <2>4. levels' \in Seq(Seq(Token))
    BY <1>20, <2>3, ConsProperties DEF UndoLevelPop
  <2> QED
    BY <1>20, <2>2, <2>4 DEF UndoLevelPop
<1>21. CASE UndoLevelPush
  <2>1. log' \in Seq(Changes) /\ snaps' \in Seq(Views)
    BY <1>21, FrontsType DEF UndoLevelPush, ChangeDone
  <2> QED
    BY <1>21, <2>1, <1>h DEF UndoLevelPush
<1>22. CASE RestoreFails
  BY <1>22 DEF RestoreFails
<1>23. CASE RestoreThroughNull
  BY <1>23 DEF RestoreThroughNull
<1>24. CASE RestoreDone
  BY <1>24 DEF RestoreDone
<1>25. CASE UNCHANGED vars
  BY <1>25 DEF vars
<1> QED
  BY <1>1, <1>2, <1>3, <1>4, <1>5, <1>6, <1>7, <1>8, <1>9, <1>10, <1>11,
     <1>12, <1>13, <1>14, <1>15, <1>16, <1>17, <1>18, <1>19, <1>20, <1>21,
     <1>22, <1>23, <1>24, <1>25 DEF Next, Loop

-----------------------------------------------------------------------------

LEMMA PushChangeLen ==
    ASSUME TypeOK, NEW c \in Changes, PushChange(c), Len(snaps) = Len(log)
    PROVE  Len(snaps') = Len(log')
<1>1. View \in Views /\ log \in Seq(Changes) /\ snaps \in Seq(Views)
  BY ViewType DEF TypeOK
<1>2. CASE tracking
  <2>1. log' = Append(log, c) /\ snaps' = Append(snaps, View)
    BY <1>2 DEF PushChange
  <2>2. Len(log') = Len(log) + 1 /\ Len(snaps') = Len(snaps) + 1
    BY <1>1, <2>1, AppendFacts
  <2> QED
    BY <2>2
<1>3. CASE ~tracking
  BY <1>3 DEF PushChange
<1> QED
  BY <1>2, <1>3

LEMMA FrontsLen ==
    ASSUME TypeOK, log # <<>>, log' = Front(log), snaps' = Front(snaps),
           Len(snaps) = Len(log)
    PROVE  Len(snaps') = Len(log')
<1>1. log \in Seq(Changes) /\ snaps \in Seq(Views) /\ snaps # <<>>
  BY DEF TypeOK
<1>2. Len(log') = Len(log) - 1 /\ Len(snaps') = Len(snaps) - 1
  BY <1>1, LastFront
<1> QED
  BY <1>2

LEMMA TookLog ==
    ASSUME TypeOK, LogWhileSaved, NEW t \in Token, NEW type \in Types,
           NEW read, Took(t, type, read), Popping,
           UNCHANGED <<tracking, base>>
    PROVE  LogWhileSaved'
<1>1. Change(type, <<t>>) \in Changes
  <2>1. <<t>> \in Seq(Token)
    OBVIOUS
  <2> QED
    BY <2>1, ChangeType
<1>2. CASE mode = "pop" /\ PushChange(Change(type, <<t>>)) /\ mode' = "run"
  <2>1. Len(snaps') = Len(log')
    BY <1>1, <1>2, PushChangeLen DEF LogWhileSaved
  <2>2. ~tracking => log' = log /\ snaps' = snaps
    BY <1>2 DEF PushChange
  <2> QED
    BY <1>2, <2>1, <2>2 DEF LogWhileSaved
<1>3. CASE UndoingPush /\ log' = Front(log) /\ snaps' = Front(snaps)
           /\ mode' = mode
  <2>1. Len(snaps') = Len(log')
    BY <1>3, FrontsLen DEF LogWhileSaved, UndoingPush
  <2> QED
    BY <1>3, <2>1 DEF LogWhileSaved, UndoingPush
<1>4. CASE HandOutFails(read)
  BY <1>4 DEF LogWhileSaved, HandOutFails
<1> QED
  BY <1>2, <1>3, <1>4 DEF Took, HandOut

LEMMA LogStep == TypeOK /\ LogWhileSaved /\ UndoChain /\ [Next]_vars
                    => LogWhileSaved'
<1> SUFFICES ASSUME TypeOK, LogWhileSaved, UndoChain, [Next]_vars
             PROVE  LogWhileSaved'
  OBVIOUS
<1>e. <<>> \in Seq(Token) /\ <<<<>>>> \in Seq(Seq(Token))
  OBVIOUS
<1>u. ASSUME NEW type \in Types, Undoing(type), ChangeDone,
             UNCHANGED <<tracking, mode, base>>
      PROVE  LogWhileSaved'
  <2>1. log # <<>> /\ log' = Front(log) /\ snaps' = Front(snaps)
        /\ mode = "restore"
    BY <1>u DEF Undoing, ChangeDone
  <2>2. Len(snaps') = Len(log')
    BY <2>1, FrontsLen DEF LogWhileSaved
  <2> QED
    BY <1>u, <2>1, <2>2 DEF LogWhileSaved
<1>c. ASSUME NEW c \in Changes, PushChange(c), UNCHANGED <<tracking, mode, base>>
      PROVE  LogWhileSaved'
  <2>1. Len(snaps') = Len(log')
    BY <1>c, PushChangeLen DEF LogWhileSaved
  <2>2. ~tracking => log' = log /\ snaps' = snaps
    BY <1>c DEF PushChange
  <2> QED
    BY <1>c, <2>1, <2>2 DEF LogWhileSaved
<1>1. ASSUME NEW t \in Token, Push(t) PROVE LogWhileSaved'
  BY <1>1, <1>c, <1>e, ChangeType DEF Push, Types
<1>2. ASSUME NEW t \in Token, PushOnNoLevel(t) PROVE LogWhileSaved'
  <2>1. CASE tracking
    <3> DEFINE c == Change("TSCN_LEVEL_PUSH", <<>>)
               d == Change("TSCN_TOKEN_PUSH", <<>>)
               v == [View EXCEPT !.levels = <<<<>>>>]
    <3>1. c \in Changes /\ d \in Changes /\ View \in Views
      BY <1>e, ChangeType, ViewType DEF Types
    <3>2. v \in Views
      BY <3>1, <1>e DEF Views
    <3>3. /\ log' = Append(Append(log, c), d)
          /\ snaps' = Append(Append(snaps, View), v)
      BY <1>2, <2>1 DEF PushOnNoLevel
    <3> HIDE DEF c, d, v
    <3>4. /\ Append(log, c) \in Seq(Changes)
          /\ Len(Append(log, c)) = Len(log) + 1
          /\ Append(snaps, View) \in Seq(Views)
          /\ Len(Append(snaps, View)) = Len(snaps) + 1
      BY <3>1, AppendFacts DEF TypeOK
    <3>5. Len(log') = Len(log) + 1 + 1 /\ Len(snaps') = Len(snaps) + 1 + 1
      BY <3>1, <3>2, <3>3, <3>4, AppendFacts
    <3> QED
      BY <1>2, <2>1, <3>5 DEF PushOnNoLevel, LogWhileSaved
  <2>2. CASE ~tracking
    BY <1>2, <2>2 DEF PushOnNoLevel, LogWhileSaved
  <2> QED
    BY <2>1, <2>2 DEF TypeOK
<1>3. CASE PushThroughNull
  BY <1>3 DEF PushThroughNull, LogWhileSaved
<1>4. CASE PushLevel
  BY <1>4, <1>c, <1>e, ChangeType DEF PushLevel, Types
<1>5. CASE PopLevel
  <2>1. Head(levels) \in Seq(Token)
    BY <1>5, HeadTail DEF PopLevel, TypeOK
  <2> QED
    BY <1>5, <2>1, <1>c, ChangeType DEF PopLevel, Types
<1>6. CASE BeginPop
  BY <1>6 DEF BeginPop, LogWhileSaved
<1>7. CASE Peek
  BY <1>7 DEF Peek, LogWhileSaved
<1>8. CASE Save
  BY <1>8, ViewType DEF Save, LogWhileSaved
<1>9. CASE Discard
  BY <1>9 DEF Discard, LogWhileSaved
<1>10. CASE BeginRestore
  BY <1>10 DEF BeginRestore, LogWhileSaved
<1>11. CASE Free
  BY <1>11 DEF Free, LogWhileSaved
<1>12. CASE DropEmptyLevel
  BY <1>12, <1>c, <1>e, ChangeType DEF DropEmptyLevel, Types
<1>13. CASE DropEmptyLevelUnlogged
  BY <1>13 DEF DropEmptyLevelUnlogged, LogWhileSaved
<1>14. CASE PopPushed
  <2>1. /\ levels # <<>> /\ Head(levels) # <<>>
        /\ Took(Head(Head(levels)), "TSCN_TOKEN_POP", 0)
    BY <1>14 DEF PopPushed
  <2>2. Head(Head(levels)) \in Token
    BY <2>1, HeadTail DEF TypeOK
  <2> QED
    BY <1>14, <2>1, <2>2, TookLog DEF Types, PopPushed
<1>15. CASE PopPulled
  <2>1. Head(pulled) \in Token
    BY <1>15, HeadTail DEF PopPulled, TypeOK
  <2> QED
    BY <1>15, <2>1, TookLog DEF Types, PopPulled
<1>16. CASE PopNext
  <2>1. Head(src) \in Token
    BY <1>16, HeadTail DEF PopNext, TypeOK
  <2> QED
    BY <1>16, <2>1, TookLog DEF Types, PopNext
<1>17. CASE PopFails
  BY <1>17 DEF PopFails, LogWhileSaved, Popping, UndoingPush
<1>18. CASE UndoTokenPop
  BY <1>18, <1>u DEF UndoTokenPop, Types
<1>19. CASE UndoTokenNext
  BY <1>19, <1>u DEF UndoTokenNext, Types
<1>20. CASE UndoLevelPop
  BY <1>20, <1>u DEF UndoLevelPop, Types
<1>21. CASE UndoLevelPush
  BY <1>21, <1>u DEF UndoLevelPush, Types
<1>22. CASE RestoreFails
  BY <1>22 DEF RestoreFails, LogWhileSaved, Undoing
<1>23. CASE RestoreThroughNull
  BY <1>23 DEF RestoreThroughNull, LogWhileSaved, Undoing
<1>24. CASE RestoreDone
  <2>1. log = <<>> /\ Len(snaps) = Len(log)
    BY <1>24 DEF RestoreDone, LogWhileSaved
  <2>2. snaps = <<>>
    BY <2>1 DEF TypeOK
  <2> QED
    BY <1>24, <2>1, <2>2 DEF RestoreDone, LogWhileSaved
<1>25. CASE UNCHANGED vars
  BY <1>25 DEF vars, LogWhileSaved
<1> QED
  BY <1>1, <1>2, <1>3, <1>4, <1>5, <1>6, <1>7, <1>8, <1>9, <1>10, <1>11,
     <1>12, <1>13, <1>14, <1>15, <1>16, <1>17, <1>18, <1>19, <1>20, <1>21,
     <1>22, <1>23, <1>24, <1>25 DEF Next, Loop

-----------------------------------------------------------------------------
(* The chain of undos is kept. *)

(* A change that is logged as what undoes it. *)
LEMMA PushChangeChain ==
    ASSUME TypeOK, LogWhileSaved, UndoChain, NEW c \in Changes,
           PushChange(c), Undoes(c, View, View'), mode' # "restore",
           UNCHANGED <<tracking, base, lost>>
    PROVE  UndoChain'
<1> SUFFICES ASSUME lost' = "no", tracking'
             PROVE  Chained(log', snaps', base', View')
  BY DEF UndoChain
<1>1. Chained(log, snaps, base, View)
  BY DEF UndoChain
<1>2. log' = Append(log, c) /\ snaps' = Append(snaps, View) /\ base' = base
  BY DEF PushChange
<1>3. Chained(Append(log, c), Append(snaps, View), base, View')
  BY <1>1, ViewType, ChainExtends DEF TypeOK
<1> QED
  BY <1>2, <1>3

(* The last change of the log, during a restore that has lost nothing. *)
LEMMA LastUndoes ==
    ASSUME TypeOK, UndoChain, mode = "restore", log # <<>>, lost = "no"
    PROVE  Undoes(Last(log), Last(snaps), View)
<1>1. Chained(log, snaps, base, View)
  BY DEF UndoChain
<1> QED
  BY <1>1, ChainRetracts DEF TypeOK

(* The last change is undone and leaves the log. *)
LEMMA ChangeDoneChain ==
    ASSUME TypeOK, UndoChain, mode = "restore", log # <<>>, ChangeDone,
           lost = "no" => View' = Last(snaps),
           UNCHANGED <<tracking, mode, base, lost>>
    PROVE  UndoChain'
<1> SUFFICES ASSUME lost' = "no"
             PROVE  Chained(log', snaps', base', View')
  BY DEF UndoChain
<1>1. Chained(log, snaps, base, View)
  BY DEF UndoChain
<1>2. Chained(Front(log), Front(snaps), base, Last(snaps))
  BY <1>1, ChainRetracts DEF TypeOK
<1> QED
  BY <1>2 DEF ChangeDone

(* The two ends of tst_pop. *)
LEMMA TookChain ==
    ASSUME TypeOK, LogWhileSaved, UndoChain, NEW t \in Token,
           NEW type \in Types, NEW read, Took(t, type, read), Popping,
           UNCHANGED <<tracking, base>>,
           mode = "pop" => Undoes(Change(type, <<t>>), View, View'),
           UndoingPush /\ lost = "no" => View' = Last(snaps)
    PROVE  UndoChain'
<1>1. Change(type, <<t>>) \in Changes
  <2>1. <<t>> \in Seq(Token)
    OBVIOUS
  <2> QED
    BY <2>1, ChangeType
<1>2. CASE mode = "pop" /\ PushChange(Change(type, <<t>>)) /\ mode' = "run"
           /\ UNCHANGED lost
  BY <1>1, <1>2, PushChangeChain
<1>3. CASE UndoingPush /\ log' = Front(log) /\ snaps' = Front(snaps)
           /\ UNCHANGED <<mode, lost>>
  BY <1>3, ChangeDoneChain DEF UndoingPush, ChangeDone
<1>4. CASE HandOutFails(read)
  BY <1>4 DEF HandOutFails, UndoChain
<1> QED
  BY <1>2, <1>3, <1>4 DEF Took, HandOut

(* The changes to the view, and that the logged change undoes each. *)
LEMMA UndoesPush ==
    ASSUME TypeOK, levels # <<>>, NEW t \in Token,
           levels' = OnHead(<<t>>, levels), UNCHANGED <<pulled, src>>
    PROVE  Undoes(Change("TSCN_TOKEN_PUSH", <<>>), View, View')
<1>1. /\ Head(levels) \in Seq(Token) /\ Tail(levels) \in Seq(Seq(Token))
      /\ <<Head(levels)>> \o Tail(levels) = levels
  BY HeadTail DEF TypeOK
<1>2. <<t>> \in Seq(Token)
  OBVIOUS
<1>3. /\ levels' # <<>> /\ Head(levels') = <<t>> \o Head(levels)
      /\ Tail(levels') = Tail(levels)
  BY <1>2, OnHeadProperties DEF TypeOK
<1>4. Head(levels') # <<>> /\ Tail(Head(levels')) = Head(levels)
  <2>1. /\ <<t>> \o Head(levels) # <<>>
        /\ Tail(<<t>> \o Head(levels)) = Head(levels)
    BY <1>1, ConsProperties
  <2> QED
    BY <1>3, <2>1
<1>5. <<Tail(Head(levels'))>> \o Tail(levels') = levels
  BY <1>1, <1>3, <1>4
<1> QED
  BY <1>3, <1>4, <1>5 DEF Undoes, View, Change

LEMMA UndoesPushLevel ==
    ASSUME TypeOK, levels' = <<<<>>>> \o levels, UNCHANGED <<pulled, src>>
    PROVE  Undoes(Change("TSCN_LEVEL_PUSH", <<>>), View, View')
<1>1. levels' # <<>> /\ Tail(levels') = levels
  <2>1. <<>> \in Seq(Token)
    OBVIOUS
  <2> QED
    BY <2>1, ConsProperties DEF TypeOK
<1> QED
  BY <1>1 DEF Undoes, View, Change

LEMMA UndoesPopLevel ==
    ASSUME TypeOK, levels # <<>>, levels' = Tail(levels),
           UNCHANGED <<pulled, src>>
    PROVE  Undoes(Change("TSCN_LEVEL_POP", Head(levels)), View, View')
<1>1. <<Head(levels)>> \o Tail(levels) = levels
  BY HeadTail DEF TypeOK
<1> QED
  BY <1>1 DEF Undoes, View, Change

LEMMA UndoesPopPushed ==
    ASSUME TypeOK, levels # <<>>, Head(levels) # <<>>,
           levels' = <<Tail(Head(levels))>> \o Tail(levels),
           UNCHANGED <<pulled, src>>
    PROVE  Undoes(Change("TSCN_TOKEN_POP", <<Head(Head(levels))>>),
                  View, View')
<1>1. /\ Head(levels) \in Seq(Token) /\ Tail(levels) \in Seq(Seq(Token))
      /\ <<Head(levels)>> \o Tail(levels) = levels
  BY HeadTail DEF TypeOK
<1>2. /\ Tail(Head(levels)) \in Seq(Token)
      /\ <<Head(Head(levels))>> \o Tail(Head(levels)) = Head(levels)
  BY <1>1, HeadTail
<1>3. /\ levels' # <<>> /\ Head(levels') = Tail(Head(levels))
      /\ Tail(levels') = Tail(levels)
  <2> DEFINE x == Tail(Head(levels))
             r == Tail(levels)
  <2>1. x \in Seq(Token) /\ r \in Seq(Seq(Token))
    BY <1>1, <1>2
  <2> HIDE DEF x, r
  <2>2. /\ <<x>> \o r # <<>> /\ Head(<<x>> \o r) = x
        /\ Tail(<<x>> \o r) = r
    BY <2>1, ConsProperties
  <2> QED
    BY <2>2 DEF x, r
<1>4. OnHead(<<Head(Head(levels))>>, levels') = levels
  BY <1>1, <1>2, <1>3 DEF OnHead
<1> QED
  BY <1>3, <1>4 DEF Undoes, View, Change

(* A token of the input, whether it was pulled before or not. *)
LEMMA UndoesNext ==
    ASSUME TypeOK, NEW t \in Token, UNCHANGED levels,
           \/ pulled # <<>> /\ t = Head(pulled) /\ pulled' = Tail(pulled)
              /\ src' = src
           \/ pulled = <<>> /\ pulled' = pulled
              /\ src # <<>> /\ t = Head(src) /\ src' = Tail(src)
    PROVE  Undoes(Change("TSCN_TOKEN_NEXT", <<t>>), View, View')
<1>1. <<t>> \o (pulled' \o src') = pulled \o src
  <2>t. <<t>> \in Seq(Token)
    OBVIOUS
  <2>1. CASE pulled # <<>> /\ t = Head(pulled) /\ pulled' = Tail(pulled)
             /\ src' = src
    <3>1. Tail(pulled) \in Seq(Token) /\ <<t>> \o Tail(pulled) = pulled
      BY <2>1, HeadTail DEF TypeOK
    <3>2. (<<t>> \o Tail(pulled)) \o src = <<t>> \o (Tail(pulled) \o src)
      BY <2>t, <3>1, Assoc DEF TypeOK
    <3> QED
      BY <2>1, <3>1, <3>2
  <2>2. CASE pulled = <<>> /\ pulled' = pulled
             /\ src # <<>> /\ t = Head(src) /\ src' = Tail(src)
    <3>1. Tail(src) \in Seq(Token) /\ <<t>> \o Tail(src) = src
      BY <2>2, HeadTail DEF TypeOK
    <3>2. <<>> \o src = src /\ <<>> \o Tail(src) = Tail(src)
      BY <3>1 DEF TypeOK
    <3> QED
      BY <2>2, <3>1, <3>2
  <2> QED
    BY <2>1, <2>2
<1> QED
  BY <1>1 DEF Undoes, View, Change

(* A view is given by its two parts. *)
LEMMA ViewEquals ==
    ASSUME NEW v \in Views, v.levels = levels', v.input = (pulled \o src)'
    PROVE  View' = v
  BY DEF Views, View

LEMMA LastViewType ==
    ASSUME TypeOK, log # <<>>, LogWhileSaved
    PROVE  Last(snaps) \in Views
<1>1. snaps # <<>>
  BY DEF LogWhileSaved, TypeOK
<1> QED
  BY <1>1, LastFront DEF TypeOK

(* What a restore finds when it undoes a change of a given type, and what  *)
(* the view was before that change.                                        *)
LEMMA UndoingFinds ==
    ASSUME TypeOK, LogWhileSaved, UndoChain, lost = "no",
           mode = "restore", log # <<>>
    PROVE  LET v == Last(snaps)
               c == Last(log)
           IN  /\ v \in Views
               /\ c.type = "TSCN_TOKEN_POP" =>
                     /\ levels # <<>> /\ v.levels = OnHead(c.toks, levels)
                     /\ v.input = pulled \o src
               /\ c.type = "TSCN_TOKEN_PUSH" =>
                     /\ levels # <<>> /\ Head(levels) # <<>>
                     /\ v.levels = <<Tail(Head(levels))>> \o Tail(levels)
                     /\ v.input = pulled \o src
               /\ c.type = "TSCN_TOKEN_NEXT" =>
                     /\ v.levels = levels
                     /\ v.input = c.toks \o (pulled \o src)
               /\ c.type = "TSCN_LEVEL_POP" =>
                     /\ v.levels = <<c.toks>> \o levels
                     /\ v.input = pulled \o src
               /\ c.type = "TSCN_LEVEL_PUSH" =>
                     /\ levels # <<>> /\ v.levels = Tail(levels)
                     /\ v.input = pulled \o src
<1>1. Undoes(Last(log), Last(snaps), View)
  BY LastUndoes
<1>2. Last(snaps) \in Views
  BY LastViewType
<1> QED
  BY <1>1, <1>2 DEF Undoes, View

LEMMA ChainStep ==
    TypeOK /\ LogWhileSaved /\ UndoChain /\ [Next]_vars => UndoChain'
<1> SUFFICES ASSUME TypeOK, LogWhileSaved, UndoChain, [Next]_vars
             PROVE  UndoChain'
  OBVIOUS
<1>e. /\ <<>> \in Seq(Token) /\ <<<<>>>> \in Seq(Seq(Token))
      /\ <<>> \in Seq(Seq(Token))
  OBVIOUS
<1>c. /\ Change("TSCN_TOKEN_PUSH", <<>>) \in Changes
      /\ Change("TSCN_LEVEL_PUSH", <<>>) \in Changes
      /\ Change("TSCN_LEVEL_POP", <<>>) \in Changes
  BY <1>e, ChangeType DEF Types
<1>same. ASSUME View' = View, UNCHANGED <<log, snaps, base>>,
                lost' = "no" => lost = "no",
                lost' = "no" /\ (tracking' \/ mode' = "restore")
                   => tracking \/ mode = "restore"
         PROVE  UndoChain'
  BY <1>same DEF UndoChain
<1>view. UNCHANGED <<levels, pulled, src>> => View' = View
  BY DEF View
<1>1. ASSUME NEW t \in Token, Push(t) PROVE UndoChain'
  <2>1. Undoes(Change("TSCN_TOKEN_PUSH", <<>>), View, View')
    BY <1>1, UndoesPush DEF Push
  <2> QED
    BY <1>1, <1>c, <2>1, PushChangeChain DEF Push
<1>2. ASSUME NEW t \in Token, PushOnNoLevel(t) PROVE UndoChain'
  <2> SUFFICES ASSUME lost' = "no", tracking
               PROVE  Chained(log', snaps', base', View')
    BY <1>2 DEF UndoChain, PushOnNoLevel
  <2> DEFINE c == Change("TSCN_LEVEL_PUSH", <<>>)
             d == Change("TSCN_TOKEN_PUSH", <<>>)
             v == [View EXCEPT !.levels = <<<<>>>>]
  <2>1. /\ log' = Append(Append(log, c), d)
        /\ snaps' = Append(Append(snaps, View), v)
        /\ levels = <<>> /\ levels' = <<<<t>>>>
        /\ UNCHANGED <<pulled, src, base, lost>>
    BY <1>2 DEF PushOnNoLevel
  <2>2. View \in Views /\ View.levels = <<>> /\ View.input = pulled \o src
    BY <2>1, ViewType DEF View
  <2>3. v \in Views /\ v.levels = <<<<>>>> /\ v.input = pulled \o src
    BY <2>2, <1>e DEF Views
  <2>4. Undoes(c, View, v)
    BY <2>2, <2>3 DEF Undoes, Change
  <2>5. View'.levels = <<<<t>>>> /\ View'.input = pulled \o src
    BY <2>1 DEF View
  <2>6. <<Tail(<<t>>)>> \o Tail(<<<<t>>>>) = <<<<>>>>
    OBVIOUS
  <2>7. <<<<t>>>> # <<>> /\ Head(<<<<t>>>>) = <<t>> /\ <<t>> # <<>>
    OBVIOUS
  <2>8. Undoes(d, v, View')
    BY <2>3, <2>5, <2>6, <2>7 DEF Undoes, Change
  <2>9. c \in Changes /\ d \in Changes
    BY <1>c
  <2> HIDE DEF c, d, v
  <2>10. Chained(log, snaps, base, View)
    BY <2>1 DEF UndoChain
  <2>11. Chained(Append(log, c), Append(snaps, View), base, v)
    BY <2>2, <2>4, <2>9, <2>10, ChainExtends DEF TypeOK
  <2>12. Append(log, c) \in Seq(Changes) /\ Append(snaps, View) \in Seq(Views)
    BY <2>2, <2>9, AppendFacts DEF TypeOK
  <2>13. Chained(Append(Append(log, c), d), Append(Append(snaps, View), v),
                 base, View')
    BY <2>3, <2>8, <2>9, <2>11, <2>12, ChainExtends
  <2> QED
    BY <2>1, <2>13
<1>3. CASE PushThroughNull
  BY <1>3, <1>same, <1>view DEF PushThroughNull
<1>4. CASE PushLevel
  <2>1. Undoes(Change("TSCN_LEVEL_PUSH", <<>>), View, View')
    BY <1>4, UndoesPushLevel DEF PushLevel
  <2> QED
    BY <1>4, <1>c, <2>1, PushChangeChain DEF PushLevel
<1>5. CASE PopLevel
  <2>1. levels # <<>> /\ levels' = Tail(levels)
    BY <1>5 DEF PopLevel
  <2>2. Change("TSCN_LEVEL_POP", Head(levels)) \in Changes
    BY <2>1, HeadTail, ChangeType DEF TypeOK, Types
  <2>3. Undoes(Change("TSCN_LEVEL_POP", Head(levels)), View, View')
    BY <1>5, <2>1, UndoesPopLevel DEF PopLevel
  <2> QED
    BY <1>5, <2>2, <2>3, PushChangeChain DEF PopLevel
<1>6. CASE BeginPop
  BY <1>6, <1>same, <1>view DEF BeginPop
<1>7. CASE Peek
  <2>1. /\ pulled = <<>> /\ src # <<>> /\ UNCHANGED levels
        /\ pulled' = <<Head(src)>> /\ src' = Tail(src)
    BY <1>7 DEF Peek
  <2>2. <<Head(src)>> \o Tail(src) = src /\ <<>> \o src = src
    BY <2>1, HeadTail DEF TypeOK
  <2>3. View' = View
    BY <2>1, <2>2 DEF View
  <2> QED
    BY <1>7, <2>3, <1>same DEF Peek
<1>8. CASE Save
  <2>1. View' = View
    BY <1>8 DEF Save, View
  <2>2. CASE tracking
    BY <1>8, <2>1, <2>2, <1>same DEF Save
  <2>3. CASE ~tracking
    <3>1. log = <<>> /\ snaps = <<>> /\ base' = View /\ UNCHANGED <<log, snaps>>
      BY <1>8, <2>3 DEF Save, LogWhileSaved
    <3> QED
      BY <2>1, <3>1 DEF UndoChain, Chained
  <2> QED
    BY <2>2, <2>3
<1>9. CASE Discard
  BY <1>9 DEF Discard, UndoChain
<1>10. CASE BeginRestore
  BY <1>10, <1>same, <1>view DEF BeginRestore
<1>11. CASE Free
  BY <1>11 DEF Free, UndoChain
<1>12. CASE DropEmptyLevel
  <2>1. /\ levels # <<>> /\ Head(levels) = <<>> /\ levels' = Tail(levels)
        /\ UNCHANGED <<pulled, src, tracking, mode, base, lost>>
        /\ PushChange(Change("TSCN_LEVEL_POP", <<>>))
    BY <1>12 DEF DropEmptyLevel, NextLevelEmpty
  <2>2. CASE mode = "pop"
    <3>1. Undoes(Change("TSCN_LEVEL_POP", <<>>), View, View')
      BY <2>1, UndoesPopLevel
    <3> QED
      BY <1>c, <2>1, <2>2, <3>1, PushChangeChain
  <2>3. CASE UndoingPush /\ lost = "no"
    BY <2>1, <2>3, UndoingFinds DEF UndoingPush
  <2>4. CASE lost # "no"
    BY <2>1, <2>4 DEF UndoChain
  <2> QED
    BY <1>12, <2>2, <2>3, <2>4 DEF DropEmptyLevel, Popping
<1>13. CASE DropEmptyLevelUnlogged
  BY <1>13 DEF DropEmptyLevelUnlogged, UndoChain
<1>14. CASE PopPushed
  <2>1. /\ levels # <<>> /\ Head(levels) # <<>> /\ Popping
        /\ levels' = <<Tail(Head(levels))>> \o Tail(levels)
        /\ Took(Head(Head(levels)), "TSCN_TOKEN_POP", 0)
        /\ UNCHANGED <<pulled, src, tracking, base>>
    BY <1>14 DEF PopPushed
  <2>2. Head(Head(levels)) \in Token
    BY <2>1, HeadTail DEF TypeOK
  <2>3. Undoes(Change("TSCN_TOKEN_POP", <<Head(Head(levels))>>), View, View')
    BY <2>1, UndoesPopPushed
  <2>4. ASSUME UndoingPush, lost = "no" PROVE View' = Last(snaps)
    <3>1. /\ Last(snaps) \in Views
          /\ Last(snaps).levels = <<Tail(Head(levels))>> \o Tail(levels)
          /\ Last(snaps).input = pulled \o src
      BY <2>4, UndoingFinds DEF UndoingPush
    <3> QED
      BY <2>1, <3>1, ViewEquals
  <2> QED
    BY <2>1, <2>2, <2>3, <2>4, TookChain DEF Types
<1>15. CASE PopPulled
  <2>1. /\ pulled # <<>> /\ levels = <<>> /\ Popping /\ pulled' = Tail(pulled)
        /\ Took(Head(pulled), "TSCN_TOKEN_NEXT", 0)
        /\ UNCHANGED <<levels, src, tracking, base>>
    BY <1>15 DEF PopPulled
  <2>2. Head(pulled) \in Token
    BY <2>1, HeadTail DEF TypeOK
  <2>3. Undoes(Change("TSCN_TOKEN_NEXT", <<Head(pulled)>>), View, View')
    BY <2>1, <2>2, UndoesNext
  <2>4. ~(UndoingPush /\ lost = "no")
    BY <2>1, UndoingFinds DEF UndoingPush
  <2> QED
    BY <2>1, <2>2, <2>3, <2>4, TookChain DEF Types
<1>16. CASE PopNext
  <2>1. /\ pulled = <<>> /\ src # <<>> /\ levels = <<>> /\ Popping
        /\ src' = Tail(src)
        /\ Took(Head(src), "TSCN_TOKEN_NEXT", 1)
        /\ UNCHANGED <<levels, pulled, tracking, base>>
    BY <1>16 DEF PopNext
  <2>2. Head(src) \in Token
    BY <2>1, HeadTail DEF TypeOK
  <2>3. Undoes(Change("TSCN_TOKEN_NEXT", <<Head(src)>>), View, View')
    BY <2>1, <2>2, UndoesNext
  <2>4. ~(UndoingPush /\ lost = "no")
    BY <2>1, UndoingFinds DEF UndoingPush
  <2> QED
    BY <2>1, <2>2, <2>3, <2>4, TookChain DEF Types
<1>17. CASE PopFails
  BY <1>17, <1>same, <1>view DEF PopFails, Popping, UndoingPush
<1>undo. ASSUME NEW type \in Types, Undoing(type), ChangeDone,
                UNCHANGED <<tracking, mode, base, lost>>,
                lost = "no" => /\ Last(snaps).levels = levels'
                               /\ Last(snaps).input = (pulled \o src)'
         PROVE  UndoChain'
  <2>1. mode = "restore" /\ log # <<>>
    BY <1>undo DEF Undoing
  <2>2. lost = "no" => View' = Last(snaps)
    BY <1>undo, <2>1, LastViewType, ViewEquals
  <2> QED
    BY <1>undo, <2>1, <2>2, ChangeDoneChain
<1>18. CASE UndoTokenPop
  <2>1. /\ Undoing("TSCN_TOKEN_POP") /\ ChangeDone
        /\ UNCHANGED <<pulled, src, tracking, mode, base, lost>>
        /\ levels # <<>> => levels' = OnHead(Last(log).toks, levels)
    BY <1>18 DEF UndoTokenPop
  <2>2. lost = "no" => /\ Last(snaps).levels = levels'
                       /\ Last(snaps).input = (pulled \o src)'
    BY <2>1, UndoingFinds DEF Undoing
  <2> QED
    BY <2>1, <2>2, <1>undo DEF Types
<1>19. CASE UndoTokenNext
  <2>1. /\ Undoing("TSCN_TOKEN_NEXT") /\ ChangeDone
        /\ UNCHANGED <<levels, src, tracking, mode, base, lost>>
        /\ pulled' = Last(log).toks \o pulled
    BY <1>19 DEF UndoTokenNext
  <2>2. Last(log).toks \in Seq(Token)
    BY <2>1, LastToks DEF Undoing
  <2>3. (Last(log).toks \o pulled) \o src = Last(log).toks \o (pulled \o src)
    <3>1. pulled \in Seq(Token) /\ src \in Seq(Token)
      BY DEF TypeOK
    <3>2. \A r \in Seq(Token) : (r \o pulled) \o src = r \o (pulled \o src)
      BY <3>1, Assoc
    <3> QED
      BY <2>2, <3>2
  <2>4. lost = "no" => /\ Last(snaps).levels = levels
                       /\ Last(snaps).input = Last(log).toks \o (pulled \o src)
    BY <2>1, UndoingFinds DEF Undoing
  <2>5. lost = "no" => /\ Last(snaps).levels = levels'
                       /\ Last(snaps).input = (pulled \o src)'
    BY <2>1, <2>3, <2>4
  <2> QED
    BY <2>1, <2>5, <1>undo DEF Types
<1>20. CASE UndoLevelPop
  <2>1. /\ Undoing("TSCN_LEVEL_POP") /\ ChangeDone
        /\ UNCHANGED <<pulled, src, tracking, mode, base, lost>>
        /\ levels' = <<Last(log).toks>> \o levels
    BY <1>20 DEF UndoLevelPop
  <2>2. lost = "no" => /\ Last(snaps).levels = levels'
                       /\ Last(snaps).input = (pulled \o src)'
    BY <2>1, UndoingFinds DEF Undoing
  <2> QED
    BY <2>1, <2>2, <1>undo DEF Types
<1>21. CASE UndoLevelPush
  <2>1. /\ Undoing("TSCN_LEVEL_PUSH") /\ ChangeDone
        /\ UNCHANGED <<pulled, src, tracking, mode, base, lost>>
        /\ levels' = Tail(levels)
    BY <1>21 DEF UndoLevelPush
  <2>2. lost = "no" => /\ Last(snaps).levels = levels'
                       /\ Last(snaps).input = (pulled \o src)'
    BY <2>1, UndoingFinds DEF Undoing
  <2> QED
    BY <2>1, <2>2, <1>undo DEF Types
<1>22. CASE RestoreFails
  BY <1>22, <1>same, <1>view DEF RestoreFails, Undoing
<1>23. CASE RestoreThroughNull
  BY <1>23, <1>same, <1>view DEF RestoreThroughNull, Undoing
<1>24. CASE RestoreDone
  <2>1. mode = "restore" /\ mode' = "run" /\ UNCHANGED tracking
    BY <1>24 DEF RestoreDone
  <2>2. ~tracking'
    BY <2>1 DEF LogWhileSaved, TypeOK
  <2> QED
    BY <2>1, <2>2 DEF UndoChain
<1>25. CASE UNCHANGED vars
  BY <1>25, <1>same, <1>view DEF vars
<1> QED
  BY <1>1, <1>2, <1>3, <1>4, <1>5, <1>6, <1>7, <1>8, <1>9, <1>10, <1>11,
     <1>12, <1>13, <1>14, <1>15, <1>16, <1>17, <1>18, <1>19, <1>20, <1>21,
     <1>22, <1>23, <1>24, <1>25 DEF Next, Loop

-----------------------------------------------------------------------------
(* Failures need a lack of memory. *)

LEMMA FailStep ==
    TypeOK /\ LogWhileSaved /\ UndoChain /\ UndoNeverFails /\ [Next]_vars
        => UndoNeverFails'
<1> SUFFICES ASSUME TypeOK, LogWhileSaved, UndoChain, UndoNeverFails,
                    [Next]_vars, ~MallocMayFail
             PROVE  lost' = "no" /\ mode' \notin {"failed", "crashed"}
  BY DEF UndoNeverFails
<1>n. lost = "no" /\ mode \notin {"failed", "crashed"}
  BY DEF UndoNeverFails
<1>1. ASSUME NEW t \in Token, Push(t) \/ PushOnNoLevel(t)
      PROVE  UNCHANGED <<lost, mode>>
  BY <1>1 DEF Push, PushOnNoLevel
<1>2. CASE PushThroughNull \/ PushLevel \/ PopLevel \/ Peek \/ Save \/ Discard
  BY <1>2, <1>n
     DEF PushThroughNull, PushLevel, PopLevel, Peek, Save, Discard
<1>3. CASE BeginPop \/ BeginRestore \/ Free
  BY <1>3, <1>n DEF BeginPop, BeginRestore, Free
<1>4. CASE DropEmptyLevel \/ DropEmptyLevelUnlogged
  BY <1>4, <1>n DEF DropEmptyLevel, DropEmptyLevelUnlogged
<1>5. ASSUME NEW t, NEW type, NEW read, Took(t, type, read)
      PROVE  lost' = "no" /\ mode' \notin {"failed", "crashed"}
  BY <1>5, <1>n DEF Took, HandOut, HandOutFails, UndoingPush
<1>6. CASE PopPushed \/ PopPulled \/ PopNext
  BY <1>5, <1>6 DEF PopPushed, PopPulled, PopNext
<1>7. CASE PopFails
  <2>1. levels = <<>> /\ Popping /\ lost' = lost
        /\ mode' = IF mode = "pop" THEN "run" ELSE "failed"
    BY <1>7 DEF PopFails
  <2>2. ~UndoingPush
    BY <2>1, <1>n, UndoingFinds DEF UndoingPush
  <2> QED
    BY <2>1, <2>2, <1>n DEF Popping
<1>8. CASE UndoTokenPop \/ UndoTokenNext \/ UndoLevelPop \/ UndoLevelPush
  BY <1>8, <1>n DEF UndoTokenPop, UndoTokenNext, UndoLevelPop, UndoLevelPush
<1>9. CASE RestoreFails
  <2>1. Undoing("TSCN_LEVEL_PUSH") /\ levels = <<>>
    BY <1>9 DEF RestoreFails
  <2> QED
    BY <2>1, <1>n, UndoingFinds DEF Undoing
<1>10. CASE RestoreThroughNull
  BY <1>10 DEF RestoreThroughNull
<1>11. CASE RestoreDone
  BY <1>11, <1>n DEF RestoreDone
<1>12. CASE UNCHANGED vars
  BY <1>12, <1>n DEF vars
<1> QED
  BY <1>1, <1>2, <1>3, <1>4, <1>6, <1>7, <1>8, <1>9, <1>10, <1>11, <1>12, <1>n
     DEF Next, Loop

-----------------------------------------------------------------------------

(* What was pushed is still on the stack. *)

Bare(c) ==
    c.type \in {"TSCN_TOKEN_PUSH", "TSCN_LEVEL_PUSH"} => c.toks = <<>>

LEMMA AppendBare ==
    ASSUME NEW cs \in Seq(Changes), \A i \in DOMAIN cs : Bare(cs[i]),
           NEW c \in Changes, Bare(c)
    PROVE  \A i \in DOMAIN Append(cs, c) : Bare(Append(cs, c)[i])
<1>1. /\ DOMAIN cs = 1..Len(cs) /\ Len(cs) \in Nat
      /\ DOMAIN Append(cs, c) = 1..Len(cs) + 1
      /\ Append(cs, c)[Len(cs) + 1] = c
      /\ \A i \in 1..Len(cs) : Append(cs, c)[i] = cs[i]
  BY AppendFacts
<1> SUFFICES ASSUME NEW i \in 1..Len(cs) + 1 PROVE Bare(Append(cs, c)[i])
  BY <1>1
<1>2. CASE i = Len(cs) + 1
  BY <1>1, <1>2
<1>3. CASE i # Len(cs) + 1
  <2>1. i \in 1..Len(cs)
    BY <1>1, <1>3
  <2> QED BY <1>1, <2>1
<1> QED BY <1>2, <1>3

LEMMA PushChangeBare ==
    ASSUME TypeOK, PushesAreBare, NEW c \in Changes, PushChange(c), Bare(c)
    PROVE  PushesAreBare'
<1>1. log \in Seq(Changes) /\ \A i \in DOMAIN log : Bare(log[i])
  BY DEF TypeOK, PushesAreBare, Bare
<1>2. CASE tracking
  <2>1. log' = Append(log, c)
    BY <1>2 DEF PushChange
  <2>2. \A i \in DOMAIN log' : Bare(log'[i])
    BY <1>1, <2>1, AppendBare
  <2> QED BY <2>2 DEF PushesAreBare, Bare
<1>3. CASE ~tracking
  BY <1>3 DEF PushChange, PushesAreBare
<1> QED BY <1>2, <1>3

LEMMA FrontBare ==
    ASSUME TypeOK, PushesAreBare, log # <<>>, log' = Front(log)
    PROVE  PushesAreBare'
<1>1. /\ log \in Seq(Changes) /\ DOMAIN log = 1..Len(log) /\ Len(log) \in Nat
      /\ DOMAIN log' = 1..Len(log) - 1
      /\ \A i \in 1..Len(log) - 1 : log'[i] = log[i]
  <2>1. log \in Seq(Changes)
    BY DEF TypeOK
  <2>2. Front(log) \in Seq(Changes) /\ Len(Front(log)) = Len(log) - 1
        /\ \A i \in 1..Len(log) - 1 : Front(log)[i] = log[i]
    BY <2>1, LastFront
  <2> QED BY <2>1, <2>2
<1>2. \A i \in 1..Len(log) - 1 : i \in 1..Len(log)
  BY <1>1
<1> QED BY <1>1, <1>2 DEF PushesAreBare

LEMMA BareStep ==
    ASSUME TypeOK, PushesAreBare, [Next]_vars
    PROVE  PushesAreBare'
<1>e. <<>> \in Seq(Token)
  OBVIOUS
<1>l. log' = log \/ log' = <<>> => PushesAreBare'
  BY DEF PushesAreBare
<1>1. ASSUME NEW t \in Token, Push(t) PROVE PushesAreBare'
  BY <1>1, <1>e, ChangeType, PushChangeBare DEF Push, Change, Bare, Types
<1>2. ASSUME NEW t \in Token, PushOnNoLevel(t) PROVE PushesAreBare'
  <2> DEFINE c == Change("TSCN_LEVEL_PUSH", <<>>)
             d == Change("TSCN_TOKEN_PUSH", <<>>)
  <2>1. c \in Changes /\ d \in Changes /\ Bare(c) /\ Bare(d)
    BY <1>e, ChangeType DEF Change, Bare, Types
  <2>2. CASE ~tracking
    BY <1>2, <2>2, <1>l DEF PushOnNoLevel
  <2>3. CASE tracking
    <3>1. log' = Append(Append(log, c), d)
      BY <1>2, <2>3 DEF PushOnNoLevel
    <3>2. log \in Seq(Changes) /\ \A i \in DOMAIN log : Bare(log[i])
      BY DEF TypeOK, PushesAreBare, Bare
    <3> HIDE DEF c, d
    <3> DEFINE mid == Append(log, c)
    <3>3. mid \in Seq(Changes) /\ \A i \in DOMAIN mid : Bare(mid[i])
      BY <2>1, <3>2, AppendBare, AppendFacts
    <3>4. \A i \in DOMAIN log' : Bare(log'[i])
      <4> HIDE DEF mid
      <4>1. \A i \in DOMAIN Append(mid, d) : Bare(Append(mid, d)[i])
        BY <2>1, <3>3, AppendBare
      <4> QED BY <4>1, <3>1 DEF mid
    <3> QED BY <3>4 DEF PushesAreBare, Bare
  <2> QED BY <2>2, <2>3
<1>3. CASE PushLevel
  BY <1>3, <1>e, ChangeType, PushChangeBare DEF PushLevel, Change, Bare, Types
<1>4. CASE PopLevel
  <2>1. Head(levels) \in Seq(Token)
    BY <1>4, HeadTail DEF PopLevel, TypeOK
  <2> QED BY <1>4, <2>1, ChangeType, PushChangeBare
          DEF PopLevel, Change, Bare, Types
<1>5. CASE DropEmptyLevel
  BY <1>5, <1>e, ChangeType, PushChangeBare
     DEF DropEmptyLevel, Change, Bare, Types
<1>6. ASSUME NEW t \in Token, NEW type \in {"TSCN_TOKEN_POP", "TSCN_TOKEN_NEXT"},
             NEW read, Took(t, type, read)
      PROVE  PushesAreBare'
  <2>1. CASE PushChange(Change(type, <<t>>))
    <3>1. <<t>> \in Seq(Token) /\ type \in Types
      BY DEF Types
    <3>2. Change(type, <<t>>) \in Changes /\ Bare(Change(type, <<t>>))
      BY <3>1, ChangeType DEF Change, Bare
    <3> QED BY <2>1, <3>2, PushChangeBare
  <2>2. CASE UndoingPush /\ log' = Front(log)
    BY <2>2, FrontBare DEF UndoingPush
  <2>3. CASE log' = log
    BY <2>3, <1>l
  <2> QED BY <1>6, <2>1, <2>2, <2>3 DEF Took, HandOut, HandOutFails
<1>7. CASE PopPushed
  <2>1. Head(Head(levels)) \in Token
    BY <1>7, HeadTail DEF PopPushed, TypeOK
  <2> QED BY <1>6, <1>7, <2>1 DEF PopPushed
<1>8. CASE PopPulled
  <2>1. Head(pulled) \in Token
    BY <1>8, HeadTail DEF PopPulled, TypeOK
  <2> QED BY <1>6, <1>8, <2>1 DEF PopPulled
<1>9. CASE PopNext
  <2>1. Head(src) \in Token
    BY <1>9, HeadTail DEF PopNext, TypeOK
  <2> QED BY <1>6, <1>9, <2>1 DEF PopNext
<1>10. CASE UndoTokenPop \/ UndoTokenNext \/ UndoLevelPop \/ UndoLevelPush
  BY <1>10, FrontBare DEF UndoTokenPop, UndoTokenNext, UndoLevelPop,
                          UndoLevelPush, Undoing, ChangeDone
<1>11. CASE PushThroughNull \/ BeginPop \/ Peek \/ Save \/ BeginRestore
  BY <1>11, <1>l DEF PushThroughNull, BeginPop, Peek, Save, BeginRestore
<1>12. CASE DropEmptyLevelUnlogged \/ PopFails \/ RestoreFails
            \/ RestoreThroughNull \/ RestoreDone
  BY <1>12, <1>l DEF DropEmptyLevelUnlogged, PopFails, RestoreFails,
                     RestoreThroughNull, RestoreDone
<1>13. CASE Discard \/ Free
  BY <1>13, <1>l DEF Discard, Free
<1>14. CASE UNCHANGED vars
  BY <1>14, <1>l DEF vars
<1> QED
  BY <1>1, <1>2, <1>3, <1>4, <1>5, <1>7, <1>8, <1>9, <1>10, <1>11, <1>12,
     <1>13, <1>14 DEF Next, Loop

-----------------------------------------------------------------------------

(* The log is at all times a chain of undos from what the stack is back to *)
(* what was saved, it is empty when nothing is saved, and without a lack   *)
(* of memory no change is lost and no undo fails: for any tokens, programs *)
(* and bounds.                                                             *)
THEOREM LogIsSound == Spec => []IInv
<1>1. Init => IInv
  <2> SUFFICES ASSUME Init PROVE IInv
    OBVIOUS
  <2>1. /\ <<>> \in Seq(Token) /\ <<<<>>>> \in Seq(Seq(Token))
        /\ <<>> \in Seq(Seq(Token)) /\ <<>> \in Seq(Changes)
        /\ <<>> \in Seq(Views)
    OBVIOUS
  <2>2. TypeOK
    BY <2>1, InputsAssumption DEF Init, TypeOK
  <2> QED
    BY <2>2
    DEF Init, IInv, UndoChain, LogWhileSaved, UndoNeverFails, PushesAreBare
<1>2. IInv /\ [Next]_vars => IInv'
  BY TypeStep, ChainStep, LogStep, FailStep, BareStep DEF IInv
<1> QED
  BY <1>1, <1>2, PTL DEF Spec

(* tst_restore_state, when it ends and no change was lost to a lack of     *)
(* memory, gives back exactly the levels and the input of the save point.  *)
THEOREM RestoreIsExact == Spec => RestoreExact
<1>1. IInv /\ [Next]_vars
        => [mode = "restore" /\ mode' = "run" /\ lost = "no"
               => View' = base]_vars
  <2> SUFFICES ASSUME IInv, Next, mode = "restore", mode' = "run", lost = "no"
               PROVE  View' = base
    OBVIOUS
  <2>1. CASE RestoreDone
    <3>1. log = <<>> /\ View' = View
      BY <2>1 DEF RestoreDone, View
    <3>2. base = View
      BY <3>1 DEF IInv, UndoChain, Chained
    <3> QED
      BY <3>1, <3>2
  <2>2. ASSUME NEW t, NEW type, NEW read, Took(t, type, read) PROVE FALSE
    BY <2>2 DEF Took, HandOut, HandOutFails, UndoingPush
  <2>3. CASE PopPushed \/ PopPulled \/ PopNext
    BY <2>2, <2>3 DEF PopPushed, PopPulled, PopNext
  <2>4. CASE Loop
    BY <2>1, <2>3, <2>4
       DEF Loop, DropEmptyLevel, DropEmptyLevelUnlogged, PopFails,
           UndoTokenPop, UndoTokenNext, UndoLevelPop, UndoLevelPush,
           RestoreFails, RestoreThroughNull
  <2>5. ASSUME NEW t \in Token, Push(t) \/ PushOnNoLevel(t) PROVE FALSE
    BY <2>5 DEF Push, PushOnNoLevel
  <2>6. CASE PushThroughNull \/ PushLevel \/ PopLevel \/ BeginPop \/ Peek
             \/ Save \/ Discard \/ BeginRestore \/ Free
    BY <2>6 DEF PushThroughNull, PushLevel, PopLevel, BeginPop, Peek, Save,
                Discard, BeginRestore, Free
  <2> QED
    BY <2>4, <2>5, <2>6 DEF Next
<1> QED
  BY <1>1, LogIsSound, PTL DEF Spec, RestoreExact

-----------------------------------------------------------------------------

LEMMA ViewParts == View.levels = levels /\ View.input = pulled \o src
  BY DEF View

(* What a step is for TokenStream when it leaves Now and Saved alone. *)
LEMMA Stutter == UNCHANGED <<Now, Saved>> => UNCHANGED TS!vars
  BY DEF TS!vars

Kept == lost' = "no" /\ mode' \notin {"failed", "crashed"}

(* A change that is lost stays lost. *)
LEMMA LostStaysLost ==
    ASSUME [Next]_vars, lost' = "no", TypeOK
    PROVE  lost = "no"
<1>1. CASE UNCHANGED vars
  BY <1>1 DEF vars
<1>2. CASE Next
  <2>1. ASSUME NEW t \in Token, Push(t) \/ PushOnNoLevel(t) PROVE lost = "no"
    BY <2>1 DEF Push, PushOnNoLevel
  <2>2. CASE PopPushed \/ PopPulled \/ PopNext
    BY <2>2 DEF PopPushed, PopPulled, PopNext, Took, HandOut, HandOutFails
  <2>3. CASE \/ DropEmptyLevel \/ DropEmptyLevelUnlogged \/ PopFails
             \/ UndoTokenPop \/ UndoTokenNext \/ UndoLevelPop
             \/ UndoLevelPush \/ RestoreFails \/ RestoreThroughNull
             \/ RestoreDone
    BY <2>3 DEF DropEmptyLevel, DropEmptyLevelUnlogged, PopFails,
                UndoTokenPop, UndoTokenNext, UndoLevelPop, UndoLevelPush,
                RestoreFails, RestoreThroughNull, RestoreDone
  <2>4. CASE PushThroughNull \/ PushLevel \/ PopLevel \/ BeginPop \/ Peek
             \/ Save \/ Discard \/ BeginRestore \/ Free
    BY <2>4 DEF PushThroughNull, PushLevel, PopLevel, BeginPop, Peek, Save,
                Discard, BeginRestore, Free
  <2> QED
    BY <1>2, <2>1, <2>2, <2>3, <2>4 DEF Next, Loop
<1> QED
  BY <1>1, <1>2

LEMMA TokenStreamStep ==
    IInv /\ IInv' /\ [Next]_vars => [Kept => TS!Next]_(TS!vars)
<1> SUFFICES ASSUME IInv, IInv', [Next]_vars, Kept
             PROVE  TS!Next \/ UNCHANGED TS!vars
  OBVIOUS
<1> USE DEF IInv
<1>n. lost' = "no" /\ mode' \notin {"failed", "crashed"} /\ lost = "no"
  BY LostStaysLost DEF Kept
<1>view. ASSUME mode # "restore", mode' # "restore"
         PROVE  /\ Now.levels = levels /\ Now.levels' = levels'
                /\ Now.input = pulled \o src
                /\ Now.input' = pulled' \o src'
                /\ View = Now
                /\ TS!View = View
  BY <1>view, ViewParts DEF Now, View, TS!View
<1>pop. ASSUME mode = "pop" \/ mode = "run", mode' = "run" \/ mode' = "pop",
               UNCHANGED <<tracking, base>>
        PROVE  /\ Now.levels = levels /\ Now.levels' = levels'
               /\ Now.input = pulled \o src
               /\ Now.input' = pulled' \o src'
               /\ Saved' = Saved
  BY <1>pop, ViewParts DEF Now, View, Saved
<1>undo. ASSUME mode = "restore", mode' = "restore", UNCHANGED <<tracking, base>>
         PROVE  UNCHANGED TS!vars
  BY <1>undo, Stutter DEF Now, Saved
<1>1. ASSUME NEW t \in Token, Push(t) PROVE TS!Next
  <2>1. /\ levels # <<>> /\ levels' = OnHead(<<t>>, levels) /\ mode = "run"
        /\ UNCHANGED <<pulled, src, tracking, mode, base>>
    BY <1>1 DEF Push
  <2>2. /\ Now.levels = levels /\ Now.levels' = levels'
        /\ Now.input' = Now.input /\ Saved' = Saved
    BY <2>1, <1>pop
  <2>3. TS!Push(t)
    BY <2>1, <2>2 DEF TS!Push, OnHead
  <2> QED
    BY <2>3 DEF TS!Next
<1>2. ASSUME NEW t \in Token, PushOnNoLevel(t) PROVE TS!Next
  <2>1. /\ levels = <<>> /\ levels' = <<<<t>>>> /\ mode = "run"
        /\ UNCHANGED <<pulled, src, tracking, mode, base>>
    BY <1>2 DEF PushOnNoLevel
  <2>2. /\ Now.levels = levels /\ Now.levels' = levels'
        /\ Now.input' = Now.input /\ Saved' = Saved
    BY <2>1, <1>pop
  <2>3. TS!Push(t)
    BY <2>1, <2>2 DEF TS!Push
  <2> QED
    BY <2>3 DEF TS!Next
<1>3. CASE PushThroughNull \/ DropEmptyLevelUnlogged \/ RestoreThroughNull
  BY <1>3, <1>n DEF PushThroughNull, DropEmptyLevelUnlogged,
                    RestoreThroughNull
<1>4. CASE PushLevel
  <2>1. /\ levels' = <<<<>>>> \o levels /\ mode = "run"
        /\ UNCHANGED <<pulled, src, tracking, mode, base>>
    BY <1>4 DEF PushLevel
  <2>2. /\ Now.levels = levels /\ Now.levels' = levels'
        /\ Now.input' = Now.input /\ Saved' = Saved
    BY <2>1, <1>pop
  <2>3. TS!PushLevel
    BY <2>1, <2>2 DEF TS!PushLevel
  <2> QED
    BY <2>3 DEF TS!Next
<1>5. CASE PopLevel
  <2>1. /\ levels # <<>> /\ levels' = Tail(levels) /\ mode = "run"
        /\ UNCHANGED <<pulled, src, tracking, mode, base>>
    BY <1>5 DEF PopLevel
  <2>2. /\ Now.levels = levels /\ Now.levels' = levels'
        /\ Now.input' = Now.input /\ Saved' = Saved
    BY <2>1, <1>pop
  <2>3. TS!PopLevel
    BY <2>1, <2>2 DEF TS!PopLevel
  <2> QED
    BY <2>3 DEF TS!Next
<1>6. CASE BeginPop
  <2>1. /\ mode = "run" /\ mode' = "pop"
        /\ UNCHANGED <<levels, pulled, src, tracking, base>>
    BY <1>6 DEF BeginPop
  <2> QED
    BY <2>1, Stutter DEF Now, Saved, View
<1>7. CASE Peek
  <2>1. /\ mode = "run" /\ pulled = <<>> /\ src # <<>>
        /\ pulled' = <<Head(src)>> /\ src' = Tail(src)
        /\ UNCHANGED <<levels, tracking, mode, base>>
    BY <1>7 DEF Peek
  <2>2. <<Head(src)>> \o Tail(src) = src /\ <<>> \o src = src
    BY <2>1, HeadTail DEF TypeOK
  <2> QED
    BY <2>1, <2>2, Stutter DEF Now, Saved, View
<1>8. CASE Save
  <2>1. /\ mode = "run" /\ tracking' = TRUE
        /\ base' = IF tracking THEN base ELSE View
        /\ UNCHANGED <<levels, pulled, src, mode>>
    BY <1>8 DEF Save
  <2>2. CASE tracking
    BY <2>1, <2>2, Stutter DEF Now, Saved, View
  <2>3. CASE ~tracking
    <3>1. /\ Now.levels' = Now.levels /\ Now.input' = Now.input
          /\ Saved = NoSave /\ Saved' = View /\ TS!View = View
      BY <2>1, <2>3, <1>view DEF Saved
    <3>2. TS!Save
      BY <3>1 DEF TS!Save
    <3> QED
      BY <3>2 DEF TS!Next
  <2> QED
    BY <2>2, <2>3
<1>9. CASE Discard
  <2>1. /\ mode = "run" /\ tracking' = FALSE
        /\ UNCHANGED <<levels, pulled, src, mode>>
    BY <1>9 DEF Discard
  <2>2. /\ Now.levels' = Now.levels /\ Now.input' = Now.input
        /\ Saved' = NoSave
    BY <2>1, <1>view DEF Saved
  <2>3. TS!Discard
    BY <2>2 DEF TS!Discard
  <2> QED
    BY <2>3 DEF TS!Next
<1>10. CASE BeginRestore
  <2>1. /\ tracking /\ tracking' = FALSE /\ mode' = "restore" /\ base' = base
    BY <1>10 DEF BeginRestore
  <2>2. Saved = base /\ Saved' = NoSave /\ base # NoSave
    BY <2>1, NoSaveAssumption DEF Saved, LogWhileSaved
  <2>3. Now.levels' = base.levels /\ Now.input' = base.input
    BY <2>1 DEF Now
  <2>4. TS!Restore
    BY <2>2, <2>3 DEF TS!Restore
  <2> QED
    BY <2>4 DEF TS!Next
<1>11. CASE Free
  <2>1. /\ mode # "restore" /\ mode' = "freed" /\ levels' = <<>>
        /\ pulled' = <<>> /\ src' = src /\ tracking' = FALSE
    BY <1>11, <1>n DEF Free
  <2>2. /\ Now.levels' = <<>> /\ Now.input = pulled \o src
        /\ Now.input' = src /\ Saved' = NoSave
    BY <2>1, <1>view DEF Saved, TypeOK
  <2>3. /\ Len(pulled) \in 0..Len(pulled \o src)
        /\ src = SubSeq(pulled \o src, Len(pulled) + 1, Len(pulled \o src))
    <3>1. pulled \in Seq(Token) /\ src \in Seq(Token)
      BY DEF TypeOK
    <3> QED
      BY <3>1
  <2>4. TS!End
    BY <2>2, <2>3 DEF TS!End
  <2> QED
    BY <2>4 DEF TS!Next
<1>12. CASE DropEmptyLevel
  <2>1. /\ levels # <<>> /\ levels' = Tail(levels) /\ Popping
        /\ UNCHANGED <<pulled, src, tracking, mode, base>>
    BY <1>12 DEF DropEmptyLevel, NextLevelEmpty
  <2>2. CASE mode = "pop"
    <3>1. /\ Now.levels = levels /\ Now.levels' = levels'
          /\ Now.input' = Now.input /\ Saved' = Saved
      BY <2>1, <2>2, <1>pop
    <3>2. TS!PopLevel
      BY <2>1, <3>1 DEF TS!PopLevel
    <3> QED
      BY <3>2 DEF TS!Next
  <2>3. CASE UndoingPush
    BY <2>1, <2>3, <1>undo DEF UndoingPush
  <2> QED
    BY <2>1, <2>2, <2>3 DEF Popping
<1>took. ASSUME NEW t, NEW type, NEW read, Took(t, type, read)
         PROVE  \/ mode = "pop" /\ mode' = "run"
                \/ mode = "restore" /\ mode' = "restore"
  BY <1>took DEF Took, HandOut, HandOutFails, UndoingPush
<1>14. CASE PopPushed
  <2>1. /\ levels # <<>> /\ Head(levels) # <<>>
        /\ levels' = <<Tail(Head(levels))>> \o Tail(levels)
        /\ Took(Head(Head(levels)), "TSCN_TOKEN_POP", 0)
        /\ UNCHANGED <<pulled, src, tracking, base>>
    BY <1>14 DEF PopPushed
  <2>2. CASE mode = "pop" /\ mode' = "run"
    <3>1. /\ Now.levels = levels /\ Now.levels' = levels'
          /\ Now.input' = Now.input /\ Saved' = Saved
      BY <2>1, <2>2, <1>pop
    <3>2. TS!PopPushed
      BY <2>1, <3>1 DEF TS!PopPushed
    <3> QED
      BY <3>2 DEF TS!Next
  <2> QED
    BY <2>1, <2>2, <1>took, <1>undo
<1>15. CASE PopPulled \/ PopNext
  <2>1. PICK t \in Token, type \in {"TSCN_TOKEN_NEXT"}, read \in {0, 1} :
           /\ levels = <<>> /\ Took(t, type, read)
           /\ UNCHANGED <<levels, tracking, base>>
           /\ \/ pulled # <<>> /\ pulled' = Tail(pulled) /\ src' = src
              \/ /\ pulled = <<>> /\ src # <<>>
                 /\ src' = Tail(src) /\ pulled' = pulled
    <3>1. CASE PopPulled
      <4>1. Head(pulled) \in Token
        BY <3>1, HeadTail DEF PopPulled, TypeOK
      <4> QED
        BY <3>1, <4>1 DEF PopPulled
    <3>2. CASE PopNext
      <4>1. Head(src) \in Token
        BY <3>2, HeadTail DEF PopNext, TypeOK
      <4> QED
        BY <3>2, <4>1 DEF PopNext
    <3> QED
      BY <1>15, <3>1, <3>2
  <2>2. CASE mode = "pop" /\ mode' = "run"
    <3>1. /\ Now.levels = <<>> /\ Now.levels' = Now.levels
          /\ Now.input = pulled \o src /\ Now.input' = pulled' \o src'
          /\ Saved' = Saved
      BY <2>1, <2>2, <1>pop
    <3>2. pulled \o src # <<>> /\ pulled' \o src' = Tail(pulled \o src)
      <4>1. pulled \in Seq(Token) /\ src \in Seq(Token)
        BY DEF TypeOK
      <4>2. CASE pulled # <<>> /\ pulled' = Tail(pulled) /\ src' = src
        BY <4>1, <4>2, TailOfConcat
      <4>3. CASE pulled = <<>> /\ src # <<>> /\ src' = Tail(src)
                 /\ pulled' = pulled
        <5>1. <<>> \o src = src /\ <<>> \o Tail(src) = Tail(src)
          BY <4>1, EmptyConcat
        <5> QED
          BY <4>3, <5>1
      <4> QED
        BY <2>1, <4>2, <4>3
    <3>3. TS!PopInput
      BY <3>1, <3>2 DEF TS!PopInput
    <3> QED
      BY <3>3 DEF TS!Next
  <2> QED
    BY <2>1, <2>2, <1>took, <1>undo
<1>17. CASE PopFails
  <2>1. /\ Popping /\ mode' = IF mode = "pop" THEN "run" ELSE "failed"
        /\ UNCHANGED <<levels, pulled, src, tracking, base>>
    BY <1>17 DEF PopFails
  <2>2. mode = "pop" /\ mode' = "run"
    BY <2>1, <1>n
  <2> QED
    BY <2>1, <2>2, Stutter DEF Now, Saved, View
<1>18. CASE UndoTokenPop \/ UndoTokenNext \/ UndoLevelPop \/ UndoLevelPush
  BY <1>18, <1>undo DEF UndoTokenPop, UndoTokenNext, UndoLevelPop,
                        UndoLevelPush, Undoing
<1>22. CASE RestoreFails
  BY <1>22, <1>n DEF RestoreFails
<1>24. CASE RestoreDone
  <2>1. /\ mode = "restore" /\ mode' = "run" /\ log = <<>>
        /\ UNCHANGED <<levels, pulled, src, tracking>>
    BY <1>24 DEF RestoreDone
  <2>2. base = View /\ ~tracking
    BY <1>n, <2>1 DEF UndoChain, Chained, LogWhileSaved, TypeOK
  <2>3. UNCHANGED <<Now, Saved>>
    BY <2>1, <2>2 DEF Now, Saved, View
  <2> QED
    BY <2>3, Stutter
<1>25. CASE UNCHANGED vars
  BY <1>25, Stutter DEF vars, Now, Saved, View
<1> QED
  BY <1>1, <1>2, <1>3, <1>4, <1>5, <1>6, <1>7, <1>8, <1>9, <1>10, <1>11,
     <1>12, <1>14, <1>15, <1>17, <1>18, <1>22, <1>24, <1>25 DEF Next, Loop

(* Until a change is lost, the log of token_stack.c is as good as a        *)
(* snapshot of the whole stack: it implements TokenStream.                 *)
THEOREM LogIsASnapshot == Spec => Implements
<1>1. Init => TS!Init
  <2> SUFFICES ASSUME Init PROVE TS!Init
    OBVIOUS
  <2>1. /\ levels \in {<<<<>>>>, <<>>} /\ pulled = <<>> /\ src \in Inputs
        /\ mode = "run" /\ ~tracking
    BY DEF Init
  <2>2. Now.levels = levels /\ Now.input = src /\ Saved = NoSave
    <3>1. <<>> \o src = src
      BY <2>1, InputsAssumption
    <3> QED
      BY <2>1, <3>1 DEF Now, View, Saved
  <2> QED
    BY <2>1, <2>2 DEF TS!Init
<1>2. IInv /\ IInv' /\ [Next]_vars => [Kept => TS!Next]_(TS!vars)
  BY TokenStreamStep
<1> QED
  BY <1>1, <1>2, LogIsSound, PTL DEF Spec, Implements, Kept

-----------------------------------------------------------------------------
(* The texts: how many there are in what the stack holds.                  *)

LEMMA TextsFacts ==
    ASSUME NEW ls \in Seq(Seq(Token)), NEW l \in Seq(Token)
    PROVE  /\ Texts(ls) \in Nat
           /\ Texts(<<>>) = 0
           /\ Texts(<<l>> \o ls) = Len(l) + Texts(ls)
           /\ Texts(Append(ls, l)) = Texts(ls) + Len(l)
<1>1. FlattenSeq(ls) \in Seq(Token)
  BY FlattenType
<1>2. FlattenSeq(<<l>> \o ls) = l \o FlattenSeq(ls)
  BY FlattenFirst
<1>3. FlattenSeq(Append(ls, l)) = FlattenSeq(ls) \o l
  BY FlattenLast
<1>4. FlattenSeq(<<>>) = <<>>
  BY DEF FlattenSeq
<1>5. \A q \in Seq(Token) : /\ Len(l \o q) = Len(l) + Len(q)
                            /\ Len(q \o l) = Len(q) + Len(l)
                            /\ Len(q) \in Nat
  OBVIOUS
<1> QED BY <1>1, <1>2, <1>3, <1>4, <1>5 DEF Texts

(* A stack that is not empty, and what tst_push makes of it. *)
LEMMA TextsHead ==
    ASSUME NEW ls \in Seq(Seq(Token)), ls # <<>>
    PROVE  /\ Head(ls) \in Seq(Token) /\ Tail(ls) \in Seq(Seq(Token))
           /\ Texts(Tail(ls)) \in Nat
           /\ Texts(ls) = Len(Head(ls)) + Texts(Tail(ls))
<1>1. /\ Head(ls) \in Seq(Token) /\ Tail(ls) \in Seq(Seq(Token))
      /\ <<Head(ls)>> \o Tail(ls) = ls
  <2> DEFINE T == Seq(Token)
  <2>1. ls \in Seq(T)
    OBVIOUS
  <2> HIDE DEF T
  <2>2. Head(ls) \in T /\ Tail(ls) \in Seq(T) /\ <<Head(ls)>> \o Tail(ls) = ls
    BY <2>1, HeadTail
  <2> QED BY <2>2 DEF T
<1>2. /\ Texts(Tail(ls)) \in Nat
      /\ Texts(<<Head(ls)>> \o Tail(ls)) = Len(Head(ls)) + Texts(Tail(ls))
  BY <1>1, TextsFacts
<1> QED BY <1>1, <1>2

LEMMA TextsOnHead ==
    ASSUME NEW ls \in Seq(Seq(Token)), ls # <<>>, NEW toks \in Seq(Token)
    PROVE  Texts(OnHead(toks, ls)) = Len(toks) + Texts(ls)
<1>1. /\ Head(ls) \in Seq(Token) /\ Tail(ls) \in Seq(Seq(Token))
      /\ Texts(Tail(ls)) \in Nat
      /\ Texts(ls) = Len(Head(ls)) + Texts(Tail(ls))
  BY TextsHead
<1>2. /\ toks \o Head(ls) \in Seq(Token)
      /\ Len(toks \o Head(ls)) = Len(toks) + Len(Head(ls))
      /\ Len(toks) \in Nat /\ Len(Head(ls)) \in Nat
  BY <1>1
<1>3. Texts(<<toks \o Head(ls)>> \o Tail(ls))
         = Len(toks \o Head(ls)) + Texts(Tail(ls))
  BY <1>1, <1>2, TextsFacts
<1> QED BY <1>1, <1>2, <1>3 DEF OnHead

(* What the changes of some types hold, one change more. *)
Held(c, types) == IF c.type \in types THEN c.toks ELSE <<>>

LEMMA TextsOfAppend ==
    ASSUME NEW cs \in Seq(Changes), NEW c \in Changes, NEW types
    PROVE  /\ TextsOf(cs, types) \in Nat
           /\ TextsOf(<<>>, types) = 0
           /\ TextsOf(Append(cs, c), types)
                 = TextsOf(cs, types) + Len(Held(c, types))
<1> DEFINE n == Len(cs)
           ds == Append(cs, c)
           hs == [i \in DOMAIN cs |-> Held(cs[i], types)]
           gs == [i \in DOMAIN ds |-> Held(ds[i], types)]
<1>1. /\ n \in Nat /\ DOMAIN cs = 1 .. n /\ DOMAIN ds = 1 .. n + 1
      /\ ds[n + 1] = c /\ \A i \in 1 .. n : ds[i] = cs[i]
      /\ \A i \in 1 .. n : cs[i] \in Changes
  BY AppendFacts
<1>2. \A d \in Changes : Held(d, types) \in Seq(Token)
  BY DEF Held, Changes
<1>3. hs \in Seq(Seq(Token)) /\ Len(hs) = n
      /\ \A i \in 1 .. n : hs[i] = Held(cs[i], types)
  BY <1>1, <1>2
<1>4. gs = Append(hs, Held(c, types))
  <2>1. Held(c, types) \in Seq(Token)
    BY <1>2
  <2>2. /\ Append(hs, Held(c, types)) \in Seq(Seq(Token))
        /\ Len(Append(hs, Held(c, types))) = n + 1
        /\ Append(hs, Held(c, types))[n + 1] = Held(c, types)
        /\ \A i \in 1 .. n : Append(hs, Held(c, types))[i] = hs[i]
    <3> DEFINE T == Seq(Token)
    <3>1. hs \in Seq(T) /\ Held(c, types) \in T
      BY <1>3, <2>1
    <3> HIDE DEF T, hs
    <3>2. /\ Append(hs, Held(c, types)) \in Seq(T)
          /\ Len(Append(hs, Held(c, types))) = Len(hs) + 1
          /\ Append(hs, Held(c, types))[Len(hs) + 1] = Held(c, types)
          /\ \A i \in 1 .. Len(hs) : Append(hs, Held(c, types))[i] = hs[i]
      BY <3>1, AppendFacts
    <3> QED BY <1>3, <3>2 DEF T
  <2>3. /\ gs \in Seq(Seq(Token)) /\ Len(gs) = n + 1
        /\ \A i \in 1 .. n + 1 : gs[i] = Held(ds[i], types)
    <3>1. \A i \in 1 .. n + 1 : ds[i] \in Changes
      BY <1>1
    <3> QED BY <1>1, <1>2, <3>1
  <2>4. \A i \in 1 .. n + 1 : gs[i] = Append(hs, Held(c, types))[i]
    <3> SUFFICES ASSUME NEW i \in 1 .. n + 1
                 PROVE  gs[i] = Append(hs, Held(c, types))[i]
      OBVIOUS
    <3> HIDE DEF gs, hs, ds
    <3>1. CASE i = n + 1
      BY <1>1, <2>2, <2>3, <3>1
    <3>2. CASE i # n + 1
      <4>1. i \in 1 .. n
        BY <1>1, <3>2
      <4> QED BY <1>1, <1>3, <2>2, <2>3, <4>1
    <3> QED BY <3>1, <3>2
  <2> HIDE DEF gs, hs, ds
  <2> DEFINE m == n + 1
             as == Append(hs, Held(c, types))
  <2>5. gs = [i \in 1 .. m |-> gs[i]] /\ as = [i \in 1 .. m |-> as[i]]
    <3>1. /\ gs \in Seq(Seq(Token)) /\ Len(gs) = m
          /\ as \in Seq(Seq(Token)) /\ Len(as) = m
      BY <2>2, <2>3
    <3>2. \A T : \A q \in Seq(T) : q = [i \in 1 .. Len(q) |-> q[i]]
      OBVIOUS
    <3> HIDE DEF m, as
    <3> QED BY <3>1, <3>2
  <2>6. \A i \in 1 .. m : gs[i] = as[i]
    BY <2>4
  <2> HIDE DEF m, as
  <2> QED BY <2>5, <2>6 DEF as
<1>5. Texts(hs) = TextsOf(cs, types) /\ Texts(gs) = TextsOf(ds, types)
  BY DEF TextsOf, Held
<1>6. Texts(hs) \in Nat /\ Texts(<<>>) = 0
      /\ Texts(Append(hs, Held(c, types))) = Texts(hs) + Len(Held(c, types))
  <2>1. Held(c, types) \in Seq(Token)
    BY <1>2
  <2> HIDE DEF hs
  <2> QED BY <1>3, <2>1, TextsFacts
<1>7. TextsOf(<<>>, types) = Texts(<<>>)
  <2>1. [i \in DOMAIN <<>> |-> IF <<>>[i].type \in types THEN <<>>[i].toks ELSE <<>>] = <<>>
    OBVIOUS
  <2> QED BY <2>1 DEF TextsOf
<1> QED BY <1>4, <1>5, <1>6, <1>7

LEMMA TextsOfLast ==
    ASSUME NEW cs \in Seq(Changes), cs # <<>>, NEW types
    PROVE  TextsOf(cs, types)
              = TextsOf(Front(cs), types) + Len(Held(Last(cs), types))
<1>1. Front(cs) \in Seq(Changes) /\ Last(cs) \in Changes
  BY LastFront
<1>2. Append(Front(cs), Last(cs)) = cs
  <2> DEFINE n == Len(cs)
             as == Append(Front(cs), Last(cs))
  <2>1. n \in Nat /\ n >= 1
    OBVIOUS
  <2>2. /\ Len(Front(cs)) = n - 1 /\ Last(cs) = cs[n]
        /\ \A i \in 1..n - 1 : Front(cs)[i] = cs[i]
    BY LastFront
  <2>3. /\ as \in Seq(Changes) /\ Len(as) = n
        /\ as[n] = cs[n] /\ \A i \in 1..n - 1 : as[i] = cs[i]
    BY <1>1, <2>1, <2>2, AppendFacts
  <2> HIDE DEF as
  <2>4. \A i \in 1 .. n : as[i] = cs[i]
    <3> HIDE DEF n
    <3>1. \A i \in 1 .. n : i = n \/ i \in 1 .. n - 1
      BY <2>1
    <3> QED BY <2>3, <3>1
  <2>5. cs \in Seq(Changes) /\ Len(cs) = n
    OBVIOUS
  <2>6. \A T : \A q \in Seq(T) : q = [i \in 1 .. Len(q) |-> q[i]]
    OBVIOUS
  <2> HIDE DEF n
  <2>7. as = [i \in 1 .. n |-> as[i]] /\ cs = [i \in 1 .. n |-> cs[i]]
    BY <2>3, <2>5, <2>6
  <2> QED BY <2>4, <2>7 DEF as
<1>3. TextsOf(Append(Front(cs), Last(cs)), types)
         = TextsOf(Front(cs), types) + Len(Held(Last(cs), types))
  BY <1>1, TextsOfAppend
<1> QED BY <1>2, <1>3

(* The log holds what is pushed on it, and loses what is done with. *)
LEMMA LogTextsPushed ==
    ASSUME TypeOK, NEW type \in Types, NEW toks \in Seq(Token),
           PushChange(Change(type, toks))
    PROVE  LogTexts(log') = LogTexts(log) + (IF tracking THEN Len(toks) ELSE 0)
<1> DEFINE c == Change(type, toks)
<1>1. c \in Changes /\ c.toks = toks /\ c.type \in Types
  BY ChangeType DEF Change
<1>2. log \in Seq(Changes) /\ LogTexts(log) \in Nat
  BY <1>1, TextsOfAppend DEF TypeOK, LogTexts
<1>3. CASE tracking
  <2>1. log' = Append(log, c)
    BY <1>3 DEF PushChange
  <2>2. TextsOf(Append(log, c), Types) = TextsOf(log, Types) + Len(Held(c, Types))
    BY <1>1, <1>2, TextsOfAppend
  <2> QED BY <1>1, <1>3, <2>1, <2>2 DEF LogTexts, Held
<1>4. CASE ~tracking
  BY <1>2, <1>4 DEF PushChange
<1> QED BY <1>3, <1>4

LEMMA LogTextsDone ==
    ASSUME TypeOK, PushesAreBare, log # <<>>, log' = Front(log)
    PROVE  /\ LogTexts(log) = LogTexts(log') + Len(Last(log).toks)
           /\ Last(log).type \in {"TSCN_TOKEN_PUSH", "TSCN_LEVEL_PUSH"}
                  => Len(Last(log).toks) = 0
<1>1. log \in Seq(Changes)
  BY DEF TypeOK
<1>2. Last(log) \in Changes /\ Last(log) = log[Len(log)] /\ Len(log) \in DOMAIN log
  BY <1>1, LastFront
<1>3. Held(Last(log), Types) = Last(log).toks
  BY <1>2 DEF Held, Changes
<1>4. TextsOf(log, Types)
         = TextsOf(Front(log), Types) + Len(Held(Last(log), Types))
  BY <1>1, TextsOfLast
<1>5. Last(log).type \in {"TSCN_TOKEN_PUSH", "TSCN_LEVEL_PUSH"}
         => Last(log).toks = <<>>
  BY <1>2 DEF PushesAreBare
<1>6. Len(<<>>) = 0
  OBVIOUS
<1> QED BY <1>3, <1>4, <1>5, <1>6 DEF LogTexts

LEMMA LogTextsBare ==
    ASSUME TypeOK, NEW type \in Types, PushChange(Change(type, <<>>))
    PROVE  LogTexts(log') = LogTexts(log)
<1>1. <<>> \in Seq(Token) /\ Len(<<>>) = 0
  OBVIOUS
<1>2. LogTexts(log) \in Nat
  <2>1. Change(type, <<>>) \in Changes
    BY <1>1, ChangeType
  <2> QED BY <2>1, TextsOfAppend DEF TypeOK, LogTexts
<1>3. LogTexts(log')
         = LogTexts(log) + (IF tracking THEN Len(<<>>) ELSE 0)
  BY <1>1, LogTextsPushed
<1> HIDE DEF LogTexts
<1> QED BY <1>1, <1>2, <1>3

(* The modes in which a token text has its owner. *)
Sound(m) == m \in {"run", "pop", "restore"}

LEMMA SoundBefore ==
    ASSUME [Next]_vars, Sound(mode')
    PROVE  Sound(mode)
<1>1. ASSUME NEW t \in Token, Push(t) \/ PushOnNoLevel(t) PROVE Sound(mode)
  BY <1>1 DEF Push, PushOnNoLevel, Sound
<1>2. CASE PopPushed \/ PopPulled \/ PopNext
  BY <1>2 DEF PopPushed, PopPulled, PopNext, Popping, UndoingPush, Sound
<1>3. CASE \/ DropEmptyLevel \/ DropEmptyLevelUnlogged \/ PopFails
           \/ UndoTokenPop \/ UndoTokenNext \/ UndoLevelPop
           \/ UndoLevelPush \/ RestoreFails \/ RestoreThroughNull
           \/ RestoreDone
  BY <1>3 DEF DropEmptyLevel, DropEmptyLevelUnlogged, PopFails, Popping,
              UndoingPush, Undoing, UndoTokenPop, UndoTokenNext, UndoLevelPop,
              UndoLevelPush, RestoreFails, RestoreThroughNull, RestoreDone,
              Sound
<1>4. CASE PushThroughNull \/ PushLevel \/ PopLevel \/ BeginPop \/ Peek
           \/ Save \/ Discard \/ BeginRestore
  BY <1>4 DEF PushThroughNull, PushLevel, PopLevel, BeginPop, Peek, Save,
              Discard, BeginRestore, Sound
<1>5. CASE Free
  BY <1>5 DEF Free, Sound
<1>6. CASE UNCHANGED vars
  BY <1>6 DEF vars, Sound
<1> QED BY <1>1, <1>2, <1>3, <1>4, <1>5, <1>6 DEF Next, Loop

(* What the stack has to free. *)
Owed == Texts(levels) + Len(pulled) + LogTexts(log)

LEMMA OwedParts ==
    ASSUME TypeOK
    PROVE  /\ Texts(levels) \in Nat /\ Len(pulled) \in Nat
           /\ LogTexts(log) \in Nat
<1>1. <<>> \in Seq(Token)
  OBVIOUS
<1>2. Change("TSCN_TOKEN_PUSH", <<>>) \in Changes
  BY <1>1, ChangeType DEF Types
<1>3. Texts(levels) \in Nat
  BY <1>1, TextsFacts DEF TypeOK
<1>4. LogTexts(log) \in Nat
  BY <1>2, TextsOfAppend DEF TypeOK, LogTexts
<1>5. Len(pulled) \in Nat
  BY DEF TypeOK
<1> QED BY <1>3, <1>4, <1>5

(* The end of tst_pop: t is off its list, and read tokens have been added. *)
LEMMA TookOwes ==
    ASSUME TypeOK, LogWhileSaved, PushesAreBare, NEW t \in Token,
           NEW type \in Types, NEW read \in Nat, owned \in Int,
           Took(t, type, read), lost' = "no"
    PROVE  /\ owned' \in Int /\ LogTexts(log') \in Nat
           /\ owned' = owned + LogTexts(log') - LogTexts(log) + read - 1
<1>1. <<t>> \in Seq(Token) /\ Len(<<t>>) = 1
  OBVIOUS
<1>2. LogTexts(log) \in Nat
  BY OwedParts
<1>3. CASE /\ mode = "pop"
           /\ PushChange(Change(type, <<t>>))
           /\ owned' = IF tracking THEN owned + read ELSE owned + read - 1
  <2>1. LogTexts(log') = LogTexts(log) + (IF tracking THEN 1 ELSE 0)
    BY <1>1, <1>3, LogTextsPushed
  <2> QED BY <1>2, <1>3, <2>1
<1>4. CASE UndoingPush /\ log' = Front(log) /\ owned' = owned + read - 1
  <2>1. LogTexts(log) = LogTexts(log') + Len(Last(log).toks)
        /\ Len(Last(log).toks) = 0
    BY <1>4, LogTextsDone DEF UndoingPush
  <2>2. LogTexts(log') \in Nat
    <3>1. log' \in Seq(Changes)
      BY <1>4, FrontType DEF TypeOK
    <3>2. Change(type, <<t>>) \in Changes
      BY <1>1, ChangeType
    <3> QED BY <3>1, <3>2, TextsOfAppend DEF LogTexts
  <2> QED BY <1>2, <1>4, <2>1, <2>2
<1> QED BY <1>3, <1>4 DEF Took, HandOut, HandOutFails

LEMMA OwnStep ==
    ASSUME IInv, TypeOK', TextsOwned, [Next]_vars, lost' = "no", Sound(mode')
    PROVE  owned' = Owed'
<1>i. TypeOK /\ LogWhileSaved /\ PushesAreBare
  BY DEF IInv
<1>o. owned = Owed
  BY <1>i, SoundBefore, LostStaysLost DEF TextsOwned, Sound, Owed
<1>n. /\ Texts(levels) \in Nat /\ Len(pulled) \in Nat /\ LogTexts(log) \in Nat
      /\ owned = Texts(levels) + Len(pulled) + LogTexts(log)
  BY <1>i, <1>o, OwedParts DEF Owed
<1>e. /\ <<>> \in Seq(Token) /\ Len(<<>>) = 0
      /\ \A t \in Token : <<t>> \in Seq(Token) /\ Len(<<t>>) = 1
  OBVIOUS
<1>l. levels \in Seq(Seq(Token)) /\ pulled \in Seq(Token) /\ src \in Seq(Token)
  BY <1>i DEF TypeOK
<1>m. LogTexts(<<>>) = 0 /\ Texts(<<>>) = 0
  <2>1. Change("TSCN_TOKEN_PUSH", <<>>) \in Changes
    BY <1>e, ChangeType DEF Types
  <2>2. <<>> \in Seq(Changes)
    OBVIOUS
  <2> QED BY <1>e, <1>l, <2>1, <2>2, TextsOfAppend, TextsFacts DEF LogTexts
<1>t. ASSUME NEW t \in Token, NEW type \in Types, NEW read \in Nat,
             Took(t, type, read)
      PROVE  /\ owned' \in Int /\ LogTexts(log') \in Nat
             /\ owned' = owned + LogTexts(log') - LogTexts(log) + read - 1
  <2>1. owned \in Int
    BY <1>n
  <2> QED BY <1>i, <1>t, <2>1, TookOwes
<1>s. ASSUME UNCHANGED <<levels, pulled, log, owned>> PROVE owned' = Owed'
  BY <1>n, <1>s DEF Owed
<1>1. ASSUME NEW t \in Token, Push(t) PROVE owned' = Owed'
  <2>1. LogTexts(log') = LogTexts(log)
    BY <1>1, <1>i, LogTextsBare DEF Push, Types
  <2>2. Texts(levels') = 1 + Texts(levels)
    BY <1>1, <1>e, <1>l, TextsOnHead DEF Push
  <2>3. owned' = owned + 1 /\ pulled' = pulled
    BY <1>1 DEF Push
  <2> QED BY <1>n, <2>1, <2>2, <2>3 DEF Owed
<1>2. ASSUME NEW t \in Token, PushOnNoLevel(t) PROVE owned' = Owed'
  <2> DEFINE c == Change("TSCN_LEVEL_PUSH", <<>>)
             d == Change("TSCN_TOKEN_PUSH", <<>>)
  <2>1. LogTexts(log') = LogTexts(log)
    <3>1. c \in Changes /\ d \in Changes /\ c.toks = <<>> /\ d.toks = <<>>
      BY <1>e, ChangeType DEF Change, Types
    <3>2. Held(c, Types) = <<>> /\ Held(d, Types) = <<>>
      BY <3>1 DEF Held
    <3>3. CASE tracking
      <4>1. log' = Append(Append(log, c), d) /\ log \in Seq(Changes)
        BY <1>2, <1>i, <3>3 DEF PushOnNoLevel, TypeOK
      <4> HIDE DEF c, d
      <4>2. Append(log, c) \in Seq(Changes)
        BY <3>1, <4>1, AppendFacts
      <4>3. TextsOf(Append(log, c), Types) = TextsOf(log, Types) + 0
        BY <1>e, <3>1, <3>2, <4>1, TextsOfAppend
      <4>4. TextsOf(Append(Append(log, c), d), Types)
               = TextsOf(Append(log, c), Types) + 0
        BY <1>e, <3>1, <3>2, <4>2, TextsOfAppend
      <4> QED BY <1>n, <4>1, <4>3, <4>4 DEF LogTexts
    <3>4. CASE ~tracking
      BY <1>2, <3>4 DEF PushOnNoLevel
    <3> QED BY <3>3, <3>4
  <2>2. levels = <<>> /\ levels' = <<<<t>>>> /\ owned' = owned + 1
        /\ pulled' = pulled
    BY <1>2 DEF PushOnNoLevel
  <2>3. Texts(levels') = 1
    <3>1. <<>> \in Seq(Seq(Token)) /\ <<<<t>>>> = <<<<t>>>> \o <<>>
      OBVIOUS
    <3>2. Texts(<<<<t>>>> \o <<>>) = Len(<<t>>) + Texts(<<>>)
      BY <1>e, <3>1, TextsFacts
    <3> QED BY <1>e, <1>m, <2>2, <3>1, <3>2
  <2>4. Texts(levels) = 0
    BY <1>m, <2>2
  <2> QED BY <1>n, <2>1, <2>2, <2>3, <2>4 DEF Owed
<1>3. CASE PushLevel
  <2>1. LogTexts(log') = LogTexts(log)
    BY <1>3, <1>i, LogTextsBare DEF PushLevel, Types
  <2>2. Texts(levels') = Texts(levels)
    <3>1. Texts(<<<<>>>> \o levels) = Len(<<>>) + Texts(levels)
      BY <1>e, <1>l, TextsFacts
    <3> QED BY <1>3, <1>e, <1>n, <3>1 DEF PushLevel
  <2>3. owned' = owned /\ pulled' = pulled
    BY <1>3 DEF PushLevel
  <2> QED BY <1>n, <2>1, <2>2, <2>3 DEF Owed
<1>4. CASE PopLevel
  <2>1. /\ Head(levels) \in Seq(Token)
        /\ Texts(Tail(levels)) \in Nat
        /\ Texts(levels) = Len(Head(levels)) + Texts(Tail(levels))
    BY <1>4, <1>l, TextsHead DEF PopLevel
  <2>2. LogTexts(log')
           = LogTexts(log) + (IF tracking THEN Len(Head(levels)) ELSE 0)
    BY <1>4, <1>i, <2>1, LogTextsPushed DEF PopLevel, Types
  <2>3. /\ levels' = Tail(levels) /\ pulled' = pulled
        /\ owned' = IF tracking THEN owned ELSE owned - Len(Head(levels))
    BY <1>4 DEF PopLevel
  <2>4. Len(Head(levels)) \in Nat
    BY <2>1
  <2> DEFINE k == Len(Head(levels))
             m == Texts(Tail(levels))
             lt == LogTexts(log)
  <2>5. Owed' = m + Len(pulled) + LogTexts(log')
    BY <2>3 DEF Owed
  <2>6. CASE tracking
    <3>1. LogTexts(log') = lt + k /\ owned' = owned
      BY <2>2, <2>3, <2>6
    <3>2. owned = k + m + Len(pulled) + lt
      BY <1>n, <2>1
    <3>3. k \in Nat /\ m \in Nat /\ lt \in Nat /\ Len(pulled) \in Nat
      BY <1>n, <2>1, <2>4
    <3> HIDE DEF k, m, lt
    <3> QED BY <2>5, <3>1, <3>2, <3>3
  <2>7. CASE ~tracking
    <3>1. LogTexts(log') = lt /\ owned' = owned - k
      BY <1>n, <2>2, <2>3, <2>7
    <3>2. owned = k + m + Len(pulled) + lt
      BY <1>n, <2>1
    <3>3. k \in Nat /\ m \in Nat /\ lt \in Nat /\ Len(pulled) \in Nat
      BY <1>n, <2>1, <2>4
    <3> HIDE DEF k, m, lt
    <3> QED BY <2>5, <3>1, <3>2, <3>3
  <2> QED BY <2>6, <2>7
<1>5. CASE DropEmptyLevel
  <2>1. /\ Texts(Tail(levels)) \in Nat
        /\ Texts(levels) = Len(Head(levels)) + Texts(Tail(levels))
        /\ Head(levels) = <<>>
    BY <1>5, <1>l, TextsHead DEF DropEmptyLevel, NextLevelEmpty
  <2>2. LogTexts(log') = LogTexts(log)
    BY <1>5, <1>i, LogTextsBare DEF DropEmptyLevel, Types
  <2>3. levels' = Tail(levels) /\ UNCHANGED <<pulled, owned>>
    BY <1>5 DEF DropEmptyLevel
  <2> QED BY <1>n, <1>e, <2>1, <2>2, <2>3 DEF Owed
<1>6. CASE PopPushed
  <2>1. /\ levels # <<>> /\ Head(levels) # <<>>
        /\ levels' = <<Tail(Head(levels))>> \o Tail(levels)
        /\ Took(Head(Head(levels)), "TSCN_TOKEN_POP", 0)
        /\ pulled' = pulled
    BY <1>6 DEF PopPushed
  <2>2. /\ Head(levels) \in Seq(Token) /\ Tail(levels) \in Seq(Seq(Token))
        /\ Texts(Tail(levels)) \in Nat
        /\ Texts(levels) = Len(Head(levels)) + Texts(Tail(levels))
    BY <2>1, <1>l, TextsHead
  <2>3. /\ Head(Head(levels)) \in Token /\ Tail(Head(levels)) \in Seq(Token)
        /\ Len(Head(levels)) \in Nat
        /\ Len(Tail(Head(levels))) = Len(Head(levels)) - 1
    BY <2>1, <2>2
  <2>4. Texts(levels') = Len(Tail(Head(levels))) + Texts(Tail(levels))
    BY <2>1, <2>2, <2>3, TextsFacts
  <2>5. owned' = owned + LogTexts(log') - LogTexts(log) + 0 - 1
        /\ LogTexts(log') \in Nat
    BY <1>t, <2>1, <2>3 DEF Types
  <2> DEFINE k == Len(Head(levels))
             m == Texts(Tail(levels))
             p == Len(pulled)
             lt == LogTexts(log)
             ln == LogTexts(log')
  <2>6. Owed' = (k - 1) + m + p + ln
    BY <2>1, <2>3, <2>4 DEF Owed
  <2>7. owned = k + m + p + lt /\ owned' = owned + ln - lt + 0 - 1
    BY <1>n, <2>2, <2>5
  <2>8. /\ k \in Nat /\ m \in Nat /\ p \in Nat /\ lt \in Nat /\ ln \in Nat
    BY <1>n, <2>2, <2>3, <2>5
  <2> HIDE DEF k, m, p, lt, ln
  <2> QED BY <2>6, <2>7, <2>8
<1>7. CASE PopPulled
  <2>1. /\ pulled # <<>> /\ pulled' = Tail(pulled) /\ levels' = levels
        /\ Took(Head(pulled), "TSCN_TOKEN_NEXT", 0)
    BY <1>7 DEF PopPulled
  <2>2. Head(pulled) \in Token /\ Len(Tail(pulled)) = Len(pulled) - 1
    BY <2>1, <1>l
  <2>3. owned' = owned + LogTexts(log') - LogTexts(log) + 0 - 1
        /\ LogTexts(log') \in Nat
    BY <1>t, <2>1, <2>2 DEF Types
  <2> DEFINE m == Texts(levels)
             p == Len(pulled)
             lt == LogTexts(log)
             ln == LogTexts(log')
  <2>4. Owed' = m + (p - 1) + ln
    BY <2>1, <2>2 DEF Owed
  <2>5. owned = m + p + lt /\ owned' = owned + ln - lt + 0 - 1
    BY <1>n, <2>3
  <2>6. m \in Nat /\ p \in Nat /\ lt \in Nat /\ ln \in Nat
    BY <1>n, <2>3
  <2> HIDE DEF m, p, lt, ln
  <2> QED BY <2>4, <2>5, <2>6
<1>8. CASE PopNext
  <2>1. /\ src # <<>> /\ UNCHANGED <<levels, pulled>>
        /\ Took(Head(src), "TSCN_TOKEN_NEXT", 1)
    BY <1>8 DEF PopNext
  <2>2. Head(src) \in Token
    BY <2>1, <1>l
  <2>3. owned' = owned + LogTexts(log') - LogTexts(log) + 1 - 1
        /\ LogTexts(log') \in Nat
    BY <1>t, <2>1, <2>2 DEF Types
  <2> DEFINE m == Texts(levels)
             p == Len(pulled)
             lt == LogTexts(log)
             ln == LogTexts(log')
  <2>4. Owed' = m + p + ln
    BY <2>1 DEF Owed
  <2>5. owned = m + p + lt /\ owned' = owned + ln - lt + 1 - 1
    BY <1>n, <2>3
  <2>6. m \in Nat /\ p \in Nat /\ lt \in Nat /\ ln \in Nat
    BY <1>n, <2>3
  <2> HIDE DEF m, p, lt, ln
  <2> QED BY <2>4, <2>5, <2>6
<1>9. CASE Peek
  <2>1. /\ pulled = <<>> /\ pulled' = <<Head(src)>> /\ src # <<>>
        /\ owned' = owned + 1 /\ UNCHANGED <<levels, log>>
    BY <1>9 DEF Peek
  <2>2. Len(pulled) = 0 /\ Len(pulled') = 1
    BY <1>e, <1>l, <2>1
  <2> QED BY <1>n, <2>1, <2>2 DEF Owed
<1>10. ASSUME NEW type, Undoing(type), ChangeDone
       PROVE  /\ LogTexts(log) = LogTexts(log') + Len(Last(log).toks)
              /\ type \in {"TSCN_TOKEN_PUSH", "TSCN_LEVEL_PUSH"}
                    => Len(Last(log).toks) = 0
              /\ Last(log).toks \in Seq(Token) /\ Len(Last(log).toks) \in Nat
              /\ LogTexts(log') \in Nat
  <2>1. log # <<>> /\ log' = Front(log) /\ Last(log).type = type
    BY <1>10 DEF Undoing, ChangeDone
  <2>2. Last(log).toks \in Seq(Token)
    BY <1>i, <2>1, LastToks
  <2>3. LogTexts(log') \in Nat
    <3>1. log' \in Seq(Changes)
      BY <1>i, <2>1, FrontType DEF TypeOK
    <3>2. Change("TSCN_TOKEN_PUSH", <<>>) \in Changes
      BY <1>e, ChangeType DEF Types
    <3> QED BY <3>1, <3>2, TextsOfAppend DEF LogTexts
  <2>4. Len(Last(log).toks) \in Nat
    BY <2>2
  <2> QED BY <1>i, <2>1, <2>2, <2>3, <2>4, LogTextsDone
<1>11. ASSUME NEW type, Undoing(type), ChangeDone,
              Texts(levels') + Len(pulled')
                 = Texts(levels) + Len(pulled) + Len(Last(log).toks),
              Texts(levels') \in Nat, Len(pulled') \in Nat,
              owned' = owned
       PROVE  owned' = Owed'
  <2> DEFINE m == Texts(levels)
             p == Len(pulled)
             mn == Texts(levels')
             pn == Len(pulled')
             lt == LogTexts(log)
             ln == LogTexts(log')
             k == Len(Last(log).toks)
  <2>1. Owed' = mn + pn + ln
    BY DEF Owed
  <2>2. owned = m + p + lt /\ lt = ln + k /\ mn + pn = m + p + k
    BY <1>n, <1>10, <1>11
  <2>3. /\ m \in Nat /\ p \in Nat /\ mn \in Nat /\ pn \in Nat
        /\ lt \in Nat /\ ln \in Nat /\ k \in Nat
    BY <1>n, <1>10, <1>11
  <2>4. owned' = owned
    BY <1>11
  <2> HIDE DEF m, p, mn, pn, lt, ln, k
  <2> QED BY <2>1, <2>2, <2>3, <2>4
<1>12. CASE UndoTokenPop
  <2>1. /\ Undoing("TSCN_TOKEN_POP") /\ ChangeDone
        /\ UNCHANGED <<pulled, owned>>
        /\ levels' = IF levels = <<>> THEN <<Last(log).toks>>
                     ELSE OnHead(Last(log).toks, levels)
    BY <1>12 DEF UndoTokenPop
  <2>2. Last(log).toks \in Seq(Token) /\ Len(Last(log).toks) \in Nat
    BY <1>10, <2>1
  <2>3. Texts(levels') = Len(Last(log).toks) + Texts(levels)
    <3>1. CASE levels = <<>>
      <4>1. <<Last(log).toks>> = <<Last(log).toks>> \o <<>>
        OBVIOUS
      <4>2. Texts(<<Last(log).toks>> \o <<>>) = Len(Last(log).toks) + Texts(<<>>)
        BY <2>2, <1>l, <3>1, TextsFacts
      <4> QED BY <2>1, <3>1, <4>1, <4>2
    <3>2. CASE levels # <<>>
      BY <1>l, <2>1, <2>2, <3>2, TextsOnHead
    <3> QED BY <3>1, <3>2
  <2>4. /\ Texts(levels') + Len(pulled')
             = Texts(levels) + Len(pulled) + Len(Last(log).toks)
        /\ Texts(levels') \in Nat /\ Len(pulled') \in Nat
    BY <1>n, <2>1, <2>2, <2>3
  <2> QED BY <1>11, <2>1, <2>4
<1>13. CASE UndoTokenNext
  <2>1. /\ Undoing("TSCN_TOKEN_NEXT") /\ ChangeDone
        /\ UNCHANGED <<levels, owned>>
        /\ pulled' = Last(log).toks \o pulled
    BY <1>13 DEF UndoTokenNext
  <2>2. Last(log).toks \in Seq(Token) /\ Len(Last(log).toks) \in Nat
    BY <1>10, <2>1
  <2>3. Len(pulled') = Len(Last(log).toks) + Len(pulled)
    BY <1>l, <2>1, <2>2
  <2>4. /\ Texts(levels') + Len(pulled')
             = Texts(levels) + Len(pulled) + Len(Last(log).toks)
        /\ Texts(levels') \in Nat /\ Len(pulled') \in Nat
    BY <1>n, <2>1, <2>2, <2>3
  <2> QED BY <1>11, <2>1, <2>4
<1>14. CASE UndoLevelPop
  <2>1. /\ Undoing("TSCN_LEVEL_POP") /\ ChangeDone
        /\ UNCHANGED <<pulled, owned>>
        /\ levels' = <<Last(log).toks>> \o levels
    BY <1>14 DEF UndoLevelPop
  <2>2. Last(log).toks \in Seq(Token) /\ Len(Last(log).toks) \in Nat
    BY <1>10, <2>1
  <2>3. Texts(levels') = Len(Last(log).toks) + Texts(levels)
    BY <1>l, <2>1, <2>2, TextsFacts
  <2>4. /\ Texts(levels') + Len(pulled')
             = Texts(levels) + Len(pulled) + Len(Last(log).toks)
        /\ Texts(levels') \in Nat /\ Len(pulled') \in Nat
    BY <1>n, <2>1, <2>2, <2>3
  <2> QED BY <1>11, <2>1, <2>4
<1>15. CASE UndoLevelPush
  <2>1. /\ Undoing("TSCN_LEVEL_PUSH") /\ ChangeDone
        /\ levels # <<>> /\ levels' = Tail(levels)
        /\ owned' = owned - Len(Head(levels)) /\ pulled' = pulled
    BY <1>15 DEF UndoLevelPush
  <2>2. /\ Head(levels) \in Seq(Token)
        /\ Texts(Tail(levels)) \in Nat
        /\ Texts(levels) = Len(Head(levels)) + Texts(Tail(levels))
    BY <2>1, <1>l, TextsHead
  <2>3. LogTexts(log) = LogTexts(log') /\ LogTexts(log') \in Nat
    BY <1>10, <2>1
  <2> DEFINE k == Len(Head(levels))
             m == Texts(Tail(levels))
             p == Len(pulled)
             lt == LogTexts(log)
  <2>4. Owed' = m + p + lt
    BY <2>1, <2>3 DEF Owed
  <2>5. owned = k + m + p + lt /\ owned' = owned - k
    BY <1>n, <2>1, <2>2
  <2>6. k \in Nat /\ m \in Nat /\ p \in Nat /\ lt \in Nat
    BY <1>n, <2>2
  <2> HIDE DEF k, m, p, lt
  <2> QED BY <2>4, <2>5, <2>6
<1>16. CASE Discard
  <2>1. /\ log' = <<>> /\ owned' = owned - LogTexts(log)
        /\ UNCHANGED <<levels, pulled>>
    BY <1>16 DEF Discard
  <2> QED BY <1>n, <1>m, <2>1 DEF Owed
<1>17. CASE PushThroughNull \/ BeginPop \/ Save \/ BeginRestore
  BY <1>17, <1>s DEF PushThroughNull, BeginPop, Save, BeginRestore
<1>18. CASE PopFails \/ RestoreFails \/ RestoreThroughNull \/ RestoreDone
  BY <1>18, <1>s DEF PopFails, RestoreFails, RestoreThroughNull, RestoreDone
<1>19. CASE DropEmptyLevelUnlogged \/ Free
  BY <1>19 DEF DropEmptyLevelUnlogged, Free, Sound
<1>20. CASE UNCHANGED vars
  BY <1>20, <1>s DEF vars
<1> QED
  BY <1>1, <1>2, <1>3, <1>4, <1>5, <1>6, <1>7, <1>8, <1>9, <1>12, <1>13,
     <1>14, <1>15, <1>16, <1>17, <1>18, <1>19, <1>20 DEF Next, Loop

(* Every token text is in one place at a time, up to the first change that *)
(* memory was too short to log: in a level, in what was pulled from the    *)
(* tokenizer, or in the log; callers free what tst_pop gave them, and the  *)
(* undoing of a push frees what it takes, for any tokens and bounds.       *)
THEOREM EveryTextHasOneOwner == Spec => []TextsOwned
<1>1. Init => TextsOwned
  <2> SUFFICES ASSUME Init PROVE owned = Owed
    BY DEF TextsOwned, Owed
  <2>1. /\ <<>> \in Seq(Token) /\ <<>> \in Seq(Seq(Token))
        /\ <<>> \in Seq(Changes) /\ Len(<<>>) = 0 /\ <<<<>>>> = <<<<>>>> \o <<>>
    OBVIOUS
  <2>2. Change("TSCN_TOKEN_PUSH", <<>>) \in Changes
    BY <2>1, ChangeType DEF Types
  <2>3. LogTexts(<<>>) = 0
    BY <2>1, <2>2, TextsOfAppend DEF LogTexts
  <2>4. Texts(<<>>) = 0 /\ Texts(<<<<>>>> \o <<>>) = Len(<<>>) + Texts(<<>>)
    BY <2>1, TextsFacts
  <2>5. Texts(levels) = 0
    BY <2>1, <2>4 DEF Init
  <2> QED BY <2>1, <2>3, <2>5 DEF Init, Owed
<1>2. IInv /\ IInv' /\ TextsOwned /\ [Next]_vars => TextsOwned'
  BY OwnStep DEF IInv, TextsOwned, Sound, Owed
<1> QED BY <1>1, <1>2, LogIsSound, PTL DEF Spec

-----------------------------------------------------------------------------
(* What tst_free leaves. *)

(* A log holds what tst_free frees, and the copies it does not look at. *)
LEMMA TextsSplit ==
    ASSUME NEW cs \in Seq(Changes), \A i \in DOMAIN cs : Bare(cs[i])
    PROVE  LogTexts(cs) = TextsOf(cs, Freed) + TextsOf(cs, {"TSCN_TOKEN_NEXT"})
<1> DEFINE n == Len(cs)
           Next1 == {"TSCN_TOKEN_NEXT"}
           prefix(k) == [i \in 1 .. k |-> cs[i]]
           Split(q) == TextsOf(q, Types) = TextsOf(q, Freed) + TextsOf(q, Next1)
           Good == {k \in 0 .. n : Split(prefix(k))}
<1>1. /\ n \in Nat /\ cs = prefix(n)
      /\ \A i \in 1 .. n : cs[i] \in Changes /\ Bare(cs[i])
  OBVIOUS
<1> HIDE DEF n
<1>2. ASSUME NEW k \in 0 .. n PROVE prefix(k) \in Seq(Changes) /\ Len(prefix(k)) = k
  <2>1. k \in Nat /\ \A i \in 1 .. k : cs[i] \in Changes
    BY <1>1
  <2> QED BY <2>1
<1>3. 0 \in Good
  <2>1. prefix(0) = <<>> /\ 0 \in 0 .. n /\ <<>> \in Seq(Changes)
        /\ <<>> \in Seq(Token)
    BY <1>1
  <2>2. Change("TSCN_TOKEN_PUSH", <<>>) \in Changes
    BY <2>1, ChangeType DEF Types
  <2>3. \A types : TextsOf(<<>>, types) = 0
    BY <2>1, <2>2, TextsOfAppend
  <2>4. Split(<<>>)
    BY <2>3
  <2> QED BY <2>1, <2>4
<1>4. ASSUME NEW k \in 0 .. n - 1, k \in Good PROVE k + 1 \in Good
  <2>1. k + 1 \in 1 .. n /\ k + 1 \in 0 .. n /\ k \in 0 .. n
    BY <1>1
  <2> DEFINE q == prefix(k)
             c == cs[k + 1]
  <2>2. q \in Seq(Changes) /\ c \in Changes /\ Bare(c)
    BY <1>1, <1>2, <2>1
  <2>3. prefix(k + 1) = Append(q, c)
    <3> DEFINE m == k + 1
               p == prefix(m)
               as == Append(q, c)
    <3>1. p \in Seq(Changes) /\ Len(p) = m /\ \A i \in 1 .. m : p[i] = cs[i]
      BY <1>2, <2>1
    <3>2. /\ as \in Seq(Changes) /\ Len(as) = m /\ as[m] = cs[m]
          /\ \A i \in 1 .. k : as[i] = cs[i]
      BY <1>2, <2>1, <2>2, AppendFacts
    <3>3. \A i \in 1 .. m : i = m \/ i \in 1 .. k
      BY <2>1
    <3>4. \A T : \A r \in Seq(T) : r = [i \in 1 .. Len(r) |-> r[i]]
      OBVIOUS
    <3> HIDE DEF m, p, as
    <3>5. p = [i \in 1 .. m |-> p[i]] /\ as = [i \in 1 .. m |-> as[i]]
      BY <3>1, <3>2, <3>4
    <3>6. \A i \in 1 .. m : p[i] = as[i]
      BY <3>1, <3>2, <3>3
    <3> QED BY <3>5, <3>6 DEF m, p, as
  <2> HIDE DEF q, c, prefix
  <2>4. \A types : /\ TextsOf(Append(q, c), types)
                         = TextsOf(q, types) + Len(Held(c, types))
                   /\ TextsOf(q, types) \in Nat
    BY <2>2, TextsOfAppend
  <2>5. /\ Len(Held(c, Types)) = Len(Held(c, Freed)) + Len(Held(c, Next1))
        /\ Len(Held(c, Freed)) \in Nat /\ Len(Held(c, Next1)) \in Nat
    <3>1. /\ c.type \in Types /\ c.toks \in Seq(Token) /\ Len(<<>>) = 0
      BY <2>2 DEF Changes
    <3>2. Len(c.toks) \in Nat
      BY <3>1
    <3>3. CASE c.type \in Freed
      <4>1. Held(c, Types) = c.toks /\ Held(c, Freed) = c.toks
            /\ Held(c, Next1) = <<>>
        BY <3>1, <3>3 DEF Held, Freed
      <4> QED BY <3>1, <3>2, <4>1
    <3>4. CASE c.type = "TSCN_TOKEN_NEXT"
      <4>1. Held(c, Types) = c.toks /\ Held(c, Freed) = <<>>
            /\ Held(c, Next1) = c.toks
        BY <3>1, <3>4 DEF Held, Freed
      <4> QED BY <3>1, <3>2, <4>1
    <3>5. CASE c.type \in {"TSCN_TOKEN_PUSH", "TSCN_LEVEL_PUSH"}
      <4>1. Held(c, Types) = <<>> /\ Held(c, Freed) = <<>>
            /\ Held(c, Next1) = <<>>
        BY <2>2, <3>1, <3>5 DEF Held, Freed, Bare
      <4> QED BY <3>1, <4>1
    <3> QED BY <3>1, <3>3, <3>4, <3>5 DEF Types, Freed
  <2>6. Split(q)
    BY <1>4 DEF q
  <2>7. Split(Append(q, c))
    <3> HIDE DEF Next1
    <3>1. /\ TextsOf(q, Types) = TextsOf(q, Freed) + TextsOf(q, Next1)
      BY <2>6
    <3>2. /\ TextsOf(Append(q, c), Types)
                = TextsOf(q, Types) + Len(Held(c, Types))
          /\ TextsOf(Append(q, c), Freed)
                = TextsOf(q, Freed) + Len(Held(c, Freed))
          /\ TextsOf(Append(q, c), Next1)
                = TextsOf(q, Next1) + Len(Held(c, Next1))
          /\ TextsOf(q, Freed) \in Nat /\ TextsOf(q, Next1) \in Nat
      BY <2>4
    <3> QED BY <2>5, <3>1, <3>2
  <2> QED BY <2>1, <2>3, <2>7
<1>5. n \in Good
  <2> HIDE DEF Good
  <2>1. \A k \in 0 .. n : k \in Good
    BY <1>1, <1>3, <1>4, UpwardInduction
  <2> QED BY <1>1, <2>1
<1>6. Split(prefix(n))
  BY <1>5
<1> QED BY <1>1, <1>6 DEF LogTexts

(* tst_free frees every token text but the copies of the TSCN_TOKEN_NEXT   *)
(* changes of a save that was neither restored nor discarded: whatever was *)
(* pushed, popped, read, saved and restored before.                        *)
THEOREM FreeLeavesTheCopies == Spec => FreeLeaves
<1>1. IInv /\ TextsOwned /\ [Next]_vars
        => [mode = "run" /\ mode' = "freed" /\ lost = "no"
               => owned' = TextsOf(log, {"TSCN_TOKEN_NEXT"})]_vars
  <2> SUFFICES ASSUME IInv, TextsOwned, Next,
                      mode = "run", mode' = "freed", lost = "no"
               PROVE  owned' = TextsOf(log, {"TSCN_TOKEN_NEXT"})
    OBVIOUS
  <2>1. CASE Free
    <3> DEFINE x == Texts(levels)
               y == Len(pulled)
               f == TextsOf(log, Freed)
               g == TextsOf(log, {"TSCN_TOKEN_NEXT"})
               l == LogTexts(log)
    <3>1. owned = x + y + l /\ owned' = owned - x - y - f
      BY <2>1 DEF TextsOwned, Free
    <3>2. log \in Seq(Changes) /\ \A i \in DOMAIN log : Bare(log[i])
      BY DEF IInv, TypeOK, PushesAreBare, Bare
    <3>3. l = f + g
      BY <3>2, TextsSplit
    <3>4. x \in Nat /\ y \in Nat
      BY OwedParts DEF IInv
    <3>5. f \in Nat /\ g \in Nat
      <4>1. <<>> \in Seq(Token)
        OBVIOUS
      <4>2. Change("TSCN_TOKEN_PUSH", <<>>) \in Changes
        BY <4>1, ChangeType DEF Types
      <4> QED BY <3>2, <4>2, TextsOfAppend
    <3> HIDE DEF x, y, f, g, l
    <3>6. owned' = g
      BY <3>1, <3>3, <3>4, <3>5
    <3> QED BY <3>6 DEF g
  <2>2. CASE Loop
    <3>1. CASE PopPushed \/ PopPulled \/ PopNext
      BY <3>1 DEF PopPushed, PopPulled, PopNext, Popping, UndoingPush
    <3>2. CASE ~(PopPushed \/ PopPulled \/ PopNext)
      BY <2>2, <3>2
         DEF Loop, DropEmptyLevel, DropEmptyLevelUnlogged, PopFails, Popping,
             UndoingPush, Undoing, UndoTokenPop, UndoTokenNext, UndoLevelPop,
             UndoLevelPush, RestoreFails, RestoreThroughNull, RestoreDone
    <3> QED BY <3>1, <3>2
  <2>3. ASSUME NEW t \in Token, Push(t) \/ PushOnNoLevel(t) PROVE FALSE
    BY <2>3 DEF Push, PushOnNoLevel
  <2>4. CASE PushThroughNull \/ PushLevel \/ PopLevel \/ BeginPop \/ Peek
             \/ Save \/ Discard \/ BeginRestore
    BY <2>4 DEF PushThroughNull, PushLevel, PopLevel, BeginPop, Peek, Save,
                Discard, BeginRestore
  <2> QED BY <2>1, <2>2, <2>3, <2>4 DEF Next
<1> QED BY <1>1, LogIsSound, EveryTextHasOneOwner, PTL DEF Spec, FreeLeaves

=============================================================================
