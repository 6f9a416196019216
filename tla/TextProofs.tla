----------------------------- MODULE TextProofs -----------------------------
(***************************************************************************)
(* What is proved of texts: how the tokenizer reads them and the builder   *)
(* collects them, and who has them afterwards, in blocks, types and on the *)
(* token stack.                                                            *)
(*                                                                         *)
(* The second part sees the memory as one table of arrays with an owner    *)
(* each (Arrays), the texts in hand, and what the texts say.  Every        *)
(* function changes the array of one owner and touches no text of another  *)
(* (Change); that this keeps every text in one place (SingleStays), leaves *)
(* nothing behind (BracesStay) and is not noticed by the others            *)
(* (OthersStay) is shown once for all of them.  Each action is then such a *)
(* change, and a step of WordLists (Good).                                 *)
(***************************************************************************)
EXTENDS Blocks, Tokenizer, SequenceLemmas, FiniteSetTheorems

USE DEF Byte

(* The buffer holds the last characters that were read, and a fill is      *)
(* short only at the end of the file.                                      *)
SourceType ==
    /\ text \in Seq(Char)
    /\ is_from_file \in BOOLEAN
    /\ buf \in [1 .. BUF_SIZE -> Byte]
    /\ eof \in 0 .. BUF_SIZE
    /\ filled \in 0 .. Len(text)
    /\ pos \in Nat \ {0}
    /\ next_char \in Byte
    /\ broken \in BOOLEAN
    /\ is_from_file => pos <= BUF_SIZE

InBuffer ==
    /\ eof <= filled
    /\ eof < BUF_SIZE => filled = Len(text)
    /\ \A i \in 1 .. eof : buf[i] = text[filled - eof + i]
    /\ next_char = buf[pos]

InString ==
    /\ pos <= Len(text) + 1
    /\ pos <= Len(text) => next_char = text[pos]

SourceInv ==
    /\ SourceType
    /\ ~broken => IF is_from_file THEN InBuffer ELSE InString

LEMMA SourceStart == ASSUME SourceInit PROVE SourceInv
<1>1. text \in Seq(Char) /\ BUF_SIZE \in Nat \ {0} /\ Len(text) \in Nat
  BY SourceAssumption DEF SourceInit
<1>2. /\ \A i \in 1 .. Len(text) : text[i] \in Char
      /\ is_from_file \in BOOLEAN
  BY <1>1 DEF SourceInit
<1>b. broken = FALSE
  BY DEF SourceInit
<1>c. broken \in BOOLEAN
  BY <1>b
<1>3. CASE is_from_file
  <2>1. /\ filled \in 0 .. Len(text) /\ eof = filled /\ eof <= BUF_SIZE
        /\ eof < BUF_SIZE => filled = Len(text)
        /\ pos = 1 /\ broken = FALSE
    BY <1>1, <1>3 DEF SourceInit
  <2>2. buf = [i \in 1 .. BUF_SIZE |-> IF i <= eof THEN text[i] ELSE NUL]
    BY <1>3, <2>1 DEF SourceInit
  <2>3. buf \in [1 .. BUF_SIZE -> Byte]
    BY <1>1, <1>2, <2>1, <2>2
  <2>4. next_char = buf[1] /\ next_char \in Byte
    BY <1>1, <1>3, <2>3 DEF SourceInit
  <2>5. \A i \in 1 .. eof : buf[i] = text[filled - eof + i]
    BY <1>1, <2>1, <2>2
  <2>6. SourceType
    BY <1>1, <1>2, <1>c, <2>1, <2>3, <2>4 DEF SourceType
  <2>7. InBuffer
    BY <1>1, <2>1, <2>4, <2>5 DEF InBuffer
  <2>. QED
    BY <1>3, <2>6, <2>7 DEF SourceInv
<1>4. CASE ~is_from_file
  <2>1. /\ filled = 0 /\ eof = BUF_SIZE /\ pos = 1 /\ broken = FALSE
        /\ text # <<>> /\ next_char = text[1]
        /\ buf = [i \in 1 .. BUF_SIZE |-> NUL]
    BY <1>4 DEF SourceInit
  <2>2. Len(text) >= 1
    BY <1>1, <2>1
  <2>3. next_char \in Byte
    BY <1>1, <1>2, <2>1, <2>2
  <2>4. buf \in [1 .. BUF_SIZE -> Byte]
    BY <2>1
  <2>5. SourceType
    BY <1>1, <1>2, <1>4, <1>c, <2>1, <2>3, <2>4
    DEF SourceType
  <2>6. InString
    BY <1>1, <2>1, <2>2 DEF InString
  <2>. QED
    BY <1>4, <2>5, <2>6 DEF SourceInv
<1>. QED
  BY <1>3, <1>4 DEF SourceInit

(* What a fill of n characters puts into the buffer.                       *)
LEMMA FetchedBuffer ==
    ASSUME SourceType, NEW n \in Nat, n <= BUF_SIZE, filled + n <= Len(text)
    PROVE  /\ Fetched(n) \in [1 .. BUF_SIZE -> Byte]
           /\ \A i \in 1 .. n : Fetched(n)[i] = text[filled + i]
<1>1. BUF_SIZE \in Nat \ {0} /\ Len(text) \in Nat /\ filled \in Nat
  BY SourceAssumption DEF SourceType
<1>2. \A i \in 1 .. n : filled + i \in 1 .. Len(text)
  BY <1>1
<1>3. \A i \in 1 .. n : text[filled + i] \in Char
  BY <1>2 DEF SourceType
<1>4. \A i \in 1 .. BUF_SIZE : buf[i] \in Byte
  BY DEF SourceType
<1>5. \A i \in 1 .. BUF_SIZE :
           (IF i <= n THEN text[filled + i] ELSE buf[i]) \in Byte
  BY <1>1, <1>3, <1>4
<1>6. Fetched(n) \in [1 .. BUF_SIZE -> Byte]
  BY <1>5 DEF Fetched
<1>7. \A i \in 1 .. n : i \in 1 .. BUF_SIZE /\ i <= n
  BY <1>1
<1>8. \A i \in 1 .. n : Fetched(n)[i] = text[filled + i]
  BY <1>7 DEF Fetched
<1>. QED
  BY <1>6, <1>8

LEMMA AvailableBound ==
    ASSUME SourceType
    PROVE  /\ Available \in Nat
           /\ Available <= BUF_SIZE
           /\ filled + Available <= Len(text)
           /\ Available < BUF_SIZE => filled + Available = Len(text)
<1>1. BUF_SIZE \in Nat \ {0} /\ Len(text) \in Nat /\ filled \in 0 .. Len(text)
  BY SourceAssumption DEF SourceType
<1>. QED
  BY <1>1 DEF Available

LEMMA SourceStep ==
    ASSUME SourceInv, SourceNext \/ UNCHANGED source PROVE SourceInv'
<1>0. /\ BUF_SIZE \in Nat \ {0} /\ Len(text) \in Nat /\ SourceType
      /\ pos \in Nat /\ filled \in Nat /\ eof \in Nat
  BY SourceAssumption DEF SourceInv, SourceType
<1>1. CASE AdvanceString
  <2>1. /\ ~is_from_file /\ pos # Len(text) + 1
        /\ pos' = pos + 1
        /\ next_char' = IF pos < Len(text) THEN text[pos + 1] ELSE NUL
        /\ UNCHANGED <<text, is_from_file, buf, eof, filled, broken>>
    BY <1>1 DEF AdvanceString, tknr_end
  <2>2. next_char' \in Byte
    BY <1>0, <2>1 DEF SourceType
  <2>3. SourceType'
    BY <1>0, <2>1, <2>2 DEF SourceType
  <2>4. ~broken => InString'
    BY <1>0, <2>1 DEF SourceInv, InString
  <2>. QED  BY <2>1, <2>3, <2>4 DEF SourceInv
<1>2. CASE AdvanceInBuffer
  <2>1. /\ is_from_file /\ ~(eof < pos) /\ pos # BUF_SIZE
        /\ pos' = pos + 1
        /\ next_char' = buf[pos + 1]
        /\ UNCHANGED <<text, is_from_file, buf, eof, filled, broken>>
    BY <1>2 DEF AdvanceInBuffer, tknr_end
  <2>2. pos + 1 \in 1 .. BUF_SIZE
    BY <1>0, <2>1 DEF SourceType
  <2>3. SourceType'
    BY <1>0, <2>1, <2>2 DEF SourceType
  <2>4. ~broken => InBuffer'
    BY <1>0, <2>1 DEF SourceInv, InBuffer
  <2>. QED  BY <2>1, <2>3, <2>4 DEF SourceInv
<1>3. CASE Refill
  <2>1. /\ is_from_file
        /\ buf' = Fetched(Available) /\ eof' = Available
        /\ filled' = filled + Available /\ pos' = 1
        /\ next_char' = Fetched(Available)[1]
        /\ UNCHANGED <<text, is_from_file, broken>>
    BY <1>3 DEF Refill
  <2>2. /\ Available \in Nat /\ Available <= BUF_SIZE
        /\ filled + Available <= Len(text)
        /\ Available < BUF_SIZE => filled + Available = Len(text)
    BY <1>0, AvailableBound
  <2>3. /\ buf' \in [1 .. BUF_SIZE -> Byte]
        /\ \A i \in 1 .. eof' : buf'[i] = text[filled + i]
    BY <1>0, <2>1, <2>2, FetchedBuffer
  <2>4. next_char' = buf'[1] /\ next_char' \in Byte
    BY <1>0, <2>1, <2>3
  <2>5. SourceType'
    BY <1>0, <2>1, <2>2, <2>3, <2>4 DEF SourceType
  <2>6. \A i \in 1 .. eof' : buf'[i] = text'[filled' - eof' + i]
    BY <1>0, <2>1, <2>2, <2>3
  <2>7. InBuffer'
    BY <1>0, <2>1, <2>2, <2>4, <2>6 DEF InBuffer
  <2>. QED  BY <2>1, <2>5, <2>7 DEF SourceInv
<1>4. CASE ReadFails
  <2>1. PICK n \in 0 .. Available : buf' = Fetched(n) /\ filled' = filled + n
    BY <1>4 DEF ReadFails
  <2>2. /\ n \in Nat /\ n <= BUF_SIZE /\ filled + n <= Len(text)
    BY <1>0, <2>1, AvailableBound
  <2>3. buf' \in [1 .. BUF_SIZE -> Byte]
    BY <1>0, <2>1, <2>2, FetchedBuffer
  <2>4. /\ broken' = TRUE
        /\ UNCHANGED <<text, is_from_file, eof, pos, next_char>>
    BY <1>4 DEF ReadFails
  <2>. QED  BY <1>0, <2>1, <2>2, <2>3, <2>4 DEF SourceInv, SourceType
<1>5. CASE UNCHANGED source
  BY <1>5 DEF source, SourceInv, SourceType, InBuffer, InString
<1>. QED
  BY <1>1, <1>2, <1>3, <1>4, <1>5 DEF SourceNext, Advance

LEMMA InvReadsText == ASSUME SourceInv PROVE ReadsText
<1>1. /\ Len(text) \in Nat /\ BUF_SIZE \in Nat \ {0} /\ pos \in Nat \ {0}
      /\ filled \in 0 .. Len(text) /\ eof \in 0 .. BUF_SIZE
  BY SourceAssumption DEF SourceInv, SourceType
<1>2. CASE ~broken /\ is_from_file
  <2>1. /\ InBuffer /\ pos <= BUF_SIZE
        /\ Index = filled - eof + pos
    BY <1>2 DEF SourceInv, SourceType, Index
  <2>2. tknr_end <=> eof < pos
    BY <1>2 DEF tknr_end
  <2>3. eof < pos <=> filled - eof + pos > Len(text)
    BY <1>1, <2>1 DEF InBuffer
  <2>4. ~tknr_end => pos \in 1 .. eof
    BY <1>1, <2>2
  <2>. QED  BY <2>1, <2>2, <2>3, <2>4 DEF ReadsText, InBuffer
<1>3. CASE ~broken /\ ~is_from_file
  BY <1>1, <1>3 DEF SourceInv, ReadsText, Index, tknr_end, InString
<1>. QED
  BY <1>2, <1>3 DEF ReadsText

(* Whatever tknr_next does, it moves in the text by single characters.     *)
LEMMA NextReads == ASSUME TknrNext PROVE SourceNext \/ UNCHANGED source
  BY DEF TknrNext, Call, SkipWs, SkipComment, Spaced, EndComment, SkipFails,
         Between, NotSeparated, NothingLeft, Begin, BeginFails, Beginning,
         Take, TakeNoMemory, TakeNoNext, Negative, NegativeFails, PlainWord,
         Deliver, DeliverFails, Malformed, Skip, CannotSkip, SourceNext

(* At every moment, the character that the tokenizer holds is the one at   *)
(* its place in the text, or it is at the end and knows it, for files of   *)
(* every length and buffers of every size (get_next_char_file, 83-100).    *)
THEOREM TextIsRead == TknrSpec => []ReadsText
<1>1. TknrInit => SourceInv
  BY SourceStart DEF TknrInit
<1>2. SourceInv /\ [TknrNext]_tknr_vars => SourceInv'
  <2>1. ASSUME SourceInv, TknrNext PROVE SourceInv'
    BY <2>1, NextReads, SourceStep
  <2>2. ASSUME SourceInv, UNCHANGED tknr_vars PROVE SourceInv'
    BY <2>2, SourceStep DEF tknr_vars
  <2>. QED  BY <2>1, <2>2
<1>3. SourceInv => ReadsText
  BY InvReadsText
<1>. QED
  BY <1>1, <1>2, <1>3, PTL DEF TknrSpec

-----------------------------------------------------------------------------
(* The StringBuilder.  That of a negative number is made when the "-" is   *)
(* the only character.                                                     *)
BuilderType ==
    /\ raw \in Seq(Byte)
    /\ size \in Nat

Beginnings ==
    /\ at = "dash" => Len(raw) = 0
    /\ at = "minus" => Len(raw) = 1

BuilderInv == BuilderType /\ Beginnings /\ RoomForNul

LEMMA OnlyADashIsMinus ==
    ASSUME NEW m \in Moves
    PROVE  m[3] # "dash" /\ (m[3] = "minus" => m[1] = "dash")
  BY DEF Moves

LEMMA AppendedRoom ==
    ASSUME BuilderType, RoomForNul, next_char \in Byte, Appended
    PROVE  BuilderType' /\ RoomForNul' /\ Len(raw') = Len(raw) + 1
<1>1. /\ raw \in Seq(Byte) /\ Len(raw) \in Nat /\ size \in Nat
      /\ raw' = Append(raw, next_char)
      /\ size' = IF Len(raw) + 1 = size THEN 2 * size ELSE size
  BY DEF BuilderType, Appended, Full
<1>2. raw' \in Seq(Byte) /\ Len(raw') = Len(raw) + 1
  BY <1>1
<1>3. size' \in Nat /\ (size' # 0 => Len(raw) + 1 < size')
  BY <1>1 DEF RoomForNul
<1>. QED
  BY <1>2, <1>3 DEF BuilderType, RoomForNul

LEMMA EmptyRoom ==
    ASSUME raw' = <<>>, size' = 0 \/ size' = STARTING_RAW_MEM, at' # "minus"
    PROVE  BuilderInv'
<1>1. raw' \in Seq(Byte) /\ Len(raw') = 0
  OBVIOUS
<1>2. size' \in Nat /\ (size' # 0 => 0 < size')
  BY BuilderAssumption
<1>. QED
  BY <1>1, <1>2 DEF BuilderInv, BuilderType, Beginnings, RoomForNul

LEMMA SameRoom ==
    ASSUME BuilderInv, raw' = raw, size' = size,
           at' = at \/ at' \notin {"dash", "minus"}
    PROVE  BuilderInv'
  BY DEF BuilderInv, BuilderType, Beginnings, RoomForNul

LEMMA NextRoom ==
    ASSUME BuilderInv, next_char \in Byte, TknrNext
    PROVE  BuilderInv'
<1>1. CASE Call \/ SkipWs \/ SkipComment \/ Spaced \/ EndComment
           \/ SkipFails \/ Between \/ NotSeparated \/ NothingLeft
  <2>1. raw' = raw /\ size' = size /\ at' \notin {"dash", "minus"}
    BY <1>1 DEF Call, SkipWs, SkipComment, Spaced, EndComment, SkipFails,
                Between, NotSeparated, NothingLeft, Stay, Return, making
  <2>. QED  BY <2>1, SameRoom
<1>2. CASE Begin
  <2>1. raw' = <<>> /\ size' = STARTING_RAW_MEM /\ at' # "minus"
    BY <1>2 DEF Begin, First
  <2>. QED  BY <2>1, EmptyRoom
<1>3. CASE BeginFails
  <2>1. /\ at' = "failed"
        /\ (raw' = <<>> /\ size' = 0) \/ (raw' = raw /\ size' = size)
    BY <1>3 DEF BeginFails, Return, CleanupUnset
  <2>. QED  BY <2>1, EmptyRoom, SameRoom
<1>4. CASE Take
  <2>1. BuilderType' /\ RoomForNul' /\ Len(raw') = Len(raw) + 1
    BY <1>4, AppendedRoom DEF Take, BuilderInv
  <2>2. PICK m \in Moving : at' = m[3]
    BY <1>4 DEF Take
  <2>3. m \in Moves /\ m[1] = at
    BY DEF Moving
  <2>4. at' # "dash" /\ (at' = "minus" => at = "dash")
    BY <2>2, <2>3, OnlyADashIsMinus
  <2>5. at' = "minus" => Len(raw') = 1
    BY <2>1, <2>4 DEF BuilderInv, Beginnings
  <2>. QED  BY <2>1, <2>4, <2>5 DEF BuilderInv, Beginnings
<1>5. CASE TakeNoNext
  <2>1. at' = "failed"
    BY <1>5 DEF TakeNoNext, Return
  <2>2. (raw' = <<>> /\ size' = 0) \/ (raw' = raw /\ size' = size)
    BY <1>5 DEF TakeNoNext, Cleanup
  <2>. QED  BY <2>1, <2>2, EmptyRoom, SameRoom
<1>6. CASE Negative
  <2>1. /\ raw' = raw /\ at = "minus" /\ at' = "number"
        /\ size' = IF STARTING_RAW_MEM = 1 THEN 2 ELSE STARTING_RAW_MEM
    BY <1>6 DEF Negative
  <2>2. Len(raw') = 1 /\ raw' \in Seq(Byte)
    BY <2>1 DEF BuilderInv, Beginnings, BuilderType
  <2>3. size' \in Nat /\ 1 < size'
    BY <2>1, BuilderAssumption
  <2>. QED
    BY <2>1, <2>2, <2>3
    DEF BuilderInv, BuilderType, Beginnings, RoomForNul
<1>7. CASE TakeNoMemory \/ NegativeFails \/ Deliver \/ DeliverFails
           \/ Malformed
  <2>1. raw' = <<>> /\ size' = 0 /\ at' # "minus"
    BY <1>7 DEF TakeNoMemory, NegativeFails, Deliver, DeliverFails,
                Malformed, Cleanup, CleanupUnset, Return
  <2>. QED  BY <2>1, EmptyRoom
<1>8. CASE PlainWord
  <2>1. raw' = raw /\ size' = size /\ at' = "word"
    BY <1>8 DEF PlainWord, making
  <2>. QED  BY <2>1, SameRoom
<1>. QED
  BY <1>1, <1>2, <1>3, <1>4, <1>5, <1>6, <1>7, <1>8 DEF TknrNext

(* The NUL that sb_append writes behind the characters is always inside    *)
(* the memory, whatever it begins with and also in the builder that        *)
(* get_number makes for a negative number (sb_append, 26-42).              *)
THEOREM NulHasRoom == TknrSpec => []RoomForNul
<1>1. TknrInit => SourceInv /\ BuilderInv
  <2>1. ASSUME TknrInit PROVE BuilderInv
    BY <2>1 DEF TknrInit, BuilderInv, BuilderType, Beginnings, RoomForNul
  <2>. QED  BY <2>1, SourceStart DEF TknrInit
<1>2. SourceInv /\ BuilderInv /\ [TknrNext]_tknr_vars => SourceInv' /\ BuilderInv'
  <2>1. ASSUME SourceInv, BuilderInv, TknrNext PROVE SourceInv' /\ BuilderInv'
    <3>1. next_char \in Byte
      BY <2>1 DEF SourceInv, SourceType
    <3>. QED  BY <2>1, <3>1, NextReads, SourceStep, NextRoom
  <2>2. ASSUME SourceInv, BuilderInv, UNCHANGED tknr_vars
        PROVE  SourceInv' /\ BuilderInv'
    <3>1. raw' = raw /\ size' = size /\ at' = at
      BY <2>2 DEF tknr_vars, reading, making
    <3>. QED  BY <2>2, <3>1, SourceStep, SameRoom DEF tknr_vars
  <2>. QED  BY <2>1, <2>2
<1>3. BuilderInv => RoomForNul
  BY DEF BuilderInv
<1>. QED
  BY <1>1, <1>2, <1>3, PTL DEF TknrSpec

-----------------------------------------------------------------------------
(* Texts.  There are only so many, and a text that malloc returns is one   *)
(* that nobody has.                                                        *)
LEMMA TextsFinite ==
    /\ IsFiniteSet(Text) /\ IsFiniteSet(Text \ Allocated)
    /\ Text \subseteq Int /\ JUNK \notin Text /\ NULL \notin Text
<1>1. IsFiniteSet(Text)
  BY MaxTextsAssumption, FS_Interval DEF Text
<1>2. IsFiniteSet(Text \ Allocated)
  BY <1>1, FS_Subset
<1>3. Text \subseteq Int /\ JUNK \notin Text /\ NULL \notin Text
  BY MaxTextsAssumption DEF Text, JUNK, NULL
<1> QED BY <1>1, <1>2, <1>3

(* What Fresh promises: n different texts that are free. *)
NewTexts(s, n, h) ==
    /\ s \in Seq(Text) /\ Len(s) = n
    /\ \A i \in 1 .. n : s[i] \in Text /\ h[s[i]] = NONE
    /\ \A i, j \in 1 .. n : s[i] = s[j] => i = j

LEMMA FreshTexts ==
    ASSUME NEW n \in Nat, HasRoom(n)
    PROVE  NewTexts(Fresh(n), n, heap)
<1> DEFINE S == Text \ Allocated
           c == Cardinality(S)
<1>1. c \in Nat /\ ExistsBijection(1 .. c, S)
  BY TextsFinite, FS_CardinalityType
<1>2. PICK f \in Bijection(1 .. c, S) : TRUE
  BY <1>1 DEF ExistsBijection
<1>3. f \in [1 .. c -> S] /\ \A i, j \in 1 .. c : f[i] = f[j] => i = j
  BY <1>2 DEF Bijection, Injection, IsInjective
<1>4. n = 0 \/ n <= c
  BY DEF HasRoom
<1> HIDE DEF c, S
<1>5. \E s \in [1 .. n -> S] : IsInjective(s)
  <2> DEFINE s == [i \in 1 .. n |-> f[i]]
  <2>1. \A i \in 1 .. n : i \in 1 .. c
    BY <1>1, <1>4
  <2>2. s \in [1 .. n -> S] /\ IsInjective(s)
    BY <1>3, <2>1 DEF IsInjective
  <2> HIDE DEF s
  <2> QED BY <2>2
<1>6. Fresh(n) \in [1 .. n -> S] /\ IsInjective(Fresh(n))
  BY <1>5 DEF Fresh, S
<1> DEFINE s == Fresh(n)
<1> HIDE DEF s
<1>7. s \in [1 .. n -> S] /\ \A i, j \in 1 .. n : s[i] = s[j] => i = j
  BY <1>6 DEF IsInjective, s
<1>8. \A t \in S : t \in Text /\ heap[t] = NONE
  BY DEF S, Allocated
<1>9. s \in Seq(Text) /\ Len(s) = n
  BY <1>7, <1>8
<1> QED BY <1>7, <1>8, <1>9 DEF NewTexts, s

(* No text is at two places of an array. *)
Distinct(s) ==
    \A i, j \in 1 .. Len(s) : s[i] \in Text /\ s[i] = s[j] => i = j

(* The texts among the entries of an array. *)
TextsIn(s) == {t \in Text : \E i \in 1 .. Len(s) : s[i] = t}

Heaps == [Text -> Word \cup {NONE}]

LEMMA FilledFacts ==
    ASSUME NEW h \in Heaps, NEW s \in Seq(Cell), Distinct(s),
           NEW ws \in Seq(Word), Len(ws) = Len(s)
    PROVE  /\ Filled(h, s, ws) \in Heaps
           /\ \A i \in 1 .. Len(s) : s[i] \in Text => Filled(h, s, ws)[s[i]] = ws[i]
           /\ \A t \in Text : t \notin TextsIn(s) => Filled(h, s, ws)[t] = h[t]
<1> DEFINE n == Len(s)
           at1(t) == CHOOSE i \in 1 .. n : s[i] = t
           g == Filled(h, s, ws)
<1>1. DOMAIN s = 1 .. n /\ n \in Nat
  OBVIOUS
<1>2. g = [t \in Text |-> IF \E i \in 1 .. n : s[i] = t THEN ws[at1(t)] ELSE h[t]]
  BY <1>1 DEF Filled
<1>3. \A t \in Text : t \in TextsIn(s) <=> \E i \in 1 .. n : s[i] = t
  BY DEF TextsIn
<1>4. \A t \in TextsIn(s) : at1(t) \in 1 .. n /\ s[at1(t)] = t
  BY <1>3 DEF TextsIn
<1>5. \A i \in 1 .. n : ws[i] \in Word
  OBVIOUS
<1>6. \A i \in 1 .. n : s[i] \in Text => at1(s[i]) = i
  <2> TAKE i \in 1 .. n
  <2> HAVE s[i] \in Text
  <2>1. s[i] \in TextsIn(s)
    BY DEF TextsIn
  <2>2. at1(s[i]) \in 1 .. n /\ s[at1(s[i])] = s[i]
    BY <2>1, <1>4
  <2> QED BY <2>2 DEF Distinct
<1> HIDE DEF n, at1
<1>7. \A t \in Text : g[t] = IF t \in TextsIn(s) THEN ws[at1(t)] ELSE h[t]
  BY <1>2, <1>3
<1>8. g \in Heaps
  <2>1. \A t \in Text : g[t] \in Word \cup {NONE}
    BY <1>7, <1>4, <1>5 DEF Heaps
  <2> QED BY <1>2, <2>1 DEF Heaps
<1>9. \A i \in 1 .. n : s[i] \in Text => g[s[i]] = ws[i]
  <2> TAKE i \in 1 .. n
  <2> HAVE s[i] \in Text
  <2>1. s[i] \in TextsIn(s)
    BY DEF TextsIn, n
  <2> QED BY <2>1, <1>6, <1>7
<1> HIDE DEF g
<1>10. \A t \in Text : t \notin TextsIn(s) => g[t] = h[t]
  BY <1>7
<1> QED BY <1>8, <1>9, <1>10 DEF g, n

LEMMA DisposedFacts ==
    ASSUME NEW h \in Heaps, NEW s \in Seq(Int)
    PROVE  /\ Disposed(h, s) \in Heaps
           /\ \A t \in Text : t \in TextsIn(s) => Disposed(h, s)[t] = NONE
           /\ \A t \in Text : t \notin TextsIn(s) => Disposed(h, s)[t] = h[t]
<1>1. \A t \in Text : t \in TextsIn(s) <=> \E i \in DOMAIN s : s[i] = t
  BY DEF TextsIn
<1>2. Disposed(h, s) = [t \in Text |-> IF t \in TextsIn(s) THEN NONE ELSE h[t]]
  BY <1>1 DEF Disposed
<1> QED BY <1>2 DEF Heaps

-----------------------------------------------------------------------------
(* Arrays whose entries are moved one after the other.  If no entry is     *)
(* written before it is read, every entry that is written gets what was    *)
(* next to it.                                                             *)
Written(is) == {is[k] : k \in 1 .. Len(is)}

Moved(a, c, is, d, w) ==
    /\ a \in [1 .. w -> Cell]
    /\ \A x \in 1 .. w : a[x] = IF x \in Written(is) THEN c[x + d] ELSE c[x]

LEMMA ShiftedIs ==
    ASSUME NEW w \in Nat, NEW c \in [1 .. w -> Cell], NEW is \in Seq(1 .. w),
           NEW d \in Int, \A k \in 1 .. Len(is) : is[k] + d \in 1 .. w,
           \A i, k \in 1 .. Len(is) : i < k => is[i] # is[k] /\ is[k] + d # is[i]
    PROVE  Moved(Shifted(c, is, d), c, is, d, w)
<1> DEFINE n == Len(is)
           T == [1 .. w -> Cell]
           Step(a, k) == [a EXCEPT ![is[k]] = a[is[k] + d]]
           F(f) == [k \in 0 .. n |-> IF k = 0 THEN c ELSE Step(f[k - 1], k)]
           step == [k \in 1 .. n |-> [a \in T |-> Step(a, k)]]
           loop == CHOOSE f : f = F(f)
<1>1. n \in Nat /\ \A k \in 1 .. n : is[k] \in 1 .. w /\ is[k] + d \in 1 .. w
  OBVIOUS
<1>2. ASSUME NEW a \in T, NEW k \in 1 .. n
      PROVE  /\ Step(a, k) \in T
             /\ \A x \in 1 .. w :
                   Step(a, k)[x] = IF x = is[k] THEN a[x + d] ELSE a[x]
  <2>1. is[k] \in 1 .. w /\ a[is[k] + d] \in Cell
    BY <1>1
  <2> QED BY <2>1
<1>3. step \in [1 .. n -> [T -> T]]
  <2> HIDE DEF T, Step, n
  <2> QED BY <1>2
<1>4. PICK g : Iterates(g, n, T, c, step)
  <2>1. c \in T
    OBVIOUS
  <2> HIDE DEF T, step, n
  <2> QED BY <1>1, <1>3, <2>1, RecursionExists
<1>5. g \in [0 .. n -> T] /\ g[0] = c
  BY <1>4 DEF Iterates
<1>6. \A k \in 1 .. n : k - 1 \in 0 .. n /\ k \in 0 .. n /\ k # 0
  BY <1>1
<1>7. \A k \in 1 .. n : g[k] = Step(g[k - 1], k)
  <2> TAKE k \in 1 .. n
  <2>1. g[k] = step[k][g[k - 1]]
    BY <1>4 DEF Iterates
  <2>2. g[k - 1] \in T
    BY <1>5, <1>6
  <2> HIDE DEF T, Step, n
  <2> QED BY <2>1, <2>2
<1>8. g = F(g)
  <2> HIDE DEF T, Step, n
  <2>1. \A k \in 0 .. n : k # 0 => k \in 1 .. n
    BY <1>1
  <2>2. \A k \in 0 .. n : g[k] = IF k = 0 THEN c ELSE Step(g[k - 1], k)
    BY <1>5, <1>7, <2>1
  <2>3. g = [k \in 0 .. n |-> g[k]]
    BY <1>5
  <2> QED BY <2>2, <2>3
<1>9. loop = F(loop)
  <2> HIDE DEF F
  <2> QED BY <1>8
<1>10. Shifted(c, is, d) = loop[n]
  BY DEF Shifted
<1>11. \A k \in 0 .. n : loop[k] = IF k = 0 THEN c ELSE Step(loop[k - 1], k)
  <2>1. \A f : \A k \in 0 .. n : F(f)[k] = IF k = 0 THEN c ELSE Step(f[k - 1], k)
    OBVIOUS
  <2> HIDE DEF F, loop, Step, n
  <2> QED BY <1>9, <2>1, Zenon
<1> DEFINE Done(k) == {is[i] : i \in 1 .. k}
           Good(k) == /\ loop[k] \in T
                      /\ \A x \in 1 .. w :
                            loop[k][x] = IF x \in Done(k) THEN c[x + d] ELSE c[x]
<1> HIDE DEF loop, F, step
<1>12. Good(0)
  <2>1. loop[0] = c
    <3>1. 0 \in 0 .. n
      BY <1>1
    <3> HIDE DEF n, Step
    <3> QED BY <3>1, <1>11
  <2>2. Done(0) = {}
    OBVIOUS
  <2> QED BY <2>1, <2>2
<1>13. ASSUME NEW i \in 0 .. n - 1, Good(i) PROVE Good(i + 1)
  <2> DEFINE k == i + 1
  <2>1. k \in 1 .. n /\ k # 0 /\ k - 1 = i /\ k \in 0 .. n
    BY <1>1
  <2>2. loop[k] = Step(loop[i], k) /\ loop[i] \in T
    BY <1>11, <1>13, <2>1
  <2>3. /\ loop[k] \in T
        /\ \A x \in 1 .. w :
              loop[k][x] = IF x = is[k] THEN loop[i][x + d] ELSE loop[i][x]
    BY <1>2, <2>1, <2>2, SMTT(30)
  <2>4. Done(k) = Done(i) \cup {is[k]}
    BY <1>1, <2>1
  <2>5. is[k] + d \notin Done(i)
    <3>1. \A q \in 1 .. i : q \in 1 .. n /\ q < k
      BY <1>1, <2>1
    <3> HIDE DEF k
    <3>2. \A q \in 1 .. i : is[k] + d # is[q]
      BY <2>1, <3>1
    <3> QED BY <3>2
  <2>6. is[k] + d \in 1 .. w
    BY <1>1, <2>1
  <2> HIDE DEF k, Done, Step
  <2>7. ASSUME NEW x \in 1 .. w
        PROVE  loop[k][x] = IF x \in Done(k) THEN c[x + d] ELSE c[x]
    <3>1. CASE x = is[k]
      BY <3>1, <1>13, <2>3, <2>4, <2>5, <2>6
    <3>2. CASE x # is[k]
      BY <3>2, <1>13, <2>3, <2>4
    <3> QED BY <3>1, <3>2
  <2> QED BY <2>3, <2>7 DEF k
<1>14. Good(n)
  <2> DEFINE S == {k \in 0 .. n : Good(k)}
  <2>1. 0 \in S
    BY <1>1, <1>12
  <2>2. ASSUME NEW i \in 0 .. n - 1, i \in S PROVE i + 1 \in S
    <3>1. i + 1 \in 0 .. n
      BY <1>1
    <3> QED BY <1>13, <2>2, <3>1
  <2>3. \A i \in 0 .. n : i \in S
    <3> HIDE DEF S, n
    <3> QED BY <1>1, <2>1, <2>2, UpwardInduction
  <2> QED BY <1>1, <2>3
<1>15. Done(n) = Written(is)
  BY DEF Written
<1> HIDE DEF Done, n
<1> QED BY <1>10, <1>14, <1>15 DEF n, Moved

LEMMA FirstOf ==
    ASSUME NEW S, NEW w \in Nat, NEW c \in [1 .. w -> S], NEW n \in 0 .. w
    PROVE  /\ SubSeq(c, 1, n) \in Seq(S) /\ Len(SubSeq(c, 1, n)) = n
           /\ \A i \in 1 .. n : SubSeq(c, 1, n)[i] = c[i]
<1>1. c \in Seq(S) /\ n \in Nat /\ n <= w
  OBVIOUS
<1>2. SubSeq(c, 1, n) = [i \in 1 .. n |-> c[i]]
  BY <1>1
<1>3. \A i \in 1 .. n : i \in 1 .. w
  BY <1>1
<1> QED BY <1>1, <1>2, <1>3

(* What it is to insert and to remove an entry. *)
Inserts(v, s, p, e) ==
    /\ Len(v) = Len(s) + 1
    /\ \A i \in 1 .. Len(s) + 1 :
          v[i] = IF i < p THEN s[i] ELSE IF i = p THEN e ELSE s[i - 1]

Removes(v, s, p) ==
    /\ Len(v) = Len(s) - 1
    /\ \A i \in 1 .. Len(s) - 1 : v[i] = IF i < p THEN s[i] ELSE s[i + 1]

LEMMA InsertAtFacts ==
    ASSUME NEW S, NEW s \in Seq(S), NEW p \in 1 .. Len(s) + 1, NEW e \in S
    PROVE  InsertAt(s, p, e) \in Seq(S) /\ Inserts(InsertAt(s, p, e), s, p, e)
<1> DEFINE n == Len(s)
           a == SubSeq(s, 1, p - 1)
           b == SubSeq(s, p, n)
<1>1. n \in Nat /\ p \in Nat /\ 1 <= p /\ p <= n + 1 /\ \A i \in 1 .. n : s[i] \in S
  OBVIOUS
<1>2. a = [i \in 1 .. p - 1 |-> s[i]]
  BY <1>1
<1>3. b = [i \in 1 .. n - p + 1 |-> s[i + p - 1]]
  BY <1>1
<1> HIDE DEF a, b, n
<1>4. a \in Seq(S) /\ Len(a) = p - 1
  <2>1. \A i \in 1 .. p - 1 : i \in 1 .. n
    BY <1>1
  <2>2. a \in [1 .. p - 1 -> S] /\ p - 1 \in Nat
    BY <1>1, <1>2, <2>1
  <2> QED BY <2>2
<1>5. b \in Seq(S) /\ Len(b) = n - p + 1
  <2>1. \A i \in 1 .. n - p + 1 : i + p - 1 \in 1 .. n
    BY <1>1
  <2>2. b \in [1 .. n - p + 1 -> S] /\ n - p + 1 \in Nat
    BY <1>1, <1>3, <2>1
  <2> QED BY <2>2
<1>6. InsertAt(s, p, e) = a \o <<e>> \o b
  BY DEF InsertAt, a, b, n
<1> DEFINE ae == a \o <<e>>
<1>7. /\ ae \in Seq(S) /\ Len(ae) = p
      /\ \A i \in 1 .. p : ae[i] = IF i < p THEN s[i] ELSE e
  <2>1. ae \in Seq(S) /\ Len(ae) = Len(a) + 1
    BY <1>4
  <2>2. \A i \in 1 .. Len(a) + 1 : ae[i] = IF i <= Len(a) THEN a[i] ELSE e
    BY <1>4
  <2>3. \A i \in 1 .. p : i \in 1 .. Len(a) + 1 /\ (i < p <=> i <= Len(a))
    BY <1>1, <1>4
  <2>4. Len(ae) = p
    BY <1>1, <1>4, <2>1
  <2> HIDE DEF ae
  <2>5. \A i \in 1 .. p : i < p => a[i] = s[i]
    BY <1>1, <1>2
  <2> QED BY <2>1, <2>2, <2>3, <2>4, <2>5
<1> HIDE DEF ae
<1>8. /\ ae \o b \in Seq(S) /\ Len(ae \o b) = n + 1
      /\ \A i \in 1 .. n + 1 : (ae \o b)[i] = IF i <= p THEN ae[i] ELSE b[i - p]
  <2>1. /\ ae \o b \in Seq(S)
        /\ Len(ae \o b) = Len(ae) + Len(b)
        /\ \A i \in 1 .. Len(ae) + Len(b) :
              (ae \o b)[i] = IF i <= Len(ae) THEN ae[i] ELSE b[i - Len(ae)]
    BY <1>5, <1>7, ConcatProperties
  <2>2. Len(ae) + Len(b) = n + 1
    BY <1>1, <1>5, <1>7
  <2> QED BY <2>1, <2>2, <1>7
<1>9. ASSUME NEW i \in 1 .. n + 1
      PROVE  (ae \o b)[i] = IF i < p THEN s[i] ELSE IF i = p THEN e ELSE s[i - 1]
  <2>1. CASE i <= p
    <3>1. i \in 1 .. p /\ (i < p \/ i = p)
      BY <1>1, <2>1
    <3> QED BY <1>1, <1>7, <1>8, <2>1, <3>1
  <2>2. CASE ~(i <= p)
    <3>1. i - p \in 1 .. n - p + 1 /\ (i - p) + p - 1 = i - 1 /\ ~(i < p) /\ i # p
      BY <1>1, <2>2
    <3>2. b[i - p] = s[i - 1]
      BY <1>3, <3>1
    <3> QED BY <1>8, <2>2, <3>1, <3>2
  <2> QED BY <2>1, <2>2
<1>10. InsertAt(s, p, e) = ae \o b
  BY <1>6 DEF ae
<1> QED BY <1>8, <1>9, <1>10 DEF n, Inserts

(* cb_insert and its relatives insert. *)
LEMMA OpenedIs ==
    ASSUME NEW b \in Block, tokens[b] \in Seq(Cell),
           NEW p \in 1 .. Len(tokens[b]) + 1, NEW t \in Cell,
           NEW width \in Nat, Len(tokens[b]) + 1 <= width
    PROVE  /\ Opened(b, p, t, width) \in Seq(Cell)
           /\ Inserts(Opened(b, p, t, width), tokens[b], p, t)
<1> DEFINE n == Len(tokens[b])
           wide == [i \in 1 .. width |-> IF i <= n THEN tokens[b][i] ELSE JUNK]
           is == Down(n + 1, p + 1)
           moved == Shifted(wide, is, -1)
           c == [moved EXCEPT ![p] = t]
<1>1. /\ n \in Nat /\ p \in Nat /\ 1 <= p /\ p <= n + 1
      /\ \A i \in 1 .. n : tokens[b][i] \in Cell
  OBVIOUS
<1>2. wide \in [1 .. width -> Cell]
  BY <1>1 DEF Cell
<1>3. \A i \in 1 .. n : wide[i] = tokens[b][i]
  BY <1>1
<1> HIDE DEF n, wide
<1> DEFINE m == n + 1 - p
<1>4. m \in Nat /\ is = [i \in 1 .. m |-> n + 2 - i]
  <2>1. m \in Nat /\ (n + 1) - (p + 1) + 1 = m
    BY <1>1
  <2>2. \A i \in 1 .. m : n + 1 + 1 - i = n + 2 - i
    BY <1>1
  <2> HIDE DEF m
  <2> QED BY <2>1, <2>2 DEF Down
<1> HIDE DEF is
<1>5. width >= n + 1
  BY DEF n
<1>6. \A i \in 1 .. m : n + 2 - i \in 1 .. width /\ n + 2 - i + (-1) \in 1 .. width
  BY <1>1, <1>5
<1>7. is \in Seq(1 .. width) /\ Len(is) = m
  <2> HIDE DEF m
  <2> QED BY <1>4, <1>6
<1>8. \A i, k \in 1 .. m : i < k => is[i] # is[k] /\ is[k] + (-1) # is[i]
  <2> HIDE DEF m
  <2> QED BY <1>1, <1>4
<1>9. /\ moved \in [1 .. width -> Cell]
      /\ \A x \in 1 .. width : moved[x] =
            IF x \in Written(is) THEN wide[x + (-1)] ELSE wide[x]
  <2>1. \A k \in 1 .. m : is[k] + (-1) \in 1 .. width
    <3> HIDE DEF m
    <3> QED BY <1>4, <1>6
  <2> DEFINE d == -1
  <2>2. d \in Int
    OBVIOUS
  <2> HIDE DEF m, d
  <2>3. /\ \A k \in 1 .. Len(is) : is[k] + d \in 1 .. width
        /\ \A i, k \in 1 .. Len(is) : i < k => is[i] # is[k] /\ is[k] + d # is[i]
    BY <1>7, <1>8, <2>1 DEF d
  <2>4. Moved(Shifted(wide, is, d), wide, is, d, width)
    BY <1>2, <1>7, <2>2, <2>3, ShiftedIs
  <2> QED BY <2>4 DEF d, Moved
<1>10. \A x \in 1 .. n + 1 : x \in Written(is) <=> x > p
  <2> TAKE x \in 1 .. n + 1
  <2>0. x \in Written(is) <=> \E k \in 1 .. m : is[k] = x
    BY <1>7 DEF Written
  <2>1. ASSUME NEW k \in 1 .. m, is[k] = x PROVE x > p
    BY <1>1, <1>4, <2>1
  <2>2. ASSUME x > p PROVE \E k \in 1 .. m : is[k] = x
    <3>1. n + 2 - x \in 1 .. m /\ n + 2 - (n + 2 - x) = x
      BY <1>1, <2>2
    <3>2. is[n + 2 - x] = x
      <4> HIDE DEF m
      <4> QED BY <1>4, <3>1
    <3> HIDE DEF m
    <3> QED BY <3>1, <3>2
  <2> QED BY <2>0, <2>1, <2>2
<1> HIDE DEF moved, m
<1>11. p \in 1 .. width /\ c \in [1 .. width -> Cell]
  BY <1>1, <1>5, <1>9
<1>12. ASSUME NEW i \in 1 .. n + 1
       PROVE  c[i] = IF i < p THEN tokens[b][i]
                     ELSE IF i = p THEN t ELSE tokens[b][i - 1]
  <2>1. i \in 1 .. width /\ c[i] = IF i = p THEN t ELSE moved[i]
    BY <1>1, <1>5, <1>9
  <2>2. CASE i < p
    <3>1. i \in 1 .. n /\ ~(i > p) /\ i # p
      BY <1>1, <2>2
    <3> QED BY <1>3, <1>9, <1>10, <2>1, <2>2, <3>1
  <2>3. CASE i > p
    <3>1. i - 1 \in 1 .. n /\ i + (-1) = i - 1 /\ ~(i < p) /\ i # p
      BY <1>1, <2>3
    <3> QED BY <1>3, <1>9, <1>10, <2>1, <2>3, <3>1
  <2>4. CASE i = p
    BY <1>1, <2>1, <2>4
  <2> QED BY <1>1, <2>2, <2>3, <2>4
<1>13. Opened(b, p, t, width) = SubSeq(c, 1, n + 1)
  BY DEF Opened, c, moved, is, wide, n
<1> HIDE DEF c
<1>14. n + 1 \in 0 .. width
  BY <1>1, <1>5
<1>15. /\ SubSeq(c, 1, n + 1) \in Seq(Cell) /\ Len(SubSeq(c, 1, n + 1)) = n + 1
       /\ \A i \in 1 .. n + 1 : SubSeq(c, 1, n + 1)[i] = c[i]
  BY <1>11, <1>14, FirstOf
<1> QED BY <1>12, <1>13, <1>15 DEF n, Inserts

(* cb_remove removes. *)
LEMMA ClosedIs ==
    ASSUME NEW b \in Block, tokens[b] \in Seq(Cell), cap[b] \in Nat,
           Len(tokens[b]) <= cap[b], NEW p \in 1 .. Len(tokens[b])
    PROVE  Closed(b, p) \in Seq(Cell) /\ Removes(Closed(b, p), tokens[b], p)
<1> DEFINE n == Len(tokens[b])
           w == cap[b] + 1
           wide == Cells(b)
           is == Up(p, n)
           moved == Shifted(wide, is, 1)
<1>1. /\ n \in Nat /\ p \in Nat /\ 1 <= p /\ p <= n /\ w \in Nat /\ n + 1 <= w
      /\ \A i \in 1 .. n : tokens[b][i] \in Cell
  OBVIOUS
<1>2. wide = [i \in 1 .. w |-> IF i <= n THEN tokens[b][i] ELSE JUNK]
  BY DEF Cells
<1> HIDE DEF wide, n, w
<1>3. wide \in [1 .. w -> Cell]
  BY <1>1, <1>2 DEF Cell
<1>4. \A i \in 1 .. n : wide[i] = tokens[b][i]
  BY <1>1, <1>2
<1> DEFINE m == n - p + 1
<1>5. m \in Nat /\ is = [i \in 1 .. m |-> p - 1 + i]
  BY <1>1 DEF Up
<1> HIDE DEF is
<1>6. \A i \in 1 .. m : p - 1 + i \in 1 .. w /\ p - 1 + i + 1 \in 1 .. w
  BY <1>1
<1>7. is \in Seq(1 .. w) /\ Len(is) = m
  <2> HIDE DEF m
  <2> DEFINE W == 1 .. w
  <2>1. \A i \in 1 .. m : p - 1 + i \in W
    BY <1>6
  <2> HIDE DEF W
  <2>2. is \in Seq(W) /\ Len(is) = m
    BY <1>5, <2>1
  <2> QED BY <2>2 DEF W
<1>8. \A i, k \in 1 .. m : i < k => is[i] # is[k] /\ is[k] + 1 # is[i]
  <2> HIDE DEF m
  <2> QED BY <1>1, <1>5
<1>9. /\ moved \in [1 .. w -> Cell]
      /\ \A x \in 1 .. w : moved[x] =
            IF x \in Written(is) THEN wide[x + 1] ELSE wide[x]
  <2>1. \A k \in 1 .. m : is[k] + 1 \in 1 .. w
    <3> HIDE DEF m
    <3> QED BY <1>5, <1>6
  <2> DEFINE d == 1
  <2>2. d \in Int
    OBVIOUS
  <2> HIDE DEF m, d
  <2>3. /\ \A k \in 1 .. Len(is) : is[k] + d \in 1 .. w
        /\ \A i, k \in 1 .. Len(is) : i < k => is[i] # is[k] /\ is[k] + d # is[i]
    BY <1>7, <1>8, <2>1 DEF d
  <2>4. Moved(Shifted(wide, is, d), wide, is, d, w)
    BY <1>1, <1>3, <1>7, <2>2, <2>3, ShiftedIs
  <2> QED BY <2>4 DEF d, Moved
<1>10. \A x \in 1 .. n : x \in Written(is) <=> x >= p
  <2> TAKE x \in 1 .. n
  <2>0. x \in Written(is) <=> \E k \in 1 .. m : is[k] = x
    BY <1>7 DEF Written
  <2>1. ASSUME NEW k \in 1 .. m, is[k] = x PROVE x >= p
    BY <1>1, <1>5, <2>1
  <2>2. ASSUME x >= p PROVE \E k \in 1 .. m : is[k] = x
    <3>1. x - p + 1 \in 1 .. m /\ p - 1 + (x - p + 1) = x
      BY <1>1, <2>2
    <3>2. is[x - p + 1] = x
      <4> HIDE DEF m
      <4> QED BY <1>5, <3>1
    <3> HIDE DEF m
    <3> QED BY <3>1, <3>2
  <2> QED BY <2>0, <2>1, <2>2
<1> HIDE DEF moved, m
<1>11. ASSUME NEW i \in 1 .. n - 1
       PROVE  moved[i] = IF i < p THEN tokens[b][i] ELSE tokens[b][i + 1]
  <2>1. i \in 1 .. w /\ i \in 1 .. n /\ i + 1 \in 1 .. n
    BY <1>1
  <2>2. i < p <=> ~(i >= p)
    BY <1>1
  <2> QED BY <1>4, <1>9, <1>10, <2>1, <2>2
<1>12. Closed(b, p) = SubSeq(moved, 1, n - 1)
  BY DEF Closed, moved, is, wide, n
<1>13. n - 1 \in 0 .. w
  BY <1>1
<1>14. /\ SubSeq(moved, 1, n - 1) \in Seq(Cell) /\ Len(SubSeq(moved, 1, n - 1)) = n - 1
       /\ \A i \in 1 .. n - 1 : SubSeq(moved, 1, n - 1)[i] = moved[i]
  BY <1>1, <1>9, <1>13, FirstOf
<1> QED BY <1>11, <1>12, <1>14 DEF n, Removes

-----------------------------------------------------------------------------
(* The memory as a whole: R has the arrays of all owners, H the texts in   *)
(* hand, and h what the texts say.                                         *)
Rows == [Owner -> Seq(Cell)]

Put(f, x, v) == [f EXCEPT ![x] = v]

Single(R, H, h) ==
    /\ \A t \in H : h[t] # NONE
    /\ \A o, p \in Owner : \A i \in 1 .. Len(R[o]), j \in 1 .. Len(R[p]) :
          R[o][i] \in Text =>
             /\ h[R[o][i]] # NONE
             /\ R[o][i] \notin H
             /\ (R[o][i] = R[p][j] => o = p /\ i = j)

OnlyBraces(R, H, h) ==
    \A t \in Text : \/ h[t] \in {NONE, "}"} \/ t \in H
                    \/ \E o \in Owner : t \in TextsIn(R[o])

(* What the entries of an array say. *)
Said(h, s) == [i \in 1 .. Len(s) |-> IF s[i] = JUNK THEN Garbage ELSE h[s[i]]]

(* Owner o may do what it likes with its own texts, those in hand and      *)
(* those that are free. *)
Own(R, H, h, o) == {t \in Text : t \in TextsIn(R[o]) \/ t \in H \/ h[t] = NONE}

(* No owner has what another one may use. *)
LEMMA NotOwn ==
    ASSUME NEW R \in Rows, NEW H \in SUBSET Text, NEW h \in Heaps, Single(R, H, h),
           NEW o \in Owner, NEW p \in Owner, o # p
    PROVE  \A t \in TextsIn(R[p]) : t \notin Own(R, H, h, o)
<1>1. \A j \in 1 .. Len(R[p]) : R[p][j] \in Text =>
         /\ h[R[p][j]] # NONE
         /\ R[p][j] \notin H
         /\ \A i \in 1 .. Len(R[o]) : R[o][i] # R[p][j]
  BY DEF Single
<1> QED BY <1>1 DEF TextsIn, Own

(* It has the array s, what is in hand is G and what the texts say is g.   *)
Change(R, H, h, o, s, G, g) ==
    /\ Distinct(s)
    /\ \A t \in TextsIn(s) : t \in Own(R, H, h, o) \ G /\ g[t] # NONE
    /\ \A t \in G : t \in Own(R, H, h, o) /\ g[t] # NONE
    /\ \A t \in Text : t \in Own(R, H, h, o) \/ g[t] = h[t]

(* The others do not notice. *)
LEMMA OthersStay ==
    ASSUME NEW R \in Rows, NEW H \in SUBSET Text, NEW h \in Heaps, Single(R, H, h),
           NEW o \in Owner, NEW s \in Seq(Cell), NEW G \in SUBSET Text, NEW g \in Heaps,
           Change(R, H, h, o, s, G, g), NEW p \in Owner, o # p
    PROVE  Said(g, R[p]) = Said(h, R[p])
<1>1. \A i \in 1 .. Len(R[p]) : R[p][i] = JUNK \/ R[p][i] \in TextsIn(R[p])
  BY DEF TextsIn, Cell, Rows
<1>2. \A t \in TextsIn(R[p]) : g[t] = h[t]
  BY NotOwn DEF Change, TextsIn
<1> QED BY <1>1, <1>2 DEF Said

(* Every text still has one place after a change. *)
LEMMA SingleStays ==
    ASSUME NEW R \in Rows, NEW H \in SUBSET Text, NEW h \in Heaps, Single(R, H, h),
           NEW o \in Owner, NEW s \in Seq(Cell), NEW G \in SUBSET Text, NEW g \in Heaps,
           Change(R, H, h, o, s, G, g)
    PROVE  /\ Put(R, o, s) \in Rows
           /\ Single(Put(R, o, s), G, g)
<1> DEFINE Q == Put(R, o, s)
<1>1. Q \in Rows /\ Q[o] = s /\ \A p \in Owner : p # o => Q[p] = R[p]
  BY DEF Rows, Put
<1> HIDE DEF Q
<1>2. \A t \in G : g[t] # NONE
  BY DEF Change
<1>3. ASSUME NEW p \in Owner, NEW q \in Owner,
             NEW i \in 1 .. Len(Q[p]), NEW j \in 1 .. Len(Q[q]), Q[p][i] \in Text
      PROVE  /\ g[Q[p][i]] # NONE
             /\ Q[p][i] \notin G
             /\ (Q[p][i] = Q[q][j] => p = q /\ i = j)
  <2> DEFINE t == Q[p][i]
  <2>1. t \in TextsIn(Q[p])
    BY <1>3 DEF TextsIn
  <2>2. t = Q[q][j] => t \in TextsIn(Q[q])
    BY <1>3 DEF TextsIn
  <2>3. CASE p = o
    <3>1. g[t] # NONE /\ t \notin G /\ t \in Own(R, H, h, o)
      BY <1>1, <2>1, <2>3 DEF Change
    <3>2. q # o => t # Q[q][j]
      BY <1>1, <2>2, <2>3, <3>1, NotOwn
    <3>3. q = o => (t = Q[q][j] => i = j)
      BY <1>1, <1>3, <2>3 DEF Change, Distinct
    <3> QED BY <2>3, <3>1, <3>2, <3>3
  <2>4. CASE p # o
    <3>1. t \in TextsIn(R[p]) /\ t \notin Own(R, H, h, o)
      BY <1>1, <2>1, <2>4, NotOwn
    <3>2. g[t] = h[t] /\ t \notin G
      BY <1>3, <3>1 DEF Change
    <3>3. i \in 1 .. Len(R[p]) /\ R[p][i] \in Text /\ t = R[p][i]
      BY <1>1, <1>3, <2>4
    <3>4. h[t] # NONE
      BY <3>3 DEF Single
    <3>5. q = o => t # Q[q][j]
      BY <1>1, <2>2, <3>1 DEF Change
    <3>6. ASSUME q # o, t = Q[q][j] PROVE p = q /\ i = j
      <4>1. j \in 1 .. Len(R[q]) /\ R[p][i] = R[q][j]
        BY <1>1, <1>3, <3>3, <3>6
      <4> QED BY <3>3, <4>1 DEF Single
    <3> QED BY <3>2, <3>4, <3>5, <3>6
  <2> QED BY <2>3, <2>4
<1>4. Single(Q, G, g)
  BY <1>2, <1>3 DEF Single
<1> QED BY <1>1, <1>4 DEF Q

(* Nothing is left behind if everything that o had at its disposal is      *)
(* freed, still there, or a brace. *)
LEMMA BracesStay ==
    ASSUME NEW R \in Rows, NEW H \in SUBSET Text, NEW h \in Heaps,
           NEW o \in Owner, NEW s \in Seq(Cell), NEW G \in SUBSET Text, NEW g \in Heaps,
           \A t \in Text : \/ g[t] \in {NONE, "}"} \/ t \in G \/ t \in TextsIn(s)
                           \/ t \notin Own(R, H, h, o) /\ g[t] = h[t],
           OnlyBraces(R, H, h)
    PROVE  OnlyBraces(Put(R, o, s), G, g)
<1> DEFINE Q == Put(R, o, s)
<1>1. Q[o] = s /\ \A p \in Owner : p # o => Q[p] = R[p]
  BY DEF Rows, Put
<1> HIDE DEF Q
<1>2. ASSUME NEW t \in Text, g[t] \notin {NONE, "}"}, t \notin G
      PROVE  \E p \in Owner : t \in TextsIn(Q[p])
  <2>1. CASE t \in TextsIn(s)
    BY <1>1, <2>1
  <2>2. CASE t \notin Own(R, H, h, o) /\ g[t] = h[t]
    <3>1. t \notin TextsIn(R[o]) /\ t \notin H /\ h[t] \notin {NONE, "}"}
      BY <1>2, <2>2 DEF Own
    <3>2. PICK p \in Owner : t \in TextsIn(R[p])
      BY <3>1 DEF OnlyBraces
    <3> QED BY <1>1, <3>1, <3>2
  <2> QED BY <1>2, <2>1, <2>2
<1> QED BY <1>2 DEF OnlyBraces, Q

-----------------------------------------------------------------------------
(* The variables of Blocks as such a memory. *)
Lines == [Block -> {NONE} \cup Seq(Cell)]
Nouns == [Type -> {NONE} \cup Seq(Text)]

(* A block or type as an array, and as a list. *)
Row(v) == IF v # NONE THEN v ELSE <<>>
List(h, v) == IF v # NONE THEN Said(h, v) ELSE NONE

ArraysOf(tk, nm, lv) ==
    [o \in Owner |->
        IF o \in Block THEN IF tk[o] # NONE THEN tk[o] ELSE <<>>
        ELSE IF o \in Type THEN IF nm[o] # NONE THEN nm[o] ELSE <<>>
        ELSE lv]

ListsOf(tk, nm, h) ==
    [o \in Block \cup Type |->
        IF o \in Block THEN IF tk[o] # NONE THEN Said(h, tk[o]) ELSE NONE
        ELSE IF nm[o] # NONE THEN Said(h, nm[o]) ELSE NONE]

LEMMA IntegerCells == \A s \in Seq(Cell) : s \in Seq(Int)
<1>1. Cell \subseteq Int
  BY TextsFinite DEF Cell, JUNK
<1> QED BY <1>1, SeqMonotonic

LEMMA NoneIsNoList ==
    /\ \A s \in Seq(Cell) : s # NONE
    /\ \A s \in Seq(Text) : s # NONE /\ s \in Seq(Cell)
    /\ \A s \in Seq(Word \cup {Garbage}) : s # NONE
    /\ \A s \in Seq(Word) : s # NONE
<1>1. Cell \subseteq Int /\ Text \subseteq Cell
  BY TextsFinite DEF Cell, JUNK
<1>2. ASSUME NEW s \in Seq(Cell) PROVE s # NONE
  <2>1. s \in Seq(Int)
    BY <1>1, SeqMonotonic
  <2> QED BY <2>1, NoneAssumption
<1>3. ASSUME NEW s \in Seq(Text) PROVE s \in Seq(Cell)
  BY <1>1, SeqMonotonic
<1>4. ASSUME NEW s \in Seq(Word) PROVE s \in Seq(Word \cup {Garbage})
  BY SeqMonotonic
<1>5. \A s \in Seq(Word \cup {Garbage}) : s # NONE
  BY NoneAssumption
<1> QED BY <1>2, <1>3, <1>4, <1>5

LEMMA ArraysType ==
    ASSUME NEW tk \in Lines, NEW nm \in Nouns, NEW lv \in Seq(Text)
    PROVE  ArraysOf(tk, nm, lv) \in Rows
<1>1. <<>> \in Seq(Cell) /\ lv \in Seq(Cell)
  BY NoneIsNoList
<1>2. ASSUME NEW o \in Block PROVE (IF tk[o] # NONE THEN tk[o] ELSE <<>>) \in Seq(Cell)
  BY <1>1 DEF Lines
<1>3. ASSUME NEW o \in Type PROVE (IF nm[o] # NONE THEN nm[o] ELSE <<>>) \in Seq(Cell)
  BY <1>1, NoneIsNoList DEF Nouns
<1> QED BY <1>1, <1>2, <1>3 DEF ArraysOf, Rows

LEMMA ArraysAre ==
    ASSUME NEW tk, NEW nm, NEW lv
    PROVE  /\ \A b \in Block : /\ b \in Owner
                               /\ (tk[b] # NONE => ArraysOf(tk, nm, lv)[b] = tk[b])
                               /\ (tk[b] = NONE => ArraysOf(tk, nm, lv)[b] = <<>>)
           /\ \A y \in Type : /\ y \in Owner
                              /\ (nm[y] # NONE => ArraysOf(tk, nm, lv)[y] = nm[y])
                              /\ (nm[y] = NONE => ArraysOf(tk, nm, lv)[y] = <<>>)
           /\ "level" \in Owner /\ ArraysOf(tk, nm, lv)["level"] = lv
  BY OwnersAssumption DEF ArraysOf, Owner

LEMMA BlockChange ==
    ASSUME NEW tk \in Lines, NEW nm \in Nouns, NEW lv \in Seq(Text),
           NEW b \in Block, NEW v \in {NONE} \cup Seq(Cell)
    PROVE  /\ Put(tk, b, v) \in Lines
           /\ ArraysOf(Put(tk, b, v), nm, lv) = Put(ArraysOf(tk, nm, lv), b, Row(v))
<1> DEFINE T == Put(tk, b, v)
<1>1. T \in Lines /\ T[b] = v /\ \A o \in Block : o # b => T[o] = tk[o]
  BY DEF Lines, Put
<1> HIDE DEF T
<1>2. b \in Owner
  BY DEF Owner
<1>3. ArraysOf(T, nm, lv) = Put(ArraysOf(tk, nm, lv), b, Row(v))
  BY <1>1, <1>2 DEF ArraysOf, Row, Put
<1> QED BY <1>1, <1>3 DEF T

LEMMA TypeChange ==
    ASSUME NEW tk \in Lines, NEW nm \in Nouns, NEW lv \in Seq(Text),
           NEW y \in Type, NEW v \in {NONE} \cup Seq(Text)
    PROVE  /\ Put(nm, y, v) \in Nouns
           /\ ArraysOf(tk, Put(nm, y, v), lv) = Put(ArraysOf(tk, nm, lv), y, Row(v))
<1> DEFINE N == Put(nm, y, v)
<1>1. N \in Nouns /\ N[y] = v /\ \A o \in Type : o # y => N[o] = nm[o]
  BY DEF Nouns, Put
<1> HIDE DEF N
<1>2. y \in Owner /\ y \notin Block
  BY OwnersAssumption DEF Owner
<1>3. ArraysOf(tk, N, lv) = Put(ArraysOf(tk, nm, lv), y, Row(v))
  BY <1>1, <1>2 DEF ArraysOf, Row, Put
<1> QED BY <1>1, <1>3 DEF N

LEMMA LevelChange ==
    ASSUME NEW tk \in Lines, NEW nm \in Nouns, NEW lv \in Seq(Text), NEW v \in Seq(Text)
    PROVE  ArraysOf(tk, nm, v) = Put(ArraysOf(tk, nm, lv), "level", v)
<1>1. "level" \in Owner /\ "level" \notin Block /\ "level" \notin Type
  BY OwnersAssumption DEF Owner
<1>2. \A o \in Owner : o \in Block \/ o \in Type \/ o = "level"
  BY DEF Owner
<1> QED BY <1>1, <1>2 DEF ArraysOf, Put

LEMMA StateTypes ==
    /\ TypeOK => /\ tokens \in Lines /\ names \in Nouns /\ heap \in Heaps
                 /\ level \in Seq(Text) /\ hand \in SUBSET Text
    /\ TypeOK' => /\ tokens' \in Lines /\ names' \in Nouns /\ heap' \in Heaps
                  /\ level' \in Seq(Text) /\ hand' \in SUBSET Text
  BY DEF TypeOK, Lines, Nouns, Heaps

LEMMA ArraysAreArrays ==
    /\ Arrays = ArraysOf(tokens, names, level)
    /\ Arrays' = ArraysOf(tokens', names', level')
  BY DEF Arrays, ArraysOf, Live

LEMMA ListsAreLists ==
    /\ TypeOK => Lists = ListsOf(tokens, names, heap)
    /\ TypeOK' => Lists' = ListsOf(tokens', names', heap')
<1>1. /\ \A s \in Seq(Cell) : DOMAIN s = 1 .. Len(s)
      /\ \A s \in Seq(Text) : DOMAIN s = 1 .. Len(s)
  OBVIOUS
<1>2. ASSUME TypeOK PROVE Lists = ListsOf(tokens, names, heap)
  <2>1. \A o \in Block : tokens[o] # NONE => DOMAIN tokens[o] = 1 .. Len(tokens[o])
    BY <1>1, <1>2, StateTypes DEF Lines
  <2>2. \A o \in Type : names[o] # NONE => DOMAIN names[o] = 1 .. Len(names[o])
    BY <1>1, <1>2, StateTypes DEF Nouns
  <2> QED BY <2>1, <2>2 DEF Lists, ListsOf, Live, Reading, Said
<1>3. ASSUME TypeOK' PROVE Lists' = ListsOf(tokens', names', heap')
  <2>1. \A o \in Block : tokens'[o] # NONE => DOMAIN tokens'[o] = 1 .. Len(tokens'[o])
    BY <1>1, <1>3, StateTypes DEF Lines
  <2>2. \A o \in Type : names'[o] # NONE => DOMAIN names'[o] = 1 .. Len(names'[o])
    BY <1>1, <1>3, StateTypes DEF Nouns
  <2> QED BY <2>1, <2>2 DEF Lists, ListsOf, Live, Reading, Said
<1> QED BY <1>2, <1>3

LEMMA HoldersAre ==
    /\ TypeOK => /\ OneHolder <=> Single(Arrays, hand, heap)
                 /\ OnlyBracesLeak <=> (failed \/ OnlyBraces(Arrays, hand, heap))
    /\ TypeOK' => /\ OneHolder' <=> Single(Arrays', hand', heap')
                  /\ OnlyBracesLeak' <=> (failed' \/ OnlyBraces(Arrays', hand', heap'))
<1>1. ASSUME TypeOK
      PROVE  /\ OneHolder <=> Single(Arrays, hand, heap)
             /\ OnlyBracesLeak <=> (failed \/ OnlyBraces(Arrays, hand, heap))
  <2>1. Arrays \in Rows /\ hand \in SUBSET Text
    BY <1>1, StateTypes, ArraysAreArrays, ArraysType
  <2>2. \A o \in Owner : Arrays[o] \in Seq(Cell) /\ DOMAIN Arrays[o] = 1 .. Len(Arrays[o])
    BY <2>1 DEF Rows
  <2> HIDE DEF Arrays
  <2>3. OneHolder <=> Single(Arrays, hand, heap)
    BY <2>1, <2>2 DEF OneHolder, Single, Allocated
  <2>4. \A t \in Text, o \in Owner : t \in Range(Arrays[o]) <=> t \in TextsIn(Arrays[o])
    BY <2>2 DEF Range, TextsIn
  <2>5. OnlyBracesLeak <=> (failed \/ OnlyBraces(Arrays, hand, heap))
    BY <2>1, <2>4 DEF OnlyBracesLeak, Left, OnlyBraces, Allocated
  <2> QED BY <2>3, <2>5
<1>2. ASSUME TypeOK'
      PROVE  /\ OneHolder' <=> Single(Arrays', hand', heap')
             /\ OnlyBracesLeak' <=> (failed' \/ OnlyBraces(Arrays', hand', heap'))
  <2>1. Arrays' \in Rows /\ hand' \in SUBSET Text
    BY <1>2, StateTypes, ArraysAreArrays, ArraysType
  <2>2. \A o \in Owner : Arrays'[o] \in Seq(Cell) /\ DOMAIN Arrays'[o] = 1 .. Len(Arrays'[o])
    BY <2>1 DEF Rows
  <2> HIDE DEF Arrays
  <2>3. OneHolder' <=> Single(Arrays', hand', heap')
    BY <2>1, <2>2 DEF OneHolder, Single, Allocated
  <2>4. \A t \in Text, o \in Owner : t \in Range(Arrays'[o]) <=> t \in TextsIn(Arrays'[o])
    BY <2>2 DEF Range, TextsIn
  <2>5. OnlyBracesLeak' <=> (failed' \/ OnlyBraces(Arrays', hand', heap'))
    BY <2>1, <2>4 DEF OnlyBracesLeak, Left, OnlyBraces, Allocated
  <2> QED BY <2>3, <2>5
<1> QED BY <1>1, <1>2

-----------------------------------------------------------------------------
(* The inductive invariant, and what it says of the memory. *)
BlocksInv == IInv /\ OnlyBracesLeak

NoJunk(s) == \A i \in 1 .. Len(s) : s[i] # JUNK

LEMMA InvSays ==
    ASSUME BlocksInv
    PROVE  /\ tokens \in Lines /\ names \in Nouns /\ heap \in Heaps
           /\ level \in Seq(Text) /\ hand \in SUBSET Text /\ cap \in [Block -> Nat]
           /\ failed \in BOOLEAN /\ depth \in Nat /\ (mode = "run" => ret = NONE)
           /\ (mode = "curly" => ret \in Block /\ tokens[ret] # NONE)
           /\ Arrays \in Rows /\ Single(Arrays, hand, heap)
           /\ (failed \/ OnlyBraces(Arrays, hand, heap))
           /\ \A b \in Block : tokens[b] # NONE =>
                 /\ Len(tokens[b]) <= cap[b] /\ cap[b] > 0
                 /\ failed \/ NoJunk(tokens[b])
<1>1. TypeOK /\ InBounds /\ OneHolder /\ GarbageFromFailure /\ OnlyBracesLeak
  BY DEF BlocksInv, IInv
<1>2. /\ tokens \in Lines /\ names \in Nouns /\ heap \in Heaps
      /\ level \in Seq(Text) /\ hand \in SUBSET Text
  BY <1>1, StateTypes
<1>3. /\ cap \in [Block -> Nat] /\ failed \in BOOLEAN /\ depth \in Nat
      /\ (mode = "run" => ret = NONE)
      /\ (mode = "curly" => ret \in Block /\ tokens[ret] # NONE)
  BY <1>1 DEF TypeOK, Live
<1>4. Arrays \in Rows
  BY <1>2, ArraysAreArrays, ArraysType
<1>5. Single(Arrays, hand, heap) /\ (failed \/ OnlyBraces(Arrays, hand, heap))
  BY <1>1, HoldersAre
<1>6. ASSUME NEW b \in Block, tokens[b] # NONE
      PROVE  /\ Len(tokens[b]) <= cap[b] /\ cap[b] > 0
             /\ failed \/ NoJunk(tokens[b])
  <2>1. Len(tokens[b]) <= cap[b] /\ cap[b] > 0
    BY <1>1, <1>6 DEF InBounds, Live
  <2>2. failed \/ JUNK \notin Range(tokens[b])
    BY <1>1, <1>6 DEF GarbageFromFailure, Live
  <2>3. DOMAIN tokens[b] = 1 .. Len(tokens[b])
    BY <1>2, <1>6 DEF Lines
  <2> QED BY <2>1, <2>2, <2>3 DEF NoJunk, Range
<1> QED BY <1>2, <1>3, <1>4, <1>5, <1>6

(* What has to be shown of a step. *)
LEMMA InvStays ==
    ASSUME tokens' \in Lines, names' \in Nouns, heap' \in Heaps,
           level' \in Seq(Text), hand' \in SUBSET Text, cap' \in [Block -> Nat],
           failed' \in BOOLEAN, depth' \in Nat,
           mode' \in {"run", "curly", "wild", "misread"},
           mode' = "run" => ret' = NONE,
           mode' = "curly" => ret' \in Block /\ tokens'[ret'] # NONE,
           Single(Arrays', hand', heap'),
           failed' \/ OnlyBraces(Arrays', hand', heap'),
           failed' \/ mode' # "wild",
           \A b \in Block : tokens'[b] # NONE =>
              /\ Len(tokens'[b]) <= cap'[b] /\ cap'[b] > 0
              /\ failed' \/ NoJunk(tokens'[b]),
           BraceIsLast'
    PROVE  BlocksInv'
<1>1. TypeOK'
  BY DEF TypeOK, Lines, Nouns, Heaps, Live
<1>2. InBounds'
  BY DEF InBounds, Live
<1>3. OneHolder' /\ OnlyBracesLeak'
  BY <1>1, HoldersAre
<1>4. GarbageFromFailure'
  <2>1. ASSUME NEW b \in Block, tokens'[b] # NONE, ~failed' PROVE JUNK \notin Range(tokens'[b])
    <3>1. DOMAIN tokens'[b] = 1 .. Len(tokens'[b])
      BY <2>1 DEF Lines
    <3> QED BY <2>1, <3>1 DEF NoJunk, Range
  <2> QED BY <2>1 DEF GarbageFromFailure, Live
<1> QED BY <1>1, <1>2, <1>3, <1>4 DEF BlocksInv, IInv

(* What an array says. *)
LEMMA SaidFacts ==
    ASSUME NEW h \in Heaps, NEW s \in Seq(Cell),
           \A i \in 1 .. Len(s) : s[i] \in Text => h[s[i]] # NONE
    PROVE  /\ Said(h, s) \in Seq(Word \cup {Garbage}) /\ Said(h, s) # NONE
           /\ Len(Said(h, s)) = Len(s)
           /\ \A i \in 1 .. Len(s) :
                 Said(h, s)[i] = IF s[i] = JUNK THEN Garbage ELSE h[s[i]]
           /\ (NoJunk(s) => Said(h, s) \in Seq(Word))
<1>1. ASSUME NEW i \in 1 .. Len(s)
      PROVE  /\ (IF s[i] = JUNK THEN Garbage ELSE h[s[i]]) \in Word \cup {Garbage}
             /\ (s[i] # JUNK => (IF s[i] = JUNK THEN Garbage ELSE h[s[i]]) \in Word)
  <2>1. s[i] = JUNK \/ s[i] \in Text
    BY DEF Cell
  <2> QED BY <2>1 DEF Heaps
<1>2. Len(s) \in Nat
  OBVIOUS
<1> DEFINE n == Len(s)
<1> HIDE DEF n
<1>3. Said(h, s) = [i \in 1 .. n |-> IF s[i] = JUNK THEN Garbage ELSE h[s[i]]]
  BY DEF Said, n
<1>4. Said(h, s) \in Seq(Word \cup {Garbage}) /\ Len(Said(h, s)) = n
  BY <1>1, <1>2, <1>3 DEF n
<1>5. ASSUME NoJunk(s) PROVE Said(h, s) \in Seq(Word)
  <2>1. \A i \in 1 .. n : (IF s[i] = JUNK THEN Garbage ELSE h[s[i]]) \in Word
    BY <1>1, <1>5 DEF NoJunk, n
  <2> QED BY <1>2, <1>3, <2>1 DEF n
<1> QED BY <1>3, <1>4, <1>5, NoneIsNoList DEF n

LEMMA ReadingIs ==
    /\ \A s \in Seq(Cell) : Reading(s) = Said(heap, s)
    /\ level \in Seq(Text) => Reading(level) = Said(heap, level)
    /\ level' \in Seq(Text) => Reading(level)' = Said(heap', level')
<1>1. \A s \in Seq(Cell) : DOMAIN s = 1 .. Len(s)
  OBVIOUS
<1>2. \A s \in Seq(Text) : s \in Seq(Cell)
  BY NoneIsNoList
<1> QED BY <1>1, <1>2 DEF Reading, Said

(* What the texts of o are used for, if nothing is left behind.            *)
Kept(R, H, h, o, s, G, g) ==
    \A t \in Text : \/ g[t] \in {NONE, "}"} \/ t \in G \/ t \in TextsIn(s)
                    \/ t \notin Own(R, H, h, o) /\ g[t] = h[t]

(* The program goes on, or curly with the block b. *)
Turn(b, v) ==
    /\ depth' \in Nat
    /\ \/ mode' = "run" /\ ret' = NONE
       \/ /\ mode' = "curly" /\ ret' = b /\ v # NONE
          /\ depth' = 0 => failed' \/ (v # <<>> /\ heap'[Last(v)] = "}")

(* A step in which only the block b gets another array. *)
BlockMove(b, v, w) ==
    /\ v \in {NONE} \cup Seq(Cell) /\ w \in Nat
    /\ tokens' = Put(tokens, b, v) /\ cap' = Put(cap, b, w)
    /\ names' = names /\ level' = level
    /\ hand' \in SUBSET Text /\ heap' \in Heaps
    /\ failed' \in BOOLEAN /\ (failed => failed')
    /\ Change(Arrays, hand, heap, b, Row(v), hand', heap')
    /\ failed' \/ Kept(Arrays, hand, heap, b, Row(v), hand', heap')
    /\ v # NONE => Len(v) <= w /\ w > 0 /\ (failed' \/ NoJunk(v))
    /\ Turn(b, v)

(* Such a step keeps the invariant, and changes one list. *)
LEMMA BlockMoves ==
    ASSUME BlocksInv, NEW b \in Block, NEW v, NEW w, BlockMove(b, v, w)
    PROVE  /\ BlocksInv'
           /\ Lists' = Put(Lists, b, Lists'[b])
           /\ Lists[b] = List(heap, tokens[b]) /\ Lists'[b] = List(heap', v)
           /\ Reading(level)' = Reading(level)
<1>. USE DEF BlockMove
<1>1. /\ tokens \in Lines /\ names \in Nouns /\ heap \in Heaps
      /\ level \in Seq(Text) /\ hand \in SUBSET Text /\ cap \in [Block -> Nat]
      /\ Arrays \in Rows /\ Single(Arrays, hand, heap)
      /\ (failed \/ OnlyBraces(Arrays, hand, heap))
  BY InvSays
<1>2. /\ Arrays' = Put(Arrays, b, Row(v)) /\ tokens' \in Lines
      /\ b \in Owner
  <2>1. /\ tokens' \in Lines
        /\ ArraysOf(tokens', names, level) = Put(ArraysOf(tokens, names, level), b, Row(v))
    BY <1>1, BlockChange
  <2>2. Arrays = ArraysOf(tokens, names, level) /\ Arrays' = ArraysOf(tokens', names, level)
    BY ArraysAreArrays
  <2>3. b \in Owner
    BY DEF Owner
  <2> QED BY <2>1, <2>2, <2>3
<1>3. Row(v) \in Seq(Cell)
  BY DEF Row
<1> HIDE DEF Row
<1>4. Single(Arrays', hand', heap')
  BY <1>1, <1>2, <1>3, SingleStays
<1>5. failed' \/ OnlyBraces(Arrays', hand', heap')
  BY <1>1, <1>2, <1>3, BracesStay DEF Kept
<1>6. BlocksInv'
  <2>1. /\ names' \in Nouns /\ level' \in Seq(Text) /\ cap' \in [Block -> Nat]
        /\ depth' \in Nat /\ mode' \in {"run", "curly", "wild", "misread"}
        /\ (mode' = "run" => ret' = NONE)
    BY <1>1 DEF Turn, Put
  <2>2. tokens'[b] = v /\ \A c \in Block : c # b => tokens'[c] = tokens[c]
    BY <1>1 DEF Lines, Put
  <2>3. cap'[b] = w /\ \A c \in Block : c # b => cap'[c] = cap[c]
    BY <1>1 DEF Put
  <2>4. mode' = "curly" => ret' \in Block /\ tokens'[ret'] # NONE
    BY <2>2 DEF Turn
  <2>5. ASSUME NEW c \in Block, tokens'[c] # NONE
        PROVE  /\ Len(tokens'[c]) <= cap'[c] /\ cap'[c] > 0
               /\ failed' \/ NoJunk(tokens'[c])
    BY <2>2, <2>3, <2>5, InvSays
  <2>6. BraceIsLast'
    BY <2>2 DEF BraceIsLast, Turn
  <2>7. failed' \/ mode' # "wild"
    BY DEF Turn
  <2> QED BY <1>2, <1>4, <1>5, <2>1, <2>4, <2>5, <2>6, <2>7, InvStays
<1>7. Lists = ListsOf(tokens, names, heap) /\ Lists' = ListsOf(tokens', names', heap')
  BY <1>6, ListsAreLists DEF BlocksInv, IInv
<1>8. ASSUME NEW p \in Owner, p # b PROVE Said(heap', Arrays[p]) = Said(heap, Arrays[p])
  <2> DEFINE s == Row(v)
             R == Arrays
  <2>1. b # p /\ s \in Seq(Cell) /\ R \in Rows /\ Single(R, hand, heap)
    BY <1>1, <1>3, <1>8
  <2>2. Change(R, hand, heap, b, s, hand', heap')
    OBVIOUS
  <2> HIDE DEF s, R
  <2>3. Said(heap', R[p]) = Said(heap, R[p])
    BY <1>1, <1>2, <2>1, <2>2, OthersStay
  <2> QED BY <2>3 DEF R
<1>9. ASSUME NEW p \in Block \cup Type, p # b PROVE Lists'[p] = Lists[p]
  <2>1. CASE p \in Block
    <3>1. tokens'[p] = tokens[p] /\ p \in Owner /\ (tokens[p] # NONE => Arrays[p] = tokens[p])
      BY <1>1, <1>9, <2>1, ArraysAreArrays, ArraysAre DEF Lines, Put
    <3> QED BY <1>7, <1>8, <1>9, <2>1, <3>1 DEF ListsOf
  <2>2. CASE p \in Type /\ p \notin Block
    <3>1. p \in Owner /\ (names[p] # NONE => Arrays[p] = names[p]) /\ names' = names
      BY <2>2, ArraysAreArrays, ArraysAre
    <3> QED BY <1>7, <1>8, <1>9, <2>2, <3>1 DEF ListsOf
  <2> QED BY <1>9, <2>1, <2>2
<1>10. Lists[b] = List(heap, tokens[b]) /\ Lists'[b] = List(heap', v)
  <2>1. tokens'[b] = v
    BY <1>1 DEF Lines, Put
  <2> QED BY <1>7, <2>1 DEF ListsOf, List
<1>11. Lists' = Put(Lists, b, Lists'[b])
  <2> DEFINE A == ListsOf(tokens, names, heap)
             B == ListsOf(tokens', names', heap')
  <2>1. /\ A = [o \in Block \cup Type |-> A[o]]
        /\ B = [o \in Block \cup Type |-> B[o]]
    BY DEF ListsOf
  <2>2. \A p \in Block \cup Type : p # b => B[p] = A[p]
    BY <1>7, <1>9
  <2> HIDE DEF A, B
  <2>3. B = Put(A, b, B[b])
    BY <2>1, <2>2 DEF Put
  <2> QED BY <1>7, <2>3 DEF A, B
<1>12. Reading(level)' = Reading(level)
  <2>1. "level" \in Owner /\ "level" # b /\ Arrays["level"] = level
    BY ArraysAreArrays, ArraysAre, OwnersAssumption
  <2>2. Said(heap', level) = Said(heap, level)
    BY <1>8, <2>1
  <2> QED BY <1>1, <2>2, ReadingIs
<1> QED BY <1>6, <1>10, <1>11, <1>12

(* A step in which only the type y gets another array. *)
TypeMove(y, v) ==
    /\ v \in {NONE} \cup Seq(Text) /\ names' = Put(names, y, v) /\ mode = "run"
    /\ tokens' = tokens /\ cap' = cap /\ calls' = calls /\ mode' = mode
    /\ failed' = failed /\ hand' = hand /\ heap' \in Heaps
    /\ Change(Arrays, hand, heap, y, Row(v), hand, heap')
    /\ Kept(Arrays, hand, heap, y, Row(v), hand, heap')

(* The same of a type, and of the level. *)
LEMMA TypeMoves ==
    ASSUME BlocksInv, NEW y \in Type, NEW v, TypeMove(y, v)
    PROVE  /\ BlocksInv'
           /\ Lists' = Put(Lists, y, Lists'[y])
           /\ Lists[y] = List(heap, names[y]) /\ Lists'[y] = List(heap', v)
           /\ Reading(level)' = Reading(level)
<1>. USE DEF TypeMove
<1>1. /\ tokens \in Lines /\ names \in Nouns /\ heap \in Heaps
      /\ level \in Seq(Text) /\ hand \in SUBSET Text /\ cap \in [Block -> Nat]
      /\ Arrays \in Rows /\ Single(Arrays, hand, heap)
      /\ (failed \/ OnlyBraces(Arrays, hand, heap))
      /\ failed \in BOOLEAN /\ depth \in Nat /\ (mode = "run" => ret = NONE)
      /\ \A b \in Block : tokens[b] # NONE =>
                 /\ Len(tokens[b]) <= cap[b] /\ cap[b] > 0
                 /\ failed \/ NoJunk(tokens[b])
  BY InvSays
<1>2. /\ Arrays' = Put(Arrays, y, Row(v)) /\ names' \in Nouns
      /\ y \in Owner /\ y \notin Block
  <2>1. /\ names' \in Nouns
        /\ ArraysOf(tokens, names', level) = Put(ArraysOf(tokens, names, level), y, Row(v))
    BY <1>1, TypeChange
  <2>2. Arrays = ArraysOf(tokens, names, level) /\ Arrays' = ArraysOf(tokens, names', level)
    BY ArraysAreArrays DEF calls
  <2>3. y \in Owner /\ y \notin Block
    BY OwnersAssumption DEF Owner
  <2> QED BY <2>1, <2>2, <2>3
<1>3. Row(v) \in Seq(Cell)
  BY NoneIsNoList DEF Row
<1>4. Single(Arrays', hand', heap')
  BY <1>1, <1>2, <1>3, SingleStays
<1>5. failed' \/ OnlyBraces(Arrays', hand', heap')
  BY <1>1, <1>2, <1>3, BracesStay DEF Kept
<1>6. BlocksInv'
  <2>1. /\ tokens' = tokens /\ cap' = cap /\ mode' = "run" /\ ret' = ret
        /\ depth' = depth /\ level' = level /\ hand' = hand /\ failed' = failed
    BY DEF calls
  <2>2. BraceIsLast'
    BY <2>1 DEF BraceIsLast
  <2> QED BY <1>1, <1>2, <1>4, <1>5, <2>1, <2>2, InvStays
<1>7. Lists = ListsOf(tokens, names, heap) /\ Lists' = ListsOf(tokens', names', heap')
  BY <1>6, ListsAreLists DEF BlocksInv, IInv
<1>8. ASSUME NEW p \in Owner, p # y PROVE Said(heap', Arrays[p]) = Said(heap, Arrays[p])
  <2> DEFINE s == Row(v)
             R == Arrays
  <2>1. y # p /\ s \in Seq(Cell) /\ R \in Rows /\ Single(R, hand, heap)
    BY <1>1, <1>3, <1>8
  <2>2. Change(R, hand, heap, y, s, hand', heap') /\ hand' \in SUBSET Text
    BY <1>1
  <2> HIDE DEF s, R
  <2>3. Said(heap', R[p]) = Said(heap, R[p])
    BY <1>1, <1>2, <2>1, <2>2, OthersStay
  <2> QED BY <2>3 DEF R
<1>9. ASSUME NEW p \in Block \cup Type, p # y PROVE Lists'[p] = Lists[p]
  <2>1. CASE p \in Block
    <3>1. tokens' = tokens /\ p \in Owner /\ (tokens[p] # NONE => Arrays[p] = tokens[p])
      BY <2>1, ArraysAreArrays, ArraysAre
    <3> QED BY <1>7, <1>8, <1>9, <2>1, <3>1 DEF ListsOf
  <2>2. CASE p \in Type /\ p \notin Block
    <3>1. p \in Owner /\ (names[p] # NONE => Arrays[p] = names[p]) /\ names'[p] = names[p]
      BY <1>1, <1>9, <2>2, ArraysAreArrays, ArraysAre DEF Nouns, Put
    <3> QED BY <1>7, <1>8, <1>9, <2>2, <3>1 DEF ListsOf
  <2> QED BY <1>9, <2>1, <2>2
<1>10. Lists[y] = List(heap, names[y]) /\ Lists'[y] = List(heap', v)
  <2>1. names'[y] = v
    BY <1>1 DEF Nouns, Put
  <2> QED BY <1>2, <1>7, <2>1 DEF ListsOf, List
<1>11. Lists' = Put(Lists, y, Lists'[y])
  <2> DEFINE A == ListsOf(tokens, names, heap)
             B == ListsOf(tokens', names', heap')
  <2>1. /\ A = [o \in Block \cup Type |-> A[o]]
        /\ B = [o \in Block \cup Type |-> B[o]]
    BY DEF ListsOf
  <2>2. \A p \in Block \cup Type : p # y => B[p] = A[p]
    BY <1>7, <1>9
  <2> HIDE DEF A, B
  <2>3. B = Put(A, y, B[y])
    BY <2>1, <2>2 DEF Put
  <2> QED BY <1>7, <2>3 DEF A, B
<1>12. Reading(level)' = Reading(level)
  <2>1. "level" \in Owner /\ "level" # y /\ Arrays["level"] = level /\ level' = level
    BY ArraysAreArrays, ArraysAre, OwnersAssumption DEF calls
  <2>2. Said(heap', level) = Said(heap, level)
    BY <1>8, <2>1
  <2> QED BY <1>1, <2>1, <2>2, ReadingIs
<1> QED BY <1>6, <1>10, <1>11, <1>12

(* A step in which only the level changes, or what is in hand.             *)
LevelMove(v) ==
    /\ v \in Seq(Text) /\ level' = v
    /\ tokens' = tokens /\ cap' = cap /\ names' = names /\ mode' = mode /\ ret' = ret
    /\ hand' \in SUBSET Text /\ heap' \in Heaps
    /\ failed' \in BOOLEAN /\ (failed => failed') /\ depth' \in Nat
    /\ mode \in {"run", "curly"} /\ (mode = "curly" => failed')
    /\ Change(Arrays, hand, heap, "level", v, hand', heap')
    /\ failed' \/ Kept(Arrays, hand, heap, "level", v, hand', heap')

LEMMA LevelMoves ==
    ASSUME BlocksInv, NEW v, LevelMove(v)
    PROVE  BlocksInv' /\ Lists' = Lists
<1>. USE DEF LevelMove
<1>1. /\ tokens \in Lines /\ names \in Nouns /\ heap \in Heaps
      /\ level \in Seq(Text) /\ hand \in SUBSET Text /\ cap \in [Block -> Nat]
      /\ Arrays \in Rows /\ Single(Arrays, hand, heap)
      /\ (failed \/ OnlyBraces(Arrays, hand, heap))
      /\ (mode = "run" => ret = NONE)
      /\ (mode = "curly" => ret \in Block /\ tokens[ret] # NONE)
      /\ \A b \in Block : tokens[b] # NONE =>
                 /\ Len(tokens[b]) <= cap[b] /\ cap[b] > 0
                 /\ failed \/ NoJunk(tokens[b])
  BY InvSays
<1>2. Arrays' = Put(Arrays, "level", v) /\ "level" \in Owner /\ v \in Seq(Cell)
  <2>1. ArraysOf(tokens, names, level') = Put(ArraysOf(tokens, names, level), "level", v)
    BY <1>1, LevelChange
  <2>2. Arrays = ArraysOf(tokens, names, level) /\ Arrays' = ArraysOf(tokens, names, level')
    BY ArraysAreArrays
  <2> QED BY <2>1, <2>2, NoneIsNoList DEF Owner
<1>3. Single(Arrays', hand', heap')
  BY <1>1, <1>2, SingleStays
<1>4. failed' \/ OnlyBraces(Arrays', hand', heap')
  BY <1>1, <1>2, BracesStay DEF Kept
<1>5. BlocksInv'
  <2>1. BraceIsLast'
    BY DEF BraceIsLast
  <2> QED BY <1>1, <1>3, <1>4, <2>1, InvStays
<1>6. Lists = ListsOf(tokens, names, heap) /\ Lists' = ListsOf(tokens, names, heap')
  BY <1>5, ListsAreLists DEF BlocksInv, IInv
<1>7. ASSUME NEW p \in Owner, p # "level" PROVE Said(heap', Arrays[p]) = Said(heap, Arrays[p])
  <2> DEFINE R == Arrays
  <2>1. R \in Rows /\ Single(R, hand, heap) /\ "level" # p
    BY <1>1, <1>7
  <2>2. Change(R, hand, heap, "level", v, hand', heap')
    OBVIOUS
  <2> HIDE DEF R
  <2>3. Said(heap', R[p]) = Said(heap, R[p])
    BY <1>1, <1>2, <2>1, <2>2, OthersStay
  <2> QED BY <2>3 DEF R
<1>8. ASSUME NEW p \in Block, tokens[p] # NONE PROVE Said(heap', tokens[p]) = Said(heap, tokens[p])
  <2>1. p \in Owner /\ Arrays[p] = tokens[p] /\ p # "level"
    BY <1>8, ArraysAreArrays, ArraysAre, OwnersAssumption
  <2> QED BY <1>7, <2>1
<1>9. ASSUME NEW p \in Type, names[p] # NONE PROVE Said(heap', names[p]) = Said(heap, names[p])
  <2>1. p \in Owner /\ Arrays[p] = names[p] /\ p # "level"
    BY <1>9, ArraysAreArrays, ArraysAre, OwnersAssumption
  <2> QED BY <1>7, <2>1
<1>10. Lists' = Lists
  BY <1>6, <1>8, <1>9 DEF ListsOf
<1> QED BY <1>5, <1>10

-----------------------------------------------------------------------------
(* What the functions do to the memory. *)
LEMMA RowSays ==
    ASSUME NEW R \in Rows, NEW H \in SUBSET Text, NEW h \in Heaps, Single(R, H, h),
           NEW o \in Owner
    PROVE  /\ Distinct(R[o])
           /\ \A i \in 1 .. Len(R[o]) : R[o][i] \in Text =>
                 h[R[o][i]] # NONE /\ R[o][i] \notin H
           /\ \A t \in H : h[t] # NONE
           /\ \A t \in TextsIn(R[o]) : t \in Text /\ t \notin H /\ h[t] # NONE
<1>1. /\ \A i \in 1 .. Len(R[o]) : R[o][i] \in Text =>
            h[R[o][i]] # NONE /\ R[o][i] \notin H
      /\ \A t \in H : h[t] # NONE
      /\ \A i, j \in 1 .. Len(R[o]) : R[o][i] \in Text /\ R[o][i] = R[o][j] => i = j
  BY DEF Single
<1> QED BY <1>1 DEF Distinct, TextsIn

Held(s, H, h) ==
    /\ Distinct(s)
    /\ \A i \in 1 .. Len(s) : s[i] \in Text => h[s[i]] # NONE /\ s[i] \notin H
    /\ \A t \in H : h[t] # NONE
    /\ \A t \in TextsIn(s) : t \in Text /\ t \notin H /\ h[t] # NONE

LEMMA RowHeld ==
    ASSUME NEW R \in Rows, NEW H \in SUBSET Text, NEW h \in Heaps, Single(R, H, h),
           NEW o \in Owner, NEW s, R[o] = s
    PROVE  Held(s, H, h)
<1>1. Held(R[o], H, h)
  <2>1. Distinct(R[o])
    BY RowSays
  <2>2. \A i \in 1 .. Len(R[o]) : R[o][i] \in Text => h[R[o][i]] # NONE /\ R[o][i] \notin H
    BY RowSays
  <2>3. /\ \A t \in H : h[t] # NONE
        /\ \A t \in TextsIn(R[o]) : t \in Text /\ t \notin H /\ h[t] # NONE
    BY RowSays
  <2> QED BY <2>1, <2>2, <2>3 DEF Held
<1> QED BY <1>1

(* Something new gets texts of its own. *)
Spoken(g, s, ws) ==
    \A i \in 1 .. Len(s) : Said(g, s)[i] = IF s[i] = JUNK THEN Garbage ELSE ws[i]

LEMMA MakeChange ==
    ASSUME NEW R \in Rows, NEW H \in SUBSET Text, NEW h \in Heaps, Single(R, H, h),
           NEW o \in Owner, R[o] = <<>>, NEW s \in Seq(Cell), Distinct(s),
           \A i \in 1 .. Len(s) : s[i] \in Text => h[s[i]] = NONE,
           NEW ws \in Seq(Word), Len(ws) = Len(s)
    PROVE  /\ Filled(h, s, ws) \in Heaps
           /\ Change(R, H, h, o, s, H, Filled(h, s, ws))
           /\ Kept(R, H, h, o, s, H, Filled(h, s, ws))
           /\ Spoken(Filled(h, s, ws), s, ws)
<1> DEFINE g == Filled(h, s, ws)
<1>1. /\ g \in Heaps
      /\ \A i \in 1 .. Len(s) : s[i] \in Text => g[s[i]] = ws[i]
      /\ \A t \in Text : t \notin TextsIn(s) => g[t] = h[t]
  BY FilledFacts
<1> HIDE DEF g
<1>2. \A i \in 1 .. Len(s) : ws[i] \in Word /\ (s[i] = JUNK \/ s[i] \in Text)
  BY DEF Cell
<1>3. \A t \in TextsIn(s) : t \in Text /\ h[t] = NONE /\ g[t] \in Word
  BY <1>1, <1>2 DEF TextsIn
<1>4. NONE \notin Word /\ TextsIn(<<>>) = {} /\ TextsIn(R[o]) = {}
  BY NoneAssumption DEF TextsIn
<1>5. \A t \in H : h[t] # NONE
  BY RowSays
<1>6. Change(R, H, h, o, s, H, g)
  <2>1. \A t \in TextsIn(s) : t \in Own(R, H, h, o) \ H /\ g[t] # NONE
    BY <1>3, <1>4, <1>5 DEF Own
  <2>2. \A t \in H : t \in Own(R, H, h, o) /\ g[t] # NONE
    BY <1>1, <1>3, <1>5 DEF Own
  <2>3. \A t \in Text : t \in Own(R, H, h, o) \/ g[t] = h[t]
    BY <1>1, <1>3 DEF Own
  <2> QED BY <2>1, <2>2, <2>3 DEF Change
<1>7. Kept(R, H, h, o, s, H, g)
  BY <1>1, <1>4 DEF Kept, Own
<1>8. Spoken(g, s, ws)
  BY <1>1, <1>2 DEF Said, Spoken
<1> QED BY <1>1, <1>6, <1>7, <1>8 DEF g

(* All its texts are freed. *)
LEMMA DropChange ==
    ASSUME NEW R \in Rows, NEW H \in SUBSET Text, NEW h \in Heaps, Single(R, H, h),
           NEW o \in Owner
    PROVE  /\ Disposed(h, R[o]) \in Heaps
           /\ Change(R, H, h, o, <<>>, H, Disposed(h, R[o]))
           /\ Kept(R, H, h, o, <<>>, H, Disposed(h, R[o]))
<1> DEFINE g == Disposed(h, R[o])
<1>1. R[o] \in Seq(Int)
  BY IntegerCells DEF Rows
<1>2. /\ g \in Heaps
      /\ \A t \in Text : t \in TextsIn(R[o]) => g[t] = NONE
      /\ \A t \in Text : t \notin TextsIn(R[o]) => g[t] = h[t]
  BY <1>1, DisposedFacts
<1> HIDE DEF g
<1>3. /\ \A t \in H : h[t] # NONE
      /\ \A t \in TextsIn(R[o]) : t \in Text /\ t \notin H /\ h[t] # NONE
  BY RowSays
<1>4. TextsIn(<<>>) = {} /\ Distinct(<<>>)
  BY DEF TextsIn, Distinct
<1>5. Change(R, H, h, o, <<>>, H, g)
  BY <1>2, <1>3, <1>4 DEF Change, Own
<1>6. Kept(R, H, h, o, <<>>, H, g)
  BY <1>2, <1>3, <1>4 DEF Kept, Own
<1> QED BY <1>2, <1>5, <1>6 DEF g

(* One text is allocated. *)
LEMMA OneText ==
    ASSUME heap \in Heaps, HasRoom(1), NEW w \in Word
    PROVE  /\ Fresh(1) \in Seq(Cell) /\ Len(Fresh(1)) = 1
           /\ Fresh(1)[1] \in Text /\ heap[Fresh(1)[1]] = NONE
           /\ Filled(heap, Fresh(1), <<w>>) \in Heaps
           /\ Filled(heap, Fresh(1), <<w>>)[Fresh(1)[1]] = w
           /\ \A t \in Text : t # Fresh(1)[1] => Filled(heap, Fresh(1), <<w>>)[t] = heap[t]
<1> DEFINE s == Fresh(1)
<1>1. NewTexts(s, 1, heap)
  BY FreshTexts
<1> HIDE DEF s
<1>2. s \in Seq(Text) /\ s \in Seq(Cell) /\ Len(s) = 1 /\ s[1] \in Text /\ heap[s[1]] = NONE
  BY <1>1, NoneIsNoList DEF NewTexts
<1>3. Distinct(s) /\ \A t \in Text : t \in TextsIn(s) <=> t = s[1]
  BY <1>2 DEF Distinct, TextsIn
<1>4. <<w>> \in Seq(Word) /\ Len(<<w>>) = 1 /\ <<w>>[1] = w
  OBVIOUS
<1> DEFINE ws == <<w>>
<1>5. ws \in Seq(Word) /\ Len(ws) = 1 /\ ws[1] = w
  BY <1>4
<1> HIDE DEF ws
<1>6. /\ Filled(heap, s, ws) \in Heaps
      /\ Filled(heap, s, ws)[s[1]] = w
      /\ \A t \in Text : t # s[1] => Filled(heap, s, ws)[t] = heap[t]
  BY <1>2, <1>3, <1>5, FilledFacts
<1> QED BY <1>2, <1>6 DEF s, ws

LEMMA SameSaid ==
    ASSUME NEW h \in Heaps, NEW g \in Heaps, NEW s \in Seq(Cell),
           \A t \in TextsIn(s) : g[t] = h[t]
    PROVE  Said(g, s) = Said(h, s)
<1>1. \A i \in 1 .. Len(s) : s[i] = JUNK \/ s[i] \in TextsIn(s)
  BY DEF TextsIn, Cell
<1> QED BY <1>1 DEF Said

-----------------------------------------------------------------------------
(* A step of Blocks keeps the invariant and is one of WordLists, or none.  *)
Good == BlocksInv' /\ [WL!Next]_(WL!vars)

LEMMA MakeTokenGood ==
    ASSUME BlocksInv, NEW w \in Token, MakeToken(w), UNCHANGED <<names, calls>>
    PROVE  Good
<1> DEFINE f == Fresh(1)[1]
           s == Fresh(1)
<1>1. /\ heap \in Heaps /\ level \in Seq(Text) /\ hand \in SUBSET Text
      /\ Arrays \in Rows /\ Single(Arrays, hand, heap)
      /\ failed \in BOOLEAN /\ depth \in Nat /\ Arrays["level"] = level /\ "level" \in Owner
  BY InvSays, ArraysAreArrays, ArraysAre
<1>2. /\ f \in Text /\ heap[f] = NONE /\ heap' \in Heaps /\ heap'[f] = w
      /\ \A t \in Text : t # f => heap'[t] = heap[t]
  BY <1>1, OneText, WordsAssumption DEF MakeToken
<1>3. hand' = hand \cup {f} /\ hand' \in SUBSET Text /\ level' = level
  BY <1>1, <1>2 DEF MakeToken, calls
<1> HIDE DEF f
<1>4. /\ Distinct(level) /\ \A t \in hand : heap[t] # NONE
      /\ \A t \in TextsIn(level) : t \in Text /\ t \notin hand /\ heap[t] # NONE
  BY <1>1, RowSays
<1>5. w # NONE
  BY NoneAssumption, WordsAssumption
<1>6. Change(Arrays, hand, heap, "level", level, hand', heap')
  BY <1>1, <1>2, <1>3, <1>4, <1>5 DEF Change, Own
<1>7. Kept(Arrays, hand, heap, "level", level, hand', heap')
  BY <1>1, <1>2, <1>3, <1>4 DEF Kept, Own
<1>8. LevelMove(level)
  BY <1>1, <1>2, <1>3, <1>6, <1>7 DEF LevelMove, MakeToken, calls
<1>9. BlocksInv' /\ Lists' = Lists
  BY <1>8, LevelMoves
<1>10. Reading(level)' = Reading(level)
  <2>1. level \in Seq(Cell) /\ \A t \in TextsIn(level) : heap'[t] = heap[t]
    BY <1>1, <1>2, <1>4, NoneIsNoList
  <2> QED BY <1>1, <1>2, <1>3, <2>1, SameSaid, ReadingIs
<1> QED BY <1>9, <1>10 DEF Good, WL!vars

LEMMA DropTokenGood ==
    ASSUME BlocksInv, NEW x \in hand, DropToken(x), UNCHANGED <<names, calls>>
    PROVE  Good
<1>1. /\ heap \in Heaps /\ level \in Seq(Text) /\ hand \in SUBSET Text
      /\ Arrays \in Rows /\ Single(Arrays, hand, heap)
      /\ failed \in BOOLEAN /\ depth \in Nat /\ Arrays["level"] = level /\ "level" \in Owner
  BY InvSays, ArraysAreArrays, ArraysAre
<1> DEFINE s == <<x>>
<1>2. /\ heap' \in Heaps /\ heap'[x] = NONE
      /\ \A t \in Text : t # x => heap'[t] = heap[t]
  <2>1. x \in Text /\ x \in Int
    BY <1>1, TextsFinite
  <2>2. s \in Seq(Int) /\ \A t \in Text : t \in TextsIn(s) <=> t = x
    BY <2>1 DEF TextsIn
  <2>3. heap' = Disposed(heap, s)
    BY DEF DropToken
  <2> HIDE DEF s
  <2> QED BY <1>1, <2>1, <2>2, <2>3, DisposedFacts
<1>3. hand' = hand \ {x} /\ hand' \in SUBSET Text /\ level' = level
  BY <1>1 DEF DropToken, calls
<1>4. /\ Distinct(level) /\ \A t \in hand : heap[t] # NONE
      /\ \A t \in TextsIn(level) : t \in Text /\ t \notin hand /\ heap[t] # NONE
  BY <1>1, RowSays
<1>6. Change(Arrays, hand, heap, "level", level, hand', heap')
  BY <1>1, <1>2, <1>3, <1>4 DEF Change, Own
<1>7. Kept(Arrays, hand, heap, "level", level, hand', heap')
  BY <1>1, <1>2, <1>3, <1>4 DEF Kept, Own
<1>8. LevelMove(level)
  BY <1>1, <1>2, <1>3, <1>6, <1>7 DEF LevelMove, DropToken, calls
<1>9. BlocksInv' /\ Lists' = Lists
  BY <1>8, LevelMoves
<1>10. Reading(level)' = Reading(level)
  <2>1. level \in Seq(Cell) /\ \A t \in TextsIn(level) : heap'[t] = heap[t]
    BY <1>1, <1>2, <1>4, NoneIsNoList
  <2> QED BY <1>1, <1>2, <1>3, <2>1, SameSaid, ReadingIs
<1> QED BY <1>9, <1>10 DEF Good, WL!vars

(* A pointer is followed that was never set: only after a failure. *)
LEMMA WildGood ==
    ASSUME BlocksInv, failed, mode' = "wild",
           UNCHANGED <<heap, failed, tokens, cap, hand, names, calls>>
    PROVE  Good
<1>1. /\ tokens \in Lines /\ names \in Nouns /\ heap \in Heaps
      /\ level \in Seq(Text) /\ hand \in SUBSET Text /\ cap \in [Block -> Nat]
      /\ failed \in BOOLEAN /\ depth \in Nat
      /\ Single(Arrays, hand, heap)
      /\ \A b \in Block : tokens[b] # NONE => Len(tokens[b]) <= cap[b] /\ cap[b] > 0
  BY InvSays
<1>2. /\ heap' = heap /\ failed' /\ failed' = failed /\ tokens' = tokens /\ cap' = cap
      /\ hand' = hand /\ names' = names /\ level' = level /\ depth' = depth
  BY DEF calls
<1>3. Arrays' = Arrays /\ Lists' = Lists /\ Reading(level)' = Reading(level)
  BY <1>2 DEF Arrays, Lists, Reading, Live
<1>4. BraceIsLast'
  BY DEF BraceIsLast
<1>5. BlocksInv'
  BY <1>1, <1>2, <1>3, <1>4, InvStays
<1> QED BY <1>3, <1>5 DEF Good, WL!vars

LEMMA SoundRow ==
    ASSUME NEW R \in Rows, NEW H \in SUBSET Text, NEW h \in Heaps, Single(R, H, h),
           NEW o \in Owner, NoJunk(R[o])
    PROVE  Sound(h, R[o]) /\ \A i \in 1 .. Len(R[o]) : Sound(h, <<R[o][i]>>)
<1> DEFINE s == R[o]
<1>1. s \in Seq(Cell)
  BY DEF Rows
<1>2. /\ Distinct(s)
      /\ \A i \in 1 .. Len(s) : s[i] \in Text => h[s[i]] # NONE
  BY RowSays
<1> HIDE DEF s
<1>3. \A i \in 1 .. Len(s) : s[i] \in Text
  BY <1>1 DEF NoJunk, Cell, s
<1>4. Sound(h, s)
  <2>1. DOMAIN s = 1 .. Len(s) /\ Len(s) \in Nat
    BY <1>1
  <2>2. ASSUME NEW i \in 1 .. Len(s), NEW j \in 1 .. i - 1 PROVE s[j] # s[i]
    <3>1. j \in 1 .. Len(s) /\ j # i
      BY <2>1
    <3> QED BY <1>2, <1>3, <3>1 DEF Distinct
  <2> QED BY <1>2, <1>3, <2>1, <2>2 DEF Sound
<1>5. ASSUME NEW i \in 1 .. Len(s) PROVE Sound(h, <<s[i]>>)
  BY <1>2, <1>3 DEF Sound
<1> QED BY <1>4, <1>5 DEF s

(* What is sound has no junk: free is given nothing else. *)
LEMMA SoundIsText ==
    ASSUME NEW h, NEW s \in Seq(Cell), Sound(h, s)
    PROVE  NoJunk(s) /\ \A i \in 1 .. Len(s) : s[i] \in Text /\ h[s[i]] # NONE
<1>1. \A i \in 1 .. Len(s) : s[i] = NULL \/ (s[i] \in Text /\ h[s[i]] # NONE)
  BY DEF Sound
<1>2. \A i \in 1 .. Len(s) : s[i] # NULL
  BY TextsFinite DEF Cell, JUNK, NULL
<1> QED BY <1>1, <1>2, TextsFinite DEF NoJunk

LEMMA ListIs ==
    ASSUME BlocksInv
    PROVE  /\ \A b \in Block : Lists[b] = List(heap, tokens[b])
           /\ \A y \in Type : Lists[y] = List(heap, names[y])
<1>1. Lists = ListsOf(tokens, names, heap)
  BY ListsAreLists DEF BlocksInv, IInv
<1> QED BY <1>1, OwnersAssumption DEF ListsOf, List

(* The steps of WordLists. *)
LEMMA ListStep ==
    ASSUME NEW o \in Block \cup Type, Lists' = Put(Lists, o, Lists'[o]),
           Reading(level)' = Reading(level),
           \/ WL!Make(o) \/ WL!Drop(o) \/ \E p \in Block \cup Type : WL!Copy(o, p)
           \/ o \in Block /\ WL!Edit(o)
    PROVE  [WL!Next]_(WL!vars)
  BY DEF WL!Next, WL!Owner, WL!Only, Put

-----------------------------------------------------------------------------
LEMMA EmptyChange ==
    ASSUME NEW R \in Rows, NEW H \in SUBSET Text, NEW h \in Heaps, Single(R, H, h),
           NEW o \in Owner, R[o] = <<>>
    PROVE  Change(R, H, h, o, <<>>, H, h) /\ Kept(R, H, h, o, <<>>, H, h)
<1>1. TextsIn(<<>>) = {} /\ Distinct(<<>>) /\ \A t \in H : h[t] # NONE
  <2>1. \A t \in H : h[t] # NONE
    BY DEF Single
  <2> QED BY <2>1 DEF TextsIn, Distinct
<1>2. Change(R, H, h, o, <<>>, H, h)
  BY <1>1 DEF Change, Own
<1>3. Kept(R, H, h, o, <<>>, H, h)
  BY <1>1 DEF Kept, Own
<1> QED BY <1>2, <1>3

LEMMA EmptySays ==
    ASSUME NEW h
    PROVE  /\ List(h, <<>>) = <<>> /\ <<>> \in Seq(Word) /\ <<>> \in Seq(Cell)
           /\ <<>> # NONE /\ Row(<<>>) = <<>> /\ Row(NONE) = <<>>
           /\ List(h, NONE) = NONE
<1>1. <<>> \in Seq(Word) /\ <<>> \in Seq(Cell)
  OBVIOUS
<1>2. <<>> # NONE
  BY <1>1, NoneIsNoList
<1>3. Said(h, <<>>) = <<>>
  BY DEF Said
<1> QED BY <1>1, <1>2, <1>3 DEF List, Row

(* cb_new, and the beginning of curly. *)
LEMMA NewGood ==
    ASSUME BlocksInv, NEW b \in Block, NEW n \in Nat \ {0}, ~Live(b),
           tokens' = Put(tokens, b, <<>>), cap' = Put(cap, b, n),
           UNCHANGED <<heap, failed, hand, names, level>>, Turn(b, <<>>)
    PROVE  Good
<1>1. /\ heap \in Heaps /\ hand \in SUBSET Text /\ failed \in BOOLEAN
      /\ Arrays \in Rows /\ Single(Arrays, hand, heap)
  BY InvSays
<1>2. tokens[b] = NONE /\ b \in Owner /\ Arrays[b] = <<>>
  BY ArraysAreArrays, ArraysAre DEF Live
<1>3. /\ Change(Arrays, hand, heap, b, <<>>, hand, heap)
      /\ Kept(Arrays, hand, heap, b, <<>>, hand, heap)
  BY <1>1, <1>2, EmptyChange
<1>4. NoJunk(<<>>) /\ Len(<<>>) = 0 /\ Row(<<>>) = <<>> /\ <<>> # NONE /\ <<>> \in Seq(Cell)
  BY EmptySays DEF NoJunk
<1>5. BlockMove(b, <<>>, n)
  BY <1>1, <1>3, <1>4 DEF BlockMove
<1>6. /\ BlocksInv'
      /\ Lists' = Put(Lists, b, Lists'[b])
      /\ Lists[b] = List(heap, tokens[b]) /\ Lists'[b] = List(heap', <<>>)
      /\ Reading(level)' = Reading(level)
  BY <1>5, BlockMoves
<1>7. WL!Make(b)
  BY <1>2, <1>6, EmptySays DEF WL!Make
<1> QED BY <1>6, <1>7, ListStep DEF Good

-----------------------------------------------------------------------------
(* What Fresh promises, all at once. *)
LEMMA FreshSays ==
    ASSUME NEW n \in Nat, HasRoom(n)
    PROVE  /\ Fresh(n) \in Seq(Text) /\ Fresh(n) \in Seq(Cell) /\ Fresh(n) # NONE
           /\ Len(Fresh(n)) = n /\ Distinct(Fresh(n)) /\ NoJunk(Fresh(n))
           /\ \A i \in 1 .. n : Fresh(n)[i] \in Text /\ heap[Fresh(n)[i]] = NONE
<1> DEFINE s == Fresh(n)
<1>1. NewTexts(s, n, heap)
  BY FreshTexts
<1> HIDE DEF s
<1>2. /\ s \in Seq(Text) /\ Len(s) = n
      /\ \A i \in 1 .. n : s[i] \in Text /\ heap[s[i]] = NONE
      /\ \A i, j \in 1 .. n : s[i] = s[j] => i = j
  BY <1>1 DEF NewTexts
<1>3. Distinct(s) /\ NoJunk(s)
  BY <1>2, TextsFinite DEF Distinct, NoJunk
<1> QED BY <1>2, <1>3, NoneIsNoList DEF s

(* New texts for the words ws. *)
LEMMA MakeFromWords ==
    ASSUME BlocksInv, NEW o \in Owner, Arrays[o] = <<>>,
           NEW ws \in Seq(Word), HasRoom(Len(ws)),
           NEW s, s = Fresh(Len(ws)), NEW g, g = Filled(heap, s, ws)
    PROVE  /\ s \in Seq(Text) /\ s \in Seq(Cell) /\ s # NONE
           /\ Len(s) = Len(ws) /\ NoJunk(s) /\ g \in Heaps
           /\ Change(Arrays, hand, heap, o, s, hand, g)
           /\ Kept(Arrays, hand, heap, o, s, hand, g)
           /\ Said(g, s) = ws
<1>1. /\ heap \in Heaps /\ hand \in SUBSET Text
      /\ Arrays \in Rows /\ Single(Arrays, hand, heap)
  BY InvSays
<1>2. Len(ws) \in Nat
  OBVIOUS
<1>3. /\ s \in Seq(Text) /\ s \in Seq(Cell) /\ s # NONE
      /\ Len(s) = Len(ws) /\ Distinct(s) /\ NoJunk(s)
      /\ \A i \in 1 .. Len(s) : s[i] \in Text /\ heap[s[i]] = NONE
  BY <1>2, FreshSays
<1> DEFINE R == Arrays
<1> HIDE DEF R
<1>4. R \in Rows /\ Single(R, hand, heap) /\ R[o] = <<>>
  BY <1>1 DEF R
<1>5. /\ g \in Heaps
      /\ Change(R, hand, heap, o, s, hand, g)
      /\ Kept(R, hand, heap, o, s, hand, g)
      /\ Spoken(g, s, ws)
  BY <1>1, <1>3, <1>4, MakeChange
<1>6. Said(g, s) = ws
  <2>1. \A i \in 1 .. Len(s) : Said(g, s)[i] = ws[i]
    BY <1>3, <1>5 DEF NoJunk, Spoken
  <2>2. Said(g, s) \in Seq(Word) /\ Len(Said(g, s)) = Len(s)
    <3>1. \A i \in 1 .. Len(s) : g[s[i]] \in Word
      <4> TAKE i \in 1 .. Len(s)
      <4>1. s[i] # JUNK /\ ws[i] \in Word
        BY <1>3 DEF NoJunk
      <4> QED BY <4>1, <2>1 DEF Said
    <3> QED BY <1>3, <1>5, <3>1, SaidFacts, NoneAssumption
  <2> QED BY <1>3, <2>1, <2>2, SeqEqual
<1> QED BY <1>3, <1>5, <1>6 DEF R

LEMMA FromTknsGood ==
    ASSUME BlocksInv, NEW b \in Block, NEW ws \in Sources,
           cb_from_tkns(ws, b), UNCHANGED <<names, calls>>
    PROVE  Good
<1>1. ws \in Seq(Word) /\ Len(ws) \in Nat /\ Len(ws) > 0
  <2>1. PICK n \in 1 .. MaxSource : ws \in [1 .. n -> Token]
    BY DEF Sources
  <2>2. Token \subseteq Word
    BY WordsAssumption
  <2> QED BY <2>1, <2>2
<1>2. tokens[b] = NONE /\ b \in Owner /\ Arrays[b] = <<>> /\ HasRoom(Len(ws))
  BY ArraysAreArrays, ArraysAre DEF cb_from_tkns, Live
<1> DEFINE s == Fresh(Len(ws))
           g == Filled(heap, s, ws)
<1>3. /\ tokens' = Put(tokens, b, s) /\ cap' = Put(cap, b, Len(ws)) /\ heap' = g
      /\ mode' = "run" /\ mode = "run" /\ failed' = failed /\ hand' = hand
      /\ names' = names /\ level' = level /\ ret' = ret /\ depth' = depth
  BY DEF cb_from_tkns, Put, calls
<1>4. s = Fresh(Len(ws)) /\ g = Filled(heap, s, ws)
  OBVIOUS
<1> HIDE DEF s, g
<1>5. /\ s \in Seq(Cell) /\ s # NONE /\ Len(s) = Len(ws) /\ NoJunk(s) /\ g \in Heaps
      /\ Change(Arrays, hand, heap, b, s, hand, g)
      /\ Kept(Arrays, hand, heap, b, s, hand, g)
      /\ Said(g, s) = ws
  BY <1>1, <1>2, <1>4, MakeFromWords
<1>6. hand \in SUBSET Text /\ failed \in BOOLEAN /\ depth \in Nat /\ ret = NONE
  BY <1>3, InvSays
<1>7. BlockMove(b, s, Len(ws))
  BY <1>1, <1>3, <1>5, <1>6 DEF BlockMove, Turn, Row
<1>8. /\ BlocksInv'
      /\ Lists' = Put(Lists, b, Lists'[b])
      /\ Lists[b] = List(heap, tokens[b]) /\ Lists'[b] = List(heap', s)
      /\ Reading(level)' = Reading(level)
  BY <1>7, BlockMoves
<1>9. WL!Make(b)
  BY <1>1, <1>2, <1>3, <1>5, <1>8 DEF WL!Make, List
<1> QED BY <1>8, <1>9, ListStep DEF Good

LEMMA TpNewGood ==
    ASSUME BlocksInv, NEW y \in Type, NEW ws \in Seq(Word),
           tp_new(y, ws), UNCHANGED <<tokens, cap, hand, calls>>
    PROVE  Good
<1>1. names[y] = NONE /\ y \in Owner /\ Arrays[y] = <<>> /\ HasRoom(Len(ws))
  BY ArraysAreArrays, ArraysAre DEF tp_new
<1> DEFINE s == Fresh(Len(ws))
           g == Filled(heap, s, ws)
<1>2. /\ names' = Put(names, y, s) /\ heap' = g /\ mode' = mode /\ mode = "run"
      /\ failed' = failed /\ hand' = hand /\ tokens' = tokens /\ cap' = cap
      /\ calls' = calls
  BY DEF tp_new, Put
<1>3. s = Fresh(Len(ws)) /\ g = Filled(heap, s, ws)
  OBVIOUS
<1> HIDE DEF s, g
<1>4. /\ s \in Seq(Text) /\ s # NONE /\ g \in Heaps
      /\ Change(Arrays, hand, heap, y, s, hand, g)
      /\ Kept(Arrays, hand, heap, y, s, hand, g)
      /\ Said(g, s) = ws
  BY <1>1, <1>3, MakeFromWords
<1>5. TypeMove(y, s)
  BY <1>2, <1>4 DEF TypeMove, Row
<1>6. /\ BlocksInv'
      /\ Lists' = Put(Lists, y, Lists'[y])
      /\ Lists[y] = List(heap, names[y]) /\ Lists'[y] = List(heap', s)
      /\ Reading(level)' = Reading(level)
  BY <1>5, TypeMoves
<1>7. WL!Make(y)
  BY <1>1, <1>2, <1>4, <1>6 DEF WL!Make, List
<1> QED BY <1>6, <1>7, ListStep DEF Good

-----------------------------------------------------------------------------
(* The clean-up of tp_new and cb_from_tkns: every entry once. *)
CleanedUp(c, made, last) ==
    \A i \in 1 .. Len(made) + 1 :
       c[i] = Append(made, last)[IF i <= Len(made) THEN Len(made) + 2 - i ELSE 1]

LEMMA CleanUpIs ==
    ASSUME NEW made \in Seq(Int), NEW last \in Int
    PROVE  /\ CleanUp(made, last) \in Seq(Int)
           /\ Len(CleanUp(made, last)) = Len(made) + 1
           /\ CleanedUp(CleanUp(made, last), made, last)
<1> DEFINE cells == Append(made, last)
           n == Len(made)
           t == Tail(cells)
           r == Reverse(t)
           h == <<Head(cells)>>
           c == r \o h
<1>1. n \in Nat /\ cells \in Seq(Int) /\ cells # <<>> /\ Len(cells) = n + 1
  BY AppendFacts
<1> HIDE DEF cells, n
<1>2. /\ t \in Seq(Int) /\ Len(t) = n /\ \A i \in 1 .. n : t[i] = cells[i + 1]
      /\ Head(cells) = cells[1] /\ Head(cells) \in Int
  BY <1>1
<1> HIDE DEF t
<1>3. r = [i \in 1 .. n |-> t[(n - i) + 1]]
  BY <1>2 DEF Reverse
<1>4. \A i \in 1 .. n : (n - i) + 1 \in 1 .. n /\ t[(n - i) + 1] \in Int
  BY <1>1, <1>2
<1>5. r \in Seq(Int) /\ Len(r) = n
  BY <1>1, <1>3, <1>4
<1>6. \A i \in 1 .. n : r[i] = cells[n + 2 - i]
  <2> TAKE i \in 1 .. n
  <2>1. (n - i) + 1 \in 1 .. n /\ ((n - i) + 1) + 1 = n + 2 - i
    BY <1>1
  <2> QED BY <1>2, <1>3, <2>1
<1> HIDE DEF r
<1>7. h[1] = cells[1]
  BY <1>2
<1> HIDE DEF h
<1>8. /\ c \in Seq(Int) /\ Len(c) = n + 1
      /\ \A i \in 1 .. n : c[i] = r[i]
      /\ c[n + 1] = h[1]
  <2>1. c = Append(r, Head(cells))
    BY <1>2, <1>5, AppendIsConcat DEF h
  <2> HIDE DEF c
  <2> QED BY <1>1, <1>2, <1>5, <1>7, <2>1, AppendFacts
<1>9. CleanUp(made, last) = c
  BY DEF CleanUp, cells, t, r, h
<1> HIDE DEF c
<1>10. ASSUME NEW i \in 1 .. n + 1
       PROVE  c[i] = cells[IF i <= n THEN n + 2 - i ELSE 1]
  <2>1. CASE i <= n
    <3>1. i \in 1 .. n
      BY <1>1, <2>1
    <3> QED BY <1>6, <1>8, <2>1, <3>1
  <2>2. CASE ~(i <= n)
    <3>1. i = n + 1
      BY <1>1, <2>2
    <3> QED BY <1>7, <1>8, <2>2, <3>1
  <2> QED BY <2>1, <2>2
<1>11. CleanedUp(c, made, last)
  BY <1>10 DEF CleanedUp, cells, n
<1> QED BY <1>8, <1>9, <1>11 DEF n

(* Everything is as before, and nothing is freed that must not be. *)
LEMMA NothingMade ==
    ASSUME heap \in Heaps, NEW ws \in Seq(Word), NEW n \in 0 .. Len(ws), HasRoom(n),
           NEW last \in {JUNK, NULL},
           NEW g, g = Filled(heap, Fresh(n), SubSeq(ws, 1, n)),
           NEW c, c = CleanUp(Fresh(n), last)
    PROVE  Disposed(g, c) = heap /\ (last = NULL => Sound(g, c))
<1> DEFINE made == Fresh(n)
           us == SubSeq(ws, 1, n)
<1>1. n \in Nat /\ last \in Int /\ last \notin Text
  BY TextsFinite DEF JUNK, NULL
<1>2. /\ made \in Seq(Cell) /\ Len(made) = n /\ Distinct(made)
      /\ \A i \in 1 .. n : made[i] \in Text /\ heap[made[i]] = NONE
  BY <1>1, FreshSays
<1>3. us \in Seq(Word) /\ Len(us) = n
  <2>1. \A i \in 1 .. n : ws[i] \in Word
    OBVIOUS
  <2> QED BY <1>1, <2>1, SubSeqProperties
<1>4. g = Filled(heap, made, us) /\ c = CleanUp(made, last)
  OBVIOUS
<1> HIDE DEF made, us
<1>5. /\ g \in Heaps
      /\ \A i \in 1 .. n : made[i] \in Text => g[made[i]] = us[i]
      /\ \A t \in Text : t \notin TextsIn(made) => g[t] = heap[t]
  <2>1. Len(us) = Len(made)
    BY <1>2, <1>3
  <2>2. /\ Filled(heap, made, us) \in Heaps
        /\ \A i \in 1 .. Len(made) : made[i] \in Text => Filled(heap, made, us)[made[i]] = us[i]
        /\ \A t \in Text : t \notin TextsIn(made) => Filled(heap, made, us)[t] = heap[t]
    BY <1>2, <1>3, <2>1, FilledFacts
  <2> QED BY <1>2, <1>4, <2>2
<1>6. made \in Seq(Int)
  BY <1>2, IntegerCells
<1>7. c \in Seq(Int) /\ Len(c) = n + 1 /\ CleanedUp(c, made, last)
  BY <1>1, <1>2, <1>4, <1>6, CleanUpIs
<1> DEFINE cells == Append(made, last)
           from(i) == IF i <= n THEN n + 2 - i ELSE 1
<1>8. /\ \A i \in 1 .. n : cells[i] = made[i]
      /\ cells[n + 1] = last
  BY <1>1, <1>2, <1>6, AppendFacts
<1>9. \A i \in 1 .. n + 1 : c[i] = cells[from(i)]
  BY <1>2, <1>7 DEF CleanedUp
<1>10. /\ \A i \in 1 .. n + 1 : from(i) \in 1 .. n + 1
       /\ \A i, j \in 1 .. n + 1 : from(i) = from(j) => i = j
  BY <1>1
<1> HIDE DEF cells, from
<1>11. \A i \in 1 .. n + 1 : i \in 1 .. n \/ i = n + 1
  BY <1>1
<1>12. \A t \in TextsIn(c) : t \in TextsIn(made)
  <2>1. ASSUME NEW i \in 1 .. n + 1, c[i] \in Text PROVE c[i] \in TextsIn(made)
    <3>1. from(i) \in 1 .. n + 1 /\ c[i] = cells[from(i)]
      BY <1>9, <1>10
    <3>2. from(i) \in 1 .. n /\ c[i] = made[from(i)]
      BY <1>1, <1>8, <1>11, <2>1, <3>1
    <3> QED BY <1>2, <2>1, <3>2 DEF TextsIn
  <2> QED BY <1>7, <2>1 DEF TextsIn
<1>13. \A t \in TextsIn(made) : heap[t] = NONE
  BY <1>2 DEF TextsIn
<1>14. ASSUME NEW i \in 1 .. n PROVE made[i] \in TextsIn(c)
  <2>1. \E j \in 1 .. n + 1 : from(j) = i
    <3>1. CASE i = 1
      <4>1. from(n + 1) = i /\ n + 1 \in 1 .. n + 1
        BY <1>1, <3>1 DEF from
      <4> QED BY <4>1
    <3>2. CASE i # 1
      <4>1. n + 2 - i \in 1 .. n + 1 /\ from(n + 2 - i) = i
        BY <1>1, <3>2 DEF from
      <4> QED BY <4>1
    <3> QED BY <3>1, <3>2
  <2>2. PICK j \in 1 .. n + 1 : from(j) = i
    BY <2>1
  <2>3. c[j] = made[i] /\ made[i] \in Text
    BY <1>2, <1>8, <1>9, <2>2
  <2> QED BY <1>7, <2>3 DEF TextsIn
<1>15. Disposed(g, c) = heap
  <2>1. /\ Disposed(g, c) \in Heaps
        /\ \A t \in Text : t \in TextsIn(c) => Disposed(g, c)[t] = NONE
        /\ \A t \in Text : t \notin TextsIn(c) => Disposed(g, c)[t] = g[t]
    BY <1>5, <1>7, DisposedFacts
  <2>2. \A t \in Text : Disposed(g, c)[t] = heap[t]
    <3> TAKE t \in Text
    <3>1. CASE t \in TextsIn(c)
      BY <1>12, <1>13, <2>1, <3>1
    <3>2. CASE t \notin TextsIn(c)
      <4>1. t \notin TextsIn(made)
        BY <1>2, <1>14, <3>2 DEF TextsIn
      <4> QED BY <1>5, <2>1, <3>2, <4>1
    <3> QED BY <3>1, <3>2
  <2> QED BY <2>1, <2>2 DEF Heaps
<1>16. ASSUME last = NULL PROVE Sound(g, c)
  <2>1. ASSUME NEW i \in 1 .. n + 1, c[i] # NULL
        PROVE  /\ c[i] \in Text /\ g[c[i]] # NONE
               /\ \A j \in 1 .. i - 1 : c[j] # c[i]
    <3>1. from(i) \in 1 .. n /\ c[i] = made[from(i)]
      BY <1>8, <1>9, <1>10, <1>11, <1>16, <2>1
    <3>2. c[i] \in Text /\ g[c[i]] # NONE
      <4>1. us[from(i)] \in Word
        BY <1>3, <3>1
      <4> QED BY <1>2, <1>5, <3>1, <4>1, NoneAssumption
    <3>3. ASSUME NEW j \in 1 .. i - 1, c[j] = c[i] PROVE FALSE
      <4>1. j \in 1 .. n + 1 /\ j # i
        BY <1>1
      <4>2. from(j) \in 1 .. n /\ c[j] = made[from(j)]
        BY <1>8, <1>9, <1>10, <1>11, <1>16, <2>1, <3>3, <4>1
      <4>3. from(j) = from(i)
        BY <1>2, <3>1, <3>2, <3>3, <4>2 DEF Distinct
      <4> QED BY <1>10, <4>1, <4>3
    <3> QED BY <3>2, <3>3
  <2>2. DOMAIN c = 1 .. n + 1
    BY <1>7
  <2> QED BY <2>1, <2>2 DEF Sound
<1> QED BY <1>15, <1>16

(* A call that fails and has changed nothing in the end. *)
LEMMA FailGood ==
    ASSUME BlocksInv, UNCHANGED <<heap, tokens, cap, hand, names, calls>>,
           mode = "run", mode' \in {"run", "wild"},
           failed' = TRUE \/ (failed' = failed /\ mode' = "run")
    PROVE  Good
<1>1. /\ tokens \in Lines /\ names \in Nouns /\ heap \in Heaps
      /\ level \in Seq(Text) /\ hand \in SUBSET Text /\ cap \in [Block -> Nat]
      /\ failed \in BOOLEAN /\ depth \in Nat
      /\ Single(Arrays, hand, heap) /\ (mode = "run" => ret = NONE)
      /\ \A b \in Block : tokens[b] # NONE => Len(tokens[b]) <= cap[b] /\ cap[b] > 0
  BY InvSays
<1>2. /\ heap' = heap /\ tokens' = tokens /\ cap' = cap /\ ret' = ret
      /\ hand' = hand /\ names' = names /\ level' = level /\ depth' = depth
  BY DEF calls
<1>3. Arrays' = Arrays /\ Lists' = Lists /\ Reading(level)' = Reading(level)
  BY <1>2 DEF Arrays, Lists, Reading, Live
<1>4. failed' \in BOOLEAN /\ (failed' \/ mode' # "wild")
      /\ (failed' \/ failed' = failed)
  BY <1>1
<1>5. BraceIsLast'
  BY DEF BraceIsLast
<1>6. /\ failed \/ OnlyBraces(Arrays, hand, heap)
      /\ \A b \in Block : tokens[b] # NONE => failed \/ NoJunk(tokens[b])
  BY InvSays
<1>7. BlocksInv'
  BY <1>1, <1>2, <1>3, <1>4, <1>5, <1>6, InvStays
<1> QED BY <1>3, <1>7 DEF Good, WL!vars

LEMMA FromTknsFailsGood ==
    ASSUME BlocksInv, NEW b \in Block, NEW ws \in Sources,
           cb_from_tknsFails(ws, b), UNCHANGED <<names, calls>>
    PROVE  Good
<1>1. ws \in Seq(Word) /\ Len(ws) \in Nat
  <2>1. PICK n \in 1 .. MaxSource : ws \in [1 .. n -> Token]
    BY DEF Sources
  <2>2. Token \subseteq Word
    BY WordsAssumption
  <2> QED BY <2>1, <2>2
<1>2. PICK n \in 0 .. Len(ws) - 1 :
         /\ HasRoom(n)
         /\ heap' = Disposed(Filled(heap, Fresh(n), SubSeq(ws, 1, n)),
                             CleanUp(Fresh(n), JUNK))
         /\ mode' \in {mode, "wild"}
  BY DEF cb_from_tknsFails
<1>3. n \in 0 .. Len(ws) /\ heap \in Heaps
  BY <1>1, InvSays
<1>4. heap' = heap
  BY <1>1, <1>2, <1>3, NothingMade
<1>5. /\ mode = "run" /\ failed' = TRUE /\ tokens' = tokens /\ cap' = cap /\ hand' = hand
  BY DEF cb_from_tknsFails
<1> QED BY <1>2, <1>4, <1>5, FailGood

LEMMA TpNewFailsGood ==
    ASSUME BlocksInv, NEW y \in Type, NEW ws \in Seq(Word),
           tp_newFails(y, ws), UNCHANGED <<tokens, cap, hand, calls>>
    PROVE  Good
<1>1. PICK n \in 0 .. Len(ws) - 1 :
         /\ HasRoom(n)
         /\ heap' = Disposed(Filled(heap, Fresh(n), SubSeq(ws, 1, n)),
                             CleanUp(Fresh(n), NULL))
         /\ mode' = IF Sound(Filled(heap, Fresh(n), SubSeq(ws, 1, n)),
                             CleanUp(Fresh(n), NULL))
                    THEN mode ELSE "wild"
  BY DEF tp_newFails
<1>2. n \in 0 .. Len(ws) /\ heap \in Heaps
  BY InvSays
<1>3. heap' = heap /\ mode' = mode
  BY <1>1, <1>2, NothingMade
<1>4. failed' = failed /\ names' = names /\ mode = "run"
  BY DEF tp_newFails
<1> QED BY <1>3, <1>4, FailGood

LEMMA TpCopyGood ==
    ASSUME BlocksInv, NEW x \in Type, NEW y \in Type,
           tp_copy(x, y), UNCHANGED <<tokens, cap, hand, calls>>
    PROVE  Good
<1>1. /\ names[x] \in Seq(Text) /\ heap \in Heaps
      /\ Arrays \in Rows /\ hand \in SUBSET Text /\ Single(Arrays, hand, heap)
      /\ x \in Owner /\ Arrays[x] = names[x]
  BY InvSays, ArraysAreArrays, ArraysAre DEF tp_copy, Nouns
<1>2. Reading(names[x]) \in Seq(Word)
  <2> DEFINE s == names[x]
  <2>1. s \in Seq(Cell) /\ NoJunk(s)
    BY <1>1, NoneIsNoList, TextsFinite DEF NoJunk
  <2>2. \A i \in 1 .. Len(s) : s[i] \in Text => heap[s[i]] # NONE
    BY <1>1, RowSays
  <2> HIDE DEF s
  <2>3. Said(heap, s) \in Seq(Word) /\ Reading(s) = Said(heap, s)
    BY <1>1, <2>1, <2>2, SaidFacts, ReadingIs
  <2> QED BY <2>3 DEF s
<1> QED BY <1>2, TpNewGood, TpNewFailsGood DEF tp_copy

-----------------------------------------------------------------------------
(* A block is given up: by cb_free, or at the end of curly. *)
LEMMA DropBlockGood ==
    ASSUME BlocksInv, NEW b \in Block, tokens[b] # NONE,
           tokens' = Put(tokens, b, NONE), cap' = Put(cap, b, 0),
           UNCHANGED <<hand, names, level>>, heap' \in Heaps,
           failed' \in BOOLEAN, failed => failed', Turn(b, NONE),
           Change(Arrays, hand, heap, b, <<>>, hand, heap'),
           failed' \/ Kept(Arrays, hand, heap, b, <<>>, hand, heap')
    PROVE  Good
<1>1. hand \in SUBSET Text
  BY InvSays
<1>2. BlockMove(b, NONE, 0)
  BY <1>1 DEF BlockMove, Row
<1>3. /\ BlocksInv'
      /\ Lists' = Put(Lists, b, Lists'[b])
      /\ Lists[b] = List(heap, tokens[b]) /\ Lists'[b] = List(heap', NONE)
      /\ Reading(level)' = Reading(level)
  BY <1>2, BlockMoves
<1>4. Lists[b] # NONE
  <2>1. tokens[b] \in Seq(Cell) /\ heap \in Heaps
        /\ Arrays \in Rows /\ Single(Arrays, hand, heap)
        /\ b \in Owner /\ Arrays[b] = tokens[b]
    BY InvSays, ArraysAreArrays, ArraysAre DEF Lines
  <2>2. \A i \in 1 .. Len(tokens[b]) : tokens[b][i] \in Text => heap[tokens[b][i]] # NONE
    BY <1>1, <2>1, RowSays
  <2> QED BY <1>3, <2>1, <2>2, SaidFacts DEF List
<1>5. WL!Drop(b)
  BY <1>3, <1>4 DEF WL!Drop, List
<1> QED BY <1>3, <1>5, ListStep DEF Good

LEMMA FreeGood ==
    ASSUME BlocksInv, NEW b \in Block, cb_free(b), UNCHANGED <<names, calls>>
    PROVE  Good
<1>1. /\ Arrays \in Rows /\ hand \in SUBSET Text /\ heap \in Heaps
      /\ Single(Arrays, hand, heap)
      /\ tokens[b] # NONE /\ b \in Owner /\ Arrays[b] = tokens[b]
      /\ failed \/ NoJunk(tokens[b])
      /\ failed \in BOOLEAN /\ depth \in Nat /\ (mode = "run" => ret = NONE)
  BY InvSays, ArraysAreArrays, ArraysAre DEF cb_free, Live
<1>2. /\ mode = "run" /\ failed' = failed /\ hand' = hand /\ names' = names
      /\ level' = level /\ ret' = ret /\ depth' = depth
  BY DEF cb_free, calls
<1>3. CASE Sound(heap, tokens[b])
  <2>1. /\ tokens' = Put(tokens, b, NONE) /\ cap' = Put(cap, b, 0)
        /\ heap' = Disposed(heap, Arrays[b]) /\ mode' = "run"
    BY <1>1, <1>3 DEF cb_free, Put
  <2>2. /\ heap' \in Heaps
        /\ Change(Arrays, hand, heap, b, <<>>, hand, heap')
        /\ Kept(Arrays, hand, heap, b, <<>>, hand, heap')
    BY <1>1, <2>1, DropChange
  <2>3. Turn(b, NONE)
    BY <1>1, <1>2, <2>1 DEF Turn
  <2> QED BY <1>1, <1>2, <2>1, <2>2, <2>3, DropBlockGood
<1>4. CASE ~Sound(heap, tokens[b])
  <2>1. failed
    BY <1>1, <1>4, SoundRow
  <2>2. mode' = "wild" /\ UNCHANGED <<heap, tokens, cap>>
    BY <1>4 DEF cb_free
  <2> QED BY <1>2, <2>1, <2>2, WildGood
<1> QED BY <1>3, <1>4

LEMMA TpFreeGood ==
    ASSUME BlocksInv, NEW y \in Type, tp_free(y), UNCHANGED <<tokens, cap, hand, calls>>
    PROVE  Good
<1>1. /\ Arrays \in Rows /\ hand \in SUBSET Text /\ heap \in Heaps
      /\ Single(Arrays, hand, heap)
      /\ names[y] # NONE /\ names[y] \in Seq(Text)
      /\ y \in Owner /\ Arrays[y] = names[y]
  BY InvSays, ArraysAreArrays, ArraysAre DEF tp_free, Nouns
<1>2. NoJunk(names[y])
  BY <1>1, TextsFinite DEF NoJunk
<1>3. Sound(heap, names[y])
  BY <1>1, <1>2, SoundRow
<1>4. /\ names' = Put(names, y, NONE) /\ mode = "run" /\ mode' = mode
      /\ heap' = Disposed(heap, Arrays[y]) /\ failed' = failed
  BY <1>1, <1>3 DEF tp_free, Put
<1>5. /\ heap' \in Heaps
      /\ Change(Arrays, hand, heap, y, <<>>, hand, heap')
      /\ Kept(Arrays, hand, heap, y, <<>>, hand, heap')
  BY <1>1, <1>4, DropChange
<1>6. TypeMove(y, NONE)
  BY <1>4, <1>5 DEF TypeMove, Row
<1>7. /\ BlocksInv'
      /\ Lists' = Put(Lists, y, Lists'[y])
      /\ Lists[y] = List(heap, names[y]) /\ Lists'[y] = List(heap', NONE)
      /\ Reading(level)' = Reading(level)
  BY <1>6, TypeMoves
<1>8. Lists[y] # NONE
  <2>1. names[y] \in Seq(Cell)
    BY <1>1, NoneIsNoList
  <2>2. \A i \in 1 .. Len(names[y]) : names[y][i] \in Text => heap[names[y][i]] # NONE
    BY <1>1, RowSays
  <2> QED BY <1>1, <1>7, <2>1, <2>2, SaidFacts DEF List
<1>9. WL!Drop(y)
  BY <1>7, <1>8 DEF WL!Drop, List
<1> QED BY <1>7, <1>9, ListStep DEF Good

(* The copies of the tokens that are not in out. *)
LEMMA CopyGood ==
    ASSUME BlocksInv, NEW a \in Block, NEW b \in Block, cb_copy(a, b),
           UNCHANGED <<names, calls>>
    PROVE  Good
<1>1. /\ Arrays \in Rows /\ hand \in SUBSET Text /\ heap \in Heaps
      /\ Single(Arrays, hand, heap) /\ tokens[a] # NONE /\ tokens[a] \in Seq(Cell)
      /\ a \in Owner /\ Arrays[a] = tokens[a]
      /\ b \in Owner /\ Arrays[b] = <<>> /\ tokens[b] = NONE
      /\ failed \/ NoJunk(tokens[a])
      /\ Len(tokens[a]) <= cap[a] /\ cap[a] > 0 /\ cap[a] \in Nat
      /\ failed \in BOOLEAN /\ depth \in Nat /\ (mode = "run" => ret = NONE)
  BY InvSays, ArraysAreArrays, ArraysAre DEF cb_copy, Live, Lines
<1>2. mode = "run" /\ names' = names /\ level' = level /\ ret' = ret /\ depth' = depth
  BY DEF cb_copy, calls
<1>3. CASE ~Sound(heap, tokens[a])
  <2>1. failed
    BY <1>1, <1>3, SoundRow
  <2>2. mode' = "wild" /\ UNCHANGED <<heap, failed, tokens, cap, hand>>
    BY <1>3 DEF cb_copy
  <2> QED BY <1>2, <2>1, <2>2, WildGood
<1>4. CASE Sound(heap, tokens[a])
  <2> DEFINE s == tokens[a]
             n == Len(s)
             f == Fresh(n)
             ws == Reading(s)
  <2>1. DOMAIN s = 1 .. n /\ n \in Nat
    BY <1>1
  <2>2. PICK out \in SUBSET (1 .. n) :
          /\ HasRoom(n)
          /\ out # {} => MallocMayFail
          /\ heap' = Filled(heap, [i \in 1 .. n |-> IF i \in out THEN JUNK ELSE f[i]], ws)
          /\ tokens' = Put(tokens, b, [i \in 1 .. n |-> IF i \in out THEN JUNK ELSE f[i]])
          /\ failed' = (failed \/ out # {})
          /\ cap' = Put(cap, b, cap[a]) /\ mode' = mode /\ hand' = hand
    BY <1>4, <2>1 DEF cb_copy, Put, MayFail
  <2> DEFINE new == [i \in 1 .. n |-> IF i \in out THEN JUNK ELSE f[i]]
             g == Filled(heap, new, ws)
  <2>3. /\ f \in Seq(Cell) /\ Len(f) = n /\ Distinct(f) /\ NoJunk(f)
        /\ \A i \in 1 .. n : f[i] \in Text /\ heap[f[i]] = NONE
    BY <2>1, <2>2, FreshSays
  <2>4. ws \in Seq(Word) /\ Len(ws) = n /\ ws = Said(heap, s)
        /\ s \in Seq(Cell) /\ \A i \in 1 .. n : s[i] # JUNK
    <3>1. NoJunk(s) /\ \A i \in 1 .. Len(s) : s[i] \in Text /\ heap[s[i]] # NONE
      BY <1>1, <1>4, SoundIsText
    <3> QED BY <1>1, <3>1, SaidFacts, ReadingIs DEF NoJunk
  <2>5. s = tokens[a] /\ Len(s) = n
    OBVIOUS
  <2>15. heap' = g /\ tokens' = Put(tokens, b, new)
    BY <2>2
  <2> HIDE DEF f, ws, s, n
  <2>6. \A i \in 1 .. n : new[i] \in Cell
    BY <2>3 DEF Cell
  <2>7. /\ new \in Seq(Cell) /\ Len(new) = n
        /\ \A i \in 1 .. n : new[i] = JUNK \/ (i \notin out /\ new[i] = f[i])
        /\ \A i \in out : new[i] = JUNK
    BY <2>1, <2>6
  <2>14. out = {} => \A i \in 1 .. n : new[i] = f[i]
    OBVIOUS
  <2> HIDE DEF new
  <2>8. Distinct(new) /\ \A i \in 1 .. Len(new) : new[i] \in Text => heap[new[i]] = NONE
    <3>1. \A i \in 1 .. n : new[i] \in Text => new[i] = f[i]
      BY <2>7, TextsFinite
    <3> QED BY <2>3, <2>7, <3>1 DEF Distinct
  <2> DEFINE R == Arrays
  <2>9. R \in Rows /\ Single(R, hand, heap) /\ R[b] = <<>>
    BY <1>1
  <2> HIDE DEF g, R
  <2>10. /\ g \in Heaps
         /\ Change(R, hand, heap, b, new, hand, g)
         /\ Kept(R, hand, heap, b, new, hand, g)
         /\ Spoken(g, new, ws)
    BY <1>1, <2>4, <2>7, <2>8, <2>9, MakeChange DEF g
  <2>11. BlockMove(b, new, cap[a])
    <3>1. new # NONE /\ Row(new) = new
      BY <2>7, NoneIsNoList DEF Row
    <3>2. failed' \/ NoJunk(new)
      <4>1. CASE out = {}
        BY <2>3, <2>7, <2>14, <4>1 DEF NoJunk
      <4>2. CASE out # {}
        BY <2>2, <4>2
      <4> QED BY <4>1, <4>2
    <3>3. Turn(b, new)
      BY <1>1, <1>2, <2>2 DEF Turn
    <3>4. Len(new) <= cap[a]
      BY <1>1, <2>5, <2>7
    <3> QED BY <1>1, <1>2, <2>2, <2>7, <2>10, <2>15, <3>1, <3>2, <3>3, <3>4 DEF BlockMove, R
  <2>12. /\ BlocksInv'
         /\ Lists' = Put(Lists, b, Lists'[b])
         /\ Lists[b] = List(heap, tokens[b]) /\ Lists'[b] = List(heap', new)
         /\ Reading(level)' = Reading(level)
    BY <2>11, BlockMoves
  <2>13. WL!Copy(b, a)
    <3>1. new # NONE /\ s # NONE /\ Lists[b] = NONE /\ Lists[a] = Said(heap, s) /\ Lists'[b] = Said(g, new)
      BY <1>1, <2>5, <2>7, <2>12, <2>15, NoneIsNoList, ListIs DEF List
    <3>2. Lists[a] # NONE /\ DOMAIN Lists[a] = 1 .. n
      BY <2>4, <3>1, NoneIsNoList
    <3>3. Lists'[b] # NONE /\ DOMAIN Lists'[b] = 1 .. n
      <4>1. \A i \in 1 .. Len(new) : new[i] \in Text => g[new[i]] # NONE
        BY <2>10 DEF Change, TextsIn
      <4>2. Said(g, new) # NONE /\ DOMAIN Said(g, new) = 1 .. n
        BY <2>7, <2>10, <4>1, SaidFacts DEF Said
      <4> QED BY <3>1, <4>2
    <3>4. ASSUME NEW i \in 1 .. n
          PROVE  Lists'[b][i] = Lists[a][i] \/ (MallocMayFail /\ Lists'[b][i] = Garbage)
      <4>1. Lists'[b][i] = IF new[i] = JUNK THEN Garbage ELSE ws[i]
        BY <2>7, <2>10, <3>1 DEF Spoken
      <4>2. CASE i \in out
        BY <2>2, <2>7, <4>1, <4>2
      <4>3. CASE i \notin out
        <5>1. new[i] # JUNK
          BY <2>3, <2>6, <4>3 DEF NoJunk, new
        <5> QED BY <2>4, <3>1, <4>1, <5>1
      <4> QED BY <4>2, <4>3
    <3> QED BY <3>1, <3>2, <3>3, <3>4 DEF WL!Copy
  <2> QED BY <2>12, <2>13, ListStep DEF Good
<1> QED BY <1>3, <1>4

-----------------------------------------------------------------------------
(* cb_append, cb_prepend and cb_insert. *)
LEMMA InsertGood ==
    ASSUME BlocksInv, NEW b \in Block, NEW t \in hand, NEW p \in Text,
           cb_insert(b, p, t), UNCHANGED <<names, calls>>
    PROVE  Good
<1> DEFINE s == tokens[b]
           n == Len(s)
<1>1. /\ Arrays \in Rows /\ hand \in SUBSET Text /\ heap \in Heaps
      /\ Single(Arrays, hand, heap) /\ s # NONE /\ s \in Seq(Cell)
      /\ b \in Owner /\ Arrays[b] = s
      /\ failed \/ NoJunk(s)
      /\ Len(s) <= cap[b] /\ cap[b] > 0 /\ cap[b] \in Nat
      /\ failed \in BOOLEAN /\ depth \in Nat /\ (mode = "run" => ret = NONE)
  BY InvSays, ArraysAreArrays, ArraysAre DEF cb_insert, Live, Lines
<1>2. /\ mode = "run" /\ mode' = "run" /\ heap' = heap /\ failed' = failed
      /\ names' = names /\ level' = level /\ ret' = ret /\ depth' = depth
      /\ hand' = hand \ {t}
  BY DEF cb_insert, calls
<1>3. PICK width \in Room(b) :
         cap' = Put(cap, b, width) /\ tokens' = Put(tokens, b, Opened(b, p, t, width))
  BY DEF cb_insert, Put
<1>4. width \in Nat /\ n + 1 <= width /\ width > 0 /\ n \in Nat
  <2>1. n \in Nat /\ width \in {cap[b], cap[b] * 2} /\ (width = cap[b] => n < cap[b] \/ width = cap[b] * 2)
    BY <1>1, <1>3 DEF Room
  <2> HIDE DEF n
  <2>2. n <= cap[b]
    BY <1>1 DEF n
  <2> QED BY <1>1, <2>1, <2>2
<1>5. p \in 1 .. n + 1
  <2>1. p = n + 1 \/ p = 1 \/ p \in 1 .. n
    BY <1>1 DEF cb_insert, Places
  <2> QED BY <1>4, <2>1
<1>6. t \in Cell /\ t \in Text /\ t # JUNK /\ heap[t] # NONE
  BY <1>1, TextsFinite, RowSays DEF Cell
<1> DEFINE v == Opened(b, p, t, width)
<1>7. v \in Seq(Cell) /\ Inserts(v, s, p, t)
  BY <1>1, <1>4, <1>5, <1>6, OpenedIs
<1>8. tokens' = Put(tokens, b, v)
  BY <1>3
<1>20. tokens[b] = s /\ Len(s) = n
  OBVIOUS
<1> HIDE DEF v, s, n
<1>9. /\ Len(v) = n + 1
      /\ \A i \in 1 .. n + 1 :
            v[i] = IF i < p THEN s[i] ELSE IF i = p THEN t ELSE s[i - 1]
  BY <1>7, <1>20 DEF Inserts
<1>10. /\ Distinct(s)
       /\ \A i \in 1 .. n : s[i] \in Text => heap[s[i]] # NONE /\ s[i] \notin hand
       /\ \A x \in hand : heap[x] # NONE
       /\ \A x \in TextsIn(s) : x \in Text /\ x \notin hand /\ heap[x] # NONE
  <2>1. Held(s, hand, heap)
    BY <1>1, RowHeld
  <2> QED BY <1>20, <2>1 DEF Held
<1>11. \A i \in 1 .. n + 1 : \/ i < p /\ i \in 1 .. n /\ v[i] = s[i]
                             \/ i = p /\ v[i] = t
                             \/ i > p /\ i - 1 \in 1 .. n /\ v[i] = s[i - 1]
  BY <1>4, <1>5, <1>9
<1>12. Distinct(v)
  <2>1. ASSUME NEW i \in 1 .. n + 1, NEW j \in 1 .. n + 1, v[i] \in Text, v[i] = v[j], i < j
        PROVE  FALSE
    <3>1. CASE i < p /\ j < p
      <4>1. i \in 1 .. n /\ v[i] = s[i] /\ j \in 1 .. n /\ v[j] = s[j] /\ i # j
        BY <1>4, <1>5, <1>11, <2>1, <3>1
      <4> QED BY <1>10, <1>20, <2>1, <4>1 DEF Distinct
    <3>2. CASE i < p /\ j > p
      <4>1. i \in 1 .. n /\ v[i] = s[i] /\ j - 1 \in 1 .. n /\ v[j] = s[j - 1] /\ j - 1 # i
        BY <1>4, <1>5, <1>11, <2>1, <3>2
      <4> QED BY <1>10, <1>20, <2>1, <4>1 DEF Distinct
    <3>3. CASE i > p /\ j > p
      <4>1. i - 1 \in 1 .. n /\ v[i] = s[i - 1] /\ j - 1 \in 1 .. n /\ v[j] = s[j - 1] /\ j - 1 # i - 1
        BY <1>4, <1>5, <1>11, <2>1, <3>3
      <4> QED BY <1>10, <1>20, <2>1, <4>1 DEF Distinct
    <3>4. CASE i = p
      BY <1>4, <1>5, <1>10, <1>11, <2>1, <3>4
    <3>5. CASE j = p
      BY <1>4, <1>5, <1>10, <1>11, <2>1, <3>5
    <3> QED BY <1>4, <1>5, <2>1, <3>1, <3>2, <3>3, <3>4, <3>5
  <2>2. \A i, j \in 1 .. n + 1 : i < j \/ j < i \/ i = j
    BY <1>4
  <2> QED BY <1>9, <2>1, <2>2 DEF Distinct
<1>13. TextsIn(v) = TextsIn(s) \cup {t}
  <2>1. \A x \in TextsIn(v) : x \in TextsIn(s) \cup {t}
    <3>1. \A i \in 1 .. n + 1 : v[i] \in Text => v[i] \in TextsIn(s) \cup {t}
      BY <1>11, <1>20 DEF TextsIn
    <3> QED BY <1>9, <3>1 DEF TextsIn
  <2>2. ASSUME NEW i \in 1 .. n, s[i] \in Text PROVE s[i] \in TextsIn(v)
    <3>1. CASE i < p
      <4>1. i \in 1 .. n + 1 /\ v[i] = s[i]
        BY <1>4, <1>9, <3>1
      <4> QED BY <1>9, <2>2, <4>1 DEF TextsIn
    <3>2. CASE ~(i < p)
      <4>1. i + 1 \in 1 .. n + 1 /\ v[i + 1] = s[(i + 1) - 1] /\ (i + 1) - 1 = i
        BY <1>4, <1>5, <1>9, <3>2
      <4> QED BY <1>9, <2>2, <4>1 DEF TextsIn
    <3> QED BY <3>1, <3>2
  <2>3. t \in TextsIn(v)
    <3>1. p \in 1 .. n + 1 /\ v[p] = t
      BY <1>4, <1>5, <1>9
    <3> QED BY <1>6, <1>9, <3>1 DEF TextsIn
  <2> QED BY <1>20, <2>1, <2>2, <2>3 DEF TextsIn
<1>14. Change(Arrays, hand, heap, b, v, hand \ {t}, heap)
  BY <1>1, <1>6, <1>10, <1>12, <1>13 DEF Change, Own
<1>15. Kept(Arrays, hand, heap, b, v, hand \ {t}, heap)
  BY <1>1, <1>13 DEF Kept, Own
<1>16. NoJunk(s) => NoJunk(v)
  BY <1>6, <1>9, <1>11, <1>20 DEF NoJunk
<1>17. BlockMove(b, v, width)
  <2>1. v # NONE /\ Row(v) = v
    BY <1>7, NoneIsNoList DEF Row
  <2>2. Turn(b, v)
    BY <1>1, <1>2 DEF Turn
  <2>3. Len(v) <= width
    BY <1>4, <1>9
  <2> QED BY <1>1, <1>2, <1>3, <1>4, <1>7, <1>8, <1>14, <1>15, <1>16, <2>1, <2>2, <2>3
      DEF BlockMove
<1>18. /\ BlocksInv'
       /\ Lists' = Put(Lists, b, Lists'[b])
       /\ Lists[b] = List(heap, s) /\ Lists'[b] = List(heap', v)
       /\ Reading(level)' = Reading(level)
  BY <1>17, <1>20, BlockMoves
<1>19. WL!Edit(b)
  <2> DEFINE A == Said(heap, s)
             B == Said(heap, v)
  <2>1. /\ A \in Seq(Word \cup {Garbage}) /\ A # NONE /\ Len(A) = n
        /\ \A i \in 1 .. n : A[i] = IF s[i] = JUNK THEN Garbage ELSE heap[s[i]]
    BY <1>1, <1>10, <1>20, SaidFacts
  <2>2. /\ B \in Seq(Word \cup {Garbage}) /\ B # NONE /\ Len(B) = n + 1
        /\ \A i \in 1 .. n + 1 : B[i] = IF v[i] = JUNK THEN Garbage ELSE heap[v[i]]
    <3>1. \A i \in 1 .. Len(v) : v[i] \in Text => heap[v[i]] # NONE
      BY <1>6, <1>9, <1>10, <1>11
    <3> QED BY <1>1, <1>7, <1>9, <3>1, SaidFacts
  <2>3. v # NONE /\ Lists[b] = A /\ Lists'[b] = B
    BY <1>1, <1>2, <1>7, <1>18, NoneIsNoList DEF List
  <2>4. heap[t] \in Word
    BY <1>1, <1>6 DEF Heaps
  <2> HIDE DEF A, B
  <2> DEFINE I == InsertAt(A, p, heap[t])
  <2>5. I \in Seq(Word \cup {Garbage}) /\ Inserts(I, A, p, heap[t])
    BY <1>5, <2>1, <2>4, InsertAtFacts
  <2> HIDE DEF I
  <2>6. \A i \in 1 .. n + 1 :
           I[i] = IF i < p THEN A[i] ELSE IF i = p THEN heap[t] ELSE A[i - 1]
    BY <2>1, <2>5 DEF Inserts
  <2>7. Len(I) = n + 1
    BY <2>1, <2>5 DEF Inserts
  <2>8. \A i \in 1 .. n + 1 : B[i] = I[i]
    <3> TAKE i \in 1 .. n + 1
    <3>1. CASE i < p
      <4>1. i \in 1 .. n /\ v[i] = s[i]
        BY <1>4, <1>5, <1>11, <3>1
      <4>2. B[i] = A[i]
        BY <2>1, <2>2, <4>1
      <4> QED BY <2>6, <3>1, <4>2
    <3>2. CASE i = p
      BY <1>6, <1>11, <2>2, <2>6, <3>2
    <3>3. CASE i > p
      <4>1. i - 1 \in 1 .. n /\ v[i] = s[i - 1] /\ ~(i < p) /\ i # p
        BY <1>4, <1>5, <1>11, <3>3
      <4>2. B[i] = A[i - 1]
        BY <2>1, <2>2, <4>1
      <4> QED BY <2>6, <4>1, <4>2
    <3> QED BY <1>4, <1>5, <3>1, <3>2, <3>3
  <2>9. B = I
    BY <2>2, <2>5, <2>7, <2>8, SeqEqual
  <2>10. p \in DOMAIN Lists'[b]
    BY <1>5, <2>2, <2>3
  <2>11. WL!Inserted(b, p, heap[t])
    BY <2>3, <2>9 DEF WL!Inserted, I, InsertAt, WL!InsertAt
  <2> QED BY <2>1, <2>2, <2>3, <2>4, <2>10, <2>11 DEF WL!Edit
<1> QED BY <1>18, <1>19, ListStep DEF Good

(* The text x is freed. *)
LEMMA OneFreed ==
    ASSUME heap \in Heaps, NEW x \in Text
    PROVE  /\ Disposed(heap, <<x>>) \in Heaps
           /\ Disposed(heap, <<x>>)[x] = NONE
           /\ \A t \in Text : t # x => Disposed(heap, <<x>>)[t] = heap[t]
<1> DEFINE s == <<x>>
<1>1. s \in Seq(Int) /\ \A t \in Text : t \in TextsIn(s) <=> t = x
  <2>1. x \in Int
    BY TextsFinite
  <2> QED BY <2>1 DEF TextsIn
<1> HIDE DEF s
<1>2. /\ Disposed(heap, s) \in Heaps
      /\ \A t \in Text : t \in TextsIn(s) => Disposed(heap, s)[t] = NONE
      /\ \A t \in Text : t \notin TextsIn(s) => Disposed(heap, s)[t] = heap[t]
  BY <1>1, DisposedFacts
<1> QED BY <1>1, <1>2 DEF s

LEMMA SoundText ==
    ASSUME NEW x \in Cell, Sound(heap, <<x>>)
    PROVE  x \in Text /\ heap[x] # NONE
<1> DEFINE u == <<x>>
<1>1. u \in Seq(Cell) /\ u[1] = x /\ 1 \in 1 .. Len(u) /\ Sound(heap, u)
  OBVIOUS
<1> HIDE DEF u
<1> QED BY <1>1, SoundIsText

LEMMA RemovesRemoveAt ==
    ASSUME NEW S, NEW s \in Seq(S), NEW p \in 1 .. Len(s), NEW r, r = RemoveAt(s, p)
    PROVE  r \in Seq(S) /\ Removes(r, s, p)
<1>1. /\ RemoveAt(s, p) \in Seq(S)
      /\ Len(RemoveAt(s, p)) = Len(s) - 1
      /\ \A i \in 1 .. Len(s) - 1 : RemoveAt(s, p)[i] = IF i < p THEN s[i] ELSE s[i + 1]
  BY RemoveAtFacts
<1> QED BY <1>1 DEF Removes

(* cb_remove. *)
LEMMA RemoveGood ==
    ASSUME BlocksInv, NEW b \in Block, NEW p \in Text,
           cb_remove(b, p), UNCHANGED <<names, calls>>
    PROVE  Good
<1> DEFINE s == tokens[b]
           n == Len(s)
<1>1. /\ Arrays \in Rows /\ hand \in SUBSET Text /\ heap \in Heaps
      /\ Single(Arrays, hand, heap) /\ s # NONE /\ s \in Seq(Cell)
      /\ b \in Owner /\ Arrays[b] = s
      /\ failed \/ NoJunk(s)
      /\ Len(s) <= cap[b] /\ cap[b] > 0 /\ cap[b] \in Nat /\ cap \in [Block -> Nat]
      /\ failed \in BOOLEAN /\ depth \in Nat /\ (mode = "run" => ret = NONE)
  BY InvSays, ArraysAreArrays, ArraysAre DEF cb_remove, Live, Lines
<1>2. /\ mode = "run" /\ failed' = failed /\ cap' = cap
      /\ names' = names /\ level' = level /\ ret' = ret /\ depth' = depth
      /\ hand' = hand
  BY DEF cb_remove, calls
<1>3. p \in 1 .. n /\ n \in Nat
  BY <1>1 DEF cb_remove
<1> DEFINE x == s[p]
<1>4. CASE ~Sound(heap, <<x>>)
  <2>1. failed
    <3>1. Arrays[b][p] = x /\ p \in 1 .. Len(Arrays[b])
      BY <1>1, <1>3
    <3> HIDE DEF x
    <3> QED BY <1>1, <1>4, <3>1, SoundRow
  <2>2. mode' = "wild" /\ UNCHANGED <<heap, tokens>>
    BY <1>4 DEF cb_remove
  <2> QED BY <1>2, <2>1, <2>2, WildGood
<1>5. CASE Sound(heap, <<x>>)
  <2> DEFINE v == Closed(b, p)
  <2>1. /\ heap' = Disposed(heap, <<x>>) /\ tokens' = Put(tokens, b, v)
        /\ mode' = "run" /\ cap' = Put(cap, b, cap[b])
    BY <1>1, <1>2, <1>5 DEF cb_remove, Put
  <2>2. v \in Seq(Cell) /\ Removes(v, s, p)
    BY <1>1, <1>3, ClosedIs
  <2>3. x \in Text
    <3>1. x \in Cell
      BY <1>1, <1>3
    <3> QED BY <1>5, <3>1, SoundText
  <2>4. /\ heap' \in Heaps /\ heap'[x] = NONE
        /\ \A t \in Text : t # x => heap'[t] = heap[t]
    BY <1>1, <2>1, <2>3, OneFreed
  <2>5. Held(s, hand, heap)
    BY <1>1, RowHeld
  <2>6. tokens[b] = s /\ Len(s) = n /\ x = s[p]
    OBVIOUS
  <2> HIDE DEF v, s, n, x
  <2>7. Len(v) = n - 1 /\ \A i \in 1 .. n - 1 : v[i] = IF i < p THEN s[i] ELSE s[i + 1]
    BY <2>2, <2>6 DEF Removes
  <2>8. \A i \in 1 .. n - 1 : \/ i < p /\ i \in 1 .. n /\ v[i] = s[i]
                              \/ i >= p /\ i + 1 \in 1 .. n /\ v[i] = s[i + 1]
    <3> TAKE i \in 1 .. n - 1
    <3>1. i \in 1 .. n /\ i + 1 \in 1 .. n /\ (i < p \/ (i >= p /\ ~(i < p)))
      BY <1>3
    <3> QED BY <2>7, <3>1
  <2>9. /\ \A i, j \in 1 .. n : s[i] \in Text /\ s[i] = s[j] => i = j
        /\ \A i \in 1 .. n : s[i] \in Text => s[i] \in TextsIn(s)
        /\ \A t \in TextsIn(s) : t \in Text /\ t \notin hand /\ heap[t] # NONE
        /\ \A t \in hand : heap[t] # NONE
    BY <2>5, <2>6 DEF Held, Distinct, TextsIn
  <2>10. ASSUME NEW i \in 1 .. n - 1, v[i] \in Text PROVE v[i] \in TextsIn(s) /\ v[i] # x
    <3>1. CASE i < p
      BY <1>3, <2>3, <2>6, <2>8, <2>9, <2>10, <3>1
    <3>2. CASE i >= p
      <4>1. i + 1 \in 1 .. n /\ v[i] = s[i + 1] /\ i + 1 # p
        BY <1>3, <2>8, <3>2
      <4> QED BY <1>3, <2>3, <2>6, <2>9, <2>10, <4>1
    <3> QED BY <1>3, <3>1, <3>2
  <2>11. Distinct(v)
    <3>1. ASSUME NEW i \in 1 .. n - 1, NEW j \in 1 .. n - 1, v[i] \in Text, v[i] = v[j], i < j
          PROVE  FALSE
      <4>1. CASE j < p
        <5>1. i \in 1 .. n /\ j \in 1 .. n /\ v[i] = s[i] /\ v[j] = s[j] /\ i # j
          BY <1>3, <2>8, <3>1, <4>1
        <5> QED BY <2>9, <3>1, <5>1
      <4>2. CASE i < p /\ j >= p
        <5>1. i \in 1 .. n /\ j + 1 \in 1 .. n /\ v[i] = s[i] /\ v[j] = s[j + 1] /\ i # j + 1
          BY <1>3, <2>8, <3>1, <4>2
        <5> QED BY <2>9, <3>1, <5>1
      <4>3. CASE i >= p
        <5>1. i + 1 \in 1 .. n /\ j + 1 \in 1 .. n /\ v[i] = s[i + 1] /\ v[j] = s[j + 1]
              /\ i + 1 # j + 1
          BY <1>3, <2>8, <3>1, <4>3
        <5> QED BY <2>9, <3>1, <5>1
      <4> QED BY <1>3, <3>1, <4>1, <4>2, <4>3
    <3>2. \A i, j \in 1 .. n - 1 : i < j \/ j < i \/ i = j
      BY <1>3
    <3> QED BY <2>7, <3>1, <3>2 DEF Distinct
  <2>12. \A t \in TextsIn(v) : t \in TextsIn(s) /\ t # x
    BY <2>7, <2>10 DEF TextsIn
  <2>13. ASSUME NEW t \in TextsIn(s), t # x PROVE t \in TextsIn(v)
    <3>1. PICK i \in 1 .. n : s[i] = t
      BY <2>6 DEF TextsIn
    <3>2. CASE i < p
      <4>1. i \in 1 .. n - 1 /\ v[i] = s[i]
        BY <1>3, <2>7, <3>2
      <4> QED BY <2>7, <2>9, <3>1, <4>1 DEF TextsIn
    <3>3. CASE i > p
      <4>1. i - 1 \in 1 .. n - 1 /\ v[i - 1] = s[(i - 1) + 1] /\ (i - 1) + 1 = i
        BY <1>3, <2>7, <3>3
      <4> QED BY <2>7, <2>9, <3>1, <4>1 DEF TextsIn
    <3> QED BY <1>3, <2>6, <2>13, <3>1, <3>2, <3>3
  <2>14. Change(Arrays, hand, heap, b, v, hand, heap')
    <3>1. x \in TextsIn(s) /\ Arrays[b] = s
      BY <1>1, <1>3, <2>3, <2>6, <2>9
    <3> QED BY <1>1, <2>4, <2>9, <2>11, <2>12, <3>1 DEF Change, Own
  <2>15. Kept(Arrays, hand, heap, b, v, hand, heap')
    BY <1>1, <2>4, <2>13 DEF Kept, Own
  <2>16. NoJunk(s) => NoJunk(v)
    BY <2>6, <2>7, <2>8 DEF NoJunk
  <2>17. BlockMove(b, v, cap[b])
    <3>1. v # NONE /\ Row(v) = v
      BY <2>2, NoneIsNoList DEF Row
    <3>2. Turn(b, v)
      BY <1>1, <1>2, <2>1 DEF Turn
    <3>3. Len(v) <= cap[b]
      <4>1. n <= cap[b]
        BY <1>1, <2>6
      <4> QED BY <1>1, <1>3, <2>7, <4>1
    <3> QED BY <1>1, <1>2, <2>1, <2>2, <2>4, <2>14, <2>15, <2>16, <3>1, <3>2, <3>3
        DEF BlockMove
  <2>18. /\ BlocksInv'
         /\ Lists' = Put(Lists, b, Lists'[b])
         /\ Lists[b] = List(heap, s) /\ Lists'[b] = List(heap', v)
         /\ Reading(level)' = Reading(level)
    BY <2>17, <2>6, BlockMoves
  <2>19. WL!Edit(b)
    <3> DEFINE A == Said(heap, s)
               B == Said(heap', v)
    <3>1. /\ A \in Seq(Word \cup {Garbage}) /\ A # NONE /\ Len(A) = n
          /\ \A i \in 1 .. n : A[i] = IF s[i] = JUNK THEN Garbage ELSE heap[s[i]]
      <4>1. \A i \in 1 .. Len(s) : s[i] \in Text => heap[s[i]] # NONE
        BY <2>5 DEF Held
      <4> QED BY <1>1, <2>6, <4>1, SaidFacts
    <3>2. /\ B \in Seq(Word \cup {Garbage}) /\ B # NONE /\ Len(B) = n - 1
          /\ \A i \in 1 .. n - 1 : B[i] = IF v[i] = JUNK THEN Garbage ELSE heap'[v[i]]
      <4>1. \A i \in 1 .. Len(v) : v[i] \in Text => heap'[v[i]] # NONE
        BY <2>4, <2>7, <2>9, <2>10
      <4> QED BY <2>2, <2>4, <2>7, <4>1, SaidFacts
    <3>3. v # NONE /\ Lists[b] = A /\ Lists'[b] = B
      BY <1>1, <2>2, <2>18, NoneIsNoList DEF List
    <3> HIDE DEF A, B
    <3> DEFINE I == RemoveAt(A, p)
    <3>4. I \in Seq(Word \cup {Garbage}) /\ Removes(I, A, p)
      BY <1>3, <3>1, RemovesRemoveAt
    <3> HIDE DEF I
    <3>5. Len(I) = n - 1 /\ \A i \in 1 .. n - 1 : I[i] = IF i < p THEN A[i] ELSE A[i + 1]
      BY <3>1, <3>4 DEF Removes
    <3>6. \A i \in 1 .. n - 1 : B[i] = I[i]
      <4> TAKE i \in 1 .. n - 1
      <4>1. v[i] = JUNK \/ (v[i] \in Text /\ heap'[v[i]] = heap[v[i]])
        <5>1. v[i] \in Cell
          BY <2>2, <2>7
        <5> QED BY <2>4, <2>10, <5>1 DEF Cell
      <4>2. CASE i < p
        <5>1. i \in 1 .. n /\ v[i] = s[i]
          BY <1>3, <2>8, <4>2
        <5>2. B[i] = A[i]
          BY <3>1, <3>2, <4>1, <5>1
        <5> QED BY <3>5, <4>2, <5>2
      <4>3. CASE ~(i < p)
        <5>1. i + 1 \in 1 .. n /\ v[i] = s[i + 1]
          BY <1>3, <2>8, <4>3
        <5>2. B[i] = A[i + 1]
          BY <3>1, <3>2, <4>1, <5>1
        <5> QED BY <3>5, <4>3, <5>2
      <4> QED BY <4>2, <4>3
    <3>7. B = I
      BY <3>2, <3>4, <3>5, <3>6, SeqEqual
    <3>8. p \in DOMAIN Lists[b]
      BY <1>3, <3>1, <3>3
    <3>9. WL!Removed(b, p)
      BY <3>3, <3>7 DEF WL!Removed, I, RemoveAt, WL!RemoveAt
    <3> QED BY <3>1, <3>2, <3>3, <3>8, <3>9 DEF WL!Edit
  <2> QED BY <2>18, <2>19, ListStep DEF Good
<1> QED BY <1>4, <1>5

(* cb_set. *)
LEMMA SetGood ==
    ASSUME BlocksInv, NEW b \in Block, NEW t \in hand, NEW p \in Text,
           cb_set(b, p, t), UNCHANGED <<names, calls>>
    PROVE  Good
<1> DEFINE s == tokens[b]
           n == Len(s)
<1>1. /\ Arrays \in Rows /\ hand \in SUBSET Text /\ heap \in Heaps
      /\ Single(Arrays, hand, heap) /\ s # NONE /\ s \in Seq(Cell)
      /\ b \in Owner /\ Arrays[b] = s
      /\ failed \/ NoJunk(s)
      /\ Len(s) <= cap[b] /\ cap[b] > 0 /\ cap[b] \in Nat /\ cap \in [Block -> Nat]
      /\ failed \in BOOLEAN /\ depth \in Nat /\ (mode = "run" => ret = NONE)
  BY InvSays, ArraysAreArrays, ArraysAre DEF cb_set, Live, Lines
<1>2. /\ mode = "run" /\ failed' = failed /\ cap' = cap
      /\ names' = names /\ level' = level /\ ret' = ret /\ depth' = depth
  BY DEF cb_set, calls
<1>3. p \in 1 .. n /\ n \in Nat
  BY <1>1 DEF cb_set
<1> DEFINE x == s[p]
<1>4. CASE ~Sound(heap, <<x>>)
  <2>1. failed
    <3>1. Arrays[b][p] = x /\ p \in 1 .. Len(Arrays[b])
      BY <1>1, <1>3
    <3> HIDE DEF x
    <3> QED BY <1>1, <1>4, <3>1, SoundRow
  <2>2. mode' = "wild" /\ UNCHANGED <<heap, tokens, hand>>
    BY <1>4 DEF cb_set
  <2> QED BY <1>2, <2>1, <2>2, WildGood
<1>5. CASE Sound(heap, <<x>>)
  <2> DEFINE v == [s EXCEPT ![p] = t]
  <2>1. /\ heap' = Disposed(heap, <<x>>) /\ tokens' = Put(tokens, b, v)
        /\ mode' = "run" /\ cap' = Put(cap, b, cap[b]) /\ hand' = hand \ {t}
    BY <1>1, <1>2, <1>5 DEF cb_set, Put
  <2>2. t \in Cell /\ t \in Text /\ t # JUNK
    BY <1>1, TextsFinite DEF Cell
  <2>3. x \in Text
    <3>1. x \in Cell
      BY <1>1, <1>3
    <3> QED BY <1>5, <3>1, SoundText
  <2>4. /\ heap' \in Heaps /\ heap'[x] = NONE
        /\ \A y \in Text : y # x => heap'[y] = heap[y]
    BY <1>1, <2>1, <2>3, OneFreed
  <2>5. Held(s, hand, heap)
    BY <1>1, RowHeld
  <2>6. /\ tokens[b] = s /\ Len(s) = n /\ x = s[p]
        /\ v \in Seq(Cell) /\ Len(v) = n /\ v[p] = t
        /\ \A i \in 1 .. n : i # p => v[i] = s[i]
    BY <1>1, <1>3, <2>2
  <2> HIDE DEF v, s, n, x
  <2>7. /\ \A i, j \in 1 .. n : s[i] \in Text /\ s[i] = s[j] => i = j
        /\ \A i \in 1 .. n : s[i] \in Text => s[i] \in TextsIn(s)
        /\ \A y \in TextsIn(s) : y \in Text /\ y \notin hand /\ heap[y] # NONE
        /\ \A y \in hand : heap[y] # NONE
        /\ t \notin TextsIn(s)
    BY <2>5, <2>6 DEF Held, Distinct, TextsIn
  <2>8. t # x /\ x \in TextsIn(s) /\ x \notin hand
    BY <1>3, <2>3, <2>6, <2>7
  <2>9. Distinct(v)
    <3>1. ASSUME NEW i \in 1 .. n, NEW j \in 1 .. n, v[i] \in Text, v[i] = v[j], i # j
          PROVE  FALSE
      <4>1. CASE i = p
        BY <2>2, <2>6, <2>7, <3>1, <4>1
      <4>2. CASE j = p
        BY <2>2, <2>6, <2>7, <3>1, <4>2
      <4>3. CASE i # p /\ j # p
        BY <2>6, <2>7, <3>1, <4>3
      <4> QED BY <4>1, <4>2, <4>3
    <3> QED BY <2>6, <3>1 DEF Distinct
  <2>10. \A y \in TextsIn(v) : y = t \/ (y \in TextsIn(s) /\ y # x)
    <3>1. ASSUME NEW i \in 1 .. n, v[i] \in Text
          PROVE  v[i] = t \/ (v[i] \in TextsIn(s) /\ v[i] # x)
      BY <1>3, <2>6, <2>7, <3>1
    <3> QED BY <2>6, <3>1 DEF TextsIn
  <2>11. \A y \in TextsIn(s) : y = x \/ y \in TextsIn(v)
    <3>1. ASSUME NEW i \in 1 .. n, s[i] \in Text PROVE s[i] = x \/ s[i] \in TextsIn(v)
      BY <2>6, <3>1 DEF TextsIn
    <3> QED BY <2>6, <3>1 DEF TextsIn
  <2>12. t \in TextsIn(v)
    BY <1>3, <2>2, <2>6 DEF TextsIn
  <2>13. Change(Arrays, hand, heap, b, v, hand', heap')
    <3>1. Arrays[b] = s /\ hand' = hand \ {t}
      BY <1>1, <2>1
    <3>2. \A y \in TextsIn(v) : y \in Own(Arrays, hand, heap, b) \ hand' /\ heap'[y] # NONE
      BY <1>1, <2>2, <2>4, <2>7, <2>8, <2>10, <3>1 DEF Own
    <3>3. \A y \in hand' : y \in Own(Arrays, hand, heap, b) /\ heap'[y] # NONE
      BY <1>1, <2>4, <2>7, <2>8, <3>1 DEF Own
    <3>4. \A y \in Text : y \in Own(Arrays, hand, heap, b) \/ heap'[y] = heap[y]
      BY <2>4, <2>8, <3>1 DEF Own
    <3> QED BY <2>9, <3>2, <3>3, <3>4 DEF Change
  <2>14. Kept(Arrays, hand, heap, b, v, hand', heap')
    <3>1. Arrays[b] = s /\ hand' = hand \ {t}
      BY <1>1, <2>1
    <3> QED BY <2>4, <2>11, <2>12, <3>1 DEF Kept, Own
  <2>15. NoJunk(s) => NoJunk(v)
    BY <2>2, <2>6 DEF NoJunk
  <2>16. BlockMove(b, v, cap[b])
    <3>1. v # NONE /\ Row(v) = v
      BY <2>6, NoneIsNoList DEF Row
    <3>2. Turn(b, v)
      BY <1>1, <1>2, <2>1 DEF Turn
    <3>3. Len(v) <= cap[b] /\ hand' \in SUBSET Text
      BY <1>1, <2>1, <2>6
    <3> QED BY <1>1, <1>2, <2>1, <2>4, <2>6, <2>13, <2>14, <2>15, <3>1, <3>2, <3>3
        DEF BlockMove
  <2>17. /\ BlocksInv'
         /\ Lists' = Put(Lists, b, Lists'[b])
         /\ Lists[b] = List(heap, s) /\ Lists'[b] = List(heap', v)
         /\ Reading(level)' = Reading(level)
    BY <2>16, <2>6, BlockMoves
  <2>18. WL!Edit(b)
    <3> DEFINE A == Said(heap, s)
               B == Said(heap', v)
               w == heap[t]
    <3>1. /\ A \in Seq(Word \cup {Garbage}) /\ A # NONE /\ Len(A) = n
          /\ \A i \in 1 .. n : A[i] = IF s[i] = JUNK THEN Garbage ELSE heap[s[i]]
      <4>1. \A i \in 1 .. Len(s) : s[i] \in Text => heap[s[i]] # NONE
        BY <2>5 DEF Held
      <4> QED BY <1>1, <2>6, <4>1, SaidFacts
    <3>2. /\ B \in Seq(Word \cup {Garbage}) /\ B # NONE /\ Len(B) = n
          /\ \A i \in 1 .. n : B[i] = IF v[i] = JUNK THEN Garbage ELSE heap'[v[i]]
      <4>1. \A i \in 1 .. Len(v) : v[i] \in Text => heap'[v[i]] # NONE
        BY <2>13 DEF Change, TextsIn
      <4> QED BY <2>4, <2>6, <4>1, SaidFacts
    <3>3. v # NONE /\ Lists[b] = A /\ Lists'[b] = B
      BY <1>1, <2>6, <2>17, NoneIsNoList DEF List
    <3>4. w \in Word
      BY <1>1, <2>2, <2>7 DEF Heaps
    <3>5. B[p] = w
      BY <1>3, <2>2, <2>4, <2>6, <2>8, <3>2
    <3> HIDE DEF A, B, w
    <3>6. \A i \in 1 .. n : i # p => B[i] = A[i]
      <4> TAKE i \in 1 .. n
      <4> HAVE i # p
      <4>1. v[i] = s[i]
        BY <2>6
      <4>2. v[i] = JUNK \/ (v[i] \in Text /\ v[i] # x)
        <5>1. s[i] \in Cell
          BY <1>1, <2>6
        <5> QED BY <1>3, <2>3, <2>6, <2>7, <4>1, <5>1 DEF Cell
      <4> QED BY <2>4, <3>1, <3>2, <4>1, <4>2
    <3>7. B = [A EXCEPT ![p] = w]
      <4>1. /\ [A EXCEPT ![p] = w] \in Seq(Word \cup {Garbage})
            /\ Len([A EXCEPT ![p] = w]) = n
            /\ [A EXCEPT ![p] = w][p] = w
            /\ \A i \in 1 .. n : i # p => [A EXCEPT ![p] = w][i] = A[i]
        BY <1>3, <3>1, <3>4
      <4> DEFINE I == [A EXCEPT ![p] = w]
      <4> HIDE DEF I
      <4>2. I \in Seq(Word \cup {Garbage}) /\ Len(I) = n /\ \A i \in 1 .. n : B[i] = I[i]
        BY <1>3, <3>5, <3>6, <4>1 DEF I
      <4>3. B = I
        BY <3>2, <4>2, SeqEqual
      <4> QED BY <4>3 DEF I
    <3>8. p \in DOMAIN Lists[b]
      BY <1>3, <3>1, <3>3
    <3>9. WL!Replaced(b, p, w)
      BY <3>3, <3>7 DEF WL!Replaced, ReplaceAt, WL!ReplaceAt
    <3> QED BY <3>1, <3>2, <3>3, <3>4, <3>8, <3>9 DEF WL!Edit
  <2> QED BY <2>17, <2>18, ListStep DEF Good
<1> QED BY <1>4, <1>5

-----------------------------------------------------------------------------
(* The next token that is pushed, and what is pushed after it. *)
LEMMA LevelTail ==
    ASSUME BlocksInv, level # <<>>,
           NEW t, t = Head(level), NEW v, v = Tail(level)
    PROVE  /\ t \in Text /\ heap[t] \in Word /\ v \in Seq(Text) /\ Distinct(v)
           /\ \A y \in TextsIn(v) : y \in TextsIn(level) /\ y # t
           /\ t \in TextsIn(level)
           /\ \A y \in TextsIn(level) : y = t \/ y \in TextsIn(v)
           /\ Reading(level) \in Seq(Word) /\ Reading(level) # <<>>
           /\ Said(heap, v) = Tail(Reading(level))
           /\ Head(Reading(level)) = heap[t]
<1>1. /\ Arrays \in Rows /\ hand \in SUBSET Text /\ heap \in Heaps
      /\ Single(Arrays, hand, heap) /\ level \in Seq(Text) /\ level # <<>>
      /\ "level" \in Owner /\ Arrays["level"] = level /\ level \in Seq(Cell)
  BY InvSays, ArraysAreArrays, ArraysAre, NoneIsNoList
<1>3. /\ t = level[1] /\ t \in Text /\ v \in Seq(Text) /\ v \in Seq(Cell)
      /\ Len(v) = Len(level) - 1 /\ Len(level) \in Nat \ {0}
      /\ \A i \in 1 .. Len(v) : v[i] = level[i + 1]
  BY <1>1, HeadTailProperties, NoneIsNoList
<1>4. Held(level, hand, heap)
  BY <1>1, RowHeld
<1>5. /\ \A i \in 1 .. Len(v) : i + 1 \in 1 .. Len(level) /\ i + 1 # 1
      /\ \A i \in 1 .. Len(level) : i = 1 \/ (i - 1 \in 1 .. Len(v) /\ v[i - 1] = level[i])
  BY <1>3
<1>6. /\ \A i, j \in 1 .. Len(level) : level[i] \in Text /\ level[i] = level[j] => i = j
      /\ \A i \in 1 .. Len(level) : level[i] \in Text => level[i] \in TextsIn(level)
      /\ \A y \in TextsIn(level) : y \in Text /\ y \notin hand /\ heap[y] # NONE
      /\ \A y \in hand : heap[y] # NONE
  BY <1>4 DEF Held, Distinct, TextsIn
<1>7. Distinct(v)
  <2>1. ASSUME NEW i \in 1 .. Len(v), NEW j \in 1 .. Len(v), v[i] \in Text, v[i] = v[j]
        PROVE  i = j
    <3>1. i + 1 = j + 1
      BY <1>3, <1>5, <1>6, <2>1
    <3> QED BY <3>1
  <2> QED BY <2>1 DEF Distinct
<1>8. \A y \in TextsIn(v) : y \in TextsIn(level) /\ y # t
  <2>1. ASSUME NEW i \in 1 .. Len(v), v[i] \in Text
        PROVE  v[i] \in TextsIn(level) /\ v[i] # t
    <3>1. i + 1 \in 1 .. Len(level) /\ i + 1 # 1 /\ v[i] = level[i + 1] /\ 1 \in 1 .. Len(level)
      BY <1>3, <1>5
    <3> QED BY <1>3, <1>6, <2>1, <3>1
  <2> QED BY <2>1 DEF TextsIn
<1>9. t \in TextsIn(level) /\ \A y \in TextsIn(level) : y = t \/ y \in TextsIn(v)
  <2>1. t \in TextsIn(level)
    BY <1>3 DEF TextsIn
  <2>2. ASSUME NEW i \in 1 .. Len(level), level[i] \in Text
        PROVE  level[i] = t \/ level[i] \in TextsIn(v)
    BY <1>3, <1>5, <2>2 DEF TextsIn
  <2> QED BY <2>1, <2>2 DEF TextsIn
<1>10. Reading(level) = Said(heap, level) /\ heap[t] \in Word
  BY <1>1, <1>6, <1>9, ReadingIs DEF Heaps
<1> DEFINE A == Said(heap, level)
           B == Said(heap, v)
<1>11. /\ A \in Seq(Word) /\ Len(A) = Len(level)
       /\ \A i \in 1 .. Len(level) : A[i] = heap[level[i]]
  <2>1. NoJunk(level) /\ \A i \in 1 .. Len(level) : level[i] \in Text => heap[level[i]] # NONE
    BY <1>1, <1>6, TextsFinite DEF NoJunk
  <2>2. /\ A \in Seq(Word) /\ Len(A) = Len(level)
        /\ \A i \in 1 .. Len(level) : A[i] = IF level[i] = JUNK THEN Garbage ELSE heap[level[i]]
    BY <1>1, <2>1, SaidFacts
  <2> QED BY <2>1, <2>2 DEF NoJunk
<1>12. /\ B \in Seq(Word) /\ Len(B) = Len(v)
       /\ \A i \in 1 .. Len(v) : B[i] = heap[v[i]]
  <2>1. NoJunk(v) /\ \A i \in 1 .. Len(v) : v[i] \in Text => heap[v[i]] # NONE
    <3>1. \A i \in 1 .. Len(v) : v[i] \in Text
      BY <1>3
    <3> QED BY <1>3, <1>5, <1>6, <3>1, TextsFinite DEF NoJunk
  <2>2. /\ B \in Seq(Word) /\ Len(B) = Len(v)
        /\ \A i \in 1 .. Len(v) : B[i] = IF v[i] = JUNK THEN Garbage ELSE heap[v[i]]
    BY <1>1, <1>3, <2>1, SaidFacts
  <2> QED BY <2>1, <2>2 DEF NoJunk
<1> HIDE DEF A, B
<1>13. A # <<>> /\ B = Tail(A) /\ Head(A) = heap[t]
  <2>1. A # <<>> /\ Head(A) = heap[t]
    BY <1>3, <1>11
  <2> DEFINE T == Tail(A)
  <2>2. /\ T \in Seq(Word) /\ Len(T) = Len(A) - 1
        /\ \A i \in 1 .. Len(T) : T[i] = A[i + 1]
    BY <1>11, <2>1, HeadTailProperties
  <2> HIDE DEF T
  <2>3. Len(T) = Len(B) /\ Len(B) = Len(v)
    BY <1>3, <1>11, <1>12, <2>2
  <2>4. ASSUME NEW i \in 1 .. Len(v) PROVE B[i] = T[i]
    <3>1. i + 1 \in 1 .. Len(level) /\ v[i] = level[i + 1]
      BY <1>3, <1>5
    <3>2. T[i] = A[i + 1]
      BY <2>2, <2>3
    <3> QED BY <1>11, <1>12, <3>1, <3>2
  <2>5. B = T
    BY <1>12, <2>2, <2>3, <2>4, SeqEqual
  <2> QED BY <2>1, <2>5 DEF T
<1> QED BY <1>3, <1>7, <1>8, <1>9, <1>10, <1>11, <1>13 DEF A, B

(* The first token that is pushed comes into hand, or to a block. *)
LEMMA PopChange ==
    ASSUME BlocksInv, level # <<>>,
           NEW t, t = Head(level), NEW v, v = Tail(level)
    PROVE  /\ Change(Arrays, hand, heap, "level", v, hand \cup {t}, heap)
           /\ Kept(Arrays, hand, heap, "level", v, hand \cup {t}, heap)
           /\ Change(Arrays, hand, heap, "level", v, hand, heap)
           /\ t \notin hand
<1>1. /\ Arrays \in Rows /\ hand \in SUBSET Text /\ heap \in Heaps
      /\ Single(Arrays, hand, heap) /\ level \in Seq(Text)
      /\ "level" \in Owner /\ Arrays["level"] = level /\ level \in Seq(Cell)
  BY InvSays, ArraysAreArrays, ArraysAre, NoneIsNoList
<1>2. /\ t \in Text /\ Distinct(v)
      /\ \A y \in TextsIn(v) : y \in TextsIn(level) /\ y # t
      /\ t \in TextsIn(level)
      /\ \A y \in TextsIn(level) : y = t \/ y \in TextsIn(v)
  BY <1>1, LevelTail
<1>3. /\ \A y \in TextsIn(level) : y \in Text /\ y \notin hand /\ heap[y] # NONE
      /\ \A y \in hand : heap[y] # NONE
  <2>1. Held(level, hand, heap)
    BY <1>1, RowHeld
  <2> QED BY <2>1 DEF Held
<1>4. Change(Arrays, hand, heap, "level", v, hand \cup {t}, heap)
  BY <1>1, <1>2, <1>3 DEF Change, Own
<1>5. Kept(Arrays, hand, heap, "level", v, hand \cup {t}, heap)
  BY <1>1, <1>2 DEF Kept, Own
<1>6. Change(Arrays, hand, heap, "level", v, hand, heap)
  BY <1>1, <1>2, <1>3 DEF Change, Own
<1> QED BY <1>2, <1>3, <1>4, <1>5, <1>6

LEMMA PopGood ==
    ASSUME BlocksInv, Pop
    PROVE  Good
<1> DEFINE t == Head(level)
           v == Tail(level)
<1>1. /\ Arrays \in Rows /\ hand \in SUBSET Text /\ heap \in Heaps
      /\ Single(Arrays, hand, heap) /\ level \in Seq(Text) /\ level # <<>>
      /\ "level" \in Owner /\ Arrays["level"] = level
      /\ failed \in BOOLEAN /\ depth \in Nat /\ level \in Seq(Cell)
  BY InvSays, ArraysAreArrays, ArraysAre, NoneIsNoList DEF Pop
<1>2. /\ mode = "run" /\ mode' = mode /\ failed' = failed /\ cap' = cap /\ heap' = heap
      /\ names' = names /\ ret' = ret /\ depth' = depth /\ tokens' = tokens
      /\ hand' = hand \cup {t} /\ level' = v
  BY DEF Pop
<1>3. t = Head(level) /\ v = Tail(level)
  OBVIOUS
<1> HIDE DEF t, v
<1>4. /\ t \in Text /\ v \in Seq(Text) /\ Distinct(v)
      /\ \A y \in TextsIn(v) : y \in TextsIn(level) /\ y # t
      /\ t \in TextsIn(level)
      /\ \A y \in TextsIn(level) : y = t \/ y \in TextsIn(v)
      /\ Reading(level) # <<>>
      /\ Said(heap, v) = Tail(Reading(level))
  BY <1>1, <1>3, LevelTail
<1>6. /\ Change(Arrays, hand, heap, "level", v, hand \cup {t}, heap)
      /\ Kept(Arrays, hand, heap, "level", v, hand \cup {t}, heap)
  BY <1>1, <1>3, PopChange
<1>8. LevelMove(v)
  BY <1>1, <1>2, <1>4, <1>6 DEF LevelMove
<1>9. BlocksInv' /\ Lists' = Lists
  BY <1>8, LevelMoves
<1>10. Reading(level)' = Tail(Reading(level))
  BY <1>2, <1>4, ReadingIs
<1>11. WL!Take
  BY <1>4, <1>9, <1>10 DEF WL!Take
<1> QED BY <1>9, <1>11 DEF Good, WL!Next

(* What is sound to follow is so in part. *)
LEMMA SoundPart ==
    ASSUME NEW h, NEW s \in Seq(Cell), Sound(h, s), NEW k \in Nat \ {0}
    PROVE  Sound(h, SubSeq(s, k, Len(s)))
<1> DEFINE L == Len(s)
           r == SubSeq(s, k, L)
<1>1. L \in Nat /\ DOMAIN s = 1 .. L /\ \A i \in k .. L : s[i] \in Cell
  OBVIOUS
<1>2. \A i \in 1 .. L : \/ s[i] = NULL
                        \/ /\ s[i] \in Text /\ h[s[i]] # NONE
                           /\ \A j \in 1 .. i - 1 : s[j] # s[i]
  BY <1>1 DEF Sound
<1> HIDE DEF L
<1>3. /\ r \in Seq(Cell) /\ Len(r) = IF k <= L THEN L - k + 1 ELSE 0
      /\ \A i \in 1 .. L - k + 1 : r[i] = s[k + i - 1]
  BY <1>1, SubSeqProperties
<1> HIDE DEF r
<1>4. ASSUME NEW i \in 1 .. Len(r)
      PROVE  \/ r[i] = NULL
             \/ /\ r[i] \in Text /\ h[r[i]] # NONE
                /\ \A j \in 1 .. i - 1 : r[j] # r[i]
  <2> DEFINE a == k + i - 1
  <2>1. a \in 1 .. L /\ r[i] = s[a] /\ a \in Nat
    BY <1>1, <1>3
  <2>2. ASSUME NEW j \in 1 .. i - 1 PROVE r[j] = s[k + j - 1] /\ k + j - 1 \in 1 .. a - 1
    <3>1. j \in 1 .. L - k + 1
      BY <1>1, <1>3
    <3> QED BY <1>1, <1>3, <3>1
  <2> HIDE DEF a
  <2> QED BY <1>2, <2>1, <2>2
<1>5. DOMAIN r = 1 .. Len(r)
  BY <1>3
<1> QED BY <1>4, <1>5 DEF Sound, r, L

LEMMA ConcatParts ==
    ASSUME NEW S, NEW p \in Seq(S), NEW q \in Seq(S), NEW v, v = p \o q
    PROVE  /\ v \in Seq(S) /\ Len(v) = Len(p) + Len(q)
           /\ \A i \in 1 .. Len(p) : v[i] = p[i]
           /\ \A i \in 1 .. Len(q) : v[Len(p) + i] = q[i]
<1>1. Len(p) \in Nat /\ Len(q) \in Nat
  OBVIOUS
<1>2. /\ p \o q \in Seq(S) /\ Len(p \o q) = Len(p) + Len(q)
      /\ \A i \in 1 .. Len(p) + Len(q) :
            (p \o q)[i] = IF i <= Len(p) THEN p[i] ELSE q[i - Len(p)]
  BY ConcatProperties
<1> DEFINE a == Len(p)
           b == Len(q)
<1>3. /\ a \in Nat /\ b \in Nat
      /\ v \in Seq(S) /\ Len(v) = a + b
      /\ \A i \in 1 .. a + b : v[i] = IF i <= a THEN p[i] ELSE q[i - a]
  BY <1>1, <1>2
<1> HIDE DEF a, b
<1>4. \A i \in 1 .. a : v[i] = p[i]
  BY <1>3
<1>5. ASSUME NEW i \in 1 .. b PROVE v[a + i] = q[i]
  <2>1. a + i \in 1 .. a + b /\ ~(a + i <= a) /\ (a + i) - a = i
    BY <1>3
  <2> QED BY <1>3, <2>1
<1> QED BY <1>3, <1>4, <1>5 DEF a, b

Pushes(h, lv, m, c, new, ws, g, v) ==
    /\ h \in Heaps /\ lv \in Seq(Text) /\ m \in Nat /\ c \in 0 .. m
    /\ new \in Seq(Text) /\ Len(new) = m /\ Distinct(new) /\ Distinct(lv)
    /\ \A i \in 1 .. m : h[new[i]] = NONE
    /\ \A i \in 1 .. Len(lv) : h[lv[i]] # NONE
    /\ ws \in Seq(Word) /\ Len(ws) = m /\ g = Filled(h, new, ws)
    /\ v = SubSeq(new, 1 + c, m) \o lv

PushedWell(h, lv, m, c, new, ws, g, v) ==
    /\ g \in Heaps /\ v \in Seq(Text) /\ Distinct(v)
    /\ \A t \in Text : g[t] = h[t] \/ t \in TextsIn(new)
    /\ \A t \in TextsIn(v) : g[t] # NONE /\ (t \in TextsIn(lv) \/ t \in TextsIn(new))
    /\ \A t \in TextsIn(lv) : t \in TextsIn(v)
    /\ (c = 0 => \A t \in TextsIn(new) : t \in TextsIn(v))
    /\ Said(g, v) = SubSeq(ws, 1 + c, m) \o Said(h, lv)

(* What the level is once the texts of new behind the first c are pushed.  *)
LEMMA PushedSays ==
    ASSUME NEW h, NEW lv, NEW m, NEW c, NEW new, NEW ws, NEW g, NEW v,
           Pushes(h, lv, m, c, new, ws, g, v)
    PROVE  PushedWell(h, lv, m, c, new, ws, g, v)
<1>0. /\ h \in Heaps /\ lv \in Seq(Text) /\ m \in Nat /\ c \in 0 .. m
      /\ new \in Seq(Text) /\ Len(new) = m /\ Distinct(new) /\ Distinct(lv)
      /\ \A i \in 1 .. m : h[new[i]] = NONE
      /\ \A i \in 1 .. Len(lv) : h[lv[i]] # NONE
      /\ ws \in Seq(Word) /\ Len(ws) = m /\ g = Filled(h, new, ws)
      /\ v = SubSeq(new, 1 + c, m) \o lv
  BY DEF Pushes
<1> USE <1>0
<1> DEFINE d == m - c
           p == SubSeq(new, 1 + c, m)
           l == Len(lv)
<1>1. d \in Nat /\ c \in Nat /\ m = d + c /\ l \in Nat /\ \A i \in 1 .. d : c + i \in 1 .. m
  OBVIOUS
<1>2. /\ new \in Seq(Cell) /\ lv \in Seq(Cell)
      /\ \A i \in 1 .. m : new[i] \in Text /\ new[i] # JUNK
      /\ \A i \in 1 .. l : lv[i] \in Text /\ lv[i] # JUNK
  BY NoneIsNoList, TextsFinite
<1>3. p \in Seq(Text) /\ Len(p) = d /\ \A i \in 1 .. d : p[i] = new[c + i]
  <2>1. \A i \in 1 + c .. m : new[i] \in Text
    BY <1>2
  <2>2. /\ p \in Seq(Text) /\ Len(p) = IF 1 + c <= m THEN m - (1 + c) + 1 ELSE 0
        /\ \A i \in 1 .. m - (1 + c) + 1 : p[i] = new[(1 + c) + i - 1]
    BY <2>1, SubSeqProperties
  <2> HIDE DEF p
  <2>3. m - (1 + c) + 1 = d /\ \A i \in 1 .. d : (1 + c) + i - 1 = c + i
    OBVIOUS
  <2> QED BY <2>2, <2>3
<1>4. l = Len(lv) /\ v = p \o lv
  OBVIOUS
<1> HIDE DEF p, d, l
<1>5. v \in Seq(Text) /\ Len(v) = d + l
  BY <1>3, <1>4, ConcatProperties
<1>6. /\ \A i \in 1 .. d : v[i] = new[c + i]
      /\ \A i \in 1 .. l : v[d + i] = lv[i]
  <2> DEFINE u == p \o lv
  <2>1. u = p \o lv
    OBVIOUS
  <2> HIDE DEF u
  <2>2. /\ \A i \in 1 .. Len(p) : u[i] = p[i]
        /\ \A i \in 1 .. Len(lv) : u[Len(p) + i] = lv[i]
    <3>1. p \in Seq(Text) /\ lv \in Seq(Text)
      BY <1>3
    <3> QED BY ONLY <2>1, <3>1, ConcatParts
  <2>3. u = v
    BY <1>4, <2>1
  <2> QED BY <1>3, <1>4, <2>2, <2>3
<1>7. \A i \in 1 .. Len(v) : \/ i \in 1 .. d
                             \/ i - d \in 1 .. l /\ i = d + (i - d)
  BY <1>1, <1>5
<1>8. /\ g \in Heaps
      /\ \A i \in 1 .. m : g[new[i]] = ws[i]
      /\ \A t \in Text : t \notin TextsIn(new) => g[t] = h[t]
  <2>1. Len(ws) = Len(new)
    OBVIOUS
  <2>2. /\ Filled(h, new, ws) \in Heaps
        /\ \A i \in 1 .. Len(new) : new[i] \in Text => Filled(h, new, ws)[new[i]] = ws[i]
        /\ \A t \in Text : t \notin TextsIn(new) => Filled(h, new, ws)[t] = h[t]
    BY <1>2, <2>1, FilledFacts
  <2> QED BY ONLY <1>0, <1>2, <2>2
<1>9. \A i \in 1 .. m, j \in 1 .. l : new[i] # lv[j]
  BY <1>4
<1>10. \A i \in 1 .. l : g[lv[i]] = h[lv[i]]
  BY <1>2, <1>8, <1>9 DEF TextsIn
<1>11. Distinct(v)
  <2>1. ASSUME NEW i \in 1 .. Len(v), NEW j \in 1 .. Len(v), v[i] = v[j] PROVE i = j
    <3>1. CASE i \in 1 .. d /\ j \in 1 .. d
      <4>1. c + i = c + j
        BY <1>1, <1>2, <1>6, <2>1, <3>1 DEF Distinct
      <4> QED BY <1>1, <3>1, <4>1
    <3>2. CASE i \in 1 .. d /\ j - d \in 1 .. l /\ j = d + (j - d)
      <4>1. v[i] = new[c + i] /\ c + i \in 1 .. m /\ v[j] = lv[j - d]
        BY <1>1, <1>6, <3>2
      <4> QED BY <1>9, <2>1, <3>2, <4>1
    <3>3. CASE j \in 1 .. d /\ i - d \in 1 .. l /\ i = d + (i - d)
      <4>1. v[j] = new[c + j] /\ c + j \in 1 .. m /\ v[i] = lv[i - d]
        BY <1>1, <1>6, <3>3
      <4> QED BY <1>9, <2>1, <3>3, <4>1
    <3>4. CASE i - d \in 1 .. l /\ i = d + (i - d) /\ j - d \in 1 .. l /\ j = d + (j - d)
      <4>1. lv[i - d] = lv[j - d] /\ lv[i - d] \in Text
        BY <1>2, <1>6, <2>1, <3>4
      <4>2. i - d = j - d
        BY <1>4, <3>4, <4>1 DEF Distinct
      <4> QED BY <3>4, <4>2
    <3> QED BY <1>7, <3>1, <3>2, <3>3, <3>4
  <2> QED BY <2>1 DEF Distinct
<1>12. \A t \in TextsIn(v) : g[t] # NONE /\ (t \in TextsIn(lv) \/ t \in TextsIn(new))
  <2>1. ASSUME NEW i \in 1 .. Len(v)
        PROVE  g[v[i]] # NONE /\ (v[i] \in TextsIn(lv) \/ v[i] \in TextsIn(new))
    <3>1. CASE i \in 1 .. d
      <4>1. v[i] = new[c + i] /\ c + i \in 1 .. m
        BY <1>1, <1>6, <3>1
      <4>2. ws[c + i] \in Word
        BY <4>1
      <4> QED BY <1>2, <1>8, <4>1, <4>2, NoneAssumption DEF TextsIn
    <3>2. CASE i - d \in 1 .. l /\ i = d + (i - d)
      <4> DEFINE k == i - d
      <4>1. v[i] = lv[k] /\ k \in 1 .. Len(lv)
        BY <1>4, <1>6, <3>2
      <4> HIDE DEF k
      <4>2. lv[k] \in Text /\ lv[k] \in TextsIn(lv)
        BY <1>2, <1>4, <4>1 DEF TextsIn
      <4>3. g[lv[k]] # NONE
        BY <1>4, <1>10, <4>1
      <4> QED BY ONLY <4>1, <4>2, <4>3
    <3> QED BY <1>7, <3>1, <3>2
  <2> QED BY <2>1 DEF TextsIn
<1>13. \A t \in TextsIn(lv) : t \in TextsIn(v)
  <2>1. ASSUME NEW i \in 1 .. l PROVE lv[i] \in TextsIn(v)
    <3>1. d + i \in 1 .. Len(v) /\ v[d + i] = lv[i]
      BY <1>1, <1>5, <1>6
    <3> QED BY <1>2, <3>1 DEF TextsIn
  <2> QED BY <1>4, <2>1 DEF TextsIn
<1>14. ASSUME c = 0 PROVE \A t \in TextsIn(new) : t \in TextsIn(v)
  <2>1. ASSUME NEW i \in 1 .. m PROVE new[i] \in TextsIn(v)
    <3>1. i \in 1 .. Len(v) /\ v[i] = new[i]
      BY <1>1, <1>5, <1>6, <1>14
    <3> QED BY <1>2, <3>1 DEF TextsIn
  <2> QED BY <2>1 DEF TextsIn
<1>15. Said(g, v) = SubSeq(ws, 1 + c, m) \o Said(h, lv)
  <2> DEFINE A == Said(h, lv)
             B == Said(g, v)
             q == SubSeq(ws, 1 + c, m)
             r == q \o A
  <2>1. /\ A \in Seq(Word) /\ Len(A) = l
        /\ \A i \in 1 .. l : A[i] = h[lv[i]]
    <3>1. NoJunk(lv) /\ \A i \in 1 .. Len(lv) : lv[i] \in Text => h[lv[i]] # NONE
      BY <1>2, <1>4 DEF NoJunk
    <3>2. /\ A \in Seq(Word) /\ Len(A) = Len(lv)
          /\ \A i \in 1 .. Len(lv) : A[i] = IF lv[i] = JUNK THEN Garbage ELSE h[lv[i]]
      BY <1>2, <3>1, SaidFacts
    <3> QED BY <1>2, <1>4, <3>2
  <2>2. /\ B \in Seq(Word) /\ Len(B) = Len(v)
        /\ \A i \in 1 .. Len(v) : B[i] = g[v[i]]
    <3>1. \A i \in 1 .. Len(v) : v[i] \in Text /\ v[i] # JUNK
      BY <1>5, TextsFinite
    <3>2. NoJunk(v) /\ \A i \in 1 .. Len(v) : v[i] \in Text => g[v[i]] # NONE
      BY <1>12, <3>1 DEF NoJunk, TextsIn
    <3>3. /\ B \in Seq(Word) /\ Len(B) = Len(v)
          /\ \A i \in 1 .. Len(v) : B[i] = IF v[i] = JUNK THEN Garbage ELSE g[v[i]]
      <4>1. v \in Seq(Cell)
        BY <1>5, NoneIsNoList
      <4> QED BY <1>8, <3>2, <4>1, SaidFacts
    <3> QED BY <3>1, <3>3
  <2>3. q \in Seq(Word) /\ Len(q) = d /\ \A i \in 1 .. d : q[i] = ws[c + i]
    <3>1. \A i \in 1 + c .. m : ws[i] \in Word
      OBVIOUS
    <3>2. /\ q \in Seq(Word) /\ Len(q) = IF 1 + c <= m THEN m - (1 + c) + 1 ELSE 0
          /\ \A i \in 1 .. m - (1 + c) + 1 : q[i] = ws[(1 + c) + i - 1]
      BY <3>1, SubSeqProperties, SMTT(30)
    <3> HIDE DEF q
    <3>3. m - (1 + c) + 1 = d /\ \A i \in 1 .. d : (1 + c) + i - 1 = c + i
      BY DEF d
    <3> QED BY <1>1, <3>2, <3>3
  <2> HIDE DEF A, B, q
  <2>9. r = q \o A
    OBVIOUS
  <2> HIDE DEF r
  <2>4. /\ r \in Seq(Word) /\ Len(r) = Len(q) + Len(A)
        /\ \A i \in 1 .. Len(q) : r[i] = q[i]
        /\ \A i \in 1 .. Len(A) : r[Len(q) + i] = A[i]
    <3>1. q \in Seq(Word) /\ A \in Seq(Word)
      BY <2>1, <2>3
    <3> QED BY ONLY <2>9, <3>1, ConcatParts
  <2>5. \A i \in 1 .. d : r[i] = q[i]
    BY <2>3, <2>4
  <2>6. \A i \in 1 .. l : r[d + i] = A[i]
    BY <2>1, <2>3, <2>4
  <2>7. ASSUME NEW i \in 1 .. Len(v) PROVE B[i] = r[i]
    <3>1. CASE i \in 1 .. d
      <4>1. v[i] = new[c + i] /\ c + i \in 1 .. m
        BY <1>1, <1>6, <3>1
      <4>2. B[i] = ws[c + i]
        <5>1. B[i] = g[v[i]] /\ g[new[c + i]] = ws[c + i]
          BY <1>8, <2>2, <4>1
        <5> QED BY ONLY <4>1, <5>1
      <4> QED BY <2>3, <2>5, <3>1, <4>2
    <3>2. CASE i - d \in 1 .. l /\ i = d + (i - d)
      <4>1. v[i] = lv[i - d]
        BY <1>6, <3>2
      <4>2. B[i] = A[i - d]
        <5> DEFINE k == i - d
        <5>1. k \in 1 .. l /\ v[i] = lv[k]
          BY <3>2, <4>1
        <5> HIDE DEF k
        <5>2. B[i] = g[v[i]]
          BY <2>2
        <5>3. g[lv[k]] = h[lv[k]] /\ A[k] = h[lv[k]]
          BY <1>10, <2>1, <5>1
        <5> QED BY <5>1, <5>2, <5>3 DEF k
      <4>3. r[i] = A[i - d]
        BY <2>6, <3>2
      <4> QED BY <4>2, <4>3
    <3> QED BY <1>7, <3>1, <3>2
  <2>8. B = r
    <3>1. Len(B) = Len(r) /\ \A i \in 1 .. Len(B) : B[i] = r[i]
      BY <1>5, <2>1, <2>2, <2>3, <2>4, <2>7
    <3> QED BY <2>2, <2>4, <3>1, SeqEqual
  <2> QED BY <2>8 DEF A, B, q, r
<1> QED BY <1>5, <1>8, <1>11, <1>12, <1>13, <1>14, <1>15 DEF PushedWell

LEMMA TailIs ==
    ASSUME NEW S, NEW x \in Seq(S), NEW k \in 1 .. Len(x) + 1,
           NEW y, y = SubSeq(x, k, Len(x))
    PROVE  /\ y \in Seq(S) /\ Len(y) = Len(x) - k + 1
           /\ \A i \in 1 .. Len(y) : y[i] = x[k + i - 1] /\ k + i - 1 \in 1 .. Len(x)
<1> DEFINE L == Len(x)
<1>1. L \in Nat /\ k \in Nat /\ L = Len(x) /\ k \in 1 .. L + 1
  OBVIOUS
<1>2. \A i \in k .. L : x[i] \in S
  OBVIOUS
<1>3. /\ y \in Seq(S) /\ Len(y) = IF k <= L THEN L - k + 1 ELSE 0
      /\ \A i \in 1 .. L - k + 1 : y[i] = x[k + i - 1]
  BY <1>2, SubSeqProperties
<1> HIDE DEF L
<1>4. Len(y) = L - k + 1
  BY <1>1, <1>3
<1>5. ASSUME NEW i \in 1 .. Len(y)
      PROVE  y[i] = x[k + i - 1] /\ k + i - 1 \in 1 .. L
  BY <1>1, <1>3, <1>4
<1> QED BY <1>1, <1>3, <1>4, <1>5

(* What follows in what follows, follows. *)
LEMMA TailOfTail ==
    ASSUME NEW S, NEW x \in Seq(S), NEW k \in 1 .. Len(x) + 1,
           NEW y, y = SubSeq(x, k, Len(x)), NEW c \in 0 .. Len(y)
    PROVE  SubSeq(y, 1 + c, Len(y)) = SubSeq(x, k + c, Len(x))
<1> DEFINE l == SubSeq(y, 1 + c, Len(y))
           r == SubSeq(x, k + c, Len(x))
           L == Len(x)
           M == Len(y)
<1>1. /\ y \in Seq(S) /\ M = L - k + 1 /\ L \in Nat /\ M \in Nat
      /\ \A i \in 1 .. M : y[i] = x[k + i - 1]
  BY TailIs
<1>2. 1 + c \in 1 .. M + 1 /\ k + c \in 1 .. L + 1 /\ k \in Nat /\ c \in Nat
  BY <1>1
<1>3. l = SubSeq(y, 1 + c, Len(y)) /\ r = SubSeq(x, k + c, Len(x))
  OBVIOUS
<1>4. /\ l \in Seq(S) /\ Len(l) = M - (1 + c) + 1
      /\ \A i \in 1 .. Len(l) : l[i] = y[(1 + c) + i - 1] /\ (1 + c) + i - 1 \in 1 .. M
  <2> DEFINE e == 1 + c
  <2>1. y \in Seq(S) /\ e \in 1 .. Len(y) + 1 /\ l = SubSeq(y, e, Len(y))
    BY <1>1, <1>2
  <2> HIDE DEF l, r, e
  <2>2. /\ l \in Seq(S) /\ Len(l) = Len(y) - e + 1
        /\ \A i \in 1 .. Len(l) : l[i] = y[e + i - 1] /\ e + i - 1 \in 1 .. Len(y)
    BY ONLY <2>1, TailIs
  <2> QED BY <2>2 DEF e
<1>5. /\ r \in Seq(S) /\ Len(r) = L - (k + c) + 1
      /\ \A i \in 1 .. Len(r) : r[i] = x[(k + c) + i - 1]
  <2> DEFINE e == k + c
  <2>1. x \in Seq(S) /\ e \in 1 .. Len(x) + 1 /\ r = SubSeq(x, e, Len(x))
    BY <1>1, <1>2
  <2> HIDE DEF l, r, e
  <2>2. /\ r \in Seq(S) /\ Len(r) = Len(x) - e + 1
        /\ \A i \in 1 .. Len(r) : r[i] = x[e + i - 1]
    BY ONLY <2>1, TailIs
  <2> QED BY <2>2 DEF e
<1> HIDE DEF l, r, L, M
<1>6. Len(l) = Len(r)
  BY <1>1, <1>2, <1>4, <1>5
<1>7. ASSUME NEW i \in 1 .. Len(l) PROVE l[i] = r[i]
  <2>1. i \in 1 .. Len(r) /\ i \in Nat
    BY <1>4, <1>6
  <2> DEFINE a == (1 + c) + i - 1
  <2>2. l[i] = y[a] /\ a \in 1 .. M
    BY <1>4
  <2>3. k + a - 1 = (k + c) + i - 1
    BY <1>2, <2>1
  <2> HIDE DEF a
  <2>4. y[a] = x[k + a - 1]
    BY <1>1, <2>2
  <2> QED BY <1>5, <2>1, <2>2, <2>3, <2>4
<1>8. l = r
  BY <1>4, <1>5, <1>6, <1>7, SeqEqual
<1> QED BY <1>8 DEF l, r

(* What the end of an array says is the end of what the array says.  *)
LEMMA SaidPart ==
    ASSUME NEW h \in Heaps, NEW s \in Seq(Cell),
           \A i \in 1 .. Len(s) : s[i] \in Text => h[s[i]] # NONE,
           NEW k \in 1 .. Len(s) + 1, NEW t, t = SubSeq(s, k, Len(s))
    PROVE  Said(h, t) = SubSeq(Said(h, s), k, Len(s))
<1> DEFINE w == Said(h, s)
           l == Said(h, t)
           r == SubSeq(w, k, Len(s))
           S == Word \cup {Garbage}
<1>1. /\ w \in Seq(S) /\ Len(w) = Len(s)
      /\ \A i \in 1 .. Len(s) : w[i] = IF s[i] = JUNK THEN Garbage ELSE h[s[i]]
  BY SaidFacts
<1>2. /\ t \in Seq(Cell) /\ Len(t) = Len(s) - k + 1
      /\ \A i \in 1 .. Len(t) : t[i] = s[k + i - 1] /\ k + i - 1 \in 1 .. Len(s)
  BY TailIs
<1>3. /\ l \in Seq(S) /\ Len(l) = Len(t)
      /\ \A i \in 1 .. Len(t) : l[i] = IF t[i] = JUNK THEN Garbage ELSE h[t[i]]
  <2>1. \A i \in 1 .. Len(t) : t[i] \in Text => h[t[i]] # NONE
    BY <1>2
  <2> QED BY <1>2, <2>1, SaidFacts
<1> HIDE DEF w, l, S
<1>4. r = SubSeq(w, k, Len(w))
  BY <1>1
<1> HIDE DEF r
<1>5. /\ r \in Seq(S) /\ Len(r) = Len(w) - k + 1
      /\ \A i \in 1 .. Len(r) : r[i] = w[k + i - 1]
  <2>1. k \in 1 .. Len(w) + 1
    BY <1>1
  <2> QED BY <1>1, <1>4, <2>1, TailIs
<1>6. Len(l) = Len(r)
  BY <1>1, <1>2, <1>3, <1>5
<1>7. ASSUME NEW i \in 1 .. Len(l) PROVE l[i] = r[i]
  <2> DEFINE a == k + i - 1
  <2>1. t[i] = s[a] /\ a \in 1 .. Len(s) /\ r[i] = w[a] /\ i \in 1 .. Len(t)
    BY <1>2, <1>3, <1>5, <1>6
  <2> HIDE DEF a
  <2>2. l[i] = IF s[a] = JUNK THEN Garbage ELSE h[s[a]]
    BY <1>3, <2>1
  <2>3. w[a] = IF s[a] = JUNK THEN Garbage ELSE h[s[a]]
    BY <1>1, <2>1
  <2> QED BY <2>1, <2>2, <2>3
<1>8. l = r
  BY <1>3, <1>5, <1>6, <1>7, SeqEqual
<1> QED BY <1>8 DEF l, r, w

(* The fresh texts new go to the level, and v is the level then.  *)
LEMMA PushChange ==
    ASSUME NEW R \in Rows, NEW H \in SUBSET Text, NEW h \in Heaps, Single(R, H, h),
           NEW lv \in Seq(Text), "level" \in Owner, R["level"] = lv,
           NEW new \in Seq(Text), \A t \in TextsIn(new) : h[t] = NONE,
           NEW v \in Seq(Text), Distinct(v), NEW g \in Heaps,
           \A t \in Text : g[t] = h[t] \/ t \in TextsIn(new),
           \A t \in TextsIn(v) :
              g[t] # NONE /\ (t \in TextsIn(lv) \/ t \in TextsIn(new)),
           \A t \in TextsIn(lv) : t \in TextsIn(v)
    PROVE  /\ Change(R, H, h, "level", v, H, g)
           /\ (\A t \in TextsIn(new) : t \in TextsIn(v))
                 => Kept(R, H, h, "level", v, H, g)
<1>1. Held(lv, H, h)
  BY RowHeld
<1>2. /\ \A t \in H : h[t] # NONE
      /\ \A t \in TextsIn(lv) : t \in Text /\ t \notin H /\ h[t] # NONE
  BY <1>1 DEF Held
<1>3. \A t \in TextsIn(new) : t \in Text /\ t \notin H /\ t \in Own(R, H, h, "level")
  BY <1>2 DEF TextsIn, Own
<1>4. \A t \in TextsIn(lv) : t \in Own(R, H, h, "level")
  BY <1>2 DEF Own
<1>5. \A t \in H : t \in Text /\ t \in Own(R, H, h, "level") /\ g[t] # NONE
  <2>1. \A t \in H : t \in Text /\ t \notin TextsIn(new)
    BY <1>3
  <2> QED BY <1>2, <2>1 DEF Own
<1>6. Change(R, H, h, "level", v, H, g)
  BY <1>2, <1>3, <1>4, <1>5 DEF Change
<1>7. ASSUME \A t \in TextsIn(new) : t \in TextsIn(v)
      PROVE  Kept(R, H, h, "level", v, H, g)
  <2>1. ASSUME NEW t \in Text
        PROVE  \/ g[t] \in {NONE, "}"} \/ t \in H \/ t \in TextsIn(v)
               \/ t \notin Own(R, H, h, "level") /\ g[t] = h[t]
    <3>1. CASE t \in TextsIn(new)
      BY <1>7, <3>1
    <3>2. CASE t \notin TextsIn(new)
      BY <3>2 DEF Own
    <3> QED BY <3>1, <3>2
  <2> QED BY <2>1 DEF Kept
<1> QED BY <1>6, <1>7

LEMMA FreshIn ==
    ASSUME NEW new \in Seq(Text), NEW h, \A i \in 1 .. Len(new) : h[new[i]] = NONE
    PROVE  \A t \in TextsIn(new) : h[t] = NONE
BY DEF TextsIn

(* A block runs, wholly or until memory runs out.  *)
LEMMA RunGood ==
    ASSUME BlocksInv, NEW b \in Block, Run(b)
    PROVE  Good
<1> DEFINE s == tokens[b]
           L == Len(s)
           w == Said(heap, s)
<1>1. /\ Arrays \in Rows /\ hand \in SUBSET Text /\ heap \in Heaps
      /\ Single(Arrays, hand, heap) /\ level \in Seq(Text)
      /\ "level" \in Owner /\ Arrays["level"] = level
      /\ s # NONE /\ b \in Owner /\ Arrays[b] = s
      /\ failed \in BOOLEAN /\ depth \in Nat /\ (failed \/ NoJunk(s))
      /\ tokens \in Lines
  BY InvSays, ArraysAreArrays, ArraysAre DEF Run, Live
<1>2. /\ mode = "run" /\ tokens' = tokens /\ cap' = cap /\ hand' = hand
      /\ names' = names /\ ret' = ret /\ depth' = depth
  BY DEF Run
<1>3. s \in Seq(Cell) /\ L \in Nat
  BY <1>1 DEF Lines
<1>4. PICK n \in 0 .. L, c \in {0, 1} :
         LET rest == SubSeq(s, n + 1, L)
             new == Fresh(Len(rest) + c)
         IN  /\ c > 0 => n > 0
             /\ n > 0 => MayFail
             /\ IF Sound(heap, SubSeq(s, n + 1 - c, L))
                THEN /\ HasRoom(Len(rest) + c)
                     /\ heap' = Filled(heap, new, Reading(SubSeq(s, n + 1 - c, L)))
                     /\ level' = Pushed(SubSeq(new, 1 + c, Len(new)))
                     /\ failed' = (failed \/ n > 0)
                     /\ UNCHANGED mode
                ELSE mode' = "wild" /\ UNCHANGED <<heap, level, failed>>
  BY DEF Run
<1> DEFINE k == n + 1 - c
           tail == SubSeq(s, k, L)
           m == Len(tail)
           new == Fresh(m)
           ws == Reading(tail)
           g == Filled(heap, new, ws)
           v == SubSeq(new, 1 + c, m) \o level
<1>5. /\ n \in Nat /\ n <= L /\ c \in Nat /\ k \in 1 .. L + 1 /\ k \in Nat \ {0}
      /\ (c > 0 => n > 0) /\ (n > 0 => MayFail) /\ k + c = n + 1
      /\ (n = 0 => c = 0)
  BY <1>3, <1>4
<1>6. tail \in Seq(Cell) /\ m = L - k + 1 /\ m \in Nat /\ c \in 0 .. m
  <2>1. tail \in Seq(Cell) /\ Len(tail) = Len(s) - k + 1
    <3>1. k \in 1 .. Len(s) + 1 /\ tail = SubSeq(s, k, Len(s))
      BY <1>5
    <3> HIDE DEF tail, k, s
    <3> QED BY ONLY <1>3, <3>1, TailIs
  <2> QED BY <1>3, <1>5, <2>1
<1>7. Len(SubSeq(s, n + 1, L)) + c = m
  <2> DEFINE e == n + 1
             r == SubSeq(s, e, Len(s))
  <2>1. e \in 1 .. Len(s) + 1 /\ r = SubSeq(s, e, Len(s))
    BY <1>3, <1>5
  <2> HIDE DEF e, s, r
  <2>2. Len(r) = Len(s) - e + 1
    BY ONLY <1>3, <2>1, TailIs
  <2> HIDE DEF tail, k, m
  <2>3. k + c = n + 1 /\ m = L - k + 1 /\ L \in Nat
    BY <1>3, <1>5, <1>6
  <2> QED BY <1>5, <2>2, <2>3 DEF e, r, L
<1>8. CASE Sound(heap, tail)
  <2>1. /\ HasRoom(m) /\ heap' = g /\ level' = Pushed(SubSeq(new, 1 + c, Len(new)))
        /\ failed' = (failed \/ n > 0) /\ mode' = "run"
    BY <1>2, <1>4, <1>7, <1>8
  <2>2. tail = SubSeq(s, k, L) /\ ws = Reading(tail) /\ g = Filled(heap, new, ws)
        /\ new = Fresh(m) /\ L = Len(s) /\ w = Said(heap, s) /\ m = Len(tail)
        /\ v = SubSeq(new, 1 + c, m) \o level
    OBVIOUS
  <2> HIDE DEF s, L, w, k, tail, m, new, ws, g, v
  <2>3. /\ new \in Seq(Text) /\ Len(new) = m /\ Distinct(new)
        /\ \A i \in 1 .. m : heap[new[i]] = NONE
    BY <1>6, <2>1, <2>2, FreshSays
  <2>4. level' = v
    BY <2>1, <2>2, <2>3 DEF Pushed
  <2>5. \A i \in 1 .. Len(s) : s[i] \in Text => heap[s[i]] # NONE
    <3>1. Held(s, hand, heap)
      BY <1>1, RowHeld
    <3> QED BY <3>1 DEF Held
  <2>6. ws \in Seq(Word) /\ Len(ws) = m /\ ws = SubSeq(w, k, Len(w))
    <3>1. NoJunk(tail) /\ \A i \in 1 .. Len(tail) : tail[i] \in Text => heap[tail[i]] # NONE
      BY <1>6, <1>8, SoundIsText
    <3>2. ws = Said(heap, tail)
      BY <1>6, <2>2, ReadingIs
    <3>3. ws \in Seq(Word) /\ Len(ws) = m
      <4>1. \A i \in 1 .. Len(tail) : tail[i] \in Text => heap[tail[i]] # NONE
        BY <3>1
      <4>2. Said(heap, tail) \in Seq(Word) /\ Len(Said(heap, tail)) = Len(tail)
        BY <1>1, <1>6, <3>1, <4>1, SaidFacts
      <4> QED BY <2>2, <3>2, <4>2
    <3>4. k \in 1 .. Len(s) + 1 /\ tail = SubSeq(s, k, Len(s))
      BY <1>5, <2>2
    <3>5. ws = SubSeq(w, k, Len(s))
      BY <1>1, <1>3, <2>2, <2>5, <3>2, <3>4, SaidPart
    <3>6. Len(w) = Len(s)
      BY <1>1, <1>3, <2>2, <2>5, SaidFacts
    <3> QED BY <3>3, <3>5, <3>6
  <2>7. w \in Seq(Word \cup {Garbage}) /\ w # NONE /\ Len(w) = L
    BY <1>1, <1>3, <2>2, <2>5, SaidFacts
  <2>8. SubSeq(ws, 1 + c, m) = SubSeq(w, n + 1, Len(w))
    <3>1. k \in 1 .. Len(w) + 1 /\ c \in 0 .. Len(ws)
      BY <1>5, <1>6, <2>6, <2>7
    <3>2. SubSeq(ws, 1 + c, Len(ws)) = SubSeq(w, k + c, Len(w))
      BY ONLY <2>6, <2>7, <3>1, TailOfTail
    <3> QED BY <1>5, <2>6, <3>2
  <2>9. Held(level, hand, heap)
    BY <1>1, NoneIsNoList, RowHeld
  <2>10. Distinct(level) /\ \A i \in 1 .. Len(level) : heap[level[i]] # NONE
    BY <1>1, <2>9 DEF Held
  <2>11. /\ g \in Heaps /\ v \in Seq(Text) /\ Distinct(v)
         /\ \A t \in Text : g[t] = heap[t] \/ t \in TextsIn(new)
         /\ \A t \in TextsIn(v) :
               g[t] # NONE /\ (t \in TextsIn(level) \/ t \in TextsIn(new))
         /\ \A t \in TextsIn(level) : t \in TextsIn(v)
         /\ (c = 0 => \A t \in TextsIn(new) : t \in TextsIn(v))
         /\ Said(g, v) = SubSeq(ws, 1 + c, m) \o Said(heap, level)
    <3>1. Pushes(heap, level, m, c, new, ws, g, v)
      BY <1>1, <1>6, <2>2, <2>3, <2>6, <2>10 DEF Pushes
    <3>2. PushedWell(heap, level, m, c, new, ws, g, v)
      BY <3>1, PushedSays
    <3> QED BY <3>2 DEF PushedWell
  <2>12. \A t \in TextsIn(new) : heap[t] = NONE
    BY <2>3, FreshIn
  <2>13. /\ Change(Arrays, hand, heap, "level", v, hand, g)
         /\ (\A t \in TextsIn(new) : t \in TextsIn(v))
               => Kept(Arrays, hand, heap, "level", v, hand, g)
    BY <1>1, <2>3, <2>11, <2>12, PushChange
  <2>14. failed' \in BOOLEAN /\ (failed => failed') /\ (failed' \/ n = 0)
    <3> DEFINE P == n > 0
    <3>1. (P \/ n = 0) /\ failed' = (failed \/ P) /\ P \in BOOLEAN
      BY <1>5, <2>1
    <3> HIDE DEF P
    <3> QED BY <1>1, <3>1, Zenon
  <2>15. failed' \/ Kept(Arrays, hand, heap, "level", v, hand, g)
    BY <1>5, <2>11, <2>13, <2>14
  <2>16. LevelMove(v)
    BY <1>1, <1>2, <2>1, <2>4, <2>11, <2>13, <2>14, <2>15 DEF LevelMove
  <2>17. BlocksInv' /\ Lists' = Lists
    BY <2>16, LevelMoves
  <2>18. Reading(level)' = SubSeq(w, n + 1, Len(w)) \o Reading(level)
    <3>1. Reading(level)' = Said(g, v) /\ Reading(level) = Said(heap, level)
      BY <1>1, <2>1, <2>4, <2>11, ReadingIs
    <3> QED BY <2>8, <2>11, <3>1
  <2>19. Lists[b] = w /\ w # NONE
    BY <1>1, <2>2, <2>7, ListIs DEF List, s
  <2>20. WL!Run(b)
    <3> DEFINE e == n + 1
    <3>1. e \in 1 .. Len(Lists[b]) + 1 /\ (e = 1 \/ MallocMayFail)
      BY <1>3, <1>5, <2>7, <2>19 DEF MayFail
    <3>2. Reading(level)' = SubSeq(Lists[b], e, Len(Lists[b])) \o Reading(level)
      BY <2>18, <2>19
    <3> HIDE DEF e
    <3> QED BY <2>19, <3>1, <3>2 DEF WL!Run
  <2> QED BY <2>17, <2>20 DEF Good, WL!Next
<1>9. CASE ~Sound(heap, tail)
  <2>1. mode' = "wild" /\ UNCHANGED <<heap, level, failed>>
    BY <1>4, <1>9
  <2>2. failed
    <3>1. ASSUME NoJunk(s) PROVE FALSE
      <4>1. Sound(heap, s)
        BY <1>1, <3>1, SoundRow
      <4> HIDE DEF s, k
      <4>2. Sound(heap, SubSeq(s, k, Len(s)))
        BY <1>3, <1>5, <4>1, SoundPart
      <4> QED BY <1>9, <4>2
    <3> QED BY <1>1, <3>1
  <2>3. UNCHANGED <<heap, failed, tokens, cap, hand, names, calls>>
    BY <1>2, <2>1 DEF calls
  <2> QED BY <2>1, <2>2, <2>3, WildGood
<1> QED BY <1>8, <1>9

LEMMA CurlyBeginGood ==
    ASSUME BlocksInv, NEW b \in Block, CurlyBegin(b)
    PROVE  Good
<1>1. /\ ~Live(b) /\ tokens' = Put(tokens, b, <<>>) /\ cap' = Put(cap, b, CurlyWidth)
      /\ UNCHANGED <<heap, failed, hand, names, level>>
      /\ mode' = "curly" /\ ret' = b /\ depth' = 1
  BY DEF CurlyBegin, Put
<1>2. Turn(b, <<>>)
  BY <1>1, EmptySays DEF Turn
<1>3. CurlyWidth \in Nat \ {0}
  BY CurlyWidthAssumption
<1> QED BY <1>1, <1>2, <1>3, NewGood

(* The block of curly, in the loop.  *)
LEMMA CurlyRow ==
    ASSUME BlocksInv, mode = "curly", NEW b, b = ret, NEW s, s = tokens[b]
    PROVE  /\ b \in Block /\ b \in Owner /\ s # NONE /\ s \in Seq(Cell)
           /\ Arrays[b] = s /\ Held(s, hand, heap)
           /\ Len(s) <= cap[b] /\ cap[b] > 0 /\ cap[b] \in Nat
           /\ failed \/ NoJunk(s)
<1>1. /\ b \in Block /\ b \in Owner /\ s # NONE
      /\ tokens \in Lines /\ Arrays[b] = s /\ cap \in [Block -> Nat]
      /\ Arrays \in Rows /\ hand \in SUBSET Text /\ heap \in Heaps
      /\ Single(Arrays, hand, heap)
      /\ Len(s) <= cap[b] /\ cap[b] > 0
      /\ failed \/ NoJunk(s)
  BY InvSays, ArraysAreArrays, ArraysAre
<1>2. s \in Seq(Cell)
  BY <1>1 DEF Lines
<1>3. Held(s, hand, heap)
  BY <1>1, RowHeld
<1> QED BY <1>1, <1>2, <1>3

LEMMA CurlyFailsGood ==
    ASSUME BlocksInv, CurlyFails
    PROVE  Good
<1> DEFINE b == ret
           s == tokens[b]
<1>1. /\ mode = "curly" /\ heap' = heap /\ failed' = TRUE /\ depth' = 0
      /\ tokens' = Put(tokens, b, NONE) /\ cap' = Put(cap, b, 0)
      /\ UNCHANGED <<hand, names, level>> /\ mode' = "run" /\ ret' = NONE
  BY DEF CurlyFails, CurlyReturns, Put
<1>2. /\ Arrays \in Rows /\ hand \in SUBSET Text /\ heap \in Heaps
      /\ Single(Arrays, hand, heap)
  BY InvSays
<1>3. b \in Block /\ b \in Owner /\ s # NONE /\ Held(s, hand, heap)
  BY <1>1, CurlyRow
<1>4. Change(Arrays, hand, heap, b, <<>>, hand, heap)
  BY <1>2, <1>3 DEF Change, Held, Distinct, TextsIn, Own
<1>5. Turn(b, NONE)
  BY <1>1 DEF Turn
<1>6. heap' \in Heaps /\ failed' \in BOOLEAN /\ failed' /\ (failed => failed')
      /\ Change(Arrays, hand, heap, b, <<>>, hand, heap')
  BY <1>1, <1>2, <1>4
<1> HIDE DEF b
<1> QED BY <1>1, <1>3, <1>5, <1>6, DropBlockGood

(* What curly frees are all tokens but the brace.  *)
LEMMA CurlyPushGood ==
    ASSUME BlocksInv, CurlyPush
    PROVE  Good
<1> DEFINE b == ret
           s == tokens[b]
           f == Front(s)
           g == Disposed(heap, f)
<1>1. /\ mode = "curly" /\ depth = 0 /\ s # <<>> /\ heap' = g
      /\ failed' = failed /\ depth' = 0
      /\ tokens' = Put(tokens, b, NONE) /\ cap' = Put(cap, b, 0)
      /\ UNCHANGED <<hand, names, level>> /\ mode' = "run" /\ ret' = NONE
  BY DEF CurlyPush, CurlyReturns, Put, WithoutBrace
<1>2. /\ Arrays \in Rows /\ hand \in SUBSET Text /\ heap \in Heaps
      /\ Single(Arrays, hand, heap) /\ failed \in BOOLEAN
  BY InvSays
<1>3. /\ b \in Block /\ b \in Owner /\ s # NONE /\ Held(s, hand, heap)
      /\ s \in Seq(Cell) /\ Arrays[b] = s
  BY <1>1, CurlyRow
<1>4. failed \/ heap[Last(s)] = "}"
  BY <1>1 DEF BlocksInv, IInv, BraceIsLast
<1>5. f = Front(s) /\ g = Disposed(heap, f) /\ s = tokens[b]
  OBVIOUS
<1> HIDE DEF b, s, f, g
<1>6. /\ f \in Seq(Cell) /\ Len(f) = Len(s) - 1 /\ Len(s) \in Nat /\ Len(s) >= 1
      /\ \A i \in 1 .. Len(s) - 1 : f[i] = s[i]
      /\ Last(s) = s[Len(s)]
  BY <1>1, <1>3, <1>5, LastFront
<1>7. /\ g \in Heaps
      /\ \A t \in Text : t \in TextsIn(f) => g[t] = NONE
      /\ \A t \in Text : t \notin TextsIn(f) => g[t] = heap[t]
  BY <1>2, <1>5, <1>6, IntegerCells, DisposedFacts
<1>8. /\ \A t \in hand : t \in Text /\ heap[t] # NONE
      /\ \A t \in TextsIn(s) : t \in Text /\ t \notin hand /\ heap[t] # NONE
  BY <1>2, <1>3 DEF Held
<1>9. \A t \in TextsIn(f) : t \in TextsIn(s)
  <2>1. \A i \in 1 .. Len(f) : i \in 1 .. Len(s) /\ f[i] = s[i]
    BY <1>6
  <2> QED BY <2>1 DEF TextsIn
<1>10. \A t \in TextsIn(s) : t \in TextsIn(f) \/ t = Last(s)
  <2>1. \A i \in 1 .. Len(s) : (i \in 1 .. Len(f) /\ f[i] = s[i]) \/ s[i] = Last(s)
    BY <1>6
  <2> QED BY <2>1 DEF TextsIn
<1>11. Change(Arrays, hand, heap, b, <<>>, hand, g)
  <2>1. Distinct(<<>>) /\ TextsIn(<<>>) = {}
    BY DEF Distinct, TextsIn
  <2>2. \A t \in hand : t \in Own(Arrays, hand, heap, b) /\ g[t] # NONE
    BY <1>2, <1>7, <1>8, <1>9 DEF Own
  <2>3. \A t \in Text : t \in Own(Arrays, hand, heap, b) \/ g[t] = heap[t]
    BY <1>3, <1>7, <1>9 DEF Own
  <2> QED BY <2>1, <2>2, <2>3 DEF Change
<1>12. failed \/ Kept(Arrays, hand, heap, b, <<>>, hand, g)
  <2>1. ASSUME ~failed, NEW t \in Text
        PROVE  \/ g[t] \in {NONE, "}"} \/ t \in hand \/ t \in TextsIn(<<>>)
               \/ t \notin Own(Arrays, hand, heap, b) /\ g[t] = heap[t]
    <3>1. CASE t \in TextsIn(f)
      BY <1>7, <3>1
    <3>2. CASE t \notin TextsIn(f) /\ t \in TextsIn(s)
      <4>1. g[t] = heap[t] /\ t = Last(s)
        BY <1>7, <1>10, <3>2
      <4> QED BY <1>4, <2>1, <4>1
    <3>3. CASE t \notin TextsIn(f) /\ t \notin TextsIn(s)
      BY <1>3, <1>7, <3>3 DEF Own
    <3> QED BY <3>1, <3>2, <3>3
  <2>2. ASSUME ~failed PROVE Kept(Arrays, hand, heap, b, <<>>, hand, g)
    BY <2>1, <2>2 DEF Kept
  <2> QED BY <2>2
<1>13. Turn(b, NONE)
  BY <1>1 DEF Turn
<1>14. tokens[b] # NONE
  BY <1>3, <1>5
<1>15. /\ heap' \in Heaps /\ failed' \in BOOLEAN /\ (failed => failed')
       /\ Change(Arrays, hand, heap, b, <<>>, hand, heap')
       /\ failed' \/ Kept(Arrays, hand, heap, b, <<>>, hand, heap')
  BY <1>1, <1>2, <1>7, <1>11, <1>12
<1> QED BY <1>1, <1>3, <1>13, <1>14, <1>15, DropBlockGood

LEMMA CurlyMisreadsGood ==
    ASSUME BlocksInv, CurlyMisreads
    PROVE  Good
<1>1. /\ tokens \in Lines /\ names \in Nouns /\ heap \in Heaps
      /\ level \in Seq(Text) /\ hand \in SUBSET Text /\ cap \in [Block -> Nat]
      /\ failed \in BOOLEAN /\ depth \in Nat /\ Single(Arrays, hand, heap)
      /\ \A b \in Block : tokens[b] # NONE => Len(tokens[b]) <= cap[b] /\ cap[b] > 0
  BY InvSays
<1>2. /\ heap' = heap /\ tokens' = tokens /\ cap' = cap /\ ret' = ret
      /\ hand' = hand /\ names' = names /\ level' = level /\ depth' = depth
      /\ failed' = failed /\ mode' = "misread"
  BY DEF CurlyMisreads
<1>3. Arrays' = Arrays /\ Lists' = Lists /\ Reading(level)' = Reading(level)
  BY <1>2 DEF Arrays, Lists, Reading, Live
<1>4. BraceIsLast'
  BY <1>2 DEF BraceIsLast
<1>5. /\ failed \/ OnlyBraces(Arrays, hand, heap)
      /\ \A b \in Block : tokens[b] # NONE => failed \/ NoJunk(tokens[b])
  BY InvSays
<1>6. BlocksInv'
  BY <1>1, <1>2, <1>3, <1>4, <1>5, InvStays
<1> QED BY <1>3, <1>6 DEF Good, WL!vars

(* The text x, in hand or just written, goes behind the array s of o.  *)
Appends(R, H, h, o, s, x, g) ==
    /\ R \in Rows /\ H \in SUBSET Text /\ h \in Heaps /\ Single(R, H, h)
    /\ o \in Owner /\ s \in Seq(Cell) /\ R[o] = s
    /\ x \in Text /\ (x \in H \/ h[x] = NONE)
    /\ g \in Heaps /\ g[x] # NONE
    /\ \A t \in Text : t # x => g[t] = h[t]

PutBehind(R, H, h, o, s, x, g, v) ==
    /\ v \in Seq(Cell) /\ v # NONE /\ v # <<>>
    /\ Len(v) = Len(s) + 1 /\ Last(v) = x
    /\ Change(R, H, h, o, v, H \ {x}, g)
    /\ Kept(R, H, h, o, v, H \ {x}, g)
    /\ (NoJunk(s) => NoJunk(v))
    /\ Said(g, v) = Append(Said(h, s), g[x])

LEMMA AppendChange ==
    ASSUME NEW R, NEW H, NEW h, NEW o, NEW s, NEW x, NEW g,
           Appends(R, H, h, o, s, x, g), NEW v, v = Append(s, x)
    PROVE  PutBehind(R, H, h, o, s, x, g, v)
<1> DEFINE n == Len(s)
<1>1. /\ R \in Rows /\ H \in SUBSET Text /\ h \in Heaps /\ Single(R, H, h)
      /\ o \in Owner /\ s \in Seq(Cell) /\ R[o] = s
      /\ x \in Text /\ (x \in H \/ h[x] = NONE)
      /\ g \in Heaps /\ g[x] # NONE
      /\ \A t \in Text : t # x => g[t] = h[t]
      /\ x \in Cell /\ x # JUNK /\ n \in Nat /\ n = Len(s)
  BY TextsFinite DEF Appends, Cell
<1>2. /\ v \in Seq(Cell) /\ v # <<>> /\ Len(v) = n + 1 /\ v[n + 1] = x
      /\ \A i \in 1 .. n : v[i] = s[i]
  BY <1>1, AppendFacts
<1>3. v # NONE
  BY <1>2, NoneIsNoList
<1>4. Last(v) = x
  BY <1>2 DEF Last
<1> HIDE DEF n
<1>5. /\ Distinct(s)
      /\ \A i \in 1 .. n : s[i] \in Text => h[s[i]] # NONE /\ s[i] \notin H
      /\ \A t \in H : t \in Text /\ h[t] # NONE
      /\ \A t \in TextsIn(s) : t \in Text /\ t \notin H /\ h[t] # NONE
  <2>1. Held(s, H, h)
    BY <1>1, RowHeld
  <2> QED BY <1>1, <2>1 DEF Held
<1>6. \A i \in 1 .. n + 1 : \/ i \in 1 .. n /\ v[i] = s[i]
                            \/ i = n + 1 /\ v[i] = x
  BY <1>1, <1>2
<1>7. \A i \in 1 .. n : s[i] # x
  BY <1>1, <1>5
<1>8. Distinct(v)
  <2>1. ASSUME NEW i \in 1 .. n + 1, NEW j \in 1 .. n + 1, v[i] \in Text, v[i] = v[j]
        PROVE  i = j
    <3>1. CASE i \in 1 .. n /\ v[i] = s[i]
      <4>1. CASE j \in 1 .. n /\ v[j] = s[j]
        <5>1. s[i] = s[j] /\ s[i] \in Text /\ i \in 1 .. Len(s) /\ j \in 1 .. Len(s)
          BY <1>1, <2>1, <3>1, <4>1
        <5> QED BY ONLY <1>5, <5>1 DEF Distinct
      <4>2. CASE j = n + 1 /\ v[j] = x
        BY <1>7, <2>1, <3>1, <4>2
      <4> QED BY <1>6, <4>1, <4>2
    <3>2. CASE i = n + 1 /\ v[i] = x
      <4>1. CASE j \in 1 .. n /\ v[j] = s[j]
        BY <1>7, <2>1, <3>2, <4>1
      <4>2. CASE j = n + 1 /\ v[j] = x
        BY <3>2, <4>2
      <4> QED BY <1>6, <4>1, <4>2
    <3> QED BY <1>6, <3>1, <3>2
  <2> QED BY <1>2, <2>1 DEF Distinct
<1>9. \A t \in Text : t \in TextsIn(v) <=> t \in TextsIn(s) \/ t = x
  <2>1. \A i \in 1 .. n : i \in 1 .. n + 1 /\ v[i] = s[i]
    BY <1>1, <1>2
  <2>2. n + 1 \in 1 .. n + 1 /\ v[n + 1] = x
    BY <1>1, <1>2
  <2>3. \A t \in Text : t \in TextsIn(s) => t \in TextsIn(v)
    BY <1>1, <1>2, <2>1 DEF TextsIn
  <2>4. x \in TextsIn(v)
    BY <1>1, <1>2, <2>2 DEF TextsIn
  <2>5. \A t \in Text : t \in TextsIn(v) => t \in TextsIn(s) \/ t = x
    BY <1>1, <1>2, <1>6 DEF TextsIn
  <2> QED BY <2>3, <2>4, <2>5
<1>10. \A t \in TextsIn(v) : t \in Text
  BY DEF TextsIn
<1>11. Change(R, H, h, o, v, H \ {x}, g)
  <2>1. ASSUME NEW t \in TextsIn(v)
        PROVE  t \in Own(R, H, h, o) \ (H \ {x}) /\ g[t] # NONE
    BY <1>1, <1>5, <1>9, <1>10 DEF Own
  <2>2. \A t \in H \ {x} : t \in Own(R, H, h, o) /\ g[t] # NONE
    BY <1>1, <1>5 DEF Own
  <2>3. \A t \in Text : t \in Own(R, H, h, o) \/ g[t] = h[t]
    BY <1>1 DEF Own
  <2> QED BY <1>8, <2>1, <2>2, <2>3 DEF Change
<1>12. Kept(R, H, h, o, v, H \ {x}, g)
  <2>1. ASSUME NEW t \in Text
        PROVE  \/ g[t] \in {NONE, "}"} \/ t \in H \ {x} \/ t \in TextsIn(v)
               \/ t \notin Own(R, H, h, o) /\ g[t] = h[t]
    BY <1>1, <1>9 DEF Own
  <2> QED BY <2>1 DEF Kept
<1>13. NoJunk(s) => NoJunk(v)
  BY <1>1, <1>2, <1>6 DEF NoJunk
<1>14. Said(g, v) = Append(Said(h, s), g[x])
  <2> DEFINE A == Said(h, s)
             B == Said(g, v)
             I == Append(A, g[x])
             S == Word \cup {Garbage}
  <2>1. /\ A \in Seq(S) /\ Len(A) = n
        /\ \A i \in 1 .. n : A[i] = IF s[i] = JUNK THEN Garbage ELSE h[s[i]]
    <3>1. \A i \in 1 .. Len(s) : s[i] \in Text => h[s[i]] # NONE
      BY <1>1, <1>5
    <3> QED BY <1>1, <3>1, SaidFacts
  <2>2. \A i \in 1 .. n : s[i] \in Text => g[s[i]] = h[s[i]]
    BY <1>1, <1>7
  <2>3. /\ B \in Seq(S) /\ Len(B) = n + 1
        /\ \A i \in 1 .. n + 1 : B[i] = IF v[i] = JUNK THEN Garbage ELSE g[v[i]]
    <3>1. \A i \in 1 .. Len(v) : v[i] \in Text => g[v[i]] # NONE
      BY <1>1, <1>2, <1>5, <1>6, <2>2
    <3> HIDE DEF n
    <3>2. /\ B \in Seq(S) /\ Len(B) = Len(v)
          /\ \A i \in 1 .. Len(v) : B[i] = IF v[i] = JUNK THEN Garbage ELSE g[v[i]]
      <4>1. g \in Heaps /\ v \in Seq(Cell)
        BY <1>1, <1>2
      <4> QED BY ONLY <3>1, <4>1, SaidFacts
    <3> QED BY <1>2, <3>2
  <2>4. g[x] \in S
    BY <1>1 DEF Heaps
  <2> HIDE DEF A, B, S
  <2>5. /\ I \in Seq(S) /\ Len(I) = n + 1 /\ I[n + 1] = g[x]
        /\ \A i \in 1 .. n : I[i] = A[i]
    BY <2>1, <2>4, AppendFacts
  <2> HIDE DEF I
  <2>6. ASSUME NEW i \in 1 .. n + 1 PROVE B[i] = I[i]
    <3>1. CASE i \in 1 .. n /\ v[i] = s[i]
      <4>1. s[i] = JUNK \/ s[i] \in Text
        BY <1>1, <3>1 DEF Cell
      <4>2. /\ A[i] = IF s[i] = JUNK THEN Garbage ELSE h[s[i]]
            /\ B[i] = IF v[i] = JUNK THEN Garbage ELSE g[v[i]]
        BY <2>1, <2>3, <3>1
      <4>4. s[i] \in Text => g[s[i]] = h[s[i]]
        BY <2>2, <3>1
      <4>3. A[i] = B[i]
        BY <3>1, <4>1, <4>2, <4>4
      <4> QED BY <2>5, <3>1, <4>3
    <3>2. CASE i = n + 1 /\ v[i] = x
      BY <1>1, <2>3, <2>5, <3>2
    <3> QED BY <1>6, <3>1, <3>2
  <2>7. B = I
    BY <2>3, <2>5, <2>6, SeqEqual
  <2> QED BY <2>7 DEF A, B, I
<1>15. Len(v) = Len(s) + 1
  BY <1>1, <1>2
<1> QED BY <1>2, <1>3, <1>4, <1>8, <1>11, <1>12, <1>13, <1>14, <1>15 DEF PutBehind

(* A list to which a word is appended is edited.  *)
LEMMA AppendEdits ==
    ASSUME NEW S, NEW A \in Seq(S), NEW w \in S
    PROVE  InsertAt(A, Len(A) + 1, w) = Append(A, w)
<1> DEFINE p == Len(A) + 1
           I == InsertAt(A, p, w)
           J == Append(A, w)
<1>1. Len(A) \in Nat /\ p \in 1 .. Len(A) + 1 /\ p = Len(A) + 1
  OBVIOUS
<1>2. J \in Seq(S) /\ Len(J) = Len(A) + 1 /\ J[Len(A) + 1] = w
      /\ \A i \in 1 .. Len(A) : J[i] = A[i]
  BY AppendFacts
<1> HIDE DEF p
<1>3. I \in Seq(S) /\ Inserts(I, A, p, w)
  BY <1>1, InsertAtFacts
<1> HIDE DEF I, J
<1>4. /\ Len(I) = Len(A) + 1
      /\ \A i \in 1 .. Len(A) + 1 :
            I[i] = IF i < p THEN A[i] ELSE IF i = p THEN w ELSE A[i - 1]
  BY <1>3 DEF Inserts
<1>5. ASSUME NEW i \in 1 .. Len(I) PROVE I[i] = J[i]
  <2>1. (i \in 1 .. Len(A) /\ i < p) \/ i = p
    BY <1>1, <1>4
  <2> QED BY <1>1, <1>2, <1>4, <2>1
<1>6. I = J
  BY <1>2, <1>3, <1>4, <1>5, SeqEqual
<1> QED BY <1>6 DEF I, J, p

(* curly counts braces, and ends at one that closes. *)
LEMMA DeeperFacts ==
    ASSUME NEW d \in Nat, d # 0, NEW w
    PROVE  d + Deeper(w) \in Nat /\ (d + Deeper(w) = 0 => w = "}")
<1>1. Deeper(w) = 1 \/ Deeper(w) = 0 \/ (Deeper(w) = -1 /\ w = "}")
  BY DEF Deeper
<1>2. CASE Deeper(w) = 1
  <2>1. d + 1 \in Nat /\ d + 1 # 0
    OBVIOUS
  <2> QED BY <1>2, <2>1
<1>3. CASE Deeper(w) = 0
  <2>1. d + 0 \in Nat /\ d + 0 # 0
    OBVIOUS
  <2> QED BY <1>3, <2>1
<1>4. CASE Deeper(w) = -1 /\ w = "}"
  <2>1. d + (-1) \in Nat
    OBVIOUS
  <2> QED BY <1>4, <2>1
<1> QED BY <1>1, <1>2, <1>3, <1>4

LEMMA RoomFacts ==
    ASSUME NEW b, Len(tokens[b]) \in Nat, cap[b] \in Nat,
           Len(tokens[b]) <= cap[b], cap[b] > 0, NEW width \in Room(b)
    PROVE  width \in Nat /\ Len(tokens[b]) + 1 <= width /\ width > 0
<1> DEFINE n == Len(tokens[b])
           c == cap[b]
<1>1. n \in Nat /\ c \in Nat /\ n <= c /\ c > 0
  OBVIOUS
<1>2. (n < c /\ width = c) \/ width = c * 2
  BY DEF Room
<1> HIDE DEF n, c
<1>3. width \in Nat /\ n + 1 <= width /\ width > 0
  BY <1>1, <1>2
<1> QED BY <1>3 DEF n

(* curly takes a token of the program.  *)
LEMMA TakeProgram ==
    ASSUME BlocksInv, mode = "curly", depth # 0, NEW w \in Token, HasRoom(1),
           NEW b, b = ret, NEW width \in Room(b), cap' = Put(cap, b, width),
           NEW x, x = Fresh(1)[1], tokens' = Put(tokens, b, Append(tokens[b], x)),
           heap' = Filled(heap, Fresh(1), <<w>>), depth' = depth + Deeper(w),
           UNCHANGED <<mode, failed, hand, names, ret, level>>
    PROVE  Good
<1> DEFINE s == tokens[b]
           v == Append(s, x)
           g == Filled(heap, Fresh(1), <<w>>)
<1>1. /\ b \in Block /\ b \in Owner /\ s # NONE /\ s \in Seq(Cell)
      /\ Arrays[b] = s /\ Held(s, hand, heap) /\ Len(s) \in Nat
      /\ Len(s) <= cap[b] /\ cap[b] > 0 /\ cap[b] \in Nat
      /\ failed \/ NoJunk(s)
  BY CurlyRow
<1>2. /\ Arrays \in Rows /\ hand \in SUBSET Text /\ heap \in Heaps
      /\ Single(Arrays, hand, heap) /\ failed \in BOOLEAN /\ depth \in Nat
  BY InvSays
<1>3. w \in Word
  BY WordsAssumption
<1>4. /\ x \in Text /\ heap[x] = NONE /\ g \in Heaps /\ g[x] = w
      /\ \A t \in Text : t # x => g[t] = heap[t]
  BY <1>2, <1>3, OneText
<1>5. width \in Nat /\ Len(s) + 1 <= width /\ width > 0
  BY <1>1, RoomFacts
<1>6. s = tokens[b] /\ v = Append(s, x) /\ heap' = g
  OBVIOUS
<1> HIDE DEF s, v, g
<1>7. g[x] # NONE /\ x \notin hand /\ hand \ {x} = hand
  <2>1. \A t \in hand : heap[t] # NONE
    BY <1>1 DEF Held
  <2> QED BY <1>3, <1>4, <2>1, NoneAssumption
<1>8. Appends(Arrays, hand, heap, b, s, x, g)
  BY <1>1, <1>2, <1>4, <1>7 DEF Appends
<1>9. /\ v \in Seq(Cell) /\ v # NONE /\ v # <<>>
      /\ Len(v) = Len(s) + 1 /\ Last(v) = x
      /\ Change(Arrays, hand, heap, b, v, hand \ {x}, g)
      /\ Kept(Arrays, hand, heap, b, v, hand \ {x}, g)
      /\ (NoJunk(s) => NoJunk(v))
      /\ Said(g, v) = Append(Said(heap, s), g[x])
  <2>1. PutBehind(Arrays, hand, heap, b, s, x, g, v)
    BY <1>6, <1>8, AppendChange
  <2> QED BY <2>1 DEF PutBehind
<1>10. /\ Change(Arrays, hand, heap, b, v, hand', heap')
       /\ Kept(Arrays, hand, heap, b, v, hand', heap')
       /\ hand' \in SUBSET Text /\ heap' \in Heaps
       /\ failed' \in BOOLEAN /\ (failed => failed')
       /\ (failed' \/ NoJunk(v)) /\ heap'[Last(v)] = w
  BY <1>1, <1>2, <1>4, <1>6, <1>7, <1>9
<1>11. Turn(b, v)
  <2>1. depth' \in Nat /\ (depth' = 0 => w = "}")
    BY <1>2, DeeperFacts
  <2> QED BY <1>9, <1>10, <2>1 DEF Turn
<1>12. BlockMove(b, v, width)
  <2>1. Row(v) = v /\ Len(v) <= width
    BY <1>5, <1>9 DEF Row
  <2>2. tokens' = Put(tokens, b, v)
    BY <1>6
  <2> QED BY <1>5, <1>9, <1>10, <1>11, <2>1, <2>2 DEF BlockMove
<1>13. /\ BlocksInv'
       /\ Lists' = Put(Lists, b, Lists'[b])
       /\ Lists[b] = List(heap, s) /\ Lists'[b] = List(heap', v)
       /\ Reading(level)' = Reading(level)
  BY <1>1, <1>6, <1>12, BlockMoves
<1>14. WL!Edit(b)
  <2> DEFINE A == Said(heap, s)
             S == Word \cup {Garbage}
             p == Len(A) + 1
  <2>1. A \in Seq(S) /\ A # NONE
    <3>1. \A i \in 1 .. Len(s) : s[i] \in Text => heap[s[i]] # NONE
      BY <1>1 DEF Held
    <3> QED BY <1>1, <1>2, <3>1, SaidFacts
  <2>2. Lists[b] = A /\ Lists'[b] = Append(A, w)
    BY <1>1, <1>4, <1>6, <1>9, <1>13 DEF List
  <2>4. w \in S
    BY <1>3
  <2> HIDE DEF A
  <2>3. Append(A, w) # NONE
    BY <2>1, <2>4, AppendFacts, NoneIsNoList
  <2> HIDE DEF S
  <2>5. InsertAt(A, p, w) = Append(A, w) /\ p \in DOMAIN Append(A, w)
    BY <2>1, <2>4, AppendEdits, AppendFacts
  <2> HIDE DEF p
  <2>6. WL!Inserted(b, p, w)
    BY <2>2, <2>5 DEF WL!Inserted, InsertAt, WL!InsertAt
  <2> QED BY <1>3, <2>1, <2>2, <2>3, <2>5, <2>6 DEF WL!Edit
<1> QED BY <1>1, <1>13, <1>14, ListStep DEF Good

(* curly takes the first token that is pushed.  *)
LEMMA TakeLevel ==
    ASSUME BlocksInv, mode = "curly", depth # 0, level # <<>>,
           NEW b, b = ret, NEW width \in Room(b), cap' = Put(cap, b, width),
           NEW x, x = Head(level), tokens' = Put(tokens, b, Append(tokens[b], x)),
           NEW l, l = Tail(level), level' = l, depth' = depth + Deeper(heap[x]),
           UNCHANGED <<heap, mode, failed, hand, names, ret>>
    PROVE  Good
<1> DEFINE s == tokens[b]
           v == Append(s, x)
           H == hand \cup {x}
           R == Put(Arrays, "level", l)
<1>1. /\ b \in Block /\ b \in Owner /\ s # NONE /\ s \in Seq(Cell)
      /\ Arrays[b] = s /\ Held(s, hand, heap) /\ Len(s) \in Nat
      /\ Len(s) <= cap[b] /\ cap[b] > 0 /\ cap[b] \in Nat
      /\ failed \/ NoJunk(s)
  BY CurlyRow
<1>2. /\ Arrays \in Rows /\ hand \in SUBSET Text /\ heap \in Heaps
      /\ Single(Arrays, hand, heap) /\ failed \in BOOLEAN /\ depth \in Nat
      /\ tokens \in Lines /\ names \in Nouns /\ cap \in [Block -> Nat]
      /\ (failed \/ OnlyBraces(Arrays, hand, heap)) /\ level \in Seq(Text)
      /\ \A c \in Block : tokens[c] # NONE =>
            /\ Len(tokens[c]) <= cap[c] /\ cap[c] > 0
            /\ failed \/ NoJunk(tokens[c])
  BY InvSays
<1>3. /\ x \in Text /\ heap[x] \in Word /\ l \in Seq(Text)
      /\ Reading(level) \in Seq(Word) /\ Reading(level) # <<>>
      /\ Said(heap, l) = Tail(Reading(level))
      /\ Head(Reading(level)) = heap[x]
  BY LevelTail
<1>4. /\ Change(Arrays, hand, heap, "level", l, H, heap)
      /\ Kept(Arrays, hand, heap, "level", l, H, heap)
      /\ x \notin hand
  BY PopChange
<1>5. width \in Nat /\ Len(s) + 1 <= width /\ width > 0
  BY <1>1, RoomFacts
<1>6. s = tokens[b] /\ v = Append(s, x) /\ R = Put(Arrays, "level", l)
      /\ tokens' = Put(tokens, b, v) /\ x \in H /\ H \in SUBSET Text /\ H \ {x} = hand
  BY <1>2, <1>3, <1>4
<1>7. heap' = heap /\ hand' = hand /\ names' = names /\ level' = l /\ ret' = b
      /\ mode' = "curly" /\ failed' = failed
  OBVIOUS
<1> HIDE DEF s, v, H, R
<1>8. "level" \in Owner /\ b # "level" /\ l \in Seq(Cell) /\ heap[x] # NONE
  BY <1>1, <1>3, OwnersAssumption, NoneIsNoList, NoneAssumption DEF Owner
<1>9. R \in Rows /\ Single(R, H, heap)
  BY <1>2, <1>4, <1>6, <1>8, SingleStays
<1>10. failed \/ OnlyBraces(R, H, heap)
  <2>1. ASSUME OnlyBraces(Arrays, hand, heap) PROVE OnlyBraces(R, H, heap)
    BY <1>2, <1>4, <1>6, <1>8, <2>1, BracesStay DEF Kept
  <2> QED BY <1>2, <2>1
<1>11. R[b] = s
  BY <1>1, <1>2, <1>6, <1>8 DEF Put, Rows
<1>12. /\ v \in Seq(Cell) /\ v # NONE /\ v # <<>>
       /\ Len(v) = Len(s) + 1 /\ Last(v) = x
       /\ Change(R, H, heap, b, v, hand, heap)
       /\ Kept(R, H, heap, b, v, hand, heap)
       /\ (NoJunk(s) => NoJunk(v))
       /\ Said(heap, v) = Append(Said(heap, s), heap[x])
  <2>1. Appends(R, H, heap, b, s, x, heap)
    BY <1>1, <1>2, <1>3, <1>6, <1>8, <1>9, <1>11 DEF Appends
  <2>2. PutBehind(R, H, heap, b, s, x, heap, v)
    BY <1>6, <2>1, AppendChange
  <2> QED BY <1>6, <2>2 DEF PutBehind
<1>13. Single(Put(R, b, v), hand, heap)
  BY <1>1, <1>2, <1>6, <1>9, <1>12, SingleStays
<1>14. failed \/ OnlyBraces(Put(R, b, v), hand, heap)
  <2>1. ASSUME OnlyBraces(R, H, heap) PROVE OnlyBraces(Put(R, b, v), hand, heap)
    BY <1>1, <1>2, <1>6, <1>9, <1>12, <2>1, BracesStay DEF Kept
  <2> QED BY <1>10, <2>1
<1>15. /\ Arrays' = Put(R, b, v) /\ tokens' \in Lines
  <2>1. ArraysOf(tokens, names, l) = Put(ArraysOf(tokens, names, level), "level", l)
    BY <1>2, <1>3, LevelChange
  <2>2. ArraysOf(tokens, names, l) = R
    BY <1>6, <2>1, ArraysAreArrays
  <2>3. /\ Put(tokens, b, v) \in Lines
        /\ ArraysOf(Put(tokens, b, v), names, l) = Put(ArraysOf(tokens, names, l), b, Row(v))
    <3>1. /\ tokens \in Lines /\ names \in Nouns /\ level \in Seq(Text)
          /\ l \in Seq(Text) /\ b \in Block /\ v \in {NONE} \cup Seq(Cell)
      BY <1>1, <1>2, <1>3, <1>12
    <3> QED BY ONLY <3>1, BlockChange
  <2>4. Row(v) = v
    BY <1>12 DEF Row
  <2>5. Arrays' = ArraysOf(tokens', names', level')
    BY ArraysAreArrays
  <2>6. Arrays' = ArraysOf(Put(tokens, b, v), names, l)
    BY <1>6, <1>7, <2>5
  <2> QED BY <1>6, <2>2, <2>3, <2>4, <2>6
<1>16. /\ tokens'[b] = v /\ cap'[b] = width
       /\ \A c \in Block : c # b => tokens'[c] = tokens[c] /\ cap'[c] = cap[c]
  BY <1>1, <1>2, <1>6 DEF Lines, Put
<1>17. BlocksInv'
  <2>1. depth' \in Nat /\ (depth' = 0 => heap[x] = "}")
    BY <1>2, DeeperFacts
  <2>2. cap' \in [Block -> Nat]
    BY <1>1, <1>2, <1>5 DEF Put
  <2>3. ASSUME NEW c \in Block, tokens'[c] # NONE
        PROVE  /\ Len(tokens'[c]) <= cap'[c] /\ cap'[c] > 0
               /\ failed' \/ NoJunk(tokens'[c])
    <3>1. CASE c = b
      BY <1>1, <1>5, <1>7, <1>12, <1>16, <3>1
    <3>2. CASE c # b
      BY <1>2, <1>7, <1>16, <2>3, <3>2
    <3> QED BY <3>1, <3>2
  <2>4. BraceIsLast'
    BY <1>7, <1>12, <1>16, <2>1 DEF BraceIsLast
  <2>5. Single(Arrays', hand', heap') /\ (failed' \/ OnlyBraces(Arrays', hand', heap'))
    BY <1>7, <1>13, <1>14, <1>15
  <2>6. /\ names' \in Nouns /\ heap' \in Heaps /\ level' \in Seq(Text)
        /\ hand' \in SUBSET Text /\ failed' \in BOOLEAN
        /\ mode' \in {"run", "curly", "wild", "misread"} /\ mode' # "run"
        /\ mode' # "wild" /\ ret' \in Block /\ tokens'[ret'] # NONE
    BY <1>1, <1>2, <1>3, <1>7, <1>12, <1>16
  <2> QED BY <1>15, <2>1, <2>2, <2>3, <2>4, <2>5, <2>6, InvStays
<1>18. Lists = ListsOf(tokens, names, heap) /\ Lists' = ListsOf(tokens', names, heap)
  BY <1>7, <1>17, ListsAreLists DEF BlocksInv, IInv
<1>19. Lists[b] = Said(heap, s) /\ Lists'[b] = Said(heap, v) /\ Lists[b] # NONE
  <2>1. Lists[b] = Said(heap, s) /\ Lists'[b] = Said(heap, v)
    BY <1>1, <1>6, <1>12, <1>16, <1>18 DEF ListsOf
  <2>2. \A i \in 1 .. Len(s) : s[i] \in Text => heap[s[i]] # NONE
    BY <1>1 DEF Held
  <2>3. Said(heap, s) # NONE
    BY <1>1, <1>2, <2>2, SaidFacts
  <2> QED BY <2>1, <2>3
<1>20. Lists' = Put(Lists, b, Lists'[b])
  <2> DEFINE A == ListsOf(tokens, names, heap)
             B == ListsOf(tokens', names, heap)
  <2>1. /\ A = [o \in Block \cup Type |-> A[o]]
        /\ B = [o \in Block \cup Type |-> B[o]]
    BY DEF ListsOf
  <2>2. \A p \in Block \cup Type : p # b => B[p] = A[p]
    BY <1>1, <1>16, OwnersAssumption DEF ListsOf
  <2> HIDE DEF A, B
  <2>3. B = Put(A, b, B[b])
    BY <2>1, <2>2 DEF Put
  <2> QED BY <1>18, <2>3 DEF A, B
<1>21. Reading(level)' = Tail(Reading(level))
  BY <1>3, <1>7, ReadingIs
<1>22. WL!Only(b)
  BY <1>20 DEF WL!Only, Put
<1>23. WL!Take
  BY <1>1, <1>3, <1>12, <1>19, <1>21, <1>22 DEF WL!Take
<1> QED BY <1>17, <1>23 DEF Good, WL!Next

(* The token that curly took could not be appended: it is in no block then. *)
LEMMA TakeLevelFails ==
    ASSUME BlocksInv, mode = "curly", depth # 0, level # <<>>,
           NEW w, depth' = depth + Deeper(w), failed' = TRUE, level' = Tail(level),
           UNCHANGED <<heap, mode, tokens, cap, hand, names, ret>>
    PROVE  Good
<1> DEFINE l == Tail(level)
           x == Head(level)
<1>1. /\ hand \in SUBSET Text /\ heap \in Heaps /\ depth \in Nat
  BY InvSays
<1>2. l = Tail(level) /\ x = Head(level)
  OBVIOUS
<1>3. level' = l
  OBVIOUS
<1> HIDE DEF l, x
<1>4. /\ l \in Seq(Text) /\ Reading(level) # <<>>
      /\ Said(heap, l) = Tail(Reading(level))
  BY <1>2, LevelTail
<1>5. Change(Arrays, hand, heap, "level", l, hand, heap)
  BY <1>2, PopChange
<1>6. depth' \in Nat
  BY <1>1, DeeperFacts
<1>7. Change(Arrays, hand, heap, "level", l, hand', heap')
  BY <1>5
<1>8. LevelMove(l)
  BY <1>1, <1>3, <1>4, <1>6, <1>7 DEF LevelMove
<1>9. BlocksInv' /\ Lists' = Lists
  BY <1>8, LevelMoves
<1>10. Reading(level)' = Tail(Reading(level))
  BY <1>3, <1>4, ReadingIs
<1>11. WL!Take
  BY <1>4, <1>9, <1>10 DEF WL!Take
<1> QED BY <1>9, <1>11 DEF Good, WL!Next

LEMMA TakeProgramFails ==
    ASSUME BlocksInv, mode = "curly", depth # 0, level = <<>>, HasRoom(1),
           NEW w \in Token, depth' = depth + Deeper(w), failed' = TRUE,
           heap' = Filled(heap, Fresh(1), <<w>>),
           UNCHANGED <<mode, tokens, cap, hand, names, ret, level>>
    PROVE  Good
<1> DEFINE g == Filled(heap, Fresh(1), <<w>>)
           x == Fresh(1)[1]
<1>1. /\ hand \in SUBSET Text /\ heap \in Heaps /\ depth \in Nat
      /\ level \in Seq(Text) /\ Arrays \in Rows /\ Single(Arrays, hand, heap)
      /\ "level" \in Owner /\ Arrays["level"] = level
  BY InvSays, ArraysAreArrays, ArraysAre
<1>2. w \in Word
  BY WordsAssumption
<1>3. /\ x \in Text /\ heap[x] = NONE /\ g \in Heaps /\ g[x] = w
      /\ \A t \in Text : t # x => g[t] = heap[t]
  BY <1>1, <1>2, OneText
<1>4. heap' = g
  OBVIOUS
<1> HIDE DEF g, x
<1>5. \A t \in hand : heap[t] # NONE
  <2>1. Held(level, hand, heap)
    BY <1>1, NoneIsNoList, RowHeld
  <2> QED BY <2>1 DEF Held
<1>6. Change(Arrays, hand, heap, "level", level, hand, g)
  <2>1. Distinct(level) /\ TextsIn(level) = {}
    BY DEF Distinct, TextsIn
  <2>2. \A t \in hand : t \in Own(Arrays, hand, heap, "level") /\ g[t] # NONE
    BY <1>1, <1>3, <1>5 DEF Own
  <2>3. \A t \in Text : t \in Own(Arrays, hand, heap, "level") \/ g[t] = heap[t]
    BY <1>3 DEF Own
  <2> QED BY <2>1, <2>2, <2>3 DEF Change
<1>7. depth' \in Nat
  BY <1>1, DeeperFacts
<1>8. Change(Arrays, hand, heap, "level", level, hand', heap') /\ heap' \in Heaps
  BY <1>3, <1>4, <1>6
<1>9. LevelMove(level)
  BY <1>1, <1>7, <1>8 DEF LevelMove
<1>10. BlocksInv' /\ Lists' = Lists
  BY <1>9, LevelMoves
<1>11. Reading(level)' = Reading(level)
  <2>1. \A t \in TextsIn(level) : g[t] = heap[t]
    BY DEF TextsIn
  <2>2. Said(g, level) = Said(heap, level)
    BY <1>1, <1>3, <2>1, NoneIsNoList, SameSaid
  <2> QED BY <1>1, <1>4, <2>2, ReadingIs
<1> QED BY <1>10, <1>11 DEF Good, WL!vars

(* A turn of the loop of curly.  *)
LEMMA CurlyTakeGood ==
    ASSUME BlocksInv, CurlyTake
    PROVE  Good
<1>1. mode = "curly" /\ depth # 0 /\ UNCHANGED <<mode, hand, names, ret>>
  BY DEF CurlyTake
<1> DEFINE b == ret
<1>2. CASE /\ level # <<>> /\ CurlyAppend(Head(level), heap[Head(level)])
           /\ level' = Tail(level) /\ UNCHANGED heap
  <2> DEFINE x == Head(level)
  <2>1. depth' = depth + Deeper(heap[x])
    BY <1>2 DEF CurlyAppend
  <2>2. ASSUME NEW width \in Room(b), cap' = Put(cap, b, width), failed' = failed,
               tokens' = Put(tokens, b, Append(tokens[b], x))
        PROVE  Good
    <3>1. x = Head(level) /\ b = ret /\ level # <<>>
      BY <1>2
    <3> HIDE DEF x, b
    <3> QED BY <1>1, <1>2, <2>1, <2>2, <3>1, TakeLevel
  <2>3. ASSUME failed' = TRUE, UNCHANGED <<cap, tokens>> PROVE Good
    BY <1>1, <1>2, <2>1, <2>3, TakeLevelFails
  <2> QED BY <1>2, <2>2, <2>3 DEF CurlyAppend, Put
<1>3. CASE level = <<>> /\ HasRoom(1) /\ UNCHANGED level
  <2> DEFINE x == Fresh(1)[1]
  <2>1. PICK w \in Token : /\ CurlyAppend(x, w)
                           /\ heap' = Filled(heap, Fresh(1), <<w>>)
    BY <1>1, <1>3 DEF CurlyTake
  <2>2. depth' = depth + Deeper(w)
    BY <2>1 DEF CurlyAppend
  <2>3. ASSUME NEW width \in Room(b), cap' = Put(cap, b, width), failed' = failed,
               tokens' = Put(tokens, b, Append(tokens[b], x))
        PROVE  Good
    <3>1. x = Fresh(1)[1] /\ b = ret
      OBVIOUS
    <3> HIDE DEF x, b
    <3> QED BY <1>1, <1>3, <2>1, <2>2, <2>3, <3>1, TakeProgram
  <2>4. ASSUME failed' = TRUE, UNCHANGED <<cap, tokens>> PROVE Good
    BY <1>1, <1>3, <2>1, <2>2, <2>4, TakeProgramFails
  <2> QED BY <2>1, <2>3, <2>4 DEF CurlyAppend, Put
<1> QED BY <1>2, <1>3 DEF CurlyTake

LEMMA WordListsAre ==
    /\ \A ws \in Sources : ws \in Seq(Word)
    /\ \A ws \in NameLists : ws \in Seq(Word)
<1>1. ASSUME NEW n \in Nat, NEW ws \in [1 .. n -> Word] PROVE ws \in Seq(Word)
  OBVIOUS
<1>2. ASSUME NEW ws \in Sources PROVE ws \in Seq(Word)
  <2>1. PICK n \in 1 .. MaxSource : ws \in [1 .. n -> Token]
    BY DEF Sources
  <2>2. n \in Nat
    OBVIOUS
  <2>3. ws \in [1 .. n -> Word]
    BY <2>1, WordsAssumption
  <2> QED BY <1>1, <2>2, <2>3
<1>3. ASSUME NEW ws \in NameLists PROVE ws \in Seq(Word)
  <2>1. PICK n \in 0 .. MaxNames : ws \in [1 .. n -> Name]
    BY DEF NameLists
  <2>2. n \in Nat
    OBVIOUS
  <2>3. ws \in [1 .. n -> Word]
    BY <2>1, WordsAssumption
  <2> QED BY <1>1, <2>2, <2>3
<1> QED BY <1>2, <1>3

LEMMA CbNewGood ==
    ASSUME BlocksInv, NEW b \in Block, NEW n \in Widths, cb_new(b, n),
           UNCHANGED <<names, calls>>
    PROVE  Good
<1>1. /\ ~Live(b) /\ tokens' = Put(tokens, b, <<>>) /\ cap' = Put(cap, b, n)
      /\ UNCHANGED <<heap, failed, hand, names, level>>
      /\ mode = "run" /\ mode' = "run" /\ ret' = ret /\ depth' = depth
  BY DEF cb_new, Put, calls
<1>2. ret = NONE /\ depth \in Nat
  BY <1>1, InvSays
<1>3. Turn(b, <<>>)
  BY <1>1, <1>2 DEF Turn
<1>4. n \in Nat \ {0}
  BY WidthsAssumption
<1> QED BY <1>1, <1>3, <1>4, NewGood

(* Every call on blocks and tokens, and every one on types.  *)
LEMMA BlockStepGood ==
    ASSUME BlocksInv, BlockStep, UNCHANGED <<names, calls>>
    PROVE  Good
<1>1. ASSUME NEW w \in Token, MakeToken(w) PROVE Good
  BY <1>1, MakeTokenGood
<1>2. ASSUME NEW t \in hand, DropToken(t) PROVE Good
  BY <1>2, DropTokenGood
<1>3. ASSUME NEW b \in Block, NEW n \in Widths, cb_new(b, n) PROVE Good
  BY <1>3, CbNewGood
<1>4. ASSUME NEW b \in Block, NEW a \in Block, cb_copy(a, b) PROVE Good
  BY <1>4, CopyGood
<1>5. ASSUME NEW b \in Block, NEW ws \in Sources, cb_from_tkns(ws, b) PROVE Good
  BY <1>5, FromTknsGood
<1>6. ASSUME NEW b \in Block, NEW ws \in Sources, cb_from_tknsFails(ws, b) PROVE Good
  BY <1>6, FromTknsFailsGood
<1>7. ASSUME NEW b \in Block, NEW t \in hand, NEW p \in Text, cb_insert(b, p, t)
      PROVE  Good
  BY <1>7, InsertGood
<1>8. ASSUME NEW b \in Block, NEW t \in hand, NEW p \in Text, cb_set(b, p, t)
      PROVE  Good
  BY <1>8, SetGood
<1>9. ASSUME NEW b \in Block, NEW p \in Text, cb_remove(b, p) PROVE Good
  BY <1>9, RemoveGood
<1>10. ASSUME NEW b \in Block, cb_free(b) PROVE Good
  BY <1>10, FreeGood
<1> QED BY <1>1, <1>2, <1>3, <1>4, <1>5, <1>6, <1>7, <1>8, <1>9, <1>10 DEF BlockStep

LEMMA TypeStepGood ==
    ASSUME BlocksInv, TypeStep, UNCHANGED <<tokens, cap, hand, calls>>
    PROVE  Good
<1>1. ASSUME NEW y \in Type, NEW ws \in NameLists, tp_new(y, ws) PROVE Good
  <2>1. ws \in Seq(Word)
    BY WordListsAre
  <2> QED BY <1>1, <2>1, TpNewGood
<1>2. ASSUME NEW y \in Type, NEW ws \in NameLists, tp_newFails(y, ws) PROVE Good
  <2>1. ws \in Seq(Word)
    BY WordListsAre
  <2> QED BY <1>2, <2>1, TpNewFailsGood
<1>3. ASSUME NEW y \in Type, NEW x \in Type, tp_copy(x, y) PROVE Good
  BY <1>3, TpCopyGood
<1>4. ASSUME NEW y \in Type, tp_free(y) PROVE Good
  BY <1>4, TpFreeGood
<1> QED BY <1>1, <1>2, <1>3, <1>4 DEF TypeStep

(* Nothing happens.  *)
LEMMA StutterGood ==
    ASSUME BlocksInv, UNCHANGED vars
    PROVE  Good
<1>1. /\ heap' = heap /\ tokens' = tokens /\ cap' = cap /\ ret' = ret
      /\ hand' = hand /\ names' = names /\ level' = level /\ depth' = depth
      /\ failed' = failed /\ mode' = mode
  BY DEF vars, calls
<1>2. Arrays' = Arrays /\ Lists' = Lists /\ Reading(level)' = Reading(level)
  BY <1>1 DEF Arrays, Lists, Reading, Live
<1>3. /\ tokens \in Lines /\ names \in Nouns /\ heap \in Heaps
      /\ level \in Seq(Text) /\ hand \in SUBSET Text /\ cap \in [Block -> Nat]
      /\ failed \in BOOLEAN /\ depth \in Nat /\ (mode = "run" => ret = NONE)
      /\ (mode = "curly" => ret \in Block /\ tokens[ret] # NONE)
      /\ Single(Arrays, hand, heap) /\ (failed \/ OnlyBraces(Arrays, hand, heap))
      /\ \A b \in Block : tokens[b] # NONE =>
            /\ Len(tokens[b]) <= cap[b] /\ cap[b] > 0
            /\ failed \/ NoJunk(tokens[b])
  BY InvSays
<1>4. mode \in {"run", "curly", "wild", "misread"} /\ (failed \/ mode # "wild")
  BY DEF BlocksInv, IInv, TypeOK, GarbageFromFailure
<1>5. BraceIsLast'
  BY <1>1 DEF BlocksInv, IInv, BraceIsLast
<1>6. BlocksInv'
  BY <1>1, <1>2, <1>3, <1>4, <1>5, InvStays
<1> QED BY <1>2, <1>6 DEF Good, WL!vars

(* Every step keeps the invariant and is allowed by WordLists. *)
LEMMA StepGood ==
    ASSUME BlocksInv, [Next]_vars
    PROVE  Good
<1>1. CASE BlockStep /\ UNCHANGED <<names, calls>>
  BY <1>1, BlockStepGood
<1>2. CASE TypeStep /\ UNCHANGED <<tokens, cap, hand, calls>>
  BY <1>2, TypeStepGood
<1>3. ASSUME NEW b \in Block, Run(b) PROVE Good
  BY <1>3, RunGood
<1>4. ASSUME NEW b \in Block, CurlyBegin(b) PROVE Good
  BY <1>4, CurlyBeginGood
<1>5. CASE Pop
  BY <1>5, PopGood
<1>6. CASE CurlyTake
  BY <1>6, CurlyTakeGood
<1>7. CASE CurlyFails
  BY <1>7, CurlyFailsGood
<1>8. CASE CurlyPush
  BY <1>8, CurlyPushGood
<1>9. CASE CurlyMisreads
  BY <1>9, CurlyMisreadsGood
<1>10. CASE UNCHANGED vars
  BY <1>10, StutterGood
<1> QED BY <1>1, <1>2, <1>3, <1>4, <1>5, <1>6, <1>7, <1>8, <1>9, <1>10 DEF Next

(* At first there is nothing. *)
LEMMA BlocksInit ==
    ASSUME Init
    PROVE  BlocksInv /\ WL!Init
<1>1. /\ heap = [t \in Text |-> NONE] /\ mode = "run" /\ failed = FALSE
      /\ tokens = [b \in Block |-> NONE] /\ cap = [b \in Block |-> 0] /\ hand = {}
      /\ names = [y \in Type |-> NONE] /\ level = <<>> /\ ret = NONE /\ depth = 0
  BY DEF Init
<1>2. \A o \in Owner : Arrays[o] = <<>>
  BY <1>1 DEF Arrays, Owner, Live
<1>3. Allocated = {} /\ Left = {}
  BY <1>1 DEF Allocated, Left
<1>4. TypeOK
  <2>1. /\ heap \in [Text -> Word \cup {NONE}]
        /\ tokens \in [Block -> {NONE} \cup Seq(Cell)] /\ cap \in [Block -> Nat]
        /\ names \in [Type -> {NONE} \cup Seq(Text)]
    BY <1>1
  <2>2. failed \in BOOLEAN /\ hand \subseteq Text /\ depth \in Nat
    BY <1>1
  <2>3. level \in Seq(Text)
    <3>1. <<>> \in Seq(Text)
      OBVIOUS
    <3> QED BY <1>1, <3>1
  <2>4. mode = "run" /\ ret = NONE
    BY <1>1
  <2> QED BY <2>1, <2>2, <2>3, <2>4 DEF TypeOK
<1>5. InBounds /\ GarbageFromFailure /\ BraceIsLast
  BY <1>1 DEF InBounds, GarbageFromFailure, BraceIsLast, Live
<1>6. OneHolder
  BY <1>1, <1>2 DEF OneHolder
<1>7. OnlyBracesLeak
  BY <1>3 DEF OnlyBracesLeak
<1>8. Lists = [o \in Block \cup Type |-> NONE]
  BY <1>1 DEF Lists, Live
<1>9. Reading(level) = <<>>
  BY <1>1 DEF Reading
<1> QED BY <1>4, <1>5, <1>6, <1>7, <1>8, <1>9 DEF BlocksInv, IInv, WL!Init, WL!Owner

-----------------------------------------------------------------------------
(* For any blocks, types, words and memory, and wherever a call stops      *)
(* half-way: every text has one place, every array is within its width,    *)
(* what nobody wrote is followed only after a copy that failed             *)
(* (code_block.c 21, 86), and curly finds its brace at the end of its      *)
(* block (globals.c 30).                                                   *)
THEOREM BlocksHold == Spec => []IInv
<1>1. Init => BlocksInv
  BY BlocksInit
<1>2. BlocksInv /\ [Next]_vars => BlocksInv'
  BY StepGood DEF Good
<1>3. BlocksInv => IInv
  BY DEF BlocksInv
<1> QED BY <1>1, <1>2, <1>3, PTL DEF Spec

(* Until a call stops half-way, nothing is left behind but the braces that *)
(* curly drops (globals.c 30): not by the clean-up of tp_new, tp_copy and  *)
(* cb_from_tkns (type.c 19-31, code_block.c 36), which never frees a text  *)
(* that somebody has, nor by blocks that grow, shrink, are copied or run.  *)
THEOREM NothingIsLeft == Spec => []OnlyBracesLeak
<1>1. Init => BlocksInv
  BY BlocksInit
<1>2. BlocksInv /\ [Next]_vars => BlocksInv'
  BY StepGood DEF Good
<1>3. BlocksInv => OnlyBracesLeak
  BY DEF BlocksInv
<1> QED BY <1>1, <1>2, <1>3, PTL DEF Spec

(* Arrays that grow in the middle of an insertion, are shifted in place    *)
(* and read behind their end (code_block.c 53-103), copies of which some   *)
(* tokens fail, and types are lists of words, as code_block.h, type.h and  *)
(* rn_run promise; nobody sees what another's array goes through.          *)
THEOREM BlocksImplement == Spec => Implements
<1>1. Init => BlocksInv /\ WL!Init
  BY BlocksInit
<1>2. BlocksInv /\ [Next]_vars => BlocksInv' /\ [WL!Next]_(WL!vars)
  BY StepGood DEF Good
<1> QED BY <1>1, <1>2, PTL DEF Spec, Implements, WL!Spec

=============================================================================
