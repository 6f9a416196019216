--------------------------- MODULE TokenGrammar ---------------------------
(***************************************************************************)
(* The tokens of a text, said without a reader: which stretches of the     *)
(* text are tokens and of what type.  Tokenizer is checked against this on *)
(* the texts that Plain describes.                                         *)
(***************************************************************************)
EXTENDS Integers, Sequences, FiniteSets, FiniteSetsExt, Characters

(* A character is escaped, in a literal that begins at i, by an odd number *)
(* of backslashes right before it.                                         *)
Backslashes(t, i, j) ==
    Max({k \in 0 .. j - i - 1 : \A m \in 1 .. k : t[j - m] = Backslash})
Escaped(t, i, j) == Backslashes(t, i, j) % 2 = 1

(* The last character of the literal that begins at i and is closed by d;  *)
(* 0 when it is not closed.                                                *)
Close(t, i, d) ==
    LET ends == {j \in i + 1 .. Len(t) : t[j] = d /\ ~Escaped(t, i, j)}
    IN  IF ends = {} THEN 0 ELSE Min(ends)

StringEnd(t, i) ==
    LET close == Close(t, i, Quote)
    IN  IF \E k \in i + 1 .. close - 1 : t[k] = Newline /\ ~Escaped(t, i, k)
        THEN 0 ELSE close

(* The last of the characters from i on that are all in S.                 *)
SpanEnd(t, i, S) ==
    Max({j \in i - 1 .. Len(t) : \A k \in i .. j : t[k] \in S})
Before(t, j) == j = Len(t) \/ t[j + 1] \in Ws

RegexEnd(t, i) ==
    LET close == Close(t, i + 1, "/")
        end == SpanEnd(t, close + 1, Flag)
    IN  IF close # 0 /\ Before(t, end) THEN end ELSE 0

RunEnd(t, i) ==
    Min({j \in i .. Len(t) : Before(t, j)})

-----------------------------------------------------------------------------
(* Numbers, without their sign.                                            *)
AllIn(w, S) == \A k \in DOMAIN w : w[k] \in S
Base == [x |-> HexDigit, o |-> OctDigit, b |-> BinDigit]

Integral(w) ==
    \/ AllIn(w, Digit)
    \/ /\ Len(w) >= 2
       /\ w[1] = "0"
       /\ w[2] \in DOMAIN Base
       /\ AllIn(SubSeq(w, 3, Len(w)), Base[w[2]])

(* Digits, then a point with or without digits, then an e with or without, *)
(* and one of the two at least.                                            *)
Real(w) ==
    LET marks == {k \in DOMAIN w : w[k] \notin Digit}
    IN  /\ marks # {}
        /\ w[1] \in Digit
        /\ \/ Cardinality(marks) = 1 /\ w[Min(marks)] \in {".", "e"}
           \/ /\ Cardinality(marks) = 2
              /\ w[Min(marks)] = "."
              /\ w[Max(marks)] = "e"

RunType(w) ==
    LET number == IF w[1] = "-" THEN Tail(w) ELSE w
    IN  IF w[1] = ":" THEN "identifier"
        ELSE IF number = <<>> \/ number[1] \notin Digit THEN "word"
        ELSE IF Integral(number) THEN "integral"
        ELSE IF Real(number) THEN "real"
        ELSE "none"

(* The token that begins at i: its type and its last character.            *)
TokenAt(t, i) ==
    LET run == RunEnd(t, i)
    IN  IF t[i] = Quote THEN [type |-> "string", end |-> StringEnd(t, i)]
        ELSE IF t[i] = "r" /\ i < Len(t) /\ t[i + 1] = "/"
        THEN [type |-> "regex", end |-> RegexEnd(t, i)]
        ELSE LET type == RunType(SubSeq(t, i, run))
             IN  [type |-> type, end |-> IF type = "none" THEN 0 ELSE run]

-----------------------------------------------------------------------------
(* White space and comments, from i on: where they end.                    *)
GapEnd(t, i) ==
    LET gap[j \in i .. Len(t) + 1] ==
            IF j > Len(t) THEN j
            ELSE IF t[j] \in Ws THEN gap[j + 1]
            ELSE IF t[j] # "#" THEN j
            ELSE LET newlines == {k \in j .. Len(t) : t[k] = Newline}
                 IN  IF newlines = {} THEN Len(t) + 1
                                      ELSE gap[Min(newlines) + 1]
    IN  gap[i]

(* Lines are counted from 1, the characters of a line from 0.              *)
LineOf(t, i) == 1 + Cardinality({k \in 1 .. i - 1 : t[k] = Newline})
IndexOf(t, i) == i - 1 - Max({0} \cup {k \in 1 .. i - 1 : t[k] = Newline})

(* Everything that there is to read from i on.                             *)
Reading(t) ==
    LET found(i, token, rest) ==
            [tokens |-> <<[type |-> token.type,
                           raw |-> SubSeq(t, i, token.end),
                           line |-> LineOf(t, i),
                           index |-> IndexOf(t, i)]>> \o rest.tokens,
             result |-> rest.result]
        nothing(r) == [tokens |-> <<>>, result |-> r]
        read[i \in 1 .. Len(t) + 1] ==
            LET begin == GapEnd(t, i)
            IN  IF begin > Len(t) THEN nothing("end")
                ELSE IF begin = i /\ i # 1 THEN nothing("separation")
                ELSE LET token == TokenAt(t, begin)
                     IN  IF token.end = 0 THEN nothing("syntax")
                         ELSE found(begin, token, read[token.end + 1])
    IN  read[1]

(* The texts on which the code agrees: no character that closes a literal, *)
(* or a backslash, right behind an escape; no integral that is a 0 alone   *)
(* and no real that begins with a single 0; no comment right behind a      *)
(* token.                                                                  *)
Plain(t) ==
    /\ \A i \in 3 .. Len(t) :
          t[i] \in {Backslash, Quote, Newline, "/"} => t[i - 2] # Backslash
    /\ \A i \in DOMAIN t :
          /\ t[i] = "0"
          /\ i = 1 \/ t[i - 1] \in Ws \cup {"-"}
          => i < Len(t) /\ t[i + 1] \in Digit \cup DOMAIN Base
    /\ \A i \in 2 .. Len(t) : t[i] = "#" => t[i - 1] \in Ws

=============================================================================
