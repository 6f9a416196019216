--------------------------- MODULE MCTokenizer ---------------------------
(* Texts for Tokenizer, what has to come out of them, and what values the  *)
(* literals among their tokens have to have (tkn_value).                   *)
EXTENDS Tokenizer, Integers, FiniteSetsExt

CONSTANTS
    MaxNumber, MaxString, MaxRegex, MaxWord, MaxLongWord,  \* lengths of the texts
    LLONG_MAX

G == INSTANCE TokenGrammar
L == INSTANCE Literals

Over(S, n) == UNION {[1 .. k -> S] : k \in 0 .. n}
Behind(begin, ends) == {begin \o t : t \in ends}

(* Texts over few characters each: numbers, strings, strings with a byte   *)
(* in hex, regexes, words among strings and comments, and long words.      *)
AllTexts ==
    UNION {Over({"0", "1", "x", ".", "e", "-", " "}, MaxNumber),
           Behind(<<"1">>, Over({"2", "9", Newline}, MaxWord)),
           Behind(<<"-", "0">>, Over({"b", "o", "1", "7", "9"}, MaxWord)),
           Over({Quote, Backslash, "n", Newline, " "}, MaxString),
           Behind(<<Quote, Backslash>>, Over({"x", "9", "g", Quote}, MaxWord + 1)),
           Behind(<<"r", "/">>, Over({"/", Backslash, "g", " "}, MaxRegex)),
           Over({"r", ":", "#", Newline, Quote, "1"}, MaxWord),
           Over({"g"}, MaxLongWord)}

QuotedTexts == Behind(<<Quote>>, Over({Quote, Backslash, "n"}, MaxString))

CharSet == {"0", "1", "2", "7", "9", "x", "o", "b", ".", "e", "-", " ", Quote,
            Backslash, "n", Newline, "r", "/", "g", ":", "#"}

-----------------------------------------------------------------------------
(* When the last call has failed, the tokens are those of the text, with   *)
(* their types and their places, and the failure is that of the text: for  *)
(* files too, whatever the buffer still holds of older characters, if they *)
(* end with white space (tknr_next, 555-634, and all it calls).            *)
ReadsRight ==
    (/\ at = "failed"
     /\ result \in {"end", "separation", "syntax"}
     /\ ~broken
     /\ G!Plain(text)
     /\ is_from_file => Len(text) = 0 \/ text[Len(text)] \in Ws)
    => G!Reading(text) = [tokens |-> returned, result |-> result]

(* A text that is one string, such as the text of the token in             *)
(* tests/tkn_value_func.c:26, is read as that string.  Violated: get_string *)
(* takes the character behind an escape without a look at it (tokenizer.c  *)
(* 351-360), so that a quote there does not end the string.                *)
StringsClose ==
    LET whole == G!TokenAt(text, 1)
    IN  (/\ at = "failed"
         /\ result \in {"end", "separation", "syntax"}
         /\ text[1] = Quote
         /\ whole.end = Len(text))
        => [i \in DOMAIN returned |-> returned[i].type] = <<"string">>

(* An integral without its sign and its base; its value as a sum of        *)
(* powers of the base.                                                     *)
Unsigned(r) == IF r[1] = "-" THEN Tail(r) ELSE r
Prefixed(w) == Len(w) > 1 /\ w[1] = "0" /\ w[2] \in DOMAIN L!BaseOf
Digits(w) == IF Prefixed(w) THEN SubSeq(w, 3, Len(w)) ELSE w
Meaning(r) ==
    LET w == Unsigned(r)
        base == IF Prefixed(w) THEN L!BaseOf[w[2]] ELSE 10
        d == Digits(w)
        sum == MapThenSumSet(
                   LAMBDA k : L!HexVal(d[k]) * base ^ (Len(d) - k), DOMAIN d)
    IN  IF r[1] = "-" THEN -sum ELSE sum

(* An integral is rejected only when it does not fit, has no digits, or    *)
(* begins with a 0 that is no part of a base; else its value is what its   *)
(* digits say (tkn_value_integral).                                        *)
IntegralRight(r, v) ==
    LET d == Digits(Unsigned(r))
    IN  CASE v.err = "none" -> v.val = Meaning(r)
          [] v.err = "range" -> Meaning(r) \notin L!LLONG_MIN .. LLONG_MAX
          [] OTHER -> d = <<>> \/ d[1] = "0"

(* Every character between the quotes counts once, but the backslash of an *)
(* escape and the two digits of a byte do not; a string without bytes is   *)
(* never rejected, for it does not end inside an escape                    *)
(* (tto_escape_string).                                                    *)
StringRight(r, v) ==
    LET backslashes == {k \in 2 .. Len(r) - 2 :
                           r[k] = Backslash /\ ~G!Escaped(r, 1, k)}
        bytes == {k \in backslashes : r[k + 1] = "x"}
    IN  IF v.err = "none"
        THEN Len(v.val) = Len(r) - 2 - Cardinality(backslashes)
                                       - 2 * Cardinality(bytes)
        ELSE bytes # {}

ValuesRight ==
    (result = "token" /\ G!Plain(text)) =>
        LET token == returned[Len(returned)]
            v == L!tkn_value(token)
        IN  /\ token.type = "integral" => IntegralRight(token.raw, v)
            /\ token.type = "string" => StringRight(token.raw, v)

(* Whatever the text, a token that is returned is the stretch of it that   *)
(* begins at the line and the index the token says: a character from       *)
(* behind the end, which get_number and get_regex do look at, never gets   *)
(* into a token (tknr_next 575, get_number 389-476).                       *)
TokensAreText ==
    (result = "token" /\ ~broken) =>
        LET token == returned[Len(returned)]
        IN  \E p \in DOMAIN text :
               /\ token.line = G!LineOf(text, p)
               /\ token.index = G!IndexOf(text, p)
               /\ token.raw = SubSeq(text, p, p + Len(token.raw) - 1)

(* Every text is read to an end or an error.                               *)
Ends == <>(at = "failed")

=============================================================================
