----------------------------- MODULE Tokenizer -----------------------------
(***************************************************************************)
(* tokenizer.c: tknr_next and the functions it calls, on the characters of *)
(* CharSource, with the StringBuilder (stringbuilder.c) that collects the  *)
(* text of a token.  The caller asks for tokens until one call fails, as   *)
(* tst_pop does below parse.                                               *)
(*                                                                         *)
(* Nearly every line of get_string, get_number, get_regex and of the loop  *)
(* for words appends next_char to the token and skips it; they differ in   *)
(* where they go from there.  So the four functions are one relation,      *)
(* Moves, between the places in them, and Take is the append and the skip. *)
(* A place is in `at`; the comment at Moves says what each one is.         *)
(***************************************************************************)
EXTENDS CharSource, Characters, Malloc

CONSTANT
    STARTING_RAW_MEM    \* what a StringBuilder begins with

ASSUME BuilderAssumption ==
    /\ STARTING_RAW_MEM \in Nat \ {0}
    /\ STARTING_RAW_MEM <= SizeMax

VARIABLES
    just_started,   \* no token has been asked for yet
    line, index,    \* where next_char is
    at,             \* the place in tknr_next
    skipped,        \* skip_between: whether there was something to skip
    start,          \* line and index of the token
    raw,            \* the StringBuilder: its characters
    size,           \* and the size of its memory; 0 when there is none
    returned,       \* the tokens that were returned
    result,         \* what the last call returned
    leaked,         \* history: a call forgot memory that it owned
    wild            \* history: a pointer that was never set was freed

reading == <<just_started, line, index, at, skipped>>
making == <<start, raw, size>>
outcome == <<returned, result, leaked, wild>>
tknr_vars == <<source, reading, making, outcome>>

Byte == Char \cup {NUL}

(* From place, on a character of a set, to place.                          *)
(*   open      at the quote, or behind an escape: the next character is    *)
(*             taken without a look at it (the escape's code does not set  *)
(*             the local next_char again)                                  *)
(*   quoted    in a string, escaped: behind its backslash                  *)
(*   number    before the digits, zero: behind a leading 0, whose next     *)
(*             character is always taken                                   *)
(*   name      in an identifier, behind its colon or not                  *)
(*   dash, ar  at a "-" or an "r" that may only begin a word               *)
(*   regex     at its slash, pattern: in it, rescaped: behind a backslash, *)
(*             ropen: behind an escape, flags: behind it                   *)
Moves ==
    { <<"open",     Byte,                               "quoted">>,
      <<"quoted",   Byte \ {Backslash, Quote, Newline}, "quoted">>,
      <<"quoted",   {Backslash},                        "escaped">>,
      <<"quoted",   {Quote},                            "closed">>,
      <<"escaped",  Byte,                               "open">>,
      <<"number",   Digit \ {"0"},                      "decimal">>,
      <<"number",   {"0"},                              "zero">>,
      <<"zero",     {"x"},                              "hex">>,
      <<"zero",     {"o"},                              "octal">>,
      <<"zero",     {"b"},                              "binary">>,
      <<"zero",     Byte \ {"x", "o", "b"},             "decimal">>,
      <<"hex",      HexDigit,                           "hex">>,
      <<"octal",    OctDigit,                           "octal">>,
      <<"binary",   BinDigit,                           "binary">>,
      <<"decimal",  Digit,                              "decimal">>,
      <<"decimal",  {"."},                              "fraction">>,
      <<"decimal",  {"e"},                              "exponent">>,
      <<"fraction", Digit,                              "fraction">>,
      <<"fraction", {"e"},                              "exponent">>,
      <<"exponent", Digit,                              "exponent">>,
      <<"dash",     {"-"},                              "minus">>,
      <<"ar",       {"r"},                              "slash">>,
      <<"slash",    {"/"},                              "regex">>,
      <<"regex",    {Backslash},                        "rescaped">>,
      <<"regex",    {"/"},                              "flags">>,
      <<"regex",    Byte \ {Backslash, "/"},            "pattern">>,
      <<"pattern",  {Backslash},                        "rescaped">>,
      <<"pattern",  {"/"},                              "flags">>,
      <<"pattern",  Byte \ {Backslash, "/"},            "pattern">>,
      <<"rescaped", Byte,                               "ropen">>,
      <<"ropen",    Byte,                               "pattern">>,
      <<"flags",    Flag,                               "flags">>,
      <<"name",     Byte \ Ws,                          "name">>,
      <<"word",     Byte \ Ws,                          "word">> }

(* The places where the end is looked for before a character is taken: in  *)
(* the first it is an error, in the second the end of the word.            *)
NoEnd == {"quoted", "pattern", "rescaped", "ropen"}
GuardedLess == NoEnd    \* wrong: a word goes on past the end
Guarded == NoEnd \cup {"name", "word"}

(* The places where a token can be complete, and its type.                 *)
Complete ==
    [closed |-> "string", hex |-> "integral", octal |-> "integral",
     binary |-> "integral", decimal |-> "integral", fraction |-> "real",
     exponent |-> "real", flags |-> "regex", name |-> "identifier",
     word |-> "word"]

Moving == {m \in Moves : /\ m[1] = at
                         /\ next_char \in m[2]
                         /\ at \in Guarded => ~tknr_end}

InToken == {m[1] : m \in Moves} \cup {"closed", "minus"}

-----------------------------------------------------------------------------
TknrInit ==
    /\ SourceInit
    /\ just_started = TRUE
    /\ line = 1
    /\ index = 0
    /\ at = "idle"
    /\ skipped = FALSE
    /\ start = <<1, 0>>
    /\ raw = <<>>
    /\ size = 0
    /\ returned = <<>>
    /\ result = "none"
    /\ leaked = FALSE
    /\ wild = FALSE

(* A wrong Counted: the index goes on over a newline.                      *)
CountedOn ==
    /\ line' = IF next_char = Newline THEN line + 1 ELSE line
    /\ index' = index + 1

(* skip_char counts the character also when there is no next one.          *)
Counted ==
    IF next_char = Newline THEN line' = line + 1 /\ index' = 0
                        ELSE line' = line /\ index' = index + 1
Skip == Advance /\ Counted
CannotSkip ==
    /\ Counted
    /\ \/ tknr_end /\ UNCHANGED source
       \/ ReadFails

Return(r) ==
    /\ at' = "failed"
    /\ result' = r
    /\ UNCHANGED returned

(* The error handlers free the text and the origin of the token.           *)
Cleanup ==
    /\ raw' = <<>>
    /\ size' = 0
    /\ UNCHANGED <<leaked, wild>>

(* The same when sb_new or the malloc before it has failed: nobody has set *)
(* raw.mem, which sb_free frees.                                           *)
CleanupUnset ==
    /\ raw' = <<>>
    /\ size' = 0
    /\ wild' \in {wild, TRUE}
    /\ UNCHANGED leaked

-----------------------------------------------------------------------------
(* tknr_next, until the token begins.                                      *)
Call ==
    /\ at = "idle"
    /\ IF tknr_end THEN Return("end") /\ UNCHANGED skipped
                   ELSE /\ at' = "between"
                        /\ skipped' = FALSE
                        /\ UNCHANGED <<returned, result>>
    /\ UNCHANGED <<source, just_started, line, index, making, leaked, wild>>

Stay == UNCHANGED <<just_started, making, outcome>>

(* A turn of the loops of skip_ws and of skip_slc.                         *)
SkipWs ==
    /\ at \in {"between", "space"}
    /\ next_char \in Ws
    /\ ~tknr_end
    /\ Skip
    /\ at' = "space"
    /\ UNCHANGED skipped
    /\ Stay

SkipComment ==
    /\ \/ at = "between" /\ next_char = "#"
       \/ at = "comment"
    /\ next_char # Newline
    /\ ~tknr_end
    /\ Skip
    /\ at' = "comment"
    /\ UNCHANGED skipped
    /\ Stay

(* skip_ws has skipped something and there is no more white space.         *)
Spaced ==
    /\ at = "space"
    /\ next_char \notin Ws \/ tknr_end
    /\ at' = "between"
    /\ skipped' = TRUE
    /\ UNCHANGED <<source, line, index>>
    /\ Stay

EndComment ==
    /\ at = "comment"
    /\ next_char = Newline
    /\ ~tknr_end
    /\ Skip
    /\ at' = "between"
    /\ skipped' = TRUE
    /\ Stay

(* Both functions say that there was nothing to skip when a character      *)
(* cannot be read, and skip_between ends with what it had.  A comment that *)
(* ends with the text gets here, behind its last character.                *)
SkipFails ==
    /\ \/ at \in {"between", "space"} /\ next_char \in Ws /\ ~tknr_end
       \/ at = "between" /\ next_char = "#"
       \/ at = "comment"
    /\ CannotSkip
    /\ at' = "skipped"
    /\ UNCHANGED skipped
    /\ Stay

Between ==
    /\ at = "between"
    /\ next_char # "#"
    /\ next_char \notin Ws \/ tknr_end
    /\ at' = "skipped"
    /\ UNCHANGED <<source, line, index, skipped>>
    /\ Stay

NotSeparated ==
    /\ at = "skipped"
    /\ ~skipped
    /\ ~just_started
    /\ Return("separation")
    /\ UNCHANGED <<source, just_started, line, index, skipped, making,
                   leaked, wild>>

NothingLeft ==
    /\ at = "skipped"
    /\ skipped \/ just_started
    /\ tknr_end
    /\ just_started' = FALSE
    /\ Return("end")
    /\ UNCHANGED <<source, line, index, skipped, making, leaked, wild>>

(* The function that reads a token, by its first character.  A "-" and an  *)
(* "r" are appended by tknr_next itself.                                   *)
First ==
    IF next_char = Quote THEN "open"
    ELSE IF next_char \in Digit THEN "number"
    ELSE IF next_char = ":" THEN "name"
    ELSE IF next_char = "-" THEN "dash"
    ELSE IF next_char = "r" THEN "ar"
    ELSE "word"

Beginning ==
    /\ at = "skipped"
    /\ skipped \/ just_started
    /\ ~tknr_end
    /\ just_started' = FALSE
    /\ UNCHANGED <<source, line, index, skipped>>

Begin ==
    /\ Beginning
    /\ at' = First
    /\ start' = <<line, index>>
    /\ raw' = <<>>
    /\ size' = STARTING_RAW_MEM
    /\ UNCHANGED outcome

(* There is no memory for the origin, or for the builder; get_string       *)
(* returns with the origin in its hands when it has no builder.            *)
BeginFails ==
    /\ Beginning
    /\ MallocMayFail
    /\ Return("memory")
    /\ UNCHANGED start
    /\ \/ CleanupUnset
       \/ /\ First = "open"
          /\ leaked' = TRUE
          /\ UNCHANGED <<raw, size, wild>>

(* sb_append: the memory is doubled when only the place of the NUL is      *)
(* left, unless that overflows or there is none.                           *)
FullLate == Len(raw) = size    \* wrong: no place for the NUL
Full == Len(raw) + 1 = size
Appended ==
    /\ raw' = Append(raw, next_char)
    /\ size' = IF Full THEN 2 * size ELSE size
Overflows == 2 > SizeMax \div size
CanAppend == Full => ~Overflows
CannotAppend == Full /\ (MallocMayFail \/ Overflows)

Take ==
    /\ Moving # {}
    /\ CanAppend
    /\ Appended
    /\ Skip
    /\ \E m \in Moving : at' = m[3]
    /\ UNCHANGED <<just_started, skipped, start, outcome>>

TakeNoMemory ==
    /\ Moving # {}
    /\ CannotAppend
    /\ Cleanup
    /\ Return("memory")
    /\ UNCHANGED <<source, just_started, line, index, skipped, start>>

(* The next character cannot be had.  The loop over the flags of a regex   *)
(* returns at once, the others free what they have.                        *)
TakeNoNext ==
    /\ Moving # {}
    /\ CanAppend
    /\ CannotSkip
    /\ Return(IF tknr_end THEN "syntax" ELSE "read")
    /\ IF at = "flags"
       THEN leaked' = TRUE /\ UNCHANGED <<raw, size, wild>>
       ELSE Cleanup
    /\ UNCHANGED <<just_started, skipped, start>>

(* A "-" before a digit is a number, for which get_number has a builder of *)
(* its own; an "r" without a slash, and a "-" without a digit, are words.  *)
Negative ==
    /\ at = "minus"
    /\ next_char \in Digit
    /\ at' = "number"
    /\ size' = IF STARTING_RAW_MEM = 1 THEN 2 ELSE STARTING_RAW_MEM
    /\ UNCHANGED <<source, just_started, line, index, skipped, start, raw,
                   outcome>>

NegativeFails ==
    /\ at = "minus"
    /\ next_char \in Digit
    /\ MallocMayFail
    /\ Return("memory")
    /\ CleanupUnset
    /\ UNCHANGED <<source, just_started, line, index, skipped, start>>

PlainWord ==
    /\ \/ at = "minus" /\ next_char \notin Digit
       \/ at = "slash" /\ next_char # "/"
    /\ at' = "word"
    /\ UNCHANGED <<source, just_started, line, index, skipped, making,
                   outcome>>

(* A string is complete with its quote; the rest has to be followed by     *)
(* white space or the end, and a word always is when nothing more of it is *)
(* left to take.                                                           *)
Ended == at = "closed" \/ next_char \in Ws \/ tknr_end

Deliver ==
    /\ at \in DOMAIN Complete
    /\ Moving = {}
    /\ Ended
    /\ returned' = Append(returned,
          [type |-> Complete[at], raw |-> raw,
           line |-> start[1], index |-> start[2]])
    /\ at' = "idle"
    /\ result' = "token"
    /\ raw' = <<>>
    /\ size' = 0
    /\ UNCHANGED <<source, just_started, line, index, skipped, start,
                   leaked, wild>>

(* sb_into_string: realloc fails.                                          *)
DeliverFails ==
    /\ at \in DOMAIN Complete
    /\ Moving = {}
    /\ Ended
    /\ MallocMayFail
    /\ Return("memory")
    /\ Cleanup
    /\ UNCHANGED <<source, just_started, line, index, skipped, start>>

(* A wrong Malformed: the end inside a string or a regex goes unnoticed.   *)
MalformedLater ==
    /\ \/ at = "quoted" /\ next_char = Newline
       \/ at \in DOMAIN Complete /\ ~Ended
    /\ Moving = {}
    /\ Return("syntax")
    /\ Cleanup
    /\ UNCHANGED <<source, just_started, line, index, skipped, start>>

(* The text ends inside a string or a regex, a string has a newline, a     *)
(* number or the flags of a regex go on with something else.               *)
Malformed ==
    /\ \/ at \in NoEnd /\ tknr_end
       \/ at = "quoted" /\ next_char = Newline
       \/ at \in DOMAIN Complete /\ ~Ended
    /\ Moving = {}
    /\ Return("syntax")
    /\ Cleanup
    /\ UNCHANGED <<source, just_started, line, index, skipped, start>>

TknrNext ==
    \/ Call \/ SkipWs \/ SkipComment \/ Spaced \/ EndComment \/ SkipFails
    \/ Between \/ NotSeparated \/ NothingLeft
    \/ Begin \/ BeginFails \/ Take \/ TakeNoMemory \/ TakeNoNext
    \/ Negative \/ NegativeFails \/ PlainWord
    \/ Deliver \/ DeliverFails \/ Malformed

TknrSpec == TknrInit /\ [][TknrNext]_tknr_vars
FairSpec == TknrSpec /\ WF_tknr_vars(TknrNext)

-----------------------------------------------------------------------------
(* The NUL that sb_append writes behind the characters has a place, at     *)
(* every capacity, and so has the first character of a negative number in  *)
(* the builder that get_number makes (sb_append, 30-45).                   *)
RoomForNul == size # 0 => Len(raw) < size

=============================================================================
