----------------------------- MODULE CharSource -----------------------------
(***************************************************************************)
(* Where the tokenizer gets its characters: get_next_char_string,          *)
(* get_next_char_file and tknr_end of tokenizer.c.                         *)
(*                                                                         *)
(* The tokenizer holds one character, next_char.  A string is read with a  *)
(* pointer, a file through a buffer of BUF_SIZE characters that fread      *)
(* fills again when it is used up.  There is no mark at the end of a file: *)
(* tknr_end compares the position in the buffer with eof, the number of    *)
(* characters of the last fill, and at the end next_char is whatever the   *)
(* buffer has at that place.  A string ends with its NUL.                  *)
(*                                                                         *)
(* Sequences start at 1, so buf[i] is buf[i - 1] of the code and pos, the  *)
(* index of the character that follows next_char in C, is the index of     *)
(* next_char itself.                                                       *)
(***************************************************************************)
EXTENDS Naturals, Sequences

CONSTANTS
    Char,           \* the characters
    NUL,            \* the zero byte; a text has none
    Texts,          \* the texts to read
    BUF_SIZE,       \* characters in the buffer of a file
    ReadMayFail     \* whether fread may report an error

ASSUME SourceAssumption ==
    /\ NUL \notin Char
    /\ Texts \subseteq Seq(Char)
    /\ BUF_SIZE \in Nat \ {0}

VARIABLES
    text,           \* the whole text, which never changes
    is_from_file,
    buf,            \* the buffer of a file
    eof,            \* characters of the last fill: BUF_SIZE unless at EOF
    filled,         \* characters fread has taken from the file
    pos,            \* next_chars_pos, or cur_pos - begin
    next_char,
    broken          \* history: fread has failed

source == <<text, is_from_file, buf, eof, filled, pos, next_char, broken>>

tknr_end == IF is_from_file THEN eof < pos ELSE pos = Len(text) + 1

(* What fread puts into the buffer when it takes n characters, and how     *)
(* many it takes when nothing goes wrong.                                  *)
Fetched(n) ==
    [i \in 1 .. BUF_SIZE |-> IF i <= n THEN text[filled + i] ELSE buf[i]]
Available ==
    LET left == Len(text) - filled
    IN  IF left < BUF_SIZE THEN left ELSE BUF_SIZE

(* tknr_from_filepath has a buffer of zeroes to fill, tknr_from_string a   *)
(* string that is not empty.                                               *)
SourceInit ==
    /\ text \in Texts
    /\ is_from_file \in BOOLEAN
    /\ broken = FALSE
    /\ pos = 1
    /\ LET n == IF Len(text) < BUF_SIZE THEN Len(text) ELSE BUF_SIZE
       IN  IF is_from_file
           THEN /\ filled = n
                /\ eof = n
                /\ buf = [i \in 1 .. BUF_SIZE |->
                             IF i <= n THEN text[i] ELSE NUL]
                /\ next_char = buf[1]
           ELSE /\ text # <<>>
                /\ filled = 0
                /\ eof = BUF_SIZE
                /\ buf = [i \in 1 .. BUF_SIZE |-> NUL]
                /\ next_char = text[1]

AdvanceString ==
    /\ ~is_from_file
    /\ ~tknr_end
    /\ pos' = pos + 1
    /\ next_char' = IF pos < Len(text) THEN text[pos + 1] ELSE NUL
    /\ UNCHANGED <<text, is_from_file, buf, eof, filled, broken>>

AdvanceInBuffer ==
    /\ is_from_file
    /\ ~tknr_end
    /\ pos # BUF_SIZE
    /\ pos' = pos + 1
    /\ next_char' = buf[pos + 1]
    /\ UNCHANGED <<text, is_from_file, buf, eof, filled, broken>>

(* A wrong Refill: a fill that is short does not mark the end.             *)
RefillUnmarked ==
    /\ is_from_file
    /\ ~tknr_end
    /\ pos = BUF_SIZE
    /\ buf' = Fetched(Available)
    /\ filled' = filled + Available
    /\ pos' = 1
    /\ next_char' = Fetched(Available)[1]
    /\ UNCHANGED <<text, is_from_file, eof, broken>>

(* The fill may find nothing: then the file has ended before, at the end   *)
(* of a buffer, and next_char is the first of the old characters.          *)
Refill ==
    /\ is_from_file
    /\ ~tknr_end
    /\ pos = BUF_SIZE
    /\ buf' = Fetched(Available)
    /\ eof' = Available
    /\ filled' = filled + Available
    /\ pos' = 1
    /\ next_char' = Fetched(Available)[1]
    /\ UNCHANGED <<text, is_from_file, broken>>

Advance == AdvanceString \/ AdvanceInBuffer \/ Refill

(* fread took n characters before the error.  They are in the buffer, and  *)
(* nothing else has changed: the next call reads on behind them.           *)
ReadFails ==
    /\ ReadMayFail
    /\ is_from_file
    /\ ~tknr_end
    /\ pos = BUF_SIZE
    /\ \E n \in 0 .. Available :
          /\ n < BUF_SIZE
          /\ buf' = Fetched(n)
          /\ filled' = filled + n
    /\ broken' = TRUE
    /\ UNCHANGED <<text, is_from_file, eof, pos, next_char>>

SourceNext == Advance \/ ReadFails
SourceSpec == SourceInit /\ [][SourceNext]_source

-----------------------------------------------------------------------------
(* The place of next_char in the text.                                     *)
Index == IF is_from_file THEN filled - eof + pos ELSE pos

(* However the text falls into buffers, the tokenizer is at the end just   *)
(* when it is past the last character, and before that it holds the one    *)
(* its position says (get_next_char_file, 83-100).                         *)
ReadsText ==
    ~broken =>
        /\ tknr_end <=> Index > Len(text)
        /\ ~tknr_end => next_char = text[Index]

=============================================================================
