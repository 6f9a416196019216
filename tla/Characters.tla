---------------------------- MODULE Characters ----------------------------
(* The classes of characters that tokenizer.c tells apart.                 *)

Quote == "\""
Backslash == "\\"
Newline == "\n"

Ws == {" ", "\t", Newline, "\r"}
BinDigit == {"0", "1"}
OctDigit == BinDigit \cup {"2", "3", "4", "5", "6", "7"}
Digit == OctDigit \cup {"8", "9"}
HexDigit == Digit \cup {"a", "b", "c", "d", "e", "f",
                        "A", "B", "C", "D", "E", "F"}
Flag == {"g", "x", "i", "a", "m", "s"}

=============================================================================
