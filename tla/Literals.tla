------------------------------ MODULE Literals ------------------------------
(***************************************************************************)
(* tkn_value of tkn_value_func.c: the value of a token from its text.  A   *)
(* conversion is a record with the error it returns, "none" when there is  *)
(* none, and the value.  Sequences start at 1; an index of the code is one *)
(* less.                                                                   *)
(***************************************************************************)
EXTENDS Integers, Sequences, FiniteSets, FiniteSetsExt, Characters

CONSTANT LLONG_MAX    \* the largest integral
LLONG_MIN == -LLONG_MAX - 1

Value(v) == [err |-> "none", val |-> v]
Error(e) == [err |-> e, val |-> 0]

(* The digit c stands for, 16 when it stands for none.                     *)
HexVal(c) ==
    LET lower == <<"0", "1", "2", "3", "4", "5", "6", "7", "8", "9",
                   "a", "b", "c", "d", "e", "f">>
        upper == <<"A", "B", "C", "D", "E", "F">>
    IN  IF c \notin HexDigit THEN 16
        ELSE IF \E i \in DOMAIN upper : upper[i] = c
        THEN 9 + CHOOSE i \in DOMAIN upper : upper[i] = c
        ELSE (CHOOSE i \in DOMAIN lower : lower[i] = c) - 1

-----------------------------------------------------------------------------
(* Strings.  A character is itself, but a byte written with \x is <<h, l>>. *)
Escapes ==
    {<<"0", "NUL">>, <<"a", "\\a">>, <<"b", "\\b">>, <<"e", "\\a">>,
     <<"f", "\\f">>, <<"n", Newline>>, <<"r", "\r">>, <<"t", "\t">>,
     <<"v", "\\v">>}
Escape(c) ==
    IF \E e \in Escapes : e[1] = c
    THEN (CHOOSE e \in Escapes : e[1] = c)[2]
    ELSE c

(* tto_escape_string over the characters between the quotes.               *)
EscapeString(s) ==
    LET n == Len(s)
        byte(p) == <<HexVal(s[p]), HexVal(s[p + 1])>>
        put(c, rest) == IF rest.err = "none"
                        THEN Value(<<c>> \o rest.val) ELSE rest
        hex(p) == IF p > n THEN Error("end")
                  ELSE IF HexVal(s[p]) > 15 THEN Error("hex")
                  ELSE IF p = n THEN Error("end")
                  ELSE IF HexVal(s[p + 1]) > 15 THEN Error("hex")
                  ELSE Value(<<>>)
        from[p \in 1 .. n + 1] ==
            IF p > n THEN Value(<<>>)
            ELSE IF s[p] # Backslash THEN put(s[p], from[p + 1])
            ELSE IF p = n THEN Error("end")
            ELSE IF s[p + 1] # "x" THEN put(Escape(s[p + 1]), from[p + 2])
            ELSE IF hex(p + 2).err # "none" THEN hex(p + 2)
            ELSE put(byte(p + 2), from[p + 4])
    IN  from[1]

BetweenOff(raw) == Tail(raw)    \* wrong: the quote is left on
Between(raw) == SubSeq(raw, 2, Len(raw) - 1)
tkn_value_string(raw) == EscapeString(Between(raw))

-----------------------------------------------------------------------------
(* strtoll, of the C library: the value of the digits s begins with, how   *)
(* much of s they are, and whether the value has a place in an integral.   *)
Strtoll(s, base) ==
    LET sign == IF s # <<>> /\ s[1] = "-" THEN 1 ELSE 0
        last == Max({k \in sign .. Len(s) :
                        \A i \in sign + 1 .. k : HexVal(s[i]) < base})
        upTo[k \in sign .. last] ==
            IF k = sign THEN 0 ELSE upTo[k - 1] * base + HexVal(s[k])
        val == IF sign = 1 THEN -upTo[last] ELSE upTo[last]
    IN  [val |-> val, end |-> IF last = sign THEN 0 ELSE last,
         fits |-> LLONG_MIN <= val /\ val <= LLONG_MAX]

BaseOf == [x |-> 16, o |-> 8, b |-> 2]

(* The sign is not counted in len; when there is one, it is written over   *)
(* the character before the digits, which is a sign or a part of 0x.       *)
tkn_value_integral(raw) ==
    LET neg == raw[1] = "-"
        signed == neg \/ raw[1] = "+"
        body == IF signed THEN Tail(raw) ELSE raw
        prefixed == body[1] = "0" /\ Len(raw) > 2
        known == body[2] \in DOMAIN BaseOf
        base == IF prefixed THEN BaseOf[body[2]] ELSE 10
        digits == IF base # 10 THEN SubSeq(body, 3, Len(body)) ELSE body
        len == IF base # 10 THEN Len(raw) - 2 ELSE Len(raw)
        num == Strtoll(IF neg THEN <<"-">> \o digits ELSE digits, base)
    IN  IF prefixed /\ ~known THEN Error("base")
        ELSE IF ~num.fits THEN Error("range")
        ELSE IF num.end # len THEN Error("digit")
        ELSE Value(num.val)

(* strtod takes an e only with digits behind it.  The value itself, and    *)
(* whether it has a place in a real, are left out.                         *)
tkn_value_real(raw) ==
    IF raw[Len(raw)] = "e" THEN Error("digit") ELSE Value(0)

tkn_value(token) ==
    CASE token.type = "string" -> tkn_value_string(token.raw)
      [] token.type = "integral" -> tkn_value_integral(token.raw)
      [] token.type = "real" -> tkn_value_real(token.raw)
      [] token.type = "identifier" -> Value(Tail(token.raw))
      [] token.type = "word" -> Error("valueless")
      [] token.type = "regex" -> Error("not implemented")

=============================================================================
