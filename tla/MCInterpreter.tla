---------------------------- MODULE MCInterpreter ----------------------------
(* Bounds for Interpreter, and the order in which words have to be run.     *)
EXTENDS Interpreter

CONSTANTS MaxLength, MaxForeign

Seqs(S, max) == UNION {[1 .. n -> S] : n \in 0 .. max}

(* One of each kind of thing that parse distinguishes. *)
BuiltinPrograms ==
    Seqs({"string", "integral", "real", "identifier", "misread", "puts",
          "*puts", "+", "-", "/", "{", "}", "lexfail"}, MaxLength)

(* A foreign function leaves braces on levels; the match of such a brace   *)
(* may be on another level or in the program.                              *)
ForeignPrograms == Seqs(Foreign \cup {"integral", "puts", "}"}, MaxForeign)

AllPrograms == BuiltinPrograms \cup ForeignPrograms

(* The tokens before the first one that the tokenizer rejects. *)
Lexed(p) ==
    LET bad == {i \in DOMAIN p : p[i] = "lexfail"}
    IN  SelectSeq([i \in DOMAIN p |->
                      IF \E j \in bad : j <= i THEN "lexfail" ELSE p[i]],
                  LAMBDA t : t # "lexfail")

(* The tokens that the loop of parse takes, read off the program: a word   *)
(* defined as a block is followed by that block, and "{" hides the tokens  *)
(* up to its match.                                                        *)
RECURSIVE Expand(_)
Expand(p) ==
    IF p = <<>> THEN <<>>
    ELSE IF Head(p) = "*puts" THEN <<"*puts">> \o AnyPuts \o Expand(Tail(p))
    ELSE IF Head(p) = "{"
    THEN <<"{">> \o
         LET ends == {i \in DOMAIN p : Balanced(SubSeq(p, 1, i))}
         IN  IF ends = {} THEN <<>>
             ELSE Expand(SubSeq(p, Min(ends) + 1, Len(p)))
    ELSE <<Head(p)>> \o Expand(Tail(p))

(* The loop takes tokens in the order of the program with every word       *)
(* replaced by its definition, and when parse returns true it took all of  *)
(* them: the levels of the token stack neither lose nor reorder a token    *)
(* (runnable.c 86-95, token_stack.c 77-93).  A foreign function may take   *)
(* and push tokens of its own.                                             *)
RunsInOrder ==
    OnlyBuiltin =>
    LET expected == Expand(Lexed(program))
    IN  /\ IsPrefix(ran, expected)
        /\ pc = "done" => ran = expected

=============================================================================
