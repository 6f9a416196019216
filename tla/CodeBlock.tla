----------------------------- MODULE CodeBlock -----------------------------
(***************************************************************************)
(* code_block.c: growing arrays of tokens, and the tokens that a caller    *)
(* has in hand to put into them.  An array is its entries in use and its   *)
(* width; an entry behind those is JUNK when it is read.                   *)
(*                                                                         *)
(* A call that fails and changes nothing is a stuttering step.             *)
(***************************************************************************)
EXTENDS TextHeap

CONSTANTS
    Block,      \* the variables of type struct CodeBlock
    Token,      \* what tokens say
    Widths,     \* what callers pass to cb_new: never 0
    MaxSource,  \* bound: tokens that are passed to cb_from_tkns
    MaxHand     \* bound: tokens that a caller has in hand

ASSUME WidthsAssumption == Widths \subseteq Nat \ {0}

VARIABLES
    tokens,     \* tokens[0 .. count - 1], here from 1; NONE for no block
    cap,        \* cap; 0 for no block
    hand        \* tokens that belong to the caller

Live(b) == tokens[b] # NONE

(* The array of b, and what is read from behind it (line 86). *)
Cells(b) ==
    [i \in 1 .. cap[b] + 1 |->
        IF i <= Len(tokens[b]) THEN tokens[b][i] ELSE JUNK]

(* The widths with which cb_append, cb_insert and cb_prepend can go on: a  *)
(* full array is doubled by cb_expand.                                     *)
Room(b) ==
    IF Len(tokens[b]) < cap[b] THEN {cap[b]}
    ELSE IF cap[b] > SizeMax \div 2 THEN {} ELSE {cap[b] * 2}

-----------------------------------------------------------------------------

(* tknr_next, or what else allocates a token and gives it to a caller *)
MakeToken(w) ==
    /\ mode = "run"
    /\ HasRoom(1) /\ Cardinality(hand) < MaxHand
    /\ heap' = Filled(heap, Fresh(1), <<w>>)
    /\ hand' = hand \cup {Fresh(1)[1]}
    /\ UNCHANGED <<mode, failed, tokens, cap>>

(* tkn_free *)
DropToken(t) ==
    /\ mode = "run"
    /\ t \in hand
    /\ heap' = Disposed(heap, <<t>>)
    /\ hand' = hand \ {t}
    /\ UNCHANGED <<mode, failed, tokens, cap>>

cb_new(b, n) ==
    /\ mode = "run"
    /\ ~Live(b)
    /\ tokens' = [tokens EXCEPT ![b] = <<>>]
    /\ cap' = [cap EXCEPT ![b] = n]
    /\ UNCHANGED <<heap, mode, failed, hand>>

(* A defect for the mutant runs: the copy shares the tokens. *)
cb_copyShallow(a, b) ==
    /\ mode = "run"
    /\ Live(a) /\ ~Live(b)
    /\ tokens' = [tokens EXCEPT ![b] = tokens[a]]
    /\ cap' = [cap EXCEPT ![b] = cap[a]]
    /\ UNCHANGED <<heap, mode, failed, hand>>

(* cb_copy, which rn_from_ctn and rn_copy are of a block.  It does not ask *)
(* what tkn_copy returned: what could not be copied (out) stays as it was  *)
(* allocated.  A token that is not one is followed. *)
cb_copy(a, b) ==
    /\ mode = "run"
    /\ Live(a) /\ ~Live(b)
    /\ IF Sound(heap, tokens[a])
       THEN /\ HasRoom(Len(tokens[a]))
            /\ \E out \in SUBSET DOMAIN tokens[a] :
                  LET new == [i \in DOMAIN tokens[a] |->
                                IF i \in out THEN JUNK
                                ELSE Fresh(Len(tokens[a]))[i]]
                  IN  /\ out # {} => MayFail
                      /\ heap' = Filled(heap, new, Reading(tokens[a]))
                      /\ tokens' = [tokens EXCEPT ![b] = new]
                      /\ failed' = (failed \/ out # {})
            /\ cap' = [cap EXCEPT ![b] = cap[a]]
            /\ UNCHANGED <<mode, hand>>
       ELSE /\ mode' = "wild"
            /\ UNCHANGED <<heap, failed, tokens, cap, hand>>

(* cb_from_tkns, of tokens with the texts ws that stay the caller's. *)
cb_from_tkns(ws, b) ==
    /\ mode = "run"
    /\ ~Live(b)
    /\ HasRoom(Len(ws))
    /\ heap' = Filled(heap, Fresh(Len(ws)), ws)
    /\ tokens' = [tokens EXCEPT ![b] = Fresh(Len(ws))]
    /\ cap' = [cap EXCEPT ![b] = Len(ws)]
    /\ UNCHANGED <<mode, failed, hand>>

(* It cleans up when a token cannot be copied, starting with that one.     *)
cb_from_tknsFails(ws, b) ==
    /\ MayFail
    /\ mode = "run"
    /\ ~Live(b)
    /\ \E n \in 0 .. Len(ws) - 1 :
          LET made == Filled(heap, Fresh(n), SubSeq(ws, 1, n))
              freed == CleanUp(Fresh(n), JUNK)
          IN  /\ HasRoom(n)
              /\ heap' = Disposed(made, freed)
              /\ mode' = IF Sound(made, freed) THEN mode ELSE "wild"
    /\ failed' = TRUE
    /\ UNCHANGED <<tokens, cap, hand>>

(* The array c after c[i] = c[i + d] for the indices is, in their order.   *)
Shifted(c, is, d) ==
    LET after[k \in 0 .. Len(is)] ==
            IF k = 0 THEN c
            ELSE [after[k - 1] EXCEPT ![is[k]] = after[k - 1][is[k] + d]]
    IN  after[Len(is)]

(* The indices from m down to n, and from n up to m. *)
Down(m, n) == [i \in 1 .. m - n + 1 |-> m + 1 - i]
Up(n, m) == [i \in 1 .. m - n + 1 |-> n - 1 + i]

(* A defect for the mutant runs: the tokens are moved in the wrong order.  *)
OpenedUp(b, pos, t, width) ==
    LET n == Len(tokens[b])
        wide == [i \in 1 .. width |-> IF i <= n THEN tokens[b][i] ELSE JUNK]
    IN  SubSeq([Shifted(wide, Up(pos + 1, n + 1), -1) EXCEPT ![pos] = t],
               1, n + 1)

(* The entries once the array is width wide, those from pos have moved up  *)
(* and t is at pos.                                                        *)
Opened(b, pos, t, width) ==
    LET n == Len(tokens[b])
        wide == [i \in 1 .. width |-> IF i <= n THEN tokens[b][i] ELSE JUNK]
    IN  SubSeq([Shifted(wide, Down(n + 1, pos + 1), -1) EXCEPT ![pos] = t],
               1, n + 1)

(* The entries once those behind pos have moved down, up to what is read   *)
(* from behind the last.                                                   *)
Closed(b, pos) ==
    LET n == Len(tokens[b])
    IN  SubSeq(Shifted(Cells(b), Up(pos, n), 1), 1, n - 1)

(* cb_append, cb_prepend and cb_insert put the token at the end, first,    *)
(* and in the place of one that is there.                                  *)
Places(b) == {Len(tokens[b]) + 1, 1} \cup DOMAIN tokens[b]

cb_insert(b, pos, t) ==
    /\ mode = "run"
    /\ Live(b) /\ t \in hand
    /\ pos \in Places(b)
    /\ \E width \in Room(b) :
          /\ cap' = [cap EXCEPT ![b] = width]
          /\ tokens' = [tokens EXCEPT ![b] = Opened(b, pos, t, width)]
    /\ hand' = hand \ {t}
    /\ UNCHANGED <<heap, mode, failed>>

cb_remove(b, pos) ==
    /\ mode = "run"
    /\ Live(b) /\ pos \in DOMAIN tokens[b]
    /\ IF Sound(heap, <<tokens[b][pos]>>)
       THEN /\ heap' = Disposed(heap, <<tokens[b][pos]>>)
            /\ tokens' = [tokens EXCEPT ![b] = Closed(b, pos)]
            /\ UNCHANGED mode
       ELSE mode' = "wild" /\ UNCHANGED <<heap, tokens>>
    /\ UNCHANGED <<failed, cap, hand>>

cb_set(b, pos, t) ==
    /\ mode = "run"
    /\ Live(b) /\ pos \in DOMAIN tokens[b] /\ t \in hand
    /\ IF Sound(heap, <<tokens[b][pos]>>)
       THEN /\ heap' = Disposed(heap, <<tokens[b][pos]>>)
            /\ tokens' = [tokens EXCEPT ![b][pos] = t]
            /\ hand' = hand \ {t}
            /\ UNCHANGED mode
       ELSE mode' = "wild" /\ UNCHANGED <<heap, tokens, hand>>
    /\ UNCHANGED <<failed, cap>>

(* cb_free, which rn_free is of a block *)
cb_free(b) ==
    /\ mode = "run"
    /\ Live(b)
    /\ IF Sound(heap, tokens[b])
       THEN /\ heap' = Disposed(heap, tokens[b])
            /\ tokens' = [tokens EXCEPT ![b] = NONE]
            /\ cap' = [cap EXCEPT ![b] = 0]
            /\ UNCHANGED mode
       ELSE mode' = "wild" /\ UNCHANGED <<heap, tokens, cap>>
    /\ UNCHANGED <<failed, hand>>

Sources == UNION {[1 .. n -> Token] : n \in 1 .. MaxSource}

BlockStep ==
    \/ \E w \in Token : MakeToken(w)
    \/ \E t \in hand : DropToken(t)
    \/ \E b \in Block :
          \/ \E n \in Widths : cb_new(b, n)
          \/ \E a \in Block : cb_copy(a, b)
          \/ \E ws \in Sources : cb_from_tkns(ws, b) \/ cb_from_tknsFails(ws, b)
          \/ \E t \in hand, pos \in Text : cb_insert(b, pos, t) \/ cb_set(b, pos, t)
          \/ \E pos \in Text : cb_remove(b, pos)
          \/ cb_free(b)

=============================================================================
