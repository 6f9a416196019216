------------------------------- MODULE Blocks -------------------------------
(***************************************************************************)
(* Code blocks at work: rn_run of runnable.c copies the tokens of a block  *)
(* to a level of the token stack, and curly of stl/globals.c collects      *)
(* tokens from there, or from the program, into a block.  The loop of      *)
(* curly is taken turn by turn, and nothing else happens meanwhile.        *)
(*                                                                         *)
(* The token stack is the sequence of the tokens that are pushed on it.    *)
(* With code_block.c and type.c the module covers all that allocates and   *)
(* frees texts behind the tokenizer.                                       *)
(***************************************************************************)
EXTENDS CodeBlock, Types

CONSTANTS
    CurlyWidth,     \* the 16 of cb_new in curly
    MaxLeft,        \* bound: texts that nobody has
    MaxPushed       \* bound: tokens that are pushed on the token stack

ASSUME CurlyWidthAssumption == CurlyWidth \in Nat \ {0}
ASSUME WordsAssumption ==
    {"{", "}"} \subseteq Token /\ Word = Token \cup Name
ASSUME OwnersAssumption == Block \cap Type = {} /\ "level" \notin Block \cup Type

VARIABLES
    level,      \* the pushed tokens, the next one first
    ret,        \* the block that curly fills, or NONE
    depth       \* curly_count

calls == <<level, ret, depth>>
vars == <<heap, mode, failed, tokens, cap, hand, names, calls>>

Init ==
    /\ heap = [t \in Text |-> NONE]
    /\ mode = "run"
    /\ failed = FALSE
    /\ tokens = [b \in Block |-> NONE]
    /\ cap = [b \in Block |-> 0]
    /\ hand = {}
    /\ names = [y \in Type |-> NONE]
    /\ level = <<>> /\ ret = NONE /\ depth = 0

(* A defect for the mutant runs: the tokens are pushed first to last. *)
PushedForwards(new) == Reverse(new) \o level

(* The level after the tokens new were pushed, the last one first. *)
Pushed(new) == new \o level

(* rn_run of a block.  Out of memory it returns with the tokens up to n    *)
(* not pushed; the copy of token n is lost when it was tst_push that       *)
(* failed (runnable.c 92). *)
Run(b) ==
    /\ mode = "run"
    /\ Live(b)
    /\ Len(level) + Len(tokens[b]) <= MaxPushed
    /\ UNCHANGED <<tokens, cap, hand, names, ret, depth>>
    /\ \E n \in 0 .. Len(tokens[b]), copied \in {0, 1} :
          LET rest == SubSeq(tokens[b], n + 1, Len(tokens[b]))
              new == Fresh(Len(rest) + copied)
          IN  /\ copied > 0 => n > 0
              /\ n > 0 => MayFail
              /\ IF Sound(heap, SubSeq(tokens[b], n + 1 - copied, Len(tokens[b])))
                 THEN /\ HasRoom(Len(rest) + copied)
                      /\ heap' = Filled(heap, new, Reading(
                            SubSeq(tokens[b], n + 1 - copied, Len(tokens[b]))))
                      /\ level' = Pushed(SubSeq(new, 1 + copied, Len(new)))
                      /\ failed' = (failed \/ n > 0)
                      /\ UNCHANGED mode
                 ELSE mode' = "wild" /\ UNCHANGED <<heap, level, failed>>

(* tst_pop of a pushed token *)
Pop ==
    /\ mode = "run"
    /\ level # <<>> /\ Cardinality(hand) < MaxHand
    /\ hand' = hand \cup {Head(level)}
    /\ level' = Tail(level)
    /\ UNCHANGED <<heap, mode, failed, tokens, cap, names, ret, depth>>

-----------------------------------------------------------------------------

Owner == Block \cup Type \cup {"level"}

(* What every owner of texts has; those in hand have no order. *)
Arrays ==
    [o \in Owner |->
        IF o \in Block THEN IF Live(o) THEN tokens[o] ELSE <<>>
        ELSE IF o \in Type THEN IF names[o] # NONE THEN names[o] ELSE <<>>
        ELSE level]

(* The texts that nobody has. *)
Left == {t \in Allocated \ hand : \A o \in Owner : t \notin Range(Arrays[o])}

CurlyBegin(b) ==
    /\ mode = "run"
    /\ ~Live(b)
    /\ Cardinality(Left) < MaxLeft
    /\ mode' = "curly"
    /\ ret' = b
    /\ depth' = 1
    /\ tokens' = [tokens EXCEPT ![b] = <<>>]
    /\ cap' = [cap EXCEPT ![b] = CurlyWidth]
    /\ UNCHANGED <<heap, failed, hand, names, level>>

Deeper(w) == IF w = "{" THEN 1 ELSE IF w = "}" THEN -1 ELSE 0

(* cb_append of the token t that says w, whose result nobody looks at. *)
CurlyAppend(t, w) ==
    /\ depth' = depth + Deeper(w)
    /\ \/ \E width \in Room(ret) :
             /\ cap' = [cap EXCEPT ![ret] = width]
             /\ tokens' = [tokens EXCEPT ![ret] = Append(@, t)]
             /\ UNCHANGED failed
       \/ /\ Len(tokens[ret]) = cap[ret]
          /\ MayFail \/ Room(ret) = {}
          /\ failed' = TRUE
          /\ UNCHANGED <<cap, tokens>>

(* A turn of the loop: a token that is pushed, or one of the program.      *)
CurlyTake ==
    /\ mode = "curly"
    /\ depth # 0
    /\ \/ /\ level # <<>>
          /\ CurlyAppend(Head(level), heap[Head(level)])
          /\ level' = Tail(level)
          /\ UNCHANGED heap
       \/ /\ level = <<>>
          /\ HasRoom(1)
          /\ \E w \in Token :
                /\ CurlyAppend(Fresh(1)[1], w)
                /\ heap' = Filled(heap, Fresh(1), <<w>>)
          /\ UNCHANGED level
    /\ UNCHANGED <<mode, hand, names, ret>>

(* curly returns, and its block is gone. *)
CurlyReturns ==
    /\ mode' = "run"
    /\ ret' = NONE
    /\ depth' = 0
    /\ tokens' = [tokens EXCEPT ![ret] = NONE]
    /\ cap' = [cap EXCEPT ![ret] = 0]
    /\ UNCHANGED <<hand, names, level>>

(* There is no token any more, or no memory for the object: the block is   *)
(* left as it is. *)
CurlyFails ==
    /\ mode = "curly"
    /\ ~failed
    /\ (depth # 0 /\ level = <<>>) \/ (depth = 0 /\ MallocMayFail)
    /\ failed' = TRUE
    /\ CurlyReturns
    /\ UNCHANGED heap

(* --ret.count *)
WithoutBrace(s) == Front(s)

(* The object that is pushed has the tokens of ret, which are then freed;  *)
(* nothing in the program looks at them through the object.                *)
CurlyPush ==
    /\ mode = "curly"
    /\ depth = 0
    /\ tokens[ret] # <<>>
    /\ heap' = Disposed(heap, WithoutBrace(tokens[ret]))
    /\ CurlyReturns
    /\ UNCHANGED failed

(* The tokens are counted down to before the first, when nothing but the   *)
(* brace could be appended, or when nothing at all could; then the last    *)
(* one is printed. *)
CurlyMisreads ==
    /\ mode = "curly"
    /\ depth = 0
    /\ Len(tokens[ret]) <= 1
    /\ mode' = "misread"
    /\ UNCHANGED <<heap, failed, tokens, cap, hand, names, level, ret, depth>>

Next ==
    \/ BlockStep /\ UNCHANGED <<names, calls>>
    \/ TypeStep /\ UNCHANGED <<tokens, cap, hand, calls>>
    \/ \E b \in Block : Run(b) \/ CurlyBegin(b)
    \/ Pop \/ CurlyTake \/ CurlyFails \/ CurlyPush \/ CurlyMisreads

Spec == Init /\ [][Next]_vars

-----------------------------------------------------------------------------

TypeOK ==
    /\ heap \in [Text -> Word \cup {NONE}]
    /\ mode \in {"run", "curly", "wild", "misread"}
    /\ failed \in BOOLEAN
    /\ tokens \in [Block -> {NONE} \cup Seq(Cell)]
    /\ cap \in [Block -> Nat]
    /\ hand \subseteq Text
    /\ names \in [Type -> {NONE} \cup Seq(Text)]
    /\ level \in Seq(Text)
    /\ depth \in Nat
    /\ IF mode = "curly" THEN ret \in Block /\ Live(ret)
       ELSE mode = "run" => ret = NONE

(* Every array has the width for its entries, and is wide enough to be     *)
(* doubled. *)
InBounds ==
    \A b \in Block : Live(b) => Len(tokens[b]) <= cap[b] /\ cap[b] > 0

(* A text that is somewhere is allocated and nowhere else. *)
OneHolder ==
    /\ hand \subseteq Allocated
    /\ \A o, p \in Owner :
          \A i \in DOMAIN Arrays[o], j \in DOMAIN Arrays[p] :
             LET t == Arrays[o][i]
             IN  t \in Text => /\ t \in Allocated \ hand
                              /\ (t = Arrays[p][j] => o = p /\ i = j)

(* Only a copy that failed and was not looked at leaves garbage in a       *)
(* block, and only that is ever followed: not what cb_remove reads behind  *)
(* the array (code_block.c 86), nor a token that is freed twice.           *)
GarbageFromFailure ==
    ~failed => /\ mode # "wild"
               /\ \A b \in Block : Live(b) => JUNK \notin Range(tokens[b])

(* When curly has found its end, that brace is the last token it got. *)
BraceIsLast ==
    mode = "curly" /\ depth = 0 /\ ~failed =>
        tokens[ret] # <<>> /\ heap[Last(tokens[ret])] = "}"

IInv == TypeOK /\ InBounds /\ OneHolder /\ GarbageFromFailure /\ BraceIsLast

(* Nothing is left behind by any function but the brace that closes a      *)
(* block of curly (globals.c 30), as long as no call stops half-way: not   *)
(* by the clean-up of tp_new and tp_copy, nor by blocks that grow, shrink, *)
(* are copied or run. *)
OnlyBracesLeak ==
    ~failed => \A t \in Left : heap[t] = "}"

(* The refinement mapping: a token is what it says. *)
Lists ==
    [o \in Block \cup Type |->
        IF o \in Block
        THEN IF Live(o) THEN Reading(tokens[o]) ELSE NONE
        ELSE IF names[o] # NONE THEN Reading(names[o]) ELSE NONE]

WL == INSTANCE WordLists WITH lists <- Lists, level <- Reading(level)

(* Blocks and types do what their headers promise, whatever array is       *)
(* shared, grown, moved and freed underneath. *)
Implements == WL!Spec

=============================================================================
