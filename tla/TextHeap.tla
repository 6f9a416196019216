------------------------------ MODULE TextHeap ------------------------------
(***************************************************************************)
(* The texts that code_block.c, runnable.c, globals.c and type.c allocate, *)
(* copy and free: the raw and origin of a token (tkn_copy, tkn_free) or    *)
(* the name of a method.  A text is numbered; which numbers are used makes *)
(* no difference.                                                          *)
(***************************************************************************)
EXTENDS Integers, Sequences, SequencesExt, Malloc

CONSTANTS
    Word,           \* what a text says
    NONE,           \* what is not there
    Garbage,        \* what an entry says that nobody has written
    MaxTexts        \* bound: texts that are allocated at the same time

ASSUME MaxTextsAssumption == MaxTexts \in Nat
ASSUME NoneAssumption ==
    /\ NONE \notin Word /\ Garbage \notin Word
    /\ NONE \notin Seq(Int) \cup Seq(Word \cup {Garbage})

VARIABLES
    heap,   \* what every allocated text says
    mode,   \* "run", "curly" in the loop of curly, "wild" once a pointer
            \* that was never set or is freed has been followed, and
            \* "misread" once curly has read behind its array
    failed  \* history: whether a call failed half-way and left it at that

Text == 1 .. MaxTexts

(* An entry of an array that nobody has written, and one that malloc has   *)
(* set to NULL. *)
JUNK == 0
NULL == -1

Cell == Text \cup {JUNK}

Allocated == {t \in Text : heap[t] # NONE}

(* Whether an allocation may fail whose failure is not made up for.        *)
(* Bound: only one, and no text is allocated after it; the properties are  *)
(* about what precedes it, and how far its garbage gets.                   *)
MayFail == MallocMayFail /\ ~failed

HasRoom(n) == n > 0 => ~failed /\ Cardinality(Text \ Allocated) >= n

(* The next n texts that malloc returns. *)
Fresh(n) == CHOOSE s \in [1 .. n -> Text \ Allocated] : IsInjective(s)

(* The heap h after the words ws have been written to the texts ids. *)
Filled(h, ids, ws) ==
    [t \in Text |->
        IF \E i \in DOMAIN ids : ids[i] = t
        THEN ws[CHOOSE i \in DOMAIN ids : ids[i] = t] ELSE h[t]]

(* The heap h after the entries s of an array have been freed, if that is  *)
(* sound: each is a text, and none is freed twice.  free(NULL) is nothing. *)
Disposed(h, s) ==
    [t \in Text |-> IF \E i \in DOMAIN s : s[i] = t THEN NONE ELSE h[t]]

Sound(h, s) ==
    \A i \in DOMAIN s :
        \/ s[i] = NULL
        \/ /\ s[i] \in Text /\ h[s[i]] # NONE
           /\ \A j \in 1 .. i - 1 : s[j] # s[i]

(* What the entries of an array say. *)
Reading(s) == [i \in DOMAIN s |-> IF s[i] = JUNK THEN Garbage ELSE heap[s[i]]]

(* A defect for the mutant runs: the first entry is left. *)
CleanUpShort(made, last) == Reverse(Tail(Append(made, last)))

(* What cb_from_tkns, tp_new and tp_copy free, in this order, when entry i *)
(* cannot be made: i down to 1, and 0.                                     *)
CleanUp(made, last) ==
    LET cells == Append(made, last)
    IN  Reverse(Tail(cells)) \o <<Head(cells)>>

=============================================================================
