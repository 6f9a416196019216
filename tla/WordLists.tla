----------------------------- MODULE WordLists -----------------------------
(***************************************************************************)
(* What code_block.h and type.h promise, without memory: a code block is a *)
(* list of words, and so is a type.  And what rn_run promises of a block:  *)
(* its words come before all others on the token stack.                    *)
(*                                                                         *)
(* Only one thing is left of the memory: a copy of a block that was made   *)
(* when it ran out has garbage for some of its words.                      *)
(***************************************************************************)
EXTENDS Naturals, Sequences, SequencesExt

CONSTANTS
    Block,          \* code blocks
    Type,           \* types
    Word,           \* words
    NONE,           \* what is not there
    Garbage,        \* what a word is that could not be copied
    MallocMayFail   \* whether malloc is allowed to return NULL

VARIABLES
    lists,      \* what a block or a type says, or NONE
    level       \* the words that are pushed on the token stack

vars == <<lists, level>>

Owner == Block \cup Type

Init == lists = [o \in Owner |-> NONE] /\ level = <<>>

(* Nothing changes but the list of o. *)
Only(o) == lists' = [lists EXCEPT ![o] = lists'[o]]

(* A list of any words: of what, is the caller's choice. *)
Make(o) == lists[o] = NONE /\ lists'[o] \in Seq(Word)

Copy(o, p) ==
    /\ lists[o] = NONE /\ lists[p] # NONE
    /\ lists'[o] # NONE
    /\ DOMAIN lists'[o] = DOMAIN lists[p]
    /\ \A i \in DOMAIN lists[p] :
          \/ lists'[o][i] = lists[p][i]
          \/ MallocMayFail /\ p \in Block /\ lists'[o][i] = Garbage

Drop(o) == lists[o] # NONE /\ lists'[o] = NONE

(* The word w gets the place i, or replaces the one that has it. *)
Inserted(b, i, w) == lists'[b] = InsertAt(lists[b], i, w)
Replaced(b, i, w) == lists'[b] = ReplaceAt(lists[b], i, w)
Removed(b, i) == lists'[b] = RemoveAt(lists[b], i)

Edit(b) ==
    /\ lists[b] # NONE /\ lists'[b] # NONE
    /\ \/ \E i \in DOMAIN lists'[b], w \in Word : Inserted(b, i, w)
       \/ \E i \in DOMAIN lists[b] :
             Removed(b, i) \/ \E w \in Word : Replaced(b, i, w)

(* The words of a block, or the last of them if memory runs out. *)
Run(b) ==
    /\ lists[b] # NONE
    /\ \E n \in 1 .. Len(lists[b]) + 1 :
          /\ n = 1 \/ MallocMayFail
          /\ level' = SubSeq(lists[b], n, Len(lists[b])) \o level

(* The first word that was pushed is taken; it may go to a block. *)
Take ==
    /\ level # <<>>
    /\ level' = Tail(level)
    /\ \/ UNCHANGED lists
       \/ \E b \in Block :
             /\ Only(b)
             /\ lists[b] # NONE
             /\ lists'[b] = Append(lists[b], Head(level))

Next ==
    \/ /\ UNCHANGED level
       /\ \E o \in Owner :
             /\ Only(o)
             /\ \/ Make(o) \/ Drop(o) \/ \E p \in Owner : Copy(o, p)
                \/ o \in Block /\ Edit(o)
    \/ UNCHANGED lists /\ \E b \in Block : Run(b)
    \/ Take

Spec == Init /\ [][Next]_vars

=============================================================================
