---------------------------- MODULE TokenStream ----------------------------
(***************************************************************************)
(* What token_stack.h promises as long as no change is lost, without a     *)
(* change log: levels of pushed tokens in front of the input, and a save   *)
(* point that can be gone back to in one step, or forgotten.               *)
(***************************************************************************)
EXTENDS Naturals, Sequences

CONSTANTS
    Token,      \* tokens
    Inputs,     \* the programs that may be read: sequences of tokens
    NoSave      \* the value of saved when nothing is saved

VARIABLES
    levels,     \* the pushed tokens, the innermost level first
    input,      \* the tokens that nobody has taken from the program yet
    saved       \* what a restore brings back, or NoSave

vars == <<levels, input, saved>>

View == [levels |-> levels, input |-> input]

(* One level to start with, if there was memory for it. *)
Init ==
    /\ levels \in {<<<<>>>>, <<>>}
    /\ input \in Inputs
    /\ saved = NoSave

(* A token goes on the innermost level, which is made if there is none. *)
Push(t) ==
    /\ IF levels = <<>> THEN levels' = <<<<t>>>>
       ELSE levels' = <<<<t>> \o Head(levels)>> \o Tail(levels)
    /\ UNCHANGED <<input, saved>>

PushLevel ==
    /\ levels' = <<<<>>>> \o levels
    /\ UNCHANGED <<input, saved>>

(* A level goes, with what is left of it. *)
PopLevel ==
    /\ levels # <<>>
    /\ levels' = Tail(levels)
    /\ UNCHANGED <<input, saved>>

(* The next token comes from the innermost level ... *)
PopPushed ==
    /\ levels # <<>>
    /\ Head(levels) # <<>>
    /\ levels' = <<Tail(Head(levels))>> \o Tail(levels)
    /\ UNCHANGED <<input, saved>>

(* ... and from the program only when no level is left. *)
PopInput ==
    /\ levels = <<>>
    /\ input # <<>>
    /\ input' = Tail(input)
    /\ UNCHANGED <<levels, saved>>

(* Saving again while something is saved keeps the earlier save point. *)
Save ==
    /\ saved = NoSave
    /\ saved' = View
    /\ UNCHANGED <<levels, input>>

Discard ==
    /\ saved' = NoSave
    /\ UNCHANGED <<levels, input>>

Restore ==
    /\ saved # NoSave
    /\ levels' = saved.levels
    /\ input' = saved.input
    /\ saved' = NoSave

(* The end of the stack: what it held is gone. *)
End ==
    /\ levels' = <<>>
    /\ \E n \in 0..Len(input) : input' = SubSeq(input, n + 1, Len(input))
    /\ saved' = NoSave

Next ==
    \/ \E t \in Token : Push(t)
    \/ PushLevel \/ PopLevel \/ PopPushed \/ PopInput
    \/ Save \/ Discard \/ Restore \/ End

Spec == Init /\ [][Next]_vars

=============================================================================
