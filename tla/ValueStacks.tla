---------------------------- MODULE ValueStacks ----------------------------
(***************************************************************************)
(* What data_stack.h and object.h promise together, without nodes and      *)
(* without counters: every data stack is a sequence of objects of its own, *)
(* a copy is a snapshot that the original no longer influences, and an     *)
(* object stays alive for as long as a stack or a caller has it.           *)
(***************************************************************************)
EXTENDS Naturals, Sequences

CONSTANTS
    Obj,        \* object addresses; one may be reused once its object died
    Stack       \* the DataStack variables of the program

VARIABLES
    content,    \* content[s]: the values on stack s, its top first
    held,       \* held[o]: claims on o that are owned by callers
    alive       \* the objects that exist

vars == <<content, held, alive>>

OnStack(o) == \E s \in Stack : \E i \in DOMAIN content[s] : content[s][i] = o

Wanted(o) == held[o] > 0 \/ OnStack(o)

Init ==
    /\ content = [s \in Stack |-> <<>>]
    /\ held = [o \in Obj |-> 0]
    /\ alive = {}

(* An object is created, and its creator holds the only claim on it. *)
Make(o) ==
    /\ o \notin alive
    /\ alive' = alive \cup {o}
    /\ held' = [held EXCEPT ![o] = 1]
    /\ UNCHANGED content

Claim(o) ==
    /\ held[o] > 0
    /\ held' = [held EXCEPT ![o] = @ + 1]
    /\ UNCHANGED <<content, alive>>

(* The holder of the last claim may take the object with it. *)
Release(o) ==
    /\ held[o] > 0
    /\ held' = [held EXCEPT ![o] = @ - 1]
    /\ \/ alive' = alive
       \/ ~Wanted(o)' /\ alive' = alive \ {o}
    /\ UNCHANGED content

Push(s, o) ==
    /\ held[o] > 0
    /\ content' = [content EXCEPT ![s] = <<o>> \o @]
    /\ UNCHANGED <<held, alive>>

Pop(s) ==
    /\ content[s] # <<>>
    /\ held' = [held EXCEPT ![Head(content[s])] = @ + 1]
    /\ content' = [content EXCEPT ![s] = Tail(@)]
    /\ UNCHANGED alive

Copy(s, t) ==
    /\ content[t] = <<>>
    /\ content' = [content EXCEPT ![t] = content[s]]
    /\ UNCHANGED <<held, alive>>

Clear(s) ==
    /\ content' = [content EXCEPT ![s] = <<>>]
    /\ UNCHANGED <<held, alive>>

(* Whatever nobody wants any more may be reclaimed, at any later time. *)
Reap(o) ==
    /\ o \in alive
    /\ ~Wanted(o)
    /\ alive' = alive \ {o}
    /\ UNCHANGED <<content, held>>

Next ==
    \/ \E o \in Obj : Make(o) \/ Claim(o) \/ Release(o) \/ Reap(o)
    \/ \E s \in Stack, o \in Obj : Push(s, o)
    \/ \E s \in Stack : Pop(s) \/ Clear(s)
    \/ \E s, t \in Stack : Copy(s, t)

Spec == Init /\ [][Next]_vars

=============================================================================
