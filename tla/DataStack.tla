----------------------------- MODULE DataStack -----------------------------
(***************************************************************************)
(* data_stack.c with the claims of object.c it depends on.                 *)
(*                                                                         *)
(* A data stack is a pointer to the first of a chain of DST_Nodes.  Nodes  *)
(* are immutable and shared: dst_copy copies the pointer only, dst_pop     *)
(* moves it, and a node lives until its reference count reaches zero.  The *)
(* count of a node is kept by hand in five functions, and so is the count  *)
(* of every object on a stack.                                             *)
(*                                                                         *)
(* dst_node_free is a loop over the chain.  Each turn of it is a step of   *)
(* its own (FreeStep), with the cursor `nd` in the variable pend; no other *)
(* operation starts while it runs, because the interpreter has one thread. *)
(* dst_pop and dst_free store the new head after that loop; here they      *)
(* store it before, which nothing can observe.                             *)
(***************************************************************************)
EXTENDS Naturals, Sequences, FiniteSets

CONSTANTS
    Node,           \* addresses malloc can return for a DST_Node
    Obj,            \* addresses of objects
    Stack,          \* the DataStack variables of the program
    NULL,           \* the null pointer
    RefMax,         \* SIZE_MAX, where ctno_claim gives up
    MaxHeld,        \* bound: claims that callers own on one object
    MallocMayFail   \* whether malloc is allowed to return NULL

ASSUME NodeAssumption == IsFiniteSet(Node) /\ NULL \notin Node
ASSUME ObjAssumption == NULL \notin Obj
ASSUME StackAssumption == IsFiniteSet(Stack)
ASSUME BoundAssumption == RefMax \in Nat \ {0} /\ MaxHeld \in Nat

VARIABLES
    head,       \* head[s]: DataStack.head of s
    next,       \* next[n]: DST_Node.next; NULL in a cell that is not in use
    value,      \* value[n]: DST_Node.value; NULL in a cell that is not in use
    rc,         \* rc[n]: DST_Node.refcount; 0 in a cell that is not in use
    orc,        \* orc[o]: Object.refcount; 0 when the object does not exist
    pend,       \* the cursor of dst_node_free, NULL when it is not running
    held,       \* history: claims on an object that callers own
    lostN,      \* history: claims on a node that a failed call forgot
    lostO,      \* history: claims on an object that a failed call forgot
    path        \* history: a node and those after it, when it was pushed

vars == <<head, next, value, rc, orc, pend, held, lostN, lostO, path>>

Live == {n \in Node : rc[n] > 0}

Idle == pend = NULL

(* How many arguments the function f maps to v. *)
Count(f, v) == Cardinality({x \in DOMAIN f : f[x] = v})

(* 1 when a is v, 0 when it is not: the share of one pointer in a count. *)
Hit(a, v) == IF a = v THEN 1 ELSE 0

(* The nodes from n on, and what a stack holds: the values of the nodes    *)
(* that were there when its head was pushed.                               *)
PathAt(n) == IF n = NULL THEN <<>> ELSE path[n]
Values(q) == [i \in DOMAIN q |-> value[q[i]]]
Content == [s \in Stack |-> Values(PathAt(head[s]))]
Alive == {o \in Obj : orc[o] > 0}

(* ++n->refcount, of no effect when n is NULL. *)
NoClaim(n) == rc        \* a defect for the mutant runs: the ++ is forgotten
Claimed(n) == [m \in Node |-> IF m = n THEN rc[m] + 1 ELSE rc[m]]

-----------------------------------------------------------------------------

Init ==
    /\ head = [s \in Stack |-> NULL]
    /\ next = [n \in Node |-> NULL]
    /\ value = [n \in Node |-> NULL]
    /\ rc = [n \in Node |-> 0]
    /\ orc = [o \in Obj |-> 0]
    /\ pend = NULL
    /\ held = [o \in Obj |-> 0]
    /\ lostN = [n \in Node |-> 0]
    /\ lostO = [o \in Obj |-> 0]
    /\ path = [n \in Node |-> <<>>]

(* ctno_literal, ctno_dynamic: a new object, owned by the caller. *)
NewObject(o) ==
    /\ Idle
    /\ orc[o] = 0
    /\ MaxHeld > 0
    /\ orc' = [orc EXCEPT ![o] = 1]
    /\ held' = [held EXCEPT ![o] = 1]
    /\ UNCHANGED <<head, next, value, rc, pend, lostN, lostO, path>>

(* ctno_claim by a caller; at SIZE_MAX it fails and changes nothing. *)
Claim(o) ==
    /\ Idle
    /\ held[o] > 0 /\ held[o] < MaxHeld
    /\ orc[o] < RefMax
    /\ orc' = [orc EXCEPT ![o] = @ + 1]
    /\ held' = [held EXCEPT ![o] = @ + 1]
    /\ UNCHANGED <<head, next, value, rc, pend, lostN, lostO, path>>

(* ctno_free by a caller. *)
Release(o) ==
    /\ Idle
    /\ held[o] > 0
    /\ orc' = [orc EXCEPT ![o] = @ - 1]
    /\ held' = [held EXCEPT ![o] = @ - 1]
    /\ UNCHANGED <<head, next, value, rc, pend, lostN, lostO, path>>

(* A defect for the mutant runs: dst_push does not claim the object. *)
PushUnclaimed(s, o) ==
    /\ Idle
    /\ held[o] > 0
    /\ \E n \in Node \ Live :
          /\ next' = [next EXCEPT ![n] = head[s]]
          /\ value' = [value EXCEPT ![n] = o]
          /\ rc' = [rc EXCEPT ![n] = 1]
          /\ head' = [head EXCEPT ![s] = n]
          /\ path' = [path EXCEPT ![n] = <<n>> \o PathAt(head[s])]
    /\ UNCHANGED <<orc, pend, held, lostN, lostO>>

(* dst_push.  The new node takes over the claim the stack had on its head. *)
Push(s, o) ==
    /\ Idle
    /\ held[o] > 0
    /\ orc[o] < RefMax
    /\ \E n \in Node \ Live :
          /\ next' = [next EXCEPT ![n] = head[s]]
          /\ value' = [value EXCEPT ![n] = o]
          /\ rc' = [rc EXCEPT ![n] = 1]
          /\ head' = [head EXCEPT ![s] = n]
          /\ path' = [path EXCEPT ![n] = <<n>> \o PathAt(head[s])]
    /\ orc' = [orc EXCEPT ![o] = @ + 1]
    /\ UNCHANGED <<pend, held, lostN, lostO>>

(* dst_push when malloc fails: the claim on the object is not taken back. *)
PushNoMemory(s, o) ==
    /\ MallocMayFail
    /\ Idle
    /\ held[o] > 0
    /\ orc[o] < RefMax
    /\ orc' = [orc EXCEPT ![o] = @ + 1]
    /\ lostO' = [lostO EXCEPT ![o] = @ + 1]
    /\ UNCHANGED <<head, next, value, rc, pend, held, lostN, path>>

(* dst_pop: claim the next node, claim the value, free the old head. *)
Pop(s) ==
    /\ Idle
    /\ head[s] # NULL
    /\ LET h == head[s]
           o == value[h]
       IN  /\ orc[o] < RefMax
           /\ held[o] < MaxHeld
           /\ rc' = Claimed(next[h])
           /\ orc' = [orc EXCEPT ![o] = @ + 1]
           /\ held' = [held EXCEPT ![o] = @ + 1]
           /\ head' = [head EXCEPT ![s] = next[h]]
           /\ pend' = h
    /\ UNCHANGED <<next, value, lostN, lostO, path>>

(* A defect for the mutant runs: the head moves before the claim fails. *)
PopMovesFirst(s) ==
    /\ Idle
    /\ head[s] # NULL
    /\ LET nx == next[head[s]]
       IN  /\ orc[value[head[s]]] = RefMax
           /\ nx # NULL
           /\ rc[nx] < RefMax
           /\ rc' = Claimed(nx)
           /\ lostN' = [lostN EXCEPT ![nx] = @ + 1]
           /\ head' = [head EXCEPT ![s] = nx]
    /\ UNCHANGED <<next, value, orc, pend, held, lostO, path>>

(* dst_pop when the value cannot be claimed: the next node keeps a claim.  *)
(* The count of a node is a size_t too; RefMax bounds it here.             *)
PopClaimFail(s) ==
    /\ Idle
    /\ head[s] # NULL
    /\ LET h == head[s]
           nx == next[h]
       IN  /\ orc[value[h]] = RefMax
           /\ nx # NULL
           /\ rc[nx] < RefMax
           /\ rc' = Claimed(nx)
           /\ lostN' = [lostN EXCEPT ![nx] = @ + 1]
    /\ UNCHANGED <<head, next, value, orc, pend, held, lostO, path>>

(* dst_copy into a DataStack that owns nothing: both share the chain. *)
Copy(s, t) ==
    /\ Idle
    /\ head[t] = NULL
    /\ rc' = Claimed(head[s])
    /\ head' = [head EXCEPT ![t] = head[s]]
    /\ UNCHANGED <<next, value, orc, pend, held, lostN, lostO, path>>

(* dst_free *)
Free(s) ==
    /\ Idle
    /\ head[s] # NULL
    /\ pend' = head[s]
    /\ head' = [head EXCEPT ![s] = NULL]
    /\ UNCHANGED <<next, value, rc, orc, held, lostN, lostO, path>>

(* A defect for the mutant runs: only the first node is looked at. *)
FreeOnlyFirst ==
    /\ pend # NULL
    /\ rc[pend] = 1
    /\ rc' = [rc EXCEPT ![pend] = 0]
    /\ orc' = [orc EXCEPT ![value[pend]] = @ - 1]
    /\ pend' = NULL
    /\ next' = [next EXCEPT ![pend] = NULL]
    /\ value' = [value EXCEPT ![pend] = NULL]
    /\ UNCHANGED <<head, held, lostN, lostO, path>>

(* A turn of dst_node_free that frees its node and goes on to the next. *)
FreeNode ==
    /\ pend # NULL
    /\ rc[pend] = 1
    /\ rc' = [rc EXCEPT ![pend] = 0]
    /\ orc' = [orc EXCEPT ![value[pend]] = @ - 1]
    /\ pend' = next[pend]
    /\ next' = [next EXCEPT ![pend] = NULL]
    /\ value' = [value EXCEPT ![pend] = NULL]
    /\ UNCHANGED <<head, held, lostN, lostO, path>>

(* A defect for the mutant runs: the loop has no break. *)
FreeGoesOn ==
    /\ pend # NULL
    /\ rc[pend] # 1
    /\ rc' = [rc EXCEPT ![pend] = @ - 1]
    /\ pend' = next[pend]
    /\ UNCHANGED <<head, next, value, orc, held, lostN, lostO, path>>

(* The turn that meets a node somebody else still has. *)
FreeShared ==
    /\ pend # NULL
    /\ rc[pend] # 1
    /\ rc' = [rc EXCEPT ![pend] = @ - 1]
    /\ pend' = NULL
    /\ UNCHANGED <<head, next, value, orc, held, lostN, lostO, path>>

FreeStep == FreeNode \/ FreeShared

Next ==
    \/ \E o \in Obj : NewObject(o) \/ Claim(o) \/ Release(o)
    \/ \E s \in Stack, o \in Obj : Push(s, o) \/ PushNoMemory(s, o)
    \/ \E s \in Stack : Pop(s) \/ PopClaimFail(s) \/ Free(s)
    \/ \E s, t \in Stack : Copy(s, t)
    \/ FreeStep

Spec == Init /\ [][Next]_vars

(* The loop of dst_node_free is sequential code: it runs on. *)
FairSpec == Spec /\ WF_vars(FreeStep)

-----------------------------------------------------------------------------

TypeOK ==
    /\ head \in [Stack -> Node \cup {NULL}]
    /\ next \in [Node -> Node \cup {NULL}]
    /\ value \in [Node -> Obj \cup {NULL}]
    /\ rc \in [Node -> Nat]
    /\ orc \in [Obj -> Nat]
    /\ pend \in Node \cup {NULL}
    /\ held \in [Obj -> Nat]
    /\ lostN \in [Node -> Nat]
    /\ lostO \in [Obj -> Nat]
    /\ path \in [Node -> Seq(Node)]

(* The count of a node is the number of pointers to it: the heads of       *)
(* stacks, the next fields of other nodes, the cursor of dst_node_free,    *)
(* and whatever failed calls of dst_pop forgot (data_stack.c 6, 34, 50, 72) *)
NodeRefsExact ==
    \A n \in Node :
        rc[n] = Count(head, n) + Count(next, n)
                  + Hit(pend, n) + lostN[n]

(* The count of an object is the number of claims callers own, plus the    *)
(* nodes that hold it, plus what failed calls of dst_push forgot.          *)
ObjRefsExact ==
    \A o \in Obj : orc[o] = held[o] + Count(value, o) + lostO[o]

(* A cell is in use, with a value, exactly while it is counted. *)
CellsMatchCounts ==
    \A n \in Node : /\ rc[n] = 0 => next[n] = NULL /\ value[n] = NULL
                    /\ rc[n] > 0 => value[n] \in Obj

(* Chains are never relinked, however they are shared: the nodes from n on *)
(* are those that were there when n was pushed.                            *)
PathsHold ==
    \A n \in Live : path[n] = <<n>> \o PathAt(next[n])

(* All of them are still in use, each the next of the one before. *)
PathsLive ==
    \A n \in Live : \A i \in DOMAIN path[n] :
        /\ path[n][i] \in Live
        /\ i + 1 \in DOMAIN path[n] => next[path[n][i]] = path[n][i + 1]

(* No pointer dangles: a head, a next field or the cursor that is not NULL *)
(* points to a node in use, and what a node in use holds is alive, however *)
(* the stacks that share it were copied, popped and freed.                 *)
NoDangling ==
    /\ \A s \in Stack : head[s] # NULL => head[s] \in Live
    /\ \A n \in Live : next[n] # NULL => next[n] \in Live
    /\ pend # NULL => pend \in Live
    /\ \A n \in Live : value[n] \in Alive

IInv ==
    /\ TypeOK
    /\ NodeRefsExact
    /\ ObjRefsExact
    /\ CellsMatchCounts
    /\ PathsHold
    /\ PathsLive

-----------------------------------------------------------------------------

(* What a stack holds changes only in an operation on that very stack, and *)
(* then by one value at the top, all at once by dst_free, or by dst_copy   *)
(* into a stack that was empty.  In particular a call that fails after it  *)
(* claimed something leaves every stack with what it had.                  *)
StacksIndependent ==
    [][/\ \A s, t \in Stack :
             s # t => Content'[s] = Content[s] \/ Content'[t] = Content[t]
       /\ \A s \in Stack :
             \/ Content'[s] = Content[s]
             \/ Content'[s] = <<>>
             \/ Content[s] = <<>>
             \/ Content'[s] = Tail(Content[s])
             \/ Content[s] = Tail(Content'[s])
       /\ lostN' # lostN \/ lostO' # lostO => Content' = Content]_vars

(* Nobody but the nodes that dst_node_free is about to visit has o. *)
Unreachable(o) ==
    /\ held[o] = 0
    /\ \A s \in Stack : \A i \in DOMAIN Content[s] : Content[s][i] # o

(* A failed call has forgotten a claim on o, or on a node that holds it. *)
Forgotten(o) ==
    lostO[o] > 0 \/ \E n \in Live : \E i \in DOMAIN path[n] :
                        lostN[n] > 0 /\ value[path[n][i]] = o

(* An object that no caller holds and no stack contains is destroyed in    *)
(* the end, unless a failed call has forgotten a claim that keeps it: the  *)
(* loop of dst_node_free reaches every node that only the freed stack had. *)
Reclaimed ==
    \A o \in Obj : orc[o] > 0 /\ Unreachable(o) ~> orc[o] = 0 \/ Forgotten(o)

VS == INSTANCE ValueStacks
          WITH content <- Content, alive <- Alive

(* data_stack.c implements ValueStacks: independent sequences of live      *)
(* objects, whatever nodes they share.                                     *)
Implements == VS!Spec

=============================================================================
