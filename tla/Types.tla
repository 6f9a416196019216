------------------------------- MODULE Types -------------------------------
(***************************************************************************)
(* type.c: a type is the list of the names of methods that an object has   *)
(* to have.  Its texts come from the same malloc as those of tokens.       *)
(***************************************************************************)
EXTENDS TextHeap

CONSTANTS
    Type,       \* the variables of type struct Type
    Name,       \* names of methods
    MaxNames    \* bound: names of a type

VARIABLE
    names       \* mthds; NONE for no type.  mthd_lens goes with them

NameLists == UNION {[1 .. n -> Name] : n \in 0 .. MaxNames}

(* tp_new, and tp_copy of a type with the names ws *)
tp_new(y, ws) ==
    /\ mode = "run"
    /\ names[y] = NONE
    /\ HasRoom(Len(ws))
    /\ heap' = Filled(heap, Fresh(Len(ws)), ws)
    /\ names' = [names EXCEPT ![y] = Fresh(Len(ws))]
    /\ UNCHANGED <<mode, failed>>

(* A name cannot be allocated: its entry is NULL, and what is freed first. *)
tp_newFails(y, ws) ==
    /\ MallocMayFail
    /\ mode = "run"
    /\ names[y] = NONE
    /\ \E n \in 0 .. Len(ws) - 1 :
          LET made == Filled(heap, Fresh(n), SubSeq(ws, 1, n))
              freed == CleanUp(Fresh(n), NULL)
          IN  /\ HasRoom(n)
              /\ heap' = Disposed(made, freed)
              /\ mode' = IF Sound(made, freed) THEN mode ELSE "wild"
    /\ UNCHANGED <<failed, names>>

tp_copy(x, y) ==
    /\ names[x] # NONE
    /\ tp_new(y, Reading(names[x])) \/ tp_newFails(y, Reading(names[x]))

tp_free(y) ==
    /\ mode = "run"
    /\ names[y] # NONE
    /\ heap' = Disposed(heap, names[y])
    /\ mode' = IF Sound(heap, names[y]) THEN mode ELSE "wild"
    /\ names' = [names EXCEPT ![y] = NONE]
    /\ UNCHANGED failed

TypeStep ==
    \E y \in Type :
        \/ \E ws \in NameLists : tp_new(y, ws) \/ tp_newFails(y, ws)
        \/ \E x \in Type : tp_copy(x, y)
        \/ tp_free(y)

=============================================================================
