----------------------------- MODULE ScopeStore -----------------------------
(***************************************************************************)
(* What scope_stack.c keeps of the promise of scope_stack.h, without a     *)
(* change log: a stack of scopes, the globals at the bottom, and a save    *)
(* point that can be gone back to in one step, or forgotten.  A scope that *)
(* is pushed while something is saved voids the save point, and so does a  *)
(* call that runs out of memory: nothing is known of the scopes once       *)
(* somebody goes back to it.                                               *)
(***************************************************************************)
EXTENDS Naturals, Sequences

CONSTANTS
    Key,        \* names
    Val,        \* runnables
    NONE,       \* what a scope has for a name that it does not define
    NoSave,     \* the value of saved when nothing is saved
    Void,       \* the value of saved when going back would wreck the scopes
    MallocMayFail   \* whether malloc is allowed to return NULL

VARIABLES
    layers,     \* the scopes, the globals first
    saved       \* the scopes that a restore brings back, NoSave or Void

vars == <<layers, saved>>

Layer == [Key -> Val \cup {NONE}]

Init == layers \in {<<m>> : m \in Layer} /\ saved = NoSave

Voided == saved' = IF saved = NoSave THEN NoSave ELSE Void

(* The save point after a call that may have run out of memory. *)
Recorded == UNCHANGED saved \/ (MallocMayFail /\ Voided)

(* The innermost scope defines k. *)
Set(k, v) ==
    /\ Recorded
    /\ layers' = [layers EXCEPT ![Len(layers)][k] = v]

(* Every scope that defines k defines it anew. *)
Redefine(k, v) ==
    /\ layers' = [i \in DOMAIN layers |->
                    IF layers[i][k] = NONE THEN layers[i]
                    ELSE [layers[i] EXCEPT ![k] = v]]
    /\ UNCHANGED saved

(* Out of memory, with only the scopes from n on redefined. *)
RedefineSome(k, v) ==
    /\ MallocMayFail
    /\ saved # NoSave
    /\ Voided
    /\ \E n \in DOMAIN layers :
          layers' = [i \in DOMAIN layers |->
                        IF layers[i][k] = NONE \/ i < n THEN layers[i]
                        ELSE [layers[i] EXCEPT ![k] = v]]

PushScope ==
    /\ Voided
    /\ layers' = Append(layers, [k \in Key |-> NONE])

(* Not the globals. *)
PopScope ==
    /\ Len(layers) > 1
    /\ Recorded
    /\ layers' = SubSeq(layers, 1, Len(layers) - 1)

(* Saving again while something is saved keeps the earlier save point. *)
Save ==
    /\ saved = NoSave
    /\ saved' = layers
    /\ UNCHANGED layers

Discard ==
    /\ saved' = NoSave
    /\ UNCHANGED layers

Restore ==
    /\ saved \notin {NoSave, Void}
    /\ layers' = saved
    /\ saved' = NoSave

(* Going back to a void save point, and whatever follows. *)
Wreck ==
    /\ saved = Void
    /\ layers' \in Seq(Layer)
    /\ UNCHANGED saved

(* The scopes are freed, all but the globals. *)
End ==
    /\ layers' = SubSeq(layers, 1, 1)
    /\ saved' = NoSave

Next ==
    \/ \E k \in Key, v \in Val : Set(k, v) \/ Redefine(k, v) \/ RedefineSome(k, v)
    \/ PushScope \/ PopScope \/ Save \/ Discard \/ Restore \/ Wreck \/ End

Spec == Init /\ [][Next]_vars

=============================================================================
