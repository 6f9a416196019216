----------------------------- MODULE ScopeStack -----------------------------
(***************************************************************************)
(* scope_stack.c: the stack of method maps in which words are looked up,   *)
(* and the log of changes that takes it back to a save point.              *)
(*                                                                         *)
(* A scope is a method map, here the function of its contents; its buckets *)
(* are in MethodMap, and that a map which grows frees the blocks in it is  *)
(* left out.  A runnable is a C function, which nobody owns, or a block:   *)
(* it has memory of its own, and belongs to the map or the log that it is  *)
(* in (rn_free of RNT_CTN_CODE, RNT_CTN_PUSHER).                           *)
(*                                                                         *)
(* The loop of sst_restore_state is taken turn by turn, mode says when it  *)
(* runs.  A call that fails and changes nothing is a stuttering step.      *)
(***************************************************************************)
EXTENDS Integers, Sequences, FiniteSets, SequencesExt

CONSTANTS
    Key,            \* names
    CFun,           \* runnables that are C functions
    Block,          \* runnables that own memory
    NONE,           \* what a scope has for a name that it does not define
    NoSave,         \* the value of base when nothing is saved
    Void,           \* base when a change was not logged since the save
    Wrecked,        \* base once the stack was taken back all the same
    InitCap,        \* init_cap of sst_new
    MaxLayers,      \* bound: scopes that sst_push_scope makes
    MaxLog,         \* bound: changes in the log
    MallocMayFail   \* whether malloc is allowed to return NULL

Val == CFun \cup Block
Layer == [Key -> Val \cup {NONE}]

ASSUME CapAssumption == InitCap \in Nat \ {0}
ASSUME ValAssumption == CFun \cap Block = {}
ASSUME NoneAssumption == NONE \notin Val
ASSUME KeyAssumption == IsFiniteSet(Key)
ASSUME NoSaveAssumption ==
    /\ NoSave # Void /\ Void # Wrecked /\ Wrecked # NoSave
    /\ {NoSave, Void, Wrecked} \cap Seq(Layer) = {}

VARIABLES
    layers,     \* layers[0 .. count - 1], here from 1
    cap,        \* cap
    saving,     \* saving_state
    log,        \* change_head: the changes since the save, oldest first
    mode,       \* "restore" while the loop of sst_restore_state runs
    used,       \* blocks that were handed to the stack
    freed,      \* blocks that were freed
    base,       \* history: the scopes when they were saved, or why not
    snaps,      \* history: the scopes before each change of the log, unless
                \* the save point is void
    tainted     \* history: whether a block came to have two owners, or none

stacks == <<layers, cap>>
saves == <<saving, log, base, snaps>>
blocks == <<used, freed, tainted>>
vars == <<stacks, saves, blocks, mode>>

Popped(m) == [type |-> "SSCN_SCOPE_POP", layer |-> m]
Changed(k, v, i) == [type |-> "SSCN_SET", key |-> k, val |-> v, idx |-> i]
Added(k, i) == [type |-> "SSCN_ADD", key |-> k, idx |-> i]

Empty == [k \in Key |-> NONE]
Top == Len(layers)

(* A restore will bring back the scopes of the save point. *)
Exact == base \notin {Void, Wrecked}

(* sst_push_change, when its malloc succeeds, for a sequence of changes    *)
(* that were made in the states of the sequence before. *)
PushChanges(cs, before) ==
    IF saving
    THEN /\ log' = log \o cs
         /\ snaps' = IF Exact THEN snaps \o before ELSE snaps
    ELSE UNCHANGED <<log, snaps>>

(* A change was made and is not in the log. *)
Unlogged ==
    IF saving /\ Exact THEN base' = Void /\ snaps' = <<>>
    ELSE UNCHANGED <<base, snaps>>

(* base when nothing is saved any more. *)
Unsaved == IF base = Wrecked THEN Wrecked ELSE NoSave

LogHasRoom(n) == saving => Len(log) + n <= MaxLog

(* rn_free of every value of the function f. *)
Dispose(f) == freed' = freed \cup {b \in Block : \E p \in DOMAIN f : f[p] = b}

-----------------------------------------------------------------------------

(* sst_new, with any map of C functions for the globals *)
Init ==
    /\ layers \in {<<m>> : m \in [Key -> CFun \cup {NONE}]}
    /\ cap = InitCap
    /\ saving = FALSE
    /\ log = <<>>
    /\ mode = "run"
    /\ used = {} /\ freed = {}
    /\ base = NoSave
    /\ snaps = <<>>
    /\ tainted = FALSE

(* A value that a caller can hand over: a block only once. *)
Fresh(v) == v \in CFun \cup (Block \ used)

(* mm_set on the top scope frees the value it replaces, which then goes    *)
(* into the log all the same when something is saved.                      *)
Put(k, v) ==
    LET old == layers[Top][k]
    IN  /\ mode = "run"
        /\ Fresh(v)
        /\ layers' = [layers EXCEPT ![Top][k] = v]
        /\ used' = used \cup ({v} \cap Block)
        /\ Dispose(<<old>>)
        /\ tainted' = (tainted \/ (saving /\ old \in Block))

(* sst_set *)
Set(k, v) ==
    LET old == layers[Top][k]
    IN  /\ Put(k, v)
        /\ LogHasRoom(1)
        /\ PushChanges(<<IF old = NONE THEN Added(k, Top)
                         ELSE Changed(k, old, Top)>>, <<layers>>)
        /\ UNCHANGED <<cap, saving, base, mode>>

(* sst_set when the change cannot be logged: an error, after the map has   *)
(* been changed. *)
SetUnlogged(k, v) ==
    /\ MallocMayFail
    /\ saving
    /\ Put(k, v)
    /\ Unlogged
    /\ UNCHANGED <<cap, saving, log, mode>>

(* A defect for the mutant runs: the search ends at the first scope. *)
FirstHolder(k) ==
    SelectSeq([i \in DOMAIN layers |-> Top + 1 - i],
              LAMBDA i : /\ layers[i][k] # NONE
                         /\ \A j \in i + 1 .. Top : layers[j][k] = NONE)

(* The scopes that define k, innermost first. *)
Holders(k) ==
    LET below[i \in 0 .. Top] ==
            IF i = 0 THEN <<>>
            ELSE IF layers[i][k] = NONE THEN below[i - 1]
            ELSE <<i>> \o below[i - 1]
    IN  below[Top]

(* The scopes after the first n of them got v for k. *)
Redefined(k, v, n) ==
    LET done == {Holders(k)[j] : j \in 1 .. n}
    IN  [i \in DOMAIN layers |->
            IF i \in done THEN [layers[i] EXCEPT ![k] = v] ELSE layers[i]]

(* mm_set on the first n scopes that define k: they all get the one v. *)
PutInAll(k, v, n) ==
    LET old == [j \in 1 .. n |-> layers[Holders(k)[j]][k]]
    IN  /\ mode = "run"
        /\ Fresh(v)
        /\ n > 0
        /\ layers' = Redefined(k, v, n)
        /\ used' = used \cup ({v} \cap Block)
        /\ Dispose(old)
        /\ tainted' = \/ tainted
                      \/ v \in Block /\ n > 1
                      \/ saving /\ \E j \in 1 .. n : old[j] \in Block

(* The changes that sst_redefine logs for the first n of them. *)
Redefinitions(k, n) ==
    [j \in 1 .. n |-> Changed(k, layers[Holders(k)[j]][k], Holders(k)[j])]

(* sst_redefine.  It goes on after the innermost scope that defines k, to  *)
(* the bottom, and returns SST_REDF_NO_KEY_FAIL whatever it did.           *)
Redefine(k, v) ==
    LET n == Len(Holders(k))
    IN  /\ PutInAll(k, v, n)
        /\ LogHasRoom(n)
        /\ PushChanges(Redefinitions(k, n),
                       [j \in 1 .. n |-> Redefined(k, v, j - 1)])
        /\ UNCHANGED <<cap, saving, base, mode>>

(* sst_redefine when the n-th change cannot be logged: it returns NO_ERROR *)
(* there and then. *)
RedefineUnlogged(k, v) ==
    /\ MallocMayFail
    /\ saving
    /\ \E n \in 1 .. Len(Holders(k)) :
          /\ PutInAll(k, v, n)
          /\ LogHasRoom(n - 1)
          /\ log' = log \o Redefinitions(k, n - 1)
    /\ Unlogged
    /\ UNCHANGED <<cap, saving, mode>>

(* The cap after sst_push_scope made room for one more scope. *)
Grown == IF cap = Top THEN cap * 2 ELSE cap

(* sst_push_scope, which logs nothing. *)
PushScope ==
    /\ mode = "run"
    /\ Top < MaxLayers
    /\ cap' = Grown
    /\ layers' = Append(layers, Empty)
    /\ Unlogged
    /\ UNCHANGED <<saving, log, blocks, mode>>

(* sst_push_scope when mm_new fails, after the array has grown *)
PushScopeNoMemory ==
    /\ MallocMayFail
    /\ mode = "run"
    /\ Top < MaxLayers
    /\ cap' = Grown
    /\ UNCHANGED <<layers, saves, blocks, mode>>

(* A defect for the mutant runs: the scope is freed, saving or not. *)
PopScopeFrees ==
    /\ mode = "run"
    /\ Top > 1
    /\ LogHasRoom(1)
    /\ PushChanges(<<Popped(Last(layers))>>, <<layers>>)
    /\ layers' = Front(layers)
    /\ Dispose(Last(layers))
    /\ UNCHANGED <<cap, saving, base, used, tainted, mode>>

(* sst_pop_scope: the scope goes into the log, or is freed. *)
PopScope ==
    /\ mode = "run"
    /\ Top > 1
    /\ LogHasRoom(1)
    /\ PushChanges(<<Popped(Last(layers))>>, <<layers>>)
    /\ layers' = Front(layers)
    /\ IF saving THEN UNCHANGED freed ELSE Dispose(Last(layers))
    /\ UNCHANGED <<cap, saving, base, used, tainted, mode>>

(* sst_pop_scope when the scope cannot be logged: --count has been done,   *)
(* and nobody has the scope any more. *)
PopScopeLost ==
    /\ MallocMayFail
    /\ mode = "run"
    /\ saving
    /\ Top > 1
    /\ layers' = Front(layers)
    /\ tainted' = (tainted \/ \E k \in Key : Last(layers)[k] \in Block)
    /\ Unlogged
    /\ UNCHANGED <<cap, saving, log, used, freed, mode>>

-----------------------------------------------------------------------------

(* sst_save_state *)
Save ==
    /\ mode = "run"
    /\ saving' = TRUE
    /\ base' = IF saving \/ base = Wrecked THEN base ELSE layers
    /\ UNCHANGED <<stacks, log, snaps, blocks, mode>>

(* What the change c owns: the values of a scope, or one value. *)
Payload(c) ==
    IF c.type = "SSCN_SCOPE_POP" THEN c.layer
    ELSE IF c.type = "SSCN_SET" THEN [Empty EXCEPT ![c.key] = c.val]
    ELSE Empty

Payloads(cs) == [j \in DOMAIN cs |-> Payload(cs[j])]

(* The places of the block b in the maps ms. *)
Places(ms, b) == {p \in (DOMAIN ms) \X Key : ms[p[1]][p[2]] = b}

BlocksIn(ms) == {b \in Block : Places(ms, b) # {}}

(* rn_free and mm_free on the payloads of the log. *)
LogBlocks == BlocksIn(Payloads(log))

(* How many places in the scopes and in the log the block b has. *)
Owners(b) ==
    Cardinality(Places(layers, b)) + Cardinality(Places(Payloads(log), b))

(* sst_discard_save *)
Discard ==
    /\ mode = "run"
    /\ saving
    /\ saving' = FALSE
    /\ log' = <<>> /\ snaps' = <<>>
    /\ base' = Unsaved
    /\ freed' = freed \cup LogBlocks
    /\ UNCHANGED <<stacks, used, tainted, mode>>

(* sst_restore_state, up to its loop. *)
BeginRestore ==
    /\ mode = "run"
    /\ saving
    /\ saving' = FALSE
    /\ mode' = "restore"
    /\ base' = IF base = Void THEN Wrecked ELSE base
    /\ UNCHANGED <<stacks, log, snaps, blocks>>

Undoing(type) == mode = "restore" /\ log # <<>> /\ Last(log).type = type

(* The change is dealt with and its node freed. *)
ChangeDone ==
    /\ log' = Front(log)
    /\ snaps' = IF Exact THEN Front(snaps) ELSE snaps

(* layers[count++]; nobody asks whether cap allows it. *)
UndoScopePop ==
    /\ Undoing("SSCN_SCOPE_POP")
    /\ layers' = Append(layers, Last(log).layer)
    /\ ChangeDone
    /\ UNCHANGED <<cap, saving, base, blocks, mode>>

(* A defect for the mutant runs: the old value goes to the top scope. *)
UndoSetOnTop ==
    LET c == Last(log)
    IN  /\ Undoing("SSCN_SET")
        /\ c.idx <= Top
        /\ layers' = [layers EXCEPT ![Top][c.key] = c.val]
        /\ Dispose(<<layers[c.idx][c.key]>>)
        /\ ChangeDone
        /\ UNCHANGED <<cap, saving, base, used, tainted, mode>>

(* mm_set frees the new value. *)
UndoSet ==
    LET c == Last(log)
    IN  /\ Undoing("SSCN_SET")
        /\ c.idx <= Top
        /\ layers' = [layers EXCEPT ![c.idx][c.key] = c.val]
        /\ Dispose(<<layers[c.idx][c.key]>>)
        /\ ChangeDone
        /\ UNCHANGED <<cap, saving, base, used, tainted, mode>>

(* mm_remove frees the new value. *)
UndoAdd ==
    LET c == Last(log)
    IN  /\ Undoing("SSCN_ADD")
        /\ c.idx <= Top
        /\ layers[c.idx][c.key] # NONE
        /\ layers' = [layers EXCEPT ![c.idx][c.key] = NONE]
        /\ Dispose(<<layers[c.idx][c.key]>>)
        /\ ChangeDone
        /\ UNCHANGED <<cap, saving, base, used, tainted, mode>>

(* mm_remove does not find the name; the restore stops half-way. *)
UndoAddFails ==
    /\ Undoing("SSCN_ADD")
    /\ Last(log).idx <= Top
    /\ layers[Last(log).idx][Last(log).key] = NONE
    /\ mode' = "failed"
    /\ UNCHANGED <<stacks, saves, blocks>>

(* A scope that was popped and could not be logged is missing: the change  *)
(* is undone in the map that is left behind count, with what is in there.  *)
UndoInLost ==
    /\ Undoing("SSCN_SET") \/ Undoing("SSCN_ADD")
    /\ Last(log).idx > Top
    /\ freed' \in {freed} \cup {freed \cup {b} : b \in
                                   {b \in used \ freed : Owners(b) = 0}}
    /\ ChangeDone
    /\ UNCHANGED <<stacks, saving, base, used, tainted, mode>>

RestoreDone ==
    /\ mode = "restore"
    /\ log = <<>>
    /\ mode' = "run"
    /\ base' = Unsaved
    /\ UNCHANGED <<stacks, saving, log, snaps, blocks>>

(* sst_free, which leaves the globals.  After a restore that failed it     *)
(* walks over nodes that the restore has freed, which may end in any way.  *)
Free ==
    /\ mode \in {"run", "failed"}
    /\ mode' = "freed" \/ (mode = "failed" /\ mode' = "crashed")
    /\ freed' = freed \cup BlocksIn(Tail(layers)) \cup LogBlocks
    /\ layers' = SubSeq(layers, 1, 1)
    /\ saving' = FALSE
    /\ log' = <<>> /\ snaps' = <<>>
    /\ base' = Unsaved
    /\ UNCHANGED <<cap, used, tainted>>

(* Blocks that were freed and are still in a scope or in the log. *)
Dangling == freed \cap (LogBlocks \cup BlocksIn(layers))

(* Sooner or later somebody runs or frees such a block, or meets what was  *)
(* written behind the array of layers, and that may stop the program.      *)
Crash ==
    /\ mode \in {"run", "restore"}
    /\ Dangling # {} \/ Top > cap
    /\ mode' = "crashed"
    /\ UNCHANGED <<stacks, saves, blocks>>

Loop ==
    \/ UndoScopePop \/ UndoSet \/ UndoAdd \/ UndoAddFails \/ UndoInLost
    \/ RestoreDone

Next ==
    \/ \E k \in Key, v \in Val :
          \/ Set(k, v) \/ SetUnlogged(k, v)
          \/ Redefine(k, v) \/ RedefineUnlogged(k, v)
    \/ PushScope \/ PushScopeNoMemory \/ PopScope \/ PopScopeLost
    \/ Save \/ Discard \/ BeginRestore \/ Free \/ Crash
    \/ Loop

Spec == Init /\ [][Next]_vars

-----------------------------------------------------------------------------

Changes ==
    [type : {"SSCN_SCOPE_POP"}, layer : Layer]
        \cup [type : {"SSCN_SET"}, key : Key, val : Val, idx : Nat \ {0}]
        \cup [type : {"SSCN_ADD"}, key : Key, idx : Nat \ {0}]

TypeOK ==
    /\ layers \in Seq(Layer) /\ layers # <<>>
    /\ cap \in Nat
    /\ saving \in BOOLEAN
    /\ log \in Seq(Changes)
    /\ mode \in {"run", "restore", "failed", "freed", "crashed"}
    /\ used \in SUBSET Block /\ freed \in SUBSET used
    /\ base \in Seq(Layer) \cup {NoSave, Void, Wrecked}
    /\ snaps \in Seq(Seq(Layer))
    /\ tainted \in BOOLEAN

(* Undoing the change c takes the scopes b to the scopes a. *)
Undoes(c, a, b) ==
    \/ /\ c.type = "SSCN_SCOPE_POP"
       /\ a = Append(b, c.layer)
    \/ /\ c.type = "SSCN_SET"
       /\ c.idx \in DOMAIN b
       /\ a = [b EXCEPT ![c.idx][c.key] = c.val]
    \/ /\ c.type = "SSCN_ADD"
       /\ c.idx \in DOMAIN b
       /\ b[c.idx][c.key] # NONE
       /\ a = [b EXCEPT ![c.idx][c.key] = NONE]

(* The changes cs, made in the states vs, lead from the scopes first to b. *)
Chained(cs, vs, first, b) ==
    /\ Len(vs) = Len(cs)
    /\ first = IF cs = <<>> THEN b ELSE vs[1]
    /\ \A i \in DOMAIN cs :
          Undoes(cs[i], vs[i], IF i = Len(cs) THEN b ELSE vs[i + 1])

(* As long as every change is logged, the log is a chain of undos from what    *)
(* the scopes are now back to what they were when they were saved, in the  *)
(* middle of a restore as well (scope_stack.c 64-99, 148-169, 200-208).    *)
UndoChain ==
    Exact /\ (saving \/ mode = "restore") =>
        Chained(log, snaps, base, layers)

(* There is a log only between a save and the end of its restore, and a    *)
(* save point no longer than that; only a wrong log is not undone to the   *)
(* end. *)
LogWhileSaved ==
    /\ saving => mode \in {"run", "crashed"}
    /\ saving \/ mode = "restore" => base # NoSave
    /\ ~saving /\ mode \in {"run", "freed"} =>
          log = <<>> /\ snaps = <<>> /\ base \in {NoSave, Wrecked}
    /\ base = Void => saving
    /\ ~Exact => snaps = <<>>
    /\ mode = "failed" => base = Wrecked

(* The array of layers is large enough, also for the scopes that a restore *)
(* puts back without a look at cap (scope_stack.c 70).                     *)
InBounds ==
    base # Wrecked =>
        /\ Top <= cap
        /\ mode \in {"run", "restore"} =>
              \A j \in DOMAIN snaps : Len(snaps[j]) <= cap

(* The functions that undo a change find what they look for, unless a      *)
(* change was not logged after the save.                                   *)
UndoNeverFails ==
    mode \in {"failed", "crashed"} => base = Wrecked \/ tainted

(* Every block in a scope or in the log was handed over by a caller. *)
BlocksUsed == LogBlocks \cup BlocksIn(layers) \subseteq used

IInv ==
    /\ TypeOK /\ UndoChain /\ LogWhileSaved /\ InBounds /\ UndoNeverFails
    /\ BlocksUsed

-----------------------------------------------------------------------------

(* A restore that ends gives back the scopes of the save point, whatever   *)
(* was set, redefined and popped since, if all of that was logged: no      *)
(* scope was pushed and memory lasted.                                     *)
RestoreExact ==
    [][mode = "restore" /\ mode' = "run" /\ Exact => layers' = base]_vars

(* A block that was handed over has one owner until it is freed and none   *)
(* afterwards, through every restore, discard and sst_free: nothing leaks  *)
(* and nothing is freed twice, unless a block was replaced while something *)
(* was saved, given to several scopes by one sst_redefine, or in a scope   *)
(* that was popped and could not be logged.  A restore to a void save      *)
(* point is left out: it writes where it should not.                       *)
OneOwner ==
    ~tainted /\ base # Wrecked =>
        \A b \in Block : Owners(b) = IF b \in used \ freed THEN 1 ELSE 0

(* tests/scope_stack.c 44-58 saves, changes the scopes, restores and       *)
(* expects every value to be what it was when it was saved.                *)
RestoreKept ==
    [][mode = "restore" /\ mode' = "run" => layers' = base]_vars

(* The same lines run the values that came back through rn_eq: none of     *)
(* them has been freed in the meantime (scope_stack.c 148, 158).           *)
RestoredAlive ==
    [][mode = "restore" /\ mode' = "run" /\ Exact =>
          \A i \in DOMAIN layers', k \in Key : layers'[i][k] \notin freed']_vars

(* The refinement mapping: a restore has its effect when it begins, unless *)
(* its save point is void. *)
Saved == IF ~Exact THEN Void ELSE IF saving THEN base ELSE NoSave
Now == IF base \in Seq(Layer) /\ ~saving THEN base ELSE layers

SS == INSTANCE ScopeStore WITH layers <- Now, saved <- Saved

(* scope_stack.c implements ScopeStore, wherever malloc fails. *)
Implements == SS!Spec

=============================================================================
