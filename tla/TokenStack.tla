----------------------------- MODULE TokenStack -----------------------------
(***************************************************************************)
(* token_stack.c: the stack of levels of tokens in front of the tokenizer, *)
(* and the log of changes that takes it back to a save point.              *)
(*                                                                         *)
(* tst_save_state only sets a flag.  From then on every change is logged,  *)
(* and tst_restore_state undoes the log, latest change first, with the     *)
(* same functions that made the changes.  The loops of tst_pop (it drops   *)
(* empty levels) and of tst_restore_state are taken turn by turn; mode     *)
(* says which one is running, and nothing else happens meanwhile.          *)
(*                                                                         *)
(* A call that fails and changes nothing is a stuttering step.             *)
(***************************************************************************)
EXTENDS Integers, Sequences, SequencesExt

CONSTANTS
    Token,          \* tokens
    Inputs,         \* the programs that may be read: sequences of tokens
    NoSave,         \* the value of base when nothing is saved
    MaxLevels,      \* bound: levels
    MaxTokens,      \* bound: pushed tokens
    MaxLog,         \* bound: changes in the log
    MallocMayFail   \* whether malloc is allowed to return NULL

Views == [levels : Seq(Seq(Token)), input : Seq(Token)]

ASSUME InputsAssumption == Inputs \subseteq Seq(Token)
ASSUME NoSaveAssumption == NoSave \notin Views

VARIABLES
    levels,     \* level_head: the tokens of every level, innermost first
    pulled,     \* ptknr.head: tokens taken from the tokenizer, not popped
    src,        \* ptknr.tknr: the tokens it has still to produce
    tracking,   \* tracking_changes
    log,        \* latest_change: the changes since the save, oldest first
    mode,       \* the loop that is running: "run" when there is none
    owned,      \* token texts allocated by or given to the stack, not freed
    base,       \* history: levels and input when they were saved
    snaps,      \* history: levels and input before each change of the log
    lost        \* history: whether a change was made and not logged

vars == <<levels, pulled, src, tracking, log, mode, owned, base, snaps, lost>>

Types == {"TSCN_TOKEN_PUSH", "TSCN_TOKEN_POP", "TSCN_TOKEN_NEXT",
          "TSCN_LEVEL_PUSH", "TSCN_LEVEL_POP"}

(* TS_ChangeNode: toks is data.popped or the list data.popped_head. *)
Change(type, toks) == [type |-> type, toks |-> toks]

View == [levels |-> levels, input |-> pulled \o src]

(* The number of tokens in a sequence of sequences, in the changes of some *)
(* types, and in all of them.                                              *)
Texts(ls) == Len(FlattenSeq(ls))
TextsOf(cs, types) ==
    Texts([i \in DOMAIN cs |-> IF cs[i].type \in types THEN cs[i].toks ELSE <<>>])
LogTexts(cs) == TextsOf(cs, Types)

(* tst_push_change, when its malloc succeeds *)
PushChange(c) ==
    IF tracking
    THEN log' = Append(log, c) /\ snaps' = Append(snaps, View)
    ELSE UNCHANGED <<log, snaps>>

LogHasRoom(n) == tracking => Len(log) + n <= MaxLog

OnHead(toks, ls) == <<toks \o Head(ls)>> \o Tail(ls)

-----------------------------------------------------------------------------

(* tst_new ignores the result of tst_push_level. *)
Init ==
    /\ levels = <<<<>>>> \/ (MallocMayFail /\ levels = <<>>)
    /\ pulled = <<>>
    /\ src \in Inputs
    /\ tracking = FALSE
    /\ log = <<>>
    /\ mode = "run"
    /\ owned = 0
    /\ base = NoSave
    /\ snaps = <<>>
    /\ lost = "no"

(* tst_push with a level to push on; the stack owns the token from now on. *)
Push(t) ==
    /\ mode = "run"
    /\ Texts(levels) < MaxTokens /\ LogHasRoom(1)
    /\ levels # <<>>
    /\ PushChange(Change("TSCN_TOKEN_PUSH", <<>>))
    /\ levels' = OnHead(<<t>>, levels)
    /\ owned' = owned + 1
    /\ UNCHANGED <<pulled, src, tracking, mode, base, lost>>

(* tst_push without one: it pushes a level first. *)
PushOnNoLevel(t) ==
    /\ mode = "run"
    /\ LogHasRoom(2)
    /\ levels = <<>>
    /\ IF tracking
       THEN /\ log' = Append(Append(log, Change("TSCN_LEVEL_PUSH", <<>>)),
                             Change("TSCN_TOKEN_PUSH", <<>>))
            /\ snaps' = Append(Append(snaps, View),
                               [View EXCEPT !.levels = <<<<>>>>])
       ELSE UNCHANGED <<log, snaps>>
    /\ levels' = <<<<t>>>>
    /\ owned' = owned + 1
    /\ UNCHANGED <<pulled, src, tracking, mode, base, lost>>

(* tst_push when the level could not be allocated and the node could: the  *)
(* failure is not looked at, and level_head->token_head goes through NULL. *)
PushThroughNull ==
    /\ MallocMayFail
    /\ mode = "run"
    /\ levels = <<>>
    /\ mode' = "crashed"
    /\ UNCHANGED <<levels, pulled, src, tracking, log, owned, base, snaps,
                   lost>>

(* tst_push_level, and tst_push when it fails after it made a level. *)
PushLevel ==
    /\ mode = "run"
    /\ Len(levels) < MaxLevels /\ LogHasRoom(1)
    /\ PushChange(Change("TSCN_LEVEL_PUSH", <<>>))
    /\ levels' = <<<<>>>> \o levels
    /\ UNCHANGED <<pulled, src, tracking, mode, owned, base, lost>>

(* tst_pop_level: the tokens go into the log, or are freed. *)
PopLevel ==
    /\ mode = "run"
    /\ LogHasRoom(1)
    /\ levels # <<>>
    /\ PushChange(Change("TSCN_LEVEL_POP", Head(levels)))
    /\ levels' = Tail(levels)
    /\ owned' = IF tracking THEN owned ELSE owned - Len(Head(levels))
    /\ UNCHANGED <<pulled, src, tracking, mode, base, lost>>

-----------------------------------------------------------------------------
(* tst_pop.  It runs for a caller, or for tst_restore_state undoing a push. *)

UndoingPush ==
    /\ mode = "restore"
    /\ log # <<>>
    /\ Last(log).type = "TSCN_TOKEN_PUSH"

Popping == mode = "pop" \/ UndoingPush

BeginPop ==
    /\ mode = "run"
    /\ LogHasRoom(Len(levels) + 1)
    /\ mode' = "pop"
    /\ UNCHANGED <<levels, pulled, src, tracking, log, owned, base, snaps,
                   lost>>

NextLevelEmpty == levels # <<>> /\ Head(levels) = <<>>

(* A turn of the loop: tst_pop_level on an empty level. *)
DropEmptyLevel ==
    /\ Popping
    /\ NextLevelEmpty
    /\ PushChange(Change("TSCN_LEVEL_POP", <<>>))
    /\ levels' = Tail(levels)
    /\ UNCHANGED <<pulled, src, tracking, mode, owned, base, lost>>

(* The same when the change cannot be logged: tst_pop_level fails and      *)
(* leaves the level, but the loop goes on and level_head is overwritten.   *)
DropEmptyLevelUnlogged ==
    /\ MallocMayFail
    /\ Popping
    /\ NextLevelEmpty
    /\ tracking
    /\ levels' = Tail(levels)
    /\ lost' = "yes"
    /\ UNCHANGED <<pulled, src, tracking, log, mode, owned, base, snaps>>

(* A defect for the mutant runs: the log keeps the caller's token, no copy. *)
HandOutShared(t, type, read) ==
    \/ /\ mode = "pop"
       /\ PushChange(Change(type, <<t>>))
       /\ owned' = owned + read - 1
       /\ mode' = "run"
       /\ UNCHANGED lost
    \/ /\ UndoingPush
       /\ log' = Front(log) /\ snaps' = Front(snaps)
       /\ owned' = owned + read - 1
       /\ UNCHANGED <<mode, lost>>

(* The end of tst_pop, once t is off its list.  read is 1 when the         *)
(* tokenizer allocated it just now.  A caller gets t and the log a copy;   *)
(* the undoing of a push frees t, and is through with its change.          *)
HandOut(t, type, read) ==
    \/ /\ mode = "pop"
       /\ PushChange(Change(type, <<t>>))
       /\ owned' = IF tracking THEN owned + read ELSE owned + read - 1
       /\ mode' = "run"
       /\ UNCHANGED lost
    \/ /\ UndoingPush
       /\ log' = Front(log) /\ snaps' = Front(snaps)
       /\ owned' = owned + read - 1
       /\ UNCHANGED <<mode, lost>>

(* The same end when the copy or the change could not be allocated: t is   *)
(* gone from its list, nobody frees it, and an error is returned.  Bound:  *)
(* only as the first loss, since every property is about what precedes it. *)
HandOutFails(read) ==
    /\ MallocMayFail
    /\ lost = "no"
    /\ mode = "pop" /\ tracking
    /\ owned' \in {owned + read, owned + read + 1}
    /\ mode' = "run"
    /\ lost' = "yes"
    /\ UNCHANGED <<log, snaps>>

Took(t, type, read) == HandOut(t, type, read) \/ HandOutFails(read)

PopPushed ==
    /\ Popping
    /\ levels # <<>> /\ Head(levels) # <<>>
    /\ levels' = <<Tail(Head(levels))>> \o Tail(levels)
    /\ Took(Head(Head(levels)), "TSCN_TOKEN_POP", 0)
    /\ UNCHANGED <<pulled, src, tracking, base>>

PopPulled ==
    /\ Popping
    /\ levels = <<>> /\ pulled # <<>>
    /\ pulled' = Tail(pulled)
    /\ Took(Head(pulled), "TSCN_TOKEN_NEXT", 0)
    /\ UNCHANGED <<levels, src, tracking, base>>

PopNext ==
    /\ Popping
    /\ levels = <<>> /\ pulled = <<>> /\ src # <<>>
    /\ src' = Tail(src)
    /\ Took(Head(src), "TSCN_TOKEN_NEXT", 1)
    /\ UNCHANGED <<levels, pulled, tracking, base>>

(* A defect for the mutant runs: tst_pop tries again at the end of input. *)
PopRetries ==
    /\ Popping
    /\ levels = <<>> /\ pulled = <<>>
    /\ UNCHANGED vars

(* tknr_next fails, at the end of the program or at a lexeme it cannot     *)
(* read.  To a caller both are TST_POP_EMPTY_FAIL; a restore stops.        *)
PopFails ==
    /\ Popping
    /\ levels = <<>> /\ pulled = <<>>
    /\ mode' = IF mode = "pop" THEN "run" ELSE "failed"
    /\ UNCHANGED <<levels, pulled, src, tracking, log, owned, base, snaps,
                   lost>>

(* A defect for the mutant runs: tst_peek does not keep the token. *)
PeekLoses ==
    /\ mode = "run"
    /\ Texts(levels) = 0
    /\ pulled = <<>> /\ src # <<>>
    /\ src' = Tail(src)
    /\ UNCHANGED <<levels, pulled, tracking, log, mode, owned, base, snaps,
                   lost>>

(* tst_peek, when it has to take a token from the tokenizer. *)
Peek ==
    /\ mode = "run"
    /\ Texts(levels) = 0
    /\ pulled = <<>> /\ src # <<>>
    /\ pulled' = <<Head(src)>>
    /\ src' = Tail(src)
    /\ owned' = owned + 1
    /\ UNCHANGED <<levels, tracking, log, mode, base, snaps, lost>>

-----------------------------------------------------------------------------

(* tst_save_state *)
Save ==
    /\ mode = "run"
    /\ tracking' = TRUE
    /\ base' = IF tracking THEN base ELSE View
    /\ UNCHANGED <<levels, pulled, src, log, mode, owned, snaps, lost>>

(* tst_discard_save: every payload of the log is freed. *)
Discard ==
    /\ mode = "run"
    /\ tracking
    /\ tracking' = FALSE
    /\ owned' = owned - LogTexts(log)
    /\ log' = <<>> /\ snaps' = <<>>
    /\ base' = NoSave
    /\ UNCHANGED <<levels, pulled, src, mode, lost>>

(* tst_restore_state, up to its loop. *)
BeginRestore ==
    /\ mode = "run"
    /\ tracking
    /\ tracking' = FALSE
    /\ mode' = "restore"
    /\ UNCHANGED <<levels, pulled, src, log, owned, base, snaps, lost>>

Undoing(type) == mode = "restore" /\ log # <<>> /\ Last(log).type = type

(* The change is dealt with and its node freed. *)
ChangeDone == log' = Front(log) /\ snaps' = Front(snaps)

(* tst_push; a TSCN_TOKEN_PUSH is undone by tst_pop above. *)
UndoTokenPop ==
    /\ Undoing("TSCN_TOKEN_POP")
    /\ levels' = IF levels = <<>> THEN <<Last(log).toks>>
                 ELSE OnHead(Last(log).toks, levels)
    /\ ChangeDone
    /\ UNCHANGED <<pulled, src, tracking, mode, owned, base, lost>>

(* A defect for the mutant runs: the token goes behind the others. *)
UndoNextBehind ==
    /\ Undoing("TSCN_TOKEN_NEXT")
    /\ pulled' = pulled \o Last(log).toks
    /\ ChangeDone
    /\ UNCHANGED <<levels, src, tracking, mode, owned, base, lost>>

UndoTokenNext ==
    /\ Undoing("TSCN_TOKEN_NEXT")
    /\ pulled' = Last(log).toks \o pulled
    /\ ChangeDone
    /\ UNCHANGED <<levels, src, tracking, mode, owned, base, lost>>

(* A defect for the mutant runs: no level is pushed for the tokens. *)
UndoLevelPopBare ==
    /\ Undoing("TSCN_LEVEL_POP")
    /\ levels' = Last(log).toks \o levels
    /\ ChangeDone
    /\ UNCHANGED <<pulled, src, tracking, mode, owned, base, lost>>

UndoLevelPop ==
    /\ Undoing("TSCN_LEVEL_POP")
    /\ levels' = <<Last(log).toks>> \o levels
    /\ ChangeDone
    /\ UNCHANGED <<pulled, src, tracking, mode, owned, base, lost>>

(* tst_pop_level, which frees the tokens: nothing is tracked any more. *)
UndoLevelPush ==
    /\ Undoing("TSCN_LEVEL_PUSH")
    /\ levels # <<>>
    /\ levels' = Tail(levels)
    /\ owned' = owned - Len(Head(levels))
    /\ ChangeDone
    /\ UNCHANGED <<pulled, src, tracking, mode, base, lost>>

(* The restore stops half-way: tst_pop_level finds no level, or malloc     *)
(* fails.  latest_change still points to the first change of the log.      *)
RestoreFails ==
    /\ \/ Undoing("TSCN_LEVEL_PUSH") /\ levels = <<>>
       \/ /\ MallocMayFail
          /\ Undoing("TSCN_TOKEN_POP") \/ Undoing("TSCN_LEVEL_POP")
    /\ mode' = "failed"
    /\ UNCHANGED <<levels, pulled, src, tracking, log, owned, base, snaps,
                   lost>>

(* malloc fails where its result is not looked at: for TSCN_TOKEN_NEXT,    *)
(* and for the level that tst_push makes.                                  *)
RestoreThroughNull ==
    /\ MallocMayFail
    /\ \/ Undoing("TSCN_TOKEN_NEXT")
       \/ Undoing("TSCN_TOKEN_POP") /\ levels = <<>>
    /\ mode' = "crashed"
    /\ UNCHANGED <<levels, pulled, src, tracking, log, owned, base, snaps,
                   lost>>

RestoreDone ==
    /\ mode = "restore"
    /\ log = <<>>
    /\ mode' = "run"
    /\ base' = NoSave
    /\ UNCHANGED <<levels, pulled, src, tracking, log, owned, snaps, lost>>

(* A defect for the mutant runs: the lists of dropped levels stay. *)
FreedPops == {"TSCN_TOKEN_POP"}

(* The changes whose tokens tst_free frees: not the TSCN_TOKEN_NEXT. *)
Freed == {"TSCN_LEVEL_POP", "TSCN_TOKEN_POP"}

(* tst_free.  After a restore that failed it walks over nodes that the     *)
(* restore has freed, which may end in any way.                            *)
Free ==
    /\ mode \in {"run", "failed"}
    /\ mode' = "freed" \/ (mode = "failed" /\ mode' = "crashed")
    /\ owned' = owned - Texts(levels) - Len(pulled) - TextsOf(log, Freed)
    /\ levels' = <<>> /\ pulled' = <<>> /\ log' = <<>> /\ snaps' = <<>>
    /\ tracking' = FALSE
    /\ base' = NoSave
    /\ UNCHANGED <<src, lost>>

Loop ==
    \/ DropEmptyLevel \/ DropEmptyLevelUnlogged
    \/ PopPushed \/ PopPulled \/ PopNext \/ PopFails
    \/ UndoTokenPop \/ UndoTokenNext \/ UndoLevelPop \/ UndoLevelPush
    \/ RestoreFails \/ RestoreThroughNull \/ RestoreDone

Next ==
    \/ \E t \in Token : Push(t) \/ PushOnNoLevel(t)
    \/ PushThroughNull \/ PushLevel \/ PopLevel \/ BeginPop \/ Peek
    \/ Save \/ Discard \/ BeginRestore \/ Free
    \/ Loop

Spec == Init /\ [][Next]_vars

(* The loops are sequential code: they run on. *)
FairSpec == Spec /\ WF_vars(Loop)

-----------------------------------------------------------------------------

Changes == [type : Types, toks : Seq(Token)]

(* The counter owned has no type of its own: TextsOwned says what it is. *)
TypeOK ==
    /\ levels \in Seq(Seq(Token))
    /\ pulled \in Seq(Token)
    /\ src \in Seq(Token)
    /\ tracking \in BOOLEAN
    /\ log \in Seq(Changes)
    /\ mode \in {"run", "pop", "restore", "failed", "freed", "crashed"}
    /\ base \in Views \cup {NoSave}
    /\ snaps \in Seq(Views)
    /\ lost \in {"no", "yes"}

(* Undoing the change c takes the view b to the view a. *)
Undoes(c, a, b) ==
    \/ /\ c.type = "TSCN_TOKEN_POP"
       /\ b.levels # <<>>
       /\ a.levels = OnHead(c.toks, b.levels) /\ a.input = b.input
    \/ /\ c.type = "TSCN_TOKEN_PUSH"
       /\ b.levels # <<>> /\ Head(b.levels) # <<>>
       /\ a.levels = <<Tail(Head(b.levels))>> \o Tail(b.levels)
       /\ a.input = b.input
    \/ /\ c.type = "TSCN_TOKEN_NEXT"
       /\ a.levels = b.levels /\ a.input = c.toks \o b.input
    \/ /\ c.type = "TSCN_LEVEL_POP"
       /\ a.levels = <<c.toks>> \o b.levels /\ a.input = b.input
    \/ /\ c.type = "TSCN_LEVEL_PUSH"
       /\ b.levels # <<>>
       /\ a.levels = Tail(b.levels) /\ a.input = b.input

(* The changes cs, made in the views vs, lead from the view first to v. *)
Chained(cs, vs, first, v) ==
    /\ Len(vs) = Len(cs)
    /\ first = IF cs = <<>> THEN v ELSE vs[1]
    /\ \A i \in DOMAIN cs :
          Undoes(cs[i], vs[i], IF i = Len(cs) THEN v ELSE vs[i + 1])

(* The log is a chain of undos from what the stack is now back to what it  *)
(* was when it was saved, in the middle of a restore as well.              *)
UndoChain ==
    lost = "no" /\ (tracking \/ mode = "restore") =>
        Chained(log, snaps, base, View)

(* There is a log only between a save and the end of its restore. *)
LogWhileSaved ==
    /\ Len(snaps) = Len(log)
    /\ tracking => mode \in {"run", "pop", "crashed"}
    /\ tracking \/ mode = "restore" => base \in Views
    /\ ~tracking /\ mode \in {"run", "pop", "freed"} =>
          log = <<>> /\ snaps = <<>>

(* Only a lack of memory loses a change, stops a restore half-way or       *)
(* breaks the stack: the functions that undo a change never fail on the    *)
(* state they meet.                                                        *)
UndoNeverFails ==
    lost # "no" \/ mode \in {"failed", "crashed"} => MallocMayFail

(* What was pushed is still on the stack: its change holds no tokens. *)
PushesAreBare ==
    \A i \in DOMAIN log :
        log[i].type \in {"TSCN_TOKEN_PUSH", "TSCN_LEVEL_PUSH"}
            => log[i].toks = <<>>

IInv ==
    /\ TypeOK
    /\ UndoChain
    /\ LogWhileSaved
    /\ UndoNeverFails
    /\ PushesAreBare

-----------------------------------------------------------------------------

(* A restore that ends gives back the levels and the input of the save     *)
(* point, whatever was pushed, popped, read and peeked at since.           *)
RestoreExact ==
    [][mode = "restore" /\ mode' = "run" /\ lost = "no" => View' = base]_vars

(* Every token text is in one place at a time: what the stack has to free  *)
(* is what its levels, the pushed-back input and the log hold.             *)
TextsOwned ==
    lost = "no" /\ mode \in {"run", "pop", "restore"} =>
        owned = Texts(levels) + Len(pulled) + LogTexts(log)

(* tst_free leaves nothing behind but the copies of the TSCN_TOKEN_NEXT    *)
(* changes of a save that was never restored or discarded.                 *)
FreeLeaves ==
    [][mode = "run" /\ mode' = "freed" /\ lost = "no" =>
          owned' = TextsOf(log, {"TSCN_TOKEN_NEXT"})]_vars

(* The loops end: every tst_pop and every tst_restore_state returns. *)
LoopsEnd == mode \in {"pop", "restore"} ~> mode \notin {"pop", "restore"}

(* The refinement mapping: a restore has its effect when it begins. *)
Saved == IF tracking THEN base ELSE NoSave
Now == IF mode = "restore" THEN base ELSE View

TS == INSTANCE TokenStream
          WITH levels <- Now.levels, input <- Now.input, saved <- Saved

(* token_stack.c implements TokenStream, the log is as good as a snapshot, *)
(* up to the first change that could not be logged: every call until then, *)
(* one that runs out of memory as well, does a step of TokenStream or      *)
(* nothing, unless it stops half-way through a restore or crashes.         *)
Implements ==
    /\ TS!Init
    /\ [][lost' = "no" /\ mode' \notin {"failed", "crashed"} => TS!Next
         ]_(TS!vars)

=============================================================================
