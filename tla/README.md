# A TLA+ model of the concaten interpreter

concaten is an interpreter for a small concatenative language, written in C.
A program is read token by token; literals go on a *data stack*, words are
looked up as methods of the object on top of it and then in a *scope stack*,
and blocks of code are pushed back in front of the program on a *token stack*.
When a word has several definitions, each is tried in turn, and whatever a
definition did to the three stacks is taken back if it says that its arguments
do not match. Taking back is what half of this project is about: every stack
does it in a different way, and none of them can be tested in all the states in
which it may be asked for. The other half is about what the stacks stand on: the
tokenizer, the maps, the objects and the arrays of tokens.

The code is sequential. What makes it hard is not concurrency but reference
counts kept by hand, undo logs replayed by the functions that wrote them,
calls that fail half-way, buffers and arrays at their limits, and long
sequences of legal calls.

## Inventory

| part | files | state | operations | what makes it correct |
|---|---|---|---|---|
| data stack | `data_stack.c` | a chain of shared, immutable, counted nodes per stack | push, pop, peek, copy, free | counts equal pointers; copies are independent; everything is freed in the end |
| token stack | `token_stack.c` | levels of tokens, pushed-back input, the tokenizer, a change log | push, pop, peek, push/pop level, save, restore, discard, free | a restore is exact; no token text is lost or freed twice |
| scope stack | `scope_stack.c` | an array of method maps, its capacity, a change log | get, get_all, set, redefine, push/pop scope, save, restore, discard, free | the same; and the array is never overrun |
| interpreter | `main.c` (`parse`) | the three stacks, the current token, the candidates | the main loop | candidates leave no trace unless they succeed; words run in order; errors are reported |
| runnables | `runnable.c` | a C function, a block or an object to push | run, copy, compare, free | a block is pushed in the right order |
| global words | `stl/globals.c` | – | `{`, `*puts` | `{` finds its match |
| methods | `stl/*.c` | three method maps | arithmetic, `>string`, `puts` | take and leave the right objects |
| tokenizer | `tokenizer.c` | a buffer or a string, a position, a line and an index | next token | every token once, in order, at its place, with its type |
| string builder | `stringbuilder.c` | a growing buffer | new, append, into string | a string that ends inside its memory |
| literals | `tkn_value_func.c` | – | token to object | the value is what the text says |
| objects | `object.c` | a count, a literal or a property map | make, copy, set and get a property, claim, free | an object lives exactly as long as it can be reached; no cycles |
| property map | `prop_map.c` | buckets, counts of full buckets | set, get, remove, copy, free | a finite map that has a claim on each value |
| method map | `method_map.c` | the same, and a count | set, get, remove, rehash, claim, free | a finite map; values have one owner |
| code block | `code_block.c` | a growing array of tokens | append, prepend, insert, remove, set, copy, free | a list; every token in one place |
| types | `type.c` | an array of method names | new, copy, match, free | the same |
| start-up | `stl.c`, `ctno_ctors.c`, `main` | – | | |

Calls go downwards only: `parse` calls the three stacks, `tkn_value` and
`rn_run`; a C function that is run gets all three stacks and may do anything to
them; the token stack calls the tokenizer, the scope stack the method maps, the
data stack the object claims, runnables the code blocks, and objects and
property maps call each other. There are no callbacks other than the C
functions, and no shared state other than the counts and the chains.

## Modules

A component has two modules where its promise can be stated without its
mechanism: what it promises, and how the C code does it.

| module | models | abstract specification |
|---|---|---|
| `DataStack` | `data_stack.c` and the claims it makes of objects | `ValueStacks` |
| `TokenStack` | `token_stack.c` | `TokenStream` |
| `ScopeStack` | `scope_stack.c` | `ScopeStore` |
| `MethodMap` | `method_map.c` | `FiniteMap` |
| `PropMap`, `Objects` | `prop_map.c`, `object.c` | `PropertyGraph` |
| `TextHeap`, `CodeBlock`, `Types`, `Blocks` | `code_block.c`, `type.c`, `rn_run`, `curly` | `WordLists` |
| `Characters`, `CharSource`, `Tokenizer`, `Literals` | `tokenizer.c`, `stringbuilder.c`, `tkn_value_func.c` | `TokenGrammar`, a definition of the tokens of a text |
| `Interpreter` | `parse`, `rn_run`, `stl/` | composes `TokenStream` and `ScopeStore` |

`MC*` modules hold the bounds and the definitions that only the model checker
can evaluate. `Malloc` has the constants of memory that several components
share. `DataStackProofs`, `TokenStackProofs`, `ScopeStackProofs`,
`TextProofs`, `ObjectsProofs`, `MethodMapProofs` and `InterpreterProofs`
hold the proofs, and `SequenceLemmas` the facts about numbers and sequences that
several of them use. `TextProofs` is about the tokenizer and about the blocks
and types, since both are about texts.

**DataStack.** Nodes are cells with `next`, `value` and a count `rc`; a stack is
a `head`. `NewObject`, `Claim`, `Release`, `Push`, `Pop`, `Copy` and `Free` are
the functions; `PushNoMemory` and `PopClaimFail` are their failures, which keep
a claim. `dst_node_free` is a loop, each turn of it is a `FreeStep`, and nothing
else happens while it runs. `held` counts the claims that callers own, `lostN`
and `lostO` those that failed calls forgot; `path` records the chain below a
node when it was pushed. These four are history: the code has no such variables.

**TokenStack.** `levels`, `pulled`, `src`, `tracking` and `log` are the fields
of the C structures, lists being sequences. `tst_pop` and `tst_restore_state`
are loops and run turn by turn (`mode`); `tst_pop` also runs inside a restore,
to undo a push. `owned` counts token texts that the stack has to free. `base`
and `snaps` are history: the state at the save and before each logged change.
`lost` says that a change was not logged for lack of memory; after that a
restore is free to do anything.

**ScopeStack.** A scope is the function from names to runnables that its method
map represents. A runnable is a C function or a *block*, which owns memory:
`used` and `freed` follow the blocks. `base` is the state at the save; it is
`Void` once a change was made that the log does not have (a pushed scope, or
any change when memory ran out), and `Wrecked` once such a log was undone, in
the wrong scopes. What follows a use of freed memory or a write behind the
array is left open (`Crash` may happen, or not). That a map which grows frees
the blocks in it (see `MethodMap`) is left out here, so that what `OneOwner`
says holds for scopes that do not grow.

**MethodMap.** `buckets` are sequences of items, `width`, `pref`, `items` and
`refs` are the fields of the C structure, and `mm_hash` is a constant: any
function. `mm_set` is four actions, by what it finds: `SetOld`, `SetNew`,
`SetGrown`, `SetNoMemory`. A growth is one step: `mm_new`, `mm_raw_add` of all
items in order (`RawAdd`), `mm_free` of the old map and the exchange of the two.
`spoilt`, `drifted`, `claims`, `used` and `freed` are history. After a bucket has
overrun nothing is known of the map.

**PropMap and Objects.** `PropMap` has the functions of `prop_map.c` as
operators on a record of `buckets`, `bk_gr_pref` and `item_count`; `Objects` has
one for every object and for some maps without an object, as
`tests/prop_map.c` uses them. Callers may use what they hold, and what they can
reach from there, since `ctno_get_prop` claims nothing. `ctno_free` recurses
through `pm_free`; `todo` is its stack of calls that are still to be made, and
a `FreeStep` is one of them. `held`, `lost` and `wrecked` are history. All
callers make maps of eight buckets; a growth ends with `free(pm)`, which is not
a pointer that `malloc` gave, so that nothing is known of the map (`wrecked`),
and the run stops there. `PropertyGraph` has neither buckets nor counts: an
object exists while it can be reached.

**TextHeap, CodeBlock, Types, Blocks.** `TextHeap` is the memory of short
texts: the texts of tokens and the names of methods. `CodeBlock` has a block as
its entries and its capacity, and moves entries one at a time where the C code
does, so that an entry behind the array (`JUNK`) shows up if it is ever kept.
`Types` has the three constructors and destructors of `type.c`. `Blocks` puts
them to work: `Run` is `rn_run` on a block, which copies its tokens to a level
of the token stack, and `Curly...` is `curly` turn by turn. A token whose copy
failed is `JUNK` and stands for what `malloc` left there; following it makes
the program `wild`. A call that fails half-way sets `failed`. Everything that
owns texts is an entry of `Arrays`: the blocks, the types and the level of the
token stack; the texts in `hand` are the caller's.

**CharSource, Tokenizer.** `CharSource` is where characters come from: a string
and a pointer, or a file and a buffer with `eof` and a position, refilled by
`Refill`; `ReadFails` is a short read with an error. `Tokenizer` is `tknr_next`
one character per step. The scanners of strings, numbers, regexes,
identifiers and words are one relation between places in the code (`Moves`),
with the places at which the end of the text is asked for (`Guarded`) and those
at which it is forgotten; `Take` appends a character to the string builder and
skips it. Each error path frees, leaks or frees unset what the code does
(`Cleanup`, `leaked`, `wild`). `TokenGrammar` says what the tokens of a text
are, without a state: where white space and comments end, what the longest
literal at a place is, and which failure there is behind the last token.
`Literals` computes the value of a token as `tkn_value` does.

**Interpreter.** One token after the other: `TakeToken`, then `PushLiteral`, or
`RunMethod`, `LookUp` and, for each candidate, `TryCandidate`, the candidate's
own steps, and one of `Accept`, `RollBack`, `CandidateFails`. The candidates are
the two words of `init_globals` and, if the instance has any, *foreign* words: C
functions that are not in `stl/`, which may do any operation that the headers of
the stacks offer except saving and restoring. They push tokens of a set
`Pushed`, braces among them: the words of `stl/` themselves leave no brace on a
level, so that only behind a foreign word does `{` come from a level, or `curly`
read on from one level to the next and into the program. The stacks are the
abstract ones, so that this module rests on the refinements below. A program is
a sequence of tokens, one of which stands for text the tokenizer rejects. Memory
does not run out in this module.

## What is checked

Every run finishes within three minutes. A *mutant* is a version of the model
with a plausible defect in it, defined next to the original ("A defect for the
mutant runs", or "wrong"); each property of a passing run is violated by at
least one.

| run | question | bounds |
|---|---|---|
| `data_stacks` | Are counts exact, is nothing dangling or leaked, are stacks independent sequences? What do failed calls leave behind? | 3 nodes, 2 objects, 2 stacks, 2 claims per caller, counts up to 3 |
| `map_table` | Is the table a finite map, through collisions and growth? Who owns what is in it? | 4 names, 3 runnables, buckets 2 deep (1 preferred), 2 to 8 of them, 2 owners |
| `token_log` | Is the log as good as a snapshot, and until when, if malloc fails? Who owns the texts? Do the loops end? | 2 texts, 3 levels, 2 pushed tokens, 4 changes |
| `scope_log` | Is the log as good as a snapshot, and until when? Is the array large enough? Has every block one owner? | 1 name, 1 function, 2 blocks, 3 scopes, 3 changes, initial capacity 1 |
| `parse_words` | Are words run in order, does `{` find its match in the program and on levels, does `parse` end? Does a candidate that mismatches leave a trace? | all programs of up to 4 tokens over 13 kinds of token; of up to 2 tokens with a foreign function of up to 5 operations, which pushes `puts`, `{` and `}` |
| `tokenizer_texts` | Are the tokens those of the text, with their places and values? Does the memory of a token suffice? Does reading end? | texts of up to 5 characters over the characters that matter to each scanner, and words of up to 9; buffers of 2 characters, builders of 2 to 8, integrals of 8 bits |
| `object_graph` | Do objects exist as long as they can be reached? Are there no cycles? | 3 objects, a map, 3 names of which 2 collide, 2 buckets of 2, counts up to 2, 4 properties in all |
| `blocks_lists` | Are blocks and types lists? Has every token one place? What leaks, and what becomes of a failed copy? | 2 blocks, 2 types, 4 texts at a time, capacity 1 growing to 4 and failing there, one failure |

The bounds let every interesting case happen: three nodes are two stacks sharing
a tail with a private node each, or one shared chain of three; three levels are
needed for a pop that drops two empty ones; a log of four changes holds a pop
across a dropped level, a read and a push; capacity 1 makes the array of scopes
grow twice. One name is enough for the scopes, since no operation but the pop of
a scope touches two, and that moves the scope as a whole. The names of the
method map hash to 0, 4, 8 and 1: three of them fill a bucket of two, twice the
width does not part them, and four times the width parts one, so that there is a
growth that helps and one that ends in an overrun. A buffer of two characters
with texts of up to five gives texts that end before, with and behind a buffer,
and up to two refills; a builder of two characters doubles twice, and overflows
(`SizeMax`) at the eighth character of a word. Five operations of a foreign
function are enough for two levels with tokens on both and a brace to begin
with, whose match is on the second level or in the program. A number of five
characters has room for a sign, a base and two digits, or a point and an
exponent. Three objects make a chain, a value shared by two, and the longest
cycle that `check_for_cycles` could overlook; a count that ends at two lets
`ctno_copy` fail at its second value. The heap of four texts holds a full block,
its copy and what curly leaves.

Counters are bounded by guards (`MaxHeld`, `MaxLevels`, `MaxTokens`, `MaxLog`,
`MaxLayers`, `MaxOps`, `MaxLength`, `MaxForeign`, `MaxWidth`, `MaxClaims`,
`MaxPref`, `MaxItems`, `MaxTexts`, `MaxSource`, `MaxHand`, `MaxNames`,
`MaxPushed`, `MaxLeft`, and the lengths of texts), which are named in the
modules. `scope_log` does not go on from states in which a wrong log was undone
(`NotBeyondWreck`), of which nothing is claimed. Symmetry is used where only
safety is checked. `CHECK_DEADLOCK FALSE` is set where the system stops: when a
stack is freed, when a text is read, or when the program has followed a wrong
pointer. The initial capacities are 8 and 16 in the code; nothing depends on
them but when an array grows.

Fairness. The interpreter is one thread, so a loop that has begun goes on: weak
fairness of `FreeStep`, of the loops of the token stack, of the tokenizer, whose
caller asks until a call fails, and of `parse` itself. No fairness is assumed of
other callers or of anything that may fail.

### Disagreements between the code and what is said of it

Four runs end in a violation, and show how. In short:

| run | the code | says otherwise |
|---|---|---|
| `scope_kept` | `sst_push_scope` is not logged, so a restore does not take it back (`scope_stack.c:175`) | `scope_stack.c:72`, `tests/scope_stack.c:52-58` |
| `scope_alive` | a runnable that was replaced after a save is freed, and a restore brings it back (`scope_stack.c:148`) | `tests/scope_stack.c:52-58` |
| `parse_mismatch` | the error of the last candidate is overwritten by the restores (`main.c:97`) | `main.c:134-138` |
| `tokenizer_escapes` | the character behind an escape is taken without a look at it, so that a string that ends with an escape does not end (`tokenizer.c:359`); a regex has the same loop (`tokenizer.c:493-526`) | `tests/tkn_value_func.c:26` |

More are in the models, as the actions named here, and have no run of their own.

- Maps. A method map that grows frees the blocks it keeps, and forgets its other
  owners (`Exchange`, `method_map.c:205`), may write behind a bucket
  (`SetGrown`, `method_map.c:90`), and grows early after removals, which do not
  lower `bk_gr_pref` (`RemoveKey`, `method_map.c:140`; `prop_map.h:13` says when
  it should). A property map that grows frees a pointer into an object
  (`prop_map.c:212`) and has buckets that nobody cleared (`prop_map.c:59`).
  `prop_map.h:37` promises `true` for a removal; `NO_ERROR` is zero.
- Stacks. `tst_pop` drops a level although the change could not be logged, and
  returns no error (`DropEmptyLevelUnlogged`, `token_stack.c:79`);
  `sst_redefine` returns `NO_ERROR` when its change could not be logged
  (`RedefineUnlogged`, `scope_stack.c:209`); text that the tokenizer rejects ends
  the program with success (`Finish`, `token_stack.c:94`; `CODE_STYLE.md:3` wants
  errors reported); a word that meets an object without methods, which
  `method_map.c:57` wants to fail, stops the program by a null pointer
  (`RunMethod`, `main.c:45`).
- Objects. The copy of a literal has no type (`CopyLiteral`, `object.c:52`); a
  copy that cannot claim a value keeps the claims it made (`CopyFails`,
  `object.c:62`); `ctno_dynamic` claims nothing that it copies (`object.c:30`).
- Blocks. `cb_copy` does not look at what `tkn_copy` returns (`code_block.c:21`),
  and the clean-up of `cb_from_tkns` frees a token that was never made
  (`code_block.c:36`). `curly` does not look at what `cb_append` returns, loses
  the closing brace, reads the token before the first for `{ }`, leaves its
  block behind when the program ends inside it, and frees the tokens of the
  object that it pushes (`stl/globals.c:15`, `30`, `35`, `27`, `41`). The
  read behind the array in `cb_remove` (`code_block.c:86`) does no harm: what it
  reads is never kept.
- Tokenizer. Behind a `0` any character is taken (`tokenizer.c:419`), at the end
  of a file the one that the buffer has there; the end of a file is looked at
  as a character in several places, so that a file should end with white space
  (`ReadsRight` assumes it). A comment that ends the text right behind a token
  is an error of separation (`SkipFails`), a read error while white space is
  skipped is forgotten (`skip_ws`). `get_string` forgets the origin when it has
  no builder, and three other paths free a builder that was never set
  (`BeginFails`, `NegativeFails`, `CleanupUnset`).
- Literals. `-05` is rejected and `05` is not, because the sign is counted
  (`tkn_value_func.c:180`); a token that has no value is not consumed, as
  `object.h:69` says it would be, and a string's `raw` has moved
  (`tkn_value_func.c:158`).

## What is proved

The proofs are checked for every value of the constants that satisfies the
assumptions in the modules: finite sets of nodes, stacks, names of scopes,
objects and maps, as there are finitely many addresses; a null pointer that is
neither a node nor an object; C functions that are not blocks; programs that are
sequences of tokens; a value for "nothing saved" that is not a state; texts
without the zero byte; hashes that are natural numbers, preferred depths of
buckets that are at most the largest; braces among the tokens, and blocks that
are not types; and buffers, builders, lists and tables that are not empty.

The provers cannot use an induction theorem that takes an operator. Where a
proof needs induction it is stated of sets and functions: `LeastNumber` (a set
of natural numbers that is not empty has a least one), `UpwardInduction`, and
`RecursionExists`, from which `SequenceLemmas` derives what the folds of the
community modules compute: the concatenation of a sequence of sequences, and how
often something occurs in it.

**Data stack.** `CountsExact`: `Spec => []IInv`. Exactness of the counts is not
inductive alone. When `dst_node_free` frees a node, the claim it had on the next
one passes to the cursor, so the cursor has to be counted; a failed `dst_pop`
leaves a count that no pointer explains, hence `lostN`; and a new node must not
be one that something still points to, hence `CellsMatchCounts`. The conjuncts
`PathsHold` and `PathsLive` say that the chain below a live node is what it was
when the node was pushed. `NothingDangles` follows: a pointer is counted, so
what it points to has a count above zero. `Refinement` is the step-by-step
simulation of `ValueStacks`; it needs the paths, because a stack's contents are
read through them. `StacksAreIndependent` reads from the same steps what each
call may do to the contents of all stacks, the calls that fail included.

**Token stack.** `LogIsSound`: `Spec => []IInv`. The invariant `UndoChain` says
that undoing the logged changes, last one first, leads from the present state
through the recorded ones to the one that was saved, and it holds in the middle
of a restore too. It is inductive together with `LogWhileSaved` (a log exists
only between a save and the end of its restore) and `UndoNeverFails`. From it
follow `RestoreIsExact`, and `LogIsASnapshot`: the token stack implements
`TokenStream`, a restore taking effect when it begins, for as long as no change
was lost to a failing malloc. `LostStaysLost` is what makes that a statement
about steps. `EveryTextHasOneOwner` counts the texts: the tokens in a sequence
of levels are the length of its concatenation (`FlattenFirst`, `FlattenLast`), a
step moves them between a level, the pulled tokens and the log, and
`PushesAreBare`, a conjunct of `IInv`, says that the undoing of a push drops no
text together with its change. `FreeLeavesTheCopies` splits the log by the types
of its changes (`TextsSplit`): what `tst_free` passes over are just the copies
of the tokens that were read.

**Scope stack.** `LogLeadsBack`: `Spec => []IInv`. Here too undoing the log leads
back to the save, but an undone change calls the function that made it, and
`sst_redefine` searches for the scope to change. That the search finds the scope
it found when the change was made is what the invariant says of every recorded
state; it is lost when a scope was pushed or popped behind the log's back, and
then `base` is `Void`. `BlocksHaveOneOwner` and `LogLeadsBack` need each other:
who frees a block that was replaced depends on whether the change was logged,
and the owners of a block are counted in the recorded states as well.
`RestoreGivesBack` and `StackImplementsStore` follow, by the cases of a step.

**Objects.** `CountsAreExact`: `Spec => []IInv`, that a count is the number of
claims of callers, of properties, of calls of `ctno_free` still to come and of
those that a failed copy forgot. It is inductive together with the shape of the
maps (`WellFormed`: one item for a key, in the bucket of its hash, the counts
those of the buckets), which the lemmas `ReplacedMap`, `AddedMap`, `RemovedMap`
and `CopiedMap` show of the functions of `prop_map.c`. `HeldObjectsExist`
follows, in the middle of a free too. `NeverCyclic` says that `check_for_cycles`
suffices: an edge to something that does not lead back closes no cycle
(`EdgeAdded`), neither does a copy, to which nothing leads yet (`NodeAdded`).
With both, `NothingLeaks`: take an object that exists, cannot be reached, and
from which most can be reached; it has a count, so that something that exists
leads to it and cannot be reached either, and more can be reached from that,
for there is no cycle. `ObjectsImplementGraph` is the refinement of
`PropertyGraph`: the last `FreeStep` of an object is a `Reap`, as nothing leads
to an object whose only claim is the call that frees it, and a map that grows has
`SafeCount` properties or more (`CrowdedHasMany`).

**Method map.** `TableIsSound`: `Spec => []IInv`. What a table holds is said by
counting: `Marks(bs, X)` are the places of the items in a set `X`, and each
operation changes their number for every `X` at once (`ReplacedSound`,
`PlacedSound`, `RemovedSound`; `RehashedSound` says that a table built anew has
as many of everything). That no name is there twice, what a search finds
(`GetMeans`) and who owns a block are counts of such sets, so one invariant over
all `X` carries through the order in which `mm_rehash` moves the items. `Owned`
strengthens the invariant: a map in use counts at least one owner and no more
than it has, without which a free could take `refcount` below zero.
`DoublingIsEnough` needs the arithmetic of it, `(h % 2w) % w = h % w`: the items
of a bucket of the doubled table were in one bucket before. `OwnedOnce` follows
a value in and another out of the table (`OursAfter`). `TableImplementsMap` is
the refinement of `FiniteMap`: a growth and a change of owners are stuttering
steps, and a bucket that overruns holds `MaxDepth` items, whose names differ, so
that the map had `MaxDepth` names at least (`NamesCount`).

**Interpreter.** `ParseKeepsItsPlace`: `Spec => []IInv`, that the save points are
those of the candidate that runs, and that what `curly` has taken, with what is
ahead, is what was ahead when it began. `SavesEnd`, `MismatchTakenBack` and
`CurlyFindsItsMatch` follow: no save point outlives its candidate; a candidate
that mismatches leaves the stacks as the first one found them, whatever a
foreign function did; and the brace at which `curly` stops is the match of its
own, on whichever levels the tokens are. The last two are about any foreign
operations and any tokens that are pushed; without foreign words `levels` is
empty when `curly` begins, and what is left of `CurlyMatches` is the matching of
nested braces in the program.

**Tokenizer.** `TextIsRead`: `Spec => []ReadsText`. The invariant says where the
buffer is in the file: the characters from its start to `eof` are the stretch of
the text that ends at `filled`, and `eof` is less than the size of the buffer
only when everything was taken. A refill at the end of a buffer that finds
nothing is the case that needs it: then `eof` is zero, the position one, and the
tokenizer at the end. `NulHasRoom`: `Spec => []RoomForNul`, by the steps that
append, of which only a full builder grows; a dash is the only character that
a number's builder begins with (`OnlyADashIsMinus`).

**Code blocks and types.** `BlocksHold`: `Spec => []IInv`, `NothingIsLeft`:
`Spec => []OnlyBracesLeak`, and `BlocksImplement`, the refinement of `WordLists`,
are one induction, over `BlocksInv`: neither holds step by step without the
others. That nothing is left behind needs to know that a text which is freed is
in no other array (`OneHolder`); that curly leaves only braces needs
`BraceIsLast`, a conjunct of `IInv`: when the count is zero the last token that
was appended is the brace that made it so, or an append had failed; and that a
call is a step of `WordLists` needs all of it, since a list is read through the
texts and another's array could be under it. The argument is made once for all
functions: `Change` says that a step gives one owner another array of texts
which were its own, in hand or free, and does not touch what the others have
(`SingleStays`, `OthersStay`); `Kept`, that of what it had, every text is freed,
still there, or a brace (`BracesStay`). What is left for each function is which
array it makes: `ShiftedIs` says what a loop over entries that are moved one by
one computes, if no entry is written before it is read, and gives that
`cb_insert` inserts (`OpenedIs`), and that `cb_remove` removes although its last
move reads behind the array (`ClosedIs`); `NothingMade`, that the clean-ups free
each text that was made just once and put the heap back as it was; `PushedSays`,
what the level says after `rn_run`. `Fresh` is any injective choice of free
texts, so the proofs do not depend on which texts `malloc` returns. `WordLists`
cannot tell a copy from a list that is made anew (`Make` allows any list);
`CopyGood` shows that `cb_copy` is a `Copy`, word for word but for garbage.

Only model-checked: the liveness properties (`Reclaimed`, `LoopsEnd`, `Halts`,
`Ends`), which the prover cannot reach; `PathIsWalk` and `RunsInOrder`, which use
recursive operators; and `ReadsRight`, `ValuesRight` and `TokensAreText`, which
compare the tokens with the grammar and the numerals of `TokenGrammar` and
`Literals`: what the folds and searches of these compute for a text of any
length is an induction over the text.

## What is not modelled

`components` in `PROJECT.json` lists every part. Left out altogether are
`main`'s options, the text of messages, start-up and error codes, and the
functions that only compare (`ctno_eq`, `rn_eq`, `tkn_eq`, `tp_eq`,
`tp_matches`). Abstracted are hashes and the texts of names, the values of
numbers on the data stack and so the arithmetic of `stl/integral.c` and
`stl/real.c` (which types they take and leave is in `Interpreter`), the values
of reals, the payloads of objects, and the claims that objects have on method
maps (a count of its own, in `MethodMap`). Pushers, the third kind of runnable,
have no caller in the source.

## Plan

1. Done: the three stacks, the maps, objects, blocks, types and the tokenizer,
   with their abstract specifications, the interpreter on top of them, and
   proofs about each of them.
2. Left to be modelled: the arithmetic words on small words, with overflow,
   division and remainder, against the effects in `docs/stl/`.
3. Left to be proved: `TokensAreText`, for which `TokenGrammar` would have to
   say where a place of the text is by a property of the line breaks before it
   instead of a count.
