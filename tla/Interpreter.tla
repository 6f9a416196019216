---------------------------- MODULE Interpreter ----------------------------
(***************************************************************************)
(* parse of main.c: the loop that takes tokens, pushes literals and runs   *)
(* words, over the three stacks.  The token stack and the scope stack are  *)
(* the abstract ones of TokenStream and ScopeStore, which token_stack.c    *)
(* and scope_stack.c implement; the data stack and its copy dst_c are      *)
(* sequences, as ValueStacks has them.                                     *)
(*                                                                         *)
(* A word is run as a method of the top of the data stack, or else as one  *)
(* of its definitions in the scopes.  These are tried in turn, each under  *)
(* a save of all three stacks that is taken back when the candidate says   *)
(* ARGUMENT_MISMATCH_FAIL.  Memory does not run out here.                  *)
(*                                                                         *)
(* A literal token is named by its type and an object by its type.         *)
(***************************************************************************)
EXTENDS Integers, Sequences, FiniteSets, SequencesExt

CONSTANTS
    Programs,   \* the programs: sequences of tokens
    Foreign,    \* words whose runnable is a C function that is not in stl/
    Pushed,     \* the tokens that such functions push: braces among them
    MaxOps,     \* bound: stack operations of such functions in one program
    NONE, NoSave, Void

Literals == {"string", "integral", "real", "identifier", "regex", "misread"}
Words == {"puts", ">string", "*puts", "+", "-", "/", "{", "}"} \cup Foreign

(* "misread" is a number that tkn_value rejects, "lexfail" is text that    *)
(* the tokenizer rejects; "-" stands for "*" too, "/" for "mod".           *)
Token == Literals \cup Words \cup {"lexfail"}

ASSUME ProgramsAssumption == Programs \subseteq Seq(Token)
ASSUME PushedAssumption == Pushed \subseteq Token \ {"lexfail"}
ASSUME OpsAssumption == MaxOps \in Nat

VARIABLES
    levels,     \* tst: the pushed tokens
    input,      \* tst: what is left of the program
    tsaved,     \* tst: its save point
    layers,     \* sst: the scopes
    ssaved,     \* sst: its save point
    data,       \* dst: the types of the objects, top first
    copy,       \* dst_c, NoSave when there is none
    pc,         \* where parse is
    ctkn,       \* the token it is at
    cands,      \* candidates, from the one that is tried
    todo,       \* rn_run: the tokens of a block it has still to push
    block,      \* curly: the tokens it has taken
    result,     \* what the candidate returned
    ops,        \* the operations that foreign functions have done
    program,    \* history: what input was in the beginning
    opened,     \* history: the tokens ahead when curly began
    before,     \* history: the stacks when the first candidate was tried
    ran         \* history: the tokens the loop took, in their order

tst == <<levels, input, tsaved>>
sst == <<layers, ssaved>>
run == <<cands, todo, block, result, ops>>
history == <<program, opened, before, ran>>
vars == <<tst, sst, data, copy, pc, ctkn, run, history>>

Runnables == {"any_puts", "curly"} \cup Foreign

TS == INSTANCE TokenStream WITH Inputs <- Programs, saved <- tsaved

SS == INSTANCE ScopeStore
          WITH Key <- Words, Val <- Runnables, saved <- ssaved,
               MallocMayFail <- FALSE

(* init_globals, and the foreign functions *)
Globals ==
    [w \in Words |-> IF w = "*puts" THEN "any_puts"
                     ELSE IF w = "{" THEN "curly"
                     ELSE IF w \in Foreign THEN w ELSE NONE]

(* The block of the word "*puts". *)
AnyPuts == <<">string", "puts">>

(* Which words an object has as methods, if it has methods at all. *)
Methods == [string   |-> {"puts", ">string"},
            integral |-> {">string", "+", "-", "/"},
            real     |-> {">string", "+", "-", "/"}]

Objects == {"string", "integral", "real", "identifier", "codeBlock"}
Numbers == {"integral", "real"}

(* The tokens ahead, in the order in which they will be taken. *)
Ahead == FlattenSeq(levels) \o input

Stacks == [levels |-> levels, input |-> input, data |-> data,
           layers |-> layers]

-----------------------------------------------------------------------------

Init ==
    /\ levels = <<<<>>>> /\ input \in Programs /\ tsaved = NoSave
    /\ layers = <<Globals>> /\ ssaved = NoSave
    /\ data = <<>>
    /\ copy = NoSave
    /\ pc = "next"
    /\ ctkn = NONE
    /\ cands = <<>> /\ todo = <<>> /\ block = <<>> /\ result = NONE /\ ops = 0
    /\ program = input /\ opened = <<>> /\ before = NONE /\ ran = <<>>

(* A defect for the mutant runs: tst_pop turns around an empty level.      *)
DropNothing ==
    /\ pc \in {"next", "curly"}
    /\ levels # <<>> /\ Head(levels) = <<>>
    /\ UNCHANGED vars

(* A defect for the mutant runs: the levels below an empty one are lost.   *)
DropLevels ==
    /\ pc \in {"next", "curly"}
    /\ levels # <<>> /\ Head(levels) = <<>>
    /\ levels' = <<>>
    /\ UNCHANGED <<input, tsaved>>
    /\ UNCHANGED <<sst, data, copy, pc, ctkn, run, history>>

(* tst_pop drops the levels that are used up ... *)
DropLevel ==
    /\ pc \in {"next", "curly"}
    /\ levels # <<>> /\ Head(levels) = <<>>
    /\ TS!PopLevel
    /\ UNCHANGED <<sst, data, copy, pc, ctkn, run, history>>

(* ... and takes the token t. *)
Readable == input # <<>> /\ Head(input) # "lexfail"

Taking(t) ==
    \/ /\ levels # <<>> /\ Head(levels) # <<>>
       /\ t = Head(Head(levels))
       /\ TS!PopPushed
    \/ /\ levels = <<>> /\ Readable
       /\ t = Head(input)
       /\ TS!PopInput

(* ... or fails, at the end or at what the tokenizer rejects. *)
NoToken == levels = <<>> /\ ~Readable

TakeToken ==
    /\ pc = "next"
    /\ \E t \in Token :
          /\ Taking(t)
          /\ ctkn' = t
          /\ ran' = Append(ran, t)
          /\ pc' = IF t \in Words THEN "method" ELSE "literal"
    /\ UNCHANGED <<sst, data, copy, run, program, opened, before>>

(* The loop ends, and parse returns true. *)
Finish ==
    /\ pc = "next"
    /\ NoToken
    /\ pc' = "done"
    /\ UNCHANGED <<tst, sst, data, copy, ctkn, run, history>>

(* tkn_value, and the push of what it made *)
PushLiteral ==
    /\ pc = "literal"
    /\ IF ctkn \in Objects THEN data' = <<ctkn>> \o data /\ pc' = "next"
       ELSE UNCHANGED data /\ pc' = "failed"
    /\ UNCHANGED <<tst, sst, copy, ctkn, run, history>>

-----------------------------------------------------------------------------
(* Methods.  An outcome is what the function returns and the data stack it *)
(* leaves behind. *)

(* Sums, differences and products have the type of the wider operand.      *)
Sum(top, second, rest) ==
    {<<"ok", <<IF top = "integral" THEN second ELSE "real">> \o rest>>}

(* Quotients and remainders are real, and may find a zero. *)
Quotient(rest) == {<<"ok", <<"real">> \o rest>>, <<"error", rest>>}

(* real_add forgets to fail for a second that is no number, and pushes the *)
(* object it has not initialised: it may be of any type, or stop parse.    *)
Uninitialised(rest) ==
    {<<"ok", <<o>> \o rest>> : o \in Objects} \cup {<<"crash", rest>>}

(* "+", "-", "*", "/" and "mod" pop both numbers before they look at them. *)
Arithmetic(w, d) ==
    LET top == d[1]
        second == d[2]
        rest == Tail(Tail(d))
    IN  IF Len(d) = 1 THEN {<<"mismatch", <<>>>>}
        ELSE IF second \in Numbers
        THEN IF w = "/" THEN Quotient(rest) ELSE Sum(top, second, rest)
        ELSE IF w = "+" /\ top = "real" THEN Uninitialised(rest)
        ELSE {<<"mismatch", rest>>}

Outcomes(w, d) ==
    IF w = "puts" THEN {<<"ok", Tail(d)>>}
    ELSE IF w = ">string" THEN {<<"ok", <<"string">> \o Tail(d)>>}
    ELSE Arithmetic(w, d)

AfterMethod == [ok |-> "next", mismatch |-> "lookup", error |-> "failed",
                crash |-> "crashed"]

(* mm_is_key goes through top->methods, which may be NULL. *)
RunMethod ==
    /\ pc = "method"
    /\ IF data = <<>> THEN pc' = "lookup" /\ UNCHANGED data
       ELSE IF Head(data) \notin DOMAIN Methods
       THEN pc' = "crashed" /\ UNCHANGED data
       ELSE IF ctkn \notin Methods[Head(data)]
       THEN pc' = "lookup" /\ UNCHANGED data
       ELSE \E out \in Outcomes(ctkn, data) :
                pc' = AfterMethod[out[1]] /\ data' = out[2]
    /\ UNCHANGED <<tst, sst, copy, ctkn, run, history>>

-----------------------------------------------------------------------------
(* Candidates *)

(* sst_get_all: the definitions of k, innermost first.  found[n] are those *)
(* in the n outermost scopes. *)
GetAll(k) ==
    LET found[n \in 0 .. Len(layers)] ==
            IF n = 0 THEN <<>>
            ELSE IF layers[n][k] = NONE THEN found[n - 1]
            ELSE <<layers[n][k]>> \o found[n - 1]
    IN  found[Len(layers)]

(* A defect for the mutant runs: an unknown word is tried. *)
LookUpUnknown ==
    /\ pc = "lookup"
    /\ cands' = GetAll(ctkn)
    /\ pc' = "try" /\ before' = Stacks
    /\ UNCHANGED <<tst, sst, data, copy, ctkn, todo, block, result, ops,
                   program, opened, ran>>

LookUp ==
    /\ pc = "lookup"
    /\ cands' = GetAll(ctkn)
    /\ IF cands' = <<>> THEN pc' = "failed" /\ UNCHANGED before
       ELSE pc' = "try" /\ before' = Stacks
    /\ UNCHANGED <<tst, sst, data, copy, ctkn, todo, block, result, ops,
                   program, opened, ran>>

(* sst_save_state, tst_save_state, dst_copy, and the start of rn_run *)
TryCandidate ==
    /\ pc = "try"
    /\ TS!Save
    /\ SS!Save
    /\ copy' = data
    /\ pc' = IF Head(cands) = "any_puts" THEN "level"
             ELSE IF Head(cands) = "curly" THEN "curly" ELSE "foreign"
    /\ block' = <<>>
    /\ opened' = Ahead
    /\ UNCHANGED <<data, ctkn, cands, todo, result, ops, program, before, ran>>

(* rn_run of a block: a level of its own ... *)
RunBlock ==
    /\ pc = "level"
    /\ TS!PushLevel
    /\ todo' = AnyPuts
    /\ pc' = "push"
    /\ UNCHANGED <<sst, data, copy, ctkn, cands, block, result, ops, history>>

(* A defect for the mutant runs: the first token is pushed first. *)
PushFirstToken ==
    /\ pc = "push"
    /\ todo # <<>>
    /\ TS!Push(Head(todo))
    /\ todo' = Tail(todo)
    /\ UNCHANGED <<sst, data, copy, pc, ctkn, cands, block, result, ops,
                   history>>

(* ... and its tokens on it, the last one first. *)
PushBlockToken ==
    /\ pc = "push"
    /\ todo # <<>>
    /\ TS!Push(Last(todo))
    /\ todo' = Front(todo)
    /\ UNCHANGED <<sst, data, copy, pc, ctkn, cands, block, result, ops,
                   history>>

(* rn_run returns r. *)
Return(r) == pc' = "ran" /\ result' = r

BlockPushed ==
    /\ pc = "push"
    /\ todo = <<>>
    /\ Return("ok")
    /\ UNCHANGED <<tst, sst, data, copy, ctkn, cands, todo, block, ops,
                   history>>

Opens(s) == Cardinality({i \in DOMAIN s : s[i] = "{"})
Closes(s) == Cardinality({i \in DOMAIN s : s[i] = "}"})

(* curly_count # 0 *)
CurlyOpen == Opens(block) + 1 # Closes(block)

(* A turn of the loop of curly. *)
CurlyTake ==
    /\ pc = "curly"
    /\ CurlyOpen
    /\ \E t \in Token : Taking(t) /\ block' = Append(block, t)
    /\ UNCHANGED <<sst, data, copy, pc, ctkn, cands, todo, result, ops,
                   history>>

(* curly runs out of tokens, and returns the error of tst_pop. *)
CurlyUnclosed ==
    /\ pc = "curly"
    /\ CurlyOpen
    /\ NoToken
    /\ Return("error")
    /\ UNCHANGED <<tst, sst, data, copy, ctkn, cands, todo, block, ops,
                   history>>

(* curly pushes the block without its "}".  It prints the last token of    *)
(* the block first, which reads behind the array for an empty one.         *)
CurlyPush ==
    /\ pc = "curly"
    /\ ~CurlyOpen
    /\ \/ Return("ok") /\ data' = <<"codeBlock">> \o data
       \/ Len(block) = 1 /\ pc' = "crashed" /\ UNCHANGED <<data, result>>
    /\ UNCHANGED <<tst, sst, copy, ctkn, cands, todo, block, ops, history>>

(* A foreign function may do to the stacks what their headers offer, but   *)
(* for their save points, which belong to parse.                           *)
ForeignOp ==
    /\ pc = "foreign"
    /\ ops < MaxOps
    /\ ops' = ops + 1
    /\ \/ /\ data' = <<"integral">> \o data \/ (data # <<>> /\ data' = Tail(data))
          /\ UNCHANGED <<tst, sst>>
       \/ /\ \/ \E t \in Token : Taking(t)
             \/ \E t \in Pushed : TS!Push(t)
             \/ TS!PushLevel \/ TS!PopLevel
          /\ UNCHANGED <<sst, data>>
       \/ /\ \/ \E w \in Foreign : SS!Set(w, w) \/ SS!Set("puts", w)
             \/ SS!PushScope \/ SS!PopScope
          /\ UNCHANGED <<tst, data>>
    /\ UNCHANGED <<copy, pc, ctkn, cands, todo, block, result, history>>

ForeignReturn ==
    /\ pc = "foreign"
    /\ \E r \in {"ok", "mismatch", "error"} : Return(r)
    /\ UNCHANGED <<tst, sst, data, copy, ctkn, cands, todo, block, ops,
                   history>>

-----------------------------------------------------------------------------

(* A defect for the mutant runs: the scope stack goes on saving. *)
AcceptHalf ==
    /\ pc = "ran"
    /\ result = "ok"
    /\ TS!Discard
    /\ copy' = NoSave
    /\ cands' = <<>>
    /\ pc' = "next"
    /\ UNCHANGED <<sst, data, ctkn, todo, block, result, ops, history>>

(* The candidate succeeded: both saves are discarded, and dst_c is freed.  *)
Accept ==
    /\ pc = "ran"
    /\ result = "ok"
    /\ TS!Discard
    /\ SS!Discard
    /\ copy' = NoSave
    /\ cands' = <<>>
    /\ pc' = "next"
    /\ UNCHANGED <<data, ctkn, todo, block, result, ops, history>>

(* A defect for the mutant runs: the data stack is not taken back. *)
RollBackTwo ==
    /\ pc = "ran"
    /\ result = "mismatch"
    /\ TS!Restore
    /\ SS!Restore
    /\ copy' = NoSave
    /\ cands' = Tail(cands)
    /\ pc' = IF cands' = <<>> THEN "next" ELSE "try"
    /\ UNCHANGED <<data, ctkn, todo, block, result, ops, history>>

(* It did not: all three stacks are taken back.  err is that of the last   *)
(* restore, so that after the last candidate parse goes on as if the word  *)
(* had been run. *)
RollBack ==
    /\ pc = "ran"
    /\ result = "mismatch"
    /\ TS!Restore
    /\ SS!Restore
    /\ data' = copy
    /\ copy' = NoSave
    /\ cands' = Tail(cands)
    /\ pc' = IF cands' = <<>> THEN "next" ELSE "try"
    /\ UNCHANGED <<ctkn, todo, block, result, ops, history>>

(* The same after the candidate pushed a scope: the scopes are wrecked,    *)
(* and what follows is left to ScopeStack. *)
RollBackWrecks ==
    /\ pc = "ran"
    /\ result = "mismatch"
    /\ ssaved = Void
    /\ pc' = "wrecked"
    /\ UNCHANGED <<tst, sst, data, copy, ctkn, run, history>>

(* Any other error ends parse, which returns false. *)
CandidateFails ==
    /\ pc = "ran"
    /\ result = "error"
    /\ pc' = "failed"
    /\ UNCHANGED <<tst, sst, data, copy, ctkn, run, history>>

OnlyBuiltin == \A i \in DOMAIN program : program[i] \notin Foreign

Ended == pc \in {"done", "failed", "crashed", "wrecked"}

(* Nothing happens any more. *)
Stopped == Ended /\ UNCHANGED vars

Next ==
    \/ DropLevel \/ TakeToken \/ Finish \/ PushLiteral \/ RunMethod
    \/ LookUp \/ TryCandidate \/ RunBlock \/ PushBlockToken \/ BlockPushed
    \/ CurlyTake \/ CurlyUnclosed \/ CurlyPush
    \/ ForeignOp \/ ForeignReturn
    \/ Accept \/ RollBack \/ RollBackWrecks \/ CandidateFails
    \/ Stopped

Spec == Init /\ [][Next]_vars

(* parse is sequential code: it runs on. *)
FairSpec == Spec /\ WF_vars(Next)

-----------------------------------------------------------------------------

(* A candidate runs, or has just returned. *)
InCandidate == pc \in {"level", "push", "curly", "foreign", "ran"}

(* Where parse is, and what it holds there. *)
TypeOK ==
    /\ levels \in Seq(Seq(Token)) /\ input \in Seq(Token)
    /\ layers \in Seq(SS!Layer) /\ layers # <<>>
    /\ data \in Seq(Objects)
    /\ pc \in {"next", "literal", "method", "lookup", "try", "level", "push",
               "curly", "foreign", "ran"} \/ Ended
    /\ pc \in {"method", "lookup"} => ctkn \in Words
    /\ cands \in Seq(Runnables)
    /\ pc = "try" \/ InCandidate => cands # <<>>
    /\ todo \in Seq(Token) /\ block \in Seq(Token)
    /\ ops \in 0 .. MaxOps

(* What is recorded in before. *)
View == [levels : Seq(Seq(Token)), input : Seq(Token), data : Seq(Objects),
         layers : Seq(SS!Layer) \ {<<>>}]

(* The save points of a candidate are what the first candidate found, up   *)
(* to a save point of the scopes that is void. *)
SavedBefore ==
    /\ pc = "try" => before = Stacks
    /\ InCandidate =>
          /\ before \in View
          /\ tsaved = [levels |-> before.levels, input |-> before.input]
          /\ ssaved \in {before.layers, Void, NoSave}
          /\ copy = before.data

(* The block of curly has not been closed, but perhaps with its last token. *)
Unclosed(s) ==
    /\ \A i \in 1 .. Len(s) - 1 :
          Opens(SubSeq(s, 1, i)) >= Closes(SubSeq(s, 1, i))
    /\ Opens(s) + 1 >= Closes(s)

(* What curly has taken was ahead when it began. *)
TakenByCurly ==
    pc = "curly" => opened = block \o Ahead /\ Unclosed(block)

(* Nothing is saved while no candidate runs: a save point never outlives   *)
(* its candidate, whichever way it ended, and so no later restore can go   *)
(* back behind a word that was run (main.c 78-130).                        *)
NoStaleSave ==
    pc \in {"next", "literal", "method", "lookup", "try", "done"} =>
        tsaved = NoSave /\ ssaved = NoSave /\ copy = NoSave

(* The save points belong to the candidate that runs, and curly has the    *)
(* tokens that were ahead (main.c 78-130, globals.c 12-26). *)
IInv == TypeOK /\ NoStaleSave /\ SavedBefore /\ TakenByCurly

(* A candidate that says ARGUMENT_MISMATCH_FAIL leaves no trace: the next  *)
(* candidate, or the next word, finds the three stacks as the first        *)
(* candidate found them, whatever was pushed, popped, read and defined.    *)
MismatchLeavesNoTrace ==
    [][pc = "ran" /\ result = "mismatch" /\ pc' # "wrecked" =>
          Stacks' = before]_vars

(* No more is closed than is open, and in the end nothing is open. *)
Balanced(s) ==
    /\ \A i \in DOMAIN s :
          Opens(SubSeq(s, 1, i)) >= Closes(SubSeq(s, 1, i))
    /\ Opens(s) = Closes(s)

(* docs/stl/GLOBALS.md 7: "{" finds the matching "}".  The block and its   *)
(* "}" are just what was ahead when curly began: in the program, or on the *)
(* levels on which foreign functions have pushed braces, where the block   *)
(* may begin on one, go on on the next and end in the program.  None of    *)
(* the words of stl/ leaves a brace on a level.                            *)
CurlyMatches ==
    [][pc = "curly" /\ pc' = "ran" /\ result' = "ok" =>
          /\ opened = block \o Ahead'
          /\ Last(block) = "}"
          /\ Balanced(Front(block))]_vars

(* Without foreign functions parse comes to an end: no word of stl/ pushes *)
(* a block that leads back to itself.                                      *)
Halts == OnlyBuiltin => <>Ended

(* main.c 134-138 and its message: a word whose candidates all fail to     *)
(* match ends parse with an error.                                         *)
MismatchReported ==
    [][pc = "ran" /\ result = "mismatch" /\ cands' = <<>> => pc' # "next"]_vars

=============================================================================
