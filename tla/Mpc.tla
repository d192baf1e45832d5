--------------------------------- MODULE Mpc ---------------------------------
(***************************************************************************)
(* mpc_parse_run() on a file: the recursive descent over parsers, with the *)
(* C stack as a variable.  A step is the call of a parser, or the return   *)
(* of one into its caller.  The characters come from a stream that is read *)
(* and put back (fgetc(), fseek()); mpc keeps its own position beside it,  *)
(* and a stack of marks to rewind to.                                      *)
(*                                                                         *)
(* A frame has the parser, how many of its children are done (j) and their *)
(* results; start, from and at are history: the input state when the       *)
(* parser and its running child were called, and the height of the mark    *)
(* stack at the call.                                                      *)
(***************************************************************************)
EXTENDS Ast

CONSTANTS Parsers,  \* the retained parsers, by name
          Start,    \* the name of the one that is run
          Texts     \* the contents the file may have

ASSUME MpcAssumption == Texts \subseteq Seq(Nat)

VARIABLES text,      \* the file
          fpos,      \* the stream: offset of the next character
          eof,       \*             and the end-of-file flag
          state,     \* mpc_input_t: position, row and column
          last,      \*   the last character taken
          marks,     \*   where to rewind to
          suppress,  \*   > 0 while errors are not recorded
          ctl,       \* what runs: the call of a parser, or its return
          stack,     \* the calls it is nested in
          err        \* *e: the furthest error so far

stream   == <<fpos, eof>>
input    == <<state, last>>
mpcVars  == <<text, stream, input, marks, suppress, ctl, stack, err>>

Call(p) == [op |-> "call", p |-> p]
Ok(v)   == [op |-> "ok", v |-> v]
Fail(e) == [op |-> "fail", e |-> e]

(* A retained parser holds a copy of its definition (mpc_define()).         *)
Resolved(p) == IF p.type = "REF" THEN Parsers[p.name] ELSE p

MpcInit ==
  /\ text \in Texts
  /\ fpos = 0 /\ eof = FALSE /\ state = NewState /\ last = NUL
  /\ marks = <<>> /\ suppress = 0
  /\ ctl = Call(Parsers[Start]) /\ stack = <<>> /\ err = UnknownError

Top       == stack[Len(stack)]
Popped    == SubSeq(stack, 1, Len(stack) - 1)
Calls(type)     == ctl.op = "call" /\ ctl.p.type = type
ReturnsTo(type) == ctl.op # "call" /\ stack # <<>> /\ Top.p.type = type
Succeeded == ctl.op = "ok"
Failed    == ctl.op = "fail"
Result    == Append(Top.xs, ctl.v)

-----------------------------------------------------------------------------
(***************************************************************************)
(* mpc_input_char(), mpc_input_oneof(): the next character is taken when   *)
(* it is in s, and put back when not.  The end is where feof() says it is: *)
(* fgetc() raises the flag there, and gives nothing while it is up.        *)
(***************************************************************************)
AtEnd == eof \/ fpos >= Len(text)

TakeAtEnd ==
  /\ AtEnd
  /\ eof' = TRUE /\ ctl' = Fail(NoErr)
  /\ UNCHANGED <<fpos, input>>

TakeSucceeds(s) ==
  /\ ~AtEnd /\ text[fpos + 1] \in s
  /\ fpos' = fpos + 1 /\ state' = Advanced(state, text[fpos + 1])
  /\ last' = text[fpos + 1] /\ ctl' = Ok(<<last'>>)
  /\ UNCHANGED eof

TakeFailsAhead(s) ==    \* slip: the stream is not put back
  /\ ~AtEnd /\ text[fpos + 1] \notin s
  /\ fpos' = fpos + 1 /\ ctl' = Fail(NoErr)
  /\ UNCHANGED <<eof, input>>

TakeFails(s) ==
  /\ ~AtEnd /\ text[fpos + 1] \notin s
  /\ eof' = FALSE /\ ctl' = Fail(NoErr)
  /\ UNCHANGED <<fpos, input>>

Take(s) == /\ TakeAtEnd \/ TakeSucceeds(s) \/ TakeFails(s)
           /\ UNCHANGED <<text, marks, suppress, stack, err>>

CallSingle == Calls("SINGLE") /\ Take({ctl.p.c})

(* strchr() finds the terminating NUL of a set of characters, too.          *)
CallOneof == Calls("ONEOF") /\ Take(ctl.p.s \cup {NUL})

CallState ==
  /\ Calls("STATE")
  /\ ctl' = Ok(state)
  /\ UNCHANGED <<text, stream, input, marks, suppress, stack, err>>

-----------------------------------------------------------------------------
(* The other parsers call a child first.                                    *)
Frame == [p |-> ctl.p, j |-> 0, xs |-> <<>>,
          start |-> state, from |-> state, at |-> Len(marks)]

Enter(child) == stack' = Append(stack, Frame) /\ ctl' = Call(Resolved(child))

CallApply ==
  /\ Calls("APPLY") \/ Calls("APPLY_TO") \/ Calls("MANY1")
  /\ Enter(ctl.p.x)
  /\ UNCHANGED <<text, stream, input, marks, suppress, err>>

CallExpect ==
  /\ Calls("EXPECT")
  /\ Enter(ctl.p.x)
  /\ suppress' = suppress + 1
  /\ UNCHANGED <<text, stream, input, marks, err>>

CallOr ==
  /\ Calls("OR")
  /\ Enter(ctl.p.xs[1])
  /\ UNCHANGED <<text, stream, input, marks, suppress, err>>

(* mpc_input_mark()                                                         *)
CallAnd ==
  /\ Calls("AND")
  /\ Enter(ctl.p.xs[1])
  /\ marks' = Append(marks, [state |-> state, last |-> last])
  /\ UNCHANGED <<text, stream, input, suppress, err>>

-----------------------------------------------------------------------------
(* Returns.  mpc_parse_apply(), mpc_parse_apply_to(), mpc_parse_fold():     *)
ParseApply(f, v) == CASE f = "str_ast" -> StrAst(v) [] f = "ast_add_root" -> AstAddRoot(v)

ParseApplyTo(f, v, d) == CASE f = "ast_tag" -> AstTag(v, d) [] f = "ast_add_tag" -> AstAddTag(v, d)

ParseFold(f, xs) ==
  CASE f = "fold_ast" -> FoldAst(xs) [] f = "state_ast" -> AstState(xs[2], xs[1])

Leave(outcome) == stack' = Popped /\ ctl' = outcome

(* The parser goes on with another child.                                   *)
NextFrame(xs) == [p |-> Top.p, j |-> Top.j + 1, xs |-> xs,
                  start |-> Top.start, from |-> state, at |-> Top.at]

GoOn(xs, child) ==
  /\ stack' = Append(Popped, NextFrame(xs))
  /\ ctl' = Call(Resolved(child))

ReturnApply ==
  /\ ReturnsTo("APPLY")
  /\ Leave(IF Succeeded THEN Ok(ParseApply(Top.p.f, ctl.v)) ELSE ctl)
  /\ UNCHANGED <<text, stream, input, marks, suppress, err>>

ReturnApplyTo ==
  /\ ReturnsTo("APPLY_TO")
  /\ Leave(IF Succeeded THEN Ok(ParseApplyTo(Top.p.f, ctl.v, Top.p.d)) ELSE ctl)
  /\ UNCHANGED <<text, stream, input, marks, suppress, err>>

ExpectOk ==
  /\ ReturnsTo("EXPECT") /\ Succeeded
  /\ Leave(ctl)
  /\ suppress' = suppress - 1
  /\ UNCHANGED <<text, stream, input, marks, err>>

(***************************************************************************)
(* mpc_err_new(): NULL inside another EXPECT; the character is peeked at,  *)
(* which sets the end-of-file flag, or clears it by putting it back.       *)
(***************************************************************************)
Peeked == IF AtEnd THEN NUL ELSE text[fpos + 1]

ExpectFails ==
  /\ ReturnsTo("EXPECT") /\ Failed
  /\ suppress' = suppress - 1
  /\ IF suppress' > 0
     THEN Leave(Fail(NoErr)) /\ UNCHANGED eof
     ELSE /\ Leave(Fail([state |-> state, recieved |-> Peeked, expected |-> Top.p.m]))
          /\ eof' = AtEnd
  /\ UNCHANGED <<text, fpos, input, marks, err>>

Many1Next ==
  /\ ReturnsTo("MANY1") /\ Succeeded
  /\ GoOn(Result, Top.p.x)
  /\ UNCHANGED <<text, stream, input, marks, suppress, err>>

(* The last call fails: with nothing before it so does the repetition.      *)
Many1Ends ==
  /\ ReturnsTo("MANY1") /\ Failed
  /\ IF Top.j = 0
     THEN Leave(ctl) /\ UNCHANGED err
     ELSE Leave(Ok(ParseFold(Top.p.f, Top.xs))) /\ err' = Merge(err, ctl.e)
  /\ UNCHANGED <<text, stream, input, marks, suppress>>

OrOk ==
  /\ ReturnsTo("OR") /\ Succeeded
  /\ Leave(ctl)
  /\ UNCHANGED <<text, stream, input, marks, suppress, err>>

(* Every error goes into *e; the failure has none of its own.               *)
OrFails ==
  /\ ReturnsTo("OR") /\ Failed
  /\ err' = Merge(err, ctl.e)
  /\ IF Top.j + 1 < Len(Top.p.xs) THEN GoOn(<<>>, Top.p.xs[Top.j + 2])
                                  ELSE Leave(Fail(NoErr))
  /\ UNCHANGED <<text, stream, input, marks, suppress>>

AndNext ==
  /\ ReturnsTo("AND") /\ Succeeded /\ Top.j + 1 < Len(Top.p.xs)
  /\ GoOn(Result, Top.p.xs[Top.j + 2])
  /\ UNCHANGED <<text, stream, input, marks, suppress, err>>

(* mpc_input_unmark()                                                       *)
StillMarked == marks    \* slip: a mark is never taken off
Unmarked    == SubSeq(marks, 1, Len(marks) - 1)

AndOk ==
  /\ ReturnsTo("AND") /\ Succeeded /\ Top.j + 1 >= Len(Top.p.xs)
  /\ Leave(Ok(ParseFold(Top.p.f, Result)))
  /\ marks' = Unmarked
  /\ UNCHANGED <<text, stream, input, suppress, err>>

(* mpc_input_rewind(): fseek() also clears the end-of-file flag.            *)
RewoundStream ==        \* slip: only the stream goes back
  fpos' = marks[Len(marks)].state.pos /\ eof' = FALSE /\ UNCHANGED input

Rewound == /\ state' = marks[Len(marks)].state
           /\ last' = marks[Len(marks)].last
           /\ fpos' = state'.pos /\ eof' = FALSE

AndFails ==
  /\ ReturnsTo("AND") /\ Failed
  /\ Rewound
  /\ marks' = Unmarked
  /\ Leave(ctl)
  /\ UNCHANGED <<text, suppress, err>>

MpcNext ==
  \/ CallSingle \/ CallOneof \/ CallState
  \/ CallApply \/ CallExpect \/ CallOr \/ CallAnd
  \/ ReturnApply \/ ReturnApplyTo \/ ExpectOk \/ ExpectFails
  \/ Many1Next \/ Many1Ends \/ OrOk \/ OrFails \/ AndNext \/ AndOk \/ AndFails

MpcSpec == MpcInit /\ [][MpcNext]_mpcVars

(* mpc_parse_input(): done when the first call has returned.                *)
Parsed == ctl.op # "call" /\ stack = <<>>
ParseError == Merge(err, ctl.e)

-----------------------------------------------------------------------------
(***************************************************************************)
(* The variables keep to their ranges, and the stream stays inside the     *)
(* file however often characters are put back.                             *)
(***************************************************************************)
MpcTypeOK ==
  /\ text \in Texts
  /\ fpos \in 0..Len(text) /\ eof \in BOOLEAN
  /\ state \in Position /\ last \in Nat
  /\ marks \in Seq([state : Position, last : Nat])
  /\ suppress \in Nat
  /\ \A i \in DOMAIN stack :
       /\ stack[i].start \in Position /\ stack[i].from \in Position
       /\ stack[i].j \in Nat /\ stack[i].at \in Nat

(***************************************************************************)
(* A parser that fails leaves the input where it was called: the others    *)
(* take at most the one character they fail on and put it back, and an     *)
(* `and` that had taken some rewinds.  An `or` relies on this when it      *)
(* tries its next alternative, a repetition when it ends (mpc.c:1123-1218).*)
(***************************************************************************)
FailureConsumesNothing ==
  Failed => state = IF stack = <<>> THEN NewState ELSE Top.from

(***************************************************************************)
(* Every running `and` has one mark, at the state it was called in, and    *)
(* errors are suppressed as deep as `expect`s are nested: rewinds and      *)
(* unmarks of inner parsers never take an outer one's.                     *)
(***************************************************************************)
FramesOf(type) == {i \in DOMAIN stack : stack[i].p.type = type}

NestingIsBalanced ==
  /\ Len(marks) = Cardinality(FramesOf("AND"))
  /\ suppress = Cardinality(FramesOf("EXPECT"))
  /\ \A i \in FramesOf("AND") :
       /\ stack[i].at + 1 \in DOMAIN marks
       /\ marks[stack[i].at + 1].state = stack[i].start

(***************************************************************************)
(* mpc's own position is the stream's, and its row and column are those of *)
(* the character there, after any reading, putting back and rewinding; the *)
(* end-of-file flag is up only at the end: it stays up until a seek, and a *)
(* character before the end would be taken for the end while it is         *)
(* (mpc_input_terminated(), mpc.c:364).                                    *)
(***************************************************************************)
IsPlace(s) ==
  /\ s.pos \in 0..Len(text)
  /\ s.row = Cardinality({i \in 1..s.pos : text[i] = NEWLINE})
  /\ s.col \in 0..s.pos
  /\ s.col # s.pos => text[s.pos - s.col] = NEWLINE
  /\ \A i \in (s.pos - s.col + 1)..s.pos : text[i] # NEWLINE

StreamInStep ==
  /\ state.pos = fpos /\ IsPlace(state)
  /\ last = IF fpos = 0 THEN NUL ELSE text[fpos]
  /\ eof => fpos = Len(text)
=============================================================================
