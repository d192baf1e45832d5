--------------------------------- MODULE Ast ---------------------------------
(***************************************************************************)
(* The values the parsers of mpc.c work on: positions, strings, errors and *)
(* syntax trees, with the library's functions that make new ones of them.  *)
(* A character is its code, a string the sequence of its characters.  A    *)
(* tag, which the C code keeps as names joined by bars, is the sequence of *)
(* the names.                                                              *)
(***************************************************************************)
EXTENDS Integers, Sequences, FiniteSets, SequencesExt

NUL      == 0
NEWLINE  == 10
SPACE    == 32
DASH     == 45
Digit(n) == 48 + n

(* mpc_state_t                                                              *)
Position == [pos : Nat, row : Nat, col : Nat]
NewState == [pos |-> 0, row |-> 0, col |-> 0]

Advanced(s, c) ==
  IF c = NEWLINE THEN [pos |-> s.pos + 1, row |-> s.row + 1, col |-> 0]
                 ELSE [pos |-> s.pos + 1, row |-> s.row, col |-> s.col + 1]

-----------------------------------------------------------------------------
(***************************************************************************)
(* mpc_err_t: where a parse failed, the character there, and the set of    *)
(* those that had been expected (the wording around them is left out).     *)
(* The position is -1 in "Unknown Error", which any other error outranks,  *)
(* and -2 stands for the NULL pointer.                                     *)
(***************************************************************************)
NoErr == [state |-> [NewState EXCEPT !.pos = -2], recieved |-> NUL, expected |-> {}]

UnknownError == [NoErr EXCEPT !.state.pos = -1]

(* mpc_err_merge(): the error that is further on, or what both had expected.*)
MergeFirst(x, y) == IF x.state.pos >= y.state.pos THEN x ELSE y  \* slip: one of two is lost
Merge(x, y) ==
  CASE x.state.pos > y.state.pos -> x
    [] x.state.pos < y.state.pos -> y
    [] x.state.pos = y.state.pos -> [y EXCEPT !.expected = @ \cup x.expected]

-----------------------------------------------------------------------------
(* mpc_ast_t; the contents are copied with strcpy(), up to the first NUL.   *)
CString(s) == LET stops == {i \in DOMAIN s : s[i] = NUL}
              IN  IF stops = {} THEN s ELSE SubSeq(s, 1, Min(stops) - 1)

AstNew(tag, contents) ==
  [tag |-> tag, contents |-> CString(contents), state |-> NewState, children |-> <<>>]

StrAst(s)      == AstNew(<<"">>, s)
AstTag(a, t)    == [a EXCEPT !.tag = <<t>>]
AstAddTag(a, t) == [a EXCEPT !.tag = <<t>> \o @]
AstUnplaced(a, s) == a  \* slip: a node's place is lost
AstState(a, s)  == [a EXCEPT !.state = s]

AstAddRoot(a) ==
  IF Len(a.children) < 2 THEN a ELSE [AstNew(<<">">>, <<>>) EXCEPT !.children = <<a>>]

(* Of the tag t of a node that is merged into its only child, all but the   *)
(* last name, ">", goes before the child's.                                 *)
AstAddRootTag(a, t) == [a EXCEPT !.tag = Front(t) \o @]

(***************************************************************************)
(* mpcf_fold_ast() on trees none of which is NULL: a single one is kept as *)
(* it is; of several, those with children give way to their children.      *)
(***************************************************************************)
Spliced(a) ==
  CASE Len(a.children) = 0 -> <<a>>
    [] Len(a.children) = 1 -> <<AstAddRootTag(a.children[1], a.tag)>>
    [] Len(a.children) > 1 -> a.children

FoldAst(as) ==
  IF Len(as) = 1 THEN as[1]
  ELSE LET children == FlattenSeq([i \in DOMAIN as |-> Spliced(as[i])])
       IN  [AstNew(<<">">>, <<>>) EXCEPT !.children = children,
                                         !.state = children[1].state]
=============================================================================
