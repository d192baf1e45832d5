------------------------------- MODULE Loader --------------------------------
(***************************************************************************)
(* parse_database_file() (database.c) in full: the file is opened, parsed  *)
(* by mpc, its syntax tree walked in post-order, each entry made of the    *)
(* characters gathered on the way, and the array sorted.  Shown to         *)
(* implement Database, whose file is a sequence of lines.                  *)
(***************************************************************************)
EXTENDS Mpc, Entries, FiniteSetsExt

CONSTANTS MaxEntries,  \* MAX_ENTRIES (4096)
          TreeHeight,  \* how high the syntax trees of the grammar may get
          Yields       \* what each parser of the grammar yields

ASSUME RoomAssumption == MaxEntries \in Nat

VARIABLES opens,     \* whether fopen() succeeds
          lines,     \* history: what the file holds
          status,    \* "new", "parsing", "walking", "loaded", "failed"
          trav,      \* mpc_ast_trav_t: the nodes down to the current one
          curr_str,  \* the characters of the entry being walked over
          entries,   \* db->entries[0..db_index)
          walked     \* history: how many leaves have been walked over

loaderVars == <<opens, lines, status, trav, curr_str, entries, walked>>
vars == <<mpcVars, loaderVars>>

-----------------------------------------------------------------------------
(***************************************************************************)
(* mpc hands the results of parsers on as void pointers; the functions it  *)
(* applies to them are right only if the grammar is put together as the    *)
(* mpca_ functions do.  A parser yields a string of one character, the     *)
(* input's position, a leaf that has no place yet, or a tree of at most a  *)
(* height.                                                                 *)
(***************************************************************************)
AString   == -3
APosition == -2
ALeaf     == -1

(* What the parser x yields will do where a k is wanted.                    *)
Fits(x, k) == /\ Resolved(x) \in DOMAIN Yields
              /\ Yields[Resolved(x)] \in {k} \cup 0..k

FitAll(xs, k) == Len(xs) \in Nat \ {0} /\ \A i \in 1..Len(xs) : Fits(xs[i], k)

Composes(p, k) ==
  \/ p.type \in {"SINGLE", "ONEOF"} /\ k = AString
  \/ p.type = "STATE" /\ k = APosition
  \/ p.type = "EXPECT" /\ Fits(p.x, k)
  \/ p.type = "OR" /\ FitAll(p.xs, k)
  \/ p.type = "APPLY" /\ p.f = "str_ast" /\ k = ALeaf /\ Fits(p.x, AString)
  \/ p.type = "APPLY" /\ p.f = "ast_add_root" /\ k > 0 /\ Fits(p.x, k - 1)
  \/ /\ p.type = "APPLY_TO" /\ p.f \in {"ast_tag", "ast_add_tag"}
     /\ k >= ALeaf /\ Fits(p.x, k)
  \/ p.type = "MANY1" /\ p.f = "fold_ast" /\ k > 0 /\ Fits(p.x, k)
  \/ p.type = "AND" /\ p.f = "fold_ast" /\ k > 0 /\ FitAll(p.xs, k)
  \/ /\ p.type = "AND" /\ p.f = "state_ast" /\ k >= 0
     /\ Len(p.xs) = 2 /\ Fits(p.xs[1], APosition)
     /\ Fits(p.xs[2], ALeaf) \/ Fits(p.xs[2], k)

ASSUME GrammarAssumption ==
  /\ TreeHeight \in Nat
  /\ \A p \in DOMAIN Yields : Yields[p] \in AString..TreeHeight /\ Composes(p, Yields[p])
  /\ Parsers[Start] \in DOMAIN Yields /\ Yields[Parsers[Start]] \in 0..TreeHeight

-----------------------------------------------------------------------------
(* mpc_ast_t: the names in its tag, the trees up to a height, and them all. *)
Names == {"", ">"} \cup {p.d : p \in {q \in DOMAIN Yields : q.type = "APPLY_TO"}}

TreesTo[h \in Nat] ==
  [tag : Seq(Names), contents : Seq(Nat), state : Position,
   children : IF h = 0 THEN {<<>>} ELSE Seq(TreesTo[h - 1])]

Trees == TreesTo[TreeHeight]

(* The nodes from a to its leftmost leaf, which post-order visits first.    *)
Leftmost[a \in Trees] ==
  <<[node |-> a, child |-> 1]>> \o
  IF a.children = <<>> THEN <<>> ELSE Leftmost[a.children[1]]

(* mpc_ast_traverse_next(): up, and down to the leftmost of the next child. *)
Parent   == trav[Len(trav) - 1]
NextStep == [Parent EXCEPT !.child = @ + 1]
Climbed  == Append(SubSeq(trav, 1, Len(trav) - 2), NextStep)

DescendedOne(a) == <<[node |-> a, child |-> 1]>>  \* slip: not down to a leaf
Descended(a)    == Leftmost[a]

StaysAtRoot == trav                    \* slip: the iterator is not advanced to NULL
LeftRoot    == <<>>

TraverseNext ==
  IF Len(trav) = 1 THEN LeftRoot
  ELSE IF NextStep.child > Len(Parent.node.children) THEN Climbed
  ELSE Climbed \o Descended(Parent.node.children[NextStep.child])

Node       == trav[Len(trav)].node
IsEntry    == \E i \in DOMAIN Node.tag : Node.tag[i] = "entry"
IsDigit    == \E i \in DOMAIN Node.tag : Node.tag[i] = "digit"
IsPaid     == \E i \in 1..(Len(Node.tag) - 1) : SubSeq(Node.tag, i, i + 1) = <<"paid", "char">>
FirstChar  == IF Node.contents = <<>> THEN NUL ELSE Head(Node.contents)

(* The raw string of an entry is gathered, and begun anew after the entry.  *)
WithNode   == IF IsDigit \/ IsPaid THEN Append(curr_str, FirstChar) ELSE curr_str
GatheredOn == WithNode                 \* slip: curr_token is not reset
Gathered   == IF IsEntry THEN <<>> ELSE WithNode

-----------------------------------------------------------------------------
Table == INSTANCE DbTable WITH Techs <- 0..(10^TechDigits - 1)

(***************************************************************************)
(* What a database file is, apart from any parser: lines of one shape.  A  *)
(* slot of the shape is a set of characters, taken once, or at least once  *)
(* where more is TRUE.                                                     *)
(***************************************************************************)
DigitChars == {Digit(n) : n \in 0..9}

Once(s)     == [chars |-> s, more |-> FALSE]
DigitSlots(n) == [i \in 1..n |-> Once(DigitChars)]
SpaceSlots    == <<[chars |-> {SPACE}, more |-> TRUE]>>

LineShape ==
  Tail(FlattenSeq([g \in DOMAIN SubNumGroups |->
                     <<Once({DASH})>> \o DigitSlots(SubNumGroups[g])]))
  \o SpaceSlots \o DigitSlots(TechDigits) \o SpaceSlots
  \o <<Once({Digit(0), Digit(1)}), Once({NEWLINE})>>

(* The characters that may come after k slots are filled.                   *)
Following(k) == LineShape[k + 1].chars \cup
                IF k > 0 /\ LineShape[k].more THEN LineShape[k].chars ELSE {}

SlotAfter(k, c) ==
  CASE k \notin 0..(Len(LineShape) - 1) \/ c \notin Following(k) -> -1
    [] OTHER -> IF c \in LineShape[k + 1].chars THEN k + 1 ELSE k

SlotsIn(line) == FoldLeft(SlotAfter, 0, line)

ValueOf(s, mod) ==
  MapThenSumSet(LAMBDA i : (s[i] - Digit(0)) * 10^(Len(s) - i), DOMAIN s) % mod

EntryOf(line) ==
  LET s == SelectSeq(line, LAMBDA c : c \in DigitChars)
      n == Len(s) - TechDigits - 1
  IN  IF SlotsIn(line) # Len(LineShape) THEN Table!Malformed
      ELSE [number |-> ValueOf(SubSeq(s, 1, n), NumMod),
            ttype  |-> ValueOf(SubSeq(s, n + 1, n + TechDigits), 256),
            paid   |-> Last(s) = Digit(1)]

LinesOf(t) ==
  LET ends == SetToSortSeq({0} \cup {i \in DOMAIN t : t[i] = NEWLINE}, <)
      whole == [k \in 1..(Len(ends) - 1) |-> EntryOf(SubSeq(t, ends[k] + 1, ends[k + 1]))]
  IN  IF Last(ends) = Len(t) THEN whole ELSE Append(whole, Table!Malformed)

-----------------------------------------------------------------------------
LoaderInit ==
  /\ MpcInit
  /\ opens \in BOOLEAN
  /\ lines = IF opens THEN LinesOf(text) ELSE <<>>
  /\ status = "new" /\ trav = <<>> /\ curr_str = <<>> /\ entries = <<>>
  /\ walked = 0

(* mpc_parse_contents()                                                     *)
OpenFile ==
  /\ status = "new"
  /\ status' = IF opens THEN "parsing" ELSE "failed"
  /\ UNCHANGED <<mpcVars, opens, lines, trav, curr_str, entries, walked>>

Parse ==
  /\ status = "parsing"
  /\ MpcNext
  /\ UNCHANGED loaderVars

ParseDone ==
  /\ status = "parsing" /\ Parsed
  /\ IF Succeeded THEN status' = "walking" /\ trav' = Leftmost[ctl.v]
                  ELSE status' = "failed" /\ UNCHANGED trav
  /\ UNCHANGED <<mpcVars, opens, lines, curr_str, entries, walked>>

Visiting == status = "walking" /\ trav # <<>>

(* The check for room comes before any node, whatever it is.                *)
FullLate == Len(entries) > MaxEntries    \* slip: > for >=
Full     == Len(entries) >= MaxEntries

TooLarge ==
  /\ Visiting /\ Full
  /\ status' = "failed"
  /\ UNCHANGED <<mpcVars, opens, lines, trav, curr_str, entries, walked>>

Visit ==
  /\ Visiting /\ ~Full
  /\ trav' = TraverseNext
  /\ curr_str' = Gathered
  /\ entries' = IF IsEntry THEN Append(entries, StrToEntry(curr_str)) ELSE entries
  /\ walked' = IF Node.children = <<>> THEN walked + 1 ELSE walked
  /\ UNCHANGED <<mpcVars, opens, lines, status>>

(* qsort()                                                                  *)
Sort ==
  /\ status = "walking" /\ trav = <<>>
  /\ status' = "loaded" /\ entries' = Table!QSort[entries]
  /\ UNCHANGED <<mpcVars, opens, lines, trav, curr_str, walked>>

LoaderNext == OpenFile \/ Parse \/ ParseDone \/ TooLarge \/ Visit \/ Sort

LoaderSpec == LoaderInit /\ [][LoaderNext]_vars /\ WF_vars(LoaderNext)

-----------------------------------------------------------------------------
(***************************************************************************)
(* The variables keep to their ranges: the walk gets no deeper than the    *)
(* tree, and no entry is put behind the end of the array (database.c:99).  *)
(***************************************************************************)
LoaderTypeOK ==
  /\ MpcTypeOK
  /\ opens \in BOOLEAN
  /\ status \in {"new", "parsing", "walking", "loaded", "failed"}
  /\ Len(trav) <= TreeHeight + 1
  /\ walked \in 0..Len(text)
  /\ status # "loaded" => Len(entries) <= MaxEntries

(***************************************************************************)
(* When an entry is made, the characters of all its fields have been       *)
(* gathered and no other, so that none left from an earlier entry is read  *)
(* (database.c:106-118).                                                   *)
(***************************************************************************)
GatheredFits ==
  LET width == SUBNUM_STRLEN + TechDigits + 1
  IN  Len(curr_str) <= width /\ (Visiting /\ IsEntry => Len(curr_str) = width)

(***************************************************************************)
(* Every character the parser took has become one leaf of the tree, in the *)
(* order of the file and labelled with its place there: folding, splicing  *)
(* and backtracking lose, repeat and reorder nothing.                      *)
(***************************************************************************)
Leaves[a \in Trees] ==
  IF a.children = <<>> THEN <<a>>
  ELSE FlattenSeq([i \in DOMAIN a.children |-> Leaves[a.children[i]]])

TreeSpellsTheText ==
  Parsed /\ Succeeded =>
    LET leaves == Leaves[ctl.v]
    IN  /\ Len(leaves) = fpos
        /\ \A i \in DOMAIN leaves :
             /\ leaves[i].state.pos = i - 1 /\ IsPlace(leaves[i].state)
             /\ leaves[i].contents = CString(<<text[i]>>)

(***************************************************************************)
(* The walk comes by each character the parser took, once and in the order *)
(* of the file, however it climbs and descends: a leaf is the one next to  *)
(* those before it, and at the end there is none left.                     *)
(***************************************************************************)
WalkReadsTheText ==
  /\ Visiting /\ Node.children = <<>> =>
       /\ walked < fpos /\ Node.state.pos = walked
       /\ Node.contents = CString(<<text[walked + 1]>>)
  /\ status = "walking" /\ trav = <<>> => walked = fpos

(***************************************************************************)
(* The error of a refused file names the place of the first character that *)
(* no database can have there, that character, and exactly those that it   *)
(* could have: the errors dropped or merged on the way (a repetition that  *)
(* ended, alternatives, suppressed parts) neither lose one nor add one.    *)
(***************************************************************************)
ErrorIsExact ==
  Parsed /\ Failed =>
    LET at == ParseError.state
        k  == SlotsIn(SubSeq(text, 1, at.pos))
    IN  /\ IsPlace(at) /\ k # -1
        /\ ParseError.expected = Following(k)
        /\ IF at.pos = Len(text) THEN ParseError.recieved = NUL
           ELSE /\ ParseError.recieved = text[at.pos + 1]
                /\ text[at.pos + 1] \notin Following(k)

(***************************************************************************)
(* What the parser took is valid: every line of it has the shape of the    *)
(* grammar.  The loader relies on this, checking nothing of what it walks  *)
(* over: "if the parse succeeded, the input must be valid" (database.c:11) *)
(* by the grammar, in which a digit is /[0-9]/ (database.c:59).  False of  *)
(* a file with a NUL byte where a digit belongs, which CallOneof takes.    *)
(***************************************************************************)
ParsedIsValid ==
  Parsed /\ Succeeded =>
    Table!Malformed \notin Range(LinesOf(SubSeq(text, 1, fpos)))

(***************************************************************************)
(* parse_database_file() does what Database says of it: it loads the       *)
(* entries of the lines before the first malformed one, sorted, and fails  *)
(* when there is none or no room, or the file does not open.               *)
(***************************************************************************)
Promise == INSTANCE Database WITH
  Techs   <- 0..(10^TechDigits - 1),
  Files   <- Seq(Table!Entry \cup {Table!Malformed}),
  Numbers <- {},
  file    <- lines,
  status  <- IF status \in {"loaded", "failed"} THEN status ELSE "new",
  entries <- IF status = "loaded" THEN entries ELSE <<>>,
  wanted  <- -1,
  found   <- 0

ImplementsDatabase == Promise!Spec

(***************************************************************************)
(* Loading comes to an end for every file: no parser repeats one that      *)
(* takes nothing, and the walk leaves the tree.  Fairness: the loader is   *)
(* one thread and waits for nothing.                                       *)
(***************************************************************************)
LoadEnds == <>(status \in {"loaded", "failed"})
=============================================================================
