------------------------------- MODULE Grammar -------------------------------
(***************************************************************************)
(* How parse_database_file() gets its parser: the constructors of mpc.c    *)
(* that mpca_lang() calls while it reads the grammar text, the optimiser   *)
(* it runs on the outcome, and the grammar of the database.  A parser is a *)
(* record named for its MPC_TYPE; a reference to a retained (named) parser *)
(* is a REF.  The grammar text itself is not parsed here.                  *)
(***************************************************************************)
EXTENDS Entries

-----------------------------------------------------------------------------
(* Constructors: mpc_expect(), mpc_char(), mpc_oneof(), mpc_apply(), ...    *)
Pass            == [type |-> "PASS"]
Lift            == [type |-> "LIFT"]
State           == [type |-> "STATE"]
Ref(name)       == [type |-> "REF", name |-> name]
Expect(x, m)    == [type |-> "EXPECT", x |-> x, m |-> m]
Char(c)         == Expect([type |-> "SINGLE", c |-> c], {c})
OneOf(s)        == Expect([type |-> "ONEOF", s |-> s], s)
Apply(x, f)     == [type |-> "APPLY", x |-> x, f |-> f]
ApplyTo(x, f, d) == [type |-> "APPLY_TO", x |-> x, f |-> f, d |-> d]
Many1(f, x)     == [type |-> "MANY1", x |-> x, f |-> f]
Or(xs)          == [type |-> "OR", xs |-> xs]
And(f, xs)      == [type |-> "AND", xs |-> xs, f |-> f]

(* mpca_state(), mpca_tag(), mpca_add_tag(), mpca_root()                    *)
AcState(x)      == And("state_ast", <<State, x>>)
AcTag(x, t)     == ApplyTo(x, "ast_tag", t)
AcAddTag(x, t)  == ApplyTo(x, "ast_add_tag", t)
AcRoot(x)       == Apply(x, "ast_add_root")

-----------------------------------------------------------------------------
(* mpc_re() on a range in brackets: mpcf_re_range(), then mpcf_re_and() on  *)
(* the one factor.  Escapes and complements are not used here.              *)
ReRange(s) ==
  OneOf(UNION {IF s[i] = DASH /\ i \notin {1, Len(s)}
               THEN (s[i - 1] + 1)..(s[i + 1] - 1) ELSE {s[i]} : i \in DOMAIN s})

ReAnd(xs) == FoldLeft(LAMBDA p, x : And("strfold", <<p, x>>), Lift, xs)

(* mpcaf_grammar_char(), ..._regex(), ..._id(), ..._and(), ..._or(),        *)
(* ..._repeat() for "+"                                                     *)
GrammarChar(c)   == AcState(AcTag(Apply(Char(c), "str_ast"), "char"))
GrammarRegex(re) == AcState(AcTag(Apply(re, "str_ast"), "regex"))
GrammarIdUntagged(name) == AcState(AcRoot(Ref(name)))  \* slip: the rule's name is not put in
GrammarId(name)  == AcState(AcRoot(AcAddTag(Ref(name), name)))
GrammarAnd(xs)   == FoldLeft(LAMBDA p, x : And("fold_ast", <<p, x>>), Pass, xs)
GrammarOr(x, y)  == Or(<<x, y>>)
GrammarPlus(x)   == Many1("fold_ast", x)

-----------------------------------------------------------------------------
(***************************************************************************)
(* mpc_optimise(): subexpressions first, then rules on the node until none *)
(* applies: a unit (`pass`, or `lift` of the empty string) is dropped, an  *)
(* `and` takes in a first or last part that is an `and` with its fold, an  *)
(* `or` a last part that is one.  (The rule for a first part that is an    *)
(* `or` is left out: no grammar here reaches it.)                          *)
(***************************************************************************)
Unit(f) == CASE f = "fold_ast" -> "PASS" [] f = "strfold" -> "LIFT" [] OTHER -> "none"

Merges(p, part) == /\ p.type = "AND" /\ p.f \in {"fold_ast", "strfold"}
                   /\ part.type = "AND" /\ part.f = p.f

DropsUnit(p) == p.type = "AND" /\ Len(p.xs) = 2 /\ Head(p.xs).type = Unit(p.f)

RECURSIVE Rewritten(_)
Rewritten(p) ==
  CASE DropsUnit(p)              -> Rewritten(p.xs[2])
    [] Merges(p, Head(p.xs))     -> Rewritten([p EXCEPT !.xs = Head(@).xs \o Tail(@)])
    [] Merges(p, Last(p.xs))     -> Rewritten([p EXCEPT !.xs = Front(@) \o Last(@).xs])
    [] p.type = "OR" /\ Last(p.xs).type = "OR"
                                 -> Rewritten([p EXCEPT !.xs = Front(@) \o Last(@).xs])
    [] OTHER                     -> p

RECURSIVE Optimise(_)
Optimise(p) ==
  CASE p.type \in {"EXPECT", "APPLY", "APPLY_TO", "MANY1"} -> [p EXCEPT !.x = Optimise(@)]
    [] p.type \in {"OR", "AND"} ->
         Rewritten([p EXCEPT !.xs = [i \in DOMAIN p.xs |-> Optimise(p.xs[i])]])
    [] OTHER -> p

-----------------------------------------------------------------------------
(* The grammar of the database (database.c:54-66), each rule as             *)
(* mpca_stmt_list_apply_to() defines it.                                    *)
Digits(n) == [i \in 1..n |-> GrammarId("digit")]

SubNum == FoldLeft(LAMBDA xs, n : xs \o <<GrammarChar(DASH)>> \o Digits(n),
                   Digits(Head(SubNumGroups)), Tail(SubNumGroups))

EntryParts == <<GrammarId("sub_num"), GrammarId("spaces"), GrammarId("tech"),
                GrammarId("spaces"), GrammarId("paid"), GrammarChar(NEWLINE)>>

DatabaseGrammar ==
  [database |-> GrammarAnd(<<GrammarPlus(GrammarId("entry"))>>),
   entry    |-> GrammarAnd(EntryParts),
   paid     |-> GrammarOr(GrammarAnd(<<GrammarChar(Digit(1))>>),
                          GrammarAnd(<<GrammarChar(Digit(0))>>)),
   tech     |-> GrammarAnd(Digits(TechDigits)),
   spaces   |-> GrammarAnd(<<GrammarPlus(GrammarChar(SPACE))>>),
   sub_num  |-> GrammarAnd(SubNum),
   digit    |-> GrammarAnd(<<GrammarRegex(
                  Optimise(ReAnd(<<ReRange(<<Digit(0), DASH, Digit(9)>>)>>)))>>)]

DatabaseParsers == [name \in DOMAIN DatabaseGrammar |-> Optimise(DatabaseGrammar[name])]
=============================================================================
