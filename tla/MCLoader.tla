------------------------------ MODULE MCLoader -------------------------------
(***************************************************************************)
(* The database grammar with its ten digits cut to four, on every file     *)
(* that is one edit away from a file of two lines, on files of up to four  *)
(* lines, and on those with a NUL byte for a digit.                        *)
(***************************************************************************)
EXTENDS Loader

G == INSTANCE Grammar
McParsers == G!DatabaseParsers
McGroups  == <<1, 1, 2>>

(* The parsers of the grammar: the named ones, and those they are made of.  *)
Parts(p) == CASE p.type \in {"EXPECT", "APPLY", "APPLY_TO", "MANY1"} -> {Resolved(p.x)}
              [] p.type \in {"OR", "AND"} -> {Resolved(p.xs[i]) : i \in DOMAIN p.xs}
              [] OTHER -> {}

RECURSIVE WithParts(_)
WithParts(ps) == LET more == ps \cup UNION {Parts(p) : p \in ps}
                 IN  IF more = ps THEN ps ELSE WithParts(more)

(* What each yields: the least height for a tree.                           *)
RECURSIVE YieldOf(_)
YieldOf(p) ==
  LET most == Max({-3} \cup {YieldOf(x) : x \in Parts(p)})
  IN  CASE p.type \in {"SINGLE", "ONEOF"} -> AString
        [] p.type = "STATE" -> APosition
        [] p.type = "APPLY" -> IF p.f = "str_ast" THEN ALeaf ELSE most + 1
        [] p.type \in {"EXPECT", "APPLY_TO", "OR"} -> most
        [] p.type \in {"MANY1", "AND"} -> IF p.f = "fold_ast" THEN Max({1, most})
                                          ELSE Max({0, most})
McYields == [p \in WithParts({McParsers["database"]}) |-> YieldOf(p)]

Chars(digits) == [i \in DOMAIN digits |-> Digit(digits[i])]
Line(n, spaces, tech, paid) ==
  Chars(<<n \div 1000>>) \o <<DASH>> \o Chars(<<(n \div 100) % 10>>) \o <<DASH>>
  \o Chars(<<(n \div 10) % 10, n % 10>>) \o spaces
  \o Chars(<<tech \div 10, tech % 10>>) \o <<SPACE>> \o Chars(<<paid>>) \o <<NEWLINE>>

First  == Line(4051, <<SPACE>>, 2, 1)
Second == Line(1203, <<SPACE, SPACE>>, 17, 0)
Base   == First \o Second

Letter == 120
EditChars == {NUL, NEWLINE, SPACE, DASH, Digit(1), Digit(7), Letter}

With(i, c, from) == SubSeq(Base, 1, i) \o <<c>> \o SubSeq(Base, from, Len(Base))
Edits(c, places) == {With(i, c, i + 1) : i \in places} \cup
                    {With(i, c, i + 2) : i \in places \ {Len(Base)}}

(* Where a digit belongs.  A NUL byte is taken there, against the grammar:  *)
(* the files that have one are a run of their own.                          *)
LineAt(i)   == SubSeq(Base, Max({0} \cup {n \in 1..i : Base[n] = NEWLINE}) + 1, i)
DigitPlaces == {i \in 0..Len(Base) : DigitChars \subseteq Following(SlotsIn(LineAt(i)))}

NulTexts == Edits(NUL, DigitPlaces)
Edited   == UNION {Edits(c, 0..Len(Base)) : c \in EditChars} \ NulTexts
Deleted  == {SubSeq(Base, 1, i - 1) \o SubSeq(Base, i + 1, Len(Base)) : i \in DOMAIN Base}
Cut      == {SubSeq(Base, 1, i) : i \in 0..Len(Base)}
Longer   == {Base \o First, Base \o First \o Second}

McTexts    == Edited \cup Deleted \cup Cut \cup Longer
McNulTexts == NulTexts
=============================================================================
