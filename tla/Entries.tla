------------------------------- MODULE Entries -------------------------------
(***************************************************************************)
(* How the characters of an entry of the database file become numbers      *)
(* (str_to_entry() of database.c).                                         *)
(***************************************************************************)
EXTENDS Ast

CONSTANTS NumMod,       \* size of the range of subscriber_num (2^32)
          SubNumGroups, \* how many digits are between the dashes
          TechDigits    \* TECH_STRLEN (2)

ASSUME EntriesAssumption == /\ NumMod \in Nat \ {0}
                            /\ SubNumGroups \in Seq(Nat \ {0}) /\ SubNumGroups # <<>>
                            /\ TechDigits \in {1, 2}

(* strtol() into an unsigned type of mod values: up to the first NUL.       *)
StrToL(s, mod) == FoldLeft(LAMBDA n, c : (10 * n + (c - Digit(0))) % mod, 0, CString(s))

SUBNUM_STRLEN == FoldLeft(LAMBDA n, g : n + g, 0, SubNumGroups)

StrToEntry(s) ==
  [number |-> StrToL(SubSeq(s, 1, SUBNUM_STRLEN), NumMod),
   ttype  |-> StrToL(SubSeq(s, SUBNUM_STRLEN + 1, SUBNUM_STRLEN + TechDigits), 256),
   paid   |-> s[SUBNUM_STRLEN + TechDigits + 1] = Digit(1)]
=============================================================================
