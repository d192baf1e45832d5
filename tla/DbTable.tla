------------------------------- MODULE DbTable -------------------------------
(***************************************************************************)
(* The subscriber table (database.c): how a file becomes a sorted array    *)
(* and how an entry is found in it.  A file is a sequence of lines; a line *)
(* is an entry, or Malformed.                                              *)
(***************************************************************************)
EXTENDS Integers, Sequences

CONSTANTS NumMod,      \* size of the range of subscriber_num (2^32)
          MaxEntries,  \* MAX_ENTRIES (4096)
          Techs        \* the technology types in use

ASSUME DbTableAssumption == /\ NumMod \in Nat /\ NumMod % 2 = 0 /\ NumMod > 0
                            /\ MaxEntries \in Nat \ {0}

Entry == [number : 0..(NumMod - 1), ttype : Techs, paid : BOOLEAN]

(* A line the grammar does not derive; no entry has the number -1.          *)
Malformed == [number |-> -1]

(***************************************************************************)
(* compare_sub_num(): the difference of two unsigned numbers, wrapped to   *)
(* the width of the type and returned as a signed integer.                 *)
(***************************************************************************)
Signed(x) == LET m == x % NumMod IN IF m >= NumMod \div 2 THEN m - NumMod ELSE m

CompareGreater(a, b) == IF a > b THEN 1 ELSE 0  \* slip: a Boolean for a three-way result
Compare(a, b)        == Signed(a - b)

(***************************************************************************)
(* qsort() of the C library, as glibc does it: a top-down merge sort that  *)
(* takes the left element of two that compare as equal.                    *)
(***************************************************************************)
Merge[p \in Seq(Entry) \X Seq(Entry)] ==
  LET a == p[1]
      b == p[2]
  IN  IF a = <<>> \/ b = <<>> THEN a \o b
      ELSE IF Compare(Head(a).number, Head(b).number) <= 0
           THEN <<Head(a)>> \o Merge[<<Tail(a), b>>]
           ELSE <<Head(b)>> \o Merge[<<a, Tail(b)>>]

QSort[s \in Seq(Entry)] ==
  LET half == Len(s) \div 2
  IN  IF half = 0 THEN s
      ELSE Merge[<<QSort[SubSeq(s, 1, half)], QSort[SubSeq(s, half + 1, Len(s))]>>]

(* A search for num among the elements l..u-1 of the table.                 *)
Searches == [table : Seq(Entry), num : Int, l : Nat, u : Nat]

(***************************************************************************)
(* bsearch() of the C library, on the elements l..u-1 of the table, which  *)
(* C counts from 0: the index of an entry that compares equal to the key,  *)
(* 0 for NULL.                                                             *)
(***************************************************************************)
BSearch[s \in Searches] ==
  LET mid == (s.l + s.u) \div 2
      c   == Compare(s.num, s.table[mid + 1].number)
  IN  IF s.l >= s.u THEN 0
      ELSE IF c < 0 THEN BSearch[[s EXCEPT !.u = mid]]
      ELSE IF c > 0 THEN BSearch[[s EXCEPT !.l = mid + 1]]
      ELSE mid + 1

Lookup(table, num) ==
  BSearch[[table |-> table, num |-> num, l |-> 0, u |-> Len(table)]]

(***************************************************************************)
(* parse_database_file(): the parser takes entries up to the first line    *)
(* the grammar does not derive (one-or-more, with no end-of-input anchor), *)
(* and fails when there is none.  The capacity check runs at every node of *)
(* the tree, the root after the last entry included, so a table that is    *)
(* exactly full is refused.                                                *)
(***************************************************************************)
ParsedLines(file) ==
  {n \in 0..Len(file) : \A i \in 1..n : file[i] # Malformed}

Parsed(file) ==
  SubSeq(file, 1, CHOOSE n \in ParsedLines(file) : \A m \in ParsedLines(file) : m <= n)

LoadsFull(file) == Len(Parsed(file)) \in 1..MaxEntries  \* slip: > for >=
Loads(file)     == Len(Parsed(file)) \in 1..(MaxEntries - 1)

LoadAsRead(file) == Parsed(file)        \* slip: the array is not sorted
Load(file)       == QSort[Parsed(file)]
=============================================================================
