----------------------------- MODULE MCDatabase ------------------------------
(***************************************************************************)
(* Every file of up to four lines over a few entries.  Narrow keeps the    *)
(* numbers within half of their range, where the wrapped difference orders *)
(* them; Wide spreads them over all of it, as ten-digit numbers taken      *)
(* modulo 2^32 are.                                                        *)
(***************************************************************************)
EXTENDS Database, SequencesExt

McTechs == {1, 2}

Paid(n) == [number |-> n, ttype |-> 1, paid |-> TRUE]

NarrowFiles == BoundedSeq({Paid(3), Paid(4), Paid(6), Paid(9),
                           [Paid(4) EXCEPT !.ttype = 2], Malformed}, 4)
NarrowNumbers == 2..10

WideNumbers == {0, 1, 2, 4, 11}
WideFiles == {[i \in 1..5 |-> Paid(p[i])] : p \in {q \in [1..5 -> WideNumbers] :
                \A i, j \in 1..5 : i # j => q[i] # q[j]}}
=============================================================================
