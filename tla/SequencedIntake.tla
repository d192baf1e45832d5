--------------------------- MODULE SequencedIntake ---------------------------
(***************************************************************************)
(* What the server promises about sequence numbers, without its counters:  *)
(* each client id goes through the numbers in rounds.  In a round every    *)
(* number is accepted once, smallest first; a number already accepted in   *)
(* the round is declined as a duplicate, one that comes too soon as out of *)
(* sequence, and a declined datagram changes nothing.                      *)
(***************************************************************************)
EXTENDS Integers

CONSTANTS Ids,      \* the client ids
          Numbers   \* the sequence numbers, a set of integers

VARIABLES round,   \* for each id, the numbers accepted in its current round
          answer   \* what the last datagram was told

vars == <<round, answer>>

Silent    == [kind |-> "silent"]
Malformed == [kind |-> "malformed"]
Answer(kind, i, s) == [kind |-> kind, id |-> i, seq |-> s]

Init == round = [i \in Ids |-> {}] /\ answer = Silent

Missing(i)     == Numbers \ round[i]
IsNext(i, s)   == s \in Missing(i) /\ \A t \in Missing(i) : s <= t

Accept(i, s) ==
  /\ IsNext(i, s)
  /\ round' = [round EXCEPT ![i] = IF Missing(i) = {s} THEN {} ELSE round[i] \cup {s}]
  /\ answer' = Answer("accepted", i, s)

Duplicate(i, s) ==
  /\ s \in round[i]
  /\ answer' = Answer("duplicate", i, s)
  /\ UNCHANGED round

TooSoon(i, s) ==
  /\ s \in Missing(i) /\ ~IsNext(i, s)
  /\ answer' = Answer("out of sequence", i, s)
  /\ UNCHANGED round

Refuse == answer' = Malformed /\ UNCHANGED round

(* The server is started again and remembers nothing.                       *)
Forget == round' = [i \in Ids |-> {}] /\ answer' = Silent

Next ==
  \/ \E i \in Ids, s \in Numbers : Accept(i, s) \/ Duplicate(i, s) \/ TooSoon(i, s)
  \/ Refuse
  \/ Forget

Spec == Init /\ [][Next]_vars
=============================================================================
