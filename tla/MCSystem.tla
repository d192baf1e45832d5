------------------------------ MODULE MCSystem -------------------------------
(***************************************************************************)
(* Two client processes that were started with the same id, and a server   *)
(* that knows a subscriber who has paid and one who has not.  With two     *)
(* numbers the counter wraps within the calls that are made.               *)
(***************************************************************************)
EXTENDS System, TLC

CONSTANTS c1, c2

McTechs   == {1, 2}
McClients == {c1, c2}
McIdOf    == [c \in Clients |-> 0]
McDbFile  == << [number |-> 5, ttype |-> 1, paid |-> TRUE],
                [number |-> 2, ttype |-> 1, paid |-> FALSE] >>

McPayloads  == {<<1, 5>>, <<1, 2>>}
McDatagrams == {Flatten(pi) : pi \in UNION {Requests(c) : c \in Clients}}

McInitialBuffers == {[i \in 1..BufSize |-> 0]}

(***************************************************************************)
(* What a step depends on.  Left out are the variables no guard reads and  *)
(* no checked property of the system mentions, the request of a call,      *)
(* which issued has, and the receive buffer, whose stale cells a whole     *)
(* request never reaches (AcceptedIsWellFormed).                           *)
(***************************************************************************)
Ending(c) == IF outcome[c] \in Verdicts THEN outcome[c] ELSE NO_OUTCOME

StateView == <<running, expect_recv, phase, tries, sock, [c \in Clients |-> Ending(c)],
               netVars, histVars>>

Symmetry == Permutations(Clients)
=============================================================================
