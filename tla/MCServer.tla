------------------------------ MODULE MCServer -------------------------------
(***************************************************************************)
(* The server on a small instance: two ids, four sequence numbers, every   *)
(* full request for one of two subscribers, and the malformed datagrams    *)
(* that drive each early return of the check, short ones in particular,    *)
(* which the stale cells of the buffer complete.                           *)
(***************************************************************************)
EXTENDS Server

McTechs  == {1, 2}
McDbFile == << [number |-> 5, ttype |-> 1, paid |-> TRUE],
               [number |-> 2, ttype |-> 1, paid |-> FALSE] >>

Request(id, seq, payload) == Flatten(DataInfo(ACC_PER, id, seq, payload))
Whole == Request(0, 0, <<1, 5>>)

Requests == {Request(id, seq, <<1, num>>) :
               id \in ClientId, seq \in SequenceNum, num \in {2, 5}}

Short     == {Request(0, 0, <<>>), Request(0, 1, <<2>>)}
Cut       == {SubSeq(Whole, 1, n) : n \in {1, 4, 7}}
Damaged   == {[Whole EXCEPT ![1] = 0], [Whole EXCEPT ![8] = 0],
              [Whole EXCEPT ![5] = 3], [Whole EXCEPT ![3] = 0]}
OtherType == {Flatten(DataInfo(DATA, 0, 0, <<1, 5>>)), Flatten(AckInfo(0, 0)),
              Flatten(RejectInfo(0, DUP_PACK, 0))}
TooLong   == {Whole \o <<0, 0, 0, 0>>}

McDatagrams == {<<>>} \cup Requests \cup Short \cup Cut \cup Damaged
                      \cup OtherType \cup TooLong

McInitialBuffers == {[i \in 1..BufSize |-> c] : c \in {0, PACKET_END}}
=============================================================================
