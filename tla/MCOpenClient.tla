---------------------------- MODULE MCOpenClient -----------------------------
(***************************************************************************)
(* Two client processes and one datagram for each way HandleReply can go:  *)
(* every type of packet, one without an end flag, one cut after the type,  *)
(* one of no packet type and an empty one.                                 *)
(***************************************************************************)
EXTENDS OpenClient

CONSTANTS c1, c2

McClients  == {c1, c2}
McIdOf     == [c \in Clients |-> 0]
McPayloads == {<<1, 5>>}

Verdict(type) == Flatten(DataInfo(type, 0, 0, <<1, 5>>))

McReplies == {Verdict(type) : type \in DataTypes}
             \cup {Flatten(AckInfo(0, 0)), Flatten(RejectInfo(0, DUP_PACK, 0))}
             \cup {[Verdict(ACC_OK) EXCEPT ![8] = 0], SubSeq(Verdict(ACC_OK), 1, 3),
                   [Verdict(ACC_OK) EXCEPT ![3] = 0], <<>>}
=============================================================================
