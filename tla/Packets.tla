------------------------------- MODULE Packets -------------------------------
(***************************************************************************)
(* The wire format shared by the client and the server (packet.h,          *)
(* packet.c): what flatten() puts on the wire and what interpret_packet()  *)
(* makes of a receive buffer, whatever that buffer holds.                  *)
(*                                                                         *)
(* A datagram is a sequence of cells, one for each field the code writes   *)
(* or reads with one rit_write() or rit_read().  A cell holds the integer  *)
(* of its field; an 8-bit field read from a cell that holds a 16-bit value *)
(* takes the value modulo its own range.                                   *)
(***************************************************************************)
EXTENDS Integers, Sequences

CONSTANTS MaxId,      \* largest client_id        (255 in the code)
          MaxSeqNum,  \* largest sequence_num     (255)
          MaxLen,     \* largest payload_len      (255)
          BufSize     \* cells in a receive buffer (BUFSIZ bytes)

(* A buffer holds the longest data packet, as 8192 bytes hold 264.          *)
ASSUME PacketsAssumption ==
  /\ MaxId \in Nat /\ MaxSeqNum \in Nat \ {0} /\ MaxLen \in Nat
  /\ BufSize \in Nat /\ BufSize >= MaxLen + 7

ClientId    == 0..MaxId
SequenceNum == 0..MaxSeqNum

PACKET_START == 65535
PACKET_END   == 65535

DATA      == 65521
ACK       == 65522
REJECT    == 65523
ACC_PER   == 65528
NOT_PAID  == 65529
NOT_EXIST == 65530
ACC_OK    == 65531

OUT_OF_SEQ == 65524
BAD_LEN    == 65525
NO_END     == 65526
DUP_PACK   == 65527
BAD_TYPE   == 65528

RejectCodes == {OUT_OF_SEQ, BAD_LEN, NO_END, DUP_PACK, BAD_TYPE}
Verdicts    == {NOT_EXIST, NOT_PAID, ACC_OK}
DataTypes   == {DATA, ACC_PER} \cup Verdicts

(* Cells before the payload: start flag, id, type, sequence number, length. *)
HeaderLen == 5

(***************************************************************************)
(* A packet_info that is sent is one of three records.                     *)
(***************************************************************************)
DataInfo(type, id, seq, payload) ==
  [type |-> type, id |-> id, seq |-> seq, payload |-> payload]
AckInfo(id, seq)          == [type |-> ACK, id |-> id, seq |-> seq]
RejectInfo(id, code, seq) == [type |-> REJECT, id |-> id, code |-> code, seq |-> seq]

Content(pi) ==
  CASE pi.type \in DataTypes -> <<pi.seq, Len(pi.payload)>> \o pi.payload
    [] pi.type = ACK         -> <<pi.seq>>
    [] pi.type = REJECT      -> <<pi.code, pi.seq>>

Flatten(pi) == <<PACKET_START, pi.id, pi.type>> \o Content(pi) \o <<PACKET_END>>

(***************************************************************************)
(* recvfrom(): a datagram overwrites the front of the buffer and leaves    *)
(* the rest of it as it was; what does not fit is cut off.                 *)
(***************************************************************************)
Overlay(datagram, buf) ==
  [i \in 1..BufSize |-> IF i <= Len(datagram) THEN datagram[i] ELSE buf[i]]

RecvdLen(datagram) == IF Len(datagram) < BufSize THEN Len(datagram) ELSE BufSize

(***************************************************************************)
(* interpret_packet(): the results it may produce for a buffer.  "seq" is  *)
(* what cont.data_info.seq_num reads afterwards; for a REJECT that member  *)
(* overlays the code, not the sequence number.  After a bad start flag     *)
(* nothing of the packet_info has been written, so its type is ACC_PER or  *)
(* not (DATA stands for every other type); after an unknown type only the  *)
(* id and the type have been.                                              *)
(***************************************************************************)
EndCheck(cell) == IF cell = PACKET_END THEN 0 ELSE NO_END

Interpret(buf) ==
  LET id   == buf[2] % (MaxId + 1)
      type == buf[3]
      seq  == buf[4] % (MaxSeqNum + 1)
      len  == buf[5] % (MaxLen + 1)
      At(ret, n) == {[ret |-> ret, type |-> type, id |-> id, seq |-> seq, len |-> n]}
  IN  IF buf[1] # PACKET_START
        THEN [ret : {NO_END}, type : {ACC_PER, DATA}, id : ClientId,
              seq : SequenceNum, len : 0..MaxLen]
      ELSE IF type \in DataTypes THEN At(EndCheck(buf[HeaderLen + len + 1]), len)
      ELSE IF type = ACK         THEN At(EndCheck(buf[5]), 0)
      ELSE IF type = REJECT      THEN At(EndCheck(buf[6]), 0)
      ELSE [ret : {BAD_TYPE}, type : {type}, id : {id}, seq : SequenceNum, len : {0}]
=============================================================================
