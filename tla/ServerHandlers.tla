--------------------------- MODULE ServerHandlers ----------------------------
(***************************************************************************)
(* What the server computes about one datagram (server.c): the check of    *)
(* the packet and the answer to the request, as functions of the buffer,   *)
(* the received length and the expected sequence numbers.                  *)
(***************************************************************************)
EXTENDS Packets, DbTable

CONSTANT DbFile  \* the lines of the file the server is started with

Table == Load(DbFile)

(***************************************************************************)
(* ++expect_recv[id]: the counter is as wide as a sequence number.         *)
(***************************************************************************)
NextSeqEarly(s) == (s + 1) % MaxSeqNum  \* slip: wraps one number too soon
NextSeqWide(s)  == s + 1                \* slip: a counter wider than the number
NextSeq(s)      == (s + 1) % (MaxSeqNum + 1)

IncrementLost(expect, id) == expect     \* slip: the counter is left alone
Increment(expect, id)     == [expect EXCEPT ![id] = NextSeq(expect[id])]

(* The request as server_handle_req() reads it: the cells where the payload *)
(* of a full request is, whatever the length field says.                    *)
RequestInShifted(buf) ==                \* slip: the length field is not skipped
  [tech |-> buf[HeaderLen], num |-> buf[HeaderLen + 1]]
RequestIn(buf) ==
  [tech |-> buf[HeaderLen + 1], num |-> buf[HeaderLen + 2]]

(***************************************************************************)
(* server_handle_req(): the type of the reply to a request.                *)
(***************************************************************************)
Verdict(request) ==
  LET at == Lookup(Table, request.num)
  IN  IF at = 0 THEN NOT_EXIST
      ELSE IF Table[at].ttype # request.tech THEN NOT_EXIST
      ELSE IF ~Table[at].paid THEN NOT_PAID
      ELSE ACC_OK

(***************************************************************************)
(* server_check_packet(), on a result r of interpret_packet() for a        *)
(* datagram of n cells: 0, or the code to reject it with.  The order of    *)
(* the tests is the code's.                                                *)
(***************************************************************************)
CheckPacketNoLength(r, n, expect) ==    \* slip: the boundary is not compared
  IF r.type # ACC_PER THEN BAD_TYPE
  ELSE IF r.ret # 0 THEN r.ret
  ELSE IF r.seq > expect[r.id] THEN OUT_OF_SEQ
  ELSE IF r.seq < expect[r.id] THEN DUP_PACK
  ELSE 0
CheckPacketSwapped(r, n, expect) ==     \* slip: the two codes exchanged
  IF r.type # ACC_PER THEN BAD_TYPE
  ELSE IF HeaderLen + r.len # n - 1 THEN BAD_LEN
  ELSE IF r.ret # 0 THEN r.ret
  ELSE IF r.seq > expect[r.id] THEN DUP_PACK
  ELSE IF r.seq < expect[r.id] THEN OUT_OF_SEQ
  ELSE 0
CheckPacket(r, n, expect) ==
  IF r.type # ACC_PER THEN BAD_TYPE
  ELSE IF HeaderLen + r.len # n - 1 THEN BAD_LEN
  ELSE IF r.ret # 0 THEN r.ret
  ELSE IF r.seq > expect[r.id] THEN OUT_OF_SEQ
  ELSE IF r.seq < expect[r.id] THEN DUP_PACK
  ELSE 0

(***************************************************************************)
(* What server_send_reject(), server_send_ack() and server_handle_req()    *)
(* send.  The ACK is made before the counter moves, from the counter.      *)
(***************************************************************************)
Reject(r, code) == RejectInfo(r.id, code, r.seq)

SendAckLate(id, expect) == AckInfo(id, NextSeq(expect[id]))  \* slip: after ++
SendAck(id, expect)     == AckInfo(id, expect[id])

Reply(r, buf) ==
  DataInfo(Verdict(RequestIn(buf)), r.id, r.seq,
           SubSeq(buf, HeaderLen + 1, HeaderLen + r.len))
=============================================================================
