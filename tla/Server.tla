------------------------------- MODULE Server --------------------------------
(***************************************************************************)
(* The access server (server.c): one process that takes a datagram from    *)
(* its socket, checks it, answers, and waits for the next one.             *)
(*                                                                         *)
(* The program's state is running, expect_recv, recv_buf and               *)
(* last_recvd_len.  received, request and sent say what the last turn of   *)
(* the loop took in, looked up and handed to sendto(); seen remembers what *)
(* was accepted since the server started.  The code has none of the last   *)
(* four as state and no action is guarded by them.                         *)
(***************************************************************************)
EXTENDS ServerHandlers

CONSTANTS Datagrams,       \* the datagrams that may arrive, <<>> the empty one
          InitialBuffers   \* what the uninitialised recv_buf may hold

ASSUME ServerAssumption ==
  /\ Datagrams \subseteq Seq(Nat)
  /\ InitialBuffers \subseteq [1..BufSize -> Nat]

(***************************************************************************)
(* A byte holds no more than a byte: in a datagram with the type of a      *)
(* request, the cells of the one-byte fields are within their range.  (In  *)
(* other packets these places hold two bytes.)                             *)
(***************************************************************************)
ASSUME FieldsAssumption ==
  \A d \in Datagrams : Len(d) >= HeaderLen /\ d[3] = ACC_PER =>
    d[2] \in ClientId /\ d[4] \in SequenceNum /\ d[5] \in 0..MaxLen

VARIABLES running, expect_recv, recv_buf, last_recvd_len,
          received, request, sent, seen

serverVars == <<running, expect_recv, recv_buf, last_recvd_len,
                received, request, sent, seen>>

NoRequest == [tech |-> -1, num |-> -1]

(***************************************************************************)
(* main() and server_init(): the server object is on the stack, its        *)
(* counters are zeroed and its buffers are not.                            *)
(***************************************************************************)
Init ==
  /\ running = TRUE
  /\ expect_recv = [i \in ClientId |-> 0]
  /\ recv_buf \in InitialBuffers
  /\ last_recvd_len = 0
  /\ received = <<>> /\ request = NoRequest /\ sent = <<>>
  /\ seen = [i \in ClientId |-> {}]

(***************************************************************************)
(* server_process_packet() on the result r of interpreting recv_buf'.      *)
(***************************************************************************)
Refuse(r, code) ==
  /\ sent' = <<Reject(r, code)>>
  /\ request' = NoRequest
  /\ UNCHANGED <<expect_recv, seen>>

Accept(r) ==
  /\ request' = RequestIn(recv_buf')
  /\ sent' = <<SendAck(r.id, expect_recv), Reply(r, recv_buf')>>
  /\ expect_recv' = Increment(expect_recv, r.id)
  /\ seen' = [seen EXCEPT ![r.id] = seen[r.id] \cup {r.seq}]

ProcessPacket(r) ==
  LET code == CheckPacket(r, last_recvd_len', expect_recv)
  IN  IF code # 0 THEN Refuse(r, code) ELSE Accept(r)

(* One turn of the loop in server_run().                                    *)
Receive(d) ==
  /\ running
  /\ d # <<>>
  /\ recv_buf' = Overlay(d, recv_buf)
  /\ last_recvd_len' = RecvdLen(d)
  /\ received' = d
  /\ \E r \in Interpret(recv_buf') : ProcessPacket(r)
  /\ UNCHANGED running

(* An empty datagram ends the loop, and with it the program.                *)
ReceiveEmpty ==
  /\ running
  /\ <<>> \in Datagrams
  /\ running' = FALSE
  /\ UNCHANGED <<expect_recv, recv_buf, last_recvd_len, received, request, sent, seen>>

(* The server is started again, after it stopped or was killed.             *)
Restart ==
  /\ running' = TRUE
  /\ expect_recv' = [i \in ClientId |-> 0]
  /\ recv_buf' \in InitialBuffers
  /\ last_recvd_len' = 0
  /\ received' = <<>> /\ request' = NoRequest /\ sent' = <<>>
  /\ seen' = [i \in ClientId |-> {}]

Next ==
  \/ \E d \in Datagrams : Receive(d)
  \/ ReceiveEmpty
  \/ Restart

Spec == Init /\ [][Next]_serverVars

-----------------------------------------------------------------------------
Accepted == Len(sent) = 2
RejectedWith(code) == Len(sent) = 1 /\ sent[1].code = code

TypeOK ==
  /\ running \in BOOLEAN
  /\ expect_recv \in [ClientId -> SequenceNum]
  /\ recv_buf \in [1..BufSize -> Nat]
  /\ last_recvd_len \in 0..BufSize
  /\ received \in Seq(Nat)
  /\ seen \in [ClientId -> SUBSET SequenceNum]
  /\ Accepted \/ RejectedWith(OUT_OF_SEQ) \/ RejectedWith(DUP_PACK) =>
       sent[1].id \in ClientId /\ sent[1].seq \in SequenceNum

(***************************************************************************)
(* A datagram is only called a duplicate when a request with its id and    *)
(* sequence number was accepted since the server started (server.c:313,    *)
(* the meaning packet.h:57 gives the code).                                *)
(***************************************************************************)
DupMeansReceived ==
  RejectedWith(DUP_PACK) => sent[1].seq \in seen[sent[1].id]

(***************************************************************************)
(* The ACK is built from expect_recv before the increment (server.c:188,   *)
(* 100-101) and the reply from the packet (158): both name the number of   *)
(* the request just accepted, and the counter has moved just past it.      *)
(***************************************************************************)
AckNamesTheRequest ==
  Accepted => /\ sent[1].id = sent[2].id
              /\ sent[1].seq = sent[2].seq
              /\ expect_recv[sent[1].id] = NextSeq(sent[1].seq)

(***************************************************************************)
(* recv_buf keeps the tail of earlier datagrams (nothing clears it between *)
(* two turns of the loop), yet a datagram is accepted only when it is, by  *)
(* itself and to its last cell, a well-formed request: no stale cell ever  *)
(* makes a short or cut datagram acceptable.                               *)
(***************************************************************************)
AcceptedIsWellFormed ==
  Accepted => received = Flatten([sent[2] EXCEPT !.type = ACC_PER])

(***************************************************************************)
(* What is looked up, and what the verdict is about, is what the datagram  *)
(* itself carried between its header and its end flag, whatever recv_buf   *)
(* held before.  It is read from fixed cells, whatever the length field    *)
(* says (server.c:119-124): of a payload that is shorter than send_req()   *)
(* makes it, the part that is there is looked up, and nothing is promised  *)
(* of the rest, which is the end flag and stale cells.                     *)
(***************************************************************************)
LookedUpAsSent ==
  Accepted =>
    LET asked == SubSeq(received, HeaderLen + 1, Len(received) - 1)
    IN  /\ Len(asked) >= 1 => request.tech = asked[1]
        /\ Len(asked) >= 2 =>
             /\ request.num = asked[2]
             /\ sent[2].type = Verdict([tech |-> asked[1], num |-> asked[2]])

(***************************************************************************)
(* No number is accepted a second time for an id before every number was:  *)
(* a redelivered request is harmless for a whole lap of the counter.       *)
(***************************************************************************)
ReacceptOnlyAfterLap ==
  [][Len(sent') = 2 /\ sent'[1].seq \in seen[sent'[1].id]
       => seen[sent'[1].id] = SequenceNum]_expect_recv

(***************************************************************************)
(* A request that arrives again right after it was accepted is called a    *)
(* duplicate, not out of sequence: packet.h:57 says of DUP_PACK "already   *)
(* received before".  False when the counter has just wrapped.             *)
(***************************************************************************)
RepeatIsNotOutOfSeq ==
  RejectedWith(OUT_OF_SEQ) =>
    LET i == sent[1].id IN seen[i] # {} => expect_recv[i] # NextSeq(sent[1].seq)

-----------------------------------------------------------------------------
(***************************************************************************)
(* The server implements SequencedIntake: the round of an id is what its   *)
(* counter has moved past.                                                 *)
(***************************************************************************)
AnswerGiven ==
  LET About(kind) == [kind |-> kind, id |-> sent[1].id, seq |-> sent[1].seq]
  IN  IF sent = <<>> THEN [kind |-> "silent"]
      ELSE IF Accepted THEN About("accepted")
      ELSE IF RejectedWith(DUP_PACK) THEN About("duplicate")
      ELSE IF RejectedWith(OUT_OF_SEQ) THEN About("out of sequence")
      ELSE [kind |-> "malformed"]

Intake == INSTANCE SequencedIntake WITH
            Ids <- ClientId, Numbers <- SequenceNum,
            round <- [i \in ClientId |-> 0..(expect_recv[i] - 1)],
            answer <- AnswerGiven

(* The server accepts and declines as SequencedIntake promises.             *)
ImplementsIntake == Intake!Spec
=============================================================================
