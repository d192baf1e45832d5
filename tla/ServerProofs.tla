---------------------------- MODULE ServerProofs -----------------------------
(***************************************************************************)
(* Theorems about the server, for every number of ids, every width of a    *)
(* sequence number, every table and every set of datagrams.                *)
(***************************************************************************)
EXTENDS Server, TLAPS

(***************************************************************************)
(* What has been accepted for an id is what its counter has moved past, or *)
(* everything, once the counter has been round.                            *)
(***************************************************************************)
SeenIsRound ==
  \A i \in ClientId : seen[i] = 0..(expect_recv[i] - 1) \/ seen[i] = SequenceNum

(* The inductive invariant.                                                 *)
IInv == TypeOK /\ SeenIsRound /\ DupMeansReceived /\ AckNamesTheRequest

-----------------------------------------------------------------------------
(* The counter stays in the range of a sequence number, and moves by one or *)
(* wraps from the last number to zero.                                      *)
LEMMA NextSeqWraps ==
  ASSUME NEW s \in SequenceNum
  PROVE  /\ NextSeq(s) \in SequenceNum
         /\ s # MaxSeqNum => NextSeq(s) = s + 1
         /\ s = MaxSeqNum => NextSeq(s) = 0
  <1>1. CASE s = MaxSeqNum
    BY <1>1, PacketsAssumption DEF NextSeq, SequenceNum
  <1>2. CASE s # MaxSeqNum
    BY <1>2, PacketsAssumption DEF NextSeq, SequenceNum
  <1> QED BY <1>1, <1>2

(* Whatever the buffer holds, interpret_packet() yields an id and a         *)
(* sequence number of their types, and never a code about the sequence.     *)
LEMMA InterpretedInRange ==
  ASSUME NEW buf \in [1..BufSize -> Nat], NEW r \in Interpret(buf)
  PROVE  /\ r.id \in ClientId /\ r.seq \in SequenceNum
         /\ r.ret \notin {OUT_OF_SEQ, DUP_PACK}
  <1>1. buf[2] \in Nat /\ buf[4] \in Nat
    BY PacketsAssumption
  <1>2. buf[2] % (MaxId + 1) \in ClientId /\ buf[4] % (MaxSeqNum + 1) \in SequenceNum
    BY <1>1, PacketsAssumption DEF ClientId, SequenceNum
  <1>3. \A c : EndCheck(c) \notin {OUT_OF_SEQ, DUP_PACK}
    BY DEF EndCheck, OUT_OF_SEQ, DUP_PACK, NO_END
  <1> QED BY <1>2, <1>3 DEF Interpret, OUT_OF_SEQ, DUP_PACK, NO_END, BAD_TYPE

(* What each code of the check says of the sequence number.                 *)
LEMMA CheckPacketCodes ==
  ASSUME NEW r, NEW n, NEW expect \in [ClientId -> SequenceNum],
         r.id \in ClientId, r.seq \in SequenceNum, r.ret \notin {OUT_OF_SEQ, DUP_PACK}
  PROVE  /\ CheckPacket(r, n, expect) = 0 => r.seq = expect[r.id]
         /\ CheckPacket(r, n, expect) = DUP_PACK => r.seq < expect[r.id]
         /\ CheckPacket(r, n, expect) = OUT_OF_SEQ => r.seq > expect[r.id]
  <1>1. expect[r.id] \in Int /\ r.seq \in Int
    BY PacketsAssumption DEF SequenceNum
  <1> QED BY <1>1 DEF CheckPacket, BAD_TYPE, BAD_LEN, OUT_OF_SEQ, DUP_PACK

(* A datagram leaves a buffer of the same size, and a length within it.     *)
LEMMA OverlayType ==
  ASSUME NEW d \in Seq(Nat), NEW buf \in [1..BufSize -> Nat]
  PROVE  Overlay(d, buf) \in [1..BufSize -> Nat] /\ RecvdLen(d) \in 0..BufSize
  BY PacketsAssumption DEF Overlay, RecvdLen

-----------------------------------------------------------------------------
LEMMA InitInv == Init => IInv
  <1> SUFFICES ASSUME Init PROVE IInv
    OBVIOUS
  <1>1. TypeOK
    BY PacketsAssumption, ServerAssumption
    DEF Init, TypeOK, SequenceNum, Accepted, RejectedWith
  <1>2. SeenIsRound
    BY DEF Init, SeenIsRound
  <1>3. DupMeansReceived /\ AckNamesTheRequest
    BY DEF Init, DupMeansReceived, AckNamesTheRequest, Accepted, RejectedWith
  <1> QED BY <1>1, <1>2, <1>3 DEF IInv

(* One turn of the loop: a refused datagram moves nothing, an accepted one  *)
(* adds the number the counter stood at to what has been seen.              *)
LEMMA ReceiveInv ==
  ASSUME IInv, NEW d \in Datagrams, Receive(d)
  PROVE  IInv'
  <1>1. recv_buf' \in [1..BufSize -> Nat] /\ last_recvd_len' \in 0..BufSize
    BY OverlayType, ServerAssumption DEF IInv, TypeOK, Receive
  <1>2. PICK r \in Interpret(recv_buf') : ProcessPacket(r)
    BY DEF Receive
  <1> DEFINE code == CheckPacket(r, last_recvd_len', expect_recv)
  <1>3. expect_recv \in [ClientId -> SequenceNum]
    BY DEF IInv, TypeOK
  <1>4. r.id \in ClientId /\ r.seq \in SequenceNum /\ r.ret \notin {OUT_OF_SEQ, DUP_PACK}
    BY <1>1, InterpretedInRange
  <1>5. /\ code = 0 => r.seq = expect_recv[r.id]
        /\ code = DUP_PACK => r.seq < expect_recv[r.id]
    BY <1>3, <1>4, CheckPacketCodes
  <1> HIDE DEF code
  <1>6. received' \in Seq(Nat) /\ running' \in BOOLEAN
    BY ServerAssumption DEF IInv, TypeOK, Receive
  <1>7. CASE code # 0
    <2>1. Refuse(r, code)
      BY <1>2, <1>7 DEF ProcessPacket, code
    <2>2. Len(sent') = 1 /\ sent'[1] = RejectInfo(r.id, code, r.seq)
      BY <2>1 DEF Refuse, Reject
    <2>3. TypeOK'
      BY <1>1, <1>4, <1>6, <2>1, <2>2 DEF IInv, TypeOK, Refuse, RejectInfo, Accepted, RejectedWith
    <2>4. SeenIsRound'
      BY <2>1 DEF IInv, SeenIsRound, Refuse
    <2>5. DupMeansReceived'
      <3>1. SUFFICES ASSUME code = DUP_PACK PROVE r.seq \in seen'[r.id]
        BY <2>2 DEF DupMeansReceived, RejectedWith, RejectInfo
      <3>2. r.seq \in 0..(expect_recv[r.id] - 1)
        BY <1>3, <1>4, <1>5, <3>1, PacketsAssumption DEF SequenceNum
      <3>3. seen[r.id] = 0..(expect_recv[r.id] - 1) \/ seen[r.id] = SequenceNum
        BY <1>4 DEF IInv, SeenIsRound
      <3> QED BY <1>4, <2>1, <3>2, <3>3 DEF Refuse
    <2>6. AckNamesTheRequest'
      BY <2>2 DEF AckNamesTheRequest, Accepted
    <2> QED BY <2>3, <2>4, <2>5, <2>6 DEF IInv
  <1>8. CASE code = 0
    <2> DEFINE i == r.id
               reply == Reply(r, recv_buf')
    <2>1. Accept(r)
      BY <1>2, <1>8 DEF ProcessPacket, code
    <2>2. /\ Len(sent') = 2
          /\ sent'[1] = AckInfo(i, expect_recv[i])
          /\ sent'[2] = reply
      BY <2>1 DEF Accept, SendAck
    <2>3. reply.id = i /\ reply.seq = r.seq
      BY DEF Reply, DataInfo
    <2>4. /\ expect_recv' = [expect_recv EXCEPT ![i] = NextSeq(expect_recv[i])]
          /\ seen' = [seen EXCEPT ![i] = seen[i] \cup {r.seq}]
      BY <2>1 DEF Accept, Increment
    <2>5. r.seq = expect_recv[i]
      BY <1>5, <1>8
    <2>6. NextSeq(expect_recv[i]) \in SequenceNum
      BY <1>3, <1>4, NextSeqWraps
    <2>7. TypeOK'
      <3>1. expect_recv' \in [ClientId -> SequenceNum] /\ seen' \in [ClientId -> SUBSET SequenceNum]
        BY <1>3, <1>4, <2>4, <2>6 DEF IInv, TypeOK
      <3> QED BY <1>1, <1>3, <1>4, <1>6, <2>2, <3>1 DEF TypeOK, AckInfo, Accepted, RejectedWith
    <2>8. SeenIsRound'
      <3>1. SUFFICES ASSUME NEW j \in ClientId
                     PROVE  seen'[j] = 0..(expect_recv'[j] - 1) \/ seen'[j] = SequenceNum
        BY DEF SeenIsRound
      <3>2. seen[j] = 0..(expect_recv[j] - 1) \/ seen[j] = SequenceNum
        BY DEF IInv, SeenIsRound
      <3>3. CASE j # i
        BY <1>3, <2>4, <3>2, <3>3 DEF IInv, TypeOK
      <3>4. CASE j = i
        <4>1. seen'[i] = seen[i] \cup {expect_recv[i]} /\ expect_recv'[i] = NextSeq(expect_recv[i])
          BY <1>3, <1>4, <2>4, <2>5 DEF IInv, TypeOK
        <4>2. expect_recv[i] \in SequenceNum
          BY <1>3, <1>4
        <4>3. CASE seen[i] = SequenceNum
          BY <3>4, <4>1, <4>2, <4>3
        <4>4. CASE seen[i] = 0..(expect_recv[i] - 1) /\ expect_recv[i] # MaxSeqNum
          <5>1. NextSeq(expect_recv[i]) = expect_recv[i] + 1
            BY <4>2, <4>4, NextSeqWraps
          <5>2. 0..(expect_recv[i] - 1) \cup {expect_recv[i]} = 0..expect_recv[i]
            BY <4>2, PacketsAssumption DEF SequenceNum
          <5> QED BY <3>4, <4>1, <4>2, <4>4, <5>1, <5>2, PacketsAssumption DEF SequenceNum
        <4>5. CASE seen[i] = 0..(expect_recv[i] - 1) /\ expect_recv[i] = MaxSeqNum
          <5>1. 0..(MaxSeqNum - 1) \cup {MaxSeqNum} = SequenceNum
            BY PacketsAssumption DEF SequenceNum
          <5> QED BY <3>4, <4>1, <4>5, <5>1
        <4> QED BY <3>2, <3>4, <4>3, <4>4, <4>5
      <3> QED BY <3>3, <3>4
    <2>9. DupMeansReceived'
      BY <2>2 DEF DupMeansReceived, RejectedWith
    <2>10. AckNamesTheRequest'
      BY <1>3, <1>4, <2>2, <2>3, <2>4, <2>5 DEF AckNamesTheRequest, Accepted, AckInfo
    <2> QED BY <2>7, <2>8, <2>9, <2>10 DEF IInv
  <1> QED BY <1>7, <1>8

LEMMA RestartInv ==
  ASSUME Restart
  PROVE  IInv'
  <1>1. TypeOK'
    BY PacketsAssumption, ServerAssumption
    DEF Restart, TypeOK, SequenceNum, Accepted, RejectedWith
  <1>2. SeenIsRound'
    BY DEF Restart, SeenIsRound
  <1>3. DupMeansReceived' /\ AckNamesTheRequest'
    BY DEF Restart, DupMeansReceived, AckNamesTheRequest, Accepted, RejectedWith
  <1> QED BY <1>1, <1>2, <1>3 DEF IInv

(* A step that leaves the counters and the last answer alone keeps it.      *)
LEMMA IdleInv ==
  ASSUME IInv, running' \in BOOLEAN,
         UNCHANGED <<expect_recv, recv_buf, last_recvd_len, received, request, sent, seen>>
  PROVE  IInv'
  BY DEF IInv, TypeOK, SeenIsRound, DupMeansReceived, AckNamesTheRequest,
         Accepted, RejectedWith

LEMMA StepInv == IInv /\ [Next]_serverVars => IInv'
  <1> SUFFICES ASSUME IInv, [Next]_serverVars PROVE IInv'
    OBVIOUS
  <1>1. ASSUME NEW d \in Datagrams, Receive(d) PROVE IInv'
    BY <1>1, ReceiveInv
  <1>2. CASE ReceiveEmpty
    BY <1>2, IdleInv DEF ReceiveEmpty
  <1>3. CASE Restart
    BY <1>3, RestartInv
  <1>4. CASE UNCHANGED serverVars
    BY <1>4, IdleInv DEF serverVars, IInv, TypeOK
  <1> QED BY <1>1, <1>2, <1>3, <1>4 DEF Next

(* The inductive invariant holds in every behaviour of the server.         *)
THEOREM ServerInvariant == Spec => []IInv
  BY InitInv, StepInv, PTL DEF Spec

(* Counters, buffers and answers keep their types: the 8-bit counter wraps *)
(* and never leaves the range of a sequence number.                        *)
THEOREM ServerTypeCorrect == Spec => []TypeOK
  BY ServerInvariant, PTL DEF IInv

(* Nothing is called a duplicate that was not accepted since the start.     *)
THEOREM ServerDupMeansReceived == Spec => []DupMeansReceived
  BY ServerInvariant, PTL DEF IInv

(* ACK and reply name the request, and the counter is just past it.         *)
THEOREM ServerAckNamesTheRequest == Spec => []AckNamesTheRequest
  BY ServerInvariant, PTL DEF IInv

-----------------------------------------------------------------------------
(* A step whose answer has two packets and that moves the counters is an    *)
(* acceptance, and what it accepts is the number the counter stood at.      *)
LEMMA AcceptanceStep ==
  ASSUME IInv, [Next]_serverVars, Len(sent') = 2, expect_recv' # expect_recv
  PROVE  /\ sent'[1].id \in ClientId
         /\ sent'[1].seq = expect_recv[sent'[1].id]
  <1>1. ASSUME NEW d \in Datagrams, Receive(d)
        PROVE  sent'[1].id \in ClientId /\ sent'[1].seq = expect_recv[sent'[1].id]
    <2>1. recv_buf' \in [1..BufSize -> Nat]
      BY <1>1, OverlayType, ServerAssumption DEF IInv, TypeOK, Receive
    <2>2. PICK r \in Interpret(recv_buf') : ProcessPacket(r)
      BY <1>1 DEF Receive
    <2>3. r.id \in ClientId
      BY <2>1, InterpretedInRange
    <2>4. Accept(r)
      BY <2>2 DEF ProcessPacket, Refuse
    <2> QED BY <2>3, <2>4 DEF Accept, SendAck, AckInfo
  <1>2. ~ReceiveEmpty /\ ~Restart /\ ~UNCHANGED serverVars
    BY DEF ReceiveEmpty, Restart, serverVars
  <1> QED BY <1>1, <1>2 DEF Next

(* A number is accepted again for an id only after the counter has been     *)
(* through all of them.                                                     *)
THEOREM ServerReacceptOnlyAfterLap == Spec => ReacceptOnlyAfterLap
  <1> DEFINE i == sent'[1].id
             Lap == Len(sent') = 2 /\ sent'[1].seq \in seen[i] => seen[i] = SequenceNum
  <1>1. IInv /\ [Next]_serverVars => [Lap]_expect_recv
    <2>1. SUFFICES ASSUME IInv, [Next]_serverVars, expect_recv' # expect_recv,
                          Len(sent') = 2, sent'[1].seq \in seen[i]
                   PROVE  seen[i] = SequenceNum
      OBVIOUS
    <2>2. i \in ClientId /\ expect_recv[i] \in seen[i]
      BY <2>1, AcceptanceStep
    <2>3. expect_recv[i] \in Int
      BY <2>1, <2>2, PacketsAssumption DEF IInv, TypeOK, SequenceNum
    <2>4. expect_recv[i] \notin 0..(expect_recv[i] - 1)
      BY <2>3
    <2> QED BY <2>1, <2>2, <2>4 DEF IInv, SeenIsRound
  <1> QED BY <1>1, ServerInvariant, PTL DEF Spec, ReacceptOnlyAfterLap
-----------------------------------------------------------------------------
(* The refinement mapping: the round of an id is what its counter is past.  *)
Round == [i \in ClientId |-> 0..(expect_recv[i] - 1)]

(* The numbers missing from a round start with the one the counter is at.   *)
LEMMA NextOfRound ==
  ASSUME NEW e \in SequenceNum, NEW s \in SequenceNum
  PROVE  /\ s \in SequenceNum \ 0..(e - 1) <=> s >= e
         /\ s = e => \A t \in SequenceNum \ 0..(e - 1) : s <= t
         /\ s > e => \E t \in SequenceNum \ 0..(e - 1) : ~(s <= t)
         /\ SequenceNum \ 0..(e - 1) = {e} <=> e = MaxSeqNum
  <1> USE PacketsAssumption DEF SequenceNum
  <1>1. s \in SequenceNum \ 0..(e - 1) <=> s >= e
    OBVIOUS
  <1>2. s = e => \A t \in SequenceNum \ 0..(e - 1) : s <= t
    OBVIOUS
  <1>3. s > e => \E t \in SequenceNum \ 0..(e - 1) : ~(s <= t)
    <2>1. e \in SequenceNum \ 0..(e - 1) /\ (s > e => ~(s <= e))
      OBVIOUS
    <2> QED BY <2>1
  <1>4. CASE e = MaxSeqNum
    BY <1>4
  <1>5. CASE e # MaxSeqNum
    <2>1. e + 1 \in SequenceNum \ 0..(e - 1) /\ e + 1 # e
      BY <1>5
    <2> QED BY <1>1, <1>2, <1>3, <1>5, <2>1
  <1> QED BY <1>1, <1>2, <1>3, <1>4, <1>5

(* A turn of the loop is an acceptance of the next number of the round, or  *)
(* a refusal the round justifies.                                           *)
LEMMA ReceiveImplements ==
  ASSUME IInv, NEW d \in Datagrams, Receive(d)
  PROVE  Intake!Next
  <1>1. recv_buf' \in [1..BufSize -> Nat]
    BY OverlayType, ServerAssumption DEF IInv, TypeOK, Receive
  <1>2. PICK r \in Interpret(recv_buf') : ProcessPacket(r)
    BY DEF Receive
  <1> DEFINE code == CheckPacket(r, last_recvd_len', expect_recv)
             i == r.id
             s == r.seq
             e == expect_recv[i]
  <1>3. expect_recv \in [ClientId -> SequenceNum]
    BY DEF IInv, TypeOK
  <1>4. i \in ClientId /\ s \in SequenceNum /\ r.ret \notin {OUT_OF_SEQ, DUP_PACK}
    BY <1>1, InterpretedInRange
  <1>5. /\ code = 0 => s = e
        /\ code = DUP_PACK => s < e
        /\ code = OUT_OF_SEQ => s > e
    BY <1>3, <1>4, CheckPacketCodes
  <1>6. e \in SequenceNum /\ e \in Int /\ s \in Int
    BY <1>3, <1>4, PacketsAssumption DEF SequenceNum
  <1>7. Intake!Missing(i) = SequenceNum \ 0..(e - 1)
    BY <1>4 DEF Intake!Missing
  <1>8. /\ s \in Intake!Missing(i) <=> s >= e
        /\ s = e => Intake!IsNext(i, s)
        /\ s > e => ~Intake!IsNext(i, s)
        /\ Intake!Missing(i) = {e} <=> e = MaxSeqNum
    BY <1>4, <1>6, <1>7, NextOfRound DEF Intake!IsNext
  <1> HIDE DEF code
  <1>9. CASE code # 0
    <2>1. Refuse(r, code)
      BY <1>2, <1>9 DEF ProcessPacket, code
    <2>2. sent' = <<RejectInfo(i, code, s)>> /\ UNCHANGED Round
      BY <2>1 DEF Refuse, Reject, Round
    <2>3. /\ sent' # <<>> /\ Len(sent') = 1
          /\ sent'[1].code = code /\ sent'[1].id = i /\ sent'[1].seq = s
      BY <2>2 DEF RejectInfo
    <2>4. CASE code = DUP_PACK
      <3>1. AnswerGiven' = Intake!Answer("duplicate", i, s)
        BY <2>3, <2>4 DEF AnswerGiven, Accepted, RejectedWith, Intake!Answer
      <3>2. s \in Round[i]
        BY <1>4, <1>5, <1>6, <2>4, PacketsAssumption DEF Round, SequenceNum
      <3>3. Intake!Duplicate(i, s)
        BY <2>2, <3>1, <3>2 DEF Intake!Duplicate, Round
      <3> QED BY <1>4, <3>3 DEF Intake!Next
    <2>5. CASE code = OUT_OF_SEQ
      <3>1. AnswerGiven' = Intake!Answer("out of sequence", i, s)
        BY <2>3, <2>5 DEF AnswerGiven, Accepted, RejectedWith, Intake!Answer,
                          OUT_OF_SEQ, DUP_PACK
      <3>2. s \in Intake!Missing(i) /\ ~Intake!IsNext(i, s)
        BY <1>5, <1>6, <1>8, <2>5
      <3>3. Intake!TooSoon(i, s)
        BY <2>2, <3>1, <3>2 DEF Intake!TooSoon, Round
      <3> QED BY <1>4, <3>3 DEF Intake!Next
    <2>6. CASE code \notin {DUP_PACK, OUT_OF_SEQ}
      <3>1. AnswerGiven' = Intake!Malformed
        <4>1. /\ ~(sent' = <<>>) /\ ~Accepted'
              /\ ~RejectedWith(DUP_PACK)' /\ ~RejectedWith(OUT_OF_SEQ)'
          BY <2>3, <2>6 DEF Accepted, RejectedWith
        <4> QED BY <4>1 DEF AnswerGiven, Intake!Malformed
      <3>2. Intake!Refuse
        BY <2>2, <3>1 DEF Intake!Refuse, Round
      <3> QED BY <3>2 DEF Intake!Next
    <2> QED BY <2>4, <2>5, <2>6
  <1>10. CASE code = 0
    <2>1. Accept(r)
      BY <1>2, <1>10 DEF ProcessPacket, code
    <2>2. /\ Len(sent') = 2 /\ sent' # <<>>
          /\ sent'[1] = AckInfo(i, e)
          /\ expect_recv' = [expect_recv EXCEPT ![i] = NextSeq(e)]
      BY <2>1 DEF Accept, SendAck, Increment
    <2>3. s = e /\ s \in Intake!Missing(i) /\ Intake!IsNext(i, s)
      BY <1>5, <1>6, <1>8, <1>10
    <2>4. AnswerGiven' = Intake!Answer("accepted", i, s)
      BY <2>2, <2>3 DEF AnswerGiven, Accepted, AckInfo, Intake!Answer
    <2>5. Round' = [Round EXCEPT ![i] = IF e = MaxSeqNum THEN {} ELSE Round[i] \cup {s}]
      <3>1. 0..(NextSeq(e) - 1) = IF e = MaxSeqNum THEN {} ELSE 0..(e - 1) \cup {e}
        <4>1. CASE e = MaxSeqNum
          BY <1>6, <4>1, NextSeqWraps
        <4>2. CASE e # MaxSeqNum
          <5>1. NextSeq(e) = e + 1
            BY <1>6, <4>2, NextSeqWraps
          <5>2. 0..e = 0..(e - 1) \cup {e}
            BY <1>6, PacketsAssumption DEF SequenceNum
          <5> QED BY <1>6, <4>2, <5>1, <5>2
        <4> QED BY <4>1, <4>2
      <3> QED BY <1>3, <1>4, <2>2, <2>3, <3>1 DEF Round
    <2>6. Intake!Accept(i, s)
      BY <1>8, <2>3, <2>4, <2>5 DEF Intake!Accept, Round
    <2> QED BY <1>4, <2>6 DEF Intake!Next
  <1> QED BY <1>9, <1>10

LEMMA RestartImplements ==
  ASSUME Restart
  PROVE  Intake!Next
  <1>1. Round' = [i \in ClientId |-> {}]
    BY DEF Restart, Round
  <1>2. AnswerGiven' = Intake!Silent
    BY DEF Restart, AnswerGiven, Intake!Silent
  <1>3. Intake!Forget
    BY <1>1, <1>2 DEF Intake!Forget, Round
  <1> QED BY <1>3 DEF Intake!Next

(* The server implements the abstract intake: counters that wrap go through *)
(* the numbers in complete rounds, and every answer is justified by the     *)
(* round it is given in.                                                    *)
THEOREM ServerImplementsIntake == Spec => ImplementsIntake
  <1>1. Init => Intake!Init
    BY DEF Init, Intake!Init, AnswerGiven, Intake!Silent
  <1>2. IInv /\ [Next]_serverVars => [Intake!Next]_(Intake!vars)
    <2> SUFFICES ASSUME IInv, [Next]_serverVars PROVE [Intake!Next]_(Intake!vars)
      OBVIOUS
    <2>1. ASSUME NEW d \in Datagrams, Receive(d) PROVE Intake!Next
      BY <2>1, ReceiveImplements
    <2>2. CASE ReceiveEmpty \/ UNCHANGED serverVars
      BY <2>2 DEF ReceiveEmpty, serverVars, Intake!vars, AnswerGiven, Accepted, RejectedWith
    <2>3. CASE Restart
      BY <2>3, RestartImplements
    <2> QED BY <2>1, <2>2, <2>3 DEF Next
  <1> QED BY <1>1, <1>2, ServerInvariant, PTL DEF Spec, Intake!Spec, ImplementsIntake

-----------------------------------------------------------------------------
(* A packet that passes the check, and how its cells lie in the datagram.   *)
LEMMA AcceptedCells ==
  ASSUME NEW d \in Datagrams, NEW buf \in [1..BufSize -> Nat],
         NEW r \in Interpret(Overlay(d, buf)), NEW expect, CheckPacket(r, RecvdLen(d), expect) = 0
  PROVE  /\ r.len \in 0..MaxLen /\ Len(d) = HeaderLen + r.len + 1 /\ Len(d) <= BufSize
         /\ d[1] = PACKET_START /\ d[2] = r.id /\ d[3] = ACC_PER /\ d[4] = r.seq /\ d[5] = r.len
         /\ d[Len(d)] = PACKET_END
  <1> DEFINE b == Overlay(d, buf)
  <1>1. d \in Seq(Nat) /\ Len(d) \in Nat /\ b \in [1..BufSize -> Nat]
    BY ServerAssumption, OverlayType
  <1>2. r.type = ACC_PER /\ r.ret = 0 /\ HeaderLen + r.len = RecvdLen(d) - 1
    BY DEF CheckPacket, BAD_TYPE, BAD_LEN, OUT_OF_SEQ, DUP_PACK
  <1>3. b[1] = PACKET_START
    BY <1>2 DEF Interpret, NO_END
  <1>4. b[3] = ACC_PER
    BY <1>2, <1>3 DEF Interpret, BAD_TYPE
  <1>5. /\ r.id = b[2] % (MaxId + 1) /\ r.seq = b[4] % (MaxSeqNum + 1)
        /\ r.len = b[5] % (MaxLen + 1) /\ r.ret = EndCheck(b[HeaderLen + r.len + 1])
    BY <1>3, <1>4 DEF Interpret, DataTypes
  <1> DEFINE len == b[5] % (MaxLen + 1)
  <1>6. /\ r.len = len /\ HeaderLen + len = RecvdLen(d) - 1
        /\ b[HeaderLen + len + 1] = PACKET_END
    BY <1>2, <1>5 DEF EndCheck, NO_END
  <1>7. b[2] \in Nat /\ b[4] \in Nat /\ b[5] \in Nat
    BY <1>1, PacketsAssumption
  <1>8. len \in 0..MaxLen
    BY <1>7, PacketsAssumption
  <1> HIDE DEF len
  <1>9. Len(d) = HeaderLen + len + 1 /\ Len(d) < BufSize
    BY <1>1, <1>6, <1>8, PacketsAssumption DEF RecvdLen, HeaderLen
  <1>10. \A i \in 1..Len(d) : b[i] = d[i]
    BY <1>1, <1>9, PacketsAssumption DEF Overlay
  <1>11. /\ b[1] = d[1] /\ b[2] = d[2] /\ b[3] = d[3] /\ b[4] = d[4] /\ b[5] = d[5]
         /\ b[Len(d)] = d[Len(d)]
    BY <1>8, <1>9, <1>10, PacketsAssumption DEF HeaderLen
  <1>12. d[2] \in ClientId /\ d[4] \in SequenceNum /\ d[5] \in 0..MaxLen
    <2>1. Len(d) >= HeaderLen
      BY <1>8, <1>9, PacketsAssumption DEF HeaderLen
    <2>2. d[3] = ACC_PER
      BY <1>4, <1>11
    <2> QED BY <2>1, <2>2, FieldsAssumption
  <1>13. \A n \in Nat : \A x \in 0..n : x % (n + 1) = x
    OBVIOUS
  <1>14. d[2] % (MaxId + 1) = d[2] /\ d[4] % (MaxSeqNum + 1) = d[4] /\ d[5] % (MaxLen + 1) = d[5]
    BY <1>12, <1>13, PacketsAssumption DEF ClientId, SequenceNum
  <1>15. d[2] = r.id /\ d[4] = r.seq /\ d[5] = len
    BY <1>5, <1>11, <1>14 DEF len
  <1>16. d[Len(d)] = PACKET_END
    BY <1>6, <1>9, <1>11
  <1> QED BY <1>3, <1>4, <1>6, <1>8, <1>9, <1>11, <1>15, <1>16, PacketsAssumption

(* A packet_info with another type.                                         *)
LEMMA Retyped ==
  ASSUME NEW type, NEW id, NEW seq, NEW payload, NEW other
  PROVE  [DataInfo(type, id, seq, payload) EXCEPT !.type = other]
           = DataInfo(other, id, seq, payload)
  <1> DEFINE x == [type |-> type, id |-> id, seq |-> seq, payload |-> payload]
  <1>1. /\ x \in [type : {type}, id : {id}, seq : {seq}, payload : {payload}]
        /\ x.id = id /\ x.seq = seq /\ x.payload = payload
    OBVIOUS
  <1> HIDE DEF x
  <1>2. [x EXCEPT !.type = other] = [type |-> other, id |-> id, seq |-> seq, payload |-> payload]
    BY <1>1
  <1>3. DataInfo(type, id, seq, payload) = x
    BY DEF x, DataInfo
  <1>4. DataInfo(other, id, seq, payload)
          = [type |-> other, id |-> id, seq |-> seq, payload |-> payload]
    BY DEF DataInfo
  <1> QED BY <1>2, <1>3, <1>4

(* A request on the wire.                                                   *)
LEMMA RequestFlattened ==
  ASSUME NEW id, NEW seq, NEW payload
  PROVE  Flatten(DataInfo(ACC_PER, id, seq, payload))
           = <<PACKET_START, id, ACC_PER>> \o (<<seq, Len(payload)>> \o payload) \o <<PACKET_END>>
  <1> DEFINE pi == DataInfo(ACC_PER, id, seq, payload)
  <1>1. pi.type = ACC_PER /\ pi.seq = seq /\ pi.payload = payload /\ pi.id = id
    BY DEF DataInfo
  <1>2. pi.type \in DataTypes /\ pi.type # ACK /\ pi.type # REJECT
    BY <1>1 DEF DataTypes, ACC_PER, ACK, REJECT
  <1> HIDE DEF pi
  <1>3. Content(pi) = <<pi.seq, Len(pi.payload)>> \o pi.payload
    BY <1>2 DEF Content
  <1>4. Flatten(pi)
          = <<PACKET_START, id, ACC_PER>> \o (<<seq, Len(payload)>> \o payload) \o <<PACKET_END>>
    BY <1>1, <1>3 DEF Flatten
  <1> QED BY <1>4 DEF pi

(* A stretch of a sequence, cell by cell.                                   *)
LEMMA Stretch ==
  ASSUME NEW d \in Seq(Nat), NEW len \in Nat, Len(d) = HeaderLen + len + 1
  PROVE  LET payload == SubSeq(d, HeaderLen + 1, HeaderLen + len)
         IN  /\ payload \in Seq(Nat) /\ Len(payload) = len
             /\ \A i \in 1..len : payload[i] = d[HeaderLen + i]
  BY DEF HeaderLen

(* The cells of a request on the wire.                                      *)
RequestCells(f, id, seq, payload) ==
  /\ f \in Seq(Nat) /\ Len(f) = Len(payload) + 6
  /\ f[1] = PACKET_START /\ f[2] = id /\ f[3] = ACC_PER /\ f[4] = seq
  /\ f[5] = Len(payload) /\ f[Len(payload) + 6] = PACKET_END
  /\ \A i \in 1..Len(payload) : f[i + 5] = payload[i]

(* A request on the wire has these cells.                                   *)
LEMMA RequestFormat ==
  ASSUME NEW id \in Nat, NEW seq \in Nat, NEW payload \in Seq(Nat)
  PROVE  RequestCells(Flatten(DataInfo(ACC_PER, id, seq, payload)), id, seq, payload)
  <1> DEFINE len == Len(payload)
             f == <<PACKET_START, id, ACC_PER>> \o (<<seq, len>> \o payload) \o <<PACKET_END>>
  <1>1. Flatten(DataInfo(ACC_PER, id, seq, payload)) = f
    BY RequestFlattened
  <1>2. PACKET_START \in Nat /\ ACC_PER \in Nat /\ PACKET_END \in Nat /\ len \in Nat
    BY DEF PACKET_START, ACC_PER, PACKET_END
  <1>3. f \in Seq(Nat) /\ Len(f) = len + 6
    BY <1>2
  <1>4. /\ f[1] = PACKET_START /\ f[2] = id /\ f[3] = ACC_PER /\ f[4] = seq /\ f[5] = len
        /\ f[len + 6] = PACKET_END
    BY <1>2
  <1>5. \A i \in 1..len : f[i + 5] = payload[i]
    BY <1>2
  <1> HIDE DEF f
  <1>6. RequestCells(f, id, seq, payload)
    BY <1>3, <1>4, <1>5 DEF RequestCells
  <1> QED BY <1>1, <1>6

(* A sequence with these cells is a request, flattened.                     *)
LEMMA FlattenedRequest ==
  ASSUME NEW d \in Seq(Nat), NEW id, NEW seq, NEW len \in Nat, NEW payload \in Seq(Nat),
         Len(d) = HeaderLen + len + 1,
         d[1] = PACKET_START, d[2] = id, d[3] = ACC_PER, d[4] = seq, d[5] = len,
         d[Len(d)] = PACKET_END,
         Len(payload) = len, \A i \in 1..len : payload[i] = d[HeaderLen + i]
  PROVE  d = Flatten(DataInfo(ACC_PER, id, seq, payload))
  <1> DEFINE f == Flatten(DataInfo(ACC_PER, id, seq, payload))
  <1>1. id \in Nat /\ seq \in Nat
    BY DEF HeaderLen
  <1>2. RequestCells(f, id, seq, payload)
    BY <1>1, RequestFormat
  <1> HIDE DEF f
  <1>3. /\ f \in Seq(Nat) /\ Len(f) = len + 6
        /\ f[1] = PACKET_START /\ f[2] = id /\ f[3] = ACC_PER /\ f[4] = seq /\ f[5] = len
        /\ f[len + 6] = PACKET_END
        /\ \A i \in 1..len : f[i + 5] = payload[i]
    BY <1>2 DEF RequestCells
  <1>4. \A i \in 1..Len(d) : d[i] = f[i]
    <2> SUFFICES ASSUME NEW i \in 1..Len(d) PROVE d[i] = f[i]
      OBVIOUS
    <2>1. CASE i \in 1..5
      <3>1. i = 1 \/ i = 2 \/ i = 3 \/ i = 4 \/ i = 5
        BY <2>1
      <3> QED BY <1>3, <3>1
    <2>2. CASE i = len + 6
      BY <1>3, <2>2 DEF HeaderLen
    <2>3. CASE i \in 6..(len + 5)
      <3> DEFINE k == i - 5
      <3>1. k \in 1..len /\ k + 5 = i /\ HeaderLen + k = i
        BY <2>3 DEF HeaderLen
      <3> HIDE DEF k
      <3>2. f[k + 5] = payload[k] /\ payload[k] = d[HeaderLen + k]
        BY <1>3, <3>1
      <3> QED BY <3>1, <3>2
    <2> QED BY <2>1, <2>2, <2>3 DEF HeaderLen
  <1>5. d = f
    BY <1>3, <1>4 DEF HeaderLen
  <1> QED BY <1>5 DEF f

(* What was accepted was well formed and was looked up as it was sent.      *)
AcceptedAsSent == AcceptedIsWellFormed /\ LookedUpAsSent

(* One turn of the loop: an accepted datagram ends at its own boundary, so  *)
(* the cells the server read are the datagram's and no stale one among them.*)
LEMMA ReceiveAsSent ==
  ASSUME TypeOK, NEW d \in Datagrams, Receive(d)
  PROVE  AcceptedAsSent'
  <1>1. d \in Seq(Nat) /\ recv_buf \in [1..BufSize -> Nat]
    BY ServerAssumption DEF TypeOK
  <1>2. recv_buf' = Overlay(d, recv_buf) /\ last_recvd_len' = RecvdLen(d) /\ received' = d
    BY DEF Receive
  <1>3. PICK r \in Interpret(Overlay(d, recv_buf)) : ProcessPacket(r)
    BY <1>2 DEF Receive
  <1>4. CASE CheckPacket(r, RecvdLen(d), expect_recv) # 0
    <2>1. Len(sent') = 1
      BY <1>2, <1>3, <1>4 DEF ProcessPacket, Refuse
    <2> QED BY <2>1 DEF AcceptedAsSent, AcceptedIsWellFormed, LookedUpAsSent, Accepted
  <1>5. CASE CheckPacket(r, RecvdLen(d), expect_recv) = 0
    <2>1. Accept(r)
      BY <1>2, <1>3, <1>5 DEF ProcessPacket
    <2>2. /\ r.len \in 0..MaxLen /\ Len(d) = HeaderLen + r.len + 1 /\ Len(d) <= BufSize
          /\ d[1] = PACKET_START /\ d[2] = r.id /\ d[3] = ACC_PER /\ d[4] = r.seq
          /\ d[5] = r.len /\ d[Len(d)] = PACKET_END
      BY <1>1, <1>5, AcceptedCells
    <2>3. r.len \in Nat
      BY <2>2, PacketsAssumption
    <2> DEFINE v == Verdict(RequestIn(recv_buf'))
               q == SubSeq(recv_buf', HeaderLen + 1, HeaderLen + r.len)
               p == SubSeq(d, HeaderLen + 1, HeaderLen + r.len)
    <2>4. /\ request' = [tech |-> recv_buf'[6], num |-> recv_buf'[7]]
          /\ sent'[2] = DataInfo(v, r.id, r.seq, q)
      BY <2>1 DEF Accept, Reply, RequestIn, HeaderLen
    <2>5. \A i \in 1..Len(d) : recv_buf'[i] = d[i]
      BY <1>1, <1>2, <2>2, PacketsAssumption DEF Overlay
    <2>6. \A i \in (HeaderLen + 1)..(HeaderLen + r.len) : recv_buf'[i] = d[i]
      BY <2>2, <2>3, <2>5 DEF HeaderLen
    <2>7. q = p
      BY <2>6, <2>3 DEF HeaderLen
    <2> HIDE DEF v
    <2>8. d = Flatten([DataInfo(v, r.id, r.seq, p) EXCEPT !.type = ACC_PER])
      <3>1. d = Flatten(DataInfo(ACC_PER, r.id, r.seq, p))
        <4>1. p \in Seq(Nat) /\ Len(p) = r.len /\ \A i \in 1..r.len : p[i] = d[HeaderLen + i]
          BY <1>1, <2>2, <2>3, Stretch
        <4> HIDE DEF p
        <4> QED BY <1>1, <2>2, <2>3, <4>1, FlattenedRequest
      <3> QED BY <3>1, Retyped
    <2>9. AcceptedIsWellFormed'
      <3>1. received' = Flatten([sent'[2] EXCEPT !.type = ACC_PER])
        BY <1>2, <2>4, <2>7, <2>8
      <3> QED BY <3>1 DEF AcceptedIsWellFormed
    <2>10. LookedUpAsSent'
      <3> DEFINE asked == SubSeq(received', HeaderLen + 1, Len(received') - 1)
      <3>1. Len(d) - 1 = HeaderLen + r.len /\ asked = p
        BY <1>2, <2>2, <2>3 DEF HeaderLen
      <3>2. Len(p) = r.len /\ \A i \in 1..r.len : p[i] = d[HeaderLen + i]
        BY <1>1, <2>2, <2>3, Stretch
      <3> HIDE DEF p, asked
      <3>3. r.len >= 1 => recv_buf'[6] = asked[1]
        BY <2>2, <2>3, <2>5, <3>1, <3>2 DEF HeaderLen
      <3>4. r.len >= 2 => recv_buf'[7] = asked[2]
        BY <2>2, <2>3, <2>5, <3>1, <3>2 DEF HeaderLen
      <3>5. sent'[2].type = Verdict(request')
        BY <2>1 DEF Accept, Reply, DataInfo
      <3>6. Len(asked) >= 1 => request'.tech = asked[1]
        BY <2>3, <2>4, <3>1, <3>2, <3>3
      <3>7. Len(asked) >= 2 =>
              /\ request'.num = asked[2]
              /\ request' = [tech |-> asked[1], num |-> asked[2]]
        BY <2>3, <2>4, <3>1, <3>2, <3>3, <3>4
      <3> QED BY <3>5, <3>6, <3>7 DEF LookedUpAsSent, asked
    <2> QED BY <2>9, <2>10 DEF AcceptedAsSent
  <1> QED BY <1>4, <1>5

(* Only a well-formed datagram is accepted, and it is looked up as sent.    *)
LEMMA ServerAcceptedAsSent == Spec => []AcceptedAsSent
  <1>1. Init => AcceptedAsSent
    BY DEF Init, AcceptedAsSent, AcceptedIsWellFormed, LookedUpAsSent, Accepted
  <1>2. IInv /\ AcceptedAsSent /\ [Next]_serverVars => AcceptedAsSent'
    <2> SUFFICES ASSUME TypeOK, AcceptedAsSent, [Next]_serverVars PROVE AcceptedAsSent'
      BY DEF IInv
    <2>1. CASE \E d \in Datagrams : Receive(d)
      BY <2>1, ReceiveAsSent
    <2>2. CASE ReceiveEmpty
      BY <2>2 DEF ReceiveEmpty, AcceptedAsSent, AcceptedIsWellFormed, LookedUpAsSent, Accepted
    <2>3. CASE Restart
      BY <2>3 DEF Restart, AcceptedAsSent, AcceptedIsWellFormed, LookedUpAsSent, Accepted
    <2>4. CASE UNCHANGED serverVars
      BY <2>4 DEF serverVars, AcceptedAsSent, AcceptedIsWellFormed, LookedUpAsSent, Accepted
    <2> QED BY <2>1, <2>2, <2>3, <2>4 DEF Next
  <1> QED BY <1>1, <1>2, ServerInvariant, PTL DEF Spec

(* An accepted datagram is, to its last cell, a well-formed request of its  *)
(* own: the tail that earlier datagrams left in recv_buf never completes it.*)
THEOREM ServerAcceptedIsWellFormed == Spec => []AcceptedIsWellFormed
  BY ServerAcceptedAsSent, PTL DEF AcceptedAsSent

(* What is looked up is what the datagram received carried, as far as it    *)
(* carried it, and the verdict on a full request is the one on that: of the *)
(* cells that earlier datagrams left in recv_buf none is looked up instead. *)
THEOREM ServerLookedUpAsSent == Spec => []LookedUpAsSent
  BY ServerAcceptedAsSent, PTL DEF AcceptedAsSent
=============================================================================
