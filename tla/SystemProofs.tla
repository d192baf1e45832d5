---------------------------- MODULE SystemProofs -----------------------------
(***************************************************************************)
(* Theorems about the server and its clients over a network that loses,    *)
(* repeats and reorders datagrams, with restarts of the server: for any    *)
(* number of clients and calls, and any widths.                            *)
(***************************************************************************)
EXTENDS System, ServerProofs, DbTableProofs

AllRequests == UNION {Requests(c) : c \in Clients}

(* The parts of a request.                                                  *)
LEMMA RequestParts ==
  ASSUME NEW pi \in AllRequests
  PROVE  /\ pi = DataInfo(ACC_PER, pi.id, pi.seq, pi.payload)
         /\ pi.id \in ClientId /\ pi.seq \in SequenceNum /\ pi.id \in Nat /\ pi.seq \in Nat
         /\ pi.payload \in Payloads /\ pi.payload \in Seq(Nat) /\ Len(pi.payload) = 2
         /\ Flatten(pi) \in Datagrams
  <1>1. PICK c \in Clients : pi \in Requests(c)
    BY DEF AllRequests
  <1>2. PICK seq \in SequenceNum, payload \in Payloads :
          pi = DataInfo(ACC_PER, IdOf[c], seq, payload)
    BY <1>1 DEF Requests
  <1>3. IdOf[c] \in ClientId /\ payload \in Seq(Nat) /\ Len(payload) = 2
    BY ClientAssumption, RequestsAssumption
  <1>4. pi.id = IdOf[c] /\ pi.seq = seq /\ pi.payload = payload
    BY <1>2 DEF DataInfo
  <1>5. Flatten(pi) \in Datagrams
    BY <1>1, RequestsAssumption
  <1>6. \A x : (x \in ClientId \/ x \in SequenceNum) => x \in Nat
    BY PacketsAssumption DEF ClientId, SequenceNum
  <1> QED BY <1>2, <1>3, <1>4, <1>5, <1>6

(* Its cells on the wire.                                                   *)
LEMMA RequestOnTheWire ==
  ASSUME NEW pi \in AllRequests
  PROVE  LET d == Flatten(pi)
         IN  /\ d \in Seq(Nat) /\ Len(d) = 8
             /\ d[1] = PACKET_START /\ d[2] = pi.id /\ d[3] = ACC_PER /\ d[4] = pi.seq
             /\ d[5] = 2 /\ d[6] = pi.payload[1] /\ d[7] = pi.payload[2] /\ d[8] = PACKET_END
             /\ 2 \in 0..MaxLen
  <1> DEFINE d == Flatten(pi)
             p == pi.payload
  <1>1. /\ pi = DataInfo(ACC_PER, pi.id, pi.seq, p) /\ d \in Datagrams
        /\ pi.id \in Nat /\ pi.seq \in Nat /\ p \in Seq(Nat) /\ Len(p) = 2
    BY RequestParts
  <1>2. RequestCells(Flatten(DataInfo(ACC_PER, pi.id, pi.seq, p)), pi.id, pi.seq, p)
    BY <1>1, RequestFormat
  <1>3. RequestCells(d, pi.id, pi.seq, p)
    BY <1>1, <1>2
  <1> HIDE DEF d, p
  <1>4. /\ d \in Seq(Nat) /\ Len(d) = 2 + 6
        /\ d[1] = PACKET_START /\ d[2] = pi.id /\ d[3] = ACC_PER /\ d[4] = pi.seq
        /\ d[5] = 2 /\ d[2 + 6] = PACKET_END
        /\ \A i \in 1..2 : d[i + 5] = p[i]
    BY <1>1, <1>3 DEF RequestCells
  <1>5. Len(d) = 8 /\ d[8] = PACKET_END
    BY <1>4
  <1>6. d[1 + 5] = p[1] /\ d[2 + 5] = p[2]
    BY <1>4
  <1>7. d[6] = p[1] /\ d[7] = p[2]
    BY <1>6
  <1>8. d[5] \in 0..MaxLen
    <2>1. Len(d) >= HeaderLen /\ d[3] = ACC_PER /\ d \in Datagrams
      BY <1>1, <1>4, <1>5 DEF HeaderLen
    <2> QED BY <2>1, FieldsAssumption
  <1> QED BY <1>4, <1>5, <1>7, <1>8 DEF d, p

(* What the server makes of a request, whatever its buffer held.            *)
AsSent(r, b, pi) ==
  /\ r.type = ACC_PER /\ r.ret = 0 /\ r.id = pi.id /\ r.seq = pi.seq /\ r.len = 2
  /\ RequestIn(b) = [tech |-> pi.payload[1], num |-> pi.payload[2]]
  /\ SubSeq(b, HeaderLen + 1, HeaderLen + r.len) = pi.payload

(* Nothing that an earlier datagram left in the buffer shows through.       *)
LEMMA RequestInterpreted ==
  ASSUME NEW pi \in AllRequests, NEW buf \in [1..BufSize -> Nat],
         NEW r \in Interpret(Overlay(Flatten(pi), buf))
  PROVE  /\ AsSent(r, Overlay(Flatten(pi), buf), pi)
         /\ RecvdLen(Flatten(pi)) = 8
  <1> DEFINE d == Flatten(pi)
             b == Overlay(d, buf)
             p == pi.payload
  <1>1. /\ d \in Seq(Nat) /\ Len(d) = 8
        /\ d[1] = PACKET_START /\ d[2] = pi.id /\ d[3] = ACC_PER /\ d[4] = pi.seq
        /\ d[5] = 2 /\ d[6] = p[1] /\ d[7] = p[2] /\ d[8] = PACKET_END
        /\ 2 \in 0..MaxLen
    BY RequestOnTheWire
  <1>2. BufSize \in Nat /\ BufSize >= 9
    BY <1>1, PacketsAssumption
  <1>3. p \in Seq(Nat) /\ Len(p) = 2
    BY RequestParts
  <1> HIDE DEF d, p
  <1>4. \A i \in 1..8 : b[i] = d[i]
    BY <1>1, <1>2 DEF Overlay
  <1>5. RecvdLen(d) = 8
    BY <1>1, <1>2 DEF RecvdLen
  <1>6. r \in Interpret(b)
    BY DEF d
  <1> HIDE DEF b
  <1>7. /\ b[1] = PACKET_START /\ b[2] = pi.id /\ b[3] = ACC_PER /\ b[4] = pi.seq
        /\ b[5] = 2 /\ b[6] = p[1] /\ b[7] = p[2] /\ b[8] = PACKET_END
    BY <1>1, <1>4
  <1>8. \A n \in Nat : \A x \in 0..n : x % (n + 1) = x
    OBVIOUS
  <1>9. pi.id % (MaxId + 1) = pi.id /\ pi.seq % (MaxSeqNum + 1) = pi.seq /\ 2 % (MaxLen + 1) = 2
    <2>1. MaxId \in Nat /\ MaxSeqNum \in Nat /\ MaxLen \in Nat
      BY PacketsAssumption
    <2>2. pi.id \in 0..MaxId /\ pi.seq \in 0..MaxSeqNum
      BY RequestParts DEF ClientId, SequenceNum
    <2> QED BY <1>1, <1>8, <2>1, <2>2
  <1>10. /\ r.type = ACC_PER /\ r.ret = EndCheck(b[HeaderLen + 2 + 1])
         /\ r.id = pi.id /\ r.seq = pi.seq /\ r.len = 2
    BY <1>6, <1>7, <1>9 DEF Interpret, DataTypes
  <1>11. HeaderLen + 2 + 1 = 8 /\ HeaderLen + 1 = 6 /\ HeaderLen + 2 = 7
    BY DEF HeaderLen
  <1>12. r.ret = 0
    BY <1>7, <1>10, <1>11 DEF EndCheck
  <1>13. SubSeq(b, 6, 7) = p
    <2>1. SubSeq(b, 6, 7) = [i \in 1..2 |-> b[6 + i - 1]]
      OBVIOUS
    <2>2. p = [i \in 1..2 |-> p[i]]
      BY <1>3
    <2>3. \A i \in 1..2 : b[6 + i - 1] = p[i]
      <3> SUFFICES ASSUME NEW i \in 1..2 PROVE b[6 + i - 1] = p[i]
        OBVIOUS
      <3>1. i = 1 \/ i = 2
        OBVIOUS
      <3> QED BY <1>7, <3>1
    <2> QED BY <2>1, <2>2, <2>3
  <1>14. RequestIn(b) = [tech |-> p[1], num |-> p[2]]
    BY <1>7, <1>11 DEF RequestIn
  <1>15. SubSeq(b, HeaderLen + 1, HeaderLen + r.len) = p
    BY <1>10, <1>11, <1>13
  <1>16. AsSent(r, b, pi)
    BY <1>10, <1>12, <1>14, <1>15 DEF AsSent, p
  <1> QED BY <1>5, <1>16 DEF b, d

-----------------------------------------------------------------------------
(* A file whose lines are all entries, in which no two lines for a number   *)
(* disagree, with numbers that are close to each other and to those that    *)
(* are asked for.                                                           *)
FileIsPlain ==
  /\ DbFile \in Seq(Entry)
  /\ \A i, j \in 1..Len(DbFile) :
       DbFile[i].number = DbFile[j].number => DbFile[i] = DbFile[j]
  /\ WithinHalf(NumbersIn(Elements(DbFile)))
  /\ \A payload \in Payloads : Near(payload[2], DbFile)

(* The verdict on a request.                                                *)
VerdictOn(pi) == Verdict([tech |-> pi.payload[1], num |-> pi.payload[2]])

(* It is what the file says.                                                *)
LEMMA VerdictsAreTrue ==
  ASSUME FileIsPlain, NEW pi \in AllRequests
  PROVE  VerdictOn(pi) = Truth(pi)
  <1> DEFINE num == pi.payload[2]
             tech == pi.payload[1]
             at == Lookup(Table, num)
             mine == {n \in DOMAIN DbFile : DbFile[n].number = num /\ DbFile[n].ttype = tech}
  <1>1. /\ DbFile \in Seq(Entry) /\ DOMAIN DbFile = 1..Len(DbFile)
        /\ num \in Int /\ pi.payload \in Payloads
    <2>1. pi.payload \in Payloads /\ pi.payload \in Seq(Nat) /\ Len(pi.payload) = 2
      BY RequestParts
    <2> QED BY <2>1 DEF FileIsPlain
  <1>2. Table = QSort[DbFile]
    BY <1>1, ParsedWhole DEF Table, Load
  <1>3. SortOf(Table, DbFile)
    BY <1>1, <1>2, QSortSorts
  <1>4. Table \in Seq(Entry) /\ Elements(Table) = Elements(DbFile) /\ Sorted(Table)
    BY <1>3 DEF SortOf, FileIsPlain
  <1>5. \A n \in 1..Len(DbFile) : \E i \in 1..Len(Table) : Table[i] = DbFile[n]
    BY <1>4 DEF Elements
  <1>6. \A i \in 1..Len(Table) : \E n \in 1..Len(DbFile) : Table[i] = DbFile[n]
    BY <1>4 DEF Elements
  <1>7. Near(num, Table)
    <2>1. Near(num, DbFile)
      BY <1>1 DEF FileIsPlain
    <2> HIDE DEF num
    <2> QED BY <1>6, <2>1 DEF Near
  <1>8. IF \E i \in 1..Len(Table) : Table[i].number = num
        THEN at \in 1..Len(Table) /\ Table[at].number = num
        ELSE at = 0
    <2>1. /\ at \in 0..Len(Table)
          /\ IF \E i \in 1..Len(Table) : Table[i].number = num
             THEN at # 0 /\ Table[at].number = num
             ELSE at = 0
      BY <1>1, <1>4, <1>7, LookupFinds
    <2>2. Len(Table) \in Nat
      BY <1>4
    <2> HIDE DEF at
    <2> QED BY <2>1, <2>2
  <1>9. VerdictOn(pi) = IF at = 0 THEN NOT_EXIST
                        ELSE IF Table[at].ttype # tech THEN NOT_EXIST
                        ELSE IF ~Table[at].paid THEN NOT_PAID
                        ELSE ACC_OK
    BY DEF VerdictOn, Verdict
  <1>10. Truth(pi) = IF mine = {} THEN NOT_EXIST
                     ELSE IF \E n \in mine : DbFile[n].paid THEN ACC_OK ELSE NOT_PAID
    BY DEF Truth
  <1> HIDE DEF num, tech, at
  <1>11. CASE at = 0
    <2>1. \A i \in 1..Len(Table) : Table[i].number # num
      BY <1>8, <1>11
    <2>2. mine = {}
      BY <1>1, <1>5, <2>1
    <2> QED BY <1>9, <1>10, <1>11, <2>2
  <1>12. CASE at # 0
    <2>1. at \in 1..Len(Table) /\ Table[at].number = num
      BY <1>8, <1>12
    <2>2. PICK k \in 1..Len(DbFile) : DbFile[k] = Table[at]
      BY <1>6, <2>1
    <2>3. \A n \in 1..Len(DbFile) : DbFile[n].number = num => DbFile[n] = Table[at]
      BY <2>1, <2>2 DEF FileIsPlain
    <2>4. CASE Table[at].ttype # tech
      <3>1. mine = {}
        BY <1>1, <2>3, <2>4
      <3> QED BY <1>9, <1>10, <1>12, <2>4, <3>1
    <2>5. CASE Table[at].ttype = tech
      <3>1. k \in mine /\ \A n \in mine : DbFile[n] = Table[at]
        BY <1>1, <2>1, <2>2, <2>3, <2>5
      <3>2. (\E n \in mine : DbFile[n].paid) <=> Table[at].paid
        BY <2>2, <3>1
      <3> HIDE DEF mine
      <3> QED BY <1>9, <1>10, <1>12, <2>5, <3>1, <3>2
    <2> QED BY <2>4, <2>5
  <1> QED BY <1>11, <1>12

-----------------------------------------------------------------------------
(* What a turn of the server's loop does with a request.                    *)
Refused(pi) ==
  \E code \in {OUT_OF_SEQ, DUP_PACK} :
    sent' = <<RejectInfo(pi.id, code, pi.seq)>> /\ expect_recv' = expect_recv

Answered(pi) ==
  /\ sent' = <<AckInfo(pi.id, pi.seq), DataInfo(VerdictOn(pi), pi.id, pi.seq, pi.payload)>>
  /\ pi.seq = expect_recv[pi.id]
  /\ expect_recv' = [expect_recv EXCEPT ![pi.id] = NextSeq(pi.seq)]

(* It refuses the request or answers it.                                    *)
LEMMA RequestReceived ==
  ASSUME TypeOK, NEW pi \in AllRequests, Receive(Flatten(pi))
  PROVE  Refused(pi) \/ Answered(pi)
  <1> DEFINE b == Overlay(Flatten(pi), recv_buf)
  <1>1. /\ recv_buf' = b /\ last_recvd_len' = 8
        /\ \E r \in Interpret(b) : AsSent(r, b, pi) /\ ProcessPacket(r)
    <2>1. recv_buf' = b /\ last_recvd_len' = RecvdLen(Flatten(pi))
      BY DEF Receive
    <2>2. recv_buf \in [1..BufSize -> Nat]
      BY DEF TypeOK
    <2>3. PICK r \in Interpret(b) : ProcessPacket(r)
      BY <2>1 DEF Receive
    <2>4. AsSent(r, b, pi) /\ RecvdLen(Flatten(pi)) = 8
      BY <2>2, RequestInterpreted
    <2> QED BY <2>1, <2>3, <2>4
  <1>2. PICK r : AsSent(r, b, pi) /\ ProcessPacket(r)
    BY <1>1
  <1> HIDE DEF b
  <1>3. /\ r.type = ACC_PER /\ r.ret = 0 /\ r.id = pi.id /\ r.seq = pi.seq /\ r.len = 2
        /\ RequestIn(b) = [tech |-> pi.payload[1], num |-> pi.payload[2]]
        /\ SubSeq(b, HeaderLen + 1, HeaderLen + r.len) = pi.payload
    BY <1>2 DEF AsSent
  <1> DEFINE code == CheckPacket(r, last_recvd_len', expect_recv)
             e == expect_recv[pi.id]
  <1>4. code = IF pi.seq > e THEN OUT_OF_SEQ ELSE IF pi.seq < e THEN DUP_PACK ELSE 0
    BY <1>1, <1>3 DEF CheckPacket, HeaderLen
  <1>5. pi.seq \in Nat /\ e \in Nat
    <2>1. e \in SequenceNum
      BY RequestParts DEF TypeOK
    <2> QED BY <2>1, RequestParts, PacketsAssumption DEF SequenceNum
  <1>6. OUT_OF_SEQ # 0 /\ DUP_PACK # 0
    BY DEF OUT_OF_SEQ, DUP_PACK
  <1> HIDE DEF code, e
  <1>7. CASE code # 0
    <2>1. Refuse(r, code) /\ code \in {OUT_OF_SEQ, DUP_PACK}
      BY <1>2, <1>4, <1>7 DEF ProcessPacket, code
    <2> QED BY <1>3, <2>1 DEF Refuse, Reject, Refused
  <1>8. CASE code = 0
    <2>1. Accept(r)
      BY <1>2, <1>8 DEF ProcessPacket, code
    <2>2. pi.seq = e
      BY <1>4, <1>5, <1>6, <1>8
    <2>3. SendAck(r.id, expect_recv) = AckInfo(pi.id, pi.seq)
      BY <1>3, <2>2 DEF SendAck, e
    <2>4. Reply(r, b) = DataInfo(VerdictOn(pi), pi.id, pi.seq, pi.payload)
      BY <1>3 DEF Reply, VerdictOn
    <2>5. Increment(expect_recv, r.id) = [expect_recv EXCEPT ![pi.id] = NextSeq(pi.seq)]
      BY <1>3, <2>2 DEF Increment, e
    <2> QED BY <1>1, <2>1, <2>2, <2>3, <2>4, <2>5 DEF Accept, Answered, e
  <1> QED BY <1>7, <1>8

-----------------------------------------------------------------------------
(* What the server answers to a call.                                       *)
IsAck(d, pi)     == d = Flatten(AckInfo(pi.id, pi.seq))
IsReply(d, pi)   == d = Flatten(DataInfo(VerdictOn(pi), pi.id, pi.seq, pi.payload))
IsRefusal(d, pi) == \E code \in {OUT_OF_SEQ, DUP_PACK} :
                      d = Flatten(RejectInfo(pi.id, code, pi.seq))

IsAnswer(d, pi) == IsAck(d, pi) \/ IsReply(d, pi) \/ IsRefusal(d, pi)

(* A verdict is one of the three.                                           *)
LEMMA VerdictType ==
  ASSUME NEW pi
  PROVE  VerdictOn(pi) \in Verdicts
  BY DEF VerdictOn, Verdict, Verdicts

(* A packet of this type, where the client reads it.                        *)
OnTheWire(d, type) == d \in Seq(Nat) /\ Len(d) >= 3 /\ d[1] = PACKET_START /\ d[3] = type

(* A flattened packet shows its type.                                       *)
LEMMA Framed ==
  ASSUME NEW id \in Nat, NEW type \in Nat, NEW c \in Seq(Nat)
  PROVE  OnTheWire(<<PACKET_START, id, type>> \o c \o <<PACKET_END>>, type)
  <1>1. PACKET_START \in Nat /\ PACKET_END \in Nat
    BY DEF PACKET_START, PACKET_END
  <1> QED BY <1>1 DEF OnTheWire

(* Each answer shows the client its own type.                               *)
LEMMA AnswerOnTheWire ==
  ASSUME NEW pi \in AllRequests, NEW d
  PROVE  /\ IsAck(d, pi) => OnTheWire(d, ACK)
         /\ IsReply(d, pi) => OnTheWire(d, VerdictOn(pi))
         /\ IsRefusal(d, pi) => OnTheWire(d, REJECT)
  <1> DEFINE id == pi.id
             seq == pi.seq
             p == pi.payload
             v == VerdictOn(pi)
  <1>1. id \in Nat /\ seq \in Nat /\ p \in Seq(Nat) /\ Len(p) \in Nat
    <2>1. id \in Nat /\ seq \in Nat /\ p \in Seq(Nat)
      BY RequestParts
    <2> QED BY <2>1
  <1>2. v \in Verdicts
    BY VerdictType
  <1> HIDE DEF id, seq, p, v
  <1>3. ACK \in Nat /\ REJECT \in Nat /\ ACK \notin DataTypes /\ REJECT \notin DataTypes
        /\ ACK # REJECT /\ v \in DataTypes /\ v \in Nat
    BY <1>2 DEF DataTypes, Verdicts, ACK, REJECT, DATA, ACC_PER, NOT_EXIST, NOT_PAID, ACC_OK
  <1>4. ASSUME IsAck(d, pi) PROVE OnTheWire(d, ACK)
    <2> DEFINE a == AckInfo(id, seq)
    <2>1. a.type = ACK /\ a.id = id /\ a.seq = seq
      BY DEF AckInfo
    <2>2. d = Flatten(a)
      BY <1>4 DEF IsAck, id, seq
    <2> HIDE DEF a
    <2>3. Content(a) = <<seq>>
      BY <1>3, <2>1 DEF Content
    <2>4. d = <<PACKET_START, id, ACK>> \o <<seq>> \o <<PACKET_END>>
      BY <2>1, <2>2, <2>3 DEF Flatten
    <2>5. <<seq>> \in Seq(Nat)
      BY <1>1
    <2> QED BY <1>1, <1>3, <2>4, <2>5, Framed
  <1>5. ASSUME IsReply(d, pi) PROVE OnTheWire(d, v)
    <2> DEFINE a == DataInfo(v, id, seq, p)
    <2>1. a.type = v /\ a.id = id /\ a.seq = seq /\ a.payload = p
      BY DEF DataInfo
    <2>2. d = Flatten(a)
      BY <1>5 DEF IsReply, id, seq, p, v
    <2> HIDE DEF a
    <2>3. Content(a) = <<seq, Len(p)>> \o p
      BY <1>3, <2>1 DEF Content
    <2>4. d = <<PACKET_START, id, v>> \o (<<seq, Len(p)>> \o p) \o <<PACKET_END>>
      BY <2>1, <2>2, <2>3 DEF Flatten
    <2>5. <<seq, Len(p)>> \o p \in Seq(Nat)
      BY <1>1
    <2> QED BY <1>1, <1>3, <2>4, <2>5, Framed
  <1>6. ASSUME IsRefusal(d, pi) PROVE OnTheWire(d, REJECT)
    <2>1. PICK code \in {OUT_OF_SEQ, DUP_PACK} : d = Flatten(RejectInfo(id, code, seq))
      BY <1>6 DEF IsRefusal, id, seq
    <2> DEFINE a == RejectInfo(id, code, seq)
    <2>2. a.type = REJECT /\ a.id = id /\ a.code = code /\ a.seq = seq
      BY DEF RejectInfo
    <2>3. d = Flatten(a)
      BY <2>1
    <2> HIDE DEF a
    <2>4. Content(a) = <<code, seq>>
      BY <1>3, <2>2 DEF Content
    <2>5. d = <<PACKET_START, id, REJECT>> \o <<code, seq>> \o <<PACKET_END>>
      BY <2>2, <2>3, <2>4 DEF Flatten
    <2>6. code \in Nat
      BY DEF OUT_OF_SEQ, DUP_PACK
    <2>7. <<code, seq>> \in Seq(Nat)
      BY <1>1, <2>6
    <2> QED BY <1>1, <1>3, <2>5, <2>7, Framed
  <1> QED BY <1>4, <1>5, <1>6 DEF v

(* The client reads that type, whatever follows it.                         *)
LEMMA TypeRead ==
  ASSUME NEW d, NEW type, OnTheWire(d, type), NEW buf \in [1..BufSize -> Nat],
         NEW r \in Interpret(Overlay(d, buf))
  PROVE  r.type = type
  <1> DEFINE b == Overlay(d, buf)
  <1>1. b[1] = d[1] /\ b[3] = d[3]
    <2>1. 1 \in 1..BufSize /\ 3 \in 1..BufSize
      BY PacketsAssumption
    <2>2. Len(d) \in Nat /\ Len(d) >= 3
      BY DEF OnTheWire
    <2> QED BY <2>1, <2>2 DEF Overlay
  <1>2. b[1] = PACKET_START /\ b[3] = type
    BY <1>1 DEF OnTheWire
  <1>3. r \in Interpret(b)
    OBVIOUS
  <1> HIDE DEF b
  <1> QED BY <1>2, <1>3 DEF Interpret

-----------------------------------------------------------------------------
(***************************************************************************)
(* The invariant of the network: what is on its way to the server is the   *)
(* request of its call, and what is on its way to a client an answer to    *)
(* its call.                                                               *)
(***************************************************************************)
CallOf(m) == issued[m.call].pi

NetTyped ==
  /\ issued \in Seq([client : Clients, pi : AllRequests]) /\ Len(issued) <= MaxCalls
  /\ accepted \in Seq(DOMAIN issued)
  /\ toServer \cup toClient \subseteq
       [client : Clients, call : DOMAIN issued, datagram : Seq(Nat)]
  /\ faults \in 0..MaxFaults

Carried ==
  /\ \A m \in toServer : m.datagram = Flatten(CallOf(m))
  /\ \A m \in toClient : IsAnswer(m.datagram, CallOf(m))

SysInv == IInv /\ ClientTypeOK /\ NetTyped /\ Carried

(* A datagram in the network belongs to a call for a request.               *)
LEMMA CallIsRequest ==
  ASSUME NetTyped, NEW m \in toServer \cup toClient
  PROVE  m.client \in Clients /\ m.call \in DOMAIN issued /\ CallOf(m) \in AllRequests
  <1>1. m.client \in Clients /\ m.call \in DOMAIN issued
    BY DEF NetTyped
  <1>2. issued[m.call] \in [client : Clients, pi : AllRequests]
    <2> DEFINE Issue == [client : Clients, pi : AllRequests]
    <2>1. issued \in Seq(Issue)
      BY DEF NetTyped
    <2> HIDE DEF Issue
    <2>2. issued[m.call] \in Issue
      BY <1>1, <2>1
    <2> QED BY <2>2 DEF Issue
  <1> QED BY <1>1, <1>2 DEF CallOf

(* Taking a datagram leaves the others.                                     *)
LEMMA TakenLeaves ==
  ASSUME NEW m, NetTyped
  PROVE  /\ Taken(m, toServer) => toServer' \subseteq toServer /\ faults' \in 0..MaxFaults
         /\ Taken(m, toClient) => toClient' \subseteq toClient /\ faults' \in 0..MaxFaults
  BY SystemAssumption DEF Taken, NetTyped

(* Where no call is made and nothing is sent, the invariant stays.          *)
LEMMA FewerLetters ==
  ASSUME NetTyped, Carried, UNCHANGED issued, toServer' \subseteq toServer,
         toClient' \subseteq toClient, faults' \in 0..MaxFaults, accepted' \in Seq(DOMAIN issued)
  PROVE  NetTyped' /\ Carried'
  <1>1. NetTyped'
    BY DEF NetTyped
  <1>2. Carried'
    BY DEF Carried, CallOf
  <1> QED BY <1>1, <1>2

(* A call puts its request on the way.                                      *)
LEMMA SendKeepsNet ==
  ASSUME NetTyped, Carried, NEW c \in Clients, NEW pi \in Requests(c), Send(c, pi)
  PROVE  NetTyped' /\ Carried'
  <1> DEFINE call == [client |-> c, pi |-> pi]
             new == [client |-> c, call |-> Len(issued) + 1, datagram |-> Flatten(pi)]
  <1>1. pi \in AllRequests /\ call \in [client : Clients, pi : AllRequests]
    BY DEF AllRequests
  <1>2. /\ issued' = Append(issued, call) /\ Len(issued) < MaxCalls
        /\ toServer' = toServer \cup {new}
        /\ toClient' = toClient /\ faults' = faults /\ accepted' = accepted
    <2>1. UNCHANGED <<toClient, faults, accepted>> 
      BY DEF Send, SendReq, SendLastSeqNum
    <2> QED BY <2>1 DEF Send
  <1>3. issued \in Seq([client : Clients, pi : AllRequests]) /\ Len(issued) \in Nat
    BY DEF NetTyped
  <1>4. call.pi = pi
    OBVIOUS
  <1> HIDE DEF call
  <1>5. /\ issued' \in Seq([client : Clients, pi : AllRequests])
        /\ Len(issued') = Len(issued) + 1
        /\ DOMAIN issued \subseteq DOMAIN issued' /\ Len(issued) + 1 \in DOMAIN issued'
        /\ \A i \in DOMAIN issued : issued'[i] = issued[i]
        /\ issued'[Len(issued) + 1] = call
    BY <1>1, <1>2, <1>3
  <1>6. Flatten(pi) \in Seq(Nat)
    BY <1>1, RequestOnTheWire
  <1>7. /\ new \in [client : Clients, call : DOMAIN issued', datagram : Seq(Nat)]
        /\ new.call = Len(issued) + 1 /\ new.datagram = Flatten(pi)
    BY <1>5, <1>6
  <1> HIDE DEF new
  <1>8. NetTyped'
    <2>1. Len(issued') <= MaxCalls
      BY <1>2, <1>3, <1>5, SystemAssumption
    <2>2. accepted' \in Seq(DOMAIN issued')
      <3>1. accepted \in Seq(DOMAIN issued)
        BY DEF NetTyped
      <3> QED BY <1>2, <1>5, <3>1
    <2>3. toServer' \cup toClient' \subseteq
            [client : Clients, call : DOMAIN issued', datagram : Seq(Nat)]
      BY <1>2, <1>5, <1>7 DEF NetTyped
    <2> QED BY <1>2, <1>5, <2>1, <2>2, <2>3 DEF NetTyped
  <1>9. Carried'
    <2>1. \A m \in toServer \cup toClient : CallOf(m)' = CallOf(m)
      <3> SUFFICES ASSUME NEW m \in toServer \cup toClient PROVE issued'[m.call] = issued[m.call]
        BY DEF CallOf
      <3>1. m.call \in DOMAIN issued
        BY CallIsRequest
      <3> QED BY <1>5, <3>1
    <2>2. issued'[new.call].pi = pi
      BY <1>4, <1>5, <1>7
    <2>3. \A m \in toServer : m.datagram = Flatten(issued'[m.call].pi)
      BY <2>1 DEF Carried, CallOf
    <2>4. new.datagram = Flatten(issued'[new.call].pi)
      BY <1>7, <2>2
    <2>5. \A m \in toClient : IsAnswer(m.datagram, issued'[m.call].pi)
      BY <2>1 DEF Carried, CallOf
    <2> QED BY <1>2, <2>3, <2>4, <2>5 DEF Carried, CallOf
  <1> QED BY <1>8, <1>9

(* The server answers the call whose request it takes.                      *)
LEMMA ReceivedAnswers ==
  ASSUME TypeOK, NetTyped, Carried, NEW m \in toServer, ServerReceives(m)
  PROVE  /\ CallOf(m) \in AllRequests
         /\ Refused(CallOf(m)) \/ Answered(CallOf(m))
         /\ \A n \in DOMAIN sent' : IsAnswer(Flatten(sent'[n]), CallOf(m))
         /\ Len(sent') = 2 <=> Answered(CallOf(m))
  <1> DEFINE pi == CallOf(m)
  <1>1. pi \in AllRequests
    BY CallIsRequest
  <1>2. Receive(Flatten(pi))
    BY DEF Carried, ServerReceives
  <1> HIDE DEF pi
  <1>3. Refused(pi) \/ Answered(pi)
    BY <1>1, <1>2, RequestReceived
  <1>4. ASSUME Refused(pi)
        PROVE  /\ \A n \in DOMAIN sent' : IsAnswer(Flatten(sent'[n]), pi)
               /\ Len(sent') = 1
    <2>1. PICK code \in {OUT_OF_SEQ, DUP_PACK} : sent' = <<RejectInfo(pi.id, code, pi.seq)>>
      BY <1>4 DEF Refused
    <2>2. DOMAIN sent' = {1} /\ sent'[1] = RejectInfo(pi.id, code, pi.seq) /\ Len(sent') = 1
      BY <2>1
    <2>3. IsAnswer(Flatten(sent'[1]), pi)
      BY <2>2 DEF IsAnswer, IsRefusal
    <2> QED BY <2>2, <2>3
  <1>5. ASSUME Answered(pi)
        PROVE  /\ \A n \in DOMAIN sent' : IsAnswer(Flatten(sent'[n]), pi)
               /\ Len(sent') = 2
    <2>1. sent' = <<AckInfo(pi.id, pi.seq), DataInfo(VerdictOn(pi), pi.id, pi.seq, pi.payload)>>
      BY <1>5 DEF Answered
    <2>2. DOMAIN sent' = {1, 2} /\ Len(sent') = 2 /\ sent'[1] = AckInfo(pi.id, pi.seq)
          /\ sent'[2] = DataInfo(VerdictOn(pi), pi.id, pi.seq, pi.payload)
      BY <2>1
    <2>3. IsAnswer(Flatten(sent'[1]), pi)
      BY <2>2 DEF IsAnswer, IsAck
    <2>4. IsAnswer(Flatten(sent'[2]), pi)
      BY <2>2 DEF IsAnswer, IsReply
    <2> QED BY <2>2, <2>3, <2>4
  <1> QED BY <1>1, <1>3, <1>4, <1>5 DEF pi

(* A turn of the server's loop leaves the network well typed.               *)
LEMMA ReceiveKeepsNet ==
  ASSUME TypeOK, NetTyped, Carried, NEW m \in toServer, ServerReceives(m)
  PROVE  NetTyped' /\ Carried'
  <1> DEFINE new(n) == [client |-> m.client, call |-> m.call, datagram |-> Flatten(sent'[n])]
             answers == {new(n) : n \in DOMAIN sent'}
  <1>1. /\ m.client \in Clients /\ m.call \in DOMAIN issued /\ CallOf(m) \in AllRequests
        /\ \A n \in DOMAIN sent' : IsAnswer(Flatten(sent'[n]), CallOf(m))
    BY CallIsRequest, ReceivedAnswers
  <1>2. /\ toServer' \subseteq toServer /\ faults' \in 0..MaxFaults
        /\ toClient' = toClient \cup answers /\ issued' = issued
    <2>1. Taken(m, toServer) /\ issued' = issued /\ toClient' = toClient \cup answers
      BY DEF ServerReceives
    <2> QED BY <2>1, TakenLeaves
  <1>3. accepted' \in Seq(DOMAIN issued)
    <2>1. accepted' = accepted \/ accepted' = Append(accepted, m.call)
      BY DEF ServerReceives
    <2>2. accepted \in Seq(DOMAIN issued)
      BY DEF NetTyped
    <2> QED BY <1>1, <2>1, <2>2
  <1>4. \A x \in answers : /\ x \in [client : Clients, call : DOMAIN issued, datagram : Seq(Nat)]
                           /\ x.call = m.call /\ IsAnswer(x.datagram, CallOf(m))
    <2> SUFFICES ASSUME NEW n \in DOMAIN sent'
                 PROVE  /\ new(n) \in [client : Clients, call : DOMAIN issued, datagram : Seq(Nat)]
                        /\ new(n).call = m.call /\ IsAnswer(new(n).datagram, CallOf(m))
      OBVIOUS
    <2>1. IsAnswer(Flatten(sent'[n]), CallOf(m))
      BY <1>1
    <2>2. Flatten(sent'[n]) \in Seq(Nat)
      BY <1>1, <2>1, AnswerOnTheWire DEF IsAnswer, OnTheWire
    <2> QED BY <1>1, <2>1, <2>2
  <1> HIDE DEF answers
  <1>5. NetTyped'
    BY <1>2, <1>3, <1>4 DEF NetTyped
  <1>6. Carried'
    BY <1>2, <1>4 DEF Carried, CallOf
  <1> QED BY <1>5, <1>6

-----------------------------------------------------------------------------
(* Every step of a client process keeps its state's types.                  *)
LEMMA ClientStepTyped ==
  ASSUME ClientTypeOK, NEW c \in Clients,
         \/ \E pi \in Requests(c) : SendReq(c, pi) \/ SendLastSeqNum(c, pi)
         \/ SendFails(c) \/ WaitTimesOut(c) \/ \E d : HandleReply(c, d)
  PROVE  ClientTypeOK'
  <1>1. ASSUME NEW pi \in Requests(c), SendReq(c, pi) PROVE ClientTypeOK'
    <2>1. tries[c][pi.seq] \in 0..(MaxTries - 1)
      BY <1>1 DEF ClientTypeOK, SendReq
    <2> QED BY <1>1, <2>1, ClientAssumption DEF ClientTypeOK, SendReq, Begin, Outcomes
  <1>2. ASSUME NEW pi \in Requests(c), SendLastSeqNum(c, pi) PROVE ClientTypeOK'
    BY <1>2, ClientAssumption DEF ClientTypeOK, SendLastSeqNum, Begin, Return, Outcomes
  <1>3. CASE SendFails(c)
    BY <1>3 DEF ClientTypeOK, SendFails, Return, Outcomes
  <1>4. CASE WaitTimesOut(c)
    <2> DEFINE s == req[c].seq
               n == tries[c][s] + 1
    <2>1. /\ s \in Slots /\ tries[c][s] \in 0..(MaxTries - 1) /\ waits[c] \in Nat
          /\ waits' = [waits EXCEPT ![c] = waits[c] + 1]
          /\ UNCHANGED <<sock, req, sends, patience>>
      BY <1>4 DEF ClientTypeOK, WaitTimesOut
    <2>2. CASE n < MaxTries
      <3>1. n \in 0..(MaxTries - 1)
        BY <2>1, <2>2, ClientAssumption
      <3>2. tries' = [tries EXCEPT ![c][s] = n] /\ UNCHANGED <<phase, outcome>>
        BY <1>4, <2>2 DEF WaitTimesOut
      <3> QED BY <2>1, <3>1, <3>2 DEF ClientTypeOK
    <2>3. CASE ~(n < MaxTries)
      <3>1. 0 \in 0..(MaxTries - 1)
        BY ClientAssumption
      <3>2. tries' = [tries EXCEPT ![c][s] = 0] /\ Return(c, GAVE_UP)
        BY <1>4, <2>3 DEF WaitTimesOut
      <3> QED BY <2>1, <3>1, <3>2 DEF ClientTypeOK, Return, Outcomes
    <2> QED BY <2>2, <2>3
  <1>5. ASSUME NEW d, HandleReply(c, d) PROVE ClientTypeOK'
    <2>1. PICK r : \/ EndsCall(r.type) /\ Return(c, r.type)
                   \/ UNCHANGED <<phase, outcome>>
      BY <1>5 DEF HandleReply
    <2>2. UNCHANGED <<tries, sock, req, sends, waits, patience>>
      BY <1>5 DEF HandleReply
    <2>3. CASE EndsCall(r.type) /\ Return(c, r.type)
      <3>1. r.type \in Outcomes
        BY <2>3 DEF EndsCall, Outcomes
      <3> QED BY <2>2, <2>3, <3>1 DEF ClientTypeOK, Return
    <2>4. CASE UNCHANGED <<phase, outcome>>
      BY <2>2, <2>4 DEF ClientTypeOK
    <2> QED BY <2>1, <2>3, <2>4
  <1> QED BY <1>1, <1>2, <1>3, <1>4, <1>5

(* The client's part holds while its state does not change.                 *)
LEMMA ClientIdle ==
  ASSUME ClientTypeOK, UNCHANGED clientVars
  PROVE  ClientTypeOK'
  BY DEF ClientTypeOK, clientVars

(* To the server, a step of the system is one of its own or none.           *)
LEMMA ServerStep ==
  ASSUME SysInv, [SysNext]_sysVars
  PROVE  [Next]_serverVars
  <1>1. ASSUME NEW m \in toServer, ServerReceives(m) PROVE Next
    <2>1. CallOf(m) \in AllRequests /\ m.datagram = Flatten(CallOf(m))
      BY CallIsRequest DEF SysInv, Carried
    <2>2. m.datagram \in Datagrams
      BY <2>1, RequestParts
    <2> QED BY <1>1, <2>2 DEF ServerReceives, Next
  <1>2. CASE ServerRestarts
    BY <1>2 DEF ServerRestarts, Next
  <1>3. ASSUME NEW c \in Clients, SendingFails(c) \/ ClientStep(c) PROVE UNCHANGED serverVars
    BY <1>3 DEF SendingFails, ClientStep, TimesOut, ClientReceives
  <1>4. ASSUME NEW c \in Clients, NEW pi \in Requests(c), Send(c, pi) PROVE UNCHANGED serverVars
    BY <1>4 DEF Send
  <1>5. CASE Lose
    BY <1>5 DEF Lose
  <1>6. CASE UNCHANGED sysVars
    BY <1>6 DEF sysVars
  <1> QED BY <1>1, <1>2, <1>3, <1>4, <1>5, <1>6 DEF SysNext

(* The invariant holds at the start.                                        *)
LEMMA InitSysInv == SysInit => SysInv
  <1> SUFFICES ASSUME SysInit PROVE SysInv
    OBVIOUS
  <1>1. IInv
    BY InitInv DEF SysInit
  <1>2. ClientTypeOK
    <2>1. 0 \in 0..(MaxTries - 1) /\ 0 \in 0..MaxTries
      BY ClientAssumption
    <2>2. req \in [Clients -> {<<>>} \cup UNION {Requests(c) : c \in Clients}]
      BY DEF SysInit, ClientInit
    <2> QED BY <2>1, <2>2 DEF SysInit, ClientInit, ClientTypeOK, Outcomes
  <1>3. NetTyped
    BY SystemAssumption DEF SysInit, NetTyped
  <1>4. Carried
    BY DEF SysInit, Carried
  <1> QED BY <1>1, <1>2, <1>3, <1>4 DEF SysInv

(* And every step keeps it.                                                 *)
LEMMA SysInvKept == SysInv /\ [SysNext]_sysVars => SysInv'
  <1> SUFFICES ASSUME SysInv, [SysNext]_sysVars PROVE SysInv'
    OBVIOUS
  <1>1. IInv'
    BY ServerStep, StepInv DEF SysInv
  <1>2. ClientTypeOK /\ NetTyped /\ Carried /\ TypeOK
    BY DEF SysInv, IInv
  <1>3. ASSUME NEW c \in Clients, NEW pi \in Requests(c), Send(c, pi)
        PROVE  ClientTypeOK' /\ NetTyped' /\ Carried'
    <2>1. SendReq(c, pi) \/ SendLastSeqNum(c, pi)
      BY <1>3 DEF Send
    <2> QED BY <1>2, <1>3, <2>1, ClientStepTyped, SendKeepsNet
  <1>4. ASSUME NEW c \in Clients, SendingFails(c) \/ TimesOut(c)
        PROVE  ClientTypeOK' /\ NetTyped' /\ Carried'
    <2>1. SendFails(c) \/ WaitTimesOut(c)
      BY <1>4 DEF SendingFails, TimesOut
    <2>2. UNCHANGED <<netVars, histVars>>
      BY <1>4 DEF SendingFails, TimesOut
    <2>3. NetTyped' /\ Carried'
      BY <1>2, <2>2, FewerLetters DEF netVars, histVars, NetTyped
    <2> QED BY <1>2, <2>1, <2>3, ClientStepTyped
  <1>5. ASSUME NEW c \in Clients, NEW m \in toClient, ClientReceives(c, m)
        PROVE  ClientTypeOK' /\ NetTyped' /\ Carried'
    <2>1. HandleReply(c, m.datagram) /\ Taken(m, toClient) /\ UNCHANGED <<toServer, histVars>>
      BY <1>5 DEF ClientReceives
    <2>2. NetTyped' /\ Carried'
      BY <1>2, <2>1, TakenLeaves, FewerLetters DEF histVars, NetTyped
    <2> QED BY <1>2, <2>1, <2>2, ClientStepTyped
  <1>6. ASSUME NEW m \in toServer, ServerReceives(m)
        PROVE  ClientTypeOK' /\ NetTyped' /\ Carried'
    <2>1. UNCHANGED clientVars
      BY <1>6 DEF ServerReceives
    <2> QED BY <1>2, <1>6, <2>1, ClientIdle, ReceiveKeepsNet
  <1>7. CASE ServerRestarts
    <2>1. /\ UNCHANGED <<clientVars, toServer, toClient, issued>> /\ accepted' = <<>>
          /\ faults < MaxFaults /\ faults' = faults + 1
      BY <1>7 DEF ServerRestarts
    <2>2. faults' \in 0..MaxFaults
      BY <1>2, <2>1, SystemAssumption DEF NetTyped
    <2>3. accepted' \in Seq(DOMAIN issued)
      BY <2>1
    <2> QED BY <1>1, <1>2, <2>1, <2>2, <2>3, ClientIdle, FewerLetters DEF SysInv
  <1>8. CASE Lose
    <2>1. /\ UNCHANGED <<clientVars, faults, histVars>>
          /\ toServer' \subseteq toServer /\ toClient' \subseteq toClient
      BY <1>8 DEF Lose
    <2> QED BY <1>1, <1>2, <2>1, ClientIdle, FewerLetters DEF SysInv, histVars, NetTyped
  <1>9. CASE UNCHANGED sysVars
    <2>1. UNCHANGED <<clientVars, netVars, histVars>>
      BY <1>9 DEF sysVars
    <2> QED BY <1>1, <1>2, <2>1, ClientIdle, FewerLetters DEF SysInv, netVars, histVars, NetTyped
  <1> QED BY <1>1, <1>3, <1>4, <1>5, <1>6, <1>7, <1>8, <1>9 DEF SysNext, ClientStep, SysInv

(* The invariant holds in every behaviour of the system.                    *)
LEMMA SysInvHolds == SysSpec => []SysInv
  BY InitSysInv, SysInvKept, PTL DEF SysSpec

(***************************************************************************)
(* The parts of the system keep their types, and every datagram and every  *)
(* acceptance belongs to a call that was made.                             *)
(***************************************************************************)
THEOREM SystemTypes == SysSpec => []SysTypeOK
  <1>1. SysInv => SysTypeOK
    <2> SUFFICES ASSUME SysInv PROVE SysTypeOK
      OBVIOUS
    <2>1. TypeOK /\ ClientTypeOK /\ NetTyped
      BY DEF SysInv, IInv
    <2>2. \A n \in DOMAIN accepted : accepted[n] \in DOMAIN issued
      <3> DEFINE D == DOMAIN issued
      <3>1. accepted \in Seq(D)
        BY <2>1 DEF NetTyped
      <3> HIDE DEF D
      <3>2. \A n \in DOMAIN accepted : accepted[n] \in D
        BY <3>1
      <3> QED BY <3>2 DEF D
    <2> QED BY <2>1, <2>2 DEF SysTypeOK, NetTyped
  <1> QED BY <1>1, SysInvHolds, PTL

(***************************************************************************)
(* In the system the server behaves as it does by itself: whatever was     *)
(* proved of it alone holds of it there.                                   *)
(***************************************************************************)
THEOREM SystemRunsTheServer == SysSpec => Spec
  <1>1. SysInit => Init
    BY DEF SysInit
  <1>2. SysInv /\ [SysNext]_sysVars => [Next]_serverVars
    BY ServerStep
  <1> QED BY <1>1, <1>2, SysInvHolds, PTL DEF SysSpec, Spec

(* A request, as a record with its type replaced.                           *)
LEMMA ReplyIsRetyped ==
  ASSUME NEW pi \in AllRequests, NEW type
  PROVE  [pi EXCEPT !.type = type] = DataInfo(type, pi.id, pi.seq, pi.payload)
  <1>1. pi = DataInfo(ACC_PER, pi.id, pi.seq, pi.payload)
    BY RequestParts
  <1> DEFINE id == pi.id
             seq == pi.seq
             payload == pi.payload
  <1> HIDE DEF id, seq, payload
  <1>2. pi = DataInfo(ACC_PER, id, seq, payload)
    BY <1>1 DEF id, seq, payload
  <1>3. [pi EXCEPT !.type = type] = DataInfo(type, id, seq, payload)
    BY <1>2, Retyped
  <1> QED BY <1>3 DEF id, seq, payload

(***************************************************************************)
(* However datagrams are lost, repeated and reordered and the server is    *)
(* restarted, each answer on its way is about the call it was made for and *)
(* says what the file says, when the file is plain.                        *)
(***************************************************************************)
THEOREM SystemAnswersMatchTheirCall ==
  ASSUME FileIsPlain
  PROVE  SysSpec => []AnswersMatchTheirCall
  <1>1. SysInv => AnswersMatchTheirCall
    <2> SUFFICES ASSUME SysInv, NEW m \in toClient
                 PROVE  LET pi == issued[m.call].pi
                        IN  \/ m.datagram = Flatten(AckInfo(pi.id, pi.seq))
                            \/ m.datagram = Flatten([pi EXCEPT !.type = Truth(pi)])
                            \/ \E code \in {OUT_OF_SEQ, DUP_PACK} :
                                 m.datagram = Flatten(RejectInfo(pi.id, code, pi.seq))
      BY DEF AnswersMatchTheirCall
    <2> DEFINE pi == issued[m.call].pi
    <2>1. pi \in AllRequests /\ IsAnswer(m.datagram, pi)
      BY CallIsRequest DEF SysInv, Carried, CallOf
    <2> HIDE DEF pi
    <2>2. VerdictOn(pi) = Truth(pi)
      BY <2>1, VerdictsAreTrue
    <2>3. [pi EXCEPT !.type = Truth(pi)] = DataInfo(VerdictOn(pi), pi.id, pi.seq, pi.payload)
      BY <2>1, <2>2, ReplyIsRetyped
    <2>4. \/ m.datagram = Flatten(AckInfo(pi.id, pi.seq))
          \/ m.datagram = Flatten([pi EXCEPT !.type = Truth(pi)])
          \/ \E code \in {OUT_OF_SEQ, DUP_PACK} :
               m.datagram = Flatten(RejectInfo(pi.id, code, pi.seq))
      BY <2>1, <2>3 DEF IsAnswer, IsAck, IsReply, IsRefusal
    <2> QED BY <2>4 DEF pi
  <1> QED BY <1>1, SysInvHolds, PTL

-----------------------------------------------------------------------------
(***************************************************************************)
(* A call that is made in silence: what is about of its client's letters   *)
(* is its own, and a verdict it ended with is the one on its request.      *)
(***************************************************************************)
OwnLetters(c) ==
  \A m \in toServer \cup toClient : m.client = c => CallOf(m) = req[c]

OwnVerdict(c) ==
  phase[c] = "shell" /\ outcome[c] \in Verdicts =>
    req[c] \in AllRequests /\ outcome[c] = VerdictOn(req[c])

QuietInv ==
  /\ quiet \in [Clients -> BOOLEAN]
  /\ \A c \in Clients : quiet[c] => OwnLetters(c) /\ OwnVerdict(c)

(* Ends of a call that are no verdict.                                      *)
LEMMA NoVerdicts ==
  /\ NO_OUTCOME \notin Verdicts /\ GAVE_UP \notin Verdicts /\ SEND_FAILED \notin Verdicts
  /\ ACK \notin Verdicts /\ REJECT \notin Verdicts
  BY DEF NO_OUTCOME, GAVE_UP, SEND_FAILED, ACK, REJECT, Verdicts, NOT_EXIST, NOT_PAID, ACC_OK

(* No new letter, no new call, no other end of a call.                      *)
LEMMA QuietIdle ==
  ASSUME QuietInv, UNCHANGED <<issued, quiet, req, phase, outcome>>,
         \A m \in toServer' \cup toClient' :
           \E k \in toServer \cup toClient : k.client = m.client /\ k.call = m.call
  PROVE  QuietInv'
  <1>1. quiet' \in [Clients -> BOOLEAN]
    BY DEF QuietInv
  <1>2. ASSUME NEW c \in Clients, quiet'[c] PROVE OwnLetters(c)' /\ OwnVerdict(c)'
    <2>1. OwnLetters(c) /\ OwnVerdict(c)
      BY <1>2 DEF QuietInv
    <2>2. OwnVerdict(c)'
      BY <2>1 DEF OwnVerdict
    <2>3. ASSUME NEW m \in toServer' \cup toClient', m.client = c
          PROVE  issued[m.call].pi = req[c]
      <3>1. PICK k \in toServer \cup toClient : k.client = m.client /\ k.call = m.call
        OBVIOUS
      <3> QED BY <2>1, <2>3, <3>1 DEF OwnLetters, CallOf
    <2>4. OwnLetters(c)'
      BY <2>3 DEF OwnLetters, CallOf
    <2> QED BY <2>2, <2>4
  <1> QED BY <1>1, <1>2 DEF QuietInv

(* A new call: quiet only when nothing of the client's is about.            *)
LEMMA QuietSend ==
  ASSUME SysInv, QuietInv, NEW c \in Clients, NEW pi \in Requests(c), Send(c, pi)
  PROVE  QuietInv'
  <1> DEFINE new == [client |-> c, call |-> Len(issued) + 1, datagram |-> Flatten(pi)]
             alone == \A m \in toServer \cup toClient : m.client # c
  <1>1. /\ issued' = Append(issued, [client |-> c, pi |-> pi])
        /\ toServer' = toServer \cup {new} /\ toClient' = toClient
        /\ quiet' = [quiet EXCEPT ![c] = alone]
    <2>1. toClient' = toClient
      BY DEF Send
    <2> QED BY <2>1 DEF Send
  <1>2. /\ req' = [req EXCEPT ![c] = pi]
        /\ \/ /\ phase' = [phase EXCEPT ![c] = "waiting"]
              /\ outcome' = [outcome EXCEPT ![c] = NO_OUTCOME]
           \/ /\ phase' = [phase EXCEPT ![c] = "shell"]
              /\ outcome' = [outcome EXCEPT ![c] = GAVE_UP]
    BY DEF Send, SendReq, SendLastSeqNum, Begin, Return
  <1>3. /\ DOMAIN req = Clients /\ DOMAIN phase = Clients /\ DOMAIN outcome = Clients
        /\ quiet \in [Clients -> BOOLEAN]
    BY DEF SysInv, ClientTypeOK, QuietInv
  <1>4. NetTyped
    BY DEF SysInv
  <1>5. /\ \A i \in DOMAIN issued : issued'[i] = issued[i]
        /\ issued'[Len(issued) + 1].pi = pi
    <2> DEFINE x == [client |-> c, pi |-> pi]
    <2>1. x.pi = pi /\ issued \in Seq([client : Clients, pi : AllRequests])
      BY <1>4 DEF NetTyped
    <2>2. issued' = Append(issued, x)
      BY <1>1
    <2> HIDE DEF x
    <2> QED BY <2>1, <2>2
  <1>6. new.client = c /\ new.call = Len(issued) + 1
    OBVIOUS
  <1>7. \A m \in toServer \cup toClient : issued'[m.call].pi = CallOf(m)
    BY <1>4, <1>5, CallIsRequest DEF CallOf
  <1> HIDE DEF new, alone
  <1>8. quiet' \in [Clients -> BOOLEAN]
    <2>1. alone \in BOOLEAN
      BY DEF alone
    <2> QED BY <1>1, <1>3, <2>1
  <1>9. ASSUME NEW b \in Clients, quiet'[b] PROVE OwnLetters(b)' /\ OwnVerdict(b)'
    <2>1. CASE b = c
      <3>1. alone /\ req'[b] = pi
        BY <1>1, <1>2, <1>3, <1>9, <2>1
      <3>2. ASSUME NEW m \in toServer' \cup toClient', m.client = b PROVE issued'[m.call].pi = req'[b]
        <4>1. m = new
          BY <1>1, <2>1, <3>1, <3>2 DEF alone
        <4> QED BY <1>5, <1>6, <3>1, <4>1
      <3>3. OwnLetters(b)'
        BY <3>2 DEF OwnLetters, CallOf
      <3>4. phase'[b] = "waiting" \/ outcome'[b] = GAVE_UP
        BY <1>2, <1>3, <2>1
      <3>5. OwnVerdict(b)'
        BY <3>4, NoVerdicts DEF OwnVerdict
      <3> QED BY <3>3, <3>5
    <2>2. CASE b # c
      <3>1. /\ quiet[b] /\ req'[b] = req[b] /\ phase'[b] = phase[b] /\ outcome'[b] = outcome[b]
        BY <1>1, <1>2, <1>3, <1>9, <2>2
      <3>2. OwnLetters(b) /\ OwnVerdict(b)
        BY <3>1 DEF QuietInv
      <3>3. OwnVerdict(b)'
        BY <3>1, <3>2 DEF OwnVerdict
      <3>4. ASSUME NEW m \in toServer' \cup toClient', m.client = b PROVE issued'[m.call].pi = req'[b]
        <4>1. m \in toServer \cup toClient
          BY <1>1, <1>6, <2>2, <3>4
        <4> QED BY <1>7, <3>1, <3>2, <3>4, <4>1 DEF OwnLetters
      <3>5. OwnLetters(b)'
        BY <3>4 DEF OwnLetters, CallOf
      <3> QED BY <3>3, <3>5
    <2> QED BY <2>1, <2>2
  <1> QED BY <1>8, <1>9 DEF QuietInv

(* A step of one client that is no call: it ends another way, or with the   *)
(* verdict on its request.                                                  *)
LEMMA QuietEnd ==
  ASSUME SysInv, QuietInv, NEW c \in Clients, NEW how, Return(c, how),
         quiet[c] => how \notin Verdicts \/ (req[c] \in AllRequests /\ how = VerdictOn(req[c])),
         UNCHANGED <<issued, quiet, req>>,
         toServer' \cup toClient' \subseteq toServer \cup toClient
  PROVE  QuietInv'
  <1>1. DOMAIN phase = Clients /\ DOMAIN outcome = Clients
    BY DEF SysInv, ClientTypeOK
  <1>2. quiet' \in [Clients -> BOOLEAN]
    BY DEF QuietInv
  <1>3. ASSUME NEW b \in Clients, quiet'[b] PROVE OwnLetters(b)' /\ OwnVerdict(b)'
    <2>1. OwnLetters(b) /\ OwnVerdict(b) /\ quiet[b]
      BY <1>3 DEF QuietInv
    <2>2. OwnLetters(b)'
      BY <2>1 DEF OwnLetters, CallOf
    <2>3. CASE b = c
      <3>1. outcome'[b] = how
        BY <1>1, <2>3 DEF Return
      <3> QED BY <2>1, <2>2, <2>3, <3>1 DEF OwnVerdict
    <2>4. CASE b # c
      <3>1. phase'[b] = phase[b] /\ outcome'[b] = outcome[b]
        BY <1>1, <2>4 DEF Return
      <3> QED BY <2>1, <2>2, <3>1 DEF OwnVerdict
    <2> QED BY <2>3, <2>4
  <1> QED BY <1>2, <1>3 DEF QuietInv

(* A datagram reaches a client: it is its own call's if the call is quiet.  *)
LEMMA QuietReply ==
  ASSUME SysInv, QuietInv, NEW c \in Clients, NEW m \in toClient, ClientReceives(c, m)
  PROVE  QuietInv'
  <1> DEFINE empty == [i \in 1..BufSize |-> 0]
  <1>1. /\ m.client = c /\ CallOf(m) \in AllRequests /\ IsAnswer(m.datagram, CallOf(m))
        /\ HandleReply(c, m.datagram)
    BY CallIsRequest DEF SysInv, Carried, ClientReceives
  <1>2. /\ toClient' \subseteq toClient /\ toServer' = toServer
        /\ UNCHANGED <<issued, quiet, req>>
    BY TakenLeaves DEF ClientReceives, HandleReply, histVars, SysInv
  <1>3. empty \in [1..BufSize -> Nat]
    OBVIOUS
  <1>4. PICK r \in Interpret(Overlay(m.datagram, empty)) :
          Return(c, r.type) \/ UNCHANGED <<phase, outcome>>
    BY <1>1 DEF HandleReply
  <1> HIDE DEF empty
  <1>5. r.type \in {ACK, REJECT, VerdictOn(CallOf(m))}
    <2>1. PICK type \in {ACK, REJECT, VerdictOn(CallOf(m))} : OnTheWire(m.datagram, type)
      BY <1>1, AnswerOnTheWire DEF IsAnswer
    <2> QED BY <1>3, <2>1, TypeRead
  <1>6. quiet[c] => CallOf(m) = req[c]
    BY <1>1 DEF QuietInv, OwnLetters
  <1>7. CASE Return(c, r.type)
    <2>1. quiet[c] => r.type \notin Verdicts \/ (req[c] \in AllRequests /\ r.type = VerdictOn(req[c]))
      BY <1>1, <1>5, <1>6, NoVerdicts
    <2> QED BY <1>2, <1>7, <2>1, QuietEnd
  <1>8. CASE UNCHANGED <<phase, outcome>>
    BY <1>2, <1>8, QuietIdle
  <1> QED BY <1>4, <1>7, <1>8

(* Every step keeps the invariant of the quiet calls.                       *)
LEMMA QuietKept == SysInv /\ QuietInv /\ [SysNext]_sysVars => QuietInv'
  <1> SUFFICES ASSUME SysInv, QuietInv, [SysNext]_sysVars PROVE QuietInv'
    OBVIOUS
  <1>1. ASSUME NEW c \in Clients, NEW pi \in Requests(c), Send(c, pi) PROVE QuietInv'
    BY <1>1, QuietSend
  <1>2. ASSUME NEW c \in Clients, SendingFails(c) PROVE QuietInv'
    <2>1. /\ Return(c, SEND_FAILED) /\ UNCHANGED <<issued, quiet, req>>
          /\ toServer' = toServer /\ toClient' = toClient
      BY <1>2 DEF SendingFails, SendFails, netVars, histVars
    <2> QED BY <2>1, NoVerdicts, QuietEnd
  <1>3. ASSUME NEW c \in Clients, TimesOut(c) PROVE QuietInv'
    <2>1. /\ UNCHANGED <<issued, quiet, req>>
          /\ toServer' = toServer /\ toClient' = toClient
          /\ Return(c, GAVE_UP) \/ UNCHANGED <<phase, outcome>>
      BY <1>3 DEF TimesOut, WaitTimesOut, netVars, histVars
    <2>2. CASE Return(c, GAVE_UP)
      BY <2>1, <2>2, NoVerdicts, QuietEnd
    <2>3. CASE UNCHANGED <<phase, outcome>>
      BY <2>1, <2>3, QuietIdle
    <2> QED BY <2>1, <2>2, <2>3
  <1>4. ASSUME NEW c \in Clients, NEW m \in toClient, ClientReceives(c, m) PROVE QuietInv'
    BY <1>4, QuietReply
  <1>5. ASSUME NEW m \in toServer, ServerReceives(m) PROVE QuietInv'
    <2>1. /\ UNCHANGED <<issued, quiet, req, phase, outcome>>
          /\ toServer' \subseteq toServer
          /\ \A x \in toClient' : x \in toClient \/ (x.client = m.client /\ x.call = m.call)
      BY <1>5, TakenLeaves DEF ServerReceives, clientVars, SysInv
    <2> QED BY <2>1, QuietIdle
  <1>6. CASE ServerRestarts
    <2>1. UNCHANGED <<issued, quiet, req, phase, outcome, toServer, toClient>>
      BY <1>6 DEF ServerRestarts, clientVars
    <2> QED BY <2>1, QuietIdle
  <1>7. CASE Lose
    <2>1. /\ UNCHANGED <<issued, quiet, req, phase, outcome>>
          /\ toServer' \subseteq toServer /\ toClient' \subseteq toClient
      BY <1>7 DEF Lose, clientVars, histVars
    <2> QED BY <2>1, QuietIdle
  <1>8. CASE UNCHANGED sysVars
    <2>1. UNCHANGED <<issued, quiet, req, phase, outcome, toServer, toClient>>
      BY <1>8 DEF sysVars, clientVars, histVars, netVars
    <2> QED BY <2>1, QuietIdle
  <1> QED BY <1>1, <1>2, <1>3, <1>4, <1>5, <1>6, <1>7, <1>8 DEF SysNext, ClientStep

(***************************************************************************)
(* A call made in silence ends with the truth about its own subscriber or  *)
(* with no verdict, when the file is plain, although nothing in a reply is *)
(* compared with the request.                                              *)
(***************************************************************************)
THEOREM SystemQuietCallsEndTruthfully ==
  ASSUME FileIsPlain
  PROVE  SysSpec => []QuietCallsEndTruthfully
  <1>1. SysInit => QuietInv
    <2> SUFFICES ASSUME SysInit PROVE QuietInv
      OBVIOUS
    <2>1. \A c \in Clients : outcome[c] = NO_OUTCOME
      BY DEF SysInit, ClientInit
    <2> QED BY <2>1, NoVerdicts DEF SysInit, QuietInv, OwnLetters, OwnVerdict
  <1>2. QuietInv => QuietCallsEndTruthfully
    BY VerdictsAreTrue DEF QuietInv, OwnVerdict, QuietCallsEndTruthfully
  <1> QED BY <1>1, <1>2, SysInvHolds, QuietKept, PTL DEF SysSpec

-----------------------------------------------------------------------------
(* The request of the n-th acceptance, and the acceptances for the id of    *)
(* the i-th that are not before it.                                         *)
Of(n)    == issued[accepted[n]].pi
Since(i) == {n \in i..Len(accepted) : Of(n).id = Of(i).id}

(* The numbers from s on that a counter has passed when it stands at e: all *)
(* of them when it is back at s.                                            *)
Arc(s, e) == {t \in SequenceNum : IF s < e THEN s <= t /\ t < e ELSE s <= t \/ t < e}

(***************************************************************************)
(* Every number the counter of an id has passed since a request of that id *)
(* was accepted was accepted for it.                                       *)
(***************************************************************************)
PassedWasAccepted ==
  \A i \in DOMAIN accepted :
    Arc(Of(i).seq, expect_recv[Of(i).id]) \subseteq {Of(n).seq : n \in Since(i)}

FullLap(i, j) ==
  \E lap \in SUBSET (i..(j - 1)) : /\ \A n \in lap : Of(n).id = Of(i).id
                                   /\ {Of(n).seq : n \in lap} = SequenceNum

LapInv ==
  /\ PassedWasAccepted
  /\ \A i, j \in DOMAIN accepted : i < j /\ accepted[i] = accepted[j] => FullLap(i, j)

(* The counter passes the number it stands at.                              *)
LEMMA ArcGrows ==
  ASSUME NEW s \in SequenceNum, NEW e \in SequenceNum
  PROVE  /\ Arc(s, NextSeq(e)) \subseteq Arc(s, e) \cup {e}
         /\ Arc(s, s) = SequenceNum
         /\ Arc(s, NextSeq(s)) \subseteq {s}
  <1>1. MaxSeqNum \in Nat /\ SequenceNum = 0..MaxSeqNum
    BY PacketsAssumption DEF SequenceNum
  <1>2. /\ e # MaxSeqNum => NextSeq(e) = e + 1
        /\ e = MaxSeqNum => NextSeq(e) = 0
        /\ s # MaxSeqNum => NextSeq(s) = s + 1
        /\ s = MaxSeqNum => NextSeq(s) = 0
    BY NextSeqWraps
  <1>3. Arc(s, s) = SequenceNum
    BY <1>1 DEF Arc
  <1>4. Arc(s, NextSeq(e)) \subseteq Arc(s, e) \cup {e}
    BY <1>1, <1>2 DEF Arc
  <1>5. Arc(s, NextSeq(s)) \subseteq {s}
    BY <1>1, <1>2 DEF Arc
  <1> QED BY <1>3, <1>4, <1>5

(* What is accepted is a request of a call.                                 *)
LEMMA AcceptedIsRequest ==
  ASSUME NetTyped, NEW n \in DOMAIN accepted
  PROVE  accepted[n] \in DOMAIN issued /\ Of(n) \in AllRequests
  <1> DEFINE D == DOMAIN issued
             Issue == [client : Clients, pi : AllRequests]
  <1>1. accepted \in Seq(D) /\ issued \in Seq(Issue)
    BY DEF NetTyped
  <1> HIDE DEF D, Issue
  <1>2. accepted[n] \in D
    BY <1>1
  <1>3. issued[accepted[n]] \in Issue
    BY <1>1, <1>2 DEF D
  <1> QED BY <1>2, <1>3 DEF D, Issue, Of

(* A step that accepts nothing and leaves the counters.                     *)
LEMMA LapIdle ==
  ASSUME LapInv, accepted' = accepted, expect_recv' = expect_recv, Len(accepted) \in Nat,
         DOMAIN accepted = 1..Len(accepted),
         \A n \in DOMAIN accepted : issued'[accepted[n]] = issued[accepted[n]]
  PROVE  LapInv'
  <1>1. \A n \in DOMAIN accepted : Of(n)' = Of(n)
    BY DEF Of
  <1>2. ASSUME NEW i \in DOMAIN accepted
        PROVE  {Of(n)'.seq : n \in Since(i)'} = {Of(n).seq : n \in Since(i)}
    <2>1. \A n \in i..Len(accepted) : n \in DOMAIN accepted
      OBVIOUS
    <2>2. Since(i)' = Since(i)
      BY <1>1, <2>1 DEF Since
    <2>3. \A n \in Since(i) : Of(n)' = Of(n)
      BY <1>1, <2>1 DEF Since
    <2> QED BY <2>2, <2>3
  <1>3. PassedWasAccepted'
    <2> SUFFICES ASSUME NEW i \in DOMAIN accepted'
                 PROVE  Arc(Of(i)'.seq, expect_recv'[Of(i)'.id]) \subseteq {Of(n)'.seq : n \in Since(i)'}
      BY DEF PassedWasAccepted
    <2> QED BY <1>1, <1>2 DEF LapInv, PassedWasAccepted
  <1>4. ASSUME NEW i \in DOMAIN accepted, NEW j \in DOMAIN accepted,
               i < j, accepted[i] = accepted[j]
        PROVE  FullLap(i, j)'
    <2>1. PICK lap \in SUBSET (i..(j - 1)) : /\ \A n \in lap : Of(n).id = Of(i).id
                                             /\ {Of(n).seq : n \in lap} = SequenceNum
      BY <1>4 DEF LapInv, FullLap
    <2>2. \A n \in lap : n \in DOMAIN accepted
      OBVIOUS
    <2>3. /\ \A n \in lap : Of(n)'.id = Of(i)'.id
          /\ {Of(n)'.seq : n \in lap} = SequenceNum
      BY <1>1, <2>1, <2>2
    <2> QED BY <2>3 DEF FullLap
  <1> QED BY <1>3, <1>4 DEF LapInv

(* The server accepts a request: the number its counter stands at.          *)
LEMMA LapAccept ==
  ASSUME SysInv, LapInv, NEW m \in toServer, issued' = issued,
         accepted' = Append(accepted, m.call), Answered(CallOf(m))
  PROVE  LapInv'
  <1> DEFINE pi == CallOf(m)
  <1>1. PICK k : k = Len(accepted) + 1
    OBVIOUS
  <1>2. NetTyped /\ expect_recv \in [ClientId -> SequenceNum]
    BY DEF SysInv, IInv, TypeOK
  <1>3. pi \in AllRequests /\ pi.id \in ClientId /\ pi.seq \in SequenceNum
    BY <1>2, CallIsRequest, RequestParts
  <1>4. /\ pi.seq = expect_recv[pi.id]
        /\ expect_recv' = [expect_recv EXCEPT ![pi.id] = NextSeq(pi.seq)]
    BY DEF Answered
  <1>5. /\ Len(accepted) \in Nat /\ DOMAIN accepted = 1..Len(accepted)
        /\ Len(accepted') = k /\ DOMAIN accepted' = 1..k
        /\ \A n \in DOMAIN accepted : accepted'[n] = accepted[n]
        /\ accepted'[k] = m.call
    <2> DEFINE D == DOMAIN issued
    <2>1. accepted \in Seq(D)
      BY <1>2 DEF NetTyped
    <2> HIDE DEF D
    <2> QED BY <1>1, <2>1
  <1>6. /\ \A n \in DOMAIN accepted : Of(n)' = Of(n) /\ n # k
        /\ Of(k)' = pi
    BY <1>5, <1>1 DEF Of, CallOf
  <1>7. \A n \in DOMAIN accepted : /\ Of(n).id \in ClientId /\ Of(n).seq \in SequenceNum
    BY <1>2, AcceptedIsRequest, RequestParts
  <1> HIDE DEF pi
  <1>8. ASSUME NEW i \in DOMAIN accepted
        PROVE  /\ {Of(n).seq : n \in Since(i)} \subseteq {Of(n)'.seq : n \in Since(i)'}
               /\ Of(i).id = pi.id => pi.seq \in {Of(n)'.seq : n \in Since(i)'}
    <2>1. ASSUME NEW n \in Since(i) PROVE n \in Since(i)' /\ Of(n)' = Of(n)
      <3>1. n \in i..Len(accepted) /\ n \in DOMAIN accepted /\ Of(n).id = Of(i).id
        BY <1>5 DEF Since
      <3>2. n \in i..k
        BY <1>5, <1>1, <3>1
      <3> QED BY <1>5, <1>6, <3>1, <3>2 DEF Since
    <2>2. ASSUME Of(i).id = pi.id PROVE k \in Since(i)'
      <3>1. k \in i..k
        BY <1>5, <1>1
      <3> QED BY <1>5, <1>6, <2>2, <3>1 DEF Since
    <2> QED BY <1>6, <2>1, <2>2
  <1>9. PassedWasAccepted'
    <2> SUFFICES ASSUME NEW i \in DOMAIN accepted'
                 PROVE  Arc(Of(i)'.seq, expect_recv'[Of(i)'.id]) \subseteq {Of(n)'.seq : n \in Since(i)'}
      BY DEF PassedWasAccepted
    <2>1. CASE i = k
      <3>1. k \in Since(k)'
        BY <1>5, <1>1 DEF Since
      <3>2. pi.seq \in {Of(n)'.seq : n \in Since(k)'}
        BY <1>6, <3>1
      <3>3. expect_recv'[pi.id] = NextSeq(pi.seq)
        BY <1>2, <1>3, <1>4
      <3> QED BY <1>3, <1>6, <2>1, <3>2, <3>3, ArcGrows
    <2>2. CASE i # k
      <3>1. i \in DOMAIN accepted /\ Of(i)' = Of(i)
        BY <1>5, <1>6, <1>1, <2>2
      <3>2. Arc(Of(i).seq, expect_recv[Of(i).id]) \subseteq {Of(n)'.seq : n \in Since(i)'}
        BY <1>8, <3>1 DEF LapInv, PassedWasAccepted
      <3>3. CASE Of(i).id # pi.id
        <4>1. expect_recv'[Of(i).id] = expect_recv[Of(i).id]
          BY <1>2, <1>4, <1>7, <3>1, <3>3
        <4> QED BY <3>1, <3>2, <4>1
      <3>4. CASE Of(i).id = pi.id
        <4>1. expect_recv'[Of(i).id] = NextSeq(pi.seq)
          BY <1>2, <1>3, <1>4, <3>4
        <4>2. Arc(Of(i).seq, NextSeq(pi.seq)) \subseteq Arc(Of(i).seq, pi.seq) \cup {pi.seq}
          BY <1>3, <1>7, <3>1, ArcGrows
        <4>3. Arc(Of(i).seq, pi.seq) \subseteq {Of(n)'.seq : n \in Since(i)'}
          BY <1>4, <3>2, <3>4
        <4>4. pi.seq \in {Of(n)'.seq : n \in Since(i)'}
          BY <1>8, <3>1, <3>4
        <4> QED BY <3>1, <4>1, <4>2, <4>3, <4>4
      <3> QED BY <3>3, <3>4
    <2> QED BY <2>1, <2>2
  <1>10. ASSUME NEW i \in DOMAIN accepted', NEW j \in DOMAIN accepted',
                i < j, accepted'[i] = accepted'[j]
         PROVE  FullLap(i, j)'
    <2>1. i \in DOMAIN accepted
      BY <1>5, <1>1, <1>10
    <2>2. CASE j = k
      <3>1. Of(i) = pi
        BY <1>5, <1>10, <2>1, <2>2 DEF Of, CallOf, pi
      <3>2. \A n \in Since(i) : n \in i..(j - 1) /\ n \in DOMAIN accepted /\ Of(n).id = pi.id
        BY <1>5, <1>1, <2>1, <2>2, <3>1 DEF Since
      <3>3. SequenceNum \subseteq {Of(n).seq : n \in Since(i)}
        <4>1. Arc(pi.seq, expect_recv[pi.id]) \subseteq {Of(n).seq : n \in Since(i)}
          BY <2>1, <3>1 DEF LapInv, PassedWasAccepted
        <4> QED BY <1>3, <1>4, <4>1, ArcGrows
      <3>4. \A n \in Since(i) : Of(n)'.id = Of(i)'.id /\ Of(n)'.seq = Of(n).seq
        BY <1>6, <2>1, <3>1, <3>2
      <3>5. {Of(n)'.seq : n \in Since(i)} = SequenceNum
        BY <1>7, <3>2, <3>3, <3>4
      <3>6. Since(i) \in SUBSET (i..(j - 1))
        BY <3>2
      <3> QED BY <3>4, <3>5, <3>6 DEF FullLap
    <2>3. CASE j # k
      <3>1. j \in DOMAIN accepted /\ accepted[i] = accepted[j]
        BY <1>5, <1>1, <1>10, <2>1, <2>3
      <3>2. PICK lap \in SUBSET (i..(j - 1)) : /\ \A n \in lap : Of(n).id = Of(i).id
                                               /\ {Of(n).seq : n \in lap} = SequenceNum
        BY <1>10, <2>1, <3>1 DEF LapInv, FullLap
      <3>3. \A n \in lap : n \in DOMAIN accepted
        BY <1>5, <2>1, <3>1
      <3>4. /\ \A n \in lap : Of(n)'.id = Of(i)'.id
            /\ {Of(n)'.seq : n \in lap} = SequenceNum
        BY <1>6, <2>1, <3>2, <3>3
      <3> QED BY <3>4 DEF FullLap
    <2> QED BY <2>2, <2>3
  <1> QED BY <1>9, <1>10 DEF LapInv

(* Every step keeps the invariant of the laps.                              *)
LEMMA LapKept == SysInv /\ LapInv /\ [SysNext]_sysVars => LapInv'
  <1> SUFFICES ASSUME SysInv, LapInv, [SysNext]_sysVars PROVE LapInv'
    OBVIOUS
  <1>1. NetTyped /\ TypeOK /\ Carried
    BY DEF SysInv, IInv
  <1>2. Len(accepted) \in Nat /\ DOMAIN accepted = 1..Len(accepted)
    <2> DEFINE D == DOMAIN issued
    <2>1. accepted \in Seq(D)
      BY <1>1 DEF NetTyped
    <2> HIDE DEF D
    <2> QED BY <2>1
  <1>3. ASSUME UNCHANGED <<issued, accepted, expect_recv>> PROVE LapInv'
    BY <1>2, <1>3, LapIdle
  <1>4. ASSUME NEW c \in Clients, NEW pi \in Requests(c), Send(c, pi) PROVE LapInv'
    <2>1. issued' = Append(issued, [client |-> c, pi |-> pi])
      BY <1>4 DEF Send
    <2>2. UNCHANGED <<accepted, expect_recv>>
      BY <1>4 DEF Send, serverVars
    <2>3. \A n \in DOMAIN issued : issued'[n] = issued[n]
      <3> DEFINE Issue == [client : Clients, pi : AllRequests]
                 x == [client |-> c, pi |-> pi]
      <3>1. issued \in Seq(Issue) /\ issued' = Append(issued, x)
        BY <1>1, <2>1 DEF NetTyped
      <3> HIDE DEF Issue, x
      <3> QED BY <3>1
    <2>4. \A n \in DOMAIN accepted : issued'[accepted[n]] = issued[accepted[n]]
      BY <1>1, <2>3, AcceptedIsRequest
    <2> QED BY <1>2, <2>2, <2>4, LapIdle
  <1>5. ASSUME NEW m \in toServer, ServerReceives(m) PROVE LapInv'
    <2>1. /\ issued' = issued
          /\ Refused(CallOf(m)) \/ Answered(CallOf(m))
          /\ accepted' = IF Answered(CallOf(m)) THEN Append(accepted, m.call) ELSE accepted
      BY <1>1, <1>5, ReceivedAnswers DEF ServerReceives
    <2>2. CASE Answered(CallOf(m))
      BY <2>1, <2>2, LapAccept
    <2>3. CASE ~Answered(CallOf(m))
      <3>1. issued' = issued /\ accepted' = accepted /\ expect_recv' = expect_recv
        <4>1. issued' = issued
          BY <1>5 DEF ServerReceives
        <4> QED BY <2>1, <2>3, <4>1 DEF Refused
      <3> QED BY <1>3, <3>1
    <2> QED BY <2>2, <2>3
  <1>6. CASE ServerRestarts
    <2>1. accepted' = <<>> /\ DOMAIN accepted' = {}
      BY <1>6 DEF ServerRestarts
    <2> QED BY <2>1 DEF LapInv, PassedWasAccepted
  <1>7. ASSUME NEW c \in Clients, SendingFails(c) \/ ClientStep(c) PROVE LapInv'
    <2>1. UNCHANGED <<issued, accepted, expect_recv>>
      BY <1>7 DEF SendingFails, ClientStep, TimesOut, ClientReceives, serverVars, histVars
    <2> QED BY <1>3, <2>1
  <1>8. CASE Lose
    <2>1. UNCHANGED <<issued, accepted, expect_recv>>
      BY <1>8 DEF Lose, serverVars, histVars
    <2> QED BY <1>3, <2>1
  <1>9. CASE UNCHANGED sysVars
    <2>1. UNCHANGED <<issued, accepted, expect_recv>>
      BY <1>9 DEF sysVars, serverVars, histVars
    <2> QED BY <1>3, <2>1
  <1> QED BY <1>4, <1>5, <1>6, <1>7, <1>8, <1>9 DEF SysNext

(***************************************************************************)
(* However often the network repeats a request, the server accepts a call  *)
(* again only after a whole lap of numbers of its id.                      *)
(***************************************************************************)
THEOREM SystemOnceALap == SysSpec => []OnceALap
  <1>1. SysInit => LapInv
    <2> SUFFICES ASSUME SysInit PROVE LapInv
      OBVIOUS
    <2>1. accepted = <<>> /\ DOMAIN accepted = {}
      BY DEF SysInit
    <2> QED BY <2>1 DEF LapInv, PassedWasAccepted
  <1>2. LapInv => OnceALap
    BY DEF LapInv, FullLap, Of, OnceALap
  <1> QED BY <1>1, <1>2, SysInvHolds, LapKept, PTL DEF SysSpec
=============================================================================
