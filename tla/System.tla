------------------------------- MODULE System --------------------------------
(***************************************************************************)
(* The server and its clients over UDP.  A datagram in flight, or waiting  *)
(* in a socket, is a record in toServer or toClient; it may be lost, be    *)
(* delivered twice, and overtake others.  The server may be restarted.     *)
(*                                                                         *)
(* issued, accepted and quiet are history: the calls made so far, those    *)
(* the server accepted since it started, and for each client whether       *)
(* nothing of its earlier calls was still about when it made its last one. *)
(* A record carries the number of the call it belongs to; the program has  *)
(* no such number and no action looks at it.                               *)
(***************************************************************************)
EXTENDS Server, Client

CONSTANTS MaxCalls,   \* bound: calls made
          MaxFaults   \* bound: datagrams delivered twice and restarts, together

ASSUME SystemAssumption == MaxCalls \in Nat /\ MaxFaults \in Nat

(* A request carries a technology and a number, and what the clients send   *)
(* is among the datagrams that may arrive at the server.                    *)
ASSUME RequestsAssumption ==
  /\ \A payload \in Payloads : Len(payload) = 2
  /\ \A c \in Clients : \A pi \in Requests(c) : Flatten(pi) \in Datagrams

VARIABLES toServer, toClient, faults, issued, accepted, quiet

netVars == <<toServer, toClient, faults>>
histVars == <<issued, accepted, quiet>>
sysVars == <<serverVars, clientVars, netVars, histVars>>

SysInit ==
  /\ Init /\ ClientInit
  /\ toServer = {} /\ toClient = {} /\ faults = 0
  /\ issued = <<>> /\ accepted = <<>>
  /\ quiet = [c \in Clients |-> TRUE]

(* m leaves the set, unless the network delivers it once more.              *)
Taken(m, net) ==
  \/ net' = net \ {m} /\ UNCHANGED faults
  \/ faults < MaxFaults /\ faults' = faults + 1 /\ UNCHANGED net

Send(c, pi) ==
  /\ Len(issued) < MaxCalls
  /\ SendReq(c, pi) \/ SendLastSeqNum(c, pi)
  /\ issued' = Append(issued, [client |-> c, pi |-> pi])
  /\ toServer' = toServer \cup
       {[client |-> c, call |-> Len(issued) + 1, datagram |-> Flatten(pi)]}
  /\ quiet' = [quiet EXCEPT ![c] = \A m \in toServer \cup toClient : m.client # c]
  /\ UNCHANGED <<serverVars, toClient, faults, accepted>>

SendingFails(c) ==
  /\ SendFails(c)
  /\ UNCHANGED <<serverVars, netVars, histVars>>

ServerReceives(m) ==
  /\ Receive(m.datagram)
  /\ Taken(m, toServer)
  /\ toClient' = toClient \cup
       {[client |-> m.client, call |-> m.call, datagram |-> Flatten(sent'[n])] :
          n \in DOMAIN sent'}
  /\ accepted' = IF Len(sent') = 2 THEN Append(accepted, m.call) ELSE accepted
  /\ UNCHANGED <<clientVars, issued, quiet>>

ServerRestarts ==
  /\ faults < MaxFaults
  /\ Restart
  /\ faults' = faults + 1
  /\ accepted' = <<>>
  /\ UNCHANGED <<clientVars, toServer, toClient, issued, quiet>>

ClientReceives(c, m) ==
  /\ m.client = c
  /\ HandleReply(c, m.datagram)
  /\ Taken(m, toClient)
  /\ UNCHANGED <<serverVars, toServer, histVars>>

TimesOut(c) ==
  /\ WaitTimesOut(c)
  /\ UNCHANGED <<serverVars, netVars, histVars>>

Lose ==
  /\ \/ \E m \in toServer : toServer' = toServer \ {m} /\ UNCHANGED toClient
     \/ \E m \in toClient : toClient' = toClient \ {m} /\ UNCHANGED toServer
  /\ UNCHANGED <<serverVars, clientVars, faults, histVars>>

(* The loop of client_send_packet() goes round.                             *)
ClientStep(c) == TimesOut(c) \/ \E m \in toClient : ClientReceives(c, m)

SysNext ==
  \/ \E c \in Clients : \E pi \in Requests(c) : Send(c, pi)
  \/ \E c \in Clients : SendingFails(c) \/ ClientStep(c)
  \/ \E m \in toServer : ServerReceives(m)
  \/ ServerRestarts
  \/ Lose

SysSpec == SysInit /\ [][SysNext]_sysVars

-----------------------------------------------------------------------------
SysTypeOK ==
  /\ TypeOK /\ ClientTypeOK
  /\ toServer \cup toClient \subseteq
       [client : Clients, call : DOMAIN issued, datagram : Seq(Nat)]
  /\ faults \in 0..MaxFaults
  /\ Len(issued) <= MaxCalls
  /\ \A n \in DOMAIN accepted : accepted[n] \in DOMAIN issued

(* The answer to a request according to the file, entry by entry.           *)
Truth(pi) ==
  LET mine == {n \in DOMAIN DbFile : /\ DbFile[n].number = pi.payload[2]
                                     /\ DbFile[n].ttype = pi.payload[1]}
  IN  IF mine = {} THEN NOT_EXIST
      ELSE IF \E n \in mine : DbFile[n].paid THEN ACC_OK ELSE NOT_PAID

(***************************************************************************)
(* Whatever was lost, repeated, reordered or restarted, each answer on its *)
(* way is about the call it was made for: the ACK has its number, the      *)
(* verdict echoes its request and says what the file says of it, and a     *)
(* REJECT names it (server_handle_req, server_send_ack, server_send_reject *)
(* build them from different places: the packet, the counter, the buffer). *)
(***************************************************************************)
AnswersMatchTheirCall ==
  \A m \in toClient :
    LET pi == issued[m.call].pi
    IN  \/ m.datagram = Flatten(AckInfo(pi.id, pi.seq))
        \/ m.datagram = Flatten([pi EXCEPT !.type = Truth(pi)])
        \/ \E code \in {OUT_OF_SEQ, DUP_PACK} :
             m.datagram = Flatten(RejectInfo(pi.id, code, pi.seq))

(***************************************************************************)
(* The server accepts a call twice only after it has accepted a whole lap  *)
(* of numbers for that id in between, however often the network repeats    *)
(* the request.                                                            *)
(***************************************************************************)
OnceALap ==
  \A i, j \in DOMAIN accepted : i < j /\ accepted[i] = accepted[j] =>
    LET Same(n) == issued[accepted[n]].pi.id = issued[accepted[i]].pi.id
    IN  \E lap \in SUBSET (i..(j - 1)) :
          /\ \A n \in lap : Same(n)
          /\ {issued[accepted[n]].pi.seq : n \in lap} = SequenceNum

(***************************************************************************)
(* A call made when nothing of the client's earlier calls was still about  *)
(* ends with its own verdict: the reply is not matched to the request      *)
(* (client.c:115-149), so silence before the call is what the truth of the *)
(* outcome rests on.                                                       *)
(***************************************************************************)
QuietCallsEndTruthfully ==
  \A c \in Clients :
    phase[c] = "shell" /\ quiet[c] /\ outcome[c] \in Verdicts =>
      outcome[c] = Truth(req[c])

(***************************************************************************)
(* packet.h:49 says of ACC_OK "Subscriber is cleared for access", and the  *)
(* client prints "Access granted!" (packet.c:255) at the end of a call for *)
(* one subscriber.  False when the verdict of an earlier call is still in  *)
(* the socket.                                                             *)
(***************************************************************************)
GrantedIsCleared ==
  \A c \in Clients : outcome[c] = ACC_OK => Truth(req[c]) = ACC_OK
=============================================================================
