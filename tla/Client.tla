------------------------------- MODULE Client --------------------------------
(***************************************************************************)
(* The client program (client.c, and send_req() of client_commands.c): a   *)
(* process that reads commands in a shell and, for each request, sends one *)
(* datagram and waits for replies with a timeout.  Several processes may   *)
(* run, under the same client id or not.                                   *)
(*                                                                         *)
(* The program's state is phase (where it is), tries, sock and req (the    *)
(* packet of the call).  outcome says how the last call ended, sends,      *)
(* waits and patience what it did: sendto() calls, timeouts, and the tries *)
(* it had at its start; no action is guarded by these.                     *)
(***************************************************************************)
EXTENDS Packets

CONSTANTS Clients,     \* the client processes
          IdOf,        \* the id each was started with
          MaxTries,    \* MAX_TRIES (3)
          Payloads     \* the request payloads the users ask for

ASSUME ClientAssumption == /\ IdOf \in [Clients -> ClientId]
                           /\ MaxTries \in Nat \ {0}
                           /\ Payloads \subseteq Seq(Nat)

VARIABLES phase, tries, sock, req, outcome, sends, waits, patience

clientVars == <<phase, tries, sock, req, outcome, sends, waits, patience>>

(* tries[] has MAX_SEQ_NUM elements, one less than there are numbers.       *)
Slots == 0..(MaxSeqNum - 1)

(* Outcomes that are not the type of a reply.                               *)
NO_OUTCOME  == 0
GAVE_UP     == 1
SEND_FAILED == 2

Requests(c) == {DataInfo(ACC_PER, IdOf[c], seq, payload) :
                  seq \in SequenceNum, payload \in Payloads}

ClientInit ==
  /\ phase = [c \in Clients |-> "shell"]
  /\ tries = [c \in Clients |-> [s \in Slots |-> 0]]
  /\ sock = [c \in Clients |-> "open"]
  /\ req \in [Clients -> {<<>>}]
  /\ outcome = [c \in Clients |-> NO_OUTCOME]
  /\ sends = [c \in Clients |-> 0]
  /\ waits = [c \in Clients |-> 0]
  /\ patience = [c \in Clients |-> 0]

Begin(c, pi) ==
  /\ phase[c] = "shell"
  /\ pi \in Requests(c)
  /\ req' = [req EXCEPT ![c] = pi]
  /\ waits' = [waits EXCEPT ![c] = 0]

Return(c, how) ==
  /\ phase' = [phase EXCEPT ![c] = "shell"]
  /\ outcome' = [outcome EXCEPT ![c] = how]

(***************************************************************************)
(* send_req() and client_send_packet() up to the loop: the request is sent *)
(* and the loop is entered with the tries its number has so far, which are *)
(* never all of them (ClientTypeOK).                                       *)
(***************************************************************************)
SendReq(c, pi) ==
  /\ Begin(c, pi) /\ sock[c] = "open" /\ pi.seq \in Slots
  /\ tries[c][pi.seq] < MaxTries
  /\ phase' = [phase EXCEPT ![c] = "waiting"]
  /\ outcome' = [outcome EXCEPT ![c] = NO_OUTCOME]
  /\ sends' = [sends EXCEPT ![c] = 1]
  /\ patience' = [patience EXCEPT ![c] = MaxTries - tries[c][pi.seq]]
  /\ UNCHANGED <<tries, sock>>

(***************************************************************************)
(* The number has no element of tries[].  The eight bytes behind the array *)
(* are sock_fd and the family and port of the address: read as a count     *)
(* they exceed MAX_TRIES, so the loop is not entered, and the reset after  *)
(* it overwrites the descriptor with 0.                                    *)
(***************************************************************************)
SendLastSeqNum(c, pi) ==
  /\ Begin(c, pi) /\ sock[c] = "open" /\ pi.seq \notin Slots
  /\ Return(c, GAVE_UP)
  /\ sock' = [sock EXCEPT ![c] = "overwritten"]
  /\ sends' = [sends EXCEPT ![c] = 1]
  /\ patience' = [patience EXCEPT ![c] = 0]
  /\ UNCHANGED tries

(* sendto() fails: for want of a route or a buffer at any time, and always  *)
(* on a descriptor that is no socket.  Nothing of the request is kept.      *)
SendFails(c) ==
  /\ phase[c] = "shell"
  /\ Return(c, SEND_FAILED)
  /\ UNCHANGED <<tries, sock, req, sends, waits, patience>>

(***************************************************************************)
(* client_recv_packet() times out: one more try for this number, and after *)
(* the last one the call gives up and resets the count.                    *)
(***************************************************************************)
WaitOnceMore(c) ==                      \* slip: <= for < in the loop
  LET s == req[c].seq
      n == tries[c][s] + 1
  IN  /\ phase[c] = "waiting"
      /\ waits' = [waits EXCEPT ![c] = @ + 1]
      /\ IF n <= MaxTries
           THEN /\ tries' = [tries EXCEPT ![c][s] = n]
                /\ UNCHANGED <<phase, outcome>>
           ELSE /\ tries' = [tries EXCEPT ![c][s] = 0]
                /\ Return(c, GAVE_UP)
      /\ UNCHANGED <<sock, req, sends, patience>>
WaitResets(c) ==                        \* slip: the count starts over each time
  LET s == req[c].seq
  IN  /\ phase[c] = "waiting" /\ waits[c] < MaxTries
      /\ waits' = [waits EXCEPT ![c] = @ + 1]
      /\ tries' = [tries EXCEPT ![c][s] = IF @ = 0 THEN 1 ELSE 0]
      /\ UNCHANGED <<phase, outcome, sock, req, sends, patience>>
WaitOnceLess(c) ==                      \* slip: the last try is not waited for
  LET s == req[c].seq
      n == tries[c][s] + 1
  IN  /\ phase[c] = "waiting"
      /\ waits' = [waits EXCEPT ![c] = @ + 1]
      /\ IF n < MaxTries - 1
           THEN /\ tries' = [tries EXCEPT ![c][s] = n]
                /\ UNCHANGED <<phase, outcome>>
           ELSE /\ tries' = [tries EXCEPT ![c][s] = 0]
                /\ Return(c, GAVE_UP)
      /\ UNCHANGED <<sock, req, sends, patience>>
WaitTimesOut(c) ==
  LET s == req[c].seq
      n == tries[c][s] + 1
  IN  /\ phase[c] = "waiting"
      /\ waits' = [waits EXCEPT ![c] = @ + 1]
      /\ IF n < MaxTries
           THEN /\ tries' = [tries EXCEPT ![c][s] = n]
                /\ UNCHANGED <<phase, outcome>>
           ELSE /\ tries' = [tries EXCEPT ![c][s] = 0]
                /\ Return(c, GAVE_UP)
      /\ UNCHANGED <<sock, req, sends, patience>>

(***************************************************************************)
(* A datagram comes in, into a buffer that was just cleared.  What does    *)
(* not parse is ignored without counting as a try, and so are ACKs and     *)
(* packets that are no replies; client_handle_reply() ends the call on a   *)
(* REJECT or a verdict, whatever request it is about.                      *)
(***************************************************************************)
EndsCall(type) == type \in {REJECT} \cup Verdicts

HandleReplyForgets(c, datagram) ==      \* slip: a reply resets the count
  /\ phase[c] = "waiting"
  /\ \E r \in Interpret(Overlay(datagram, [i \in 1..BufSize |-> 0])) :
       r.ret = 0 /\ EndsCall(r.type) /\ Return(c, r.type)
  /\ tries' = [tries EXCEPT ![c][req[c].seq] = 0]
  /\ UNCHANGED <<sock, req, sends, waits, patience>>
HandleReply(c, datagram) ==
  /\ phase[c] = "waiting"
  /\ \E r \in Interpret(Overlay(datagram, [i \in 1..BufSize |-> 0])) :
       IF r.ret = 0 /\ EndsCall(r.type)
         THEN Return(c, r.type)
         ELSE UNCHANGED <<phase, outcome>>
  /\ UNCHANGED <<tries, sock, req, sends, waits, patience>>

UserStep(c) ==
  \/ \E pi \in Requests(c) : SendReq(c, pi) \/ SendLastSeqNum(c, pi)
  \/ SendFails(c)

-----------------------------------------------------------------------------
Outcomes == {NO_OUTCOME, GAVE_UP, SEND_FAILED, REJECT} \cup Verdicts

ClientTypeOK ==
  /\ phase \in [Clients -> {"shell", "waiting"}]
  /\ tries \in [Clients -> [Slots -> 0..(MaxTries - 1)]]
  /\ sock \in [Clients -> {"open", "overwritten"}]
  /\ req \in [Clients -> {<<>>} \cup UNION {Requests(c) : c \in Clients}]
  /\ outcome \in [Clients -> Outcomes]
  /\ waits \in [Clients -> Nat] /\ patience \in [Clients -> 0..MaxTries]
  /\ \A c \in Clients : phase[c] = "waiting" => req[c].seq \in Slots
=============================================================================
