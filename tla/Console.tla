------------------------------- MODULE Console -------------------------------
(***************************************************************************)
(* The client program as it runs (driver_client.c, shell.c, client.c,      *)
(* busywait.c): one thread that reads lines, and for a request sends a     *)
(* datagram and polls its socket against the wall clock.  Around it,       *)
(* datagrams come in, time passes and the clock may be set.  Shown to      *)
(* implement OpenClient, where a call waits in one step.                   *)
(*                                                                         *)
(* pc is where the thread is.  Of the clock only the difference from the   *)
(* start of the wait is kept, which is all the code looks at; it is 0      *)
(* outside a wait.                                                         *)
(***************************************************************************)
EXTENDS Commands

CONSTANTS Id,         \* the id the client is started with
          MaxTries,   \* MAX_TRIES (3)
          Timeout,    \* cl->timeout, in ticks
          Lines,      \* what may be typed
          Datagrams,  \* what may come in
          Jumps,      \* how far the clock may be set, in ticks
          Payloads,   \* the payloads of the requests among the lines
          MaxLines, MaxDatagrams, MaxJumps  \* bounds of a run

ASSUME ConsoleAssumption ==
  /\ Id \in ClientId /\ MaxTries \in Nat \ {0} /\ Timeout \in Nat /\ Jumps \subseteq Int
  /\ Lines \subseteq Seq(Nat)
  /\ MaxLines \in Nat /\ MaxDatagrams \in Nat /\ MaxJumps \in Nat

(* What the requests among the lines ask for.                               *)
ASSUME PayloadsAssumption ==
  \A line \in Lines :
    LET tokens == Tokenize(line)
        info   == ClientInfo(tokens[5], tokens[6])
    IN  IsRequest(tokens) => <<info.ttype, info.number>> \in Payloads

VARIABLES pc,        \* "starting", "shell", "send", "loop", "begin", "try", "check",
                     \* "handle" or "ended"
          pi,        \* the packet of the call
          tries,     \* cl->tries
          sock,      \* cl->sock_fd: "open" or "overwritten"
          recv_buf,  \* cl->recv_buf
          arrived,   \* the datagrams in the socket
          diff,      \* busy_wait_until(): what the clock shows since the start
          typed,     \* history: the arguments of the last request
          call,      \* history: what the last call did
          used       \* history: lines, datagrams and jumps so far

vars == <<pc, pi, tries, sock, recv_buf, arrived, diff, typed, call, used>>

Slots == 0..(MaxSeqNum - 1)

NO_OUTCOME  == 0
GAVE_UP     == 1
SEND_FAILED == 2

Zeros == [i \in 1..BufSize |-> 0]

ConsoleInit ==
  /\ pc = "starting" /\ pi = <<>>
  /\ tries = [s \in Slots |-> 0] /\ sock = "open"
  /\ recv_buf = Zeros /\ arrived = <<>> /\ diff = 0
  /\ typed = <<>>
  /\ call = [req |-> <<>>, sends |-> 0, waits |-> 0, patience |-> 0, outcome |-> NO_OUTCOME,
             lasted |-> 0, turned |-> 0, queued |-> FALSE]
  /\ used = [lines |-> 0, datagrams |-> 0, jumps |-> 0]

(* main(): the arguments are wrong, or client_init() fails, or it goes on.  *)
Start ==
  /\ pc = "starting"
  /\ pc' \in {"shell", "ended"}
  /\ UNCHANGED <<pi, tries, sock, recv_buf, arrived, diff, typed, call, used>>

-----------------------------------------------------------------------------
(* loop()                                                                   *)
EndOfInput ==
  /\ pc = "shell"
  /\ pc' = "ended"
  /\ UNCHANGED <<pi, tries, sock, recv_buf, arrived, diff, typed, call, used>>

ReadLine ==
  /\ pc = "shell" /\ used.lines < MaxLines
  /\ used' = [used EXCEPT !.lines = @ + 1]

(* An empty line, no command, dump_config(), or arguments that are refused. *)
Dismiss(line) ==
  /\ ReadLine
  /\ ~IsRequest(Tokenize(line))
  /\ UNCHANGED <<pc, pi, tries, sock, recv_buf, arrived, diff, typed, call>>

(* getaddrinfo() fails.                                                     *)
Unresolved(line) ==
  /\ ReadLine
  /\ IsRequest(Tokenize(line))
  /\ UNCHANGED <<pc, pi, tries, sock, recv_buf, arrived, diff, typed, call>>

Request(line) ==
  /\ ReadLine
  /\ IsRequest(Tokenize(line))
  /\ pc' = "send"
  /\ pi' = RequestOf(Tokenize(line), Id)
  /\ typed' = SubSeq(Tokenize(line), 4, 6)
  /\ UNCHANGED <<tries, sock, recv_buf, arrived, diff, call>>

-----------------------------------------------------------------------------
(***************************************************************************)
(* client_send_packet().  For the last number there is no element of       *)
(* tries[]: the eight bytes behind it are the descriptor with the family   *)
(* and port of the address, more than MAX_TRIES until they are reset.      *)
(***************************************************************************)
Tries(s) == IF s \in Slots THEN tries[s] ELSE IF sock = "open" THEN MaxTries + 1 ELSE 0

SendTo ==
  /\ pc = "send" /\ sock = "open"
  /\ pc' = "loop"
  /\ call' = [req |-> pi, sends |-> 1, waits |-> 0, outcome |-> NO_OUTCOME,
              patience |-> IF pi.seq \in Slots THEN MaxTries - tries[pi.seq] ELSE 0,
              lasted |-> 0, turned |-> 0, queued |-> FALSE]
  /\ UNCHANGED <<pi, tries, sock, recv_buf, arrived, diff, typed, used>>

SendFails ==
  /\ pc = "send"
  /\ pc' = "shell"
  /\ call' = [call EXCEPT !.outcome = SEND_FAILED]
  /\ UNCHANGED <<pi, tries, sock, recv_buf, arrived, diff, typed, used>>

ClearedNot == recv_buf         \* slip: the buffer keeps what came in before
Cleared    == Zeros

TryAgain ==
  /\ pc = "loop" /\ Tries(pi.seq) < MaxTries
  /\ pc' = "begin"
  /\ recv_buf' = Cleared
  /\ UNCHANGED <<pi, tries, sock, arrived, diff, typed, call, used>>

GiveUp ==
  /\ pc = "loop" /\ Tries(pi.seq) >= MaxTries
  /\ pc' = "shell"
  /\ IF pi.seq \in Slots THEN tries' = [tries EXCEPT ![pi.seq] = 0] /\ UNCHANGED sock
                         ELSE sock' = "overwritten" /\ UNCHANGED tries
  /\ call' = [call EXCEPT !.outcome = GAVE_UP]
  /\ UNCHANGED <<pi, recv_buf, arrived, diff, typed, used>>

-----------------------------------------------------------------------------
(* busy_wait_until()                                                        *)
BeginChecking ==               \* slip: the clock is looked at before the socket
  /\ pc = "begin"
  /\ pc' = "check" /\ diff' = 0
  /\ call' = [call EXCEPT !.queued = arrived # <<>>]
  /\ UNCHANGED <<pi, tries, sock, recv_buf, arrived, typed, used>>
BeginWait ==
  /\ pc = "begin"
  /\ pc' = "try" /\ diff' = 0
  /\ call' = [call EXCEPT !.queued = arrived # <<>>]
  /\ UNCHANGED <<pi, tries, sock, recv_buf, arrived, typed, used>>

(* try_recv()                                                               *)
Receive ==
  /\ pc = "try" /\ arrived # <<>>
  /\ pc' = "handle"
  /\ recv_buf' = Overlay(Head(arrived), recv_buf) /\ arrived' = Tail(arrived)
  /\ diff' = 0
  /\ UNCHANGED <<pi, tries, sock, typed, call, used>>

NothingThere ==
  /\ pc = "try" /\ arrived = <<>>
  /\ pc' = "check"
  /\ UNCHANGED <<pi, tries, sock, recv_buf, arrived, diff, typed, call, used>>

ExpiredEarly   == diff >= Timeout  \* slip: >= for >
ExpiredSwapped == -diff > Timeout  \* slip: start minus now
Expired        == diff > Timeout

KeepTrying ==
  /\ pc = "check" /\ ~Expired
  /\ pc' = "try"
  /\ UNCHANGED <<pi, tries, sock, recv_buf, arrived, diff, typed, call, used>>

TimeOut ==
  /\ pc = "check" /\ Expired
  /\ pc' = "loop"
  /\ tries' = [tries EXCEPT ![pi.seq] = @ + 1]
  /\ call' = [call EXCEPT !.waits = @ + 1]
  /\ diff' = 0
  /\ UNCHANGED <<pi, sock, recv_buf, arrived, typed, used>>

(* interpret_packet() and client_handle_reply()                             *)
HandleReply ==
  /\ pc = "handle"
  /\ \E r \in Interpret(recv_buf) :
       IF r.ret = 0 /\ r.type \in {REJECT} \cup Verdicts
       THEN pc' = "shell" /\ call' = [call EXCEPT !.outcome = r.type]
       ELSE pc' = "loop" /\ UNCHANGED call
  /\ UNCHANGED <<pi, tries, sock, recv_buf, arrived, diff, typed, used>>

-----------------------------------------------------------------------------
(* The surroundings.  Time that passes outside a wait is not looked at.     *)
Waiting == pc \in {"try", "check"}

Arrive(datagram) ==
  /\ pc \notin {"starting", "ended"} /\ used.datagrams < MaxDatagrams
  /\ arrived' = Append(arrived, datagram)
  /\ used' = [used EXCEPT !.datagrams = @ + 1]
  /\ UNCHANGED <<pc, pi, tries, sock, recv_buf, diff, typed, call>>

Tick ==
  /\ Waiting /\ diff <= Timeout
  /\ diff' = diff + 1
  /\ call' = [call EXCEPT !.lasted = @ + 1]
  /\ UNCHANGED <<pc, pi, tries, sock, recv_buf, arrived, typed, used>>

SetClock(jump) ==
  /\ Waiting /\ used.jumps < MaxJumps
  /\ diff' = diff + jump
  /\ call' = [call EXCEPT !.turned = @ + Max({jump, 0})]
  /\ used' = [used EXCEPT !.jumps = @ + 1]
  /\ UNCHANGED <<pc, pi, tries, sock, recv_buf, arrived, typed>>

Program ==
  \/ Start \/ EndOfInput
  \/ \E line \in Lines : Dismiss(line) \/ Unresolved(line) \/ Request(line)
  \/ SendTo \/ SendFails \/ TryAgain \/ GiveUp
  \/ BeginWait \/ Receive \/ NothingThere \/ KeepTrying \/ TimeOut \/ HandleReply

Surroundings ==
  \/ \E datagram \in Datagrams : Arrive(datagram)
  \/ Tick
  \/ \E jump \in Jumps : SetClock(jump)

ConsoleNext == Program \/ Surroundings

(* The thread runs on, and so does time.                                    *)
ConsoleSpec ==
  ConsoleInit /\ [][ConsoleNext]_vars /\ WF_vars(Program) /\ WF_vars(Tick)

-----------------------------------------------------------------------------
ConsoleTypeOK ==
  /\ pc \in {"starting", "shell", "send", "loop", "begin", "try", "check", "handle", "ended"}
  /\ pi # <<>> => pi.seq \in SequenceNum /\ pi.payload \in Payloads
  /\ tries \in [Slots -> 0..MaxTries] /\ sock \in {"open", "overwritten"}
  /\ \A s \in Slots : tries[s] = MaxTries => pc = "loop" /\ pi.seq = s
  /\ Waiting => pi.seq \in Slots
  /\ call.waits <= call.patience

(***************************************************************************)
(* A request that is typed in plain digits asks the server for the entry   *)
(* that the same digits make in the database file: typing, packing, the    *)
(* server's reading of the payload (server.c:118-124) and the loading of   *)
(* the file reduce a number alike, though each does it on its own.         *)
(***************************************************************************)
AsRead(buf) == [ttype |-> buf[6], number |-> buf[7]]

AsksForWhatIsFiled ==
  LET num  == typed[2]
      tech == typed[3]
      filed == StrToEntry(num \o tech \o <<Digit(1)>>)
  IN  typed # <<>> /\ Range(num) \cup Range(tech) \subseteq Digits =>
        AsRead(Flatten(pi)) = [ttype |-> filed.ttype, number |-> filed.number]

(***************************************************************************)
(* A call never gives up early by itself: it has waited longer than the    *)
(* timeout for each try it had, less what the clock was put forward while  *)
(* it did (busywait.c:18-28).                                              *)
(***************************************************************************)
GivesUpNotEarly ==
  call.outcome = GAVE_UP => call.lasted + call.turned >= call.patience * (Timeout + 1)

(***************************************************************************)
(* A datagram that is in the socket when a wait begins is read by that     *)
(* wait, however late it is and wherever the clock is: the socket is tried *)
(* before the clock is looked at, and each time round.                     *)
(***************************************************************************)
QueuedAnswerIsRead ==
  [][call'.waits = call.waits + 1 => ~call.queued]_vars

(***************************************************************************)
(* Seen from outside, the program is a client of OpenClient: the call      *)
(* waits, a wait times out or a datagram comes in.  A call gives up when   *)
(* the loop is about to find its tries used up.                            *)
(***************************************************************************)
GivingUp == pc = "loop" /\ Tries(pi.seq) >= MaxTries

Me == "me"

Open == INSTANCE OpenClient WITH
  Clients  <- {Me},
  IdOf     <- [c \in {Me} |-> Id],
  Replies  <- Datagrams,
  phase    <- [c \in {Me} |-> IF pc \in {"loop", "begin", "try", "check", "handle"} /\ ~GivingUp
                              THEN "waiting" ELSE "shell"],
  tries    <- [c \in {Me} |-> IF GivingUp /\ pi.seq \in Slots
                              THEN [tries EXCEPT ![pi.seq] = 0] ELSE tries],
  sock     <- [c \in {Me} |-> IF GivingUp /\ pi.seq \notin Slots THEN "overwritten" ELSE sock],
  req      <- [c \in {Me} |-> call.req],
  outcome  <- [c \in {Me} |-> IF GivingUp THEN GAVE_UP ELSE call.outcome],
  sends    <- [c \in {Me} |-> call.sends],
  waits    <- [c \in {Me} |-> call.waits],
  patience <- [c \in {Me} |-> call.patience]

ImplementsClient == Open!Spec

(***************************************************************************)
(* Every call returns and the shell reads on until its input ends, though  *)
(* datagrams and settings of the clock may prolong a wait: their number is *)
(* bounded.  Fairness: the thread is never blocked for good, since         *)
(* recvfrom() does not wait, and the clock runs.                           *)
(***************************************************************************)
ConsoleEnds == <>(pc = "ended")
=============================================================================
