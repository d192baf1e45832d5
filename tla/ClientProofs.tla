---------------------------- MODULE ClientProofs -----------------------------
(***************************************************************************)
(* Theorems about the client processes, for any number of them, any width  *)
(* of a sequence number, any MAX_TRIES and whatever comes into the socket. *)
(***************************************************************************)
EXTENDS OpenClient, TLAPS

(* The inductive invariant: giving up resets the count, so what a call did  *)
(* is only known to be right together with what each count stands for.      *)
Undecided == \A c \in Clients : phase[c] = "waiting" => outcome[c] = NO_OUTCOME

CInv == ClientTypeOK /\ Undecided /\ TriesAreTimeouts /\ GaveUpAfterWaiting

-----------------------------------------------------------------------------
LEMMA InitCInv == ClientInit => CInv
  <1> SUFFICES ASSUME ClientInit PROVE CInv
    OBVIOUS
  <1>1. 0 \in 0..(MaxTries - 1) /\ 0 \in 0..MaxTries
    BY ClientAssumption
  <1>2. req \in [Clients -> {<<>>} \cup UNION {Requests(c) : c \in Clients}]
    BY DEF ClientInit
  <1>3. ClientTypeOK
    BY <1>1, <1>2 DEF ClientInit, ClientTypeOK, Outcomes
  <1>4. Undecided /\ TriesAreTimeouts /\ GaveUpAfterWaiting
    BY DEF ClientInit, Undecided, TriesAreTimeouts, GaveUpAfterWaiting, Engaged
  <1> QED BY <1>3, <1>4 DEF CInv

(* A call begins with as many tries as its number has left, at least one.   *)
LEMMA SendReqInv ==
  ASSUME CInv, NEW c \in Clients, NEW pi \in Requests(c), SendReq(c, pi)
  PROVE  CInv'
  <1>1. tries[c][pi.seq] \in 0..(MaxTries - 1)
    BY DEF CInv, ClientTypeOK, SendReq
  <1>2. ClientTypeOK'
    BY <1>1, ClientAssumption DEF CInv, ClientTypeOK, SendReq, Begin, Outcomes
  <1>3. TriesAreTimeouts'
    BY <1>1, ClientAssumption DEF CInv, ClientTypeOK, TriesAreTimeouts, SendReq, Begin
  <1>4. GaveUpAfterWaiting'
    BY DEF CInv, ClientTypeOK, GaveUpAfterWaiting, Engaged, SendReq, Begin, NO_OUTCOME, GAVE_UP
  <1>5. Undecided'
    BY DEF CInv, ClientTypeOK, Undecided, SendReq, Begin
  <1> QED BY <1>2, <1>3, <1>4, <1>5 DEF CInv

(* The call for the last number gives up at once, outside every count.      *)
LEMMA SendLastSeqNumInv ==
  ASSUME CInv, NEW c \in Clients, NEW pi \in Requests(c), SendLastSeqNum(c, pi)
  PROVE  CInv'
  <1>1. ClientTypeOK'
    BY ClientAssumption DEF CInv, ClientTypeOK, SendLastSeqNum, Begin, Return, Outcomes
  <1>2. TriesAreTimeouts'
    BY DEF CInv, ClientTypeOK, TriesAreTimeouts, SendLastSeqNum, Begin, Return
  <1>3. GaveUpAfterWaiting'
    BY DEF CInv, ClientTypeOK, GaveUpAfterWaiting, Engaged, SendLastSeqNum, Begin, Return
  <1>4. Undecided'
    BY DEF CInv, ClientTypeOK, Undecided, SendLastSeqNum, Begin, Return
  <1> QED BY <1>1, <1>2, <1>3, <1>4 DEF CInv

LEMMA SendFailsInv ==
  ASSUME CInv, NEW c \in Clients, SendFails(c)
  PROVE  CInv'
  BY DEF CInv, ClientTypeOK, Undecided, TriesAreTimeouts, GaveUpAfterWaiting, Engaged,
         SendFails, Return, Outcomes, SEND_FAILED, GAVE_UP

(* A timeout is one more try; the last one makes the waits of the call as   *)
(* many as it had tries.                                                    *)
LEMMA WaitTimesOutInv ==
  ASSUME CInv, NEW c \in Clients, WaitTimesOut(c)
  PROVE  CInv'
  <1> DEFINE s == req[c].seq
             n == tries[c][s] + 1
  <1>1. s \in Slots /\ tries[c][s] \in 0..(MaxTries - 1) /\ waits[c] \in Nat
    BY DEF CInv, ClientTypeOK, WaitTimesOut
  <1>2. n = MaxTries - patience[c] + waits'[c] /\ patience[c] \in 0..MaxTries
    BY <1>1, ClientAssumption DEF CInv, ClientTypeOK, TriesAreTimeouts, WaitTimesOut
  <1>3. CASE n < MaxTries
    <2>1. /\ tries' = [tries EXCEPT ![c][s] = n] /\ UNCHANGED <<phase, outcome>>
          /\ waits' = [waits EXCEPT ![c] = waits[c] + 1]
          /\ UNCHANGED <<sock, req, sends, patience>> /\ phase[c] = "waiting"
      BY <1>3 DEF WaitTimesOut
    <2>2. n \in 0..(MaxTries - 1)
      BY <1>1, <1>3, ClientAssumption
    <2>3. ClientTypeOK'
      BY <1>1, <2>1, <2>2 DEF CInv, ClientTypeOK
    <2>4. TriesAreTimeouts'
      BY <1>1, <1>2, <2>1 DEF CInv, ClientTypeOK, TriesAreTimeouts
    <2>5. outcome[c] # GAVE_UP
      BY <2>1 DEF CInv, Undecided, NO_OUTCOME, GAVE_UP
    <2>6. Undecided' /\ GaveUpAfterWaiting'
      BY <2>1, <2>5 DEF CInv, Undecided, GaveUpAfterWaiting, Engaged, ClientTypeOK
    <2> QED BY <2>3, <2>4, <2>6 DEF CInv
  <1>4. CASE ~(n < MaxTries)
    <2>1. /\ tries' = [tries EXCEPT ![c][s] = 0] /\ Return(c, GAVE_UP)
          /\ waits' = [waits EXCEPT ![c] = waits[c] + 1]
          /\ UNCHANGED <<sock, req, sends, patience>>
      BY <1>4 DEF WaitTimesOut
    <2>2. 0 \in 0..(MaxTries - 1)
      BY ClientAssumption
    <2>3. ClientTypeOK'
      BY <1>1, <2>1, <2>2 DEF CInv, ClientTypeOK, Return, Outcomes
    <2>4. TriesAreTimeouts'
      BY <1>1, <2>1 DEF CInv, ClientTypeOK, TriesAreTimeouts, Return
    <2>5. waits'[c] = patience[c] /\ patience[c] > 0
      BY <1>1, <1>2, <1>4, <2>1, ClientAssumption DEF CInv, ClientTypeOK
    <2>6. GaveUpAfterWaiting'
      BY <2>1, <2>5 DEF CInv, ClientTypeOK, GaveUpAfterWaiting, Engaged, Return
    <2>7. Undecided'
      BY <2>1 DEF CInv, ClientTypeOK, Undecided, Return
    <2> QED BY <2>3, <2>4, <2>6, <2>7 DEF CInv
  <1> QED BY <1>3, <1>4

(* A reply ends the call or changes nothing; no count moves.                *)
LEMMA HandleReplyInv ==
  ASSUME CInv, NEW c \in Clients, NEW d, HandleReply(c, d)
  PROVE  CInv'
  <1>1. PICK r : \/ EndsCall(r.type) /\ Return(c, r.type)
                 \/ UNCHANGED <<phase, outcome>>
    BY DEF HandleReply
  <1>2. UNCHANGED <<tries, sock, req, sends, waits, patience>>
    BY DEF HandleReply
  <1>3. CASE EndsCall(r.type) /\ Return(c, r.type)
    <2>1. r.type \in Outcomes /\ r.type # GAVE_UP
      BY <1>3 DEF EndsCall, Outcomes, Verdicts, GAVE_UP, REJECT, NOT_EXIST, NOT_PAID, ACC_OK
    <2> QED BY <1>2, <1>3, <2>1 DEF CInv, ClientTypeOK, Undecided, TriesAreTimeouts,
                                    GaveUpAfterWaiting, Engaged, Return
  <1>4. CASE UNCHANGED <<phase, outcome>>
    BY <1>2, <1>4 DEF CInv, ClientTypeOK, Undecided, TriesAreTimeouts, GaveUpAfterWaiting, Engaged
  <1> QED BY <1>1, <1>3, <1>4

LEMMA StepCInv == CInv /\ [Next]_clientVars => CInv'
  <1> SUFFICES ASSUME CInv, [Next]_clientVars PROVE CInv'
    OBVIOUS
  <1>1. CASE UNCHANGED clientVars
    BY <1>1 DEF clientVars, CInv, ClientTypeOK, Undecided, TriesAreTimeouts,
                 GaveUpAfterWaiting, Engaged
  <1>2. ASSUME NEW c \in Clients, UserStep(c) PROVE CInv'
    BY <1>2, SendReqInv, SendLastSeqNumInv, SendFailsInv DEF UserStep
  <1>3. ASSUME NEW c \in Clients, WaitTimesOut(c) PROVE CInv'
    BY <1>3, WaitTimesOutInv
  <1>4. ASSUME NEW c \in Clients, NEW d \in Replies, HandleReply(c, d) PROVE CInv'
    BY <1>4, HandleReplyInv
  <1> QED BY <1>1, <1>2, <1>3, <1>4 DEF Next

(* The inductive invariant holds in every behaviour of the clients.         *)
THEOREM ClientInvariant == Spec => []CInv
  BY InitCInv, StepCInv, PTL DEF Spec

(* In particular no process ever sits in the shell with a number out of     *)
(* tries: whatever earlier calls left behind, the next one enters the loop. *)
THEOREM ClientTypeCorrect == Spec => []ClientTypeOK
  BY ClientInvariant, PTL DEF CInv

(* The tries of a waiting call are those it began with and its timeouts.    *)
THEOREM ClientTriesAreTimeouts == Spec => []TriesAreTimeouts
  BY ClientInvariant, PTL DEF CInv

(* Giving up comes after a whole call's worth of timeouts, at least one.    *)
THEOREM ClientGaveUpAfterWaiting == Spec => []GaveUpAfterWaiting
  BY ClientInvariant, PTL DEF CInv

(* Only giving up takes a timeout back.                                     *)
THEOREM ClientForgottenOnlyByGivingUp == Spec => ForgottenOnlyByGivingUp
  <1> DEFINE Kept == \A c \in Clients, s \in Slots : tries'[c][s] < tries[c][s] =>
                       tries'[c][s] = 0 /\ outcome'[c] = GAVE_UP /\ s = req[c].seq
  <1>1. CInv /\ [Next]_clientVars => [Kept]_tries
    <2> SUFFICES ASSUME CInv, [Next]_clientVars, tries' # tries PROVE Kept
      OBVIOUS
    <2>1. PICK c \in Clients : WaitTimesOut(c)
      BY DEF Next, UserStep, SendReq, SendLastSeqNum, SendFails, HandleReply, clientVars
    <2> DEFINE s == req[c].seq
               n == tries[c][s] + 1
    <2>2. s \in Slots /\ tries[c][s] \in 0..(MaxTries - 1)
      BY <2>1 DEF CInv, ClientTypeOK, WaitTimesOut
    <2>3. \/ tries' = [tries EXCEPT ![c][s] = n]
          \/ tries' = [tries EXCEPT ![c][s] = 0] /\ outcome' = [outcome EXCEPT ![c] = GAVE_UP]
      BY <2>1 DEF WaitTimesOut, Return
    <2>4. ASSUME NEW b \in Clients, NEW t \in Slots, b # c \/ t # s
          PROVE  tries'[b][t] = tries[b][t] /\ tries[b][t] \in Nat
      BY <2>2, <2>3, <2>4 DEF CInv, ClientTypeOK
    <2>5. tries'[c][s] < tries[c][s] => tries'[c][s] = 0 /\ outcome'[c] = GAVE_UP
      BY <2>2, <2>3 DEF CInv, ClientTypeOK
    <2>6. \A k \in Nat : ~(k < k)
      OBVIOUS
    <2> QED BY <2>4, <2>5, <2>6
  <1> QED BY <1>1, ClientInvariant, PTL DEF Spec, ForgottenOnlyByGivingUp
=============================================================================
