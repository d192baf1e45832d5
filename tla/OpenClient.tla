----------------------------- MODULE OpenClient ------------------------------
(***************************************************************************)
(* The client processes on their own: any datagram of a given set may come *)
(* into a socket at any time, from the server or from anyone else.         *)
(***************************************************************************)
EXTENDS Client

CONSTANT Replies  \* the datagrams that may come in

ASSUME RepliesAssumption == Replies \subseteq Seq(Nat)

Next == \E c \in Clients : \/ UserStep(c)
                           \/ WaitTimesOut(c)
                           \/ \E d \in Replies : HandleReply(c, d)

Spec == ClientInit /\ [][Next]_clientVars

-----------------------------------------------------------------------------
(***************************************************************************)
(* A call gives up only after it has waited for as many timeouts as its    *)
(* number had tries left when it began, and there was always one left:     *)
(* counts left over by earlier calls, which a reply ends without a reset,  *)
(* shorten the wait but never skip it (client.c:76-111).                   *)
(***************************************************************************)
Engaged(c) == req[c] # <<>> /\ req[c].seq \in Slots

GaveUpAfterWaiting ==
  \A c \in Clients : Engaged(c) /\ outcome[c] = GAVE_UP =>
    waits[c] = patience[c] /\ patience[c] > 0

(***************************************************************************)
(* The tries counted for a number while a call waits are those it began    *)
(* with and its own timeouts: calls for other numbers, other processes,    *)
(* ACKs and unreadable datagrams leave the count alone.                    *)
(***************************************************************************)
TriesAreTimeouts ==
  \A c \in Clients : phase[c] = "waiting" =>
    tries[c][req[c].seq] = MaxTries - patience[c] + waits[c]

(***************************************************************************)
(* A timeout is forgotten only by giving up: no reply resets the count.    *)
(***************************************************************************)
ForgottenOnlyByGivingUp ==
  [][\A c \in Clients, s \in Slots : tries'[c][s] < tries[c][s] =>
       tries'[c][s] = 0 /\ outcome'[c] = GAVE_UP /\ s = req[c].seq]_tries

(***************************************************************************)
(* client.h:19 calls tries[] a "mapping from packet seq. nums", whose      *)
(* range packet.h:39 gives as [0,255]: a call for any of them leaves the   *)
(* client able to send.  False for the last one.                           *)
(***************************************************************************)
SocketSurvives == \A c \in Clients : sock[c] = "open"

(***************************************************************************)
(* client.h:13 calls MAX_TRIES the "maximum times to try sending", and     *)
(* client.h:41 says of client_send_packet() "timing out and retrying as    *)
(* necessary": a call that gives up has sent its request that often, when  *)
(* its number had all its tries.  False: nothing is ever sent again.       *)
(***************************************************************************)
GaveUpAfterResending ==
  \A c \in Clients : Engaged(c) /\ outcome[c] = GAVE_UP /\ patience[c] = MaxTries =>
    sends[c] = MaxTries
=============================================================================
