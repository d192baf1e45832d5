---------------------------- MODULE ConsoleProofs ----------------------------
(***************************************************************************)
(* Theorems about the client program poll by poll, for any number of       *)
(* tries, any timeout, any lines and datagrams and however the clock is    *)
(* set: it never gives up early, it reads what was there in time, it asks  *)
(* for what is filed, and it is a client of OpenClient.                    *)
(***************************************************************************)
EXTENDS Console, Recursion, TLAPS

Outcomes == {NO_OUTCOME, GAVE_UP, SEND_FAILED, REJECT} \cup Verdicts

InCall == pc \in {"loop", "begin", "try", "check", "handle"}

CallTyped ==
  call \in [req : {call.req}, sends : {0, 1}, waits : Nat, patience : Nat, outcome : Outcomes,
            lasted : Nat, turned : Nat, queued : BOOLEAN]

Typed ==
  /\ pc \in {"starting", "shell", "send", "loop", "begin", "try", "check", "handle", "ended"}
  /\ tries \in [Slots -> 0..MaxTries]
  /\ sock \in {"open", "overwritten"}
  /\ arrived \in Seq(Datagrams) /\ diff \in Int
  /\ CallTyped

(* A count is full only where the loop is about to see it.                  *)
UsedUpOnlyInTheLoop == \A s \in Slots : tries[s] = MaxTries => pc = "loop" /\ pi.seq = s

(* A call has its socket, and its count stands for the tries it was given   *)
(* and its own timeouts; the one without a count never gets to wait.        *)
CallUnderWay ==
  InCall => /\ sock = "open" /\ call.req = pi /\ call.outcome = NO_OUTCOME
            /\ pi.seq \in Slots => tries[pi.seq] = MaxTries - call.patience + call.waits
            /\ pi.seq \notin Slots => pc = "loop" /\ call.patience = 0

Patient == call.waits <= call.patience

(* What has passed, and what the clock was put forward, is worth the waits  *)
(* so far and what the clock shows now, also when it was put back.          *)
Clocked ==
  /\ ~Waiting => diff = 0
  /\ InCall => /\ call.lasted + call.turned >= call.waits * (Timeout + 1)
               /\ call.lasted + call.turned >= call.waits * (Timeout + 1) + diff

(* What was there when the wait began is still there at the first try, and  *)
(* was read after it.                                                       *)
Queued ==
  /\ pc = "try" /\ call.queued => arrived # <<>>
  /\ pc = "check" => ~call.queued

Bookkeeping ==
  UsedUpOnlyInTheLoop /\ CallUnderWay /\ Patient /\ Clocked /\ Queued /\ GivesUpNotEarly

KInv == Typed /\ Bookkeeping

-----------------------------------------------------------------------------
(* Outside a call little is said.                                           *)
LEMMA ShellInv ==
  ASSUME KInv, pc \in {"starting", "shell"}, pc' \in {"shell", "send", "ended"},
         UNCHANGED <<tries, sock, arrived, diff, call>>
  PROVE  KInv'
  <1>2. Typed'
    BY DEF KInv, Typed, CallTyped
  <1>3. UsedUpOnlyInTheLoop' /\ CallUnderWay' /\ Clocked'
    BY DEF KInv, Bookkeeping, UsedUpOnlyInTheLoop, CallUnderWay, Clocked, InCall, Waiting
  <1>4. Queued' /\ Patient' /\ GivesUpNotEarly'
    BY DEF KInv, Bookkeeping, Queued, Patient, GivesUpNotEarly
  <1> QED BY <1>2, <1>3, <1>4 DEF KInv, Bookkeeping

(* A call begins with the tries its number has left, and a new account.     *)
LEMMA SendToInv == ASSUME KInv, SendTo PROVE KInv'
  <1>1. pi.seq \in Slots => tries[pi.seq] \in Nat /\ tries[pi.seq] < MaxTries
    BY ConsoleAssumption DEF SendTo, KInv, Typed, Bookkeeping, UsedUpOnlyInTheLoop
  <1>2. CallTyped'
    BY <1>1, ConsoleAssumption DEF SendTo, CallTyped, Outcomes
  <1>3. Typed'
    BY <1>2 DEF SendTo, KInv, Typed
  <1>4. UsedUpOnlyInTheLoop' /\ CallUnderWay'
    BY <1>1, ConsoleAssumption
    DEF SendTo, KInv, Bookkeeping, UsedUpOnlyInTheLoop, CallUnderWay, InCall
  <1>5. Clocked'
    BY ConsoleAssumption DEF SendTo, KInv, Bookkeeping, Clocked, InCall, Waiting
  <1>6. call'.waits = 0 /\ call'.patience \in Nat /\ call'.outcome # GAVE_UP
    BY <1>2 DEF SendTo, CallTyped, NO_OUTCOME, GAVE_UP
  <1>7. Queued' /\ Patient' /\ GivesUpNotEarly'
    BY <1>6 DEF SendTo, Queued, Patient, GivesUpNotEarly
  <1> QED BY <1>3, <1>4, <1>5, <1>7 DEF KInv, Bookkeeping

(* A failed send, or a reply, ends a call without giving up.                *)
LEMMA ReturnInv ==
  ASSUME KInv, NEW how \in Outcomes \ {GAVE_UP},
         pc \in {"send", "handle"}, pc' = "shell", call' = [call EXCEPT !.outcome = how],
         UNCHANGED <<tries, sock, arrived, diff>>
  PROVE  KInv'
  <1>1. CallTyped'
    BY DEF KInv, Typed, CallTyped
  <1>2. Typed'
    BY <1>1 DEF KInv, Typed
  <1>3. UsedUpOnlyInTheLoop' /\ CallUnderWay' /\ Clocked'
    BY DEF KInv, Bookkeeping, UsedUpOnlyInTheLoop, CallUnderWay, Clocked, InCall, Waiting
  <1>4. call'.outcome # GAVE_UP /\ UNCHANGED <<call.waits, call.patience>>
    BY DEF KInv, Typed, CallTyped
  <1>5. Queued' /\ Patient' /\ GivesUpNotEarly'
    BY <1>4 DEF KInv, Bookkeeping, Queued, Patient, GivesUpNotEarly
  <1> QED BY <1>2, <1>3, <1>5 DEF KInv, Bookkeeping

(* Only a number with a count gets to wait.                                 *)
LEMMA TryAgainInv == ASSUME KInv, TryAgain PROVE KInv'
  <1>1. pi.seq \in Slots /\ tries[pi.seq] < MaxTries
    BY ConsoleAssumption DEF TryAgain, KInv, Bookkeeping, CallUnderWay, InCall, Tries
  <1>2. Typed'
    BY DEF TryAgain, KInv, Typed, CallTyped
  <1>3. UsedUpOnlyInTheLoop' /\ CallUnderWay'
    BY <1>1, ConsoleAssumption
    DEF TryAgain, KInv, Typed, Bookkeeping, UsedUpOnlyInTheLoop, CallUnderWay, InCall
  <1>4. Clocked' /\ Queued' /\ Patient' /\ GivesUpNotEarly'
    BY DEF TryAgain, KInv, Bookkeeping, Clocked, Queued, Patient, GivesUpNotEarly, InCall,
       Waiting
  <1> QED BY <1>2, <1>3, <1>4 DEF KInv, Bookkeeping

(* All tries are used up, each by a wait longer than the timeout.           *)
LEMMA GiveUpInv == ASSUME KInv, GiveUp PROVE KInv'
  <1>1. CallTyped'
    BY DEF GiveUp, KInv, Typed, CallTyped, Outcomes
  <1>2. Typed'
    BY <1>1, ConsoleAssumption DEF GiveUp, KInv, Typed
  <1>3. UsedUpOnlyInTheLoop'
    BY ConsoleAssumption DEF GiveUp, KInv, Typed, Bookkeeping, UsedUpOnlyInTheLoop
  <1>4. CallUnderWay' /\ Clocked' /\ Queued'
    BY DEF GiveUp, KInv, Bookkeeping, CallUnderWay, Clocked, Queued, InCall, Waiting
  <1>5. call.waits = call.patience \/ call.patience = 0
    BY ConsoleAssumption
    DEF GiveUp, KInv, Typed, Bookkeeping, CallUnderWay, CallTyped, InCall, Tries
  <1>6. call.lasted + call.turned >= call.waits * (Timeout + 1)
    BY DEF GiveUp, KInv, Bookkeeping, Clocked, InCall, Waiting
  <1>7. call.lasted + call.turned >= call.patience * (Timeout + 1)
    <2>1. CASE call.waits = call.patience
      BY <1>6, <2>1
    <2>2. CASE call.patience = 0
      BY <2>2, ConsoleAssumption DEF KInv, Typed, CallTyped
    <2> QED BY <1>5, <2>1, <2>2
  <1>8. UNCHANGED <<call.waits, call.patience, call.lasted, call.turned>>
    BY DEF GiveUp, KInv, Typed, CallTyped
  <1>9. Patient' /\ GivesUpNotEarly'
    BY <1>7, <1>8 DEF KInv, Bookkeeping, Patient, GivesUpNotEarly
  <1> QED BY <1>2, <1>3, <1>4, <1>9 DEF KInv, Bookkeeping

-----------------------------------------------------------------------------
(* One more wait is over, and its ticks are accounted for.                  *)
LEMMA TimeOutInv == ASSUME KInv, TimeOut PROVE KInv'
  <1>1. /\ pi.seq \in Slots /\ tries[pi.seq] \in Nat /\ tries[pi.seq] < MaxTries
        /\ tries[pi.seq] = MaxTries - call.patience + call.waits
    BY ConsoleAssumption
    DEF TimeOut, KInv, Typed, Bookkeeping, UsedUpOnlyInTheLoop, CallUnderWay, InCall
  <1>2. call' = [call EXCEPT !.waits = call.waits + 1] /\ CallTyped'
    BY DEF TimeOut, KInv, Typed, CallTyped
  <1>3. Typed'
    BY <1>1, <1>2, ConsoleAssumption DEF TimeOut, KInv, Typed
  <1>4. UsedUpOnlyInTheLoop'
    BY <1>1, ConsoleAssumption DEF TimeOut, KInv, Typed, Bookkeeping, UsedUpOnlyInTheLoop
  <1>5. tries'[pi.seq] = tries[pi.seq] + 1
    BY <1>1 DEF TimeOut, KInv, Typed
  <1>6. /\ call'.waits = call.waits + 1 /\ call'.patience = call.patience
        /\ UNCHANGED <<call.req, call.outcome, call.lasted, call.turned>>
    BY DEF TimeOut, KInv, Typed, CallTyped
  <1>7. CallUnderWay'
    BY <1>1, <1>5, <1>6, ConsoleAssumption
    DEF TimeOut, KInv, Typed, CallTyped, Bookkeeping, CallUnderWay, InCall
  <1>8. call.lasted + call.turned >= call.waits * (Timeout + 1) + (Timeout + 1)
    BY ConsoleAssumption
    DEF TimeOut, Expired, KInv, Typed, CallTyped, Bookkeeping, Clocked, InCall
  <1>9. call.lasted + call.turned >= (call.waits + 1) * (Timeout + 1)
    BY <1>8, ConsoleAssumption DEF KInv, Typed, CallTyped
  <1>10. Clocked'
    BY <1>6, <1>9, ConsoleAssumption DEF TimeOut, KInv, Typed, CallTyped, Clocked, Waiting
  <1>11. Patient'
    BY <1>1, <1>6, ConsoleAssumption DEF KInv, Typed, CallTyped, Patient
  <1>12. Queued' /\ GivesUpNotEarly'
    BY <1>6 DEF TimeOut, KInv, Bookkeeping, CallUnderWay, Queued, GivesUpNotEarly, InCall,
                NO_OUTCOME, GAVE_UP
  <1> QED BY <1>3, <1>4, <1>7, <1>10, <1>11, <1>12 DEF KInv, Bookkeeping

(* The history notes whether something is there.                            *)
LEMMA BeginWaitInv == ASSUME KInv, BeginWait PROVE KInv'
  <1>1. call' = [call EXCEPT !.queued = arrived # <<>>] /\ CallTyped'
    BY DEF BeginWait, KInv, Typed, CallTyped
  <1>2. Typed'
    BY <1>1 DEF BeginWait, KInv, Typed
  <1>3. UsedUpOnlyInTheLoop' /\ CallUnderWay'
    BY <1>1
    DEF BeginWait, KInv, Typed, CallTyped, Bookkeeping, UsedUpOnlyInTheLoop, CallUnderWay,
        InCall
  <1>4. Clocked' /\ Queued' /\ Patient' /\ GivesUpNotEarly'
    BY <1>1 DEF BeginWait, KInv, Typed, CallTyped, Bookkeeping, CallUnderWay, Clocked, Queued,
                Patient, GivesUpNotEarly, InCall, Waiting
  <1> QED BY <1>2, <1>3, <1>4 DEF KInv, Bookkeeping

(* An empty try, and another look, change nothing but where the thread is.  *)
LEMMA PollInv == ASSUME KInv, NothingThere \/ KeepTrying PROVE KInv'
  <1>1. /\ pc \in {"try", "check"} /\ pc' \in {"try", "check"}
        /\ UNCHANGED <<pi, tries, sock, arrived, diff, call>>
    BY DEF NothingThere, KeepTrying
  <1>2. Typed'
    BY <1>1 DEF KInv, Typed, CallTyped
  <1>3. UsedUpOnlyInTheLoop' /\ CallUnderWay' /\ Clocked' /\ Patient' /\ GivesUpNotEarly'
    BY <1>1
    DEF KInv, Bookkeeping, UsedUpOnlyInTheLoop, CallUnderWay, Clocked, Patient, GivesUpNotEarly,
        InCall, Waiting
  <1>4. Queued'
    BY DEF NothingThere, KeepTrying, KInv, Bookkeeping, Queued
  <1> QED BY <1>2, <1>3, <1>4 DEF KInv, Bookkeeping

(* The wait ends early; its ticks are to the good of the account.           *)
LEMMA ReceiveInv == ASSUME KInv, Receive PROVE KInv'
  <1>1. Typed'
    BY DEF Receive, KInv, Typed, CallTyped
  <1>2. call.waits * (Timeout + 1) \in Int
    BY ConsoleAssumption DEF KInv, Typed, CallTyped
  <1>3. UsedUpOnlyInTheLoop' /\ CallUnderWay' /\ Queued' /\ Patient' /\ GivesUpNotEarly'
    BY DEF Receive, KInv, Bookkeeping, UsedUpOnlyInTheLoop, CallUnderWay, Queued, Patient,
       GivesUpNotEarly, InCall
  <1>4. Clocked'
    BY <1>2 DEF Receive, KInv, Bookkeeping, Clocked, InCall, Waiting
  <1> QED BY <1>1, <1>3, <1>4 DEF KInv, Bookkeeping

(* A reply ends the call, or the loop goes round uncounted.                 *)
LEMMA HandleReplyInv == ASSUME KInv, HandleReply PROVE KInv'
  <1>1. PICK r \in Interpret(recv_buf) :
          IF r.ret = 0 /\ r.type \in {REJECT} \cup Verdicts
          THEN pc' = "shell" /\ call' = [call EXCEPT !.outcome = r.type]
          ELSE pc' = "loop" /\ UNCHANGED call
    BY DEF HandleReply
  <1>2. CASE r.ret = 0 /\ r.type \in {REJECT} \cup Verdicts
    <2>1. r.type \in Outcomes \ {GAVE_UP}
      BY <1>2 DEF Outcomes, GAVE_UP, REJECT, Verdicts, NOT_EXIST, NOT_PAID, ACC_OK
    <2> QED BY <1>1, <1>2, <2>1, ReturnInv DEF HandleReply
  <1>3. CASE ~(r.ret = 0 /\ r.type \in {REJECT} \cup Verdicts)
    <2>1. /\ pc = "handle" /\ pc' = "loop"
          /\ UNCHANGED <<pi, tries, sock, arrived, diff, call>>
      BY <1>1, <1>3 DEF HandleReply
    <2>2. Typed'
      BY <2>1 DEF KInv, Typed, CallTyped
    <2>3. Bookkeeping'
      BY <2>1 DEF KInv, Bookkeeping, UsedUpOnlyInTheLoop, CallUnderWay, Clocked, Queued,
                  Patient, GivesUpNotEarly, InCall, Waiting
    <2> QED BY <2>2, <2>3 DEF KInv
  <1> QED BY <1>2, <1>3

-----------------------------------------------------------------------------
(* What is in the socket only grows.                                        *)
LEMMA ArriveInv == ASSUME KInv, NEW datagram \in Datagrams, Arrive(datagram) PROVE KInv'
  <1>1. arrived' \in Seq(Datagrams) /\ arrived' # <<>>
    BY DEF Arrive, KInv, Typed
  <1>2. Typed'
    BY <1>1 DEF Arrive, KInv, Typed, CallTyped
  <1>3. Bookkeeping'
    BY <1>1 DEF Arrive, KInv, Bookkeeping, UsedUpOnlyInTheLoop, CallUnderWay, Clocked, Queued,
                Patient, GivesUpNotEarly, InCall, Waiting
  <1> QED BY <1>2, <1>3 DEF KInv

(* The larger of a number and 0.                                            *)
LEMMA MaxWithZero == ASSUME NEW i \in Int PROVE Max({i, 0}) \in Nat /\ Max({i, 0}) >= i
  <1>1. \E m \in {i, 0} : \A y \in {i, 0} : m >= y
    <2>1. CASE i >= 0
      BY <2>1
    <2>2. CASE 0 >= i
      BY <2>2
    <2> QED BY <2>1, <2>2
  <1>2. Max({i, 0}) \in {i, 0} /\ \A y \in {i, 0} : Max({i, 0}) >= y
    BY <1>1 DEF Max
  <1> QED BY <1>2

(* The clock moves, and the account by as much or more.                     *)
LEMMA ClockInv ==
  ASSUME KInv, Waiting, NEW step \in Int, UNCHANGED <<pc, pi, tries, sock, arrived>>,
         diff' = diff + step, CallTyped',
         call'.lasted + call'.turned >= call.lasted + call.turned,
         call'.lasted + call'.turned >= call.lasted + call.turned + step,
         UNCHANGED <<call.req, call.waits, call.patience, call.outcome, call.queued>>
  PROVE  KInv'
  <1>1. Typed'
    BY DEF KInv, Typed
  <1>2. UsedUpOnlyInTheLoop' /\ CallUnderWay' /\ Queued'
    BY DEF KInv, Bookkeeping, UsedUpOnlyInTheLoop, CallUnderWay, Queued, InCall
  <1>3. call.waits * (Timeout + 1) \in Int
    BY ConsoleAssumption DEF KInv, Typed, CallTyped
  <1>4. /\ call.lasted + call.turned \in Int /\ diff \in Int
        /\ call'.lasted + call'.turned \in Int
    BY DEF KInv, Typed, CallTyped
  <1>5. Clocked'
    BY <1>3, <1>4 DEF KInv, Bookkeeping, Clocked, InCall, Waiting
  <1>6. Patient' /\ GivesUpNotEarly'
    BY DEF KInv, Bookkeeping, CallUnderWay, Patient, GivesUpNotEarly, InCall, Waiting,
       NO_OUTCOME, GAVE_UP
  <1> QED BY <1>1, <1>2, <1>5, <1>6 DEF KInv, Bookkeeping

LEMMA TickInv == ASSUME KInv, Tick PROVE KInv'
  <1>1. CallTyped'
    <2>1. CallTyped /\ call' = [call EXCEPT !.lasted = @ + 1]
      BY DEF Tick, KInv, Typed
    <2> QED BY <2>1 DEF CallTyped
  <1>2. /\ call'.lasted = call.lasted + 1 /\ call'.turned = call.turned
        /\ UNCHANGED <<call.req, call.waits, call.patience, call.outcome, call.queued>>
    BY DEF Tick, KInv, Typed, CallTyped
  <1>3. call.lasted \in Nat /\ call.turned \in Nat
    BY DEF KInv, Typed, CallTyped
  <1>4. /\ Waiting /\ UNCHANGED <<pc, pi, tries, sock, arrived>>
        /\ diff' = diff + 1
    BY DEF Tick
  <1> QED BY <1>1, <1>2, <1>3, <1>4, ClockInv

LEMMA SetClockInv == ASSUME KInv, NEW jump \in Jumps, SetClock(jump) PROVE KInv'
  <1>1. jump \in Int
    BY ConsoleAssumption
  <1>2. PICK forward \in Nat : forward >= jump /\ call' = [call EXCEPT !.turned = @ + forward]
    BY <1>1, MaxWithZero DEF SetClock
  <1>3. CallTyped'
    BY <1>2 DEF KInv, Typed, CallTyped
  <1>4. /\ call'.lasted = call.lasted /\ call'.turned = call.turned + forward
        /\ UNCHANGED <<call.req, call.waits, call.patience, call.outcome, call.queued>>
    BY <1>2 DEF KInv, Typed, CallTyped
  <1>5. call.lasted \in Nat /\ call.turned \in Nat
    BY DEF KInv, Typed, CallTyped
  <1>6. /\ Waiting /\ UNCHANGED <<pc, pi, tries, sock, arrived>>
        /\ diff' = diff + jump
    BY DEF SetClock
  <1> QED BY <1>1, <1>2, <1>3, <1>4, <1>5, <1>6, ClockInv

-----------------------------------------------------------------------------
(* The invariant holds at the start, and every step keeps it.               *)
LEMMA InitKInv == ConsoleInit => KInv
  <1> SUFFICES ASSUME ConsoleInit PROVE KInv
    OBVIOUS
  <1>1. Typed
    BY ConsoleAssumption DEF ConsoleInit, Typed, CallTyped, Outcomes
  <1>2. Bookkeeping
    BY ConsoleAssumption
    DEF ConsoleInit, Bookkeeping, UsedUpOnlyInTheLoop, CallUnderWay, Clocked, Queued,
        Patient, GivesUpNotEarly, InCall, Waiting, NO_OUTCOME, GAVE_UP
  <1> QED BY <1>1, <1>2 DEF KInv

LEMMA NextKInv == KInv /\ [ConsoleNext]_vars => KInv'
  <1> SUFFICES ASSUME KInv, [ConsoleNext]_vars PROVE KInv'
    OBVIOUS
  <1>1. ASSUME Start \/ EndOfInput PROVE KInv'
    BY <1>1, ShellInv DEF Start, EndOfInput
  <1>2. ASSUME NEW line \in Lines, Dismiss(line) \/ Unresolved(line) \/ Request(line) PROVE KInv'
    BY <1>2, ShellInv DEF Dismiss, Unresolved, Request, ReadLine
  <1>3. CASE SendTo
    BY <1>3, SendToInv
  <1>4. CASE SendFails
    <2>1. SEND_FAILED \in Outcomes \ {GAVE_UP}
      BY DEF Outcomes, SEND_FAILED, GAVE_UP
    <2> QED BY <1>4, <2>1, ReturnInv DEF SendFails
  <1>5. CASE TryAgain
    BY <1>5, TryAgainInv
  <1>6. CASE GiveUp
    BY <1>6, GiveUpInv
  <1>7. CASE BeginWait
    BY <1>7, BeginWaitInv
  <1>8. CASE Receive
    BY <1>8, ReceiveInv
  <1>9. CASE NothingThere \/ KeepTrying
    BY <1>9, PollInv
  <1>10. CASE TimeOut
    BY <1>10, TimeOutInv
  <1>11. CASE HandleReply
    BY <1>11, HandleReplyInv
  <1>12. CASE \E datagram \in Datagrams : Arrive(datagram)
    BY <1>12, ArriveInv
  <1>13. CASE Tick
    BY <1>13, TickInv
  <1>14. CASE \E jump \in Jumps : SetClock(jump)
    BY <1>14, SetClockInv
  <1>15. CASE UNCHANGED vars
    <2>1. Typed'
      BY <1>15 DEF vars, KInv, Typed, CallTyped
    <2>2. Bookkeeping'
      BY <1>15 DEF vars, KInv, Bookkeeping, UsedUpOnlyInTheLoop, CallUnderWay, Clocked, Queued,
                   Patient, GivesUpNotEarly, InCall, Waiting
    <2> QED BY <2>1, <2>2 DEF KInv
  <1> QED BY <1>1, <1>2, <1>3, <1>4, <1>5, <1>6, <1>7, <1>8, <1>9, <1>10, <1>11, <1>12, <1>13,
             <1>14, <1>15 DEF ConsoleNext, Program, Surroundings

(* The inductive invariant holds.                                           *)
THEOREM ConsoleInvariant == ConsoleSpec => []KInv
  <1> QED BY InitKInv, NextKInv, PTL DEF ConsoleSpec

(* A call that gives up has waited longer than the timeout for each of its  *)
(* tries, but for what the clock was put forward.                           *)
THEOREM ConsoleGivesUpNotEarly == ConsoleSpec => []GivesUpNotEarly
  <1>1. KInv => GivesUpNotEarly
    BY DEF KInv, Bookkeeping
  <1> QED BY <1>1, ConsoleInvariant, PTL

(* Only a timeout counts a wait, and it is reached only past an empty try.  *)
LEMMA WaitStep ==
  KInv /\ [ConsoleNext]_vars => [call'.waits = call.waits + 1 => ~call.queued]_vars
  <1> SUFFICES ASSUME KInv, ConsoleNext, call'.waits = call.waits + 1 PROVE ~call.queued
    OBVIOUS
  <1>1. call.waits \in Nat /\ call.waits # call.waits + 1 /\ 0 # call.waits + 1
    BY DEF KInv, Typed, CallTyped
  <1>2. CASE TimeOut
    BY <1>2 DEF TimeOut, KInv, Bookkeeping, Queued
  <1>3. ASSUME ~TimeOut PROVE call'.waits \in {0, call.waits}
    <2>1. CASE UNCHANGED call
      BY <2>1
    <2>2. CASE SendTo
      BY <2>2 DEF SendTo
    <2>3. ASSUME NEW how, call' = [call EXCEPT !.outcome = how] PROVE call'.waits = call.waits
      BY <2>3 DEF KInv, Typed, CallTyped
    <2>4. CASE BeginWait
      BY <2>4 DEF BeginWait, KInv, Typed, CallTyped
    <2>5. CASE Tick
      BY <2>5 DEF Tick, KInv, Typed, CallTyped
    <2>6. CASE \E jump \in Jumps : SetClock(jump)
      BY <2>6 DEF SetClock, KInv, Typed, CallTyped
    <2>7. \/ UNCHANGED call \/ SendTo \/ BeginWait \/ Tick
          \/ \E jump \in Jumps : SetClock(jump)
          \/ \E how : call' = [call EXCEPT !.outcome = how]
      BY <1>3 DEF ConsoleNext, Program, Surroundings, Start, EndOfInput, Dismiss, Unresolved,
         Request, SendFails, TryAgain, GiveUp, Receive, NothingThere, KeepTrying, HandleReply,
         Arrive
    <2> QED BY <2>1, <2>2, <2>3, <2>4, <2>5, <2>6, <2>7
  <1> QED BY <1>1, <1>2, <1>3

(* A datagram that is there when a wait begins is read by that wait.        *)
THEOREM ConsoleQueuedAnswerIsRead == ConsoleSpec => QueuedAnswerIsRead
  <1> QED BY WaitStep, ConsoleInvariant, PTL DEF ConsoleSpec, QueuedAnswerIsRead

-----------------------------------------------------------------------------
(***************************************************************************)
(* How arguments are read.  A fold over a sequence is a function on the    *)
(* sets of its places; from what it is for one more place follows what it  *)
(* is for the first k, by induction on k.                                  *)
(***************************************************************************)
(* A multiple of m between -m and m is 0.                                   *)
LEMMA SmallMultiple ==
  ASSUME NEW m \in Nat \ {0}, NEW q \in Int, m * q < m, -m < m * q
  PROVE  q = 0
  <1>1. CASE q >= 1
    <2>1. m * q >= m
      BY <1>1
    <2> QED BY <2>1
  <1>2. CASE q <= -1
    <2>1. m * q <= -m
      BY <1>2
    <2> QED BY <2>1
  <1> QED BY <1>1, <1>2

(* A remainder is not changed by multiples of the modulus.                  *)
LEMMA ModOfSum ==
  ASSUME NEW m \in Nat \ {0}, NEW q \in Int, NEW y \in Int
  PROVE  (m * q + y) % m = y % m
  <1> DEFINE a == (m * q + y) \div m
             b == y \div m
             r == (m * q + y) % m
             t == y % m
  <1>1. a \in Int /\ b \in Int /\ r \in 0..(m - 1) /\ t \in 0..(m - 1)
    OBVIOUS
  <1>2. m * q + y = m * a + r /\ y = m * b + t
    OBVIOUS
  <1> HIDE DEF a, b, r, t
  <1>3. m * (q + b - a) = r - t
    BY <1>1, <1>2
  <1>4. q + b - a = 0
    <2>1. q + b - a \in Int
      BY <1>1
    <2>2. m * (q + b - a) < m /\ -m < m * (q + b - a)
      BY <1>1, <1>3
    <2> QED BY <2>1, <2>2, SmallMultiple
  <1>5. r = t
    BY <1>1, <1>3, <1>4
  <1> QED BY <1>5 DEF r, t

(* Cutting before one more digit is taken changes nothing after it.         *)
LEMMA ModStep ==
  ASSUME NEW m \in Nat \ {0}, NEW x \in Nat, NEW d \in Nat
  PROVE  (10 * (x % m) + d) % m = (10 * x + d) % m
  <1> DEFINE q == x \div m
             r == x % m
  <1>1. q \in Int /\ r \in Nat /\ x = m * q + r
    OBVIOUS
  <1> HIDE DEF q, r
  <1>2. 10 * x + d = m * (10 * q) + (10 * r + d)
    BY <1>1
  <1>3. 10 * q \in Int /\ 10 * r + d \in Int
    BY <1>1
  <1>4. (m * (10 * q) + (10 * r + d)) % m = (10 * r + d) % m
    BY <1>3, ModOfSum
  <1> QED BY <1>2, <1>4 DEF r

(* strtol() and the count of strtoul(), unfolded over the places S of s.    *)
ReadFold(s, mod, S) ==
  CHOOSE it : it = [T \in SUBSET S |->
    IF T = {} THEN 0
    ELSE (10 * it[T \ {Max(T)}] + (s[Max(T)] - Digit(0))) % mod]

SizeFold(s, S) ==
  CHOOSE it : it = [T \in SUBSET S |->
    IF T = {} THEN 0
    ELSE Min({LongMod, 10 * it[T \ {Max(T)}] + (s[Max(T)] - Digit(0))})]

(* The folds stand for these functions.                                     *)
LEMMA ReadUnfolds ==
  ASSUME NEW s, NEW mod
  PROVE  StrToL(s, mod) = ReadFold(CString(s), mod, DOMAIN CString(s))[DOMAIN CString(s)]
  BY Zenon DEF StrToL, FoldLeft, MapThenFoldSet, ReadFold

(* The same, for the count of strtoul().                                    *)
LEMMA SizeUnfolds ==
  ASSUME NEW s
  PROVE  Magnitude(s) = SizeFold(s, DOMAIN s)[DOMAIN s]
  BY Zenon DEF Magnitude, FoldLeft, MapThenFoldSet, SizeFold

(* A digit is worth 0 to 9.                                                 *)
LEMMA DigitsWorth ==
  ASSUME NEW c \in Digits
  PROVE  c - Digit(0) \in 0..9 /\ c # NUL /\ c \in Nat
  BY DEF Digits, Digit, NUL

(* The smaller of two numbers.                                              *)
LEMMA MinOfTwo ==
  ASSUME NEW a \in Int, NEW b \in Int
  PROVE  Min({a, b}) = IF a <= b THEN a ELSE b
  <1>1. ASSUME NEW m \in {a, b}, \A y \in {a, b} : m <= y PROVE Min({a, b}) = m
    <2>1. Min({a, b}) \in {a, b} /\ \A y \in {a, b} : Min({a, b}) <= y
      BY <1>1, Zenon DEF Min
    <2> QED BY <1>1, <2>1
  <1>2. CASE a <= b
    BY <1>1, <1>2
  <1>3. CASE ~(a <= b)
    BY <1>1, <1>3
  <1> QED BY <1>2, <1>3

(* strtol() takes one digit after the other.                                *)
LEMMA ReadSteps ==
  ASSUME NEW s \in Seq(Digits), NEW mod \in Nat \ {0}
  PROVE  LET it == ReadFold(s, mod, 1..Len(s))
         IN  /\ it[{}] = 0
             /\ \A k \in 1..Len(s) : it[1..k] = (10 * it[1..(k - 1)] + (s[k] - Digit(0))) % mod
  <1> DEFINE n == Len(s)
             Next10(i, x) == (10 * x + (s[i] - Digit(0))) % mod
             F == [p \in (1..n) \X Nat |-> Next10(p[1], p[2])]
             it == ReadFold(s, mod, 1..n)
  <1>1. n \in Nat /\ 0 \in Nat
    OBVIOUS
  <1>2. ASSUME NEW i \in 1..n, NEW x \in Nat PROVE Next10(i, x) \in Nat
    <2>1. s[i] \in Digits
      OBVIOUS
    <2>2. s[i] - Digit(0) \in 0..9
      BY <2>1, DigitsWorth
    <2>3. 10 * x + (s[i] - Digit(0)) \in Nat
      BY <2>2
    <2> QED BY <2>3
  <1>3. F \in [(1..n) \X Nat -> Nat]
    BY <1>2
  <1>4. \A i \in 1..n : \A x \in Nat : F[<<i, x>>] = Next10(i, x)
    OBVIOUS
  <1> HIDE DEF F, Next10, n
  <1>5. PICK f : FoldsBy(f, n, Nat, 0, F)
    <2>1. Foldable(n, Nat, 0, F)
      BY <1>1, <1>3 DEF Foldable
    <2> QED BY <2>1, FoldExists
  <1>6. f = [T \in SUBSET (1..n) |-> IF T = {} THEN 0 ELSE Next10(Max(T), f[T \ {Max(T)}])]
    <2>1. ASSUME NEW T \in SUBSET (1..n), T # {}
          PROVE  F[<<Max(T), f[T \ {Max(T)}]>>] = Next10(Max(T), f[T \ {Max(T)}])
      <3>1. Max(T) \in 1..n /\ f[T \ {Max(T)}] \in Nat
        BY <1>1, <1>5, <2>1, LargestPlace DEF FoldsBy
      <3> QED BY <1>4, <3>1
    <2> QED BY <1>5, <2>1 DEF FoldsBy
  <1>7. it = [T \in SUBSET (1..n) |-> IF T = {} THEN 0 ELSE Next10(Max(T), it[T \ {Max(T)}])]
    BY <1>6, Zenon DEF ReadFold, Next10
  <1> HIDE DEF it
  <1>8. it[{}] = 0
    BY <1>7
  <1>9. ASSUME NEW k \in 1..n PROVE it[1..k] = Next10(k, it[1..(k - 1)])
    <2>1. /\ (1..k) \in SUBSET (1..n) /\ (1..k) # {}
          /\ Max(1..k) = k /\ (1..k) \ {Max(1..k)} = 1..(k - 1)
      BY <1>1, FirstPlaces
    <2>2. it[1..k] = Next10(Max(1..k), it[(1..k) \ {Max(1..k)}])
      BY <1>7, <2>1
    <2> QED BY <2>1, <2>2
  <1> QED BY <1>8, <1>9 DEF it, Next10, n

(* And so does strtoul(), up to the largest number.                         *)
LEMMA SizeSteps ==
  ASSUME NEW s \in Seq(Digits)
  PROVE  LET it == SizeFold(s, 1..Len(s))
         IN  /\ it[{}] = 0
             /\ \A k \in 1..Len(s) :
                  it[1..k] = Min({LongMod, 10 * it[1..(k - 1)] + (s[k] - Digit(0))})
  <1> DEFINE n == Len(s)
             Next10(i, x) == Min({LongMod, 10 * x + (s[i] - Digit(0))})
             F == [p \in (1..n) \X Nat |-> Next10(p[1], p[2])]
             it == SizeFold(s, 1..n)
  <1>1. n \in Nat /\ 0 \in Nat
    OBVIOUS
  <1>2. ASSUME NEW i \in 1..n, NEW x \in Nat PROVE Next10(i, x) \in Nat
    <2>1. s[i] \in Digits
      OBVIOUS
    <2>2. s[i] - Digit(0) \in 0..9
      BY <2>1, DigitsWorth
    <2>3. 10 * x + (s[i] - Digit(0)) \in Nat
      BY <2>2
    <2> QED BY <2>3, MinOfTwo, CommandsAssumption
  <1>3. F \in [(1..n) \X Nat -> Nat]
    BY <1>2
  <1>4. \A i \in 1..n : \A x \in Nat : F[<<i, x>>] = Next10(i, x)
    OBVIOUS
  <1> HIDE DEF F, Next10, n
  <1>5. PICK f : FoldsBy(f, n, Nat, 0, F)
    <2>1. Foldable(n, Nat, 0, F)
      BY <1>1, <1>3 DEF Foldable
    <2> QED BY <2>1, FoldExists
  <1>6. f = [T \in SUBSET (1..n) |-> IF T = {} THEN 0 ELSE Next10(Max(T), f[T \ {Max(T)}])]
    <2>1. ASSUME NEW T \in SUBSET (1..n), T # {}
          PROVE  F[<<Max(T), f[T \ {Max(T)}]>>] = Next10(Max(T), f[T \ {Max(T)}])
      <3>1. Max(T) \in 1..n /\ f[T \ {Max(T)}] \in Nat
        BY <1>1, <1>5, <2>1, LargestPlace DEF FoldsBy
      <3> QED BY <1>4, <3>1
    <2> QED BY <1>5, <2>1 DEF FoldsBy
  <1>7. it = [T \in SUBSET (1..n) |-> IF T = {} THEN 0 ELSE Next10(Max(T), it[T \ {Max(T)}])]
    BY <1>6, Zenon DEF SizeFold, Next10
  <1> HIDE DEF it
  <1>8. it[{}] = 0
    BY <1>7
  <1>9. ASSUME NEW k \in 1..n PROVE it[1..k] = Next10(k, it[1..(k - 1)])
    <2>1. /\ (1..k) \in SUBSET (1..n) /\ (1..k) # {}
          /\ Max(1..k) = k /\ (1..k) \ {Max(1..k)} = 1..(k - 1)
      BY <1>1, FirstPlaces
    <2>2. it[1..k] = Next10(Max(1..k), it[(1..k) \ {Max(1..k)}])
      BY <1>7, <2>1
    <2> QED BY <2>1, <2>2
  <1> QED BY <1>8, <1>9 DEF it, Next10, n

(* The powers of ten, from their recursive definition.                      *)
LEMMA Power10Steps ==
  /\ Power10 \in [Nat -> Nat] /\ Power10[0] = 1
  /\ \A k \in Nat : Power10[k + 1] = 10 * Power10[k]
  <1> DEFINE Body(k, f) == IF k = 0 THEN 1 ELSE 10 * f[k - 1]
             m == [k \in Nat |-> k]
             F == [x \in Nat \X [Nat -> Nat] |-> Body(x[1], x[2])]
  <1>1. ASSUME NEW k \in Nat, NEW f \in [Nat -> Nat] PROVE Body(k, f) \in Nat
    <2>1. k # 0 => k - 1 \in Nat
      OBVIOUS
    <2> QED BY <2>1
  <1>2. F \in [Nat \X [Nat -> Nat] -> Nat]
    BY <1>1
  <1>3. m \in [Nat -> Nat] /\ \A k \in Nat : m[k] = k
    OBVIOUS
  <1>4. ASSUME NEW k \in Nat, NEW g \in [Nat -> Nat], NEW h \in [Nat -> Nat],
               \A j \in Nat : m[j] < m[k] => g[j] = h[j]
        PROVE  F[<<k, g>>] = F[<<k, h>>]
    <2>1. k # 0 => k - 1 \in Nat /\ m[k - 1] < m[k]
      BY <1>3
    <2> QED BY <1>4, <2>1
  <1>5. PICK f \in [Nat -> Nat] : \A k \in Nat : f[k] = F[<<k, f>>]
    <2>1. IsRecursion(Nat, Nat, m, F)
      <3>1. Nat # {}
        OBVIOUS
      <3> HIDE DEF m, F
      <3> QED BY <1>2, <1>3, <1>4, <3>1 DEF IsRecursion
    <2> HIDE DEF m, F
    <2> QED BY <2>1, RecursionExists
  <1>6. f = [k \in Nat |-> Body(k, f)]
    <2>1. \A k \in Nat : F[<<k, f>>] = Body(k, f)
      OBVIOUS
    <2> HIDE DEF F, Body
    <2> QED BY <1>5, <2>1
  <1>7. Power10 = [k \in Nat |-> IF k = 0 THEN 1 ELSE 10 * Power10[k - 1]]
    BY <1>6, Zenon DEF Power10
  <1> DEFINE T == {k \in Nat : Power10[k] \in Nat}
  <1>8. Power10[0] = 1 /\ \A k \in Nat : Power10[k + 1] = 10 * Power10[k]
    BY <1>7
  <1>9. \A k \in Nat : Power10[k] \in Nat
    <2>1. 0 \in T /\ \A k \in Nat : k \in T => k + 1 \in T
      BY <1>8
    <2> HIDE DEF T
    <2>2. Nat \subseteq T
      BY <2>1, SetInduction
    <2> QED BY <2>2 DEF T
  <1>10. Power10 \in [Nat -> Nat]
    <2> DEFINE P == Power10
    <2>1. P = [k \in Nat |-> P[k]]
      BY <1>7
    <2> QED BY <1>9, <2>1
  <1> QED BY <1>8, <1>10

(* They grow.                                                               *)
LEMMA Power10Grows ==
  ASSUME NEW n \in Nat, NEW k \in 0..n
  PROVE  Power10[k] <= Power10[n]
  <1> DEFINE T == {j \in Nat : Power10[k] <= Power10[k + j]}
  <1>1. k \in Nat
    OBVIOUS
  <1>2. 0 \in T
    <2>1. k + 0 = k /\ Power10[k] \in Nat
      BY <1>1, Power10Steps
    <2> QED BY <2>1
  <1>3. ASSUME NEW j \in Nat, j \in T PROVE j + 1 \in T
    <2>1. k + j \in Nat /\ k + (j + 1) = (k + j) + 1
      BY <1>1
    <2>2. Power10[k + (j + 1)] = 10 * Power10[k + j]
      BY <2>1, Power10Steps
    <2>3. Power10[k + j] \in Nat /\ Power10[k] \in Nat /\ Power10[k] <= Power10[k + j]
      BY <1>1, <1>3, <2>1, Power10Steps
    <2>4. Power10[k] <= Power10[k + (j + 1)]
      BY <2>2, <2>3
    <2> QED BY <2>4
  <1> HIDE DEF T
  <1>4. Nat \subseteq T
    BY <1>2, <1>3, SetInduction
  <1>5. n - k \in Nat /\ k + (n - k) = n
    BY <1>1
  <1>6. n - k \in T
    BY <1>4, <1>5
  <1> QED BY <1>5, <1>6 DEF T

(* Digits have no NUL among them.                                           *)
LEMMA DigitsAreC ==
  ASSUME NEW s \in Seq(Digits)
  PROVE  CString(s) = s
  <1>1. \A i \in DOMAIN s : s[i] \in Digits
    OBVIOUS
  <1>2. {i \in DOMAIN s : s[i] = NUL} = {}
    BY <1>1, DigitsWorth
  <1> QED BY <1>2, Zenon DEF CString

(***************************************************************************)
(* strtol() and strtoul() read the same number, if it is not too long: the *)
(* one cuts it to the width of its result while it reads, the other when   *)
(* it has it.                                                              *)
(***************************************************************************)
LEMMA ReadingAgrees ==
  ASSUME NEW s \in Seq(Digits), Power10[Len(s)] <= LongMod, NEW mod \in Nat \ {0}
  PROVE  Magnitude(s) \in Nat /\ Magnitude(s) < LongMod /\ StrToL(s, mod) = Magnitude(s) % mod
  <1> DEFINE n == Len(s)
             a == ReadFold(s, mod, 1..n)
             b == SizeFold(s, 1..n)
             Agree(k) == /\ b[1..k] \in Nat /\ b[1..k] < Power10[k]
                         /\ a[1..k] = b[1..k] % mod
             T == {k \in Nat : k <= n => Agree(k)}
  <1>1. n \in Nat /\ DOMAIN s = 1..n /\ LongMod \in Nat /\ Power10[n] <= LongMod
    BY CommandsAssumption
  <1>2. StrToL(s, mod) = a[1..n] /\ Magnitude(s) = b[1..n]
    <2>1. CString(s) = s
      BY DigitsAreC
    <2>2. StrToL(s, mod) = ReadFold(s, mod, DOMAIN s)[DOMAIN s]
      BY <2>1, ReadUnfolds
    <2>3. Magnitude(s) = SizeFold(s, DOMAIN s)[DOMAIN s]
      BY SizeUnfolds
    <2> QED BY <1>1, <2>2, <2>3
  <1>3. /\ a[{}] = 0 /\ b[{}] = 0
        /\ \A k \in 1..n : /\ a[1..k] = (10 * a[1..(k - 1)] + (s[k] - Digit(0))) % mod
                           /\ b[1..k] = Min({LongMod, 10 * b[1..(k - 1)] + (s[k] - Digit(0))})
    BY ReadSteps, SizeSteps
  <1>4. \A k \in 1..n : s[k] - Digit(0) \in 0..9
    BY DigitsWorth
  <1> HIDE DEF a, b, n
  <1>5. 0 \in T
    <2>1. 1..0 = {}
      OBVIOUS
    <2>2. 0 % mod = 0
      OBVIOUS
    <2>3. a[1..0] = 0 /\ b[1..0] = 0
      BY <1>3, <2>1
    <2>4. Agree(0)
      BY <2>2, <2>3, Power10Steps
    <2> QED BY <2>4
  <1>6. ASSUME NEW k \in Nat, k \in T PROVE k + 1 \in T
    <2> SUFFICES ASSUME k + 1 <= n PROVE Agree(k + 1)
      OBVIOUS
    <2> DEFINE d == s[k + 1] - Digit(0)
               x == b[1..k]
    <2>1. k + 1 \in 1..n /\ (k + 1) - 1 = k /\ k <= n /\ d \in 0..9
      BY <1>1, <1>4
    <2>2. Agree(k)
      BY <1>6, <2>1
    <2>3. /\ a[1..(k + 1)] = (10 * a[1..k] + d) % mod
          /\ b[1..(k + 1)] = Min({LongMod, 10 * x + d})
      BY <1>3, <2>1
    <2>4. x \in Nat /\ x < Power10[k] /\ a[1..k] = x % mod
      BY <2>2
    <2> HIDE DEF d, x
    <2>5. 10 * x + d \in Nat /\ 10 * x + d < Power10[k + 1]
      <3>1. Power10[k + 1] = 10 * Power10[k] /\ Power10[k] \in Nat
        BY Power10Steps
      <3> QED BY <2>1, <2>4, <3>1
    <2>6. 10 * x + d < LongMod
      <3>1. Power10[k + 1] <= Power10[n]
        <4>1. k + 1 \in 0..n
          BY <2>1
        <4> QED BY <1>1, <4>1, Power10Grows
      <3>2. Power10[k + 1] \in Nat /\ Power10[n] \in Nat
        <4>1. k + 1 \in Nat /\ n \in Nat
          BY <1>1
        <4> HIDE DEF Agree
        <4> QED BY <4>1, Power10Steps
      <3> QED BY <1>1, <2>5, <3>1, <3>2
    <2>7. b[1..(k + 1)] = 10 * x + d
      BY <1>1, <2>3, <2>5, <2>6, MinOfTwo
    <2>8. a[1..(k + 1)] = (10 * x + d) % mod
      <3>1. d \in Nat
        BY <2>1
      <3> QED BY <2>3, <2>4, <3>1, ModStep
    <2> QED BY <2>5, <2>7, <2>8
  <1> HIDE DEF T
  <1>7. Nat \subseteq T
    BY <1>5, <1>6, SetInduction
  <1>8. Agree(n)
    <2>1. n \in T
      BY <1>1, <1>7
    <2> QED BY <1>1, <2>1 DEF T
  <1>9. Power10[n] \in Nat
    BY <1>1, Power10Steps
  <1> QED BY <1>1, <1>2, <1>8, <1>9

(* A least number of a set.                                                 *)
LEMMA MinIs ==
  ASSUME NEW S \in SUBSET Int, NEW m \in S, \A x \in S : m <= x
  PROVE  Min(S) = m
  <1>1. Min(S) \in S /\ \A x \in S : Min(S) <= x
    BY Zenon DEF Min
  <1>2. Min(S) \in Int /\ m \in Int
    BY <1>1
  <1> QED BY <1>1, <1>2

(* Where a scan stops.                                                      *)
LEMMA ScanStops ==
  ASSUME NEW set, NEW s \in Seq(Nat), NEW from \in 1..(Len(s) + 1)
  PROVE  LET e == FirstNotIn(set, s, from)
         IN  /\ e \in from..(Len(s) + 1)
             /\ \A i \in from..(e - 1) : s[i] \in set
             /\ e <= Len(s) => s[e] \notin set
  <1> DEFINE S == {i \in from..Len(s) : s[i] \notin set} \cup {Len(s) + 1}
             e == FirstNotIn(set, s, from)
  <1>1. S \in SUBSET Nat /\ S # {} /\ S \subseteq from..(Len(s) + 1)
    OBVIOUS
  <1> HIDE DEF S
  <1>2. PICK m \in S : \A x \in S : m <= x
    BY <1>1, LeastElement
  <1>3. Min(S) = m
    BY <1>1, <1>2, MinIs
  <1>4. e = m
    BY <1>3 DEF S, FirstNotIn
  <1> HIDE DEF e
  <1>5. \A i \in from..(m - 1) : s[i] \in set
    <2> SUFFICES ASSUME NEW i \in from..(m - 1) PROVE s[i] \in set
      OBVIOUS
    <2>1. i \in from..Len(s) /\ ~(m <= i)
      BY <1>1, <1>2
    <2> QED BY <1>2, <2>1 DEF S
  <1>6. m <= Len(s) => s[m] \notin set
    BY <1>2 DEF S
  <1> QED BY <1>1, <1>2, <1>4, <1>5, <1>6 DEF e

(* The magnitude of any digits.                                             *)
LEMMA MagnitudeType ==
  ASSUME NEW s \in Seq(Digits)
  PROVE  Magnitude(s) \in 0..LongMod
  <1> DEFINE n == Len(s)
             b == SizeFold(s, 1..n)
             T == {k \in Nat : k <= n => b[1..k] \in 0..LongMod}
  <1>1. n \in Nat /\ DOMAIN s = 1..n /\ LongMod \in Nat
    BY CommandsAssumption
  <1>2. Magnitude(s) = b[1..n]
    BY <1>1, SizeUnfolds
  <1>3. /\ b[{}] = 0
        /\ \A k \in 1..n : b[1..k] = Min({LongMod, 10 * b[1..(k - 1)] + (s[k] - Digit(0))})
    BY SizeSteps
  <1>4. \A k \in 1..n : s[k] - Digit(0) \in 0..9
    BY DigitsWorth
  <1> HIDE DEF b, n
  <1>5. 0 \in T
    <2>1. 1..0 = {}
      OBVIOUS
    <2>2. b[1..0] \in 0..LongMod
      BY <1>1, <1>3, <2>1
    <2> QED BY <2>2
  <1>6. ASSUME NEW k \in Nat, k \in T PROVE k + 1 \in T
    <2> SUFFICES ASSUME k + 1 <= n PROVE b[1..(k + 1)] \in 0..LongMod
      OBVIOUS
    <2> DEFINE d == s[k + 1] - Digit(0)
               x == b[1..k]
    <2>1. k + 1 \in 1..n /\ (k + 1) - 1 = k /\ k <= n /\ d \in 0..9
      BY <1>1, <1>4
    <2>2. x \in Nat
      BY <1>1, <1>6, <2>1
    <2>3. b[1..(k + 1)] = Min({LongMod, 10 * x + d})
      BY <1>3, <2>1
    <2> HIDE DEF d, x
    <2>4. 10 * x + d \in Nat
      BY <2>1, <2>2
    <2> QED BY <1>1, <2>3, <2>4, MinOfTwo
  <1> HIDE DEF T
  <1>7. Nat \subseteq T
    BY <1>5, <1>6, SetInduction
  <1> QED BY <1>1, <1>2, <1>7 DEF T

(* strtoul() on any string yields a value of its type.                      *)
LEMMA StrToULType ==
  ASSUME NEW s \in Seq(Nat)
  PROVE  StrToUL(s).value \in 0..(LongMod - 1)
  <1> DEFINE sign   == FirstNotIn(WhiteSpace, s, 1)
             first  == IF sign <= Len(s) /\ s[sign] \in {PLUS, DASH} THEN sign + 1 ELSE sign
             end    == FirstNotIn(Digits, s, first)
             digits == SubSeq(s, first, end - 1)
             size   == Magnitude(digits)
  <1>1. 1 \in 1..(Len(s) + 1)
    OBVIOUS
  <1>2. sign \in 1..(Len(s) + 1)
    BY <1>1, ScanStops
  <1> HIDE DEF sign
  <1>3. first \in 1..(Len(s) + 1)
    BY <1>2
  <1> HIDE DEF first
  <1>4. end \in first..(Len(s) + 1) /\ \A i \in first..(end - 1) : s[i] \in Digits
    BY <1>3, ScanStops
  <1> HIDE DEF end
  <1>5. digits \in Seq(Digits)
    <2>1. digits = [i \in 1..(end - first) |-> s[first + i - 1]]
      BY <1>3, <1>4
    <2>2. \A i \in 1..(end - first) : s[first + i - 1] \in Digits
      <3> SUFFICES ASSUME NEW i \in 1..(end - first) PROVE s[first + i - 1] \in Digits
        OBVIOUS
      <3>1. first + i - 1 \in first..(end - 1)
        BY <1>3, <1>4
      <3> QED BY <1>4, <3>1
    <2>3. PICK k \in Nat : k = end - first
      BY <1>3, <1>4
    <2> HIDE DEF digits
    <2>4. digits = [i \in 1..k |-> digits[i]] /\ \A i \in 1..k : digits[i] \in Digits
      BY <2>1, <2>2, <2>3
    <2> QED BY <2>4
  <1>6. size \in 0..LongMod /\ LongMod \in Nat \ {0}
    <2>1. Power10[TechDigits] \in Nat /\ Power10[0] <= Power10[TechDigits]
      <3>1. TechDigits \in Nat /\ 0 \in 0..TechDigits
        BY EntriesAssumption
      <3> QED BY <3>1, Power10Grows, Power10Steps
    <2>2. Power10[0] = 1 /\ Power10[TechDigits] <= LongMod
      BY Power10Steps, LongAssumption
    <2>3. size \in 0..LongMod
      BY <1>5, MagnitudeType
    <2> HIDE DEF size
    <2> QED BY <2>1, <2>2, <2>3, CommandsAssumption
  <1> HIDE DEF size, digits
  <1>7. StrToUL(s).value = CASE size = LongMod -> LongMod - 1
                             [] size < LongMod -> (IF first > sign /\ s[sign] = DASH
                                                   THEN -size ELSE size) % LongMod
    BY DEF StrToUL, sign, first, end, digits, size
  <1>8. CASE size = LongMod
    <2>1. StrToUL(s).value = LongMod - 1
      BY <1>6, <1>7, <1>8
    <2> QED BY <1>6, <2>1
  <1>9. CASE size < LongMod
    <2>1. PICK x \in {size, -size} : StrToUL(s).value = x % LongMod
      BY <1>6, <1>7, <1>9
    <2>2. x \in Int
      BY <1>6
    <2>3. x % LongMod \in 0..(LongMod - 1)
      BY <1>6, <2>2
    <2> QED BY <2>1, <2>3
  <1> QED BY <1>6, <1>8, <1>9

(* On plain digits it is their magnitude.                                   *)
LEMMA StrToULOfDigits ==
  ASSUME NEW s \in Seq(Digits), Power10[Len(s)] <= LongMod
  PROVE  StrToUL(s).value = Magnitude(s)
  <1> DEFINE n == Len(s)
             sign   == FirstNotIn(WhiteSpace, s, 1)
             first  == IF sign <= Len(s) /\ s[sign] \in {PLUS, DASH} THEN sign + 1 ELSE sign
             end    == FirstNotIn(Digits, s, first)
             size   == Magnitude(SubSeq(s, first, end - 1))
  <1>1. n \in Nat /\ s \in Seq(Nat) /\ \A i \in 1..n : s[i] \in Digits
    <2>1. \A i \in 1..n : s[i] \in Digits /\ s[i] \in Nat
      BY DigitsWorth
    <2> QED BY <2>1
  <1>2. \A c \in Digits : c \notin WhiteSpace /\ c \notin {PLUS, DASH}
    BY DEF Digits, Digit, WhiteSpace, TAB, VT, FF, CR, PLUS, DASH
  <1>3. 1 \in 1..(n + 1)
    BY <1>1
  <1>4. sign = 1
    <2>1. /\ sign \in 1..(n + 1)
          /\ \A i \in 1..(sign - 1) : s[i] \in WhiteSpace
      BY <1>1, <1>3, ScanStops
    <2> HIDE DEF sign, n
    <2>2. CASE sign # 1
      <3>1. 1 \in 1..(sign - 1) /\ 1 \in 1..n
        BY <1>1, <2>1, <2>2
      <3> QED BY <1>1, <1>2, <2>1, <3>1
    <2> QED BY <2>2
  <1> HIDE DEF sign
  <1>5. first = 1
    BY <1>1, <1>2, <1>3, <1>4
  <1> HIDE DEF first
  <1>6. end = n + 1
    <2>1. /\ end \in 1..(n + 1)
          /\ end <= n => s[end] \notin Digits
      BY <1>1, <1>3, <1>5, ScanStops
    <2> HIDE DEF end, n
    <2> QED BY <1>1, <2>1
  <1> HIDE DEF end
  <1>7. SubSeq(s, first, end - 1) = s
    <2>1. SubSeq(s, 1, n) = s
      BY <1>1
    <2>2. (n + 1) - 1 = n
      BY <1>1
    <2> QED BY <1>5, <1>6, <2>1, <2>2
  <1>8. size = Magnitude(s)
    BY <1>7
  <1>9. size \in Nat /\ size < LongMod
    <2>1. NumMod \in Nat \ {0}
      BY EntriesAssumption
    <2> QED BY <1>8, <2>1, ReadingAgrees
  <1> HIDE DEF size, n
  <1>10. StrToUL(s).value = CASE size = LongMod -> LongMod - 1
                              [] size < LongMod -> (IF first > sign /\ s[sign] = DASH
                                                    THEN -size ELSE size) % LongMod
    BY DEF StrToUL, sign, first, end, size
  <1>11. StrToUL(s).value = size % LongMod
    <2>1. size # LongMod /\ ~(first > sign)
      BY <1>4, <1>5, <1>9, CommandsAssumption
    <2> QED BY <1>9, <1>10, <2>1
  <1>12. size % LongMod = size
    BY <1>9, CommandsAssumption
  <1> QED BY <1>8, <1>11, <1>12
-----------------------------------------------------------------------------
(* What tokens are.                                                         *)
(* A function on the first places is a sequence.                            *)
LEMMA FunctionIsSeq ==
  ASSUME NEW X, NEW k \in Nat, NEW g, g = [j \in 1..k |-> g[j]], \A j \in 1..k : g[j] \in X
  PROVE  g \in Seq(X)
  OBVIOUS

(* Tokens are strings, each character at a time.                            *)
LEMMA WithCharType ==
  ASSUME NEW s \in Seq(Nat), NEW ts \in Seq(Seq(Nat)), NEW i \in 1..Len(s)
  PROVE  WithChar(s, ts, i) \in Seq(Seq(Nat))
  <1>1. s[i] \in Nat /\ <<s[i]>> \in Seq(Nat)
    OBVIOUS
  <1>2. CASE s[i] \in Separators
    BY <1>2 DEF WithChar
  <1>3. CASE s[i] \notin Separators /\ (i = 1 \/ s[i - 1] \in Separators)
    <2>1. WithChar(s, ts, i) = Append(ts, <<s[i]>>)
      BY <1>3 DEF WithChar
    <2> QED BY <1>1, <2>1
  <1>4. CASE s[i] \notin Separators /\ ~(i = 1 \/ s[i - 1] \in Separators)
    <2> DEFINE k == Len(ts)
               X == Seq(Nat)
    <2>1. WithChar(s, ts, i) = [ts EXCEPT ![k] = Append(ts[k], s[i])]
      BY <1>4 DEF WithChar
    <2>2. k \in Nat /\ DOMAIN ts = 1..k /\ ts = [j \in 1..k |-> ts[j]] /\ \A j \in 1..k : ts[j] \in X
      OBVIOUS
    <2>3. k # 0 => Append(ts[k], s[i]) \in X
      BY <1>1, <2>2
    <2> DEFINE y == Append(ts[k], s[i])
               g == [j \in 1..k |-> IF j = k THEN y ELSE ts[j]]
    <2> HIDE DEF X, k, y
    <2>4. WithChar(s, ts, i) = g
      BY <2>1, <2>2 DEF y
    <2>5. k \in Nat /\ \A j \in 1..k : g[j] \in X
      BY <2>2, <2>3 DEF y
    <2>6. g = [j \in 1..k |-> g[j]]
      OBVIOUS
    <2> HIDE DEF g
    <2>7. g \in Seq(X)
      BY <2>5, <2>6, FunctionIsSeq
    <2> QED BY <2>4, <2>7 DEF X
  <1> QED BY <1>2, <1>3, <1>4

(* tokenize(), unfolded likewise.                                           *)
TokensFold(s, S) ==
  CHOOSE it : it = [T \in SUBSET S |->
    IF T = {} THEN <<>>
    ELSE WithChar(s, it[T \ {Max(T)}], [i \in DOMAIN s |-> i][Max(T)])]

(* The tokens are what this yields for all places, cut to MAX_N_TOKENS.     *)
LEMMA TokenizeUnfolds ==
  ASSUME NEW line
  PROVE  LET s  == CString(line)
             S  == DOMAIN [i \in DOMAIN s |-> i]
             ts == TokensFold(s, S)[S]
         IN  Tokenize(line) = SubSeq(ts, 1, Min({Len(ts), MaxTokens}))
  BY Zenon DEF Tokenize, FoldLeft, MapThenFoldSet, TokensFold

(* A string stays one when it is cut at its first NUL.                      *)
LEMMA CStringType ==
  ASSUME NEW s \in Seq(Nat)
  PROVE  CString(s) \in Seq(Nat)
  <1> DEFINE stops == {i \in DOMAIN s : s[i] = NUL}
  <1>1. stops \in SUBSET Nat
    OBVIOUS
  <1>2. CASE stops = {}
    BY <1>2 DEF CString
  <1>3. CASE stops # {}
    <2>1. CString(s) = SubSeq(s, 1, Min(stops) - 1)
      BY <1>3 DEF CString
    <2>2. Min(stops) \in stops
      <3> HIDE DEF stops
      <3>1. PICK m \in stops : \A x \in stops : m <= x
        BY <1>1, <1>3, LeastElement
      <3>2. Min(stops) = m
        BY <1>1, <3>1, MinIs
      <3> QED BY <3>1, <3>2
    <2>3. Min(stops) \in 1..Len(s)
      BY <2>2
    <2> HIDE DEF stops
    <2>4. PICK k \in 0..Len(s) : k = Min(stops) - 1
      BY <2>3
    <2>5. SubSeq(s, 1, k) \in Seq(Nat)
      OBVIOUS
    <2> QED BY <2>1, <2>4, <2>5
  <1> QED BY <1>2, <1>3

(* The tokens of a line are strings.                                        *)
LEMMA TokenizeType ==
  ASSUME NEW line \in Seq(Nat)
  PROVE  Tokenize(line) \in Seq(Seq(Nat))
  <1> DEFINE s == CString(line)
             n == Len(s)
             V == Seq(Seq(Nat))
             F == [p \in (1..n) \X V |-> WithChar(s, p[2], p[1])]
             it == TokensFold(s, 1..n)
             ts == it[1..n]
  <1>1. s \in Seq(Nat) /\ n \in Nat /\ DOMAIN s = 1..n
    BY CStringType
  <1> HIDE DEF s
  <1>2. <<>> \in V
    OBVIOUS
  <1>3. \A i \in 1..n : \A x \in V : WithChar(s, x, i) \in V
    BY <1>1, WithCharType
  <1> HIDE DEF n, V
  <1>4. F \in [(1..n) \X V -> V] /\ \A i \in 1..n : \A x \in V : F[<<i, x>>] = WithChar(s, x, i)
    BY <1>3
  <1> HIDE DEF F
  <1>5. PICK f : FoldsBy(f, n, V, <<>>, F)
    <2>1. Foldable(n, V, <<>>, F)
      BY <1>1, <1>2, <1>4 DEF Foldable
    <2> QED BY <2>1, FoldExists
  <1>6. f = [T \in SUBSET (1..n) |->
               IF T = {} THEN <<>>
               ELSE WithChar(s, f[T \ {Max(T)}], [i \in DOMAIN s |-> i][Max(T)])]
    <2>1. ASSUME NEW T \in SUBSET (1..n), T # {}
          PROVE  F[<<Max(T), f[T \ {Max(T)}]>>]
                   = WithChar(s, f[T \ {Max(T)}], [i \in DOMAIN s |-> i][Max(T)])
      <3>1. Max(T) \in 1..n /\ f[T \ {Max(T)}] \in V
        BY <1>1, <1>5, <2>1, LargestPlace DEF FoldsBy
      <3>2. [i \in DOMAIN s |-> i][Max(T)] = Max(T)
        BY <1>1, <3>1
      <3> QED BY <1>4, <3>1, <3>2
    <2> QED BY <1>5, <2>1 DEF FoldsBy
  <1>7. it = [T \in SUBSET (1..n) |->
                IF T = {} THEN <<>>
                ELSE WithChar(s, it[T \ {Max(T)}], [i \in DOMAIN s |-> i][Max(T)])]
    BY <1>6, Zenon DEF TokensFold
  <1> HIDE DEF it
  <1>8. it[{}] = <<>>
    BY <1>7
  <1>9. ASSUME NEW k \in 1..n PROVE it[1..k] = WithChar(s, it[1..(k - 1)], k)
    <2>1. /\ (1..k) \in SUBSET (1..n) /\ (1..k) # {}
          /\ Max(1..k) = k /\ (1..k) \ {Max(1..k)} = 1..(k - 1)
      BY <1>1, FirstPlaces
    <2>2. it[1..k] = WithChar(s, it[(1..k) \ {Max(1..k)}], [i \in DOMAIN s |-> i][Max(1..k)])
      BY <1>7, <2>1
    <2>3. [i \in DOMAIN s |-> i][k] = k
      BY <1>1
    <2> QED BY <2>1, <2>2, <2>3
  <1> DEFINE T == {k \in Nat : k <= n => it[1..k] \in V}
  <1>10. 0 \in T
    <2>1. 1..0 = {}
      OBVIOUS
    <2> QED BY <1>2, <1>8, <2>1
  <1>11. ASSUME NEW k \in Nat, k \in T PROVE k + 1 \in T
    <2> SUFFICES ASSUME k + 1 <= n PROVE it[1..(k + 1)] \in V
      OBVIOUS
    <2>1. k + 1 \in 1..n /\ (k + 1) - 1 = k /\ k <= n
      BY <1>1
    <2> QED BY <1>3, <1>9, <1>11, <2>1
  <1> HIDE DEF T
  <1>12. Nat \subseteq T
    BY <1>10, <1>11, SetInduction
  <1>13. ts \in V
    BY <1>1, <1>12 DEF T
  <1>14. Tokenize(line) = SubSeq(ts, 1, Min({Len(ts), MaxTokens}))
    <2>1. DOMAIN [i \in DOMAIN s |-> i] = 1..n
      BY <1>1
    <2> QED BY <2>1, TokenizeUnfolds DEF s, it
  <1> HIDE DEF ts
  <1>15. PICK k \in 0..Len(ts) : k = Min({Len(ts), MaxTokens})
    <2>1. Len(ts) \in Nat /\ MaxTokens \in Nat
      BY <1>13, CommandsAssumption DEF V
    <2> QED BY <2>1, MinOfTwo
  <1>16. SubSeq(ts, 1, k) \in Seq(Seq(Nat))
    <2> DEFINE X == Seq(Nat)
    <2>1. ts \in Seq(X)
      BY <1>13 DEF V
    <2> HIDE DEF X
    <2>2. SubSeq(ts, 1, k) \in Seq(X)
      BY <2>1
    <2> QED BY <2>2 DEF X
  <1> QED BY <1>14, <1>15, <1>16
-----------------------------------------------------------------------------
(* A sequence of digits is one of characters that are digits.               *)
LEMMA DigitStrings ==
  ASSUME NEW s \in Seq(Nat), Range(s) \subseteq Digits
  PROVE  s \in Seq(Digits)
  <1>1. PICK k \in Nat : k = Len(s)
    OBVIOUS
  <1>2. s = [j \in 1..k |-> s[j]] /\ DOMAIN s = 1..k
    BY <1>1
  <1>3. \A j \in 1..k : s[j] \in Digits
    BY <1>2 DEF Range
  <1> QED BY <1>2, <1>3, FunctionIsSeq

(* Where the type and the number of a request are on the wire.              *)
LEMMA RequestCells ==
  ASSUME NEW id, NEW seq, NEW ttype, NEW number
  PROVE  AsRead(Flatten(DataInfo(ACC_PER, id, seq, <<ttype, number>>)))
           = [ttype |-> ttype, number |-> number]
  <1> DEFINE p == DataInfo(ACC_PER, id, seq, <<ttype, number>>)
  <1>1. p.type \in DataTypes /\ p.type # ACK /\ p.type # REJECT
    BY DEF DataInfo, DataTypes, ACC_PER, ACK, REJECT
  <1>2. Content(p) = <<seq, 2>> \o <<ttype, number>>
    <2>1. Content(p) = <<p.seq, Len(p.payload)>> \o p.payload
      BY <1>1 DEF Content
    <2>2. p.seq = seq /\ p.payload = <<ttype, number>> /\ Len(<<ttype, number>>) = 2
      BY DEF DataInfo
    <2> QED BY <2>1, <2>2
  <1>3. Content(p) = <<seq, 2, ttype, number>>
    BY <1>2
  <1>4. Flatten(p) = <<PACKET_START, p.id, p.type>> \o <<seq, 2, ttype, number>> \o <<PACKET_END>>
    BY <1>3 DEF Flatten
  <1> HIDE DEF p
  <1>5. Flatten(p)[6] = ttype /\ Flatten(p)[7] = number
    BY <1>4
  <1> QED BY <1>5 DEF AsRead, p

(***************************************************************************)
(* The argument in the digits of a number and a type says what the entry   *)
(* with these digits says.                                                 *)
(***************************************************************************)
LEMMA InfoIsFiled ==
  ASSUME NEW num \in Seq(Digits), NEW tech \in Seq(Digits), IsClientInfo(num, tech)
  PROVE  LET filed == StrToEntry(num \o tech \o <<Digit(1)>>)
         IN  ClientInfo(num, tech) = [number |-> filed.number, ttype |-> filed.ttype]
  <1> DEFINE n == Len(num)
             t == Len(tech)
             all == num \o tech \o <<Digit(1)>>
  <1>1. n \in Nat /\ t \in Nat /\ n = SUBNUM_STRLEN /\ t = TechDigits
    BY DEF IsClientInfo
  <1>2. SubSeq(all, 1, n) = num
    OBVIOUS
  <1>3. SubSeq(all, n + 1, n + t) = tech
    OBVIOUS
  <1>4. Power10[n] <= LongMod /\ Power10[t] <= LongMod
    BY <1>1, LongAssumption
  <1>5. StrToUL(num).value % NumMod = StrToL(num, NumMod)
    <2>1. NumMod \in Nat \ {0}
      BY EntriesAssumption
    <2> QED BY <1>4, <2>1, ReadingAgrees, StrToULOfDigits
  <1>6. StrToUL(tech).value % 256 = StrToL(tech, 256)
    <2>1. PICK m \in Nat \ {0} : m = 256
      OBVIOUS
    <2>2. StrToUL(tech).value % m = StrToL(tech, m)
      BY <1>4, ReadingAgrees, StrToULOfDigits
    <2> QED BY <2>1, <2>2
  <1>7. StrToEntry(all).number = StrToL(num, NumMod) /\ StrToEntry(all).ttype = StrToL(tech, 256)
    BY <1>1, <1>2, <1>3 DEF StrToEntry
  <1> HIDE DEF all
  <1>8. ClientInfo(num, tech) = [number |-> StrToEntry(all).number,
                                 ttype  |-> StrToEntry(all).ttype]
    BY <1>5, <1>6, <1>7 DEF ClientInfo
  <1> QED BY <1>8 DEF all

(* What is in a sequence is in its set.                                     *)
LEMMA ElementsIn ==
  ASSUME NEW X, NEW s \in Seq(X)
  PROVE  \A i \in 1..Len(s) : s[i] \in X
  OBVIOUS

(* An argument of a request is a string.                                    *)
LEMMA ArgumentIsString ==
  ASSUME NEW tokens \in Seq(Seq(Nat)), Len(tokens) = 6
  PROVE  tokens[4] \in Seq(Nat) /\ tokens[5] \in Seq(Nat) /\ tokens[6] \in Seq(Nat)
  <1>1. \A i \in 1..Len(tokens) : tokens[i] \in Seq(Nat)
    BY ElementsIn, Zenon
  <1>2. \A i \in 1..6 : tokens[i] \in Seq(Nat)
    BY <1>1
  <1> QED BY <1>2

(* The packet is the one of a line that was typed.                          *)
AsTyped ==
  typed # <<>> => \E line \in Lines : /\ IsRequest(Tokenize(line))
                                      /\ pi = RequestOf(Tokenize(line), Id)
                                      /\ typed = SubSeq(Tokenize(line), 4, 6)

(* Only a new request changes it, with its arguments.                       *)
LEMMA NextAsTyped ==
  ASSUME AsTyped, [ConsoleNext]_vars
  PROVE  AsTyped'
  <1>1. ASSUME NEW line \in Lines, Request(line) PROVE AsTyped'
    BY <1>1 DEF Request, AsTyped
  <1>2. ASSUME \A line \in Lines : ~Request(line) PROVE AsTyped'
    <2>1. UNCHANGED <<pi, typed>>
      BY <1>2
      DEF ConsoleNext, Program, Surroundings, vars, Start, EndOfInput, Dismiss, Unresolved,
          SendTo, SendFails, TryAgain, GiveUp, BeginWait, Receive, NothingThere, KeepTrying,
          TimeOut, HandleReply, Arrive, Tick, SetClock
    <2> QED BY <2>1 DEF AsTyped
  <1> QED BY <1>1, <1>2

(* So it asks for what is filed.                                            *)
LEMMA AsTypedAsFiled == AsTyped => AsksForWhatIsFiled
  <1> SUFFICES ASSUME AsTyped, typed # <<>>,
                      Range(typed[2]) \cup Range(typed[3]) \subseteq Digits
               PROVE  LET filed == StrToEntry(typed[2] \o typed[3] \o <<Digit(1)>>)
                      IN  AsRead(Flatten(pi)) = [ttype |-> filed.ttype, number |-> filed.number]
    BY DEF AsksForWhatIsFiled
  <1>1. PICK line \in Lines : /\ IsRequest(Tokenize(line))
                              /\ pi = RequestOf(Tokenize(line), Id)
                              /\ typed = SubSeq(Tokenize(line), 4, 6)
    BY DEF AsTyped
  <1> DEFINE tokens == Tokenize(line)
             num    == typed[2]
             tech   == typed[3]
             filed  == StrToEntry(num \o tech \o <<Digit(1)>>)
  <1>2. tokens \in Seq(Seq(Nat)) /\ Len(tokens) = 6
    <2>1. line \in Seq(Nat)
      BY ConsoleAssumption
    <2>2. tokens \in Seq(Seq(Nat))
      BY <2>1, TokenizeType
    <2> QED BY <1>1, <2>2 DEF IsRequest
  <1>3. IsClientInfo(tokens[5], tokens[6]) /\ pi = RequestOf(tokens, Id)
    BY <1>1 DEF IsRequest
  <1>4. num = tokens[5] /\ tech = tokens[6]
    <2> HIDE DEF tokens
    <2>1. typed = SubSeq(tokens, 4, 6)
      BY <1>1 DEF tokens
    <2> QED BY <1>2, <2>1
  <1> HIDE DEF tokens
  <1>5. num \in Seq(Digits) /\ tech \in Seq(Digits)
    <2>1. tokens[5] \in Seq(Nat) /\ tokens[6] \in Seq(Nat)
      BY <1>2, ArgumentIsString
    <2>2. Range(tokens[5]) \subseteq Digits /\ Range(tokens[6]) \subseteq Digits
      BY <1>4
    <2> QED BY <1>4, <2>1, <2>2, DigitStrings
  <1> HIDE DEF num, tech
  <1>6. ClientInfo(num, tech) = [number |-> filed.number, ttype |-> filed.ttype]
    BY <1>3, <1>4, <1>5, InfoIsFiled
  <1> HIDE DEF filed
  <1>7. pi = DataInfo(ACC_PER, Id, SeqNum(tokens[4]), <<filed.ttype, filed.number>>)
    BY <1>3, <1>4, <1>6 DEF RequestOf, Payload
  <1>8. AsRead(Flatten(pi)) = [ttype |-> filed.ttype, number |-> filed.number]
    BY <1>7, RequestCells
  <1> QED BY <1>8 DEF filed, num, tech

(* A request in plain digits asks for what the same digits say in the file. *)
THEOREM ConsoleAsksForWhatIsFiled == ConsoleSpec => []AsksForWhatIsFiled
  <1>1. ConsoleInit => AsTyped
    BY DEF ConsoleInit, AsTyped
  <1>2. AsTyped /\ [ConsoleNext]_vars => AsTyped'
    BY NextAsTyped
  <1> QED BY <1>1, <1>2, AsTypedAsFiled, PTL DEF ConsoleSpec
-----------------------------------------------------------------------------
(* The refinement.                                                          *)
RequestSet == {DataInfo(ACC_PER, Id, seq, payload) : seq \in SequenceNum, payload \in Payloads}

(* What send_req() makes of a line is a request.                            *)
LEMMA LinesMakeRequests ==
  ASSUME NEW line \in Lines, IsRequest(Tokenize(line))
  PROVE  RequestOf(Tokenize(line), Id) \in RequestSet
  <1> DEFINE tokens  == Tokenize(line)
             payload == Payload(ClientInfo(tokens[5], tokens[6]))
  <1>1. tokens \in Seq(Seq(Nat)) /\ Len(tokens) = 6
    <2>1. line \in Seq(Nat)
      BY ConsoleAssumption
    <2>2. tokens \in Seq(Seq(Nat))
      BY <2>1, TokenizeType
    <2> QED BY <2>2 DEF IsRequest
  <1>2. RequestOf(tokens, Id) = DataInfo(ACC_PER, Id, SeqNum(tokens[4]), payload)
    BY DEF RequestOf
  <1>3. payload \in Payloads
    BY PayloadsAssumption DEF Payload
  <1> HIDE DEF payload
  <1> HIDE DEF tokens
  <1>4. tokens[4] \in Seq(Nat)
    BY <1>1, ArgumentIsString
  <1>5. SeqNum(tokens[4]) \in SequenceNum
    <2> DEFINE v == StrToUL(tokens[4]).value
    <2>1. v \in Int /\ LongMod \in Nat
      BY <1>4, StrToULType, CommandsAssumption
    <2> HIDE DEF v
    <2>2. v % (MaxSeqNum + 1) \in 0..MaxSeqNum
      BY <2>1, PacketsAssumption
    <2> QED BY <2>2 DEF SeqNum, SequenceNum, v
  <1> QED BY <1>2, <1>3, <1>5 DEF RequestSet, tokens

(* The packet is a request, and a datagram is put into a cleared buffer.    *)
Handled ==
  /\ pi \in {<<>>} \cup RequestSet
  /\ InCall \/ pc = "send" => pi \in RequestSet
  /\ pc \in {"begin", "try", "check"} => recv_buf = Zeros
  /\ pc = "handle" => \E datagram \in Datagrams : recv_buf = Overlay(datagram, Zeros)

(* It holds at the start, and every step keeps it.                          *)
LEMMA InitHandled == ConsoleInit => Handled
  BY DEF ConsoleInit, Handled, InCall

LEMMA NextHandled ==
  ASSUME KInv, Handled, [ConsoleNext]_vars
  PROVE  Handled'
  <1>1. CASE Receive
    <2>1. Head(arrived) \in Datagrams
      BY <1>1 DEF Receive, KInv, Typed
    <2>2. recv_buf = Zeros
      BY <1>1 DEF Receive, Handled
    <2> QED BY <1>1, <2>1, <2>2 DEF Receive, Handled, InCall
  <1>2. ASSUME NEW line \in Lines, Request(line) PROVE Handled'
    <2>1. pi' \in RequestSet
      BY <1>2, LinesMakeRequests DEF Request
    <2> QED BY <1>2, <2>1 DEF Request, Handled, InCall
  <1>3. CASE TryAgain
    BY <1>3 DEF TryAgain, Cleared, Handled, InCall
  <1>4. ASSUME ~Receive, ~TryAgain, \A line \in Lines : ~Request(line) PROVE Handled'
    <2>1. UNCHANGED recv_buf /\ UNCHANGED pi
      BY <1>4
      DEF ConsoleNext, Program, Surroundings, vars, Start, EndOfInput, Dismiss, Unresolved,
          SendTo, SendFails, GiveUp, BeginWait, NothingThere, KeepTrying, TimeOut, HandleReply,
          Arrive, Tick, SetClock
    <2>2. \/ pc' = pc
          \/ pc' \in {"shell", "ended"}
          \/ pc \in {"send", "handle", "check"} /\ pc' = "loop"
          \/ pc = "begin" /\ pc' = "try"
          \/ pc \in {"try", "check"} /\ pc' \in {"try", "check"}
      BY <1>4
      DEF ConsoleNext, Program, Surroundings, vars, Start, EndOfInput, Dismiss, Unresolved,
          ReadLine, SendTo, SendFails, GiveUp, BeginWait, NothingThere, KeepTrying, TimeOut,
          HandleReply, Arrive, Tick, SetClock
    <2> QED BY <2>1, <2>2 DEF Handled, InCall
  <1> QED BY <1>1, <1>2, <1>3, <1>4

(* What is seen of the program from outside, as Open has it.                *)
Phase == IF InCall /\ ~GivingUp THEN "waiting" ELSE "shell"
TriesSeen == IF GivingUp /\ pi.seq \in Slots THEN [tries EXCEPT ![pi.seq] = 0] ELSE tries
SockSeen == IF GivingUp /\ pi.seq \notin Slots THEN "overwritten" ELSE sock
OutcomeSeen == IF GivingUp THEN GAVE_UP ELSE call.outcome

(* A step that changes nothing of this is not seen.                         *)
LEMMA Unseen ==
  ASSUME UNCHANGED <<Phase, TriesSeen, SockSeen, OutcomeSeen>>,
         UNCHANGED <<call.req, call.sends, call.waits, call.patience>>
  PROVE  UNCHANGED Open!clientVars
  BY DEF Open!clientVars, Phase, TriesSeen, SockSeen, OutcomeSeen, InCall

(* Sending enters the loop, or finds no element for the number.             *)
LEMMA SendToSeen ==
  ASSUME KInv, Handled, SendTo
  PROVE  Open!Next
  <1>1. pi \in Open!Requests(Me)
    BY DEF SendTo, Handled, RequestSet, Open!Requests, Open!DataInfo, DataInfo, Open!ACC_PER,
       ACC_PER, Open!SequenceNum, SequenceNum
  <1>2. ~GivingUp /\ Phase = "shell" /\ TriesSeen = tries /\ SockSeen = sock /\ sock = "open"
    BY DEF SendTo, GivingUp, Phase, TriesSeen, SockSeen, InCall
  <1>3. CASE pi.seq \in Slots
    <2>1. tries[pi.seq] < MaxTries
      BY <1>3, ConsoleAssumption DEF SendTo, KInv, Typed, Bookkeeping, UsedUpOnlyInTheLoop
    <2>2. ~GivingUp'
      BY <1>3, <2>1, ConsoleAssumption DEF SendTo, GivingUp, Tries, KInv, Typed
    <2>3. Open!SendReq(Me, pi)
      BY <1>1, <1>2, <1>3, <2>1, <2>2
      DEF SendTo, Open!SendReq, Open!Begin, Open!Slots, Slots, Phase, TriesSeen, SockSeen,
          OutcomeSeen, InCall, Open!NO_OUTCOME, NO_OUTCOME
    <2> QED BY <1>1, <2>3 DEF Open!Next, Open!UserStep
  <1>4. CASE pi.seq \notin Slots
    <2>2. GivingUp'
      BY <1>4, <1>2, ConsoleAssumption DEF SendTo, GivingUp, Tries
    <2>3. Open!SendLastSeqNum(Me, pi)
      BY <1>1, <1>2, <1>4, <2>2
      DEF SendTo, Open!SendLastSeqNum, Open!Begin, Open!Return, Open!Slots, Slots, Phase,
          TriesSeen, SockSeen, OutcomeSeen, InCall, Open!GAVE_UP, GAVE_UP
    <2> QED BY <1>1, <2>3 DEF Open!Next, Open!UserStep
  <1> QED BY <1>3, <1>4

(* A failed send returns to the shell.                                      *)
LEMMA SendFailsSeen == ASSUME KInv, SendFails PROVE Open!Next
  <1>1. /\ call'.outcome = SEND_FAILED
        /\ UNCHANGED <<call.req, call.sends, call.waits, call.patience>>
    BY DEF SendFails, KInv, Typed, CallTyped
  <1>2. ~GivingUp /\ ~GivingUp' /\ ~InCall /\ ~InCall' /\ UNCHANGED <<pi, tries, sock>>
    BY DEF SendFails, GivingUp, InCall
  <1>3. Open!SendFails(Me)
    BY <1>1, <1>2 DEF Open!SendFails, Open!Return, InCall, Open!SEND_FAILED, SEND_FAILED
  <1> QED BY <1>3 DEF Open!Next, Open!UserStep

(* The tries that are left while a call waits, and after one more timeout.  *)
LEMMA TimeOutSeen == ASSUME KInv, TimeOut PROVE Open!Next
  <1> DEFINE s == pi.seq
  <1>1. /\ s \in Slots /\ tries[s] \in Nat /\ tries[s] < MaxTries
        /\ call.req = pi /\ pc = "check" /\ pc' = "loop" /\ UNCHANGED <<pi, sock>>
        /\ tries' = [tries EXCEPT ![s] = @ + 1] /\ tries'[s] = tries[s] + 1
    BY ConsoleAssumption
    DEF TimeOut, KInv, Typed, Bookkeeping, UsedUpOnlyInTheLoop, CallUnderWay, InCall
  <1>2. /\ call'.waits = call.waits + 1
        /\ UNCHANGED <<call.req, call.sends, call.patience, call.outcome>>
    BY DEF TimeOut, KInv, Typed, CallTyped
  <1>3. ~GivingUp /\ (GivingUp' <=> ~(tries[s] + 1 < MaxTries))
    BY <1>1, ConsoleAssumption DEF GivingUp, Tries
  <1>4. [tries' EXCEPT ![s] = 0] = [tries EXCEPT ![s] = 0]
    BY <1>1 DEF KInv, Typed
  <1>5. CASE tries[s] + 1 < MaxTries
    <2>1. Open!WaitTimesOut(Me)
      BY <1>1, <1>2, <1>3, <1>5 DEF Open!WaitTimesOut
    <2> QED BY <2>1 DEF Open!Next
  <1>6. CASE ~(tries[s] + 1 < MaxTries)
    <2>1. Open!WaitTimesOut(Me)
      BY <1>1, <1>2, <1>3, <1>4, <1>6 DEF Open!WaitTimesOut, Open!Return, Open!GAVE_UP, GAVE_UP
    <2> QED BY <2>1 DEF Open!Next
  <1> QED BY <1>5, <1>6

(* The whole buffer is interpreted, as if it were new for the datagram.     *)
LEMMA HandleReplySeen == ASSUME KInv, Handled, HandleReply PROVE Open!Next
  <1>1. PICK datagram \in Datagrams : recv_buf = Overlay(datagram, Zeros)
    BY DEF HandleReply, Handled
  <1>2. PICK r \in Interpret(recv_buf) :
          IF r.ret = 0 /\ r.type \in {REJECT} \cup Verdicts
          THEN pc' = "shell" /\ call' = [call EXCEPT !.outcome = r.type]
          ELSE pc' = "loop" /\ UNCHANGED call
    BY DEF HandleReply
  <1>3. r \in Open!Interpret(Open!Overlay(datagram, [i \in 1..BufSize |-> 0]))
    BY <1>1, <1>2
    DEF Zeros, Overlay, Open!Overlay, Interpret, Open!Interpret, Open!EndCheck, EndCheck,
        Open!PACKET_START, PACKET_START, Open!PACKET_END, PACKET_END, Open!NO_END, NO_END,
        Open!ACC_PER, ACC_PER, Open!DATA, DATA, Open!ACK, ACK, Open!REJECT, REJECT,
        Open!BAD_TYPE, BAD_TYPE, Open!DataTypes, DataTypes, Open!Verdicts, Verdicts,
        Open!NOT_EXIST, NOT_EXIST, Open!NOT_PAID, NOT_PAID, Open!ACC_OK, ACC_OK, Open!HeaderLen,
        HeaderLen, Open!ClientId, ClientId, Open!SequenceNum, SequenceNum
  <1>4. Open!EndsCall(r.type) <=> r.type \in {REJECT} \cup Verdicts
    BY DEF Open!EndsCall, Open!REJECT, REJECT, Open!Verdicts, Verdicts, Open!NOT_EXIST,
       NOT_EXIST, Open!NOT_PAID, NOT_PAID, Open!ACC_OK, ACC_OK
  <1>5. /\ pc = "handle" /\ ~GivingUp /\ UNCHANGED <<pi, tries, sock>>
        /\ pi.seq \in Slots /\ tries[pi.seq] < MaxTries
    BY ConsoleAssumption
    DEF HandleReply, GivingUp, KInv, Typed, Bookkeeping, UsedUpOnlyInTheLoop, CallUnderWay,
        InCall
  <1>6. ~GivingUp'
    BY <1>5, ConsoleAssumption DEF GivingUp, Tries, KInv, Typed
  <1>7. Open!HandleReply(Me, datagram)
    <2>1. CASE r.ret = 0 /\ r.type \in {REJECT} \cup Verdicts
      <3>1. /\ call'.outcome = r.type /\ pc' = "shell"
            /\ UNCHANGED <<call.req, call.sends, call.waits, call.patience>>
        BY <1>2, <2>1 DEF KInv, Typed, CallTyped
      <3> QED BY <1>3, <1>4, <1>5, <1>6, <2>1, <3>1 DEF Open!HandleReply, Open!Return
    <2>2. CASE ~(r.ret = 0 /\ r.type \in {REJECT} \cup Verdicts)
      <3>1. pc' = "loop" /\ UNCHANGED call
        BY <1>2, <2>2
      <3> QED BY <1>3, <1>4, <1>5, <1>6, <2>2, <3>1 DEF Open!HandleReply
    <2> QED BY <2>1, <2>2
  <1> QED BY <1>7 DEF Open!Next

(* The rest is not seen.                                                    *)
LEMMA GiveUpUnseen == ASSUME KInv, GiveUp PROVE UNCHANGED Open!clientVars
  <1>1. GivingUp /\ ~GivingUp' /\ ~InCall' /\ UNCHANGED pi
    BY DEF GiveUp, GivingUp, InCall
  <1>2. /\ call'.outcome = GAVE_UP
        /\ UNCHANGED <<call.req, call.sends, call.waits, call.patience>>
    BY DEF GiveUp, KInv, Typed, CallTyped
  <1>3. UNCHANGED <<Phase, TriesSeen, SockSeen, OutcomeSeen>>
    BY <1>1, <1>2 DEF GiveUp, Phase, TriesSeen, SockSeen, OutcomeSeen
  <1> QED BY <1>2, <1>3, Unseen

(* Steps inside a call, or inside the shell.                                *)
LEMMA InsideUnseen ==
  ASSUME UNCHANGED <<tries, sock>>, InCall <=> InCall',
         InCall => UNCHANGED pi, GivingUp <=> GivingUp',
         UNCHANGED <<call.req, call.sends, call.waits, call.patience, call.outcome>>
  PROVE  UNCHANGED Open!clientVars
  <1>1. GivingUp => UNCHANGED pi
    BY DEF GivingUp, InCall
  <1>2. UNCHANGED <<Phase, TriesSeen, SockSeen, OutcomeSeen>>
    BY <1>1 DEF Phase, TriesSeen, SockSeen, OutcomeSeen
  <1> QED BY <1>2, Unseen

(* The loop goes round.                                                     *)
LEMMA TryAgainUnseen == ASSUME KInv, TryAgain PROVE UNCHANGED Open!clientVars
  <1>1. ~GivingUp
    BY ConsoleAssumption
    DEF TryAgain, GivingUp, KInv, Typed, Bookkeeping, CallUnderWay, InCall, Tries
  <1>2. ~GivingUp' /\ InCall /\ InCall'
    BY DEF TryAgain, GivingUp, InCall
  <1> QED BY <1>1, <1>2, InsideUnseen DEF TryAgain

(* Lines are read.                                                          *)
LEMMA ShellUnseen ==
  ASSUME NEW line, Start \/ EndOfInput \/ Dismiss(line) \/ Unresolved(line) \/ Request(line)
  PROVE  UNCHANGED Open!clientVars
  <1>1. /\ pc \in {"starting", "shell"} /\ pc' \in {"shell", "send", "ended"}
        /\ UNCHANGED <<tries, sock, call>>
    BY DEF Start, EndOfInput, Dismiss, Unresolved, Request, ReadLine
  <1> QED BY <1>1, InsideUnseen DEF InCall, GivingUp

(* The socket is polled.                                                    *)
LEMMA PollUnseen ==
  ASSUME KInv, BeginWait \/ Receive \/ NothingThere \/ KeepTrying
  PROVE  UNCHANGED Open!clientVars
  <1>1. /\ pc \in {"begin", "try", "check"} /\ pc' \in {"try", "check", "handle"}
        /\ UNCHANGED <<pi, tries, sock>>
    BY DEF BeginWait, Receive, NothingThere, KeepTrying
  <1>2. UNCHANGED <<call.req, call.sends, call.waits, call.patience, call.outcome>>
    BY DEF BeginWait, Receive, NothingThere, KeepTrying, KInv, Typed, CallTyped
  <1> QED BY <1>1, <1>2, InsideUnseen DEF InCall, GivingUp

(* Datagrams wait to be read, and the clock to be looked at.                *)
LEMMA SurroundingsUnseen ==
  ASSUME KInv, Surroundings \/ UNCHANGED vars
  PROVE  UNCHANGED Open!clientVars
  <1>1. UNCHANGED <<pc, pi, tries, sock>>
    BY DEF Surroundings, Arrive, Tick, SetClock, vars
  <1>2. UNCHANGED <<call.req, call.sends, call.waits, call.patience, call.outcome>>
    <2>1. CASE UNCHANGED call
      BY <2>1
    <2>2. CASE Tick
      BY <2>2 DEF Tick, KInv, Typed, CallTyped
    <2>3. ASSUME NEW jump \in Jumps, SetClock(jump)
          PROVE  UNCHANGED <<call.req, call.sends, call.waits, call.patience, call.outcome>>
      <3>1. PICK forward : call' = [call EXCEPT !.turned = @ + forward]
        BY <2>3 DEF SetClock
      <3> QED BY <3>1 DEF KInv, Typed, CallTyped
    <2> QED BY <2>1, <2>2, <2>3 DEF Surroundings, Arrive, vars
  <1>3. InCall <=> InCall'
    BY <1>1 DEF InCall
  <1>4. GivingUp <=> GivingUp'
    BY <1>1 DEF GivingUp, Tries
  <1> QED BY <1>1, <1>2, <1>3, <1>4, InsideUnseen

(* The packet, the counts and the account keep to their ranges.             *)
THEOREM ConsoleTypeCorrect == ConsoleSpec => []ConsoleTypeOK
  <1>1. KInv /\ Handled => ConsoleTypeOK
    <2> SUFFICES ASSUME KInv, Handled PROVE ConsoleTypeOK
      OBVIOUS
    <2>1. pi # <<>> => pi.seq \in SequenceNum /\ pi.payload \in Payloads
      BY DEF Handled, RequestSet, DataInfo
    <2>2. Waiting => pi.seq \in Slots
      BY DEF Waiting, InCall, KInv, Bookkeeping, CallUnderWay
    <2> QED
      BY <2>1, <2>2 DEF KInv, Typed, Bookkeeping, UsedUpOnlyInTheLoop, Patient, ConsoleTypeOK
  <1>2. KInv /\ Handled /\ [ConsoleNext]_vars => Handled'
    BY NextHandled
  <1> QED BY <1>1, <1>2, InitHandled, ConsoleInvariant, PTL DEF ConsoleSpec

(* Polling against the clock does what OpenClient says in one step: it      *)
(* waits, times out or takes a datagram, and sends, counts and gives up     *)
(* alike.                                                                   *)
THEOREM ConsoleImplementsClient == ConsoleSpec => ImplementsClient
  <1>1. ConsoleInit => Open!ClientInit
    BY DEF ConsoleInit, Open!ClientInit, GivingUp, Open!Slots, Slots, Open!NO_OUTCOME,
       NO_OUTCOME
  <1>2. KInv /\ Handled /\ [ConsoleNext]_vars => [Open!Next]_(Open!clientVars)
    <2> SUFFICES ASSUME KInv, Handled, [ConsoleNext]_vars
                 PROVE  Open!Next \/ UNCHANGED Open!clientVars
      OBVIOUS
    <2>1. ASSUME NEW line \in Lines,
                 Start \/ EndOfInput \/ Dismiss(line) \/ Unresolved(line) \/ Request(line)
          PROVE  UNCHANGED Open!clientVars
      BY <2>1, ShellUnseen
    <2>2. CASE Start \/ EndOfInput
      BY <2>2, ShellUnseen
    <2>3. CASE SendTo \/ SendFails \/ TimeOut \/ HandleReply
      BY <2>3, SendToSeen, SendFailsSeen, TimeOutSeen, HandleReplySeen
    <2>4. CASE TryAgain \/ GiveUp
      BY <2>4, TryAgainUnseen, GiveUpUnseen
    <2>5. CASE BeginWait \/ Receive \/ NothingThere \/ KeepTrying
      BY <2>5, PollUnseen
    <2>6. CASE Surroundings \/ UNCHANGED vars
      BY <2>6, SurroundingsUnseen
    <2> QED BY <2>1, <2>2, <2>3, <2>4, <2>5, <2>6 DEF ConsoleNext, Program
  <1>3. KInv /\ Handled /\ [ConsoleNext]_vars => Handled'
    BY NextHandled
  <1> QED
    BY <1>1, <1>2, <1>3, InitHandled, ConsoleInvariant, PTL
    DEF ConsoleSpec, Open!Spec, ImplementsClient
=============================================================================
