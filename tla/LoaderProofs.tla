---------------------------- MODULE LoaderProofs ----------------------------
(***************************************************************************)
(* Proofs about Loader, and about Mpc, which it runs, for every text and   *)
(* every grammar that is put together as GrammarAssumption says.           *)
(*                                                                         *)
(* 1. The machine.  Nothing is assumed of the parsers but that they are    *)
(*    called by the actions of Mpc; MpcInv is about the input, the marks   *)
(*    and the stack.  The actions are of four kinds (lemma Kinds): a       *)
(*    parser without children runs, one with children is entered, goes on  *)
(*    with its next child, or is left.  Each part of the invariant is then *)
(*    shown for the four.                                                  *)
(* 2. Trees.  Leaves and TreesTo are recursive functions: that they exist  *)
(*    and are what they are defined as, and what tagging, splicing and     *)
(*    folding do to the leaves of a tree.                                  *)
(* 3. The parse.  TreeInv has what every frame of the stack has gathered,  *)
(*    and what is returned to it: the leaves spell the text from where the *)
(*    parser was called to where it is.                                    *)
(* 4. The walk.  WalkInv relates the path of the walk to the leaves of the *)
(*    tree: those of the children it is done with have been walked over.   *)
(***************************************************************************)
EXTENDS Loader, Recursion, FiniteSetTheorems


AndOf(f)      == IF f.p.type = "AND" THEN 1 ELSE 0
MarkHeight(f) == f.at + AndOf(f)

Mark == [state |-> state, last |-> last]

Peeks == UNCHANGED <<state, last, fpos>> /\ (eof' = eof \/ eof' = AtEnd)

Takes ==
  /\ ctl'.op = "ok" /\ fpos < Len(text)
  /\ fpos' = fpos + 1 /\ state' = Advanced(state, text[fpos + 1])
  /\ last' = text[fpos + 1] /\ eof' = eof

(* A parser without children runs.                                          *)
Runs ==
  /\ ctl.op = "call" /\ ctl'.op # "call"
  /\ UNCHANGED <<stack, marks, suppress>>
  /\ Peeks \/ Takes

Enters ==
  /\ ctl.op = "call" /\ ctl'.op = "call"
  /\ stack' = Append(stack, Frame)
  /\ marks' = IF ctl.p.type = "AND" THEN Append(marks, Mark) ELSE marks
  /\ suppress' = IF ctl.p.type = "EXPECT" THEN suppress + 1 ELSE suppress
  /\ UNCHANGED <<state, last, fpos, eof>>

Continues ==
  /\ ctl.op # "call" /\ ctl'.op = "call" /\ stack # <<>>
  /\ \E xs : stack' = Append(Popped, NextFrame(xs))
  /\ Top.p.type \in {"MANY1", "AND"} \/ (Top.p.type = "OR" /\ Failed)
  /\ UNCHANGED <<state, last, fpos, eof, marks, suppress>>

Exits ==
  /\ ctl.op # "call" /\ stack # <<>>
  /\ stack' = Popped
  /\ ctl'.op # "call"
  /\ ctl'.op = "fail" => Failed /\ (Top.p.type = "MANY1" => Top.j = 0)
  /\ marks' = IF Top.p.type = "AND" THEN Unmarked ELSE marks
  /\ suppress' = IF Top.p.type = "EXPECT" THEN suppress - 1 ELSE suppress
  /\ IF Top.p.type = "AND" /\ Failed THEN Rewound ELSE Peeks

-----------------------------------------------------------------------------
(* Every step is of one of the four kinds.                                  *)
LEMMA TakeKinds ==
  ASSUME fpos \in Nat, text \in Seq(Nat), NEW s, Take(s), ctl.op = "call"
  PROVE  Runs
  <1>1. CASE TakeAtEnd
    <2>1. eof' = AtEnd
      BY <1>1, Zenon DEF TakeAtEnd, AtEnd
    <2> QED BY <1>1, <2>1 DEF Take, TakeAtEnd, Runs, Peeks, Fail, input
  <1>2. CASE TakeSucceeds(s)
    BY <1>2 DEF Take, TakeSucceeds, AtEnd, Runs, Takes, Ok
  <1>3. CASE TakeFails(s)
    <2>3. eof' = AtEnd
      <3>1. ~AtEnd /\ eof' = FALSE
        BY <1>3 DEF TakeFails
      <3> QED BY <3>1, Zenon DEF AtEnd
    <2> QED BY <1>3, <2>3 DEF Take, TakeFails, Runs, Peeks, Fail, input
  <1> QED BY <1>1, <1>2, <1>3 DEF Take

LEMMA Kinds ==
  ASSUME MpcNext, fpos \in Nat, text \in Seq(Nat)
  PROVE  (Runs \/ Enters \/ Continues \/ Exits) /\ text' = text
  <1>1. CASE CallSingle \/ CallOneof \/ CallState
    <2>1. CASE CallSingle \/ CallOneof
      BY <1>1, <2>1, TakeKinds DEF CallSingle, CallOneof, Calls, Take
    <2>2. CASE CallState
      BY <2>2 DEF CallState, Calls, Runs, Peeks, Ok, stream, input
    <2> QED BY <1>1, <2>1, <2>2
  <1>2. CASE CallApply \/ CallExpect \/ CallOr \/ CallAnd
    BY <1>2 DEF CallApply, CallExpect, CallOr, CallAnd, Enter, Calls, Call, Enters, Frame,
       Mark, stream, input
  <1>3. CASE Many1Next \/ AndNext
    BY <1>3 DEF Many1Next, AndNext, GoOn, ReturnsTo, Call, Continues, stream, input
  <1>4. CASE OrFails
    BY <1>4 DEF OrFails, GoOn, Leave, ReturnsTo, Call, Fail, Failed, Continues, Exits,
       Peeks, stream, input
  <1>5. CASE ReturnApply \/ ReturnApplyTo \/ ExpectOk \/ OrOk
    BY <1>5 DEF ReturnApply, ReturnApplyTo, ExpectOk, OrOk, Leave, ReturnsTo, Ok, Failed,
       Succeeded, Exits, Peeks, stream, input
  <1>6. CASE ExpectFails
    BY <1>6 DEF ExpectFails, Leave, ReturnsTo, Fail, Failed, Exits, Peeks, input
  <1>7. CASE Many1Ends
    BY <1>7 DEF Many1Ends, Leave, ReturnsTo, Ok, Failed, Exits, Peeks, stream, input
  <1>8. CASE AndOk \/ AndFails
    BY <1>8 DEF AndOk, AndFails, Leave, ReturnsTo, Ok, Failed, Succeeded, Exits,
       Peeks, stream, input
  <1> QED
    BY <1>1, <1>2, <1>3, <1>4, <1>5, <1>6, <1>7, <1>8 DEF MpcNext

(* What push and pop do to a sequence of whatever elements.                 *)
LEMMA Pushed ==
  ASSUME NEW S, NEW s \in Seq(S), NEW e
  PROVE  /\ Append(s, e) \in Seq(S \cup {e})
         /\ Len(Append(s, e)) = Len(s) + 1
         /\ \A i \in 1..Len(s) : Append(s, e)[i] = s[i]
         /\ Append(s, e)[Len(s) + 1] = e
  <1>1. s \in Seq(S \cup {e})
    OBVIOUS
  <1> QED BY <1>1

LEMMA PoppedOff ==
  ASSUME NEW S, NEW s \in Seq(S), s # <<>>
  PROVE  LET t == SubSeq(s, 1, Len(s) - 1)
         IN  /\ t \in Seq(S)
             /\ Len(s) \in Nat \ {0}
             /\ Len(t) = Len(s) - 1
             /\ \A i \in 1..(Len(s) - 1) : t[i] = s[i]
  <1> DEFINE n == Len(s) - 1
             t == SubSeq(s, 1, n)
  <1>1. Len(s) \in Nat \ {0} /\ n \in Nat /\ \A i \in 1..n : s[i] \in S
    OBVIOUS
  <1> HIDE DEF n
  <1>2. /\ t \in Seq(S)
        /\ Len(t) = IF 1 <= n THEN n - 1 + 1 ELSE 0
        /\ \A i \in 1..(n - 1 + 1) : t[i] = s[1 + i - 1]
    BY <1>1, SubSeqProperties
  <1>3. Len(t) = n /\ \A i \in 1..n : t[i] = s[i]
    BY <1>1, <1>2
  <1> QED BY <1>1, <1>2, <1>3 DEF n

(* The stack before and after a step, frame by frame.                       *)
IsStack == \E S : stack \in Seq(S)

LEMMA EntersStack ==
  ASSUME IsStack, Enters
  PROVE  /\ IsStack' /\ stack' # <<>>
         /\ Len(stack) \in Nat /\ Len(stack') = Len(stack) + 1
         /\ \A i \in 1..Len(stack) : stack'[i] = stack[i]
         /\ stack'[Len(stack) + 1] = Frame
         /\ stack # <<>> => Len(stack) > 0
  <1>1. PICK S : stack \in Seq(S)
    BY DEF IsStack
  <1>2. stack' = Append(stack, Frame)
    BY DEF Enters
  <1>3. /\ stack' \in Seq(S \cup {Frame}) /\ Len(stack') = Len(stack) + 1
        /\ \A i \in 1..Len(stack) : stack'[i] = stack[i]
        /\ stack'[Len(stack) + 1] = Frame
    BY <1>1, <1>2, Pushed
  <1>4. Len(stack) \in Nat /\ (stack # <<>> => Len(stack) > 0)
    BY <1>1
  <1>5. stack' # <<>>
    BY <1>3, <1>4
  <1> QED BY <1>3, <1>4, <1>5 DEF IsStack

LEMMA ContinuesStack ==
  ASSUME IsStack, Continues
  PROVE  /\ IsStack' /\ stack' # <<>>
         /\ Len(stack) \in Nat \ {0} /\ Len(stack') = Len(stack)
         /\ \A i \in 1..(Len(stack) - 1) : stack'[i] = stack[i]
         /\ \E xs : stack'[Len(stack)] = NextFrame(xs)
  <1>1. PICK S : stack \in Seq(S)
    BY DEF IsStack
  <1>2. PICK xs : stack' = Append(Popped, NextFrame(xs))
    BY DEF Continues
  <1>3. /\ Popped \in Seq(S) /\ Len(stack) \in Nat \ {0} /\ Len(Popped) = Len(stack) - 1
        /\ \A i \in 1..(Len(stack) - 1) : Popped[i] = stack[i]
    BY <1>1, PoppedOff DEF Popped, Continues
  <1>4. /\ stack' \in Seq(S \cup {NextFrame(xs)}) /\ Len(stack') = Len(Popped) + 1
        /\ \A i \in 1..Len(Popped) : stack'[i] = Popped[i]
        /\ stack'[Len(Popped) + 1] = NextFrame(xs)
    BY <1>2, <1>3, Pushed
  <1>5. /\ Len(stack') = Len(stack) /\ stack' # <<>>
        /\ \A i \in 1..(Len(stack) - 1) : stack'[i] = stack[i]
        /\ stack'[Len(stack)] = NextFrame(xs)
    BY <1>3, <1>4
  <1> QED BY <1>3, <1>4, <1>5 DEF IsStack

LEMMA ExitsStack ==
  ASSUME IsStack, Exits
  PROVE  /\ IsStack'
         /\ Len(stack) \in Nat \ {0} /\ Len(stack') = Len(stack) - 1
         /\ \A i \in 1..(Len(stack) - 1) : stack'[i] = stack[i]
         /\ stack' # <<>> => Len(stack) > 1
  <1>1. PICK S : stack \in Seq(S)
    BY DEF IsStack
  <1>2. /\ stack' \in Seq(S) /\ Len(stack) \in Nat \ {0} /\ Len(stack') = Len(stack) - 1
        /\ \A i \in 1..(Len(stack) - 1) : stack'[i] = stack[i]
    BY <1>1, PoppedOff DEF Popped, Exits
  <1>3. stack' # <<>> => Len(stack) > 1
    BY <1>2
  <1> QED BY <1>2, <1>3 DEF IsStack

-----------------------------------------------------------------------------
(***************************************************************************)
(* The invariant.  Here is where the running parser began; a frame began   *)
(* where its caller's running child did; a parser that has consumed        *)
(* nothing on its own is still at its start.                               *)
(***************************************************************************)
Here == IF stack = <<>> THEN NewState ELSE Top.from

Typed ==
  /\ IsStack
  /\ state \in Position /\ last \in Nat
  /\ marks \in Seq([state : Position, last : Nat])
  /\ \A i \in 1..Len(stack) :
       /\ stack[i].start \in Position /\ stack[i].from \in Position
       /\ stack[i].j \in Nat /\ stack[i].at \in Nat

Chained ==
  /\ \A i \in 1..Len(stack) :
       /\ stack[i].start = IF i = 1 THEN NewState ELSE stack[i - 1].from
       /\ \/ stack[i].p.type = "AND"
          \/ stack[i].p.type = "MANY1" /\ stack[i].j # 0
          \/ stack[i].from = stack[i].start
  /\ ctl.op = "call" \/ ctl.op = "fail" => state = Here

(* The marks are those of the `and`s on the stack, each at its own height.  *)
MarksKept ==
  /\ Len(marks) = IF stack = <<>> THEN 0 ELSE MarkHeight(Top)
  /\ \A i \in 1..Len(stack) : stack[i].at = IF i = 1 THEN 0 ELSE MarkHeight(stack[i - 1])
  /\ \A i, k \in 1..Len(stack) : i < k => MarkHeight(stack[i]) <= stack[k].at
  /\ \A i \in 1..Len(stack) :
       stack[i].p.type = "AND" => marks[stack[i].at + 1].state = stack[i].start

MarkSet == [state : Position, last : Nat]

(* The marks before and after a step.                                       *)
LEMMA EntersMarks ==
  ASSUME Typed, Enters
  PROVE  /\ marks' \in Seq(MarkSet) /\ Len(marks) \in Nat
         /\ Len(marks') = Len(marks) + AndOf(Frame)
         /\ \A m \in 1..Len(marks) : marks'[m] = marks[m]
         /\ ctl.p.type = "AND" => marks'[Len(marks) + 1] = Mark
  <1>1. marks \in Seq(MarkSet) /\ Mark \in MarkSet /\ Len(marks) \in Nat
    BY DEF Typed, Mark, MarkSet
  <1>2. CASE ctl.p.type = "AND"
    <2>1. marks' = Append(marks, Mark) /\ AndOf(Frame) = 1
      BY <1>2 DEF Enters, AndOf, Frame
    <2> QED BY <1>1, <2>1
  <1>3. CASE ctl.p.type # "AND"
    BY <1>1, <1>3 DEF Enters, AndOf, Frame
  <1> QED BY <1>2, <1>3

LEMMA ExitsMarks ==
  ASSUME Typed, MarksKept, Exits
  PROVE  /\ marks' \in Seq(MarkSet) /\ Len(marks) \in Nat
         /\ Len(marks') = Top.at
         /\ \A m \in 1..Top.at : marks'[m] = marks[m]
         /\ Top.p.type = "AND" => /\ Len(marks) = Top.at + 1
                                  /\ marks[Len(marks)] \in MarkSet
                                  /\ marks[Len(marks)].state = Top.start
  <1>1. marks \in Seq(MarkSet) /\ Len(marks) \in Nat
    BY DEF Typed, MarkSet
  <1>2. stack # <<>> /\ Len(stack) \in 1..Len(stack) /\ Top.at \in Nat
    BY ExitsStack DEF Typed, Exits, Top
  <1>3. Len(marks) = Top.at + AndOf(Top)
    BY <1>2 DEF MarksKept, MarkHeight
  <1>4. CASE Top.p.type = "AND"
    <2>1. Len(marks) = Top.at + 1 /\ marks # <<>>
      BY <1>1, <1>2, <1>3, <1>4 DEF AndOf
    <2>2. marks' = SubSeq(marks, 1, Len(marks) - 1)
      BY <1>4 DEF Exits, Unmarked
    <2>3. /\ marks' \in Seq(MarkSet) /\ Len(marks') = Len(marks) - 1
          /\ \A m \in 1..(Len(marks) - 1) : marks'[m] = marks[m]
      BY <1>1, <2>1, <2>2, PoppedOff
    <2>4. marks[Top.at + 1].state = Top.start
      BY <1>2, <1>4 DEF MarksKept, Top
    <2>5. marks[Len(marks)] \in MarkSet
      BY <1>1, <1>2, <2>1
    <2> QED BY <1>1, <1>2, <2>1, <2>3, <2>4, <2>5
  <1>5. CASE Top.p.type # "AND"
    BY <1>1, <1>2, <1>3, <1>5 DEF AndOf, Exits
  <1> QED BY <1>4, <1>5

-----------------------------------------------------------------------------
(* Each kind of step keeps the chain and the marks.                         *)
LEMMA EntersKeeps ==
  ASSUME Typed, Chained, MarksKept, Enters
  PROVE  (Typed /\ Chained /\ MarksKept)'
  <1> DEFINE n == Len(stack)
  <1>1. /\ IsStack' /\ stack' # <<>> /\ n \in Nat /\ Len(stack') = n + 1
        /\ \A i \in 1..n : stack'[i] = stack[i]
        /\ stack'[n + 1] = Frame /\ (stack # <<>> => n > 0)
    BY EntersStack DEF Typed
  <1>2. UNCHANGED <<state, last>> /\ ctl.op = "call" /\ ctl'.op = "call"
    BY DEF Enters
  <1>3. /\ Frame.p = ctl.p /\ Frame.j = 0 /\ Frame.start = state /\ Frame.from = state
        /\ Frame.at = Len(marks)
    BY DEF Frame
  <1>4. /\ marks' \in Seq(MarkSet) /\ Len(marks) \in Nat
        /\ Len(marks') = Len(marks) + AndOf(Frame)
        /\ \A m \in 1..Len(marks) : marks'[m] = marks[m]
        /\ ctl.p.type = "AND" => marks'[Len(marks) + 1] = Mark
    BY EntersMarks
  <1>5. Typed'
    <2>1. IsStack' /\ state' \in Position /\ last' \in Nat /\ marks' \in Seq(MarkSet)
      BY <1>1, <1>2, <1>4 DEF Typed
    <2>2. ASSUME NEW i \in 1..Len(stack')
          PROVE  /\ stack'[i].start \in Position /\ stack'[i].from \in Position
                 /\ stack'[i].j \in Nat /\ stack'[i].at \in Nat
      <3>1. CASE i = n + 1
        BY <1>1, <1>3, <1>4, <3>1 DEF Typed
      <3>2. CASE i \in 1..n
        BY <1>1, <3>2 DEF Typed
      <3> QED BY <1>1, <3>1, <3>2
    <2> QED BY <2>1, <2>2 DEF Typed, MarkSet
  <1>6. Top' = Frame /\ (n > 0 => Top = stack[n]) /\ (n = 0 => stack = <<>>)
    BY <1>1 DEF Top, Typed, IsStack
  <1>7. state = IF n = 0 THEN NewState ELSE stack[n].from
    BY <1>1, <1>2, <1>6 DEF Chained, Here
  <1>8. Chained'
    <2>1. \A i \in 1..n : stack'[i] = stack[i] /\ (i > 1 => stack'[i - 1] = stack[i - 1])
      BY <1>1
    <2>2. \A i \in 1..n : stack'[i].start = IF i = 1 THEN NewState ELSE stack'[i - 1].from
      BY <1>1, <2>1 DEF Chained
    <2>3. stack'[n + 1].start = IF n + 1 = 1 THEN NewState ELSE stack'[n].from
      BY <1>1, <1>3, <1>7
    <2>4. state' = Here'
      BY <1>1, <1>2, <1>3, <1>6 DEF Here
    <2>5. \A i \in 1..(n + 1) :
            \/ stack'[i].p.type = "AND"
            \/ stack'[i].p.type = "MANY1" /\ stack'[i].j # 0
            \/ stack'[i].from = stack'[i].start
      BY <1>1, <1>3, <2>1 DEF Chained
    <2> QED BY <1>1, <2>2, <2>3, <2>4, <2>5 DEF Chained
  <1>9. MarksKept'
    <2>1. Len(marks') = MarkHeight(Top')
      BY <1>3, <1>4, <1>6 DEF MarkHeight
    <2>2. \A i \in 1..n : MarkHeight(stack[i]) <= Len(marks)
      <3>1. n > 0 => Len(marks) = stack[n].at + AndOf(stack[n])
        BY <1>1, <1>6 DEF MarksKept, MarkHeight
      <3>2. \A i \in 1..n : i < n => MarkHeight(stack[i]) <= stack[n].at
        BY <1>1 DEF MarksKept
      <3>3. n > 0 => stack[n].at \in Nat /\ AndOf(stack[n]) \in {0, 1}
        BY <1>1 DEF Typed, AndOf
      <3>4. \A i \in 1..n : MarkHeight(stack[i]) \in Nat
        BY <1>1 DEF Typed, MarkHeight, AndOf
      <3> QED BY <1>1, <1>4, <3>1, <3>2, <3>3, <3>4 DEF MarkHeight
    <2>3. ASSUME NEW i \in 1..(n + 1), NEW k \in 1..(n + 1), i < k
          PROVE  MarkHeight(stack'[i]) <= stack'[k].at
      <3>1. i \in 1..n /\ MarkHeight(stack'[i]) = MarkHeight(stack[i])
        BY <1>1, <2>3
      <3>2. CASE k \in 1..n
        BY <1>1, <2>3, <3>1, <3>2 DEF MarksKept
      <3>3. CASE k = n + 1
        BY <1>1, <1>3, <2>2, <3>1, <3>3
      <3> QED BY <1>1, <3>2, <3>3
    <2>4. \A i \in 1..n : stack[i].p.type = "AND" => stack[i].at + 1 \in 1..Len(marks)
      BY <1>1, <1>4, <2>2 DEF Typed, MarkHeight, AndOf
    <2>5. \A i \in 1..(n + 1) :
            stack'[i].p.type = "AND" => marks'[stack'[i].at + 1].state = stack'[i].start
      <3> SUFFICES ASSUME NEW i \in 1..(n + 1), stack'[i].p.type = "AND"
                   PROVE  marks'[stack'[i].at + 1].state = stack'[i].start
        OBVIOUS
      <3>1. CASE i \in 1..n
        BY <1>1, <1>4, <2>4, <3>1 DEF MarksKept
      <3>2. CASE i = n + 1
        <4>1. stack'[i] = Frame
          BY <1>1, <3>2
        <4>2. ctl.p.type = "AND" /\ stack'[i].at = Len(marks) /\ stack'[i].start = state
          BY <1>3, <4>1
        <4>3. marks'[stack'[i].at + 1] = Mark /\ Mark.state = state
          BY <1>4, <4>2 DEF Mark
        <4> QED BY <4>2, <4>3
      <3> QED BY <1>1, <3>1, <3>2
    <2>6. \A i \in 1..(n + 1) : stack'[i].at = IF i = 1 THEN 0 ELSE MarkHeight(stack'[i - 1])
      <3>1. \A i \in 1..n : stack'[i] = stack[i] /\ (i > 1 => stack'[i - 1] = stack[i - 1])
        BY <1>1
      <3>2. \A i \in 1..n : stack'[i].at = IF i = 1 THEN 0 ELSE MarkHeight(stack'[i - 1])
        BY <3>1 DEF MarksKept
      <3>3. Len(marks) = IF n = 0 THEN 0 ELSE MarkHeight(stack'[n])
        BY <1>1, <1>6 DEF MarksKept
      <3> QED BY <1>1, <1>3, <3>2, <3>3
    <2> QED BY <1>1, <2>1, <2>3, <2>5, <2>6 DEF MarksKept
  <1> QED BY <1>5, <1>8, <1>9
LEMMA ContinuesKeeps ==
  ASSUME Typed, Chained, MarksKept, Continues
  PROVE  (Typed /\ Chained /\ MarksKept)'
  <1> DEFINE n == Len(stack)
  <1>1. /\ IsStack' /\ stack' # <<>> /\ n \in Nat \ {0} /\ Len(stack') = n
        /\ \A i \in 1..(n - 1) : stack'[i] = stack[i]
        /\ \E xs : stack'[n] = NextFrame(xs)
    BY ContinuesStack DEF Typed
  <1>2. Top' = stack'[n] /\ Top = stack[n] /\ stack # <<>> /\ n \in 1..n
    BY <1>1 DEF Top, Continues
  <1>3. /\ Top'.p = Top.p /\ Top'.j = Top.j + 1 /\ Top'.start = Top.start
        /\ Top'.from = state /\ Top'.at = Top.at
    BY <1>1, <1>2 DEF NextFrame
  <1>4. UNCHANGED <<state, last, marks>> /\ ctl.op # "call" /\ ctl'.op = "call"
    BY DEF Continues
  <1>5. \A i \in 1..n : i = n \/ (i \in 1..(n - 1) /\ stack'[i] = stack[i])
    BY <1>1
  <1>6. \A i \in 1..n : i # 1 => i - 1 \in 1..(n - 1) /\ stack'[i - 1] = stack[i - 1]
    BY <1>1
  <1>7. Typed'
    BY <1>1, <1>2, <1>3, <1>4, <1>5 DEF Typed
  <1>8. Chained'
    <2>1. \A i \in 1..n : stack'[i].start = IF i = 1 THEN NewState ELSE stack'[i - 1].from
      BY <1>2, <1>3, <1>5, <1>6 DEF Chained
    <2>2. \A i \in 1..(n - 1) :
            \/ stack'[i].p.type = "AND"
            \/ stack'[i].p.type = "MANY1" /\ stack'[i].j # 0
            \/ stack'[i].from = stack'[i].start
      BY <1>1 DEF Chained
    <2>3. \/ Top'.p.type = "AND"
          \/ Top'.p.type = "MANY1" /\ Top'.j # 0
          \/ Top'.from = Top'.start
      <3>1. CASE Top.p.type \in {"MANY1", "AND"}
        <4>1. Top.j \in Nat
          BY <1>1, <1>2 DEF Typed
        <4> QED BY <1>3, <3>1, <4>1
      <3>2. CASE Top.p.type = "OR" /\ Failed
        <4>1. state = Top.from
          BY <1>2, <3>2 DEF Chained, Here, Failed
        <4>2. Top.from = Top.start
          BY <1>1, <1>2, <3>2 DEF Chained
        <4> QED BY <1>3, <4>1, <4>2
      <3> QED BY <3>1, <3>2 DEF Continues
    <2>4. state' = Here'
      BY <1>1, <1>3, <1>4 DEF Here
    <2> QED BY <1>1, <1>2, <1>5, <2>1, <2>2, <2>3, <2>4 DEF Chained
  <1>9. MarksKept'
    <2>1. \A i \in 1..n : /\ stack'[i].at = stack[i].at /\ stack'[i].start = stack[i].start
                          /\ stack'[i].p = stack[i].p
      BY <1>2, <1>3, <1>5
    <2>2. \A i \in 1..n : MarkHeight(stack'[i]) = MarkHeight(stack[i])
      BY <2>1 DEF MarkHeight, AndOf
    <2>3. MarkHeight(Top') = MarkHeight(Top)
      BY <1>3 DEF MarkHeight, AndOf
    <2>4. \A i \in 1..n : stack'[i].at = IF i = 1 THEN 0 ELSE MarkHeight(stack'[i - 1])
      BY <1>6, <2>1 DEF MarksKept
    <2> QED BY <1>1, <1>2, <1>4, <2>1, <2>2, <2>3, <2>4 DEF MarksKept
  <1> QED BY <1>7, <1>8, <1>9

LEMMA ExitsKeeps ==
  ASSUME Typed, Chained, MarksKept, Exits
  PROVE  (Typed /\ Chained /\ MarksKept)'
  <1> DEFINE n == Len(stack)
  <1>1. /\ IsStack' /\ n \in Nat \ {0} /\ Len(stack') = n - 1
        /\ \A i \in 1..(n - 1) : stack'[i] = stack[i]
        /\ stack' # <<>> => n > 1
    BY ExitsStack DEF Typed
  <1>2. Top = stack[n] /\ stack # <<>> /\ n \in 1..n
    BY <1>1 DEF Top, Exits
  <1>3. stack' # <<>> => Top' = stack[n - 1] /\ n - 1 \in 1..n /\ n # 1
    BY <1>1 DEF Top
  <1>4. stack' = <<>> => n = 1
    BY <1>1
  <1>5. /\ marks' \in Seq(MarkSet) /\ Len(marks) \in Nat /\ Len(marks') = Top.at
        /\ \A m \in 1..Top.at : marks'[m] = marks[m]
        /\ Top.p.type = "AND" => /\ marks[Len(marks)] \in MarkSet
                                 /\ marks[Len(marks)].state = Top.start
    BY ExitsMarks
  <1>6. /\ state' \in Position /\ last' \in Nat
        /\ ctl'.op = "fail" => state' = Top.start
    <2>1. CASE Top.p.type = "AND" /\ Failed
      BY <1>5, <2>1 DEF Exits, Rewound, MarkSet
    <2>2. CASE ~(Top.p.type = "AND" /\ Failed)
      <3>1. state' = state /\ last' = last
        BY <2>2 DEF Exits, Peeks
      <3>2. ASSUME ctl'.op = "fail" PROVE state = Top.start
        <4>1. Failed /\ Top.p.type # "AND" /\ (Top.p.type = "MANY1" => Top.j = 0)
          BY <2>2, <3>2 DEF Exits
        <4>2. state = Top.from
          BY <1>2, <4>1 DEF Chained, Here, Failed
        <4> QED BY <1>2, <4>1, <4>2 DEF Chained
      <3> QED BY <3>1, <3>2 DEF Typed
    <2> QED BY <2>1, <2>2
  <1>7. \A i \in 1..(n - 1) : /\ i \in 1..n /\ stack'[i] = stack[i]
                              /\ (i # 1 => i - 1 \in 1..(n - 1) /\ stack'[i - 1] = stack[i - 1])
    BY <1>1
  <1>8. Typed'
    BY <1>1, <1>5, <1>6, <1>7 DEF Typed, MarkSet
  <1>9. Chained'
    <2>1. \A i \in 1..(n - 1) : stack'[i].start = IF i = 1 THEN NewState ELSE stack'[i - 1].from
      BY <1>7 DEF Chained
    <2>2. \A i \in 1..(n - 1) :
            \/ stack'[i].p.type = "AND"
            \/ stack'[i].p.type = "MANY1" /\ stack'[i].j # 0
            \/ stack'[i].from = stack'[i].start
      BY <1>7 DEF Chained
    <2>3. Top.start = Here'
      BY <1>2, <1>3, <1>4 DEF Chained, Here
    <2>4. ctl'.op = "call" \/ ctl'.op = "fail" => state' = Here'
      BY <1>6, <2>3 DEF Exits
    <2> QED BY <1>1, <2>1, <2>2, <2>4 DEF Chained
  <1>10. MarksKept'
    <2>1. Top.at = IF n = 1 THEN 0 ELSE MarkHeight(stack[n - 1])
      BY <1>2 DEF MarksKept
    <2>2. Len(marks') = IF stack' = <<>> THEN 0 ELSE MarkHeight(Top')
      BY <1>3, <1>4, <1>5, <2>1 DEF MarkHeight, AndOf
    <2>3. \A i \in 1..(n - 1) : stack'[i].at = IF i = 1 THEN 0 ELSE MarkHeight(stack'[i - 1])
      BY <1>7 DEF MarksKept
    <2>4. \A i, k \in 1..(n - 1) : i < k => MarkHeight(stack'[i]) <= stack'[k].at
      BY <1>7 DEF MarksKept
    <2>5. ASSUME NEW i \in 1..(n - 1), stack'[i].p.type = "AND"
          PROVE  marks'[stack'[i].at + 1].state = stack'[i].start
      <3>1. i < n /\ i \in 1..n /\ stack'[i] = stack[i]
        BY <1>1, <1>7
      <3>2. stack[i].at + 1 <= Top.at /\ stack[i].at \in Nat /\ Top.at \in Nat
        BY <1>2, <2>5, <3>1 DEF MarksKept, Typed, MarkHeight, AndOf
      <3>3. marks'[stack[i].at + 1] = marks[stack[i].at + 1]
        BY <1>5, <3>2
      <3> QED BY <2>5, <3>1, <3>3 DEF MarksKept
    <2> QED BY <1>1, <2>2, <2>3, <2>4, <2>5 DEF MarksKept
  <1> QED BY <1>8, <1>9, <1>10

LEMMA RunsKeeps ==
  ASSUME Typed, Chained, MarksKept, Runs, text \in Seq(Nat), fpos \in Nat
  PROVE  (Typed /\ Chained /\ MarksKept)'
  <1>1. UNCHANGED <<stack, marks>> /\ ctl.op = "call"
    BY DEF Runs
  <1>2. /\ state' \in Position /\ last' \in Nat
        /\ ctl'.op = "fail" => state' = state
    <2>1. CASE Peeks
      BY <2>1 DEF Peeks, Typed
    <2>2. CASE Takes
      <3>1. text[fpos + 1] \in Nat
        BY <2>2 DEF Takes
      <3>2. Advanced(state, text[fpos + 1]) \in Position
        BY DEF Typed, Advanced, Position
      <3> QED BY <2>2, <3>1, <3>2 DEF Takes
    <2> QED BY <2>1, <2>2 DEF Runs
  <1>3. Typed'
    BY <1>1, <1>2 DEF Typed, IsStack
  <1>4. Chained'
    BY <1>1, <1>2 DEF Chained, Here, Top, Runs
  <1>5. MarksKept'
    BY <1>1 DEF MarksKept, Top, MarkHeight, AndOf
  <1> QED BY <1>3, <1>4, <1>5
-----------------------------------------------------------------------------
(* The running parsers of one type: pushing and popping a frame adds or     *)
(* takes away at most one of them.                                          *)
Counted ==
  /\ Len(marks) = Cardinality(FramesOf("AND"))
  /\ suppress = Cardinality(FramesOf("EXPECT"))

LEMMA FramesAreFinite ==
  ASSUME IsStack, NEW t
  PROVE  /\ FramesOf(t) = {i \in 1..Len(stack) : stack[i].p.type = t}
         /\ IsFiniteSet(FramesOf(t)) /\ Cardinality(FramesOf(t)) \in Nat
  <1>1. DOMAIN stack = 1..Len(stack) /\ Len(stack) \in Nat
    BY DEF IsStack
  <1>2. FramesOf(t) = {i \in 1..Len(stack) : stack[i].p.type = t}
    BY <1>1 DEF FramesOf
  <1>3. IsFiniteSet(1..Len(stack))
    BY <1>1, FS_Interval
  <1>4. IsFiniteSet(FramesOf(t))
    BY <1>2, <1>3, FS_Subset
  <1> QED BY <1>2, <1>4, FS_CardinalityType

LEMMA EntersFrames ==
  ASSUME IsStack, Enters, NEW t
  PROVE  Cardinality(FramesOf(t)') = Cardinality(FramesOf(t)) + (IF ctl.p.type = t THEN 1 ELSE 0)
  <1> DEFINE n == Len(stack)
  <1>1. /\ IsStack' /\ n \in Nat /\ Len(stack') = n + 1
        /\ \A i \in 1..n : stack'[i] = stack[i]
        /\ stack'[n + 1].p = ctl.p
    BY EntersStack DEF Frame
  <1>2. /\ FramesOf(t) = {i \in 1..n : stack[i].p.type = t}
        /\ IsFiniteSet(FramesOf(t)) /\ Cardinality(FramesOf(t)) \in Nat
    BY FramesAreFinite
  <1>3. DOMAIN stack' = 1..Len(stack')
    BY <1>1 DEF IsStack
  <1>4. FramesOf(t)' = {i \in 1..(n + 1) : stack'[i].p.type = t}
    BY <1>1, <1>3 DEF FramesOf
  <1>5. CASE ctl.p.type = t
    <2>1. FramesOf(t)' = FramesOf(t) \cup {n + 1} /\ n + 1 \notin FramesOf(t)
      BY <1>1, <1>2, <1>4, <1>5
    <2> QED BY <1>2, <1>5, <2>1, FS_AddElement
  <1>6. CASE ctl.p.type # t
    <2>1. FramesOf(t)' = FramesOf(t)
      BY <1>1, <1>2, <1>4, <1>6
    <2> QED BY <1>2, <1>6, <2>1
  <1> QED BY <1>5, <1>6

LEMMA ContinuesFrames ==
  ASSUME IsStack, Continues, NEW t
  PROVE  FramesOf(t)' = FramesOf(t)
  <1> DEFINE n == Len(stack)
  <1>1. /\ IsStack' /\ n \in Nat \ {0} /\ Len(stack') = n
        /\ \A i \in 1..(n - 1) : stack'[i] = stack[i]
        /\ \E xs : stack'[n] = NextFrame(xs)
    BY ContinuesStack
  <1>2. DOMAIN stack' = 1..n /\ DOMAIN stack = 1..n
    BY <1>1 DEF IsStack
  <1>3. \A i \in 1..n : stack'[i].p = stack[i].p
    <2>1. \A i \in 1..n : i = n \/ i \in 1..(n - 1)
      BY <1>1
    <2>2. stack'[n].p = stack[n].p
      BY <1>1 DEF NextFrame, Top
    <2> QED BY <1>1, <2>1, <2>2
  <1> QED BY <1>2, <1>3 DEF FramesOf

LEMMA ExitsFrames ==
  ASSUME IsStack, Exits, NEW t
  PROVE  Cardinality(FramesOf(t)') = Cardinality(FramesOf(t)) - (IF Top.p.type = t THEN 1 ELSE 0)
  <1> DEFINE n == Len(stack)
  <1>1. /\ IsStack' /\ n \in Nat \ {0} /\ Len(stack') = n - 1
        /\ \A i \in 1..(n - 1) : stack'[i] = stack[i]
        /\ Top = stack[n]
    BY ExitsStack DEF Top
  <1>2. /\ FramesOf(t) = {i \in 1..n : stack[i].p.type = t}
        /\ IsFiniteSet(FramesOf(t)) /\ Cardinality(FramesOf(t)) \in Nat
    BY FramesAreFinite
  <1>3. DOMAIN stack' = 1..Len(stack')
    BY <1>1 DEF IsStack
  <1>4. FramesOf(t)' = {i \in 1..(n - 1) : stack'[i].p.type = t}
    BY <1>1, <1>3 DEF FramesOf
  <1>5. \A i : i \in 1..(n - 1) <=> i \in 1..n /\ i # n
    BY <1>1
  <1>6. CASE Top.p.type = t
    <2>1. FramesOf(t)' = FramesOf(t) \ {n} /\ n \in FramesOf(t)
      BY <1>1, <1>2, <1>4, <1>5, <1>6
    <2> QED BY <1>2, <1>6, <2>1, FS_RemoveElement
  <1>7. CASE Top.p.type # t
    <2>1. FramesOf(t)' = FramesOf(t)
      BY <1>1, <1>2, <1>4, <1>5, <1>7
    <2> QED BY <1>2, <1>7, <2>1
  <1> QED BY <1>6, <1>7

LEMMA CountedKept ==
  ASSUME Typed, MarksKept, Counted, Runs \/ Enters \/ Continues \/ Exits
  PROVE  Counted'
  <1>1. IsStack /\ marks \in Seq(MarkSet) /\ Len(marks) \in Nat
    BY DEF Typed, MarkSet
  <1>2. Cardinality(FramesOf("AND")) \in Nat /\ Cardinality(FramesOf("EXPECT")) \in Nat
    BY <1>1, FramesAreFinite
  <1>3. CASE Runs
    BY <1>3 DEF Runs, Counted, FramesOf
  <1>4. CASE Enters
    <2>1. /\ Cardinality(FramesOf("AND")')
               = Cardinality(FramesOf("AND")) + (IF ctl.p.type = "AND" THEN 1 ELSE 0)
          /\ Cardinality(FramesOf("EXPECT")')
               = Cardinality(FramesOf("EXPECT")) + (IF ctl.p.type = "EXPECT" THEN 1 ELSE 0)
      BY <1>1, <1>4, EntersFrames
    <2>2. Len(marks') = Len(marks) + (IF ctl.p.type = "AND" THEN 1 ELSE 0)
      BY <1>4, EntersMarks DEF AndOf, Frame
    <2>3. suppress' = suppress + (IF ctl.p.type = "EXPECT" THEN 1 ELSE 0)
      BY <1>2, <1>4 DEF Enters, Counted
    <2> QED BY <2>1, <2>2, <2>3 DEF Counted
  <1>5. CASE Continues
    <2>1. FramesOf("AND")' = FramesOf("AND") /\ FramesOf("EXPECT")' = FramesOf("EXPECT")
      BY <1>1, <1>5, ContinuesFrames
    <2> QED BY <1>5, <2>1 DEF Continues, Counted
  <1>6. CASE Exits
    <2>1. /\ Cardinality(FramesOf("AND")')
               = Cardinality(FramesOf("AND")) - (IF Top.p.type = "AND" THEN 1 ELSE 0)
          /\ Cardinality(FramesOf("EXPECT")')
               = Cardinality(FramesOf("EXPECT")) - (IF Top.p.type = "EXPECT" THEN 1 ELSE 0)
      BY <1>1, <1>6, ExitsFrames
    <2>2. Len(marks) = MarkHeight(Top) /\ Len(marks') = Top.at /\ Top.at \in Nat
      BY <1>6, ExitsMarks DEF MarksKept, Exits
    <2>3. Len(marks') = Len(marks) - (IF Top.p.type = "AND" THEN 1 ELSE 0)
      BY <2>2 DEF MarkHeight, AndOf
    <2>4. suppress' = suppress - (IF Top.p.type = "EXPECT" THEN 1 ELSE 0)
      BY <1>2, <1>6 DEF Exits, Counted
    <2> QED BY <2>1, <2>3, <2>4 DEF Counted
  <1> QED BY <1>3, <1>4, <1>5, <1>6

-----------------------------------------------------------------------------
(***************************************************************************)
(* The places a mark may keep, with the character before them.  The        *)
(* position is at one of them, where the stream is, and so is every mark.  *)
(***************************************************************************)
Before(s) == IF s.pos = 0 THEN NUL ELSE text[s.pos]

Places == {m \in MarkSet : IsPlace(m.state) /\ m.last = Before(m.state)}

Placed ==
  /\ text \in Seq(Nat) /\ eof \in BOOLEAN
  /\ Mark \in Places /\ fpos = state.pos
  /\ eof => fpos = Len(text)
  /\ marks \in Seq(Places)

(* The place after one more character.                                      *)
LEMMA NextPlace ==
  ASSUME text \in Seq(Nat), NEW s \in Position, IsPlace(s), s.pos < Len(text)
  PROVE  LET t == Advanced(s, text[s.pos + 1])
         IN  /\ IsPlace(t) /\ t.pos = s.pos + 1
  <1> DEFINE k == s.pos
             c == text[k + 1]
             t == Advanced(s, c)
             Lines(p) == {i \in 1..p : text[i] = NEWLINE}
  <1>1. k \in Nat /\ Len(text) \in Nat /\ s.row \in Nat /\ s.col \in 0..k
    BY DEF Position, IsPlace
  <1>2. IsFiniteSet(Lines(k)) /\ Cardinality(Lines(k)) \in Nat /\ s.row = Cardinality(Lines(k))
    <2>1. IsFiniteSet(1..k)
      <3>1. 1 \in Int /\ k \in Int
        BY <1>1
      <3> QED BY <3>1, FS_Interval
    <2>2. IsFiniteSet(Lines(k))
      BY <2>1, FS_Subset
    <2> QED BY <2>2, FS_CardinalityType DEF IsPlace
  <1>3. CASE c = NEWLINE
    <2>1. Lines(k + 1) = Lines(k) \cup {k + 1} /\ k + 1 \notin Lines(k)
      BY <1>1, <1>3
    <2>2. Cardinality(Lines(k + 1)) = s.row + 1
      BY <1>2, <2>1, FS_AddElement
    <2>3. t.pos = k + 1 /\ t.row = s.row + 1 /\ t.col = 0
      BY <1>3 DEF Advanced
    <2> QED BY <1>1, <1>3, <2>2, <2>3 DEF IsPlace
  <1>4. CASE c # NEWLINE
    <2>1. Lines(k + 1) = Lines(k)
      BY <1>1, <1>4
    <2>2. t.pos = k + 1 /\ t.row = s.row /\ t.col = s.col + 1
      BY <1>4 DEF Advanced
    <2>3. (k + 1) - (s.col + 1) = k - s.col
      BY <1>1
    <2>4. \A i \in (k - s.col + 1)..(k + 1) : text[i] # NEWLINE
      BY <1>1, <1>4 DEF IsPlace
    <2>5. t.col # t.pos => text[t.pos - t.col] = NEWLINE
      BY <1>1, <2>2, <2>3 DEF IsPlace
    <2>6. t.row = Cardinality({i \in 1..t.pos : text[i] = NEWLINE})
      BY <1>2, <2>1, <2>2
    <2>7. \A i \in (t.pos - t.col + 1)..t.pos : text[i] # NEWLINE
      BY <2>2, <2>3, <2>4
    <2>8. t.pos \in 0..Len(text) /\ t.col \in 0..t.pos
      BY <1>1, <2>2
    <2> QED BY <2>2, <2>5, <2>6, <2>7, <2>8 DEF IsPlace
  <1> QED BY <1>3, <1>4

LEMMA TakesPlace ==
  ASSUME Placed, Takes, text' = text
  PROVE  Mark' \in Places /\ fpos' = state'.pos
  <1>1. /\ state \in Position /\ IsPlace(state) /\ fpos = state.pos
        /\ text \in Seq(Nat) /\ fpos \in Nat /\ state.pos < Len(text)
    BY DEF Placed, Places, Mark, MarkSet, Takes, Position
  <1>2. /\ state' = Advanced(state, text[state.pos + 1])
        /\ last' = text[state.pos + 1] /\ fpos' = state.pos + 1
    BY <1>1 DEF Takes
  <1>3. IsPlace(state') /\ state'.pos = state.pos + 1
    BY <1>1, <1>2, NextPlace
  <1>4. last' \in Nat /\ state' \in Position
    BY <1>1, <1>2 DEF Advanced, Position
  <1>5. last' = Before(state')
    BY <1>1, <1>2, <1>3 DEF Before
  <1> QED BY <1>2, <1>3, <1>4, <1>5 DEF Places, Mark, MarkSet

LEMMA PlacedKept ==
  ASSUME Placed, Runs \/ Enters \/ Continues \/ Exits, text' = text, MarksKept, Typed
  PROVE  Placed'
  <1>1. Places' = Places
    BY DEF Places, MarkSet, IsPlace, Before, Position
  <1>2. fpos \in Nat /\ Len(text) \in Nat
    BY DEF Placed, Places, Mark, MarkSet, Position
  <1>3. ASSUME UNCHANGED <<state, last, fpos>> PROVE Mark' \in Places /\ fpos' = state'.pos
    BY <1>3 DEF Placed, Mark
  <1>4. ASSUME Peeks PROVE eof' \in BOOLEAN /\ (eof' => fpos' = Len(text))
    <2>1. eof' = eof \/ eof' = AtEnd
      BY <1>4 DEF Peeks
    <2>2. fpos' = fpos /\ text' = text
      BY <1>4 DEF Peeks
    <2>3. CASE eof' = eof
      BY <2>2, <2>3 DEF Placed
    <2>4. CASE eof' = AtEnd
      <3>1. CASE AtEnd
        <4>1. eof' = TRUE
          BY <2>4, <3>1, Zenon DEF AtEnd
        <4>2. fpos = Len(text)
          BY <1>2, <3>1 DEF AtEnd, Placed, Places, Mark, MarkSet, IsPlace
        <4> QED BY <2>2, <4>1, <4>2
      <3>2. CASE ~AtEnd
        <4>1. eof' = FALSE
          BY <2>4, <3>2, Zenon DEF AtEnd
        <4> QED BY <4>1
      <3> QED BY <3>1, <3>2
    <2> QED BY <2>1, <2>3, <2>4
  <1>5. CASE Runs
    <2>1. Mark' \in Places /\ fpos' = state'.pos
      BY <1>3, <1>5, TakesPlace DEF Runs, Peeks
    <2>2. CASE Takes
      <3>1. eof' = FALSE
        BY <1>2, <2>2 DEF Takes, Placed
      <3> QED BY <1>1, <1>5, <2>1, <3>1 DEF Placed, Runs
    <2>3. CASE Peeks
      BY <1>1, <1>4, <1>5, <2>1, <2>3 DEF Placed, Runs
    <2> QED BY <1>5, <2>2, <2>3 DEF Runs
  <1>6. CASE Enters
    <2>1. UNCHANGED <<state, last, fpos, eof>>
      BY <1>6 DEF Enters
    <2>2. marks' \in Seq(Places)
      BY <1>6 DEF Enters, Placed
    <2> QED BY <1>1, <1>3, <2>1, <2>2 DEF Placed
  <1>7. CASE Continues
    BY <1>1, <1>3, <1>7 DEF Continues, Placed
  <1>8. CASE Exits
    <2>1. CASE Top.p.type = "AND"
      <3>1. marks # <<>>
        <4>1. Len(marks) = Top.at + 1 /\ Top.at \in Nat
          BY <1>8, <2>1, ExitsMarks, ExitsStack DEF Typed, Top
        <4> QED BY <4>1
      <3>2. marks' = SubSeq(marks, 1, Len(marks) - 1) /\ marks \in Seq(Places)
        BY <1>8, <2>1 DEF Exits, Unmarked, Placed
      <3>3. marks' \in Seq(Places) /\ marks[Len(marks)] \in Places
        BY <3>1, <3>2, PoppedOff
      <3>4. CASE Failed
        <4>1. Rewound
          BY <1>8, <2>1, <3>4 DEF Exits
        <4>2. Mark' = marks[Len(marks)]
          BY <3>3, <4>1 DEF Rewound, Mark, Places, MarkSet
        <4> QED BY <1>1, <3>3, <4>1, <4>2 DEF Placed, Rewound
      <3>5. CASE ~Failed
        <4>1. Peeks
          BY <1>8, <2>1, <3>5 DEF Exits
        <4>2. Mark' \in Places /\ fpos' = state'.pos
          BY <1>3, <4>1 DEF Peeks
        <4> QED BY <1>1, <1>4, <3>3, <4>1, <4>2 DEF Placed
      <3> QED BY <3>4, <3>5
    <2>2. CASE Top.p.type # "AND"
      <3>1. Peeks /\ marks' = marks
        BY <1>8, <2>2 DEF Exits
      <3>2. Mark' \in Places /\ fpos' = state'.pos
        BY <1>3, <3>1 DEF Peeks
      <3> QED BY <1>1, <1>4, <3>1, <3>2 DEF Placed
    <2> QED BY <2>1, <2>2
  <1> QED BY <1>5, <1>6, <1>7, <1>8

-----------------------------------------------------------------------------
(* The inductive invariant.                                                 *)
MpcInv == text \in Texts /\ Typed /\ Chained /\ MarksKept /\ Counted /\ Placed

LEMMA MpcInvInit == MpcInit => MpcInv
  <1> SUFFICES ASSUME MpcInit PROVE MpcInv
    OBVIOUS
  <1>1. /\ text \in Seq(Nat) /\ text \in Texts /\ fpos = 0 /\ eof = FALSE
        /\ state = NewState /\ last = NUL /\ marks = <<>> /\ suppress = 0 /\ stack = <<>>
    BY MpcAssumption DEF MpcInit
  <1>2. Len(text) \in Nat /\ NewState \in Position /\ NUL \in Nat
    BY <1>1 DEF NewState, Position, NUL
  <1>3. \A t : FramesOf(t) = {}
    BY <1>1 DEF FramesOf
  <1>4. IsStack
    BY <1>1 DEF IsStack
  <1>5. Typed /\ Chained /\ MarksKept
    BY <1>1, <1>2, <1>4 DEF Typed, Chained, MarksKept, Here
  <1>6. Counted
    BY <1>1, <1>3, FS_EmptySet DEF Counted
  <1>7. IsPlace(NewState)
    <2>1. {i \in 1..0 : text[i] = NEWLINE} = {}
      OBVIOUS
    <2> QED BY <1>2, <2>1, FS_EmptySet DEF IsPlace, NewState
  <1>8. Placed
    <2>1. Mark = [state |-> NewState, last |-> NUL] /\ state.pos = 0
      BY <1>1 DEF Mark, NewState
    <2>2. Mark \in MarkSet /\ Mark.state = NewState /\ Mark.last = NUL
      BY <1>2, <2>1 DEF MarkSet
    <2>3. Before(NewState) = NUL
      BY DEF Before, NewState
    <2>4. Mark \in Places
      BY <1>7, <2>2, <2>3 DEF Places
    <2>5. marks \in Seq(Places)
      BY <1>1
    <2>6. eof \in BOOLEAN /\ (eof => fpos = Len(text)) /\ fpos = state.pos
      BY <1>1, <2>1
    <2> QED BY <1>1, <2>4, <2>5, <2>6 DEF Placed
  <1> QED BY <1>1, <1>5, <1>6, <1>8 DEF MpcInv

LEMMA MpcInvStep == MpcInv /\ [MpcNext]_mpcVars => MpcInv'
  <1> SUFFICES ASSUME MpcInv, [MpcNext]_mpcVars PROVE MpcInv'
    OBVIOUS
  <1>1. text \in Seq(Nat) /\ fpos \in Nat
    BY DEF MpcInv, Placed, Places, Mark, MarkSet, Position
  <1>2. CASE MpcNext
    <2>1. (Runs \/ Enters \/ Continues \/ Exits) /\ text' = text
      BY <1>1, <1>2, Kinds
    <2>2. (Typed /\ Chained /\ MarksKept)'
      BY <1>1, <2>1, RunsKeeps, EntersKeeps, ContinuesKeeps, ExitsKeeps DEF MpcInv
    <2>3. Counted'
      BY <2>1, CountedKept DEF MpcInv
    <2>4. Placed'
      BY <2>1, PlacedKept DEF MpcInv
    <2> QED BY <2>1, <2>2, <2>3, <2>4 DEF MpcInv
  <1>3. CASE UNCHANGED mpcVars
    <2>1. /\ UNCHANGED <<text, fpos, eof, state, last, marks>>
          /\ UNCHANGED <<suppress, ctl, stack>>
      BY <1>3 DEF mpcVars, stream, input
    <2>2. Typed' /\ Chained'
      BY <2>1 DEF MpcInv, Typed, Chained, IsStack, Here, Top
    <2>3. MarksKept'
      BY <2>1 DEF MpcInv, MarksKept, Top, MarkHeight, AndOf
    <2>4. Counted'
      BY <2>1 DEF MpcInv, Counted, FramesOf
    <2>5. Places' = Places /\ Mark' = Mark
      BY <2>1 DEF Places, MarkSet, IsPlace, Before, Position, Mark
    <2>6. Placed'
      BY <2>1, <2>5 DEF MpcInv, Placed
    <2> QED BY <2>1, <2>2, <2>3, <2>4, <2>6 DEF MpcInv
  <1> QED BY <1>2, <1>3

LEMMA MpcAlways == MpcSpec => []MpcInv
  BY MpcInvInit, MpcInvStep, PTL DEF MpcSpec

-----------------------------------------------------------------------------
(***************************************************************************)
(* The variables of a parse keep to their ranges, whatever the parsers.    *)
(***************************************************************************)
THEOREM MpcTypeCorrect == MpcSpec => []MpcTypeOK
  <1>1. MpcInv => MpcTypeOK
    <2> SUFFICES ASSUME MpcInv PROVE MpcTypeOK
      OBVIOUS
    <2>1. IsStack /\ DOMAIN stack = 1..Len(stack)
      BY DEF MpcInv, Typed, IsStack
    <2>2. suppress \in Nat
      BY <2>1, FramesAreFinite DEF MpcInv, Counted
    <2>3. fpos \in 0..Len(text) /\ eof \in BOOLEAN
      BY DEF MpcInv, Placed, Places, Mark, IsPlace
    <2> QED BY <2>1, <2>2, <2>3 DEF MpcInv, Typed, MpcTypeOK
  <1> QED BY <1>1, MpcAlways, PTL

(***************************************************************************)
(* A failing parser has put everything it took back, whatever it is made   *)
(* of: the next alternative, or the caller, reads on where it was called.  *)
(***************************************************************************)
THEOREM FailuresConsumeNothing == MpcSpec => []FailureConsumesNothing
  <1>1. MpcInv => FailureConsumesNothing
    BY DEF MpcInv, Chained, Here, FailureConsumesNothing, Failed
  <1> QED BY <1>1, MpcAlways, PTL

(***************************************************************************)
(* Marks and suppressed errors are balanced at any depth of nesting.       *)
(***************************************************************************)
THEOREM NestingStaysBalanced == MpcSpec => []NestingIsBalanced
  <1>1. MpcInv => NestingIsBalanced
    <2> SUFFICES ASSUME MpcInv PROVE NestingIsBalanced
      OBVIOUS
    <2>1. IsStack /\ DOMAIN stack = 1..Len(stack) /\ Len(stack) \in Nat
      BY DEF MpcInv, Typed, IsStack
    <2>2. ASSUME NEW i \in FramesOf("AND")
          PROVE  /\ stack[i].at + 1 \in DOMAIN marks
                 /\ marks[stack[i].at + 1].state = stack[i].start
      <3>1. i \in 1..Len(stack) /\ stack[i].p.type = "AND" /\ stack # <<>>
        BY <2>1 DEF FramesOf
      <3>2. /\ stack[i].at \in Nat /\ Top.at \in Nat /\ AndOf(Top) \in {0, 1}
            /\ MarkHeight(stack[i]) = stack[i].at + 1
        BY <2>1, <3>1 DEF MpcInv, Typed, Top, AndOf, MarkHeight
      <3>3. Len(marks) = Top.at + AndOf(Top) /\ marks \in Seq(MarkSet)
        BY <3>1 DEF MpcInv, MarksKept, Typed, MarkSet, MarkHeight
      <3>4. stack[i].at + 1 <= Len(marks)
        <4>1. CASE i = Len(stack)
          BY <3>1, <3>2, <3>3, <4>1 DEF Top, AndOf
        <4>2. CASE i < Len(stack)
          BY <2>1, <3>1, <3>2, <3>3, <4>2 DEF MpcInv, MarksKept, Top
        <4>3. i = Len(stack) \/ i < Len(stack)
          <5>1. \A n \in Nat : \A m \in 1..n : m = n \/ m < n
            OBVIOUS
          <5> QED BY <2>1, <3>1, <5>1
        <4> QED BY <4>1, <4>2, <4>3
      <3> QED BY <3>1, <3>2, <3>3, <3>4 DEF MpcInv, MarksKept
    <2> QED BY <2>2 DEF MpcInv, Counted, NestingIsBalanced
  <1> QED BY <1>1, MpcAlways, PTL

(***************************************************************************)
(* The position mpc keeps is the stream's, with the row and the column of  *)
(* that place in the file.                                                 *)
(***************************************************************************)
THEOREM StreamStaysInStep == MpcSpec => []StreamInStep
  <1>1. MpcInv => StreamInStep
    BY DEF MpcInv, Placed, Places, Mark, Before, StreamInStep
  <1> QED BY <1>1, MpcAlways, PTL

-----------------------------------------------------------------------------
(***************************************************************************)
(* 2. Trees.                                                               *)
(***************************************************************************)

(* The trees to a height, given those to smaller ones.                      *)
Level(h, f) == [tag : Seq(Names), contents : Seq(Nat), state : Position,
                children : IF h = 0 THEN {<<>>} ELSE Seq(f[h - 1])]

HasLevels(f, n) == \A h \in 0..n : f[h] = Level(h, f)

LEMMA LevelsExist == \A n \in Nat : \E f : HasLevels(f, n)
  <1> DEFINE T == {n \in Nat : \E f : HasLevels(f, n)}
  <1>1. 0 \in T
    <2> DEFINE f == [h \in {0} |-> Level(0, <<>>)]
    <2>1. Level(0, f) = Level(0, <<>>)
      BY DEF Level
    <2>2. f[0] = Level(0, f)
      BY <2>1
    <2>3. HasLevels(f, 0)
      BY <2>2 DEF HasLevels
    <2> QED BY <2>3
  <1>2. ASSUME NEW n \in Nat, n \in T PROVE n + 1 \in T
    <2>1. PICK f : HasLevels(f, n)
      BY <1>2
    <2> DEFINE g == [h \in 0..(n + 1) |-> IF h = n + 1 THEN Level(n + 1, f) ELSE f[h]]
    <2>2. ASSUME NEW h \in 0..(n + 1) PROVE g[h] = Level(h, g)
      <3>1. h # 0 => h - 1 \in 0..n /\ g[h - 1] = f[h - 1]
        OBVIOUS
      <3>2. Level(h, g) = Level(h, f)
        BY <3>1 DEF Level
      <3>3. CASE h = n + 1
        BY <3>2, <3>3
      <3>4. CASE h # n + 1
        BY <2>1, <3>2, <3>4 DEF HasLevels
      <3> QED BY <3>3, <3>4
    <2>3. HasLevels(g, n + 1)
      BY <2>2 DEF HasLevels
    <2> QED BY <2>3
  <1>3. Nat \subseteq T
    BY <1>1, <1>2, SetInduction
  <1> QED BY <1>3

LEMMA LevelsAgree ==
  ASSUME NEW f, NEW g, NEW n \in Nat, NEW k \in Nat, HasLevels(f, n), HasLevels(g, k), n <= k
  PROVE  \A h \in 0..n : f[h] = g[h]
  <1> DEFINE T == {m \in Nat : m <= n => f[m] = g[m]}
  <1>1. 0 \in T
    <2>1. f[0] = Level(0, f) /\ g[0] = Level(0, g)
      BY DEF HasLevels
    <2>2. Level(0, f) = Level(0, g)
      BY DEF Level
    <2> QED BY <2>1, <2>2
  <1>2. ASSUME NEW m \in Nat, m \in T PROVE m + 1 \in T
    <2>1. ASSUME m + 1 <= n PROVE f[m + 1] = g[m + 1]
      <3>1. f[m + 1] = Level(m + 1, f) /\ g[m + 1] = Level(m + 1, g) /\ f[m] = g[m]
        BY <1>2, <2>1 DEF HasLevels
      <3>2. m + 1 # 0 /\ (m + 1) - 1 = m
        OBVIOUS
      <3>3. Level(m + 1, f) = Level(m + 1, g)
        BY <3>1, <3>2 DEF Level
      <3> QED BY <3>1, <3>3
    <2> QED BY <2>1
  <1>3. Nat \subseteq T
    BY <1>1, <1>2, SetInduction
  <1> QED BY <1>3

(* TreesTo is as it is defined.                                             *)
LEMMA TreesToIs == \A h \in Nat : TreesTo[h] = Level(h, TreesTo)
  <1> DEFINE at(n) == CHOOSE f : HasLevels(f, n)
             f == [n \in Nat |-> at(n)[n]]
  <1>1. \A n \in Nat : HasLevels(at(n), n)
    BY LevelsExist
  <1> HIDE DEF at
  <1>2. ASSUME NEW h \in Nat PROVE f[h] = Level(h, f)
    <2>1. f[h] = Level(h, at(h))
      BY <1>1 DEF HasLevels
    <2>2. h # 0 => h - 1 \in Nat /\ f[h - 1] = at(h)[h - 1]
      <3>1. ASSUME h # 0 PROVE at(h - 1)[h - 1] = at(h)[h - 1]
        <4>1. h - 1 \in Nat /\ h - 1 <= h /\ h - 1 \in 0..(h - 1)
          BY <3>1
        <4>2. HasLevels(at(h - 1), h - 1) /\ HasLevels(at(h), h)
          BY <1>1, <4>1
        <4> QED BY <4>1, <4>2, LevelsAgree
      <3> QED BY <3>1
    <2>3. Level(h, at(h)) = Level(h, f)
      BY <2>2 DEF Level
    <2> QED BY <2>1, <2>3
  <1>3. f = [h \in Nat |-> Level(h, f)]
    BY <1>2
  <1> HIDE DEF f
  <1>4. \E g : g = [h \in Nat |-> Level(h, g)]
    BY <1>3
  <1>5. TreesTo = [h \in Nat |-> Level(h, TreesTo)]
    BY <1>4, Zenon DEF TreesTo, Level
  <1> QED BY <1>5

(* What a tree is made of, and that a height is no more than a bound.       *)
LEMMA TreeIs ==
  ASSUME NEW h \in Nat
  PROVE  /\ TreesTo[h] = [tag : Seq(Names), contents : Seq(Nat), state : Position,
                          children : IF h = 0 THEN {<<>>} ELSE Seq(TreesTo[h - 1])]
  BY TreesToIs DEF Level

LEMMA MoreChildren ==
  ASSUME NEW C, NEW D, C \subseteq D
  PROVE  [tag : Seq(Names), contents : Seq(Nat), state : Position, children : C]
           \subseteq [tag : Seq(Names), contents : Seq(Nat), state : Position, children : D]
  OBVIOUS

LEMMA TreesGrow ==
  ASSUME NEW h \in Nat, NEW k \in Nat, h <= k
  PROVE  TreesTo[h] \subseteq TreesTo[k]
  <1> DEFINE T == {n \in Nat : TreesTo[n] \subseteq TreesTo[n + 1]}
             U == {n \in Nat : TreesTo[h] \subseteq TreesTo[h + n]}
  <1>1. 0 \in T
    <2>1. TreesTo[0] = [tag : Seq(Names), contents : Seq(Nat), state : Position, children : {<<>>}]
      BY TreeIs
    <2>2. TreesTo[0 + 1] = [tag : Seq(Names), contents : Seq(Nat), state : Position,
                            children : Seq(TreesTo[0])]
      <3>1. 0 + 1 \in Nat /\ 0 + 1 # 0 /\ (0 + 1) - 1 = 0
        OBVIOUS
      <3> QED BY <3>1, TreeIs
    <2>3. {<<>>} \subseteq Seq(TreesTo[0])
      OBVIOUS
    <2>4. TreesTo[0] \subseteq TreesTo[0 + 1]
      BY <2>1, <2>2, <2>3, MoreChildren
    <2> QED BY <2>4
  <1>2. ASSUME NEW n \in Nat, n \in T PROVE n + 1 \in T
    <2>1. n + 1 \in Nat /\ n + 1 # 0 /\ (n + 1) - 1 = n
      OBVIOUS
    <2>2. (n + 1) + 1 \in Nat /\ (n + 1) + 1 # 0 /\ ((n + 1) + 1) - 1 = n + 1
      OBVIOUS
    <2>3. /\ TreesTo[n + 1] = [tag : Seq(Names), contents : Seq(Nat), state : Position,
                               children : Seq(TreesTo[n])]
          /\ TreesTo[(n + 1) + 1] = [tag : Seq(Names), contents : Seq(Nat), state : Position,
                                     children : Seq(TreesTo[n + 1])]
      BY <2>1, <2>2, TreeIs
    <2>4. \A s \in Seq(TreesTo[n]) : s \in Seq(TreesTo[n + 1])
      BY <1>2, SeqMonotonic
    <2>5. Seq(TreesTo[n]) \subseteq Seq(TreesTo[n + 1])
      BY <2>4
    <2>6. TreesTo[n + 1] \subseteq TreesTo[(n + 1) + 1]
      BY <2>3, <2>5, MoreChildren
    <2> QED BY <2>1, <2>6
  <1>3. Nat \subseteq T
    BY <1>1, <1>2, SetInduction
  <1>4. 0 \in U
    OBVIOUS
  <1>5. ASSUME NEW n \in Nat, n \in U PROVE n + 1 \in U
    <2>1. h + n \in T /\ (h + n) + 1 = h + (n + 1)
      BY <1>3
    <2> QED BY <1>5, <2>1
  <1>6. Nat \subseteq U
    BY <1>4, <1>5, SetInduction
  <1>7. k - h \in Nat /\ h + (k - h) = k
    OBVIOUS
  <1>8. k - h \in U
    BY <1>6, <1>7
  <1> QED BY <1>7, <1>8

LEMMA TreeParts ==
  ASSUME NEW h \in Nat, NEW a \in TreesTo[h]
  PROVE  /\ a.tag \in Seq(Names) /\ a.contents \in Seq(Nat) /\ a.state \in Position
         /\ a = [tag |-> a.tag, contents |-> a.contents, state |-> a.state, children |-> a.children]
         /\ a.children \in Seq(TreesTo[h])
         /\ h > 0 => a.children \in Seq(TreesTo[h - 1])
         /\ h = 0 => a.children = <<>>
         /\ a.children = <<>> => a \in TreesTo[0]
  <1> DEFINE C == IF h = 0 THEN {<<>>} ELSE Seq(TreesTo[h - 1])
  <1>1. TreesTo[h] = [tag : Seq(Names), contents : Seq(Nat), state : Position, children : C]
    BY TreeIs
  <1> HIDE DEF C
  <1>2. /\ a.tag \in Seq(Names) /\ a.contents \in Seq(Nat) /\ a.state \in Position
        /\ a.children \in C
        /\ a = [tag |-> a.tag, contents |-> a.contents, state |-> a.state, children |-> a.children]
    BY <1>1
  <1>3. h > 0 => a.children \in Seq(TreesTo[h - 1])
    BY <1>2 DEF C
  <1>4. h = 0 => a.children = <<>>
    BY <1>2 DEF C
  <1>5. a.children \in Seq(TreesTo[h])
    <2>1. CASE h = 0
      <3>1. <<>> \in Seq(TreesTo[h])
        OBVIOUS
      <3> QED BY <1>4, <2>1, <3>1
    <2>2. CASE h > 0
      <3>1. TreesTo[h - 1] \subseteq TreesTo[h]
        BY <2>2, TreesGrow
      <3> QED BY <1>3, <2>2, <3>1, SeqMonotonic
    <2> QED BY <2>1, <2>2
  <1>6. ASSUME a.children = <<>> PROVE a \in TreesTo[0]
    <2>1. TreesTo[0] = [tag : Seq(Names), contents : Seq(Nat), state : Position, children : {<<>>}]
      BY TreeIs
    <2> QED BY <1>2, <1>6, <2>1
  <1> QED BY <1>2, <1>3, <1>4, <1>5, <1>6

IsHeight(a, n) == n \in Nat /\ a \in TreesTo[n] /\ \A k \in Nat : a \in TreesTo[k] => n <= k
HeightOf == [a \in Trees |-> CHOOSE n : IsHeight(a, n)]

LEMMA Heights ==
  /\ HeightOf \in [Trees -> Nat]
  /\ \A a \in Trees : IsHeight(a, HeightOf[a])
  <1>1. ASSUME NEW a \in Trees PROVE \E n : IsHeight(a, n)
    <2> DEFINE T == {n \in Nat : a \in TreesTo[n]}
    <2>1. TreeHeight \in T
      BY GrammarAssumption DEF Trees
    <2>2. PICK n \in T : \A k \in T : n <= k
      BY <2>1, LeastElement
    <2> QED BY <2>2 DEF IsHeight
  <1>2. \A a \in Trees : IsHeight(a, HeightOf[a])
    BY <1>1 DEF HeightOf
  <1> QED BY <1>2 DEF HeightOf, IsHeight

(* The children of a tree are lower than it.                                *)
LEMMA ChildrenAreLower ==
  ASSUME NEW a \in Trees
  PROVE  /\ a.children \in Seq(Trees)
         /\ \A i \in DOMAIN a.children : /\ a.children[i] \in Trees
                                         /\ HeightOf[a.children[i]] < HeightOf[a]
  <1>1. TreeHeight \in Nat /\ a.children \in Seq(Trees)
    BY GrammarAssumption, TreeParts DEF Trees
  <1>2. ASSUME NEW i \in DOMAIN a.children PROVE HeightOf[a.children[i]] < HeightOf[a]
    <2> DEFINE h == HeightOf[a]
               c == a.children[i]
    <2>1. h \in Nat /\ a \in TreesTo[h] /\ c \in Trees
      BY <1>1, Heights DEF IsHeight
    <2> HIDE DEF h
    <2>2. h # 0
      <3>1. a.children # <<>>
        OBVIOUS
      <3> QED BY <2>1, <3>1, TreeParts
    <2>3. h - 1 \in Nat /\ a.children \in Seq(TreesTo[h - 1])
      BY <2>1, <2>2, TreeParts
    <2>4. c \in TreesTo[h - 1]
      BY <2>3
    <2>5. HeightOf[c] \in Nat /\ HeightOf[c] <= h - 1
      BY <2>1, <2>3, <2>4, Heights DEF IsHeight
    <2> QED BY <2>1, <2>5 DEF h
  <1> QED BY <1>1, <1>2

(* The leaves of a, given those of lower trees.                             *)
LeavesBody(a, f) == IF a.children = <<>> THEN <<a>> ELSE FlatMap(a.children, f)

LEMMA LeavesBodyType ==
  ASSUME NEW a \in Trees, NEW f \in [Trees -> Seq(TreesTo[0])]
  PROVE  LeavesBody(a, f) \in Seq(TreesTo[0])
  <1>1. TreeHeight \in Nat /\ a.children \in Seq(Trees)
    BY GrammarAssumption, ChildrenAreLower
  <1>2. CASE a.children = <<>>
    <2>1. a \in TreesTo[0]
      BY <1>1, <1>2, TreeParts DEF Trees
    <2>2. <<a>> \in Seq(TreesTo[0])
      BY <2>1, Singleton
    <2> QED BY <1>2, <2>2 DEF LeavesBody
  <1>3. CASE a.children # <<>>
    BY <1>1, <1>3, FlatMapType DEF LeavesBody
  <1> QED BY <1>2, <1>3

LEMMA LeavesBodyLocal ==
  ASSUME NEW a \in Trees, NEW f, NEW g,
         \A b \in Trees : HeightOf[b] < HeightOf[a] => f[b] = g[b]
  PROVE  LeavesBody(a, f) = LeavesBody(a, g)
  <1>1. \A i \in DOMAIN a.children : f[a.children[i]] = g[a.children[i]]
    BY ChildrenAreLower
  <1>2. Images(a.children, f) = Images(a.children, g)
    BY <1>1 DEF Images
  <1> QED BY <1>2 DEF LeavesBody, FlatMap

LEMMA LeavesAre ==
  /\ Leaves \in [Trees -> Seq(TreesTo[0])]
  /\ \A a \in Trees : Leaves[a] = LeavesBody(a, Leaves)
  <1> DEFINE V == Seq(TreesTo[0])
             F == [p \in Trees \X [Trees -> V] |-> LeavesBody(p[1], p[2])]
             B(f) == [a \in Trees |-> LeavesBody(a, f)]
  <1>1. <<>> \in V
    OBVIOUS
  <1>2. \A a \in Trees : \A f \in [Trees -> V] : LeavesBody(a, f) \in V
    BY LeavesBodyType
  <1> HIDE DEF V
  <1>3. \A a \in Trees : \A f \in [Trees -> V] : F[<<a, f>>] = LeavesBody(a, f)
    OBVIOUS
  <1>4. F \in [Trees \X [Trees -> V] -> V]
    <2>1. \A p \in Trees \X [Trees -> V] : p[1] \in Trees /\ p[2] \in [Trees -> V]
      OBVIOUS
    <2>2. \A p \in Trees \X [Trees -> V] : LeavesBody(p[1], p[2]) \in V
      BY <1>2, <2>1
    <2> QED BY <2>2
  <1> HIDE DEF F
  <1>5. \A a \in Trees : \A f, g \in [Trees -> V] :
          (\A b \in Trees : HeightOf[b] < HeightOf[a] => f[b] = g[b]) => F[<<a, f>>] = F[<<a, g>>]
    BY <1>3, LeavesBodyLocal
  <1>6. IsRecursion(Trees, V, HeightOf, F)
    BY <1>1, <1>4, <1>5, Heights DEF IsRecursion
  <1>7. PICK f \in [Trees -> V] : \A a \in Trees : f[a] = F[<<a, f>>]
    BY <1>6, RecursionExists
  <1>8. f = B(f)
    BY <1>3, <1>7
  <1>9. \E g : g = B(g)
    BY <1>8
  <1>10. Leaves = B(Leaves)
    BY <1>9, Zenon DEF Leaves, LeavesBody, FlatMap, Images
  <1>11. \A a \in Trees : Leaves[a] = LeavesBody(a, Leaves)
    BY <1>10
  <1>12. Leaves = f
    <2> DEFINE T == {a \in Trees : Leaves[a] = f[a]}
    <2>1. ASSUME NEW a \in Trees, \A b \in Trees : HeightOf[b] < HeightOf[a] => b \in T
          PROVE  a \in T
      <3>1. LeavesBody(a, Leaves) = LeavesBody(a, f)
        BY <2>1, LeavesBodyLocal
      <3>2. f[a] = LeavesBody(a, f)
        BY <1>3, <1>7
      <3> QED BY <1>11, <3>1, <3>2
    <2>2. IsInductive(Trees, HeightOf, T)
      BY <2>1, Heights DEF IsInductive
    <2>3. Trees \subseteq T
      BY <2>2, MeasureInduction
    <2>4. Leaves = [a \in Trees |-> Leaves[a]] /\ f = [a \in Trees |-> f[a]]
      BY <1>8, <1>10
    <2> QED BY <2>3, <2>4
  <1> QED BY <1>11, <1>12 DEF V

AllLeaves(as) == FlatMap(as, Leaves)

(* Leaves without their tags.                                               *)
Bare(ls) == [i \in 1..Len(ls) |-> [state |-> ls[i].state, contents |-> ls[i].contents]]

LEMMA BareConcat ==
  ASSUME NEW S, NEW ls \in Seq(S), NEW ms \in Seq(S)
  PROVE  Bare(ls \o ms) = Bare(ls) \o Bare(ms)
  <1> DEFINE b(x) == [state |-> x.state, contents |-> x.contents]
             R == {b(x) : x \in S}
             n == Len(ls)
             m == Len(ms)
             cs == ls \o ms
  <1>1. /\ n \in Nat /\ m \in Nat /\ cs \in Seq(S) /\ Len(cs) = n + m
        /\ \A i \in 1..(n + m) : cs[i] = IF i <= n THEN ls[i] ELSE ms[i - n]
    BY ConcatProperties
  <1>2. \A s \in Seq(S) : /\ Bare(s) \in Seq(R) /\ Len(Bare(s)) = Len(s)
                          /\ \A i \in 1..Len(s) : Bare(s)[i] = b(s[i])
    <2> TAKE s \in Seq(S)
    <2>1. Len(s) \in Nat /\ \A i \in 1..Len(s) : s[i] \in S
      OBVIOUS
    <2>2. \A i \in 1..Len(s) : b(s[i]) \in R
      BY <2>1
    <2> HIDE DEF R
    <2> QED BY <2>1, <2>2 DEF Bare
  <1> HIDE DEF b, R, n, m, cs
  <1>3. /\ Bare(ls) \in Seq(R) /\ Bare(ms) \in Seq(R) /\ Bare(cs) \in Seq(R)
        /\ Len(Bare(ls)) = n /\ Len(Bare(ms)) = m /\ Len(Bare(cs)) = n + m
    BY <1>1, <1>2 DEF n, m
  <1>4. /\ Bare(ls) \o Bare(ms) \in Seq(R) /\ Len(Bare(ls) \o Bare(ms)) = n + m
        /\ \A i \in 1..(n + m) : (Bare(ls) \o Bare(ms))[i] =
              IF i <= n THEN Bare(ls)[i] ELSE Bare(ms)[i - n]
    BY <1>3, ConcatProperties
  <1>5. ASSUME NEW i \in 1..(n + m) PROVE Bare(cs)[i] = (Bare(ls) \o Bare(ms))[i]
    <2>1. Bare(cs)[i] = b(cs[i])
      BY <1>1, <1>2
    <2>2. CASE i <= n
      <3>1. i \in 1..n
        BY <2>2
      <3> QED BY <1>1, <1>2, <1>4, <2>1, <2>2, <3>1 DEF n
    <2>3. CASE ~(i <= n)
      <3>1. i - n \in 1..m
        BY <1>1, <2>3
      <3> QED BY <1>1, <1>2, <1>4, <2>1, <2>3, <3>1 DEF m
    <2> QED BY <2>2, <2>3
  <1>6. Bare(cs) = Bare(ls) \o Bare(ms)
    BY <1>3, <1>4, <1>5, SeqEqual
  <1> QED BY <1>6 DEF cs

-----------------------------------------------------------------------------
(* The same tree under another tag.                                         *)
LEMMA TagChanged ==
  ASSUME NEW C, NEW t \in Seq(Names),
         NEW a \in [tag : Seq(Names), contents : Seq(Nat), state : Position, children : C]
  PROVE  LET b == [a EXCEPT !.tag = t]
         IN  /\ b \in [tag : Seq(Names), contents : Seq(Nat), state : Position, children : C]
             /\ b.contents = a.contents /\ b.state = a.state /\ b.children = a.children
  OBVIOUS

LEMMA Retagged ==
  ASSUME NEW h \in Nat, h <= TreeHeight, NEW a \in TreesTo[h], NEW t \in Seq(Names)
  PROVE  LET b == [a EXCEPT !.tag = t]
         IN  /\ b \in TreesTo[h] /\ b.contents = a.contents /\ b.state = a.state
             /\ Bare(Leaves[b]) = Bare(Leaves[a])
  <1> DEFINE b == [a EXCEPT !.tag = t]
             C == IF h = 0 THEN {<<>>} ELSE Seq(TreesTo[h - 1])
  <1>1. TreesTo[h] = [tag : Seq(Names), contents : Seq(Nat), state : Position, children : C]
    BY TreeIs
  <1> HIDE DEF C
  <1>2. b \in TreesTo[h] /\ b.contents = a.contents /\ b.state = a.state /\ b.children = a.children
    BY <1>1, TagChanged
  <1> HIDE DEF b
  <1>3. a \in Trees /\ b \in Trees
    BY <1>2, GrammarAssumption, TreesGrow DEF Trees
  <1>4. Bare(Leaves[b]) = Bare(Leaves[a])
    <2>1. CASE a.children = <<>>
      <3>1. Leaves[a] = <<a>> /\ Leaves[b] = <<b>>
        BY <1>2, <1>3, <2>1, LeavesAre DEF LeavesBody
      <3>2. Bare(<<a>>) = Bare(<<b>>)
        BY <1>2, Singleton DEF Bare
      <3> QED BY <3>1, <3>2
    <2>2. CASE a.children # <<>>
      BY <1>2, <1>3, <2>2, LeavesAre DEF LeavesBody
    <2> QED BY <2>1, <2>2
  <1> QED BY <1>2, <1>4 DEF b

LEMMA Rootless ==
  ASSUME NEW t \in Seq(Names)
  PROVE  Front(t) \in Seq(Names)
  <1> DEFINE n == Len(t) - 1
  <1>1. n \in Int /\ \A i \in 1..n : t[i] \in Names
    OBVIOUS
  <1> HIDE DEF n
  <1>2. SubSeq(t, 1, n) \in Seq(Names)
    BY <1>1, SubSeqProperties
  <1> QED BY <1>2 DEF Front, n

(* What a tree gives its place up to has its leaves.                        *)
LEMMA SplicedIs ==
  ASSUME NEW h \in Nat, 0 < h, h <= TreeHeight, NEW a \in TreesTo[h]
  PROVE  /\ Spliced(a) \in Seq(TreesTo[h - 1]) /\ Spliced(a) # <<>>
         /\ Bare(AllLeaves(Spliced(a))) = Bare(Leaves[a])
  <1>1. /\ h - 1 \in Nat /\ 0 <= h - 1 /\ h - 1 <= TreeHeight /\ TreeHeight \in Nat
        /\ a.children \in Seq(TreesTo[h - 1]) /\ a.tag \in Seq(Names)
    BY TreeParts, GrammarAssumption
  <1>2. TreesTo[h - 1] \subseteq Trees /\ TreesTo[h] \subseteq Trees
    BY <1>1, TreesGrow DEF Trees
  <1>3. a \in Trees /\ Leaves \in [Trees -> Seq(TreesTo[0])] /\ Leaves[a] = LeavesBody(a, Leaves)
    BY <1>2, LeavesAre
  <1> DEFINE n == Len(a.children)
  <1>4. n \in Nat
    BY <1>1
  <1>5. CASE n = 0
    <2>1. Spliced(a) = <<a>> /\ a.children = <<>>
      BY <1>1, <1>5 DEF Spliced
    <2>2. a \in TreesTo[h - 1]
      BY <1>1, <2>1, TreeParts, TreesGrow
    <2>3. AllLeaves(<<a>>) = Leaves[a]
      BY <1>3, FlatMapOne DEF AllLeaves
    <2>4. <<a>> \in Seq(TreesTo[h - 1]) /\ <<a>> # <<>>
      BY <2>2, Singleton
    <2> QED BY <2>1, <2>3, <2>4
  <1>6. CASE n = 1
    <2> DEFINE c == a.children[1]
               d == AstAddRootTag(c, a.tag)
    <2>1. c \in TreesTo[h - 1] /\ c.tag \in Seq(Names)
      <3>1. c \in TreesTo[h - 1]
        BY <1>1, <1>6
      <3> QED BY <1>1, <3>1, TreeParts
    <2>2. Spliced(a) = <<d>> /\ a.children = <<c>>
      BY <1>1, <1>6 DEF Spliced
    <2>3. Front(a.tag) \o c.tag \in Seq(Names) /\ d = [c EXCEPT !.tag = Front(a.tag) \o c.tag]
      <3>1. Front(a.tag) \in Seq(Names)
        BY <1>1, Rootless
      <3> QED BY <2>1, <3>1 DEF AstAddRootTag
    <2> HIDE DEF c, d
    <2>4. d \in TreesTo[h - 1] /\ Bare(Leaves[d]) = Bare(Leaves[c])
      BY <1>1, <2>1, <2>3, Retagged
    <2>5. c \in Trees /\ d \in Trees
      BY <1>2, <2>1, <2>4
    <2>6. AllLeaves(<<d>>) = Leaves[d] /\ AllLeaves(<<c>>) = Leaves[c]
      BY <1>3, <2>5, FlatMapOne DEF AllLeaves
    <2>7. <<c>> # <<>>
      OBVIOUS
    <2>8. Leaves[a] = Leaves[c]
      BY <1>3, <2>2, <2>6, <2>7 DEF LeavesBody, AllLeaves
    <2>9. <<d>> \in Seq(TreesTo[h - 1]) /\ <<d>> # <<>>
      BY <2>4, Singleton
    <2> QED BY <2>2, <2>4, <2>6, <2>8, <2>9
  <1>7. CASE n > 1
    <2>1. Spliced(a) = a.children /\ a.children # <<>>
      BY <1>1, <1>7 DEF Spliced
    <2> QED BY <1>1, <1>3, <2>1 DEF LeavesBody, AllLeaves
  <1> HIDE DEF n
  <1>8. n = 0 \/ n = 1 \/ n > 1
    BY <1>4
  <1> QED BY <1>5, <1>6, <1>7, <1>8

SplicedOf(S) == [a \in S |-> Spliced(a)]

LEMMA AllLeavesGrow ==
  ASSUME NEW as \in Seq(Trees), NEW bs \in Seq(Trees), NEW a \in Trees
  PROVE  /\ AllLeaves(as) \in Seq(TreesTo[0]) /\ Leaves[a] \in Seq(TreesTo[0])
         /\ AllLeaves(<<>>) = <<>>
         /\ AllLeaves(Append(as, a)) = AllLeaves(as) \o Leaves[a]
         /\ AllLeaves(as \o bs) = AllLeaves(as) \o AllLeaves(bs)
  <1>1. Leaves \in [Trees -> Seq(TreesTo[0])]
    BY LeavesAre
  <1>2. AllLeaves(as) \in Seq(TreesTo[0]) /\ Leaves[a] \in Seq(TreesTo[0])
    BY <1>1, FlatMapType DEF AllLeaves
  <1>3. AllLeaves(<<>>) = <<>>
    BY FlatMapNone DEF AllLeaves
  <1>4. FlatMap(Append(as, a), Leaves) = FlatMap(as, Leaves) \o Leaves[a]
    BY <1>1, FlatMapAppend, Zenon
  <1>5. FlatMap(as \o bs, Leaves) = FlatMap(as, Leaves) \o FlatMap(bs, Leaves)
    BY <1>1, FlatMapConcat, Zenon
  <1> QED BY <1>2, <1>3, <1>4, <1>5 DEF AllLeaves

LEMMA SplicedAll ==
  ASSUME NEW h \in Nat, 0 < h, h <= TreeHeight, NEW as \in Seq(TreesTo[h])
  PROVE  LET all == FlatMap(as, SplicedOf(TreesTo[h]))
         IN  /\ all \in Seq(TreesTo[h - 1])
             /\ as # <<>> => all # <<>>
             /\ Bare(AllLeaves(all)) = Bare(AllLeaves(as))
  <1> DEFINE S == TreesTo[h]
             R == TreesTo[h - 1]
             g == SplicedOf(S)
             T == {s \in Seq(S) : /\ s # <<>> => FlatMap(s, g) # <<>>
                                  /\ Bare(AllLeaves(FlatMap(s, g))) = Bare(AllLeaves(s))}
  <1>1. \A a \in S : /\ Spliced(a) \in Seq(R) /\ Spliced(a) # <<>>
                     /\ Bare(AllLeaves(Spliced(a))) = Bare(Leaves[a])
    BY SplicedIs
  <1>2. S \subseteq Trees /\ R \subseteq Trees
    BY GrammarAssumption, TreesGrow DEF Trees
  <1> HIDE DEF S, R
  <1>3. g \in [S -> Seq(R)] /\ \A a \in S : g[a] = Spliced(a)
    <2> DEFINE X == Seq(R)
    <2>1. \A a \in S : Spliced(a) \in X
      BY <1>1
    <2> HIDE DEF X
    <2>2. g \in [S -> X] /\ \A a \in S : g[a] = Spliced(a)
      BY <2>1 DEF SplicedOf
    <2> QED BY <2>2 DEF X
  <1> HIDE DEF g
  <1>4. <<>> \in T
    BY FlatMapNone
  <1>5. ASSUME NEW s \in Seq(S), NEW a \in S, s \in T PROVE Append(s, a) \in T
    <2> DEFINE all == FlatMap(s, g)
    <2>1. FlatMap(Append(s, a), g) = all \o Spliced(a)
      <3>1. FlatMap(Append(s, a), g) = FlatMap(s, g) \o g[a]
        BY <1>3, FlatMapAppend, Zenon
      <3> QED BY <1>3, <3>1
    <2>2. all \in Seq(R) /\ Spliced(a) \in Seq(R) /\ Spliced(a) # <<>>
      BY <1>1, <1>3, FlatMapType
    <2>3. all \o Spliced(a) # <<>>
      BY <2>2, ConcatEqualIffEmpty
    <2> HIDE DEF all
    <2>4. all \in Seq(Trees) /\ Spliced(a) \in Seq(Trees) /\ s \in Seq(Trees) /\ a \in Trees
      BY <1>2, <2>2, SeqMonotonic
    <2>5. AllLeaves(all \o Spliced(a)) = AllLeaves(all) \o AllLeaves(Spliced(a))
      BY <2>4, AllLeavesGrow
    <2>6. AllLeaves(Append(s, a)) = AllLeaves(s) \o Leaves[a]
      BY <2>4, AllLeavesGrow
    <2>7. /\ AllLeaves(all) \in Seq(TreesTo[0]) /\ AllLeaves(Spliced(a)) \in Seq(TreesTo[0])
          /\ AllLeaves(s) \in Seq(TreesTo[0]) /\ Leaves[a] \in Seq(TreesTo[0])
      BY <2>4, AllLeavesGrow
    <2>8. /\ Bare(AllLeaves(all \o Spliced(a))) = Bare(AllLeaves(all)) \o Bare(AllLeaves(Spliced(a)))
          /\ Bare(AllLeaves(Append(s, a))) = Bare(AllLeaves(s)) \o Bare(Leaves[a])
      BY <2>5, <2>6, <2>7, BareConcat
    <2>9. Bare(AllLeaves(all)) = Bare(AllLeaves(s)) /\ Bare(AllLeaves(Spliced(a))) = Bare(Leaves[a])
      BY <1>1, <1>5 DEF all
    <2>10. Append(s, a) \in Seq(S)
      OBVIOUS
    <2> QED BY <2>1, <2>3, <2>8, <2>9, <2>10
  <1>6. Seq(S) \subseteq T
    <2> HIDE DEF T
    <2> QED BY <1>4, <1>5, SequenceInduction
  <1>7. FlatMap(as, g) \in Seq(R)
    BY <1>3, FlatMapType DEF S
  <1> QED BY <1>6, <1>7 DEF S, R, g

(* No string is cut but at a NUL.                                           *)
LEMMA CStringIs ==
  ASSUME NEW c \in Nat
  PROVE  CString(<<c>>) \in Seq(Nat) /\ CString(<<>>) = <<>>
  <1> DEFINE s == <<c>>
             stops == {i \in DOMAIN s : s[i] = NUL}
  <1>1. CString(<<>>) = <<>>
    <2>1. {i \in DOMAIN <<>> : <<>>[i] = NUL} = {}
      OBVIOUS
    <2> QED BY <2>1 DEF CString
  <1>2. CString(s) = IF stops = {} THEN s ELSE SubSeq(s, 1, Min(stops) - 1)
    BY DEF CString
  <1>3. s \in Seq(Nat) /\ DOMAIN s = {1}
    OBVIOUS
  <1>4. ASSUME stops # {} PROVE SubSeq(s, 1, Min(stops) - 1) \in Seq(Nat)
    <2>1. stops = {1}
      BY <1>3, <1>4
    <2>2. Min(stops) = 1
      BY <2>1 DEF Min
    <2>3. SubSeq(s, 1, 0) \in Seq(Nat)
      BY SubSeqProperties
    <2> QED BY <2>2, <2>3
  <1> HIDE DEF stops
  <1>5. CString(s) \in Seq(Nat)
    BY <1>2, <1>3, <1>4
  <1> QED BY <1>1, <1>5

(* A fold has the leaves of the trees it folds.                             *)
LEMMA FoldedIs ==
  ASSUME NEW h \in Nat, 0 < h, h <= TreeHeight, NEW as \in Seq(TreesTo[h]), as # <<>>
  PROVE  FoldAst(as) \in TreesTo[h] /\ Bare(Leaves[FoldAst(as)]) = Bare(AllLeaves(as))
  <1>1. TreesTo[h] \subseteq Trees
    BY GrammarAssumption, TreesGrow DEF Trees
  <1>2. Leaves \in [Trees -> Seq(TreesTo[0])]
    BY LeavesAre
  <1>3. CASE Len(as) = 1
    <2> DEFINE a == as[1]
    <2>1. a \in TreesTo[h] /\ as = <<a>> /\ FoldAst(as) = a
      <3>1. as # <<>> => as[1] \in TreesTo[h]
        BY SeqElements
      <3>2. as = <<as[1]>>
        BY <1>3, SeqElements
      <3> QED BY <1>3, <3>1, <3>2 DEF FoldAst
    <2>2. AllLeaves(<<a>>) = Leaves[a]
      BY <1>1, <1>2, <2>1, FlatMapOne DEF AllLeaves
    <2> QED BY <2>1, <2>2
  <1>4. CASE Len(as) # 1
    <2> DEFINE all == FlatMap(as, SplicedOf(TreesTo[h]))
               v == [tag |-> <<">">>, contents |-> <<>>, state |-> all[1].state, children |-> all]
    <2>1. /\ all \in Seq(TreesTo[h - 1]) /\ all # <<>>
          /\ Bare(AllLeaves(all)) = Bare(AllLeaves(as))
      BY SplicedAll
    <2>2. FlattenSeq([i \in DOMAIN as |-> Spliced(as[i])]) = all
      <3>1. [i \in DOMAIN as |-> Spliced(as[i])] = Images(as, SplicedOf(TreesTo[h]))
        <4>1. \A i \in DOMAIN as : as[i] \in TreesTo[h]
          BY SeqElements
        <4> QED BY <4>1 DEF Images, SplicedOf
      <3> QED BY <3>1 DEF FlatMap
    <2> HIDE DEF all
    <2>3. FoldAst(as) = v
      <3> DEFINE r == FoldAst(as)
                 s == all[1].state
      <3>1. CString(<<>>) = <<>>
        BY CStringIs
      <3>2. r = [AstNew(<<">">>, <<>>) EXCEPT !.children = all, !.state = s]
        BY <1>4, <2>2 DEF FoldAst
      <3> HIDE DEF r, s
      <3>3. r = [[tag |-> <<">">>, contents |-> <<>>, state |-> NewState, children |-> <<>>]
                   EXCEPT !.children = all, !.state = s]
        BY <3>1, <3>2 DEF AstNew
      <3>4. /\ r.tag = <<">">> /\ r.contents = <<>> /\ r.state = s /\ r.children = all
            /\ r = [tag |-> r.tag, contents |-> r.contents, state |-> r.state,
                    children |-> r.children]
        BY <3>3
      <3> QED BY <3>4 DEF r, s
    <2>4. all[1] \in TreesTo[h - 1] /\ all[1].state \in Position
      <3>1. all[1] \in TreesTo[h - 1]
        BY <2>1
      <3> QED BY <3>1, TreeParts
    <2>5. v \in TreesTo[h]
      <3>1. TreesTo[h] = [tag : Seq(Names), contents : Seq(Nat), state : Position,
                          children : Seq(TreesTo[h - 1])]
        <4>1. h # 0
          OBVIOUS
        <4> QED BY <4>1, TreeIs
      <3>2. <<">">> \in Seq(Names) /\ <<>> \in Seq(Nat)
        <4>1. ">" \in Names
          BY DEF Names
        <4> QED BY <4>1, Singleton, EmptySeq
      <3> QED BY <2>1, <2>4, <3>1, <3>2
    <2>6. Leaves[v] = AllLeaves(all)
      <3>1. v \in Trees /\ v.children = all
        BY <1>1, <2>5
      <3> HIDE DEF v
      <3> QED BY <2>1, <3>1, LeavesAre DEF LeavesBody, AllLeaves
    <2> QED BY <2>1, <2>3, <2>5, <2>6
  <1> QED BY <1>3, <1>4

LEMMA StrAstIs ==
  ASSUME NEW c \in Nat
  PROVE  StrAst(<<c>>) \in TreesTo[0] /\ StrAst(<<c>>).contents = CString(<<c>>)
  <1> DEFINE d == CString(<<c>>)
  <1>1. d \in Seq(Nat)
    BY CStringIs
  <1>2. StrAst(<<c>>) = [tag |-> <<"">>, contents |-> d, state |-> NewState, children |-> <<>>]
    BY DEF StrAst, AstNew
  <1> HIDE DEF d
  <1>3. <<"">> \in Seq(Names)
    <2>1. "" \in Names
      BY DEF Names
    <2> QED BY <2>1, Singleton
  <1>4. NewState \in Position
    BY DEF NewState, Position
  <1>5. TreesTo[0] = [tag : Seq(Names), contents : Seq(Nat), state : Position, children : {<<>>}]
    BY TreeIs
  <1> DEFINE v == StrAst(<<c>>)
             t == <<"">>
  <1>6. v = [tag |-> t, contents |-> d, state |-> NewState, children |-> <<>>]
    BY <1>2
  <1>7. t \in Seq(Names)
    BY <1>3
  <1> HIDE DEF v, t
  <1>8. v \in TreesTo[0] /\ v.contents = d
    BY <1>1, <1>4, <1>5, <1>6, <1>7
  <1> QED BY <1>8 DEF d, v

LEMMA TagsKeepLeaves ==
  ASSUME NEW h \in Nat, h <= TreeHeight, NEW a \in TreesTo[h], NEW t \in Names,
         NEW b, b = AstTag(a, t) \/ b = AstAddTag(a, t)
  PROVE  /\ b \in TreesTo[h] /\ b.contents = a.contents /\ b.state = a.state
         /\ Bare(Leaves[b]) = Bare(Leaves[a])
  <1>1. a.tag \in Seq(Names) /\ <<t>> \in Seq(Names)
    BY TreeParts, Singleton
  <1>2. <<t>> \o a.tag \in Seq(Names)
    BY <1>1
  <1> DEFINE t1 == <<t>>
             t2 == <<t>> \o a.tag
  <1>3. b = [a EXCEPT !.tag = t1] \/ b = [a EXCEPT !.tag = t2]
    BY DEF AstTag, AstAddTag
  <1>4. t1 \in Seq(Names) /\ t2 \in Seq(Names)
    BY <1>1, <1>2
  <1> HIDE DEF t1, t2
  <1>5. CASE b = [a EXCEPT !.tag = t1]
    BY <1>4, <1>5, Retagged
  <1>6. CASE b = [a EXCEPT !.tag = t2]
    BY <1>4, <1>6, Retagged
  <1> QED BY <1>3, <1>5, <1>6

LEMMA RootKeepsLeaves ==
  ASSUME NEW h \in Nat, 0 < h, h <= TreeHeight, NEW a \in TreesTo[h - 1]
  PROVE  AstAddRoot(a) \in TreesTo[h] /\ Leaves[AstAddRoot(a)] = Leaves[a]
  <1>1. /\ h - 1 \in Nat /\ h - 1 <= h /\ h # 0 /\ TreeHeight \in Nat /\ h - 1 <= TreeHeight
    BY GrammarAssumption
  <1>2. a \in TreesTo[h] /\ a \in Trees /\ TreesTo[h] \subseteq Trees
    BY <1>1, TreesGrow DEF Trees
  <1>3. CASE Len(a.children) < 2
    BY <1>2, <1>3 DEF AstAddRoot
  <1>4. CASE ~(Len(a.children) < 2)
    <2> DEFINE r == AstAddRoot(a)
               cs == <<a>>
               t == <<">">>
    <2>1. t \in Seq(Names)
      <3>1. ">" \in Names
        BY DEF Names
      <3> QED BY <3>1, Singleton
    <2>2. cs \in Seq(TreesTo[h - 1]) /\ cs # <<>>
      BY Singleton
    <2>3. r = [AstNew(t, <<>>) EXCEPT !.children = cs]
      BY <1>4 DEF AstAddRoot
    <2> HIDE DEF r
    <2>4. CString(<<>>) = <<>>
      BY CStringIs
    <2> HIDE DEF t, cs
    <2>5. r = [[tag |-> t, contents |-> <<>>, state |-> NewState, children |-> <<>>]
                 EXCEPT !.children = cs]
      BY <2>3, <2>4 DEF AstNew
    <2>6. r = [tag |-> t, contents |-> <<>>, state |-> NewState, children |-> cs]
      BY <2>5
    <2>7. NewState \in Position /\ <<>> \in Seq(Nat)
      BY DEF NewState, Position
    <2>8. TreesTo[h] = [tag : Seq(Names), contents : Seq(Nat), state : Position,
                        children : Seq(TreesTo[h - 1])]
      BY <1>1, TreeIs
    <2>9. r \in TreesTo[h] /\ r.children = cs
      BY <2>1, <2>2, <2>6, <2>7, <2>8
    <2>10. Leaves[r] = AllLeaves(cs)
      BY <1>2, <2>2, <2>9, LeavesAre DEF LeavesBody, AllLeaves
    <2>11. AllLeaves(<<a>>) = Leaves[a]
      BY <1>2, LeavesAre, FlatMapOne DEF AllLeaves
    <2> QED BY <2>9, <2>10, <2>11 DEF r, cs
  <1> QED BY <1>3, <1>4

LEMMA Replaced ==
  ASSUME NEW h \in Nat, h <= TreeHeight, NEW a \in TreesTo[h], NEW s \in Position
  PROVE  LET b == AstState(a, s)
         IN  /\ b \in TreesTo[h] /\ b.contents = a.contents /\ b.state = s
             /\ a.children # <<>> => Leaves[b] = Leaves[a]
             /\ a.children = <<>> => Leaves[b] = <<b>> /\ Leaves[a] = <<a>>
  <1> DEFINE b == AstState(a, s)
             C == IF h = 0 THEN {<<>>} ELSE Seq(TreesTo[h - 1])
  <1>1. TreesTo[h] = [tag : Seq(Names), contents : Seq(Nat), state : Position, children : C]
    BY TreeIs
  <1> HIDE DEF C
  <1>2. a \in [tag : Seq(Names), contents : Seq(Nat), state : Position, children : C]
    BY <1>1
  <1>3. /\ b \in [tag : Seq(Names), contents : Seq(Nat), state : Position, children : C]
        /\ b.contents = a.contents /\ b.state = s /\ b.children = a.children
    BY <1>2 DEF AstState
  <1> HIDE DEF b
  <1>4. b \in TreesTo[h]
    BY <1>1, <1>3
  <1>5. a \in Trees /\ b \in Trees
    BY <1>4, GrammarAssumption, TreesGrow DEF Trees
  <1>6. /\ a.children # <<>> => Leaves[b] = Leaves[a]
        /\ a.children = <<>> => Leaves[b] = <<b>> /\ Leaves[a] = <<a>>
    BY <1>3, <1>5, LeavesAre DEF LeavesBody
  <1> QED BY <1>3, <1>4, <1>6 DEF b

-----------------------------------------------------------------------------
(* The sequence ls of leaves spells the characters of the text from m to n. *)
Spells(ls, m, n) ==
  /\ ls \in Seq(TreesTo[0]) /\ Len(ls) = n - m
  /\ \A i \in 1..Len(ls) : /\ ls[i].state.pos = m + i - 1 /\ IsPlace(ls[i].state)
                           /\ ls[i].contents = CString(<<text[m + i]>>)

LEMMA BareSpells ==
  ASSUME NEW ls, NEW ms \in Seq(TreesTo[0]), NEW m, NEW n, Bare(ls) = Bare(ms), Spells(ls, m, n)
  PROVE  Spells(ms, m, n)
  <1> DEFINE b(s, i) == [state |-> s[i].state, contents |-> s[i].contents]
  <1>1. ls \in Seq(TreesTo[0]) /\ Len(ls) = n - m
    BY DEF Spells
  <1>2. Len(ls) \in Nat /\ Len(ms) \in Nat
    BY <1>1, LenProperties
  <1>3. DOMAIN Bare(ls) = 1..Len(ls) /\ DOMAIN Bare(ms) = 1..Len(ms)
    BY DEF Bare
  <1>4. Len(ls) = Len(ms)
    <2>1. 1..Len(ls) = 1..Len(ms)
      BY <1>3
    <2> QED BY <1>2, <2>1
  <1>5. \A i \in 1..Len(ls) : Bare(ls)[i] = b(ls, i) /\ Bare(ms)[i] = b(ms, i)
    BY <1>4 DEF Bare
  <1>6. \A i \in 1..Len(ls) : b(ls, i) = b(ms, i)
    BY <1>5
  <1>7. \A i \in 1..Len(ls) : ls[i].state = ms[i].state /\ ls[i].contents = ms[i].contents
    BY <1>6
  <1> QED BY <1>1, <1>4, <1>7 DEF Spells

LEMMA SpellsOn ==
  ASSUME NEW ls, NEW ms, NEW m \in Nat, NEW n \in Nat, NEW p \in Nat,
         Spells(ls, m, n), Spells(ms, n, p)
  PROVE  Spells(ls \o ms, m, p)
  <1> DEFINE X == TreesTo[0]
             cs == ls \o ms
             k == Len(ls)
  <1>1. /\ ls \in Seq(X) /\ k = n - m /\ k \in Nat
        /\ ms \in Seq(X) /\ Len(ms) = p - n /\ Len(ms) \in Nat
    BY LenProperties DEF Spells
  <1>2. /\ cs \in Seq(X) /\ Len(cs) = k + Len(ms)
        /\ \A i \in 1..(k + Len(ms)) : cs[i] = IF i <= k THEN ls[i] ELSE ms[i - k]
    BY <1>1, ConcatProperties
  <1> HIDE DEF X, cs, k
  <1>3. Len(cs) = p - m
    BY <1>1, <1>2
  <1>4. ASSUME NEW i \in 1..Len(cs)
        PROVE  /\ cs[i].state.pos = m + i - 1 /\ IsPlace(cs[i].state)
               /\ cs[i].contents = CString(<<text[m + i]>>)
    <2>1. CASE i <= k
      <3>1. i \in 1..k /\ cs[i] = ls[i]
        BY <1>1, <1>2, <2>1
      <3> QED BY <3>1 DEF Spells, k
    <2>2. CASE ~(i <= k)
      <3>1. i - k \in 1..Len(ms) /\ cs[i] = ms[i - k]
        BY <1>1, <1>2, <2>2
      <3>2. n + (i - k) - 1 = m + i - 1 /\ n + (i - k) = m + i
        BY <1>1, <1>2
      <3> QED BY <3>1, <3>2 DEF Spells
    <2> QED BY <2>1, <2>2
  <1> QED BY <1>2, <1>3, <1>4 DEF Spells, X, cs

LEMMA SpellsNothing ==
  ASSUME NEW m \in Nat
  PROVE  Spells(<<>>, m, m)
  <1>1. <<>> \in Seq(TreesTo[0]) /\ Len(<<>>) = 0 /\ m - m = 0
    BY EmptySeq
  <1> QED BY <1>1 DEF Spells

-----------------------------------------------------------------------------
(***************************************************************************)
(* 3. The parse.  What a running parser has in hand.  Child is the parser  *)
(* that a frame has called, Running the one that runs, or returns.         *)
(***************************************************************************)

Child(f) == Resolved(IF f.p.type \in {"OR", "AND"} THEN f.p.xs[f.j + 1] ELSE f.p.x)
Running  == IF stack = <<>> THEN Parsers[Start] ELSE Child(Top)

(* The result v of a parser that yields a k, called at s, that ended at t.  *)
Carries(v, k, s, t) ==
  /\ k \in {AString, ALeaf} => s.pos < Len(text) /\ t.pos = s.pos + 1
  /\ k = AString   => v = <<text[t.pos]>>
  /\ k = ALeaf     => v \in TreesTo[0] /\ v.contents = CString(<<text[t.pos]>>)
  /\ k = APosition => v = s /\ t = s
  /\ k >= 0        => v \in TreesTo[k] /\ Spells(Leaves[v], s.pos, t.pos)

(* The trees that a parser folds, and the position put into a tree.         *)
FoldsTrees(p) == p.type \in {"MANY1", "AND"} /\ p.f = "fold_ast"
PutsState(p)  == p.type = "AND" /\ p.f = "state_ast"

Gathers(f) ==
  /\ IsPlace(f.start) /\ IsPlace(f.from)
  /\ FoldsTrees(f.p) => /\ f.xs \in Seq(TreesTo[Yields[f.p]]) /\ Len(f.xs) = f.j
                        /\ Spells(AllLeaves(f.xs), f.start.pos, f.from.pos)
  /\ PutsState(f.p)  => f.from = f.start /\ f.xs = IF f.j = 0 THEN <<>> ELSE <<f.start>>

Nested == {"EXPECT", "APPLY", "APPLY_TO", "MANY1", "OR", "AND"}

IsFrame(f) ==
  /\ f.p \in DOMAIN Yields /\ f.p.type \in Nested
  /\ f.p.type \in {"OR", "AND"} => f.j < Len(f.p.xs)

FrameFits(i) ==
  /\ stack[i].p = IF i = 1 THEN Parsers[Start] ELSE Child(stack[i - 1])
  /\ IsFrame(stack[i]) /\ Gathers(stack[i])

TreeInv ==
  /\ \A i \in 1..Len(stack) : FrameFits(i)
  /\ ctl.op = "call" => ctl.p = Running
  /\ Succeeded => Carries(ctl.v, Yields[Running], Here, state)

-----------------------------------------------------------------------------
(* All of this is about one text.                                           *)
LEMMA FixedText ==
  ASSUME text' = text
  PROVE  /\ \A s : IsPlace(s)' <=> IsPlace(s)
         /\ \A ls, m, n : Spells(ls, m, n)' <=> Spells(ls, m, n)
         /\ \A v, k, s, t : Carries(v, k, s, t)' <=> Carries(v, k, s, t)
         /\ \A f : Gathers(f)' <=> Gathers(f)
  <1>1. \A s : IsPlace(s)' <=> IsPlace(s)
    BY DEF IsPlace
  <1>2. \A ls, m, n : Spells(ls, m, n)' <=> Spells(ls, m, n)
    BY <1>1 DEF Spells
  <1>3. \A v, k, s, t : Carries(v, k, s, t)' <=> Carries(v, k, s, t)
    BY <1>2 DEF Carries
  <1>4. \A f : Gathers(f)' <=> Gathers(f)
    BY <1>1, <1>2 DEF Gathers
  <1> QED BY <1>1, <1>2, <1>3, <1>4

LEMMA FrameKept ==
  ASSUME text' = text, NEW i \in Nat \ {0}, stack'[i] = stack[i],
         i # 1 => stack'[i - 1] = stack[i - 1], FrameFits(i)
  PROVE  FrameFits(i)'
  <1>1. Gathers(stack[i])'
    BY FixedText DEF FrameFits
  <1> QED BY <1>1 DEF FrameFits

(* What the child of a frame yields.                                        *)
LEMMA ChildFits ==
  ASSUME NEW f, IsFrame(f), f.j \in Nat
  PROVE  LET k == Yields[f.p]
             h == Yields[Child(f)]
         IN  /\ Child(f) \in DOMAIN Yields /\ k \in AString..TreeHeight
             /\ f.p.type \in {"EXPECT", "OR", "APPLY_TO"} => h \in {k} \cup 0..k
             /\ f.p.type = "APPLY_TO" =>
                  k >= ALeaf /\ f.p.f \in {"ast_tag", "ast_add_tag"} /\ f.p.d \in Names
             /\ f.p.type = "APPLY" =>
                  \/ f.p.f = "str_ast" /\ k = ALeaf /\ h = AString
                  \/ f.p.f = "ast_add_root" /\ k > 0 /\ h \in 0..(k - 1)
             /\ f.p.type = "MANY1" => f.p.f = "fold_ast" /\ k > 0 /\ h \in 0..k
             /\ f.p.type = "AND" =>
                  \/ f.p.f = "fold_ast" /\ k > 0 /\ h \in 0..k
                  \/ /\ f.p.f = "state_ast" /\ k >= 0 /\ Len(f.p.xs) = 2
                     /\ f.j = 0 => h = APosition
                     /\ f.j # 0 => h = ALeaf \/ h \in 0..k
  <1> DEFINE k == Yields[f.p]
             h == Yields[Child(f)]
  <1>1. f.p \in DOMAIN Yields /\ k \in AString..TreeHeight /\ Composes(f.p, k) /\ TreeHeight \in Nat
    BY GrammarAssumption DEF IsFrame
  <1>2. k \in Int
    BY <1>1 DEF AString
  <1>3. CASE f.p.type \in {"EXPECT", "APPLY_TO"}
    <2>1. f.p.type = "APPLY_TO" => f.p.d \in Names
      BY <1>1 DEF Names
    <2>2. /\ Fits(f.p.x, k) /\ Child(f) = Resolved(f.p.x)
          /\ f.p.type = "APPLY_TO" => k >= ALeaf /\ f.p.f \in {"ast_tag", "ast_add_tag"}
      BY <1>1, <1>3 DEF Composes, Child
    <2> QED BY <1>1, <1>3, <2>1, <2>2 DEF Fits
  <1>4. CASE f.p.type = "OR"
    <2>1. FitAll(f.p.xs, k) /\ Child(f) = Resolved(f.p.xs[f.j + 1]) /\ f.j < Len(f.p.xs)
      BY <1>1, <1>4 DEF Composes, Child, IsFrame
    <2>2. Fits(f.p.xs[f.j + 1], k)
      BY <2>1 DEF FitAll
    <2> QED BY <1>1, <1>4, <2>1, <2>2 DEF Fits
  <1>5. CASE f.p.type = "APPLY"
    <2>1. /\ Child(f) = Resolved(f.p.x)
          /\ \/ f.p.f = "str_ast" /\ k = ALeaf /\ Fits(f.p.x, AString)
             \/ f.p.f = "ast_add_root" /\ k > 0 /\ Fits(f.p.x, k - 1)
      BY <1>1, <1>5 DEF Composes, Child
    <2> QED BY <1>1, <1>2, <1>5, <2>1 DEF Fits, AString
  <1>6. CASE f.p.type = "MANY1"
    <2>1. Child(f) = Resolved(f.p.x) /\ f.p.f = "fold_ast" /\ k > 0 /\ Fits(f.p.x, k)
      BY <1>1, <1>6 DEF Composes, Child
    <2> QED BY <1>1, <1>2, <1>6, <2>1 DEF Fits
  <1>7. CASE f.p.type = "AND"
    <2>1. /\ Child(f) = Resolved(f.p.xs[f.j + 1]) /\ f.j < Len(f.p.xs)
          /\ \/ f.p.f = "fold_ast" /\ k > 0 /\ FitAll(f.p.xs, k)
             \/ /\ f.p.f = "state_ast" /\ k >= 0
                /\ Len(f.p.xs) = 2 /\ Fits(f.p.xs[1], APosition)
                /\ Fits(f.p.xs[2], ALeaf) \/ Fits(f.p.xs[2], k)
      BY <1>1, <1>7 DEF Composes, Child, IsFrame
    <2>2. CASE f.p.f = "fold_ast" /\ k > 0 /\ FitAll(f.p.xs, k)
      <3>1. Fits(f.p.xs[f.j + 1], k)
        BY <2>1, <2>2 DEF FitAll
      <3> QED BY <1>1, <1>2, <1>7, <2>1, <2>2, <3>1 DEF Fits
    <2>3. CASE /\ f.p.f = "state_ast" /\ k >= 0
               /\ Len(f.p.xs) = 2 /\ Fits(f.p.xs[1], APosition)
               /\ Fits(f.p.xs[2], ALeaf) \/ Fits(f.p.xs[2], k)
      <3>1. CASE f.j = 0
        BY <1>1, <1>2, <1>7, <2>1, <2>3, <3>1 DEF Fits, APosition
      <3>2. CASE f.j # 0
        <4>1. f.j + 1 = 2
          BY <2>1, <2>3, <3>2
        <4>2. Resolved(f.p.xs[2]) = Child(f)
          BY <2>1, <4>1
        <4> QED BY <1>1, <1>2, <1>7, <2>1, <2>3, <3>2, <4>2 DEF Fits, ALeaf
      <3> QED BY <3>1, <3>2
    <2> QED BY <2>1, <2>2, <2>3
  <1> QED BY <1>1, <1>3, <1>4, <1>5, <1>6, <1>7 DEF IsFrame, Nested

(* A lower tree will do for a higher one.                                   *)
LEMMA CarriesMore ==
  ASSUME NEW k \in AString..TreeHeight, NEW h \in {k} \cup 0..k, NEW v, NEW s, NEW t,
         Carries(v, h, s, t)
  PROVE  Carries(v, k, s, t)
  <1>1. CASE h = k
    BY <1>1
  <1>2. CASE h # k
    <2>1. h \in Nat /\ k \in Nat /\ h <= k /\ h >= 0
      BY <1>2 DEF AString
    <2>2. v \in TreesTo[h] /\ Spells(Leaves[v], s.pos, t.pos)
      BY <2>1 DEF Carries
    <2>3. v \in TreesTo[k]
      BY <2>1, <2>2, TreesGrow
    <2> QED BY <2>1, <2>2, <2>3 DEF Carries, AString, APosition, ALeaf
  <1> QED BY <1>1, <1>2

(* What the invariant says of the running parser.                           *)
LEMMA RunningIs ==
  ASSUME MpcInv, TreeInv
  PROVE  /\ Running \in DOMAIN Yields /\ Yields[Running] \in AString..TreeHeight
         /\ Composes(Running, Yields[Running])
         /\ IsPlace(state) /\ state \in Position /\ fpos = state.pos /\ Len(text) \in Nat
         /\ text \in Seq(Nat) /\ IsStack
         /\ ctl.op = "call" \/ ctl.op = "fail" => state = Here
  <1>1. Running \in DOMAIN Yields
    <2>1. CASE stack = <<>>
      BY <2>1, GrammarAssumption DEF Running
    <2>2. CASE stack # <<>>
      <3>1. Len(stack) \in 1..Len(stack)
        BY <2>2 DEF MpcInv, Typed, IsStack
      <3>2. IsFrame(Top) /\ Top.j \in Nat
        BY <3>1 DEF TreeInv, FrameFits, Top, MpcInv, Typed
      <3>3. Child(Top) \in DOMAIN Yields
        BY <3>2, ChildFits
      <3> QED BY <2>2, <3>3 DEF Running
    <2> QED BY <2>1, <2>2
  <1>2. Yields[Running] \in AString..TreeHeight /\ Composes(Running, Yields[Running])
    BY <1>1, GrammarAssumption
  <1>3. /\ IsPlace(state) /\ state \in Position /\ fpos = state.pos /\ Len(text) \in Nat
        /\ text \in Seq(Nat) /\ IsStack
    BY DEF MpcInv, Placed, Places, Mark, MarkSet, Typed
  <1>4. ctl.op = "call" \/ ctl.op = "fail" => state = Here
    BY DEF MpcInv, Chained
  <1> QED BY <1>1, <1>2, <1>3, <1>4

(* The top frame, of a parser that a return comes back to.                  *)
LEMMA TopIs ==
  ASSUME MpcInv, TreeInv, stack # <<>>
  PROVE  /\ Len(stack) \in Nat \ {0} /\ Top = stack[Len(stack)]
         /\ IsFrame(Top) /\ Gathers(Top)
         /\ Top.p = IF Len(stack) = 1 THEN Parsers[Start] ELSE Child(stack[Len(stack) - 1])
         /\ Top.j \in Nat /\ Top.start \in Position /\ Top.from \in Position
         /\ Top.start = IF Len(stack) = 1 THEN NewState ELSE stack[Len(stack) - 1].from
         /\ \/ Top.p.type = "AND"
            \/ Top.p.type = "MANY1" /\ Top.j # 0
            \/ Top.from = Top.start
         /\ Running = Child(Top) /\ Here = Top.from
  <1>1. Len(stack) \in Nat \ {0} /\ Len(stack) \in 1..Len(stack)
    BY DEF MpcInv, Typed, IsStack
  <1>2. FrameFits(Len(stack)) /\ Top = stack[Len(stack)]
    BY <1>1 DEF TreeInv, Top
  <1> QED BY <1>1, <1>2 DEF FrameFits, MpcInv, Typed, Chained, Running, Here

(* A parser without children runs.                                          *)
LEMMA RunsTree ==
  ASSUME MpcInv, TreeInv, CallSingle \/ CallOneof \/ CallState
  PROVE  TreeInv'
  <1> DEFINE k == Yields[Running]
  <1>1. stack' = stack /\ text' = text /\ ctl'.op # "call" /\ ctl.op = "call"
    BY DEF CallSingle, CallOneof, CallState, Calls, Take, TakeAtEnd, TakeSucceeds, TakeFails, Ok, Fail
  <1>2. Running' = Running /\ Here' = Here /\ ctl.p = Running /\ state = Here
    BY <1>1, RunningIs DEF Running, Here, Top, TreeInv
  <1>3. \A i \in 1..Len(stack') : FrameFits(i)'
    <2> SUFFICES ASSUME NEW i \in 1..Len(stack) PROVE FrameFits(i)'
      BY <1>1
    <2>1. i \in Nat \ {0} /\ FrameFits(i)
      BY RunningIs DEF TreeInv, IsStack
    <2> QED BY <1>1, <2>1, FrameKept
  <1>4. ASSUME Succeeded' PROVE Carries(ctl'.v, k, state, state')
    <2>1. CASE CallSingle \/ CallOneof
      <3>1. k = AString
        BY <1>2, <2>1, RunningIs DEF CallSingle, CallOneof, Calls, Composes
      <3>0. fpos \in Nat /\ Len(text) \in Nat
        BY DEF MpcInv, Placed, Places, Mark, MarkSet, Position
      <3>2. /\ fpos < Len(text) /\ state' = Advanced(state, text[fpos + 1])
            /\ ctl'.v = <<text[fpos + 1]>>
        BY <1>4, <2>1, <3>0 DEF CallSingle, CallOneof, Take, TakeAtEnd, TakeSucceeds, TakeFails, AtEnd,
           Ok, Fail, Succeeded
      <3>3. state'.pos = state.pos + 1
        BY <3>2 DEF Advanced
      <3> QED BY <3>1, <3>2, <3>3, RunningIs DEF Carries, AString, APosition, ALeaf
    <2>2. CASE CallState
      <3>1. k = APosition
        BY <1>2, <2>2, RunningIs DEF CallState, Calls, Composes
      <3>2. ctl'.v = state /\ state' = state
        BY <2>2 DEF CallState, Ok, input
      <3> QED BY <3>1, <3>2 DEF Carries, AString, APosition, ALeaf
    <2> QED BY <2>1, <2>2
  <1>5. Succeeded' => Carries(ctl.v, Yields[Running], Here, state)'
    <2> SUFFICES ASSUME Succeeded' PROVE Carries(ctl.v, Yields[Running], Here, state)'
      OBVIOUS
    <2> HIDE DEF k
    <2>1. Carries(ctl'.v, k, state, state')
      BY <1>4
    <2>2. Carries(ctl'.v, Yields[Running'], Here', state')
      BY <1>2, <2>1 DEF k
    <2> QED BY <1>1, <2>2, FixedText
  <1> QED BY <1>1, <1>3, <1>5 DEF TreeInv

(* A parser is entered.                                                     *)
LEMMA EntersTree ==
  ASSUME MpcInv, TreeInv, CallApply \/ CallExpect \/ CallOr \/ CallAnd
  PROVE  TreeInv'
  <1> PICK n \in Nat : n = Len(stack)
    BY RunningIs DEF IsStack
  <1>1. Enters /\ text' = text
    BY DEF CallApply, CallExpect, CallOr, CallAnd, Enter, Calls, Call, Enters, Frame,
       Mark, stream, input
  <1>2. /\ IsStack' /\ stack' # <<>> /\ Len(stack') = n + 1
        /\ \A i \in 1..n : stack'[i] = stack[i]
        /\ stack'[n + 1] = Frame
    BY <1>1, RunningIs, EntersStack
  <1>3. /\ Frame.p = ctl.p /\ Frame.j = 0 /\ Frame.start = state /\ Frame.from = state
        /\ Frame.xs = <<>>
    BY DEF Frame
  <1>4. ctl.p = Running /\ ctl.op = "call"
    BY <1>1 DEF Enters, TreeInv
  <1>5. Frame.p.type \in Nested /\ ctl'.op = "call" /\ ctl'.p = Child(Frame)
    BY <1>3 DEF CallApply, CallExpect, CallOr, CallAnd, Enter, Calls, Call, Child, Nested
  <1>6. IsFrame(Frame)
    <2>1. Frame.p.type \in {"OR", "AND"} => 0 < Len(Frame.p.xs)
      BY <1>3, <1>4, RunningIs DEF Composes, FitAll
    <2> QED BY <1>3, <1>4, <1>5, <2>1, RunningIs DEF IsFrame
  <1>7. Gathers(Frame)
    <2>1. AllLeaves(<<>>) = <<>> /\ Spells(<<>>, state.pos, state.pos)
      BY RunningIs, SpellsNothing, FlatMapNone DEF AllLeaves, Position
    <2>2. <<>> \in Seq(TreesTo[Yields[Frame.p]]) /\ Len(<<>>) = 0
      BY EmptySeq
    <2> HIDE DEF Frame
    <2> QED BY <1>3, <2>1, <2>2, RunningIs DEF Gathers
  <1>8. Frame.p = IF n + 1 = 1 THEN Parsers[Start] ELSE Child(stack[n])
    BY <1>2, <1>3, <1>4, RunningIs DEF Running, Top, IsStack
  <1>9. \A i \in 1..(n + 1) : FrameFits(i)'
    <2> HIDE DEF Frame
    <2>1. ASSUME NEW i \in 1..n PROVE FrameFits(i)'
      <3>1. i \in Nat \ {0} /\ FrameFits(i)
        BY <1>2, <2>1 DEF TreeInv
      <3>2. stack'[i] = stack[i] /\ (i # 1 => stack'[i - 1] = stack[i - 1])
        BY <1>2, <2>1
      <3> QED BY <1>1, <3>1, <3>2, FrameKept
    <2>2. FrameFits(n + 1)'
      <3>1. Gathers(stack[n + 1])'
        BY <1>1, <1>2, <1>7, FixedText
      <3>2. n + 1 # 1 => stack'[n] = stack[n] /\ (n + 1) - 1 = n
        BY <1>2
      <3>3. IsFrame(stack'[n + 1])
        BY <1>2, <1>6
      <3>4. stack'[n + 1].p = IF n + 1 = 1 THEN Parsers[Start] ELSE Child(stack'[(n + 1) - 1])
        BY <1>2, <1>8, <3>2
      <3> QED BY <1>2, <3>1, <3>3, <3>4 DEF FrameFits
    <2>3. \A i \in 1..(n + 1) : i \in 1..n \/ i = n + 1
      BY <1>2
    <2> QED BY <2>1, <2>2, <2>3
  <1>10. Running' = Child(Frame)
    BY <1>2 DEF Running, Top
  <1> QED BY <1>2, <1>5, <1>9, <1>10 DEF TreeInv, Succeeded

(* What a child has yielded joins what the others have.                     *)
LEMMA ResultFolds ==
  ASSUME MpcInv, TreeInv, stack # <<>>, Succeeded, FoldsTrees(Top.p)
  PROVE  LET k == Yields[Top.p]
         IN  /\ k \in Nat /\ 0 < k /\ k <= TreeHeight
             /\ Result \in Seq(TreesTo[k]) /\ Len(Result) = Top.j + 1
             /\ Spells(AllLeaves(Result), Top.start.pos, state.pos)
  <1> DEFINE k == Yields[Top.p]
             h == Yields[Running]
             T == TreesTo[k]
  <1>1. /\ IsFrame(Top) /\ Gathers(Top) /\ Top.j \in Nat /\ Running = Child(Top)
        /\ Here = Top.from /\ Top.start \in Position /\ Top.from \in Position
    BY TopIs
  <1>2. k \in AString..TreeHeight /\ k > 0 /\ h \in 0..k
    BY <1>1, ChildFits DEF FoldsTrees
  <1>3. k \in Nat /\ 0 < k /\ k <= TreeHeight /\ h \in Nat /\ h <= k /\ h >= 0 /\ TreeHeight \in Nat
    BY <1>2, GrammarAssumption DEF AString
  <1>4. Carries(ctl.v, h, Top.from, state)
    BY <1>1 DEF TreeInv
  <1>5. ctl.v \in TreesTo[h] /\ Spells(Leaves[ctl.v], Top.from.pos, state.pos)
    BY <1>3, <1>4 DEF Carries
  <1>6. ctl.v \in T
    BY <1>3, <1>5, TreesGrow
  <1>7. T \subseteq Trees
    BY <1>3, TreesGrow DEF Trees
  <1>8. /\ Top.xs \in Seq(T) /\ Len(Top.xs) = Top.j
        /\ Spells(AllLeaves(Top.xs), Top.start.pos, Top.from.pos)
    BY <1>1 DEF Gathers
  <1> HIDE DEF k, h, T
  <1>9. Result \in Seq(T) /\ Len(Result) = Top.j + 1
    BY <1>6, <1>8 DEF Result
  <1>10. Top.xs \in Seq(Trees) /\ ctl.v \in Trees
    BY <1>6, <1>7, <1>8
  <1>11. AllLeaves(Result) = AllLeaves(Top.xs) \o Leaves[ctl.v]
    BY <1>10, AllLeavesGrow, Zenon DEF Result
  <1>12. Top.start.pos \in Nat /\ Top.from.pos \in Nat /\ state.pos \in Nat
    BY <1>1, RunningIs DEF Position
  <1>13. Spells(AllLeaves(Top.xs) \o Leaves[ctl.v], Top.start.pos, state.pos)
    BY <1>5, <1>8, <1>12, SpellsOn
  <1> QED BY <1>3, <1>9, <1>11, <1>13 DEF k, T

(* The first child of a state_ast yields the position, and takes nothing.   *)
LEMMA ResultPuts ==
  ASSUME MpcInv, TreeInv, stack # <<>>, Succeeded, PutsState(Top.p), Top.j = 0
  PROVE  state = Top.start /\ Result = <<Top.start>>
  <1>1. /\ IsFrame(Top) /\ Gathers(Top) /\ Top.j \in Nat /\ Running = Child(Top)
        /\ Here = Top.from
    BY TopIs
  <1>2. Yields[Running] = APosition
    BY <1>1, ChildFits DEF PutsState
  <1>3. Carries(ctl.v, APosition, Top.from, state)
    BY <1>1, <1>2 DEF TreeInv
  <1>4. ctl.v = Top.from /\ state = Top.from
    BY <1>3 DEF Carries
  <1>5. Top.from = Top.start /\ Top.xs = <<>>
    BY <1>1 DEF Gathers, PutsState
  <1>6. Append(<<>>, Top.start) = <<Top.start>>
    OBVIOUS
  <1> QED BY <1>4, <1>5, <1>6 DEF Result

(* A parser goes on with its next child.                                    *)
GoesOn == Many1Next \/ AndNext \/ (OrFails /\ Top.j + 1 < Len(Top.p.xs))

LEMMA ContinuesTree ==
  ASSUME MpcInv, TreeInv, GoesOn
  PROVE  TreeInv'
  <1> PICK n \in Nat : n = Len(stack)
    BY RunningIs DEF IsStack
  <1>1. /\ stack # <<>> /\ ctl.op # "call" /\ text' = text /\ UNCHANGED <<state, last, fpos, eof, marks, suppress>>
        /\ \E xs : /\ stack' = Append(Popped, NextFrame(xs))
                   /\ FoldsTrees(Top.p) \/ PutsState(Top.p) => xs = Result
        /\ ctl'.op = "call"
        /\ ctl'.p = Resolved(IF Top.p.type \in {"OR", "AND"} THEN Top.p.xs[Top.j + 2] ELSE Top.p.x)
        /\ Top.p.type \in {"MANY1", "AND"} \/ (Top.p.type = "OR" /\ Failed)
        /\ Top.p.type \in {"OR", "AND"} => Top.j + 1 < Len(Top.p.xs)
        /\ Top.p.type # "OR" => Succeeded
    BY DEF GoesOn, Many1Next, AndNext, OrFails, GoOn, ReturnsTo, Call, Succeeded, Failed,
       FoldsTrees, PutsState, stream, input
  <1>2. PICK xs : /\ stack' = Append(Popped, NextFrame(xs))
                  /\ FoldsTrees(Top.p) \/ PutsState(Top.p) => xs = Result
    BY <1>1
  <1>3. Continues
    BY <1>1 DEF Continues
  <1>4. /\ IsStack' /\ stack' # <<>> /\ n \in Nat \ {0} /\ Len(stack') = n
        /\ \A i \in 1..(n - 1) : stack'[i] = stack[i]
    BY <1>3, RunningIs, ContinuesStack
  <1>5. stack'[n] = NextFrame(xs)
    <2>1. PICK S : stack \in Seq(S)
      BY RunningIs DEF IsStack
    <2>2. Popped \in Seq(S) /\ Len(Popped) = n - 1
      BY <1>1, <2>1, PoppedOff DEF Popped
    <2>3. stack'[Len(Popped) + 1] = NextFrame(xs)
      BY <1>2, <2>2, Pushed
    <2> QED BY <1>4, <2>2, <2>3
  <1>6. /\ NextFrame(xs).p = Top.p /\ NextFrame(xs).j = Top.j + 1 /\ NextFrame(xs).xs = xs
        /\ NextFrame(xs).start = Top.start /\ NextFrame(xs).from = state
    BY DEF NextFrame
  <1>7. /\ IsFrame(Top) /\ Gathers(Top) /\ Top.j \in Nat
        /\ Top.p = IF n = 1 THEN Parsers[Start] ELSE Child(stack[n - 1])
    BY <1>1, TopIs
  <1> DEFINE f == NextFrame(xs)
  <1> HIDE DEF f
  <1>8. f.p = Top.p /\ f.j = Top.j + 1 /\ f.xs = xs /\ f.start = Top.start /\ f.from = state
    BY <1>6 DEF f
  <1>9. IsFrame(f)
    BY <1>1, <1>7, <1>8 DEF IsFrame
  <1>10. Gathers(f)
    <2>1. IsPlace(f.start) /\ IsPlace(f.from)
      BY <1>7, <1>8, RunningIs DEF Gathers
    <2>2. CASE FoldsTrees(Top.p)
      <3>1. Succeeded /\ ~PutsState(Top.p)
        BY <1>1, <2>2 DEF FoldsTrees, PutsState
      <3>2. /\ Result \in Seq(TreesTo[Yields[Top.p]]) /\ Len(Result) = Top.j + 1
            /\ Spells(AllLeaves(Result), Top.start.pos, state.pos)
        BY <1>1, <2>2, <3>1, ResultFolds
      <3> QED BY <1>2, <1>8, <2>1, <2>2, <3>1, <3>2 DEF Gathers
    <2>3. CASE PutsState(Top.p)
      <3>1. Succeeded /\ ~FoldsTrees(Top.p)
        BY <1>1, <2>3 DEF FoldsTrees, PutsState
      <3>2. Top.j = 0
        <4>1. f.p.type = "AND" /\ Top.p.f = "state_ast" /\ Top.j + 1 < Len(Top.p.xs)
          BY <1>1, <1>8, <2>3 DEF PutsState
        <4>2. Len(Top.p.xs) = 2
          BY <1>7, <1>8, <4>1, ChildFits
        <4>3. Top.j \in Nat /\ Top.j + 1 < 2
          BY <1>7, <4>1, <4>2
        <4> QED BY <4>3
      <3>3. state = Top.start /\ Result = <<Top.start>>
        BY <1>1, <2>3, <3>1, <3>2, ResultPuts
      <3> QED BY <1>2, <1>8, <2>1, <2>3, <3>1, <3>2, <3>3 DEF Gathers
    <2>4. CASE ~FoldsTrees(Top.p) /\ ~PutsState(Top.p)
      BY <1>8, <2>1, <2>4 DEF Gathers
    <2> QED BY <2>2, <2>3, <2>4
  <1>11. \A i \in 1..n : FrameFits(i)'
    <2>1. ASSUME NEW i \in 1..(n - 1) PROVE FrameFits(i)'
      <3>1. i \in Nat \ {0} /\ FrameFits(i)
        BY <1>4, <2>1 DEF TreeInv
      <3>2. stack'[i] = stack[i] /\ (i # 1 => stack'[i - 1] = stack[i - 1])
        BY <1>4, <2>1
      <3> QED BY <1>1, <3>1, <3>2, FrameKept
    <2>2. FrameFits(n)'
      <3>1. stack'[n] = f
        BY <1>5 DEF f
      <3>2. Gathers(stack[n])'
        BY <1>1, <1>10, <3>1, FixedText
      <3>3. n # 1 => stack'[n - 1] = stack[n - 1]
        BY <1>4
      <3>4. stack'[n].p = IF n = 1 THEN Parsers[Start] ELSE Child(stack'[n - 1])
        BY <1>7, <1>8, <3>1, <3>3
      <3>5. IsFrame(stack'[n])
        BY <1>9, <3>1
      <3> QED BY <3>2, <3>4, <3>5 DEF FrameFits
    <2>3. \A i \in 1..n : i \in 1..(n - 1) \/ i = n
      BY <1>4
    <2> QED BY <2>1, <2>2, <2>3
  <1>12. Running' = Child(f)
    BY <1>4, <1>5 DEF Running, Top, f
  <1>13. ctl'.p = Child(f)
    <2>1. f.j + 1 = Top.j + 2
      BY <1>7, <1>8
    <2> QED BY <1>1, <1>8, <2>1 DEF Child
  <1> QED BY <1>1, <1>4, <1>11, <1>12, <1>13 DEF TreeInv, Succeeded

LEMMA SpellsOne ==
  ASSUME NEW b \in TreesTo[0], NEW m \in Nat, b.state.pos = m, IsPlace(b.state),
         b.contents = CString(<<text[m + 1]>>)
  PROVE  Spells(<<b>>, m, m + 1)
  <1>1. <<b>> \in Seq(TreesTo[0]) /\ Len(<<b>>) = 1 /\ <<b>>[1] = b
    BY Singleton
  <1> DEFINE ls == <<b>>
  <1>2. ls \in Seq(TreesTo[0]) /\ Len(ls) = 1 /\ ls[1] = b
    BY <1>1
  <1> HIDE DEF ls
  <1>3. Len(ls) = (m + 1) - m /\ \A i \in 1..Len(ls) : i = 1
    BY <1>2
  <1>4. m + 1 - 1 = m
    OBVIOUS
  <1>5. Spells(ls, m, m + 1)
    BY <1>2, <1>3, <1>4 DEF Spells
  <1> QED BY <1>5 DEF ls

(* mpc_parse_apply(): a character becomes a leaf, or a tree gets a root.    *)
LEMMA ApplyYields ==
  ASSUME MpcInv, TreeInv, ReturnApply, Succeeded
  PROVE  Carries(ctl'.v, Yields[Top.p], Top.start, state)
  <1> DEFINE k == Yields[Top.p]
             h == Yields[Running]
             v == ctl.v
             b == ctl'.v
             m == Top.start.pos
  <1>1. /\ stack # <<>> /\ Top.p.type = "APPLY" /\ b = ParseApply(Top.p.f, v)
    BY DEF ReturnApply, ReturnsTo, Leave, Ok
  <1>2. /\ IsFrame(Top) /\ Top.j \in Nat /\ Running = Child(Top)
        /\ Here = Top.start /\ Top.start \in Position
    BY <1>1, TopIs
  <1>3. Carries(v, h, Top.start, state)
    BY <1>2 DEF TreeInv
  <1>4. \/ Top.p.f = "str_ast" /\ k = ALeaf /\ h = AString
        \/ Top.p.f = "ast_add_root" /\ k > 0 /\ h \in 0..(k - 1)
    BY <1>1, <1>2, ChildFits
  <1>5. k \in AString..TreeHeight
    BY <1>2, ChildFits
  <1>6. m \in Nat /\ text \in Seq(Nat)
    BY <1>2, RunningIs DEF Position
  <1> HIDE DEF k, h, b, v, m
  <1>7. CASE Top.p.f = "str_ast" /\ k = ALeaf /\ h = AString
    <2>1. m < Len(text) /\ state.pos = m + 1 /\ v = <<text[state.pos]>>
      BY <1>3, <1>7 DEF Carries, m
    <2>2. text[state.pos] \in Nat
      BY <1>6, <2>1
    <2>3. b = StrAst(<<text[state.pos]>>)
      BY <1>1, <1>7, <2>1 DEF ParseApply
    <2>4. b \in TreesTo[0] /\ b.contents = CString(<<text[state.pos]>>)
      BY <2>2, <2>3, StrAstIs
    <2> QED BY <1>7, <2>1, <2>4 DEF Carries, AString, APosition, ALeaf, m, k, b
  <1>8. CASE Top.p.f = "ast_add_root" /\ k > 0 /\ h \in 0..(k - 1)
    <2>1. /\ k \in Nat /\ k <= TreeHeight /\ 0 < k /\ h \in Nat /\ h <= k - 1 /\ k - 1 \in Nat
      BY <1>5, <1>8, GrammarAssumption DEF AString
    <2>2. v \in TreesTo[h] /\ Spells(Leaves[v], m, state.pos)
      BY <1>3, <2>1 DEF Carries, m
    <2>3. v \in TreesTo[k - 1]
      BY <2>1, <2>2, TreesGrow
    <2>4. b = AstAddRoot(v)
      BY <1>1, <1>8 DEF ParseApply
    <2>5. b \in TreesTo[k] /\ Leaves[b] = Leaves[v]
      BY <2>1, <2>3, <2>4, RootKeepsLeaves
    <2> QED BY <2>1, <2>2, <2>5 DEF Carries, AString, APosition, ALeaf, m, k, b
  <1> QED BY <1>4, <1>7, <1>8

(* mpc_parse_apply_to(): a leaf or a tree gets a name.                      *)
LEMMA ApplyToYields ==
  ASSUME MpcInv, TreeInv, ReturnApplyTo, Succeeded
  PROVE  Carries(ctl'.v, Yields[Top.p], Top.start, state)
  <1> DEFINE k == Yields[Top.p]
             h == Yields[Running]
             v == ctl.v
             b == ctl'.v
             m == Top.start.pos
  <1>1. stack # <<>> /\ Top.p.type = "APPLY_TO" /\ b = ParseApplyTo(Top.p.f, v, Top.p.d)
    BY DEF ReturnApplyTo, ReturnsTo, Leave, Ok
  <1>2. /\ IsFrame(Top) /\ Top.j \in Nat /\ Running = Child(Top)
        /\ Here = Top.start /\ Top.start \in Position
    BY <1>1, TopIs
  <1>3. Carries(v, h, Top.start, state)
    BY <1>2 DEF TreeInv
  <1>4. /\ k \in AString..TreeHeight /\ h \in {k} \cup 0..k /\ k >= ALeaf
        /\ Top.p.f \in {"ast_tag", "ast_add_tag"} /\ Top.p.d \in Names
    BY <1>1, <1>2, ChildFits
  <1>5. b = AstTag(v, Top.p.d) \/ b = AstAddTag(v, Top.p.d)
    BY <1>1, <1>4 DEF ParseApplyTo
  <1>6. TreeHeight \in Nat /\ 0 \in Nat /\ 0 <= TreeHeight
    BY GrammarAssumption
  <1>7. Carries(v, k, Top.start, state)
    BY <1>3, <1>4, CarriesMore
  <1> HIDE DEF k, h, b, v, m
  <1>8. CASE k = ALeaf
    <2>1. v \in TreesTo[0] /\ v.contents = CString(<<text[state.pos]>>)
      BY <1>7, <1>8 DEF Carries
    <2>2. b \in TreesTo[0] /\ b.contents = v.contents
      BY <1>4, <1>5, <1>6, <2>1, TagsKeepLeaves
    <2> QED BY <1>7, <1>8, <2>1, <2>2 DEF Carries, AString, APosition, ALeaf, b, k
  <1>9. CASE k # ALeaf
    <2>1. k \in Nat /\ k <= TreeHeight /\ k >= 0
      BY <1>4, <1>6, <1>9 DEF ALeaf, AString
    <2>2. v \in TreesTo[k] /\ Spells(Leaves[v], m, state.pos)
      BY <1>7, <2>1 DEF Carries, m
    <2>3. b \in TreesTo[k] /\ Bare(Leaves[b]) = Bare(Leaves[v])
      BY <1>4, <1>5, <2>1, <2>2, TagsKeepLeaves
    <2>4. Leaves[b] \in Seq(TreesTo[0])
      BY <2>1, <2>3, <1>6, TreesGrow, LeavesAre DEF Trees
    <2>5. Spells(Leaves[b], m, state.pos)
      BY <2>2, <2>3, <2>4, BareSpells
    <2> QED BY <2>1, <2>3, <2>5 DEF Carries, AString, APosition, ALeaf, m, k, b
  <1> QED BY <1>8, <1>9

(* mpcf_fold_ast() on trees that spell a part of the text.                  *)
LEMMA FoldYields ==
  ASSUME NEW k \in Nat, 0 < k, k <= TreeHeight, NEW as \in Seq(TreesTo[k]), as # <<>>,
         NEW s, NEW t, Spells(AllLeaves(as), s.pos, t.pos)
  PROVE  Carries(FoldAst(as), k, s, t)
  <1> DEFINE b == FoldAst(as)
  <1>1. b \in TreesTo[k] /\ Bare(Leaves[b]) = Bare(AllLeaves(as))
    BY FoldedIs
  <1> HIDE DEF b
  <1>2. TreesTo[k] \subseteq Trees
    BY TreesGrow, GrammarAssumption DEF Trees
  <1>3. Leaves[b] \in Seq(TreesTo[0])
    BY <1>1, <1>2, LeavesAre
  <1>4. Spells(Leaves[b], s.pos, t.pos)
    BY <1>1, <1>3, BareSpells
  <1>5. Carries(b, k, s, t)
    BY <1>1, <1>4 DEF Carries, AString, APosition, ALeaf
  <1> QED BY <1>5 DEF b

(* mpcf_state_ast(): a leaf that has no place yet gets its own; a tree's    *)
(* place is where it begins already.                                        *)
LEMMA PutYields ==
  ASSUME MpcInv, TreeInv, AndOk, PutsState(Top.p)
  PROVE  Carries(ctl'.v, Yields[Top.p], Top.start, state)
  <1> DEFINE k == Yields[Top.p]
             h == Yields[Running]
             v == ctl.v
             s == Top.start
             b == ctl'.v
             m == Top.start.pos
  <1>1. /\ stack # <<>> /\ Top.p.type = "AND" /\ Top.p.f = "state_ast" /\ Succeeded
        /\ Top.j + 1 >= Len(Top.p.xs)
        /\ b = ParseFold(Top.p.f, Result)
    BY DEF AndOk, ReturnsTo, Leave, Ok, PutsState
  <1>2. /\ IsFrame(Top) /\ Gathers(Top) /\ Top.j \in Nat /\ Running = Child(Top)
        /\ Here = Top.from /\ s \in Position
    BY <1>1, TopIs
  <1>3. k \in AString..TreeHeight /\ k >= 0 /\ Len(Top.p.xs) = 2 /\ (Top.j # 0 => h = ALeaf \/ h \in 0..k)
    BY <1>1, <1>2, ChildFits
  <1>4. Top.j # 0
    <2>1. Top.j + 1 >= 2
      BY <1>1, <1>3
    <2> QED BY <2>1
  <1>5. Top.from = s /\ Top.xs = <<s>> /\ IsPlace(s)
    BY <1>1, <1>2, <1>4 DEF Gathers, PutsState
  <1>6. Carries(v, h, s, state)
    BY <1>1, <1>2, <1>5 DEF TreeInv
  <1>7. Result = Append(<<s>>, v)
    BY <1>5 DEF Result
  <1>8. Append(<<s>>, v)[1] = s /\ Append(<<s>>, v)[2] = v
    OBVIOUS
  <1>9. b = AstState(v, s)
    BY <1>1, <1>7, <1>8 DEF ParseFold
  <1>10. k \in Nat /\ k <= TreeHeight /\ 0 \in Nat /\ 0 <= k /\ 0 <= TreeHeight /\ TreeHeight \in Nat
    BY <1>3, GrammarAssumption DEF AString
  <1>11. m \in Nat /\ m = s.pos
    BY <1>2 DEF Position
  <1> HIDE DEF k, h, b, v, m, s
  <1>12. ASSUME b \in TreesTo[0], Leaves[b] = <<b>>, b.state = s,
                b.contents = CString(<<text[m + 1]>>), state.pos = m + 1
         PROVE  Carries(b, k, s, state)
    <2>1. b \in TreesTo[k]
      BY <1>10, <1>12, TreesGrow
    <2>2. Spells(Leaves[b], m, state.pos)
      BY <1>5, <1>11, <1>12, SpellsOne
    <2> QED BY <1>10, <1>11, <2>1, <2>2 DEF Carries, AString, APosition, ALeaf
  <1>13. CASE h = ALeaf
    <2>1. /\ v \in TreesTo[0] /\ v.contents = CString(<<text[state.pos]>>)
          /\ state.pos = m + 1
      BY <1>6, <1>11, <1>13 DEF Carries
    <2>2. v.children = <<>>
      BY <2>1, TreeParts
    <2>3. b \in TreesTo[0] /\ b.contents = v.contents /\ b.state = s /\ Leaves[b] = <<b>>
      BY <1>2, <1>9, <1>10, <2>1, <2>2, Replaced DEF s
    <2>4. Carries(b, k, s, state)
      BY <1>12, <2>1, <2>3
    <2> QED BY <2>4 DEF b, k, s
  <1>14. CASE h \in 0..k
    <2>1. h \in Nat /\ h <= TreeHeight /\ h >= 0 /\ h <= k
      BY <1>10, <1>14
    <2>2. v \in TreesTo[h] /\ Spells(Leaves[v], m, state.pos)
      BY <1>6, <1>11, <2>1 DEF Carries
    <2>3. /\ b \in TreesTo[h] /\ b.contents = v.contents /\ b.state = s
          /\ v.children # <<>> => Leaves[b] = Leaves[v]
          /\ v.children = <<>> => Leaves[b] = <<b>> /\ Leaves[v] = <<v>>
      BY <1>2, <1>9, <2>1, <2>2, Replaced DEF s
    <2>4. CASE v.children # <<>>
      <3>1. b \in TreesTo[k]
        BY <1>10, <2>1, <2>3, TreesGrow
      <3> QED BY <1>10, <1>11, <2>2, <2>3, <2>4, <3>1 DEF Carries, AString, APosition, ALeaf, b, k, s
    <2>5. CASE v.children = <<>>
      <3>1. v \in TreesTo[0]
        BY <2>1, <2>2, <2>5, TreeParts
      <3>2. b \in TreesTo[0]
        BY <1>2, <1>9, <1>10, <3>1, Replaced DEF s
      <3> DEFINE ls == <<v>>
      <3>3. Len(ls) = 1 /\ ls[1] = v /\ Spells(ls, m, state.pos)
        BY <2>2, <2>3, <2>5
      <3> HIDE DEF ls
      <3>4. state.pos \in Nat /\ 1 = state.pos - m /\ v.contents = CString(<<text[m + 1]>>)
        BY <3>3, RunningIs DEF Spells, Position
      <3>5. state.pos = m + 1
        BY <1>11, <3>4
      <3>6. Carries(b, k, s, state)
        BY <1>12, <2>3, <2>5, <3>2, <3>4, <3>5
      <3> QED BY <3>6 DEF b, k, s
    <2> QED BY <2>4, <2>5
  <1> QED BY <1>3, <1>4, <1>13, <1>14

(* A parser is left: what it yields is its caller's to use.                 *)
Returns ==
  \/ ReturnApply \/ ReturnApplyTo \/ ExpectOk \/ ExpectFails \/ Many1Ends \/ OrOk
  \/ (OrFails /\ ~(Top.j + 1 < Len(Top.p.xs))) \/ AndOk \/ AndFails

LEMMA ReturnsYield ==
  ASSUME MpcInv, TreeInv, Returns, Succeeded'
  PROVE  state' = state /\ Carries(ctl'.v, Yields[Top.p], Top.start, state)
  <1>1. stack # <<>>
    BY DEF Returns, ReturnApply, ReturnApplyTo, ExpectOk, ExpectFails, Many1Ends, OrOk, OrFails,
       AndOk, AndFails, ReturnsTo
  <1>2. /\ IsFrame(Top) /\ Gathers(Top) /\ Top.j \in Nat /\ Running = Child(Top)
        /\ Here = Top.from /\ Top.start \in Position /\ Top.from \in Position
    BY <1>1, TopIs
  <1>3. CASE ReturnApply
    <2>1. Succeeded /\ state' = state
      BY <1>3 DEF ReturnApply, Leave, input, Succeeded
    <2> QED BY <1>3, <2>1, ApplyYields
  <1>4. CASE ReturnApplyTo
    <2>1. Succeeded /\ state' = state
      BY <1>4 DEF ReturnApplyTo, Leave, input, Succeeded
    <2> QED BY <1>4, <2>1, ApplyToYields
  <1>5. CASE ExpectOk \/ OrOk
    <2>1. Succeeded /\ ctl' = ctl /\ state' = state /\ Top.p.type \in {"EXPECT", "OR"}
      BY <1>5 DEF ExpectOk, OrOk, ReturnsTo, Leave, input
    <2>2. Top.from = Top.start
      BY <1>1, <2>1, TopIs
    <2>3. Yields[Top.p] \in AString..TreeHeight
          /\ Yields[Running] \in {Yields[Top.p]} \cup 0..Yields[Top.p]
      BY <1>2, <2>1, ChildFits
    <2>4. Carries(ctl.v, Yields[Running], Top.start, state)
      BY <1>2, <2>1, <2>2 DEF TreeInv
    <2>5. Carries(ctl.v, Yields[Top.p], Top.start, state)
      BY <2>3, <2>4, CarriesMore
    <2> QED BY <2>1, <2>5
  <1>6. CASE Many1Ends
    <2>1. /\ ctl.op = "fail" /\ Top.p.type = "MANY1" /\ Top.j # 0 /\ state' = state
          /\ ctl'.v = ParseFold(Top.p.f, Top.xs)
      BY <1>6 DEF Many1Ends, ReturnsTo, Leave, Ok, input, Succeeded, Failed
    <2>2. state = Top.from
      BY <1>2, <2>1, RunningIs
    <2>3. /\ Top.p.f = "fold_ast" /\ Yields[Top.p] \in AString..TreeHeight /\ Yields[Top.p] > 0
      BY <1>2, <2>1, ChildFits
    <2>4. Yields[Top.p] \in Nat /\ 0 < Yields[Top.p] /\ Yields[Top.p] <= TreeHeight
      BY <2>3, GrammarAssumption DEF AString
    <2>5. /\ Top.xs \in Seq(TreesTo[Yields[Top.p]]) /\ Len(Top.xs) = Top.j
          /\ Spells(AllLeaves(Top.xs), Top.start.pos, state.pos)
      BY <1>2, <2>1, <2>2, <2>3 DEF Gathers, FoldsTrees
    <2>6. Top.xs # <<>>
      BY <2>1, <2>5
    <2>7. Carries(FoldAst(Top.xs), Yields[Top.p], Top.start, state)
      BY <2>4, <2>5, <2>6, FoldYields
    <2> QED BY <2>1, <2>3, <2>7 DEF ParseFold
  <1>7. CASE AndOk
    <2>1. /\ Succeeded /\ Top.p.type = "AND" /\ state' = state
          /\ ctl'.v = ParseFold(Top.p.f, Result)
      BY <1>7 DEF AndOk, ReturnsTo, Leave, Ok, input
    <2>2. FoldsTrees(Top.p) \/ PutsState(Top.p)
      BY <1>2, <2>1, ChildFits DEF FoldsTrees, PutsState
    <2>3. CASE FoldsTrees(Top.p)
      <3> DEFINE k == Yields[Top.p]
      <3>1. /\ k \in Nat /\ 0 < k /\ k <= TreeHeight
            /\ Result \in Seq(TreesTo[k]) /\ Len(Result) = Top.j + 1
            /\ Spells(AllLeaves(Result), Top.start.pos, state.pos)
        BY <1>1, <2>1, <2>3, ResultFolds
      <3> HIDE DEF k
      <3>2. Result # <<>>
        BY <1>2, <3>1
      <3>3. Carries(FoldAst(Result), k, Top.start, state)
        BY <3>1, <3>2, FoldYields
      <3>4. Top.p.f = "fold_ast"
        BY <2>3 DEF FoldsTrees
      <3> QED BY <2>1, <3>3, <3>4 DEF ParseFold, k
    <2>4. CASE PutsState(Top.p)
      BY <1>7, <2>1, <2>4, PutYields
    <2> QED BY <2>2, <2>3, <2>4
  <1>8. CASE ExpectFails \/ AndFails \/ (OrFails /\ ~(Top.j + 1 < Len(Top.p.xs)))
    <2>1. ~Succeeded'
      BY <1>8 DEF ExpectFails, AndFails, OrFails, Leave, Fail, Succeeded, Failed
    <2> QED BY <2>1
  <1> QED BY <1>3, <1>4, <1>5, <1>6, <1>7, <1>8 DEF Returns

LEMMA ReturnsTree ==
  ASSUME MpcInv, TreeInv, Returns
  PROVE  TreeInv'
  <1> PICK n \in Nat : n = Len(stack)
    BY RunningIs DEF IsStack
  <1>1. Exits /\ text' = text
    BY DEF Returns, ReturnApply, ReturnApplyTo, ExpectOk, ExpectFails, Many1Ends, OrOk, OrFails,
       AndOk, AndFails, ReturnsTo, Leave, Ok, Fail, Failed, Succeeded, Exits, Peeks, stream, input
  <1>2. stack # <<>> /\ ctl'.op # "call"
    BY <1>1 DEF Exits
  <1>3. /\ IsStack' /\ n \in Nat \ {0} /\ Len(stack') = n - 1
        /\ \A i \in 1..(n - 1) : stack'[i] = stack[i]
    BY <1>1, RunningIs, ExitsStack
  <1>4. \A i \in 1..(n - 1) : FrameFits(i)'
    <2> SUFFICES ASSUME NEW i \in 1..(n - 1) PROVE FrameFits(i)'
      OBVIOUS
    <2>1. i \in Nat \ {0} /\ FrameFits(i)
      BY <1>3 DEF TreeInv
    <2>2. stack'[i] = stack[i] /\ (i # 1 => stack'[i - 1] = stack[i - 1])
      BY <1>3
    <2> QED BY <1>1, <2>1, <2>2, FrameKept
  <1>5. Running' = Top.p /\ Here' = Top.start
    <2>1. /\ Top.p = IF n = 1 THEN Parsers[Start] ELSE Child(stack[n - 1])
          /\ Top.start = IF n = 1 THEN NewState ELSE stack[n - 1].from
      BY <1>2, TopIs
    <2>2. CASE n = 1
      <3>1. stack' = <<>>
        BY <1>3, <2>2 DEF IsStack
      <3> QED BY <2>1, <2>2, <3>1 DEF Running, Here
    <2>3. CASE n # 1
      <3>1. stack' # <<>> /\ stack'[n - 1] = stack[n - 1] /\ Len(stack') = n - 1
        <4>1. n - 1 # 0 /\ n - 1 \in 1..(n - 1)
          BY <1>3, <2>3
        <4>2. stack' # <<>>
          BY <1>3, <4>1
        <4> QED BY <1>3, <4>1, <4>2
      <3>2. Top' = stack[n - 1]
        BY <3>1 DEF Top
      <3> QED BY <2>1, <2>3, <3>1, <3>2 DEF Running, Here
    <2> QED BY <2>2, <2>3
  <1>6. Succeeded' => Carries(ctl.v, Yields[Running], Here, state)'
    <2> SUFFICES ASSUME Succeeded' PROVE Carries(ctl.v, Yields[Running], Here, state)'
      OBVIOUS
    <2>1. state' = state /\ Carries(ctl'.v, Yields[Top.p], Top.start, state)
      BY ReturnsYield
    <2>2. Carries(ctl'.v, Yields[Running'], Here', state')
      BY <1>5, <2>1
    <2> QED BY <1>1, <2>2, FixedText
  <1> QED BY <1>2, <1>3, <1>4, <1>6 DEF TreeInv

-----------------------------------------------------------------------------
LEMMA TreeInvInit == LoaderInit => TreeInv
  <1> SUFFICES ASSUME LoaderInit PROVE TreeInv
    OBVIOUS
  <1>1. stack = <<>> /\ ctl = Call(Parsers[Start])
    BY DEF LoaderInit, MpcInit
  <1>2. Len(stack) = 0
    BY <1>1
  <1> QED BY <1>1, <1>2 DEF TreeInv, Call, Running, Succeeded

LEMMA TreeInvStep == MpcInv /\ TreeInv /\ [MpcNext]_mpcVars => TreeInv'
  <1> SUFFICES ASSUME MpcInv, TreeInv, [MpcNext]_mpcVars PROVE TreeInv'
    OBVIOUS
  <1>1. CASE CallSingle \/ CallOneof \/ CallState
    BY <1>1, RunsTree
  <1>2. CASE CallApply \/ CallExpect \/ CallOr \/ CallAnd
    BY <1>2, EntersTree
  <1>3. CASE GoesOn
    BY <1>3, ContinuesTree
  <1>4. CASE Returns
    BY <1>4, ReturnsTree
  <1>5. CASE UNCHANGED mpcVars
    <2>1. text' = text /\ stack' = stack /\ ctl' = ctl /\ state' = state
      BY <1>5 DEF mpcVars, input
    <2>2. \A i \in 1..Len(stack') : FrameFits(i)'
      <3> SUFFICES ASSUME NEW i \in 1..Len(stack) PROVE FrameFits(i)'
        BY <2>1
      <3>1. i \in Nat \ {0} /\ FrameFits(i)
        BY RunningIs DEF TreeInv, IsStack
      <3> QED BY <2>1, <3>1, FrameKept
    <2>3. Running' = Running /\ Here' = Here
      BY <2>1 DEF Running, Here, Top
    <2>4. Succeeded' => Carries(ctl.v, Yields[Running], Here, state)'
      <3> SUFFICES ASSUME Succeeded PROVE Carries(ctl.v, Yields[Running], Here, state)'
        BY <2>1 DEF Succeeded
      <3>1. Carries(ctl'.v, Yields[Running'], Here', state')
        BY <2>1, <2>3 DEF TreeInv
      <3> QED BY <2>1, <3>1, FixedText
    <2> QED BY <2>1, <2>2, <2>3, <2>4 DEF TreeInv
  <1>6. MpcNext => \/ CallSingle \/ CallOneof \/ CallState
                   \/ CallApply \/ CallExpect \/ CallOr \/ CallAnd
                   \/ GoesOn \/ Returns
    BY DEF MpcNext, GoesOn, Returns
  <1> QED BY <1>1, <1>2, <1>3, <1>4, <1>5, <1>6

(* The loader parses as Mpc does, and does nothing to the parse otherwise.  *)
LEMMA LoaderRunsMpc == LoaderSpec => MpcSpec
  <1>1. LoaderInit => MpcInit
    BY DEF LoaderInit
  <1>2. [LoaderNext]_vars => [MpcNext]_mpcVars
    BY DEF LoaderNext, OpenFile, Parse, ParseDone, TooLarge, Visit, Sort, vars
  <1> QED BY <1>1, <1>2, PTL DEF LoaderSpec, MpcSpec

LEMMA TreeInvAlways == LoaderSpec => [](MpcInv /\ TreeInv)
  <1>1. LoaderSpec => []MpcInv
    BY LoaderRunsMpc, MpcAlways, PTL
  <1>2. MpcInv /\ TreeInv /\ [LoaderNext]_vars => TreeInv'
    <2>1. [LoaderNext]_vars => [MpcNext]_mpcVars
      BY DEF LoaderNext, OpenFile, Parse, ParseDone, TooLarge, Visit, Sort, vars
    <2> QED BY <2>1, TreeInvStep
  <1> QED BY <1>1, <1>2, TreeInvInit, PTL DEF LoaderSpec

(***************************************************************************)
(* Whatever grammar is put together as the assumption says, and whatever   *)
(* the file: the leaves of the tree are the characters that were taken.    *)
(***************************************************************************)
THEOREM LoaderTreeSpellsTheText == LoaderSpec => []TreeSpellsTheText
  <1>1. MpcInv /\ TreeInv => TreeSpellsTheText
    <2> SUFFICES ASSUME MpcInv, TreeInv, Parsed, Succeeded
                 PROVE  LET ls == Leaves[ctl.v]
                        IN  /\ Len(ls) = fpos
                            /\ \A i \in DOMAIN ls :
                                 /\ ls[i].state.pos = i - 1 /\ IsPlace(ls[i].state)
                                 /\ ls[i].contents = CString(<<text[i]>>)
      BY DEF TreeSpellsTheText
    <2> DEFINE ls == Leaves[ctl.v]
    <2>1. Running = Parsers[Start] /\ Here = NewState /\ NewState.pos = 0
      BY DEF Parsed, Running, Here, NewState
    <2>2. Yields[Running] \in 0..TreeHeight /\ TreeHeight \in Nat
      BY <2>1, GrammarAssumption
    <2>3. Carries(ctl.v, Yields[Running], Here, state)
      BY DEF TreeInv
    <2>4. Yields[Running] >= 0
      BY <2>2
    <2>5. Spells(ls, 0, state.pos)
      BY <2>1, <2>3, <2>4 DEF Carries
    <2> HIDE DEF ls
    <2>6. state.pos = fpos /\ state.pos \in Nat
      BY RunningIs DEF Position
    <2>7. ls \in Seq(TreesTo[0]) /\ Len(ls) = fpos /\ DOMAIN ls = 1..Len(ls)
      BY <2>5, <2>6 DEF Spells
    <2>8. ASSUME NEW i \in DOMAIN ls
          PROVE  /\ ls[i].state.pos = i - 1 /\ IsPlace(ls[i].state)
                 /\ ls[i].contents = CString(<<text[i]>>)
      <3>1. i \in 1..Len(ls) /\ 0 + i - 1 = i - 1 /\ 0 + i = i
        BY <2>6, <2>7
      <3> QED BY <2>5, <3>1 DEF Spells
    <2> QED BY <2>7, <2>8 DEF ls
  <1> QED BY <1>1, TreeInvAlways, PTL

-----------------------------------------------------------------------------
(***************************************************************************)
(* 4. The walk.  A step of it is at a node, and is done with the children  *)
(* before the one it counts; Passed has the leaves of those.               *)
(***************************************************************************)

Steps  == {s \in [node : Trees, child : Nat \ {0}] : s.child <= Len(s.node.children) + 1}
Earlier(s) == SubSeq(s.node.children, 1, s.child - 1)
Passed == [s \in Steps |-> AllLeaves(Earlier(s))]

First(a) == [node |-> a, child |-> 1]

(* The way down to the leftmost leaf of a, given that of lower trees.       *)
LeftmostBody(a, f) == <<First(a)>> \o IF a.children = <<>> THEN <<>> ELSE f[a.children[1]]

LEMMA FirstStep ==
  ASSUME NEW a \in Trees
  PROVE  First(a) \in Steps /\ First(a).node = a /\ First(a).child = 1
  <1>1. a.children \in Seq(Trees)
    BY ChildrenAreLower
  <1>2. 1 <= Len(a.children) + 1
    BY <1>1
  <1>3. First(a) \in [node : Trees, child : Nat \ {0}] /\ First(a).node = a /\ First(a).child = 1
    BY DEF First
  <1> QED BY <1>2, <1>3 DEF Steps

LEMMA LeftmostBodyIs ==
  ASSUME NEW a \in Trees
  PROVE  /\ \A f \in [Trees -> Seq(Steps)] : LeftmostBody(a, f) \in Seq(Steps)
         /\ \A f, g : (\A b \in Trees : HeightOf[b] < HeightOf[a] => f[b] = g[b])
                        => LeftmostBody(a, f) = LeftmostBody(a, g)
  <1>1. CASE a.children = <<>>
    <2>1. <<First(a)>> \in Seq(Steps)
      BY FirstStep, Singleton
    <2> DEFINE s == <<First(a)>>
    <2>2. s \in Seq(Steps)
      BY <2>1
    <2> HIDE DEF s
    <2>3. s \o <<>> \in Seq(Steps)
      BY <2>2
    <2>4. \A f : LeftmostBody(a, f) = s \o <<>>
      BY <1>1 DEF LeftmostBody, s
    <2> QED BY <2>3, <2>4
  <1>2. CASE a.children # <<>>
    <2> DEFINE c == a.children[1]
               s == <<First(a)>>
               V == Seq(Steps)
    <2>1. a.children \in Seq(Trees) /\ 1 \in DOMAIN a.children
      BY <1>2, ChildrenAreLower
    <2>2. c \in Trees /\ HeightOf[c] < HeightOf[a]
      BY <2>1, ChildrenAreLower
    <2>3. s \in V
      BY FirstStep, Singleton
    <2>4. \A p, q \in V : p \o q \in V
      OBVIOUS
    <2> HIDE DEF s, V, c
    <2>5. \A f : LeftmostBody(a, f) = s \o f[c]
      BY <1>2 DEF LeftmostBody, s, c
    <2>6. \A f \in [Trees -> V] : f[c] \in V
      BY <2>2
    <2>7. \A f \in [Trees -> V] : LeftmostBody(a, f) \in V
      BY <2>3, <2>4, <2>5, <2>6
    <2> QED BY <2>2, <2>5, <2>7 DEF V
  <1> QED BY <1>1, <1>2

LEMMA LeftmostIs ==
  /\ Leftmost \in [Trees -> Seq(Steps)]
  /\ \A a \in Trees : Leftmost[a] = LeftmostBody(a, Leftmost)
  <1> DEFINE V == Seq(Steps)
             F == [p \in Trees \X [Trees -> V] |-> LeftmostBody(p[1], p[2])]
             B(f) == [a \in Trees |-> LeftmostBody(a, f)]
  <1>1. <<>> \in V
    OBVIOUS
  <1>2. \A a \in Trees : \A f \in [Trees -> V] : LeftmostBody(a, f) \in V
    BY LeftmostBodyIs
  <1>3. \A a \in Trees : \A f, g :
          (\A b \in Trees : HeightOf[b] < HeightOf[a] => f[b] = g[b])
            => LeftmostBody(a, f) = LeftmostBody(a, g)
    BY LeftmostBodyIs
  <1> HIDE DEF V
  <1>4. \A a \in Trees : \A f \in [Trees -> V] : F[<<a, f>>] = LeftmostBody(a, f)
    OBVIOUS
  <1>5. F \in [Trees \X [Trees -> V] -> V]
    <2>1. \A p \in Trees \X [Trees -> V] : p[1] \in Trees /\ p[2] \in [Trees -> V]
      OBVIOUS
    <2>2. \A p \in Trees \X [Trees -> V] : LeftmostBody(p[1], p[2]) \in V
      BY <1>2, <2>1
    <2> QED BY <2>2
  <1> HIDE DEF F
  <1>6. \A a \in Trees : \A f, g \in [Trees -> V] :
          (\A b \in Trees : HeightOf[b] < HeightOf[a] => f[b] = g[b]) => F[<<a, f>>] = F[<<a, g>>]
    BY <1>3, <1>4
  <1>7. IsRecursion(Trees, V, HeightOf, F)
    BY <1>1, <1>5, <1>6, Heights DEF IsRecursion
  <1>8. PICK f \in [Trees -> V] : \A a \in Trees : f[a] = F[<<a, f>>]
    BY <1>7, RecursionExists
  <1>9. f = B(f)
    BY <1>4, <1>8
  <1>10. \E g : g = B(g)
    BY <1>9
  <1>11. Leftmost = B(Leftmost)
    BY <1>10, Zenon DEF Leftmost, LeftmostBody, First
  <1>12. \A a \in Trees : Leftmost[a] = LeftmostBody(a, Leftmost)
    BY <1>11
  <1>13. Leftmost = f
    <2> DEFINE T == {a \in Trees : Leftmost[a] = f[a]}
    <2>1. ASSUME NEW a \in Trees, \A b \in Trees : HeightOf[b] < HeightOf[a] => b \in T
          PROVE  a \in T
      <3>1. LeftmostBody(a, Leftmost) = LeftmostBody(a, f)
        BY <1>3, <2>1
      <3>2. f[a] = LeftmostBody(a, f)
        BY <1>4, <1>8
      <3> QED BY <1>12, <3>1, <3>2
    <2>2. IsInductive(Trees, HeightOf, T)
      BY <2>1, Heights DEF IsInductive
    <2>3. Trees \subseteq T
      BY <2>2, MeasureInduction
    <2>4. Leftmost = [a \in Trees |-> Leftmost[a]] /\ f = [a \in Trees |-> f[a]]
      BY <1>9, <1>11
    <2> QED BY <2>3, <2>4
  <1> QED BY <1>12, <1>13 DEF V

(* What is passed as the walk goes on.                                      *)
LEMMA PassedIs ==
  ASSUME NEW s \in Steps
  PROVE  /\ s.node \in Trees /\ s.child \in Nat \ {0} /\ s.child <= Len(s.node.children) + 1
         /\ s.node.children \in Seq(Trees)
         /\ Earlier(s) \in Seq(Trees)
         /\ Passed[s] = AllLeaves(Earlier(s)) /\ Passed[s] \in Seq(TreesTo[0])
  <1>1. /\ s.node \in Trees /\ s.child \in Nat \ {0} /\ s.child <= Len(s.node.children) + 1
    BY DEF Steps
  <1>2. s.node.children \in Seq(Trees)
    BY <1>1, ChildrenAreLower
  <1>3. s.child - 1 \in 0..Len(s.node.children)
    BY <1>1, <1>2
  <1>4. Earlier(s) \in Seq(Trees)
    BY <1>2, <1>3, Fronts DEF Earlier
  <1>5. AllLeaves(Earlier(s)) \in Seq(TreesTo[0])
    BY <1>1, <1>4, AllLeavesGrow
  <1> QED BY <1>1, <1>2, <1>4, <1>5 DEF Passed

LEMMA PassedType == Passed \in [Steps -> Seq(TreesTo[0])]
  <1>1. Passed = [s \in Steps |-> Passed[s]]
    BY DEF Passed
  <1>2. \A s \in Steps : Passed[s] \in Seq(TreesTo[0])
    BY PassedIs
  <1> QED BY <1>1, <1>2

LEMMA PassedFirst ==
  ASSUME NEW s \in Steps, s.child = 1
  PROVE  Passed[s] = <<>>
  <1>1. Earlier(s) = <<>>
    BY SubSeqEmpty DEF Earlier
  <1>2. AllLeaves(<<>>) = <<>>
    BY FlatMapNone DEF AllLeaves
  <1> QED BY <1>1, <1>2, PassedIs

LEMMA PassedNext ==
  ASSUME NEW s \in Steps, s.child <= Len(s.node.children)
  PROVE  LET t == [s EXCEPT !.child = @ + 1]
             c == s.node.children[s.child]
         IN  /\ t \in Steps /\ t.node = s.node /\ t.child = s.child + 1
             /\ c \in Trees
             /\ Passed[t] = Passed[s] \o Leaves[c]
  <1> DEFINE t == [s EXCEPT !.child = @ + 1]
             c == s.node.children[s.child]
             cs == s.node.children
             k == s.child
  <1>1. /\ s.node \in Trees /\ k \in Nat \ {0} /\ k <= Len(cs) /\ cs \in Seq(Trees)
        /\ s \in [node : Trees, child : Nat \ {0}]
    BY PassedIs DEF Steps
  <1>2. t \in [node : Trees, child : Nat \ {0}] /\ t.node = s.node /\ t.child = k + 1
    BY <1>1
  <1>3. t \in Steps
    <2>1. k + 1 <= Len(cs) + 1
      BY <1>1
    <2> HIDE DEF t
    <2> QED BY <1>2, <2>1 DEF Steps
  <1>0. c = cs[k]
    OBVIOUS
  <1> HIDE DEF t, c, cs, k
  <1>4. k \in 0..Len(cs) /\ k > 0 /\ (k + 1) - 1 = k
    BY <1>1
  <1>5. /\ c \in Trees /\ SubSeq(cs, 1, k) = SubSeq(cs, 1, k - 1) \o <<c>>
    BY <1>0, <1>1, <1>4, Fronts
  <1>6. Earlier(t) = SubSeq(cs, 1, k) /\ Earlier(s) = SubSeq(cs, 1, k - 1)
    BY <1>2, <1>4 DEF Earlier, cs, k
  <1>7. <<c>> \in Seq(Trees) /\ Earlier(s) \in Seq(Trees)
    BY <1>5, PassedIs, Singleton
  <1>8. AllLeaves(Earlier(s) \o <<c>>) = AllLeaves(Earlier(s)) \o AllLeaves(<<c>>)
    BY <1>5, <1>7, AllLeavesGrow
  <1>9. AllLeaves(<<c>>) = Leaves[c]
    BY <1>5, LeavesAre, FlatMapOne DEF AllLeaves
  <1>10. Passed[t] = AllLeaves(Earlier(t)) /\ Passed[s] = AllLeaves(Earlier(s))
    BY <1>3, PassedIs
  <1>11. Passed[t] = Passed[s] \o Leaves[c]
    BY <1>5, <1>6, <1>8, <1>9, <1>10
  <1> QED BY <1>2, <1>3, <1>5, <1>11 DEF t, c, k

(* At the end of its children, a step has passed all leaves of its node;    *)
(* before, what it has passed comes before those of the next child.         *)
LEMMA PassedAll ==
  ASSUME NEW s \in Steps
  PROVE  /\ s.node.children # <<>> /\ s.child = Len(s.node.children) + 1 =>
              Passed[s] = Leaves[s.node]
         /\ s.child <= Len(s.node.children) =>
              \E r \in Seq(TreesTo[0]) :
                Leaves[s.node] = (Passed[s] \o Leaves[s.node.children[s.child]]) \o r
  <1> DEFINE cs == s.node.children
             k == s.child
             X == TreesTo[0]
  <1>1. /\ s.node \in Trees /\ k \in Nat \ {0} /\ cs \in Seq(Trees) /\ Len(cs) \in Nat
        /\ Passed[s] = AllLeaves(Earlier(s)) /\ Earlier(s) \in Seq(Trees)
    BY PassedIs
  <1>2. cs # <<>> => Leaves[s.node] = AllLeaves(cs)
    BY <1>1, LeavesAre DEF LeavesBody, AllLeaves
  <1>3. ASSUME cs # <<>>, k = Len(cs) + 1
        PROVE  Passed[s] = Leaves[s.node]
    <2>1. k - 1 = Len(cs)
      BY <1>1, <1>3
    <2>2. Earlier(s) = cs
      BY <1>1, <2>1, SubSeqFull DEF Earlier
    <2> QED BY <1>1, <1>2, <1>3, <2>2
  <1>4. ASSUME k <= Len(cs)
        PROVE  \E r \in Seq(X) : Leaves[s.node] = (Passed[s] \o Leaves[cs[k]]) \o r
    <2> DEFINE rest == SubSeq(cs, k + 1, Len(cs))
               front == SubSeq(cs, 1, k)
    <2>1. k \in 0..Len(cs) /\ k > 0 /\ cs # <<>>
      BY <1>1, <1>4
    <2>2. cs[k] \in Trees /\ front = Earlier(s) \o <<cs[k]>> /\ front \in Seq(Trees)
      <3>1. Earlier(s) = SubSeq(cs, 1, k - 1)
        BY DEF Earlier
      <3> HIDE DEF cs, k
      <3> QED BY <1>1, <2>1, <3>1, Fronts
    <2>3. rest \in Seq(Trees)
      <3>1. k + 1 \in Int /\ Len(cs) \in Int /\ \A i \in (k + 1)..Len(cs) : cs[i] \in Trees
        BY <1>1, <2>1
      <3> HIDE DEF cs, k
      <3> QED BY <3>1, SubSeqProperties
    <2>4. cs = front \o rest
      <3> HIDE DEF cs, k
      <3>1. /\ 1 \in 1..(Len(cs) + 1) /\ k \in (1 - 1)..Len(cs) /\ Len(cs) \in k..Len(cs)
        BY <1>1, <2>1
      <3>2. front \o rest = SubSeq(cs, 1, Len(cs))
        BY <1>1, <3>1, ConcatAdjacentSubSeq
      <3> QED BY <1>1, <3>2, SubSeqFull
    <2> HIDE DEF rest, front, cs, k
    <2>5. AllLeaves(front \o rest) = AllLeaves(front) \o AllLeaves(rest)
      BY <1>1, <2>2, <2>3, AllLeavesGrow
    <2>6. <<cs[k]>> \in Seq(Trees)
      BY <2>2, Singleton
    <2>7. AllLeaves(Earlier(s) \o <<cs[k]>>) = AllLeaves(Earlier(s)) \o AllLeaves(<<cs[k]>>)
      BY <1>1, <2>6, AllLeavesGrow
    <2>8. AllLeaves(<<cs[k]>>) = Leaves[cs[k]]
      BY <2>2, LeavesAre, FlatMapOne DEF AllLeaves
    <2>9. AllLeaves(rest) \in Seq(X)
      BY <1>1, <2>3, AllLeavesGrow
    <2>10. Leaves[s.node] = (Passed[s] \o Leaves[cs[k]]) \o AllLeaves(rest)
      BY <1>1, <1>2, <2>1, <2>2, <2>4, <2>5, <2>7, <2>8
    <2> QED BY <2>9, <2>10
  <1> QED BY <1>3, <1>4

(***************************************************************************)
(* A path leads down from a tree of height h: each step but the last is at *)
(* a child, and the next one at that child's node.                         *)
(***************************************************************************)
LastOf(p) == p[Len(p)]
Linked(s, t) == s.child <= Len(s.node.children) /\ t.node = s.node.children[s.child]

IsPath(p, h) ==
  /\ p \in Seq(Steps) /\ Len(p) >= 1 /\ Len(p) <= h + 1
  /\ \A i \in 1..Len(p) : p[i].node \in TreesTo[h + 1 - i]
  /\ \A i \in 1..(Len(p) - 1) : Linked(p[i], p[i + 1])

LEMMA FirstIsPath ==
  ASSUME NEW h \in Nat, h <= TreeHeight, NEW a \in TreesTo[h]
  PROVE  LET p == <<First(a)>>
         IN  IsPath(p, h) /\ Len(p) = 1 /\ p[1] = First(a) /\ LastOf(p) = First(a)
  <1> DEFINE p == <<First(a)>>
  <1>1. a \in Trees
    BY GrammarAssumption, TreesGrow DEF Trees
  <1>2. p \in Seq(Steps) /\ Len(p) = 1 /\ p[1] = First(a) /\ First(a).node = a
    BY <1>1, FirstStep, Singleton
  <1> HIDE DEF p
  <1>3. h + 1 - 1 = h /\ 1 <= h + 1
    OBVIOUS
  <1>4. \A i \in 1..Len(p) : i = 1
    BY <1>2
  <1>5. \A i \in 1..Len(p) : p[i].node \in TreesTo[h + 1 - i]
    BY <1>2, <1>3, <1>4
  <1>6. \A i \in 1..(Len(p) - 1) : FALSE
    BY <1>2
  <1>7. IsPath(p, h)
    BY <1>2, <1>3, <1>5, <1>6 DEF IsPath
  <1> QED BY <1>2, <1>7 DEF LastOf, p

LEMMA PathsJoin ==
  ASSUME NEW h \in Nat, NEW p, NEW q, IsPath(p, h), IsPath(q, h - Len(p)),
         Linked(LastOf(p), q[1])
  PROVE  /\ IsPath(p \o q, h) /\ Len(p \o q) = Len(p) + Len(q)
         /\ LastOf(p \o q) = LastOf(q)
         /\ \A i \in 1..Len(p) : (p \o q)[i] = p[i]
         /\ \A i \in 1..Len(q) : (p \o q)[Len(p) + i] = q[i]
  <1> DEFINE n == Len(p)
             m == Len(q)
             r == p \o q
  <1>1. /\ p \in Seq(Steps) /\ n >= 1 /\ n <= h + 1 /\ q \in Seq(Steps) /\ m >= 1
        /\ m <= h - n + 1
    BY DEF IsPath
  <1>2. n \in Nat \ {0} /\ m \in Nat \ {0}
    BY <1>1
  <1>3. /\ r \in Seq(Steps) /\ Len(r) = n + m
        /\ \A i \in 1..(n + m) : r[i] = IF i <= n THEN p[i] ELSE q[i - n]
    BY <1>1, ConcatProperties
  <1> HIDE DEF n, m, r
  <1>4. \A i \in 1..n : r[i] = p[i]
    BY <1>2, <1>3
  <1>5. \A i \in 1..m : r[n + i] = q[i]
    <2> SUFFICES ASSUME NEW i \in 1..m PROVE r[n + i] = q[i]
      OBVIOUS
    <2>1. n + i \in 1..(n + m) /\ ~(n + i <= n) /\ (n + i) - n = i
      BY <1>2
    <2> QED BY <1>3, <2>1
  <1>6. ASSUME NEW i \in 1..(n + m), ~(i <= n) PROVE \E k \in 1..m : i = n + k
    <2>1. i - n \in 1..m /\ i = n + (i - n)
      BY <1>2, <1>6
    <2> QED BY <2>1
  <1>7. ASSUME NEW i \in 1..Len(r) PROVE r[i].node \in TreesTo[h + 1 - i]
    <2>1. CASE i <= n
      <3>1. i \in 1..n
        BY <1>2, <1>3, <2>1
      <3> QED BY <1>4, <3>1 DEF IsPath, n
    <2>2. CASE ~(i <= n)
      <3>1. PICK k \in 1..m : i = n + k
        BY <1>3, <1>6, <2>2
      <3>2. (h - n) + 1 - k = h + 1 - i
        BY <1>2, <3>1
      <3>3. q[k].node \in TreesTo[(h - n) + 1 - k]
        BY DEF IsPath, n, m
      <3> QED BY <1>5, <3>1, <3>2, <3>3
    <2> QED BY <2>1, <2>2
  <1>8. ASSUME NEW i \in 1..(Len(r) - 1) PROVE Linked(r[i], r[i + 1])
    <2>1. CASE i < n
      <3>1. i \in 1..(n - 1) /\ i \in 1..n /\ i + 1 \in 1..n
        BY <1>2, <1>3, <2>1
      <3>2. Linked(p[i], p[i + 1])
        BY <3>1 DEF IsPath, n
      <3> QED BY <1>4, <3>1, <3>2
    <2>2. CASE i = n
      <3>1. n \in 1..n /\ 1 \in 1..m
        BY <1>2
      <3>2. r[i] = p[n] /\ r[i + 1] = q[1]
        BY <1>4, <1>5, <2>2, <3>1
      <3> QED BY <3>2 DEF LastOf, n
    <2>3. CASE i > n
      <3>1. i \in 1..(n + m) /\ ~(i <= n)
        BY <1>2, <1>3, <2>3
      <3>2. PICK k \in 1..m : i = n + k
        BY <1>6, <3>1
      <3>3. k \in 1..(m - 1) /\ k + 1 \in 1..m /\ i + 1 = n + (k + 1)
        BY <1>2, <1>3, <3>2
      <3>4. Linked(q[k], q[k + 1])
        BY <3>3 DEF IsPath, m
      <3>5. r[i + 1] = q[k + 1]
        BY <1>5, <3>3
      <3> QED BY <1>5, <3>2, <3>4, <3>5
    <2>4. i < n \/ i = n \/ i > n
      BY <1>2
    <2> QED BY <2>1, <2>2, <2>3, <2>4
  <1>9. Len(r) <= h + 1 /\ Len(r) >= 1
    BY <1>1, <1>2, <1>3 DEF n, m
  <1>10. IsPath(r, h)
    BY <1>3, <1>7, <1>8, <1>9 DEF IsPath
  <1>11. LastOf(r) = LastOf(q)
    <2>1. m \in 1..m
      BY <1>2
    <2> QED BY <1>3, <1>5, <2>1 DEF LastOf, m
  <1> QED BY <1>3, <1>4, <1>5, <1>10, <1>11 DEF n, m, r

(* The way down to a leaf.                                                  *)
Descends(p, a, h) ==
  /\ IsPath(p, h) /\ p[1] = First(a)
  /\ \A i \in 1..Len(p) : p[i].child = 1
  /\ LastOf(p).node.children = <<>>

LEMMA LeafDescends ==
  ASSUME NEW h \in Nat, h <= TreeHeight, NEW a \in TreesTo[h], a.children = <<>>
  PROVE  Descends(Leftmost[a], a, h)
  <1> DEFINE p == <<First(a)>>
  <1>1. a \in Trees
    BY GrammarAssumption, TreesGrow DEF Trees
  <1>2. IsPath(p, h) /\ Len(p) = 1 /\ p[1] = First(a) /\ LastOf(p) = First(a)
    BY FirstIsPath
  <1>3. First(a).node = a /\ First(a).child = 1
    BY <1>1, FirstStep
  <1>4. Leftmost[a] = p \o <<>>
    BY <1>1, LeftmostIs DEF LeftmostBody
  <1> HIDE DEF p
  <1>5. p \in Seq(Steps)
    BY <1>2 DEF IsPath
  <1>6. Leftmost[a] = p
    BY <1>4, <1>5, ConcatEmptySeq
  <1>7. \A i \in 1..Len(p) : i = 1
    BY <1>2
  <1> QED BY <1>2, <1>3, <1>6, <1>7 DEF Descends

LEMMA InnerDescends ==
  ASSUME NEW h \in Nat, h + 1 <= TreeHeight, NEW a \in TreesTo[h + 1], a.children # <<>>,
         NEW c, c = a.children[1], NEW q, q = Leftmost[c], c \in TreesTo[h] => Descends(q, c, h)
  PROVE  Descends(Leftmost[a], a, h + 1)
  <1> DEFINE p == <<First(a)>>
  <1> PICK k \in Nat : k = h + 1
    OBVIOUS
  <1>1. k <= TreeHeight /\ k - 1 = h /\ k > 0 /\ a \in TreesTo[k]
    OBVIOUS
  <1>2. a \in Trees
    BY <1>1, GrammarAssumption, TreesGrow DEF Trees
  <1>3. a.children \in Seq(TreesTo[h])
    BY <1>1, TreeParts
  <1>4. c \in TreesTo[h] /\ 1 <= Len(a.children)
    BY <1>3
  <1>5. IsPath(q, h) /\ q[1] = First(c) /\ LastOf(q).node.children = <<>>
        /\ \A i \in 1..Len(q) : q[i].child = 1
    BY <1>4 DEF Descends
  <1>6. IsPath(p, k) /\ Len(p) = 1 /\ p[1] = First(a) /\ LastOf(p) = First(a)
    BY <1>1, FirstIsPath
  <1>7. First(a).node = a /\ First(a).child = 1 /\ First(c).node = c
    BY <1>2, FirstStep DEF First
  <1>8. Leftmost[a] = p \o q
    BY <1>2, LeftmostIs DEF LeftmostBody
  <1> HIDE DEF p
  <1>9. Linked(LastOf(p), q[1])
    BY <1>4, <1>5, <1>6, <1>7 DEF Linked
  <1>10. k - Len(p) = h
    BY <1>1, <1>6
  <1>11. IsPath(q, k - Len(p))
    BY <1>5, <1>10
  <1>12. /\ IsPath(p \o q, k) /\ Len(p \o q) = Len(p) + Len(q)
         /\ (p \o q)[1] = p[1] /\ LastOf(p \o q) = LastOf(q)
         /\ \A i \in 1..Len(p) : (p \o q)[i] = p[i]
         /\ \A i \in 1..Len(q) : (p \o q)[Len(p) + i] = q[i]
    <2>1. IsPath(p, k)
      BY <1>6
    <2>2. IsPath(p \o q, k)
      BY ONLY k \in Nat, <2>1, <1>9, <1>11, PathsJoin
    <2>3. Len(p \o q) = Len(p) + Len(q)
      BY ONLY k \in Nat, <2>1, <1>9, <1>11, PathsJoin
    <2>5. LastOf(p \o q) = LastOf(q)
      BY ONLY k \in Nat, <2>1, <1>9, <1>11, PathsJoin
    <2>6. /\ \A i \in 1..Len(p) : (p \o q)[i] = p[i]
          /\ \A i \in 1..Len(q) : (p \o q)[Len(p) + i] = q[i]
      BY ONLY k \in Nat, <2>1, <1>9, <1>11, PathsJoin
    <2>7. 1 \in 1..Len(p)
      BY <1>6
    <2>8. (p \o q)[1] = p[1]
      BY <2>6, <2>7
    <2> QED BY <2>2, <2>3, <2>5, <2>6, <2>8
  <1>13. ASSUME NEW i \in 1..Len(p \o q) PROVE (p \o q)[i].child = 1
    <2>1. Len(q) \in Nat /\ Len(p \o q) = 1 + Len(q)
      BY <1>5, <1>6, <1>12 DEF IsPath
    <2>2. CASE i = 1
      BY <1>6, <1>7, <1>12, <2>2
    <2>3. CASE i # 1
      <3>1. i - 1 \in 1..Len(q) /\ Len(p) + (i - 1) = i
        BY <1>6, <2>1, <2>3
      <3>2. (p \o q)[i] = q[i - 1]
        BY <1>12, <3>1
      <3> QED BY <1>5, <3>1, <3>2
    <2> QED BY <2>2, <2>3
  <1> QED BY <1>5, <1>6, <1>8, <1>12, <1>13 DEF Descends

LEMMA LeftmostDescends ==
  \A h \in Nat : h <= TreeHeight => \A a \in TreesTo[h] : Descends(Leftmost[a], a, h)
  <1> DEFINE T == {h \in Nat : h <= TreeHeight =>
                                 \A a \in TreesTo[h] : Descends(Leftmost[a], a, h)}
  <1>1. 0 \in T
    <2> SUFFICES ASSUME 0 <= TreeHeight, NEW a \in TreesTo[0] PROVE Descends(Leftmost[a], a, 0)
      OBVIOUS
    <2>1. a.children = <<>>
      BY TreeParts
    <2> QED BY <2>1, LeafDescends
  <1>2. ASSUME NEW h \in Nat, h \in T PROVE h + 1 \in T
    <2> SUFFICES ASSUME h + 1 <= TreeHeight, NEW a \in TreesTo[h + 1]
                 PROVE  Descends(Leftmost[a], a, h + 1)
      OBVIOUS
    <2>1. h <= TreeHeight /\ h + 1 \in Nat
      BY GrammarAssumption
    <2>2. CASE a.children = <<>>
      BY <2>1, <2>2, LeafDescends
    <2>3. CASE a.children # <<>>
      <3>1. \A b \in TreesTo[h] : Descends(Leftmost[b], b, h)
        BY <1>2, <2>1
      <3> HIDE DEF T
      <3> QED BY <2>3, <3>1, InnerDescends
    <2> QED BY <2>2, <2>3
  <1> HIDE DEF T
  <1>3. Nat \subseteq T
    BY <1>1, <1>2, SetInduction
  <1> QED BY <1>3 DEF T

(***************************************************************************)
(* The leaves passed on the way to the end of a path.  They begin those of *)
(* the tree, and the leaves of the node that the path ends at come next.   *)
(***************************************************************************)
Taken(p) == FlatMap(p, Passed)

LEMMA TakenJoin ==
  ASSUME NEW p \in Seq(Steps), NEW q \in Seq(Steps), NEW s \in Steps
  PROVE  /\ Taken(p) \in Seq(TreesTo[0]) /\ Taken(<<>>) = <<>>
         /\ Taken(p \o q) = Taken(p) \o Taken(q)
         /\ p \o <<s>> \in Seq(Steps)
         /\ Taken(p \o <<s>>) = Taken(p) \o Passed[s]
  <1>1. Taken(p) \in Seq(TreesTo[0])
    BY PassedType, FlatMapType DEF Taken
  <1>2. Taken(<<>>) = <<>>
    BY FlatMapNone DEF Taken
  <1>3. \A t \in Seq(Steps) : Taken(p \o t) = Taken(p) \o Taken(t)
    BY PassedType, FlatMapConcat DEF Taken
  <1> DEFINE t == <<s>>
  <1>4. t \in Seq(Steps)
    BY Singleton
  <1>5. Taken(t) = Passed[s]
    BY PassedType, FlatMapOne DEF Taken
  <1> HIDE DEF t
  <1>6. p \o t \in Seq(Steps)
    BY <1>4, ConcatProperties
  <1>7. Taken(p \o t) = Taken(p) \o Passed[s]
    BY <1>3, <1>4, <1>5
  <1> QED BY <1>1, <1>2, <1>3, <1>6, <1>7 DEF t

LEMMA TakesNothing ==
  ASSUME NEW q \in Seq(Steps), \A i \in 1..Len(q) : q[i].child = 1
  PROVE  Taken(q) = <<>>
  <1> DEFINE S == {s \in Steps : s.child = 1}
             T == {t \in Seq(Steps) : Taken(t) = <<>>}
  <1>1. <<>> \in T
    <2>1. <<>> \in Seq(Steps)
      OBVIOUS
    <2> QED BY <2>1, FlatMapNone DEF Taken
  <1>2. \A t \in Seq(S) : \A s \in S : t \in T => Append(t, s) \in T
    <2> SUFFICES ASSUME NEW t \in T, NEW s \in S PROVE Append(t, s) \in T
      OBVIOUS
    <2>1. t \in Seq(Steps) /\ s \in Steps /\ Append(t, s) \in Seq(Steps)
      OBVIOUS
    <2>2. Taken(Append(t, s)) = Taken(t) \o Passed[s]
      BY <2>1, PassedType, FlatMapAppend DEF Taken
    <2>3. Passed[s] = <<>>
      BY PassedFirst
    <2>4. Taken(Append(t, s)) = <<>>
      BY <2>2, <2>3, FlatMapNone
    <2> QED BY <2>1, <2>4
  <1>3. q \in Seq(S)
    <2>1. \A i \in 1..Len(q) : q[i] \in S
      OBVIOUS
    <2> HIDE DEF S
    <2>2. q \in [1..Len(q) -> S] /\ Len(q) \in Nat
      BY <2>1
    <2> QED BY <2>2, IsASeq
  <1> HIDE DEF S, T
  <1>4. Seq(S) \subseteq T
    BY <1>1, <1>2, SequenceInduction
  <1> QED BY <1>3, <1>4 DEF T

Ls == Seq(TreesTo[0])

LEMMA JoinsIn == \A s, t \in Ls : s \o t \in Ls
  BY DEF Ls

LEMMA JoinsOn == \A s, t, u \in Ls : (s \o t) \o u = s \o (t \o u)
  BY Associates DEF Ls

Regroups(a, b, c, d, e) ==
  (a \o ((b \o c) \o d)) \o e = ((a \o b) \o c) \o (d \o e)

LEMMA Regrouped == \A a, b, c, d, e \in Ls : Regroups(a, b, c, d, e)
  <1> SUFFICES ASSUME NEW a \in Ls, NEW b \in Ls, NEW c \in Ls, NEW d \in Ls, NEW e \in Ls
               PROVE  (a \o ((b \o c) \o d)) \o e = ((a \o b) \o c) \o (d \o e)
    BY Zenon DEF Regroups
  <1> DEFINE bc == b \o c
  <1>1. bc \in Ls /\ a \o b \in Ls
    BY JoinsIn, Zenon
  <1>2. (a \o b) \o c \in Ls
    BY <1>1, JoinsIn, Zenon
  <1>3. (a \o b) \o c = a \o bc
    BY JoinsOn, Zenon
  <1>4. (a \o bc) \o d = a \o (bc \o d)
    <2>1. a \in Ls /\ bc \in Ls /\ d \in Ls
      BY <1>1
    <2> HIDE DEF bc
    <2> QED BY ONLY <2>1, JoinsOn, Zenon
  <1>5. (((a \o b) \o c) \o d) \o e = ((a \o b) \o c) \o (d \o e)
    BY <1>2, JoinsOn, Zenon
  <1> QED BY <1>3, <1>4, <1>5, Zenon

(* The leaves passed before step i and those of its node come first of all. *)
ComeFirst(p, i) ==
  \E r \in Seq(TreesTo[0]) :
    Leaves[p[1].node] = (Taken(SubSeq(p, 1, i - 1)) \o Leaves[p[i].node]) \o r

LEMMA PathPrefix ==
  ASSUME NEW h, NEW p, IsPath(p, h), Len(p) \in Nat
  PROVE  \A i \in 1..Len(p) :
           /\ Taken(SubSeq(p, 1, i - 1)) \in Seq(TreesTo[0]) /\ p[i] \in Steps
           /\ ComeFirst(p, i)
  <1> DEFINE X == TreesTo[0]
             before(i) == Taken(SubSeq(p, 1, i - 1))
             P(i) == \E r \in Seq(X) : Leaves[p[1].node] = (before(i) \o Leaves[p[i].node]) \o r
             T == {n \in Nat : n + 1 <= Len(p) => P(n + 1)}
  <1>1. p \in Seq(Steps) /\ Len(p) \in Nat /\ Len(p) >= 1
    BY DEF IsPath
  <1>2. \A i \in 1..Len(p) : p[i] \in Steps /\ Leaves[p[i].node] \in Seq(X)
    <2>1. \A i \in 1..Len(p) : p[i] \in Steps
      BY <1>1
    <2> QED BY <2>1, PassedIs, LeavesAre
  <1>3. \A i \in 1..Len(p) : /\ SubSeq(p, 1, i - 1) \in Seq(Steps) /\ before(i) \in Seq(X)
                             /\ SubSeq(p, 1, i) = SubSeq(p, 1, i - 1) \o <<p[i]>>
    <2> SUFFICES ASSUME NEW i \in 1..Len(p)
                 PROVE  /\ SubSeq(p, 1, i - 1) \in Seq(Steps) /\ before(i) \in Seq(X)
                        /\ SubSeq(p, 1, i) = SubSeq(p, 1, i - 1) \o <<p[i]>>
      OBVIOUS
    <2>1. i \in 0..Len(p) /\ i - 1 \in 0..Len(p) /\ i > 0
      BY <1>1
    <2>2. SubSeq(p, 1, i - 1) \in Seq(Steps)
      BY <1>1, <2>1, Fronts
    <2>3. SubSeq(p, 1, i) = SubSeq(p, 1, i - 1) \o <<p[i]>>
      BY <1>1, <2>1, Fronts
    <2>4. before(i) \in Seq(X)
      BY <2>2, PassedType, FlatMapType DEF Taken
    <2> QED BY <2>2, <2>3, <2>4
  <1>4. P(1)
    <2>1. before(1) = <<>>
      <3>1. 1 - 1 = 0 /\ SubSeq(p, 1, 0) = <<>>
        BY SubSeqEmpty
      <3> QED BY <3>1, FlatMapNone DEF Taken
    <2>2. Leaves[p[1].node] \in Seq(X)
      BY <1>1, <1>2
    <2> DEFINE l == Leaves[p[1].node]
    <2>3. l = (<<>> \o l) \o <<>>
      <3> HIDE DEF l
      <3> QED BY <2>2, ConcatEmptySeq DEF l
    <2>4. <<>> \in Seq(X)
      OBVIOUS
    <2> QED BY <2>1, <2>3, <2>4
  <1>5. ASSUME NEW n \in Nat, n + 1 + 1 <= Len(p), P(n + 1) PROVE P(n + 1 + 1)
    <2> PICK i \in Nat : i = n + 1
      OBVIOUS
    <2>1. i \in 1..Len(p) /\ i + 1 \in 1..Len(p) /\ i \in 1..(Len(p) - 1) /\ (i + 1) - 1 = i
      BY <1>1, <1>5
    <2>2. PICK r \in Seq(X) : Leaves[p[1].node] = (before(i) \o Leaves[p[i].node]) \o r
      BY <1>5
    <2>3. Linked(p[i], p[i + 1])
      BY <2>1 DEF IsPath
    <2>4. PICK d \in Seq(X) :
            Leaves[p[i].node] = (Passed[p[i]] \o Leaves[p[i + 1].node]) \o d
      <3>1. p[i] \in Steps
        BY <1>2, <2>1
      <3>2. /\ p[i].child <= Len(p[i].node.children)
            /\ p[i + 1].node = p[i].node.children[p[i].child]
        BY <2>3 DEF Linked
      <3> QED BY <3>1, <3>2, PassedAll
    <2>5. before(i + 1) = before(i) \o Passed[p[i]]
      <3>1. SubSeq(p, 1, (i + 1) - 1) = SubSeq(p, 1, i - 1) \o <<p[i]>>
        BY <1>3, <2>1
      <3>2. /\ SubSeq(p, 1, i - 1) \in Seq(Steps) /\ p[i] \in Steps
        BY <1>2, <1>3, <2>1
      <3>3. \A q \in Seq(Steps) : \A s \in Steps : Taken(q \o <<s>>) = Taken(q) \o Passed[s]
        BY TakenJoin
      <3>4. Taken(SubSeq(p, 1, i - 1) \o <<p[i]>>) = Taken(SubSeq(p, 1, i - 1)) \o Passed[p[i]]
        BY <3>2, <3>3
      <3> QED BY <3>1, <3>4
    <2>6. Passed[p[i]] \in Seq(X) /\ Leaves[p[i + 1].node] \in Seq(X) /\ before(i) \in Seq(X)
      BY <1>2, <1>3, <2>1, PassedIs
    <2> HIDE DEF before
    <2>7. (before(i) \o ((Passed[p[i]] \o Leaves[p[i + 1].node]) \o d)) \o r
            = ((before(i) \o Passed[p[i]]) \o Leaves[p[i + 1].node]) \o (d \o r)
      <3> HIDE DEF X
      <3>1. /\ before(i) \in Ls /\ Passed[p[i]] \in Ls /\ Leaves[p[i + 1].node] \in Ls
            /\ d \in Ls /\ r \in Ls
        BY <2>6 DEF X, Ls
      <3>2. Regroups(before(i), Passed[p[i]], Leaves[p[i + 1].node], d, r)
        BY ONLY <3>1, Regrouped, Zenon
      <3> QED BY <3>2, Zenon DEF Regroups
    <2>8. Leaves[p[1].node] = (before(i + 1) \o Leaves[p[i + 1].node]) \o (d \o r)
      BY <2>2, <2>4, <2>5, <2>7
    <2>9. d \o r \in Seq(X)
      <3> HIDE DEF X
      <3> QED BY ConcatProperties
    <2> QED BY <2>8, <2>9
  <1> HIDE DEF P
  <1>6. 0 \in T
    BY <1>4
  <1>7. \A n \in Nat : n \in T => n + 1 \in T
    BY <1>1, <1>5
  <1> HIDE DEF T
  <1>8. Nat \subseteq T
    BY <1>6, <1>7, SetInduction
  <1>9. ASSUME NEW i \in 1..Len(p) PROVE P(i)
    <2>1. i - 1 \in Nat /\ (i - 1) + 1 = i /\ i <= Len(p)
      BY <1>1
    <2> QED BY <1>8, <2>1 DEF T
  <1> QED BY <1>2, <1>3, <1>9 DEF P, ComeFirst

(* A step of the walk that is done with its node's children.                *)
Done(s) == s.child = Len(s.node.children) + 1

(* The leaves that have been walked over once the end of the path has been. *)
Walked(p) == Taken(SubSeq(p, 1, Len(p) - 1)) \o Leaves[LastOf(p).node]

LEMMA PathEnd ==
  ASSUME NEW h, NEW p, IsPath(p, h), Len(p) \in Nat, Done(LastOf(p))
  PROVE  /\ LastOf(p) \in Steps /\ Taken(p) \in Seq(TreesTo[0])
         /\ LastOf(p).node.children # <<>> => Taken(p) = Walked(p)
         /\ LastOf(p).node.children = <<>> => Walked(p) = Taken(p) \o <<LastOf(p).node>>
         /\ \E r \in Seq(TreesTo[0]) : Leaves[p[1].node] = Walked(p) \o r
         /\ Len(p) = 1 => Walked(p) = Leaves[p[1].node]
  <1> DEFINE X == TreesTo[0]
             n == Len(p)
             s == p[n]
             front == SubSeq(p, 1, n - 1)
             l == Leaves[s.node]
  <1>1. p \in Seq(Steps) /\ n \in Nat /\ n \in 1..n /\ n \in 0..n /\ n - 1 \in 0..n /\ n > 0
    BY DEF IsPath
  <1>2. s \in Steps /\ Taken(front) \in Seq(X) /\ LastOf(p) = s
    BY <1>1, PathPrefix DEF LastOf
  <1>3. Walked(p) = Taken(front) \o l
    BY <1>2 DEF Walked
  <1>4. front \in Seq(Steps) /\ p = front \o <<s>>
    <2>1. front \in Seq(Steps)
      BY <1>1, Fronts
    <2>2. SubSeq(p, 1, n) = SubSeq(p, 1, n - 1) \o <<p[n]>>
      BY <1>1, Fronts
    <2>3. SubSeq(p, 1, n) = p
      BY <1>1, Fronts
    <2> QED BY <2>1, <2>2, <2>3
  <1>5. PICK r \in Seq(X) : Leaves[p[1].node] = (Taken(front) \o l) \o r
    <2>1. ComeFirst(p, n)
      BY <1>1, PathPrefix
    <2> QED BY <2>1 DEF ComeFirst
  <1>6. n = 1 => front = <<>> /\ p[1] = s
    <2> SUFFICES ASSUME n = 1 PROVE front = <<>>
      OBVIOUS
    <2>1. n - 1 = 0
      OBVIOUS
    <2> QED BY <2>1, SubSeqEmpty
  <1>7. /\ s.node \in Trees /\ s.child \in Nat \ {0} /\ Passed[s] \in Seq(X)
        /\ s.child = Len(s.node.children) + 1
    BY <1>2, PassedIs DEF Done
  <1>8. l \in Seq(X) /\ l = LeavesBody(s.node, Leaves)
    BY <1>7, LeavesAre
  <1> HIDE DEF front, l, n, X
  <1>9. Taken(p) = Taken(front) \o Passed[s]
    <2>1. \A q \in Seq(Steps) : \A t \in Steps : Taken(q \o <<t>>) = Taken(q) \o Passed[t]
      BY TakenJoin
    <2> QED BY <1>2, <1>4, <2>1
  <1>10. Taken(p) \in Seq(X)
    <2>1. \A q \in Seq(Steps) : Taken(q) \in Seq(X)
      BY PassedType, FlatMapType DEF Taken, X
    <2> QED BY <1>1, <2>1
  <1>11. s.node.children # <<>> => Taken(p) = Walked(p)
    BY <1>2, <1>3, <1>7, <1>9, PassedAll DEF l
  <1>12. ASSUME s.node.children = <<>> PROVE Walked(p) = Taken(p) \o <<s.node>>
    <2>1. s.child = 1
      BY <1>7, <1>12, EmptySeq
    <2>2. Passed[s] = <<>>
      BY <1>2, <2>1, PassedFirst
    <2>3. Taken(front) \o <<>> = Taken(front)
      BY <1>2, ConcatEmptySeq
    <2>4. l = <<s.node>>
      BY <1>8, <1>12 DEF LeavesBody
    <2> QED BY <1>3, <1>9, <2>2, <2>3, <2>4
  <1>13. n = 1 => Walked(p) = Leaves[p[1].node]
    <2> SUFFICES ASSUME n = 1 PROVE Walked(p) = l
      BY <1>6 DEF l
    <2>1. Taken(front) = <<>>
      BY <1>6, FlatMapNone DEF Taken
    <2>2. <<>> \o l = l
      BY <1>8, ConcatEmptySeq
    <2> QED BY <1>3, <2>1, <2>2
  <1>14. \E e \in Seq(X) : Leaves[p[1].node] = Walked(p) \o e
    BY <1>3, <1>5
  <1> QED BY <1>2, <1>10, <1>11, <1>12, <1>13, <1>14 DEF n, X

After(s) == [s EXCEPT !.child = @ + 1]
Climb(p) == Append(SubSeq(p, 1, Len(p) - 2), After(p[Len(p) - 1]))

LEMMA ClimbLeads ==
  ASSUME NEW h, NEW p, IsPath(p, h), Len(p) \in Nat, Len(p) # 1
  PROVE  /\ Climb(p) \in Seq(Steps) /\ Len(Climb(p)) = Len(p) - 1
         /\ LastOf(Climb(p)) = After(p[Len(p) - 1]) /\ After(p[Len(p) - 1]) \in Steps
         /\ After(p[Len(p) - 1]).node = p[Len(p) - 1].node
         /\ \A i \in 1..(Len(p) - 1) : Climb(p)[i].node = p[i].node
         /\ \A i \in 1..(Len(p) - 2) : Climb(p)[i] = p[i]
         /\ Taken(Climb(p)) = Walked(p)
  <1> DEFINE next == After(p[Len(p) - 1])
             front == SubSeq(p, 1, Len(p) - 2)
             par == p[Len(p) - 1]
             c == Climb(p)
  <1> PICK n \in Nat : n = Len(p)
    OBVIOUS
  <1> PICK m \in Nat : m = n - 2
    <2>1. n >= 1 /\ n # 1
      BY DEF IsPath
    <2> HIDE DEF next, front, par, c
    <2>2. n - 2 \in Nat
      BY <2>1
    <2> QED BY <2>2
  <1>1. /\ p \in Seq(Steps) /\ n \in 1..n /\ m + 1 \in 1..n /\ n - 1 = m + 1 /\ n = (m + 1) + 1
        /\ m \in 0..n /\ m + 1 \in 0..n /\ m + 1 > 0 /\ (m + 1) - 1 = m
        /\ m + 1 \in 1..(n - 1)
    BY DEF IsPath
  <1>2. par = p[m + 1] /\ par \in Steps /\ LastOf(p) = p[n] /\ p[n] \in Steps
    BY <1>1 DEF LastOf
  <1>3. Linked(p[m + 1], p[(m + 1) + 1])
    BY <1>1 DEF IsPath
  <1>4. Linked(par, p[n])
    BY <1>1, <1>2, <1>3
  <1>5. /\ next \in Steps /\ next.node = par.node
        /\ Passed[next] = Passed[par] \o Leaves[p[n].node]
    BY <1>2, <1>4, PassedNext DEF Linked, After
  <1>6. front = SubSeq(p, 1, m) /\ Len(p) - 1 = m + 1
    BY <1>1
  <1>7. /\ front \in Seq(Steps) /\ Len(front) = m
        /\ \A i \in 1..m : front[i] = p[i]
    BY <1>1, <1>6, Fronts
  <1>8. SubSeq(p, 1, m + 1) = front \o <<par>>
    <2>1. SubSeq(p, 1, m + 1) = SubSeq(p, 1, (m + 1) - 1) \o <<p[m + 1]>>
      BY <1>1, Fronts
    <2> QED BY <1>1, <1>2, <1>6, <2>1
  <1>9. c = Append(front, next)
    BY DEF Climb
  <1> HIDE DEF front, next, par, c
  <1>10. /\ c \in Seq(Steps) /\ Len(c) = m + 1 /\ c[m + 1] = next
         /\ \A i \in 1..m : c[i] = front[i]
    BY <1>5, <1>7, <1>9, AppendProperties
  <1>11. LastOf(c) = next
    BY <1>10 DEF LastOf
  <1>12. \A i \in 1..m : c[i] = p[i]
    BY <1>7, <1>10
  <1>13. \A i \in 1..(m + 1) : c[i].node = p[i].node
    <2> SUFFICES ASSUME NEW i \in 1..(m + 1) PROVE c[i].node = p[i].node
      OBVIOUS
    <2>1. CASE i = m + 1
      BY <1>2, <1>5, <1>10, <2>1
    <2>2. CASE i # m + 1
      <3>1. i \in 1..m
        BY <2>2
      <3> QED BY <1>12, <3>1
    <2> QED BY <2>1, <2>2
  <1>14. Taken(c) = Taken(front) \o Passed[next]
    <2>1. \A q \in Seq(Steps) : \A t \in Steps : Taken(Append(q, t)) = Taken(q) \o Passed[t]
      BY PassedType, FlatMapAppend DEF Taken
    <2> QED BY <1>5, <1>7, <1>9, <2>1
  <1>15. Walked(p) = (Taken(front) \o Passed[par]) \o Leaves[p[n].node]
    <2>1. \A q \in Seq(Steps) : \A t \in Steps : Taken(q \o <<t>>) = Taken(q) \o Passed[t]
      BY TakenJoin
    <2>2. Walked(p) = Taken(SubSeq(p, 1, m + 1)) \o Leaves[p[n].node]
      BY <1>2, <1>6 DEF Walked
    <2> QED BY <1>2, <1>7, <1>8, <2>1, <2>2
  <1>16. (Taken(front) \o Passed[par]) \o Leaves[p[n].node]
           = Taken(front) \o (Passed[par] \o Leaves[p[n].node])
    <2> DEFINE a == Taken(front)
               b == Passed[par]
               d == Leaves[p[n].node]
    <2>1. a \in Ls
      BY <1>7, PassedType, FlatMapType DEF Taken, Ls
    <2>2. b \in Ls
      BY <1>2, PassedIs DEF Ls
    <2>3. d \in Ls
      BY <1>2, PassedIs, LeavesAre DEF Ls
    <2> HIDE DEF a, b, d
    <2>4. (a \o b) \o d = a \o (b \o d)
      BY ONLY <2>1, <2>2, <2>3, JoinsOn, Zenon
    <2> QED BY <2>4, Zenon DEF a, b, d
  <1>17. Taken(c) = Walked(p)
    BY <1>5, <1>14, <1>15, <1>16
  <1> QED BY <1>1, <1>5, <1>10, <1>11, <1>12, <1>13, <1>17 DEF next, par, c

LEMMA ClimbIsPath ==
  ASSUME NEW h \in Nat, NEW p, IsPath(p, h), Len(p) \in Nat, Len(p) # 1
  PROVE  IsPath(Climb(p), h) /\ Climb(p)[1].node = p[1].node
  <1> DEFINE c == Climb(p)
  <1> PICK n \in Nat : n = Len(p)
    OBVIOUS
  <1>1. n >= 2 /\ n <= h + 1
    BY DEF IsPath
  <1>2. /\ c \in Seq(Steps) /\ Len(c) = Len(p) - 1
        /\ \A i \in 1..(Len(p) - 1) : c[i].node = p[i].node
        /\ \A i \in 1..(Len(p) - 2) : c[i] = p[i]
    BY ONLY IsPath(p, h), Len(p) \in Nat, Len(p) # 1, ClimbLeads
  <1> HIDE DEF c
  <1>3. ASSUME NEW i \in 1..Len(c) PROVE c[i].node \in TreesTo[h + 1 - i]
    <2>1. i \in 1..(n - 1) /\ i \in 1..n
      BY <1>2
    <2> QED BY <1>2, <2>1 DEF IsPath
  <1>4. ASSUME NEW i \in 1..(Len(c) - 1) PROVE Linked(c[i], c[i + 1])
    <2>1. i \in 1..(n - 2) /\ i + 1 \in 1..(n - 1) /\ i \in 1..(n - 1)
      BY <1>2
    <2>2. Linked(p[i], p[i + 1])
      BY <2>1 DEF IsPath
    <2> QED BY <1>2, <2>1, <2>2 DEF Linked
  <1>5. Len(c) >= 1 /\ Len(c) <= h + 1 /\ 1 \in 1..(n - 1)
    BY <1>1, <1>2
  <1> QED BY <1>2, <1>3, <1>4, <1>5 DEF IsPath, c

LEMMA Below ==
  ASSUME NEW p, IsPath(p, TreeHeight), NEW i \in Nat, i \in 1..Len(p), i < Len(p),
         NEW h \in Nat, h = TreeHeight - i
  PROVE  p[i].node.children \in Seq(TreesTo[h])
  <1>1. p[i].node \in TreesTo[TreeHeight + 1 - i]
    BY DEF IsPath
  <1>2. TreeHeight + 1 - i = h + 1 /\ h + 1 \in Nat /\ h + 1 > 0 /\ (h + 1) - 1 = h
    BY GrammarAssumption
  <1>3. p[i].node \in TreesTo[h + 1]
    BY <1>1, <1>2
  <1> HIDE DEF IsPath
  <1> QED BY <1>2, <1>3, TreeParts

(* Where the walk goes from its last step.                                  *)
GoesTo(t) ==
  IF t = <<>> THEN Walked(trav) = Leaves[trav[1].node]
  ELSE /\ IsPath(t, TreeHeight) /\ t[1].node = trav[1].node
       /\ Done(LastOf(t)) /\ Taken(t) = Walked(trav)

LEMMA ClimbsUp ==
  ASSUME IsPath(trav, TreeHeight), Len(trav) \in Nat, Len(trav) # 1,
         NextStep.child > Len(Parent.node.children)
  PROVE  GoesTo(Climb(trav))
  <1>1. TreeHeight \in Nat
    BY GrammarAssumption
  <1>2. IsPath(Climb(trav), TreeHeight) /\ Climb(trav)[1].node = trav[1].node
    BY <1>1, ClimbIsPath
  <1>3. /\ LastOf(Climb(trav)) = NextStep /\ NextStep \in Steps
        /\ NextStep.node = Parent.node /\ Taken(Climb(trav)) = Walked(trav)
    BY ClimbLeads DEF NextStep, Parent, After
  <1>4. /\ NextStep.child \in Nat /\ NextStep.child <= Len(NextStep.node.children) + 1
        /\ Len(NextStep.node.children) \in Nat
    BY <1>3, PassedIs
  <1>5. Done(LastOf(Climb(trav)))
    BY <1>3, <1>4 DEF Done
  <1>6. Climb(trav) # <<>>
    BY <1>2 DEF IsPath
  <1> QED BY <1>2, <1>3, <1>5, <1>6 DEF GoesTo

LEMMA GoesDown ==
  ASSUME IsPath(trav, TreeHeight), Len(trav) \in Nat, Len(trav) # 1,
         ~(NextStep.child > Len(Parent.node.children))
  PROVE  GoesTo(Climb(trav) \o Leftmost[Parent.node.children[NextStep.child]])
  <1> DEFINE c == Parent.node.children[NextStep.child]
             p == Climb(trav)
             q == Leftmost[c]
  <1> PICK n \in Nat : n = Len(trav)
    OBVIOUS
  <1>1. /\ TreeHeight \in Nat /\ n >= 2 /\ n <= TreeHeight + 1 /\ n - 1 \in Nat
        /\ n - 1 \in 1..Len(trav) /\ n - 1 < Len(trav) /\ TreeHeight - (n - 1) \in Nat
    BY GrammarAssumption DEF IsPath
  <1> PICK h \in Nat : h = TreeHeight - (n - 1)
    BY <1>1
  <1>2. IsPath(p, TreeHeight) /\ p[1].node = trav[1].node
    BY <1>1, ClimbIsPath
  <1>3. /\ LastOf(p) = NextStep /\ NextStep \in Steps /\ NextStep.node = Parent.node
        /\ Taken(p) = Walked(trav) /\ p \in Seq(Steps) /\ Len(p) = Len(trav) - 1
    BY ClimbLeads DEF NextStep, Parent, After
  <1>4. Parent.node.children \in Seq(TreesTo[h])
    BY <1>1, Below DEF Parent
  <1>5. /\ NextStep.child \in Nat \ {0} /\ NextStep.child <= Len(Parent.node.children)
    BY <1>3, <1>4, PassedIs
  <1>6. c \in TreesTo[h]
    BY <1>4, <1>5
  <1>7. h <= TreeHeight /\ TreeHeight - Len(p) = h
    BY <1>1, <1>3
  <1>8. Descends(q, c, h)
    BY <1>6, <1>7, LeftmostDescends
  <1>9. Linked(NextStep, q[1])
    <2>1. q[1] = First(c) /\ First(c).node = c
      BY <1>8 DEF Descends, First
    <2>2. c = NextStep.node.children[NextStep.child]
      BY <1>3
    <2> HIDE DEF c, p, q
    <2> QED BY <1>3, <1>5, <2>1, <2>2 DEF Linked
  <1> HIDE DEF c, p, q
  <1>10. /\ IsPath(q, TreeHeight - Len(p)) /\ Linked(LastOf(p), q[1])
         /\ q \in Seq(Steps) /\ \A i \in 1..Len(q) : q[i].child = 1
         /\ LastOf(q).node.children = <<>> /\ Len(q) >= 1
    BY <1>3, <1>7, <1>8, <1>9 DEF Descends, IsPath
  <1>11. /\ IsPath(p \o q, TreeHeight) /\ LastOf(p \o q) = LastOf(q)
    BY <1>1, <1>2, <1>10, PathsJoin
  <1>12. \A i \in 1..Len(p) : (p \o q)[i] = p[i]
    BY <1>1, <1>2, <1>10, PathsJoin
  <1>13. (p \o q)[1].node = trav[1].node
    <2>1. 1 \in 1..Len(p)
      BY <1>1, <1>3
    <2> QED BY <1>2, <1>12, <2>1
  <1>14. Done(LastOf(p \o q))
    <2>1. Len(q) \in 1..Len(q)
      BY <1>10
    <2>2. LastOf(q).child = 1
      BY <1>10, <2>1 DEF LastOf
    <2>3. Len(LastOf(q).node.children) + 1 = 1
      BY <1>10
    <2> QED BY <1>11, <2>2, <2>3 DEF Done
  <1>15. Taken(p \o q) = Walked(trav)
    <2>1. Taken(q) = <<>>
      BY <1>10, TakesNothing
    <2>2. Taken(p \o q) = Taken(p) \o Taken(q)
      <3>1. \A s, t \in Seq(Steps) : Taken(s \o t) = Taken(s) \o Taken(t)
        BY PassedType, FlatMapConcat DEF Taken
      <3> QED BY <1>3, <1>10, <3>1
    <2>3. Taken(p) \in Seq(TreesTo[0])
      BY <1>3, PassedType, FlatMapType DEF Taken
    <2>4. Taken(p) \o <<>> = Taken(p)
      BY <2>3, ConcatEmptySeq
    <2> QED BY <1>3, <2>1, <2>2, <2>4
  <1>16. p \o q # <<>>
    <2>1. Len(p \o q) >= 1
      BY <1>11 DEF IsPath
    <2> QED BY <2>1
  <1>17. GoesTo(p \o q)
    BY <1>11, <1>13, <1>14, <1>15, <1>16 DEF GoesTo
  <1> QED BY <1>17 DEF p, q, c

LEMMA WalksOn ==
  ASSUME IsPath(trav, TreeHeight), Done(LastOf(trav))
  PROVE  GoesTo(TraverseNext)
  <1>1. Len(trav) \in Nat
    BY DEF IsPath
  <1>2. Climbed = Climb(trav)
    BY DEF Climbed, Climb, After, NextStep, Parent
  <1>3. CASE Len(trav) = 1
    <2>1. Walked(trav) = Leaves[trav[1].node]
      BY <1>1, <1>3, PathEnd
    <2> QED BY <1>3, <2>1 DEF TraverseNext, LeftRoot, GoesTo
  <1>4. CASE Len(trav) # 1 /\ NextStep.child > Len(Parent.node.children)
    BY <1>1, <1>2, <1>4, ClimbsUp DEF TraverseNext
  <1>5. CASE Len(trav) # 1 /\ ~(NextStep.child > Len(Parent.node.children))
    BY <1>1, <1>2, <1>5, GoesDown DEF TraverseNext, Descended
  <1> QED BY <1>3, <1>4, <1>5

(***************************************************************************)
(* The walk and the tree.  While it goes on, trav is a path of the tree    *)
(* whose last node is next to be visited, and as many leaves have been     *)
(* walked over as the path has passed.                                     *)
(***************************************************************************)
OnTheWay ==
  IF trav = <<>> THEN walked = Len(Leaves[ctl.v])
  ELSE /\ IsPath(trav, TreeHeight) /\ trav[1].node = ctl.v
       /\ Done(LastOf(trav)) /\ walked = Len(Taken(trav))

WalkInv ==
  /\ status \in {"new", "parsing"} => trav = <<>> /\ walked = 0
  /\ status = "walking" => Parsed /\ Succeeded /\ OnTheWay
  /\ Len(trav) <= TreeHeight + 1 /\ walked \in 0..Len(text)

(* The result of a parse that succeeded.                                    *)
LEMMA ParsedTree ==
  ASSUME MpcInv, TreeInv, Parsed, Succeeded
  PROVE  /\ ctl.v \in TreesTo[TreeHeight] /\ Spells(Leaves[ctl.v], 0, fpos)
         /\ fpos \in Nat /\ fpos <= Len(text) /\ Len(text) \in Nat
  <1>1. Running = Parsers[Start] /\ Here = NewState /\ NewState.pos = 0
    BY DEF Parsed, Running, Here, NewState
  <1>2. /\ Yields[Running] \in 0..TreeHeight /\ TreeHeight \in Nat /\ Yields[Running] \in Nat
        /\ Yields[Running] <= TreeHeight /\ Yields[Running] >= 0
    BY <1>1, GrammarAssumption
  <1>3. Carries(ctl.v, Yields[Running], Here, state)
    BY DEF TreeInv
  <1>4. ctl.v \in TreesTo[Yields[Running]] /\ Spells(Leaves[ctl.v], 0, state.pos)
    BY <1>1, <1>2, <1>3 DEF Carries
  <1>5. ctl.v \in TreesTo[TreeHeight]
    BY <1>2, <1>4, TreesGrow
  <1>6. state.pos = fpos /\ fpos \in Nat /\ fpos <= Len(text) /\ Len(text) \in Nat
    <2>1. state.pos \in 0..Len(text) /\ fpos = state.pos /\ Len(text) \in Nat
      BY RunningIs DEF IsPlace
    <2> QED BY <2>1
  <1> QED BY <1>4, <1>5, <1>6

LEMMA WalkBegins ==
  ASSUME MpcInv, TreeInv, ParseDone, WalkInv
  PROVE  WalkInv'
  <1>1. CASE Succeeded
    <2>1. /\ status' = "walking" /\ trav' = Leftmost[ctl.v] /\ ctl' = ctl /\ stack' = stack
          /\ text' = text /\ walked' = walked /\ walked = 0 /\ Parsed
      BY <1>1 DEF ParseDone, WalkInv, mpcVars
    <2>2. ctl.v \in TreesTo[TreeHeight] /\ TreeHeight \in Nat /\ Len(text) \in Nat
      BY <1>1, <2>1, ParsedTree, GrammarAssumption
    <2> DEFINE q == Leftmost[ctl.v]
    <2>3. Descends(q, ctl.v, TreeHeight)
      BY <2>2, LeftmostDescends
    <2> HIDE DEF q
    <2>4. /\ IsPath(q, TreeHeight) /\ q[1].node = ctl.v /\ Len(q) >= 1 /\ Len(q) <= TreeHeight + 1
          /\ q \in Seq(Steps) /\ \A i \in 1..Len(q) : q[i].child = 1
          /\ LastOf(q).node.children = <<>>
      BY <2>3 DEF Descends, IsPath, First
    <2>5. q # <<>>
      BY <2>4
    <2>6. Done(LastOf(q))
      <3>1. Len(q) \in 1..Len(q)
        BY <2>4
      <3>2. LastOf(q).child = 1
        BY <2>4, <3>1 DEF LastOf
      <3>3. Len(LastOf(q).node.children) + 1 = 1
        BY <2>4
      <3> QED BY <3>2, <3>3 DEF Done
    <2>7. Len(Taken(q)) = 0
      BY <2>4, TakesNothing
    <2>8. trav' = q
      BY <2>1 DEF q
    <2>9. OnTheWay'
      BY <2>1, <2>4, <2>5, <2>6, <2>7, <2>8 DEF OnTheWay
    <2>10. Parsed' /\ Succeeded'
      BY <1>1, <2>1 DEF Parsed, Succeeded
    <2> QED BY <2>1, <2>2, <2>4, <2>8, <2>9, <2>10 DEF WalkInv
  <1>2. CASE ~Succeeded
    <2>1. status' = "failed" /\ trav' = trav /\ walked' = walked /\ text' = text
      BY <1>2 DEF ParseDone, mpcVars
    <2> QED BY <2>1 DEF WalkInv
  <1> QED BY <1>1, <1>2

LEMMA WalkGoesOn ==
  ASSUME MpcInv, TreeInv, Visit, WalkInv
  PROVE  WalkInv'
  <1>1. /\ status = "walking" /\ trav # <<>> /\ status' = status /\ trav' = TraverseNext
        /\ ctl' = ctl /\ stack' = stack /\ text' = text
        /\ walked' = IF Node.children = <<>> THEN walked + 1 ELSE walked
    BY DEF Visit, Visiting, mpcVars
  <1>2. /\ Parsed /\ Succeeded /\ IsPath(trav, TreeHeight) /\ trav[1].node = ctl.v
        /\ Done(LastOf(trav)) /\ walked = Len(Taken(trav))
    BY <1>1 DEF WalkInv, OnTheWay
  <1>3. Len(trav) \in Nat /\ TreeHeight \in Nat /\ Node = LastOf(trav).node
    BY <1>2, GrammarAssumption DEF IsPath, Node, LastOf
  <1>4. /\ LastOf(trav) \in Steps /\ Taken(trav) \in Seq(TreesTo[0])
        /\ LastOf(trav).node.children # <<>> => Taken(trav) = Walked(trav)
        /\ LastOf(trav).node.children = <<>> => Walked(trav) = Taken(trav) \o <<Node>>
        /\ \E r \in Seq(TreesTo[0]) : Leaves[ctl.v] = Walked(trav) \o r
    BY <1>2, <1>3, PathEnd
  <1>5. walked' = Len(Walked(trav)) /\ Walked(trav) \in Seq(TreesTo[0])
    <2>1. CASE Node.children # <<>>
      BY <1>1, <1>2, <1>3, <1>4, <2>1
    <2>2. CASE Node.children = <<>>
      <3>1. Node \in TreesTo[0]
        BY <1>3, <1>4, <2>2, PassedIs, TreeParts DEF Trees
      <3> DEFINE l == <<Node>>
      <3>2. l \in Seq(TreesTo[0]) /\ Len(l) = 1
        BY <3>1, Singleton
      <3>3. Walked(trav) = Taken(trav) \o l
        BY <1>3, <1>4, <2>2
      <3> HIDE DEF l
      <3>4. /\ Len(Taken(trav) \o l) = Len(Taken(trav)) + Len(l)
            /\ Taken(trav) \o l \in Seq(TreesTo[0])
        BY <1>4, <3>2, ConcatProperties
      <3> QED BY <1>1, <1>2, <2>2, <3>2, <3>3, <3>4
    <2> QED BY <2>1, <2>2
  <1>6. GoesTo(trav')
    BY <1>1, <1>2, WalksOn
  <1>7. OnTheWay'
    <2>1. CASE trav' = <<>>
      <3>1. Walked(trav) = Leaves[trav[1].node]
        BY <1>6, <2>1 DEF GoesTo
      <3> QED BY <1>1, <1>2, <1>5, <2>1, <3>1 DEF OnTheWay
    <2>2. CASE trav' # <<>>
      <3>1. /\ IsPath(trav', TreeHeight) /\ trav'[1].node = trav[1].node
            /\ Done(LastOf(trav')) /\ Taken(trav') = Walked(trav)
        BY <1>6, <2>2 DEF GoesTo
      <3> QED BY <1>1, <1>2, <1>5, <2>2, <3>1 DEF OnTheWay
    <2> QED BY <2>1, <2>2
  <1>8. Len(trav') <= TreeHeight + 1
    <2>1. CASE trav' = <<>>
      BY <1>3, <2>1
    <2>2. CASE trav' # <<>>
      BY <1>6, <2>2 DEF GoesTo, IsPath
    <2> QED BY <2>1, <2>2
  <1>9. walked' \in 0..Len(text')
    <2>1. PICK r \in Seq(TreesTo[0]) : Leaves[ctl.v] = Walked(trav) \o r
      BY <1>4
    <2>2. Len(Leaves[ctl.v]) = Len(Walked(trav)) + Len(r) /\ Len(r) \in Nat
          /\ Len(Walked(trav)) \in Nat
      BY <1>5, <2>1, ConcatProperties
    <2>3. Len(Leaves[ctl.v]) = fpos /\ fpos <= Len(text) /\ Len(text) \in Nat /\ fpos \in Nat
      BY <1>2, ParsedTree DEF Spells
    <2> QED BY <1>1, <1>5, <2>2, <2>3
  <1>10. Parsed' /\ Succeeded'
    BY <1>1, <1>2 DEF Parsed, Succeeded
  <1> QED BY <1>1, <1>7, <1>8, <1>9, <1>10 DEF WalkInv

(* Entries are put into the array while there is room.                      *)
EntriesFit ==
  /\ opens \in BOOLEAN
  /\ status \in {"new", "parsing", "walking", "loaded", "failed"}
  /\ status # "loaded" => Len(entries) <= MaxEntries /\ \E S : entries \in Seq(S)

LEMMA EntriesFitInit == LoaderInit => EntriesFit
  <1> SUFFICES ASSUME LoaderInit PROVE EntriesFit
    OBVIOUS
  <1>1. entries = <<>> /\ status = "new" /\ opens \in BOOLEAN
    BY DEF LoaderInit
  <1>2. Len(entries) <= MaxEntries
    BY <1>1, RoomAssumption
  <1>3. entries \in Seq({})
    BY <1>1
  <1> QED BY <1>1, <1>2, <1>3 DEF EntriesFit

LEMMA EntriesFitStep == EntriesFit /\ [LoaderNext]_vars => EntriesFit'
  <1> SUFFICES ASSUME EntriesFit, [LoaderNext]_vars PROVE EntriesFit'
    OBVIOUS
  <1>1. CASE OpenFile \/ Parse \/ ParseDone \/ TooLarge
    <2>1. /\ entries' = entries /\ opens' = opens /\ status # "loaded"
          /\ status' \in {"new", "parsing", "walking", "loaded", "failed"}
      BY <1>1 DEF OpenFile, Parse, ParseDone, TooLarge, Visiting, loaderVars, EntriesFit
    <2> QED BY <2>1 DEF EntriesFit
  <1>2. CASE Visit
    <2>1. /\ status = "walking" /\ status' = status /\ opens' = opens
          /\ entries' = IF IsEntry THEN Append(entries, StrToEntry(curr_str)) ELSE entries
          /\ ~(Len(entries) >= MaxEntries)
      BY <1>2 DEF Visit, Visiting, Full
    <2>2. PICK S : entries \in Seq(S)
      BY <2>1 DEF EntriesFit
    <2> DEFINE e == StrToEntry(curr_str)
               R == S \cup {e}
    <2>3. entries \in Seq(R) /\ e \in R
      BY <2>2
    <2>4. entries' = IF IsEntry THEN Append(entries, e) ELSE entries
      BY <2>1
    <2> HIDE DEF e, R
    <2>5. entries' \in Seq(R) /\ Len(entries') \in {Len(entries), Len(entries) + 1}
      BY <2>3, <2>4, AppendProperties
    <2>6. Len(entries') <= MaxEntries
      BY <2>1, <2>3, <2>5, RoomAssumption
    <2>7. \E T : entries' \in Seq(T)
      BY <2>5
    <2> QED BY <2>1, <2>6, <2>7 DEF EntriesFit
  <1>3. CASE Sort
    BY <1>3 DEF Sort, EntriesFit
  <1>4. CASE UNCHANGED vars
    BY <1>4 DEF vars, loaderVars, EntriesFit
  <1> QED BY <1>1, <1>2, <1>3, <1>4 DEF LoaderNext

LEMMA WalkInvInit == LoaderInit => WalkInv
  <1> SUFFICES ASSUME LoaderInit PROVE WalkInv
    OBVIOUS
  <1>1. trav = <<>> /\ walked = 0 /\ status = "new" /\ text \in Seq(Nat)
    BY MpcAssumption DEF LoaderInit, MpcInit
  <1>2. Len(trav) <= TreeHeight + 1 /\ walked \in 0..Len(text)
    BY <1>1, GrammarAssumption
  <1> QED BY <1>1, <1>2 DEF WalkInv

LEMMA WalkInvStep == MpcInv /\ TreeInv /\ WalkInv /\ [LoaderNext]_vars => WalkInv'
  <1> SUFFICES ASSUME MpcInv, TreeInv, WalkInv, [LoaderNext]_vars PROVE WalkInv'
    OBVIOUS
  <1>1. CASE OpenFile
    <2>1. /\ status = "new" /\ status' \in {"parsing", "failed"} /\ text' = text
          /\ trav' = trav /\ walked' = walked
      BY <1>1 DEF OpenFile, mpcVars
    <2> QED BY <2>1 DEF WalkInv
  <1>2. CASE Parse
    <2>1. /\ status = "parsing" /\ status' = status /\ trav' = trav /\ walked' = walked
      BY <1>2 DEF Parse, loaderVars
    <2>2. text' = text
      BY <1>2 DEF Parse, MpcNext, CallSingle, CallOneof, CallState, CallApply, CallExpect, CallOr,
         CallAnd, ReturnApply, ReturnApplyTo, ExpectOk, ExpectFails, Many1Next, Many1Ends, OrOk,
         OrFails, AndNext, AndOk, AndFails, Take
    <2> QED BY <2>1, <2>2 DEF WalkInv
  <1>3. CASE ParseDone
    BY <1>3, WalkBegins
  <1>4. CASE TooLarge
    <2>1. status' = "failed" /\ text' = text /\ trav' = trav /\ walked' = walked
      BY <1>4 DEF TooLarge, mpcVars
    <2> QED BY <2>1 DEF WalkInv
  <1>5. CASE Visit
    BY <1>5, WalkGoesOn
  <1>6. CASE Sort
    <2>1. status' = "loaded" /\ text' = text /\ trav' = trav /\ walked' = walked
      BY <1>6 DEF Sort, mpcVars
    <2> QED BY <2>1 DEF WalkInv
  <1>7. CASE UNCHANGED vars
    <2>1. /\ status' = status /\ text' = text /\ trav' = trav /\ walked' = walked
          /\ ctl' = ctl /\ stack' = stack
      BY <1>7 DEF vars, loaderVars, mpcVars
    <2> QED BY <2>1 DEF WalkInv, OnTheWay, Parsed, Succeeded
  <1> QED BY <1>1, <1>2, <1>3, <1>4, <1>5, <1>6, <1>7 DEF LoaderNext

LEMMA WalkInvAlways == LoaderSpec => [](MpcInv /\ TreeInv /\ WalkInv)
  <1>1. MpcInv /\ TreeInv /\ (MpcInv /\ TreeInv)' /\ WalkInv /\ [LoaderNext]_vars => WalkInv'
    BY WalkInvStep
  <1> QED BY <1>1, WalkInvInit, TreeInvAlways, PTL DEF LoaderSpec

(***************************************************************************)
(* The path of the walk is never longer than the tree is high, a leaf is   *)
(* never walked over twice, and the array never overflows.                 *)
(***************************************************************************)
THEOREM LoaderTypeCorrect == LoaderSpec => []LoaderTypeOK
  <1>1. LoaderSpec => []MpcTypeOK
    BY LoaderRunsMpc, MpcTypeCorrect, PTL
  <1>2. LoaderSpec => []EntriesFit
    BY EntriesFitInit, EntriesFitStep, PTL DEF LoaderSpec
  <1>3. MpcTypeOK /\ EntriesFit /\ WalkInv => LoaderTypeOK
    BY DEF EntriesFit, WalkInv, LoaderTypeOK
  <1> QED BY <1>1, <1>2, <1>3, WalkInvAlways, PTL

(***************************************************************************)
(* The walk comes by the characters of the file in their order, one after  *)
(* the other, whatever the tree looks like.                                *)
(***************************************************************************)
THEOREM LoaderWalksTheText == LoaderSpec => []WalkReadsTheText
  <1>1. MpcInv /\ TreeInv /\ WalkInv => WalkReadsTheText
    <2> SUFFICES ASSUME MpcInv, TreeInv, WalkInv PROVE WalkReadsTheText
      OBVIOUS
    <2>1. ASSUME Visiting, Node.children = <<>>
          PROVE  /\ walked < fpos /\ Node.state.pos = walked
                 /\ Node.contents = CString(<<text[walked + 1]>>)
      <3>1. /\ Parsed /\ Succeeded /\ IsPath(trav, TreeHeight) /\ trav[1].node = ctl.v
            /\ Done(LastOf(trav)) /\ walked = Len(Taken(trav))
        BY <2>1 DEF WalkInv, OnTheWay, Visiting
      <3>2. Len(trav) \in Nat /\ Node = LastOf(trav).node
        BY <3>1 DEF IsPath, Node, LastOf
      <3>3. /\ LastOf(trav) \in Steps /\ Taken(trav) \in Seq(TreesTo[0])
            /\ Walked(trav) = Taken(trav) \o <<Node>>
            /\ \E r \in Seq(TreesTo[0]) : Leaves[ctl.v] = Walked(trav) \o r
        BY <2>1, <3>1, <3>2, PathEnd
      <3>4. PICK r \in Seq(TreesTo[0]) : Leaves[ctl.v] = Walked(trav) \o r
        BY <3>3
      <3>5. Node \in TreesTo[0]
        BY <2>1, <3>2, <3>3, PassedIs, TreeParts, GrammarAssumption DEF Trees
      <3> DEFINE l == <<Node>>
                 w == Taken(trav)
      <3>6. l \in Seq(TreesTo[0]) /\ Len(l) = 1 /\ l[1] = Node
        BY <3>5, Singleton
      <3>7. Leaves[ctl.v] = (w \o l) \o r /\ w \in Seq(TreesTo[0]) /\ walked = Len(w)
        BY <3>1, <3>3, <3>4
      <3> HIDE DEF l, w
      <3>8. /\ w \o l \in Seq(TreesTo[0]) /\ Len(w \o l) = Len(w) + 1
            /\ (w \o l)[Len(w) + 1] = Node
        BY <3>6, <3>7, LastJoined
      <3>9. /\ Len((w \o l) \o r) = Len(w \o l) + Len(r)
            /\ Len(r) \in Nat /\ Len(w) \in Nat
            /\ \A i \in 1..Len(w \o l) : ((w \o l) \o r)[i] = (w \o l)[i]
        <4> DEFINE v == w \o l
        <4>1. v \in Seq(TreesTo[0])
          BY <3>8
        <4> HIDE DEF v
        <4>2. /\ Len(v \o r) = Len(v) + Len(r) /\ Len(r) \in Nat /\ Len(w) \in Nat
              /\ \A i \in 1..Len(v) : (v \o r)[i] = v[i]
          BY <3>7, <4>1, ConcatProperties
        <4> QED BY <4>2 DEF v
      <3>10. /\ walked \in Nat /\ walked + 1 <= Len(Leaves[ctl.v])
             /\ Leaves[ctl.v][walked + 1] = Node
        <4>1. Len(w) + 1 \in 1..Len(w \o l)
          BY <3>8, <3>9
        <4>2. ((w \o l) \o r)[Len(w) + 1] = Node
          BY <3>8, <3>9, <4>1
        <4>3. Len(w) + 1 <= Len((w \o l) \o r)
          BY <3>8, <3>9
        <4> QED BY <3>7, <3>9, <4>2, <4>3
      <3>11. Spells(Leaves[ctl.v], 0, fpos) /\ fpos \in Nat
        BY <3>1, ParsedTree
      <3>12. walked + 1 \in 1..Len(Leaves[ctl.v]) /\ Len(Leaves[ctl.v]) = fpos
        BY <3>10, <3>11 DEF Spells
      <3>13. /\ Leaves[ctl.v][walked + 1].state.pos = 0 + (walked + 1) - 1
             /\ Leaves[ctl.v][walked + 1].contents = CString(<<text[0 + (walked + 1)]>>)
        BY <3>11, <3>12 DEF Spells
      <3>14. 0 + (walked + 1) - 1 = walked /\ 0 + (walked + 1) = walked + 1
        BY <3>10
      <3> QED BY <3>10, <3>11, <3>12, <3>13, <3>14
    <2>2. ASSUME status = "walking", trav = <<>> PROVE walked = fpos
      <3>1. Parsed /\ Succeeded /\ walked = Len(Leaves[ctl.v])
        BY <2>2 DEF WalkInv, OnTheWay
      <3>2. Len(Leaves[ctl.v]) = fpos - 0 /\ fpos \in Nat
        BY <3>1, ParsedTree DEF Spells
      <3> QED BY <3>1, <3>2
    <2> QED BY <2>1, <2>2 DEF WalkReadsTheText
  <1> QED BY <1>1, WalkInvAlways, PTL
=============================================================================
