----------------------------- MODULE MCConsole -------------------------------
(***************************************************************************)
(* Numbers of four digits over a range of 4096, sequence numbers of two    *)
(* bits, and a line for each way a line is read.                           *)
(***************************************************************************)
EXTENDS Console

McGroups == <<1, 1, 2>>

Chars(digits) == [i \in DOMAIN digits |-> Digit(digits[i])]
Four(n) == Chars(<<n \div 1000, (n \div 100) % 10, (n \div 10) % 10, n % 10>>)
Two(n)  == Chars(<<n \div 10, n % 10>>)
Word(s) == <<SPACE>> \o s

Host   == 300
Port   == 301
Letter == 120

Send(seq, num, tech) ==
  <<SEND_REQ>> \o Word(<<Host>>) \o Word(<<Port>>) \o Word(seq) \o Word(num) \o Word(tech)

(* The numbers 0, 4 (cut to 0), -2 (wraps) and one too long, which becomes  *)
(* the last.                                                                *)
Requests ==
  {Send(<<Digit(0)>>, Four(4051), Two(2)) \o <<NEWLINE>>,
   Send(<<Digit(4)>>, Four(7000), <<DASH, Digit(1)>>),
   Send(<<TAB, VT, FF, DASH, Digit(2)>>, <<PLUS>> \o Chars(<<1, 2, 3>>), <<PLUS, Digit(5)>>),
   <<SPACE>> \o Send(Chars(<<9, 9, 9, 9, 9>>), Four(7000), Two(17))}

Refused ==
  {<<>>, <<SPACE, NEWLINE>>, <<NUL, SEND_REQ>>, <<Letter>>, <<DUMP_CONFIG>>, <<SEND_REQ>>,
   Send(<<Digit(0), CR>>, Four(4051), Two(2)), Send(<<PLUS>>, Four(4051), Two(2)),
   Send(<<Digit(0)>>, Four(4051) \o <<Digit(0)>>, Two(2)),
   Send(<<Digit(0)>>, Four(4051), <<Digit(2)>>),
   Send(<<Digit(0)>>, <<Letter>> \o Chars(<<1, 2, 3>>), Two(2)),
   Send(<<Digit(0)>>, Four(4051), <<Digit(2), Letter>>),
   Send(<<Digit(0)>>, Four(4051), Two(2)) \o Word(<<Letter>>) \o Word(<<Letter>>)}

McLines == Requests \cup Refused

McPayloads == {<<2, 4051>>, <<17, 7000 - 4096>>, <<255, 7000 - 4096>>, <<5, 123>>}

Reply(type) == Flatten(DataInfo(type, 0, 0, <<2, 1>>))

(* A verdict, an ACK, another verdict cut off and an empty one.             *)
McDatagrams == {Reply(ACC_OK), Flatten(AckInfo(0, 0)), SubSeq(Reply(NOT_PAID), 1, 4), <<>>}

McJumps == {-2, 3}
=============================================================================
