------------------------------ MODULE Commands -------------------------------
(***************************************************************************)
(* What the client's shell makes of a line (shell.c, client_commands.c):   *)
(* its tokens, the command they call, and the packet that send_req() makes *)
(* of its arguments.  A line is a sequence of characters; the names of the *)
(* commands, a host and a port stand as one character each.                *)
(***************************************************************************)
EXTENDS Entries, Packets

CONSTANTS MaxTokens,  \* MAX_N_TOKENS (100)
          LongMod     \* size of the range of unsigned long (2^64)

(* A line cut to MaxTokens tokens is never mistaken for a request.          *)
ASSUME CommandsAssumption == /\ MaxTokens \in Nat /\ MaxTokens > 6
                             /\ LongMod \in Nat
                             /\ LongMod % NumMod = 0 /\ LongMod % (MaxSeqNum + 1) = 0

Power10[k \in Nat] == IF k = 0 THEN 1 ELSE 10 * Power10[k - 1]

(* An unsigned long holds the digits of a number, as 64 bits do.            *)
ASSUME LongAssumption ==
  Power10[SUBNUM_STRLEN] <= LongMod /\ Power10[TechDigits] <= LongMod

TAB         == 9
VT          == 11
FF          == 12
CR          == 13
PLUS        == 43
DUMP_CONFIG == 256
SEND_REQ    == 257

-----------------------------------------------------------------------------
(* tokenize(): strtok() on spaces and newlines, up to a NUL.                *)
Separators == {SPACE, NEWLINE}

WithChar(s, tokens, i) ==
  IF s[i] \in Separators THEN tokens
  ELSE IF i = 1 \/ s[i - 1] \in Separators THEN Append(tokens, <<s[i]>>)
  ELSE [tokens EXCEPT ![Len(tokens)] = Append(@, s[i])]

Tokenize(line) ==
  LET s      == CString(line)
      tokens == FoldLeft(LAMBDA ts, i : WithChar(s, ts, i), <<>>, [i \in DOMAIN s |-> i])
  IN  SubSeq(tokens, 1, Min({Len(tokens), MaxTokens}))

(* lookup(), in commands[]; an empty line calls nothing.                    *)
CommandOf(tokens) ==
  CASE tokens = <<>>                 -> "none"
    [] tokens # <<>> /\ Head(tokens) = <<DUMP_CONFIG>> -> "dump_config"
    [] tokens # <<>> /\ Head(tokens) = <<SEND_REQ>>    -> "send_req"
    [] OTHER                         -> "not_found"

-----------------------------------------------------------------------------
(***************************************************************************)
(* strtoul(), base 10: white space and a sign are accepted, a number that  *)
(* is too long becomes the largest one, a negative one wraps.  It is whole *)
(* when there was a digit and nothing after the digits (`end`).            *)
(***************************************************************************)
Digits     == {Digit(n) : n \in 0..9}
WhiteSpace == {TAB, VT, FF, CR}        \* less the separators of tokens

FirstNotIn(set, s, from) ==
  Min({i \in from..Len(s) : s[i] \notin set} \cup {Len(s) + 1})

Magnitude(s) == FoldLeft(LAMBDA n, c : Min({LongMod, 10 * n + (c - Digit(0))}), 0, s)

StrToUL(s) ==
  LET sign   == FirstNotIn(WhiteSpace, s, 1)
      first  == IF sign <= Len(s) /\ s[sign] \in {PLUS, DASH} THEN sign + 1 ELSE sign
      end    == FirstNotIn(Digits, s, first)
      size   == Magnitude(SubSeq(s, first, end - 1))
  IN  [whole |-> end > first /\ end = Len(s) + 1,
       value |-> CASE size = LongMod -> LongMod - 1
                   [] size < LongMod -> (IF first > sign /\ s[sign] = DASH
                                         THEN -size ELSE size) % LongMod]

(* parse_ip_args(), after getaddrinfo(); parse_client_info().               *)
SeqNumUncut(s) == StrToUL(s).value    \* slip: kept as wide as it was read
SeqNum(s)      == StrToUL(s).value % (MaxSeqNum + 1)

IsClientInfo(num, tech) ==
  /\ Len(num) = SUBNUM_STRLEN /\ Len(tech) = TechDigits
  /\ StrToUL(num).whole /\ StrToUL(tech).whole

ClientInfo(num, tech) == [number |-> StrToUL(num).value % NumMod,
                          ttype  |-> StrToUL(tech).value % 256]

(* The arguments of send_req() that are accepted, and its packet.           *)
IsRequest(tokens) ==
  /\ CommandOf(tokens) = "send_req" /\ Len(tokens) = 6
  /\ StrToUL(tokens[4]).whole
  /\ IsClientInfo(tokens[5], tokens[6])

PayloadSwapped(info) == <<info.number, info.ttype>>  \* slip: written in the other order
Payload(info)        == <<info.ttype, info.number>>

RequestOf(tokens, id) ==
  DataInfo(ACC_PER, id, SeqNum(tokens[4]), Payload(ClientInfo(tokens[5], tokens[6])))
=============================================================================
