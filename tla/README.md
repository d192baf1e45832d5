# A TLA+ development of the subscriber access system

The repository holds a small access-control system over UDP: a **server** that
answers "may this subscriber use this technology?" from a text file, and a
**client** program with a shell from which a user sends such requests.  The
modules here model the two programs, the packets between them, the table behind
the server and the parser that fills it, check them with TLC on small instances,
and prove the main invariants of the server, client, table and loader with
TLAPS for every instance.

## 1. Inventory

| component | source | state | operations | interacts with |
|---|---|---|---|---|
| packets | `packet.h/.c`, `raw_iterator.*` | none (buffers of the callers) | `flatten`, `interpret_packet`, `try_recv`, `alert_*` | called by both programs |
| server | `server.h/.c`, `driver_server.c` | `expect_recv[256]`, `recv_buf`, `last_recvd_len`, `db` | init, run loop, check, ACK, reject, handle request | datagrams from and to clients; `lookup` |
| database | `database.h/.c` | sorted array, count | load a file, look a number up | libc `qsort`/`bsearch`; `mpc` |
| client | `client.h/.c` | `tries[255]`, socket, buffers, id | init, send and wait, handle a reply, receive with timeout | datagrams; `busy_wait_until` |
| client commands | `client_commands.*` | none | `send_req`, `dump_config`, argument parsing | client |
| busy wait | `busywait.*` | start time | poll until done or too late | `try_recv`, the wall clock |
| shell | `shell.*` | one line of input | tokenize, find and run a command | client commands |
| parser combinators | `mpc.*` (vendored, but all of the loading is done by it) | the stream, position and marks, the C stack, the furthest error, the tree | parse, traverse | database |
| helpers | `closure.*`, `generic_array.h`, `variadic_macros.h` | none | preprocessor macros | - |

What makes each correct, and what is hard about it:

* **Server.**  Each id has one expected number.  A request is accepted exactly
  when it carries it, the ACK and the verdict are about the request that was
  accepted, a duplicate is only called so if it is one, and nothing is accepted
  twice within a lap of the 8-bit counter.  Hard: the receive buffer is never
  cleared, the packet_info may be uninitialised, the counter wraps, the order of
  the tests in the check, and restarts, which forget every counter.
* **Client.**  A call returns; it gives up only after its share of timeouts.
  Hard: `tries[]` survives a call that a reply ended; it is one element short;
  replies are matched to nothing; nothing is sent again.
* **Database.**  Loading keeps every entry and sorts them; a lookup finds what is
  there.  Hard: the comparison wraps; malformed lines; a table exactly full.
* **Loader and parser.**  What the recursive descent makes of a file, character
  by character, is what the file's lines say; a refused file is refused with the
  right place and the right expectations.  Hard: backtracking with a stream, a
  position and an end-of-file flag that must agree; marks that nest; errors that
  are suppressed, kept or merged; trees that are spliced in three ways; an entry
  that fails after some of its digits were read.
* **Shell and commands.**  A line asks the server for what the same digits are in
  its file.  Hard: `strtoul()` accepts signs and white space, and its result is
  cut to 8 and 32 bits.
* **Busy wait.**  A wait is as long as the timeout and reads what was there.  Hard:
  it measures on the wall clock, which may be set meanwhile.
* **The whole.**  Whatever UDP does, an answer says what the file says about the
  request it was made for, and the client ends with the answer to its own call -
  which holds only if nothing of an earlier call is still about.

The hazards of `PROJECT.json` list these at their lines, with the properties
that cover them.

## 2. Modules

```
Packets   DbTable     Ast - Entries - Grammar      operators only
   |         |          |       |
   +- ServerHandlers    |     Commands             operators only
   |         |         Mpc      |                  mpc_parse_run() on a stream
 Client   Server        |       |
   |  \      |  `--- SequencedIntake               (Server refines it)
   |   System           |       |                  clients, network, server
 OpenClient  Database   |       |
      ^         ^       |       |
      |         `--- Loader     |                  (Loader refines Database)
      `----------------------- Console             (Console refines OpenClient)

ServerProofs, ClientProofs, ConsoleProofs                   theorems
Recursion - DbTableProofs - DatabaseProofs                  theorems
Recursion - LoaderProofs                                    theorems
ServerProofs + DbTableProofs - SystemProofs                 theorems
MCServer, MCOpenClient, MCDatabase, MCSystem, MCLoader, MCConsole   instances for TLC
```

* **Packets** (`packet.c`).  A datagram is a sequence of *cells*, one for each
  field the code reads or writes at once: `<<start, id, type, seq, len, tech,
  number, end>>` for a request.  Numbers are those of the enums.  `Interpret(buf)`
  is the *set* of results `interpret_packet()` may give for a whole buffer,
  whatever is in it: one for most buffers, many where the code leaves the caller's
  `packet_info` uninitialised.  `Overlay` is what `recvfrom()` does to a buffer.
  Reading an 8-bit field from a 16-bit cell is `%` the field's range.
* **DbTable** (`database.c`).  A file is a sequence of entries and malformed
  lines.  `Parsed` is the prefix the grammar accepts, `Loads` the capacity check,
  `Compare` the wrapped signed difference, `QSort` and `BSearch` glibc's merge
  sort and binary search, external but given step by step because with an
  inconsistent comparison their result depends on the algorithm.
* **ServerHandlers** (`server.c`): the check, the verdict and the three kinds of
  answer, as functions.
* **Server**: `Receive(d)` is one turn of `server_run()` - overlay, interpret,
  check, then `Refuse` or `Accept` with both sends and the increment between
  them.  `ReceiveEmpty` is the empty datagram that ends the loop.  `Restart`
  starts the program again, with an uninitialised buffer.  `received`, `request`,
  `sent` and `seen` are observations; no action reads them.
* **SequencedIntake**: the abstract server.  No counters: each id goes through
  the numbers in rounds, a round being a set; accept the smallest missing one,
  decline the others as duplicate or too soon.
* **Client**: one action per way through `client_send_packet()`: the send that
  enters the loop, the send with the number `tries[]` has no element for, the
  failed send, a timeout, a datagram.  `outcome`, `sends`, `waits` and `patience`
  are observations.
* **OpenClient**: clients alone, under any datagram of a set, with the properties
  of the tries.
* **System**: `Server` and `Client` composed: every step is a step of one of
  them, joined to the network.  Datagrams are records of a set, so they are
  unordered; `Taken` may leave one behind (delivered twice); `Lose` drops one.  A
  record carries the number of its call, which the program has not and no action
  reads; with it two datagrams are never confused by the model.
* **Database**: loading and lookups on the operators of DbTable.
* **Ast**, **Entries** (`mpc.c`, `database.c`): positions, errors and their
  merging, syntax trees and their folding; the digits of an entry as numbers.  A
  tag, which the code keeps as names joined by bars, is the sequence of the names.
* **Grammar** (`mpc.c`, `database.c`): the constructors `mpca_lang()` calls, its
  optimiser, and from them the parsers of the database file, as records.
* **Mpc** (`mpc_parse_run()`): the recursive descent with the C stack as a variable.
  A step is the call of a parser or the return of one into its caller; one action
  per parser type and outcome.  The stream (`fpos`, and `eof`, which stops any taking
  while it is up) and mpc's own position
  (`state`, `last`) are separate variables, as `FILE` and `mpc_input_t` are, and
  only the code's `fgetc`/`fseek` calls keep them together.  `start`, `from` and
  `at` of a frame are history.
* **Loader** (`parse_database_file()`): open, parse (the steps of Mpc), walk the
  tree in post-order gathering the characters of an entry, sort.  `trav` is the chain
  of `mpc_ast_trav_t` down to the current node.  `walked` is history: the leaves
  walked over so far.  `Trees` is the set of syntax trees up to the height
  `TreeHeight`, on which the recursive functions `Leftmost` and `Leaves` are defined;
  `Yields` says of each parser of the grammar what it yields (a string, a position, a
  leaf without a place, a tree of a height).  What a database file is, is said once
  more without a parser (`LineShape`: a sequence of character sets), and only
  properties and the refinement use that.  `Fits`, `FitAll` and `Composes`, on the kinds
`AString`, `APosition` and `ALeaf`, are vocabulary of `GrammarAssumption` and the proofs;
they stand for no code.
* **Commands** (`shell.c`, `client_commands.c`): tokens, the command table, what
  `strtoul()` accepts, the cuts to the widths of the fields, the packet.
* **Console** (`driver_client.c`, `shell.c`, `client.c`, `busywait.c`): the client
  process with a program counter, from the line that is typed to each try of the
  socket and each look at the clock.  Datagrams come in, time passes and the clock
  is set between any two steps.  Of the clock only `diff`, what it shows since the
  wait began, is kept.  `call`, `typed` and `used` are history; the run's bounds
  are guards on `used`.

* **Recursion** is about no part of the code and its lemmas say nothing of it: induction, recursion and folds over a set
  with a measure, and the lemmas about sequences (fronts, joining, flattening), from
  which the proofs about the sort, the search, the trees and their walk are made.

Definitions introduced by `\* slip:` are one-line mistakes (a late ACK, a counter
that wraps too soon, ...).  Nothing uses them; they are put in the place of the
definition below them to see that the properties notice.

## 3. Runs

| run | instance | what it shows |
|---|---|---|
| `server` | 2 ids, 4 numbers, every full request for 2 subscribers, 13 malformed or foreign datagrams, both kinds of garbage in the first buffer | types, `DupMeansReceived`, `AckNamesTheRequest`, `AcceptedIsWellFormed`, `LookedUpAsSent`, `ReacceptOnlyAfterLap`, and that the server implements SequencedIntake |
| `client` | 2 processes, 3 numbers (2 with a slot), MAX_TRIES 3, one datagram per branch of the reply handler | `GaveUpAfterWaiting`, `TriesAreTimeouts`, `ForgottenOnlyByGivingUp` |
| `database` | all files of up to 4 lines over 5 entries (a number twice, two technologies) and malformed lines, numbers within half of a range of 16 | `SortedAndComplete`, `LookupFindsPresent` |
| `system` | 2 processes with one id, 2 numbers, 2 subscribers, 3 calls, 1 fault (a repeat or a restart), any losses | `AnswersMatchTheirCall`, `OnceALap`, `QuietCallsEndTruthfully` |
| `loader` | the real grammar with 4 digits for 10 (groups of 1, 1, 2 between the dashes), 3 entries' room; a file of two lines with every character replaced by each of 7, each of the 7 inserted anywhere (but no NUL where a digit belongs), every character deleted, every prefix; files of three and four lines; a file that does not open | types and room, `GatheredFits`, `FailureConsumesNothing`, `NestingIsBalanced`, `StreamInStep`, `TreeSpellsTheText`, `WalkReadsTheText`, `ErrorIsExact`, `LoadEnds`, and that the loader implements Database |
| `console` | 17 lines (4 requests, one line for each way to be dismissed or refused), 4 datagrams (verdict, ACK, cut verdict, empty), timeout 1 tick, 3 tries, 4 sequence numbers; 2 lines, 2 datagrams, the clock set once by -2 or +3 | `AsksForWhatIsFiled`, `GivesUpNotEarly`, `QueuedAnswerIsRead`, `ConsoleEnds`, and that the program implements OpenClient |
| `seq_255` | as `client` | violated: the largest number costs the client its socket |
| `no_resend` | as `client` | violated: a call that gives up has sent once, not MAX_TRIES times |
| `repeat_at_wrap` | as `server` | violated: a repeat just after the wrap is called out of sequence |
| `stale_verdict` | as `system` | violated: a late verdict grants another subscriber's request |
| `wide_numbers` | 5 numbers spread over the whole range | violated: the search misses an entry |
| `nul_digit` | as `loader`, with a NUL byte wherever a digit belongs | violated: a file that is not of the grammar is parsed without an error |

**Bounds.**  `MaxSeqNum`, `MaxId`, `MaxLen` and `NumMod` stand for 255, 255, 255
and 2^32.  The server is finite by itself, so its run is exhaustive for its
datagrams; four numbers put distance between "just before", "just after" and
"far from" the expected one, on both sides of the wrap.  `MaxLen = 3` lets the
length field lie in both directions.  In `system` two numbers make the counter
go round within three calls, so a repeat can meet the second lap, which is the
case `OnceALap` is about; `MaxTries = 1` there, because the tries are the subject
of `client`.  `MaxCalls` and `MaxFaults` are guards of System.  The run uses a
view without the observations and the receive buffer (no guard reads the former,
and a whole request covers what is read of the latter) and the symmetry of the
two processes, which have the same id.  Five entries are the fewest for which
the search misses one without two numbers exactly half the range apart.

In `loader` the edits are chosen so that each parser of the grammar fails at each
place it can, with each kind of what comes next: NUL, newline, space, dash, a digit
that is also a flag, one that is not, a letter, the end.  Left out are the files with
a NUL byte where a digit belongs: `strchr()` finds the end of the string `"0...9"`, so
`mpc_input_oneof()` takes the byte for a digit, against the grammar.  `LineShape`, the
format the results are compared with, knows only the ten digits, and `nul_digit` runs
these files and shows the disagreement (`ParsedIsValid`).  Two lines are the fewest
where an entry fails after a good one; `MaxEntries = 3` is exactly full with three
lines.  `Yields` is computed from the grammar (`McYields`), and 3 is the height of its
trees.  The parser stops at the first character it cannot take, so an edit behind a
bad one shows nothing new.
`NumMod = 4096` is below the largest four-digit number, as 2^32 is below the
largest of ten digits, so numbers wrap.  In `console` two calls show what one
leaves to the next, two datagrams fill the queue, and a jump of -2 prolongs and one
of +3 ends a wait of one tick; the sequence numbers typed are in range, cut,
negative and too long.  `LongMod = 65536` is `unsigned long`.  Deadlock is checked
except in the runs of these two modules, whose programs end, and in those of Database,
which does nothing more with a file that failed to load.

**Fairness.** `loader` assumes `WF(LoaderNext)`: the loader is one thread that waits
for nothing. `console` assumes `WF(Program)` - `recvfrom()` with `MSG_DONTWAIT` never
blocks, and a shell prompt gets a line or the end of its input - and `WF(Tick)`, that
time passes. Nothing is owed by the surroundings: no datagram has to come in, so
`ConsoleEnds` holds with a server that has stopped. It relies on the bounds on lines,
datagrams and settings of the clock: the loop does not count ACKs and invalid packets
as tries, so an endless stream of them would keep it going, and a clock put back for
ever does keep a wait from ending. The walk of `LoadEnds` ends because the iterator
leaves the root (`LeftRoot`); one that stays there would keep the server from
starting.

## 4. Proofs

The modules whose names end in `Proofs`, with the lemmas of `Recursion`, prove their
theorems for every value of the constants.  The assumptions are those the modules declare,
all evaluated by TLC in the runs: `PacketsAssumption` (the buffer holds the longest
packet), `FieldsAssumption` (the one-byte cells of a request hold a byte), shapes
and ranges of the constants (`DbTableAssumption`, `ServerAssumption`,
`DatabaseAssumption`, `ClientAssumption`, `RepliesAssumption`, `SystemAssumption`,
`EntriesAssumption`, `MpcAssumption`, `RoomAssumption`, `ConsoleAssumption`),
`GrammarAssumption` (see the loader below), `RequestsAssumption` (a
request has a technology and a number, and what the clients of System send may
arrive at its server), `PayloadsAssumption` (`Payloads` has what the requests among
`Lines` ask for), `CommandsAssumption` (the widths of the integers divide each other,
as powers of two do) and `LongAssumption` (`unsigned long` holds the digits of a
subscriber number: 64 bits hold ten, 32 do not).

*Server.*  `DupMeansReceived` speaks of the set of accepted numbers and the code
compares with a counter, so the invariant must relate them:
`SeenIsRound` - what has been seen for an id is `0..expect-1`, or everything once
the counter has been round.  With the types and the two answer properties this is
`IInv`.  `ReceiveInv` is the one step that matters: by `InterpretedInRange` the
interpreted id and number are in range whatever the buffer holds, and by
`CheckPacketCodes` each code says how the number compares.  From `IInv` follow
`ServerTypeCorrect`, `ServerDupMeansReceived`, `ServerAckNamesTheRequest`,
`ServerReacceptOnlyAfterLap` (the number at which the counter stands is not in
`0..expect-1`, so if it was seen, everything was) and `ServerImplementsIntake`
(the refinement mapping takes a counter to the round `0..expect-1`; `NextOfRound`
shows its smallest missing number is the counter).

`ServerAcceptedIsWellFormed` and `ServerLookedUpAsSent` are about the stale tail of
the buffer.  `AcceptedCells`: a check that passes has compared the length field
with the boundary, so the datagram is shorter than the buffer and every cell the
server read lies in it.  `FlattenedRequest`: a datagram with these cells is, cell
by cell, what `flatten()` makes of a request.  `LookedUpAsSent` compares what is looked
up, and the verdict, with the datagram and not with the buffer both are read from:
the payload is what lies between the header and the end flag of what was received.  Of a
payload shorter than a request's, only what is there is promised to be looked up;
the rest is the end flag and stale cells (`server.c:119-124` reads five bytes whatever
the length), which nothing in the repository calls wrong.

*Client.*  The inductive invariant adds `Undecided` (a waiting call has no
outcome) to the types, `TriesAreTimeouts` and `GaveUpAfterWaiting`: the step that
gives up resets the count, so the number of waits is only known through what the
count stood for before it.

*Parser.*  Nothing is assumed of the parsers here: these theorems hold for every
grammar mpc can run with these parser types.  `Kinds` sorts the eighteen actions into
four: a parser without children returns (`Runs`), one with children is entered
(`Enters`), goes on (`Continues`), or is left (`Exits`).  The invariant then relates
the stack to the rest.  For `FailuresConsumeNothing`, each frame began where its
caller's running child began, so the position to return to is known down the whole
stack; for `NestingStaysBalanced`, the mark of an `and` lies at the height it was
called at, so that the topmost mark is always its own; for `StreamStaysInStep`, every
remembered position is a place of the text (`IsPlace`), so rewinding to it keeps
row and column right.  The theorems are about `MpcSpec`.  Loader's parse steps are
`MpcNext` and its other steps leave Mpc's variables alone (`LoaderRunsMpc`), so the
loader has all of them, and builds on them.

*Loader.*  mpc hands what a parser yields on as a `void *`, and the functions applied to
it cast it back.  Nothing in `mpc_parse_run()` can check that; it is right because the
`mpca_` functions put grammars together so.  `GrammarAssumption` says just that:
every parser that can run has a yield, and what it is made of yields what it needs
(`Composes`).  TLC evaluates it on the real grammar.  Three results follow.

`LoaderTreeSpellsTheText`.  First, what the functions on trees do to leaves, for all
trees: `TreesEquation` and `LeavesEquation` (a tree has a lower height than its parent,
so by `RecursionExists` these functions are what their definitions say),
then that tagging changes no leaf, that giving a place changes only the place, and
that folding - whichever of its three ways of splicing - joins the leaves of its
arguments, in order.  Then `TreeInv`, about every frame of the stack: what it has
gathered yields what its parser is to be folded from (`Carries`), and the leaves of it
are the characters between the frame's start and the place its running child began
at (`Gathers`).  Leaves are compared up to tags, because tags are what changes on the way.
A failing parser's frame is dropped with its gathered results, and that it took
nothing is `FailureConsumesNothing`: the two invariants are needed together.

`LoaderWalksTheText`.  `trav` is a path from the root (`IsPath`).  The leaves of the tree
fall in two, those in the subtrees that the child counters of the path have gone by
(`Taken`), and the rest.  `WalkInv` says that `walked` counts the former.  Going to the parent moves the last subtree over the
line (`ClimbLeads`); going down to the leftmost leaf of the next one passes
nothing (`LeftmostDescends`); so a leaf reached is the one after those walked over, and
with `TreeSpellsTheText` it is that character of the file.

`LoaderTypeCorrect` follows: a path is no longer than the tree is high, and no entry is
stored behind the end of the array because the test for room comes before every
node, and a node stores one at most.

*Console.*  `GivesUpNotEarly` needs an account kept at every poll: what has passed
plus what the clock was put forward is worth `Timeout + 1` for each wait so far,
and what the clock shows now besides (`Clocked`; both halves, because the clock may
show less than nothing).  `QueuedAnswerIsRead` needs that what was there when the
wait began is still there at the first try and gone from consideration after it
(`Queued`).  `CallUnderWay` ties `tries[]` to the waits.  `ConsoleImplementsClient`
maps the polling loop to the one-step waits of OpenClient: a timeout or a datagram
is one of its steps, a try that finds nothing and a tick are stutters, and the step
that gives up happens when the loop is about to find its tries used up.

`ConsoleAsksForWhatIsFiled` and the type of the packet (`LinesMakeRequests`) are about
what folds compute: `strtoul()`, `strtol()` and `strtok()` go through a string, and
`FoldLeft` is a recursive function on the sets of its places.  `FoldExists` shows
there is such a function, `ReadSteps`, `SizeSteps` and `TokenizeType` what it does at
one more place.  By induction on the digits read so far the two conversions agree
(`ReadingAgrees`): `StrToL` cuts to the width of the field after every digit, the
shell cuts once at the end, and that is the same (`ModStep`), as long as
`strtoul()` does not run into its limit (`Power10Grows`, with `LongAssumption`).
`AsTyped` is the invariant: the packet and the arguments are of one typed line.

*Database.*  `Merge`, `QSort` and `BSearch` are recursive functions, and what they
compute is proved for every table.  The library's induction theorems take a
predicate as a parameter, which the provers cannot use; `Recursion` restates them
for sets.  `LeastElement` is the well-foundedness of the naturals, `MeasureInduction`
says that a set that has each element whose smaller ones it has, has them all, and
`RecursionExists` that a definition by smaller elements is satisfied by some
function - without it a recursive definition says nothing.  So `MergeEquation`,
`QSortEquation` and `BSearchEquation` (measures: the entries left to merge, the
length, the width of the range), and from them `QSortSorts` and `LookupFinds`.

Each is in two parts.  Whatever the numbers, a sort keeps every entry as often as it
was there, and a search stays in the table and yields NULL or an entry.  Only if no
two numbers are half the range of `subscriber_num` apart does the wrapped difference
of `compare_sub_num()` order them (`CompareOrders`); then the array is sorted and the
search finds what is there.  So `DatabaseTypes` needs no hypothesis, and
`LoadsSortedAndComplete` and `LookupsFindWhatIsPresent` have `NumbersAreClose`.  It
cannot be dropped: the run `wide_numbers` violates the second without it.  It is
true of the run `database`, and of real files whose numbers are all below 2^31 or
all from 2^31 up.  The invariant `DbInv` says that the array is `Load(file)`, and the
last answer is that array's.

*System.*  `SysInv` is the server's `IInv`, the types, and `Carried`: a datagram to
the server is the flattened request of its call, and one to a client is an ACK, a
verdict or a REJECT for the request of its call.  The step that matters is
`RequestReceived`: whatever an earlier datagram left in the buffer, a request is
interpreted as it was sent (`RequestInterpreted`) and is refused or answered with
its own id, number and payload.  From `SysInv` follow `SystemTypes`,
`SystemAnswersMatchTheirCall` and `SystemRunsTheServer`: seen from the server, a
step of the system is one of its own, so the theorems about `Spec` hold there.

`VerdictsAreTrue` joins the two halves of the project: the verdict on a request, made
by `lookup()` on the sorted array, is what the file says entry by entry.  It has the
hypothesis `FileIsPlain`: every line is an entry, two lines for one number are the
same, and the numbers of the file and of the requests are close as above.  The first
is needed because loading stops silently at a bad line, the second because the array
has one place a search for a number ends at, though the file may have several
technologies for it.

`SystemOnceALap` is about a history that the server's counters do not have.  `LapInv`
adds what they know of it: each number a counter has passed since it stood at the
number of an acceptance was accepted for that id since (`PassedWasAccepted`, with
`Arc` for "passed", which goes round).  When a call is accepted again the counter is
back where it stood, and the arc is the whole range.  It needs no hypothesis, and no
bound on what the network repeats.

`SystemQuietCallsEndTruthfully` rests on `QuietInv`: while a call made in silence is
the client's last, every datagram of the client that is about belongs to it, and a
verdict it ended with is that on its request.  `issued` grows at the end, so a
datagram sent later is of a later call.

*Only model-checked:* of the loader `GatheredFits`, `ErrorIsExact` and that it implements
Database.  These are about the one grammar of database files: they need what each of
its parsers accepts, which the proofs above leave open on purpose, and the grammar is the
result of the recursive operators of `Grammar` (the constructors and the optimiser),
which the provers cannot unfold.  And all liveness (`LoadEnds`, `ConsoleEnds`),
which is beyond the prover.

## 5. Not modelled

* Printing (`alert_*`, `dump_*`, the prompt, the wording of errors), failed
  `recvfrom()` in the server (the loop goes on with nothing changed), failures of
  `socket()`/`bind()` at the server's start (the program ends before it has state).
* Byte order and the sub-structure of a field (a datagram cut inside a field).
* `getaddrinfo()`: it succeeds or fails.
* Of `mpc.c`, what this program never runs: `not`, `maybe`, `many`, `count`,
  `string`, `range`, the checks and the other parser types, input from strings and
  pipes, the small-block allocator.  The parser of the grammar *text* is not modelled either: it
  is mpc run on mpc, for one constant input, and `Grammar` starts from the
  constructors it calls.  One rule of the optimiser, for an `or` on the left of an
  `or`, is left out because no parser of this grammar meets it.
* `test_parse.c` (a driver that loads and prints), the Makefile, and the macro
  headers `closure.*`, `generic_array.h`, `variadic_macros.h` have no behaviour of
  their own.

## 6. Plan

Done: all modules and proofs above.  Left, in this order:

1. **AccessService**: the call-level abstraction of System (a call is answered
   truthfully or not at all), implemented by quiet calls.
2. **Loader**: the grammar of a database file stated as a constant set of parsers, so
   that what each accepts (`LineShape`), and with it `GatheredFits`, `ErrorIsExact` and
   the refinement of Database, can be proved from the theorems about the tree and
   its walk.
