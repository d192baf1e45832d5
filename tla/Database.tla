------------------------------ MODULE Database -------------------------------
(***************************************************************************)
(* The subscriber database as server_init() and server_handle_req() use    *)
(* it: loaded once from a file, then searched.  file is the input; found   *)
(* is the index the last lookup() returned for wanted, 0 for NULL.         *)
(***************************************************************************)
EXTENDS DbTable, FiniteSets

CONSTANTS Files,    \* the files the server may be started with
          Numbers   \* the subscriber numbers that are looked up

ASSUME DatabaseAssumption == /\ Files \subseteq Seq(Entry \cup {Malformed})
                             /\ Numbers \subseteq 0..(NumMod - 1)

VARIABLES file, status, entries, wanted, found

dbVars == <<file, status, entries, wanted, found>>

NoNumber == -1

Init ==
  /\ file \in Files
  /\ status = "new" /\ entries = <<>> /\ wanted = NoNumber /\ found = 0

(* parse_database_file(): false leaves the server unstarted.                *)
ParseDatabaseFile ==
  /\ status = "new"
  /\ IF Loads(file) THEN status' = "loaded" /\ entries' = Load(file)
                    ELSE status' = "failed" /\ UNCHANGED entries
  /\ UNCHANGED <<file, wanted, found>>

(* lookup()                                                                 *)
LookupNumber(num) ==
  /\ status = "loaded"
  /\ wanted' = num
  /\ found' = Lookup(entries, num)
  /\ UNCHANGED <<file, status, entries>>

Next == ParseDatabaseFile \/ \E num \in Numbers : LookupNumber(num)

Spec == Init /\ [][Next]_dbVars

-----------------------------------------------------------------------------
TypeOK ==
  /\ file \in Files
  /\ status \in {"new", "loaded", "failed"}
  /\ entries \in Seq(Entry) /\ Len(entries) < MaxEntries
  /\ wanted \in Numbers \cup {NoNumber}
  /\ found \in 0..Len(entries)

(***************************************************************************)
(* parse_database_file() leaves the array sorted by number and holding the *)
(* entries of the file before its first malformed line, each as often as   *)
(* it is there (the postcondition of database.h:39).                       *)
(***************************************************************************)
Copies(seq, entry) == Cardinality({i \in 1..Len(seq) : seq[i] = entry})

SortedAndComplete ==
  status = "loaded" =>
    /\ \A i \in 1..(Len(entries) - 1) : entries[i].number <= entries[i + 1].number
    /\ \A i \in 1..Len(file) : (\A j \in 1..i : file[j] # Malformed) =>
         Copies(entries, file[i]) = Copies(Parsed(file), file[i])
    /\ Len(entries) = Len(Parsed(file))

(***************************************************************************)
(* lookup() returns an entry exactly when one of the array has the number, *)
(* and then one that has it: the search never takes the wrong half.        *)
(***************************************************************************)
LookupFindsPresent ==
  wanted # NoNumber =>
    IF \E i \in 1..Len(entries) : entries[i].number = wanted
    THEN found # 0 /\ entries[found].number = wanted
    ELSE found = 0
=============================================================================
