-------------------------- MODULE DatabaseProofs -----------------------------
(***************************************************************************)
(* What holds of the subscriber database whatever the files and the        *)
(* numbers looked up, and what holds when no two of the numbers are half   *)
(* the range of subscriber_num apart, so that the wrapped difference       *)
(* orders them.                                                            *)
(***************************************************************************)
EXTENDS Database, DbTableProofs

(* No number of a file is half the range from another of it, or from one    *)
(* that is looked up.                                                       *)
NumbersAreClose ==
  \A f \in Files :
    LET held == NumbersIn(Elements(Parsed(f)))
    IN  /\ WithinHalf(held)
        /\ \A num \in Numbers, n \in held : /\ num - n < NumMod \div 2
                                            /\ n - num < NumMod \div 2

(* The array that is loaded is a sort of the parsed lines.                  *)
LEMMA LoadSorts ==
  ASSUME NEW f \in Files
  PROVE  Parsed(f) \in Seq(Entry) /\ SortOf(Load(f), Parsed(f))
  <1>1. f \in Seq(Entry \cup {Malformed})
    BY DatabaseAssumption
  <1>2. Parsed(f) \in Seq(Entry)
    BY <1>1, ParsedIsTheEntriesBefore
  <1> QED BY <1>2, QSortSorts DEF Load

-----------------------------------------------------------------------------
(* A number that is looked up is a natural number.                          *)
LEMMA NumbersAreNatural ==
  Numbers \subseteq Nat /\ NoNumber \notin Numbers
  <1>1. NumMod \in Nat
    BY DbTableAssumption
  <1> QED BY <1>1, DatabaseAssumption DEF NoNumber

(***************************************************************************)
(* The invariant: the array is what the file loads and the last answer is  *)
(* that array's; nothing is answered before.                               *)
(***************************************************************************)
FromTheFile ==
  /\ status # "loaded" => entries = <<>> /\ wanted = NoNumber /\ found = 0
  /\ status = "loaded" => Loads(file) /\ entries = Load(file)
  /\ wanted # NoNumber => found = Lookup(entries, wanted)

DbInv == TypeOK /\ FromTheFile

(* Every step keeps the invariant.                                          *)
LEMMA DbInvHolds == Spec => []DbInv
  <1>1. Init => DbInv
    BY DbTableAssumption DEF Init, DbInv, TypeOK, FromTheFile
  <1>2. DbInv /\ [Next]_dbVars => DbInv'
    <2> SUFFICES ASSUME DbInv, [Next]_dbVars PROVE DbInv'
      OBVIOUS
    <2> USE DEF DbInv
    <2>1. CASE ParseDatabaseFile
      <3>1. status = "new" /\ entries = <<>> /\ wanted' = NoNumber /\ found' = 0 /\ file' = file
        BY <2>1 DEF ParseDatabaseFile, FromTheFile
      <3>2. CASE Loads(file)
        <4>1. status' = "loaded" /\ entries' = Load(file)
          BY <2>1, <3>2 DEF ParseDatabaseFile
        <4>2. Load(file) \in Seq(Entry) /\ Len(Load(file)) = Len(Parsed(file))
          BY LoadSorts DEF TypeOK, SortOf
        <4>3. Len(Load(file)) < MaxEntries
          BY <3>2, <4>2, DbTableAssumption DEF Loads
        <4>4. TypeOK'
          BY <3>1, <4>1, <4>2, <4>3 DEF TypeOK
        <4>5. FromTheFile'
          <5>1. Loads(file')
            BY <3>1, <3>2
          <5> QED BY <3>1, <4>1, <5>1 DEF FromTheFile
        <4> QED BY <4>4, <4>5
      <3>3. CASE ~Loads(file)
        BY <2>1, <3>1, <3>3 DEF ParseDatabaseFile, TypeOK, FromTheFile
      <3> QED BY <3>2, <3>3
    <2>2. ASSUME NEW num \in Numbers, LookupNumber(num) PROVE DbInv'
      <3>1. num \in Int /\ num # NoNumber /\ entries \in Seq(Entry)
        BY NumbersAreNatural DEF TypeOK
      <3>2. Lookup(entries, num) \in 0..Len(entries)
        BY <3>1, LookupFinds
      <3>3. TypeOK'
        BY <2>2, <3>2 DEF LookupNumber, TypeOK
      <3>4. FromTheFile'
        BY <2>2, <3>1 DEF LookupNumber, FromTheFile
      <3> QED BY <3>3, <3>4
    <2>3. CASE UNCHANGED dbVars
      <3>1. TypeOK'
        BY <2>3 DEF dbVars, TypeOK
      <3>2. FromTheFile'
        BY <2>3 DEF dbVars, FromTheFile
      <3> QED BY <3>1, <3>2
    <2> QED BY <2>1, <2>2, <2>3 DEF Next
  <1> QED BY <1>1, <1>2, PTL DEF Spec

(***************************************************************************)
(* Whatever the file: the array has fewer than MAX_ENTRIES entries, and    *)
(* each lookup() yields an index of it or NULL.                            *)
(***************************************************************************)
THEOREM DatabaseTypes == Spec => []TypeOK
  <1>1. DbInv => TypeOK
    BY DEF DbInv
  <1> QED BY <1>1, DbInvHolds, PTL

(***************************************************************************)
(* parse_database_file() loses and repeats no entry, and sorts them, when  *)
(* the numbers of the file are close.                                      *)
(***************************************************************************)
THEOREM LoadsSortedAndComplete ==
  ASSUME NumbersAreClose
  PROVE  Spec => []SortedAndComplete
  <1>1. DbInv => SortedAndComplete
    <2> SUFFICES ASSUME DbInv, status = "loaded" PROVE SortedAndComplete
      BY DEF SortedAndComplete
    <2>1. file \in Files /\ entries = Load(file)
      BY DEF DbInv, TypeOK, FromTheFile
    <2>2. SortOf(entries, Parsed(file))
      BY <2>1, LoadSorts
    <2>3. Sorted(entries) /\ Len(entries) = Len(Parsed(file)) /\ Len(entries) \in Nat
      BY <2>1, <2>2, NumbersAreClose DEF SortOf, NumbersAreClose
    <2>4. \A e : Copies(entries, e) = Copies(Parsed(file), e)
      BY <2>2 DEF SortOf, Copies, Count, Places
    <2>5. \A i \in 1..(Len(entries) - 1) : entries[i].number <= entries[i + 1].number
      <3> SUFFICES ASSUME NEW i \in 1..(Len(entries) - 1)
                   PROVE  entries[i].number <= entries[i + 1].number
        OBVIOUS
      <3>1. i \in 1..Len(entries) /\ i + 1 \in 1..Len(entries) /\ i < i + 1
        BY <2>3
      <3> QED BY <2>3, <3>1 DEF Sorted
    <2> QED BY <2>3, <2>4, <2>5 DEF SortedAndComplete
  <1> QED BY <1>1, DbInvHolds, PTL

(***************************************************************************)
(* lookup() never takes the wrong half, when the numbers are close.        *)
(***************************************************************************)
THEOREM LookupsFindWhatIsPresent ==
  ASSUME NumbersAreClose
  PROVE  Spec => []LookupFindsPresent
  <1>1. DbInv => LookupFindsPresent
    <2> SUFFICES ASSUME DbInv, wanted # NoNumber PROVE LookupFindsPresent
      BY DEF LookupFindsPresent
    <2>1. /\ file \in Files /\ entries \in Seq(Entry) /\ wanted \in Numbers
          /\ entries = Load(file) /\ found = Lookup(entries, wanted)
      BY DEF DbInv, TypeOK, FromTheFile
    <2>2. SortOf(entries, Parsed(file))
      BY <2>1, LoadSorts
    <2>3. Sorted(entries)
      BY <2>1, <2>2 DEF SortOf, NumbersAreClose
    <2>4. Near(wanted, entries)
      <3> SUFFICES ASSUME NEW i \in 1..Len(entries)
                   PROVE  /\ wanted - entries[i].number < NumMod \div 2
                          /\ entries[i].number - wanted < NumMod \div 2
        BY DEF Near
      <3>1. entries[i].number \in NumbersIn(Elements(Parsed(file)))
        BY <2>2 DEF SortOf, NumbersIn, Elements
      <3> QED BY <2>1, <3>1 DEF NumbersAreClose
    <2>5. wanted \in Int
      BY <2>1, NumbersAreNatural
    <2> QED BY <2>1, <2>3, <2>4, <2>5, LookupFinds DEF LookupFindsPresent
  <1> QED BY <1>1, DbInvHolds, PTL
=============================================================================
